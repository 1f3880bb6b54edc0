-------------------------------- MODULE Cli --------------------------------
(***************************************************************************)
(* The command of main.rs and the drivers of lib.rs (process_file,         *)
(* process_bytes): one invocation, from its arguments to its exit code, on *)
(* a file system that another process may write to, with reads and writes  *)
(* that may fail and a process that may die anywhere.                      *)
(*                                                                         *)
(* A file is [kind, readonly, exec, content].  A content is [dead, relr,   *)
(* trimmed, packed, version]: whether the analysis finds dead code in it,  *)
(* how the RELR packer takes it, and what was done to it.  Torn is what a  *)
(* write leaves that did not finish; the analysis finds no function in it. *)
(* "-" is a name like any other, except that a stream given it as its      *)
(* input reads the node "stdin".                                           *)
(***************************************************************************)
EXTENDS Integers, SequencesExt

CONSTANTS
  ArgLists,        \* argument lists tried
  Paths, At, Link, \* names, the file each leads to, and how
  Disks,           \* contents of the file system before the run
  None, Torn,
  MaxEdits         \* writes by another process

Contents == [dead : BOOLEAN, relr : {"packable", "static", "refused"},
             trimmed : BOOLEAN, packed : BOOLEAN, version : {0, 1}]

Switches == {"--help", "--version", "--license", "--in-place", "--dry-run",
             "--relr", "--relr-static", "--max-sccp-instrs", "--max-sccp-instrs=10",
             "--max-sccp-instrs=x", "--bogus"}

Args == Switches \cup Paths

\* A file has contents, complete before the run, and nothing else has.
ASSUME CliAssumption ==
  /\ None \notin Contents /\ Torn \notin Contents /\ None # Torn
  /\ MaxEdits \in Nat
  /\ "-" \in Paths /\ Paths \cap Switches = {}
  /\ ArgLists \subseteq Seq(Args)
  /\ \A d \in Disks :
       /\ "stdin" \in DOMAIN d /\ d["stdin"].kind = "file"
       /\ \A p \in Paths : At[p] \in DOMAIN d
       /\ d \in [DOMAIN d -> [kind : {"none", "file", "dir"}, readonly : BOOLEAN,
                             exec : BOOLEAN, content : Contents \cup {None}]]
       /\ \A n \in DOMAIN d : d[n].kind = "file" <=> d[n].content \in Contents

VARIABLES
  args, job,       \* arguments and what they parse to
  disk0, disk,     \* the file system before the run and now
  stdout,          \* what standard output received
  buffered,        \* whether its buffer holds the bytes behind the last newline
  pc,
  k,               \* the file being processed, counted from 1
  data, result,    \* bytes read, bytes to write
  rc,              \* exit code so far
  outcome,         \* per file: "none", "ok" or "error"
  edits

frame == <<args, job, disk0, edits>>
vars  == <<args, job, disk0, disk, stdout, buffered, pc, k, data, result, rc, outcome, edits>>
output == <<stdout, buffered>>

-----------------------------------------------------------------------------
(* Arguments. *)

\* --relr never lowers --relr-static.
RelrMax(a, b) == IF "Static" \in {a, b} THEN "Static"
                 ELSE IF "On" \in {a, b} THEN "On" ELSE "Off"

Blank == [kind |-> "args", in_place |-> FALSE, dry_run |-> FALSE,
          relr |-> "Off", wants_value |-> FALSE, files |-> <<>>]

\* One turn of the option loop; an early return keeps its kind.
ParseOne(st, a) ==
  CASE st.kind # "args" -> st
    [] st.kind = "args" /\ st.wants_value ->
         IF a = "10" THEN [st EXCEPT !.wants_value = FALSE]
         ELSE [st EXCEPT !.kind = "Error"]
    [] st.kind = "args" /\ ~st.wants_value ->
         CASE a \in {"--help", "--version", "--license"} -> [st EXCEPT !.kind = "Info"]
           [] a = "--in-place"        -> [st EXCEPT !.in_place = TRUE]
           [] a = "--dry-run"         -> [st EXCEPT !.dry_run = TRUE]
           [] a = "--relr"            -> [st EXCEPT !.relr = RelrMax(@, "On")]
           [] a = "--relr-static"     -> [st EXCEPT !.relr = "Static"]
           [] a = "--max-sccp-instrs" -> [st EXCEPT !.wants_value = TRUE]
           [] a = "--max-sccp-instrs=10" -> st
           [] a \in {"--max-sccp-instrs=x", "--bogus"} -> [st EXCEPT !.kind = "Error"]
           [] a \in Paths             -> [st EXCEPT !.files = Append(@, a)]

parse_args(list) ==
  LET st[i \in 0..Len(list)] == IF i = 0 THEN Blank ELSE ParseOne(st[i - 1], list[i])
      last == st[Len(list)]
      n    == Len(last.files)
      kind == CASE last.kind # "args" -> last.kind
                [] last.kind = "args" ->
                     IF last.wants_value \/ n = 0 THEN "Error"
                     ELSE IF last.in_place THEN "InPlace"
                     ELSE IF n > 2 THEN "Error" ELSE "Stream"
  IN [last EXCEPT !.kind = kind]

-----------------------------------------------------------------------------
(* Analysis and rewriting, seen from outside. *)

\* Dead code is removed, nothing on a dry run; removal may bare more.
trim_dead_code(c, dry_run) ==
  IF c = Torn THEN {None}
  ELSE IF ~c.dead \/ dry_run THEN {None}
  ELSE {[c EXCEPT !.trimmed = TRUE, !.dead = more] : more \in BOOLEAN}

\* The packer refuses some images, a static-pie unless told otherwise.
apply_relr(c, relr) ==
  IF c = Torn THEN None
  ELSE IF c.relr = "packable" \/ (c.relr = "static" /\ relr = "Static")
  THEN [c EXCEPT !.packed = TRUE] ELSE None

\* Mutant: a refused packing discards the trimmed image.
process_bytes_PackedOnly(c, dry_run, relr) ==
  UNION {LET packed == apply_relr(IF t = None THEN c ELSE t, relr)
         IN IF relr = "Off" THEN {t} ELSE IF dry_run THEN {None} ELSE {packed} :
         t \in trim_dead_code(c, dry_run)}

\* Mutant: a dry run still packs.
process_bytes_PackDry(c, dry_run, relr) ==
  UNION {LET packed == apply_relr(IF t = None THEN c ELSE t, relr)
         IN IF relr = "Off" THEN {t}
            ELSE {IF packed # None THEN packed ELSE t} :
         t \in trim_dead_code(c, dry_run)}

\* The images that may come out, None when nothing is to be written.
process_bytes(c, dry_run, relr) ==
  UNION {LET packed == apply_relr(IF t = None THEN c ELSE t, relr)
         IN IF relr = "Off" THEN {t}
            ELSE IF dry_run THEN {None}
            ELSE {IF packed # None THEN packed ELSE t} :
         t \in trim_dead_code(c, dry_run)}

-----------------------------------------------------------------------------
Init ==
  /\ args \in ArgLists /\ job = Blank
  /\ disk0 \in Disks /\ disk = disk0
  /\ stdout = None /\ buffered = FALSE
  /\ pc = "parse" /\ k = 1
  /\ data = None /\ result = None
  /\ rc = 0 /\ outcome = <<>> /\ edits = 0

Finish(code) == pc' = "done" /\ rc' = code

Main ==
  /\ pc = "parse"
  /\ job' = parse_args(args)
  /\ outcome' = [i \in DOMAIN job'.files |-> "none"]
  /\ CASE job'.kind = "Info"    -> Finish(0)
       [] job'.kind = "Error"   -> Finish(1)
       [] job'.kind = "InPlace" -> pc' = "check" /\ UNCHANGED rc
       [] job'.kind = "Stream"  -> pc' = "read"  /\ UNCHANGED rc
  /\ UNCHANGED <<args, disk0, disk, output, k, data, result, edits>>

Path == job.files[k]

\* Where the input of a stream or the file at work is; "-" is only the
\* standard input of a stream.
Source == IF job.kind = "Stream" /\ Path = "-" THEN "stdin" ELSE At[Path]
File == disk[Source]

\* Mutant: an error ends the run.
FileDone_Stop(code) ==
  /\ rc' = IF code # 0 THEN code ELSE rc
  /\ outcome' = [outcome EXCEPT ![k] = IF code = 0 THEN "ok" ELSE "error"]
  /\ k' = k + 1
  /\ pc' = IF k = Len(job.files) \/ code # 0 THEN "done" ELSE "check"

\* Mutant: a failed file is tried again.
FileDone_Retry(code) ==
  /\ rc' = IF code # 0 THEN code ELSE rc
  /\ outcome' = [outcome EXCEPT ![k] = IF code = 0 THEN "ok" ELSE "error"]
  /\ k' = IF code = 0 THEN k + 1 ELSE k
  /\ pc' = IF code = 0 /\ k = Len(job.files) THEN "done" ELSE "check"

\* Mutant: the end of the list is noticed one file late.
FileDone_Late(code) ==
  /\ rc' = IF code # 0 THEN code ELSE rc
  /\ outcome' = [outcome EXCEPT ![k] = IF code = 0 THEN "ok" ELSE "error"]
  /\ k' = k + 1
  /\ pc' = IF k > Len(job.files) THEN "done" ELSE "check"

\* The loop of run_in_place: note the result, go on with the next file.
FileDone(code) ==
  /\ rc' = IF code # 0 THEN code ELSE rc
  /\ outcome' = [outcome EXCEPT ![k] = IF code = 0 THEN "ok" ELSE "error"]
  /\ k' = k + 1
  /\ pc' = IF k = Len(job.files) THEN "done" ELSE "check"

\* A file or a stream is finished with.
Done(code) ==
  IF job.kind = "InPlace" THEN FileDone(code)
  ELSE Finish(code) /\ UNCHANGED <<k, outcome>>

\* The checks before a file is read in place.
Acceptable ==
  /\ File.kind = "file"
  /\ Link[Path] # "outside"
  /\ job.dry_run \/ ~File.readonly

process_file ==
  /\ pc = "check"
  /\ IF Acceptable THEN pc' = "read" /\ UNCHANGED <<rc, k, outcome>> ELSE FileDone(1)
  /\ UNCHANGED <<frame, disk, output, data, result>>

read_input ==
  /\ pc = "read"
  /\ \/ /\ File.kind = "file"
        /\ data' = File.content
        /\ pc' = "process"
        /\ UNCHANGED <<rc, k, outcome>>
     \/ Done(1) /\ UNCHANGED data
  /\ UNCHANGED <<frame, disk, output, result>>

\* A stream always passes something on; in place, None leaves the file.
Process ==
  /\ pc = "process"
  /\ \E r \in process_bytes(data, job.dry_run, job.relr) :
       LET out == IF r = None /\ job.kind = "Stream" THEN data ELSE r
       IN IF (job.kind = "Stream" /\ job.dry_run) \/ out = None
          THEN Done(0) /\ UNCHANGED result
          ELSE result' = out /\ pc' = "open" /\ UNCHANGED <<rc, k, outcome>>
  /\ UNCHANGED <<frame, disk, output, data>>

\* A stream that names no output writes to standard output.
ToStdout == job.kind = "Stream" /\ Len(job.files) = 1

\* The file any other write goes to, whatever its name.
Target == IF job.kind = "InPlace" THEN Path ELSE job.files[2]

Put(path, content) ==
  disk' = [disk EXCEPT ![At[path]] = [@ EXCEPT !.kind = "file", !.content = content]]

\* fs::write first opens and truncates.
OpenTarget ==
  /\ pc = "open"
  /\ \/ /\ ToStdout
        /\ pc' = "write" /\ UNCHANGED <<disk, rc, k, outcome>>
     \/ /\ ~ToStdout /\ disk[At[Target]].kind # "dir"
        /\ ~disk[At[Target]].readonly
        /\ Put(Target, Torn)
        /\ pc' = "write" /\ UNCHANGED <<rc, k, outcome>>
     \/ ~ToStdout /\ Done(1) /\ UNCHANGED disk
  /\ UNCHANGED <<frame, output, data, result>>

\* ... and then writes everything, or fails on the way.
WriteFile ==
  /\ pc = "write" /\ ~ToStdout
  /\ \/ /\ Put(Target, result)
        /\ IF job.kind = "Stream" THEN pc' = "chmod" /\ UNCHANGED <<rc, k, outcome>>
           ELSE Done(0)
     \/ Done(1) /\ UNCHANGED disk
  /\ UNCHANGED <<frame, output, data, result>>

\* The file of a stream is made executable, if that can be done.
set_executable ==
  /\ pc = "chmod"
  /\ \/ disk' = [disk EXCEPT ![At[Target]] = [@ EXCEPT !.exec = TRUE]]
     \/ UNCHANGED disk
  /\ Done(0)
  /\ UNCHANGED <<frame, output, data, result>>

\* Mutant: an error of standard output is not looked at.
WriteStdout_Ignored ==
  /\ pc = "write" /\ ToStdout
  /\ \/ \E kept \in BOOLEAN : stdout' = (IF kept THEN Torn ELSE result) /\ buffered' = kept
     \/ stdout' = Torn /\ UNCHANGED buffered
  /\ pc' = "exit"
  /\ UNCHANGED <<frame, disk, k, data, result, rc, outcome>>

\* Standard output is line-buffered: write_all passes on what ends in a
\* newline and keeps the rest if that is less than a buffer.
WriteStdout ==
  /\ pc = "write" /\ ToStdout
  /\ \/ /\ \E kept \in BOOLEAN : stdout' = (IF kept THEN Torn ELSE result) /\ buffered' = kept
        /\ pc' = "exit" /\ UNCHANGED <<rc, k, outcome>>
     \/ stdout' = Torn /\ UNCHANGED buffered /\ Done(1)
  /\ UNCHANGED <<frame, disk, data, result>>

\* process::exit writes what is still buffered; nobody sees an error.
ExitFlush ==
  /\ pc = "exit"
  /\ \/ buffered /\ stdout' = result /\ buffered' = FALSE
     \/ UNCHANGED output
  /\ Done(0)
  /\ UNCHANGED <<frame, disk, data, result>>

TrimStep == Main \/ process_file \/ read_input \/ Process \/ OpenTarget \/ WriteFile
              \/ set_executable \/ WriteStdout \/ ExitFlush

\* The process dies: a signal, a power cut or a panic in the analysis.
Crash ==
  /\ pc \notin {"done", "crashed"}
  /\ pc' = "crashed"
  /\ UNCHANGED <<frame, disk, output, k, data, result, rc, outcome>>

\* Another process replaces a complete file by a new build of it.
Edit ==
  /\ edits < MaxEdits /\ pc \notin {"done", "crashed"}
  /\ edits' = edits + 1
  /\ \E n \in DOMAIN disk :
       /\ disk[n].kind = "file" /\ disk[n].content # Torn
       /\ disk' = [disk EXCEPT ![n].content =
                    [@ EXCEPT !.version = 1, !.trimmed = FALSE, !.packed = FALSE]]
  /\ UNCHANGED <<args, job, disk0, output, pc, k, data, result, rc, outcome>>

Over == pc \in {"done", "crashed"} /\ UNCHANGED vars

Next == TrimStep \/ Crash \/ Edit \/ Over

Spec == Init /\ [][Next]_vars

\* trim itself keeps running; it waits for nobody.
FairSpec == Spec /\ WF_vars(TrimStep)

-----------------------------------------------------------------------------
(* Properties. *)

\* Types; and no file past the end of the argument list is ever looked at.
TypeOK ==
  /\ pc \in {"parse", "check", "read", "process", "open", "write", "chmod", "exit", "done",
            "crashed"}
  /\ rc \in {0, 1} /\ buffered \in BOOLEAN
  /\ job.kind \in {"args", "Info", "Error", "InPlace", "Stream"}
  /\ outcome \in [DOMAIN job.files -> {"none", "ok", "error"}]
  /\ pc \notin {"parse", "done", "crashed"} => k \in DOMAIN job.files
  /\ \A n \in DOMAIN disk : disk[n].kind \in {"none", "file", "dir"}

\* With --dry-run, in every mode and with every other option, trim writes
\* neither a file nor standard output.
DryRunReadOnly ==
  [][job.dry_run => (edits' # edits \/ disk' = disk) /\ stdout' = stdout]_vars

\* Exit code 0 means that no file was left torn, and that standard output
\* lacks at most what was still buffered at exit: a write that failed after
\* truncating, or in write_all, is always reported.
SuccessMeansWhole ==
  pc = "done" /\ rc = 0 =>
    /\ \A n \in DOMAIN disk : disk[n].content # Torn
    /\ stdout = Torn => buffered

\* "0: All files processed successfully": with exit code 0 all of the image
\* is on standard output.  The code does not flush (run_stream), so the
\* bytes behind the last newline can be lost without an error.
StdoutWhole == pc = "done" /\ rc = 0 => stdout # Torn

\* An error on one file stops no other: at the end every file named with
\* --in-place was processed, and the exit code is 1 iff one of them failed.
ErrorsIsolated ==
  pc = "done" /\ job.kind = "InPlace" =>
    /\ \A i \in DOMAIN outcome : outcome[i] # "none"
    /\ rc = 1 <=> \E i \in DOMAIN outcome : outcome[i] = "error"

\* What a run owes for content c: a trimmed image if there was dead code
\* and a packed one if asked for and accepted, whatever the other did.
Owed(c, new) ==
  IF c = Torn THEN new = c
  ELSE /\ new # Torn
       /\ new.version = c.version
       /\ new.trimmed = (c.trimmed \/ c.dead)
       /\ new.packed = (c.packed \/ (job.relr # "Off" /\ apply_relr(c, job.relr) # None))

(***************************************************************************)
(* A run that succeeds, undisturbed, delivers what it owes: a refused RELR *)
(* packing does not lose the trimmed image, an image with nothing to       *)
(* remove is passed on.  On standard output this holds if nothing is left  *)
(* in the buffer.                                                          *)
(***************************************************************************)
Delivered ==
  pc = "done" /\ edits = 0 /\ ~job.dry_run =>
    /\ job.kind = "InPlace" =>
         \A i \in DOMAIN outcome :
           /\ outcome[i] = "ok"
           /\ \A j \in DOMAIN outcome \ {i} : At[job.files[j]] # At[job.files[i]]
           => Owed(disk0[At[job.files[i]]].content, disk[At[job.files[i]]].content)
    /\ job.kind = "Stream" /\ rc = 0 =>
         IF ToStdout THEN buffered \/ Owed(disk0[Source].content, stdout)
         ELSE Owed(disk0[Source].content, disk[At[Target]].content)

\* Every run ends, whatever fails on the way.
Termination == <>(pc \in {"done", "crashed"})

=============================================================================
