----------------------------- MODULE CliProofs -----------------------------
(***************************************************************************)
(* Proofs about Cli, for any argument lists, any file system and any       *)
(* number of writes by another process.                                    *)
(***************************************************************************)
EXTENDS Cli, Facts

-----------------------------------------------------------------------------
(* Arguments. *)

Jobs == [kind : {"args", "Info", "Error", "InPlace", "Stream"},
         in_place : BOOLEAN, dry_run : BOOLEAN, relr : {"Off", "On", "Static"},
         wants_value : BOOLEAN, files : Seq(Paths)]

\* The states of the option loop.
Partial == {j \in Jobs : j.kind \in {"args", "Info", "Error"}}

\* A turn of the option loop leads from a state of it to another.
LEMMA ParseOneType ==
  ASSUME NEW st \in Partial, NEW a \in Args
  PROVE  ParseOne(st, a) \in Partial
<1> USE CliAssumption DEF Partial, Jobs, Args
<1>1. CASE st.kind # "args"
  BY <1>1 DEF ParseOne
<1>2. CASE st.kind = "args" /\ st.wants_value
  BY <1>2 DEF ParseOne
<1>3. CASE st.kind = "args" /\ ~st.wants_value
  <2>1. RelrMax(st.relr, "On") \in {"Off", "On", "Static"}
    BY DEF RelrMax
  <2>2. CASE a \in Switches
    BY <1>3, <2>1, <2>2 DEF ParseOne, Switches
  <2>3. CASE a \in Paths
    <3>1. Append(st.files, a) \in Seq(Paths)
      BY <2>3
    <3>2. ParseOne(st, a) = [st EXCEPT !.files = Append(@, a)]
      BY <1>3, <2>3 DEF ParseOne, Switches
    <3> QED BY <3>1, <3>2
  <2> QED BY <2>2, <2>3
<1> QED BY <1>1, <1>2, <1>3

\* Every argument list is an error, asks for information, or names files:
\* one or two for a stream.
LEMMA ParseType ==
  ASSUME NEW list \in Seq(Args)
  PROVE  /\ parse_args(list) \in Jobs
         /\ parse_args(list).kind # "args"
         /\ parse_args(list).kind = "InPlace" => parse_args(list).files # <<>>
         /\ parse_args(list).kind = "Stream" => Len(parse_args(list).files) \in {1, 2}
<1> DEFINE n == Len(list)
<1>1. n \in Nat /\ \A i \in 1..n : list[i] \in Args
  OBVIOUS
<1>2. Blank \in Partial
  BY DEF Blank, Partial, Jobs
<1>3. \E g : g = [i \in 0..Len(list) |-> IF i = 0 THEN Blank ELSE ParseOne(g[i - 1], list[i])]
  <2> DEFINE step == [i \in 1..n |-> [d \in Partial |-> ParseOne(d, list[i])]]
  <2>1. step \in [1..n -> [Partial -> Partial]]
    BY <1>1, ParseOneType
  <2>2. \A i \in 1..n, d \in Partial : step[i][d] = ParseOne(d, list[i])
    OBVIOUS
  <2> HIDE DEF step
  <2>3. PICK f \in [0..n -> Partial] : Iterates(f, Blank, step, n)
    BY <1>1, <1>2, <2>1, RecursionExists
  <2>4. \A i \in 0..n : f[i] = IF i = 0 THEN Blank ELSE ParseOne(f[i - 1], list[i])
    BY <1>1, <2>2, <2>3 DEF Iterates
  <2>5. f = [i \in 0..n |-> IF i = 0 THEN Blank ELSE ParseOne(f[i - 1], list[i])]
    BY <2>4
  <2> QED BY <2>5
<1> DEFINE st[i \in 0..Len(list)] == IF i = 0 THEN Blank ELSE ParseOne(st[i - 1], list[i])
           last == st[Len(list)]
<1>4. st = [i \in 0..Len(list) |-> IF i = 0 THEN Blank ELSE ParseOne(st[i - 1], list[i])]
  BY <1>3, Zenon
<1>5. last \in Partial
  <2> HIDE DEF st
  <2> DEFINE S == {i \in 0..n : st[i] \in Partial}
  <2>1. 0 \in S
    BY <1>1, <1>2, <1>4
  <2>2. \A i \in 0..(n - 1) : i \in S => i + 1 \in S
    BY <1>1, <1>4, ParseOneType
  <2>3. 0..n \subseteq S
    <3> HIDE DEF S
    <3> QED BY <1>1, <2>1, <2>2, UpTo
  <2> QED BY <1>1, <2>3
<1> DEFINE kind == CASE last.kind # "args" -> last.kind
                     [] last.kind = "args" ->
                          IF last.wants_value \/ Len(last.files) = 0 THEN "Error"
                          ELSE IF last.in_place THEN "InPlace"
                          ELSE IF Len(last.files) > 2 THEN "Error" ELSE "Stream"
<1>6. parse_args(list) = [last EXCEPT !.kind = kind]
  BY DEF parse_args
<1>7. last \in Jobs /\ last.kind \in {"args", "Info", "Error"}
  BY <1>5 DEF Partial
<1> HIDE DEF last
<1>8. Len(last.files) \in Nat /\ (Len(last.files) = 0 => last.files = <<>>)
      /\ last.files \in Seq(Paths)
  BY <1>7 DEF Jobs
<1>9. /\ kind \in {"Info", "Error", "InPlace", "Stream"}
      /\ kind = "InPlace" => Len(last.files) # 0
      /\ kind = "Stream" => Len(last.files) \in {1, 2}
  <2>1. CASE last.kind # "args"
    BY <1>7, <2>1
  <2>2. CASE last.kind = "args" /\ (last.wants_value \/ Len(last.files) = 0)
    BY <2>2
  <2>3. CASE /\ last.kind = "args" /\ ~(last.wants_value \/ Len(last.files) = 0)
             /\ last.in_place
    BY <2>3
  <2>4. CASE /\ last.kind = "args" /\ ~(last.wants_value \/ Len(last.files) = 0)
             /\ ~last.in_place
    <3>1. kind = IF Len(last.files) > 2 THEN "Error" ELSE "Stream"
      BY <2>4
    <3>2. Len(last.files) \in Nat /\ Len(last.files) # 0
      BY <1>8, <2>4
    <3>3. \A m \in Nat : m # 0 => m > 2 \/ m \in {1, 2}
      OBVIOUS
    <3> HIDE DEF kind
    <3> QED BY <3>1, <3>2, <3>3
  <2> QED BY <2>1, <2>2, <2>3, <2>4
<1> HIDE DEF kind
<1>10. /\ [last EXCEPT !.kind = kind] \in Jobs
       /\ [last EXCEPT !.kind = kind].kind = kind
       /\ [last EXCEPT !.kind = kind].files = last.files
  BY <1>7, <1>9 DEF Jobs
<1> QED BY <1>6, <1>8, <1>9, <1>10

-----------------------------------------------------------------------------
(* Analysis and rewriting. *)

\* What is owed under a --relr option, apart from the job it comes from.
OwedBy(relr, c, new) ==
  IF c = Torn THEN new = c
  ELSE /\ new # Torn
       /\ new.version = c.version
       /\ new.trimmed = (c.trimmed \/ c.dead)
       /\ new.packed = (c.packed \/ (relr # "Off" /\ apply_relr(c, relr) # None))

\* What an analysis may be given, and what comes out of it: on a dry run and
\* for a torn file nothing, otherwise an image that is what is owed.
LEMMA ProcessBytes ==
  ASSUME NEW relr \in {"Off", "On", "Static"},
         NEW c \in Contents \cup {Torn}, NEW dry \in BOOLEAN,
         NEW r \in process_bytes(c, dry, relr)
  PROVE  /\ r \in Contents \cup {None}
         /\ dry \/ c = Torn => r = None
         /\ c = Torn => OwedBy(relr, c, c)
         /\ ~dry /\ c # Torn => OwedBy(relr, c, IF r = None THEN c ELSE r)
<1> DEFINE packed(t) == apply_relr(IF t = None THEN c ELSE t, relr)
<1>1. PICK t \in trim_dead_code(c, dry) :
        r = IF relr = "Off" THEN t
            ELSE IF dry THEN None
            ELSE IF packed(t) # None THEN packed(t) ELSE t
  BY DEF process_bytes
<1>2. CASE c = Torn
  <2>1. t = None
    BY <1>2 DEF trim_dead_code
  <2>2. packed(t) = None
    BY <1>2, <2>1 DEF apply_relr
  <2> QED BY <1>1, <1>2, <2>1, <2>2 DEF OwedBy
<1>3. CASE c # Torn /\ dry
  <2>1. t = None
    BY <1>3 DEF trim_dead_code
  <2> QED BY <1>1, <1>3, <2>1
<1>4. CASE c # Torn /\ ~dry
  <2> DEFINE d == IF t = None THEN c ELSE t
             yes == c.relr = "packable" \/ (c.relr = "static" /\ relr = "Static")
  <2>1. c \in Contents
    BY <1>4
  <2>2. /\ t \in Contents \cup {None}
        /\ d \in Contents
        /\ d.relr = c.relr /\ d.version = c.version /\ d.packed = c.packed
        /\ d.trimmed = (c.trimmed \/ c.dead)
    <3>1. CASE ~c.dead
      <4>1. t = None
        BY <1>4, <3>1 DEF trim_dead_code
      <4> QED BY <2>1, <3>1, <4>1 DEF Contents
    <3>2. CASE c.dead
      <4>1. PICK more \in BOOLEAN : t = [c EXCEPT !.trimmed = TRUE, !.dead = more]
        BY <1>4, <3>2 DEF trim_dead_code
      <4>2. t \in Contents
        BY <2>1, <4>1 DEF Contents
      <4>3. t # None
        BY <4>2, CliAssumption
      <4>4. /\ t.relr = c.relr /\ t.version = c.version /\ t.packed = c.packed
            /\ t.trimmed = TRUE
        BY <2>1, <4>1 DEF Contents
      <4> QED BY <2>1, <3>2, <4>2, <4>3, <4>4 DEF Contents
    <3> QED BY <3>1, <3>2
  <2>3. packed(t) = IF yes THEN [d EXCEPT !.packed = TRUE] ELSE None
    BY <2>2, CliAssumption DEF apply_relr
  <2>4. (apply_relr(c, relr) # None) = yes
    <3>1. [c EXCEPT !.packed = TRUE] \in Contents
      BY <2>1 DEF Contents
    <3> QED BY <1>4, <3>1, CliAssumption DEF apply_relr
  <2>5. [d EXCEPT !.packed = TRUE] \in Contents
    BY <2>2 DEF Contents
  <2>6. (IF r = None THEN c ELSE r)
          = IF relr # "Off" /\ yes THEN [d EXCEPT !.packed = TRUE] ELSE d
    BY <1>1, <1>4, <2>2, <2>3, <2>5, CliAssumption
  <2>7. r \in Contents \cup {None}
    BY <1>1, <1>4, <2>2, <2>3, <2>5
  <2> HIDE DEF d, yes, packed
  <2>8. ASSUME NEW e, e = IF relr # "Off" /\ yes THEN [d EXCEPT !.packed = TRUE] ELSE d
        PROVE  OwedBy(relr, c, e)
    <3>1. e \in Contents /\ e # Torn
      BY <2>2, <2>5, <2>8, CliAssumption
    <3>2. /\ e.version = d.version /\ e.trimmed = d.trimmed
          /\ e.packed = (d.packed \/ (relr # "Off" /\ yes))
      BY <2>2, <2>8 DEF Contents
    <3> QED BY <1>4, <2>2, <2>4, <3>1, <3>2 DEF OwedBy
  <2> QED BY <1>4, <2>6, <2>7, <2>8
<1> QED BY <1>2, <1>3, <1>4

-----------------------------------------------------------------------------
(* Types. *)

Files == [kind : {"none", "file", "dir"}, readonly : BOOLEAN,
          exec : BOOLEAN, content : Contents \cup {None, Torn}]

\* Where a file is being worked on, and from where on its bytes are held.
Active  == {"check", "read", "process", "open", "write", "chmod", "exit"}
Holding == {"process", "open", "write", "chmod", "exit"}
Writing == {"open", "write", "chmod", "exit"}

\* The file at work is one of the list, and the only one of a stream.
AtWork ==
  /\ pc = "parse" => job = Blank /\ k = 1 /\ rc = 0
  /\ pc \in Active => job.kind \in {"InPlace", "Stream"} /\ k \in DOMAIN job.files
  /\ pc = "check" => job.kind = "InPlace"
  /\ pc = "chmod" => job.kind = "Stream" /\ ~ToStdout
  /\ pc = "exit" => ToStdout
  /\ job.kind = "Stream" => k = 1 /\ Len(job.files) \in {1, 2}

DiskOK ==
  /\ disk \in [DOMAIN disk0 -> Files]
  /\ \A n \in DOMAIN disk0 : disk[n].kind = "file" <=> disk[n].content # None

\* A run makes a file only as the output of a stream; in place it only
\* writes what was a file.
FilesKept ==
  /\ job.kind # "Stream" => \A n \in DOMAIN disk0 : disk[n].kind = disk0[n].kind
  /\ job.kind = "InPlace" /\ pc \in Holding => disk[At[Path]].kind = "file"

TypeInv ==
  /\ args \in ArgLists /\ disk0 \in Disks /\ job \in Jobs /\ edits \in Nat
  /\ pc \in Active \cup {"parse", "done", "crashed"}
  /\ rc \in {0, 1} /\ k \in Nat /\ buffered \in BOOLEAN
  /\ outcome \in [DOMAIN job.files -> {"none", "ok", "error"}]
  /\ pc \in Holding => data \in Contents \cup {Torn}
  /\ pc \in Writing => result \in Contents \cup {Torn}
  /\ AtWork /\ DiskOK /\ FilesKept

\* The files a step may touch exist as nodes of the file system.
LEMMA NodesExist ==
  ASSUME TypeInv, pc \in Active
  PROVE  /\ Path \in Paths /\ Source \in DOMAIN disk0
         /\ ~ToStdout => Target \in Paths /\ At[Target] \in DOMAIN disk0
         /\ job.kind = "InPlace" => Source = At[Path] /\ Target = Path /\ ~ToStdout
<1>1. /\ job.files \in Seq(Paths) /\ k \in DOMAIN job.files /\ disk0 \in Disks
      /\ job.kind \in {"InPlace", "Stream"}
  BY DEF TypeInv, AtWork, Jobs
<1>2. Path \in Paths
  BY <1>1 DEF Path
<1>3. Source \in DOMAIN disk0
  BY <1>1, <1>2, CliAssumption DEF Source
<1>4. ~ToStdout => Target \in Paths
  <2>1. CASE job.kind = "InPlace"
    BY <1>2, <2>1 DEF Target
  <2>2. CASE job.kind = "Stream" /\ Len(job.files) = 2
    BY <1>1, <2>2 DEF Target
  <2> QED BY <1>1, <2>1, <2>2 DEF ToStdout, TypeInv, AtWork
<1> QED BY <1>1, <1>2, <1>3, <1>4, CliAssumption DEF Source, Target, ToStdout

\* Finishing with a file moves on to the next one, or ends the run.
LEMMA DoneEffect ==
  ASSUME TypeInv, pc \in Active, UNCHANGED job, NEW code \in {0, 1}, Done(code)
  PROVE  /\ pc' \in {"done", "check"} /\ rc' \in {0, 1} /\ k' \in Nat
         /\ pc' = "check" => job.kind = "InPlace" /\ k' \in DOMAIN job.files
         /\ job.kind = "Stream" => k' = k
         /\ outcome' \in [DOMAIN job.files -> {"none", "ok", "error"}]
         /\ rc' = 0 => rc = 0 \/ job.kind = "Stream"
         /\ rc' = 0 => code = 0
<1>1. /\ k \in DOMAIN job.files /\ job.files \in Seq(Paths) /\ rc \in {0, 1}
      /\ outcome \in [DOMAIN job.files -> {"none", "ok", "error"}]
      /\ job.kind \in {"InPlace", "Stream"}
  BY DEF TypeInv, AtWork, Jobs
<1>2. CASE job.kind = "InPlace"
  <2>1. FileDone(code)
    BY <1>2 DEF Done
  <2>2. k + 1 \in Nat /\ (k # Len(job.files) => k + 1 \in DOMAIN job.files)
    BY <1>1
  <2>3. outcome' \in [DOMAIN job.files -> {"none", "ok", "error"}]
    BY <1>1, <2>1 DEF FileDone
  <2> QED BY <1>1, <1>2, <2>1, <2>2, <2>3 DEF FileDone
<1>3. CASE job.kind = "Stream"
  BY <1>1, <1>3 DEF Done, Finish
<1> QED BY <1>1, <1>2, <1>3

\* A write changes the one node it goes to, which is a file afterwards.
LEMMA PutEffect ==
  ASSUME TypeInv, pc \in Active, ~ToStdout,
         NEW c \in Contents \cup {Torn}, Put(Target, c)
  PROVE  /\ disk' \in [DOMAIN disk0 -> Files]
         /\ disk'[At[Target]].kind = "file" /\ disk'[At[Target]].content = c
         /\ \A n \in DOMAIN disk0 \ {At[Target]} : disk'[n] = disk[n]
<1>1. disk \in [DOMAIN disk0 -> Files] /\ At[Target] \in DOMAIN disk0
  BY NodesExist DEF TypeInv, DiskOK
<1>2. disk' = [disk EXCEPT ![At[Target]] =
                 [disk[At[Target]] EXCEPT !.kind = "file", !.content = c]]
  BY DEF Put
<1>3. disk[At[Target]] \in Files
  BY <1>1
<1> DEFINE new == [disk[At[Target]] EXCEPT !.kind = "file", !.content = c]
<1>4. new \in Files /\ new.kind = "file" /\ new.content = c
  BY <1>3 DEF Files
<1> HIDE DEF new
<1>5. disk' = [disk EXCEPT ![At[Target]] = new]
  BY <1>2 DEF new
<1> QED BY <1>1, <1>4, <1>5

\* Making a file executable changes neither what it is nor its contents.
LEMMA ExecEffect ==
  ASSUME TypeInv, pc \in Active, ~ToStdout,
         disk' = [disk EXCEPT ![At[Target]] = [@ EXCEPT !.exec = TRUE]]
  PROVE  /\ disk' \in [DOMAIN disk0 -> Files]
         /\ \A n \in DOMAIN disk0 :
              disk'[n].kind = disk[n].kind /\ disk'[n].content = disk[n].content
<1>1. disk \in [DOMAIN disk0 -> Files] /\ At[Target] \in DOMAIN disk0
  BY NodesExist DEF TypeInv, DiskOK
<1> DEFINE old == disk[At[Target]]
           new == [old EXCEPT !.exec = TRUE]
<1>2. new \in Files /\ new.kind = old.kind /\ new.content = old.content
  BY <1>1 DEF Files
<1>3. disk' = [disk EXCEPT ![At[Target]] = new]
  OBVIOUS
<1> HIDE DEF new
<1> QED BY <1>1, <1>2, <1>3

\* Another process replaces a complete file by a complete file.
LEMMA EditEffect ==
  ASSUME TypeInv, Edit
  PROVE  \E n \in DOMAIN disk0 :
           /\ disk' \in [DOMAIN disk0 -> Files]
           /\ disk[n].kind = "file" /\ disk'[n].kind = "file" /\ disk'[n].content \in Contents
           /\ \A m \in DOMAIN disk0 \ {n} : disk'[m] = disk[m]
<1> DEFINE built(c) == [c EXCEPT !.version = 1, !.trimmed = FALSE, !.packed = FALSE]
<1>1. PICK n \in DOMAIN disk :
        /\ disk[n].kind = "file" /\ disk[n].content # Torn
        /\ disk' = [disk EXCEPT ![n].content = built(@)]
  BY DEF Edit
<1>2. disk \in [DOMAIN disk0 -> Files] /\ n \in DOMAIN disk0 /\ disk[n].content # None
  BY <1>1 DEF TypeInv, DiskOK
<1>3. disk[n].content \in Contents
  BY <1>1, <1>2 DEF Files
<1> DEFINE new == built(disk[n].content)
<1>4. new \in Contents
  BY <1>3 DEF Contents
<1>5. disk' = [disk EXCEPT ![n].content = new]
  BY <1>1
<1> HIDE DEF built, new
<1>6. /\ disk' \in [DOMAIN disk0 -> Files]
      /\ disk'[n].kind = "file" /\ disk'[n].content = new
      /\ \A m \in DOMAIN disk0 \ {n} : disk'[m] = disk[m]
  BY <1>1, <1>2, <1>4, <1>5 DEF Files
<1> QED BY <1>1, <1>2, <1>4, <1>6

\* What is in a file before the run.
LEMMA DiskAssumption ==
  ASSUME NEW d \in Disks
  PROVE  /\ \A n \in DOMAIN d : d[n] \in Files /\ (d[n].kind = "file" <=> d[n].content # None)
         /\ \A n \in DOMAIN d : d[n].content # Torn
         /\ \A n \in DOMAIN d : d[n].kind = "file" => d[n].content \in Contents
BY CliAssumption DEF Files

LEMMA TypeInit == Init => TypeInv
<1> SUFFICES ASSUME Init PROVE TypeInv
  OBVIOUS
<1>1. disk0 \in Disks /\ disk = disk0
  BY DEF Init
<1>2. DOMAIN disk = DOMAIN disk0 /\ disk = [n \in DOMAIN disk0 |-> disk[n]]
  BY <1>1, CliAssumption
<1>3. DiskOK
  BY <1>1, <1>2, DiskAssumption DEF DiskOK
<1>4. Blank \in Jobs
  BY DEF Blank, Jobs
<1>5. FilesKept
  BY <1>1 DEF Init, FilesKept, Holding
<1>6. AtWork
  BY DEF Init, AtWork, Active, Blank
<1>7. outcome \in [DOMAIN job.files -> {"none", "ok", "error"}]
  BY DEF Init, Blank
<1> QED BY <1>1, <1>3, <1>4, <1>5, <1>6, <1>7 DEF Init, TypeInv, Active, Holding, Writing

\* Every step keeps the types.
LEMMA TypeStep == TypeInv /\ [Next]_vars => TypeInv'
<1> SUFFICES ASSUME TypeInv, [Next]_vars PROVE TypeInv'
  OBVIOUS
<1> USE DEF Active, Holding, Writing, output
<1>1. /\ args \in ArgLists /\ disk0 \in Disks /\ job \in Jobs /\ edits \in Nat
      /\ pc \in Active \cup {"parse", "done", "crashed"}
      /\ rc \in {0, 1} /\ k \in Nat /\ buffered \in BOOLEAN
      /\ outcome \in [DOMAIN job.files -> {"none", "ok", "error"}]
      /\ pc \in Holding => data \in Contents \cup {Torn}
      /\ pc \in Writing => result \in Contents \cup {Torn}
      /\ AtWork /\ DiskOK /\ FilesKept
  BY DEF TypeInv
<1>2. CASE Main
  <2>1. args \in Seq(Args)
    BY <1>1, CliAssumption
  <2>2. /\ job' \in Jobs /\ job'.kind \in {"Info", "Error", "InPlace", "Stream"}
        /\ job'.kind = "InPlace" => job'.files # <<>>
        /\ job'.kind = "Stream" => Len(job'.files) \in {1, 2}
    BY <2>1, <1>2, ParseType DEF Main, Jobs
  <2>3. job'.files \in Seq(Paths)
    BY <2>2 DEF Jobs
  <2>4. job'.kind \in {"InPlace", "Stream"} => 1 \in DOMAIN job'.files
    BY <2>2, <2>3
  <2>5. outcome' \in [DOMAIN job'.files -> {"none", "ok", "error"}]
    BY <1>2 DEF Main
  <2>6. /\ pc' \in {"done", "check", "read"} /\ rc' \in {0, 1} /\ k' = 1
        /\ pc' = "check" => job'.kind = "InPlace"
        /\ pc' = "read" => job'.kind = "Stream"
    BY <1>1, <1>2, <2>2 DEF Main, Finish, AtWork
  <2>7. AtWork'
    BY <2>2, <2>4, <2>6 DEF AtWork
  <2>8. \A n \in DOMAIN disk0 : disk[n].kind = disk0[n].kind
    BY <1>1, <1>2 DEF Main, FilesKept, AtWork, Blank
  <2>9. DiskOK' /\ FilesKept'
    BY <1>1, <1>2, <2>6, <2>8 DEF Main, DiskOK, FilesKept
  <2> QED BY <1>1, <1>2, <2>2, <2>5, <2>6, <2>7, <2>9 DEF Main, TypeInv
<1>3. CASE process_file
  <2>1. UNCHANGED <<frame, disk, output, data, result>> /\ pc = "check" /\ job.kind = "InPlace"
    BY <1>1, <1>3 DEF process_file, AtWork
  <2>2. CASE Acceptable /\ pc' = "read" /\ UNCHANGED <<rc, k, outcome>>
    BY <1>1, <2>1, <2>2 DEF frame, TypeInv, AtWork, DiskOK, FilesKept
  <2>3. CASE Done(1)
    <3>1. /\ pc' \in {"done", "check"} /\ rc' \in {0, 1} /\ k' \in Nat
          /\ pc' = "check" => k' \in DOMAIN job.files
          /\ outcome' \in [DOMAIN job.files -> {"none", "ok", "error"}]
      BY <2>1, <2>3, DoneEffect DEF frame
    <3> QED BY <1>1, <2>1, <3>1 DEF frame, TypeInv, AtWork, DiskOK, FilesKept
  <2> QED BY <1>3, <2>1, <2>2, <2>3 DEF process_file, Done
<1>4. ASSUME pc \in Active, NEW code \in {0, 1}, Done(code), UNCHANGED frame, DiskOK',
             buffered' \in BOOLEAN,
             job.kind = "InPlace" => \A n \in DOMAIN disk0 : disk'[n].kind = disk0[n].kind
      PROVE  TypeInv'
  <2>1. /\ pc' \in {"done", "check"} /\ rc' \in {0, 1} /\ k' \in Nat
        /\ pc' = "check" => job.kind = "InPlace" /\ k' \in DOMAIN job.files
        /\ job.kind = "Stream" => k' = k
        /\ outcome' \in [DOMAIN job.files -> {"none", "ok", "error"}]
    BY <1>4, DoneEffect DEF frame
  <2>2. job.kind \in {"InPlace", "Stream"}
    BY <1>1, <1>4 DEF AtWork
  <2>3. AtWork'
    BY <1>1, <1>4, <2>1, <2>2 DEF frame, AtWork
  <2>4. FilesKept'
    BY <1>1, <1>4, <2>1, <2>2 DEF frame, FilesKept
  <2> QED BY <1>1, <1>4, <2>1, <2>3, <2>4 DEF frame, TypeInv
<1>5. ASSUME UNCHANGED disk, UNCHANGED frame, buffered' \in BOOLEAN, pc \in Active, NEW code \in {0, 1}, Done(code)
      PROVE  TypeInv'
  <2>1. DiskOK'
    BY <1>1, <1>5 DEF frame, DiskOK
  <2>2. job.kind = "InPlace" => \A n \in DOMAIN disk0 : disk'[n].kind = disk0[n].kind
    BY <1>1, <1>5 DEF FilesKept
  <2> QED BY <1>4, <1>5, <2>1, <2>2
<1>6. CASE read_input
  <2>1. UNCHANGED <<frame, disk, output, result>> /\ pc = "read"
    BY <1>6 DEF read_input
  <2>2. CASE Done(1)
    BY <1>1, <1>5, <2>1, <2>2
  <2>3. CASE File.kind = "file" /\ data' = File.content /\ pc' = "process"
             /\ UNCHANGED <<rc, k, outcome>>
    <3>1. /\ Source \in DOMAIN disk0
          /\ job.kind = "InPlace" => Source = At[Path]
      BY <2>1, NodesExist
    <3>2. data' \in Contents \cup {Torn}
      BY <1>1, <2>3, <3>1 DEF DiskOK, Files, File
    <3>3. job.kind = "InPlace" => disk[At[Path]].kind = "file"
      BY <2>3, <3>1 DEF File
    <3>4. AtWork' /\ DiskOK'
      BY <1>1, <2>1, <2>3 DEF frame, AtWork, DiskOK
    <3>5. FilesKept'
      BY <1>1, <2>1, <2>3, <3>3 DEF frame, FilesKept, Path
    <3> QED BY <1>1, <2>1, <2>3, <3>2, <3>4, <3>5 DEF frame, TypeInv
  <2> QED BY <1>6, <2>2, <2>3 DEF read_input
<1>7. CASE Process
  <2>1. UNCHANGED <<frame, disk, output, data>> /\ pc = "process"
    BY <1>7 DEF Process
  <2>2. PICK r \in process_bytes(data, job.dry_run, job.relr) :
          LET out == IF r = None /\ job.kind = "Stream" THEN data ELSE r
          IN IF (job.kind = "Stream" /\ job.dry_run) \/ out = None
             THEN Done(0) /\ UNCHANGED result
             ELSE result' = out /\ pc' = "open" /\ UNCHANGED <<rc, k, outcome>>
    BY <1>7 DEF Process
  <2>3. CASE Done(0)
    BY <1>1, <1>5, <2>1, <2>3
  <2>4. CASE /\ ~((job.kind = "Stream" /\ job.dry_run)
                   \/ (IF r = None /\ job.kind = "Stream" THEN data ELSE r) = None)
             /\ result' = IF r = None /\ job.kind = "Stream" THEN data ELSE r
             /\ pc' = "open" /\ UNCHANGED <<rc, k, outcome>>
    <3>1. data \in Contents \cup {Torn} /\ job.dry_run \in BOOLEAN
          /\ job.relr \in {"Off", "On", "Static"}
      BY <1>1, <2>1 DEF Jobs
    <3>2. r \in Contents \cup {None}
      BY <2>2, <3>1, ProcessBytes
    <3>3. result' \in Contents \cup {Torn}
      BY <2>4, <3>1, <3>2
    <3>4. AtWork' /\ DiskOK'
      BY <1>1, <2>1, <2>4 DEF frame, AtWork, DiskOK
    <3>5. FilesKept'
      BY <1>1, <2>1, <2>4 DEF frame, FilesKept, Path
    <3> QED BY <1>1, <2>1, <2>4, <3>1, <3>3, <3>4, <3>5 DEF frame, TypeInv
  <2> QED BY <2>2, <2>3, <2>4
<1>8. CASE OpenTarget
  <2>1. UNCHANGED <<frame, output, data, result>> /\ pc = "open"
    BY <1>8 DEF OpenTarget
  <2>2. CASE ToStdout /\ pc' = "write" /\ UNCHANGED <<disk, rc, k, outcome>>
    <3>1. AtWork' /\ DiskOK'
      BY <1>1, <2>1, <2>2 DEF frame, AtWork, DiskOK
    <3>2. FilesKept'
      BY <1>1, <2>1, <2>2 DEF frame, FilesKept, Path
    <3> QED BY <1>1, <2>1, <2>2, <3>1, <3>2 DEF frame, TypeInv
  <2>3. CASE /\ ~ToStdout /\ Put(Target, Torn)
             /\ pc' = "write" /\ UNCHANGED <<rc, k, outcome>>
    <3>1. /\ disk' \in [DOMAIN disk0 -> Files]
          /\ disk'[At[Target]].kind = "file" /\ disk'[At[Target]].content = Torn
          /\ \A n \in DOMAIN disk0 \ {At[Target]} : disk'[n] = disk[n]
          /\ At[Target] \in DOMAIN disk0
      BY <2>1, <2>3, PutEffect, NodesExist
    <3>2. job.kind = "InPlace" => At[Target] = At[Path] /\ disk[At[Target]].kind = "file"
      BY <1>1, <2>1, NodesExist DEF FilesKept
    <3>3. AtWork'
      BY <1>1, <2>1, <2>3 DEF frame, AtWork
    <3>4. DiskOK'
      BY <1>1, <2>1, <3>1, CliAssumption DEF frame, DiskOK
    <3>5. FilesKept'
      BY <1>1, <2>1, <2>3, <3>1, <3>2 DEF frame, FilesKept, Path, AtWork
    <3> QED BY <1>1, <2>1, <2>3, <3>3, <3>4, <3>5 DEF frame, TypeInv
  <2>4. CASE Done(1) /\ UNCHANGED disk
    BY <1>1, <1>5, <2>1, <2>4
  <2> QED BY <1>8, <2>2, <2>3, <2>4 DEF OpenTarget
<1>9. CASE WriteFile
  <2>1. UNCHANGED <<frame, output, data, result>> /\ pc = "write" /\ ~ToStdout
        /\ buffered' \in BOOLEAN
    BY <1>1, <1>9 DEF WriteFile, output
  <2>2. CASE /\ Put(Target, result)
             /\ IF job.kind = "Stream" THEN pc' = "chmod" /\ UNCHANGED <<rc, k, outcome>>
                ELSE Done(0)
    <3>1. /\ disk' \in [DOMAIN disk0 -> Files]
          /\ disk'[At[Target]].kind = "file" /\ disk'[At[Target]].content = result
          /\ \A n \in DOMAIN disk0 \ {At[Target]} : disk'[n] = disk[n]
          /\ At[Target] \in DOMAIN disk0 /\ result # None
      BY <1>1, <2>1, <2>2, PutEffect, NodesExist, CliAssumption
    <3>2. job.kind = "InPlace" => At[Target] = At[Path] /\ disk[At[Target]].kind = "file"
      BY <1>1, <2>1, NodesExist DEF FilesKept
    <3>3. DiskOK'
      BY <1>1, <2>1, <3>1 DEF frame, DiskOK
    <3>4. job.kind = "InPlace" => \A n \in DOMAIN disk0 : disk'[n].kind = disk0[n].kind
      BY <1>1, <3>1, <3>2 DEF FilesKept
    <3>5. CASE Done(0)
      BY <1>4, <2>1, <3>3, <3>4, <3>5
    <3>6. CASE job.kind = "Stream" /\ pc' = "chmod" /\ UNCHANGED <<rc, k, outcome>>
      <4>1. AtWork' /\ FilesKept'
        BY <1>1, <2>1, <3>6 DEF frame, AtWork, FilesKept, ToStdout
      <4> QED BY <1>1, <2>1, <3>3, <3>6, <4>1 DEF frame, TypeInv
    <3> QED BY <2>2, <3>5, <3>6
  <2>3. CASE UNCHANGED disk /\ Done(1)
    BY <1>5, <2>1, <2>3
  <2> QED BY <1>9, <2>2, <2>3 DEF WriteFile
<1>13. CASE set_executable
  <2>1. UNCHANGED <<frame, output, data, result>> /\ pc = "chmod" /\ Done(0)
        /\ buffered' \in BOOLEAN /\ job.kind = "Stream" /\ ~ToStdout
    BY <1>1, <1>13 DEF set_executable, output, AtWork
  <2>2. CASE disk' = [disk EXCEPT ![At[Target]] = [@ EXCEPT !.exec = TRUE]]
    <3>1. DiskOK'
      BY <1>1, <2>1, <2>2, ExecEffect DEF frame, DiskOK
    <3> QED BY <1>4, <2>1, <3>1
  <2>3. CASE UNCHANGED disk
    BY <1>5, <2>1, <2>3
  <2> QED BY <1>13, <2>2, <2>3 DEF set_executable
<1>14. CASE WriteStdout
  <2>1. UNCHANGED <<frame, disk, data, result>> /\ pc = "write" /\ ToStdout
        /\ buffered' \in BOOLEAN
    BY <1>1, <1>14 DEF WriteStdout
  <2>2. CASE pc' = "exit" /\ UNCHANGED <<rc, k, outcome>>
    <3>1. AtWork' /\ DiskOK' /\ FilesKept'
      BY <1>1, <2>1, <2>2 DEF frame, AtWork, DiskOK, FilesKept, ToStdout
    <3> QED BY <1>1, <2>1, <2>2, <3>1 DEF frame, TypeInv
  <2>3. CASE Done(1)
    BY <1>5, <2>1, <2>3
  <2> QED BY <1>14, <2>2, <2>3 DEF WriteStdout
<1>15. CASE ExitFlush
  BY <1>1, <1>5, <1>15 DEF ExitFlush, output
<1>10. CASE Crash
  BY <1>1, <1>10 DEF Crash, frame, TypeInv, AtWork, DiskOK, FilesKept
<1>11. CASE Edit
  <2>1. UNCHANGED <<args, job, disk0, output, pc, k, data, result, rc, outcome>>
        /\ edits' = edits + 1 /\ pc \notin {"done", "crashed"}
    BY <1>11 DEF Edit
  <2>2. PICK n \in DOMAIN disk0 :
          /\ disk' \in [DOMAIN disk0 -> Files]
          /\ disk[n].kind = "file" /\ disk'[n].kind = "file" /\ disk'[n].content \in Contents
          /\ \A m \in DOMAIN disk0 \ {n} : disk'[m] = disk[m]
    BY <1>11, EditEffect
  <2>3. DiskOK'
    BY <1>1, <2>1, <2>2, CliAssumption DEF DiskOK
  <2>4. FilesKept'
    <3>1. pc \in Holding => At[Path] \in DOMAIN disk0 \/ job.kind # "InPlace"
      BY NodesExist
    <3> QED BY <1>1, <2>1, <2>2, <3>1 DEF FilesKept, Path
  <2>5. AtWork' /\ buffered' \in BOOLEAN
    BY <1>1, <2>1 DEF AtWork, ToStdout, output
  <2> QED BY <1>1, <2>1, <2>3, <2>4, <2>5 DEF TypeInv
<1>12. CASE UNCHANGED vars
  BY <1>1, <1>12 DEF vars, TypeInv, AtWork, DiskOK, FilesKept, Path, ToStdout
<1> QED BY <1>2, <1>3, <1>6, <1>7, <1>8, <1>9, <1>10, <1>11, <1>12, <1>13, <1>14, <1>15
  DEF Next, TrimStep, Over

LEMMA TypeInvariant == Spec => []TypeInv
BY TypeInit, TypeStep, PTL DEF Spec

\* In every state of every run the types hold: no file past the end of the
\* argument list is looked at, whatever fails and whatever another process
\* replaces.
THEOREM TypeCorrect == Spec => []TypeOK
<1>1. TypeInv => TypeOK
  BY DEF TypeInv, TypeOK, Jobs, AtWork, DiskOK, Files, Active
<1> QED BY <1>1, TypeInvariant, PTL

-----------------------------------------------------------------------------
(* A dry run writes nothing. *)

DryInv == pc \in Writing => ~job.dry_run

LEMMA DryStep == TypeInv /\ DryInv /\ [Next]_vars => DryInv'
<1> SUFFICES ASSUME TypeInv, DryInv, [Next]_vars PROVE DryInv'
  OBVIOUS
<1> USE DEF DryInv, Writing
<1>1. ASSUME pc \in Active, UNCHANGED job, NEW code \in {0, 1}, Done(code)
      PROVE  pc' \notin Writing
  BY <1>1, DoneEffect
<1>2. CASE Main
  <2>1. job'.kind \in {"Info", "Error", "InPlace", "Stream"}
    BY <1>2, ParseType, CliAssumption DEF Main, TypeInv, Jobs
  <2> QED BY <1>2, <2>1 DEF Main, Finish
<1>3. CASE process_file
  BY <1>3 DEF process_file, FileDone
<1>4. CASE read_input
  BY <1>1, <1>4 DEF read_input, frame, Active
<1>5. CASE Process
  <2>1. PICK r \in process_bytes(data, job.dry_run, job.relr) :
          LET out == IF r = None /\ job.kind = "Stream" THEN data ELSE r
          IN IF (job.kind = "Stream" /\ job.dry_run) \/ out = None
             THEN Done(0) /\ UNCHANGED result
             ELSE result' = out /\ pc' = "open" /\ UNCHANGED <<rc, k, outcome>>
    BY <1>5 DEF Process
  <2>2. UNCHANGED job /\ pc = "process"
    BY <1>5 DEF Process, frame
  <2>3. data \in Contents \cup {Torn} /\ job.dry_run \in BOOLEAN
        /\ job.relr \in {"Off", "On", "Static"} /\ job.kind \in {"InPlace", "Stream"}
    BY <2>2 DEF TypeInv, Jobs, Holding, AtWork, Active
  <2>4. job.dry_run => r = None
    BY <2>3, ProcessBytes
  <2>5. CASE job.dry_run
    <3>1. Done(0)
      BY <2>1, <2>3, <2>4, <2>5
    <3> QED BY <1>1, <2>2, <3>1 DEF Active
  <2> QED BY <2>2, <2>5
<1>6. CASE OpenTarget
  BY <1>1, <1>6 DEF OpenTarget, frame, Active
<1>7. CASE WriteFile \/ set_executable \/ WriteStdout \/ ExitFlush
  BY <1>1, <1>7 DEF WriteFile, set_executable, WriteStdout, ExitFlush, frame, Active
<1>8. CASE Crash \/ Edit \/ UNCHANGED vars
  BY <1>8 DEF Crash, Edit, vars, frame
<1> QED BY <1>2, <1>3, <1>4, <1>5, <1>6, <1>7, <1>8 DEF Next, TrimStep, Over

\* With --dry-run no step of trim writes to a file or to standard output, in
\* place or as a stream and with any other option.
THEOREM DryRunWritesNothing == Spec => DryRunReadOnly
<1>1. Init => DryInv
  BY DEF Init, DryInv, Writing
<1>2. TypeInv /\ DryInv /\ [Next]_vars
        => [job.dry_run => (edits' # edits \/ disk' = disk) /\ stdout' = stdout]_vars
  <2> SUFFICES ASSUME TypeInv, DryInv, Next, job.dry_run
               PROVE  (edits' # edits \/ disk' = disk) /\ stdout' = stdout
    OBVIOUS
  <2>1. pc \notin {"open", "write", "chmod", "exit"}
    BY DEF DryInv, Writing
  <2>2. edits \in Nat
    BY DEF TypeInv
  <2>3. CASE Main \/ process_file \/ read_input \/ Process \/ Crash
    BY <2>3 DEF Main, process_file, read_input, Process, Crash, output
  <2>4. CASE Edit
    <3>1. edits' = edits + 1 /\ stdout' = stdout
      BY <2>4 DEF Edit, output
    <3> QED BY <2>2, <3>1
  <2> QED BY <2>1, <2>3, <2>4
      DEF Next, TrimStep, Over, OpenTarget, WriteFile, set_executable, WriteStdout, ExitFlush, vars
<1> QED BY <1>1, <1>2, DryStep, TypeInvariant, PTL DEF Spec, DryRunReadOnly

-----------------------------------------------------------------------------
(* Exit codes. *)

\* While nothing has failed, the only torn file is the one being written, and
\* standard output lacks what is buffered; a stream ends with its first failure.
WholeInv ==
  /\ job.kind = "Stream" /\ pc \in Active => rc = 0
  /\ rc = 0 /\ pc # "crashed" =>
       /\ stdout = Torn => buffered
       /\ pc \in Holding => data # Torn
       /\ pc \in Writing => result # Torn
       /\ \A n \in DOMAIN disk0 :
            disk[n].content = Torn => pc = "write" /\ ~ToStdout /\ n = At[Target]

LEMMA WholeStep == TypeInv /\ WholeInv /\ [Next]_vars => WholeInv'
<1> SUFFICES ASSUME TypeInv, WholeInv, [Next]_vars PROVE WholeInv'
  OBVIOUS
<1> USE DEF Holding, Writing, Active, output
<1>1. ASSUME UNCHANGED frame, pc \in Active, NEW code \in {0, 1}, Done(code),
             rc = 0 /\ code = 0 =>
               (stdout' = Torn => buffered') /\ \A n \in DOMAIN disk0 : disk'[n].content # Torn
      PROVE  WholeInv'
  <2>1. /\ pc' \in {"done", "check"}
        /\ pc' = "check" => job.kind = "InPlace"
        /\ rc' = 0 => rc = 0 \/ job.kind = "Stream"
        /\ rc' = 0 => code = 0
    BY <1>1, DoneEffect DEF frame
  <2>2. rc' = 0 => rc = 0
    BY <1>1, <2>1 DEF WholeInv
  <2>3. UNCHANGED <<job, disk0>>
    BY <1>1 DEF frame
  <2> QED BY <1>1, <2>1, <2>2, <2>3 DEF WholeInv
<1>2. CASE Main
  <2>1. rc = 0 /\ pc = "parse"
    BY <1>2 DEF Main, TypeInv, AtWork
  <2>2. job'.kind \in {"Info", "Error", "InPlace", "Stream"}
    BY <1>2, ParseType, CliAssumption DEF Main, TypeInv, Jobs
  <2>3. pc' \in {"done", "check", "read"} /\ (pc' # "done" => rc' = 0)
    BY <1>2, <2>1, <2>2 DEF Main, Finish
  <2>4. UNCHANGED <<disk0, disk, output>>
    BY <1>2 DEF Main
  <2> QED BY <2>1, <2>3, <2>4 DEF WholeInv
<1>3. CASE process_file
  <2>1. UNCHANGED <<frame, disk, output>> /\ pc = "check" /\ job.kind = "InPlace"
    BY <1>3 DEF process_file, TypeInv, AtWork
  <2>2. CASE pc' = "read" /\ UNCHANGED <<rc, k, outcome>>
    BY <2>1, <2>2 DEF WholeInv, frame
  <2>3. CASE Done(1)
    BY <1>1, <2>1, <2>3
  <2> QED BY <1>3, <2>1, <2>2, <2>3 DEF process_file, Done
<1>4. CASE read_input
  <2>1. UNCHANGED <<frame, disk, output>> /\ pc = "read"
    BY <1>4 DEF read_input
  <2>2. CASE data' = File.content /\ pc' = "process" /\ UNCHANGED <<rc, k, outcome>>
    <3>1. Source \in DOMAIN disk0
      BY <2>1, NodesExist
    <3> QED BY <2>1, <2>2, <3>1 DEF WholeInv, frame, File
  <2>3. CASE Done(1)
    BY <1>1, <2>1, <2>3
  <2> QED BY <1>4, <2>2, <2>3 DEF read_input
<1>5. CASE Process
  <2>1. PICK r \in process_bytes(data, job.dry_run, job.relr) :
          LET out == IF r = None /\ job.kind = "Stream" THEN data ELSE r
          IN IF (job.kind = "Stream" /\ job.dry_run) \/ out = None
             THEN Done(0) /\ UNCHANGED result
             ELSE result' = out /\ pc' = "open" /\ UNCHANGED <<rc, k, outcome>>
    BY <1>5 DEF Process
  <2>2. UNCHANGED <<frame, disk, output, data>> /\ pc = "process"
    BY <1>5 DEF Process
  <2>3. data \in Contents \cup {Torn} /\ job.dry_run \in BOOLEAN
        /\ job.relr \in {"Off", "On", "Static"}
    BY <2>2 DEF TypeInv, Jobs
  <2>4. r \in Contents \cup {None}
    BY <2>3, ProcessBytes
  <2>5. r # Torn
    BY <2>4, CliAssumption
  <2>6. CASE Done(0)
    <3>1. rc = 0 => (stdout' = Torn => buffered') /\ \A n \in DOMAIN disk0 : disk'[n].content # Torn
      BY <2>2 DEF WholeInv
    <3> QED BY <1>1, <2>2, <2>6, <3>1
  <2>7. CASE result' \in {data, r} /\ pc' = "open" /\ UNCHANGED <<rc, k, outcome>>
    BY <2>2, <2>5, <2>7 DEF WholeInv, frame
  <2> QED BY <2>1, <2>6, <2>7
<1>6. CASE OpenTarget
  <2>1. UNCHANGED <<frame, output, data, result>> /\ pc = "open"
    BY <1>6 DEF OpenTarget
  <2>2. CASE ToStdout /\ pc' = "write" /\ UNCHANGED <<disk, rc, k, outcome>>
    BY <2>1, <2>2 DEF WholeInv, frame
  <2>3. CASE /\ ~ToStdout /\ Put(Target, Torn)
             /\ pc' = "write" /\ UNCHANGED <<rc, k, outcome>>
    <3>1. \A n \in DOMAIN disk0 \ {At[Target]} : disk'[n] = disk[n]
      BY <2>1, <2>3, PutEffect
    <3>2. ToStdout' = ToStdout /\ Target' = Target
      BY <2>1, <2>3 DEF ToStdout, Target, Path, frame
    <3> QED BY <2>1, <2>3, <3>1, <3>2 DEF WholeInv, frame
  <2>4. CASE Done(1)
    BY <1>1, <2>1, <2>4
  <2> QED BY <1>6, <2>2, <2>3, <2>4 DEF OpenTarget
<1>7. CASE WriteFile
  <2>1. UNCHANGED <<frame, output, data, result>> /\ pc = "write" /\ ~ToStdout
    BY <1>7 DEF WriteFile
  <2>2. CASE /\ Put(Target, result)
             /\ IF job.kind = "Stream" THEN pc' = "chmod" /\ UNCHANGED <<rc, k, outcome>>
                ELSE Done(0)
    <3>1. /\ disk'[At[Target]].content = result
          /\ \A n \in DOMAIN disk0 \ {At[Target]} : disk'[n] = disk[n]
      BY <2>1, <2>2, PutEffect DEF TypeInv
    <3>2. rc = 0 => (stdout' = Torn => buffered') /\ \A n \in DOMAIN disk0 : disk'[n].content # Torn
      BY <2>1, <3>1 DEF WholeInv, output
    <3>3. CASE Done(0)
      BY <1>1, <2>1, <3>2, <3>3
    <3>4. CASE job.kind = "Stream" /\ pc' = "chmod" /\ UNCHANGED <<rc, k, outcome>>
      BY <2>1, <3>2, <3>4 DEF WholeInv, frame
    <3> QED BY <2>2, <3>3, <3>4
  <2>3. CASE Done(1)
    BY <1>1, <2>1, <2>3
  <2> QED BY <1>7, <2>2, <2>3 DEF WriteFile
<1>11. CASE set_executable
  <2>1. UNCHANGED <<frame, output>> /\ pc = "chmod" /\ Done(0) /\ ~ToStdout
    BY <1>11 DEF set_executable, TypeInv, AtWork
  <2>2. \A n \in DOMAIN disk0 : disk'[n].content = disk[n].content
    BY <1>11, <2>1, ExecEffect DEF set_executable
  <2>3. rc = 0 => (stdout' = Torn => buffered') /\ \A n \in DOMAIN disk0 : disk'[n].content # Torn
    BY <2>1, <2>2 DEF WholeInv, output
  <2> QED BY <1>1, <2>1, <2>3
<1>12. CASE WriteStdout
  <2>1. UNCHANGED <<frame, disk, data, result>> /\ pc = "write" /\ ToStdout
    BY <1>12 DEF WriteStdout
  <2>2. CASE /\ \E kept \in BOOLEAN : stdout' = (IF kept THEN Torn ELSE result) /\ buffered' = kept
             /\ pc' = "exit" /\ UNCHANGED <<rc, k, outcome>>
    BY <2>1, <2>2 DEF WholeInv, frame
  <2>3. CASE Done(1)
    BY <1>1, <2>1, <2>3
  <2> QED BY <1>12, <2>2, <2>3 DEF WriteStdout
<1>13. CASE ExitFlush
  <2>1. UNCHANGED <<frame, disk, result>> /\ pc = "exit" /\ Done(0)
    BY <1>13 DEF ExitFlush
  <2>2. rc = 0 => (stdout' = Torn => buffered') /\ \A n \in DOMAIN disk0 : disk'[n].content # Torn
    BY <1>13, <2>1 DEF WholeInv, ExitFlush, output
  <2> QED BY <1>1, <2>1, <2>2
<1>8. CASE Crash
  BY <1>8 DEF Crash, WholeInv, frame
<1>9. CASE Edit
  <2>1. UNCHANGED <<args, job, disk0, output, pc, k, data, result, rc, outcome>>
        /\ pc \notin {"done", "crashed"}
    BY <1>9 DEF Edit
  <2>2. PICK n \in DOMAIN disk0 :
          disk'[n].content \in Contents /\ \A m \in DOMAIN disk0 \ {n} : disk'[m] = disk[m]
    BY <1>9, EditEffect
  <2>6. disk'[n].content # Torn
    BY <2>2, CliAssumption
  <2>7. ToStdout' = ToStdout /\ Target' = Target
    BY <2>1 DEF ToStdout, Target, Path
  <2> QED BY <2>1, <2>2, <2>6, <2>7 DEF WholeInv, output
<1>10. CASE UNCHANGED vars
  BY <1>10 DEF vars, WholeInv, ToStdout, Target, Path
<1> QED BY <1>2, <1>3, <1>4, <1>5, <1>6, <1>7, <1>8, <1>9, <1>10, <1>11, <1>12, <1>13
  DEF Next, TrimStep, Over

\* Exit code 0 means that no file was left half-written, and that standard
\* output lacks at most what the buffer held at exit: a write that failed
\* after truncating its file, or in write_all, is reported.
THEOREM SuccessIsWhole == Spec => []SuccessMeansWhole
<1>1. Init => WholeInv
  BY DiskAssumption, CliAssumption DEF Init, WholeInv, Holding, Writing, Active
<1>2. TypeInv /\ WholeInv => SuccessMeansWhole
  BY DEF TypeInv, DiskOK, WholeInv, SuccessMeansWhole
<1> QED BY <1>1, <1>2, WholeStep, TypeInvariant, PTL DEF Spec

\* The files before k have their outcome, the others none yet; the exit code
\* follows the outcomes.
OutcomeInv ==
  job.kind = "InPlace" =>
    /\ k \in 1..(Len(job.files) + 1)
    /\ \A i \in DOMAIN job.files : outcome[i] = "none" <=> i >= k
    /\ rc = 1 <=> \E i \in DOMAIN job.files : outcome[i] = "error"
    /\ pc = "done" => k = Len(job.files) + 1

LEMMA OutcomeStep == TypeInv /\ OutcomeInv /\ [Next]_vars => OutcomeInv'
<1> SUFFICES ASSUME TypeInv, OutcomeInv, [Next]_vars PROVE OutcomeInv'
  OBVIOUS
<1>1. ASSUME pc \in Active, UNCHANGED frame, NEW code \in {0, 1}, Done(code)
      PROVE  OutcomeInv'
  <2>1. SUFFICES ASSUME job.kind = "InPlace"
                 PROVE  OutcomeInv'
    BY <1>1 DEF frame, OutcomeInv
  <2>2. /\ k \in 1..Len(job.files) /\ Len(job.files) \in Nat
        /\ DOMAIN job.files = 1..Len(job.files) /\ rc \in {0, 1}
        /\ outcome \in [1..Len(job.files) -> {"none", "ok", "error"}]
    BY <1>1 DEF TypeInv, AtWork, Jobs
  <2>3. /\ \A i \in 1..Len(job.files) : outcome[i] = "none" <=> i >= k
        /\ rc = 1 <=> \E i \in 1..Len(job.files) : outcome[i] = "error"
    BY <2>1, <2>2 DEF OutcomeInv
  <2>4. /\ rc' = IF code # 0 THEN code ELSE rc
        /\ outcome' = [outcome EXCEPT ![k] = IF code = 0 THEN "ok" ELSE "error"]
        /\ k' = k + 1
        /\ pc' = IF k = Len(job.files) THEN "done" ELSE "check"
        /\ job' = job
    BY <1>1, <2>1 DEF Done, FileDone, frame
  <2>5. k' \in 1..(Len(job.files) + 1) /\ (pc' = "done" => k' = Len(job.files) + 1)
    BY <2>2, <2>4
  <2>6. \A i \in 1..Len(job.files) : outcome'[i] = "none" <=> i >= k'
    BY <2>2, <2>3, <2>4
  <2>7. rc' = 1 <=> \E i \in 1..Len(job.files) : outcome'[i] = "error"
    <3>1. outcome[k] = "none"
      BY <2>2, <2>3
    <3>2. \A i \in 1..Len(job.files) : i # k => outcome'[i] = outcome[i]
      BY <2>2, <2>4
    <3>3. outcome'[k] = IF code = 0 THEN "ok" ELSE "error"
      BY <2>2, <2>4
    <3>4. CASE code = 0
      BY <2>2, <2>3, <2>4, <3>1, <3>2, <3>3, <3>4
    <3>5. CASE code = 1
      BY <2>2, <2>4, <3>3, <3>5
    <3> QED BY <3>4, <3>5
  <2> QED BY <2>2, <2>4, <2>5, <2>6, <2>7 DEF OutcomeInv
<1>2. CASE Main
  <2>1. /\ job' \in Jobs /\ job'.kind \in {"Info", "Error", "InPlace", "Stream"}
        /\ job'.kind = "InPlace" => job'.files # <<>>
    BY <1>2, ParseType, CliAssumption DEF Main, TypeInv, Jobs
  <2>2. /\ outcome' = [i \in DOMAIN job'.files |-> "none"]
        /\ k' = 1 /\ rc = 0
        /\ job'.kind = "InPlace" => rc' = 0 /\ pc' = "check"
    BY <1>2, <2>1 DEF Main, TypeInv, AtWork
  <2>3. Len(job'.files) \in Nat /\ DOMAIN job'.files = 1..Len(job'.files)
    BY <2>1 DEF Jobs
  <2> QED BY <2>1, <2>2, <2>3 DEF OutcomeInv
<1>3. CASE process_file
  <2>1. pc = "check" /\ UNCHANGED frame /\ job.kind = "InPlace"
    BY <1>3 DEF process_file, TypeInv, AtWork
  <2> QED BY <1>1, <1>3, <2>1 DEF process_file, Done, Active, frame, OutcomeInv
<1>4. CASE read_input
  BY <1>1, <1>4 DEF read_input, Active, frame, OutcomeInv
<1>5. CASE Process
  BY <1>1, <1>5 DEF Process, Active, frame, OutcomeInv
<1>6. CASE OpenTarget
  BY <1>1, <1>6 DEF OpenTarget, Active, frame, OutcomeInv
<1>7. CASE WriteFile \/ set_executable \/ WriteStdout \/ ExitFlush
  BY <1>1, <1>7 DEF WriteFile, set_executable, WriteStdout, ExitFlush, Active, frame, OutcomeInv
<1>8. CASE Crash \/ Edit \/ UNCHANGED vars
  BY <1>8 DEF Crash, Edit, vars, frame, OutcomeInv
<1> QED BY <1>2, <1>3, <1>4, <1>5, <1>6, <1>7, <1>8 DEF Next, TrimStep, Over

\* Every file named with --in-place is processed, whatever failed before it,
\* and the exit code is 1 exactly when one of them failed.
THEOREM ErrorsStayIsolated == Spec => []ErrorsIsolated
<1>1. Init => OutcomeInv
  BY DEF Init, OutcomeInv, Blank
<1>2. TypeInv /\ OutcomeInv => ErrorsIsolated
  <2> SUFFICES ASSUME TypeInv, OutcomeInv, pc = "done", job.kind = "InPlace"
               PROVE  /\ \A i \in DOMAIN outcome : outcome[i] # "none"
                      /\ rc = 1 <=> \E i \in DOMAIN outcome : outcome[i] = "error"
    BY DEF ErrorsIsolated
  <2>1. DOMAIN outcome = 1..Len(job.files) /\ DOMAIN job.files = 1..Len(job.files)
        /\ Len(job.files) \in Nat
    BY DEF TypeInv, Jobs
  <2> QED BY <2>1 DEF OutcomeInv
<1> QED BY <1>1, <1>2, OutcomeStep, TypeInvariant, PTL DEF Spec

-----------------------------------------------------------------------------
(* What a run delivers. *)

\* No other argument leads to the file of argument i.
Alone(i) == \A j \in DOMAIN job.files \ {i} : At[job.files[j]] # At[job.files[i]]

\* In place: files done with are as owed, files to come are untouched, and
\* the bytes held for file i are the ones it had before the run.
InPlaceInv(i) ==
  LET n == At[job.files[i]]
  IN /\ i < k /\ outcome[i] = "ok" => OwedBy(job.relr, disk0[n].content, disk[n].content)
     /\ i > k \/ (i = k /\ pc # "write") => disk[n] = disk0[n]
     /\ i = k /\ pc \in Holding => data = disk0[n].content
     /\ i = k /\ pc \in Writing => OwedBy(job.relr, data, result)

\* A stream that has written its image has passed on what it owes for c, but
\* for what is buffered.
Passed(c) ==
  IF ToStdout THEN buffered \/ OwedBy(job.relr, c, stdout)
  ELSE OwedBy(job.relr, c, disk[At[Target]].content)

StreamInv ==
  /\ pc \in {"read", "process", "open"} => disk = disk0
  /\ pc \in Holding => data = disk0[Source].content
  /\ pc \in Writing => OwedBy(job.relr, data, result)
  /\ pc \in {"chmod", "exit"} \/ (pc = "done" /\ rc = 0) =>
       Passed(disk0[Source].content)

DeliveredInv ==
  edits = 0 /\ ~job.dry_run /\ pc # "crashed" =>
    /\ job.kind = "args" => disk = disk0
    /\ job.kind = "InPlace" => \A i \in DOMAIN job.files : Alone(i) => InPlaceInv(i)
    /\ job.kind = "Stream" => StreamInv

\* The image made of what was read is what is owed for it.
LEMMA ProcessEffect ==
  ASSUME TypeInv, Process, ~job.dry_run
  PROVE  \/ /\ job.kind = "InPlace" /\ Done(0) /\ UNCHANGED result
            /\ OwedBy(job.relr, data, data)
         \/ /\ pc' = "open" /\ UNCHANGED <<rc, k, outcome>>
            /\ OwedBy(job.relr, data, result')
<1>1. PICK r \in process_bytes(data, job.dry_run, job.relr) :
        LET out == IF r = None /\ job.kind = "Stream" THEN data ELSE r
        IN IF (job.kind = "Stream" /\ job.dry_run) \/ out = None
           THEN Done(0) /\ UNCHANGED result
           ELSE result' = out /\ pc' = "open" /\ UNCHANGED <<rc, k, outcome>>
  BY DEF Process
<1>2. /\ data \in Contents \cup {Torn} /\ job.dry_run \in BOOLEAN
      /\ job.relr \in {"Off", "On", "Static"} /\ job.kind \in {"InPlace", "Stream"}
  BY DEF Process, TypeInv, Jobs, Holding, AtWork, Active
<1>3. /\ data = Torn => r = None /\ OwedBy(job.relr, data, data)
      /\ data # Torn => OwedBy(job.relr, data, IF r = None THEN data ELSE r)
  BY <1>2, ProcessBytes
<1>4. OwedBy(job.relr, data, IF r = None THEN data ELSE r)
  BY <1>3
<1>5. data # None
  BY <1>2, CliAssumption
<1>6. CASE r = None
  BY <1>1, <1>2, <1>4, <1>5, <1>6
<1>7. CASE r # None
  BY <1>1, <1>2, <1>4, <1>7
<1> QED BY <1>6, <1>7

\* Finishing with a file in place keeps the invariant, if the file is as
\* owed when there was no error.
LEMMA DeliveredDone ==
  ASSUME TypeInv, job.kind = "InPlace", pc \in Active, UNCHANGED frame,
         \A i \in DOMAIN job.files : Alone(i) => InPlaceInv(i),
         NEW code \in {0, 1}, Done(code),
         \A n \in DOMAIN disk0 \ {At[Path]} : disk'[n] = disk[n],
         code = 0 /\ Alone(k) =>
           OwedBy(job.relr, disk0[At[Path]].content, disk'[At[Path]].content),
         NEW i \in DOMAIN job.files, Alone(i)
  PROVE  InPlaceInv(i)'
<1>1. /\ k \in 1..Len(job.files) /\ Len(job.files) \in Nat
      /\ DOMAIN job.files = 1..Len(job.files) /\ job.files \in Seq(Paths)
      /\ outcome \in [1..Len(job.files) -> {"none", "ok", "error"}]
  BY DEF TypeInv, AtWork, Jobs
<1>2. /\ outcome' = [outcome EXCEPT ![k] = IF code = 0 THEN "ok" ELSE "error"]
      /\ k' = k + 1
      /\ pc' \in {"done", "check"} /\ UNCHANGED <<job, disk0>>
  BY DEF Done, FileDone, frame
<1> DEFINE n == At[job.files[i]]
<1>3. n \in DOMAIN disk0
  BY <1>1, CliAssumption DEF TypeInv
<1>4. CASE i = k
  <2>1. outcome'[i] = "ok" => code = 0
    BY <1>1, <1>2, <1>4
  <2>2. n = At[Path]
    BY <1>4 DEF Path
  <2>3. outcome'[i] = "ok" => OwedBy(job.relr, disk0[n].content, disk'[n].content)
    BY <1>4, <2>1, <2>2
  <2>4. i < k' /\ ~(i > k') /\ i # k'
    BY <1>1, <1>2, <1>4
  <2> QED BY <1>2, <2>3, <2>4 DEF InPlaceInv
<1>5. CASE i # k
  <2>1. n # At[Path]
    BY <1>1, <1>5 DEF Alone, Path
  <2>2. disk'[n] = disk[n] /\ outcome'[i] = outcome[i]
    BY <1>1, <1>2, <1>3, <1>5, <2>1
  <2>3. (i < k' => i < k) /\ (i > k' \/ i = k' => i > k)
    BY <1>1, <1>2, <1>5
  <2>4. InPlaceInv(i)
    OBVIOUS
  <2> QED BY <1>2, <2>2, <2>3, <2>4 DEF InPlaceInv, Holding, Writing
<1> QED BY <1>4, <1>5

\* A stream that ends has written what it owes, or reports an error.
LEMMA DeliveredStream ==
  ASSUME TypeInv, job.kind = "Stream", pc \in Active, UNCHANGED <<job, disk0>>,
         NEW code \in {0, 1}, Done(code),
         code = 0 => IF ToStdout
                     THEN buffered' \/ OwedBy(job.relr, disk0[Source].content, stdout')
                     ELSE OwedBy(job.relr, disk0[Source].content, disk'[At[Target]].content)
  PROVE  StreamInv'
<1>1. pc' = "done" /\ rc' = code /\ k' = k
  BY DEF Done, Finish
<1>2. Source' = Source /\ ToStdout' = ToStdout /\ Target' = Target
  BY <1>1 DEF Source, ToStdout, Target, Path
<1> QED BY <1>1, <1>2 DEF StreamInv, Passed, Holding, Writing

LEMMA DeliveredStep == TypeInv /\ DeliveredInv /\ [Next]_vars => DeliveredInv'
<1> SUFFICES ASSUME TypeInv, DeliveredInv, [Next]_vars,
                    edits' = 0, ~job'.dry_run, pc' # "crashed"
             PROVE  /\ job'.kind = "args" => disk' = disk0'
                    /\ job'.kind = "InPlace" =>
                         \A i \in DOMAIN job'.files : Alone(i)' => InPlaceInv(i)'
                    /\ job'.kind = "Stream" => StreamInv'
  BY DEF DeliveredInv
<1>1. UNCHANGED vars \/ (TrimStep /\ pc \notin {"done", "crashed"})
  <2>1. edits \in Nat
    BY DEF TypeInv
  <2>2. Edit => edits' = edits + 1
    BY DEF Edit
  <2>3. ~Edit
    BY <2>1, <2>2
  <2> QED BY <2>3 DEF Next, Over, TrimStep, Crash, Main, process_file, read_input, Process,
                      OpenTarget, WriteFile, set_executable, WriteStdout, ExitFlush
<1>2. CASE UNCHANGED vars
  BY <1>2 DEF vars, DeliveredInv, Alone, InPlaceInv, StreamInv, Passed, Source, ToStdout, Target,
              Path
<1>3. CASE Main
  <2>1. /\ job'.kind \in {"Info", "Error", "InPlace", "Stream"}
        /\ job'.files \in Seq(Paths)
    BY <1>3, ParseType, CliAssumption DEF Main, TypeInv, Jobs
  <2>2. /\ UNCHANGED <<disk0, disk, edits>> /\ k' = 1
        /\ job'.kind = "InPlace" => pc' = "check"
        /\ job'.kind = "Stream" => pc' = "read"
    BY <1>3, <2>1 DEF Main, TypeInv, AtWork
  <2>3. disk = disk0
    BY <1>3, <2>2 DEF Main, TypeInv, AtWork, Blank, DeliveredInv
  <2>4. \A i \in DOMAIN job'.files : ~(i < 1)
    BY <2>1
  <2> QED BY <2>1, <2>2, <2>3, <2>4 DEF InPlaceInv, StreamInv, Holding, Writing
<1>4. CASE TrimStep /\ pc \in Active
  <2>1. UNCHANGED frame
    BY <1>4 DEF TrimStep, Active, Main, process_file, read_input, Process, OpenTarget,
                WriteFile, set_executable, WriteStdout, ExitFlush
  <2>2. edits = 0 /\ ~job.dry_run /\ UNCHANGED <<job, disk0>>
    BY <2>1 DEF frame
  <2>3. /\ job.kind = "InPlace" => \A i \in DOMAIN job.files : Alone(i) => InPlaceInv(i)
        /\ job.kind = "Stream" => StreamInv
    BY <1>4, <2>2 DEF DeliveredInv, Active
  <2>4. \A i \in DOMAIN job.files : Alone(i)' <=> Alone(i)
    BY <2>2 DEF Alone
  <2>5. /\ k \in DOMAIN job.files /\ job.kind \in {"InPlace", "Stream"}
        /\ disk \in [DOMAIN disk0 -> Files] /\ job.files \in Seq(Paths)
    BY <1>4 DEF TypeInv, AtWork, DiskOK, Jobs
  <2>6. CASE job.kind = "InPlace"
    <3>1. SUFFICES ASSUME NEW i \in DOMAIN job.files, Alone(i)
                   PROVE  InPlaceInv(i)'
      BY <2>2, <2>4, <2>6
    <3> DEFINE n == At[job.files[i]]
    <3>2. /\ Source = At[Path] /\ Target = Path /\ ~ToStdout /\ At[Path] \in DOMAIN disk0
          /\ InPlaceInv(i) /\ n \in DOMAIN disk0
          /\ i # k => n # At[Path]
          /\ i = k => n = At[Path]
      BY <1>4, <2>3, <2>5, <2>6, <3>1, NodesExist, CliAssumption DEF Alone, Path, TypeInv
    <3>3. ASSUME NEW code \in {0, 1}, Done(code), UNCHANGED disk,
                 code = 0 /\ Alone(k) =>
                   OwedBy(job.relr, disk0[At[Path]].content, disk[At[Path]].content)
          PROVE  InPlaceInv(i)'
      BY <1>4, <2>1, <2>3, <2>6, <3>1, <3>3, DeliveredDone
    <3>4. CASE process_file
      <4>1. CASE pc' = "read" /\ UNCHANGED <<rc, k, outcome, disk>>
        BY <1>4, <2>2, <3>2, <3>4, <4>1 DEF InPlaceInv, process_file, Holding, Writing
      <4>2. CASE Done(1) /\ UNCHANGED disk
        BY <3>3, <4>2
      <4> QED BY <2>6, <3>4, <4>1, <4>2 DEF process_file, Done
    <3>5. CASE read_input
      <4>1. CASE data' = File.content /\ pc' = "process" /\ UNCHANGED <<rc, k, outcome, disk>>
        BY <2>2, <3>2, <3>5, <4>1 DEF InPlaceInv, read_input, Holding, Writing, File
      <4>2. CASE Done(1) /\ UNCHANGED disk
        BY <3>3, <4>2
      <4> QED BY <3>5, <4>1, <4>2 DEF read_input
    <3>6. CASE Process
      <4>1. UNCHANGED <<disk, data>> /\ pc = "process"
        BY <3>6 DEF Process
      <4>2. CASE Done(0) /\ OwedBy(job.relr, data, data)
        <5>1. ASSUME Alone(k)
              PROVE  data = disk0[At[Path]].content /\ disk[At[Path]] = disk0[At[Path]]
          <6>1. InPlaceInv(k)
            BY <2>3, <2>5, <2>6, <5>1
          <6> QED BY <4>1, <6>1 DEF InPlaceInv, Path, Holding
        <5> QED BY <3>3, <4>1, <4>2, <5>1
      <4>3. CASE pc' = "open" /\ UNCHANGED <<rc, k, outcome>> /\ OwedBy(job.relr, data, result')
        BY <2>2, <3>2, <4>1, <4>3 DEF InPlaceInv, Holding, Writing
      <4> QED BY <2>2, <3>6, <4>2, <4>3, ProcessEffect
    <3>7. CASE OpenTarget
      <4>1. UNCHANGED <<data, result>> /\ pc = "open"
        BY <3>7 DEF OpenTarget
      <4>2. CASE Put(Target, Torn) /\ pc' = "write" /\ UNCHANGED <<rc, k, outcome>>
        <5>1. i # k => disk'[n] = disk[n]
          BY <1>4, <3>2, <4>2, PutEffect
        <5>2. CASE i = k
          BY <2>2, <2>5, <3>2, <4>1, <4>2, <5>2 DEF InPlaceInv, Holding, Writing
        <5>3. CASE i # k
          BY <2>2, <3>2, <4>1, <4>2, <5>1, <5>3 DEF InPlaceInv, Holding, Writing
        <5> QED BY <5>2, <5>3
      <4>3. CASE Done(1) /\ UNCHANGED disk
        BY <3>3, <4>3
      <4> QED BY <3>2, <3>7, <4>2, <4>3 DEF OpenTarget
    <3>8. CASE WriteFile
      <4>1. UNCHANGED <<data, result>> /\ pc = "write"
        BY <3>8 DEF WriteFile
      <4>2. CASE Put(Target, result) /\ Done(0)
        <5>1. /\ disk'[At[Path]].content = result
              /\ \A m \in DOMAIN disk0 \ {At[Path]} : disk'[m] = disk[m]
          BY <1>4, <3>2, <4>1, <4>2, PutEffect DEF TypeInv, Writing
        <5>2. Alone(k) => OwedBy(job.relr, disk0[At[Path]].content, result)
          <6>1. Alone(k) => InPlaceInv(k)
            BY <2>3, <2>5, <2>6
          <6> QED BY <4>1, <6>1 DEF InPlaceInv, Path, Holding, Writing
        <5> QED BY <1>4, <2>1, <2>3, <2>6, <3>1, <4>2, <5>1, <5>2, DeliveredDone
      <4>3. CASE Done(1) /\ UNCHANGED disk
        BY <3>3, <4>3
      <4> QED BY <2>6, <3>8, <4>2, <4>3 DEF WriteFile
    <3>9. ~set_executable /\ ~WriteStdout /\ ~ExitFlush
      BY <2>6, <3>2 DEF TypeInv, AtWork, set_executable, WriteStdout, ExitFlush
    <3> QED BY <1>4, <3>4, <3>5, <3>6, <3>7, <3>8, <3>9 DEF TrimStep, Main, Active
  <2>7. CASE job.kind = "Stream"
    <3>1. SUFFICES StreamInv'
      BY <2>2, <2>7
    <3>2. StreamInv /\ pc # "check"
      BY <2>3, <2>7 DEF TypeInv, AtWork
    <3>3. ASSUME Done(1) PROVE StreamInv'
      BY <1>4, <2>2, <2>7, <3>3, DeliveredStream
    <3>4. ASSUME UNCHANGED k
          PROVE  Source' = Source
      BY <2>2, <3>4 DEF Source, Path
    <3>5. CASE read_input
      <4>1. CASE data' = File.content /\ pc' = "process" /\ UNCHANGED <<rc, k, outcome, disk>>
        BY <2>2, <3>2, <3>4, <3>5, <4>1 DEF StreamInv, read_input, Holding, Writing, File
      <4> QED BY <3>3, <3>5, <4>1 DEF read_input
    <3>6. CASE Process
      <4>1. UNCHANGED <<disk, data>> /\ pc = "process"
        BY <3>6 DEF Process
      <4>2. pc' = "open" /\ UNCHANGED <<rc, k, outcome>> /\ OwedBy(job.relr, data, result')
        BY <2>2, <2>7, <3>6, ProcessEffect
      <4> QED BY <2>2, <3>2, <3>4, <4>1, <4>2 DEF StreamInv, Holding, Writing
    <3>7. CASE OpenTarget
      <4>1. UNCHANGED <<data, result>> /\ pc = "open"
        BY <3>7 DEF OpenTarget
      <4>2. CASE pc' = "write" /\ UNCHANGED <<rc, k, outcome>>
        BY <2>2, <3>2, <3>4, <4>1, <4>2 DEF StreamInv, Holding, Writing
      <4> QED BY <3>3, <3>7, <4>2 DEF OpenTarget
    <3>8. ASSUME pc \in Writing, UNCHANGED <<data, result>>
          PROVE  /\ OwedBy(job.relr, disk0[Source].content, result)
                 /\ result \in Contents \cup {Torn}
      BY <3>2, <3>8 DEF StreamInv, Holding, Writing, TypeInv
    <3>9. ASSUME UNCHANGED k
          PROVE  Source' = Source /\ ToStdout' = ToStdout /\ Target' = Target
      BY <2>2, <3>9 DEF Source, ToStdout, Target, Path
    <3>10. CASE WriteFile
      <4>1. pc = "write" /\ UNCHANGED <<data, result>> /\ ~ToStdout
        BY <3>10 DEF WriteFile
      <4>2. CASE Put(Target, result) /\ pc' = "chmod" /\ UNCHANGED <<rc, k, outcome>>
        <5>1. OwedBy(job.relr, disk0[Source].content, disk'[At[Target]].content)
          BY <1>4, <3>8, <4>1, <4>2, PutEffect DEF Writing
        <5> QED BY <2>2, <3>2, <3>9, <4>1, <4>2, <5>1 DEF StreamInv, Passed, Holding, Writing
      <4> QED BY <2>7, <3>3, <3>10, <4>2 DEF WriteFile
    <3>11. CASE set_executable
      <4>1. pc = "chmod" /\ Done(0) /\ ~ToStdout /\ At[Target] \in DOMAIN disk0
        BY <1>4, <3>11, NodesExist DEF set_executable, TypeInv, AtWork
      <4>2. disk'[At[Target]].content = disk[At[Target]].content
        BY <1>4, <3>11, <4>1, ExecEffect DEF set_executable
      <4>3. OwedBy(job.relr, disk0[Source].content, disk[At[Target]].content)
        BY <3>2, <4>1 DEF StreamInv, Passed
      <4> QED BY <1>4, <2>2, <2>7, <4>1, <4>2, <4>3, DeliveredStream
    <3>12. CASE WriteStdout
      <4>1. pc = "write" /\ UNCHANGED <<data, result>> /\ ToStdout
        BY <3>12 DEF WriteStdout
      <4>2. CASE /\ \E kept \in BOOLEAN : stdout' = (IF kept THEN Torn ELSE result) /\ buffered' = kept
                 /\ pc' = "exit" /\ UNCHANGED <<rc, k, outcome>>
        <5>1. buffered' \/ OwedBy(job.relr, disk0[Source].content, stdout')
          BY <3>8, <4>1, <4>2 DEF Writing
        <5> QED BY <2>2, <3>2, <3>9, <4>1, <4>2, <5>1 DEF StreamInv, Passed, Holding, Writing
      <4> QED BY <3>3, <3>12, <4>2 DEF WriteStdout
    <3>13. CASE ExitFlush
      <4>1. pc = "exit" /\ UNCHANGED <<data, result>> /\ Done(0) /\ ToStdout
        BY <3>13 DEF ExitFlush, TypeInv, AtWork
      <4>2. buffered' \/ OwedBy(job.relr, disk0[Source].content, stdout')
        BY <3>2, <3>8, <3>13, <4>1 DEF ExitFlush, output, Writing, StreamInv, Passed
      <4> QED BY <1>4, <2>2, <2>7, <4>1, <4>2, DeliveredStream
    <3> QED BY <1>4, <3>2, <3>5, <3>6, <3>7, <3>10, <3>11, <3>12, <3>13
      DEF TrimStep, Main, process_file, Active
  <2> QED BY <2>2, <2>5, <2>6, <2>7
<1>5. TrimStep => Main \/ pc \in Active
  BY DEF TrimStep, process_file, read_input, Process, OpenTarget, WriteFile, set_executable,
         WriteStdout, ExitFlush, Active
<1> QED BY <1>1, <1>2, <1>3, <1>4, <1>5

\* An undisturbed run that reports success has written, for every file no
\* other argument leads to, an image trimmed if it had dead code and packed
\* if that was asked for and possible; a stream passes the same on, unless
\* what its standard output had buffered was lost at exit.
THEOREM OwedIsDelivered == Spec => []Delivered
<1>1. Init => DeliveredInv
  BY DEF Init, DeliveredInv, Blank
<1>2. TypeInv /\ OutcomeInv /\ DeliveredInv => Delivered
  <2> SUFFICES ASSUME TypeInv, OutcomeInv, DeliveredInv,
                      pc = "done", edits = 0, ~job.dry_run
               PROVE  Delivered
    BY DEF Delivered
  <2>1. \A c, new : OwedBy(job.relr, c, new) => Owed(c, new)
    BY DEF OwedBy, Owed
  <2>2. /\ Len(job.files) \in Nat /\ DOMAIN job.files = 1..Len(job.files)
        /\ DOMAIN outcome = 1..Len(job.files)
    BY DEF TypeInv, Jobs
  <2>3. ASSUME job.kind = "InPlace", NEW i \in DOMAIN outcome, outcome[i] = "ok",
               \A j \in DOMAIN outcome \ {i} : At[job.files[j]] # At[job.files[i]]
        PROVE  Owed(disk0[At[job.files[i]]].content, disk[At[job.files[i]]].content)
    <3>1. i < k
      BY <2>2, <2>3 DEF OutcomeInv
    <3>2. InPlaceInv(i)
      BY <2>2, <2>3 DEF DeliveredInv, Alone
    <3> QED BY <2>1, <2>3, <3>1, <3>2 DEF InPlaceInv
  <2>4. ASSUME job.kind = "Stream", rc = 0
        PROVE  IF ToStdout THEN buffered \/ Owed(disk0[Source].content, stdout)
               ELSE Owed(disk0[Source].content, disk[At[Target]].content)
    BY <2>1, <2>4 DEF DeliveredInv, StreamInv, Passed
  <2> HIDE DEF Owed
  <2> QED BY <2>3, <2>4 DEF Delivered
<1>3. Init => OutcomeInv
  BY DEF Init, OutcomeInv, Blank
<1> QED BY <1>1, <1>2, <1>3, OutcomeStep, DeliveredStep, TypeInvariant, PTL DEF Spec

=============================================================================
