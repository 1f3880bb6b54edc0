------------------------------- MODULE MCCli -------------------------------
(***************************************************************************)
(* A small file system for Cli: two files, one of them also behind a       *)
(* symbolic link, a link leading out of /work, a name with no file.        *)
(***************************************************************************)
EXTENDS Cli

MCPaths == {"a", "b", "link", "out", "new", "10", "-"}
MCAt    == [p \in MCPaths |->
              CASE p \in {"a", "link"} -> "A" [] p = "b" -> "B" [] p = "out" -> "O"
                [] p \in {"new", "10", "-"} -> "N"]
MCLink  == [p \in MCPaths |->
              CASE p = "link" -> "inside" [] p = "out" -> "outside" [] OTHER -> "no"]

Content(dead, relr) ==
  [dead |-> dead, relr |-> relr, trimmed |-> FALSE, packed |-> FALSE, version |-> 0]

Node(kind, readonly, content) ==
  [kind |-> kind, readonly |-> readonly, exec |-> FALSE, content |-> content]

MCDisks ==
  {[n \in {"A", "B", "O", "N", "stdin"} |->
      CASE n \in {"A", "stdin", "O"} -> Node("file", FALSE, c)
        [] n = "B" -> b
        [] n = "N" -> Node("none", FALSE, None)] :
    c \in {Content(d, r) : d \in BOOLEAN, r \in {"packable", "static", "refused"}},
    b \in {Node("file", FALSE, Content(TRUE, "packable")),
           Node("file", TRUE, Content(TRUE, "packable")), Node("dir", FALSE, None)}}

Options == {<<>>, <<"--dry-run">>, <<"--relr">>, <<"--relr-static", "--relr">>,
            <<"--dry-run", "--relr-static">>}

MCArgLists ==
  {<<"--in-place">> \o o \o f : o \in Options,
     f \in {<<"a", "b">>, <<"b", "a">>, <<"out", "new", "a">>, <<"a", "link">>, <<"-", "a">>}}
  \cup {o \o f : o \in Options,
     f \in {<<"a">>, <<"-">>, <<"a", "new">>, <<"a", "a">>, <<"-", "b">>, <<"new", "a">>,
           <<"a", "-">>}}
  \cup {<<>>, <<"--in-place">>, <<"--help", "--bogus">>, <<"--bogus", "--help">>,
        <<"--max-sccp-instrs", "--help">>, <<"--max-sccp-instrs">>,
        <<"--max-sccp-instrs", "10", "a">>, <<"--max-sccp-instrs=10", "a">>,
        <<"--max-sccp-instrs=x", "a">>, <<"a", "b", "new">>}
=============================================================================
