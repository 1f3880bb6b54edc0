--------------------------- MODULE MCReachability ---------------------------
(***************************************************************************)
(* Small images for Reachability: one runtime-keep function and three      *)
(* others, placed in three slots, so that aliases, gaps (code in no        *)
(* function) and functions too small to remove all occur.                  *)
(***************************************************************************)
EXTENDS Reachability

CONSTANTS main, f, g, h, start

MCNames == {main, f, g, h}
MCRuntimeKeep == {main, start}    \* start is in no image

Slots == {0, 2, 4}
SlotSize(a) == IF a = 4 THEN 1 ELSE 2    \* address 5 lies in no function

\* Names other than main are interchangeable: only ordered placements count.
Placement == {p \in [MCNames -> Slots] :
                p[f] <= p[g] /\ p[g] <= p[h] /\ p[main] = 0}

FlatMap(p) ==
  [n \in MCNames |-> [addr |-> p[n], size |-> SlotSize(p[n]),
                      is_global |-> n = h /\ p[f] = 2]]

\* Every two ranges are equal or disjoint.
FlatMaps == {FlatMap(p) : p \in Placement}

AllRefs == {[addr |-> a, target |-> t] : a \in {0, 3, 5}, t \in {0, 3, 4}}

MCRefSets ==
  {{}} \cup {{r} : r \in AllRefs} \cup {{q, r} : q, r \in AllRefs}

MCWordSets    == {{}, {4}}
MCManagedSets == {{}, {2}}
=============================================================================
