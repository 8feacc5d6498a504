------------------------------ MODULE MCAlloc ------------------------------
(* Allocator and Mballoc for TLC, one of them at a time: the search has a  *)
(* group of six clusters and one with a single free cluster; the group of  *)
(* Mballoc has three clusters, one large and one small file.               *)
EXTENDS Allocator, Mballoc, TLC

CONSTANTS p1, p2

VARIABLE part   \* which of the two moves

vars == <<part, allocVars, mbVars>>

MCMetadata == [k \in Groups |-> IF k = 0 THEN {5} ELSE 0 .. Clusters - 2]
MCRequests ==
  {[len |-> 1, group |-> 0, start |-> 2, flags |-> {"goal", "only"}],
   [len |-> 3, group |-> 1, start |-> 5, flags |-> {"goal", "merge"}],
   [len |-> 4, group |-> 0, start |-> 2, flags |-> {"stream", "data", "low"}]}

MCFiles == {NoMap, [NoMap EXCEPT ![1][0] = 1], [NoMap EXCEPT ![2][1] = 0, ![1][0] = 2]}
Symmetric == Permutations(Procs)

Init ==
  /\ part \in {"search", "group"}
  /\ AllocInit /\ MbInit
  /\ part = "search" => fmap = NoMap

Next ==
  \/ part = "search" /\ AllocNext /\ UNCHANGED <<part, mbVars>>
  \/ part = "group" /\ MbNext /\ UNCHANGED <<part, allocVars>>

Spec == Init /\ [][Next]_vars

\* BuddyCanonical, where the groups of the search change: the buddy that splits
\* and joins have made is the one ext4_mb_generate_buddy() would build.
SearchedBuddyCanonical == part = "search" => BuddyCanonical
=============================================================================
