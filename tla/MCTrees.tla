------------------------------ MODULE MCTrees ------------------------------
(* Small instances of the two block maps of a file: extent trees (Extents) and
   indirect blocks with their migration (IndirectMap).  A behaviour exercises
   one of them, in one of the setups below. *)
EXTENDS Extents, IndirectMap

CONSTANT Parts  \* {"extents", "indirect"}, or one of them

VARIABLE part  \* the block map that this behaviour is about

\* Grants that fall short.
NoSpace == [Plenty EXCEPT !.blocks = 0]

NoMemory == [Plenty EXCEPT !.memory = FALSE]

NoCredits == [Plenty EXCEPT !.credits = FALSE]

(* A tree whose root holds one entry and whose blocks hold two, so that three
   extents make it grow and split; logical blocks 0..3. *)
Base == [nblk |-> 4, ratio |-> 1, rootmax |-> 1, blkmax |-> 2, maxlen |-> 3, maxzero |-> 1,
         grants |-> {Plenty}, colors |-> 1, ios |-> 1, lefts |-> {9}, crash |-> FALSE, maxmap |-> 2,
         kinds |-> {}, calls |-> {}, moves |-> {}, donates |-> {}, ends |-> {}]

\* Writes, fallocate() and I/O into unwritten extents, with and without room
\* for new tree blocks.
Converting == [Base EXCEPT !.kinds = {"write", "fallocate", "io", "unwrite"}, !.grants = {Plenty, NoSpace}]

\* Writes into longer unwritten extents, whose remainders are zeroed: on both
\* sides of the blocks written, or on one.
ZeroBoth == [Base EXCEPT !.nblk = 5, !.maxlen = 6, !.maxzero = 4,
                         !.kinds = {"write", "fallocate"}]

ZeroHead == [ZeroBoth EXCEPT !.nblk = 6, !.maxlen = 7, !.maxzero = 3]

\* Memory or journal credits may be short.
Starved == [Base EXCEPT !.kinds = {"write"}, !.calls = {"punch"},
                        !.grants = {Plenty, NoMemory, NoCredits}]

\* Removal with a restart after every extent.
Removing == [Base EXCEPT !.kinds = {"write"}, !.colors = 2, !.maxmap = 1, !.lefts = {1, 9},
                         !.calls = {"truncate", "punch"}]

\* The same with clusters of two blocks.
Clusters == [Removing EXCEPT !.nblk = 5, !.ratio = 2, !.colors = 1, !.maxmap = 2]

\* Collapse and insert range, with crashes.
RangeShifts == [Base EXCEPT !.kinds = {"write"}, !.calls = {"collapse", "insert"}, !.crash = TRUE]

\* Collapse range with a restart after every extent removed: with I/O in flight
\* before the range, and in a longer file.
Collapsing == [RangeShifts EXCEPT !.kinds = {"write", "io"}, !.lefts = {1, 9}, !.calls = {"collapse"}]

Longer == [Collapsing EXCEPT !.kinds = {"write"}, !.nblk = 5]

\* Exchange of extents with a donor file.
Moving == [Base EXCEPT !.nblk = 3, !.kinds = {"write", "fallocate"}, !.maxmap = 1,
                       !.moves = {<<0, 0, 3>>, <<0, 1, 2>>, <<1, 0, 1>>}, !.donates = {"fallocate"},
                       !.ends = {"done", "busy", "unread"}]

ExtentSetups == {Converting, ZeroBoth, ZeroHead, Starved, Removing, Clusters, RangeShifts, Collapsing, Longer, Moving}

\* A hole in a file of clusters of two blocks with written and unwritten extents.
PunchClusters == [Base EXCEPT !.nblk = 6, !.ratio = 2, !.kinds = {"write", "fallocate"},
                              !.calls = {"punch"}]

ClusterSetups == {PunchClusters}

(* One direct block and two pointers in an indirect block: seven blocks up to
   the double indirect ones, fifteen with the triple. *)
Ind == [ndir |-> 1, ptrs |-> 2, levels |-> 3, writes |-> 0..6, colors |-> 1, maxlen |-> 3,
        inroot |-> 2, calls |-> {"truncate", "punch"}, errors |-> FALSE]

Deep == [Ind EXCEPT !.levels = 4, !.writes = {5, 8, 14}]

\* Migration, with failed allocations and reads; and with data in two places.
Migrating == [Ind EXCEPT !.ndir = 2, !.levels = 4, !.writes = {0, 2, 3, 6, 9}, !.calls = {"migrate"},
                         !.errors = TRUE]

Scattered == [Ind EXCEPT !.ndir = 2, !.writes = {0, 1, 3, 6}, !.colors = 2, !.calls = {"migrate"}]

IndirectSetups == {Ind, Deep, Migrating, Scattered}

Init ==
  /\ ExtInit /\ IndInit /\ part \in Parts
  /\ \/ part = "extents" /\ isu = CHOOSE s \in IndSetups : TRUE
     \/ part = "indirect" /\ su = CHOOSE s \in Setups : TRUE

Next ==
  \/ part = "extents" /\ ExtNext /\ UNCHANGED <<part, ind_vars>>
  \/ part = "indirect" /\ IndNext /\ UNCHANGED <<part, ext_vars>>

Spec == Init /\ [][Next]_<<part, ext_vars, ind_vars>>

\* No call changed the map of a file against its contract.
ContractsKept ==
  IF part = "extents" THEN MapContractKept ELSE IndContractKept /\ IndLookupTrue

\* The block bitmap holds what the maps need, once, and nothing else.
BlocksExact == IF part = "extents" THEN NothingSharedOrLeaked ELSE IndBlocksExact
=============================================================================
