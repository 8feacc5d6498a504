----------------------------- MODULE ExtentTree -----------------------------
(***************************************************************************)
(* One extent status tree: how __es_insert_extent(), __es_remove_extent()  *)
(* and es_do_reclaim_extents() of extents_status.c change it.              *)
(*                                                                         *)
(* The red-black tree is the set of its extents: its users only search by  *)
(* block and go to the next extent.                                        *)
(***************************************************************************)
EXTENDS Naturals, FiniteSets

CONSTANTS NBlocks,    \* blocks of a file
          Types,      \* statuses in use, sets of the flags "w", "u", "d", "h"
          Places      \* offsets from logical to physical block numbers

ASSUME FileAssumption ==
  /\ NBlocks \in Nat \ {0}
  /\ Types \subseteq SUBSET {"w", "u", "d", "h"}
  /\ Places \subseteq Nat

\* A status with a physical block is no hole, and delayed only while unwritten:
\* what the callers pass, and what ext4_es_insert_extent() warns about otherwise.
ASSUME TypesAssumption ==
  \A y \in Types : "w" \in y \/ "u" \in y => "h" \notin y /\ ("d" \in y => "u" \in y)

Block == 0 .. NBlocks - 1
None == NBlocks

Delayed(e) == "d" \in e.type
Mapped(e) == "w" \in e.type \/ "u" \in e.type

\* The physical block is kept only where it means something.
Extent(lblk, len, type, place) ==
  [lblk |-> lblk, len |-> len, type |-> type, ref |-> FALSE,
   pblk |-> IF "w" \in type \/ "u" \in type THEN lblk + place ELSE 0]

NewExtents ==
  {Extent(l, n, y, o) : l \in Block, n \in 1 .. NBlocks, y \in Types, o \in Places}

Extents == {e \in NewExtents : e.lblk + e.len <= NBlocks}

ext4_es_end(e) == e.lblk + e.len - 1

-----------------------------------------------------------------------------
\* The extent that holds block b or else the next one, as a set of at most one.
es_tree_search(T, b) ==
  LET from == {e \in T : ext4_es_end(e) >= b}
  IN  {e \in from : \A f \in from : e.lblk <= f.lblk}

ext4_es_can_be_merged(e, f) ==
  /\ e.type = f.type
  /\ e.lblk + e.len = f.lblk
  /\ \/ Mapped(e) /\ e.pblk + e.len = f.pblk
     \/ "h" \in e.type
     \/ Delayed(e) /\ "u" \notin e.type

\* The neighbours that a new extent n is merged with, in either order.
Left(T, n) == {e \in T : ext4_es_can_be_merged(e, n)}
Right(T, n) == {e \in T : ext4_es_can_be_merged(n, e)}

\* Mutant: only the neighbour that is met first is merged.
insert_one_side(T, n) ==
  LET m == IF Left(T, n) # {} THEN Left(T, n) ELSE Right(T, n)
      first == IF Left(T, n) # {} THEN CHOOSE e \in m : TRUE ELSE n
  IN (T \ m) \cup
     {[first EXCEPT !.len = n.len + (IF m = {} THEN 0 ELSE (CHOOSE e \in m : TRUE).len)]}

\* __es_insert_extent(): n goes into a neighbour, both neighbours become one,
\* or n is a new extent.  Flags of n that is merged are lost, those of two old
\* extents are joined.
es_insert(T, n) ==
  LET m == Left(T, n) \cup Right(T, n)
      first == IF Left(T, n) # {} THEN CHOOSE e \in Left(T, n) : TRUE ELSE n
      right == {e.len : e \in Right(T, n)}
      sum == n.len + (IF Left(T, n) # {} THEN first.len ELSE 0)
                   + (IF right # {} THEN CHOOSE l \in right : TRUE ELSE 0)
  IN (T \ m) \cup
     {[first EXCEPT !.len = sum,
                    !.ref = IF m = {} THEN n.ref ELSE \E e \in m : e.ref]}

needs_alloc(T, n) == Left(T, n) \cup Right(T, n) = {}

\* What is left of e in front of and behind the blocks lo..hi.
Before(e, lo) ==
  IF e.lblk < lo THEN {[e EXCEPT !.len = lo - e.lblk]} ELSE {}

\* Mutant: the rest is one block too long.
rest_too_long(e, hi) ==
  IF ext4_es_end(e) > hi
    THEN {[e EXCEPT !.lblk = hi + 1, !.len = ext4_es_end(e) - hi + 1,
                    !.pblk = IF Mapped(e) THEN e.pblk + (hi + 1 - e.lblk) ELSE 0]}
    ELSE {}

After(e, hi) ==
  IF ext4_es_end(e) > hi
    THEN {[e EXCEPT !.lblk = hi + 1, !.len = ext4_es_end(e) - hi,
                    !.pblk = IF Mapped(e) THEN e.pblk + (hi + 1 - e.lblk) ELSE 0]}
    ELSE {}

Overlap(T, lo, hi) == {e \in T : e.lblk <= hi /\ ext4_es_end(e) >= lo}

\* An extent that sticks out on both sides is split, which takes a new extent.
Split(T, lo, hi) == {e \in Overlap(T, lo, hi) : e.lblk < lo /\ ext4_es_end(e) > hi}

\* __es_remove_extent(): the tail of a split goes through __es_insert_extent().
es_remove(T, lo, hi) ==
  LET hit == Overlap(T, lo, hi)
      front == (T \ hit) \cup UNION {Before(e, lo) : e \in hit}
      tail == UNION {After(e, hi) : e \in hit}
  IN IF Split(T, lo, hi) = {}
       THEN front \cup tail
       ELSE es_insert(front, CHOOSE e \in tail : TRUE)

\* Mutant: cache_es is not invalidated.
cache_kept(T, c, lo, hi) == c

\* cache_es after a removal: kept when nothing was hit, on the new extent of a
\* split, none otherwise.
cache_removed(T, c, lo, hi) ==
  IF Overlap(T, lo, hi) = {} THEN c
  ELSE IF Split(T, lo, hi) # {} THEN hi + 1 ELSE None

\* cache_es after an insertion: the extent that now holds n.
cache_inserted(T, n) ==
  (CHOOSE e \in es_insert(T, n) : e.lblk <= n.lblk /\ n.lblk <= ext4_es_end(e)).lblk

-----------------------------------------------------------------------------
\* Extents the shrinker may take.
Reclaimable(T) == {e \in T : ~Delayed(e)}

\* The scan of es_do_reclaim_extents(): from block start up to block end, at
\* most n extents.
Scan(T, start, end, n) ==
  LET from == {e \in T : ext4_es_end(e) >= start}
      inside == {e \in from : e.lblk <= end}
      seen == {e \in inside : Cardinality({f \in inside : f.lblk < e.lblk}) < n}
      left == from \ seen
  IN [seen |-> seen,
      n |-> n - Cardinality(seen),
      at |-> IF left = {} THEN 0
             ELSE IF Cardinality(seen) < n THEN end + 1
             ELSE (CHOOSE e \in left : \A f \in left : e.lblk <= f.lblk).lblk,
      more |-> left # {} /\ Cardinality(seen) = n]

\* Mutant: delayed extents are reclaimed as well.
reclaim_any(T, seen) ==
  (T \ seen) \cup {[e EXCEPT !.ref = FALSE] : e \in {f \in seen : f.ref}}

\* Delayed extents stay, referenced ones get a second chance.
reclaim(T, seen) ==
  {e \in T : e \notin seen \/ Delayed(e)}
    \cup {[e EXCEPT !.ref = FALSE] : e \in {f \in T \cap seen : f.ref /\ ~Delayed(f)}}

=============================================================================
