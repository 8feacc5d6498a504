------------------------------- MODULE Buddy -------------------------------
(***************************************************************************)
(* The in-memory picture that mballoc.c keeps of one block group: the      *)
(* bitmap, and above it the buddy, one bitmap for each order, in which a   *)
(* clear bit stands for a free chunk of 2^order clusters that is not part  *)
(* of a larger free chunk.  Allocation splits chunks, freeing joins them.  *)
(*                                                                         *)
(* A group is a record: used is the bitmap as the set of its set bits;     *)
(* buddy[o] is the set of the CLEAR bits of order o, for o > 0; counters,  *)
(* free, fragments, first and largest are the fields of ext4_group_info.   *)
(***************************************************************************)
EXTENDS Integers, FiniteSetsExt

CONSTANTS MaxOrder,   \* s_blocksize_bits + 1
          Clusters    \* EXT4_CLUSTERS_PER_GROUP

\* The bits of the bitmap; a smaller group leaves the last ones set.
Bits == 4 * 2^MaxOrder
Orders == 0 .. MaxOrder

ASSUME BuddyAssumption ==
  /\ MaxOrder \in Nat \ {0}
  /\ Clusters \in 1 .. Bits

Span(first, len) == first .. first + len - 1

\* s_mb_maxs[o]: the number of chunks of order o.
Chunks(o) == Bits \div 2^o

\* mb_test_bit() in the bitmap of order o.
test_bit(g, o, k) == IF o = 0 THEN k \in g.used ELSE k \notin g.buddy[o]

\* mb_find_next_zero_bit() and mb_find_next_bit() in the bitmap of order 0.
next_zero(U, i) == Min({k \in i .. Clusters - 1 : k \notin U} \cup {Clusters})
next_set(U, i) == Min({k \in i .. Clusters - 1 : k \in U} \cup {Clusters})

-----------------------------------------------------------------------------
(* Building the buddy from the bitmap.                                     *)

\* The largest order of a chunk that starts at first (ffs(first | border) - 1)
\* and the largest that fits into len (fls(len) - 1).
aligned_order(first) == Max({o \in Orders : first % 2^o = 0})
fitting_order(len) == Max({o \in 0 .. MaxOrder + 2 : 2^o <= len})

RECURSIVE mark_free_simple(_, _, _)
mark_free_simple(g, first, len) ==
  IF len = 0 THEN g
  ELSE LET o == Min({aligned_order(first), fitting_order(len)})
           h == [g EXCEPT !.counters[o] = @ + 1,
                          !.buddy[o] = IF o = 0 THEN {} ELSE @ \cup {first \div 2^o}]
       IN mark_free_simple(h, first + 2^o, len - 2^o)

\* mb_set_largest_free_order()
set_largest(g) ==
  [g EXCEPT !.largest = Max({-1} \cup {o \in Orders : g.counters[o] > 0})]

RECURSIVE generate_from(_, _)
generate_from(g, i) ==
  IF i >= Clusters THEN g
  ELSE LET end == next_set(g.used, i)
           h == mark_free_simple([g EXCEPT !.fragments = @ + 1], i, end - i)
       IN generate_from(h, IF end < Clusters THEN next_zero(g.used, end) ELSE end)

\* ext4_mb_generate_buddy() on a buddy without free chunks: a wrong bb_free is
\* corrected, and the group is not trusted any more.
generate_buddy(g) ==
  LET clean == [g EXCEPT !.first = next_zero(g.used, 0),
                         !.fragments = 0,
                         !.counters = [o \in Orders |-> 0],
                         !.buddy = [o \in Orders |-> {}]]
      h == generate_from(clean, clean.first)
      free == Cardinality((0 .. Clusters - 1) \ g.used)
  IN set_largest([h EXCEPT !.free = free, !.corrupt = @ \/ g.free # free])

\* The group whose used clusters are U.
GroupOf(U) ==
  generate_buddy([used |-> U \cup (Clusters .. Bits - 1), buddy |-> <<>>,
                  counters |-> <<>>, free |-> Cardinality((0 .. Clusters - 1) \ U),
                  fragments |-> 0, first |-> 0, largest |-> -1, corrupt |-> FALSE])

-----------------------------------------------------------------------------
(* Freeing.                                                                *)

\* Mutant: a freed chunk is never joined with its right neighbour.
border_left_only(g, o, bit, side) ==
  IF test_bit(g, o, bit + side) \/ side = 1
    THEN [g |-> [g EXCEPT !.buddy[o] = @ \cup {bit}, !.counters[o] = @ + 1],
          bit |-> bit - side]
    ELSE [g |-> [g EXCEPT !.buddy[o] = @ \ {bit + side}, !.counters[o] = @ - 1],
          bit |-> bit + side]

\* A border chunk is freed when its neighbour is in use, and joined with a free
\* neighbour otherwise.
mb_buddy_adjust_border(g, o, bit, side) ==
  IF test_bit(g, o, bit + side)
    THEN [g |-> [g EXCEPT !.buddy[o] = @ \cup {bit}, !.counters[o] = @ + 1],
          bit |-> bit - side]
    ELSE [g |-> [g EXCEPT !.buddy[o] = @ \ {bit + side}, !.counters[o] = @ - 1],
          bit |-> bit + side]

\* The chunks first..last of order o are free: borders that do not fit into a
\* chunk of the next order are dealt with, the rest goes up.
RECURSIVE mb_buddy_mark_free(_, _, _, _)
mb_buddy_mark_free(g, o, first, last) ==
  LET l == IF first % 2 = 1 THEN mb_buddy_adjust_border(g, o, first, -1)
           ELSE [g |-> g, bit |-> first]
      r == IF last % 2 = 0 THEN mb_buddy_adjust_border(l.g, o, last, 1)
           ELSE [g |-> l.g, bit |-> last]
  IN IF l.bit > r.bit THEN r.g
     ELSE IF l.bit = r.bit \/ o = MaxOrder
       THEN [r.g EXCEPT !.buddy[o] = @ \cup (l.bit .. r.bit),
                        !.counters[o] = @ + r.bit - l.bit + 1]
       ELSE mb_buddy_mark_free(r.g, o + 1, l.bit \div 2, r.bit \div 2)

mb_free_blocks(g, first, count) ==
  LET last == first + count - 1
      left == first # 0 /\ first - 1 \notin g.used
      right == last + 1 < Bits /\ last + 1 \notin g.used
      freed == [g EXCEPT !.free = @ + count, !.first = Min({@, first}),
                         !.used = @ \ (first .. last)]
      frags == [freed EXCEPT !.fragments = @ + (IF left /\ right THEN -1
                                                ELSE IF left \/ right THEN 0 ELSE 1)]
      odd == first % 2 = 1
      even == last % 2 = 0
      zero == (IF odd THEN IF left THEN -1 ELSE 1 ELSE 0)
                + (IF even THEN IF right THEN -1 ELSE 1 ELSE 0)
      from == IF odd /\ ~left THEN first + 1 ELSE first
      to == IF even /\ ~right THEN last - 1 ELSE last
      h == [frags EXCEPT !.counters[0] = @ + zero]
  IN IF g.corrupt THEN g
     ELSE IF ~((first .. last) \subseteq g.used)
       THEN generate_buddy([freed EXCEPT !.corrupt = TRUE])
       ELSE set_largest(IF from <= to
                          THEN mb_buddy_mark_free(h, 1, from \div 2, to \div 2)
                          ELSE h)

-----------------------------------------------------------------------------
(* Looking for free clusters.                                              *)

\* The order of the free chunk that holds the block, 0 when it is not part of
\* a chunk of a higher order.
mb_find_order_for_block(g, block) ==
  LET hit == {o \in 1 .. MaxOrder : ~test_bit(g, o, block \div 2^o)}
  IN IF hit = {} THEN 0 ELSE Min(hit)

\* The loop of mb_find_extent(): chunk after chunk, while more is needed.
RECURSIVE extend(_, _, _, _, _)
extend(g, block, o, len, needed) ==
  IF needed <= len \/ block + 1 >= Chunks(o) THEN len
  ELSE LET next == (block + 1) * 2^o
           p == mb_find_order_for_block(g, next)
       IN IF next \in g.used THEN len
          ELSE extend(g, next \div 2^p, p, len + 2^p, needed)

\* The length of the free extent that mb_find_extent() finds at the block.
mb_find_extent(g, block, needed) ==
  LET o == mb_find_order_for_block(g, block)
      chunk == block \div 2^o
  IN IF block \in g.used THEN 0
     ELSE extend(g, chunk, o, (chunk + 1) * 2^o - block, needed)

-----------------------------------------------------------------------------
(* Allocating.                                                             *)

\* The loop of mb_mark_used(): whole chunks are taken, larger ones are split
\* until one fits.
RECURSIVE take_chunks(_, _, _)
take_chunks(g, start, len) ==
  IF len = 0 THEN g
  ELSE LET o == mb_find_order_for_block(g, start)
           chunk == start \div 2^o
           taken == [g EXCEPT !.buddy[o] = @ \ {chunk}, !.counters[o] = @ - 1]
           half == 2 * chunk
       IN IF start % 2^o = 0 /\ len >= 2^o
            THEN take_chunks(taken, start + 2^o, len - 2^o)
            ELSE take_chunks(
                   [taken EXCEPT !.buddy[o - 1] = IF o = 1 THEN {} ELSE @ \cup {half, half + 1},
                                 !.counters[o - 1] = @ + 2],
                   start, len)

mb_mark_used(g, start, len) ==
  LET left == start # 0 /\ start - 1 \notin g.used
      right == start + len < Bits /\ start + len \notin g.used
      h == [g EXCEPT !.free = @ - len,
                     !.first = IF @ = start THEN @ + len ELSE @,
                     !.fragments = @ + (IF left /\ right THEN 1
                                        ELSE IF left \/ right THEN 0 ELSE -1)]
  IN [set_largest(take_chunks(h, start, len)) EXCEPT !.used = @ \cup Span(start, len)]

-----------------------------------------------------------------------------
(* What the buddy of a group is for every bitmap, and what the functions   *)
(* that search it return.                                                  *)

FreeIn(g) == (0 .. Clusters - 1) \ g.used

\* The free chunks are the maximal aligned ones: what __mb_check_buddy() asserts
\* and more.
Canonical(g) ==
  LET freeChunk(o, k) == Span(k * 2^o, 2^o) \cap g.used = {}
      maximal(o, k) == freeChunk(o, k) /\ (o < MaxOrder => ~freeChunk(o + 1, k \div 2))
      all(o) == {k \in 0 .. Chunks(o) - 1 : maximal(o, k)}
  IN /\ \A o \in 1 .. MaxOrder : g.buddy[o] = all(o)
     /\ \A o \in Orders : g.counters[o] = Cardinality(all(o))
     /\ g.free = Cardinality(FreeIn(g))
     /\ g.fragments = Cardinality({k \in FreeIn(g) : k = 0 \/ k - 1 \in g.used})
     /\ \A k \in FreeIn(g) : g.first <= k
     /\ g.largest = Max({-1} \cup {o \in Orders : all(o) # {}})

=============================================================================
