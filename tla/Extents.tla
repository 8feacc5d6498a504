------------------------------ MODULE Extents ------------------------------
(* The extent tree of a file (extents.c, and the loop of move_extent.c): the
   tree of extents and index entries in the inode and in tree blocks, and the
   operations that look up, insert, split, convert, remove, shift and swap
   extents.  Every operation runs under i_data_sem, so it is one step, except
   where it lets go of the semaphore: ext4_ext_remove_space() and the two range
   shifts where they may restart their transaction, and ext4_move_extents()
   between pages.

   A leaf is a sequence of extents [lblk, len, pb, unw]; an index block is a
   sequence of entries [lblk, sub] whose sub is the block below.  A path is
   the sequence of positions chosen from the root down to the leaf; position 0
   in an empty leaf stands for a NULL p_ext.

   The variable su fixes one setup of the instance: the sizes (nblk logical
   blocks, ratio blocks per cluster, rootmax and blkmax entries per node,
   maxlen for EXT_INIT_MAX_LEN, maxzero for s_extent_max_zeroout_kb), what a
   call may be granted (grants: tree blocks from the allocator, memory for their
   buffers, journal credits; colors: where data are placed) and the operations
   that are called (kinds: ways to map; calls: removals and shifts; moves and
   donates: exchanges with a donor file; lefts: extents a removal drops before
   it must restart; ios: I/O in flight; maxmap: blocks per call; ends: how the
   exchange of a page may end; crash: whether crashes happen).

   The variable slip records known weaknesses.  Nothing happens after one was
   met, so that the properties speak of the rest:
     "half"     an unwritten extent is zeroed for want of space, and part of it
                is marked written although its data are not, or the call fails
                after it was;
     "next"     the cluster noted behind a hole is not the next one;
     "dropped"  a partial cluster that was noted is overwritten after a restart;
     "crash"    a partial cluster that was noted is forgotten in a crash;
     "leak"     the block for a new root level is lost for want of memory;
     "path"     a writer of pages before the range of a suspended shift changes
                nodes that it has noted, or joins extents across its start;
     "keys"     a crash between the shift of a leaf and that of a key above;
     "repair"   a swap is undone at the wrong offsets. *)
EXTENDS Integers, FiniteSets, SequencesExt

CONSTANT Setups

VARIABLES
  su,       \* the setup of this behaviour
  tree,     \* ext_inode_hdr(inode) and the blocks under it: [depth, root]
  donor,    \* the tree of the donor file of EXT4_IOC_MOVE_EXT
  meta,     \* tree blocks the two files hold in the block bitmap
  used,     \* data clusters the two files hold in the block bitmap
  isize,    \* i_size in blocks
  pending,  \* ranges under I/O whose conversion is due: [l, n, counted]
  call,     \* the operation that let go of i_data_sem, or Idle
  slip,     \* known weaknesses of the code that have been met
  broken    \* what some operation did to the map against its contract

ext_vars == <<su, tree, donor, meta, used, isize, pending, call, slip, broken>>

----------------------------------------------------------------------------
(* Blocks, clusters and limits. *)

EXT_MAX_BLOCKS == su.nblk

EXT_INIT_MAX_LEN == su.maxlen

EXT_UNWRITTEN_MAX_LEN == su.maxlen - 1

B2C(b) == b \div su.ratio

COFF(b) == b % su.ratio

CMASK(b) == b - COFF(b)

\* eh_max of the node at a level of a path (level 1 is the root in the inode).
EhMax(k) == IF k = 1 THEN su.rootmax ELSE su.blkmax

Low(a, b) == IF a < b THEN a ELSE b

High(a, b) == IF a > b THEN a ELSE b

EmptyTree == [depth |-> 0, root |-> <<>>]

Idle == [op |-> "none"]

\* What a call is granted when nothing is short.
Plenty == [blocks |-> 9, memory |-> TRUE, credits |-> TRUE]

NoExt == [lblk |-> -1, len |-> 0, pb |-> 0, unw |-> FALSE]

End(ex) == ex.lblk + ex.len

in_range(b, ex) == ex.lblk <= b /\ b < End(ex)

RECURSIVE NodeAt(_, _, _), WithNode(_, _, _, _), Flat(_, _), Nodes(_, _)

\* The entries of the node at level k of path p, below the entries es.
NodeAt(es, p, k) == IF k = 1 THEN es ELSE NodeAt(es[p[1]].sub, Tail(p), k - 1)

\* es with that node's entries replaced.
WithNode(es, p, k, new) ==
  IF k = 1 THEN new
  ELSE [es EXCEPT ![p[1]].sub = WithNode(@, Tail(p), k - 1, new)]

\* All extents below es, from left to right.
Flat(es, d) ==
  IF d = 0 \/ es = <<>> THEN es
  ELSE Flat(es[1].sub, d - 1) \o Flat(Tail(es), d)

\* The number of tree blocks below es.
Nodes(es, d) ==
  IF d = 0 \/ es = <<>> THEN 0
  ELSE 1 + Nodes(es[1].sub, d - 1) + Nodes(Tail(es), d)

Level(t, p, k) == NodeAt(t.root, p, k)

PutLevel(t, p, k, es) == [t EXCEPT !.root = WithNode(@, p, k, es)]

LeafOf(t, p) == Level(t, p, t.depth + 1)

PutLeaf(t, p, es) == PutLevel(t, p, t.depth + 1, es)

PosOf(t, p) == p[t.depth + 1]

\* path[depth].p_ext
ExtAt(t, p) == IF PosOf(t, p) = 0 THEN NoExt ELSE LeafOf(t, p)[PosOf(t, p)]

\* What the tree says of the file: logical block -> physical block and state.
RECURSIVE MapFrom(_)
MapFrom(es) ==
  IF es = <<>> THEN <<>>
  ELSE [b \in es[1].lblk .. End(es[1]) - 1 |->
          [pb |-> es[1].pb + b - es[1].lblk, unw |-> es[1].unw]] @@ MapFrom(Tail(es))

MapOf(t) == MapFrom(Flat(t.root, t.depth))

----------------------------------------------------------------------------
(* Lookup. *)

\* ext4_ext_binsearch() and ext4_ext_binsearch_idx(): the last entry that does
\* not start after the block, or the first entry.
ext4_ext_binsearch(es, b) ==
  IF es = <<>> THEN 0
  ELSE Max({1} \cup {i \in DOMAIN es : es[i].lblk <= b})

RECURSIVE FindFrom(_, _, _)
FindFrom(es, d, b) ==
  LET i == ext4_ext_binsearch(es, b)
  IN  IF d = 0 THEN <<i>> ELSE <<i>> \o FindFrom(es[i].sub, d - 1, b)

ext4_find_extent(t, b) == FindFrom(t.root, t.depth, b)

\* The levels among 1..top of the path that have an entry to the right of it.
OpenLevels(t, p, top) == {k \in 1..top : p[k] < Len(Level(t, p, k))}

\* The first block of the next extent of the leaf, or of the next subtree.
ext4_ext_next_allocated_block(t, p) ==
  LET open == OpenLevels(t, p, t.depth + 1)
      k == Max(open)
  IN  IF open = {} \/ PosOf(t, p) = 0 THEN EXT_MAX_BLOCKS
      ELSE Level(t, p, k)[p[k] + 1].lblk

ext4_ext_next_leaf_block(t, p) ==
  LET open == OpenLevels(t, p, t.depth)
      k == Max(open)
  IN  IF open = {} THEN EXT_MAX_BLOCKS ELSE Level(t, p, k)[p[k] + 1].lblk

RECURSIVE LeftMost(_, _)
LeftMost(e, d) == IF d = 0 THEN e ELSE LeftMost(e.sub[1], d - 1)

\* The closest extent to the right of block b, which the path looked for.
ext4_ext_search_right(t, p, b) ==
  LET open == OpenLevels(t, p, t.depth + 1)
      k == Max(open)
  IN  CASE PosOf(t, p) = 0 -> NoExt
        [] PosOf(t, p) # 0 /\ b < ExtAt(t, p).lblk -> ExtAt(t, p)
        [] PosOf(t, p) # 0 /\ b >= ExtAt(t, p).lblk ->
             IF open = {} THEN NoExt
             ELSE LeftMost(Level(t, p, k)[p[k] + 1], t.depth + 1 - k)

----------------------------------------------------------------------------
(* Changing the tree.  The operators that may allocate or free tree blocks
   work on a record s: the tree t and the path p into it, the tree blocks held
   (meta), what is still granted (room), the error, the physical blocks zeroed,
   and the weaknesses met. *)

Start(t, b, m, room, sl) ==
  [t |-> t, p |-> ext4_find_extent(t, b), meta |-> m, room |-> room,
   err |-> "", zero |-> {}, slip |-> sl]

Refind(s, b) == [s EXCEPT !.p = ext4_find_extent(s.t, b)]

\* Set the key of the path's entry at level k, and the keys above for as long
\* as the entry is the first of its block.
RECURSIVE SetKeys(_, _, _, _)
SetKeys(t, p, k, key) ==
  LET u == PutLevel(t, p, k, [Level(t, p, k) EXCEPT ![p[k]].lblk = key])
  IN  IF k = 0 THEN t ELSE IF p[k] = 1 THEN SetKeys(u, p, k - 1, key) ELSE u

\* Mutant of ext4_ext_correct_indexes(): only the entry right above the leaf.
correct_one_index(t, p) ==
  IF PosOf(t, p) = 1 /\ t.depth > 0
  THEN LET es == Level(t, p, t.depth)
       IN  PutLevel(t, p, t.depth, [es EXCEPT ![p[t.depth]].lblk = LeafOf(t, p)[1].lblk])
  ELSE t

\* Correct the keys above a leaf whose first extent changed.
ext4_ext_correct_indexes(t, p) ==
  IF PosOf(t, p) = 1 THEN SetKeys(t, p, t.depth, LeafOf(t, p)[1].lblk) ELSE t

ext4_can_extents_be_merged(a, b) ==
  /\ a.unw = b.unw
  /\ End(a) = b.lblk
  /\ a.len + b.len <= EXT_INIT_MAX_LEN
  /\ a.unw => /\ ~\E r \in pending : r.counted
              /\ a.len + b.len <= EXT_UNWRITTEN_MAX_LEN
  /\ a.pb + a.len = b.pb

\* Merge the extent at position i of a leaf with its right neighbours.
RECURSIVE ext4_ext_try_to_merge_right(_, _)
ext4_ext_try_to_merge_right(es, i) ==
  IF i >= 1 /\ i < Len(es) /\ ext4_can_extents_be_merged(es[i], es[i + 1])
  THEN ext4_ext_try_to_merge_right(
         RemoveAt([es EXCEPT ![i].len = @ + es[i + 1].len], i + 1), i)
  ELSE es

\* A tree of one leaf block that fits moves back into the inode, if the journal
\* extends the transaction.
ext4_ext_try_to_merge_up(s) ==
  IF /\ s.t.depth = 1 /\ Len(s.t.root) = 1 /\ Len(s.t.root[1].sub) <= su.rootmax
     /\ s.room.credits
  THEN [s EXCEPT !.t = [depth |-> 0, root |-> s.t.root[1].sub],
                 !.p = <<s.p[2]>>, !.meta = @ - 1]
  ELSE s

\* Merge the extent at position i of a leaf to the left, or else to the right.
MergeSides(es, left, i) ==
  IF Len(left) < Len(es) THEN left ELSE ext4_ext_try_to_merge_right(es, i)

\* Merge the extent at position i of the leaf of the path to either side.
ext4_ext_try_to_merge(s, i) ==
  LET es == LeafOf(s.t, s.p)
  IN  ext4_ext_try_to_merge_up([s EXCEPT !.t = PutLeaf(@, s.p,
        MergeSides(es, ext4_ext_try_to_merge_right(es, i - 1), i))])

\* Insert an entry for a new block at level k: right or left of the path.
ext4_ext_insert_index(t, p, k, key, sub) ==
  LET es == Level(t, p, k)
      at == IF key > es[p[k]].lblk THEN p[k] + 1 ELSE p[k]
  IN  PutLevel(t, p, k, InsertAt(es, at, [lblk |-> key, sub |-> sub]))

\* Split the path below level k, at the current extent: what lies to its right
\* moves into new blocks, one for each level.
RECURSIVE Moved(_, _, _, _), Kept(_, _)
Moved(t, p, k, border) ==
  LET es == Level(t, p, k)
      rest == SubSeq(es, p[k] + 1, Len(es))
  IN  IF k = t.depth + 1 THEN rest
      ELSE <<[lblk |-> border, sub |-> Moved(t, p, k + 1, border)]>> \o rest

Kept(t, k) ==  \* t is [t, p]: cut every level from k down to the leaf
  IF k > t.t.depth + 1 THEN t.t
  ELSE Kept([t EXCEPT !.t = PutLevel(t.t, t.p, k,
                       SubSeq(Level(t.t, t.p, k), 1, t.p[k]))], k + 1)

ext4_ext_split(s, new, k) ==
  LET es == LeafOf(s.t, s.p)
      i == PosOf(s.t, s.p)
      needed == s.t.depth + 1 - k
      border == IF i # Len(es) THEN es[i + 1].lblk ELSE new.lblk
      sub == Moved(s.t, s.p, k + 1, border)
      cut == Kept([t |-> s.t, p |-> s.p], k + 1)
      error == IF s.room.blocks < needed THEN "ENOSPC"
               ELSE IF ~s.room.memory THEN "ENOMEM"
               ELSE IF border = Level(s.t, s.p, k)[s.p[k]].lblk THEN "EFSCORRUPTED"
               ELSE ""
  IN  IF error # "" THEN [s EXCEPT !.err = error]
      ELSE [s EXCEPT !.t = ext4_ext_insert_index(cut, s.p, k, border, sub),
                     !.meta = @ + needed, !.room.blocks = @ - needed]

\* The root moves into a block of its own, one level down.  Without memory for
\* its buffer, the new block is not given back.
ext4_ext_grow_indepth(s) ==
  IF s.room.blocks = 0 THEN [s EXCEPT !.err = "ENOSPC"]
  ELSE IF ~s.room.memory
  THEN [s EXCEPT !.err = "ENOMEM", !.meta = @ + 1, !.slip = @ \cup {"leak"}]
  ELSE [s EXCEPT !.t = [depth |-> @.depth + 1,
                        root |-> <<[lblk |-> @.root[1].lblk, sub |-> @.root]>>],
                 !.meta = @ + 1, !.room.blocks = @ - 1]

\* Make room in the leaf for new: split below the lowest index block with a
\* free entry, or grow the tree and try again.
RECURSIVE ext4_ext_create_new_leaf(_, _)

Grown(r, new) ==
  IF r.err = "" /\ Len(LeafOf(r.t, r.p)) = EhMax(r.t.depth + 1)
  THEN ext4_ext_create_new_leaf(r, new) ELSE r

Found(r, b) == IF r.err = "" THEN Refind(r, b) ELSE r

ext4_ext_create_new_leaf(s, new) ==
  LET free == {k \in 1..s.t.depth : Len(Level(s.t, s.p, k)) < EhMax(k)}
  IN  IF free # {} THEN Found(ext4_ext_split(s, new, Max(free)), new.lblk)
      ELSE Grown(Found(ext4_ext_grow_indepth(s), new.lblk), new)

\* The tail of ext4_ext_insert_extent(): merge, and correct the keys above.
Corrected(m) == [m EXCEPT !.t = ext4_ext_correct_indexes(@, m.p)]

MergeInserted(s, i, preio) == Corrected(IF preio THEN s ELSE ext4_ext_try_to_merge(s, i))

\* Put new into the leaf of the path, which has room.
PlaceAt(s, new, preio, es, at) ==
  MergeInserted([s EXCEPT !.t = PutLeaf(@, s.p, InsertAt(es, at, new)),
                          !.p = [@ EXCEPT ![s.t.depth + 1] = at]], at, preio)

PlaceExtent(s, new, preio) ==
  LET es == LeafOf(s.t, s.p)
      i == PosOf(s.t, s.p)
  IN  PlaceAt(s, new, preio, es, IF i = 0 \/ new.lblk > es[i].lblk THEN i + 1 ELSE i)

Fits(s) == Len(LeafOf(s.t, s.p)) < EhMax(s.t.depth + 1)

PlaceMade(r, new, preio) == IF r.err # "" THEN r ELSE PlaceExtent(r, new, preio)

\* The leaf is full: use the next leaf, which starts at block next, or make room.
PlaceElsewhere(s, new, preio, next) ==
  IF next # EXT_MAX_BLOCKS /\ Fits(Refind(s, next))
  THEN [PlaceExtent(Refind(s, next), new, preio) EXCEPT !.p = s.p]
  ELSE PlaceMade(ext4_ext_create_new_leaf(s, new), new, preio)

\* The extent of the leaf that new may be merged with.
Near(es, i, new) ==
  IF i < Len(es) /\ End(es[i]) < new.lblk THEN i + 1
  ELSE IF i > 1 /\ End(new) < es[i].lblk THEN i - 1 ELSE i

InsertNear(s, new, preio, es, i, near) ==
  LET try == i # 0 /\ ~preio
      Merged(e) == MergeInserted([s EXCEPT !.t = PutLeaf(@, s.p, [es EXCEPT ![near] = e])],
                                 near, preio)
  IN  IF try /\ near <= i /\ ext4_can_extents_be_merged(es[near], new)
      THEN Merged([es[near] EXCEPT !.len = @ + new.len])
      ELSE IF try /\ ext4_can_extents_be_merged(new, es[near])
      THEN Merged([new EXCEPT !.len = @ + es[near].len])
      ELSE IF Fits(s) THEN PlaceExtent(s, new, preio)
      ELSE PlaceElsewhere(s, new, preio, IF new.lblk > es[Len(es)].lblk
                                         THEN ext4_ext_next_leaf_block(s.t, s.p)
                                         ELSE EXT_MAX_BLOCKS)

InsertFrom(s, new, preio, es, i) == InsertNear(s, new, preio, es, i, Near(es, i, new))

ext4_ext_insert_extent(s, new, preio) ==
  InsertFrom(s, new, preio, LeafOf(s.t, s.p), PosOf(s.t, s.p))

----------------------------------------------------------------------------
(* Splitting and converting extents.  A split flag is a member of f: "zero"
   (EXT4_EXT_MAY_ZEROOUT), "u1", "u2" (EXT4_EXT_MARK_UNWRIT1, 2), "v1", "v2"
   (EXT4_EXT_DATA_VALID1, 2). *)

Blocks(ex) == ex.pb .. ex.pb + ex.len - 1

\* The extent of the path, replaced.
PutExtent(s, e) ==
  [s EXCEPT !.t = PutLeaf(@, s.p, [LeafOf(@, s.p) EXCEPT ![PosOf(s.t, s.p)] = e])]

MergeExtent(s) == ext4_ext_try_to_merge(s, PosOf(s.t, s.p))

\* No tree block can be had to split ex at b: one half is zeroed and the whole
\* extent becomes written.  valid is the part of the file whose data the
\* caller knows to be good.
ZeroHalf(s, ex, b, f, valid) ==
  LET cut == ex.pb + b - ex.lblk
      zeroed == CASE "v1" \in f -> cut .. ex.pb + ex.len - 1
                  [] "v1" \notin f /\ "v2" \in f -> ex.pb .. cut - 1
                  [] OTHER -> Blocks(ex)
      half == {x \in ex.lblk .. End(ex) - 1 : ex.pb + x - ex.lblk \notin zeroed} \ valid
  IN  MergeExtent([PutExtent(s, [ex EXCEPT !.unw = FALSE]) EXCEPT
                     !.err = "", !.zero = @ \cup zeroed,
                     !.slip = IF half # {} THEN @ \cup {"half"} ELSE @])

SplitDone(r, ex, b, f, valid) ==
  IF r.err = "" THEN r
  ELSE IF r.err = "ENOSPC" /\ "zero" \in f THEN ZeroHalf(r, ex, b, f, valid)
  ELSE PutExtent(r, ex)

\* Split the extent ex of the path at block b, or only set its state when it
\* starts there.
SplitAt(s, ex, b, f, preio, valid) ==
  IF b = ex.lblk
  THEN IF preio THEN PutExtent(s, [ex EXCEPT !.unw = "u2" \in f])
       ELSE MergeExtent(PutExtent(s, [ex EXCEPT !.unw = "u2" \in f]))
  ELSE SplitDone(ext4_ext_insert_extent(
                   PutExtent(s, [ex EXCEPT !.len = b - ex.lblk, !.unw = "u1" \in f]),
                   [lblk |-> b, len |-> End(ex) - b, pb |-> ex.pb + b - ex.lblk,
                    unw |-> "u2" \in f], preio), ex, b, f, valid)

ext4_split_extent_at(s, b, f, preio, valid) ==
  SplitAt(s, ExtAt(s.t, s.p), b, f, preio, valid)

ext4_force_split_extent_at(s, b) ==
  ext4_split_extent_at(s, b, IF ExtAt(s.t, s.p).unw THEN {"u1", "u2"} ELSE {}, TRUE, {})

\* Split so that [l, l + n) has an extent of its own: first its end, then its
\* start.  Returns s and how far the blocks from l reach.
SplitHead(s, l, f, preio, valid) ==
  ext4_split_extent_at(s, l,
    (f \cap {"v2"}) \cup (IF ExtAt(s.t, s.p).unw THEN {"u1"} \cup (f \cap {"zero", "u2"}) ELSE {}),
    preio, valid)

SplitBoth(r, l, f, preio, valid) ==
  IF r.err # "" THEN r ELSE SplitHead(Refind(r, l), l, f, preio, valid)

SplitTail(s, ex, l, n, f, valid) ==
  IF l + n >= End(ex) THEN s
  ELSE ext4_split_extent_at(s, l + n,
         (f \cap {"zero"}) \cup (IF ex.unw THEN {"u1", "u2"} ELSE {})
           \cup (IF "v2" \in f THEN {"v1"} ELSE {}), TRUE, valid)

ext4_split_extent(s, l, n, f, preio, valid) ==
  LET ex == ExtAt(s.t, s.p)
  IN  [s |-> SplitBoth(SplitTail(s, ex, l, n, f, valid), l, f, preio, valid),
       got |-> IF l + n < End(ex) THEN n ELSE End(ex) - l]

EofBlock(l, n) == High(isize, l + n)

MayZeroout(ex, l, n) == IF End(ex) <= EofBlock(l, n) THEN {"zero"} ELSE {}

\* A write into an unwritten extent: hand the blocks to a written neighbour in
\* the same leaf, or zero short remainders, or split.
ext4_ext_convert_to_initialized(s, l, n) ==
  LET es == LeafOf(s.t, s.p)
      i == PosOf(s.t, s.p)
      ex == es[i]
      Abuts(a, b) == ~a.unw /\ End(a) = b.lblk /\ a.pb + a.len = b.pb
      leftcase == l = ex.lblk /\ n < ex.len /\ i > 1
      left == leftcase /\ Abuts(es[i - 1], ex) /\ es[i - 1].len < EXT_INIT_MAX_LEN - n
      right == /\ ~leftcase /\ l + n = End(ex) /\ n < ex.len /\ i < Len(es)
               /\ ~es[i + 1].unw /\ l + n = es[i + 1].lblk
               /\ ex.pb + ex.len = es[i + 1].pb
               /\ es[i + 1].len < EXT_INIT_MAX_LEN - n
      toleft == [es EXCEPT ![i - 1].len = @ + n,
                           ![i] = [ex EXCEPT !.lblk = @ + n, !.pb = @ + n, !.len = @ - n]]
      toright == [es EXCEPT ![i + 1] = [@ EXCEPT !.lblk = @ - n, !.pb = @ - n, !.len = @ + n],
                            ![i].len = @ - n]
      zero == MayZeroout(ex, l, n)
      maxz == IF zero # {} THEN su.maxzero ELSE 0
      rest == End(ex) - l
      aftr == maxz > 0 /\ rest > n /\ rest <= maxz
      n1 == IF aftr THEN rest ELSE n
      bfor == maxz > 0 /\ rest > n /\ l - ex.lblk + n1 < maxz
      l2 == IF bfor THEN ex.lblk ELSE l
      n2 == IF bfor THEN n1 + l - ex.lblk ELSE n1
      zeroed == {ex.pb + b - ex.lblk : b \in (IF aftr THEN l + n .. End(ex) - 1 ELSE {})
                                        \cup (IF bfor THEN ex.lblk .. l - 1 ELSE {})}
  IN  CASE left -> [s |-> [s EXCEPT !.t = PutLeaf(s.t, s.p, toleft)], got |-> n]
        [] right -> [s |-> [s EXCEPT !.t = PutLeaf(s.t, s.p, toright)], got |-> n]
        [] ~left /\ ~right ->
             [s |-> ext4_split_extent([s EXCEPT !.zero = @ \cup zeroed], l2, n2, zero \cup {"v2"},
                                      FALSE, l2 .. l2 + n2 - 1).s,
              got |-> IF bfor THEN n ELSE rest]

\* Before an I/O into an unwritten extent: give the range an extent of its own,
\* still unwritten.  Also used when a conversion finds a larger extent.
ext4_split_convert_extents(s, l, n, unwrite, valid) ==
  ext4_split_extent(s, l, n,
    IF unwrite THEN {"v1"} ELSE MayZeroout(ExtAt(s.t, s.p), l, n) \cup {"u2", "v2"}, TRUE, valid)

\* Set the state of the extent of the path and merge it.
SetState(s, unw) == MergeExtent(PutExtent(s, [ExtAt(s.t, s.p) EXCEPT !.unw = unw]))

SetStateAt(r, l, unw) == IF r.err # "" THEN r ELSE SetState(Refind(r, l), unw)

\* ext4_convert_unwritten_extents_endio() and convert_initialized_extent():
\* change the state of [l, l + n), splitting when the extent is larger.
ChangeState(s, l, n, unwrite) ==
  LET ex == ExtAt(s.t, s.p)
  IN  IF ex.lblk = l /\ ex.len <= n THEN SetState(s, unwrite)
      ELSE SetStateAt(ext4_split_convert_extents(s, l, n, unwrite, l .. l + n - 1).s, l, unwrite)

ext4_convert_unwritten_extents_endio(s, l, n) == ChangeState(s, l, n, FALSE)

convert_initialized_extent(s, l, n) ==
  ChangeState(s, l, IF n > EXT_UNWRITTEN_MAX_LEN THEN EXT_UNWRITTEN_MAX_LEN \div 2 ELSE n, TRUE)

----------------------------------------------------------------------------
(* ext4_ext_map_blocks().  kind is the caller's flags: "write" (CREATE),
   "fallocate" (CREATE_UNWRIT_EXT), "io" (IO_CREATE_EXT: allocate unwritten,
   convert when the I/O is done), "convert" (IO_CONVERT_EXT) and "unwrite"
   (CONVERT_UNWRITTEN, of ext4_zero_range()). *)

\* Does extent ex imply a cluster for block l?  Then the mapping [pb, n].
get_implied_cluster_alloc(t, p, ex, l, n) ==
  LET first == B2C(ex.lblk) = B2C(l)
      last == B2C(End(ex) - 1) = B2C(l)
      base == IF last THEN ex.pb + ex.len - 1 ELSE ex.pb
      n1 == Low(n, su.ratio - COFF(l))
      n2 == IF l < ex.lblk THEN Low(n1, ex.lblk - l) ELSE n1
      n3 == IF l > ex.lblk THEN Low(n2, ext4_ext_next_allocated_block(t, p) - l) ELSE n2
  IN  [is |-> first \/ last, pb |-> CMASK(base) + COFF(l), n |-> n3]

\* The length that can be inserted at l without overlap.
ext4_ext_check_overlap(t, p, l, n) ==
  LET b == CMASK(ExtAt(t, p).lblk)
      next == ext4_ext_next_allocated_block(t, p)
      b2 == IF b < l THEN (IF next = EXT_MAX_BLOCKS THEN next ELSE CMASK(next)) ELSE b
  IN  IF PosOf(t, p) = 0 THEN n ELSE Low(n, b2 - l)

\* Where the allocator may place logical block l: block l of one of the colors,
\* in multiples of a cluster above the file's logical blocks.
PlaceOf(l, color) == l + color * (su.nblk + COFF(su.nblk))

\* The clusters from c on that are free, at most k of them.
RunOf(c, k) ==
  LET ok == {j \in 0..k : \A x \in c .. c + j - 1 : x \notin used}
  IN  c .. c + Max(ok) - 1

\* Blocks for [l, l + n): the rest of a cluster the file has, next to the extent
\* of the path or to the one on its right, or what the allocator gives.
Implied(t, p, l, n, ex2) ==
  LET near == get_implied_cluster_alloc(t, p, ExtAt(t, p), l, n)
      far == get_implied_cluster_alloc(t, p, ex2, l, n)
  IN  IF COFF(l) # 0 /\ PosOf(t, p) # 0 /\ near.is THEN near
      ELSE [far EXCEPT !.is = su.ratio > 1 /\ ex2 # NoExt /\ @]

Fresh(l, len, color) ==
  LET run == RunOf(B2C(PlaceOf(l, color)), B2C(COFF(l) + len + su.ratio - 1))
  IN  [clusters |-> run, pb |-> PlaceOf(l, color),
       n |-> Low(Cardinality(run) * su.ratio - COFF(l), len)]

Placement(s, implied, l, n, unw, color) ==
  IF implied.is THEN [clusters |-> {}, pb |-> implied.pb, n |-> implied.n]
  ELSE Fresh(l, ext4_ext_check_overlap(s.t, s.p, l,
               Low(n, IF unw THEN EXT_UNWRITTEN_MAX_LEN ELSE EXT_INIT_MAX_LEN)), color)

\* The insertion of newly mapped blocks, with the error path that frees them.
Inserted(r, m) ==
  [s |-> r, got |-> m.n, used |-> IF r.err # "" THEN used ELSE used \cup m.clusters]

InsertNew(s, l, m, unw, preio) ==
  IF m.n <= 0 THEN [s |-> [s EXCEPT !.err = "ENOSPC"], got |-> 0, used |-> used]
  ELSE Inserted(ext4_ext_insert_extent(s, [lblk |-> l, len |-> m.n, pb |-> m.pb, unw |-> unw],
                                       preio), m)

AllocateAndInsert(s, kind, l, n, color) ==
  InsertNew(s, l,
    Placement(s, Implied(s.t, s.p, l, n, ext4_ext_search_right(s.t, s.p, l)), l, n,
              kind # "write", color),
    kind # "write", kind = "io")

\* A block that is in an extent: what the flags ask of it.
MapExisting(s, kind, l, n) ==
  LET ex == ExtAt(s.t, s.p)
      rest == Low(n, End(ex) - l)
      AtMost(r) == [s |-> r.s, got |-> Low(n, r.got)]
  IN  CASE ~ex.unw /\ kind = "unwrite" -> [s |-> convert_initialized_extent(s, l, n), got |->
             Low(rest, IF n > EXT_UNWRITTEN_MAX_LEN THEN EXT_UNWRITTEN_MAX_LEN \div 2 ELSE n)]
        [] ~ex.unw /\ kind # "unwrite" -> [s |-> s, got |-> rest]
        [] ex.unw /\ kind = "io" -> AtMost(ext4_split_convert_extents(s, l, n, FALSE, {}))
        [] ex.unw /\ kind = "convert" ->
             [s |-> ext4_convert_unwritten_extents_endio(s, l, n), got |-> rest]
        [] ex.unw /\ kind \in {"fallocate", "unwrite"} -> [s |-> s, got |-> rest]
        [] ex.unw /\ kind = "write" -> AtMost(ext4_ext_convert_to_initialized(s, l, n))

ext4_ext_map_blocks(s, kind, l, n, color) ==
  IF in_range(l, ExtAt(s.t, s.p))
  THEN MapExisting(s, kind, l, n) @@ [used |-> used]
  ELSE AllocateAndInsert(s, kind, l, n, color)

----------------------------------------------------------------------------
(* Removal: ext4_ext_remove_space(start, end).  The record w extends s with
   the request, partial (the cluster to free if nothing else uses it; negative:
   a cluster that must stay), the data clusters held, the number of extents to
   go before the transaction has to be restarted, and per level the saved
   number of entries. *)

\* ext4_free_blocks() of n blocks from pb: the clusters it frees.  A cluster
\* the range only enters in its middle stays, and with keeplast the one it
\* leaves in its middle too.
FreedClusters(pb, n, keeplast) ==
  LET first == pb + (IF COFF(pb) = 0 THEN 0 ELSE su.ratio - COFF(pb))
      count == n - (first - pb)
      whole == IF COFF(count) = 0 THEN count
               ELSE IF keeplast THEN count - COFF(count) ELSE count + su.ratio - COFF(count)
  IN  IF count <= 0 \/ whole <= 0 THEN {} ELSE B2C(first) .. B2C(first + whole - 1)

\* Mutant of ext4_remove_blocks(): a cluster noted for an extent further right is
\* forgotten.
remove_blocks_forgets(w, ex, a) ==
  LET last == B2C(ex.pb + ex.len - 1)
      part == IF w.partial > 0 /\ w.partial # last THEN 0 ELSE w.partial
      pblk == ex.pb + a - ex.lblk
  IN  [w EXCEPT !.used = @ \ FreedClusters(pblk, End(ex) - a, part < 0 /\ part = -last),
                !.partial = IF COFF(pblk) # 0 /\ a = ex.lblk
                            THEN (IF B2C(pblk) # -part THEN B2C(pblk) ELSE part)
                            ELSE 0]

\* Free the blocks of ex from block a on.
ext4_remove_blocks(w, ex, a) ==
  LET last == B2C(ex.pb + ex.len - 1)
      flush == w.partial > 0 /\ w.partial # last
      part == IF flush THEN 0 ELSE w.partial
      pblk == ex.pb + a - ex.lblk
      freed == FreedClusters(pblk, End(ex) - a, part < 0 /\ part = -last)
      first == B2C(pblk)
  IN  [w EXCEPT !.used = (@ \ (IF flush THEN {w.partial} ELSE {})) \ freed,
                !.partial = IF COFF(pblk) # 0 /\ a = ex.lblk
                            THEN (IF first # -part THEN first ELSE part)
                            ELSE 0]

\* Remove the entry of the path at level k, whose block is empty, and pull the
\* keys above when it was the first.
ext4_ext_rm_idx(w, k) ==
  LET es == Level(w.t, w.p, k)
      i == w.p[k]
      left == RemoveAt(es, i)
      key == IF i <= Len(left) THEN left[i].lblk ELSE es[i].lblk
      u == PutLevel(w.t, w.p, k, left)
  IN  [w EXCEPT !.t = IF i = 1 THEN SetKeys(u, w.p, k - 1, key) ELSE u, !.meta = @ - 1]

\* The loop of ext4_ext_rm_leaf() from position i of the leaf to the left.
RECURSIVE RmExtents(_, _)
RmExtents(w, i) ==
  LET D == w.t.depth
      es == LeafOf(w.t, w.p)
      ex == es[i]
      a == High(ex.lblk, w.start)
      r == ext4_remove_blocks([w EXCEPT !.p[D + 1] = i], ex, a)
      left == IF a = ex.lblk THEN RemoveAt(es, i) ELSE [es EXCEPT ![i].len = a - ex.lblk]
      more == i >= 1 /\ End(ex) > w.start
  IN  CASE ~more -> [w EXCEPT !.i = i]
        [] more /\ w.end < ex.lblk ->
             RmExtents([w EXCEPT !.p[D + 1] = i,
                         !.partial = IF su.ratio > 1 THEN -B2C(ex.pb) ELSE @], i - 1)
        [] more /\ w.end >= ex.lblk /\ End(ex) - 1 > w.end -> [w EXCEPT !.err = "EFSCORRUPTED"]
        [] more /\ w.end >= ex.lblk /\ End(ex) - 1 <= w.end ->
             IF w.left = 0 THEN [w EXCEPT !.err = "EAGAIN"]
             ELSE RmExtents([r EXCEPT !.t = PutLeaf(r.t, r.p, left), !.left = @ - 1,
                                      !.first = @ \/ i = 1], i - 1)

ext4_ext_rm_leaf(w) ==
  LET D == w.t.depth
      Shared(r) == LET e == LeafOf(r.t, r.p)[r.i] IN r.partial = B2C(e.pb + e.len - 1)
      Correct(r) == IF r.first /\ LeafOf(r.t, r.p) # <<>>
                    THEN [r EXCEPT !.t = ext4_ext_correct_indexes(r.t, r.p)] ELSE r
      Settle(r) == IF r.partial > 0 /\ r.i >= 1
                   THEN [r EXCEPT !.used = IF Shared(r) THEN @ ELSE @ \ {r.partial}, !.partial = 0]
                   ELSE r
      Drop(r) == IF LeafOf(r.t, r.p) = <<>> /\ D > 0 THEN ext4_ext_rm_idx(r, D) ELSE r
      Done(r) == IF r.err # "" THEN r ELSE Drop(Settle(Correct(r)))
  IN  Done(RmExtents([w EXCEPT !.first = FALSE],
                     IF PosOf(w.t, w.p) = 0 THEN Len(LeafOf(w.t, w.p)) ELSE PosOf(w.t, w.p)))

\* The walk over the tree from right to left; k is the current level.
RECURSIVE RmWalk(_, _)
RmWalk(w, k) ==
  LET D == w.t.depth
      es == Level(w.t, w.p, k)
      fresh == w.p[k] = 0
      i == IF fresh THEN Len(es) ELSE w.p[k] - 1
      more == i >= 1 /\ Len(es) # (IF fresh THEN Len(es) + 1 ELSE w.saved[k])
  IN  IF k = 0 \/ w.err # "" THEN w
      ELSE IF k = D + 1 THEN RmWalk(ext4_ext_rm_leaf(w), k - 1)
      ELSE IF more
           THEN RmWalk([w EXCEPT !.p[k] = i, !.p[k + 1] = 0, !.saved[k] = Len(es)], k + 1)
           ELSE RmWalk(IF es = <<>> /\ k > 1 THEN ext4_ext_rm_idx(w, k - 1) ELSE w, k - 1)

\* One pass from the label "again": up to the end, or to a restart.
ext4_ext_remove_space(s, start, end, partial, left) ==
  LET punch == end < EXT_MAX_BLOCKS - 1
      W(g, part, sl) ==
        [t |-> g.t, p |-> IF punch THEN g.p ELSE [k \in 1..g.t.depth + 1 |-> 0],
         meta |-> g.meta, room |-> g.room, err |-> g.err, zero |-> {}, slip |-> g.slip \cup sl,
         start |-> start, end |-> end, partial |-> part, used |-> used, left |-> left,
         first |-> FALSE, i |-> 0,
         saved |-> [k \in 1..g.t.depth + 1 |->
                      IF punch /\ k > 1 /\ k <= g.t.depth THEN Len(Level(g.t, g.p, k)) + 1 ELSE -1]]
      Lost(part) == IF partial > 0 /\ part # partial THEN {"dropped"} ELSE {}
      Inside(f, ex) ==
        LET noted == B2C(ex.pb + end - ex.lblk + 2)
            part == IF su.ratio > 1 THEN -noted ELSE partial
        IN  W(ext4_force_split_extent_at(f, end + 1), part, Lost(part) \cup
              (IF su.ratio > 1 /\ noted # B2C(ex.pb + end - ex.lblk + 1) THEN {"next"} ELSE {}))
      Beyond(f, ex, right) ==
        LET part == IF su.ratio > 1 /\ end >= End(ex) - 1 /\ right # NoExt
                    THEN -B2C(right.pb) ELSE partial
        IN  W(f, part, Lost(part))
      Prepared(f, ex) ==
        IF ~punch THEN W(f, partial, {})
        ELSE IF end >= ex.lblk /\ end < End(ex) - 1 THEN Inside(f, ex)
        ELSE Beyond(f, ex, ext4_ext_search_right(f.t, f.p, End(ex)))
      Finish(r) == IF r.err # "" THEN r
                   ELSE [r EXCEPT !.used = IF r.partial > 0 THEN @ \ {r.partial} ELSE @,
                                  !.t = IF @.root = <<>> THEN EmptyTree ELSE @]
      Walk(w) == IF w.err # "" THEN w
                 ELSE Finish(RmWalk(w, IF punch THEN w.t.depth + 1 ELSE 1))
      Begin(f) == IF punch /\ ExtAt(f.t, f.p) = NoExt THEN W(f, partial, {})
                  ELSE Walk(Prepared(f, ExtAt(f.t, f.p)))
  IN  Begin(Refind(s, end))

----------------------------------------------------------------------------
(* The range shifts of FALLOC_FL_COLLAPSE_RANGE and FALLOC_FL_INSERT_RANGE. *)

\* ext4_ext_shift_path_extents() in a leaf, from position i to the right.
RECURSIVE ShiftLeafLeft(_, _, _), ShiftLeafRight(_, _, _, _)
ShiftLeafLeft(es, i, n) ==
  LET moved == [es EXCEPT ![i].lblk = @ - n]
      merged == ext4_ext_try_to_merge_right(moved, i - 1)
  IN  IF i > Len(es) THEN es
      ELSE IF Len(merged) < Len(moved) THEN ShiftLeafLeft(merged, i, n)
      ELSE ShiftLeafLeft(moved, i + 1, n)

\* The same to the right, from position j down to position i.
ShiftLeafRight(es, i, j, n) ==
  IF j < i THEN es
  ELSE ShiftLeafRight(ext4_ext_try_to_merge_right([es EXCEPT ![j].lblk = @ + n], j), i, j - 1, n)

\* The path's leaf with the extents from position i on shifted by n.
ext4_ext_shift_path_extents(t, p, i, n, dir) ==
  PutLeaf(t, p, IF dir = "left" THEN ShiftLeafLeft(LeafOf(t, p), i, n)
                ELSE ShiftLeafRight(LeafOf(t, p), i, Len(LeafOf(t, p)), n))

\* The key at level k of the path, shifted.
ShiftKey(t, p, k, n, dir) ==
  PutLevel(t, p, k, [Level(t, p, k) EXCEPT ![p[k]].lblk = IF dir = "left" THEN @ - n ELSE @ + n])

\* The loop of ext4_ext_shift_extents() up to the next leaf: c is the suspended
\* call, with the iterator it, the block bound where it ends, and the path p and
\* the position i where the leaf is to be shifted.
RECURSIVE ShiftLeft(_, _)
ShiftLeft(t, c) ==
  LET p == ext4_find_extent(t, c.it)
      es == LeafOf(t, p)
      i == PosOf(t, p)
      hole == c.it > es[i].lblk
  IN  IF c.it > c.bound THEN [c EXCEPT !.pc = "done"]
      ELSE IF hole /\ i = Len(es)
      THEN ShiftLeft(t, [c EXCEPT !.it = ext4_ext_next_allocated_block(t, p)])
      ELSE [c EXCEPT !.pc = "leaf", !.p = p, !.i = IF hole THEN i + 1 ELSE i,
                     !.it = End(es[Len(es)])]

\* The same to the right; iterator -1 ends the loop.  When no extent of the
\* leaf starts at or after the bound, the position is past the last one.
ShiftRight(t, c) ==
  LET p == ext4_find_extent(t, c.it)
      es == LeafOf(t, p)
      from == {i \in DOMAIN es : es[i].lblk >= c.bound} \cup {Len(es) + 1}
  IN  IF c.it < c.bound THEN [c EXCEPT !.pc = "done"]
      ELSE [c EXCEPT !.pc = "leaf", !.p = p, !.i = Min(from), !.it = es[1].lblk - 1]

ext4_ext_shift_extents(t, c) == IF c.op = "left" THEN ShiftLeft(t, c) ELSE ShiftRight(t, c)

\* What is left of a round once a key at level k is due, or none is (k = 0).
KeyOrNext(t, c, k) ==
  IF k = 0 THEN ext4_ext_shift_extents(t, c) ELSE [c EXCEPT !.pc = "key", !.k = k]

\* Can the suspended shift c go on in the tree u as in t?  The nodes that it
\* still means to change, at the positions it noted, are the same, and no extent
\* spans the block where a shift to the right ends.
StillGood(t, u, c) ==
  LET top == IF c.pc = "leaf" THEN t.depth + 1 ELSE c.k
      Keys(es) == [j \in DOMAIN es |-> [es[j] EXCEPT !.sub = 0]]
  IN  /\ u.depth = t.depth
      /\ \A k \in 1..Low(top, t.depth) : Keys(Level(u, c.p, k)) = Keys(Level(t, c.p, k))
      /\ c.pc = "leaf" => LeafOf(u, c.p) = LeafOf(t, c.p)
      /\ c.op = "right" => \A e \in ToSet(Flat(u.root, u.depth)) : e.lblk >= c.bound \/ End(e) <= c.bound

----------------------------------------------------------------------------
(* ext4_swap_extents(): exchange count blocks of the two files.  q holds the
   two trees as records s1, s2, the positions, whether the second extent is to
   be marked unwritten, and what has been replaced. *)

RECURSIVE ext4_swap_extents(_)
ext4_swap_extents(q) ==
  LET ex1 == ExtAt(q.s1.t, q.s1.p)
      ex2 == ExtAt(q.s2.t, q.s2.p)
      Find(r) == [r EXCEPT !.s1 = Refind(@, r.l1), !.s2 = Refind(@, r.l2)]
      After(s, ex, l) == IF ex.lblk > l THEN ex.lblk ELSE ext4_ext_next_allocated_block(s.t, s.p)
      Skip(next1, next2) ==
        LET n == Low(q.count, High(next1 - q.l1, next2 - q.l2))
        IN  IF next1 = EXT_MAX_BLOCKS \/ next2 = EXT_MAX_BLOCKS THEN [q EXCEPT !.count = 0]
            ELSE [q EXCEPT !.l1 = @ + n, !.l2 = @ + n, !.count = @ - n]
      len == Low(q.count, Low(End(ex1) - q.l1, End(ex2) - q.l2))
      left == ex1.lblk < q.l1 \/ ex2.lblk < q.l2
      Cut(s, ex, l) ==
        IF left /\ ex.lblk < l THEN ext4_force_split_extent_at(s, l)
        ELSE IF ~left /\ len # ex.len THEN ext4_force_split_extent_at(s, l + len)
        ELSE s
      Held(s, r) == [s EXCEPT !.meta = r.meta, !.room = r.room]
      Both(a, b) == [q EXCEPT !.s1 = Held(a, b), !.s2 = b, !.err = b.err]
      CutSecond(a) == IF a.err # "" THEN [q EXCEPT !.s1 = a, !.err = a.err]
                      ELSE Both(a, Cut(Held(q.s2, a), ex2, q.l2))
      Replace(s, e) ==
        ext4_ext_try_to_merge([s EXCEPT !.t = PutLeaf(s.t, s.p,
          [LeafOf(s.t, s.p) EXCEPT ![PosOf(s.t, s.p)] = e])], PosOf(s.t, s.p))
      Swapped(b) ==
        [q EXCEPT !.s1 = Replace(Held(q.s1, b), [ex1 EXCEPT !.pb = ex2.pb]), !.s2 = b,
                  !.l1 = @ + len, !.l2 = @ + len, !.count = @ - len,
                  !.done = @ \cup {<<q.l1 + j, q.l2 + j>> : j \in 0..len - 1}]
      Step == IF ~in_range(q.l1, ex1) \/ ~in_range(q.l2, ex2)
              THEN Skip(After(q.s1, ex1, q.l1), After(q.s2, ex2, q.l2))
              ELSE IF left \/ len # ex1.len \/ len # ex2.len THEN CutSecond(Cut(q.s1, ex1, q.l1))
              ELSE Swapped(Replace(q.s2, [ex2 EXCEPT !.pb = ex1.pb, !.unw = q.mark]))
      Go(r) == ext4_swap_extents([Find(r) EXCEPT !.s2 = Held(@, r.s1)])
  IN  IF q.count = 0 \/ q.err # "" \/ ex1 = NoExt \/ ex2 = NoExt THEN q ELSE Go(Step)

----------------------------------------------------------------------------
(* What the operations owe their callers, in terms of the map only. *)

\* What one call of ext4_ext_map_blocks() did wrong: m and m2 are the map
\* before and after, got the length it reports, zero what it zeroed.
MapFaults(kind, l, n, got, err, m, m2, zero) ==
  LET asked == l .. l + n - 1
      told == l .. l + got - 1
      written == {b \in DOMAIN m2 : ~m2[b].unw /\ (b \notin DOMAIN m \/ m[b].unw)}
      fills == kind = "convert" \/ (kind = "write" /\ err = "")
  IN  {f \in {"moved", "extra", "stale", "hidden", "short", "wiped", "eof"} :
        CASE f = "moved" -> \E b \in DOMAIN m : b \notin DOMAIN m2 \/ m2[b].pb # m[b].pb
          [] f = "extra" -> \E b \in DOMAIN m2 \ DOMAIN m : err # "" \/ b \notin told
          [] f = "stale" -> \E b \in written : m2[b].pb \notin zero /\ ~(fills /\ b \in asked)
          [] f = "hidden" -> \E b \in DOMAIN m \cap DOMAIN m2 :
                               ~m[b].unw /\ m2[b].unw /\ ~(kind = "unwrite" /\ b \in told)
          [] f = "short" -> err = "" /\ (got = 0 \/ \E b \in told :
                               b \notin DOMAIN m2
                               \/ (fills /\ m2[b].unw)
                               \/ (kind = "unwrite" /\ ~m2[b].unw))
          [] f = "wiped" -> \E b \in DOMAIN m : ~m[b].unw /\ m[b].pb \in zero
          [] f = "eof" -> \E b \in written : b >= EofBlock(l, n)}

\* What a pass of a removal did wrong outside its range, or left in it.
RemoveFaults(start, end, err, m, m2) ==
  {f \in {"outside", "left"} :
     CASE f = "outside" -> \E b \in DOMAIN m \cup DOMAIN m2 : b \notin start..end
                             /\ (b \notin DOMAIN m \/ b \notin DOMAIN m2 \/ m[b] # m2[b])
       [] f = "left" -> err = "" /\ \E b \in DOMAIN m2 : b \in start..end}

\* What a completed shift of the blocks from block l on did wrong.
ShiftFaults(l, by, m, m2) ==
  LET want == [b \in {x \in DOMAIN m : x < l} \cup {x + by : x \in {y \in DOMAIN m : y >= l}} |->
                IF b < l THEN m[b] ELSE m[b - by]]
  IN  IF m2 # want THEN {"shifted"} ELSE {}

\* What a swap did wrong: copied says that the page's data went along.
SwapFaults(done, copied, m, m2, d, d2) ==
  LET one == {x[1] : x \in done}
      two == {x[2] : x \in done}
  IN  IF /\ DOMAIN m2 = DOMAIN m /\ DOMAIN d2 = DOMAIN d
         /\ \A b \in DOMAIN m \ one : m2[b] = m[b]
         /\ \A b \in DOMAIN d \ two : d2[b] = d[b]
         /\ \A x \in done : /\ m2[x[1]] = [pb |-> d[x[2]].pb, unw |-> m[x[1]].unw]
                            /\ d2[x[2]] = [pb |-> m[x[1]].pb, unw |-> TRUE]
                            /\ copied \/ m[x[1]].unw
      THEN {} ELSE {"swapped"}

----------------------------------------------------------------------------
(* The operations. *)

ExtInit ==
  /\ su \in Setups
  /\ tree = EmptyTree /\ donor = EmptyTree
  /\ meta = 0 /\ used = {} /\ isize = 0
  /\ pending = {} /\ call = Idle /\ slip = {} /\ broken = {}

Overlaps(r, l, n) == r.l < l + n /\ l < r.l + r.n

Shifting == call.op \in {"left", "right"}

\* Blocks another thread may map now: i_data_sem is free, and what a removal or
\* a shift works on is fenced off by the size, the page locks and i_mmap_sem.
\* Pages before the range of a shift may be dirty, and the flusher maps them.
MayMap(l, n) ==
  /\ slip = {}
  /\ call.op = "remove" => l + n <= call.start \/ (call.next = "none" /\ l > call.end)
  /\ Shifting => l + n <= call.l
  /\ ~\E r \in pending : Overlaps(r, l, n)

\* What a suspended shift is to be compared with at its end, once blocks before
\* its range have been mapped.
Rebased(c, m2) ==
  [c EXCEPT !.was = [b \in {x \in DOMAIN m2 : x < c.l} \cup {x \in DOMAIN c.was : x >= c.l} |->
                       IF b < c.l THEN m2[b] ELSE c.was[b]]]

Mapped(kind, l, n, r, m2) ==
  LET early == kind = "write" /\ r.s.err # "" /\ r.s.zero # {}
      sl == r.s.slip \cup (IF early THEN {"half"} ELSE {})
              \cup (IF Shifting /\ ~StillGood(tree, r.s.t, call) THEN {"path"} ELSE {})
  IN  /\ tree' = r.s.t /\ meta' = r.s.meta /\ used' = r.used /\ slip' = sl
      /\ isize' = IF kind \in {"write", "convert"} /\ r.s.err = ""
                  THEN High(isize, l + r.got) ELSE isize
      /\ broken' = IF sl # {} THEN broken
                   ELSE broken \cup MapFaults(kind, l, n, r.got, r.s.err, MapOf(tree), m2, r.s.zero)
      /\ pending' = CASE kind = "io" /\ r.s.err = "" /\ m2[l].unw ->
                           pending \cup {[l |-> l, n |-> r.got, counted |-> FALSE]}
                      [] kind = "convert" ->
                           {x \in pending : x.l # l}
                             \cup (IF r.s.err = "" /\ r.got < n
                                   THEN {[l |-> l + r.got, n |-> n - r.got, counted |-> TRUE]}
                                   ELSE {})
                      [] OTHER -> pending
      /\ call' = IF Shifting THEN Rebased(call, m2) ELSE call
      /\ UNCHANGED <<su, donor>>

Map(kind, l, n, room, color) ==
  LET With(r) == Mapped(kind, l, n, r, MapOf(r.s.t))
  IN  With(ext4_ext_map_blocks(Start(tree, l, meta, room, slip), kind, l, n, color))

\* Writes, fallocate() and the start of I/O into the file.  fallocate() needs
\* i_rwsem, which the calls that let go of i_data_sem hold.
MapBlocks(kind, l, n, room, color) ==
  /\ MayMap(l, n)
  /\ kind = "io" => Cardinality(pending) < su.ios
  /\ kind \in {"fallocate", "unwrite"} => call = Idle
  /\ Map(kind, l, n, room, color)

\* i_unwritten is raised after i_data_sem was dropped.
CountIO(r) ==
  /\ r \in pending /\ ~r.counted
  /\ pending' = (pending \ {r}) \cup {[r EXCEPT !.counted = TRUE]}
  /\ UNCHANGED <<su, tree, donor, meta, used, isize, call, slip, broken>>

\* ext4_convert_unwritten_extents() when the I/O is done, one round of its loop.
ext4_convert_unwritten_extents(r, room) ==
  /\ slip = {} /\ r \in pending /\ r.counted
  /\ Map("convert", r.l, r.n, room, 1)

NoIO(from) == \A r \in pending : r.l + r.n <= from

Removal(start, end, next, n) ==
  [op |-> "remove", start |-> start, end |-> end, partial |-> 0, again |-> FALSE,
   next |-> next, n |-> n]

\* ext4_truncate() on an extent file.
ext4_ext_truncate(size) ==
  /\ slip = {} /\ call = Idle /\ size <= isize /\ NoIO(size)
  /\ isize' = size
  /\ call' = Removal(size, EXT_MAX_BLOCKS - 1, "none", 0)
  /\ UNCHANGED <<su, tree, donor, meta, used, pending, slip, broken>>

\* ext4_punch_hole() on an extent file.
ext4_punch_hole(l, n) ==
  /\ slip = {} /\ call = Idle /\ l < isize
  /\ ~\E r \in pending : Overlaps(r, l, n)
  /\ call' = Removal(l, l + n - 1, "none", 0)
  /\ UNCHANGED <<su, tree, donor, meta, used, isize, pending, slip, broken>>

ext4_collapse_range(l, n) ==
  /\ slip = {} /\ call = Idle /\ NoIO(l)
  /\ COFF(l) = 0 /\ COFF(n) = 0 /\ l + n < isize
  /\ call' = Removal(l, l + n - 1, "collapse", n)
  /\ UNCHANGED <<su, tree, donor, meta, used, isize, pending, slip, broken>>

\* The shift of the blocks from l on by n, from iterator it to the block bound,
\* as it begins; nothing is shifted in an empty tree.
ShiftCall(t, op, l, n, it, bound) ==
  LET c == [op |-> op, l |-> l, n |-> n, it |-> it, bound |-> bound, was |-> MapOf(t),
            pc |-> "done", p |-> <<>>, i |-> 0, k |-> 0]
  IN  IF t.root = <<>> THEN c ELSE ext4_ext_shift_extents(t, c)

LastBlock(t) == IF t.root = <<>> THEN 0 ELSE Last(Flat(t.root, t.depth)).lblk

\* The shift c goes on from the tree t, or is done; then the collapsed range
\* leaves the size.
ShiftTo(t, c, faults) ==
  /\ tree' = t
  /\ call' = IF c.pc = "done" THEN Idle ELSE c
  /\ isize' = IF c.pc = "done" /\ c.op = "left" THEN isize - c.n ELSE isize
  /\ broken' = broken \cup faults \cup
       (IF c.pc = "done"
        THEN ShiftFaults(c.l, IF c.op = "left" THEN -c.n ELSE c.n, c.was, MapOf(t)) ELSE {})

\* One pass of a removal; left extents go before the transaction is restarted.
Removed(r) ==
  LET faults == IF r.slip # {} THEN {}
                ELSE RemoveFaults(call.start, call.end, r.err, MapOf(tree), MapOf(r.t))
  IN  /\ meta' = r.meta /\ used' = r.used /\ slip' = r.slip
      /\ IF r.err = "" /\ call.next = "collapse"
         THEN ShiftTo(r.t, ShiftCall(r.t, "left", call.start, call.n, call.end + 1,
                                     LastBlock(r.t)), faults)
         ELSE /\ tree' = r.t /\ broken' = broken \cup faults
              /\ call' = IF r.err = "EAGAIN"
                         THEN [call EXCEPT !.partial = r.partial, !.again = TRUE] ELSE Idle
              /\ UNCHANGED isize
      /\ UNCHANGED <<su, donor, pending>>

RemovePass(room, left) ==
  /\ call.op = "remove" /\ slip = {}
  /\ call.again => left > 0
  /\ Removed(ext4_ext_remove_space(Start(tree, 0, meta, room, slip), call.start, call.end,
                                   call.partial, left))

\* Mutant of ShiftLeaf: the keys above are never touched.
shift_leaf_only ==
  LET u == ext4_ext_shift_path_extents(tree, call.p, call.i, call.n, call.op)
  IN  /\ Shifting /\ slip = {} /\ call.pc = "leaf"
      /\ ShiftTo(u, KeyOrNext(u, call, 0), {})
      /\ UNCHANGED <<su, donor, meta, used, pending, slip>>

\* A shift comes back from ext4_access_path() for a leaf, which may have
\* restarted the transaction: the extents from the position noted are shifted.
ShiftLeaf ==
  LET u == ext4_ext_shift_path_extents(tree, call.p, call.i, call.n, call.op)
  IN  /\ Shifting /\ slip = {} /\ call.pc = "leaf"
      /\ ShiftTo(u, KeyOrNext(u, call, IF call.i = 1 THEN u.depth ELSE 0), {})
      /\ UNCHANGED <<su, donor, meta, used, pending, slip>>

\* The same for the key of the path at one level, and the one above when the
\* entry is the first of its block.
ShiftIndex ==
  LET u == ShiftKey(tree, call.p, call.k, call.n, call.op)
  IN  /\ Shifting /\ slip = {} /\ call.pc = "key"
      /\ ShiftTo(u, KeyOrNext(u, call, IF call.p[call.k] = 1 THEN call.k - 1 ELSE 0), {})
      /\ UNCHANGED <<su, donor, meta, used, pending, slip>>

\* Insert n blocks at l: grow the file, split the extent that spans l, and find
\* out how far the last extent can go.
ext4_insert_range(l, n, room) ==
  LET ex == ExtAt(tree, ext4_find_extent(tree, l))
      Spanned(s) == IF ex # NoExt /\ l > ex.lblk /\ l < End(ex)
                    THEN ext4_force_split_extent_at(s, l) ELSE s
      fails(r) == \/ r.err # "" \/ ex = NoExt
                  \/ n > EXT_MAX_BLOCKS - End(Last(Flat(r.t.root, r.t.depth)))
      Begun(r) == IF fails(r) THEN [op |-> "none", pc |-> "leaf"]
                  ELSE ShiftCall(r.t, "right", l, n, LastBlock(r.t), High(ex.lblk, l))
      Split(r, c) ==
        /\ tree' = r.t /\ meta' = r.meta /\ slip' = r.slip
        /\ call' = IF c.pc = "done" \/ c.op = "none" THEN Idle ELSE c
        /\ broken' = IF \/ MapOf(r.t) # MapOf(tree)
                        \/ c.pc = "done" /\ ShiftFaults(l, n, c.was, MapOf(r.t)) # {}
                     THEN broken \cup {"shifted"} ELSE broken
      Do(r) == Split(r, Begun(r))
  IN  /\ slip = {} /\ call = Idle /\ NoIO(l)
      /\ COFF(l) = 0 /\ COFF(n) = 0 /\ l < isize /\ isize + n <= su.nblk
      /\ isize' = isize + n
      /\ Do(Spanned(Start(tree, l, meta, room, slip)))
      /\ UNCHANGED <<su, donor, used, pending>>

\* A crash at a restart: a truncation is taken up again from the orphan list,
\* without the cluster it had noted; anything else is forgotten, keys that a
\* shift still owes too.
Crash ==
  /\ su.crash /\ slip = {}
  /\ call.op \in {"remove", "left", "right"}
  /\ call' = IF call.op = "remove" /\ call.end = EXT_MAX_BLOCKS - 1 /\ call.next = "none"
             THEN [call EXCEPT !.partial = 0, !.again = FALSE] ELSE Idle
  /\ slip' = CASE call.op = "remove" /\ call.partial > 0 -> {"crash"}
               [] Shifting /\ call.pc = "key" -> {"keys"}
               [] OTHER -> slip
  /\ pending' = {}
  /\ UNCHANGED <<su, tree, donor, meta, used, isize, broken>>

\* ext4_move_extents() of n blocks from o in the file and d in the donor.
ext4_move_extents(o, d, n) ==
  /\ slip = {} /\ call = Idle /\ o + n <= isize
  /\ ~\E r \in pending : Overlaps(r, o, n)
  /\ call' = [op |-> "move", o |-> o, d |-> d, end |-> o + n, chosen |-> FALSE, unw |-> FALSE]
  /\ UNCHANGED <<su, tree, donor, meta, used, isize, pending, slip, broken>>

\* The next block to move, past holes of the file; i_data_sem is let go with what
\* was seen of its state.
MoveChoose ==
  LET p == ext4_find_extent(tree, call.o)
      ex == ExtAt(tree, p)
      at == IF in_range(call.o, ex) THEN call.o
            ELSE IF ex.lblk > call.o THEN ex.lblk
            ELSE ext4_ext_next_allocated_block(tree, p)
  IN  /\ call.op = "move" /\ ~call.chosen /\ slip = {}
      /\ call' = IF ex = NoExt \/ at >= call.end THEN Idle
                 ELSE [call EXCEPT !.o = at, !.d = @ + at - call.o, !.chosen = TRUE,
                                   !.unw = ExtAt(tree, ext4_find_extent(tree, at)).unw]
      /\ UNCHANGED <<su, tree, donor, meta, used, isize, pending, slip, broken>>

\* What a swap that was undone did wrong: the donor may have become unwritten.
RepairFaults(m, m2, d, d2) ==
  IF m2 = m /\ DOMAIN d2 = DOMAIN d /\ \A b \in DOMAIN d : d2[b].pb = d[b].pb
  THEN {} ELSE {"repaired"}

\* move_extent_per_page(): under the page locks, an extent found unwritten before
\* is looked at again in both files; the page is copied unless both are.  It may
\* end "busy", before the swap, or "unread", when the new mapping cannot be read
\* and the swap is undone: with the offsets of the two files exchanged, and with
\* the file's extent marked written.
move_extent_per_page(room, ends) ==
  LET unw == /\ call.unw /\ ExtAt(tree, ext4_find_extent(tree, call.o)).unw
             /\ ExtAt(donor, ext4_find_extent(donor, call.d)).unw
      nodata == call.unw /\ donor.root = <<>>
      again == [call EXCEPT !.unw = unw]
      next == [call EXCEPT !.o = @ + 1, !.d = @ + 1, !.chosen = FALSE]
      Swap(t1, t2, m, mark) ==
        ext4_swap_extents([s1 |-> Start(t1, call.o, m, room, slip), mark |-> mark,
                           s2 |-> Start(t2, call.d, m, room, slip),
                           l1 |-> call.o, l2 |-> call.d, count |-> 1, done |-> {}, err |-> ""])
      Done(q) ==
        /\ tree' = q.s1.t /\ donor' = q.s2.t /\ meta' = q.s1.meta
        /\ slip' = q.s1.slip \cup q.s2.slip
        /\ broken' = broken \cup SwapFaults(q.done, ~unw, MapOf(tree), MapOf(q.s1.t),
                                            MapOf(donor), MapOf(q.s2.t))
        /\ call' \in IF q.err = "" THEN {next} ELSE IF q.err = "ENOSPC" THEN {Idle, again} ELSE {Idle}
      Undone(q, faults) ==
        /\ tree' = q.s2.t /\ donor' = q.s1.t /\ meta' = q.s1.meta /\ call' = Idle
        /\ IF call.o # call.d \/ MapOf(tree)[call.o].unw
           THEN slip' = slip \cup (IF faults = {} THEN {} ELSE {"repair"}) /\ UNCHANGED broken
           ELSE broken' = broken \cup faults /\ UNCHANGED slip
      Repaired(q) == Undone(q, RepairFaults(MapOf(tree), MapOf(q.s2.t), MapOf(donor), MapOf(q.s1.t)))
      Undo(q) == q.err = "" /\ Repaired(Swap(q.s2.t, q.s1.t, q.s1.meta, FALSE))
  IN  /\ call.op = "move" /\ call.chosen /\ slip = {}
      /\ ~\E r \in pending : Overlaps(r, call.o, 1)
      /\ \/ /\ ends = "busy" \/ nodata
            /\ call' \in IF nodata THEN {Idle} ELSE {Idle, again}
            /\ UNCHANGED <<tree, donor, meta, slip, broken>>
         \/ /\ ends = "done" /\ ~nodata
            /\ Done(Swap(tree, donor, meta, TRUE))
         \/ /\ ends = "unread" /\ ~nodata /\ ~unw
            /\ Undo(Swap(tree, donor, meta, TRUE))
      /\ UNCHANGED <<su, used, isize, pending>>

\* The donor file, as a program prepared it with fallocate() or a write.
PrepareDonor(kind, l, n) ==
  LET Prepared(r) == donor' = r.s.t /\ meta' = r.s.meta /\ used' = r.used
  IN  /\ slip = {} /\ call = Idle /\ donor = EmptyTree /\ tree = EmptyTree
      /\ Prepared(AllocateAndInsert(Start(donor, l, meta, Plenty, slip), kind, l, n, su.colors + 1))
      /\ UNCHANGED <<su, tree, isize, pending, call, slip, broken>>

\* Nothing more is asked once a weakness was met.
ExtStopped ==
  /\ slip # {}
  /\ UNCHANGED ext_vars

Ranges == {r \in (0..su.nblk - 1) \X (1..su.nblk) : r[1] + r[2] <= su.nblk}

ExtNext ==
  \/ \E kind \in su.kinds, r \in Ranges, room \in su.grants, color \in 1..su.colors :
       r[2] <= su.maxmap /\ MapBlocks(kind, r[1], r[2], room, color)
  \/ \E r \in pending : CountIO(r)
  \/ \E r \in pending, room \in su.grants : ext4_convert_unwritten_extents(r, room)
  \/ "truncate" \in su.calls /\ \E size \in 0..su.nblk : ext4_ext_truncate(size)
  \/ "punch" \in su.calls /\ \E r \in Ranges : ext4_punch_hole(r[1], r[2])
  \/ "collapse" \in su.calls /\ \E r \in Ranges : ext4_collapse_range(r[1], r[2])
  \/ \E room \in su.grants, left \in su.lefts : RemovePass(room, left)
  \/ ShiftLeaf
  \/ ShiftIndex
  \/ "insert" \in su.calls
     /\ \E r \in Ranges, room \in su.grants : ext4_insert_range(r[1], r[2], room)
  \/ Crash
  \/ \E m \in su.moves : ext4_move_extents(m[1], m[2], m[3])
  \/ MoveChoose
  \/ \E room \in su.grants, ends \in su.ends : move_extent_per_page(room, ends)
  \/ \E kind \in su.donates, r \in Ranges : PrepareDonor(kind, r[1], r[2])
  \/ ExtStopped

ExtSpec == ExtInit /\ [][ExtNext]_ext_vars

----------------------------------------------------------------------------
(* Properties. *)

\* What __ext4_ext_check() and the searches rely on in a node of a tree of depth
\* d, at level k, whose blocks lie in lo..hi-1.
RECURSIVE NodeOK(_, _, _, _, _)
NodeOK(es, d, k, lo, hi) ==
  /\ Len(es) <= EhMax(k)
  /\ k > 1 => es # <<>>
  /\ \A i \in DOMAIN es :
       LET next == IF i < Len(es) THEN es[i + 1].lblk ELSE hi
       IN  /\ lo <= es[i].lblk
           /\ IF d = 0
              THEN /\ es[i].len >= 1 /\ End(es[i]) <= next
                   /\ es[i].len <= (IF es[i].unw THEN EXT_UNWRITTEN_MAX_LEN ELSE EXT_INIT_MAX_LEN)
              ELSE /\ es[i].lblk < next
                   /\ NodeOK(es[i].sub, d - 1, k + 1, es[i].lblk, next)

TreeOK(t) == NodeOK(t.root, t.depth, 1, 0, EXT_MAX_BLOCKS)

\* A leaf has been shifted and a key above it has not.
KeysDue == "keys" \in slip \/ (Shifting /\ call.pc = "key")

\* After every operation, failed ones included, and where i_data_sem is let go:
\* the nodes of both trees hold no more entries than fit and, below the root, at
\* least one; extents and keys ascend without overlap and stay within the range
\* of the entry above, which is what ext4_find_extent() searches by; and no
\* extent is longer than its state allows.  Where a range shift may let go of
\* i_data_sem between a leaf and a key above it, and after a crash there, only
\* the extents ascend.  This is about the splits, merges, shifts and removals
\* that move entries and must correct the keys above.
TreesWellFormed ==
  LET f == Flat(tree.root, tree.depth)
  IN  /\ TreeOK(donor)
      /\ ~KeysDue => TreeOK(tree)
      /\ KeysDue /\ slip \subseteq {"keys"} => \A i \in 1..Len(f) - 1 : End(f[i]) <= f[i + 1].lblk

\* The clusters that hold the mapped blocks of a map.
ClustersOf(m) == {B2C(m[b].pb) : b \in DOMAIN m}

\* The clusters in the bitmap are those that the trees map, with the one a
\* suspended removal still owes (partial_cluster); no block is mapped twice, in
\* one file or in both; and the tree blocks in the bitmap are those of the
\* trees.  It ties ext4_remove_blocks(), the partial cluster it hands over from
\* extent to extent, and the cleanups of failed inserts to the allocations.
NothingSharedOrLeaked ==
  LET m == MapOf(tree)
      d == MapOf(donor)
      held == ClustersOf(m) \cup ClustersOf(d)
  IN  /\ meta = Nodes(tree.root, tree.depth) + Nodes(donor.root, donor.depth)
                + (IF "leak" \in slip THEN 1 ELSE 0)
      /\ \A b, c \in DOMAIN m : m[b].pb = m[c].pb => b = c
      /\ \A b \in DOMAIN m, c \in DOMAIN d : m[b].pb # d[c].pb
      /\ slip = {} => used = held \cup (IF call.op = "remove" /\ call.partial > 0
                                        THEN {call.partial} ELSE {})

\* Every operation did to the map of the file what it is for and nothing else:
\* mapping leaves other blocks alone and exposes no block that was not written;
\* removal takes the range only; a shift moves what lies behind the range by
\* its length; a swap exchanges the blocks of two files.
MapContractKept == broken = {}

\* A cluster that still holds a mapped block is not freed: "If we're going to
\* split the extent, note that the cluster containing the block after 'end' is
\* in use to avoid freeing it when removing blocks." (ext4_ext_remove_space()).
MappedBlocksHeld == ClustersOf(MapOf(tree)) \subseteq used
=============================================================================
