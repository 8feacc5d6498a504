---------------------------- MODULE IndirectMap ----------------------------
(* The block map of a file without extents (indirect.c) and the conversion of
   such a file to extents and back (migrate.c).

   A pointer is named by its path: the slot in the inode, then the slot in each
   indirect block below (what ext4_block_to_path() computes).  The variable ptr
   holds the pointers that are not zero; a pointer to data carries the physical
   block.  An indirect block is named by the path of the pointer to it.

   Truncating and punching free one thing at a time, and before each the
   transaction may have to be restarted, which lets go of i_data_sem
   (ext4_truncate_restart_trans()): the list todo is what the suspended
   operation still means to do, worked out when it began.  The same holds for
   the indirect blocks that a migration frees once it has let go of i_data_sem.

   The variable islip records known weaknesses; nothing happens after one was
   met:
     "populated"  a writer puts a pointer where a suspended removal still goes;
     "bug"        a hole that reaches the limit has no path for its end;
     "long"       a migrated extent is longer than the format allows;
     "spliced"    a pointer that cannot be written out stays, its blocks do not;
     "unread"     an indirect block cannot be read after a migration: the rest
                  is not freed, and the new extent blocks are, which are in use;
     "owed"       a crash forgets the indirect blocks a migration still has to free;
     "orphan"     a crash leaves the temporary inode of a migration, whose
                  extents name the blocks of the file, on the orphan list. *)
EXTENDS Integers, FiniteSets, SequencesExt

CONSTANT IndSetups  \* [ndir, ptrs, levels, writes, colors, maxlen, inroot, calls, errors]

VARIABLES
  isu,      \* the setup of this behaviour
  fmt,      \* EXT4_INODE_EXTENTS: "ind" or "ext"
  ptr,      \* the pointers that are not zero: path -> physical block (0: indirect)
  exts,     \* the extents of the file, or of the temporary inode of a migration
  ind,      \* indirect blocks held in the block bitmap
  data,     \* data blocks held in the block bitmap
  flag,     \* EXT4_STATE_EXT_MIGRATE
  job,      \* the call in progress
  todo,     \* what a removal still has to free
  islip,    \* known weaknesses of the code that have been met
  ibroken   \* what some call did against its contract

ind_vars == <<isu, fmt, ptr, exts, ind, data, flag, job, todo, islip, ibroken>>

----------------------------------------------------------------------------
(* Paths. *)

NDIR == isu.ndir

PTRS == isu.ptrs

\* Blocks below one pointer d levels above the data.
Span(d) == PTRS ^ d

MaxBlock == NDIR + IF isu.levels = 3 THEN Span(1) + Span(2) ELSE Span(1) + Span(2) + Span(3)

\* The empty path stands for a block beyond the limit.
ext4_block_to_path(b) ==
  LET b1 == b - NDIR
      b2 == b1 - PTRS
      b3 == b2 - Span(2)
  IN  IF b < NDIR THEN <<b>>
      ELSE IF b1 < PTRS THEN <<NDIR, b1>>
      ELSE IF b2 < Span(2) THEN <<NDIR + 1, b2 \div PTRS, b2 % PTRS>>
      ELSE IF b < MaxBlock THEN <<NDIR + 2, b3 \div Span(2), (b3 \div PTRS) % PTRS, b3 % PTRS>>
      ELSE <<>>

Top(path, k) == SubSeq(path, 1, k)

\* How many levels of pointers hang below the pointer with this path.
Below(path) == IF path[1] < NDIR THEN 0 ELSE path[1] - NDIR + 2 - Len(path)

\* The first logical block below a pointer.
FirstBlock(path) ==
  LET d == path[1] - NDIR + 1
      start == NDIR + (IF d > 1 THEN PTRS ELSE 0) + (IF d > 2 THEN Span(2) ELSE 0)
  IN  IF d <= 0 THEN path[1]
      ELSE FoldLeft(LAMBDA b, i : b + path[i + 1] * Span(d - i), start,
                    [i \in 1..Len(path) - 1 |-> i])

\* The first level at which ext4_get_branch() meets a zero pointer, or 0; P is
\* the set of pointers that are not zero.
ext4_get_branch(P, path, k) ==
  LET zero == {j \in 1..k : Top(path, j) \notin P}
  IN  IF zero = {} THEN 0 ELSE Min(zero)

IsMapped(b) == ext4_get_branch(DOMAIN ptr, ext4_block_to_path(b), Len(ext4_block_to_path(b))) = 0

IndMap == [b \in {x \in 0..MaxBlock - 1 : IsMapped(x)} |-> ptr[ext4_block_to_path(b)]]

ExtMap ==
  [b \in {x \in 0..MaxBlock - 1 : \E e \in exts : x \in e.lblk .. e.lblk + e.len - 1} |->
     LET e == CHOOSE e \in exts : b \in e.lblk .. e.lblk + e.len - 1 IN e.pb + b - e.lblk]

\* Nothing more is asked once a weakness was met.
Going == islip = {}

----------------------------------------------------------------------------
(* Lookup and allocation. *)

\* Slots of the last block of the path after the one of block b.
Boundary(path) == (IF Len(path) = 1 THEN NDIR ELSE PTRS) - 1 - path[Len(path)]

Slot(path, i) == [path EXCEPT ![Len(path)] = @ + i]

\* A lookup of n blocks that finds the first one mapped.
FoundCount(path, n) ==
  LET same == {i \in 0..Min({n - 1, Boundary(path)}) :
                 \A k \in 0..i : Slot(path, k) \in DOMAIN ptr
                                 /\ ptr[Slot(path, k)] = ptr[path] + k}
  IN  Max(same) + 1

\* The size of the hole that a lookup reports at a path that is cut at level j.
HoleCount(path, j, n) ==
  LET part == FoldLeft(LAMBDA c, i : c * PTRS + PTRS - path[i] - 1, 0,
                       [i \in 1..Len(path) - j |-> j + i])
  IN  Min({n, part + 1})

\* How many blocks to allocate when level j of the path is missing.
ext4_blks_to_allocate(path, j, n) ==
  LET room == Min({n, Boundary(path) + 1})
  IN  IF j < Len(path) THEN room
      ELSE Max({i \in 1..room : \A k \in 1..i - 1 : Slot(path, k) \notin DOMAIN ptr})

\* The range of a removal in progress is closed to writers: the size, the page
\* locks and i_mmap_sem see to that.
Open(b) == job.op = "remove" => b < job.start \/ b >= job.end

\* Does the rest of a removal reach the pointer?
Doomed(path) ==
  \E i \in DOMAIN todo :
    LET w == todo[i]
    IN  CASE w.k = "slots" -> /\ Len(path) > Len(w.q) /\ IsPrefix(w.q, path)
                              /\ path[Len(w.q) + 1] \in w.lo .. w.hi
          [] w.k = "top" -> IsPrefix(w.q, path)
          [] w.k = "end" -> FALSE

\* What ext4_alloc_branch() allocates: got data blocks at color, and the
\* indirect blocks from level j of the path down, from the top.
ext4_alloc_branch(path, j, got, color) ==
  LET pb == FirstBlock(path) + color * MaxBlock + 1
  IN  [ind |-> [k \in 1..Len(path) - j |-> Top(path, j + k - 1)],
       data |-> {pb + i : i \in 0..got - 1}, pb |-> pb,
       slots |-> {Slot(path, i) : i \in 0..got - 1}]

\* Mutant of the cleanup of ext4_alloc_branch(): the last one it got stays.
failed_keeps_last(b, k) == [ind |-> {b.ind[i] : i \in 1..k - 1}, data |-> {}]

\* What it frees when it fails after k of the indirect blocks; the data come last.
alloc_branch_failed(b, k) == [ind |-> {b.ind[i] : i \in 1..k}, data |-> {}]

\* What ext4_splice_branch() frees when it fails.
splice_branch_failed(b) == [ind |-> ToSet(b.ind), data |-> b.data]

\* The pointers once the branch hangs at level j of the path.
Spliced(path, j, b) ==
  LET meta == ToSet(b.ind)
      kept == {p \in DOMAIN ptr : j = Len(path) \/ ~IsPrefix(Top(path, j), p)}
  IN  [p \in kept \cup meta \cup b.slots |->
         IF p \in b.slots THEN b.pb + p[Len(p)] - path[Len(path)]
         ELSE IF p \in meta THEN 0 ELSE ptr[p]]

ext4_splice_branch(path, j, b) ==
  /\ ptr' = Spliced(path, j, b)
  /\ ind' = ind \cup ToSet(b.ind) /\ data' = data \cup b.data
  /\ islip' = IF \E p \in b.slots \cup ToSet(b.ind) : Doomed(p)
              THEN islip \cup {"populated"} ELSE islip

\* The branch was allocated as far as taken says, and is freed again; written
\* tells that the pointer to it was set before the error.
BranchFails(path, j, b, taken, freed, written) ==
  /\ ind' = (ind \cup taken.ind) \ freed.ind
  /\ data' = (data \cup taken.data) \ freed.data
  /\ ptr' = IF written THEN Spliced(path, j, b) ELSE ptr
  /\ islip' = IF written THEN islip \cup {"spliced"} ELSE islip

\* ext4_map_blocks() with CREATE: new blocks fail a migration in progress.
ext4_ind_map_blocks(blk, n, color) ==
  LET path == ext4_block_to_path(blk)
      j == ext4_get_branch(DOMAIN ptr, path, Len(path))
  IN  /\ Going /\ fmt = "ind" /\ path # <<>> /\ j # 0
      /\ \A x \in blk..blk + n - 1 : Open(x)
      /\ \E got \in 1..ext4_blks_to_allocate(path, j, n) :
           LET b == ext4_alloc_branch(path, j, got, color)
           IN  b.data \cap data = {} /\ ext4_splice_branch(path, j, b)
      /\ flag' = FALSE
      /\ UNCHANGED <<isu, fmt, exts, job, todo, ibroken>>

\* The same when an allocation fails half way, or a buffer cannot be had for
\* writing or written out.
ind_map_blocks_fails(blk, color) ==
  LET path == ext4_block_to_path(blk)
      j == ext4_get_branch(DOMAIN ptr, path, Len(path))
      b == ext4_alloc_branch(path, j, 1, color)
      all == [ind |-> ToSet(b.ind), data |-> b.data]
  IN  /\ isu.errors /\ Going /\ fmt = "ind" /\ path # <<>> /\ j # 0
      /\ Open(blk) /\ b.data \cap data = {}
      /\ \/ \E k \in 0..Len(b.ind) :
              BranchFails(path, j, b, [ind |-> {b.ind[i] : i \in 1..k}, data |-> {}],
                          alloc_branch_failed(b, k), FALSE)
         \/ \E written \in {w \in BOOLEAN : w => j > 1} :
              BranchFails(path, j, b, all, splice_branch_failed(b), written)
      /\ UNCHANGED <<isu, fmt, exts, flag, job, todo, ibroken>>

----------------------------------------------------------------------------
(* Removal. *)

\* The level and slot where a branch that is cut at the path is shared with
\* what stays, and whether a pointer hangs there.
ext4_find_shared(P, path) ==
  LET n == Len(path)
      k == Max({j \in 1..n : j = 1 \/ path[j] # 0})
      cut == ext4_get_branch(P, path, k)
      Zeroes(j) == \A x \in 0..path[j] - 1 : Append(Top(path, j - 1), x) \notin P
      p == Max({j \in 1..(IF cut = 0 THEN k ELSE cut) : j = 1 \/ ~Zeroes(j)})
  IN  IF p = k /\ p > 1 THEN [lev |-> p, at |-> path[p] - 1, top |-> FALSE]
      ELSE [lev |-> p, at |-> path[p], top |-> Top(path, p) \in P]

\* ext4_free_branches(): slots lo..hi of block q, whose pointers are d levels
\* above the data; the empty q is the inode.
Slots(q, lo, hi, d) == [k |-> "slots", q |-> q, lo |-> lo, hi |-> hi, d |-> d]

At(f, path, j) == IF j = f.lev THEN f.at ELSE path[j]

FreeTop(f, path) ==
  <<Slots(Top(path, f.lev - 1), path[f.lev], path[f.lev], Len(path) - f.lev)>>

\* The ends of the indirect blocks on the branch, and the starts of them.
Ends(f, path) ==
  [i \in 1..f.lev - 1 |-> LET j == f.lev + 1 - i
                          IN  Slots(Top(path, j - 1), At(f, path, j) + 1, PTRS - 1, Len(path) - j)]

Starts(f, path) ==
  [i \in 1..f.lev - 1 |-> LET j == f.lev + 1 - i
                          IN  Slots(Top(path, j - 1), 0, At(f, path, j) - 1, Len(path) - j)]

\* The whole trees of levels a..b (2: single, 3: double, 4: triple indirect).
Trees(a, b) == [i \in 1..b - a + 1 |-> Slots(<<>>, NDIR + a + i - 3, NDIR + a + i - 3, a + i - 2)]

\* Mutant of ext4_ind_remove_space(): partial2->p is not moved on.
past_unmoved(f) == f

\* Past the end of a removal: ext4_find_shared() points at the last slot to keep.
Past(f) == IF f.top THEN f ELSE [f EXCEPT !.at = @ + 1]

ext4_ind_truncate(b) ==
  LET path == ext4_block_to_path(b)
      f == ext4_find_shared(DOMAIN ptr, path)
  IN  IF b = MaxBlock THEN <<>>
      ELSE IF Len(path) = 1 THEN <<Slots(<<>>, path[1], NDIR - 1, 0)>> \o Trees(2, isu.levels)
      ELSE (IF f.top THEN FreeTop(f, path) ELSE <<>>) \o Ends(f, path)
             \o Trees(Len(path) + 1, isu.levels)

\* The start and the end of a hole within one level: both branches upwards,
\* in step, until they meet in one block.
RECURSIVE Converge(_, _, _, _, _, _)
Converge(p1, p2, f1, f2, l1, l2) ==
  LET n == Len(p1)
      s1 == l1 > 1 /\ l1 >= l2
      s2 == l2 > 1 /\ l2 >= l1
  IN  IF l1 = 1 /\ l2 = 1 THEN <<>>
      ELSE IF l1 > 1 /\ l2 > 1 /\ Top(p1, l1 - 1) = Top(p2, l2 - 1)
      THEN <<Slots(Top(p1, l1 - 1), At(f1, p1, l1) + 1, At(f2, p2, l2) - 1, n - l1)>>
      ELSE (IF s1 THEN <<Slots(Top(p1, l1 - 1), At(f1, p1, l1) + 1, PTRS - 1, n - l1)>> ELSE <<>>)
           \o (IF s2 THEN <<Slots(Top(p2, l2 - 1), 0, At(f2, p2, l2) - 1, n - l2)>> ELSE <<>>)
           \o Converge(p1, p2, f1, f2, IF s1 THEN l1 - 1 ELSE l1, IF s2 THEN l2 - 1 ELSE l2)

\* The part of a hole at its end, when it lies on another level than the start.
EndRange(P, p2) ==
  LET f2 == ext4_find_shared(P, p2)
  IN  IF f2.top /\ f2.lev = 1 THEN <<>> ELSE Starts(Past(f2), p2)

ext4_ind_remove_space(start, end) ==
  LET p1 == ext4_block_to_path(start)
      p2 == ext4_block_to_path(end)
      n == Len(p1)
      n2 == Len(p2)
      f1 == ext4_find_shared(DOMAIN ptr, p1)
      f2 == ext4_find_shared(DOMAIN ptr, p2)
      level == Min({f1.lev, f2.lev})
  IN  IF n = 1 /\ n2 = 1 THEN <<Slots(<<>>, p1[1], p2[1] - 1, 0)>>
      ELSE IF n2 > n
      THEN (IF n = 1 THEN <<Slots(<<>>, p1[1], NDIR - 1, 0)>>
            ELSE (IF f1.top THEN FreeTop(f1, p1) ELSE <<>>) \o Ends(f1, p1))
           \o <<[k |-> "end", p2 |-> p2]>> \o Trees(n + 1, n2 - 1)
      ELSE (IF f1.top /\ Top(p1, level) # Top(p2, level) THEN FreeTop(f1, p1) ELSE <<>>)
           \o Converge(p1, p2, f1, Past(f2), f1.lev, f2.lev)

\* The list as it stands when the next thing to free has been found: a run of
\* data blocks, or an indirect block whose pointers have all been dealt with.
RECURSIVE Ready(_, _)
Ready(P, w) ==
  LET h == w[1]
      live == {x \in h.lo .. h.hi : Append(h.q, x) \in P}
      p == Append(h.q, Max(live))
  IN  IF w = <<>> \/ h.k = "top" THEN w
      ELSE IF h.k = "end" THEN Ready(P, EndRange(P, h.p2) \o Tail(w))
      ELSE IF live = {} THEN Ready(P, Tail(w))
      ELSE IF h.d = 0 THEN <<[h EXCEPT !.lo = Min(live)]>> \o Tail(w)
      ELSE Ready(P, <<Slots(p, 0, PTRS - 1, h.d - 1), [k |-> "top", q |-> p],
                      [h EXCEPT !.hi = Max(live) - 1]>> \o Tail(w))

RemoveBegins(start, end, list) ==
  /\ job' = [op |-> "remove", start |-> start, end |-> end]
  /\ todo' = Ready(DOMAIN ptr, list)
  /\ UNCHANGED <<isu, fmt, ptr, exts, ind, data, flag, islip, ibroken>>

IndTruncate(b) ==
  /\ Going /\ fmt = "ind" /\ job.op = "none"
  /\ RemoveBegins(b, MaxBlock, ext4_ind_truncate(b))

\* A hole that reaches the limit has no path for its end: BUG_ON(n > n2).
IndPunch(start, end) ==
  /\ Going /\ fmt = "ind" /\ job.op = "none" /\ start < end
  /\ IF end = MaxBlock
     THEN /\ islip' = {"bug"}
          /\ UNCHANGED <<isu, fmt, ptr, exts, ind, data, flag, job, todo, ibroken>>
     ELSE RemoveBegins(start, end, ext4_ind_remove_space(start, end))

\* ext4_free_data(): the pointers of a run of blocks that lie side by side.
ext4_free_data(h) ==
  LET live == {x \in h.lo .. h.hi : Append(h.q, x) \in DOMAIN ptr}
      Rank(x) == Cardinality({y \in live : y < x})
  IN  {Append(h.q, x) : x \in {x \in live :
         \A y \in live : y <= x => ptr[Append(h.q, y)] = ptr[Append(h.q, h.lo)] + Rank(y)}}

\* ext4_clear_blocks() for a run of data blocks, and the end of
\* ext4_free_branches() for an indirect block: the pointers are cleared and the
\* blocks are freed.
ext4_free_branches(gone, rest) ==
  LET meta == {p \in gone : Below(p) > 0}
      blocks == {ptr[p] : p \in gone \ meta}
      left == DOMAIN ptr \ gone
  IN  /\ ptr' = [p \in left |-> ptr[p]]
      /\ ind' = ind \ meta
      /\ data' = data \ blocks
      /\ todo' = Ready(left, rest)
      /\ ibroken' = ibroken \cup {f \in {"outside", "lost", "twice"} :
           CASE f = "outside" -> \E p \in gone \ meta : FirstBlock(p) \notin job.start .. job.end - 1
             [] f = "lost" -> \E p \in meta, x \in left : IsPrefix(p, x)
             [] f = "twice" -> ~(blocks \subseteq data /\ meta \subseteq ind)}
      /\ UNCHANGED job

IndRemoveStep ==
  LET h == todo[1]
  IN  /\ Going /\ job.op = "remove"
      /\ IF todo = <<>>
         THEN /\ job' = [op |-> "none"]
              /\ ibroken' = IF \E b \in job.start .. job.end - 1 : IsMapped(b)
                            THEN ibroken \cup {"left"} ELSE ibroken
              /\ UNCHANGED <<ptr, ind, data, todo>>
         ELSE IF h.k = "top" THEN ext4_free_branches({h.q}, Tail(todo))
         ELSE ext4_free_branches(ext4_free_data(h), todo)
      /\ UNCHANGED <<isu, fmt, exts, flag, islip>>

----------------------------------------------------------------------------
(* Migration. *)

NoRange == [lblk |-> 0, len |-> 0, pb |-> 0]

MigrateBegins ==
  /\ Going /\ fmt = "ind" /\ job.op = "none"
  /\ flag' = TRUE /\ exts' = {}
  /\ job' = [op |-> "migrate", cur |-> 0, lb |-> NoRange]
  /\ UNCHANGED <<isu, fmt, ptr, ind, data, todo, islip, ibroken>>

\* finish_range(): the extent goes to the temporary inode.
finish_range(lb) ==
  /\ exts' = IF lb.len = 0 THEN exts ELSE exts \cup {lb}
  /\ islip' = IF lb.len > isu.maxlen THEN islip \cup {"long"} ELSE islip

\* One pointer of the file, or a subtree that is not there.
MigrateScan ==
  LET path == ext4_block_to_path(job.cur)
      j == ext4_get_branch(DOMAIN ptr, path, Len(path))
      lb == job.lb
      adds == lb.len > 0 /\ lb.pb + lb.len = ptr[path] /\ lb.lblk + lb.len = job.cur
  IN  /\ Going /\ job.op = "migrate" /\ job.cur < MaxBlock
      /\ IF j # 0
         THEN /\ job' = [job EXCEPT !.cur = @ + Span(Below(Top(path, j)))]
              /\ UNCHANGED <<exts, islip>>
         ELSE IF adds
         THEN /\ job' = [job EXCEPT !.cur = @ + 1, !.lb.len = @ + 1]
              /\ UNCHANGED <<exts, islip>>
         ELSE /\ finish_range(lb)
              /\ job' = [job EXCEPT !.cur = @ + 1,
                                    !.lb = [lblk |-> job.cur, len |-> 1, pb |-> ptr[path]]]
      /\ UNCHANGED <<isu, fmt, ptr, ind, data, flag, todo, ibroken>>

\* An extent cannot be inserted: free_ext_block() of the temporary inode.
MigrateFails ==
  /\ Going /\ job.op = "migrate" /\ job.lb.len > 0
  /\ job' = [op |-> "none"] /\ exts' = {}
  /\ UNCHANGED <<isu, fmt, ptr, ind, data, flag, todo, islip, ibroken>>

\* The last extent, and ext4_ext_swap_inode_data().
MigrateLast ==
  /\ Going /\ job.op = "migrate" /\ job.cur = MaxBlock /\ job.lb.len > 0
  /\ finish_range(job.lb)
  /\ job' = [job EXCEPT !.lb = NoRange]
  /\ UNCHANGED <<isu, fmt, ptr, ind, data, flag, todo, ibroken>>

\* The order in which free_ind_block() frees: what hangs below a block first.
FreedBefore(p, q) ==
  \/ IsPrefix(q, p)
  \/ \E i \in DOMAIN p \cap DOMAIN q : Top(p, i - 1) = Top(q, i - 1) /\ p[i] < q[i]

\* The file turns to the extents of the temporary inode, unless blocks were
\* allocated meanwhile; the indirect blocks are to be freed.
ext4_ext_swap_inode_data ==
  /\ Going /\ job.op = "migrate" /\ job.cur = MaxBlock /\ job.lb.len = 0
  /\ flag' = FALSE
  /\ IF flag
     THEN /\ fmt' = "ext" /\ ptr' = <<>>
          /\ job' = [op |-> "free", last |-> <<>>]
          /\ todo' = SetToSortSeq(ind, FreedBefore)
          /\ ibroken' = IF ExtMap # IndMap THEN ibroken \cup {"migrated"} ELSE ibroken
          /\ UNCHANGED exts
     ELSE /\ job' = [op |-> "none"] /\ exts' = {}
          /\ UNCHANGED <<fmt, ptr, todo, ibroken>>
  /\ UNCHANGED <<isu, ind, data, islip>>

\* Mutant of free_ind_block(): the blocks below a double indirect block only.
free_below_only ==
  /\ Going /\ job.op = "free"
  /\ job' = IF todo = <<>> THEN [op |-> "none"] ELSE [job EXCEPT !.last = todo[1]]
  /\ ind' = IF todo # <<>> /\ Below(todo[1]) = 1 THEN ind \ {todo[1]} ELSE ind
  /\ todo' = IF todo = <<>> THEN todo ELSE Tail(todo)
  /\ UNCHANGED <<isu, fmt, ptr, exts, data, flag, islip, ibroken>>

\* free_ind_block(), free_dind_blocks(), free_tind_blocks(): one indirect block;
\* before each the transaction may be restarted, and i_data_sem is free.
free_ind_block ==
  /\ Going /\ job.op = "free"
  /\ job' = IF todo = <<>> THEN [op |-> "none"] ELSE [job EXCEPT !.last = todo[1]]
  /\ ind' = IF todo = <<>> THEN ind ELSE ind \ {todo[1]}
  /\ todo' = IF todo = <<>> THEN todo ELSE Tail(todo)
  /\ UNCHANGED <<isu, fmt, ptr, exts, data, flag, islip, ibroken>>

\* A double or triple indirect block cannot be read: the rest stays, and the
\* error makes ext4_ext_migrate() free the extent blocks after the swap.
FreeFails ==
  /\ isu.errors /\ Going /\ job.op = "free" /\ todo # <<>>
  /\ \E k \in 1..Len(todo[1]) : LET q == Top(todo[1], k)
                                IN  Below(q) > 1 /\ ~IsPrefix(q, job.last)
  /\ job' = [op |-> "none"] /\ todo' = <<>> /\ islip' = {"unread"}
  /\ UNCHANGED <<isu, fmt, ptr, exts, ind, data, flag, ibroken>>

\* A crash after a restart of the migration's transaction.  What the temporary
\* inode names is freed from the orphan list if it has extent blocks; indirect
\* blocks that were still to be freed stay.
MigrateCrashes ==
  LET orphan == Cardinality(exts) > isu.inroot
  IN  /\ isu.errors /\ Going /\ job.op \in {"migrate", "free"}
      /\ job' = [op |-> "none"] /\ todo' = <<>> /\ flag' = FALSE
      /\ islip' = (IF orphan THEN {"orphan"} ELSE {}) \cup (IF todo # <<>> THEN {"owed"} ELSE {})
      /\ data' = IF orphan THEN data \ {ExtMap[b] : b \in DOMAIN ExtMap} ELSE data
      /\ exts' = IF fmt = "ext" THEN exts ELSE {}
      /\ UNCHANGED <<isu, fmt, ptr, ind, ibroken>>

\* Back to direct blocks: at most one extent, that ends among them, or EOPNOTSUPP.
ext4_ind_migrate ==
  LET fits == Cardinality(exts) <= 1 /\ \A e \in exts : e.lblk + e.len - 1 < NDIR
  IN  /\ Going /\ fmt = "ext" /\ job.op = "none"
      /\ IF fits THEN /\ fmt' = "ind" /\ exts' = {}
                      /\ ptr' = [p \in {<<b>> : b \in DOMAIN ExtMap} |-> ExtMap[p[1]]]
         ELSE UNCHANGED <<fmt, exts, ptr>>
      /\ UNCHANGED <<isu, ind, data, flag, job, todo, islip, ibroken>>

IndStopped == ~Going /\ UNCHANGED ind_vars

----------------------------------------------------------------------------

IndInit ==
  /\ isu \in IndSetups
  /\ fmt = "ind" /\ ptr = <<>> /\ exts = {} /\ ind = {} /\ data = {} /\ flag = FALSE
  /\ job = [op |-> "none"] /\ todo = <<>> /\ islip = {} /\ ibroken = {}

IndNext ==
  \/ \E b \in isu.writes, n \in 1..2, color \in 0..isu.colors - 1 :
       b + n <= MaxBlock /\ ext4_ind_map_blocks(b, n, color)
  \/ \E b \in isu.writes, color \in 0..isu.colors - 1 : ind_map_blocks_fails(b, color)
  \/ "truncate" \in isu.calls /\ \E b \in 0..MaxBlock : IndTruncate(b)
  \/ "punch" \in isu.calls /\ \E s, e \in 0..MaxBlock : IndPunch(s, e)
  \/ IndRemoveStep
  \/ "migrate" \in isu.calls /\ MigrateBegins
  \/ MigrateScan
  \/ MigrateFails
  \/ MigrateLast
  \/ ext4_ext_swap_inode_data
  \/ free_ind_block
  \/ FreeFails
  \/ MigrateCrashes
  \/ ext4_ind_migrate
  \/ IndStopped

IndSpec == IndInit /\ [][IndNext]_ind_vars

----------------------------------------------------------------------------
(* Properties. *)

\* Every removal, as it stands suspended and when it is done, frees only blocks
\* of its range ("outside"), all of them ("left"), each once ("twice"), and an
\* indirect block only when nothing hangs below ("lost"); a migration puts the
\* same block behind every offset ("migrated").  It is about the walk of
\* ext4_ind_remove_space() and ext4_ind_truncate() along two branches that meet
\* anywhere, with holes anywhere.
IndContractKept == ibroken = {}

\* The bitmap holds the data and indirect blocks that can be reached from the
\* inode and no others, at every point where i_data_sem is let go and after a
\* failed allocation, except that a migration which has turned the file to
\* extents still owes the indirect blocks it is about to free; no block stands
\* behind two offsets.
IndBlocksExact ==
  LET m == IF fmt = "ind" THEN IndMap ELSE ExtMap
  IN  /\ \A b, c \in DOMAIN m : m[b] = m[c] => b = c
      /\ islip = {} => /\ data = {m[b] : b \in DOMAIN m}
                       /\ ind = {p \in DOMAIN ptr : Below(p) > 0}
                                  \cup (IF job.op = "free" THEN ToSet(todo) ELSE {})
                       /\ \A p \in DOMAIN ptr : \A k \in 1..Len(p) - 1 : Top(p, k) \in ind

\* A lookup by ext4_ind_map_blocks() reports only what is there: a run of blocks
\* side by side, or a hole no longer than the hole is.
IndLookupTrue ==
  LET m == IndMap
  IN  fmt = "ind" => \A b \in 0..MaxBlock - 1 :
        LET path == ext4_block_to_path(b)
            j == ext4_get_branch(DOMAIN ptr, path, Len(path))
        IN  IF j = 0 THEN \A i \in 0..FoundCount(path, MaxBlock) - 1 :
                            b + i \in DOMAIN m /\ m[b + i] = m[b] + i
            ELSE \A i \in 0..HoleCount(path, j, MaxBlock) - 1 : b + i \notin DOMAIN m
=============================================================================
