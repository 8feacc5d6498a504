------------------------------ MODULE Mballoc ------------------------------
(***************************************************************************)
(* ext4_mb_new_blocks() and ext4_free_blocks() of mballoc.c: how clusters  *)
(* of one block group move between the on-disk bitmap, preallocations, the *)
(* list of clusters that wait for a commit, and the in-core bitmap from    *)
(* which ext4_mb_regular_allocator() (module Allocator) serves requests.   *)
(*                                                                         *)
(* A process is in the middle of a call wherever the code drops the lock   *)
(* of the group.  A file has i_data_sem locked during its call, and the    *)
(* calls for small files have the one locality group's lg_mutex locked.    *)
(* Each call has a handle of the running transaction.                      *)
(***************************************************************************)
EXTENDS Integers, Sequences, FiniteSets, FiniteSetsExt, SequencesExt

CONSTANTS NClusters,     \* clusters of the group
          NBlocks,       \* blocks of a file
          Large,         \* the files with preallocations of their own
          Small,         \* the files that use the locality group
          Procs,         \* processes
          Pas,           \* memory for preallocations
          Windows,       \* sizes to which ext4_mb_normalize_request() rounds
          GroupPrealloc, \* s_mb_group_prealloc
          MaxLen,        \* longest request
          LgMax,         \* preallocations of one order in a locality group
          LgKeep,        \* and how many stay when there are more
          Writeback,     \* files in writeback mode
          Files,         \* what files may hold to begin with
          MaxCalls       \* bound: calls that begin

GroupClusters == 0 .. NClusters - 1
LBlocks == 0 .. NBlocks - 1
Inodes == Large \cup Small
None == -1

ASSUME MballocAssumption ==
  /\ {NClusters, NBlocks, GroupPrealloc, MaxLen, LgMax, LgKeep, MaxCalls} \subseteq Nat \ {0}
  /\ Large \cap Small = {} /\ Writeback \subseteq Inodes
  /\ Windows \subseteq Nat \ {0}
  /\ Pas \subseteq Nat

VARIABLES bits,    \* on-disk bitmap, as the running transaction has it
          incore,  \* in-core bitmap: bd_bitmap
          loaded,  \* is the page of the in-core bitmap in memory?
          fmap,    \* which cluster a block of a file is mapped to
          pas,     \* preallocations
          freed,   \* s_freed_data_list
          counts,  \* s_freeclusters_counter, s_dirtyclusters_counter, s_mb_free_pending
          proc,    \* processes
          com,     \* the committing transaction
          disk,    \* bits and fmap of the last committed transaction
          calls    \* calls that began so far

mbVars == <<bits, incore, loaded, fmap, pas, freed, counts, proc, com, disk, calls>>

Run(start, len) == start .. start + len - 1
NoExtent == [start |-> 0, len |-> 0, l |-> 0]
NoPa == [type |-> "none", ino |-> None, pstart |-> 0, len |-> 0, lstart |-> 0,
         free |-> 0, count |-> 0, deleted |-> FALSE, ingroup |-> FALSE, inobj |-> FALSE]
Idle == [pc |-> "idle", ino |-> None, o |-> NoExtent, g |-> NoExtent, b |-> NoExtent,
         f |-> NoExtent, pa |-> None, pinned |-> FALSE, claimed |-> 0, err |-> FALSE,
         list |-> {}, sum |-> 0]

NoMap == [i \in Inodes |-> [l \in LBlocks |-> None]]
NoCommit == [stage |-> "none", bits |-> {}, fmap |-> NoMap, cut |-> <<>>]

MbInit ==
  /\ fmap \in Files
  /\ bits = {fmap[i][l] : i \in Inodes, l \in LBlocks} \ {None}
  /\ incore = {} /\ loaded = FALSE
  /\ pas = [a \in Pas |-> NoPa]
  /\ freed = <<>>
  /\ counts = [free |-> NClusters - Cardinality(bits), dirty |-> 0, pending |-> 0]
  /\ proc = [p \in Procs |-> Idle]
  /\ com = NoCommit
  /\ disk = [bits |-> bits, fmap |-> fmap]
  /\ calls = 0

-----------------------------------------------------------------------------
(* The in-core bitmap.                                                     *)

PaSpan(a) == Run(pas[a].pstart, pas[a].len)
InGroupList == {a \in Pas : pas[a].ingroup}
SpansOf(seq) == UNION {Run(seq[n].start, seq[n].len) : n \in DOMAIN seq}

ext4_mb_generate_from_pa == UNION {PaSpan(a) : a \in InGroupList}

\* bb_free_root holds every entry that is not yet back in the buddy.
ext4_mb_generate_from_freelist == SpansOf(freed \o com.cut)

\* Mutant: preallocations are forgotten when the page is read again.
init_cache_no_pa == bits \cup ext4_mb_generate_from_freelist

\* Under the lock of the group: the bitmap on disk and all that is taken in
\* memory only.
ext4_mb_init_cache ==
  bits \cup ext4_mb_generate_from_pa \cup ext4_mb_generate_from_freelist

\* ext4_mb_load_buddy(): the bitmap, read again if memory was short.
ext4_mb_load_buddy == IF loaded THEN incore ELSE ext4_mb_init_cache

\* The page is pinned while clusters wait for a commit, by an allocation that
\* took clusters from it, and while a call works on it.
Pinned == freed \o com.cut # <<>> \/ \E p \in Procs : proc[p].pinned

\* Memory is short and the page goes.
reclaim_page ==
  /\ loaded /\ ~Pinned
  /\ loaded' = FALSE /\ incore' = {}
  /\ UNCHANGED <<bits, fmap, pas, freed, counts, proc, com, disk>>

InCore(set) == incore' = set /\ loaded' = TRUE
InCoreStays == UNCHANGED <<incore, loaded>>

-----------------------------------------------------------------------------
(* Allocation.                                                             *)

Mapped(i) == {l \in LBlocks : fmap[i][l] # None}
Busy(i) == \E p \in Procs : proc[p].ino = i
LgLocked == \E p \in Procs : /\ proc[p].ino \in Small /\ proc[p].o.len > 0
                             /\ proc[p].pc \notin {"claim", "context"}

\* A file wants len blocks at l, none of which is mapped; half as many as long
\* as the counters say that there are too few.
ext4_claim_free_clusters(p, i, l, n) ==
  LET avail == counts.free - counts.dirty
      len == IF n <= avail THEN n ELSE n \div 2
  IN /\ proc[p].pc = "idle" /\ ~Busy(i)
     /\ l + n <= NBlocks /\ Run(l, n) \cap Mapped(i) = {}
     /\ 0 < len /\ len <= avail
     /\ proc' = [proc EXCEPT ![p] = [Idle EXCEPT !.pc = "claim", !.ino = i,
                                                 !.o = [start |-> 0, len |-> len, l |-> l],
                                                 !.g = [start |-> 0, len |-> len, l |-> l]]]
     /\ UNCHANGED <<bits, incore, loaded, fmap, pas, freed, counts, com, disk>>

\* The clusters are claimed without a look at what others have claimed since.
claim_add(p) ==
  /\ proc[p].pc = "claim"
  /\ counts' = [counts EXCEPT !.dirty = @ + proc[p].o.len]
  /\ proc' = [proc EXCEPT ![p].pc = "context", ![p].claimed = proc[p].o.len]
  /\ UNCHANGED <<bits, incore, loaded, fmap, pas, freed, com, disk>>

\* A small file takes the mutex of its locality group.
ext4_mb_initialize_context(p) ==
  /\ proc[p].pc = "context"
  /\ proc[p].ino \in Small => ~LgLocked
  /\ proc' = [proc EXCEPT ![p].pc = "pre"]
  /\ UNCHANGED <<bits, incore, loaded, fmap, pas, freed, counts, com, disk>>

\* ext4_mb_use_inode_pa(): the part of preallocation a that request o asks for.
inode_pa_part(a, o) ==
  LET start == a.pstart + o.l - a.lstart
  IN [start |-> start, len |-> Min({a.pstart + a.len, start + o.len}) - start, l |-> o.l]

\* The live preallocations on the list of inode i.
InodePas(i) == {a \in Pas : pas[a].inobj /\ pas[a].ino = i /\ ~pas[a].deleted}
PaEnd(a) == pas[a].lstart + pas[a].len
Covering(i, l) ==
  {a \in InodePas(i) : pas[a].lstart <= l /\ l < PaEnd(a) /\ pas[a].free > 0}

\* The preallocations of the locality group that are large enough.
Fitting(len) ==
  {a \in Pas : pas[a].type = "group" /\ pas[a].inobj /\ ~pas[a].deleted /\ pas[a].free >= len}

use_inode_pa(p) ==
  /\ proc[p].pc = "pre"
  /\ \E a \in Covering(proc[p].ino, proc[p].o.l) :
       LET b == inode_pa_part(pas[a], proc[p].o)
       IN /\ pas' = [pas EXCEPT ![a].count = @ + 1, ![a].free = @ - b.len]
          /\ proc' = [proc EXCEPT ![p].pc = "mark", ![p].b = b, ![p].pa = a]
  /\ InCoreStays /\ UNCHANGED <<bits, fmap, freed, counts, com, disk>>

\* A preallocation of the locality group is only counted as used: its start and
\* length change in ext4_mb_release_context().  The nearest one is chosen; the
\* goal is any.
use_group_pa(p) ==
  /\ proc[p].pc = "pre" /\ proc[p].ino \in Small
  /\ Covering(proc[p].ino, proc[p].o.l) = {}
  /\ \E a \in Fitting(proc[p].o.len) :
       /\ pas' = [pas EXCEPT ![a].count = @ + 1]
       /\ proc' = [proc EXCEPT ![p].pc = "mark", ![p].pa = a,
                               ![p].b = [proc[p].o EXCEPT !.start = pas[a].pstart]]
  /\ InCoreStays /\ UNCHANGED <<bits, fmap, freed, counts, com, disk>>

\* The window of size w around block l of inode i, without blocks that are
\* mapped or preallocated.
window(i, l, w) ==
  LET first == (l \div w) * w
      starts == {first} \cup {m + 1 : m \in {m \in Mapped(i) : m < l}}
                        \cup {PaEnd(a) : a \in {a \in InodePas(i) : PaEnd(a) <= l}}
      ends == {first + w} \cup {m \in Mapped(i) : m > l}
                          \cup {pas[a].lstart : a \in {a \in InodePas(i) : pas[a].lstart > l}}
  IN [start |-> 0, l |-> Max(starts), len |-> Min(ends \cup {Max(starts) + NClusters}) - Max(starts)]

ext4_mb_normalize_request(p) ==
  LET r == proc[p]
  IN /\ r.pc = "pre"
     /\ Covering(r.ino, r.o.l) = {}
     /\ r.ino \in Small => Fitting(r.o.len) = {}
     /\ \E w \in Windows :
          proc' = [proc EXCEPT ![p].pc = "find",
                     ![p].g = IF r.ino \in Small THEN [r.o EXCEPT !.len = GroupPrealloc]
                              ELSE window(r.ino, r.o.l, w)]
     /\ InCoreStays /\ UNCHANGED <<bits, fmap, pas, freed, counts, com, disk>>

\* ext4_mb_regular_allocator(): free clusters, at most as many as the goal.
regular_allocator(p) ==
  LET r == proc[p]
      used == ext4_mb_load_buddy
  IN /\ r.pc = "find"
     /\ \E start \in GroupClusters, len \in 1 .. r.g.len :
          LET b == [start |-> start, len |-> len, l |-> r.g.l]
          IN /\ Run(start, len) \subseteq GroupClusters \ used
             /\ InCore(used \cup Run(start, len))
             /\ proc' = [proc EXCEPT ![p].b = b, ![p].f = b, ![p].pinned = TRUE,
                           ![p].pc = IF len > r.o.len THEN "newpa" ELSE "mark"]
     /\ UNCHANGED <<bits, fmap, pas, freed, counts, com, disk>>

\* ... and none is free.
regular_allocator_fails(p) ==
  /\ proc[p].pc = "find"
  /\ ext4_mb_load_buddy = GroupClusters
  /\ InCore(GroupClusters)
  /\ proc' = [proc EXCEPT ![p].pc = "discard"]
  /\ UNCHANGED <<bits, fmap, pas, freed, counts, com, disk>>

\* Where in the file a preallocation shorter than the goal begins.
pa_lstart(o, g, b) ==
  LET win == Min({o.l - g.l, b.len - o.len})
      offs == o.l % b.len
  IN IF b.len < g.len THEN o.l - (IF offs > 0 /\ offs < win THEN offs ELSE win) ELSE b.l

FreePas == {a \in Pas : pas[a] = NoPa}
\* The memory of a preallocation is taken in order: which one does not matter.
FirstPa == Min(FreePas)

ext4_mb_new_inode_pa(p) ==
  LET r == proc[p]
      a == FirstPa
      new == [type |-> "inode", ino |-> r.ino, pstart |-> r.b.start, len |-> r.b.len,
              lstart |-> pa_lstart(r.o, r.g, r.b), free |-> r.b.len, count |-> 1,
              deleted |-> FALSE, ingroup |-> TRUE, inobj |-> TRUE]
      part == inode_pa_part(new, r.o)
  IN /\ r.pc = "newpa" /\ r.ino \in Large /\ FreePas # {}
     /\ pas' = [pas EXCEPT ![a] = [new EXCEPT !.free = @ - part.len]]
     /\ proc' = [proc EXCEPT ![p].pc = "mark", ![p].pa = a, ![p].b = part,
                             ![p].f = [r.b EXCEPT !.l = new.lstart]]
     /\ InCoreStays /\ UNCHANGED <<bits, fmap, freed, counts, com, disk>>

ext4_mb_new_group_pa(p) ==
  LET r == proc[p]
      a == FirstPa
  IN /\ r.pc = "newpa" /\ r.ino \in Small /\ FreePas # {}
     /\ pas' = [pas EXCEPT ![a] =
                  [type |-> "group", ino |-> None, pstart |-> r.b.start, len |-> r.b.len,
                   lstart |-> r.b.start, free |-> r.b.len, count |-> 1,
                   deleted |-> FALSE, ingroup |-> TRUE, inobj |-> FALSE]]
     /\ proc' = [proc EXCEPT ![p].pc = "mark", ![p].pa = a,
                             ![p].b = [r.o EXCEPT !.start = r.b.start]]
     /\ InCoreStays /\ UNCHANGED <<bits, fmap, freed, counts, com, disk>>

\* Mutant: a preallocation does not get its clusters back.
discard_forgets_pa(p) ==
  LET r == proc[p]
  IN /\ IF r.pa = None
          THEN InCore(ext4_mb_load_buddy \ Run(r.f.start, r.f.len))
          ELSE InCoreStays
     /\ proc' = [proc EXCEPT ![p].pc = "release", ![p].err = TRUE, ![p].b = NoExtent]
     /\ UNCHANGED <<bits, fmap, pas, freed, counts, com, disk>>

\* ext4_discard_allocated_blocks(): an allocation that fails gives its clusters
\* back, to the group or to the preallocation they came from.
discard_allocated_blocks(p) ==
  LET r == proc[p]
  IN /\ IF r.pa = None
          THEN InCore(ext4_mb_load_buddy \ Run(r.f.start, r.f.len)) /\ UNCHANGED pas
          ELSE /\ pas' = [pas EXCEPT ![r.pa].free =
                            IF pas[r.pa].type = "inode" THEN @ + r.b.len ELSE @]
               /\ InCoreStays
     /\ proc' = [proc EXCEPT ![p].pc = "release", ![p].err = TRUE, ![p].b = NoExtent]
     /\ UNCHANGED <<bits, fmap, freed, counts, com, disk>>

\* There is no memory for a preallocation.
new_preallocation_fails(p) == proc[p].pc = "newpa" /\ discard_allocated_blocks(p)

\* The bitmap cannot be read or journalled.
mark_diskspace_fails(p) == proc[p].pc = "mark" /\ discard_allocated_blocks(p)

\* Mutant: what was allocated is unclaimed, not what was claimed.
mark_unclaims_allocated(p) ==
  LET b == proc[p].b
  IN /\ proc[p].pc = "mark"
     /\ bits' = bits \cup Run(b.start, b.len)
     /\ counts' = [counts EXCEPT !.free = @ - b.len, !.dirty = @ - b.len]
     /\ proc' = [proc EXCEPT ![p].pc = "release", ![p].claimed = 0]
     /\ InCoreStays /\ UNCHANGED <<fmap, pas, freed, com, disk>>

ext4_mb_mark_diskspace_used(p) ==
  LET b == proc[p].b
  IN /\ proc[p].pc = "mark"
     /\ bits' = bits \cup Run(b.start, b.len)
     /\ counts' = [counts EXCEPT !.free = @ - b.len, !.dirty = @ - proc[p].claimed]
     /\ proc' = [proc EXCEPT ![p].pc = "release", ![p].claimed = 0]
     /\ InCoreStays /\ UNCHANGED <<fmap, pas, freed, com, disk>>

-----------------------------------------------------------------------------
(* The end of a preallocation.                                             *)

\* What is freed in the buddy with preallocation a: of an inode's what is not
\* in the bitmap on disk, of a locality group's all.
released(a) == IF pas[a].type = "inode" THEN PaSpan(a) \ bits ELSE PaSpan(a)

order_of(n) == Max({k \in 0 .. n : 2^k <= n})
SameOrder(P, n) ==
  {a \in Pas : /\ P[a].type = "group" /\ P[a].inobj /\ ~P[a].deleted
               /\ P[a].free > 0 /\ order_of(P[a].free) = order_of(n)}

\* The start of a locality group's preallocation moves behind what was used,
\* and it goes to the list of its order.  When that list is too long others
\* of it, as many as needed, are to be discarded.
ext4_mb_release_context(p) ==
  LET r == proc[p]
      used == [pas EXCEPT ![r.pa].pstart = @ + r.b.len, ![r.pa].lstart = @ + r.b.len,
                          ![r.pa].free = @ - r.b.len, ![r.pa].len = @ - r.b.len,
                          ![r.pa].inobj = @ \/ pas[r.pa].free > r.b.len]
      many == Cardinality(SameOrder(used, used[r.pa].free))
      spare == {a \in SameOrder(used, used[r.pa].free) : used[a].count = 0}
  IN /\ r.pc = "release"
     /\ IF r.pa = None
          THEN /\ proc' = [proc EXCEPT ![p].pc = "done"]
               /\ UNCHANGED pas
          ELSE IF pas[r.pa].type = "group" /\ used[r.pa].free > 0 /\ many > LgMax
          THEN \E list \in kSubset(Min({many - LgKeep, Cardinality(spare)}), spare) :
                 /\ pas' = [a \in Pas |-> IF a \in list
                              THEN [used[a] EXCEPT !.deleted = TRUE, !.inobj = FALSE]
                              ELSE used[a]]
                 /\ proc' = [proc EXCEPT ![p].pc = "put", ![p].list = list]
          ELSE /\ pas' = IF pas[r.pa].type = "group" THEN used ELSE pas
               /\ proc' = [proc EXCEPT ![p].pc = "put"]
     /\ InCoreStays /\ UNCHANGED <<bits, fmap, freed, counts, com, disk>>

\* One preallocation of the list goes, under the lock of the group:
\* ext4_mb_discard_lg_preallocations() and ext4_discard_preallocations().
release_listed(p) ==
  /\ proc[p].pc \in {"put", "dropping"} /\ proc[p].list # {}
  /\ LET a == Min(proc[p].list)
     IN /\ InCore(ext4_mb_load_buddy \ released(a))
        /\ pas' = [pas EXCEPT ![a] = NoPa]
        /\ proc' = [proc EXCEPT ![p].list = @ \ {a}]
  /\ UNCHANGED <<bits, fmap, freed, counts, com, disk>>

ext4_mb_put_pa(p) ==
  LET a == proc[p].pa
      last == pas[a].count = 1 /\ pas[a].free = 0 /\ ~pas[a].deleted
  IN /\ proc[p].pc = "put" /\ proc[p].list = {}
     /\ pas' = [pas EXCEPT ![a].count = @ - 1, ![a].deleted = @ \/ last]
     /\ proc' = [proc EXCEPT ![p].pc = IF last THEN "unlist" ELSE "done",
                             ![p].pa = IF last THEN a ELSE None]
     /\ InCoreStays /\ UNCHANGED <<bits, fmap, freed, counts, com, disk>>

put_pa_unlist_group(p) ==
  /\ proc[p].pc = "unlist"
  /\ pas' = [pas EXCEPT ![proc[p].pa].ingroup = FALSE]
  /\ proc' = [proc EXCEPT ![p].pc = "unlist2"]
  /\ InCoreStays /\ UNCHANGED <<bits, fmap, freed, counts, com, disk>>

put_pa_unlist_inode(p) ==
  /\ proc[p].pc = "unlist2"
  /\ pas' = [pas EXCEPT ![proc[p].pa] = NoPa]
  /\ proc' = [proc EXCEPT ![p].pc = "done", ![p].pa = None]
  /\ InCoreStays /\ UNCHANGED <<bits, fmap, freed, counts, com, disk>>

\* ext4_mb_discard_group_preallocations() of a request that found no cluster
\* takes all preallocations nobody uses, and waits for those in use when they
\* are too few.  It gives up when there was nothing to free.
discard_group_preallocations(p) ==
  LET r == proc[p]
      unused == {a \in InGroupList : pas[a].count = 0 /\ ~pas[a].deleted}
      busy == \E a \in InGroupList : pas[a].count > 0
      sum == r.sum + MapThenSumSet(LAMBDA a : pas[a].free, unused)
      all == r.list \cup unused
  IN /\ r.pc = "discard"
     /\ IF sum < r.o.len /\ busy
          THEN /\ pas' = [a \in Pas |-> IF a \in unused
                            THEN [pas[a] EXCEPT !.deleted = TRUE, !.ingroup = FALSE] ELSE pas[a]]
               /\ proc' = [proc EXCEPT ![p].list = all, ![p].sum = sum, ![p].pinned = TRUE]
               /\ InCore(ext4_mb_load_buddy)
          ELSE /\ pas' = [a \in Pas |-> IF a \in all THEN NoPa ELSE pas[a]]
               /\ proc' = [proc EXCEPT ![p].list = {}, ![p].sum = 0, ![p].pinned = FALSE,
                             ![p].pc = IF sum > 0 THEN "find" ELSE "release",
                             ![p].err = sum = 0]
               /\ InCore(ext4_mb_load_buddy \ UNION {released(a) : a \in all})
     /\ UNCHANGED <<bits, fmap, freed, counts, com, disk>>

-----------------------------------------------------------------------------
(* Callers.                                                                *)

\* The caller maps the clusters, or gives the claim back.
allocated(p) ==
  LET r == proc[p]
  IN /\ r.pc = "done"
     /\ fmap' = IF r.err THEN fmap
                ELSE [fmap EXCEPT ![r.ino] = [l \in LBlocks |->
                        IF l \in Run(r.o.l, r.b.len) THEN r.b.start + l - r.o.l ELSE @[l]]]
     /\ counts' = [counts EXCEPT !.dirty = @ - r.claimed]
     /\ proc' = [proc EXCEPT ![p] = Idle]
     /\ InCoreStays /\ UNCHANGED <<bits, pas, freed, com, disk>>

\* Mutant: the clusters of the extent that could not be inserted are not freed.
insert_fails_leaks(p) ==
  LET r == proc[p]
  IN /\ r.pc = "done" /\ ~r.err
     /\ proc' = [proc EXCEPT ![p] = [Idle EXCEPT !.pc = "drop", !.ino = r.ino, !.o.l = NBlocks]]
     /\ InCoreStays /\ UNCHANGED <<bits, fmap, pas, freed, counts, com, disk>>

\* ext4_ext_map_blocks() cannot insert the extent: the preallocations of the
\* file are discarded and the clusters are freed.
insert_extent_fails(p) ==
  LET r == proc[p]
  IN /\ r.pc = "done" /\ ~r.err
     /\ proc' = [proc EXCEPT ![p] = [Idle EXCEPT !.pc = "drop", !.ino = r.ino, !.f = r.b,
                                                 !.o.l = NBlocks]]
     /\ InCoreStays /\ UNCHANGED <<bits, fmap, pas, freed, counts, com, disk>>

\* ext4_truncate() to l blocks, or the last close (ext4_release_file()), which
\* frees no block.
truncate(p, i, l) ==
  /\ proc[p].pc = "idle" /\ ~Busy(i)
  /\ (\E m \in Mapped(i) : m >= l) \/ (l = NBlocks /\ InodePas(i) # {})
  /\ proc' = [proc EXCEPT ![p] = [Idle EXCEPT !.pc = "drop", !.ino = i, !.o.l = l]]
  /\ InCoreStays /\ UNCHANGED <<bits, fmap, pas, freed, counts, com, disk>>

\* The first loop of ext4_discard_preallocations() takes the preallocations off
\* the file's list, and waits while somebody else is deleting one.
ext4_discard_preallocations(p) ==
  LET r == proc[p]
      listed == {a \in Pas : pas[a].inobj /\ pas[a].ino = r.ino}
      mine == {a \in listed : ~pas[a].deleted /\ pas[a].count = 0}
  IN /\ r.pc = "drop"
     /\ mine # {} \/ listed = {}
     /\ pas' = [a \in Pas |-> IF a \in mine
                  THEN [pas[a] EXCEPT !.deleted = TRUE, !.inobj = FALSE] ELSE pas[a]]
     /\ proc' = [proc EXCEPT ![p].list = @ \cup mine,
                             ![p].pc = IF mine = listed THEN "dropping" ELSE "drop"]
     /\ InCoreStays /\ UNCHANGED <<bits, fmap, freed, counts, com, disk>>

discarded(p) ==
  /\ proc[p].pc = "dropping" /\ proc[p].list = {}
  /\ proc' = [proc EXCEPT ![p].pc = "free"]
  /\ InCoreStays /\ UNCHANGED <<bits, fmap, pas, freed, counts, com, disk>>

\* Can entries e and n of the list of freed clusters be merged?
adjacent(e, n) == e.tid = n.tid /\ (e.start + e.len = n.start \/ n.start + n.len = e.start)

\* ext4_mb_free_metadata(): the new entry swallows its neighbours of the same
\* transaction and goes to the end of the list.
ext4_mb_free_metadata(list, new) ==
  LET rest == SelectSeq(list, LAMBDA e : ~adjacent(e, new))
      joined == {new} \cup {e \in Range(list) : adjacent(e, new)}
  IN Append(rest, [start |-> Min({e.start : e \in joined}),
                   len |-> MapThenSumSet(LAMBDA e : e.len, joined), tid |-> new.tid])

\* The clusters are free on disk, but not in core before the commit, except for
\* data in writeback mode.
ext4_free_blocks(i, start, len) ==
  /\ bits' = bits \ Run(start, len)
  /\ IF i \in Writeback
       THEN /\ InCore(ext4_mb_load_buddy \ Run(start, len))
            /\ counts' = [counts EXCEPT !.free = @ + len]
            /\ UNCHANGED freed
       ELSE /\ InCore(ext4_mb_load_buddy)
            /\ counts' = [counts EXCEPT !.free = @ + len, !.pending = @ + len]
            /\ freed' = ext4_mb_free_metadata(freed, [start |-> start, len |-> len, tid |-> "run"])

\* The blocks go, the last one first.
remove_space(p) ==
  LET r == proc[p]
      blocks == {l \in Mapped(r.ino) : l >= r.o.l}
  IN /\ r.pc = "free"
     /\ \/ /\ blocks # {}
           /\ ext4_free_blocks(r.ino, fmap[r.ino][Max(blocks)], 1)
           /\ fmap' = [fmap EXCEPT ![r.ino][Max(blocks)] = None]
           /\ UNCHANGED proc
        \/ /\ blocks = {} /\ r.f.len > 0
           /\ ext4_free_blocks(r.ino, r.f.start, r.f.len)
           /\ proc' = [proc EXCEPT ![p] = Idle]
           /\ UNCHANGED fmap
        \/ /\ blocks = {} /\ r.f.len = 0
           /\ proc' = [proc EXCEPT ![p] = Idle]
           /\ InCoreStays /\ UNCHANGED <<bits, fmap, counts, freed>>
     /\ UNCHANGED <<pas, com, disk>>

\* ext4_trim_extent(): a free extent is marked used while the device discards
\* it, with the lock of the group dropped.
ext4_trim_extent(p) ==
  LET used == ext4_mb_load_buddy
  IN /\ proc[p].pc = "idle"
     /\ \E start \in GroupClusters \ used :
          LET end == Min({c \in used : c > start} \cup {NClusters})
          IN /\ start > 0 => start - 1 \in used
             /\ InCore(used \cup (start .. end - 1))
             /\ proc' = [proc EXCEPT ![p].pc = "trim", ![p].pinned = TRUE,
                                     ![p].f = [start |-> start, len |-> end - start, l |-> 0]]
     /\ UNCHANGED <<bits, fmap, pas, freed, counts, com, disk>>

trim_extent_end(p) ==
  /\ proc[p].pc = "trim"
  /\ InCore(incore \ Run(proc[p].f.start, proc[p].f.len))
  /\ proc' = [proc EXCEPT ![p] = Idle]
  /\ UNCHANGED <<bits, fmap, pas, freed, counts, com, disk>>

-----------------------------------------------------------------------------
(* Commits.                                                                *)

\* jbd2: the running transaction becomes the committing one when no handle is
\* open; entries of an older one would stay on the list.
start_commit ==
  /\ com.stage = "none"
  /\ \A p \in Procs : proc[p].ino = None
  /\ [bits |-> bits, fmap |-> fmap] # disk \/ freed # <<>>
  /\ com' = [stage |-> "commit", bits |-> bits, fmap |-> fmap, cut |-> <<>>]
  /\ freed' = [n \in DOMAIN freed |->
                 [freed[n] EXCEPT !.tid = IF @ = "run" THEN "com" ELSE "old"]]
  /\ InCoreStays /\ UNCHANGED <<bits, fmap, pas, counts, proc, disk>>

\* Mutant: all entries are cut off, whichever transaction they belong to.
process_all_freed ==
  /\ com.stage = "commit"
  /\ disk' = [bits |-> com.bits, fmap |-> com.fmap]
  /\ com' = [NoCommit EXCEPT !.stage = "callback", !.cut = freed]
  /\ freed' = <<>>
  /\ InCoreStays /\ UNCHANGED <<bits, fmap, pas, counts, proc>>

\* The commit is done, and ext4_process_freed_data() cuts off the entries of
\* this transaction at the head of the list.
ext4_process_freed_data ==
  LET others == {n \in DOMAIN freed : freed[n].tid # "com"}
      n == IF others = {} THEN Len(freed) ELSE Min(others) - 1
  IN /\ com.stage = "commit"
     /\ disk' = [bits |-> com.bits, fmap |-> com.fmap]
     /\ com' = [NoCommit EXCEPT !.stage = "callback", !.cut = SubSeq(freed, 1, n)]
     /\ freed' = SubSeq(freed, n + 1, Len(freed))
     /\ InCoreStays /\ UNCHANGED <<bits, fmap, pas, counts, proc>>

ext4_free_data_in_buddy ==
  /\ com.stage = "callback" /\ com.cut # <<>>
  /\ LET e == Head(com.cut)
     IN /\ InCore(ext4_mb_load_buddy \ Run(e.start, e.len))
        /\ counts' = [counts EXCEPT !.pending = @ - e.len]
  /\ com' = [com EXCEPT !.cut = Tail(@)]
  /\ UNCHANGED <<bits, fmap, pas, freed, proc, disk>>

end_commit ==
  /\ com.stage = "callback" /\ com.cut = <<>>
  /\ com' = NoCommit
  /\ InCoreStays /\ UNCHANGED <<bits, fmap, pas, freed, counts, proc, disk>>

\* All that is in memory is lost.
Crash ==
  /\ bits' = disk.bits /\ fmap' = disk.fmap
  /\ incore' = {} /\ loaded' = FALSE
  /\ pas' = [a \in Pas |-> NoPa]
  /\ freed' = <<>>
  /\ counts' = [free |-> NClusters - Cardinality(disk.bits), dirty |-> 0, pending |-> 0]
  /\ proc' = [p \in Procs |-> Idle]
  /\ com' = NoCommit
  /\ UNCHANGED disk

step(p) ==
  \/ use_inode_pa(p) \/ use_group_pa(p) \/ ext4_mb_normalize_request(p)
  \/ regular_allocator(p) \/ regular_allocator_fails(p)
  \/ ext4_mb_new_inode_pa(p) \/ ext4_mb_new_group_pa(p) \/ new_preallocation_fails(p)
  \/ ext4_mb_mark_diskspace_used(p) \/ mark_diskspace_fails(p)
  \/ claim_add(p) \/ ext4_mb_initialize_context(p)
  \/ ext4_mb_release_context(p) \/ release_listed(p) \/ ext4_mb_put_pa(p)
  \/ put_pa_unlist_group(p) \/ put_pa_unlist_inode(p)
  \/ discard_group_preallocations(p) \/ allocated(p) \/ insert_extent_fails(p)
  \/ ext4_discard_preallocations(p) \/ discarded(p) \/ remove_space(p) \/ trim_extent_end(p)

Begin(p) ==
  \/ ext4_trim_extent(p)
  \/ \E i \in Inodes, l \in LBlocks, n \in 1 .. MaxLen : ext4_claim_free_clusters(p, i, l, n)
  \/ \E i \in Inodes, l \in 0 .. NBlocks : truncate(p, i, l)

MbNext ==
  \/ \E p \in Procs : calls < MaxCalls /\ Begin(p) /\ calls' = calls + 1
  \/ \E p \in Procs : step(p) /\ UNCHANGED calls
  \/ /\ \/ reclaim_page \/ start_commit \/ ext4_process_freed_data
        \/ ext4_free_data_in_buddy \/ end_commit \/ Crash
     /\ UNCHANGED calls

MbSpec == MbInit /\ [][MbNext]_mbVars

-----------------------------------------------------------------------------
(* Properties.                                                             *)

Taken(pcs) == UNION {Run(proc[p].f.start, proc[p].f.len) :
                       p \in {q \in Procs : proc[q].pc \in pcs /\ proc[q].pa = None}}

\* Whenever the in-core bitmap is looked at, also when its page has to be built
\* again, exactly these clusters are used in it: those of the bitmap on disk,
\* of preallocations, of frees that wait for a commit, of allocations that have
\* not reached the bitmap on disk, and those being trimmed.
InCoreExact ==
  ext4_mb_load_buddy = bits \cup UNION {PaSpan(a) : a \in Pas}
                            \cup SpansOf(freed \o com.cut) \cup Taken({"newpa", "mark", "trim"})

\* What a crash leaves: in the committed bitmap exactly the clusters of files
\* are used, and no cluster belongs to two blocks.
CommittedBitmapExact ==
  LET blocks == {x \in Inodes \X LBlocks : disk.fmap[x[1]][x[2]] # None}
      at(x) == disk.fmap[x[1]][x[2]]
  IN /\ disk.bits = {at(x) : x \in blocks}
     /\ \A x, y \in blocks : at(x) = at(y) => x = y

\* A cluster of a committed file that is not in writeback mode is still that
\* file's or waits for the commit of its free: nobody can have written to it.
NoReuseBeforeCommit ==
  \A i \in Inodes \ Writeback, l \in LBlocks :
    disk.fmap[i][l] = None \/ fmap[i][l] = disk.fmap[i][l]
      \/ disk.fmap[i][l] \in SpansOf(freed \o com.cut)

\* pa_count counts the calls that use a preallocation, which is not freed as
\* long as there are some; preallocations do not share clusters; and when nobody
\* uses one, pa_free is the number of its clusters that are free on disk (the
\* error "free %u, pa_free %u" is never reported).
PreallocationsExact ==
  \A a \in Pas :
    LET users == {p \in Procs : proc[p].pa = a /\ proc[p].pc \notin {"unlist", "unlist2"}}
    IN /\ pas[a].count = Cardinality(users)
       /\ pas[a].free >= 0
       /\ pas[a].count = 0 => Cardinality(PaSpan(a) \ bits) = pas[a].free
       /\ \A c \in Pas : c # a => PaSpan(a) \cap PaSpan(c) = {}

\* The counters of free, claimed and pending clusters are exact, whichever way
\* an allocation ends.  More clusters may be claimed than are free: two calls
\* that pass the check together both add to s_dirtyclusters_counter.
CountersExact ==
  /\ counts.free = NClusters - Cardinality(bits)
  /\ counts.dirty = MapThenSumSet(LAMBDA p : proc[p].claimed, Procs)
  /\ counts.pending = Cardinality(SpansOf(freed \o com.cut))

=============================================================================
