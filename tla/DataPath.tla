------------------------------ MODULE DataPath ------------------------------
(* The way of file data to the disk (inode.c, page-io.c, extents.c, fsync.c): *)
(* buffered writes with and without delayed allocation, ext4_writepages,      *)
(* unwritten extents and their conversion, truncate, fallocate, punching and  *)
(* zeroing a range, fsync, and the commit that waits for ordered data.        *)
(*                                                                            *)
(* One regular file with extents in data=ordered mode; a page is a block is a *)
(* cluster.  A process is at most in one call; `wb` holds the state of its    *)
(* ext4_writepages.  A physical block that is allocated anew holds Stale data *)
(* of some deleted file until a bio has written to it.                        *)
EXTENDS Integers, FiniteSets, FiniteSetsExt, Functions

CONSTANTS
  NBlocks,     \* the file has at most that many blocks
  Phys,        \* physical blocks of the device
  Setups       \* the cases that are looked at, see Setup

Blocks == 0 .. NBlocks - 1
Stale == -1
Flusher == "flusher"
Fsync == "fsync"
Caller == "caller"   \* whoever holds inode->i_rwsem
Procs == {Flusher, Fsync, Caller}
Nobody == "nobody"
Unused == "none"     \* no physical block

Operations == {"truncate", "punch", "zero", "falloc", "dio", "fsync"}

(* The mount options dioread_nolock and delalloc, how many blocks of the      *)
(* device other files have, EXT4_FREECLUSTERS_WATERMARK, whether memory for   *)
(* the extent status tree may be short, whether another file allocates, which *)
(* operations are called (of fsync those with datasync), and the bounds on    *)
(* the number of page cache writes and of calls.                              *)
Setup == [nolock : BOOLEAN, delalloc : BOOLEAN, others : Nat, watermark : Nat,
          nomem : BOOLEAN, rival : BOOLEAN, ops : SUBSET Operations,
          datasync : SUBSET BOOLEAN, writes : Nat, calls : Nat]

ASSUME SizesAssumption == /\ Setups \subseteq Setup
                          /\ NBlocks \in Nat \ {0} /\ IsFiniteSet(Phys)
                          /\ Unused \notin Phys

VARIABLES
  setup,     \* the case
  others,    \* blocks that belong to other files
  rival,     \* where an allocation for another file is
  inode,     \* in-core inode: i_size, delayed blocks of the extent status tree,
             \* i_reserved_data_blocks and how many of them no block has any
             \* more, i_sync_tid, i_datasync_tid
  meta,      \* metadata of the running transaction: extents, i_disksize, on
             \* the orphan list, blocks freed, why the inode is on the ordered
             \* list; and the slips, see NoStaleData and TailCovered
  locked,    \* the running transaction is T_LOCKED: no new handle may start
  com,       \* the committing transaction
  disk,      \* metadata of the last commit
  page,      \* page cache
  ios,       \* the io_ends of bios in flight or waiting for conversion
  wb,        \* ext4_writepages of each process
  call,      \* the system call under i_rwsem
  sync,      \* the fsync call
  platter,   \* contents of physical blocks, Stale or the number of a write: on
             \* the medium, and in the write cache of the device before it
  synced,    \* for each block the write that an fsync has promised
  writes,    \* number of buffered writes so far
  calls      \* number of other calls so far

opts == <<setup, others, rival>>
nolock == setup.nolock
delalloc == setup.delalloc
ops == setup.ops
MaxWrites == setup.writes
MaxCalls == setup.calls
vars == <<setup, others, rival, inode, meta, locked, com, disk, page, ios, wb,
          call, sync, platter, synced, writes, calls>>

-----------------------------------------------------------------------------
(* Extents, free clusters and transactions.                                  *)

Hole == [st |-> "hole", pb |-> Unused]
Mapped(m) == {l \in Blocks : m.ext[l].st # "hole"}
InUse(m) == {m.ext[l].pb : l \in Mapped(m)}

(* s_freeclusters_counter: a freed block counts as free at once.              *)
FreeClusters(m) == Cardinality(Phys \ others) - Cardinality(InUse(m))
(* What the buddy bitmaps have: a freed block only after the commit.          *)
Allocatable == Phys \ (others \cup InUse(meta) \cup meta.freed \cup com.freed)

(* Mutant: the comparison lets the last reservation through.                  *)
has_free_clusters_off_by_one == FreeClusters(meta) - inode.reserved >= 0

(* ext4_claim_free_clusters for one block                                     *)
ext4_has_free_clusters == FreeClusters(meta) - inode.reserved >= 1

(* Without the mount option the address space operations are those of the     *)
(* fallback.                                                                  *)
ext4_nonda_switch == \/ ~delalloc
                     \/ 2 * FreeClusters(meta) < 3 * inode.reserved
                     \/ FreeClusters(meta) < inode.reserved + setup.watermark

NoCommit == [st |-> "none", ext |-> [l \in Blocks |-> Hole], disksize |-> 0,
             orphan |-> FALSE, freed |-> {}, ordered |-> {}, raced |-> {}, ahead |-> {},
             at |-> 0]

NeverWritten == [medium |-> Stale, cache |-> Stale]

NoPage == [bh |-> "none", dirty |-> FALSE, wb |-> FALSE, towrite |-> FALSE,
           ver |-> 0, lock |-> Nobody]

IdleWb == [pc |-> "idle", all |-> FALSE, map |-> FALSE, first |-> 0, last |-> 0,
           next |-> 0, len |-> 0, done |-> 0, err |-> FALSE, give_up |-> FALSE, tid |-> "old"]
IdleCall == [op |-> "none", pc |-> "idle", lblk |-> 0]
IdleSync == [pc |-> "idle", datasync |-> FALSE, at |-> 0, tid |-> "old", barrier |-> FALSE,
             want |-> [l \in Blocks |-> 0]]

Init ==
  /\ setup \in Setups /\ others \in kSubset(setup.others, Phys)
  /\ rival = "idle"
  /\ meta = [ext |-> [l \in Blocks |-> Hole], disksize |-> 0, orphan |-> FALSE,
             freed |-> {}, ordered |-> {}, raced |-> {}, ahead |-> {}]
  /\ inode = [size |-> 0, delayed |-> {}, reserved |-> 0, leaked |-> 0, sync |-> "old",
              datasync |-> "old"]
  /\ locked = FALSE
  /\ com = NoCommit
  /\ disk = meta
  /\ page = [l \in Blocks |-> NoPage]
  /\ ios = {}
  /\ wb = [p \in Procs |-> IdleWb]
  /\ call = IdleCall
  /\ sync = IdleSync
  /\ platter = [b \in Phys |-> NeverWritten]
  /\ synced = [l \in Blocks |-> 0]
  /\ writes = 0
  /\ calls = 0

(* ext4_map_blocks for one block: b is what it has, or a block that can be    *)
(* allocated.  The first data of a block puts the inode on the transaction's  *)
(* ordered list, so that the commit writes and waits for it.                  *)
Granted(l) == IF meta.ext[l].st # "hole" THEN {meta.ext[l].pb}
              ELSE IF ext4_has_free_clusters THEN Allocatable ELSE {}

ext4_map_blocks(l, b, st) ==
  [meta EXCEPT !.ext[l] = [st |-> st, pb |-> b],
               !.ordered = IF st = "written" /\ meta.ext[l].st # "written"
                           THEN @ \cup {"write"} ELSE @]

(* A new block holds what was in it before.                                   *)
Contents(l, b) ==
  IF meta.ext[l].st = "hole" THEN [platter EXCEPT ![b] = NeverWritten] ELSE platter

(* All that the device has in its cache goes to the medium.  It may also do   *)
(* that on its own, which no property is worse for.                           *)
Flushed == [b \in Phys |-> [platter[b] EXCEPT !.medium = platter[b].cache]]

(* inode->i_rwsem is locked.                                                 *)
Locked == call.pc \notin {"idle", "flush", "flushed"}

(* inode->i_mmap_sem is held for writing.                                     *)
MmapLocked == call.op # "dio" /\ call.pc \in {"pagecache", "blocks"}

(* Handles that are open across steps; the others are closed within the step. *)
OpenHandles == {p \in Procs : wb[p].map}

(* Mutant: only the transaction of an fsync is recorded.                      *)
fsync_trans_no_datasync(i, datasync) == [i EXCEPT !.sync = "run"]

(* ext4_update_inode_fsync_trans: the running transaction is the one that an  *)
(* fsync (and, if data is affected, an fdatasync) has to wait for.            *)
ext4_update_inode_fsync_trans(i, datasync) ==
  [i EXCEPT !.sync = "run", !.datasync = IF datasync THEN "run" ELSE @]

Bigger(a, b) == IF a > b THEN a ELSE b
Smaller(a, b) == IF a < b THEN a ELSE b

(* An fsync promises nothing of blocks that are removed or zeroed meanwhile.  *)
Forget(gone) ==
  /\ synced' = [l \in Blocks |-> IF l \in gone THEN 0 ELSE synced[l]]
  /\ sync' = [sync EXCEPT !.want = [l \in Blocks |-> IF l \in gone THEN 0 ELSE @[l]]]

-----------------------------------------------------------------------------
(* Buffered write of one block, under i_rwsem and the page lock.              *)

(* ext4_da_map_blocks: (new page state, whether a cluster is reserved)        *)
ext4_da_map_blocks(l) ==
  CASE meta.ext[l].st = "unwritten" -> "unwritten"
    [] meta.ext[l].st = "written" -> "mapped"
    [] OTHER -> "delay"

(* ext4_da_write_begin and ext4_da_write_end                                  *)
ext4_da_write(l) ==
  LET bh == IF page[l].bh = "none" THEN ext4_da_map_blocks(l) ELSE page[l].bh
      reserve == bh = "delay" /\ l \notin inode.delayed
      extend == bh = "mapped" /\ l + 1 > meta.disksize
      i == [inode EXCEPT !.size = Bigger(@, l + 1),
                         !.delayed = IF reserve THEN @ \cup {l} ELSE @,
                         !.reserved = IF reserve THEN @ + 1 ELSE @]
  IN /\ ~Locked /\ writes < MaxWrites /\ ~locked
     /\ page[l].lock = Nobody
     /\ ~ext4_nonda_switch
     /\ reserve => ext4_has_free_clusters
     /\ page' = [page EXCEPT ![l] = [@ EXCEPT !.bh = bh, !.dirty = TRUE,
                                              !.ver = @ + 1]]
     /\ meta' = IF extend THEN [meta EXCEPT !.disksize = l + 1] ELSE meta
     /\ inode' = IF extend \/ i.size # inode.size
                 THEN ext4_update_inode_fsync_trans(i, extend) ELSE i
     /\ writes' = writes + 1
     /\ UNCHANGED <<opts, locked, com, disk, ios, wb, call, sync, platter,
                    synced, calls>>

(* ext4_write_begin with ext4_get_block or ext4_get_block_unwritten, and      *)
(* ext4_write_end: the fallback when space is scarce.                         *)
ext4_write(l) ==
  LET e == meta.ext[l]
      get == page[l].bh = "none"
      st == IF nolock /\ e.st # "written" THEN "unwritten" ELSE "written"
      bh == IF ~get THEN page[l].bh ELSE IF st = "written" THEN "mapped" ELSE "unwritten"
      fresh == get /\ e.st # st
      size == Bigger(inode.size, l + 1)
      grows == l + 1 > meta.disksize
  IN /\ ~Locked /\ writes < MaxWrites /\ ~locked
     /\ page[l].lock = Nobody
     /\ ext4_nonda_switch
     /\ \E b \in IF get THEN Granted(l) ELSE {e.pb} :
          /\ meta' = [IF get THEN ext4_map_blocks(l, b, st) ELSE meta
                      EXCEPT !.disksize = Bigger(@, l + 1)]
          /\ platter' = IF get THEN Contents(l, b) ELSE platter
     /\ page' = [page EXCEPT ![l] = [@ EXCEPT !.bh = bh, !.dirty = TRUE, !.ver = @ + 1]]
     /\ inode' = IF fresh \/ grows \/ size # inode.size
                 THEN ext4_update_inode_fsync_trans([inode EXCEPT !.size = size],
                        grows \/ (fresh /\ st = "written"))
                 ELSE inode
     /\ writes' = writes + 1
     /\ UNCHANGED <<opts, locked, com, disk, ios, wb, call, sync, synced, calls>>

(* A store to a mapped page, under i_mmap_sem only: as ext4_da_write or       *)
(* ext4_write, but neither size changes.  A program that stores to a block    *)
(* while it is written directly may get either and is left out.               *)
ext4_page_mkwrite(l) ==
  LET e == meta.ext[l]
      get == page[l].bh = "none"
      now == ~ext4_nonda_switch \/ e.st = "written" \/ ~get
      bh == IF ~get THEN page[l].bh
            ELSE IF ~ext4_nonda_switch THEN ext4_da_map_blocks(l)
            ELSE IF e.st # "written" /\ nolock THEN "unwritten" ELSE "mapped"
      reserve == bh = "delay" /\ l \notin inode.delayed
  IN /\ ~MmapLocked /\ writes < MaxWrites /\ l < inode.size
     /\ call.op = "dio" => call.lblk # l
     /\ page[l].lock = Nobody
     /\ reserve => ext4_has_free_clusters
     /\ page' = [page EXCEPT ![l] = [@ EXCEPT !.bh = bh, !.dirty = TRUE, !.ver = @ + 1]]
     /\ \/ /\ now
           /\ inode' = IF reserve THEN [inode EXCEPT !.delayed = @ \cup {l}, !.reserved = @ + 1]
                       ELSE inode
           /\ UNCHANGED <<meta, platter>>
        \/ /\ ~now /\ ~locked
           /\ \E b \in Granted(l) :
                /\ meta' = [ext4_map_blocks(l, b, IF nolock THEN "unwritten" ELSE "written")
                            EXCEPT !.ahead = IF nolock \/ l < meta.disksize THEN @
                                             ELSE @ \cup {l}]
                /\ platter' = Contents(l, b)
           /\ inode' = ext4_update_inode_fsync_trans(inode, ~nolock)
     /\ writes' = writes + 1
     /\ UNCHANGED <<opts, locked, com, disk, ios, wb, call, sync, synced, calls>>

(* ext4_truncate_failed_write after ENOSPC for a block past the end of the    *)
(* file; ext4_write_begin first puts the inode on the orphan list.            *)
write_fails(l) ==
  /\ ~Locked /\ writes < MaxWrites /\ ~locked
  /\ page[l].bh = "none" /\ page[l].lock = Nobody /\ meta.ext[l].st = "hole"
  /\ IF ext4_nonda_switch THEN Granted(l) = {} ELSE ~ext4_has_free_clusters
  /\ l + 1 > inode.size
  /\ call' = [op |-> "truncate", pc |-> "pagecache", lblk |-> inode.size]
  /\ meta' = [meta EXCEPT !.orphan = @ \/ ext4_nonda_switch]
  /\ UNCHANGED <<opts, inode, locked, com, disk, page, ios, wb, sync, platter,
                 synced, writes, calls>>

(* ext4_da_map_blocks has reserved a cluster when ext4_es_insert_extent finds *)
(* no memory for the delayed block: the write or the fault fails and nobody   *)
(* gives the cluster back.                                                    *)
da_map_blocks_nomem(l) ==
  LET past == l + 1 > inode.size
  IN /\ setup.nomem /\ writes < MaxWrites
     /\ IF past THEN ~Locked /\ ~locked ELSE ~MmapLocked
     /\ page[l].bh = "none" /\ page[l].lock = Nobody
     /\ ext4_da_map_blocks(l) = "delay" /\ l \notin inode.delayed
     /\ ~ext4_nonda_switch /\ ext4_has_free_clusters
     /\ inode' = [inode EXCEPT !.reserved = @ + 1, !.leaked = @ + 1]
     /\ call' = IF past THEN [op |-> "truncate", pc |-> "pagecache", lblk |-> inode.size]
                ELSE call
     /\ UNCHANGED <<opts, meta, locked, com, disk, page, ios, wb, sync, platter, synced,
                    writes, calls>>

-----------------------------------------------------------------------------
(* ext4_writepages.  `first` is mpd.first_page, `next` the page to look at,   *)
(* [first, first + len) the pages locked because they need mapping, `done`    *)
(* how many of them have been mapped, `map` mpd.do_map: the handle is open.   *)

At(p) == wb[p].pc
Set(p, r) == wb' = [wb EXCEPT ![p] = r]

(* The call: WB_SYNC_ALL tags the dirty pages so that it ends although others *)
(* dirty more of them; the flusher takes every dirty page.  Nothing is done   *)
(* when no page of the file is dirty.                                         *)
StartWriteback(p, all, from, to) ==
  /\ At(p) = "idle"
  /\ page' = [l \in Blocks |->
       IF all /\ l \in from .. to /\ page[l].dirty
       THEN [page[l] EXCEPT !.towrite = TRUE] ELSE page[l]]
  /\ Set(p, IF \E l \in Blocks : page[l].dirty
            THEN [IdleWb EXCEPT !.pc = "scan", !.all = all, !.first = from, !.last = to,
                                !.next = from]
            ELSE IdleWb)

(* Mutant: the page with the last byte of the file is taken to be behind it.  *)
bio_skips_last_page(pg, l, size) ==
  IF l + 1 >= size \/ pg.bh \in {"delay", "unwritten", "none"}
  THEN [pg EXCEPT !.dirty = FALSE, !.towrite = FALSE, !.lock = Nobody]
  ELSE [pg EXCEPT !.dirty = FALSE, !.towrite = FALSE, !.lock = Nobody, !.wb = TRUE]

(* ext4_bio_write_page: a page that starts where the file ends is not written *)
(* (a truncate is about to drop it); neither is one that still needs mapping. *)
ext4_bio_write_page(pg, l, size) ==
  IF l = size \/ pg.bh \in {"delay", "unwritten", "none"}
  THEN [pg EXCEPT !.dirty = FALSE, !.towrite = FALSE, !.lock = Nobody]
  ELSE [pg EXCEPT !.dirty = FALSE, !.towrite = FALSE, !.lock = Nobody, !.wb = TRUE]

(* An io_end: its range, its bios still in flight (with the contents that was *)
(* in the page), whether it converts, whether the submitter holds it.         *)
IoEnd(range, pgs, unwritten, held) ==
  [range |-> range, bios |-> {l \in range : pgs[l].wb},
   todo |-> {<<l, pgs[l].ver>> : l \in {k \in range : pgs[k].wb}},
   unwritten |-> unwritten, held |-> held]

(* mpage_prepare_extent_to_map: the next page with the tag.                   *)
tagged(p) == {l \in wb[p].next .. wb[p].last :
                IF wb[p].all THEN page[l].towrite ELSE page[l].dirty}

ScanEnds(p) == tagged(p) # {} => wb[p].len > 0 /\ Min(tagged(p)) # wb[p].first + wb[p].len

(* An extent to map has been found: mpage_map_and_submit_extent.              *)
Mapping(p) == At(p) = "map" \/ (At(p) = "scan" /\ ScanEnds(p) /\ wb[p].len > 0)

(* One page of the scan: it is locked (and waited for if under writeback and  *)
(* this is no background writeback), skipped when not dirty any more, else    *)
(* mpage_process_page_bufs and mpage_add_bh_to_extent decide about it.        *)
mpage_prepare_extent_to_map(p) ==
  LET w == wb[p]
      l == Min(tagged(p))
      skip == ~page[l].dirty \/ (page[l].wb /\ ~w.all)
      inside == l < inode.size
      needs == page[l].bh \in {"delay", "unwritten"}
      joins == inside /\ needs /\ w.map
               /\ (w.len = 0 \/ page[l].bh = page[w.first].bh)
      first == IF w.len = 0 THEN l ELSE w.first
      submits == w.len = 0 /\ IF inside THEN ~needs ELSE w.map
      pg == [page EXCEPT ![l] = ext4_bio_write_page(@, l, inode.size)]
  IN /\ At(p) = "scan" /\ ~ScanEnds(p)
     /\ page[l].lock = Nobody
     /\ \/ /\ skip
           /\ Set(p, [w EXCEPT !.next = l + 1])
           /\ UNCHANGED <<page, ios>>
        \/ /\ ~skip /\ ~page[l].wb /\ joins
           /\ Set(p, [w EXCEPT !.first = first, !.len = @ + 1, !.next = l + 1,
                               !.pc = IF l + 1 < inode.size THEN "scan" ELSE "map"])
           /\ page' = [page EXCEPT ![l].lock = p]
           /\ UNCHANGED ios
        \/ /\ ~skip /\ ~page[l].wb /\ ~joins /\ submits
           /\ page' = pg
           /\ ios' = IF pg[l].wb THEN ios \cup {IoEnd({l}, pg, FALSE, Nobody)} ELSE ios
           /\ Set(p, [w EXCEPT !.first = l + 1, !.next = l + 1,
                               !.pc = IF l + 1 < inode.size THEN "scan" ELSE "out"])
        \/ /\ ~skip /\ ~page[l].wb /\ ~joins /\ ~submits
           /\ Set(p, [w EXCEPT !.first = first, !.pc = IF w.len > 0 THEN "map" ELSE "out"])
           /\ page' = IF w.len > 0 THEN [page EXCEPT ![l].lock = p] ELSE page
           /\ UNCHANGED ios
     /\ UNCHANGED <<opts, inode, meta, locked, com, disk, call, sync, platter,
                    synced, writes, calls>>

(* Between two rounds: the first pass runs without a handle, every later one  *)
(* with one; a pass with a handle that found no extent is the last.           *)
ext4_writepages_round(p) ==
  LET w == wb[p]
  IN /\ At(p) = "out" \/ (At(p) = "scan" /\ ScanEnds(p) /\ w.len = 0)
     /\ \/ /\ ~w.map /\ w.first <= w.last /\ ~locked
           /\ Set(p, [w EXCEPT !.pc = "scan", !.map = TRUE, !.next = w.first])
        \/ /\ w.map \/ w.first > w.last
           /\ Set(p, IdleWb)
     /\ UNCHANGED <<opts, inode, meta, locked, com, disk, page, ios, call, sync,
                    platter, synced, writes, calls>>

(* mpage_map_one_extent and ext4_map_blocks: the pages in the same state from *)
(* the first on, as many as the allocator or the extent grants.  A reservation*)
(* is used up; an extent that will hold data at once puts the inode on the    *)
(* transaction's ordered list, for the pages are submitted below.             *)
mpage_map_one_extent(p) ==
  LET w == wb[p]
      old == meta.ext[w.first].st
      delayed == page[w.first].bh = "delay"
      same(n) == \A l \in w.first .. w.first + n - 1 : meta.ext[l].st = old
      new == IF nolock /\ old # "written" THEN "unwritten" ELSE "written"
  IN /\ Mapping(p)
     /\ \E n \in 1 .. w.len, f \in [Blocks -> Phys \cup {Unused}] :
          LET got == w.first .. w.first + n - 1
          IN /\ same(n)
             /\ \A l \in Blocks : l \notin got => f[l] = Unused
             /\ \A l \in got : IF old = "hole" THEN f[l] \in Allocatable
                               ELSE f[l] = meta.ext[l].pb
             /\ \A k, l \in got : f[k] = f[l] => k = l
             /\ meta' = [meta EXCEPT
                  !.ext = [l \in Blocks |-> IF l \in got THEN [st |-> new, pb |-> f[l]]
                                            ELSE @[l]],
                  !.ordered = IF old # "written" /\ new = "written"
                              THEN @ \cup {"wait"} ELSE @]
             /\ platter' = [b \in Phys |->
                  IF old = "hole" /\ \E l \in got : f[l] = b THEN NeverWritten
                  ELSE platter[b]]
             /\ inode' = ext4_update_inode_fsync_trans(
                  IF delayed THEN [inode EXCEPT !.reserved = @ - n, !.delayed = @ \ got]
                  ELSE inode, new = "written")
             /\ Set(p, [w EXCEPT !.pc = "submit", !.done = n])
     /\ UNCHANGED <<opts, locked, com, disk, page, ios, call, sync, synced, writes,
                    calls>>

(* ENOSPC: blocks freed but not committed come back after a commit.  With no  *)
(* free block at all the dirty pages are thrown away, in this round and in    *)
(* those that follow.                                                         *)
mpage_map_fails(p) ==
  /\ Mapping(p) /\ meta.ext[wb[p].first].st = "hole" /\ Allocatable = {}
  /\ Set(p, [wb[p] EXCEPT !.pc = "finish", !.err = TRUE,
                          !.give_up = @ \/ FreeClusters(meta) = 0])
  /\ UNCHANGED <<opts, inode, meta, locked, com, disk, page, ios, call, sync,
                 platter, synced, writes, calls>>

(* mpage_map_and_submit_buffers, one io_end for the extent: it is held until  *)
(* the handle is stopped.                                                     *)
mpage_map_and_submit_buffers(p) ==
  LET w == wb[p]
      got == w.first .. w.first + w.done - 1
      pg == [l \in Blocks |-> IF l \in got
             THEN ext4_bio_write_page([page[l] EXCEPT !.bh = "mapped"], l, inode.size)
             ELSE page[l]]
      unwritten == nolock /\ meta.ext[w.first].st = "unwritten"
      io == IoEnd(got, pg, unwritten, p)
  IN /\ At(p) = "submit"
     /\ page' = pg
     /\ ios' = ios \cup {io}
     /\ Set(p, [w EXCEPT !.pc = "disksize", !.first = @ + w.done, !.len = @ - w.done])
     /\ UNCHANGED <<opts, inode, meta, locked, com, disk, call, sync, platter,
                    synced, writes, calls>>

(* The end of mpage_map_and_submit_extent: i_disksize covers what has been    *)
(* submitted, but never more than i_size, which a truncate may have lowered.  *)
update_disksize(p) ==
  LET new == Smaller(wb[p].first, inode.size)
      grows == wb[p].first > meta.disksize /\ new > meta.disksize
  IN /\ At(p) = "disksize"
     /\ meta' = IF grows THEN [meta EXCEPT !.disksize = new] ELSE meta
     /\ inode' = IF grows THEN ext4_update_inode_fsync_trans(inode, TRUE) ELSE inode
     /\ Set(p, [wb[p] EXCEPT !.pc = "finish"])
     /\ UNCHANGED <<opts, locked, com, disk, page, ios, call, sync, platter, synced,
                    writes, calls>>

(* The pages that are locked but were not used are unlocked.  Giving up throws*)
(* them away, and their delayed state but not their reservations; a page that *)
(* no process has mapped stays tagged as dirty.                               *)
mpage_release_unused_pages(p) ==
  LET unused == {l \in Blocks : page[l].lock = p}
  IN IF wb[p].give_up
     THEN /\ \E mapped \in SUBSET unused :
               page' = [l \in Blocks |->
                 IF l \in unused
                 THEN [page[l] EXCEPT !.lock = Nobody, !.bh = "none",
                                      !.dirty = @ /\ l \notin mapped]
                 ELSE page[l]]
          /\ inode' = [inode EXCEPT !.delayed = @ \ unused,
                         !.leaked = @ + Cardinality(inode.delayed \cap unused)]
     ELSE /\ page' = [l \in Blocks |-> IF l \in unused THEN [page[l] EXCEPT !.lock = Nobody]
                                       ELSE page[l]]
          /\ UNCHANGED inode

(* End of a round: stop the handle, unlock the pages that were not used, drop *)
(* the reference to the io_end; after ENOSPC wait for a commit.               *)
ext4_writepages_stop(p) ==
  LET w == wb[p]
  IN /\ At(p) = "finish"
     /\ mpage_release_unused_pages(p)
     /\ ios' = {IF io.held = p THEN [io EXCEPT !.held = Nobody] ELSE io : io \in ios}
     /\ Set(p, [w EXCEPT !.map = FALSE, !.len = 0, !.done = 0, !.err = FALSE,
                         !.pc = IF w.err THEN "commit" ELSE "out",
                         !.tid = IF w.err THEN "run" ELSE "old"])
     /\ UNCHANGED <<opts, meta, locked, com, disk, call, sync, platter,
                    synced, writes, calls>>

(* jbd2_journal_force_commit_nested                                           *)
ext4_writepages_retry(p) ==
  /\ At(p) = "commit" /\ wb[p].tid = "old"
  /\ Set(p, [wb[p] EXCEPT !.pc = "out"])
  /\ UNCHANGED <<opts, inode, meta, locked, com, disk, page, ios, call, sync,
                 platter, synced, writes, calls>>

ext4_writepages(p) ==
  \/ mpage_prepare_extent_to_map(p)
  \/ ext4_writepages_round(p)
  \/ mpage_map_one_extent(p)
  \/ mpage_map_fails(p)
  \/ mpage_map_and_submit_buffers(p)
  \/ update_disksize(p)
  \/ ext4_writepages_stop(p)
  \/ ext4_writepages_retry(p)

(* The flusher thread starts on its own, for any range: it continues where it *)
(* stopped before and wraps around.                                           *)
flush_start ==
  /\ \E from \in {l \in Blocks : page[l].dirty} : StartWriteback(Flusher, FALSE, from, NBlocks - 1)
  /\ UNCHANGED <<opts, inode, meta, locked, com, disk, ios, call, sync, platter,
                 synced, writes, calls>>

-----------------------------------------------------------------------------
(* Completion of I/O.                                                         *)

EndWriteback(pgs, ls) == [l \in Blocks |-> IF l \in ls THEN [pgs[l] EXCEPT !.wb = FALSE]
                                           ELSE pgs[l]]

(* ext4_end_bio: the device has the data of the page at some time since the   *)
(* submission.  Pages of an io_end that converts stay under writeback.        *)
ext4_end_bio(io, t) ==
  LET l == t[1]
      rest == [io EXCEPT !.todo = @ \ {t}]
  IN /\ \E v \in {t[2], page[l].ver} :
          platter' = [platter EXCEPT ![meta.ext[l].pb].cache = v]
     /\ page' = IF io.unwritten THEN page ELSE EndWriteback(page, {l})
     /\ ios' = (ios \ {io}) \cup
               (IF rest.todo = {} /\ rest.held = Nobody /\ ~io.unwritten THEN {} ELSE {rest})
     /\ UNCHANGED <<opts, inode, meta, locked, com, disk, wb, call, sync, synced,
                    writes, calls>>

(* ext4_end_io from the conversion work queue, or ext4_put_io_end: converts   *)
(* with the handle reserved at submission, which may join a locked            *)
(* transaction, and only then ends the writeback of the pages.  Because       *)
(* IO_CONVERT_EXT includes CREATE, a hole in the range is allocated again.    *)
ext4_convert_unwritten_extents(io) ==
  LET holes == {l \in io.range : meta.ext[l].st = "hole"}
      got(f, l) == [st |-> IF f[l] = Unused THEN "hole" ELSE "unwritten", pb |-> f[l]]
  IN /\ io.todo = {} /\ io.held = Nobody
     /\ IF io.unwritten
        THEN /\ \E f \in [holes -> IF ext4_has_free_clusters /\ Allocatable # {}
                                   THEN Allocatable ELSE {Unused}] :
                  /\ \A k, l \in holes : k # l => f[k] # f[l]
                  /\ meta' = [meta EXCEPT !.ext = [l \in Blocks |->
                       IF l \in holes THEN got(f, l)
                       ELSE IF l \in io.range THEN [@[l] EXCEPT !.st = "written"] ELSE @[l]]]
                  /\ platter' = [b \in Phys |-> IF \E l \in holes : f[l] = b THEN NeverWritten
                                                ELSE platter[b]]
             /\ inode' = ext4_update_inode_fsync_trans(inode, TRUE)
             /\ page' = EndWriteback(page, io.bios)
        ELSE UNCHANGED <<meta, inode, page, platter>>
     /\ ios' = ios \ {io}
     /\ UNCHANGED <<opts, locked, com, disk, wb, call, sync, synced, writes, calls>>

(* Memory reclaim drops a clean page.                                         *)
reclaim_page(l) ==
  /\ page[l].bh # "none" /\ ~page[l].dirty /\ ~page[l].wb /\ page[l].lock = Nobody
  /\ page' = [page EXCEPT ![l] = [NoPage EXCEPT !.ver = page[l].ver]]
  /\ UNCHANGED <<opts, inode, meta, locked, com, disk, ios, wb, call, sync, platter,
                 synced, writes, calls>>

-----------------------------------------------------------------------------
(* Calls that hold i_rwsem.  Each handle lives for one step, except where the *)
(* code restarts it: there a commit may come between any two steps.           *)

SetCall(c) == call' = c
Rest == <<opts, locked, com, disk, ios, platter, writes>>

(* ext4_setattr up to the new sizes.  When the committing transaction waits   *)
(* for data of the file, the pages to be dropped are written out first.       *)
ext4_setattr(size) ==
  /\ call.pc = "idle" /\ calls < MaxCalls /\ size # inode.size
  /\ calls' = calls + 1
  /\ IF size < inode.size /\ com.ordered # {}
     THEN /\ StartWriteback(Caller, TRUE, size, NBlocks - 1)
          /\ SetCall([op |-> "truncate", pc |-> "ordered", lblk |-> size])
     ELSE /\ SetCall([op |-> "truncate", pc |-> "setsize", lblk |-> size])
          /\ UNCHANGED <<page, wb>>
  /\ UNCHANGED <<Rest, inode, meta, sync, synced>>

ext4_begin_ordered_truncate ==
  /\ call.pc = "ordered" /\ At(Caller) = "idle"
  /\ SetCall([call EXCEPT !.pc = "setsize"])
  /\ UNCHANGED <<Rest, inode, meta, page, wb, sync, synced, calls>>

(* Mutant: the file is not put on the orphan list.                            *)
setsize_no_orphan ==
  /\ call.pc = "setsize" /\ ~locked
  /\ meta' = [meta EXCEPT !.disksize = call.lblk]
  /\ inode' = ext4_update_inode_fsync_trans([inode EXCEPT !.size = call.lblk], TRUE)
  /\ SetCall(IF call.lblk < inode.size THEN [call EXCEPT !.pc = "pagecache"] ELSE IdleCall)
  /\ Forget(call.lblk .. NBlocks - 1)
  /\ UNCHANGED <<Rest, page, wb, calls>>

setattr_setsize ==
  LET shrink == call.lblk < inode.size
  IN /\ call.pc = "setsize" /\ ~locked
     /\ meta' = [meta EXCEPT !.disksize = call.lblk, !.orphan = @ \/ shrink]
     /\ inode' = ext4_update_inode_fsync_trans([inode EXCEPT !.size = call.lblk], TRUE)
     /\ SetCall(IF shrink THEN [call EXCEPT !.pc = "pagecache"] ELSE IdleCall)
     /\ Forget(call.lblk .. NBlocks - 1)
     /\ UNCHANGED <<Rest, page, wb, calls>>

(* ext4_invalidatepage: a reservation goes with the delayed block.            *)
Invalidate(l) ==
  /\ page[l].lock = Nobody /\ ~page[l].wb
  /\ page' = [page EXCEPT ![l] = NoPage]
  /\ inode' = IF page[l].bh = "delay" /\ l \in inode.delayed
              THEN [inode EXCEPT !.delayed = @ \ {l}, !.reserved = @ - 1] ELSE inode

(* truncate_inode_pages_range, one page after the other.                      *)
truncate_pagecache ==
  LET last == IF call.op = "truncate" THEN NBlocks - 1 ELSE call.lblk
      some == {l \in call.lblk .. last : page[l] # NoPage}
  IN /\ call.pc = "pagecache"
     /\ IF some # {}
        THEN /\ Invalidate(Min(some))
             /\ LET race == /\ call.op # "truncate"
                            /\ page[Min(some)].dirty /\ page[Min(some)].bh = "mapped"
                    why == IF race THEN {"range"} ELSE {}
                IN /\ meta' = [meta EXCEPT !.raced = @ \cup why]
                   /\ com' = [com EXCEPT !.raced = @ \cup why]
             /\ UNCHANGED call
        ELSE /\ SetCall([call EXCEPT !.pc = "blocks"])
             /\ UNCHANGED <<page, inode, meta, com>>
     /\ UNCHANGED <<opts, locked, disk, ios, platter, writes, wb, sync, synced, calls>>

(* A block is unmapped; `late` when an io_end will still convert it.          *)
Unmap(m, l) ==
  LET late == \E io \in ios : io.unwritten /\ l \in io.range
  IN [m EXCEPT !.freed = @ \cup ({m.ext[l].pb} \ {Unused}), !.ext[l] = Hole,
               !.ahead = @ \ {l},
               !.raced = @ \cup (IF late THEN {"late"} ELSE {})]

(* ext4_truncate and ext4_ext_truncate: the last block first; the handle may  *)
(* be restarted before each.                                                  *)
ext4_truncate ==
  LET gone == {l \in Mapped(meta) : l >= inode.size}
      m == [meta EXCEPT !.orphan = TRUE, !.disksize = inode.size]
  IN /\ call.pc = "blocks" /\ call.op = "truncate" /\ ~locked
     /\ IF gone # {}
        THEN meta' = Unmap(m, Max(gone)) /\ UNCHANGED call
        ELSE meta' = [m EXCEPT !.orphan = FALSE] /\ SetCall(IdleCall)
     /\ inode' = ext4_update_inode_fsync_trans(inode, meta'.disksize # meta.disksize)
     /\ UNCHANGED <<Rest, page, wb, sync, synced, calls>>

(* ext4_punch_hole writes out the range before it locks the inode.            *)
ext4_punch_hole(l) ==
  /\ call.pc = "idle" /\ calls < MaxCalls
  /\ calls' = calls + 1
  /\ IF \E k \in Blocks : page[k].dirty
     THEN /\ StartWriteback(Caller, TRUE, l, l)
          /\ SetCall([op |-> "punch", pc |-> "flush", lblk |-> l])
     ELSE /\ SetCall([op |-> "punch", pc |-> "flushed", lblk |-> l])
          /\ UNCHANGED <<page, wb>>
  /\ UNCHANGED <<Rest, inode, meta, sync, synced>>

punch_flushed ==
  /\ call.pc = "flush" /\ At(Caller) = "idle" /\ ~page[call.lblk].wb
  /\ SetCall([call EXCEPT !.pc = "flushed"])
  /\ UNCHANGED <<Rest, inode, meta, page, wb, sync, synced, calls>>

ext4_zero_range(l) ==
  /\ call.pc = "idle" /\ calls < MaxCalls
  /\ calls' = calls + 1
  /\ SetCall([op |-> "zero", pc |-> "flushed", lblk |-> l])
  /\ UNCHANGED <<Rest, inode, meta, page, wb, sync, synced>>

(* With the inode locked, ext4_update_disksize_before_punch: the pages about  *)
(* to go may be those whose writeback would have updated i_disksize.          *)
ext4_update_disksize_before_punch ==
  LET l == call.lblk
      needed == l <= inode.size /\ l + 1 >= inode.size /\ meta.disksize < inode.size
  IN /\ call.pc = "flushed"
     /\ IF call.op = "punch" /\ l >= inode.size
        THEN SetCall(IdleCall) /\ UNCHANGED <<inode, meta, sync, synced>>
        ELSE /\ needed => ~locked
             /\ meta' = IF needed THEN [meta EXCEPT !.disksize = inode.size] ELSE meta
             /\ inode' = IF needed THEN ext4_update_inode_fsync_trans(inode, TRUE) ELSE inode
             /\ SetCall([call EXCEPT !.pc = "pagecache"])
             /\ Forget({l})
     /\ UNCHANGED <<Rest, page, wb, calls>>

(* The end of ext4_punch_hole.                                                *)
punch_remove_space ==
  /\ call.pc = "blocks" /\ call.op = "punch" /\ ~locked
  /\ meta' = [Unmap(meta, call.lblk) EXCEPT !.raced = @ \ {"range"}]
  /\ inode' = ext4_update_inode_fsync_trans(inode, TRUE)
  /\ SetCall(IdleCall)
  /\ UNCHANGED <<Rest, page, wb, sync, synced, calls>>

(* ext4_alloc_file_blocks for one block: unwritten, or with `zero` made so.   *)
ext4_alloc_file_blocks(l, zero, keep) ==
  LET e == meta.ext[l]
      st == IF e.st = "written" /\ ~zero THEN "written" ELSE "unwritten"
      size == IF keep THEN inode.size ELSE Bigger(inode.size, l + 1)
      dsize == IF keep \/ l + 1 <= Smaller(inode.size, meta.disksize) THEN meta.disksize
               ELSE Bigger(meta.disksize, l + 1)
  IN /\ ~locked
     /\ \E b \in Granted(l) :
          /\ meta' = [ext4_map_blocks(l, b, st) EXCEPT !.disksize = dsize,
                                                       !.raced = @ \ {"range"}]
          /\ platter' = Contents(l, b)
     /\ inode' = ext4_update_inode_fsync_trans([inode EXCEPT !.size = size], TRUE)
     /\ UNCHANGED <<opts, locked, com, disk, ios, writes, page, wb, sync, synced>>

ext4_fallocate(l, keep) ==
  /\ call.pc = "idle" /\ calls < MaxCalls
  /\ calls' = calls + 1
  /\ ext4_alloc_file_blocks(l, FALSE, keep)
  /\ UNCHANGED call

zero_range_alloc(keep) ==
  /\ call.pc = "blocks" /\ call.op = "zero"
  /\ ext4_alloc_file_blocks(call.lblk, TRUE, keep)
  /\ SetCall(IdleCall)
  /\ UNCHANGED calls

(* ... or there is no space for the block.                                    *)
zero_range_fails ==
  /\ call.pc = "blocks" /\ call.op = "zero" /\ Granted(call.lblk) = {}
  /\ SetCall(IdleCall)
  /\ UNCHANGED <<Rest, inode, meta, page, wb, sync, synced, calls>>

(* A direct write of one block, with i_rwsem held to the end.                 *)
(* generic_file_direct_write writes out and drops the page;                   *)
ext4_direct_IO(l) ==
  /\ call.pc = "idle" /\ calls < MaxCalls
  /\ calls' = calls + 1
  /\ StartWriteback(Caller, TRUE, l, l)
  /\ SetCall([op |-> "dio", pc |-> "start", lblk |-> l])
  /\ UNCHANGED <<Rest, inode, meta, sync, synced>>

(* then ext4_direct_IO_write: a write past either size puts the file on the   *)
(* orphan list first.  A page that was dirtied again means a buffered write.  *)
ext4_direct_IO_write ==
  LET l == call.lblk
      past == l + 1 > Smaller(inode.size, meta.disksize)
  IN /\ call.op = "dio" /\ call.pc = "start" /\ At(Caller) = "idle"
     /\ page[l].lock = Nobody /\ ~page[l].wb
     /\ IF page[l].dirty
        THEN SetCall(IdleCall) /\ UNCHANGED <<meta, inode, page>>
        ELSE /\ past => ~locked
             /\ meta' = IF past THEN [meta EXCEPT !.orphan = TRUE,
                                                  !.disksize = Bigger(@, inode.size)]
                        ELSE meta
             /\ inode' = IF past THEN ext4_update_inode_fsync_trans(inode, FALSE) ELSE inode
             /\ page' = [page EXCEPT ![l] = [NoPage EXCEPT !.ver = page[l].ver]]
             /\ SetCall([call EXCEPT !.pc = IF past THEN "extend" ELSE "block"])
     /\ UNCHANGED <<Rest, wb, sync, synced, calls>>

(* ext4_dio_get_block behind i_size, else ext4_dio_get_block_unwritten_sync.  *)
dio_get_block ==
  LET l == call.lblk
      e == meta.ext[l]
      st == IF e.st = "written" \/ l >= inode.size THEN "written" ELSE "unwritten"
  IN /\ call.op = "dio" /\ call.pc \in {"extend", "block"} /\ ~locked
     /\ \E b \in Granted(l) :
          /\ meta' = ext4_map_blocks(l, b, st)
          /\ platter' = Contents(l, b)
     /\ inode' = IF st # e.st THEN ext4_update_inode_fsync_trans(inode, st = "written") ELSE inode
     /\ SetCall([call EXCEPT !.pc = IF call.pc = "extend" THEN "extend_io" ELSE "io"])
     /\ UNCHANGED <<opts, locked, com, disk, ios, writes, page, wb, sync, synced, calls>>

(* ... or there is no space: ext4_truncate_failed_write when it extended.     *)
dio_fails ==
  /\ call.op = "dio" /\ call.pc \in {"extend", "block"} /\ Granted(call.lblk) = {}
  /\ IF call.lblk + 1 > inode.size
     THEN SetCall([op |-> "truncate", pc |-> "pagecache", lblk |-> inode.size]) /\ UNCHANGED meta
     ELSE /\ call.pc = "extend" => ~locked
          /\ meta' = IF call.pc = "extend" THEN [meta EXCEPT !.orphan = FALSE] ELSE meta
          /\ SetCall(IdleCall)
  /\ UNCHANGED <<Rest, inode, page, wb, sync, synced, calls>>

(* The data is on the device; ext4_convert_unwritten_extents.                 *)
dio_convert ==
  LET l == call.lblk
      v == page[l].ver + 1
      convert == meta.ext[l].st = "unwritten"
  IN /\ call.op = "dio" /\ call.pc \in {"extend_io", "io"}
     /\ convert => ~locked
     /\ platter' = [platter EXCEPT ![meta.ext[l].pb].cache = v]
     /\ page' = [page EXCEPT ![l].ver = v]
     /\ meta' = [meta EXCEPT !.ext[l].st = "written"]
     /\ inode' = IF convert THEN ext4_update_inode_fsync_trans(inode, TRUE) ELSE inode
     /\ SetCall(IF call.pc = "io" THEN IdleCall ELSE [call EXCEPT !.pc = "end"])
     /\ UNCHANGED <<opts, locked, com, disk, ios, writes, wb, sync, synced, calls>>

(* The end: the new sizes and the end of the orphan in one transaction.       *)
dio_end ==
  LET end == call.lblk + 1
  IN /\ call.op = "dio" /\ call.pc = "end" /\ ~locked
     /\ meta' = [meta EXCEPT !.orphan = FALSE, !.disksize = Bigger(@, end)]
     /\ inode' = ext4_update_inode_fsync_trans([inode EXCEPT !.size = Bigger(@, end)], TRUE)
     /\ SetCall(IdleCall)
     /\ UNCHANGED <<Rest, page, wb, sync, synced, calls>>

-----------------------------------------------------------------------------
(* fsync and fdatasync.                                                       *)

(* A call is about to drop what block l holds.                                *)
Going(l) == \/ l >= inode.size
            \/ call.op \in {"punch", "zero"} /\ call.pc \in {"pagecache", "blocks"} /\ call.lblk = l

ext4_sync_file(datasync) ==
  /\ sync.pc = "idle" /\ calls < MaxCalls
  /\ calls' = calls + 1
  /\ StartWriteback(Fsync, TRUE, 0, NBlocks - 1)
  /\ sync' = [pc |-> "write", datasync |-> datasync, at |-> 0, tid |-> "old", barrier |-> FALSE,
              want |-> [l \in Blocks |-> IF Going(l) THEN 0 ELSE page[l].ver]]
  /\ UNCHANGED <<Rest, inode, meta, call, synced>>

(* file_write_and_wait_range, then the transaction to wait for.               *)
sync_wait ==
  /\ sync.pc = "write" /\ At(Fsync) = "idle"
  /\ ~page[sync.at].wb
  /\ sync' = IF sync.at + 1 < NBlocks THEN [sync EXCEPT !.at = @ + 1]
             ELSE [sync EXCEPT !.pc = "tid",
                               !.tid = IF sync.datasync THEN inode.datasync ELSE inode.sync]
  /\ UNCHANGED <<Rest, inode, meta, call, page, wb, synced, calls>>

(* Unless the commit still has to flush the device, the call does (mounted    *)
(* with barrier, and the journal on the same device).                         *)
jbd2_trans_will_send_data_barrier ==
  sync.tid = "run" \/ (sync.tid = "com" /\ com.st # "jflush")

sync_barrier ==
  /\ sync.pc = "tid"
  /\ sync' = [sync EXCEPT !.pc = "commit", !.barrier = ~jbd2_trans_will_send_data_barrier]
  /\ UNCHANGED <<Rest, inode, meta, call, page, wb, synced, calls>>

SyncReturns ==
  /\ sync.pc = "commit" /\ sync.tid = "old"
  /\ synced' = [l \in Blocks |-> Bigger(synced[l], sync.want[l])]
  /\ sync' = IdleSync
  /\ UNCHANGED <<opts, locked, com, disk, ios, writes, inode, meta, call, page, wb, calls>>

(* Mutant: the device is not flushed.                                         *)
sync_done_no_flush == SyncReturns /\ UNCHANGED platter

(* jbd2_complete_transaction, blkdev_issue_flush, and the call returns.       *)
sync_done == SyncReturns /\ platter' = IF sync.barrier THEN Flushed ELSE platter

-----------------------------------------------------------------------------
(* Commits: jbd2, as ext4 uses it.                                            *)

commit_lock ==
  /\ com.st = "none" /\ ~locked
  /\ \/ inode.sync = "run"
     \/ meta # [disk EXCEPT !.raced = meta.raced, !.ahead = meta.ahead]
     \/ \E p \in Procs : wb[p].tid = "run"
  /\ locked' = TRUE
  /\ UNCHANGED <<opts, inode, meta, com, disk, ios, platter, writes, page, wb, call, sync,
                 synced, calls>>

Aged(t, from, to) == IF t = from THEN to ELSE t

(* No handle is open any more: a new transaction begins to run.               *)
commit_switch ==
  /\ locked /\ OpenHandles = {}
  /\ locked' = FALSE
  /\ com' = [st |-> "submit", ext |-> meta.ext, disksize |-> meta.disksize,
             orphan |-> meta.orphan, freed |-> meta.freed, ordered |-> meta.ordered, at |-> 0,
             ahead |-> {l \in meta.ahead : l >= meta.disksize},
             raced |-> meta.raced \cup (IF call.pc \in {"ordered", "setsize"} /\ meta.ordered # {}
                                      THEN {"size"} ELSE {})]
  /\ meta' = [meta EXCEPT !.freed = {}, !.ordered = {},
                          !.ahead = {l \in @ : l >= meta.disksize}]
  /\ inode' = [inode EXCEPT !.sync = Aged(@, "run", "com"), !.datasync = Aged(@, "run", "com")]
  /\ sync' = [sync EXCEPT !.tid = Aged(@, "run", "com")]
  /\ wb' = [p \in Procs |-> [wb[p] EXCEPT !.tid = Aged(@, "run", "com")]]
  /\ UNCHANGED <<opts, disk, ios, platter, writes, page, call, synced, calls>>

Advance(st) == com' = IF com.at + 1 < NBlocks THEN [com EXCEPT !.at = @ + 1]
                      ELSE [com EXCEPT !.at = 0, !.st = st]

(* journal_submit_data_buffers and ext4_writepage: the mapped dirty pages of  *)
(* a file that write(2) has put on the ordered list.                          *)
submit_data ==
  LET l == com.at
      pg == [page EXCEPT ![l] = ext4_bio_write_page(@, l, inode.size)]
      submit == page[l].dirty /\ page[l].bh = "mapped" /\ l <= inode.size
  IN /\ com.st = "submit"
     /\ IF "write" \notin com.ordered
        THEN com' = [com EXCEPT !.st = "wait"] /\ UNCHANGED <<page, ios>>
        ELSE /\ page[l].dirty => page[l].lock = Nobody /\ ~page[l].wb
             /\ page' = IF submit THEN pg ELSE page
             /\ ios' = IF submit /\ pg[l].wb THEN ios \cup {IoEnd({l}, pg, FALSE, Nobody)}
                       ELSE ios
             /\ Advance("wait")
     /\ UNCHANGED <<opts, inode, meta, locked, disk, platter, writes, wb, call, sync, synced,
                    calls>>

(* Mutant: only data that the commit itself has submitted is waited for.      *)
wait_for_own_data ==
  /\ com.st = "wait"
  /\ IF "write" \notin com.ordered
     THEN com' = [com EXCEPT !.st = "log", !.at = 0]
     ELSE ~page[com.at].wb /\ Advance("log")
  /\ UNCHANGED <<opts, inode, meta, locked, disk, ios, platter, writes, page, wb, call, sync,
                 synced, calls>>

(* journal_finish_inode_data_buffers: the pages under writeback.              *)
wait_for_data ==
  /\ com.st = "wait"
  /\ IF com.ordered = {}
     THEN com' = [com EXCEPT !.st = "log", !.at = 0]
     ELSE ~page[com.at].wb /\ Advance("log")
  /\ UNCHANGED <<opts, inode, meta, locked, disk, ios, platter, writes, page, wb, call, sync,
                 synced, calls>>

(* T_COMMIT_JFLUSH: the commit block is written behind a flush of the device; *)
commit_flush ==
  /\ com.st = "log"
  /\ com' = [com EXCEPT !.st = "jflush"]
  /\ platter' = Flushed
  /\ UNCHANGED <<opts, inode, meta, locked, disk, ios, writes, page, wb, call, sync, synced,
                 calls>>

(* it is on disk, and freed blocks may be used again.                         *)
commit_done ==
  /\ com.st = "jflush"
  /\ disk' = [ext |-> com.ext, disksize |-> com.disksize, orphan |-> com.orphan,
              freed |-> {}, ordered |-> {}, raced |-> com.raced, ahead |-> com.ahead]
  /\ com' = NoCommit
  /\ inode' = [inode EXCEPT !.sync = Aged(@, "com", "old"), !.datasync = Aged(@, "com", "old")]
  /\ sync' = [sync EXCEPT !.tid = Aged(@, "com", "old")]
  /\ wb' = [p \in Procs |-> [wb[p] EXCEPT !.tid = Aged(@, "com", "old")]]
  /\ UNCHANGED <<opts, meta, locked, ios, platter, writes, page, call, synced, calls>>

-----------------------------------------------------------------------------
(* An allocation for another file: nothing keeps ext4_claim_free_clusters from*)
(* adding to the dirty clusters after the check has become stale.             *)
rival_check ==
  /\ setup.rival /\ rival = "idle" /\ ext4_has_free_clusters
  /\ rival' = "checked"
  /\ UNCHANGED <<setup, others, inode, meta, locked, com, disk, page, ios, wb, call, sync,
                 platter, synced, writes, calls>>

rival_alloc ==
  /\ rival = "checked"
  /\ IF Allocatable = {} THEN rival' = "done" /\ UNCHANGED others
     ELSE /\ rival' = IF ext4_has_free_clusters THEN "done" ELSE "overtook"
          /\ \E b \in Allocatable : others' = others \cup {b}
  /\ UNCHANGED <<setup, inode, meta, locked, com, disk, page, ios, wb, call, sync, platter,
                 synced, writes, calls>>

-----------------------------------------------------------------------------

Write == \E l \in Blocks : ext4_da_write(l) \/ ext4_write(l) \/ write_fails(l)
                           \/ ext4_page_mkwrite(l) \/ da_map_blocks_nomem(l)

Calls ==
  \/ "truncate" \in ops /\ \E size \in 0 .. NBlocks : ext4_setattr(size)
  \/ "punch" \in ops /\ \E l \in Blocks : ext4_punch_hole(l)
  \/ "zero" \in ops /\ \E l \in Blocks : ext4_zero_range(l)
  \/ "dio" \in ops /\ \E l \in Blocks : ext4_direct_IO(l)
  \/ "falloc" \in ops /\ \E l \in Blocks, keep \in BOOLEAN : ext4_fallocate(l, keep)
  \/ "fsync" \in ops /\ \E datasync \in setup.datasync : ext4_sync_file(datasync)

CallSteps ==
  \/ ext4_begin_ordered_truncate \/ setattr_setsize \/ truncate_pagecache \/ ext4_truncate
  \/ punch_flushed \/ ext4_update_disksize_before_punch \/ punch_remove_space
  \/ \E keep \in BOOLEAN : zero_range_alloc(keep)
  \/ zero_range_fails
  \/ ext4_direct_IO_write \/ dio_get_block \/ dio_fails \/ dio_convert \/ dio_end

Io == \E io \in ios :
  \/ \E t \in io.todo : ext4_end_bio(io, t)
  \/ ext4_convert_unwritten_extents(io)

Commit == commit_lock \/ commit_switch \/ submit_data \/ wait_for_data
          \/ commit_flush \/ commit_done

(* The bounded number of calls is over and nothing is under way.              *)
Quiet ==
  /\ calls = MaxCalls /\ call.pc = "idle" /\ sync.pc = "idle" /\ ios = {}
  /\ \A p \in Procs : At(p) = "idle"
  /\ com.st = "none" /\ ~locked
  /\ UNCHANGED vars

Next ==
  \/ Quiet
  \/ Write \/ Calls \/ CallSteps \/ Io \/ Commit \/ flush_start
  \/ \E p \in Procs : ext4_writepages(p)
  \/ \E l \in Blocks : reclaim_page(l)
  \/ sync_wait \/ sync_barrier \/ sync_done
  \/ rival_check \/ rival_alloc

Spec == Init /\ [][Next]_vars

-----------------------------------------------------------------------------
(* Properties.  A crash is no action: what it would leave is what disk and    *)
(* platter hold, and the properties look at that in every state.              *)

(* data=ordered: a file that a crash leaves never shows what a block held     *)
(* before it was allocated to the file.  Excepted (raced) are three windows:  *)
(* a commit starts between ext4_begin_ordered_truncate and the handle of a    *)
(* truncate ("size"); a commit ends between the page and the block that are   *)
(* dropped by a punch or a zeroing ("range"); and a block is truncated while  *)
(* an io_end will still convert it ("late").                                  *)
NoStaleData ==
  disk.raced = {} => \A l \in Blocks : l < disk.disksize /\ disk.ext[l].st = "written"
                      => platter[disk.ext[l].pb].medium # Stale

(* Blocks behind the end of the file that a crash would leave are unwritten,  *)
(* or recovery truncates the file because it is on the orphan list: no later  *)
(* extension of the file shows them.  Excepted is the conversion of a block   *)
(* that was truncated and allocated anew before an io_end came to it, and the *)
(* block that ext4_page_mkwrite allocates, when space is scarce, between      *)
(* i_disksize and an i_size that a delayed write has moved ahead of it.       *)
TailCovered ==
  ~disk.orphan /\ "late" \notin disk.raced
  => \A l \in Blocks \ disk.ahead : l >= disk.disksize => disk.ext[l].st # "written"

(* What was written before an fsync or fdatasync that has returned is on the  *)
(* medium and what a crash leaves, or something that was written later is; it *)
(* was not thrown away for lack of space, see ReservationsExact.              *)
FsyncDurable ==
  rival # "overtook" =>
    \A l \in Blocks : synced[l] > 0 =>
      /\ l < disk.disksize /\ disk.ext[l].st = "written"
      /\ platter[disk.ext[l].pb].medium >= synced[l]

(* The clusters reserved are one for each delayed block, and the ones that    *)
(* were lost with a delayed block: when memory was short in                   *)
(* ext4_da_map_blocks, or by writeback that has given up.  There is a free one*)
(* for each, and the message "This should not happen!! Data will be lost" of  *)
(* mpage_map_and_submit_extent is never printed, unless an allocation for     *)
(* another file has taken a cluster after its check had become stale          *)
(* (ext4_claim_free_clusters checks and adds without a lock).                 *)
ReservationsExact ==
  /\ inode.reserved = Cardinality(inode.delayed) + inode.leaked
  /\ rival # "overtook" =>
       /\ inode.reserved <= FreeClusters(meta)
       /\ \A p \in Procs : ~wb[p].give_up

(* No write is lost in memory: the last write to a block of the file is in a  *)
(* dirty page, under way to the disk, or in the block that is mapped there;   *)
(* it was not thrown away for lack of space, see ReservationsExact.           *)
WritesKept ==
  rival # "overtook" =>
    \A l \in Blocks : l < inode.size /\ page[l].ver > 0 =>
      \/ page[l].dirty
      \/ \E io \in ios : <<l, page[l].ver>> \in io.todo
      \/ meta.ext[l].st # "hole" /\ platter[meta.ext[l].pb].cache = page[l].ver

(* The comment above ext4_end_io: a truncate cannot get to the extents of a   *)
(* range before all I/O that overlaps the range is completed, its conversion  *)
(* included.  It does: a page that a truncate has just put behind the end of  *)
(* the file ends its writeback at once, and its io_end converts later.        *)
TruncateWaitsForConversion ==
  [][\A l \in Mapped(meta) : meta'.ext[l].st = "hole"
       => ~\E io \in ios : io.unwritten /\ l \in io.range]_vars

=============================================================================
