--------------------------- MODULE OrphanProofs ----------------------------
(***************************************************************************)
(* The orphan list for any number of inodes, blocks, processes and crashes.*)
(* Whatever handles are refused: types, link counts and the in-memory list.*)
(* As long as none is refused: the chain on the disk, which mirrors that   *)
(* list, holds every inode that needs recovery, and is worked off by it.   *)
(***************************************************************************)
EXTENDS OrphanChain, FiniteSetTheorems

-----------------------------------------------------------------------------
(* The theorems.                                                           *)

\* The inductive invariant holds for any number of inodes, processes, blocks,
\* links and crashes, whatever calls are issued and fail.
THEOREM BaseInvariant == Spec => []BaseInv
<1>1. BaseInv /\ [Next]_vars => BaseInv'
  BY BaseNext, Zenon
<1> QED BY <1>1, BaseInit, PTL DEF Spec

\* Type correctness.
THEOREM OrphanTypes == Spec => []TypeOK
<1>1. BaseInv => TypeOK
  BY Zenon DEF BaseInv
<1> QED BY <1>1, BaseInvariant, PTL

\* The link count of an inode on the disk is the number of its committed
\* directory entries: namei.c changes both in one handle.
THEOREM LinkCountsCommitted == Spec => []CommittedLinkCounts
<1>1. BaseInv => CommittedLinkCounts
  BY Zenon DEF BaseInv, DiskInv, CommittedLinkCounts
<1> QED BY <1>1, BaseInvariant, PTL

\* No inode leaves memory while it is on the list: the check of
\* ext4_destroy_inode() never fires.
THEOREM NoInodeDangles == Spec => []NoDanglingOrphan
<1>1. BaseInv => NoDanglingOrphan
  <2> SUFFICES ASSUME BaseInv, NEW k \in DOMAIN orphan
               PROVE  orphan[k] \in cached
    BY Zenon DEF NoDanglingOrphan, ToSet
  <2>1. orphan \in Seq(Ino) /\ k \in 1 .. Len(orphan)
    BY DEF BaseInv, TypeOK
  <2>2. orphan[k] \in Ino /\ OnList(orphan[k])
    BY <2>1, SMTT(30) DEF OnList, Contains
  <2> QED BY <2>2, Zenon DEF BaseInv, ListInv
<1> QED BY <1>1, BaseInvariant, PTL

\* The assertion of ext4_put_super() that the list is empty holds.
THEOREM ListEmptyAtUmount == Spec => []OrphanListEmptyAtUmount
<1>1. BaseInv => OrphanListEmptyAtUmount
  <2> SUFFICES ASSUME BaseInv, mode = "unmounted" PROVE orphan = <<>>
    BY Zenon DEF OrphanListEmptyAtUmount
  <2>1. orphan \in Seq(Ino) /\ AllIdle
    BY Zenon DEF BaseInv, TypeOK, ModeInv
  <2>2. \A i \in Ino : ~OnList(i)
    BY <2>1, NobodyBusy, Zenon DEF BaseInv, ListInv
  <2>3. ASSUME orphan # <<>> PROVE FALSE
    <3>1. 1 \in 1 .. Len(orphan) /\ orphan[1] \in Ino
      BY <2>1, <2>3, SMTT(30)
    <3> QED BY <2>2, <3>1, Zenon DEF OnList, Contains
  <2> QED BY <2>3, Zenon
<1> QED BY <1>1, BaseInvariant, PTL

\* A file system that is not mounted has everything committed: ext4_put_super()
\* writes the journal out and nothing but a mount follows it.
CleanWhenUnmounted == mode = "unmounted" => disk = buf

LEMMA OnlyMount ==
  ASSUME BaseInv, Next, mode = "unmounted"
  PROVE  ext4_fill_super
<1>1. \A p \in Procs : proc[p].pc = "idle"
  BY Zenon DEF BaseInv, ModeInv, AllIdle
<1>2. ASSUME NEW p \in Procs, Step(p) PROVE FALSE
  BY <1>1, <1>2, Zenon DEF Step, ext4_orphan_add, orphan_add_dirty, ext4_orphan_del,
     orphan_del_dirty, page_symlink, symlink_link, ext4_add_nondir, close_handle,
     dio_transfer, dio_end, dio_set_size, ext4_truncate, truncate_blocks,
     ext4_truncate_restart_trans, truncate_stop, after_truncate,
     ext4_evict_inode, ext4_free_inode
<1>3. ASSUME NEW p \in Procs, NEW i \in Ino, SystemCall(p, i) \/ iput(p, i)
      PROVE  FALSE
  BY <1>3, Zenon DEF SystemCall, MayCall, ext4_create, ext4_tmpfile, ext4_unlink,
     ext4_rename, ext4_link, ext4_symlink, ext4_write_end, ext4_write_begin,
     ext4_setattr, ext4_direct_IO_write, open_file, close_file, iput
<1>4. ASSUME NEW p \in Procs, ext4_orphan_cleanup(p) PROVE FALSE
  BY <1>4, Zenon DEF ext4_orphan_cleanup
<1>5. ~jbd2_commit /\ ~Crash /\ ~mount_done /\ ~ext4_put_super
  BY Zenon DEF jbd2_commit, Crash, mount_done, ext4_put_super
<1> QED BY <1>2, <1>3, <1>4, <1>5, Zenon DEF Next

LEMMA OnlyUmount ==
  ASSUME Next, mode # "unmounted", mode' = "unmounted"
  PROVE  ext4_put_super
<1>1. ASSUME NEW p \in Procs, Step(p) \/ ext4_orphan_cleanup(p) PROVE FALSE
  BY <1>1, Zenon DEF Step, ext4_orphan_add, orphan_add_dirty, ext4_orphan_del,
     orphan_del_dirty, page_symlink, symlink_link, ext4_add_nondir, close_handle,
     dio_transfer, dio_end, dio_set_size, ext4_truncate, truncate_blocks,
     ext4_truncate_restart_trans, truncate_stop, after_truncate,
     ext4_evict_inode, ext4_free_inode, ext4_orphan_cleanup
<1>2. ASSUME NEW p \in Procs, NEW i \in Ino, SystemCall(p, i) \/ iput(p, i)
      PROVE  FALSE
  BY <1>2, Zenon DEF SystemCall, ext4_create, ext4_tmpfile, ext4_unlink,
     ext4_rename, ext4_link, ext4_symlink, ext4_write_end, ext4_write_begin,
     ext4_setattr, ext4_direct_IO_write, open_file, close_file, iput
<1>3. ~jbd2_commit /\ ~Crash /\ ~mount_done /\ ~ext4_fill_super
  BY Zenon DEF jbd2_commit, Crash, mount_done, ext4_fill_super, mount_from_disk
<1> QED BY <1>1, <1>2, <1>3, Zenon DEF Next

LEMMA UnmountedClean == Spec => []CleanWhenUnmounted
<1>1. Init => CleanWhenUnmounted
  BY Zenon DEF Init, CleanWhenUnmounted
<1>2. ASSUME BaseInv, CleanWhenUnmounted, [Next]_vars
      PROVE  CleanWhenUnmounted'
  <2>1. CASE Next /\ mode = "unmounted"
    BY <1>2, <2>1, OnlyMount, Zenon
       DEF ext4_fill_super, mount_from_disk, CleanWhenUnmounted
  <2>2. CASE Next /\ mode # "unmounted" /\ mode' = "unmounted"
    BY <2>2, OnlyUmount, Zenon DEF ext4_put_super, CleanWhenUnmounted
  <2>3. CASE UNCHANGED vars
    BY <1>2, <2>3, Zenon DEF vars, CleanWhenUnmounted
  <2> QED BY <1>2, <2>1, <2>2, <2>3, Zenon DEF CleanWhenUnmounted
<1> QED BY <1>1, <1>2, BaseInvariant, PTL DEF Spec

\* Inodes become unused in ext4_free_inode() and in a crash only.
LEMMA UsedKept ==
  ASSUME BaseInv, CleanWhenUnmounted, Next
  PROVE  \/ buf.used \subseteq buf'.used
         \/ \E p \in Procs : ext4_free_inode(p)
         \/ Crash
<1>0. buf \in Metadata
  BY Zenon DEF BaseInv, TypeOK
<1> USE DEF mark_inode_dirty
<1>1. ASSUME NEW p \in Procs, Step(p)
      PROVE  buf.used \subseteq buf'.used \/ ext4_free_inode(p)
  <2>1. CASE \/ ext4_orphan_add(p) \/ orphan_add_dirty(p)
             \/ ext4_orphan_del(p) \/ orphan_del_dirty(p)
    BY <1>0, <2>1, Zenon DEF ext4_orphan_add, orphan_add_dirty, ext4_orphan_del,
                      orphan_del_dirty, Metadata
  <2>2. CASE page_symlink(p) \/ symlink_link(p) \/ close_handle(p)
             \/ dio_transfer(p) \/ dio_end(p) \/ dio_set_size(p)
    BY <1>0, <2>2, Zenon DEF page_symlink, symlink_link, close_handle, dio_transfer,
                      dio_end, dio_set_size, Metadata
  <2>3. CASE ext4_add_nondir(p)
    <3> DEFINE i == proc[p].ino
    <3>1. i \in Ino
      BY <2>3, AtWork, Zenon DEF ext4_add_nondir
    <3>2. CASE UNCHANGED buf
      BY <3>2, Zenon
    <3>3. CASE buf' = [buf EXCEPT !.names[i] = @ + 1, !.ino[i] = core[i]]
      <4>1. buf' = Named(buf, i, buf.names[i] + 1, core[i])
        BY <3>3, Zenon DEF Named
      <4>2. buf' = Meta(buf.last, [buf.ino EXCEPT ![i] = core[i]], buf.used,
                        [buf.names EXCEPT ![i] = buf.names[i] + 1])
        BY <1>0, <3>1, <4>1, MetaNamed, Zenon
      <4> QED BY <4>2, Zenon DEF Meta
    <3> QED BY <2>3, <3>2, <3>3, Zenon DEF ext4_add_nondir
  <2>4. CASE \/ ext4_truncate(p) \/ truncate_blocks(p)
             \/ ext4_truncate_restart_trans(p) \/ truncate_stop(p)
             \/ after_truncate(p) \/ ext4_evict_inode(p)
    BY <1>0, <2>4, Zenon DEF ext4_truncate, truncate_blocks, ext4_truncate_restart_trans,
                      truncate_stop, after_truncate, ext4_evict_inode, Metadata
  <2> QED BY <1>1, <2>1, <2>2, <2>3, <2>4, Zenon DEF Step
<1>2. ASSUME NEW p \in Procs, NEW i \in Ino, SystemCall(p, i) \/ iput(p, i)
      PROVE  buf.used \subseteq buf'.used
  <2>1. ASSUME NEW c, NEW r, NEW n, new_inode(i, c, r, n)
        PROVE  buf.used \subseteq buf'.used
    <3>1. buf' = Created(buf, i, n, r)
      BY <2>1, Zenon DEF new_inode, Created
    <3>2. buf' = Meta(buf.last, [buf.ino EXCEPT ![i] = r], buf.used \cup {i},
                      [buf.names EXCEPT ![i] = n])
      BY <1>0, <3>1, MetaCreated, Zenon
    <3> QED BY <3>2, Zenon DEF Meta
  <2>2. ASSUME NEW o, drop_name(p, i, o)
        PROVE  buf.used \subseteq buf'.used
    <3> DEFINE r == [core[i] EXCEPT !.nlink = @ - 1]
    <3>1. CASE buf' = [buf EXCEPT !.names[i] = @ - 1]
      BY <1>0, <3>1, Zenon DEF Metadata
    <3>2. CASE buf' = [buf EXCEPT !.names[i] = @ - 1, !.ino[i] = r]
      <4>1. buf' = Named(buf, i, buf.names[i] - 1, r)
        BY <3>2, Zenon DEF Named
      <4>2. buf' = Meta(buf.last, [buf.ino EXCEPT ![i] = r], buf.used,
                        [buf.names EXCEPT ![i] = buf.names[i] - 1])
        BY <1>0, <4>1, MetaNamed, Zenon
      <4> QED BY <4>2, Zenon DEF Meta
    <3> QED BY <2>2, <3>1, <3>2, Zenon DEF drop_name
  <2>3. ASSUME ext4_link(p, i)
        PROVE  buf.used \subseteq buf'.used
    <3> DEFINE r == [core[i] EXCEPT !.nlink = @ + 1]
               c == [buf EXCEPT !.ino[i] = r]
    <3>1. buf' = [c EXCEPT !.names[i] = buf.names[i] + 1]
      BY <1>0, <2>3, Zenon DEF ext4_link, Metadata
    <3>2. c.used = buf.used /\ c = Meta(buf.last, c.ino, buf.used, buf.names)
      BY <1>0 DEF Metadata, Meta
    <3> HIDE DEF c
    <3> QED BY <3>1, <3>2, Zenon DEF Meta
  <2>4. CASE \/ ext4_write_end(p, i) \/ ext4_write_begin(p, i)
             \/ ext4_setattr(p, i) \/ ext4_direct_IO_write(p, i)
             \/ open_file(p, i) \/ close_file(i) \/ iput(p, i)
    BY <1>0, <2>4, Zenon DEF ext4_write_end, ext4_write_begin, ext4_setattr,
                      ext4_direct_IO_write, open_file, close_file, iput, Metadata
  <2>5. CASE ext4_create(p, i) \/ ext4_tmpfile(p, i) \/ ext4_symlink(p, i)
    BY <2>1, <2>5, Zenon DEF ext4_create, ext4_tmpfile, ext4_symlink
  <2>6. CASE ext4_unlink(p, i) \/ \E j \in Ino : ext4_rename(p, i, j)
    BY <2>2, <2>6, Zenon DEF ext4_unlink, ext4_rename
  <2> QED BY <1>2, <2>3, <2>4, <2>5, <2>6, Zenon DEF SystemCall
<1>3. ASSUME NEW p \in Procs, ext4_orphan_cleanup(p)
      PROVE  buf.used \subseteq buf'.used
  BY <1>0, <1>3, Zenon DEF ext4_orphan_cleanup, Metadata
<1>4. CASE ext4_fill_super
  <2>1. disk = buf /\ buf' = [disk EXCEPT !.last = chain_to_clean]
    BY <1>4, Zenon DEF ext4_fill_super, mount_from_disk, CleanWhenUnmounted
  <2> QED BY <1>0, <2>1, Zenon DEF Metadata
<1>5. CASE jbd2_commit \/ mount_done \/ ext4_put_super
  BY <1>5, Zenon DEF jbd2_commit, mount_done, ext4_put_super
<1> QED BY <1>1, <1>2, <1>3, <1>4, <1>5, Zenon DEF Next

\* An inode that a directory entry names is never freed, whatever fails: the
\* only step that frees an inode is at the end of an eviction, which starts
\* without links and keeps others from naming the inode.
THEOREM NamedInodesStay == Spec => NamedInodeNeverFreed
<1>1. ASSUME BaseInv, CleanWhenUnmounted, [Next]_vars
      PROVE  [crashes' = crashes =>
                \A i \in buf.used : buf.names[i] > 0 => i \in buf'.used]_vars
  <2> SUFFICES ASSUME Next, crashes' = crashes
               PROVE  \A i \in buf.used : buf.names[i] > 0 => i \in buf'.used
    BY <1>1, Zenon
  <2>1. CASE buf.used \subseteq buf'.used
    BY <2>1, Zenon
  <2>2. CASE \E p \in Procs : ext4_free_inode(p)
    <3>1. PICK p \in Procs : ext4_free_inode(p)
      BY <2>2, Zenon
    <3> DEFINE i == proc[p].ino
               r == [core[i] EXCEPT !.next = Dtime]
    <3>2. proc[p].pc = "erase" /\ buf' = Freed(buf, i, r)
      BY <3>1, Zenon DEF ext4_free_inode, Freed
    <3>3. i \in Ino /\ Flow(proc[p]) /\ FitsAt(proc[p], i) /\ buf \in Metadata
      BY <1>1, <3>2, AtWork, Zenon DEF BaseInv, TypeOK
    <3>4. buf.names[i] = 0
      BY <3>2, <3>3, Zenon DEF Flow, FitsAt, Fits
    <3>5. buf'.used = buf.used \ {i}
      <4>1. buf' = Meta(buf.last, [buf.ino EXCEPT ![i] = r], buf.used \ {i},
                        buf.names)
        BY <3>2, <3>3, MetaFreed, Zenon
      <4> QED BY <4>1, Zenon DEF Meta
    <3> QED BY <3>4, <3>5
  <2>3. CASE Crash
    <3>1. crashes \in Nat /\ crashes' = crashes + 1
      BY <1>1, <2>3 DEF Crash, BaseInv, TypeOK
    <3> QED BY <3>1
  <2> QED BY <1>1, <2>1, <2>2, <2>3, UsedKept, Zenon
<1> QED BY <1>1, BaseInvariant, UnmountedClean, PTL DEF Spec, NamedInodeNeverFreed

-----------------------------------------------------------------------------
(* The theorems on the chain.                                              *)

LEMMA TidyInit == Init => TidyInv
<1> SUFFICES ASSUME Init PROVE TidyInv
  OBVIOUS
<1>1. /\ buf.last = 0 /\ buf.used = {} /\ disk = buf /\ orphan = <<>>
      /\ mode = "mounted" /\ ~error /\ \A p \in Procs : proc[p].ino = 0
  <2>1. buf = Meta(0, core, {}, [i \in Ino |-> 0])
    BY Zenon DEF Init, Meta
  <2> QED BY <2>1 DEF Init, Meta, Idle
<1>2. /\ <<>> \in Seq(Ino) /\ \A i : ~Contains(<<>>, i)
      /\ \A c : IsChain(0, c, <<>>)
  BY SMTT(30) DEF Contains, IsChain
<1>3. ChainInv(<<>>) /\ DiskChain(<<>>)
  BY <1>1, <1>2, Zenon DEF ChainInv, DiskChain
<1> QED BY <1>1, <1>2, <1>3, Zenon DEF TidyInv

\* A step of a process takes a chain to a chain.
LEMMA ChainWork ==
  ASSUME BaseInv, NEW s \in Seq(Ino), ChainInv(s), NEW p \in Procs,
         mix.faults = {}, Step(p)
  PROVE  \E t \in Seq(Ino) : ChainInv(t)'
<1> DEFINE i == proc[p].ino
<1>1. CASE \/ orphan_add_dirty(p)
           \/ ext4_orphan_add(p) /\ OnList(i)
           \/ ext4_orphan_del(p) /\ ~OnList(i)
  BY <1>1, ChainAddDirty, Zenon
<1>2. CASE ext4_orphan_add(p) /\ ~OnList(i)
  <2>1. PICK k, t : k = proc[p].ino /\ t = Pushed(k, s)
    OBVIOUS
  <2>2. ChainInv(t)'
    BY <1>2, <2>1, ChainOrphanAdd, Zenon
  <2>3. k \in Ino
    BY <1>2, <2>1, ChainAtWork, Zenon DEF ext4_orphan_add
  <2>4. Pushed(k, s) \in Seq(Ino)
    BY <2>3 DEF Pushed
  <2> QED BY <2>1, <2>2, <2>4, Zenon
<1>3. CASE ext4_orphan_del(p) /\ OnList(i)
  BY <1>3, ChainOrphanDel, Zenon
<1>4. CASE orphan_del_dirty(p)
  BY <1>4, ChainDelDirty, Zenon
<1>5. CASE page_symlink(p) \/ symlink_link(p) \/ ext4_add_nondir(p) \/ close_handle(p)
  BY <1>5, ChainSymlink, ChainAddNondir, ChainCloseHandle, Zenon
<1>6. CASE dio_transfer(p) \/ dio_end(p) \/ dio_set_size(p)
  BY <1>6, ChainDio, Zenon
<1>7. CASE \/ ext4_truncate(p) \/ truncate_blocks(p)
           \/ ext4_truncate_restart_trans(p) \/ truncate_stop(p)
  BY <1>7, ChainTruncate, Zenon
<1>8. CASE after_truncate(p) \/ ext4_evict_inode(p) \/ ext4_free_inode(p)
  BY <1>8, ChainAfterTruncate, ChainEvict, ChainFree, Zenon
<1> QED BY <1>1, <1>2, <1>3, <1>4, <1>5, <1>6, <1>7, <1>8, Zenon DEF Step

\* No step of a process reports an error, or writes to the disk.
LEMMA WorkKeeps ==
  ASSUME BaseInv, NEW s \in Seq(Ino), ChainInv(s), NEW p \in Procs,
         mix.faults = {}, Step(p)
  PROVE  UNCHANGED <<disk, error, mix>>
<1>1. CASE after_truncate(p) \/ ext4_evict_inode(p)
  <2>1. UNCHANGED error
    BY <1>1, ChainAfterTruncate, ChainEvict, Zenon
  <2> QED BY <1>1, <2>1, Zenon DEF after_truncate, ext4_evict_inode
<1>2. CASE \/ ext4_orphan_add(p) \/ orphan_add_dirty(p)
           \/ ext4_orphan_del(p) \/ orphan_del_dirty(p)
           \/ page_symlink(p) \/ symlink_link(p) \/ ext4_add_nondir(p)
           \/ close_handle(p)
  BY <1>2, Zenon DEF ext4_orphan_add, orphan_add_dirty, ext4_orphan_del, orphan_del_dirty,
              page_symlink, symlink_link, ext4_add_nondir, close_handle
<1>3. CASE \/ dio_transfer(p) \/ dio_end(p) \/ dio_set_size(p)
           \/ ext4_truncate(p) \/ truncate_blocks(p)
           \/ ext4_truncate_restart_trans(p) \/ truncate_stop(p)
           \/ ext4_free_inode(p)
  BY <1>3, Zenon DEF dio_transfer, dio_end, dio_set_size, ext4_truncate, truncate_blocks,
              ext4_truncate_restart_trans, truncate_stop, ext4_free_inode
<1> QED BY <1>1, <1>2, <1>3, Zenon DEF Step

LEMMA ChainCall ==
  ASSUME BaseInv, NEW s \in Seq(Ino), ChainInv(s), NEW p \in Procs, NEW i \in Ino,
         SystemCall(p, i) \/ iput(p, i)
  PROVE  ChainInv(s)' /\ UNCHANGED <<disk, error, mix>>
<1>1. CASE \/ ext4_create(p, i) \/ ext4_tmpfile(p, i) \/ ext4_symlink(p, i)
  BY <1>1, ChainNewInodes, Zenon DEF ext4_create, ext4_tmpfile, ext4_symlink
<1>2. CASE ext4_unlink(p, i) \/ \E j \in Ino : ext4_rename(p, i, j)
  <2>1. UNCHANGED <<disk, error, mix>>
    BY <1>2, Zenon DEF ext4_unlink, ext4_rename
  <2> QED BY <1>2, <2>1, ChainDropName, Zenon
<1>3. CASE ext4_link(p, i)
  <2>1. UNCHANGED <<disk, error, mix>>
    BY <1>3, Zenon DEF ext4_link
  <2> QED BY <1>3, <2>1, ChainLink, Zenon
<1>4. CASE ext4_write_end(p, i) \/ ext4_write_begin(p, i)
  <2>1. UNCHANGED <<disk, error, mix>>
    BY <1>4, Zenon DEF ext4_write_end, ext4_write_begin
  <2> QED BY <1>4, <2>1, ChainWrite, Zenon
<1>5. CASE ext4_setattr(p, i) \/ ext4_direct_IO_write(p, i) \/ iput(p, i)
  <2>1. UNCHANGED <<disk, error, mix>>
    BY <1>5, Zenon DEF ext4_setattr, ext4_direct_IO_write, iput
  <2> QED BY <1>5, <2>1, ChainPlainCall, Zenon
<1>6. CASE open_file(p, i) \/ close_file(i)
  <2>1. UNCHANGED <<core, orphan, buf, proc, mode, disk, error, mix>>
    BY <1>6, Zenon DEF open_file, close_file
  <2> QED BY <2>1, ChainStutter, Zenon
<1> QED BY <1>1, <1>2, <1>3, <1>4, <1>5, <1>6, Zenon DEF SystemCall

LEMMA TidyNext ==
  ASSUME BaseInv, TidyInv, [Next]_vars
  PROVE  TidyInv'
<1> SUFFICES ASSUME mix'.faults = {} PROVE TidyInv'
  BY Zenon DEF TidyInv
<1>1. UNCHANGED mix
  <2>1. ASSUME NEW p \in Procs, Step(p) PROVE UNCHANGED mix
    BY <2>1, Zenon DEF Step, ext4_orphan_add, orphan_add_dirty, ext4_orphan_del,
                orphan_del_dirty, page_symlink, symlink_link, ext4_add_nondir,
                close_handle, dio_transfer, dio_end, dio_set_size, ext4_truncate,
                truncate_blocks, ext4_truncate_restart_trans, truncate_stop,
                after_truncate, ext4_evict_inode, ext4_free_inode
  <2>2. ASSUME NEW p \in Procs, NEW i \in Ino, SystemCall(p, i) \/ iput(p, i)
        PROVE  UNCHANGED mix
    BY <2>2, Zenon DEF SystemCall, ext4_create, ext4_tmpfile, ext4_unlink, ext4_rename,
                ext4_link, ext4_symlink, ext4_write_end, ext4_write_begin,
                ext4_setattr, ext4_direct_IO_write, open_file, close_file, iput
  <2>3. ASSUME NEW p \in Procs, ext4_orphan_cleanup(p) PROVE UNCHANGED mix
    BY <2>3, Zenon DEF ext4_orphan_cleanup
  <2>4. CASE \/ jbd2_commit \/ Crash \/ mount_done \/ ext4_put_super
             \/ ext4_fill_super \/ UNCHANGED vars
    BY <2>4, Zenon DEF jbd2_commit, Crash, mount_done, ext4_put_super, ext4_fill_super,
                mount_from_disk, vars
  <2> QED BY <2>1, <2>2, <2>3, <2>4, Zenon DEF Next
<1>2. mix.faults = {} /\ ~error
  BY <1>1, Zenon DEF TidyInv
<1>3. PICK s \in Seq(Ino) : ChainInv(s)
  BY <1>2, Zenon DEF TidyInv
<1>4. PICK d \in Seq(Ino) : DiskChain(d)
  BY <1>2, Zenon DEF TidyInv
<1>5. UNCHANGED disk => DiskChain(d)'
  BY <1>4, Zenon DEF DiskChain
<1>6. ASSUME NEW p \in Procs, Step(p) PROVE TidyInv'
  <2>1. UNCHANGED <<disk, error>>
    BY <1>2, <1>3, <1>6, WorkKeeps, Zenon
  <2>2. \E t \in Seq(Ino) : ChainInv(t)'
    BY <1>2, <1>3, <1>6, ChainWork, Zenon
  <2> QED BY <1>2, <1>5, <2>1, <2>2, Zenon DEF TidyInv
<1>7. ASSUME NEW p \in Procs, NEW i \in Ino, SystemCall(p, i) \/ iput(p, i)
      PROVE  TidyInv'
  <2>1. UNCHANGED <<disk, error>> /\ ChainInv(s)'
    BY <1>3, <1>7, ChainCall, Zenon
  <2> QED BY <1>2, <1>5, <2>1, Zenon DEF TidyInv
<1>8. ASSUME NEW p \in Procs, ext4_orphan_cleanup(p) PROVE TidyInv'
  <2>1. UNCHANGED error /\ ChainInv(s)'
    BY <1>2, <1>3, <1>8, ChainCleanup, Zenon
  <2>2. UNCHANGED disk
    BY <1>8, Zenon DEF ext4_orphan_cleanup
  <2> QED BY <1>2, <1>5, <2>1, <2>2, Zenon DEF TidyInv
<1>9. CASE jbd2_commit
  <2>1. /\ UNCHANGED <<core, orphan, buf, proc, mode, error>>
        /\ disk' = buf /\ \A p \in Procs : ~InHandle(p)
    BY <1>9, Zenon DEF jbd2_commit
  <2>2. ChainInv(s)'
    BY <1>3, <2>1, ChainStutter, Zenon
  <2>3. DiskChain(s)'
    BY <1>3, <2>1, CommitChain, Zenon
  <2> QED BY <1>2, <2>1, <2>2, <2>3, Zenon DEF TidyInv
<1>10. CASE Crash \/ ext4_fill_super
  <2>1. mount_from_disk /\ UNCHANGED <<disk, error>>
    BY <1>10, Zenon DEF Crash, ext4_fill_super, mount_from_disk
  <2>2. ChainInv(d)'
    BY <1>2, <1>4, <2>1, ChainMount, Zenon
  <2> QED BY <1>2, <1>5, <2>1, <2>2, Zenon DEF TidyInv
<1>11. CASE mount_done
  <2>1. UNCHANGED <<disk, error>>
    BY <1>11, Zenon DEF mount_done
  <2>2. ChainInv(s)'
    BY <1>3, <1>11, ChainMountDone, Zenon
  <2> QED BY <1>2, <1>5, <2>1, <2>2, Zenon DEF TidyInv
<1>12. CASE ext4_put_super
  <2>1. UNCHANGED error
    BY <1>12, Zenon DEF ext4_put_super
  <2>2. ChainInv(s)' /\ DiskChain(s)'
    BY <1>3, <1>12, ChainPutSuper, Zenon
  <2> QED BY <1>2, <2>1, <2>2, Zenon DEF TidyInv
<1>13. CASE UNCHANGED vars
  <2>1. UNCHANGED <<core, orphan, buf, proc, mode, error, disk>>
    BY <1>13, Zenon DEF vars
  <2>2. ChainInv(s)'
    BY <1>3, <2>1, ChainStutter, Zenon
  <2> QED BY <1>2, <1>5, <2>1, <2>2, Zenon DEF TidyInv
<1> QED BY <1>6, <1>7, <1>8, <1>9, <1>10, <1>11, <1>12, <1>13, Zenon DEF Next

\* The inductive invariant of the chain: with every handle granted no error is
\* ever recorded, the buffers hold a chain that the in-memory list mirrors, and
\* so does the disk.
THEOREM ChainInvariant == Spec => [](BaseInv /\ TidyInv)
<1>1. BaseInv /\ TidyInv /\ [Next]_vars => BaseInv' /\ TidyInv'
  BY BaseNext, TidyNext, Zenon
<1> QED BY <1>1, BaseInit, TidyInit, PTL DEF Spec

\* A chain is no longer than there are inodes.
LEMMA ChainLength ==
  ASSUME NEW s \in Seq(Ino), NoDup(s)
  PROVE  Len(s) \in 0 .. NIno /\ s \in [1 .. Len(s) -> Ino]
<1>1. Len(s) \in Nat /\ s \in [1 .. Len(s) -> Ino] /\ NIno \in Nat
  BY ConstantsAssumption
<1>2. /\ IsFiniteSet(1 .. Len(s)) /\ Cardinality(1 .. Len(s)) = Len(s)
      /\ IsFiniteSet(Ino) /\ Cardinality(Ino) = NIno
  <2>1. \A n \in Nat : IsFiniteSet(1 .. n) /\ Cardinality(1 .. n) = n
    BY FS_Interval
  <2> QED BY <1>1, <2>1, Zenon DEF Ino
<1>3. ASSUME NIno < Len(s) PROVE FALSE
  <2>1. \E x, y \in 1 .. Len(s) : x # y /\ s[x] = s[y]
    BY <1>1, <1>2, <1>3, FS_PigeonHole, Zenon
  <2> QED BY <2>1, Zenon DEF NoDup
<1> QED BY <1>1, <1>3, SMTT(30)

\* Whatever the number of inodes, blocks, processes and crashes: with every
\* handle granted the chain of the last commit ends, holds inodes in use only,
\* and holds every inode that a mount would have to delete or to truncate.
THEOREM CommittedChainComplete == Spec => []OrphansListed
<1>1. BaseInv /\ TidyInv => OrphansListed
  <2> SUFFICES ASSUME BaseInv, TidyInv, mix.faults = {}
               PROVE  ~error /\ CommittedOrphansListed
    BY Zenon DEF OrphansListed
  <2>1. PICK s \in Seq(Ino) : DiskChain(s)
    BY Zenon DEF TidyInv
  <2>2. s \in UNION {[1 .. n -> Ino] : n \in 0 .. NIno}
    <3>1. NoDup(s)
      BY <2>1, ChainNoDup, Zenon DEF DiskChain
    <3> QED BY <3>1, ChainLength, Zenon
  <2>3. \A i \in Ino : i \in ToSet(s) <=> Contains(s, i)
    BY DEF ToSet, Contains
  <2>4. ToSet(s) \subseteq Ino
    BY SMTT(30) DEF ToSet
  <2>5. ToSet(s) \subseteq disk.used
    BY <2>1, <2>3, <2>4, Zenon DEF DiskChain
  <2>6. \A i \in Ino : NeedsRecovery(disk, i) => i \in ToSet(s)
    <3> SUFFICES ASSUME NEW i \in Ino, NeedsRecovery(disk, i), ~Contains(s, i)
                 PROVE  FALSE
      BY <2>3, Zenon
    <3>1. Tidy(Idle, disk.ino[i], FALSE) /\ i \in disk.used
      BY <2>1, Zenon DEF DiskChain, NeedsRecovery
    <3>2. disk.ino[i].nlink # 0 /\ disk.ino[i].blocks = disk.ino[i].size
      BY <3>1, Zenon DEF Tidy, Idle
    <3>3. disk.ino[i].size \in Nat
      BY DEF BaseInv, TypeOK, Metadata, InodeRec
    <3> QED BY <3>2, <3>3, SMTT(30) DEF NeedsRecovery
  <2> QED BY <2>1, <2>2, <2>5, <2>6, Zenon DEF TidyInv, CommittedOrphansListed, DiskChain
<1> QED BY <1>1, ChainInvariant, PTL

\* The in-memory list of a mounted file system is the chain, so that
\* ext4_orphan_del() finds in memory whose link to change.
THEOREM ListIsChain == Spec => []ListMirrorsDisk
<1>1. TidyInv => ListMirrorsDisk
  BY Zenon DEF TidyInv, ChainInv, ListMirrorsDisk, ListMirrorsChain
<1> QED BY <1>1, ChainInvariant, PTL

\* When ext4_orphan_cleanup() is done no unlinked inode is left and no block
\* outside the size of its file.
THEOREM RecoveryComplete == Spec => RecoveryLeavesNothing
<1>1. ASSUME BaseInv, TidyInv, [Next]_vars
      PROVE  [mode = "recovering" /\ mode' = "mounted" /\ mix.faults = {}
              => \A i \in Ino : ~NeedsRecovery(buf, i)]_vars
  <2> SUFFICES ASSUME Next, mode = "recovering", mode' = "mounted",
                      mix.faults = {}, NEW i \in Ino, NeedsRecovery(buf, i)
               PROVE  FALSE
    BY <1>1, Zenon
  <2>1. mount_done
    <3>1. ASSUME NEW p \in Procs, Step(p) PROVE UNCHANGED mode
      BY <3>1, Zenon DEF Step, ext4_orphan_add, orphan_add_dirty, ext4_orphan_del,
                  orphan_del_dirty, page_symlink, symlink_link, ext4_add_nondir,
                  close_handle, dio_transfer, dio_end, dio_set_size, ext4_truncate,
                  truncate_blocks, ext4_truncate_restart_trans, truncate_stop,
                  after_truncate, ext4_evict_inode, ext4_free_inode
    <3>2. ASSUME NEW p \in Procs, NEW j \in Ino, SystemCall(p, j) \/ iput(p, j)
          PROVE  mode = "mounted"
      BY <3>2, Zenon DEF SystemCall, ext4_create, ext4_tmpfile, ext4_unlink, ext4_rename,
                  ext4_link, ext4_symlink, ext4_write_end, ext4_write_begin,
                  ext4_setattr, ext4_direct_IO_write, open_file, close_file, iput,
                  MayCall
    <3>3. ASSUME NEW p \in Procs, ext4_orphan_cleanup(p) PROVE UNCHANGED mode
      BY <3>3, Zenon DEF ext4_orphan_cleanup
    <3>4. CASE jbd2_commit \/ Crash \/ ext4_put_super \/ ext4_fill_super
      BY <3>4, Zenon DEF jbd2_commit, Crash, ext4_put_super, ext4_fill_super,
                  mount_from_disk
    <3> QED BY <3>1, <3>2, <3>3, <3>4, Zenon DEF Next
  <2>2. PICK s \in Seq(Ino) : ChainInv(s)
    BY <1>1, Zenon DEF TidyInv
  <2>3. i \in buf.used
    BY Zenon DEF NeedsRecovery
  <2>4. Tidy(Idle, core[i], FALSE)
    BY <1>1, <2>1, <2>2, <2>3, RecoveryOver, Zenon
  <2>5. FitsAt(Idle, i)
    BY <1>1, <2>1, <2>3, NobodyBusy, Zenon DEF mount_done
  <2>6. buf.ino[i] = core[i]
    BY <2>5, Zenon DEF FitsAt, Fits, Dirty, Idle
  <2>7. core[i].nlink # 0 /\ core[i].blocks = core[i].size
    BY <2>4, Zenon DEF Tidy, Idle
  <2>8. core[i].size \in Nat
    BY <1>1 DEF BaseInv, TypeOK, InodeRec
  <2> QED BY <2>6, <2>7, <2>8, SMTT(30) DEF NeedsRecovery
<1> QED BY <1>1, ChainInvariant, PTL DEF Spec, RecoveryLeavesNothing

=============================================================================
