------------------------------- MODULE Orphan -------------------------------
(***************************************************************************)
(* The orphan list of ext4: the inodes that a crash must not leave behind, *)
(* because they are unlinked but still open, or because a truncate of      *)
(* their blocks spans several journal transactions.  The list exists       *)
(* twice: in memory (sbi->s_orphan, a list_head) and on disk (the chain    *)
(* that starts at s_last_orphan and follows i_dtime, NEXT_ORPHAN).         *)
(*                                                                         *)
(* Every system call of namei.c and inode.c that moves an inode on or off  *)
(* the list is modelled step by step as a process; the journal groups      *)
(* their changes into transactions, a crash falls back on the last         *)
(* committed one, and ext4_orphan_cleanup works off the chain that it      *)
(* finds there.                                                            *)
(***************************************************************************)
EXTENDS KernelList

CONSTANTS NIno,       \* s_inodes_count
          Procs,      \* the kernel threads that execute system calls
          Mixes,      \* what a behaviour may consist of, see Mix
          LinkMax,    \* EXT4_LINK_MAX
          MaxBlocks,  \* bound on the blocks of a file
          MaxCrashes  \* bound on the number of crashes

Ino == 1 .. NIno

\* The calls that may be refused a handle by ext4_journal_start().  A truncate
\* of ext4_orphan_cleanup() is none of them.
Faults == {"evict", "symlink", "setattr", "dio", "write"}

\* What a behaviour may consist of: the system calls that are issued, those
\* that may fail, and the inodes that are free to be created.
Mix == [ops : SUBSET STRING, faults : SUBSET Faults, inos : SUBSET Ino]

ASSUME ConstantsAssumption ==
  /\ NIno \in Nat \ {0}
  /\ LinkMax \in Nat \ {0}
  /\ MaxBlocks \in Nat \ {0}
  /\ MaxCrashes \in Nat
  /\ Mixes \subseteq Mix

VARIABLES
  mix,     \* what this behaviour consists of
  core,    \* in-core inodes: link count, NEXT_ORPHAN, size and blocks
  cached,  \* the inodes whose in-core structure exists
  orphan,  \* sbi->s_orphan, from the head of the list
  open,    \* the inodes that a file descriptor keeps alive
  linkable,\* O_TMPFILE inodes that linkat() may still name (I_LINKABLE)
  buf,     \* the metadata buffers, as the running transaction has them
  disk,    \* the metadata of the last committed transaction
  proc,    \* the processes
  mode,    \* "mounted", "recovering" or "unmounted"
  error,   \* EXT4_ERROR_FS of s_mount_state, written through to the disk
  crashes  \* crashes so far

vars == <<mix, core, cached, orphan, open, linkable, buf, disk, proc, mode,
          error, crashes>>

\* The deletion time that i_dtime holds once the inode is freed: as a link of
\* the chain it is out of range.
Dtime == NIno + 1

InodeRec == [nlink : 0 .. LinkMax, next : 0 .. Dtime,
             size : 0 .. MaxBlocks, blocks : 0 .. MaxBlocks]

\* The journalled metadata: head of the chain, inode table, inode bitmap, and
\* how many directory entries name each inode.
Metadata == [last : 0 .. Dtime, ino : [Ino -> InodeRec],
             used : SUBSET Ino, names : [Ino -> 0 .. LinkMax]]

Pcs == {"idle", "add", "addmark", "added", "trunc", "free", "restart", "tdone",
        "tail", "tailerr", "del", "delmark", "io", "dioend", "dset", "page",
        "symlink2", "named", "evict", "evictn", "erase"}

\* The states of a process that hold an open handle on the running transaction.
HandlePcs == {"add", "addmark", "added", "free", "tdone", "del", "delmark",
              "dset", "named", "evictn", "erase"}

Calls == {"none", "unlink", "rename", "tmpfile", "link", "symlink", "setattr",
          "write", "dio", "diofail", "evict", "recover"}

Idle == [pc |-> "idle", ino |-> 0, op |-> "none", ret |-> "none"]

TypeOK ==
  /\ core \in [Ino -> InodeRec]
  /\ cached \subseteq Ino
  /\ orphan \in Seq(Ino)
  /\ open \subseteq Ino
  /\ linkable \subseteq Ino
  /\ buf \in Metadata
  /\ disk \in Metadata
  /\ proc \in [Procs -> [pc : Pcs, ino : 0 .. NIno, op : Calls,
                         ret : Pcs \cup {"none"}]]
  /\ mode \in {"mounted", "recovering", "unmounted"}
  /\ error \in BOOLEAN
  /\ crashes \in 0 .. MaxCrashes

NewInode == [nlink |-> 1, next |-> 0, size |-> 0, blocks |-> 0]
Nameless == [NewInode EXCEPT !.nlink = 0]

\* A freshly made file system, mounted.
Init ==
  /\ mix \in Mixes
  /\ core = [i \in Ino |-> Nameless]
  /\ cached = {}
  /\ orphan = <<>>
  /\ open = {}
  /\ linkable = {}
  /\ buf = [last |-> 0, ino |-> core, used |-> {},
            names |-> [i \in Ino |-> 0]]
  /\ disk = buf
  /\ proc = [p \in Procs |-> Idle]
  /\ mode = "mounted"
  /\ error = FALSE
  /\ crashes = 0

-----------------------------------------------------------------------------
(* The lists.                                                              *)

OnList(i) == Contains(orphan, i)

\* The position of inode i in the in-memory list.
Pos(i) == CHOOSE k \in 1 .. Len(orphan) : orphan[k] = i

\* Mutant: the inode is added at the other end of the in-memory list.
list_add_tail(i) == orphan' = Append(orphan, i)

list_add(i) == orphan' = <<i>> \o orphan

list_del_init(i) == orphan' = RemoveAt(orphan, Pos(i))

\* Mutant: an error path returns without touching the in-memory list.
orphan_keep(i) == UNCHANGED orphan

\* ext4_orphan_del() without a handle takes the inode off the in-memory list
\* and leaves the chain on the disk alone.
orphan_del_nohandle(i) ==
  IF OnList(i) THEN list_del_init(i) ELSE UNCHANGED orphan

\* Mutant: the in-core inode changes and is not marked dirty.
change_in_core_only(i, r) ==
  /\ core' = [core EXCEPT ![i] = r]
  /\ UNCHANGED buf

\* ext4_mark_inode_dirty() of an in-core inode whose new contents are r.
mark_inode_dirty(i, r) ==
  /\ core' = [core EXCEPT ![i] = r]
  /\ buf' = [buf EXCEPT !.ino[i] = r]

Goto(p, l) == proc' = [proc EXCEPT ![p].pc = l]
Call(p, l, r) == proc' = [proc EXCEPT ![p].pc = l, ![p].ret = r]
Start(p, i, o, l, r) ==
  proc' = [proc EXCEPT ![p] = [pc |-> l, ino |-> i, op |-> o, ret |-> r]]
Finish(p) == proc' = [proc EXCEPT ![p] = Idle]

InHandle(p) == proc[p].pc \in HandlePcs
AllIdle == \A p \in Procs : proc[p].pc = "idle"

\* Inode i is locked (i_rwsem), or new or being freed, by some process.
Busy(i) == \E p \in Procs : proc[p].ino = i

\* Process p may issue system call o.
MayCall(p, o) == mode = "mounted" /\ proc[p].pc = "idle" /\ o \in mix.ops

\* A live inode that a path or a descriptor leads to.
Reachable(i) == i \in buf.used /\ ~Busy(i) /\ (buf.names[i] > 0 \/ i \in open)

-----------------------------------------------------------------------------
(* ext4_orphan_add and ext4_orphan_del, called with a handle.  What happens *)
(* under s_orphan_lock is one step, what follows the unlock another.       *)

ext4_orphan_add(p) ==
  LET i == proc[p].ino IN
  /\ proc[p].pc = "add"
  /\ IF OnList(i)
       THEN Goto(p, proc[p].ret) /\ UNCHANGED <<orphan, core, buf>>
       ELSE /\ list_add(i)
            /\ IF core[i].next = 0 \/ core[i].next > NIno
                 THEN /\ core' = [core EXCEPT ![i].next = buf.last]
                      /\ buf' = [buf EXCEPT !.last = i]
                      /\ Goto(p, "addmark")
                 ELSE Goto(p, proc[p].ret) /\ UNCHANGED <<core, buf>>
  /\ UNCHANGED <<cached, open, linkable, disk, mode, error, crashes, mix>>

orphan_add_dirty(p) ==
  LET i == proc[p].ino IN
  /\ proc[p].pc = "addmark"
  /\ mark_inode_dirty(i, core[i])
  /\ Goto(p, proc[p].ret)
  /\ UNCHANGED <<cached, orphan, open, linkable, disk, mode, error,
                 crashes, mix>>

ext4_orphan_del(p) ==
  LET i == proc[p].ino IN
  /\ proc[p].pc = "del"
  /\ IF ~OnList(i)
       THEN Goto(p, proc[p].ret) /\ UNCHANGED <<orphan, core, buf>>
       ELSE /\ list_del_init(i)
            /\ IF Pos(i) = 1
                 THEN /\ buf' = [buf EXCEPT !.last = core[i].next]
                      /\ UNCHANGED core
                 ELSE LET prev == orphan[Pos(i) - 1] IN
                      mark_inode_dirty(prev,
                        [core[prev] EXCEPT !.next = core[i].next])
            /\ Goto(p, "delmark")
  /\ UNCHANGED <<cached, open, linkable, disk, mode, error, crashes, mix>>

\* Mutant: NEXT_ORPHAN is left as it was.
orphan_del_keep_next(p) ==
  /\ proc[p].pc = "delmark"
  /\ Goto(p, proc[p].ret)
  /\ UNCHANGED <<core, buf, cached, orphan, open, linkable, disk, mode, error,
                 crashes, mix>>

orphan_del_dirty(p) ==
  LET i == proc[p].ino IN
  /\ proc[p].pc = "delmark"
  /\ mark_inode_dirty(i, [core[i] EXCEPT !.next = 0])
  /\ Goto(p, proc[p].ret)
  /\ UNCHANGED <<cached, orphan, open, linkable, disk, mode, error,
                 crashes, mix>>

-----------------------------------------------------------------------------
(* System calls on names.                                                  *)

\* __ext4_new_inode(): a free bit of the inode bitmap and a fresh inode, with
\* c its in-core contents, r what has been marked dirty, and n names.
new_inode(i, c, r, n) ==
  /\ i \in mix.inos /\ i \notin buf.used /\ i \notin cached
  /\ core' = [core EXCEPT ![i] = c]
  /\ buf' = [buf EXCEPT !.ino[i] = r, !.used = @ \cup {i}, !.names[i] = n]
  /\ cached' = cached \cup {i}

\* ext4_create(): inode and directory entry in one handle.
ext4_create(p, i) ==
  /\ MayCall(p, "create")
  /\ new_inode(i, NewInode, NewInode, 1)
  /\ UNCHANGED <<orphan, open, linkable, disk, proc, mode, error, crashes, mix>>

\* ext4_tmpfile(): an open inode with no name, put on the list.
ext4_tmpfile(p, i) ==
  /\ MayCall(p, "tmpfile")
  /\ new_inode(i, Nameless, Nameless, 0)
  /\ open' = open \cup {i}
  /\ linkable' = linkable \cup {i}
  /\ Start(p, i, "tmpfile", "add", "added")
  /\ UNCHANGED <<orphan, disk, mode, error, crashes, mix>>

\* One directory entry of inode i goes; its link count is dropped, and with
\* the last link the inode goes on the list before the handle is closed.
drop_name(p, i, o) ==
  LET r == [core[i] EXCEPT !.nlink = @ - 1] IN
  /\ core' = [core EXCEPT ![i] = r]
  /\ IF r.nlink = 0
       THEN /\ buf' = [buf EXCEPT !.names[i] = @ - 1]
            /\ Start(p, i, o, "add", "added")
       ELSE /\ buf' = [buf EXCEPT !.names[i] = @ - 1, !.ino[i] = r]
            /\ UNCHANGED proc

ext4_unlink(p, i) ==
  /\ MayCall(p, "unlink")
  /\ Reachable(i) /\ buf.names[i] > 0
  /\ cached' = cached \cup {i}
  /\ drop_name(p, i, "unlink")
  /\ UNCHANGED <<orphan, open, linkable, disk, mode, error, crashes, mix>>

\* ext4_rename() of inode j over inode i: j keeps the number of its names, i
\* loses one.
ext4_rename(p, i, j) ==
  /\ MayCall(p, "rename")
  /\ i # j
  /\ \A k \in {i, j} : Reachable(k) /\ buf.names[k] > 0
  /\ cached' = cached \cup {i, j}
  /\ drop_name(p, i, "rename")
  /\ UNCHANGED <<orphan, open, linkable, disk, mode, error, crashes, mix>>

\* ext4_link() answers EMLINK at EXT4_LINK_MAX.
link_room(i) == core[i].nlink < LinkMax

\* ext4_link(): the first name of an O_TMPFILE inode takes it off the list.
ext4_link(p, i) ==
  LET r == [core[i] EXCEPT !.nlink = @ + 1] IN
  /\ MayCall(p, "link")
  /\ Reachable(i)
  /\ core[i].nlink > 0 \/ i \in linkable
  /\ link_room(i)
  /\ core' = [core EXCEPT ![i] = r]
  /\ buf' = [buf EXCEPT !.ino[i] = r, !.names[i] = @ + 1]
  /\ cached' = cached \cup {i}
  /\ linkable' = linkable \ {i}
  /\ IF r.nlink = 1 THEN Start(p, i, "link", "del", "added") ELSE UNCHANGED proc
  /\ UNCHANGED <<orphan, open, disk, mode, error, crashes, mix>>

\* ext4_symlink() of a long target, first handle: the inode has no link yet
\* and is put on the list, so that the target can be written in between.
ext4_symlink(p, i) ==
  /\ MayCall(p, "symlink")
  /\ new_inode(i, Nameless, NewInode, 0)
  /\ Start(p, i, "symlink", "add", "added")
  /\ UNCHANGED <<orphan, open, linkable, disk, mode, error, crashes, mix>>

\* __page_symlink() writes the target in a handle of its own, or fails and the
\* inode is dropped (err_drop_inode).
page_symlink(p) ==
  LET i == proc[p].ino IN
  /\ proc[p].pc = "page"
  /\ \/ /\ mark_inode_dirty(i, [core[i] EXCEPT !.size = 1, !.blocks = 1])
        /\ Goto(p, "symlink2")
     \/ Start(p, i, "evict", "evict", "none") /\ UNCHANGED <<core, buf>>
  /\ UNCHANGED <<cached, orphan, open, linkable, disk, mode, error,
                 crashes, mix>>

\* Mutant: the inode is named without a link count.
symlink_link_unset(p) ==
  /\ proc[p].pc = "symlink2"
  /\ Call(p, "del", "named")
  /\ UNCHANGED <<core, cached, orphan, open, linkable, buf, disk, mode, error,
                 crashes, mix>>

\* Second handle of ext4_symlink(): the link count is set before the inode
\* leaves the list; without a handle the inode is dropped.
symlink_link(p) ==
  LET i == proc[p].ino IN
  /\ proc[p].pc = "symlink2"
  /\ \/ /\ core' = [core EXCEPT ![i].nlink = 1]
        /\ Call(p, "del", "named")
     \/ /\ "symlink" \in mix.faults
        /\ Start(p, i, "evict", "evict", "none")
        /\ UNCHANGED core
  /\ UNCHANGED <<cached, orphan, open, linkable, buf, disk, mode, error,
                 crashes, mix>>

\* ext4_add_nondir(): the directory entry, or with no room for it the inode is
\* dropped again inside the handle.
ext4_add_nondir(p) ==
  LET i == proc[p].ino IN
  /\ proc[p].pc = "named"
  /\ \/ /\ buf' = [buf EXCEPT !.names[i] = @ + 1, !.ino[i] = core[i]]
        /\ UNCHANGED core
        /\ Finish(p)
     \/ /\ core' = [core EXCEPT ![i].nlink = @ - 1]
        /\ UNCHANGED buf
        /\ Start(p, i, "evict", "evictn", "none")
  /\ UNCHANGED <<cached, orphan, open, linkable, disk, mode, error,
                 crashes, mix>>

-----------------------------------------------------------------------------
(* System calls on file contents.  A file is abstracted to its size and to *)
(* the number of its blocks, both in blocks.                               *)

\* A buffered write that succeeds: ext4_write_begin() allocates and
\* ext4_write_end() moves i_size in the same handle.
ext4_write_end(p, i) ==
  /\ MayCall(p, "append")
  /\ Reachable(i) /\ core[i].blocks < MaxBlocks
  /\ mark_inode_dirty(i, [core[i] EXCEPT !.size = @ + 1, !.blocks = @ + 1])
  /\ cached' = cached \cup {i}
  /\ UNCHANGED <<orphan, open, linkable, disk, proc, mode, error, crashes, mix>>

\* A buffered write that instantiates a block outside i_size and then fails:
\* the inode goes on the list in that handle.
ext4_write_begin(p, i) ==
  /\ MayCall(p, "write")
  /\ Reachable(i) /\ core[i].blocks < MaxBlocks
  /\ mark_inode_dirty(i, [core[i] EXCEPT !.blocks = @ + 1])
  /\ cached' = cached \cup {i}
  /\ Start(p, i, "write", "add", "added")
  /\ UNCHANGED <<orphan, open, linkable, disk, mode, error, crashes, mix>>

\* ext4_setattr() that shrinks, and ext4_direct_IO_write() that extends, put
\* the inode on the list first.
ext4_setattr(p, i) ==
  /\ MayCall(p, "setattr")
  /\ Reachable(i) /\ core[i].size > 0
  /\ cached' = cached \cup {i}
  /\ Start(p, i, "setattr", "add", "added")
  /\ UNCHANGED <<core, orphan, open, linkable, buf, disk, mode, error,
                 crashes, mix>>

ext4_direct_IO_write(p, i) ==
  /\ MayCall(p, "dio")
  /\ Reachable(i) /\ core[i].blocks < MaxBlocks
  /\ cached' = cached \cup {i}
  /\ Start(p, i, "dio", "add", "added")
  /\ UNCHANGED <<core, orphan, open, linkable, buf, disk, mode, error,
                 crashes, mix>>

\* What each caller of ext4_orphan_add() (or ext4_link() of ext4_orphan_del())
\* does in the rest of its handle.
close_handle(p) ==
  LET i == proc[p].ino IN
  /\ proc[p].pc = "added"
  /\ \/ /\ proc[p].op \in {"unlink", "rename", "tmpfile"}
        /\ mark_inode_dirty(i, core[i])
        /\ Finish(p)
     \/ /\ proc[p].op = "link"
        /\ Finish(p)
        /\ UNCHANGED <<core, buf>>
     \/ /\ proc[p].op = "setattr"
        /\ \E n \in 0 .. core[i].size - 1 :
             mark_inode_dirty(i, [core[i] EXCEPT !.size = n])
        /\ Goto(p, "trunc")
     \/ /\ proc[p].op \in {"write", "dio", "symlink"}
        /\ Goto(p, CASE proc[p].op = "write" -> "trunc"
                      [] proc[p].op = "dio" -> "io"
                      [] proc[p].op = "symlink" -> "page")
        /\ UNCHANGED <<core, buf>>
  /\ UNCHANGED <<cached, orphan, open, linkable, disk, mode, error,
                 crashes, mix>>

\* __blockdev_direct_IO(): the block is allocated in a handle of its own; an
\* I/O error leaves it, or nothing, behind to be truncated.
dio_transfer(p) ==
  LET i == proc[p].ino IN
  /\ proc[p].pc = "io"
  /\ \/ /\ mark_inode_dirty(i, [core[i] EXCEPT !.blocks = @ + 1])
        /\ \/ Goto(p, "dioend")
           \/ Start(p, i, "diofail", "trunc", "none")
     \/ /\ Start(p, i, "diofail", "trunc", "none")
        /\ UNCHANGED <<core, buf>>
  /\ UNCHANGED <<cached, orphan, open, linkable, disk, mode, error,
                 crashes, mix>>

\* The end of ext4_direct_IO_write(): a handle to leave the list, or none.
dio_end(p) ==
  LET i == proc[p].ino IN
  /\ proc[p].pc = "dioend"
  /\ \/ /\ IF core[i].nlink > 0 THEN Call(p, "del", "dset") ELSE Goto(p, "dset")
        /\ UNCHANGED orphan
     \/ /\ "dio" \in mix.faults
        /\ IF core[i].nlink > 0 THEN orphan_del_nohandle(i) ELSE UNCHANGED orphan
        /\ Finish(p)
  /\ UNCHANGED <<core, cached, open, linkable, buf, disk, mode, error,
                 crashes, mix>>

\* With data transferred the size follows the block, in the same handle.
dio_set_size(p) ==
  LET i == proc[p].ino IN
  /\ proc[p].pc = "dset"
  /\ IF proc[p].op = "dio"
       THEN mark_inode_dirty(i, [core[i] EXCEPT !.size = @ + 1])
       ELSE UNCHANGED <<core, buf>>
  /\ Finish(p)
  /\ UNCHANGED <<cached, orphan, open, linkable, disk, mode, error,
                 crashes, mix>>

-----------------------------------------------------------------------------
(* ext4_truncate().                                                        *)

\* A handle of its own, or none; then ext4_orphan_add().
ext4_truncate(p) ==
  /\ proc[p].pc = "trunc"
  /\ \/ Call(p, "add", "free")
     \/ proc[p].op \in mix.faults /\ Goto(p, "tailerr")
     \/ proc[p].op = "diofail" /\ "dio" \in mix.faults /\ Goto(p, "tailerr")
  /\ UNCHANGED <<core, cached, orphan, open, linkable, buf, disk, mode, error,
                 crashes, mix>>

\* The blocks beyond i_size are freed one by one; between two of them the
\* handle may be restarted (ext4_truncate_restart_trans).  At the end a file
\* that stays alive leaves the list, one that is being deleted is left to
\* ext4_evict_inode().
truncate_blocks(p) ==
  LET i == proc[p].ino IN
  /\ proc[p].pc = "free"
  /\ \/ /\ core[i].blocks > core[i].size
        /\ mark_inode_dirty(i, [core[i] EXCEPT !.blocks = @ - 1])
        /\ \/ UNCHANGED proc
           \/ Goto(p, "restart")
     \/ /\ core[i].blocks <= core[i].size
        /\ UNCHANGED <<core, buf>>
        /\ IF core[i].nlink > 0
             THEN Call(p, "del", "tdone")
             ELSE IF proc[p].op = "evict"
                    THEN Call(p, "del", "erase") ELSE Goto(p, "tdone")
  /\ UNCHANGED <<cached, orphan, open, linkable, disk, mode, error,
                 crashes, mix>>

ext4_truncate_restart_trans(p) ==
  /\ proc[p].pc = "restart"
  /\ Goto(p, "free")
  /\ UNCHANGED <<core, cached, orphan, open, linkable, buf, disk, mode, error,
                 crashes, mix>>

truncate_stop(p) ==
  LET i == proc[p].ino IN
  /\ proc[p].pc = "tdone"
  /\ mark_inode_dirty(i, core[i])
  /\ Goto(p, "tail")
  /\ UNCHANGED <<cached, orphan, open, linkable, disk, mode, error,
                 crashes, mix>>

\* What the callers of ext4_truncate() do when it returns.  ext4_setattr() and
\* the failed write make sure that a file that stays alive is off the
\* in-memory list; ext4_orphan_cleanup() drops its reference (iput).
after_truncate(p) ==
  LET i == proc[p].ino
      failed == proc[p].pc = "tailerr" IN
  /\ proc[p].pc \in {"tail", "tailerr"}
  /\ \/ /\ proc[p].op \in {"setattr", "write"}
        /\ IF core[i].nlink > 0 THEN orphan_del_nohandle(i) ELSE UNCHANGED orphan
        /\ error' = (error \/ (failed /\ proc[p].op = "setattr"))
        /\ Finish(p)
        /\ UNCHANGED cached
     \/ /\ proc[p].op = "diofail"
        /\ Goto(p, "dioend")
        /\ UNCHANGED <<orphan, error, cached>>
     \/ /\ proc[p].op = "recover"
        /\ error' = (error \/ failed)
        /\ cached' = cached \ {i}
        /\ Finish(p)
        /\ UNCHANGED orphan
  /\ UNCHANGED <<core, open, linkable, buf, disk, mode, crashes, mix>>

-----------------------------------------------------------------------------
(* The last reference to an inode.                                         *)

\* Descriptors come and go while a name or another descriptor allows it.
open_file(p, i) ==
  /\ MayCall(p, "open")
  /\ Reachable(i) /\ buf.names[i] > 0 /\ i \notin open
  /\ open' = open \cup {i}
  /\ cached' = cached \cup {i}
  /\ UNCHANGED <<core, orphan, linkable, buf, disk, proc, mode, error,
                 crashes, mix>>

close_file(i) ==
  /\ mode = "mounted" /\ i \in open /\ ~Busy(i)
  /\ open' = open \ {i}
  /\ linkable' = linkable \ {i}
  /\ UNCHANGED <<core, cached, orphan, buf, disk, proc, mode, error,
                 crashes, mix>>

\* The last iput() of an inode without links.  (ext4_evict_inode() of one that
\* has links only forgets it; that is left to the unmount.)
iput(p, i) ==
  /\ mode = "mounted" /\ proc[p].pc = "idle"
  /\ i \in cached /\ i \notin open /\ ~Busy(i) /\ core[i].nlink = 0
  /\ Start(p, i, "evict", "evict", "none")
  /\ UNCHANGED <<core, cached, orphan, open, linkable, buf, disk, mode, error,
                 crashes, mix>>

\* ext4_evict_inode() of an inode without links: a handle (that of the caller
\* in "evictn"), size 0, and a truncate of what blocks there are.  Without a
\* handle the inode is forgotten and its deletion left to the next mount.
ext4_evict_inode(p) ==
  LET i == proc[p].ino IN
  /\ proc[p].pc \in {"evict", "evictn"}
  /\ \/ /\ mark_inode_dirty(i, [core[i] EXCEPT !.size = 0])
        /\ IF core[i].blocks > 0
             THEN Call(p, "add", "free") ELSE Call(p, "del", "erase")
        /\ UNCHANGED <<orphan, cached, error>>
     \/ /\ proc[p].pc = "evict" /\ "evict" \in mix.faults
        /\ orphan_del_nohandle(i)
        /\ error' = TRUE
        /\ cached' = cached \ {i}
        /\ Finish(p)
        /\ UNCHANGED <<core, buf>>
  /\ UNCHANGED <<open, linkable, disk, mode, crashes, mix>>

\* The rest of ext4_evict_inode() and ext4_free_inode(): deletion time, inode
\* bitmap, end of the in-core inode.
ext4_free_inode(p) ==
  LET i == proc[p].ino
      r == [core[i] EXCEPT !.next = Dtime] IN
  /\ proc[p].pc = "erase"
  /\ core' = [core EXCEPT ![i] = r]
  /\ buf' = [buf EXCEPT !.ino[i] = r, !.used = @ \ {i}]
  /\ cached' = cached \ {i}
  /\ Finish(p)
  /\ UNCHANGED <<orphan, open, linkable, disk, mode, error, crashes, mix>>

-----------------------------------------------------------------------------
(* Journal, crash, mount and unmount.                                      *)

\* jbd2 commits the running transaction once every handle on it is closed.
jbd2_commit ==
  /\ mode # "unmounted"
  /\ \A p \in Procs : ~InHandle(p)
  /\ disk # buf
  /\ disk' = buf
  /\ UNCHANGED <<core, cached, orphan, open, linkable, buf, proc, mode, error,
                 crashes, mix>>

\* Mutant: orphan cleanup is skipped.
no_orphans == 0

\* With errors recorded in the superblock ext4_orphan_cleanup() only clears the
\* head of the chain.
chain_to_clean == IF error THEN 0 ELSE disk.last

\* A fresh mount of what the disk holds: ext4_orphan_cleanup() comes first.
mount_from_disk ==
  /\ buf' = [disk EXCEPT !.last = chain_to_clean]
  /\ core' = disk.ino
  /\ cached' = {}
  /\ orphan' = <<>>
  /\ open' = {}
  /\ linkable' = {}
  /\ proc' = [p \in Procs |-> Idle]
  /\ mode' = "recovering"
  /\ UNCHANGED <<disk, error, mix>>

Crash ==
  /\ mode # "unmounted" /\ crashes < MaxCrashes
  /\ crashes' = crashes + 1
  /\ mount_from_disk

\* One round of the loop of ext4_orphan_cleanup(): ext4_orphan_get() of the
\* inode at the head of the chain, which is put on the in-memory list and then
\* truncated or, by iput(), deleted.  A bad inode or an earlier error ends it.
ext4_orphan_cleanup(p) ==
  LET i == buf.last IN
  /\ mode = "recovering" /\ AllIdle /\ i # 0
  /\ IF error \/ i \notin buf.used \/ core[i].next > NIno
       THEN /\ buf' = [buf EXCEPT !.last = 0]
            /\ error' = TRUE
            /\ UNCHANGED <<orphan, cached, proc>>
       ELSE /\ list_add(i)
            /\ cached' = cached \cup {i}
            /\ IF core[i].nlink > 0
                 THEN Start(p, i, "recover", "trunc", "none")
                 ELSE Start(p, i, "evict", "evict", "none")
            /\ UNCHANGED <<buf, error>>
  /\ UNCHANGED <<core, open, linkable, disk, mode, crashes, mix>>

\* The chain is empty: ext4_fill_super() goes on to a mounted file system.
mount_done ==
  /\ mode = "recovering" /\ AllIdle /\ buf.last = 0
  /\ mode' = "mounted"
  /\ UNCHANGED <<core, cached, orphan, open, linkable, buf, disk, proc, error,
                 crashes, mix>>

\* ext4_put_super(), after the VFS has closed every file and evicted every
\* inode; the journal is committed.
ext4_put_super ==
  /\ mode = "mounted" /\ AllIdle /\ open = {}
  /\ \A i \in cached : core[i].nlink > 0
  /\ mode' = "unmounted"
  /\ cached' = {}
  /\ disk' = buf
  /\ UNCHANGED <<core, orphan, open, linkable, buf, proc, error, crashes, mix>>

ext4_fill_super ==
  /\ mode = "unmounted"
  /\ mount_from_disk
  /\ UNCHANGED crashes

-----------------------------------------------------------------------------

Step(p) ==
  \/ ext4_orphan_add(p) \/ orphan_add_dirty(p)
  \/ ext4_orphan_del(p) \/ orphan_del_dirty(p)
  \/ page_symlink(p) \/ symlink_link(p) \/ ext4_add_nondir(p)
  \/ close_handle(p)
  \/ dio_transfer(p) \/ dio_end(p) \/ dio_set_size(p)
  \/ ext4_truncate(p) \/ truncate_blocks(p) \/ ext4_truncate_restart_trans(p)
  \/ truncate_stop(p) \/ after_truncate(p)
  \/ ext4_evict_inode(p) \/ ext4_free_inode(p)

SystemCall(p, i) ==
  \/ ext4_create(p, i) \/ ext4_tmpfile(p, i) \/ ext4_unlink(p, i)
  \/ \E j \in Ino : ext4_rename(p, i, j)
  \/ ext4_link(p, i) \/ ext4_symlink(p, i)
  \/ ext4_write_end(p, i) \/ ext4_write_begin(p, i)
  \/ ext4_setattr(p, i) \/ ext4_direct_IO_write(p, i)
  \/ open_file(p, i) \/ close_file(i)

Next ==
  \/ \E p \in Procs : Step(p) \/ ext4_orphan_cleanup(p)
  \/ \E p \in Procs, i \in Ino : SystemCall(p, i) \/ iput(p, i)
  \/ jbd2_commit \/ Crash \/ mount_done \/ ext4_put_super \/ ext4_fill_super

Spec == Init /\ [][Next]_vars

-----------------------------------------------------------------------------
(* Properties.                                                             *)

\* Sequence s is the chain that starts at inode number last and follows the
\* links of the inodes.
IsChain(last, ino, s) ==
  /\ last = IF s = <<>> THEN 0 ELSE s[1]
  /\ \A k \in 1 .. Len(s) :
       /\ ino[s[k]].next = IF k = Len(s) THEN 0 ELSE s[k + 1]
       /\ \A j \in 1 .. Len(s) : s[j] = s[k] => j = k

\* Metadata m as a crash would find it leaves work for the next mount: an
\* unlinked inode to delete or blocks outside i_size to free.
NeedsRecovery(m, i) ==
  i \in m.used /\ (m.ino[i].nlink = 0 \/ m.ino[i].blocks > m.ino[i].size)

\* Whatever instant the machine stops at, the chain of the last committed
\* transaction ends, holds allocated inodes only, and holds every inode that
\* is unlinked or whose truncate is unfinished ("in case we crash before the
\* file is closed/deleted, or in case the truncate spans multiple
\* transactions", comment on ext4_orphan_add).
CommittedOrphansListed ==
  ~error =>
    \E s \in UNION {[1 .. n -> Ino] : n \in 0 .. NIno} :
      /\ IsChain(disk.last, disk.ino, s)
      /\ ToSet(s) \subseteq disk.used
      /\ \A i \in Ino : NeedsRecovery(disk, i) => i \in ToSet(s)

\* The in-memory list of a mounted file system runs through the same inodes in
\* the same order as the chain, which is what lets ext4_orphan_del() unlink an
\* inode from the chain by looking at its neighbour in memory.
ListMirrorsChain ==
  mode = "mounted" => IsChain(buf.last, core, orphan)

\* CommittedOrphansListed as long as the journal grants every handle: then no
\* error excuses an orphan that is not listed.
OrphansListed == mix.faults = {} => ~error /\ CommittedOrphansListed

\* ListMirrorsChain as long as the journal grants every handle.
ListMirrorsDisk == mix.faults = {} => ListMirrorsChain

\* The link count that a transaction commits is the number of directory
\* entries that it commits.
CommittedLinkCounts ==
  \A i \in disk.used : disk.ino[i].nlink = disk.names[i]

\* J_ASSERT(list_empty(&sbi->s_orphan)) in ext4_put_super().
OrphanListEmptyAtUmount == mode = "unmounted" => orphan = <<>>

\* The "orphan list check" of ext4_destroy_inode(): the list never holds an
\* inode whose in-core structure is gone.
NoDanglingOrphan == ToSet(orphan) \subseteq cached

\* No step but a crash frees an inode that a directory entry still names: not
\* an eviction, not ext4_orphan_cleanup(), and not a mount after an unmount.
NamedInodeNeverFreed ==
  [][crashes' = crashes =>
       \A i \in buf.used : buf.names[i] > 0 => i \in buf'.used]_vars

\* When ext4_orphan_cleanup() is done nothing is left to recover, as long as
\* the journal grants every handle.
RecoveryLeavesNothing ==
  [][mode = "recovering" /\ mode' = "mounted" /\ mix.faults = {}
     => \A i \in Ino : ~NeedsRecovery(buf, i)]_vars

\* The scheduler lets every process go on with its call and a mount proceeds.
\* The process that drops the last reference to an inode also evicts it, other
\* calls do not keep it from that: strong fairness of iput, which here finds an
\* idle process again and again.
Fairness ==
  /\ \A p \in Procs : WF_vars(Step(p))
  /\ WF_vars(\E p \in Procs : ext4_orphan_cleanup(p))
  /\ WF_vars(mount_done)
  /\ \A i \in Ino : SF_vars(\E p \in Procs : iput(p, i))

FairSpec == Spec /\ Fairness

\* An inode that has neither names nor descriptors is freed in the end, if
\* need be by the mount that follows a crash.
UnlinkedEventuallyFreed ==
  \A i \in Ino :
    (mode = "mounted" /\ i \in buf.used /\ buf.names[i] = 0 /\ i \notin open)
      ~> (i \notin buf.used \/ buf.names[i] > 0)

=============================================================================
