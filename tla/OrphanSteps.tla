---------------------------- MODULE OrphanSteps ----------------------------
(***************************************************************************)
(* The inductive invariant BaseInv of the orphan list, which holds         *)
(* whatever handles are refused, what the building blocks of the actions   *)
(* do, and that every step keeps the invariant: the steps of a process in  *)
(* a call, the beginning of a call, mounts, recovery, commits and crashes. *)
(***************************************************************************)
EXTENDS Orphan, ListLemmas


-----------------------------------------------------------------------------
(* The inductive invariant.                                                *)

\* The callers of ext4_truncate() other than ext4_evict_inode().
Truncating == {"setattr", "write", "diofail", "recover"}

\* Where process record w may be in the call that it executes, and where the
\* subroutine that it is in returns to.
Flow(w) ==
  /\ w.pc = "idle" => w = Idle
  /\ w.pc # "idle" => w.ino # 0
  /\ w.pc \in {"add", "addmark"} =>
       \/ /\ w.ret = "added"
          /\ w.op \in {"unlink", "rename", "tmpfile", "symlink", "setattr",
                       "write", "dio"}
       \/ w.ret = "free" /\ w.op \in Truncating \cup {"evict"}
  /\ w.pc = "added" => w.op \in {"unlink", "rename", "tmpfile", "link",
                                 "symlink", "setattr", "write", "dio"}
  /\ w.pc \in {"trunc", "tdone", "tail"} => w.op \in Truncating
  /\ w.pc = "tailerr" => w.op \in Truncating \ {"recover"}
  /\ w.pc \in {"free", "restart"} => w.op \in Truncating \cup {"evict"}
  /\ w.pc \in {"del", "delmark"} =>
       \/ w.ret = "added" /\ w.op = "link"
       \/ w.ret = "tdone" /\ w.op \in Truncating
       \/ w.ret = "erase" /\ w.op = "evict"
       \/ w.ret = "dset" /\ w.op \in {"dio", "diofail"}
       \/ w.ret = "named" /\ w.op = "symlink"
  /\ w.pc = "io" => w.op = "dio"
  /\ w.pc \in {"dioend", "dset"} => w.op \in {"dio", "diofail"}
  /\ w.pc \in {"page", "symlink2", "named"} => w.op = "symlink"
  /\ w.pc \in {"evict", "evictn", "erase"} => w.op = "evict"

\* w has changed its in-core inode in its handle and not marked it dirty yet.
Dirty(w) ==
  \/ w.pc \in {"addmark", "named", "evictn"}
  \/ w.pc \in {"add", "added"} /\ w.op \in {"unlink", "rename"}
  \/ w.pc = "add" /\ w.op = "symlink"
  \/ w.pc \in {"del", "delmark"} /\ w.op = "symlink"

\* What process record w (Idle for an inode that is nobody's) says about its
\* inode: r in core, b in the buffer, n names, on the in-memory list or not.
Fits(w, r, b, n, on) ==
  /\ r.size <= r.blocks
  /\ r.nlink = IF w.op = "symlink" /\ w.pc \in {"del", "delmark", "named"}
                 THEN n + 1 ELSE n
  /\ w.op \in {"unlink", "rename", "tmpfile", "symlink", "evict"} => n = 0
  /\ w.op \in {"link", "recover"} => n > 0
  /\ Dirty(w) \/ b = r
  /\ w.pc = "idle" /\ on => n = 0
  /\ w.pc = "add" /\ w.op \in {"tmpfile", "symlink"} => ~on /\ r.next = 0
  /\ w.pc \in {"addmark", "trunc", "free", "restart", "io", "page",
               "symlink2"} => on
  /\ w.pc = "added" => (on <=> w.op # "link")
  /\ w.pc \in {"delmark", "named", "evictn", "erase"} => ~on
  /\ w.pc \in {"tdone", "tail", "dset"} /\ n > 0 => ~on
  /\ w.op = "dio" => IF w.pc \in {"add", "addmark", "added", "io"}
                       THEN r.blocks < MaxBlocks ELSE r.size < r.blocks

FitsAt(w, i) == Fits(w, core[i], buf.ino[i], buf.names[i], OnList(i))

\* Nobody shares an inode, every inode fits the process that has it, and the
\* in-memory list holds inodes in use.
OwnInv ==
  /\ \A p \in Procs : Flow(proc[p])
  /\ \A p, q \in Procs : proc[p].ino = proc[q].ino /\ proc[p].ino # 0 => p = q
  /\ \A p \in Procs : proc[p].ino # 0 =>
       proc[p].ino \in cached /\ FitsAt(proc[p], proc[p].ino)
  /\ \A i \in buf.used : ~Busy(i) => FitsAt(Idle, i)

ListInv ==
  /\ cached \subseteq buf.used
  /\ NoDup(orphan)
  /\ \A i \in Ino : OnList(i) => i \in cached
  /\ mode # "mounted" => \A i \in Ino : OnList(i) => Busy(i)

ModeInv ==
  /\ mode = "recovering" =>
       \A p \in Procs : proc[p].op \in {"none", "evict", "recover"}
  /\ mode = "unmounted" => AllIdle

DiskInv ==
  \A i \in disk.used : /\ disk.ino[i].nlink = disk.names[i]
                       /\ disk.ino[i].size <= disk.ino[i].blocks

BaseInv ==
  TypeOK /\ mix \in Mix /\ OwnInv /\ ListInv /\ ModeInv /\ DiskInv

-----------------------------------------------------------------------------
(* What the building blocks of the actions do.                             *)

ProcRec == [pc : Pcs, ino : 0 .. NIno, op : Calls, ret : Pcs \cup {"none"}]

\* Process p goes from one record to another and nobody else moves.
Moves(p, w) ==
  /\ proc' \in [Procs -> ProcRec]
  /\ proc'[p] = w
  /\ \A q \in Procs \ {p} : proc'[q] = proc[q]

\* Process p in the same call, or another one on the same inode.
At(p, l, o, t) == [pc |-> l, ino |-> proc[p].ino, op |-> o, ret |-> t]

\* The four ways a process moves.
LEMMA MoveFacts ==
  ASSUME TypeOK, NEW p \in Procs
  PROVE  /\ \A l \in Pcs : Goto(p, l) =>
              Moves(p, At(p, l, proc[p].op, proc[p].ret))
         /\ \A l \in Pcs, r \in Pcs : Call(p, l, r) =>
              Moves(p, At(p, l, proc[p].op, r))
         /\ \A i \in Ino, o \in Calls, l \in Pcs, r \in Pcs \cup {"none"} :
              Start(p, i, o, l, r) =>
                Moves(p, [pc |-> l, ino |-> i, op |-> o, ret |-> r])
         /\ \A o \in Calls, l \in Pcs, r \in Pcs \cup {"none"} :
              proc[p].ino \in Ino /\ Start(p, proc[p].ino, o, l, r) =>
                Moves(p, At(p, l, o, r))
         /\ Finish(p) => Moves(p, Idle)
<1> USE DEF TypeOK, ProcRec
<1>1. ASSUME NEW l \in Pcs, Goto(p, l)
      PROVE  Moves(p, At(p, l, proc[p].op, proc[p].ret))
  BY <1>1 DEF Goto, Moves, At
<1>2. ASSUME NEW l \in Pcs, NEW r \in Pcs, Call(p, l, r)
      PROVE  Moves(p, At(p, l, proc[p].op, r))
  BY <1>2, Zenon DEF Call, Moves, At
<1>3. ASSUME NEW i \in Ino, NEW o \in Calls, NEW l \in Pcs,
             NEW r \in Pcs \cup {"none"}, Start(p, i, o, l, r)
      PROVE  Moves(p, [pc |-> l, ino |-> i, op |-> o, ret |-> r])
  BY <1>3, ConstantsAssumption DEF Start, Moves, Ino
<1>4. ASSUME NEW o \in Calls, NEW l \in Pcs, NEW r \in Pcs \cup {"none"},
             proc[p].ino \in Ino, Start(p, proc[p].ino, o, l, r)
      PROVE  Moves(p, At(p, l, o, r))
  BY <1>4, <1>3 DEF At
<1>5. ASSUME Finish(p) PROVE Moves(p, Idle)
  BY <1>5, ConstantsAssumption DEF Finish, Moves, Idle, Pcs, Calls
<1> QED BY <1>1, <1>2, <1>3, <1>4, <1>5

\* Only inode i changes in core and in the buffer, to r.
Marked(i, r) ==
  /\ core' \in [Ino -> InodeRec] /\ buf' \in Metadata
  /\ core'[i] = r /\ buf'.ino[i] = r
  /\ \A j \in Ino \ {i} : core'[j] = core[j] /\ buf'.ino[j] = buf.ino[j]
  /\ buf'.names = buf.names /\ buf'.used = buf.used /\ buf'.last = buf.last

LEMMA MarkFacts ==
  ASSUME TypeOK, NEW i \in Ino, NEW r \in InodeRec, mark_inode_dirty(i, r)
  PROVE  Marked(i, r)
BY Zenon DEF TypeOK, mark_inode_dirty, Marked, Metadata

\* Another size and another number of blocks.
LEMMA NoInodeZero == 0 \notin Ino
  BY ConstantsAssumption DEF Ino

LEMMA NextInode ==
  ASSUME NEW i \in Ino
  PROVE  i \in 0 .. Dtime
  BY ConstantsAssumption DEF Ino, Dtime

LEMMA BufferFacts ==
  ASSUME TypeOK
  PROVE  /\ buf.last \in 0 .. Dtime
         /\ \A i \in Ino : buf.names[i] \in 0 .. LinkMax /\ buf.names[i] \in Nat
  BY ConstantsAssumption DEF TypeOK, Metadata

LEMMA IdleFacts ==
  Idle.pc = "idle" /\ Idle.ino = 0 /\ Idle.op = "none" /\ Flow(Idle)
  BY Zenon DEF Idle, Flow

\* The numbers of an inode, and what setting one of them leaves of the others.
LEMMA Counts ==
  ASSUME NEW r \in InodeRec
  PROVE  /\ r.nlink \in Nat /\ r.size \in Nat /\ r.blocks \in Nat
         /\ r.nlink <= LinkMax /\ r.size <= MaxBlocks /\ r.blocks <= MaxBlocks
  BY ConstantsAssumption DEF InodeRec

LEMMA SizeSet ==
  ASSUME NEW r \in InodeRec, NEW a
  PROVE  LET s == [r EXCEPT !.size = a]
         IN  /\ s.nlink = r.nlink /\ s.size = a /\ s.blocks = r.blocks
             /\ a \in 0 .. MaxBlocks => s \in InodeRec
  BY DEF InodeRec

LEMMA BlocksSet ==
  ASSUME NEW r \in InodeRec, NEW a
  PROVE  LET s == [r EXCEPT !.blocks = a]
         IN  /\ s.nlink = r.nlink /\ s.size = r.size /\ s.blocks = a
             /\ a \in 0 .. MaxBlocks => s \in InodeRec
  BY DEF InodeRec

LEMMA Resized ==
  ASSUME NEW r \in InodeRec, NEW a \in 0 .. MaxBlocks, NEW b \in 0 .. MaxBlocks
  PROVE  [r EXCEPT !.size = a, !.blocks = b] \in InodeRec
<1> DEFINE s == [r EXCEPT !.size = a]
           t == [r EXCEPT !.size = a, !.blocks = b]
<1>1. s \in InodeRec
  BY DEF InodeRec
<1>2. t = [s EXCEPT !.blocks = b]
  BY DEF InodeRec
<1> HIDE DEF s, t
<1>3. t \in InodeRec
  BY <1>1, <1>2 DEF InodeRec
<1> QED BY <1>3 DEF t

\* The metadata buffers, part by part.
Meta(l, t, u, n) == [last |-> l, ino |-> t, used |-> u, names |-> n]

\* The changes of more than one part.
Named(m, i, n, r) == [m EXCEPT !.names[i] = n, !.ino[i] = r]
Created(m, i, n, r) ==
  [m EXCEPT !.ino[i] = r, !.used = @ \cup {i}, !.names[i] = n]
Freed(m, i, r) == [m EXCEPT !.ino[i] = r, !.used = @ \ {i}]

LEMMA MetaNamed ==
  ASSUME NEW m \in Metadata, NEW i \in Ino, NEW n, NEW r
  PROVE  Named(m, i, n, r) =
           Meta(m.last, [m.ino EXCEPT ![i] = r], m.used, [m.names EXCEPT ![i] = n])
<1> DEFINE c == [m EXCEPT !.names[i] = n]
<1>1. c = Meta(m.last, m.ino, m.used, [m.names EXCEPT ![i] = n])
  BY DEF Metadata, Meta
<1>2. Named(m, i, n, r) = [c EXCEPT !.ino[i] = r]
  BY DEF Metadata, Named
<1> HIDE DEF c
<1>3. [c EXCEPT !.ino[i] = r] =
        Meta(m.last, [m.ino EXCEPT ![i] = r], m.used, [m.names EXCEPT ![i] = n])
  BY <1>1 DEF Meta
<1> QED BY <1>2, <1>3

LEMMA MetaCreated ==
  ASSUME NEW m \in Metadata, NEW i \in Ino, NEW n, NEW r
  PROVE  Created(m, i, n, r) =
           Meta(m.last, [m.ino EXCEPT ![i] = r], m.used \cup {i},
                [m.names EXCEPT ![i] = n])
<1> DEFINE c == [m EXCEPT !.ino[i] = r]
           d == [c EXCEPT !.used = @ \cup {i}]
<1>1. c = Meta(m.last, [m.ino EXCEPT ![i] = r], m.used, m.names)
  BY DEF Metadata, Meta
<1>2. Created(m, i, n, r) = [d EXCEPT !.names[i] = n]
  BY DEF Metadata, Created
<1> HIDE DEF c
<1>3. d = Meta(m.last, [m.ino EXCEPT ![i] = r], m.used \cup {i}, m.names)
  BY <1>1 DEF Meta
<1> HIDE DEF d
<1>4. [d EXCEPT !.names[i] = n] =
        Meta(m.last, [m.ino EXCEPT ![i] = r], m.used \cup {i},
             [m.names EXCEPT ![i] = n])
  BY <1>3 DEF Meta
<1> QED BY <1>2, <1>4

LEMMA MetaFreed ==
  ASSUME NEW m \in Metadata, NEW i \in Ino, NEW r
  PROVE  Freed(m, i, r) =
           Meta(m.last, [m.ino EXCEPT ![i] = r], m.used \ {i}, m.names)
<1> DEFINE c == [m EXCEPT !.ino[i] = r]
<1>1. c = Meta(m.last, [m.ino EXCEPT ![i] = r], m.used, m.names)
  BY DEF Metadata, Meta
<1>2. Freed(m, i, r) = [c EXCEPT !.used = @ \ {i}]
  BY DEF Metadata, Freed
<1> HIDE DEF c
<1> QED BY <1>1, <1>2, Zenon DEF Meta

\* Only the list entry of inode i comes or goes.
LEMMA ListFacts ==
  ASSUME TypeOK, NoDup(orphan), NEW i \in Ino
  PROVE  /\ ~OnList(i) /\ list_add(i) =>
              /\ orphan' \in Seq(Ino) /\ NoDup(orphan')
              /\ \A j \in Ino : OnList(j)' <=> OnList(j) \/ j = i
         /\ OnList(i) => Pos(i) \in 1 .. Len(orphan) /\ orphan[Pos(i)] = i
         /\ OnList(i) /\ list_del_init(i) =>
              /\ orphan' \in Seq(Ino) /\ NoDup(orphan')
              /\ \A j \in Ino : OnList(j)' <=> OnList(j) /\ j # i
         /\ orphan_del_nohandle(i) =>
              /\ orphan' \in Seq(Ino) /\ NoDup(orphan')
              /\ \A j \in Ino : OnList(j)' <=> OnList(j) /\ j # i
<1>0. orphan \in Seq(Ino)
  BY DEF TypeOK
<1>1. ASSUME ~OnList(i), list_add(i)
      PROVE  /\ orphan' \in Seq(Ino) /\ NoDup(orphan')
             /\ \A j \in Ino : OnList(j)' <=> OnList(j) \/ j = i
  <2>1. /\ NoDup(<<i>> \o orphan) /\ <<i>> \o orphan \in Seq(Ino)
        /\ \A x : Contains(<<i>> \o orphan, x) <=> Contains(orphan, x) \/ x = i
    BY <1>0, <1>1, AddMembers, Zenon DEF OnList
  <2> QED BY <1>1, <2>1 DEF list_add, OnList
<1>2. ASSUME OnList(i)
      PROVE  Pos(i) \in 1 .. Len(orphan) /\ orphan[Pos(i)] = i
  BY <1>2 DEF OnList, Contains, Pos
<1>3. ASSUME OnList(i), list_del_init(i)
      PROVE  /\ orphan' \in Seq(Ino) /\ NoDup(orphan')
             /\ \A j \in Ino : OnList(j)' <=> OnList(j) /\ j # i
  <2>1. RemoveAt(orphan, Pos(i)) \in Seq(Ino)
    BY <1>0, <1>2, <1>3, RemoveAtSeq
  <2>2. /\ NoDup(RemoveAt(orphan, Pos(i)))
        /\ \A x : Contains(RemoveAt(orphan, Pos(i)), x) <=>
                    Contains(orphan, x) /\ x # orphan[Pos(i)]
    BY <1>0, <1>2, <1>3, RemoveAtMembers
  <2> QED BY <1>2, <1>3, <2>1, <2>2 DEF list_del_init, OnList
<1>4. ASSUME orphan_del_nohandle(i)
      PROVE  /\ orphan' \in Seq(Ino) /\ NoDup(orphan')
             /\ \A j \in Ino : OnList(j)' <=> OnList(j) /\ j # i
  <2>1. CASE OnList(i)
    BY <1>3, <1>4, <2>1 DEF orphan_del_nohandle
  <2>2. CASE ~OnList(i)
    <3>1. orphan' = orphan
      BY <1>4, <2>2 DEF orphan_del_nohandle
    <3> QED BY <1>0, <2>2, <3>1 DEF OnList
  <2> QED BY <2>1, <2>2
<1> QED BY <1>1, <1>2, <1>3, <1>4

-----------------------------------------------------------------------------
(* What the invariant says of a process and of an inode.                   *)

\* A process in a call: what BaseInv says about it.
LEMMA AtWork ==
  ASSUME BaseInv, NEW p \in Procs, proc[p].pc # "idle"
  PROVE  LET i == proc[p].ino IN
         /\ i \in Ino /\ i \in cached /\ i \in buf.used
         /\ Flow(proc[p]) /\ FitsAt(proc[p], i)
         /\ proc[p] \in ProcRec /\ core[i] \in InodeRec
         /\ mode # "unmounted"
         /\ mode = "recovering" => proc[p].op \in {"evict", "recover"}
<1>1. proc[p] \in ProcRec /\ Flow(proc[p])
  BY DEF BaseInv, TypeOK, OwnInv, ProcRec
<1>2. proc[p].ino \in Ino
  BY <1>1, ConstantsAssumption DEF ProcRec, Flow, Ino
<1>3. proc[p].ino \in cached /\ FitsAt(proc[p], proc[p].ino)
  BY <1>2, ConstantsAssumption DEF BaseInv, OwnInv, Ino
<1>4. proc[p].op # "none"
  BY <1>1 DEF Flow, ProcRec, Pcs, Truncating
<1> QED
  BY <1>1, <1>2, <1>3, <1>4 DEF BaseInv, TypeOK, ListInv, ModeInv, AllIdle

\* An idle process and an inode that is nobody's.
LEMMA CallFacts ==
  ASSUME BaseInv, NEW p \in Procs, proc[p].pc = "idle", NEW i \in Ino,
         i \in buf.used, ~Busy(i)
  PROVE  /\ TypeOK /\ proc[p].ino = 0 /\ proc[p] = Idle
         /\ core[i] \in InodeRec /\ buf.ino[i] = core[i]
         /\ core[i].nlink = buf.names[i] /\ buf.names[i] \in 0 .. LinkMax
         /\ core[i].size <= core[i].blocks
         /\ OnList(i) => buf.names[i] = 0
         /\ cached \subseteq buf.used /\ open \subseteq Ino /\ linkable \subseteq Ino
<1>1. Flow(proc[p]) /\ FitsAt(Idle, i)
  BY DEF BaseInv, OwnInv
<1>2. TypeOK /\ cached \subseteq buf.used /\ i # 0
  BY ConstantsAssumption DEF BaseInv, ListInv, Ino
<1>3. proc[p] = Idle
  BY <1>1 DEF Flow
<1>4. /\ core[i] \in InodeRec /\ buf.names[i] \in 0 .. LinkMax
      /\ open \subseteq Ino /\ linkable \subseteq Ino
  BY <1>2 DEF TypeOK, Metadata
<1>5. Idle.ino = 0 /\ Idle.pc = "idle" /\ Idle.op = "none"
  BY Zenon DEF Idle
<1> QED BY <1>1, <1>2, <1>3, <1>4, <1>5, Zenon DEF FitsAt, Fits, Dirty

\* A process that has started call o on inode i.
Doing(i, o, l, t) == [pc |-> l, ino |-> i, op |-> o, ret |-> t]

\* While every process is idle no inode is anybody's.
LEMMA NobodyBusy ==
  ASSUME BaseInv, AllIdle
  PROVE  /\ \A p \in Procs : proc[p] = Idle /\ proc[p].ino = 0
         /\ \A i \in Ino : ~Busy(i)
         /\ \A i \in buf.used : i \in Ino /\ FitsAt(Idle, i)
<1>1. \A p \in Procs : proc[p] = Idle /\ proc[p].ino = 0
  BY DEF BaseInv, OwnInv, AllIdle, Flow, Idle
<1>2. \A i \in Ino : ~Busy(i)
  BY <1>1, ConstantsAssumption DEF Busy, Ino
<1> QED BY <1>1, <1>2 DEF BaseInv, OwnInv, TypeOK, Metadata

\* With no handle open everything in core has been marked dirty.
LEMMA BuffersConsistent ==
  ASSUME BaseInv, \A p \in Procs : ~InHandle(p)
  PROVE  \A i \in buf.used : /\ buf.ino[i] = core[i]
                             /\ buf.ino[i].nlink = buf.names[i]
                             /\ buf.ino[i].size <= buf.ino[i].blocks
<1> SUFFICES ASSUME NEW i \in buf.used
             PROVE  /\ buf.ino[i] = core[i]
                    /\ core[i].nlink = buf.names[i]
                    /\ core[i].size <= core[i].blocks
  BY Zenon
<1>0. i \in Ino /\ i # 0
  BY ConstantsAssumption DEF BaseInv, TypeOK, Metadata, Ino
<1>1. CASE Busy(i)
  <2>1. PICK p \in Procs : proc[p].ino = i
    BY <1>1 DEF Busy
  <2>2. FitsAt(proc[p], i) /\ proc[p].pc \notin HandlePcs
    BY <1>0, <2>1 DEF BaseInv, OwnInv, InHandle
  <2> QED BY <2>2 DEF FitsAt, Fits, Dirty, HandlePcs
<1>2. CASE ~Busy(i)
  <2>1. FitsAt(Idle, i)
    BY <1>2 DEF BaseInv, OwnInv
  <2> QED BY <2>1 DEF FitsAt, Fits, Dirty, Idle
<1> QED BY <1>1, <1>2


-----------------------------------------------------------------------------
(* Most steps are of one process on one inode.                             *)

\* What such a step leaves of another inode j.  Only ext4_orphan_del() touches
\* one, the neighbour on the list, whose link it changes.
Kept(j) ==
  /\ \/ core'[j] = core[j] /\ buf'.ino[j] = buf.ino[j]
     \/ /\ OnList(j) /\ buf'.ino[j] = core'[j]
        /\ core'[j].nlink = core[j].nlink /\ core'[j].size = core[j].size
        /\ core'[j].blocks = core[j].blocks
  /\ buf'.names[j] = buf.names[j]
  /\ j \in buf'.used <=> j \in buf.used
  /\ j \in cached => j \in cached'
  /\ Contains(orphan', j) <=> OnList(j)

\* Inode i after the step fits process record w.
FitsNext(w, i) ==
  Fits(w, core'[i], buf'.ino[i], buf'.names[i], Contains(orphan', i))

\* A step of process p on inode i, after which p is done with it or it fits the
\* new place of p.
LocalStep(p, i) ==
  /\ UNCHANGED <<mix, disk, mode>> /\ mode # "unmounted"
  /\ proc[p].ino = i \/ (proc[p].ino = 0 /\ ~Busy(i))
  /\ \A q \in Procs \ {p} : proc'[q] = proc[q]
  /\ \A j \in Ino \ {i} : Kept(j)
  /\ proc'[p].ino \in {0, i} /\ Flow(proc'[p])
  /\ proc'[p].ino = i => i \in cached' /\ FitsNext(proc'[p], i)
  /\ proc'[p].ino = 0 => /\ i \in buf'.used => FitsNext(Idle, i)
                         /\ Contains(orphan', i) => mode = "mounted"
  /\ mode = "recovering" => proc'[p].op \in {"none", "evict", "recover"}
  /\ cached' \subseteq buf'.used
  /\ NoDup(orphan') /\ (Contains(orphan', i) => i \in cached')

LEMMA LocalStepInv ==
  ASSUME BaseInv, TypeOK', NEW p \in Procs, NEW i \in Ino, LocalStep(p, i)
  PROVE  BaseInv'
<1> USE DEF LocalStep
<1>1. ASSUME NEW j \in Ino \ {i}, NEW w, FitsAt(w, j), Kept(j)
      PROVE  FitsNext(w, j)
  <2>1. Contains(orphan', j) = Contains(orphan, j)
    BY <1>1 DEF Kept, OnList, Contains
  <2>2. CASE core'[j] = core[j] /\ buf'.ino[j] = buf.ino[j]
    BY <1>1, <2>1, <2>2, Zenon DEF FitsAt, FitsNext, Kept, OnList
  <2>3. CASE /\ OnList(j) /\ buf'.ino[j] = core'[j]
             /\ core'[j].nlink = core[j].nlink /\ core'[j].size = core[j].size
             /\ core'[j].blocks = core[j].blocks
    BY <1>1, <2>1, <2>3, Zenon DEF FitsAt, FitsNext, Fits, Kept, OnList
  <2> QED BY <1>1, <2>2, <2>3, Zenon DEF Kept
<1>0. 0 \notin Ino /\ \A k \in 0 .. NIno : k # 0 => k \in Ino
  BY ConstantsAssumption DEF Ino
<1>2. proc \in [Procs -> ProcRec] /\ proc' \in [Procs -> ProcRec]
  BY Zenon DEF BaseInv, TypeOK, ProcRec
<1>3. ASSUME NEW q \in Procs \ {p}, proc[q].ino # 0
      PROVE  proc[q].ino \in Ino \ {i}
  <2>1. proc[q].ino \in 0 .. NIno
    BY <1>2, <1>3 DEF ProcRec
  <2>2. proc[q].ino # i
    BY <1>3, Zenon DEF BaseInv, OwnInv, Busy
  <2> QED BY <1>0, <1>3, <2>1, <2>2, Zenon
<1>4. /\ \A q \in Procs : Flow(proc'[q])
      /\ \A q, r \in Procs : proc'[q].ino = proc'[r].ino /\ proc'[q].ino # 0 => q = r
  BY <1>0, <1>3 DEF BaseInv, OwnInv
<1>5. ASSUME NEW q \in Procs, proc'[q].ino # 0
      PROVE  proc'[q].ino \in cached' /\ FitsNext(proc'[q], proc'[q].ino)
  <2>1. CASE q = p
    BY <1>5, <2>1, Zenon
  <2>2. CASE q # p
    <3>1. proc'[q] = proc[q] /\ proc[q].ino \in Ino \ {i}
      BY <1>3, <1>5, <2>2, Zenon
    <3>2. proc[q].ino \in cached /\ FitsAt(proc[q], proc[q].ino) /\ Kept(proc[q].ino)
      BY <1>0, <3>1, Zenon DEF BaseInv, OwnInv
    <3>3. proc[q].ino \in cached'
      BY <3>2, Zenon DEF Kept
    <3>4. FitsNext(proc[q], proc[q].ino)
      BY <1>1, <3>1, <3>2, Zenon
    <3> QED BY <3>1, <3>3, <3>4, Zenon
  <2> QED BY <2>1, <2>2, Zenon
<1>6. ASSUME NEW j \in buf'.used, ~Busy(j)' PROVE FitsNext(Idle, j)
  <2>1. CASE j = i
    <3>1. proc'[p].ino # i
      BY <1>6, <2>1, Zenon DEF Busy
    <3> QED BY <1>6, <2>1, <3>1, Zenon
  <2>2. CASE j # i
    <3>1. j \in Ino \ {i} /\ Kept(j)
      BY <2>2, Zenon DEF TypeOK, Metadata
    <3>2. j \in buf.used /\ ~Busy(j)
      <4>1. j \in buf.used /\ j # 0 /\ j # i
        BY <1>0, <1>6, <3>1, Zenon DEF Kept
      <4>2. ASSUME NEW q \in Procs, proc[q].ino = j PROVE FALSE
        <5>1. q # p
          BY <4>1, <4>2, Zenon
        <5> QED BY <1>6, <4>2, <5>1, Zenon DEF Busy
      <4> QED BY <4>1, <4>2, Zenon DEF Busy
    <3>3. FitsAt(Idle, j)
      BY <3>2, Zenon DEF BaseInv, OwnInv
    <3> QED BY <1>1, <3>1, <3>3, Zenon
  <2> QED BY <2>1, <2>2, Zenon
<1>7. OwnInv'
  BY <1>4, <1>5, <1>6, Zenon DEF OwnInv, FitsAt, FitsNext, OnList
<1>8. ListInv'
  <2>1. ASSUME NEW j \in Ino, OnList(j)' PROVE j \in cached'
    BY <2>1, Zenon DEF Kept, BaseInv, ListInv, OnList
  <2>2. ASSUME NEW j \in Ino, OnList(j)', mode # "mounted" PROVE Busy(j)'
    <3>1. CASE j = i
      BY <2>2, <3>1, Zenon DEF Busy, OnList
    <3>2. CASE j # i
      <4>1. OnList(j) /\ Busy(j)
        BY <2>2, <3>2, Zenon DEF Kept, BaseInv, ListInv, OnList
      <4>2. PICK q \in Procs : proc[q].ino = j
        BY <4>1, Zenon DEF Busy
      <4>3. q # p
        BY <1>0, <3>2, <4>2, Zenon
      <4> QED BY <4>2, <4>3, Zenon DEF Busy
    <3> QED BY <3>1, <3>2, Zenon
  <2> QED BY <2>1, <2>2, Zenon DEF ListInv
<1>9. ModeInv' /\ DiskInv' /\ mix' \in Mix
  BY Zenon DEF BaseInv, ModeInv, DiskInv
<1> QED BY <1>7, <1>8, <1>9, Zenon DEF BaseInv

-----------------------------------------------------------------------------
(* The steps of a process keep BaseInv.                                    *)

\* Inode i changes to r in core and b in the buffer, with n names.
Altered(i, r, b, n) ==
  /\ core' \in [Ino -> InodeRec] /\ buf' \in Metadata
  /\ core'[i] = r /\ buf'.ino[i] = b /\ buf'.names[i] = n
  /\ \A j \in Ino \ {i} : /\ core'[j] = core[j]
                          /\ buf'.ino[j] = buf.ino[j]
                          /\ buf'.names[j] = buf.names[j]
  /\ buf'.used = buf.used

LEMMA AlterFacts ==
  ASSUME TypeOK, NEW i \in Ino
  PROVE  /\ \A r \in InodeRec :
              mark_inode_dirty(i, r) => Altered(i, r, r, buf.names[i])
         /\ UNCHANGED <<core, buf>> =>
              Altered(i, core[i], buf.ino[i], buf.names[i])
         /\ \A r \in InodeRec : core' = [core EXCEPT ![i] = r] /\ UNCHANGED buf =>
              Altered(i, r, buf.ino[i], buf.names[i])
<1>1. ASSUME NEW r \in InodeRec, mark_inode_dirty(i, r)
      PROVE  Altered(i, r, r, buf.names[i])
  BY <1>1, MarkFacts, Zenon DEF Marked, Altered
<1>2. ASSUME UNCHANGED <<core, buf>>
      PROVE  Altered(i, core[i], buf.ino[i], buf.names[i])
  BY <1>2, Zenon DEF Altered, TypeOK
<1>3. ASSUME NEW r \in InodeRec, core' = [core EXCEPT ![i] = r], UNCHANGED buf
      PROVE  Altered(i, r, buf.ino[i], buf.names[i])
  BY <1>3, Zenon DEF Altered, TypeOK
<1> QED BY <1>1, <1>2, <1>3, Zenon

\* The same with another head of the chain.
LEMMA AlterHead ==
  ASSUME TypeOK, NEW i \in Ino, NEW r \in InodeRec, NEW l \in 0 .. Dtime,
         core' = [core EXCEPT ![i] = r], buf' = [buf EXCEPT !.last = l]
  PROVE  Altered(i, r, buf.ino[i], buf.names[i])
BY Zenon DEF Altered, TypeOK, Metadata

\* A step of process p on inode i that leaves the in-memory list alone and after
\* which p, now in w, fits what it has made of the inode.
LEMMA WorkStep ==
  ASSUME BaseInv, NEW p \in Procs, NEW i \in Ino, i \in buf.used,
         mode # "unmounted", proc[p].ino = i \/ (proc[p].ino = 0 /\ ~Busy(i)),
         UNCHANGED <<orphan, disk, mode, error, crashes, mix>>,
         open' \subseteq Ino, linkable' \subseteq Ino,
         cached \cup {i} \subseteq cached', cached' \subseteq buf.used,
         NEW r, NEW b, NEW n, Altered(i, r, b, n),
         NEW w, Moves(p, w), w.ino \in {0, i}, Flow(w),
         w.ino = i => Fits(w, r, b, n, OnList(i)),
         w.ino = 0 => /\ Fits(Idle, r, b, n, OnList(i))
                      /\ OnList(i) => mode = "mounted",
         mode = "recovering" => w.op \in {"none", "evict", "recover"}
  PROVE  BaseInv'
<1>1. buf.used \subseteq Ino /\ NoDup(orphan) /\ (OnList(i) => i \in cached)
  BY Zenon DEF BaseInv, TypeOK, ListInv, Metadata
<1>2. TypeOK'
  BY <1>1, Zenon DEF BaseInv, TypeOK, Altered, Moves, ProcRec
<1>3. \A j \in Ino \ {i} : Kept(j)
  BY Zenon DEF Altered, Kept, OnList
<1>4. LocalStep(p, i)
  BY <1>1, <1>3, Zenon DEF LocalStep, Altered, Moves, FitsNext, OnList
<1> QED BY <1>2, <1>4, LocalStepInv, Zenon

\* The same for a process that goes on in its call.
LEMMA Onward ==
  ASSUME BaseInv, NEW p \in Procs, proc[p].pc # "idle",
         UNCHANGED <<cached, orphan, open, linkable, disk, mode, error, crashes,
                     mix>>,
         NEW r, NEW b, NEW n, Altered(proc[p].ino, r, b, n),
         NEW w, Moves(p, w), w.ino \in {0, proc[p].ino}, Flow(w),
         w.ino # 0 => Fits(w, r, b, n, OnList(proc[p].ino)),
         w.ino = 0 => /\ Fits(Idle, r, b, n, OnList(proc[p].ino))
                      /\ proc[p].op \in {"evict", "recover"} =>
                           ~OnList(proc[p].ino),
         proc[p].op \in {"evict", "recover"} =>
           w.op \in {"none", "evict", "recover"}
  PROVE  BaseInv'
<1>1. /\ proc[p].ino \in Ino /\ proc[p].ino \in cached /\ proc[p].ino \in buf.used
      /\ mode # "unmounted"
      /\ mode = "recovering" => proc[p].op \in {"evict", "recover"}
  BY AtWork, Zenon
<1>2. /\ open' \subseteq Ino /\ linkable' \subseteq Ino
      /\ cached \cup {proc[p].ino} \subseteq cached' /\ cached' \subseteq buf.used
      /\ mode \in {"mounted", "recovering", "unmounted"}
  BY <1>1, Zenon DEF BaseInv, TypeOK, ListInv
<1>3. proc[p].ino # 0
  BY <1>1, ConstantsAssumption DEF Ino
<1> QED BY <1>1, <1>2, <1>3, WorkStep, Zenon

Quiet == UNCHANGED <<cached, orphan, open, linkable, disk, mode, error, crashes,
                     mix>>

LEMMA OnwardTo ==
  ASSUME BaseInv, NEW p \in Procs, proc[p].pc # "idle", Quiet,
         NEW r, NEW b, NEW n, Altered(proc[p].ino, r, b, n),
         NEW l \in Pcs, NEW o \in Calls, NEW t,
         Moves(p, At(p, l, o, t)), Flow(At(p, l, o, t)),
         Fits(At(p, l, o, t), r, b, n, OnList(proc[p].ino)),
         proc[p].op \in {"evict", "recover"} => o \in {"evict", "recover"}
  PROVE  BaseInv'
<1> DEFINE w == At(p, l, o, t)
<1>1. proc[p].ino \in Ino
  BY AtWork, Zenon
<1>2. w.ino = proc[p].ino /\ w.op = o /\ w.ino # 0
  BY <1>1, NoInodeZero, Zenon DEF At
<1> HIDE DEF w
<1>3. Moves(p, w) /\ Flow(w) /\ Fits(w, r, b, n, OnList(proc[p].ino))
  BY Zenon DEF w
<1> QED BY <1>2, <1>3, Onward, Zenon DEF Quiet

LEMMA OnwardDone ==
  ASSUME BaseInv, NEW p \in Procs, proc[p].pc # "idle", Quiet,
         NEW r, NEW b, NEW n, Altered(proc[p].ino, r, b, n), Moves(p, Idle),
         Fits(Idle, r, b, n, OnList(proc[p].ino)),
         proc[p].op \in {"evict", "recover"} => ~OnList(proc[p].ino)
  PROVE  BaseInv'
<1>1. Idle.ino = 0 /\ Idle.op = "none" /\ Flow(Idle)
  BY Zenon DEF Idle, Flow
<1> QED BY <1>1, Onward, Zenon DEF Quiet

LEMMA WorkFacts ==
  ASSUME BaseInv, NEW p \in Procs, proc[p].pc # "idle"
  PROVE  /\ TypeOK /\ proc[p].ino \in Ino
         /\ Flow(proc[p]) /\ FitsAt(proc[p], proc[p].ino)
         /\ proc[p].op \in Calls /\ core[proc[p].ino] \in InodeRec
BY AtWork, Zenon DEF BaseInv, ProcRec

LEMMA OrphanAddDirty ==
  ASSUME BaseInv, NEW p \in Procs, orphan_add_dirty(p)
  PROVE  BaseInv'
<1> DEFINE i == proc[p].ino
           w == At(p, proc[p].ret, proc[p].op, proc[p].ret)
<1>1. proc[p].pc = "addmark" /\ Quiet
  BY Zenon DEF orphan_add_dirty, Quiet
<1>2. /\ TypeOK /\ i \in Ino
      /\ Flow(proc[p]) /\ FitsAt(proc[p], i)
      /\ proc[p].op \in Calls /\ core[i] \in InodeRec
  BY <1>1, WorkFacts, Zenon
<1>3. Altered(i, core[i], core[i], buf.names[i])
  BY <1>2, AlterFacts, Zenon DEF orphan_add_dirty
<1>4. proc[p].ret \in Pcs
  BY <1>1, <1>2, Zenon DEF Flow, Pcs
<1>5. Moves(p, w)
  BY <1>2, <1>4, MoveFacts, Zenon DEF orphan_add_dirty
<1>6. Flow(w) /\ Fits(w, core[i], core[i], buf.names[i], OnList(i))
  BY <1>1, <1>2, Zenon DEF Flow, FitsAt, Fits, Truncating, At
<1> QED BY <1>1, <1>2, <1>3, <1>4, <1>5, <1>6, OnwardTo, Zenon

LEMMA OrphanDelDirty ==
  ASSUME BaseInv, NEW p \in Procs, orphan_del_dirty(p)
  PROVE  BaseInv'
<1> DEFINE i == proc[p].ino
           r == [core[i] EXCEPT !.next = 0]
           w == At(p, proc[p].ret, proc[p].op, proc[p].ret)
<1>1. proc[p].pc = "delmark" /\ Quiet
  BY Zenon DEF orphan_del_dirty, Quiet
<1>2. /\ TypeOK /\ i \in Ino
      /\ Flow(proc[p]) /\ FitsAt(proc[p], i)
      /\ proc[p].op \in Calls /\ core[i] \in InodeRec
  BY <1>1, WorkFacts, Zenon
<1>3. r \in InodeRec
  BY <1>2, ConstantsAssumption DEF InodeRec, Dtime
<1>4. Altered(i, r, r, buf.names[i])
  BY <1>2, <1>3, AlterFacts, Zenon DEF orphan_del_dirty
<1>5. proc[p].ret \in Pcs
  BY <1>1, <1>2, Zenon DEF Flow, Pcs
<1>6. Moves(p, w)
  BY <1>2, <1>5, MoveFacts, Zenon DEF orphan_del_dirty
<1>7. Flow(w) /\ Fits(w, r, r, buf.names[i], OnList(i))
  BY <1>1, <1>2, Zenon DEF Flow, FitsAt, Fits, Truncating, At, InodeRec
<1> QED BY <1>1, <1>2, <1>4, <1>5, <1>6, <1>7, OnwardTo, Zenon

LEMMA PageSymlink ==
  ASSUME BaseInv, NEW p \in Procs, page_symlink(p)
  PROVE  BaseInv'
<1> DEFINE i == proc[p].ino
           r == [core[i] EXCEPT !.size = 1, !.blocks = 1]
<1>1. proc[p].pc = "page" /\ Quiet
  BY Zenon DEF page_symlink, Quiet
<1>2. /\ TypeOK /\ i \in Ino
      /\ Flow(proc[p]) /\ FitsAt(proc[p], i)
      /\ proc[p].op \in Calls /\ core[i] \in InodeRec
  BY <1>1, WorkFacts, Zenon
<1>3. CASE mark_inode_dirty(i, r) /\ Goto(p, "symlink2")
  <2> DEFINE w == At(p, "symlink2", proc[p].op, proc[p].ret)
  <2>1. r \in InodeRec
    <3>1. 1 \in 0 .. MaxBlocks
      BY ConstantsAssumption
    <3> QED BY <1>2, <3>1, Resized, Zenon
  <2>2. Altered(i, r, r, buf.names[i])
    BY <1>2, <1>3, <2>1, AlterFacts, Zenon
  <2>3. "symlink2" \in Pcs
    BY Zenon DEF Pcs
  <2>4. Moves(p, w)
    BY <1>2, <1>3, <2>3, MoveFacts, Zenon
  <2>6. r.nlink = core[i].nlink /\ r.size <= r.blocks
    BY <1>2 DEF InodeRec
  <2>5. Flow(w) /\ Fits(w, r, r, buf.names[i], OnList(i))
    <3> HIDE DEF r
    <3> QED BY <1>1, <1>2, <2>6, Zenon DEF Flow, FitsAt, Fits, At, Dirty
  <2> QED BY <1>1, <1>2, <2>2, <2>3, <2>4, <2>5, OnwardTo, Zenon
<1>4. CASE Start(p, i, "evict", "evict", "none") /\ UNCHANGED <<core, buf>>
  <2> DEFINE w == At(p, "evict", "evict", "none")
  <2>2. Altered(i, core[i], buf.ino[i], buf.names[i])
    BY <1>2, <1>4, AlterFacts, Zenon
  <2>3. "evict" \in Pcs /\ "evict" \in Calls /\ "none" \in Pcs \cup {"none"}
    BY Zenon DEF Pcs, Calls
  <2>4. Moves(p, w)
    BY <1>2, <1>4, <2>3, MoveFacts, Zenon
  <2>5. Flow(w) /\ Fits(w, core[i], buf.ino[i], buf.names[i], OnList(i))
    BY <1>1, <1>2, Zenon DEF Flow, FitsAt, Fits, At, Dirty
  <2> QED BY <1>1, <1>2, <2>2, <2>3, <2>4, <2>5, OnwardTo, Zenon
<1> QED BY <1>3, <1>4, Zenon DEF page_symlink

LEMMA SymlinkLink ==
  ASSUME BaseInv, NEW p \in Procs, symlink_link(p)
  PROVE  BaseInv'
<1> DEFINE i == proc[p].ino
           r == [core[i] EXCEPT !.nlink = 1]
<1>1. proc[p].pc = "symlink2" /\ Quiet /\ UNCHANGED buf
  BY Zenon DEF symlink_link, Quiet
<1>2. /\ TypeOK /\ i \in Ino
      /\ Flow(proc[p]) /\ FitsAt(proc[p], i)
      /\ proc[p].op \in Calls /\ core[i] \in InodeRec
  BY <1>1, WorkFacts, Zenon
<1>3. CASE core' = [core EXCEPT ![i].nlink = 1] /\ Call(p, "del", "named")
  <2> DEFINE w == At(p, "del", proc[p].op, "named")
  <2>1. r \in InodeRec
    BY <1>2, ConstantsAssumption DEF InodeRec
  <2>2. core' = [core EXCEPT ![i] = r]
    BY <1>3, Zenon
  <2>3. Altered(i, r, buf.ino[i], buf.names[i])
    BY <1>1, <1>2, <2>1, <2>2, AlterFacts, Zenon
  <2>4. "del" \in Pcs /\ "named" \in Pcs
    BY Zenon DEF Pcs
  <2>5. Moves(p, w)
    BY <1>2, <1>3, <2>4, MoveFacts, Zenon
  <2>7. r.nlink = 1 /\ r.size = core[i].size /\ r.blocks = core[i].blocks
    BY <1>2 DEF InodeRec
  <2>8. /\ proc[p].op = "symlink" /\ buf.names[i] = 0 /\ OnList(i)
        /\ core[i].size <= core[i].blocks
    BY <1>1, <1>2, Zenon DEF Flow, FitsAt, Fits
  <2>9. r.nlink = buf.names[i] + 1
    BY <2>7, <2>8
  <2>6. Flow(w) /\ Fits(w, r, buf.ino[i], buf.names[i], OnList(i))
    <3>1. w.pc = "del" /\ w.op = "symlink" /\ w.ret = "named" /\ w.ino # 0
      BY <1>2, <2>8, NoInodeZero, Zenon DEF At
    <3> HIDE DEF r, w
    <3>2. Flow(w) /\ Dirty(w)
      BY <3>1, Zenon DEF Flow, Dirty
    <3> QED BY <2>7, <2>8, <2>9, <3>1, <3>2, Zenon DEF Fits
  <2> QED BY <1>1, <1>2, <2>3, <2>4, <2>5, <2>6, OnwardTo, Zenon
<1>4. CASE Start(p, i, "evict", "evict", "none") /\ UNCHANGED core
  <2> DEFINE w == At(p, "evict", "evict", "none")
  <2>2. Altered(i, core[i], buf.ino[i], buf.names[i])
    BY <1>1, <1>2, <1>4, AlterFacts, Zenon
  <2>3. "evict" \in Pcs /\ "evict" \in Calls /\ "none" \in Pcs \cup {"none"}
    BY DEF Pcs, Calls
  <2>4. Moves(p, w)
    BY <1>2, <1>4, <2>3, MoveFacts, Zenon
  <2>5. Flow(w) /\ Fits(w, core[i], buf.ino[i], buf.names[i], OnList(i))
    BY <1>1, <1>2, Zenon DEF Flow, FitsAt, Fits, At, Dirty
  <2> QED BY <1>1, <1>2, <2>2, <2>3, <2>4, <2>5, OnwardTo, Zenon
<1> QED BY <1>3, <1>4, Zenon DEF symlink_link

LEMMA AddNondir ==
  ASSUME BaseInv, NEW p \in Procs, ext4_add_nondir(p)
  PROVE  BaseInv'
<1> DEFINE i == proc[p].ino
           r == [core[i] EXCEPT !.nlink = @ - 1]
<1>1. proc[p].pc = "named" /\ Quiet
  BY Zenon DEF ext4_add_nondir, Quiet
<1>2. /\ TypeOK /\ i \in Ino
      /\ Flow(proc[p]) /\ FitsAt(proc[p], i)
      /\ proc[p].op \in Calls /\ core[i] \in InodeRec
  BY <1>1, WorkFacts, Zenon
<1>3. core[i].nlink = 1 /\ buf.names[i] = 0 /\ proc[p].op = "symlink" /\ ~OnList(i)
  <2>1. /\ core[i].nlink = buf.names[i] + 1 /\ buf.names[i] = 0
        /\ proc[p].op = "symlink" /\ ~OnList(i)
    BY <1>1, <1>2, Zenon DEF Flow, FitsAt, Fits
  <2> QED BY <2>1
<1>4. CASE /\ buf' = [buf EXCEPT !.names[i] = @ + 1, !.ino[i] = core[i]]
           /\ UNCHANGED core /\ Finish(p)
  <2>1. Altered(i, core[i], core[i], 1)
    <3>1. buf' = Named(buf, i, 1, core[i])
      BY <1>3, <1>4 DEF Named
    <3>2. /\ buf \in Metadata /\ core \in [Ino -> InodeRec]
          /\ core' = core /\ i \in Ino /\ 1 \in 0 .. LinkMax
      BY <1>2, <1>4, ConstantsAssumption DEF TypeOK
    <3>3. buf' = Meta(buf.last, [buf.ino EXCEPT ![i] = core[i]], buf.used,
                      [buf.names EXCEPT ![i] = 1])
      BY <3>1, <3>2, MetaNamed, SMT
    <3> QED BY <3>2, <3>3, Zenon DEF Altered, Metadata, Meta
  <2>2. Moves(p, Idle)
    BY <1>2, <1>4, MoveFacts, Zenon
  <2>3. Fits(Idle, core[i], core[i], 1, OnList(i))
    BY <1>1, <1>2, <1>3, Zenon DEF FitsAt, Fits, Idle, Dirty
  <2> QED BY <1>1, <1>3, <2>1, <2>2, <2>3, OnwardDone, Zenon
<1>5. CASE /\ core' = [core EXCEPT ![i].nlink = @ - 1] /\ UNCHANGED buf
           /\ Start(p, i, "evict", "evictn", "none")
  <2> DEFINE w == At(p, "evictn", "evict", "none")
  <2>1. r \in InodeRec
    BY <1>2, <1>3, ConstantsAssumption DEF InodeRec
  <2>2. core' = [core EXCEPT ![i] = r]
    BY <1>5, Zenon
  <2>3. Altered(i, r, buf.ino[i], buf.names[i])
    BY <1>2, <1>5, <2>1, <2>2, AlterFacts, Zenon
  <2>4. "evictn" \in Pcs /\ "evict" \in Calls /\ "none" \in Pcs \cup {"none"}
    BY Zenon DEF Pcs, Calls
  <2>5. Moves(p, w)
    BY <1>2, <1>5, <2>4, MoveFacts, Zenon
  <2>6. Flow(w) /\ Fits(w, r, buf.ino[i], buf.names[i], OnList(i))
    BY <1>1, <1>2, <1>3 DEF Flow, FitsAt, Fits, At, Dirty, InodeRec
  <2> QED BY <1>1, <1>2, <2>3, <2>4, <2>5, <2>6, OnwardTo, Zenon
<1> QED BY <1>4, <1>5, Zenon DEF ext4_add_nondir

LEMMA CloseHandle ==
  ASSUME BaseInv, NEW p \in Procs, close_handle(p)
  PROVE  BaseInv'
<1> DEFINE i == proc[p].ino
<1>1. proc[p].pc = "added" /\ Quiet
  BY Zenon DEF close_handle, Quiet
<1>2. /\ TypeOK /\ i \in Ino
      /\ Flow(proc[p]) /\ FitsAt(proc[p], i)
      /\ proc[p].op \in Calls /\ core[i] \in InodeRec
  BY <1>1, WorkFacts, Zenon
<1>3. CASE /\ proc[p].op \in {"unlink", "rename", "tmpfile"}
           /\ mark_inode_dirty(i, core[i]) /\ Finish(p)
  <2>1. Altered(i, core[i], core[i], buf.names[i])
    BY <1>2, <1>3, AlterFacts, Zenon
  <2>2. Moves(p, Idle)
    BY <1>2, <1>3, MoveFacts, Zenon
  <2>3. Fits(Idle, core[i], core[i], buf.names[i], OnList(i))
    BY <1>1, <1>2, <1>3, Zenon DEF FitsAt, Fits, Idle, Dirty
  <2> QED BY <1>1, <1>3, <2>1, <2>2, <2>3, OnwardDone, Zenon
<1>4. CASE proc[p].op = "link" /\ Finish(p) /\ UNCHANGED <<core, buf>>
  <2>1. Altered(i, core[i], buf.ino[i], buf.names[i])
    BY <1>2, <1>4, AlterFacts, Zenon
  <2>2. Moves(p, Idle)
    BY <1>2, <1>4, MoveFacts, Zenon
  <2>3. Fits(Idle, core[i], buf.ino[i], buf.names[i], OnList(i))
    BY <1>1, <1>2, <1>4, Zenon DEF FitsAt, Fits, Idle, Dirty
  <2> QED BY <1>1, <1>4, <2>1, <2>2, <2>3, OnwardDone, Zenon
<1>5. CASE /\ proc[p].op = "setattr"
           /\ \E n \in 0 .. core[i].size - 1 :
                mark_inode_dirty(i, [core[i] EXCEPT !.size = n])
           /\ Goto(p, "trunc")
  <2> DEFINE w == At(p, "trunc", proc[p].op, proc[p].ret)
  <2>1. PICK n \in 0 .. core[i].size - 1 :
          mark_inode_dirty(i, [core[i] EXCEPT !.size = n])
    BY <1>5, Zenon
  <2> DEFINE r == [core[i] EXCEPT !.size = n]
  <2>2. r \in InodeRec
    BY <1>2, ConstantsAssumption DEF InodeRec
  <2>3. Altered(i, r, r, buf.names[i])
    BY <1>2, <2>1, <2>2, AlterFacts, Zenon
  <2>4. "trunc" \in Pcs
    BY Zenon DEF Pcs
  <2>5. Moves(p, w)
    BY <1>2, <1>5, <2>4, MoveFacts, Zenon
  <2>7. /\ core[i].size <= core[i].blocks /\ core[i].nlink = buf.names[i]
        /\ OnList(i)
    BY <1>1, <1>2, <1>5, Zenon DEF FitsAt, Fits
  <2>8. r.size <= r.blocks /\ r.nlink = core[i].nlink
    <3>1. r.size = n /\ r.blocks = core[i].blocks /\ r.nlink = core[i].nlink
      BY <1>2, SizeSet, Zenon
    <3> HIDE DEF r
    <3> QED BY <1>2, <2>7, <3>1, Counts
  <2>6. Flow(w) /\ Fits(w, r, r, buf.names[i], OnList(i))
    <3>1. w.pc = "trunc" /\ w.op = "setattr" /\ w.ino # 0
      BY <1>2, <1>5, NoInodeZero, Zenon DEF At
    <3> HIDE DEF r, w
    <3>2. Flow(w)
      BY <3>1, Zenon DEF Flow, Truncating
    <3> QED BY <2>7, <2>8, <3>1, <3>2, Zenon DEF Fits
  <2> QED BY <1>1, <1>2, <2>3, <2>4, <2>5, <2>6, OnwardTo, Zenon
<1>6. CASE /\ proc[p].op \in {"write", "dio", "symlink"}
           /\ Goto(p, CASE proc[p].op = "write" -> "trunc"
                         [] proc[p].op = "dio" -> "io"
                         [] proc[p].op = "symlink" -> "page")
           /\ UNCHANGED <<core, buf>>
  <2>1. PICK l \in {"trunc", "io", "page"} :
          /\ Goto(p, l)
          /\ l = "trunc" => proc[p].op = "write"
          /\ l = "io" => proc[p].op = "dio"
          /\ l = "page" => proc[p].op = "symlink"
    BY <1>6, Zenon
  <2> DEFINE w == At(p, l, proc[p].op, proc[p].ret)
  <2>2. Altered(i, core[i], buf.ino[i], buf.names[i])
    BY <1>2, <1>6, AlterFacts, Zenon
  <2>3. l \in Pcs
    BY Zenon DEF Pcs
  <2>4. Moves(p, w)
    BY <1>2, <2>1, <2>3, MoveFacts, Zenon
  <2>5. Flow(w) /\ Fits(w, core[i], buf.ino[i], buf.names[i], OnList(i))
    BY <1>1, <1>2, <2>1, Zenon DEF Flow, FitsAt, Fits, At, Dirty, Truncating
  <2> QED BY <1>1, <1>2, <2>2, <2>3, <2>4, <2>5, OnwardTo, Zenon
<1> QED BY <1>3, <1>4, <1>5, <1>6, Zenon DEF close_handle

LEMMA DioTransfer ==
  ASSUME BaseInv, NEW p \in Procs, dio_transfer(p)
  PROVE  BaseInv'
<1> DEFINE i == proc[p].ino
           r == [core[i] EXCEPT !.blocks = @ + 1]
           w == At(p, "dioend", proc[p].op, proc[p].ret)
           v == At(p, "trunc", "diofail", "none")
<1>1. proc[p].pc = "io" /\ Quiet
  BY Zenon DEF dio_transfer, Quiet
<1>2. /\ TypeOK /\ i \in Ino
      /\ Flow(proc[p]) /\ FitsAt(proc[p], i)
      /\ proc[p].op \in Calls /\ core[i] \in InodeRec
  BY <1>1, WorkFacts, Zenon
<1>0. /\ proc[p].op = "dio" /\ OnList(i) /\ core[i].blocks < MaxBlocks
      /\ core[i].size <= core[i].blocks /\ core[i].nlink = buf.names[i]
      /\ buf.ino[i] = core[i]
  BY <1>1, <1>2, Zenon DEF FitsAt, Fits, Flow, Dirty
<1>a. /\ r.nlink = core[i].nlink /\ r.size = core[i].size
      /\ r.blocks = core[i].blocks + 1
  BY <1>2, BlocksSet, Zenon
<1>b. core[i].blocks + 1 \in 0 .. MaxBlocks /\ core[i].size < core[i].blocks + 1
  BY <1>0, <1>2, Counts, ConstantsAssumption
<1>c. r.size <= r.blocks /\ r.size < r.blocks
  <2> HIDE DEF r
  <2> QED BY <1>2, <1>a, <1>b, Counts
<1>3. r \in InodeRec
  BY <1>2, <1>b, BlocksSet, Zenon
<1>4. /\ "dioend" \in Pcs /\ "trunc" \in Pcs /\ "diofail" \in Calls
      /\ "none" \in Pcs \cup {"none"}
  BY Zenon DEF Pcs, Calls
<1>5. /\ Flow(w) /\ Fits(w, r, r, buf.names[i], OnList(i))
      /\ Flow(v) /\ Fits(v, r, r, buf.names[i], OnList(i))
      /\ Fits(v, core[i], buf.ino[i], buf.names[i], OnList(i))
  <2> HIDE DEF r
  <2>1. w.pc = "dioend" /\ w.op = "dio" /\ v.pc = "trunc" /\ v.op = "diofail"
    BY <1>0, Zenon DEF At
  <2>2. w.ino # 0 /\ v.ino # 0
    BY <1>2, NoInodeZero, Zenon DEF At
  <2> HIDE DEF w, v
  <2>3. Flow(w) /\ Flow(v)
    BY <2>1, <2>2, Zenon DEF Flow, Truncating
  <2>4. Fits(w, r, r, buf.names[i], OnList(i))
    BY <1>0, <1>a, <1>c, <2>1, Zenon DEF Fits
  <2>5. /\ Fits(v, r, r, buf.names[i], OnList(i))
        /\ Fits(v, core[i], buf.ino[i], buf.names[i], OnList(i))
    BY <1>0, <1>a, <1>c, <2>1, Zenon DEF Fits
  <2> QED BY <2>3, <2>4, <2>5, Zenon
<1>6. CASE mark_inode_dirty(i, r) /\ Goto(p, "dioend")
  <2>1. Altered(i, r, r, buf.names[i])
    BY <1>2, <1>3, <1>6, AlterFacts, Zenon
  <2>2. Moves(p, w)
    BY <1>2, <1>4, <1>6, MoveFacts, Zenon
  <2> QED BY <1>1, <1>2, <1>4, <1>5, <2>1, <2>2, OnwardTo, Zenon
<1>7. CASE mark_inode_dirty(i, r) /\ Start(p, i, "diofail", "trunc", "none")
  <2>1. Altered(i, r, r, buf.names[i])
    BY <1>2, <1>3, <1>7, AlterFacts, Zenon
  <2>2. Moves(p, v)
    BY <1>2, <1>4, <1>7, MoveFacts, Zenon
  <2>3. proc[p].op = "dio"
    BY <1>1, <1>2, Zenon DEF Flow
  <2> QED BY <1>1, <1>4, <1>5, <2>1, <2>2, <2>3, OnwardTo, Zenon
<1>8. CASE Start(p, i, "diofail", "trunc", "none") /\ UNCHANGED <<core, buf>>
  <2>1. Altered(i, core[i], buf.ino[i], buf.names[i])
    BY <1>2, <1>8, AlterFacts, Zenon
  <2>2. Moves(p, v)
    BY <1>2, <1>4, <1>8, MoveFacts, Zenon
  <2>3. proc[p].op = "dio"
    BY <1>1, <1>2 DEF Flow
  <2> QED BY <1>1, <1>4, <1>5, <2>1, <2>2, <2>3, OnwardTo, Zenon
<1> QED BY <1>6, <1>7, <1>8, Zenon DEF dio_transfer

LEMMA DioSetSize ==
  ASSUME BaseInv, NEW p \in Procs, dio_set_size(p)
  PROVE  BaseInv'
<1> DEFINE i == proc[p].ino
           r == [core[i] EXCEPT !.size = @ + 1]
<1>1. proc[p].pc = "dset" /\ Quiet
  BY Zenon DEF dio_set_size, Quiet
<1>2. /\ TypeOK /\ i \in Ino
      /\ Flow(proc[p]) /\ FitsAt(proc[p], i)
      /\ proc[p].op \in Calls /\ core[i] \in InodeRec
  BY <1>1, WorkFacts, Zenon
<1>3. Moves(p, Idle) /\ proc[p].op \in {"dio", "diofail"}
  BY <1>1, <1>2, MoveFacts, Zenon DEF dio_set_size, Flow
<1>4. buf.names[i] \in Nat
  BY <1>2, ConstantsAssumption DEF TypeOK, Metadata
<1>0. /\ core[i].size <= core[i].blocks /\ core[i].nlink = buf.names[i]
      /\ buf.ino[i] = core[i] /\ (buf.names[i] > 0 => ~OnList(i))
      /\ proc[p].op = "dio" => core[i].size < core[i].blocks
  BY <1>1, <1>2, <1>3, Zenon DEF FitsAt, Fits, Dirty
<1>a. OnList(i) => buf.names[i] = 0
  BY <1>0, <1>4
<1>b. Idle.pc = "idle" /\ Idle.op = "none"
  BY Zenon DEF Idle
<1>5. CASE proc[p].op = "dio"
  <2>5. core[i].size + 1 \in 0 .. MaxBlocks /\ core[i].size + 1 <= core[i].blocks
    BY <1>0, <1>2, <1>5, Counts, ConstantsAssumption
  <2>4. r.nlink = core[i].nlink /\ r.size <= r.blocks
    BY <1>2, <2>5, SizeSet, Zenon
  <2>1. r \in InodeRec
    BY <1>2, <2>5, SizeSet, Zenon
  <2>2. Altered(i, r, r, buf.names[i])
    BY <1>2, <1>5, <2>1, AlterFacts, Zenon DEF dio_set_size
  <2>3. Fits(Idle, r, r, buf.names[i], OnList(i))
    <3> HIDE DEF r
    <3> QED BY <1>0, <1>a, <1>b, <2>4, Zenon DEF Fits
  <2> QED BY <1>1, <1>3, <2>2, <2>3, OnwardDone, Zenon
<1>6. CASE proc[p].op = "diofail"
  <2>1. Altered(i, core[i], buf.ino[i], buf.names[i])
    BY <1>2, <1>6, AlterFacts, Zenon DEF dio_set_size
  <2>2. Fits(Idle, core[i], buf.ino[i], buf.names[i], OnList(i))
    BY <1>0, <1>a, <1>b, Zenon DEF Fits
  <2> QED BY <1>1, <1>3, <2>1, <2>2, OnwardDone, Zenon
<1> QED BY <1>3, <1>5, <1>6, Zenon

LEMMA Truncate ==
  ASSUME BaseInv, NEW p \in Procs, ext4_truncate(p)
  PROVE  BaseInv'
<1> DEFINE i == proc[p].ino
           w == At(p, "add", proc[p].op, "free")
           v == At(p, "tailerr", proc[p].op, proc[p].ret)
<1>1. proc[p].pc = "trunc" /\ Quiet /\ UNCHANGED <<core, buf>>
  BY Zenon DEF ext4_truncate, Quiet
<1>2. /\ TypeOK /\ i \in Ino
      /\ Flow(proc[p]) /\ FitsAt(proc[p], i)
      /\ proc[p].op \in Calls /\ core[i] \in InodeRec
  BY <1>1, WorkFacts, Zenon
<1>3. Altered(i, core[i], buf.ino[i], buf.names[i])
  BY <1>1, <1>2, AlterFacts, Zenon
<1>4. "add" \in Pcs /\ "free" \in Pcs /\ "tailerr" \in Pcs
  BY Zenon DEF Pcs
<1>5. CASE Call(p, "add", "free")
  <2>1. Moves(p, w)
    BY <1>2, <1>4, <1>5, MoveFacts, Zenon
  <2>2. Flow(w) /\ Fits(w, core[i], buf.ino[i], buf.names[i], OnList(i))
    BY <1>1, <1>2, Zenon DEF Flow, FitsAt, Fits, At, Dirty, Truncating
  <2> QED BY <1>1, <1>2, <1>3, <1>4, <2>1, <2>2, OnwardTo, Zenon
<1>6. CASE /\ Goto(p, "tailerr")
           /\ proc[p].op \in mix.faults \/ proc[p].op = "diofail"
  <2>1. Moves(p, v)
    BY <1>2, <1>4, <1>6, MoveFacts, Zenon
  <2>2. mix.faults \subseteq Faults
    BY Zenon DEF BaseInv, Mix
  <2>3. Flow(v) /\ Fits(v, core[i], buf.ino[i], buf.names[i], OnList(i))
    BY <1>1, <1>2, <1>6, <2>2, Zenon
       DEF Flow, FitsAt, Fits, At, Dirty, Truncating, Faults
  <2> QED BY <1>1, <1>2, <1>3, <1>4, <2>1, <2>3, OnwardTo, Zenon
<1> QED BY <1>5, <1>6, Zenon DEF ext4_truncate

LEMMA TruncateBlocks ==
  ASSUME BaseInv, NEW p \in Procs, truncate_blocks(p)
  PROVE  BaseInv'
<1> DEFINE i == proc[p].ino
           r == [core[i] EXCEPT !.blocks = @ - 1]
           w(l) == At(p, l, proc[p].op, proc[p].ret)
           v(l, t) == At(p, l, proc[p].op, t)
<1>1. proc[p].pc = "free" /\ Quiet
  BY Zenon DEF truncate_blocks, Quiet
<1>2. /\ TypeOK /\ i \in Ino
      /\ Flow(proc[p]) /\ FitsAt(proc[p], i)
      /\ proc[p].op \in Calls /\ core[i] \in InodeRec
  BY <1>1, WorkFacts, Zenon
<1>3. /\ {"free", "restart", "del", "tdone", "erase"} \subseteq Pcs
      /\ buf.names[i] \in Nat
  BY <1>2, ConstantsAssumption DEF Pcs, TypeOK, Metadata
<1>0. /\ proc[p].op \in Truncating \cup {"evict"} /\ OnList(i)
      /\ core[i].nlink = buf.names[i] /\ buf.ino[i] = core[i]
      /\ core[i].size <= core[i].blocks
      /\ proc[p].op = "evict" => buf.names[i] = 0
      /\ proc[p].op = "recover" => buf.names[i] > 0
      /\ i # 0
  BY <1>1, <1>2, Zenon DEF Flow, FitsAt, Fits, Dirty, Truncating
<1>4. CASE core[i].blocks > core[i].size /\ mark_inode_dirty(i, r)
           /\ (UNCHANGED proc \/ Goto(p, "restart"))
  <2>1. PICK l \in {"free", "restart"} : Moves(p, w(l))
    <3>1. CASE UNCHANGED proc
      <4>1. Moves(p, w("free"))
        BY <1>1, <1>2, <3>1, Zenon DEF Moves, At, TypeOK, ProcRec
      <4> QED BY <4>1, Zenon
    <3>2. CASE Goto(p, "restart")
      BY <1>2, <1>3, <3>2, MoveFacts, Zenon
    <3> QED BY <1>4, <3>1, <3>2, Zenon
  <2>5. core[i].blocks - 1 \in 0 .. MaxBlocks /\ core[i].size <= core[i].blocks - 1
    BY <1>2, <1>4, Counts, ConstantsAssumption
  <2>6. r.nlink = core[i].nlink /\ r.size <= r.blocks
    BY <1>2, <2>5, BlocksSet, Zenon
  <2>2. r \in InodeRec
    BY <1>2, <2>5, BlocksSet, Zenon
  <2>3. Altered(i, r, r, buf.names[i])
    BY <1>2, <1>4, <2>2, AlterFacts, Zenon
  <2>4. Flow(w(l)) /\ Fits(w(l), r, r, buf.names[i], OnList(i))
    <3> DEFINE u == w(l)
    <3>1. u.pc \in {"free", "restart"} /\ u.op = proc[p].op /\ u.ino # 0
      BY <1>0, <2>1, Zenon DEF At
    <3>2. proc[p].op # "dio" /\ proc[p].op \notin {"unlink", "rename", "tmpfile", "symlink", "link"}
      BY <1>0, Zenon DEF Truncating
    <3> HIDE DEF r, u
    <3>3. Flow(u) /\ Fits(u, r, r, buf.names[i], OnList(i))
      BY <1>0, <2>6, <3>1, <3>2, Zenon DEF Flow, Fits
    <3> QED BY <3>3, Zenon DEF u
  <2> QED BY <1>1, <1>2, <1>3, <2>1, <2>3, <2>4, OnwardTo, Zenon
<1>5. CASE core[i].blocks <= core[i].size /\ UNCHANGED <<core, buf>>
  <2>1. Altered(i, core[i], buf.ino[i], buf.names[i])
    BY <1>2, <1>5, AlterFacts, Zenon
  <2>2. CASE core[i].nlink > 0 /\ Call(p, "del", "tdone")
    <3>1. Moves(p, v("del", "tdone"))
      BY <1>2, <1>3, <2>2, MoveFacts, Zenon
    <3>2. /\ Flow(v("del", "tdone"))
          /\ Fits(v("del", "tdone"), core[i], buf.ino[i], buf.names[i], OnList(i))
      <4> DEFINE u == v("del", "tdone")
      <4>1. u.pc = "del" /\ u.op = proc[p].op /\ u.ret = "tdone" /\ u.ino # 0
        BY <1>0, Zenon DEF At
      <4>2. proc[p].op # "evict" /\ buf.names[i] # 0
        BY <1>0, <1>3, <2>2
      <4>3. /\ proc[p].op \in Truncating /\ proc[p].op # "dio"
            /\ proc[p].op \notin {"unlink", "rename", "tmpfile", "symlink", "link"}
        BY <1>0, <4>2, Zenon DEF Truncating
      <4> HIDE DEF u
      <4>4. Flow(u) /\ Fits(u, core[i], buf.ino[i], buf.names[i], OnList(i))
        BY <1>0, <4>1, <4>2, <4>3, Zenon DEF Flow, Fits
      <4> QED BY <4>4, Zenon DEF u
    <3> QED BY <1>1, <1>2, <1>3, <2>1, <3>1, <3>2, OnwardTo, Zenon
  <2>3. CASE core[i].nlink = 0 /\ proc[p].op = "evict" /\ Call(p, "del", "erase")
    <3>1. Moves(p, v("del", "erase"))
      BY <1>2, <1>3, <2>3, MoveFacts, Zenon
    <3>2. /\ Flow(v("del", "erase"))
          /\ Fits(v("del", "erase"), core[i], buf.ino[i], buf.names[i], OnList(i))
      BY <1>0, <1>3, <2>3, Zenon DEF Flow, Fits, At, Dirty, Truncating
    <3> QED BY <1>1, <1>2, <1>3, <2>1, <3>1, <3>2, OnwardTo, Zenon
  <2>4. CASE core[i].nlink = 0 /\ proc[p].op # "evict" /\ Goto(p, "tdone")
    <3>1. Moves(p, w("tdone"))
      BY <1>2, <1>3, <2>4, MoveFacts, Zenon
    <3>2. /\ Flow(w("tdone"))
          /\ Fits(w("tdone"), core[i], buf.ino[i], buf.names[i], OnList(i))
      <4> DEFINE u == w("tdone")
      <4>1. u.pc = "tdone" /\ u.op = proc[p].op /\ u.ino # 0
        BY <1>0, Zenon DEF At
      <4>2. /\ proc[p].op \in Truncating /\ proc[p].op # "dio"
            /\ proc[p].op \notin {"unlink", "rename", "tmpfile", "symlink", "link"}
        BY <1>0, <2>4, Zenon DEF Truncating
      <4>3. ~(buf.names[i] > 0)
        BY <1>0, <1>3, <2>4
      <4> HIDE DEF u
      <4>4. Flow(u) /\ Fits(u, core[i], buf.ino[i], buf.names[i], OnList(i))
        BY <1>0, <4>1, <4>2, <4>3, Zenon DEF Flow, Fits
      <4> QED BY <4>4, Zenon DEF u
    <3> QED BY <1>1, <1>2, <1>3, <2>1, <3>1, <3>2, OnwardTo, Zenon
  <2>5. core[i].nlink \in Nat /\ core[i].blocks \in Nat /\ core[i].size \in Nat
    BY <1>2, Counts, Zenon
  <2>6. IF core[i].nlink > 0
          THEN Call(p, "del", "tdone")
          ELSE IF proc[p].op = "evict"
                 THEN Call(p, "del", "erase") ELSE Goto(p, "tdone")
    <3>1. ~(core[i].blocks > core[i].size)
      BY <1>5, <2>5
    <3> QED BY <3>1, Zenon DEF truncate_blocks
  <2>8. ~(core[i].nlink > 0) => core[i].nlink = 0
    BY <2>5
  <2> QED BY <2>2, <2>3, <2>4, <2>6, <2>8, Zenon
<1> QED BY <1>4, <1>5, Zenon DEF truncate_blocks

LEMMA TruncateRestart ==
  ASSUME BaseInv, NEW p \in Procs, ext4_truncate_restart_trans(p)
  PROVE  BaseInv'
<1> DEFINE i == proc[p].ino
           w == At(p, "free", proc[p].op, proc[p].ret)
<1>1. proc[p].pc = "restart" /\ Quiet /\ UNCHANGED <<core, buf>>
  BY Zenon DEF ext4_truncate_restart_trans, Quiet
<1>2. /\ TypeOK /\ i \in Ino
      /\ Flow(proc[p]) /\ FitsAt(proc[p], i)
      /\ proc[p].op \in Calls /\ core[i] \in InodeRec
  BY <1>1, WorkFacts, Zenon
<1>3. Altered(i, core[i], buf.ino[i], buf.names[i])
  BY <1>1, <1>2, AlterFacts, Zenon
<1>4. "free" \in Pcs
  BY Zenon DEF Pcs
<1>5. Moves(p, w)
  BY <1>2, <1>4, MoveFacts, Zenon DEF ext4_truncate_restart_trans
<1>6. Flow(w) /\ Fits(w, core[i], buf.ino[i], buf.names[i], OnList(i))
  BY <1>1, <1>2, Zenon DEF Flow, FitsAt, Fits, At, Dirty, Truncating
<1> QED BY <1>1, <1>2, <1>3, <1>4, <1>5, <1>6, OnwardTo, Zenon

LEMMA TruncateStop ==
  ASSUME BaseInv, NEW p \in Procs, truncate_stop(p)
  PROVE  BaseInv'
<1> DEFINE i == proc[p].ino
           w == At(p, "tail", proc[p].op, proc[p].ret)
<1>1. proc[p].pc = "tdone" /\ Quiet
  BY Zenon DEF truncate_stop, Quiet
<1>2. /\ TypeOK /\ i \in Ino
      /\ Flow(proc[p]) /\ FitsAt(proc[p], i)
      /\ proc[p].op \in Calls /\ core[i] \in InodeRec
  BY <1>1, WorkFacts, Zenon
<1>3. Altered(i, core[i], core[i], buf.names[i])
  BY <1>2, AlterFacts, Zenon DEF truncate_stop
<1>4. "tail" \in Pcs
  BY Zenon DEF Pcs
<1>5. Moves(p, w)
  BY <1>2, <1>4, MoveFacts, Zenon DEF truncate_stop
<1>6. Flow(w) /\ Fits(w, core[i], core[i], buf.names[i], OnList(i))
  BY <1>1, <1>2, Zenon DEF Flow, FitsAt, Fits, At, Dirty, Truncating
<1> QED BY <1>1, <1>2, <1>3, <1>4, <1>5, <1>6, OnwardTo, Zenon

-----------------------------------------------------------------------------
(* Steps that change the in-memory list.                                   *)

\* Nothing but the entry of inode i comes to or goes from the list.
Relisted(i) ==
  /\ orphan' \in Seq(Ino) /\ NoDup(orphan')
  /\ \A j \in Ino \ {i} : Contains(orphan', j) <=> Contains(orphan, j)

LEMMA ListStep ==
  ASSUME BaseInv, NEW p \in Procs, proc[p].pc # "idle",
         UNCHANGED <<open, linkable, disk, mode, crashes, mix>>,
         error' \in BOOLEAN, Relisted(proc[p].ino),
         cached' \in {cached, cached \ {proc[p].ino}},
         Contains(orphan', proc[p].ino) => proc[p].ino \in cached',
         NEW r, NEW b, NEW n, Altered(proc[p].ino, r, b, n),
         NEW w, Moves(p, w), w.ino \in {0, proc[p].ino}, Flow(w),
         w.ino # 0 => /\ proc[p].ino \in cached'
                      /\ Fits(w, r, b, n, Contains(orphan', proc[p].ino)),
         w.ino = 0 => /\ Fits(Idle, r, b, n, Contains(orphan', proc[p].ino))
                      /\ proc[p].op \in {"evict", "recover"} =>
                           ~Contains(orphan', proc[p].ino),
         proc[p].op \in {"evict", "recover"} =>
           w.op \in {"none", "evict", "recover"}
  PROVE  BaseInv'
<1> DEFINE i == proc[p].ino
<1>1. /\ i \in Ino /\ i \in buf.used /\ i # 0
      /\ mode # "unmounted"
      /\ mode = "recovering" => proc[p].op \in {"evict", "recover"}
      /\ mode \in {"mounted", "recovering", "unmounted"}
  BY AtWork, NoInodeZero, Zenon DEF BaseInv, TypeOK
<1>2. cached \subseteq buf.used
  BY Zenon DEF BaseInv, ListInv
<1>3. TypeOK'
  BY Zenon DEF BaseInv, TypeOK, Altered, Moves, ProcRec, Relisted
<1> HIDE DEF i
<1>4. \A j \in Ino \ {i} : Kept(j)
  BY <1>1, Zenon DEF Altered, Kept, OnList, Relisted, i
<1>5. LocalStep(p, i)
  <2>1. cached' \subseteq buf'.used
    BY <1>2, Zenon DEF Altered
  <2>2. proc'[p] = w /\ \A q \in Procs \ {p} : proc'[q] = proc[q]
    BY Zenon DEF Moves
  <2>3. core'[i] = r /\ buf'.ino[i] = b /\ buf'.names[i] = n
    BY Zenon DEF Altered, i
  <2>4. /\ w.ino = i => i \in cached' /\ FitsNext(w, i)
        /\ w.ino = 0 => /\ i \in buf'.used => FitsNext(Idle, i)
                        /\ Contains(orphan', i) => mode = "mounted"
    BY <1>1, <2>3, Zenon DEF FitsNext, i
  <2>5. NoDup(orphan') /\ (Contains(orphan', i) => i \in cached')
    BY Zenon DEF Relisted, i
  <2>6. /\ proc[p].ino = i /\ w.ino \in {0, i}
        /\ mode = "recovering" => w.op \in {"none", "evict", "recover"}
    BY <1>1, Zenon DEF i
  <2> QED BY <1>1, <1>4, <2>1, <2>2, <2>4, <2>5, <2>6, Zenon DEF LocalStep, OnList
<1> QED BY <1>1, <1>3, <1>5, LocalStepInv, Zenon

\* The same with the process still at work, or done.
LEMMA ListStepTo ==
  ASSUME BaseInv, NEW p \in Procs, proc[p].pc # "idle",
         UNCHANGED <<cached, open, linkable, disk, mode, error, crashes, mix>>,
         Relisted(proc[p].ino),
         NEW r, NEW b, NEW n, Altered(proc[p].ino, r, b, n),
         NEW l \in Pcs, NEW t, Moves(p, At(p, l, proc[p].op, t)),
         Flow(At(p, l, proc[p].op, t)),
         Fits(At(p, l, proc[p].op, t), r, b, n, Contains(orphan', proc[p].ino))
  PROVE  BaseInv'
<1> DEFINE w == At(p, l, proc[p].op, t)
<1>1. proc[p].ino \in Ino /\ proc[p].ino \in cached /\ error \in BOOLEAN
  BY AtWork, Zenon DEF BaseInv, TypeOK
<1>2. w.ino = proc[p].ino /\ w.op = proc[p].op /\ w.ino # 0
  BY <1>1, NoInodeZero, Zenon DEF At
<1> HIDE DEF w
<1>3. /\ Moves(p, w) /\ Flow(w)
      /\ Fits(w, r, b, n, Contains(orphan', proc[p].ino))
  BY Zenon DEF w
<1> QED BY <1>1, <1>2, <1>3, ListStep, Zenon

LEMMA ListStepDone ==
  ASSUME BaseInv, NEW p \in Procs, proc[p].pc # "idle",
         UNCHANGED <<open, linkable, disk, mode, crashes, mix>>,
         error' \in BOOLEAN, Relisted(proc[p].ino),
         cached' \in {cached, cached \ {proc[p].ino}},
         Contains(orphan', proc[p].ino) =>
           proc[p].ino \in cached' /\ proc[p].op \notin {"evict", "recover"},
         Altered(proc[p].ino, core[proc[p].ino], buf.ino[proc[p].ino],
                 buf.names[proc[p].ino]),
         Moves(p, Idle),
         Fits(Idle, core[proc[p].ino], buf.ino[proc[p].ino],
              buf.names[proc[p].ino], Contains(orphan', proc[p].ino))
  PROVE  BaseInv'
<1>1. Idle.ino = 0 /\ Idle.op = "none" /\ Flow(Idle)
  BY Zenon DEF Idle, Flow
<1> QED BY <1>1, ListStep, Zenon

LEMMA OrphanAdd ==
  ASSUME BaseInv, NEW p \in Procs, ext4_orphan_add(p)
  PROVE  BaseInv'
<1> DEFINE i == proc[p].ino
           r == [core[i] EXCEPT !.next = buf.last]
           w == At(p, proc[p].ret, proc[p].op, proc[p].ret)
           v == At(p, "addmark", proc[p].op, proc[p].ret)
<1>1. /\ proc[p].pc = "add"
      /\ UNCHANGED <<cached, open, linkable, disk, mode, error, crashes, mix>>
  BY Zenon DEF ext4_orphan_add
<1>2. /\ TypeOK /\ i \in Ino
      /\ Flow(proc[p]) /\ FitsAt(proc[p], i)
      /\ proc[p].op \in Calls /\ core[i] \in InodeRec
  BY <1>1, WorkFacts, Zenon
<1>3. proc[p].ret \in Pcs /\ "addmark" \in Pcs
  BY <1>1, <1>2, Zenon DEF Flow, Pcs
<1>4. CASE OnList(i)
  <2>1. UNCHANGED <<orphan, core, buf>> /\ Goto(p, proc[p].ret)
    BY <1>4, Zenon DEF ext4_orphan_add
  <2>2. Altered(i, core[i], buf.ino[i], buf.names[i])
    BY <1>2, <2>1, AlterFacts, Zenon
  <2>3. Moves(p, w)
    BY <1>2, <1>3, <2>1, MoveFacts, Zenon
  <2>4. Flow(w) /\ Fits(w, core[i], buf.ino[i], buf.names[i], OnList(i))
    BY <1>1, <1>2, <1>4, Zenon DEF Flow, FitsAt, Fits, At, Dirty, Truncating
  <2> QED BY <1>1, <1>2, <1>3, <2>1, <2>2, <2>3, <2>4, OnwardTo, Zenon DEF Quiet
<1>5. CASE ~OnList(i)
  <2>1. list_add(i) /\ NoDup(orphan)
    BY <1>5, Zenon DEF ext4_orphan_add, BaseInv, ListInv
  <2>2. Relisted(i) /\ Contains(orphan', i)
    <3> SUFFICES \A k \in Ino : k = i => Relisted(k) /\ Contains(orphan', k)
      BY <1>2, Zenon
    <3> TAKE k \in Ino
    <3> HAVE k = i
    <3> HIDE DEF i
    <3>1. ~OnList(k) /\ list_add(k)
      BY <1>5, <2>1
    <3> QED BY <1>2, <2>1, <3>1, ListFacts, Zenon DEF Relisted, OnList
  <2>3. CASE core[i].next = 0 \/ core[i].next > NIno
    <3>1. /\ core' = [core EXCEPT ![i].next = buf.last]
          /\ buf' = [buf EXCEPT !.last = i] /\ Goto(p, "addmark")
      BY <1>5, <2>3, Zenon DEF ext4_orphan_add
    <3>2. i \in 0 .. Dtime /\ buf.last \in 0 .. Dtime
      BY <1>2, NextInode, BufferFacts, Zenon
    <3>3. Altered(i, r, buf.ino[i], buf.names[i])
      <4>1. r \in InodeRec
        BY <1>2, <3>2, Zenon DEF InodeRec
      <4>2. core' = [core EXCEPT ![i] = r]
        BY <3>1, Zenon
      <4> HIDE DEF r
      <4> QED BY <1>2, <3>1, <3>2, <4>1, <4>2, AlterHead, Zenon
    <3>4. Moves(p, v)
      BY <1>2, <1>3, <3>1, MoveFacts, Zenon
    <3>5. /\ Flow(v)
          /\ Fits(v, r, buf.ino[i], buf.names[i], Contains(orphan', i))
      BY <1>1, <1>2, <1>5, <2>2, Zenon
         DEF Flow, FitsAt, Fits, At, Dirty, Truncating, InodeRec
    <3> QED BY <1>1, <1>3, <2>2, <3>3, <3>4, <3>5, ListStepTo, Zenon
  <2>4. CASE ~(core[i].next = 0 \/ core[i].next > NIno)
    <3>1. UNCHANGED <<core, buf>> /\ Goto(p, proc[p].ret)
      BY <1>5, <2>4, Zenon DEF ext4_orphan_add
    <3>2. Altered(i, core[i], buf.ino[i], buf.names[i])
      BY <1>2, <3>1, AlterFacts, Zenon
    <3>3. Moves(p, w)
      BY <1>2, <1>3, <3>1, MoveFacts, Zenon
    <3>4. /\ Flow(w)
          /\ Fits(w, core[i], buf.ino[i], buf.names[i], Contains(orphan', i))
      BY <1>1, <1>2, <1>5, <2>2, <2>4, Zenon DEF Flow, FitsAt, Fits, At, Dirty, Truncating
    <3> QED BY <1>1, <1>3, <2>2, <3>2, <3>3, <3>4, ListStepTo, Zenon
  <2> QED BY <2>3, <2>4, Zenon
<1> QED BY <1>4, <1>5, Zenon

\* The error paths: a file that keeps a name leaves the in-memory list.
LEMMA NoHandle ==
  ASSUME BaseInv, NEW i \in Ino
  PROVE  /\ orphan_del_nohandle(i) => Relisted(i) /\ ~Contains(orphan', i)
         /\ /\ core[i].nlink = buf.names[i]
            /\ IF core[i].nlink > 0 THEN orphan_del_nohandle(i) ELSE UNCHANGED orphan
            => /\ Relisted(i)
               /\ Contains(orphan', i) => OnList(i) /\ buf.names[i] = 0
<1>1. NoDup(orphan) /\ orphan \in Seq(Ino) /\ TypeOK /\ buf.names[i] \in Nat
  BY BufferFacts, Zenon DEF BaseInv, ListInv, TypeOK
<1>2. orphan_del_nohandle(i) => Relisted(i) /\ ~Contains(orphan', i)
  BY <1>1, ListFacts, Zenon DEF Relisted, OnList
<1>3. UNCHANGED orphan => /\ Relisted(i)
                          /\ Contains(orphan', i) => OnList(i)
  BY <1>1, Zenon DEF Relisted, OnList
<1> QED BY <1>1, <1>2, <1>3

LEMMA DioEnd ==
  ASSUME BaseInv, NEW p \in Procs, dio_end(p)
  PROVE  BaseInv'
<1> DEFINE i == proc[p].ino
<1>1. /\ proc[p].pc = "dioend" /\ UNCHANGED <<core, buf>>
      /\ UNCHANGED <<cached, open, linkable, disk, mode, error, crashes, mix>>
  BY Zenon DEF dio_end
<1>2. /\ TypeOK /\ i \in Ino
      /\ Flow(proc[p]) /\ FitsAt(proc[p], i)
      /\ proc[p].op \in Calls /\ core[i] \in InodeRec
  BY <1>1, WorkFacts, Zenon
<1>3. Altered(i, core[i], buf.ino[i], buf.names[i])
  BY <1>1, <1>2, AlterFacts, Zenon
<1>4. /\ {"del", "dset"} \subseteq Pcs /\ buf.names[i] \in Nat
      /\ core[i].nlink = buf.names[i] /\ buf.ino[i] = core[i]
      /\ proc[p].op \in {"dio", "diofail"} /\ i # 0
      /\ proc[p].op = "dio" => core[i].size < core[i].blocks
      /\ core[i].size <= core[i].blocks
  <2>1. {"del", "dset"} \subseteq Pcs /\ buf.names[i] \in Nat /\ i # 0
    BY <1>2, BufferFacts, NoInodeZero, Zenon DEF Pcs
  <2>2. proc[p].op \in {"dio", "diofail"}
    BY <1>1, <1>2, Zenon DEF Flow
  <2> QED BY <1>1, <1>2, <2>1, <2>2, Zenon DEF FitsAt, Fits, Dirty
<1>5. CASE core[i].nlink > 0 /\ Call(p, "del", "dset") /\ UNCHANGED orphan
  <2> DEFINE w == At(p, "del", proc[p].op, "dset")
  <2>1. Moves(p, w)
    BY <1>2, <1>4, <1>5, MoveFacts, Zenon
  <2>2. Flow(w) /\ Fits(w, core[i], buf.ino[i], buf.names[i], OnList(i))
    BY <1>4, <1>5, Zenon DEF Flow, Fits, At, Dirty
  <2> QED BY <1>1, <1>2, <1>3, <1>4, <1>5, <2>1, <2>2, OnwardTo, Zenon DEF Quiet
<1>6. CASE ~(core[i].nlink > 0) /\ Goto(p, "dset") /\ UNCHANGED orphan
  <2> DEFINE w == At(p, "dset", proc[p].op, proc[p].ret)
  <2>1. Moves(p, w)
    BY <1>2, <1>4, <1>6, MoveFacts, Zenon
  <2>2. Flow(w) /\ Fits(w, core[i], buf.ino[i], buf.names[i], OnList(i))
    BY <1>4, <1>6, Zenon DEF Flow, Fits, At, Dirty
  <2> QED BY <1>1, <1>2, <1>3, <1>4, <1>6, <2>1, <2>2, OnwardTo, Zenon DEF Quiet
<1>7. CASE /\ IF core[i].nlink > 0 THEN orphan_del_nohandle(i) ELSE UNCHANGED orphan
           /\ Finish(p)
  <2>1. /\ Relisted(i)
        /\ Contains(orphan', i) => OnList(i) /\ buf.names[i] = 0
    <3> SUFFICES \A k \in Ino : k = i =>
                   /\ Relisted(k)
                   /\ Contains(orphan', k) => OnList(k) /\ buf.names[k] = 0
      BY <1>2, Zenon
    <3> TAKE k \in Ino
    <3> HAVE k = i
    <3> HIDE DEF i
    <3>1. /\ IF core[k].nlink > 0 THEN orphan_del_nohandle(k) ELSE UNCHANGED orphan
          /\ core[k].nlink = buf.names[k]
      BY <1>4, <1>7, Zenon
    <3> QED BY <3>1, NoHandle, Zenon
  <2>2. Contains(orphan', i) => i \in cached
    BY <1>2, <2>1, Zenon DEF BaseInv, ListInv
  <2>3. Moves(p, Idle)
    BY <1>2, <1>7, MoveFacts, Zenon
  <2>4. Fits(Idle, core[i], buf.ino[i], buf.names[i], Contains(orphan', i))
    BY <1>4, <2>1, Zenon DEF Fits, Idle
  <2>5. error' \in BOOLEAN /\ cached' = cached
    BY <1>1, <1>2, Zenon DEF TypeOK
  <2> QED BY <1>1, <1>3, <1>4, <2>1, <2>2, <2>3, <2>4, <2>5, ListStepDone, Zenon
<1> QED BY <1>5, <1>6, <1>7, Zenon DEF dio_end

LEMMA AfterTruncate ==
  ASSUME BaseInv, NEW p \in Procs, after_truncate(p)
  PROVE  BaseInv'
<1> DEFINE i == proc[p].ino
<1>1. /\ proc[p].pc \in {"tail", "tailerr"} /\ proc[p].pc # "idle"
      /\ UNCHANGED <<core, buf>>
      /\ UNCHANGED <<open, linkable, disk, mode, crashes, mix>>
  BY Zenon DEF after_truncate
<1>2. /\ TypeOK /\ i \in Ino
      /\ Flow(proc[p]) /\ FitsAt(proc[p], i)
      /\ proc[p].op \in Calls /\ core[i] \in InodeRec
  BY <1>1, WorkFacts, Zenon
<1>3. Altered(i, core[i], buf.ino[i], buf.names[i])
  BY <1>1, <1>2, AlterFacts, Zenon
<1>4. /\ "dioend" \in Pcs
      /\ core[i].nlink = buf.names[i] /\ buf.ino[i] = core[i]
      /\ proc[p].op \in Truncating /\ i # 0
      /\ proc[p].op = "recover" => ~OnList(i)
      /\ core[i].size <= core[i].blocks
      /\ error \in BOOLEAN
  BY <1>1, <1>2, ConstantsAssumption, Zenon
     DEF Pcs, Flow, FitsAt, Fits, Dirty, Truncating, TypeOK
<1>5. CASE /\ proc[p].op \in {"setattr", "write"}
           /\ IF core[i].nlink > 0 THEN orphan_del_nohandle(i) ELSE UNCHANGED orphan
           /\ error' \in BOOLEAN /\ Finish(p) /\ UNCHANGED cached
  <2>1. /\ Relisted(i)
        /\ Contains(orphan', i) => OnList(i) /\ buf.names[i] = 0
    <3> SUFFICES \A k \in Ino : k = i =>
                   /\ Relisted(k)
                   /\ Contains(orphan', k) => OnList(k) /\ buf.names[k] = 0
      BY <1>2
    <3> TAKE k \in Ino
    <3> HAVE k = i
    <3>1. /\ IF core[k].nlink > 0 THEN orphan_del_nohandle(k) ELSE UNCHANGED orphan
          /\ core[k].nlink = buf.names[k]
      BY <1>4, <1>5, Zenon
    <3> HIDE DEF i
    <3> QED BY <3>1, NoHandle, SMTT(30)
  <2>2. Contains(orphan', i) => i \in cached
    BY <1>2, <2>1 DEF BaseInv, ListInv
  <2>3. Moves(p, Idle)
    BY <1>2, <1>5, MoveFacts, Zenon
  <2>4. Fits(Idle, core[i], buf.ino[i], buf.names[i], Contains(orphan', i))
    BY <1>4, <2>1, Zenon DEF Fits, Idle
  <2> QED BY <1>1, <1>3, <1>5, <2>1, <2>2, <2>3, <2>4, ListStepDone, Zenon
<1>6. CASE /\ proc[p].op = "diofail" /\ Goto(p, "dioend")
           /\ UNCHANGED <<orphan, error, cached>>
  <2> DEFINE w == At(p, "dioend", proc[p].op, proc[p].ret)
  <2>1. Moves(p, w)
    BY <1>2, <1>4, <1>6, MoveFacts, Zenon
  <2>2. Flow(w) /\ Fits(w, core[i], buf.ino[i], buf.names[i], OnList(i))
    BY <1>4, <1>6, Zenon DEF Flow, Fits, At, Dirty
  <2> QED BY <1>1, <1>2, <1>3, <1>4, <1>6, <2>1, <2>2, OnwardTo, Zenon DEF Quiet
<1>7. CASE /\ proc[p].op = "recover" /\ error' \in BOOLEAN
           /\ cached' = cached \ {i} /\ Finish(p) /\ UNCHANGED orphan
  <2>1. Relisted(i) /\ ~Contains(orphan', i)
    BY <1>2, <1>4, <1>7, Zenon DEF Relisted, OnList, BaseInv, ListInv, TypeOK
  <2>2. Moves(p, Idle)
    BY <1>2, <1>7, MoveFacts, Zenon
  <2>3. Fits(Idle, core[i], buf.ino[i], buf.names[i], Contains(orphan', i))
    BY <1>4, <2>1, Zenon DEF Fits, Idle
  <2> QED BY <1>1, <1>3, <1>7, <2>1, <2>2, <2>3, ListStepDone, Zenon
<1> QED BY <1>4, <1>5, <1>6, <1>7, Zenon DEF after_truncate

LEMMA EvictInode ==
  ASSUME BaseInv, NEW p \in Procs, ext4_evict_inode(p)
  PROVE  BaseInv'
<1> DEFINE i == proc[p].ino
           r == [core[i] EXCEPT !.size = 0]
<1>1. /\ proc[p].pc \in {"evict", "evictn"} /\ proc[p].pc # "idle"
      /\ UNCHANGED <<open, linkable, disk, mode, crashes, mix>>
  BY Zenon DEF ext4_evict_inode
<1>2. /\ TypeOK /\ i \in Ino
      /\ Flow(proc[p]) /\ FitsAt(proc[p], i)
      /\ proc[p].op \in Calls /\ core[i] \in InodeRec
  BY <1>1, WorkFacts, Zenon
<1>4. /\ {"add", "free", "del", "erase"} \subseteq Pcs
      /\ core[i].nlink = buf.names[i] /\ buf.names[i] = 0
      /\ proc[p].op = "evict" /\ i # 0
      /\ proc[p].pc = "evict" => buf.ino[i] = core[i]
      /\ core[i].size <= core[i].blocks
  BY <1>1, <1>2, Zenon DEF Pcs, Flow, FitsAt, Fits, Dirty
<1>5. CASE /\ mark_inode_dirty(i, r)
           /\ Call(p, "add", "free") \/ Call(p, "del", "erase")
           /\ UNCHANGED <<orphan, cached, error>>
  <2>1. r \in InodeRec
    BY <1>2, ConstantsAssumption DEF InodeRec
  <2>2. Altered(i, r, r, buf.names[i])
    BY <1>2, <1>5, <2>1, AlterFacts, Zenon
  <2>3. r.nlink = 0 /\ 0 <= r.blocks /\ r.size = 0
    BY <1>2, <1>4, ConstantsAssumption DEF InodeRec
  <2>4. CASE Call(p, "add", "free")
    <3> DEFINE w == At(p, "add", proc[p].op, "free")
    <3>1. Moves(p, w)
      BY <1>2, <1>4, <2>4, MoveFacts, Zenon
    <3> HIDE DEF r
    <3>2. Flow(w) /\ Fits(w, r, r, buf.names[i], OnList(i))
      BY <1>4, <2>3, Zenon DEF Flow, Fits, At, Dirty, Truncating
    <3> QED BY <1>1, <1>2, <1>4, <1>5, <2>2, <3>1, <3>2, OnwardTo, Zenon DEF Quiet
  <2>5. CASE Call(p, "del", "erase")
    <3> DEFINE w == At(p, "del", proc[p].op, "erase")
    <3>1. Moves(p, w)
      BY <1>2, <1>4, <2>5, MoveFacts, Zenon
    <3> HIDE DEF r
    <3>2. Flow(w) /\ Fits(w, r, r, buf.names[i], OnList(i))
      BY <1>4, <2>3, Zenon DEF Flow, Fits, At, Dirty, Truncating
    <3> QED BY <1>1, <1>2, <1>4, <1>5, <2>2, <3>1, <3>2, OnwardTo, Zenon DEF Quiet
  <2> QED BY <1>5, <2>4, <2>5, Zenon
<1>6. CASE /\ proc[p].pc = "evict" /\ orphan_del_nohandle(i)
           /\ error' = TRUE /\ cached' = cached \ {i} /\ Finish(p)
           /\ UNCHANGED <<core, buf>>
  <2>1. Relisted(i) /\ ~Contains(orphan', i)
    <3> SUFFICES \A k \in Ino : k = i => Relisted(k) /\ ~Contains(orphan', k)
      BY <1>2, Zenon
    <3> TAKE k \in Ino
    <3> HAVE k = i
    <3>1. orphan_del_nohandle(k)
      BY <1>6, SMTT(30)
    <3> HIDE DEF i
    <3> QED BY <3>1, NoHandle, Zenon
  <2>2. Moves(p, Idle)
    BY <1>2, <1>6, MoveFacts, Zenon
  <2>3. Fits(Idle, core[i], buf.ino[i], buf.names[i], Contains(orphan', i))
    BY <1>4, <1>6, <2>1, Zenon DEF Fits, Idle
  <2>4. Altered(i, core[i], buf.ino[i], buf.names[i])
    BY <1>2, <1>6, AlterFacts, Zenon
  <2> QED BY <1>1, <1>6, <2>1, <2>2, <2>3, <2>4, ListStepDone, Zenon
<1> QED BY <1>5, <1>6, Zenon DEF ext4_evict_inode

LEMMA FreeInode ==
  ASSUME BaseInv, NEW p \in Procs, ext4_free_inode(p)
  PROVE  BaseInv'
<1> DEFINE i == proc[p].ino
           r == [core[i] EXCEPT !.next = Dtime]
<1>1. /\ proc[p].pc = "erase"
      /\ core' = [core EXCEPT ![i] = r] /\ buf' = Freed(buf, i, r)
      /\ cached' = cached \ {i}
      /\ UNCHANGED <<orphan, open, linkable, disk, mode, error, crashes, mix>>
  BY Zenon DEF ext4_free_inode, Freed
<1>2. /\ TypeOK /\ i \in Ino
      /\ Flow(proc[p]) /\ FitsAt(proc[p], i)
      /\ proc[p].op \in Calls /\ core[i] \in InodeRec
  BY <1>1, WorkFacts, Zenon
<1>3. ~OnList(i) /\ mode # "unmounted"
  BY <1>1, <1>2, AtWork, Zenon DEF FitsAt, Fits
<1>4. r \in InodeRec
  BY <1>2, ConstantsAssumption, SMTT(30) DEF InodeRec, Dtime
<1> HIDE DEF r
<1>5. buf \in Metadata /\ core \in [Ino -> InodeRec] /\ cached \subseteq buf.used
      /\ NoDup(orphan)
  BY <1>2, Zenon DEF TypeOK, BaseInv, ListInv
<1>6. buf' = Meta(buf.last, [buf.ino EXCEPT ![i] = r], buf.used \ {i}, buf.names)
  BY <1>1, <1>2, <1>5, MetaFreed, Zenon
<1>7. Moves(p, Idle)
  BY <1>2, MoveFacts, Zenon DEF ext4_free_inode
<1>8. /\ buf' \in Metadata /\ core' \in [Ino -> InodeRec]
      /\ buf'.used = buf.used \ {i} /\ buf'.names = buf.names
      /\ \A j \in Ino \ {i} : core'[j] = core[j] /\ buf'.ino[j] = buf.ino[j]
  <2>1. /\ core' \in [Ino -> InodeRec]
        /\ \A j \in Ino \ {i} : core'[j] = core[j]
    BY <1>1, <1>2, <1>4, <1>5, Zenon
  <2>2. /\ [buf.ino EXCEPT ![i] = r] \in [Ino -> InodeRec]
        /\ \A j \in Ino \ {i} : [buf.ino EXCEPT ![i] = r][j] = buf.ino[j]
    BY <1>2, <1>4, <1>5, Zenon DEF Metadata
  <2>3. buf' \in Metadata /\ buf'.ino = [buf.ino EXCEPT ![i] = r]
        /\ buf'.used = buf.used \ {i} /\ buf'.names = buf.names
    BY <1>5, <1>6, <2>2, Zenon DEF Metadata, Meta
  <2> QED BY <2>1, <2>2, <2>3, Zenon
<1>9. TypeOK'
  BY <1>1, <1>2, <1>7, <1>8, Zenon DEF TypeOK, Moves, ProcRec
<1>10. \A j \in Ino \ {i} : Kept(j)
  BY <1>1, <1>8, Zenon DEF Kept, OnList
<1>11. /\ Idle.ino = 0 /\ Idle.op = "none" /\ Flow(Idle) /\ i # 0
       /\ cached' \subseteq buf'.used /\ i \notin buf'.used
  BY <1>1, <1>2, <1>5, <1>8, ConstantsAssumption, Zenon DEF Idle, Flow, Ino
<1>12. LocalStep(p, i)
  BY <1>1, <1>3, <1>5, <1>7, <1>10, <1>11, Zenon DEF LocalStep, Moves, OnList
<1> QED BY <1>2, <1>9, <1>12, LocalStepInv, Zenon

LEMMA OrphanDel ==
  ASSUME BaseInv, NEW p \in Procs, ext4_orphan_del(p)
  PROVE  BaseInv'
<1> DEFINE i == proc[p].ino
           w == At(p, proc[p].ret, proc[p].op, proc[p].ret)
           v == At(p, "delmark", proc[p].op, proc[p].ret)
<1>1. /\ proc[p].pc = "del"
      /\ UNCHANGED <<cached, open, linkable, disk, mode, error, crashes, mix>>
  BY Zenon DEF ext4_orphan_del
<1>2. /\ TypeOK /\ i \in Ino
      /\ Flow(proc[p]) /\ FitsAt(proc[p], i)
      /\ proc[p].op \in Calls /\ core[i] \in InodeRec
  BY <1>1, WorkFacts, Zenon
<1>3. proc[p].ret \in Pcs /\ "delmark" \in Pcs
  BY <1>1, <1>2, Zenon DEF Flow, Pcs
<1>4. CASE ~OnList(i)
  <2>1. UNCHANGED <<orphan, core, buf>> /\ Goto(p, proc[p].ret)
    BY <1>4, Zenon DEF ext4_orphan_del
  <2>2. Altered(i, core[i], buf.ino[i], buf.names[i])
    BY <1>2, <2>1, AlterFacts
  <2>3. Moves(p, w)
    BY <1>2, <1>3, <2>1, MoveFacts, Zenon
  <2>4. Flow(w) /\ Fits(w, core[i], buf.ino[i], buf.names[i], OnList(i))
    BY <1>1, <1>2, <1>4, Zenon DEF Flow, FitsAt, Fits, At, Dirty, Truncating
  <2> QED BY <1>1, <1>2, <1>3, <2>1, <2>2, <2>3, <2>4, OnwardTo, Zenon DEF Quiet
<1>5. CASE OnList(i)
  <2>1. /\ list_del_init(i) /\ NoDup(orphan) /\ Goto(p, "delmark")
        /\ orphan \in Seq(Ino)
    BY <1>2, <1>5, Zenon DEF ext4_orphan_del, BaseInv, ListInv, TypeOK
  <2>2. /\ Relisted(i) /\ ~Contains(orphan', i)
        /\ Pos(i) \in 1 .. Len(orphan) /\ orphan[Pos(i)] = i
    <3> SUFFICES \A k \in Ino : k = i =>
                   /\ Relisted(k) /\ ~Contains(orphan', k)
                   /\ Pos(k) \in 1 .. Len(orphan) /\ orphan[Pos(k)] = k
      BY <1>2, Zenon
    <3> TAKE k \in Ino
    <3> HAVE k = i
    <3> HIDE DEF i
    <3>1. OnList(k) /\ list_del_init(k)
      BY <1>5, <2>1
    <3> QED BY <1>2, <2>1, <3>1, ListFacts, Zenon DEF Relisted, OnList
  <2>3. Moves(p, v)
    BY <1>2, <1>3, <2>1, MoveFacts, Zenon
  <2>4. /\ Flow(v)
        /\ Fits(v, core[i], buf.ino[i], buf.names[i], Contains(orphan', i))
    BY <1>1, <1>2, <1>5, <2>2, Zenon DEF Flow, FitsAt, Fits, At, Dirty, Truncating
  <2>5. CASE Pos(i) = 1
    <3>1. buf' = [buf EXCEPT !.last = core[i].next] /\ UNCHANGED core
      BY <1>5, <2>5, Zenon DEF ext4_orphan_del
    <3>2. core[i].next \in 0 .. Dtime /\ core' = [core EXCEPT ![i] = core[i]]
      BY <1>2, <3>1, Zenon DEF InodeRec, TypeOK
    <3>3. Altered(i, core[i], buf.ino[i], buf.names[i])
      BY <1>2, <3>1, <3>2, AlterHead, Zenon
    <3> QED BY <1>1, <1>3, <2>2, <2>3, <2>4, <3>3, ListStepTo, Zenon
  <2>6. CASE Pos(i) # 1
    <3>1. PICK j \in Ino : j = orphan[Pos(i) - 1] /\ OnList(j) /\ j # i
      <4>1. Pos(i) - 1 \in 1 .. Len(orphan)
        BY <2>1, <2>2, <2>6
      <4>2. orphan[Pos(i) - 1] \in Ino /\ OnList(orphan[Pos(i) - 1])
        BY <2>1, <4>1, SMTT(30) DEF OnList, Contains
      <4>3. orphan[Pos(i) - 1] # i
        BY <2>1, <2>2, <4>1 DEF NoDup
      <4> QED BY <4>2, <4>3, Zenon
    <3>2. mark_inode_dirty(j, [core[j] EXCEPT !.next = core[i].next])
      BY <1>5, <2>6, <3>1, Zenon DEF ext4_orphan_del
    <3> DEFINE r == [core[j] EXCEPT !.next = core[i].next]
    <3>3. /\ r \in InodeRec /\ r.nlink = core[j].nlink
          /\ r.size = core[j].size /\ r.blocks = core[j].blocks
      BY <1>2, <3>1, Zenon DEF TypeOK, InodeRec
    <3> HIDE DEF r
    <3>4. Marked(j, r)
      BY <1>2, <3>2, <3>3, MarkFacts, Zenon DEF r
    <3>5. TypeOK'
      BY <1>1, <1>2, <2>2, <2>3, <3>4, Zenon DEF TypeOK, Moves, ProcRec, Marked, Relisted
    <3>6. \A k \in Ino \ {i} : Kept(k)
      BY <1>1, <2>2, <3>1, <3>3, <3>4, Zenon DEF Kept, Marked, Relisted, OnList
    <3>7. /\ v.ino = i /\ v.op = proc[p].op /\ i # 0
          /\ mode # "unmounted" /\ i \in cached /\ cached \subseteq buf.used
          /\ mode = "recovering" => proc[p].op \in {"evict", "recover"}
      BY <1>1, <1>2, AtWork, NoInodeZero, Zenon DEF At, BaseInv, ListInv
    <3>8. /\ core'[i] = core[i] /\ buf'.ino[i] = buf.ino[i]
          /\ buf'.names[i] = buf.names[i] /\ buf'.used = buf.used
      BY <1>2, <3>1, <3>4, Zenon DEF Marked
    <3> HIDE DEF v
    <3>9. LocalStep(p, i)
      BY <1>1, <2>2, <2>3, <2>4, <3>6, <3>7, <3>8, Zenon
         DEF LocalStep, Moves, FitsNext, Relisted
    <3> QED BY <1>2, <3>5, <3>9, LocalStepInv, Zenon
  <2> QED BY <2>5, <2>6, Zenon
<1> QED BY <1>4, <1>5, Zenon

-----------------------------------------------------------------------------
(* System calls and the last reference.                                    *)

\* A call that starts on inode i.
LEMMA CallStarts ==
  ASSUME BaseInv, NEW p \in Procs, proc[p].pc = "idle", mode = "mounted",
         NEW i \in Ino, i \in buf.used, ~Busy(i),
         UNCHANGED <<orphan, disk, mode, error, crashes, mix>>,
         open' \subseteq Ino, linkable' \subseteq Ino,
         cached' \subseteq buf.used, cached \cup {i} \subseteq cached',
         NEW r, NEW b, NEW n, Altered(i, r, b, n),
         NEW o \in Calls, NEW l \in Pcs, NEW t \in Pcs \cup {"none"},
         Start(p, i, o, l, t), Flow(Doing(i, o, l, t)),
         Fits(Doing(i, o, l, t), r, b, n, OnList(i))
  PROVE  BaseInv'
<1>1. proc[p].ino = 0
  BY CallFacts, Zenon
<1>2. i # 0
  BY NoInodeZero, Zenon
<1>3. TypeOK
  BY Zenon DEF BaseInv
<1>4. Moves(p, Doing(i, o, l, t)) /\ Doing(i, o, l, t).ino = i
  BY <1>3, MoveFacts, Zenon DEF Doing
<1> QED BY <1>1, <1>2, <1>4, WorkStep, Zenon

\* A call that is over at once.
LEMMA CallReturnsAtOnce ==
  ASSUME BaseInv, NEW p \in Procs, proc[p].pc = "idle", mode = "mounted",
         NEW i \in Ino, i \in buf.used, ~Busy(i),
         UNCHANGED <<orphan, disk, mode, error, crashes, mix, proc>>,
         open' \subseteq Ino, linkable' \subseteq Ino,
         cached' \subseteq buf.used, cached \cup {i} \subseteq cached',
         NEW r, NEW b, NEW n, Altered(i, r, b, n),
         Fits(Idle, r, b, n, OnList(i))
  PROVE  BaseInv'
<1>1. proc[p].ino = 0 /\ proc[p] = Idle
  BY CallFacts, Zenon
<1>2. Moves(p, Idle)
  BY <1>1, Zenon DEF Moves, BaseInv, TypeOK, ProcRec
<1>3. Idle.ino = 0 /\ Idle.op = "none" /\ Flow(Idle) /\ i # 0
  BY IdleFacts, NoInodeZero, Zenon
<1> QED BY <1>1, <1>2, <1>3, WorkStep, Zenon

\* The number of names changes, and the in-core inode, which is marked dirty or
\* not.
LEMMA AlterNames ==
  ASSUME TypeOK, NEW i \in Ino, NEW r \in InodeRec, NEW n \in 0 .. LinkMax,
         core' = [core EXCEPT ![i] = r]
  PROVE  /\ buf' = [buf EXCEPT !.names[i] = n] => Altered(i, r, buf.ino[i], n)
         /\ buf' = Named(buf, i, n, r) => Altered(i, r, r, n)
<1>1. buf \in Metadata /\ core \in [Ino -> InodeRec]
  BY Zenon DEF TypeOK
<1>2. ASSUME buf' = [buf EXCEPT !.names[i] = n]
      PROVE  Altered(i, r, buf.ino[i], n)
  BY <1>1, <1>2, Zenon DEF Altered, Metadata
<1>3. ASSUME buf' = Named(buf, i, n, r)
      PROVE  Altered(i, r, r, n)
  <2>1. buf' = Meta(buf.last, [buf.ino EXCEPT ![i] = r], buf.used,
                    [buf.names EXCEPT ![i] = n])
    BY <1>1, <1>3, MetaNamed, Zenon
  <2> QED BY <1>1, <2>1, Zenon DEF Altered, Metadata, Meta
<1> QED BY <1>2, <1>3, Zenon

LEMMA DropName ==
  ASSUME BaseInv, NEW p \in Procs, proc[p].pc = "idle", mode = "mounted",
         NEW i \in Ino, i \in buf.used, ~Busy(i), buf.names[i] > 0,
         NEW o \in {"unlink", "rename"}, drop_name(p, i, o),
         UNCHANGED <<orphan, open, linkable, disk, mode, error, crashes, mix>>,
         cached' \subseteq buf.used, cached \cup {i} \subseteq cached'
  PROVE  BaseInv'
<1> DEFINE r == [core[i] EXCEPT !.nlink = @ - 1]
<1>1. /\ TypeOK /\ core[i] \in InodeRec /\ buf.ino[i] = core[i]
      /\ core[i].nlink = buf.names[i] /\ buf.names[i] \in 0 .. LinkMax
      /\ core[i].size <= core[i].blocks /\ ~OnList(i)
      /\ open \subseteq Ino /\ linkable \subseteq Ino
  BY CallFacts
<1>2. /\ buf.names[i] - 1 \in 0 .. LinkMax
      /\ r \in InodeRec /\ r.nlink = buf.names[i] - 1
      /\ r.size = core[i].size /\ r.blocks = core[i].blocks
      /\ core' = [core EXCEPT ![i] = r]
  BY <1>1, ConstantsAssumption, SMTT(30) DEF InodeRec, drop_name
<1>3. CASE r.nlink = 0
  <2>1. buf' = [buf EXCEPT !.names[i] = buf.names[i] - 1]
    BY <1>3, Zenon DEF drop_name
  <2>2. Start(p, i, o, "add", "added")
    BY <1>3, Zenon DEF drop_name
  <2> HIDE DEF r
  <2>3. Altered(i, r, buf.ino[i], buf.names[i] - 1)
    BY <1>1, <1>2, <2>1, AlterNames, Zenon
  <2>4. /\ Flow(Doing(i, o, "add", "added"))
        /\ Fits(Doing(i, o, "add", "added"), r, buf.ino[i], buf.names[i] - 1,
                OnList(i))
    <3> DEFINE w == Doing(i, o, "add", "added")
    <3>1. w.pc = "add" /\ w.op = o /\ w.ret = "added" /\ w.ino # 0
      BY NoInodeZero, Zenon DEF Doing
    <3>2. buf.names[i] - 1 = 0 /\ r.size <= r.blocks
      BY <1>1, <1>2, <1>3, Zenon
    <3> HIDE DEF w
    <3>3. Flow(w) /\ Dirty(w)
      BY <3>1, Zenon DEF Flow, Dirty
    <3>4. Fits(w, r, buf.ino[i], buf.names[i] - 1, OnList(i))
      BY <1>1, <1>2, <3>1, <3>2, <3>3, Zenon DEF Fits
    <3> QED BY <3>3, <3>4, Zenon DEF w
  <2>5. o \in Calls /\ "add" \in Pcs /\ "added" \in Pcs \cup {"none"}
    BY Zenon DEF Calls, Pcs
  <2> QED BY <1>1, <2>2, <2>3, <2>4, <2>5, CallStarts, Zenon
<1>4. CASE r.nlink # 0
  <2>1. buf' = Named(buf, i, buf.names[i] - 1, r) /\ UNCHANGED proc
    BY <1>4, Zenon DEF drop_name, Named
  <2> HIDE DEF r
  <2>2. Altered(i, r, r, buf.names[i] - 1)
    BY <1>1, <1>2, <2>1, AlterNames, Zenon
  <2>3. Fits(Idle, r, r, buf.names[i] - 1, OnList(i))
    BY <1>1, <1>2, Zenon DEF Fits, Idle, Dirty
  <2> QED BY <1>1, <2>1, <2>2, <2>3, CallReturnsAtOnce, Zenon
<1> QED BY <1>3, <1>4, Zenon

LEMMA Unlink ==
  ASSUME BaseInv, NEW p \in Procs, NEW i \in Ino,
         ext4_unlink(p, i) \/ \E j \in Ino : ext4_rename(p, i, j)
  PROVE  BaseInv'
<1>1. cached \subseteq buf.used
  BY Zenon DEF BaseInv, ListInv
<1>2. CASE ext4_unlink(p, i)
  <2>1. /\ proc[p].pc = "idle" /\ mode = "mounted" /\ i \in buf.used /\ ~Busy(i)
        /\ buf.names[i] > 0 /\ drop_name(p, i, "unlink")
        /\ UNCHANGED <<orphan, open, linkable, disk, mode, error, crashes, mix>>
        /\ cached' = cached \cup {i}
    BY <1>2, Zenon DEF ext4_unlink, MayCall, Reachable
  <2> QED BY <1>1, <2>1, DropName, Zenon
<1>3. CASE \E j \in Ino : ext4_rename(p, i, j)
  <2>1. PICK j \in Ino : ext4_rename(p, i, j)
    BY <1>3, Zenon
  <2>2. /\ proc[p].pc = "idle" /\ mode = "mounted" /\ i \in buf.used /\ ~Busy(i)
        /\ buf.names[i] > 0 /\ drop_name(p, i, "rename")
        /\ UNCHANGED <<orphan, open, linkable, disk, mode, error, crashes, mix>>
        /\ cached' = cached \cup {i, j} /\ j \in buf.used
    BY <2>1, Zenon DEF ext4_rename, MayCall, Reachable
  <2> QED BY <1>1, <2>2, DropName, Zenon
<1> QED BY <1>2, <1>3, Zenon

LEMMA LinkCall ==
  ASSUME BaseInv, NEW p \in Procs, NEW i \in Ino, ext4_link(p, i)
  PROVE  BaseInv'
<1> DEFINE r == [core[i] EXCEPT !.nlink = @ + 1]
<1>0. /\ proc[p].pc = "idle" /\ mode = "mounted" /\ i \in buf.used /\ ~Busy(i)
      /\ core[i].nlink < LinkMax /\ core' = [core EXCEPT ![i] = r]
      /\ UNCHANGED <<orphan, open, disk, mode, error, crashes, mix>>
      /\ cached' = cached \cup {i} /\ linkable' = linkable \ {i}
  BY Zenon DEF ext4_link, MayCall, Reachable, link_room
<1>1. /\ TypeOK /\ core[i] \in InodeRec /\ buf.ino[i] = core[i]
      /\ core[i].nlink = buf.names[i] /\ buf.names[i] \in 0 .. LinkMax
      /\ core[i].size <= core[i].blocks
      /\ open \subseteq Ino /\ linkable \subseteq Ino
      /\ cached \subseteq buf.used
      /\ OnList(i) => buf.names[i] = 0
  BY <1>0, CallFacts, Zenon
<1>2. /\ buf.names[i] + 1 \in 0 .. LinkMax
      /\ r \in InodeRec /\ r.nlink = buf.names[i] + 1
      /\ r.size = core[i].size /\ r.blocks = core[i].blocks
  BY <1>0, <1>1, ConstantsAssumption, SMTT(30) DEF InodeRec
<1>3. buf' = Named(buf, i, buf.names[i] + 1, r)
  <2> DEFINE c == [buf EXCEPT !.ino[i] = r]
  <2>1. buf \in Metadata
    BY <1>1, Zenon DEF TypeOK
  <2>2. buf' = [c EXCEPT !.names[i] = buf.names[i] + 1]
    BY <2>1, Zenon DEF ext4_link, Metadata
  <2> HIDE DEF r
  <2>3. c = Meta(buf.last, [buf.ino EXCEPT ![i] = r], buf.used, buf.names)
    BY <2>1 DEF Metadata, Meta
  <2> HIDE DEF c
  <2>4. buf' = Meta(buf.last, [buf.ino EXCEPT ![i] = r], buf.used,
                    [buf.names EXCEPT ![i] = buf.names[i] + 1])
    BY <2>2, <2>3, Zenon DEF Meta
  <2> QED BY <2>1, <2>4, MetaNamed, Zenon
<1>4. r.nlink = 1 => Start(p, i, "link", "del", "added")
  BY Zenon DEF ext4_link
<1>5. r.nlink # 1 => UNCHANGED proc
  BY Zenon DEF ext4_link
<1> HIDE DEF r
<1>6. Altered(i, r, r, buf.names[i] + 1)
  BY <1>0, <1>1, <1>2, <1>3, AlterNames, Zenon
<1>7. CASE r.nlink = 1
  <2>4. /\ Flow(Doing(i, "link", "del", "added"))
        /\ Fits(Doing(i, "link", "del", "added"), r, r, buf.names[i] + 1, OnList(i))
    <3> DEFINE w == Doing(i, "link", "del", "added")
    <3>1. w.pc = "del" /\ w.op = "link" /\ w.ret = "added" /\ w.ino # 0
      BY NoInodeZero, Zenon DEF Doing
    <3>2. buf.names[i] + 1 > 0 /\ r.size <= r.blocks
      BY <1>1, <1>2
    <3> HIDE DEF w
    <3>3. Flow(w)
      BY <3>1, Zenon DEF Flow
    <3>4. Fits(w, r, r, buf.names[i] + 1, OnList(i))
      BY <1>2, <3>1, <3>2, Zenon DEF Fits
    <3> QED BY <3>3, <3>4, Zenon DEF w
  <2>5. "link" \in Calls /\ "del" \in Pcs /\ "added" \in Pcs \cup {"none"}
    BY Zenon DEF Calls, Pcs
  <2> QED BY <1>0, <1>1, <1>4, <1>6, <1>7, <2>4, <2>5, CallStarts, Zenon
<1>8. CASE r.nlink # 1
  <2>1. Fits(Idle, r, r, buf.names[i] + 1, OnList(i))
    <3>1. ~OnList(i) /\ r.size <= r.blocks
      <4>1. buf.names[i] # 0
        BY <1>2, <1>8
      <4> QED BY <1>1, <1>2, <4>1, Zenon
    <3> QED BY <1>2, <3>1, IdleFacts, Zenon DEF Fits
  <2> QED BY <1>0, <1>1, <1>5, <1>6, <1>8, <2>1, CallReturnsAtOnce, Zenon
<1> QED BY <1>7, <1>8, Zenon

LEMMA WriteEnd ==
  ASSUME BaseInv, NEW p \in Procs, NEW i \in Ino, ext4_write_end(p, i)
  PROVE  BaseInv'
<1> DEFINE r == [core[i] EXCEPT !.size = core[i].size + 1,
                                !.blocks = core[i].blocks + 1]
           d == [core[i] EXCEPT !.size = core[i].size + 1]
<1>0. /\ proc[p].pc = "idle" /\ mode = "mounted" /\ i \in buf.used /\ ~Busy(i)
      /\ core[i].blocks < MaxBlocks /\ mark_inode_dirty(i, r)
      /\ UNCHANGED <<orphan, open, linkable, disk, proc, mode, error, crashes, mix>>
      /\ cached' = cached \cup {i}
  BY Zenon DEF ext4_write_end, MayCall, Reachable
<1>1. /\ TypeOK /\ core[i] \in InodeRec /\ buf.ino[i] = core[i]
      /\ core[i].nlink = buf.names[i]
      /\ core[i].size <= core[i].blocks
      /\ open \subseteq Ino /\ linkable \subseteq Ino
      /\ cached \subseteq buf.used
      /\ OnList(i) => buf.names[i] = 0
  BY <1>0, CallFacts, Zenon
<1>2. core[i].size + 1 \in 0 .. MaxBlocks /\ core[i].blocks + 1 \in 0 .. MaxBlocks
  BY <1>0, <1>1, Counts, ConstantsAssumption
<1>3. r \in InodeRec
  BY <1>1, <1>2, Resized, Zenon
<1>4. r.size <= r.blocks /\ r.nlink = core[i].nlink
  <2>1. r = [d EXCEPT !.blocks = core[i].blocks + 1]
    BY <1>1, Zenon DEF InodeRec
  <2>2. d \in InodeRec /\ d.size = core[i].size + 1 /\ d.nlink = core[i].nlink
    BY <1>1, <1>2, Zenon DEF InodeRec
  <2> HIDE DEF d, r
  <2>3. /\ r.size = core[i].size + 1 /\ r.blocks = core[i].blocks + 1
        /\ r.nlink = core[i].nlink
    BY <2>1, <2>2, Zenon DEF InodeRec
  <2>4. core[i].size + 1 <= core[i].blocks + 1
    BY <1>1, Counts
  <2> QED BY <2>3, <2>4, Zenon
<1>5. Altered(i, r, r, buf.names[i])
  BY <1>0, <1>1, <1>3, AlterFacts, Zenon
<1> HIDE DEF r
<1>6. Fits(Idle, r, r, buf.names[i], OnList(i))
  BY <1>1, <1>4, Zenon DEF Fits, Idle, Dirty
<1> QED BY <1>0, <1>1, <1>5, <1>6, CallReturnsAtOnce, Zenon

LEMMA WriteBegin ==
  ASSUME BaseInv, NEW p \in Procs, NEW i \in Ino, ext4_write_begin(p, i)
  PROVE  BaseInv'
<1> DEFINE r == [core[i] EXCEPT !.blocks = @ + 1]
<1>0. /\ proc[p].pc = "idle" /\ mode = "mounted" /\ i \in buf.used /\ ~Busy(i)
      /\ core[i].blocks < MaxBlocks /\ mark_inode_dirty(i, r)
      /\ UNCHANGED <<orphan, open, linkable, disk, mode, error, crashes, mix>>
      /\ cached' = cached \cup {i} /\ Start(p, i, "write", "add", "added")
  BY Zenon DEF ext4_write_begin, MayCall, Reachable
<1>1. /\ TypeOK /\ core[i] \in InodeRec /\ buf.ino[i] = core[i]
      /\ core[i].nlink = buf.names[i]
      /\ core[i].size <= core[i].blocks
      /\ open \subseteq Ino /\ linkable \subseteq Ino
      /\ cached \subseteq buf.used
  BY <1>0, CallFacts, Zenon
<1>2. r \in InodeRec /\ r.size <= r.blocks /\ r.nlink = core[i].nlink
  <2>1. /\ core[i].blocks + 1 \in 0 .. MaxBlocks
        /\ core[i].size <= core[i].blocks + 1
    BY <1>0, <1>1, Counts, ConstantsAssumption
  <2> QED BY <1>1, <2>1, BlocksSet, Zenon
<1>3. Altered(i, r, r, buf.names[i])
  BY <1>0, <1>1, <1>2, AlterFacts, Zenon
<1> HIDE DEF r
<1>4. /\ Flow(Doing(i, "write", "add", "added"))
      /\ Fits(Doing(i, "write", "add", "added"), r, r, buf.names[i], OnList(i))
  <2> DEFINE w == Doing(i, "write", "add", "added")
  <2>1. w.pc = "add" /\ w.op = "write" /\ w.ret = "added" /\ w.ino # 0
    BY NoInodeZero, Zenon DEF Doing
  <2> HIDE DEF w
  <2>2. Flow(w)
    BY <2>1, Zenon DEF Flow
  <2>3. Fits(w, r, r, buf.names[i], OnList(i))
    BY <1>1, <1>2, <2>1, Zenon DEF Fits
  <2> QED BY <2>2, <2>3, Zenon DEF w
<1>5. "write" \in Calls /\ "add" \in Pcs /\ "added" \in Pcs \cup {"none"}
  BY Zenon DEF Calls, Pcs
<1> QED BY <1>0, <1>1, <1>3, <1>4, <1>5, CallStarts, Zenon

\* Calls that leave the metadata alone at first.
LEMMA PlainCall ==
  ASSUME BaseInv, NEW p \in Procs, NEW i \in Ino,
         ext4_setattr(p, i) \/ ext4_direct_IO_write(p, i) \/ iput(p, i)
  PROVE  BaseInv'
<1>0. /\ proc[p].pc = "idle" /\ mode = "mounted" /\ i \in buf.used /\ ~Busy(i)
      /\ UNCHANGED <<core, buf>>
      /\ UNCHANGED <<orphan, open, linkable, disk, mode, error, crashes, mix>>
      /\ cached' = cached \cup {i}
  <2>1. cached \subseteq buf.used
    BY Zenon DEF BaseInv, ListInv
  <2> QED BY <2>1, Zenon DEF ext4_setattr, ext4_direct_IO_write, iput, MayCall, Reachable
<1>1. /\ TypeOK /\ core[i] \in InodeRec /\ buf.ino[i] = core[i]
      /\ core[i].nlink = buf.names[i]
      /\ core[i].size <= core[i].blocks
      /\ open \subseteq Ino /\ linkable \subseteq Ino
      /\ cached \subseteq buf.used
  BY <1>0, CallFacts, Zenon
<1>2. Altered(i, core[i], buf.ino[i], buf.names[i])
  BY <1>0, <1>1, AlterFacts, Zenon
<1>3. /\ {"setattr", "dio", "evict"} \subseteq Calls /\ {"add", "evict"} \subseteq Pcs
      /\ {"added", "none"} \subseteq Pcs \cup {"none"} /\ i # 0
  BY ConstantsAssumption, SMTT(30) DEF Calls, Pcs, Ino
<1>4. CASE ext4_setattr(p, i)
  <2>1. Start(p, i, "setattr", "add", "added")
    BY <1>4, Zenon DEF ext4_setattr
  <2>2. /\ Flow(Doing(i, "setattr", "add", "added"))
        /\ Fits(Doing(i, "setattr", "add", "added"), core[i], buf.ino[i],
                buf.names[i], OnList(i))
    BY <1>1, <1>3, Zenon DEF Flow, Fits, Doing, Dirty
  <2> QED BY <1>0, <1>1, <1>2, <1>3, <2>1, <2>2, CallStarts, Zenon
<1>5. CASE ext4_direct_IO_write(p, i)
  <2>1. Start(p, i, "dio", "add", "added") /\ core[i].blocks < MaxBlocks
    BY <1>5, Zenon DEF ext4_direct_IO_write
  <2>2. /\ Flow(Doing(i, "dio", "add", "added"))
        /\ Fits(Doing(i, "dio", "add", "added"), core[i], buf.ino[i],
                buf.names[i], OnList(i))
    BY <1>1, <1>3, <2>1, Zenon DEF Flow, Fits, Doing, Dirty
  <2> QED BY <1>0, <1>1, <1>2, <1>3, <2>1, <2>2, CallStarts, Zenon
<1>6. CASE iput(p, i)
  <2>1. Start(p, i, "evict", "evict", "none") /\ core[i].nlink = 0
    BY <1>6, Zenon DEF iput
  <2>2. /\ Flow(Doing(i, "evict", "evict", "none"))
        /\ Fits(Doing(i, "evict", "evict", "none"), core[i], buf.ino[i],
                buf.names[i], OnList(i))
    BY <1>1, <1>3, <2>1, Zenon DEF Flow, Fits, Doing, Dirty
  <2> QED BY <1>0, <1>1, <1>2, <1>3, <2>1, <2>2, CallStarts, Zenon
<1> QED BY <1>4, <1>5, <1>6, Zenon

LEMMA OpenClose ==
  ASSUME BaseInv, NEW p \in Procs, NEW i \in Ino, open_file(p, i) \/ close_file(i)
  PROVE  BaseInv'
<1>1. CASE open_file(p, i)
  <2>0. /\ proc[p].pc = "idle" /\ mode = "mounted" /\ i \in buf.used /\ ~Busy(i)
        /\ UNCHANGED <<core, buf>>
        /\ UNCHANGED <<orphan, linkable, disk, proc, mode, error, crashes, mix>>
        /\ cached' = cached \cup {i} /\ open' = open \cup {i}
    BY <1>1, Zenon DEF open_file, MayCall, Reachable
  <2>1. /\ TypeOK /\ core[i] \in InodeRec /\ buf.ino[i] = core[i]
        /\ core[i].nlink = buf.names[i]
        /\ core[i].size <= core[i].blocks
        /\ open \subseteq Ino /\ linkable \subseteq Ino
        /\ cached \subseteq buf.used
        /\ OnList(i) => buf.names[i] = 0
    BY <2>0, CallFacts, Zenon
  <2>2. Altered(i, core[i], buf.ino[i], buf.names[i])
    BY <2>0, <2>1, AlterFacts, Zenon
  <2>3. Fits(Idle, core[i], buf.ino[i], buf.names[i], OnList(i))
    BY <2>1, Zenon DEF Fits, Idle, Dirty
  <2> QED BY <2>0, <2>1, <2>2, <2>3, CallReturnsAtOnce, Zenon
<1>2. CASE close_file(i)
  BY <1>2, Zenon DEF close_file, BaseInv, TypeOK, OwnInv, ListInv, ModeInv, DiskInv,
              FitsAt, OnList, Busy, AllIdle
<1> QED BY <1>1, <1>2, Zenon

\* A new inode i, c in core and r in the buffer with n names, for a process
\* that is then in w.
LEMMA NewInodeStep ==
  ASSUME BaseInv, NEW p \in Procs, proc[p].pc = "idle", mode = "mounted",
         NEW i \in Ino, NEW c \in InodeRec, NEW r \in InodeRec,
         NEW n \in 0 .. LinkMax, new_inode(i, c, r, n),
         UNCHANGED <<orphan, disk, mode, error, crashes, mix>>,
         open' \subseteq Ino, linkable' \subseteq Ino,
         NEW w, Moves(p, w), w.ino \in {0, i}, Flow(w),
         w.ino # 0 => Fits(w, c, r, n, FALSE),
         w.ino = 0 => Fits(Idle, c, r, n, FALSE)
  PROVE  BaseInv'
<1>1. /\ TypeOK /\ NoDup(orphan) /\ buf \in Metadata
      /\ core \in [Ino -> InodeRec] /\ cached \subseteq buf.used
      /\ i \notin cached /\ i \notin buf.used /\ i # 0
  <2>1. i \notin buf.used /\ i # 0
    BY NoInodeZero, Zenon DEF new_inode
  <2> QED BY <2>1, Zenon DEF BaseInv, ListInv, TypeOK
<1>2. proc[p].ino = 0 /\ ~Busy(i) /\ ~OnList(i)
  <2>1. Flow(proc[p])
    BY Zenon DEF BaseInv, OwnInv
  <2>2. proc[p] = Idle
    BY <2>1, Zenon DEF Flow
  <2>3. ASSUME NEW q \in Procs, proc[q].ino = i PROVE FALSE
    BY <1>1, <2>3, Zenon DEF BaseInv, OwnInv
  <2> QED BY <1>1, <2>2, <2>3, IdleFacts, Zenon DEF BaseInv, ListInv, Busy
<1>3. buf' = Meta(buf.last, [buf.ino EXCEPT ![i] = r], buf.used \cup {i},
                  [buf.names EXCEPT ![i] = n])
  <2>1. buf' = Created(buf, i, n, r)
    BY Zenon DEF new_inode, Created
  <2> QED BY <1>1, <2>1, MetaCreated, Zenon
<1>4. /\ buf' \in Metadata /\ core' \in [Ino -> InodeRec]
      /\ core'[i] = c /\ buf'.ino[i] = r /\ buf'.names[i] = n
      /\ buf'.used = buf.used \cup {i} /\ cached' = cached \cup {i}
      /\ \A j \in Ino \ {i} : /\ core'[j] = core[j] /\ buf'.ino[j] = buf.ino[j]
                              /\ buf'.names[j] = buf.names[j]
  BY <1>1, <1>3 DEF new_inode, Metadata, Meta
<1>5. TypeOK'
  BY <1>1, <1>4, Zenon DEF TypeOK, Moves, ProcRec
<1>6. \A j \in Ino \ {i} : Kept(j)
  BY <1>4, Zenon DEF Kept, OnList
<1>7. /\ i \in cached' /\ cached' \subseteq buf'.used
      /\ NoDup(orphan') /\ Contains(orphan', i) = FALSE
  BY <1>1, <1>2, <1>4, Zenon DEF OnList, Contains
<1>8. /\ w.ino = i => FitsNext(w, i)
      /\ w.ino = 0 => FitsNext(Idle, i)
  BY <1>1, <1>4, <1>7, Zenon DEF FitsNext
<1>9. LocalStep(p, i)
  BY <1>1, <1>2, <1>6, <1>7, <1>8, Zenon DEF LocalStep, Moves
<1> QED BY <1>5, <1>9, LocalStepInv, Zenon

LEMMA NewInodes ==
  ASSUME BaseInv, NEW p \in Procs, NEW i \in Ino,
         ext4_create(p, i) \/ ext4_tmpfile(p, i) \/ ext4_symlink(p, i)
  PROVE  BaseInv'
<1>1. /\ proc[p].pc = "idle" /\ mode = "mounted" /\ i # 0
      /\ UNCHANGED <<orphan, disk, mode, error, crashes, mix>>
  BY ConstantsAssumption DEF ext4_create, ext4_tmpfile, ext4_symlink, MayCall, Ino
<1>2. /\ NewInode \in InodeRec /\ Nameless \in InodeRec
      /\ NewInode.nlink = 1 /\ Nameless.nlink = 0 /\ Nameless.next = 0
      /\ NewInode.size = 0 /\ NewInode.blocks = 0
      /\ Nameless.size = 0 /\ Nameless.blocks = 0
      /\ 1 \in 0 .. LinkMax /\ 0 \in 0 .. LinkMax
  BY ConstantsAssumption, SMTT(30) DEF NewInode, Nameless, InodeRec, Dtime
<1>3. TypeOK /\ Flow(proc[p])
  BY Zenon DEF BaseInv, OwnInv
<1>4. /\ {"tmpfile", "symlink"} \subseteq Calls /\ "add" \in Pcs
      /\ "added" \in Pcs \cup {"none"}
  BY Zenon DEF Calls, Pcs
<1>5. CASE ext4_create(p, i)
  <2>1. /\ new_inode(i, NewInode, NewInode, 1)
        /\ open' \subseteq Ino /\ linkable' \subseteq Ino
    BY <1>3, <1>5, Zenon DEF ext4_create, TypeOK
  <2>2. Moves(p, Idle) /\ Idle.ino = 0 /\ Flow(Idle)
    BY <1>1, <1>3, <1>5, Zenon DEF ext4_create, Moves, TypeOK, ProcRec, Flow, Idle
  <2>3. Fits(Idle, NewInode, NewInode, 1, FALSE)
    BY <1>2, SMTT(30) DEF Fits, Idle
  <2> QED BY <1>1, <1>2, <2>1, <2>2, <2>3, NewInodeStep, Zenon
<1>6. CASE ext4_tmpfile(p, i)
  <2>1. /\ new_inode(i, Nameless, Nameless, 0)
        /\ open' \subseteq Ino /\ linkable' \subseteq Ino
        /\ Start(p, i, "tmpfile", "add", "added")
    BY <1>3, <1>6, Zenon DEF ext4_tmpfile, TypeOK
  <2>2. /\ Moves(p, Doing(i, "tmpfile", "add", "added"))
        /\ Doing(i, "tmpfile", "add", "added").ino = i
    BY <1>3, <1>4, <2>1, MoveFacts, Zenon DEF Doing
  <2>3. /\ Flow(Doing(i, "tmpfile", "add", "added"))
        /\ Fits(Doing(i, "tmpfile", "add", "added"), Nameless, Nameless, 0, FALSE)
    <3> DEFINE w == Doing(i, "tmpfile", "add", "added")
    <3>1. w.pc = "add" /\ w.op = "tmpfile" /\ w.ret = "added" /\ w.ino # 0
      BY <1>1, Zenon DEF Doing
    <3> HIDE DEF w
    <3>2. Flow(w) /\ (Dirty(w) \/ Nameless = Nameless)
      BY <3>1, Zenon DEF Flow, Dirty
    <3>3. Nameless.size <= Nameless.blocks
      BY <1>2
    <3>4. Fits(w, Nameless, Nameless, 0, FALSE)
      BY <1>2, <3>1, <3>2, <3>3, Zenon DEF Fits
    <3> QED BY <3>2, <3>4, Zenon DEF w
  <2> QED BY <1>1, <1>2, <2>1, <2>2, <2>3, NewInodeStep, Zenon
<1>7. CASE ext4_symlink(p, i)
  <2>1. /\ new_inode(i, Nameless, NewInode, 0)
        /\ open' \subseteq Ino /\ linkable' \subseteq Ino
        /\ Start(p, i, "symlink", "add", "added")
    BY <1>3, <1>7, Zenon DEF ext4_symlink, TypeOK
  <2>2. /\ Moves(p, Doing(i, "symlink", "add", "added"))
        /\ Doing(i, "symlink", "add", "added").ino = i
    BY <1>3, <1>4, <2>1, MoveFacts, Zenon DEF Doing
  <2>3. /\ Flow(Doing(i, "symlink", "add", "added"))
        /\ Fits(Doing(i, "symlink", "add", "added"), Nameless, NewInode, 0, FALSE)
    <3> DEFINE w == Doing(i, "symlink", "add", "added")
    <3>1. w.pc = "add" /\ w.op = "symlink" /\ w.ret = "added" /\ w.ino # 0
      BY <1>1, Zenon DEF Doing
    <3> HIDE DEF w
    <3>2. Flow(w) /\ (Dirty(w) \/ Nameless = NewInode)
      BY <3>1, Zenon DEF Flow, Dirty
    <3>3. Nameless.size <= Nameless.blocks
      BY <1>2
    <3>4. Fits(w, Nameless, NewInode, 0, FALSE)
      BY <1>2, <3>1, <3>2, <3>3, Zenon DEF Fits
    <3> QED BY <3>2, <3>4, Zenon DEF w
  <2> QED BY <1>1, <1>2, <2>1, <2>2, <2>3, NewInodeStep, Zenon
<1> QED BY <1>5, <1>6, <1>7

-----------------------------------------------------------------------------
(* Mount, journal, unmount.                                                *)

\* Only the head of the chain and the error flag change.
LEMMA HeadStep ==
  ASSUME BaseInv, NEW l \in 0 .. Dtime, buf' = [buf EXCEPT !.last = l],
         error' \in BOOLEAN,
         UNCHANGED <<core, cached, orphan, open, linkable, disk, proc, mode,
                     crashes, mix>>
  PROVE  BaseInv'
<1>1. /\ buf' \in Metadata /\ buf'.ino = buf.ino /\ buf'.used = buf.used
      /\ buf'.names = buf.names
  BY Zenon DEF BaseInv, TypeOK, Metadata
<1> QED BY <1>1, Zenon DEF BaseInv, TypeOK, OwnInv, ListInv, ModeInv, DiskInv, FitsAt,
                    OnList, Busy, AllIdle

LEMMA Cleanup ==
  ASSUME BaseInv, NEW p \in Procs, ext4_orphan_cleanup(p)
  PROVE  BaseInv'
<1> DEFINE i == buf.last
<1>1. /\ mode = "recovering" /\ AllIdle /\ TypeOK /\ NoDup(orphan)
      /\ UNCHANGED <<core, open, linkable, disk, mode, crashes, mix>>
      /\ error \in BOOLEAN
  BY Zenon DEF ext4_orphan_cleanup, BaseInv, TypeOK, ListInv
<1>2. CASE error \/ i \notin buf.used \/ core[i].next > NIno
  <2>1. /\ buf' = [buf EXCEPT !.last = 0] /\ error' = TRUE
        /\ UNCHANGED <<orphan, cached, proc>> /\ 0 \in 0 .. Dtime
    BY <1>2, ConstantsAssumption, SMTT(30) DEF ext4_orphan_cleanup, Dtime
  <2> QED BY <1>1, <2>1, HeadStep, Zenon
<1>3. CASE ~(error \/ i \notin buf.used \/ core[i].next > NIno)
  <2>1. PICK k \in Ino : k = buf.last /\ k \in buf.used
    BY <1>1, <1>3, Zenon DEF TypeOK, Metadata
  <2>2. /\ list_add(k) /\ cached' = cached \cup {k} /\ UNCHANGED <<buf, error>>
        /\ core[k].nlink > 0 => Start(p, k, "recover", "trunc", "none")
        /\ ~(core[k].nlink > 0) => Start(p, k, "evict", "evict", "none")
    BY <1>3, <2>1, Zenon DEF ext4_orphan_cleanup
  <2>3. /\ ~Busy(k) /\ FitsAt(Idle, k) /\ proc[p].ino = 0 /\ proc[p].pc = "idle"
        /\ ~OnList(k)
    <3>1. ~Busy(k) /\ FitsAt(Idle, k) /\ proc[p].ino = 0 /\ proc[p].pc = "idle"
      BY <1>1, <2>1, NobodyBusy, IdleFacts, Zenon
    <3> QED BY <1>1, <3>1, Zenon DEF BaseInv, ListInv
  <2>4. /\ core[k] \in InodeRec /\ buf.ino[k] = core[k]
        /\ core[k].nlink = buf.names[k] /\ buf.names[k] \in Nat
        /\ core[k].size <= core[k].blocks /\ k # 0
        /\ cached \subseteq buf.used
    <3>1. /\ core[k] \in InodeRec /\ buf.names[k] \in Nat /\ k # 0
          /\ cached \subseteq buf.used
      BY <1>1, BufferFacts, NoInodeZero, Zenon DEF TypeOK, BaseInv, ListInv
    <3>2. /\ buf.ino[k] = core[k] /\ core[k].nlink = buf.names[k]
          /\ core[k].size <= core[k].blocks
      BY <2>3, IdleFacts, Zenon DEF FitsAt, Fits, Dirty
    <3> QED BY <3>1, <3>2, Zenon
  <2>5. /\ orphan' \in Seq(Ino) /\ NoDup(orphan')
        /\ \A j \in Ino : Contains(orphan', j) <=> OnList(j) \/ j = k
    BY <1>1, <2>2, <2>3, ListFacts, Zenon DEF OnList
  <2>6. PICK w : /\ Moves(p, w) /\ w.ino = k /\ Flow(w)
                 /\ w.op \in {"evict", "recover"}
                 /\ Fits(w, core[k], buf.ino[k], buf.names[k], TRUE)
    <3>1. /\ {"recover", "evict"} \subseteq Calls /\ {"trunc", "evict"} \subseteq Pcs
          /\ "none" \in Pcs \cup {"none"}
      BY Zenon DEF Calls, Pcs
    <3>2. CASE core[k].nlink > 0
      <4> DEFINE w == Doing(k, "recover", "trunc", "none")
      <4>1. Moves(p, w)
        BY <1>1, <2>2, <3>1, <3>2, MoveFacts, Zenon DEF Doing
      <4>2. w.ino = k /\ w.op = "recover"
        BY Zenon DEF Doing
      <4>3. Flow(w) /\ Fits(w, core[k], buf.ino[k], buf.names[k], TRUE)
        BY <2>4, <3>2, Zenon DEF Flow, Fits, Doing, Dirty, Truncating
      <4> QED BY <4>1, <4>2, <4>3, Zenon
    <3>3. CASE ~(core[k].nlink > 0)
      <4> DEFINE w == Doing(k, "evict", "evict", "none")
      <4>1. Moves(p, w)
        BY <1>1, <2>2, <3>1, <3>3, MoveFacts, Zenon DEF Doing
      <4>2. w.ino = k /\ w.op = "evict"
        BY Zenon DEF Doing
      <4>3. Flow(w) /\ Fits(w, core[k], buf.ino[k], buf.names[k], TRUE)
        <5>1. w.pc = "evict" /\ w.op = "evict" /\ w.ino # 0
          BY <2>4, Zenon DEF Doing
        <5>2. buf.names[k] = 0
          BY <2>4, <3>3
        <5> HIDE DEF w
        <5>3. Flow(w)
          BY <5>1, Zenon DEF Flow
        <5> QED BY <2>4, <5>1, <5>2, <5>3, Zenon DEF Fits
      <4> QED BY <4>1, <4>2, <4>3, Zenon
    <3> QED BY <3>2, <3>3, Zenon
  <2>7. \A j \in Ino \ {k} : Kept(j)
    BY <1>1, <2>2, <2>5, Zenon DEF Kept
  <2>8. TypeOK'
    BY <1>1, <2>1, <2>2, <2>5, <2>6, Zenon DEF TypeOK, Moves, ProcRec
  <2>9. FitsNext(w, k)
    <3>1. Contains(orphan', k) = TRUE
      BY <2>5, Zenon DEF Contains
    <3> QED BY <1>1, <2>2, <2>6, <3>1, Zenon DEF FitsNext
  <2>10. LocalStep(p, k)
    BY <1>1, <2>1, <2>2, <2>3, <2>4, <2>5, <2>6, <2>7, <2>9, Zenon DEF LocalStep, Moves
  <2> QED BY <2>1, <2>8, <2>10, LocalStepInv, Zenon
<1> QED BY <1>2, <1>3, Zenon

LEMMA Commit ==
  ASSUME BaseInv, jbd2_commit
  PROVE  BaseInv'
<1>1. DiskInv'
  BY BuffersConsistent, Zenon DEF jbd2_commit, DiskInv
<1> QED BY <1>1, Zenon DEF jbd2_commit, BaseInv, TypeOK, OwnInv, ListInv, ModeInv, FitsAt,
                    OnList, Busy, AllIdle

LEMMA Mount ==
  ASSUME BaseInv, mount_from_disk, crashes' \in 0 .. MaxCrashes
  PROVE  BaseInv'
<1>1. /\ buf' \in Metadata /\ buf'.ino = disk.ino /\ buf'.used = disk.used
      /\ buf'.names = disk.names /\ disk \in Metadata
  <2>1. disk \in Metadata /\ chain_to_clean \in 0 .. Dtime
    BY ConstantsAssumption DEF BaseInv, TypeOK, Metadata, chain_to_clean, Dtime
  <2> QED BY <2>1, Zenon DEF mount_from_disk, Metadata
<1>2. /\ \A p \in Procs : proc'[p] = Idle /\ proc'[p].ino = 0
      /\ orphan' = <<>> /\ \A i : ~Contains(orphan', i)
  BY DEF mount_from_disk, Idle, Contains
<1>3. TypeOK'
  <2>1. Idle \in ProcRec
    BY ConstantsAssumption DEF Idle, ProcRec, Pcs, Calls
  <2>2. /\ core' \in [Ino -> InodeRec] /\ proc' \in [Procs -> ProcRec]
        /\ disk' \in Metadata /\ orphan' \in Seq(Ino)
    BY <1>1, <2>1, SMTT(30) DEF mount_from_disk, Metadata
  <2> QED BY <1>1, <2>2, Zenon DEF mount_from_disk, BaseInv, TypeOK, ProcRec
<1>4. OwnInv'
  <2>1. Flow(Idle) /\ Idle.ino = 0
    BY Zenon DEF Flow, Idle
  <2>2. ASSUME NEW i \in disk.used
        PROVE  Fits(Idle, disk.ino[i], disk.ino[i], disk.names[i], Contains(orphan', i))
    BY <1>2, Zenon DEF BaseInv, DiskInv, Fits, Idle
  <2>3. \A i \in buf'.used : FitsNext(Idle, i)
    BY <1>1, <2>2, Zenon DEF FitsNext, mount_from_disk
  <2> QED BY <1>2, <2>1, <2>3, Zenon DEF OwnInv, FitsAt, FitsNext, OnList
<1>5. ListInv'
  BY <1>1, <1>2 DEF ListInv, mount_from_disk, OnList, NoDup
<1>6. ModeInv' /\ DiskInv' /\ mix' \in Mix
  BY <1>2, Zenon DEF ModeInv, DiskInv, BaseInv, mount_from_disk, Idle
<1> QED BY <1>3, <1>4, <1>5, <1>6, Zenon DEF BaseInv

LEMMA MountDone ==
  ASSUME BaseInv, mount_done
  PROVE  BaseInv'
BY Zenon DEF mount_done, BaseInv, TypeOK, OwnInv, ListInv, ModeInv, DiskInv, FitsAt,
       OnList, Busy, AllIdle

LEMMA PutSuper ==
  ASSUME BaseInv, ext4_put_super
  PROVE  BaseInv'
<1>1. AllIdle /\ \A i \in Ino : ~OnList(i)
  <2>1. AllIdle
    BY Zenon DEF ext4_put_super
  <2>2. ASSUME NEW i \in Ino, OnList(i) PROVE FALSE
    <3>1. i \in cached /\ i \in buf.used /\ core[i].nlink > 0
      BY <2>2, Zenon DEF ext4_put_super, BaseInv, ListInv
    <3>2. FitsAt(Idle, i)
      BY <2>1, <3>1, NobodyBusy, Zenon
    <3> QED BY <2>2, <3>1, <3>2, SMTT(30) DEF FitsAt, Fits, Idle
  <2> QED BY <2>1, <2>2, Zenon
<1>2. DiskInv'
  <2>1. \A p \in Procs : ~InHandle(p)
    BY <1>1, Zenon DEF AllIdle, InHandle, HandlePcs
  <2> QED BY <2>1, BuffersConsistent, Zenon DEF ext4_put_super, DiskInv
<1>3. \A p \in Procs : proc[p].ino = 0
  BY <1>1, NobodyBusy, Zenon
<1>4. TypeOK' /\ OwnInv' /\ ModeInv' /\ mix' \in Mix
  BY <1>1, <1>3, Zenon DEF ext4_put_super, BaseInv, TypeOK, OwnInv, ModeInv, FitsAt,
                    OnList, Busy, AllIdle
<1>5. ListInv'
  BY <1>1, Zenon DEF ext4_put_super, BaseInv, ListInv, OnList
<1> QED BY <1>2, <1>4, <1>5, Zenon DEF BaseInv

-----------------------------------------------------------------------------
(* The invariant.                                                         *)

LEMMA BaseInit == Init => BaseInv
<1> SUFFICES ASSUME Init PROVE BaseInv
  OBVIOUS
<1>1. Nameless \in InodeRec /\ 0 \in 0 .. Dtime /\ 0 \in 0 .. LinkMax
  BY ConstantsAssumption, SMTT(30) DEF Nameless, NewInode, InodeRec, Dtime
<1>2. Idle \in ProcRec /\ Idle.ino = 0 /\ Flow(Idle)
  BY ConstantsAssumption DEF Idle, ProcRec, Pcs, Calls, Flow
<1>3. core \in [Ino -> InodeRec] /\ proc \in [Procs -> ProcRec]
  BY <1>1, <1>2, Zenon DEF Init
<1>4. buf \in Metadata /\ disk \in Metadata /\ buf.used = {} /\ disk.used = {}
  <2>1. buf = Meta(0, core, {}, [i \in Ino |-> 0]) /\ disk = buf
    BY Zenon DEF Init, Meta
  <2>2. Meta(0, core, {}, [i \in Ino |-> 0]) \in Metadata
    BY <1>1, <1>3, Zenon DEF Meta, Metadata
  <2>3. Meta(0, core, {}, [i \in Ino |-> 0]).used = {}
    BY Zenon DEF Meta
  <2> QED BY <2>1, <2>2, <2>3, Zenon
<1>5. TypeOK
  <2>1. orphan \in Seq(Ino)
    BY DEF Init
  <2>2. crashes \in 0 .. MaxCrashes
    BY ConstantsAssumption, SMTT(30) DEF Init
  <2>3. /\ cached \subseteq Ino /\ open \subseteq Ino /\ linkable \subseteq Ino
        /\ mode \in {"mounted", "recovering", "unmounted"} /\ error \in BOOLEAN
    BY Zenon DEF Init
  <2> QED BY <1>3, <1>4, <2>1, <2>2, <2>3, Zenon DEF TypeOK, ProcRec
<1>6. orphan = <<>> /\ \A i : ~Contains(orphan, i)
  BY DEF Init, Contains
<1>7. OwnInv
  BY <1>2, <1>4, Zenon DEF Init, OwnInv
<1>8. ListInv /\ ModeInv /\ DiskInv /\ mix \in Mix
  BY <1>4, <1>6, ConstantsAssumption
     DEF Init, ListInv, ModeInv, DiskInv, OnList, NoDup
<1> QED BY <1>5, <1>7, <1>8, Zenon DEF BaseInv

LEMMA BaseNext ==
  ASSUME BaseInv, [Next]_vars
  PROVE  BaseInv'
<1>1. ASSUME NEW p \in Procs, Step(p) PROVE BaseInv'
  BY <1>1, OrphanAdd, OrphanAddDirty, OrphanDel, OrphanDelDirty, PageSymlink,
     SymlinkLink, AddNondir, CloseHandle, DioTransfer, DioEnd, DioSetSize,
     Truncate, TruncateBlocks, TruncateRestart, TruncateStop, AfterTruncate,
     EvictInode, FreeInode, Zenon DEF Step
<1>2. ASSUME NEW p \in Procs, NEW i \in Ino, SystemCall(p, i) \/ iput(p, i)
      PROVE  BaseInv'
  BY <1>2, NewInodes, Unlink, LinkCall, WriteEnd, WriteBegin, PlainCall, OpenClose, Zenon
     DEF SystemCall
<1>3. CASE Crash
  <2>1. mount_from_disk /\ crashes' \in 0 .. MaxCrashes
    BY <1>3, ConstantsAssumption, SMTT(30) DEF Crash, BaseInv, TypeOK
  <2> QED BY <2>1, Mount, Zenon
<1>4. CASE ext4_fill_super
  <2>1. mount_from_disk /\ crashes' \in 0 .. MaxCrashes
    BY <1>4, Zenon DEF ext4_fill_super, BaseInv, TypeOK
  <2> QED BY <2>1, Mount
<1>5. CASE UNCHANGED vars
  BY <1>5, Zenon DEF vars, BaseInv, TypeOK, OwnInv, ListInv, ModeInv, DiskInv, FitsAt,
              OnList, Busy, AllIdle
<1> QED BY <1>1, <1>2, <1>3, <1>4, <1>5, Cleanup, Commit, MountDone, PutSuper, Zenon
           DEF Next

=============================================================================
