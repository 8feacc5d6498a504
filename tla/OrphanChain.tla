---------------------------- MODULE OrphanChain ----------------------------
(***************************************************************************)
(* The chain of orphans on the disk, as long as the journal refuses no     *)
(* handle: every step takes a chain to a chain that the in-memory list     *)
(* mirrors, and a commit leaves every inode that needs recovery on it.     *)
(***************************************************************************)
EXTENDS OrphanSteps

-----------------------------------------------------------------------------
(* The chain, as long as no handle is refused.                             *)

\* What w says about its inode then; on is now membership in the chain.
Tidy(w, r, on) ==
  /\ w.pc # "tailerr"
  /\ w.pc = "idle" => r.blocks = r.size /\ (on <=> r.nlink = 0)
  /\ w.op \in {"unlink", "rename", "tmpfile", "link", "symlink"} =>
       r.blocks = r.size
  /\ w.op = "dio" =>
       r.blocks = IF w.pc \in {"add", "addmark", "added", "io"}
                    THEN r.size ELSE r.size + 1
  /\ w.pc \in {"del", "delmark"} /\ w.op # "dio" /\ w.ret \in {"tdone", "dset"} =>
       r.blocks = r.size
  /\ w.pc \in {"del", "delmark"} /\ w.ret \in {"tdone", "dset"} => r.nlink > 0
  /\ w.pc \in {"tdone", "tail"} => r.blocks = r.size /\ (on <=> r.nlink = 0)
  /\ w.pc = "dioend" /\ w.op = "dio" => on
  /\ w.pc = "dioend" /\ w.op = "diofail" =>
       r.blocks = r.size /\ (on <=> r.nlink = 0)
  /\ w.pc = "dset" => (on <=> r.nlink = 0)
  /\ w.pc = "dset" /\ w.op = "diofail" => r.blocks = r.size
  /\ w.pc = "evict" => on
  /\ w.pc # "delmark" /\ ~on => r.next = 0

\* s is the chain as the buffers have it and mounts and processes see it.
ChainInv(s) ==
  /\ s \in Seq(Ino)
  /\ IsChain(buf.last, core, s)
  /\ \A i \in Ino : Contains(s, i) => i \in buf.used
  /\ mode = "mounted" => s = orphan
  /\ mode = "unmounted" => s = <<>>
  /\ mode = "recovering" =>
       /\ orphan = <<>> \/ (s # <<>> /\ orphan = <<s[1]>>)
       /\ \A p, q \in Procs : proc[p].ino # 0 /\ proc[q].ino # 0 => p = q
  /\ \A p \in Procs : proc[p].ino # 0 =>
       /\ Contains(s, proc[p].ino) <=> OnList(proc[p].ino)
       /\ Tidy(proc[p], core[proc[p].ino], Contains(s, proc[p].ino))
  /\ \A i \in buf.used : ~Busy(i) =>
       \/ mode = "recovering" /\ Contains(s, i)
       \/ Tidy(Idle, core[i], Contains(s, i))

\* s is the chain that a crash would find.
DiskChain(s) ==
  /\ s \in Seq(Ino)
  /\ IsChain(disk.last, disk.ino, s)
  /\ \A i \in Ino : Contains(s, i) => i \in disk.used
  /\ \A i \in disk.used : Contains(s, i) \/ Tidy(Idle, disk.ino[i], FALSE)

TidyInv ==
  mix.faults = {} =>
    /\ ~error
    /\ \E s \in Seq(Ino) : ChainInv(s)
    /\ \E s \in Seq(Ino) : DiskChain(s)

-----------------------------------------------------------------------------
(* Chains.                                                                 *)

\* A chain visits no inode twice.
LEMMA ChainNoDup ==
  ASSUME NEW l, NEW c, NEW s \in Seq(Ino), IsChain(l, c, s)
  PROVE  NoDup(s)
BY Zenon DEF IsChain, NoDup

\* Only the links of its members matter to a chain.
LEMMA ChainSame ==
  ASSUME NEW l, NEW c, NEW d, NEW s \in Seq(Ino), IsChain(l, c, s),
         \A j \in Ino : Contains(s, j) => d[j].next = c[j].next
  PROVE  IsChain(l, d, s)
<1>1. \A k \in 1 .. Len(s) : s[k] \in Ino /\ Contains(s, s[k])
  BY DEF Contains
<1> QED BY <1>1, Zenon DEF IsChain

\* Sequence s with a new head.
Pushed(i, s) == <<i>> \o s

\* A new head, as in ext4_orphan_add().
LEMMA ChainAdd ==
  ASSUME NEW l, NEW c, NEW d, NEW s \in Seq(Ino), IsChain(l, c, s),
         NEW i \in Ino, ~Contains(s, i), d[i].next = l,
         \A j \in Ino \ {i} : d[j].next = c[j].next,
         NEW t, t = Pushed(i, s)
  PROVE  IsChain(i, d, t) /\ t # <<>> /\ t[1] = i
<1>1. /\ t \in Seq(Ino) /\ Len(t) = Len(s) + 1 /\ t[1] = i
      /\ \A k \in 1 .. Len(s) : t[k + 1] = s[k]
  BY DEF Pushed
<1>2. t # <<>>
  BY <1>1
<1>3. NoDup(t)
  <2>1. NoDup(s)
    BY ChainNoDup, Zenon
  <2> QED BY <2>1, AddMembers, Zenon DEF Pushed
<1>4. ASSUME NEW k \in 1 .. Len(t)
      PROVE  d[t[k]].next = IF k = Len(t) THEN 0 ELSE t[k + 1]
  <2>1. CASE k = 1
    <3>1. CASE s = <<>>
      BY <1>1, <2>1, <3>1 DEF IsChain
    <3>2. CASE s # <<>>
      <4>1. Len(s) > 0 /\ t[2] = s[1]
        BY <1>1, <3>2
      <4> QED BY <1>1, <2>1, <3>2, <4>1 DEF IsChain
    <3> QED BY <3>1, <3>2, Zenon
  <2>2. CASE k # 1
    <3>1. PICK m \in 1 .. Len(s) : k = m + 1
      BY <1>1, <2>2
    <3>2. t[k] = s[m] /\ s[m] \in Ino /\ s[m] # i
      BY <1>1, <3>1 DEF Contains
    <3>3. c[s[m]].next = IF m = Len(s) THEN 0 ELSE s[m + 1]
      BY Zenon DEF IsChain
    <3>4. m # Len(s) => s[m + 1] = t[k + 1]
      BY <1>1, <3>1
    <3> QED BY <1>1, <3>1, <3>2, <3>3, <3>4
  <2> QED BY <2>1, <2>2, Zenon
<1> QED BY <1>1, <1>2, <1>3, <1>4, Zenon DEF IsChain, NoDup

\* The head goes, as in ext4_orphan_del() of the first inode.
LEMMA ChainDelHead ==
  ASSUME NEW l, NEW c, NEW s \in Seq(Ino), IsChain(l, c, s), s # <<>>,
         NEW t, t = RemoveAt(s, 1)
  PROVE  IsChain(c[s[1]].next, c, t)
<1>1. Len(s) \in Nat /\ Len(s) > 0 /\ 1 \in 1 .. Len(s)
  OBVIOUS
<1>2. /\ t \in Seq(Ino) /\ Len(t) = Len(s) - 1
      /\ \A k \in 1 .. Len(s) - 1 : t[k] = s[k + 1]
  BY <1>1, RemoveAtSeq, Zenon
<1>3. NoDup(t)
  BY <1>1, ChainNoDup, RemoveAtMembers, Zenon
<1>4. c[s[1]].next = IF t = <<>> THEN 0 ELSE t[1]
  <2>1. c[s[1]].next = IF 1 = Len(s) THEN 0 ELSE s[1 + 1]
    BY <1>1, Zenon DEF IsChain
  <2>2. t = <<>> <=> Len(s) = 1
    BY <1>1, <1>2
  <2> QED BY <1>1, <1>2, <2>1, <2>2
<1>5. ASSUME NEW k \in 1 .. Len(t)
      PROVE  c[t[k]].next = IF k = Len(t) THEN 0 ELSE t[k + 1]
  <2>1. k + 1 \in 1 .. Len(s) /\ t[k] = s[k + 1]
    BY <1>1, <1>2
  <2>2. c[s[k + 1]].next = IF k + 1 = Len(s) THEN 0 ELSE s[k + 2]
    BY <2>1 DEF IsChain
  <2>3. k # Len(t) => t[k + 1] = s[k + 2]
    BY <1>1, <1>2
  <2> QED BY <1>1, <1>2, <2>1, <2>2, <2>3
<1> QED BY <1>2, <1>3, <1>4, <1>5, Zenon DEF IsChain, NoDup

\* An inner inode goes, as in ext4_orphan_del(): its predecessor inherits the
\* link.
LEMMA ChainDelInner ==
  ASSUME NEW l, NEW c, NEW d, NEW s \in Seq(Ino), IsChain(l, c, s),
         NEW m \in 2 .. Len(s), d[s[m - 1]].next = c[s[m]].next,
         \A j \in Ino : j # s[m - 1] => d[j].next = c[j].next,
         NEW t, t = RemoveAt(s, m)
  PROVE  IsChain(l, d, t)
<1>1. Len(s) \in Nat /\ m \in 1 .. Len(s) /\ m - 1 \in 1 .. Len(s)
  OBVIOUS
<1>2. /\ t \in Seq(Ino) /\ Len(t) = Len(s) - 1
      /\ \A k \in 1 .. m - 1 : t[k] = s[k]
      /\ \A k \in m .. Len(s) - 1 : t[k] = s[k + 1]
  BY <1>1, RemoveAtSeq, Zenon
<1>3. NoDup(t) /\ NoDup(s)
  BY <1>1, ChainNoDup, RemoveAtMembers, Zenon
<1>4. l = IF t = <<>> THEN 0 ELSE t[1]
  <2>1. t # <<>> /\ t[1] = s[1] /\ s # <<>>
    BY <1>1, <1>2
  <2> QED BY <2>1, Zenon DEF IsChain
<1>5. ASSUME NEW k \in 1 .. Len(t)
      PROVE  d[t[k]].next = IF k = Len(t) THEN 0 ELSE t[k + 1]
  <2>1. CASE k < m - 1
    <3>1. /\ k \in 1 .. Len(s) /\ t[k] = s[k] /\ t[k + 1] = s[k + 1]
          /\ s[k] # s[m - 1] /\ k # Len(s) /\ k # Len(t) /\ s[k] \in Ino
      <4>1. /\ k \in 1 .. Len(s) /\ k \in 1 .. m - 1 /\ k + 1 \in 1 .. m - 1
            /\ k # Len(s) /\ k # Len(t) /\ k # m - 1
        <5>1. Len(t) = Len(s) - 1 /\ k \in 1 .. Len(t)
          BY <1>2, Zenon
        <5> QED BY <1>1, <2>1, <5>1
      <4>2. t[k] = s[k] /\ t[k + 1] = s[k + 1]
        BY <1>2, <4>1, Zenon
      <4>3. s[k] # s[m - 1]
        BY <1>1, <1>3, <4>1, Zenon DEF NoDup
      <4>4. s[k] \in Ino
        BY <4>1
      <4> QED BY <4>1, <4>2, <4>3, <4>4
    <3>2. c[s[k]].next = s[k + 1]
      BY <3>1, Zenon DEF IsChain
    <3> QED BY <3>1, <3>2, Zenon
  <2>2. CASE k = m - 1
    <3>1. t[k] = s[m - 1] /\ (k # Len(t) => t[k + 1] = s[m + 1])
          /\ (k = Len(t) <=> m = Len(s))
      <4>1. /\ Len(t) \in Nat /\ k \in 1 .. m - 1 /\ k + 1 = m
            /\ (k # Len(t) => m \in m .. Len(s) - 1)
            /\ (k = Len(t) <=> m = Len(s))
        BY <1>1, <1>2, <2>2
      <4> QED BY <1>2, <2>2, <4>1, Zenon
    <3>2. c[s[m]].next = IF m = Len(s) THEN 0 ELSE s[m + 1]
      BY <1>1, Zenon DEF IsChain
    <3> QED BY <3>1, <3>2, Zenon
  <2>3. CASE k > m - 1
    <3>1. /\ k + 1 \in 1 .. Len(s) /\ t[k] = s[k + 1] /\ s[k + 1] \in Ino
          /\ (k # Len(t) => t[k + 1] = s[k + 2])
          /\ (k = Len(t) <=> k + 1 = Len(s))
          /\ k + 1 # m - 1
      <4>1. Len(t) = Len(s) - 1 /\ k \in 1 .. Len(t)
        BY <1>2, Zenon
      <4>2. /\ k + 1 \in 1 .. Len(s) /\ k \in m .. Len(s) - 1 /\ (k + 1) + 1 = k + 2
            /\ (k # Len(t) => k + 1 \in m .. Len(s) - 1)
            /\ (k = Len(t) <=> k + 1 = Len(s))
            /\ k + 1 # m - 1
        BY ONLY <1>1, <2>3, <4>1
      <4>3. t[k] = s[k + 1] /\ (k # Len(t) => t[k + 1] = s[k + 2])
        BY <1>2, <4>2, Zenon
      <4>4. s[k + 1] \in Ino
        BY <4>2
      <4> QED BY <4>2, <4>3, <4>4, Zenon
    <3>2. s[k + 1] # s[m - 1]
      BY <1>1, <1>3, <3>1, Zenon DEF NoDup
    <3>3. c[s[k + 1]].next = IF k + 1 = Len(s) THEN 0 ELSE s[k + 2]
      BY <3>1 DEF IsChain
    <3> QED BY <3>1, <3>2, <3>3, Zenon
  <2> QED BY <1>1, <1>2, <2>1, <2>2, <2>3
<1> QED BY <1>2, <1>3, <1>4, <1>5, Zenon DEF IsChain, NoDup

-----------------------------------------------------------------------------
(* Steps of one process that leave the chain as it is.                     *)

\* What ChainInv says of a process at work.
LEMMA ChainAtWork ==
  ASSUME BaseInv, NEW s, ChainInv(s), NEW p \in Procs, proc[p].pc # "idle",
         NEW i, i = proc[p].ino
  PROVE  /\ i \in Ino /\ i # 0 /\ i \in buf.used
         /\ mode \in {"mounted", "recovering"}
         /\ Contains(s, i) <=> OnList(i)
         /\ Tidy(proc[p], core[i], Contains(s, i))
         /\ Flow(proc[p]) /\ Fits(proc[p], core[i], buf.ino[i], buf.names[i], OnList(i))
         /\ core[i] \in InodeRec
<1>1. /\ i \in Ino /\ i \in buf.used /\ mode # "unmounted"
      /\ Flow(proc[p]) /\ FitsAt(proc[p], i) /\ core[i] \in InodeRec
  BY AtWork, Zenon
<1>2. i # 0 /\ mode \in {"mounted", "recovering", "unmounted"}
  BY <1>1, ConstantsAssumption DEF Ino, BaseInv, TypeOK
<1> QED BY <1>1, <1>2, Zenon DEF ChainInv, FitsAt

\* Inode i changes to r and process p moves to w; the chain does not change.
LEMMA ChainStep ==
  ASSUME BaseInv, NEW s, ChainInv(s), NEW p \in Procs, NEW i \in Ino,
         mode # "unmounted", UNCHANGED <<mode, orphan>>,
         proc[p].ino = i \/ (proc[p].ino = 0 /\ ~Busy(i) /\ mode = "mounted"),
         NEW r, core' = [core EXCEPT ![i] = r], buf'.last = buf.last,
         buf'.used \subseteq Ino,
         \A j \in Ino \ {i} : j \in buf'.used <=> j \in buf.used,
         Contains(s, i) => r.next = core[i].next /\ i \in buf'.used,
         NEW w, Moves(p, w), w.ino \in {0, i},
         w.ino = i => Tidy(w, r, Contains(s, i)),
         w.ino = 0 /\ i \in buf'.used => Tidy(Idle, r, Contains(s, i))
  PROVE  ChainInv(s)'
<1>1. /\ core \in [Ino -> InodeRec] /\ i # 0 /\ s \in Seq(Ino)
      /\ proc'[p] = w /\ \A q \in Procs \ {p} : proc'[q] = proc[q]
      /\ \A q \in Procs : proc[q].ino \in Ino \cup {0}
      /\ core'[i] = r /\ \A j \in Ino \ {i} : core'[j] = core[j]
  <2>1. core \in [Ino -> InodeRec] /\ proc \in [Procs -> ProcRec]
    BY Zenon DEF BaseInv, TypeOK, ProcRec
  <2> QED BY <2>1, ConstantsAssumption DEF Ino, Moves, ProcRec, ChainInv
<1>2. IsChain(buf'.last, core', s)
  <2>1. IsChain(buf.last, core, s)
    BY Zenon DEF ChainInv
  <2>2. \A j \in Ino : Contains(s, j) => core'[j].next = core[j].next
    BY <1>1, Zenon
  <2> QED BY <1>1, <2>1, <2>2, ChainSame, Zenon
<1>3. \A j \in Ino : Contains(s, j) => j \in buf'.used
  BY Zenon DEF ChainInv
<1>4. \A q \in Procs \ {p} : proc[q].ino # i
  BY <1>1 DEF BaseInv, OwnInv, Busy
<1>5. mode = "mounted" => s = orphan
  BY Zenon DEF ChainInv
<1>6. ASSUME NEW q \in Procs, proc'[q].ino # 0
      PROVE  /\ Contains(s, proc'[q].ino) <=> Contains(orphan', proc'[q].ino)
             /\ Tidy(proc'[q], core'[proc'[q].ino], Contains(s, proc'[q].ino))
  <2>1. CASE q = p
    <3>1. proc'[q] = w /\ w.ino = i
      BY <1>1, <1>6, <2>1, Zenon
    <3>2. Contains(s, i) <=> OnList(i)
      BY <1>1, <1>5 DEF ChainInv, OnList
    <3> QED BY <1>1, <3>1, <3>2, Zenon DEF OnList
  <2>2. CASE q # p
    <3>1. proc'[q] = proc[q] /\ proc[q].ino \in Ino \ {i} /\ proc[q].ino # 0
      BY <1>1, <1>4, <1>6, <2>2, Zenon
    <3>2. /\ Contains(s, proc[q].ino) <=> OnList(proc[q].ino)
          /\ Tidy(proc[q], core[proc[q].ino], Contains(s, proc[q].ino))
      BY <3>1, Zenon DEF ChainInv
    <3> QED BY <1>1, <3>1, <3>2, Zenon DEF OnList
  <2> QED BY <2>1, <2>2, Zenon
<1>7. ASSUME NEW j \in buf'.used, ~Busy(j)'
      PROVE  \/ mode = "recovering" /\ Contains(s, j)
             \/ Tidy(Idle, core'[j], Contains(s, j))
  <2>1. CASE j = i
    <3>1. w.ino = 0
      BY <1>1, <1>7, <2>1, Zenon DEF Busy
    <3> QED BY <1>1, <1>7, <2>1, <3>1, Zenon
  <2>2. CASE j # i
    <3>1. j \in buf.used /\ j \in Ino \ {i} /\ j # 0
      BY <1>7, <2>2, ConstantsAssumption DEF Ino
    <3>2. ~Busy(j)
      BY <1>1, <1>7, <3>1, Zenon DEF Busy
    <3> QED BY <1>1, <3>1, <3>2, Zenon DEF ChainInv
  <2> QED BY <2>1, <2>2, Zenon
<1>8. mode = "recovering" =>
        \A q, u \in Procs : proc'[q].ino # 0 /\ proc'[u].ino # 0 => q = u
  BY <1>1 DEF ChainInv
<1> QED BY <1>1, <1>2, <1>3, <1>6, <1>7, <1>8, Zenon DEF ChainInv, OnList

\* A process at work that changes its inode to r, with the same link if it is on
\* the chain, and moves to w.
LEMMA ChainOnward ==
  ASSUME BaseInv, NEW s, ChainInv(s), NEW p \in Procs, proc[p].pc # "idle",
         NEW i, i = proc[p].ino, UNCHANGED <<mode, orphan>>,
         NEW r, core' = [core EXCEPT ![i] = r],
         Contains(s, i) => r.next = core[i].next,
         buf'.last = buf.last, buf'.used = buf.used,
         NEW w, Moves(p, w),
         \/ w.ino = i /\ Tidy(w, r, Contains(s, i))
         \/ w.ino = 0 /\ Tidy(Idle, r, Contains(s, i))
  PROVE  ChainInv(s)'
<1>1. i \in Ino /\ i # 0 /\ i \in buf.used /\ mode # "unmounted"
  BY ChainAtWork, Zenon
<1>2. buf.used \subseteq Ino
  BY Zenon DEF BaseInv, TypeOK, Metadata
<1> QED BY <1>1, <1>2, ChainStep, Zenon

\* mark_inode_dirty() of inode i, and no change at all.
LEMMA MarkKeeps ==
  ASSUME TypeOK, NEW i \in Ino
  PROVE  /\ \A r : mark_inode_dirty(i, r) =>
              /\ core' = [core EXCEPT ![i] = r]
              /\ buf'.last = buf.last /\ buf'.used = buf.used
         /\ UNCHANGED <<core, buf>> =>
              /\ core' = [core EXCEPT ![i] = core[i]]
              /\ buf'.last = buf.last /\ buf'.used = buf.used
BY Zenon DEF TypeOK, mark_inode_dirty, Metadata

\* The facts that the lemmas below start from.
LEMMA ChainFacts ==
  ASSUME BaseInv, NEW s, ChainInv(s), NEW p \in Procs, proc[p].pc # "idle",
         NEW i, i = proc[p].ino
  PROVE  /\ TypeOK /\ i \in Ino /\ i # 0 /\ proc[p].op \in Calls
         /\ core[i] \in InodeRec
         /\ Flow(proc[p])
         /\ Tidy(proc[p], core[i], Contains(s, i))
         /\ Fits(proc[p], core[i], buf.ino[i], buf.names[i], Contains(s, i))
         /\ buf.names[i] \in Nat
<1>1. (OnList(i) <=> Contains(s, i)) /\ i \in Ino
  BY ChainAtWork, Zenon
<1>2. OnList(i) = Contains(s, i)
  BY <1>1, Zenon DEF OnList, Contains
<1>3. TypeOK /\ proc[p].op \in Calls /\ buf.names[i] \in Nat
  <2>1. TypeOK
    BY Zenon DEF BaseInv
  <2>2. proc[p].op \in Calls
    BY <2>1, Zenon DEF TypeOK
  <2> QED BY <1>1, <2>1, <2>2, BufferFacts, Zenon
<1> QED BY <1>2, <1>3, ChainAtWork, Zenon

LEMMA ChainAddDirty ==
  ASSUME BaseInv, NEW s, ChainInv(s), NEW p \in Procs, NEW i, i = proc[p].ino,
         \/ orphan_add_dirty(p)
         \/ ext4_orphan_add(p) /\ OnList(i)
         \/ ext4_orphan_del(p) /\ ~OnList(i)
  PROVE  ChainInv(s)'
<1>1. /\ proc[p].pc \in {"add", "addmark", "del"} /\ proc[p].pc # "idle"
      /\ Goto(p, proc[p].ret) /\ UNCHANGED <<mode, orphan>>
      /\ mark_inode_dirty(i, core[i]) \/ UNCHANGED <<core, buf>>
      /\ proc[p].pc = "del" => ~OnList(i)
  BY Zenon DEF orphan_add_dirty, ext4_orphan_add, ext4_orphan_del
<1>2. /\ TypeOK /\ i \in Ino /\ i # 0 /\ proc[p].op \in Calls
      /\ core[i] \in InodeRec
      /\ Flow(proc[p])
      /\ Tidy(proc[p], core[i], Contains(s, i))
      /\ Fits(proc[p], core[i], buf.ino[i], buf.names[i], Contains(s, i))
      /\ buf.names[i] \in Nat
  BY <1>1, ChainFacts, Zenon
<1>3. proc[p].pc = "del" => ~Contains(s, i)
  BY <1>1, ChainAtWork, Zenon
<1>4. proc[p].ret \in Pcs
  BY <1>1, <1>2, Zenon DEF Flow, Pcs
<1> DEFINE w == At(p, proc[p].ret, proc[p].op, proc[p].ret)
<1>5. Moves(p, w) /\ w.ino = i
  BY <1>1, <1>2, <1>4, MoveFacts, Zenon DEF At
<1>0. w.pc = proc[p].ret /\ w.op = proc[p].op /\ w.ret = proc[p].ret
  BY Zenon DEF At
<1> HIDE DEF w
<1>6. Tidy(w, core[i], Contains(s, i))
  <2>1. CASE proc[p].pc \in {"add", "addmark"}
    <3>1. /\ proc[p].ret \in {"added", "free"}
          /\ proc[p].ret = "free" => proc[p].op # "dio"
      BY <1>2, <2>1, Zenon DEF Flow, Truncating
    <3> QED BY <1>0, <1>2, <2>1, <3>1, Zenon DEF Tidy
  <2>2. CASE proc[p].pc = "del"
    <3>1. /\ proc[p].ret \in {"added", "tdone", "erase", "dset", "named"}
          /\ proc[p].ret = "tdone" => proc[p].op \in Truncating
          /\ proc[p].ret = "dset" => proc[p].op \in {"dio", "diofail"}
          /\ proc[p].ret = "added" => proc[p].op = "link"
          /\ ~Contains(s, i)
      BY <1>2, <1>3, <2>2, Zenon DEF Flow
    <3>2. proc[p].ret \in {"tdone", "dset"} => core[i].nlink # 0
      <4>1. proc[p].ret \in {"tdone", "dset"} => core[i].nlink > 0
        BY <1>2, <2>2, Zenon DEF Tidy
      <4>2. core[i].nlink \in Nat
        BY <1>2, Counts, Zenon
      <4> QED BY <4>1, <4>2
    <3> QED BY <1>0, <1>2, <2>2, <3>1, <3>2, Zenon DEF Tidy, Truncating
  <2> QED BY <1>1, <2>1, <2>2, Zenon
<1>7. /\ core' = [core EXCEPT ![i] = core[i]]
      /\ buf'.last = buf.last /\ buf'.used = buf.used
  BY <1>1, <1>2, MarkKeeps, Zenon
<1> QED BY <1>1, <1>5, <1>6, <1>7, ChainOnward, Zenon

LEMMA ChainSymlink ==
  ASSUME BaseInv, NEW s, ChainInv(s), NEW p \in Procs, NEW i, i = proc[p].ino,
         mix.faults = {}, page_symlink(p) \/ symlink_link(p)
  PROVE  ChainInv(s)'
<1>1. /\ proc[p].pc \in {"page", "symlink2"} /\ proc[p].pc # "idle"
      /\ UNCHANGED <<mode, orphan>>
  BY Zenon DEF page_symlink, symlink_link
<1>2. /\ TypeOK /\ i \in Ino /\ i # 0 /\ proc[p].op \in Calls
      /\ core[i] \in InodeRec
      /\ Flow(proc[p])
      /\ Tidy(proc[p], core[i], Contains(s, i))
      /\ Fits(proc[p], core[i], buf.ino[i], buf.names[i], Contains(s, i))
      /\ buf.names[i] \in Nat
  BY <1>1, ChainFacts, Zenon
<1>3. /\ {"symlink2", "del", "named", "evict"} \subseteq Pcs /\ "evict" \in Calls
      /\ "none" \in Pcs \cup {"none"}
  BY Zenon DEF Pcs, Calls
<1>4. proc[p].op = "symlink" /\ core[i].blocks = core[i].size /\ Contains(s, i)
  BY <1>1, <1>2, Zenon DEF Flow, Tidy, Fits
<1>5. CASE /\ mark_inode_dirty(i, [core[i] EXCEPT !.size = 1, !.blocks = 1])
           /\ Goto(p, "symlink2")
  <2> DEFINE r == [core[i] EXCEPT !.size = 1, !.blocks = 1]
             d == [core[i] EXCEPT !.size = 1]
             w == At(p, "symlink2", proc[p].op, proc[p].ret)
  <2>1. r = [d EXCEPT !.blocks = 1]
    BY <1>2, Zenon DEF InodeRec
  <2>2. /\ d = [nlink |-> core[i].nlink, next |-> core[i].next, size |-> 1,
                blocks |-> core[i].blocks]
    BY <1>2 DEF InodeRec
  <2> HIDE DEF d
  <2>3. r.next = core[i].next /\ r.size = 1 /\ r.blocks = 1
    BY <2>1, <2>2, Zenon
  <2>4. /\ core' = [core EXCEPT ![i] = r]
        /\ buf'.last = buf.last /\ buf'.used = buf.used
    BY <1>2, <1>5, MarkKeeps, Zenon
  <2>5. Moves(p, w) /\ w.ino = i
    BY <1>2, <1>3, <1>5, MoveFacts, Zenon DEF At
  <2> HIDE DEF r
  <2>6. Tidy(w, r, Contains(s, i))
    BY <1>4, <2>3, Zenon DEF Tidy, At
  <2> HIDE DEF w
  <2> QED BY <1>1, <2>3, <2>4, <2>5, <2>6, ChainOnward, Zenon
<1>6. CASE Start(p, i, "evict", "evict", "none") /\ UNCHANGED <<core, buf>>
  <2> DEFINE w == At(p, "evict", "evict", "none")
  <2>1. Moves(p, w) /\ w.ino = i
    BY <1>2, <1>3, <1>6, MoveFacts, Zenon DEF At
  <2>2. Tidy(w, core[i], Contains(s, i))
    BY <1>4, Zenon DEF Tidy, At
  <2>3. /\ core' = [core EXCEPT ![i] = core[i]]
        /\ buf'.last = buf.last /\ buf'.used = buf.used
    BY <1>2, <1>6, MarkKeeps, Zenon
  <2> HIDE DEF w
  <2> QED BY <1>1, <2>1, <2>2, <2>3, ChainOnward, Zenon
<1>7. CASE /\ core' = [core EXCEPT ![i].nlink = 1] /\ UNCHANGED buf
           /\ Call(p, "del", "named")
  <2> DEFINE r == [core[i] EXCEPT !.nlink = 1]
             w == At(p, "del", proc[p].op, "named")
  <2>1. /\ core' = [core EXCEPT ![i] = r]
        /\ buf'.last = buf.last /\ buf'.used = buf.used
    BY <1>7, Zenon
  <2>2. Moves(p, w) /\ w.ino = i
    BY <1>2, <1>3, <1>7, MoveFacts, Zenon DEF At
  <2>3. r.next = core[i].next /\ r.size = core[i].size /\ r.blocks = core[i].blocks
    BY <1>2, Zenon DEF InodeRec
  <2> HIDE DEF r
  <2>4. Tidy(w, r, Contains(s, i))
    BY <1>4, <2>3, Zenon DEF Tidy, At
  <2> HIDE DEF w
  <2> QED BY <1>1, <2>1, <2>2, <2>3, <2>4, ChainOnward, Zenon
<1> QED BY <1>5, <1>6, <1>7, Zenon DEF page_symlink, symlink_link

LEMMA ChainAddNondir ==
  ASSUME BaseInv, NEW s, ChainInv(s), NEW p \in Procs, NEW i, i = proc[p].ino,
         ext4_add_nondir(p)
  PROVE  ChainInv(s)'
<1>1. proc[p].pc = "named" /\ UNCHANGED <<mode, orphan>>
  BY Zenon DEF ext4_add_nondir
<1>2. /\ TypeOK /\ i \in Ino /\ i # 0 /\ proc[p].op \in Calls
      /\ core[i] \in InodeRec
      /\ Flow(proc[p])
      /\ Tidy(proc[p], core[i], Contains(s, i))
      /\ Fits(proc[p], core[i], buf.ino[i], buf.names[i], Contains(s, i))
      /\ buf.names[i] \in Nat
  BY <1>1, ChainFacts, Zenon
<1>3. /\ core[i].nlink = 1 /\ core[i].blocks = core[i].size /\ core[i].next = 0
      /\ ~Contains(s, i)
  <2>1. proc[p].op = "symlink"
    BY <1>1, <1>2, Zenon DEF Flow
  <2>2. /\ core[i].nlink = buf.names[i] + 1 /\ buf.names[i] = 0
        /\ ~Contains(s, i)
    BY <1>1, <1>2, <2>1, Zenon DEF Fits
  <2>3. core[i].blocks = core[i].size /\ core[i].next = 0
    BY <1>1, <1>2, <2>1, <2>2, Zenon DEF Tidy
  <2>4. core[i].nlink = 1
    BY <2>2
  <2> QED BY <2>2, <2>3, <2>4, Zenon
<1>4. CASE /\ buf' = [buf EXCEPT !.names[i] = @ + 1, !.ino[i] = core[i]]
           /\ UNCHANGED core /\ Finish(p)
  <2>1. /\ buf' = Named(buf, i, buf.names[i] + 1, core[i]) /\ buf \in Metadata
        /\ i \in Ino
    BY <1>2, <1>4, Zenon DEF Named, TypeOK
  <2>2. buf' = Meta(buf.last, [buf.ino EXCEPT ![i] = core[i]], buf.used,
                    [buf.names EXCEPT ![i] = buf.names[i] + 1])
    BY <2>1, MetaNamed, SMT
  <2>3. buf'.last = buf.last /\ buf'.used = buf.used
    BY <2>2, Zenon DEF Meta
  <2>4. core' = [core EXCEPT ![i] = core[i]]
    BY <1>2, <1>4, Zenon DEF TypeOK
  <2>5. Moves(p, Idle) /\ Idle.ino = 0
    BY <1>2, <1>4, MoveFacts, Zenon DEF Idle
  <2>6. Tidy(Idle, core[i], Contains(s, i))
    BY <1>3 DEF Tidy, Idle
  <2> QED BY <1>1, <2>3, <2>4, <2>5, <2>6, ChainOnward, Zenon
<1>5. CASE /\ core' = [core EXCEPT ![i].nlink = @ - 1] /\ UNCHANGED buf
           /\ Start(p, i, "evict", "evictn", "none")
  <2> DEFINE r == [core[i] EXCEPT !.nlink = @ - 1]
             w == At(p, "evictn", "evict", "none")
  <2>1. /\ core' = [core EXCEPT ![i] = r]
        /\ buf'.last = buf.last /\ buf'.used = buf.used
    BY <1>5, Zenon
  <2>2. r.next = core[i].next
    BY <1>2, Zenon DEF InodeRec
  <2>0. "evictn" \in Pcs /\ "evict" \in Calls /\ "none" \in Pcs \cup {"none"}
    BY Zenon DEF Pcs, Calls
  <2>3. Moves(p, w) /\ w.ino = i
    BY <1>2, <1>5, <2>0, MoveFacts, Zenon DEF At
  <2> HIDE DEF r
  <2>4. Tidy(w, r, Contains(s, i))
    BY <1>3, <2>2, Zenon DEF Tidy, At
  <2> HIDE DEF w
  <2> QED BY <1>1, <2>1, <2>2, <2>3, <2>4, ChainOnward, Zenon
<1> QED BY <1>4, <1>5, Zenon DEF ext4_add_nondir

LEMMA ChainCloseHandle ==
  ASSUME BaseInv, NEW s, ChainInv(s), NEW p \in Procs, NEW i, i = proc[p].ino,
         close_handle(p)
  PROVE  ChainInv(s)'
<1>1. proc[p].pc = "added" /\ UNCHANGED <<mode, orphan>>
  BY Zenon DEF close_handle
<1>2. /\ TypeOK /\ i \in Ino /\ i # 0 /\ proc[p].op \in Calls
      /\ core[i] \in InodeRec
      /\ Flow(proc[p])
      /\ Tidy(proc[p], core[i], Contains(s, i))
      /\ Fits(proc[p], core[i], buf.ino[i], buf.names[i], Contains(s, i))
      /\ buf.names[i] \in Nat
  BY <1>1, ChainFacts, Zenon
<1>3. /\ core[i].nlink = buf.names[i]
      /\ proc[p].op \in {"unlink", "rename", "tmpfile", "symlink"} => buf.names[i] = 0
      /\ proc[p].op = "link" => buf.names[i] # 0
      /\ Contains(s, i) <=> proc[p].op # "link"
      /\ proc[p].op \in {"unlink", "rename", "tmpfile", "link", "symlink"} =>
           core[i].blocks = core[i].size
      /\ proc[p].op = "dio" => core[i].blocks = core[i].size
      /\ ~Contains(s, i) => core[i].next = 0
  <2>1. /\ core[i].nlink = buf.names[i]
        /\ proc[p].op \in {"unlink", "rename", "tmpfile", "symlink"} => buf.names[i] = 0
        /\ proc[p].op = "link" => buf.names[i] > 0
        /\ Contains(s, i) <=> proc[p].op # "link"
    BY <1>1, <1>2, Zenon DEF Fits
  <2>2. buf.names[i] > 0 => buf.names[i] # 0
    BY <1>2
  <2>3. /\ proc[p].op \in {"unlink", "rename", "tmpfile", "link", "symlink"} =>
             core[i].blocks = core[i].size
        /\ proc[p].op = "dio" => core[i].blocks = core[i].size
        /\ ~Contains(s, i) => core[i].next = 0
    BY <1>1, <1>2, Zenon DEF Tidy
  <2> QED BY <2>1, <2>2, <2>3, Zenon
<1>4. CASE /\ proc[p].op \in {"unlink", "rename", "tmpfile", "link"} /\ Finish(p)
           /\ mark_inode_dirty(i, core[i]) \/ UNCHANGED <<core, buf>>
  <2>1. /\ core' = [core EXCEPT ![i] = core[i]]
        /\ buf'.last = buf.last /\ buf'.used = buf.used
    BY <1>2, <1>4, MarkKeeps, Zenon
  <2>2. Moves(p, Idle) /\ Idle.ino = 0
    BY <1>2, <1>4, MoveFacts, Zenon DEF Idle
  <2>3. Tidy(Idle, core[i], Contains(s, i))
    BY <1>3, <1>4, Zenon DEF Tidy, Idle
  <2> QED BY <1>1, <2>1, <2>2, <2>3, ChainOnward, Zenon
<1>5. CASE /\ proc[p].op = "setattr"
           /\ \E n \in 0 .. core[i].size - 1 :
                mark_inode_dirty(i, [core[i] EXCEPT !.size = n])
           /\ Goto(p, "trunc")
  <2>0. PICK n \in 0 .. core[i].size - 1 :
          mark_inode_dirty(i, [core[i] EXCEPT !.size = n])
    BY <1>5, Zenon
  <2> DEFINE r == [core[i] EXCEPT !.size = n]
             w == At(p, "trunc", proc[p].op, proc[p].ret)
  <2>1. /\ core' = [core EXCEPT ![i] = r]
        /\ buf'.last = buf.last /\ buf'.used = buf.used
    BY <1>2, <2>0, MarkKeeps, Zenon
  <2>2. r.next = core[i].next
    BY <1>2, Zenon DEF InodeRec
  <2>3. Moves(p, w) /\ w.ino = i
    BY <1>2, <1>5, MoveFacts, Zenon DEF At, Pcs
  <2> HIDE DEF r
  <2>4. Tidy(w, r, Contains(s, i))
    BY <1>3, <1>5, <2>2, Zenon DEF Tidy, At
  <2> HIDE DEF w
  <2> QED BY <1>1, <2>1, <2>2, <2>3, <2>4, ChainOnward, Zenon
<1>6. CASE /\ proc[p].op \in {"write", "dio", "symlink"}
           /\ Goto(p, CASE proc[p].op = "write" -> "trunc"
                         [] proc[p].op = "dio" -> "io"
                         [] proc[p].op = "symlink" -> "page")
           /\ UNCHANGED <<core, buf>>
  <2>1. PICK l \in {"trunc", "io", "page"} :
          /\ Goto(p, l)
          /\ l = "trunc" => proc[p].op = "write"
          /\ l = "io" => proc[p].op = "dio"
          /\ l = "page" => proc[p].op = "symlink"
    BY <1>6, Zenon
  <2> DEFINE w == At(p, l, proc[p].op, proc[p].ret)
  <2>2. /\ core' = [core EXCEPT ![i] = core[i]]
        /\ buf'.last = buf.last /\ buf'.used = buf.used
    BY <1>2, <1>6, MarkKeeps, Zenon
  <2>3. Moves(p, w) /\ w.ino = i
    <3>1. l \in Pcs
      BY Zenon DEF Pcs
    <3> QED BY <1>2, <2>1, <3>1, MoveFacts, Zenon DEF At
  <2>4. Tidy(w, core[i], Contains(s, i))
    BY <1>3, <1>6, <2>1, Zenon DEF Tidy, At
  <2> HIDE DEF w
  <2> QED BY <1>1, <2>2, <2>3, <2>4, ChainOnward, Zenon
<1> QED BY <1>4, <1>5, <1>6, Zenon DEF close_handle

LEMMA ChainDio ==
  ASSUME BaseInv, NEW s, ChainInv(s), NEW p \in Procs, NEW i, i = proc[p].ino,
         mix.faults = {}, dio_transfer(p) \/ dio_end(p) \/ dio_set_size(p)
  PROVE  ChainInv(s)'
<1>1. proc[p].pc \in {"io", "dioend", "dset"} /\ proc[p].pc # "idle"
      /\ UNCHANGED <<mode, orphan>>
  BY Zenon DEF dio_transfer, dio_end, dio_set_size
<1>2. /\ TypeOK /\ i \in Ino /\ i # 0 /\ proc[p].op \in Calls
      /\ core[i] \in InodeRec
      /\ Flow(proc[p])
      /\ Tidy(proc[p], core[i], Contains(s, i))
      /\ Fits(proc[p], core[i], buf.ino[i], buf.names[i], Contains(s, i))
      /\ buf.names[i] \in Nat
  BY <1>1, ChainFacts, Zenon
<1>3. /\ {"dioend", "trunc", "del", "dset"} \subseteq Pcs /\ "diofail" \in Calls
      /\ "none" \in Pcs \cup {"none"}
      /\ core[i].size \in Nat /\ core[i].blocks \in Nat /\ core[i].nlink \in Nat
  BY <1>2, Counts, Zenon DEF Pcs, Calls
<1>4. CASE dio_transfer(p)
  <2>0. /\ proc[p].pc = "io" /\ proc[p].op = "dio" /\ Contains(s, i)
        /\ core[i].blocks = core[i].size
    BY <1>2, <1>4, Zenon DEF dio_transfer, Flow, Fits, Tidy
  <2> DEFINE r == [core[i] EXCEPT !.blocks = @ + 1]
             w == At(p, "dioend", proc[p].op, proc[p].ret)
             v == At(p, "trunc", "diofail", "none")
  <2>1. /\ r.next = core[i].next /\ r.blocks = core[i].blocks + 1
        /\ r.size = core[i].size
    BY <1>2, Zenon DEF InodeRec
  <2>2. /\ mark_inode_dirty(i, r) =>
             /\ core' = [core EXCEPT ![i] = r]
             /\ buf'.last = buf.last /\ buf'.used = buf.used
        /\ UNCHANGED <<core, buf>> =>
             /\ core' = [core EXCEPT ![i] = core[i]]
             /\ buf'.last = buf.last /\ buf'.used = buf.used
    BY <1>2, MarkKeeps, Zenon
  <2>3. /\ w.ino = i /\ v.ino = i
        /\ Goto(p, "dioend") => Moves(p, w)
        /\ Start(p, i, "diofail", "trunc", "none") => Moves(p, v)
    BY <1>2, <1>3, MoveFacts, Zenon DEF At
  <2>4. \/ mark_inode_dirty(i, r) /\ Goto(p, "dioend")
        \/ mark_inode_dirty(i, r) /\ Start(p, i, "diofail", "trunc", "none")
        \/ UNCHANGED <<core, buf>> /\ Start(p, i, "diofail", "trunc", "none")
    BY <1>4, Zenon DEF dio_transfer
  <2> HIDE DEF r
  <2>5. /\ Tidy(w, r, Contains(s, i)) /\ Tidy(v, r, Contains(s, i))
        /\ Tidy(v, core[i], Contains(s, i))
    BY <2>0, <2>1, Zenon DEF Tidy, At
  <2> HIDE DEF w, v
  <2>6. CASE mark_inode_dirty(i, r) /\ Goto(p, "dioend")
    BY <1>1, <2>1, <2>2, <2>3, <2>5, <2>6, ChainOnward, Zenon
  <2>7. CASE mark_inode_dirty(i, r) /\ Start(p, i, "diofail", "trunc", "none")
    BY <1>1, <2>1, <2>2, <2>3, <2>5, <2>7, ChainOnward, Zenon
  <2>8. CASE UNCHANGED <<core, buf>> /\ Start(p, i, "diofail", "trunc", "none")
    BY <1>1, <2>2, <2>3, <2>5, <2>8, ChainOnward, Zenon
  <2> QED BY <2>4, <2>6, <2>7, <2>8, Zenon
<1>5. CASE dio_end(p)
  <2>0. /\ proc[p].pc = "dioend" /\ proc[p].op \in {"dio", "diofail"}
        /\ Tidy(proc[p], core[i], Contains(s, i))
        /\ UNCHANGED <<core, buf>>
    BY <1>2, <1>5, Zenon DEF dio_end, Flow
  <2>1. /\ proc[p].op = "dio" => /\ Contains(s, i)
                                 /\ core[i].blocks = core[i].size + 1
        /\ proc[p].op = "diofail" => /\ core[i].blocks = core[i].size
                                     /\ Contains(s, i) <=> core[i].nlink = 0
        /\ ~Contains(s, i) => core[i].next = 0
    BY <2>0, Zenon DEF Tidy
  <2>2. /\ core' = [core EXCEPT ![i] = core[i]]
        /\ buf'.last = buf.last /\ buf'.used = buf.used
    BY <1>2, <2>0, MarkKeeps, Zenon
  <2> DEFINE w == At(p, "del", proc[p].op, "dset")
             v == At(p, "dset", proc[p].op, proc[p].ret)
  <2>3. CASE core[i].nlink > 0
    <3>1. Call(p, "del", "dset")
      BY <1>5, <2>3, Zenon DEF dio_end
    <3>2. Moves(p, w) /\ w.ino = i
      BY <1>2, <1>3, <3>1, MoveFacts, Zenon DEF At
    <3>3. Tidy(w, core[i], Contains(s, i))
      BY <1>3, <2>0, <2>1, <2>3, Zenon DEF Tidy, At
    <3> HIDE DEF w
    <3> QED BY <1>1, <2>2, <3>2, <3>3, ChainOnward, Zenon
  <2>4. CASE core[i].nlink = 0
    <3>1. Goto(p, "dset")
      BY <1>3, <1>5, <2>4 DEF dio_end
    <3>2. Moves(p, v) /\ v.ino = i
      BY <1>2, <1>3, <3>1, MoveFacts, Zenon DEF At
    <3>3. Tidy(v, core[i], Contains(s, i))
      BY <1>3, <2>0, <2>1, <2>4, Zenon DEF Tidy, At
    <3> HIDE DEF v, w
    <3> QED BY <1>1, <2>2, <3>2, <3>3, ChainOnward, Zenon
  <2> QED BY <1>3, <2>3, <2>4
<1>6. CASE dio_set_size(p)
  <2>0. /\ proc[p].pc = "dset" /\ proc[p].op \in {"dio", "diofail"}
        /\ Contains(s, i) <=> core[i].nlink = 0
        /\ ~Contains(s, i) => core[i].next = 0
        /\ proc[p].op = "dio" => core[i].blocks = core[i].size + 1
        /\ proc[p].op = "diofail" => core[i].blocks = core[i].size
    BY <1>2, <1>6, Zenon DEF dio_set_size, Flow, Tidy
  <2>1. Moves(p, Idle) /\ Idle.ino = 0
    BY <1>2, <1>6, MoveFacts, Zenon DEF dio_set_size, Idle
  <2>2. CASE proc[p].op = "dio"
    <3> DEFINE r == [core[i] EXCEPT !.size = @ + 1]
    <3>1. /\ core' = [core EXCEPT ![i] = r]
          /\ buf'.last = buf.last /\ buf'.used = buf.used
      BY <1>2, <1>6, <2>2, MarkKeeps, Zenon DEF dio_set_size
    <3>2. /\ r.next = core[i].next /\ r.blocks = core[i].blocks
          /\ r.size = core[i].size + 1 /\ r.nlink = core[i].nlink
      BY <1>2, Zenon DEF InodeRec
    <3> HIDE DEF r
    <3>3. Tidy(Idle, r, Contains(s, i))
      BY <2>0, <2>2, <3>2, Zenon DEF Tidy, Idle
    <3> QED BY <1>1, <2>1, <3>1, <3>2, <3>3, ChainOnward, Zenon
  <2>3. CASE proc[p].op = "diofail"
    <3>1. /\ core' = [core EXCEPT ![i] = core[i]]
          /\ buf'.last = buf.last /\ buf'.used = buf.used
      BY <1>2, <1>6, <2>3, MarkKeeps, Zenon DEF dio_set_size
    <3>2. Tidy(Idle, core[i], Contains(s, i))
      BY <2>0, <2>3, Zenon DEF Tidy, Idle
    <3> QED BY <1>1, <2>1, <3>1, <3>2, ChainOnward, Zenon
  <2> QED BY <2>0, <2>2, <2>3, Zenon
<1> QED BY <1>4, <1>5, <1>6, Zenon

LEMMA ChainTruncate ==
  ASSUME BaseInv, NEW s, ChainInv(s), NEW p \in Procs, NEW i, i = proc[p].ino,
         mix.faults = {},
         \/ ext4_truncate(p) \/ truncate_blocks(p)
         \/ ext4_truncate_restart_trans(p) \/ truncate_stop(p)
  PROVE  ChainInv(s)'
<1>1. /\ proc[p].pc \in {"trunc", "free", "restart", "tdone"} /\ proc[p].pc # "idle"
      /\ UNCHANGED <<mode, orphan>>
  BY Zenon DEF ext4_truncate, truncate_blocks, ext4_truncate_restart_trans,
                  truncate_stop
<1>2. /\ TypeOK /\ i \in Ino /\ i # 0 /\ proc[p].op \in Calls
      /\ core[i] \in InodeRec
      /\ Flow(proc[p])
      /\ Tidy(proc[p], core[i], Contains(s, i))
      /\ Fits(proc[p], core[i], buf.ino[i], buf.names[i], Contains(s, i))
      /\ buf.names[i] \in Nat
  BY <1>1, ChainFacts, Zenon
<1>3. /\ {"add", "free", "restart", "tdone", "tail", "del", "erase"} \subseteq Pcs
      /\ core[i].size \in Nat /\ core[i].blocks \in Nat /\ core[i].nlink \in Nat
  BY <1>2, Counts, Zenon DEF Pcs
<1>4. /\ proc[p].op \in Truncating \cup {"evict"}
      /\ proc[p].pc # "tdone" => Contains(s, i)
      /\ core[i].size <= core[i].blocks
      /\ proc[p].pc = "tdone" => /\ core[i].blocks = core[i].size
                                 /\ Contains(s, i) <=> core[i].nlink = 0
      /\ ~Contains(s, i) => core[i].next = 0
  BY <1>1, <1>2, Zenon DEF Flow, Fits, Tidy
<1> DEFINE w(l, t) == At(p, l, proc[p].op, t)
<1>5. /\ \A l \in Pcs : Goto(p, l) => Moves(p, w(l, proc[p].ret))
      /\ \A l, t \in Pcs : Call(p, l, t) => Moves(p, w(l, t))
      /\ \A l, t : w(l, t).ino = i
  BY <1>2, MoveFacts, Zenon DEF At
<1>6. /\ UNCHANGED <<core, buf>> \/ mark_inode_dirty(i, core[i]) =>
           /\ core' = [core EXCEPT ![i] = core[i]]
           /\ buf'.last = buf.last /\ buf'.used = buf.used
      /\ \A r : mark_inode_dirty(i, r) =>
           /\ core' = [core EXCEPT ![i] = r]
           /\ buf'.last = buf.last /\ buf'.used = buf.used
  BY <1>2, MarkKeeps, Zenon
<1>7. CASE ext4_truncate(p)
  <2>1. Call(p, "add", "free") /\ UNCHANGED <<core, buf>> /\ proc[p].pc = "trunc"
    BY <1>7, Zenon DEF ext4_truncate
  <2>2. Tidy(w("add", "free"), core[i], Contains(s, i))
    BY <1>4, <2>1, Zenon DEF Tidy, At, Truncating
  <2>3. Moves(p, w("add", "free")) /\ w("add", "free").ino = i
    BY <1>3, <1>5, <2>1, Zenon
  <2> HIDE DEF w
  <2> QED BY <1>1, <1>6, <2>1, <2>2, <2>3, ChainOnward, Zenon
<1>8. CASE truncate_blocks(p) /\ core[i].blocks > core[i].size
  <2> DEFINE r == [core[i] EXCEPT !.blocks = @ - 1]
  <2>0. ~(core[i].blocks <= core[i].size)
    BY <1>3, <1>8
  <2>1. mark_inode_dirty(i, r) /\ proc[p].pc = "free"
    BY <1>8, <2>0, Zenon DEF truncate_blocks
  <2>2. r.next = core[i].next
    BY <1>2, Zenon DEF InodeRec
  <2>3. PICK l \in {"free", "restart"} : Moves(p, w(l, proc[p].ret))
    <3>1. CASE UNCHANGED proc
      <4>1. Moves(p, w("free", proc[p].ret))
        BY <1>2, <2>1, <3>1, Zenon DEF Moves, At, TypeOK, ProcRec
      <4> QED BY <4>1, Zenon
    <3>2. CASE Goto(p, "restart")
      BY <1>3, <1>5, <3>2, Zenon
    <3> QED BY <1>8, <2>0, <3>1, <3>2, Zenon DEF truncate_blocks
  <2> HIDE DEF r
  <2>4. Tidy(w(l, proc[p].ret), r, Contains(s, i))
    BY <1>4, <2>1, <2>2, Zenon DEF Tidy, At, Truncating
  <2>5. w(l, proc[p].ret).ino = i
    BY <1>5, Zenon
  <2> HIDE DEF w
  <2> QED BY <1>1, <1>6, <2>1, <2>2, <2>3, <2>4, <2>5, ChainOnward, Zenon
<1>9. CASE truncate_blocks(p) /\ ~(core[i].blocks > core[i].size)
  <2>1. /\ UNCHANGED <<core, buf>> /\ proc[p].pc = "free"
        /\ core[i].nlink > 0 => Call(p, "del", "tdone")
        /\ core[i].nlink = 0 /\ proc[p].op = "evict" => Call(p, "del", "erase")
        /\ core[i].nlink = 0 /\ proc[p].op # "evict" => Goto(p, "tdone")
    <3>1. core[i].nlink = 0 => ~(core[i].nlink > 0)
      OBVIOUS
    <3> QED BY <1>9, <3>1, Zenon DEF truncate_blocks
  <2>2. core[i].blocks = core[i].size /\ Contains(s, i)
    BY <1>3, <1>4, <1>9, <2>1
  <2>3. CASE core[i].nlink > 0
    <3>1. Tidy(w("del", "tdone"), core[i], Contains(s, i))
      BY <1>4, <2>2, <2>3, Zenon DEF Tidy, At, Truncating
    <3>2. Moves(p, w("del", "tdone")) /\ w("del", "tdone").ino = i
      BY <1>3, <1>5, <2>1, <2>3, Zenon
    <3> HIDE DEF w
    <3> QED BY <1>1, <1>6, <2>1, <3>1, <3>2, ChainOnward, Zenon
  <2>4. CASE core[i].nlink = 0 /\ proc[p].op = "evict"
    <3>1. Tidy(w("del", "erase"), core[i], Contains(s, i))
      BY <2>2, <2>4, Zenon DEF Tidy, At
    <3>2. Moves(p, w("del", "erase")) /\ w("del", "erase").ino = i
      BY <1>3, <1>5, <2>1, <2>4, Zenon
    <3> HIDE DEF w
    <3> QED BY <1>1, <1>6, <2>1, <3>1, <3>2, ChainOnward, Zenon
  <2>5. CASE core[i].nlink = 0 /\ proc[p].op # "evict"
    <3>1. Tidy(w("tdone", proc[p].ret), core[i], Contains(s, i))
      BY <1>4, <2>2, <2>5, Zenon DEF Tidy, At, Truncating
    <3>2. Moves(p, w("tdone", proc[p].ret)) /\ w("tdone", proc[p].ret).ino = i
      BY <1>3, <1>5, <2>1, <2>5, Zenon
    <3> HIDE DEF w
    <3> QED BY <1>1, <1>6, <2>1, <3>1, <3>2, ChainOnward, Zenon
  <2> QED BY <1>3, <2>3, <2>4, <2>5, SMTT(30)
<1>10. CASE ext4_truncate_restart_trans(p)
  <2>1. Goto(p, "free") /\ UNCHANGED <<core, buf>> /\ proc[p].pc = "restart"
    BY <1>10, Zenon DEF ext4_truncate_restart_trans
  <2>2. Tidy(w("free", proc[p].ret), core[i], Contains(s, i))
    BY <1>4, <2>1, Zenon DEF Tidy, At, Truncating
  <2>3. Moves(p, w("free", proc[p].ret)) /\ w("free", proc[p].ret).ino = i
    BY <1>3, <1>5, <2>1, Zenon
  <2> HIDE DEF w
  <2> QED BY <1>1, <1>6, <2>1, <2>2, <2>3, ChainOnward, Zenon
<1>11. CASE truncate_stop(p)
  <2>1. Goto(p, "tail") /\ mark_inode_dirty(i, core[i]) /\ proc[p].pc = "tdone"
    BY <1>11, Zenon DEF truncate_stop
  <2>2. Tidy(w("tail", proc[p].ret), core[i], Contains(s, i))
    BY <1>2, <1>4, <2>1, Zenon DEF Tidy, At, Truncating, Flow
  <2>3. Moves(p, w("tail", proc[p].ret)) /\ w("tail", proc[p].ret).ino = i
    BY <1>3, <1>5, <2>1, Zenon
  <2> HIDE DEF w
  <2> QED BY <1>1, <1>6, <2>1, <2>2, <2>3, ChainOnward, Zenon
<1> QED BY <1>7, <1>8, <1>9, <1>10, <1>11, Zenon

LEMMA ChainDelDirty ==
  ASSUME BaseInv, NEW s, ChainInv(s), NEW p \in Procs, NEW i, i = proc[p].ino,
         orphan_del_dirty(p)
  PROVE  ChainInv(s)'
<1> DEFINE r == [core[i] EXCEPT !.next = 0]
           w == At(p, proc[p].ret, proc[p].op, proc[p].ret)
<1>1. /\ proc[p].pc = "delmark" /\ UNCHANGED <<mode, orphan>>
      /\ mark_inode_dirty(i, r) /\ Goto(p, proc[p].ret)
  BY Zenon DEF orphan_del_dirty
<1>2. /\ TypeOK /\ i \in Ino /\ i # 0 /\ proc[p].op \in Calls
      /\ core[i] \in InodeRec
      /\ Flow(proc[p])
      /\ Tidy(proc[p], core[i], Contains(s, i))
      /\ Fits(proc[p], core[i], buf.ino[i], buf.names[i], Contains(s, i))
      /\ buf.names[i] \in Nat
  BY <1>1, ChainFacts, Zenon
<1>3. /\ r.next = 0 /\ r.nlink = core[i].nlink /\ r.size = core[i].size
      /\ r.blocks = core[i].blocks /\ core[i].nlink \in Nat
  BY <1>2, ConstantsAssumption, SMTT(30) DEF InodeRec
<1>4. /\ proc[p].ret \in Pcs /\ ~Contains(s, i)
      /\ proc[p].ret \in {"added", "tdone", "erase", "dset", "named"}
      /\ proc[p].ret = "tdone" => proc[p].op \in Truncating
      /\ proc[p].ret = "dset" => proc[p].op \in {"dio", "diofail"}
      /\ proc[p].ret = "added" => proc[p].op = "link"
  BY <1>1, <1>2, Zenon DEF Flow, Pcs, Fits
<1>5. Moves(p, w) /\ w.ino = i
  BY <1>1, <1>2, <1>4, MoveFacts, Zenon DEF At
<1>6. w.pc = proc[p].ret /\ w.op = proc[p].op /\ w.ret = proc[p].ret
  BY Zenon DEF At
<1>7. /\ core' = [core EXCEPT ![i] = r]
      /\ buf'.last = buf.last /\ buf'.used = buf.used
  BY <1>1, <1>2, MarkKeeps, Zenon
<1> HIDE DEF r, w
<1>8. Tidy(w, r, Contains(s, i))
  <2>1. proc[p].ret \in {"tdone", "dset"} => core[i].nlink # 0
    <3>1. proc[p].ret \in {"tdone", "dset"} => core[i].nlink > 0
      BY <1>1, <1>2, Zenon DEF Tidy
    <3>2. core[i].nlink \in Nat
      BY <1>2, Counts, Zenon
    <3> QED BY <3>1, <3>2
  <2> QED BY <1>1, <1>2, <1>3, <1>4, <1>6, <2>1, Zenon DEF Tidy, Truncating
<1> QED BY <1>1, <1>4, <1>5, <1>7, <1>8, ChainOnward, Zenon

LEMMA ChainAfterTruncate ==
  ASSUME BaseInv, NEW s, ChainInv(s), NEW p \in Procs, NEW i, i = proc[p].ino,
         after_truncate(p)
  PROVE  ChainInv(s)' /\ UNCHANGED error
<1>1. /\ proc[p].pc \in {"tail", "tailerr"} /\ proc[p].pc # "idle"
      /\ UNCHANGED <<mode, core, buf>>
  BY Zenon DEF after_truncate
<1>2. /\ TypeOK /\ i \in Ino /\ i # 0 /\ proc[p].op \in Calls
      /\ core[i] \in InodeRec
      /\ Flow(proc[p])
      /\ Tidy(proc[p], core[i], Contains(s, i))
      /\ Fits(proc[p], core[i], buf.ino[i], buf.names[i], Contains(s, i))
      /\ buf.names[i] \in Nat
  BY <1>1, ChainFacts, Zenon
<1>3. /\ proc[p].pc = "tail"
      /\ core[i].blocks = core[i].size
      /\ Contains(s, i) <=> core[i].nlink = 0
      /\ ~Contains(s, i) => core[i].next = 0
  BY <1>1, <1>2, Zenon DEF Tidy
<1>0. error \in BOOLEAN /\ core[i].nlink \in Nat
  BY <1>2, Counts, Zenon DEF TypeOK
<1>4. core[i].nlink > 0 => ~OnList(i)
  <2>1. Contains(s, i) <=> OnList(i)
    BY <1>1, ChainAtWork, Zenon
  <2> QED BY <1>0, <1>3, <2>1
<1>5. UNCHANGED <<orphan, error>>
  BY <1>0, <1>3, <1>4, Zenon DEF after_truncate, orphan_del_nohandle
<1>6. /\ core' = [core EXCEPT ![i] = core[i]]
      /\ buf'.last = buf.last /\ buf'.used = buf.used
  BY <1>1, <1>2, MarkKeeps, Zenon
<1>7. CASE Finish(p)
  <2>1. Moves(p, Idle) /\ Idle.ino = 0
    BY <1>2, <1>7, MoveFacts, Zenon DEF Idle
  <2>2. Tidy(Idle, core[i], Contains(s, i))
    BY <1>3, Zenon DEF Tidy, Idle
  <2> QED BY <1>1, <1>5, <1>6, <2>1, <2>2, ChainOnward, Zenon
<1>8. CASE proc[p].op = "diofail" /\ Goto(p, "dioend")
  <2> DEFINE w == At(p, "dioend", proc[p].op, proc[p].ret)
  <2>1. Moves(p, w) /\ w.ino = i
    BY <1>2, <1>8, MoveFacts, Zenon DEF At, Pcs
  <2>2. Tidy(w, core[i], Contains(s, i))
    BY <1>3, <1>8, Zenon DEF Tidy, At
  <2> HIDE DEF w
  <2> QED BY <1>1, <1>5, <1>6, <2>1, <2>2, ChainOnward, Zenon
<1> QED BY <1>5, <1>7, <1>8, Zenon DEF after_truncate

LEMMA ChainEvict ==
  ASSUME BaseInv, NEW s, ChainInv(s), NEW p \in Procs, NEW i, i = proc[p].ino,
         mix.faults = {}, ext4_evict_inode(p)
  PROVE  ChainInv(s)' /\ UNCHANGED error
<1> DEFINE r == [core[i] EXCEPT !.size = 0]
           w(l, t) == At(p, l, proc[p].op, t)
<1>1. /\ proc[p].pc \in {"evict", "evictn"} /\ proc[p].pc # "idle"
      /\ UNCHANGED <<mode, orphan, error>>
      /\ mark_inode_dirty(i, r)
      /\ Call(p, "add", "free") \/ Call(p, "del", "erase")
  BY Zenon DEF ext4_evict_inode
<1>2. /\ TypeOK /\ i \in Ino /\ i # 0 /\ proc[p].op \in Calls
      /\ core[i] \in InodeRec
      /\ Flow(proc[p])
      /\ Tidy(proc[p], core[i], Contains(s, i))
      /\ Fits(proc[p], core[i], buf.ino[i], buf.names[i], Contains(s, i))
      /\ buf.names[i] \in Nat
  BY <1>1, ChainFacts, Zenon
<1>3. /\ r.next = core[i].next /\ proc[p].op = "evict"
      /\ ~Contains(s, i) => core[i].next = 0
  BY <1>1, <1>2, Zenon DEF InodeRec, Flow, Tidy
<1>4. PICK l, t \in Pcs : /\ Call(p, l, t)
                          /\ \/ l = "add" /\ t = "free"
                             \/ l = "del" /\ t = "erase"
  BY <1>1, Zenon DEF Pcs
<1>5. Moves(p, w(l, t)) /\ w(l, t).ino = i
  BY <1>2, <1>4, MoveFacts, Zenon DEF At
<1>6. /\ core' = [core EXCEPT ![i] = r]
      /\ buf'.last = buf.last /\ buf'.used = buf.used
  BY <1>1, <1>2, MarkKeeps, Zenon
<1> HIDE DEF r
<1>7. Tidy(w(l, t), r, Contains(s, i))
  BY <1>3, <1>4, Zenon DEF Tidy, At
<1> HIDE DEF w
<1> QED BY <1>1, <1>3, <1>5, <1>6, <1>7, ChainOnward, Zenon

LEMMA ChainFree ==
  ASSUME BaseInv, NEW s, ChainInv(s), NEW p \in Procs, NEW i, i = proc[p].ino,
         ext4_free_inode(p)
  PROVE  ChainInv(s)'
<1> DEFINE r == [core[i] EXCEPT !.next = Dtime]
<1>1. /\ proc[p].pc = "erase" /\ UNCHANGED <<mode, orphan>>
      /\ core' = [core EXCEPT ![i] = r]
      /\ buf' = Freed(buf, i, r)
      /\ Finish(p)
  BY Zenon DEF ext4_free_inode, Freed
<1>2. /\ TypeOK /\ i \in Ino /\ i # 0 /\ mode # "unmounted"
      /\ Fits(proc[p], core[i], buf.ino[i], buf.names[i], Contains(s, i))
  BY <1>1, ChainFacts, ChainAtWork, Zenon
<1>3. ~Contains(s, i)
  BY <1>1, <1>2, Zenon DEF Fits
<1>4. buf \in Metadata /\ buf.used \subseteq Ino
  BY <1>2, Zenon DEF TypeOK, Metadata
<1>5. buf' = Meta(buf.last, [buf.ino EXCEPT ![i] = r], buf.used \ {i}, buf.names)
  BY <1>1, <1>2, <1>4, MetaFreed, Zenon
<1>6. buf'.last = buf.last /\ buf'.used = buf.used \ {i}
  BY <1>5, Zenon DEF Meta
<1>7. Moves(p, Idle) /\ Idle.ino = 0
  BY <1>1, <1>2, MoveFacts, Zenon DEF Idle
<1> HIDE DEF r
<1>8. /\ buf'.used \subseteq Ino /\ i \notin buf'.used
      /\ \A j \in Ino \ {i} : j \in buf'.used <=> j \in buf.used
  BY <1>4, <1>6, Zenon
<1> QED BY <1>1, <1>2, <1>3, <1>6, <1>7, <1>8, ChainStep, Zenon

-----------------------------------------------------------------------------
(* The steps that change the chain.                                        *)

\* Process p adds its inode i to the chain or takes it off, and the chain is t
\* then.
LEMMA ChainChange ==
  ASSUME BaseInv, NEW s, ChainInv(s), NEW p \in Procs, proc[p].pc # "idle",
         NEW i, i = proc[p].ino, UNCHANGED mode,
         NEW t \in Seq(Ino), IsChain(buf'.last, core', t), buf'.used = buf.used,
         \A j \in Ino \ {i} :
           /\ Contains(t, j) <=> Contains(s, j)
           /\ core'[j].nlink = core[j].nlink /\ core'[j].size = core[j].size
           /\ core'[j].blocks = core[j].blocks
           /\ ~Contains(s, j) => core'[j].next = core[j].next,
         mode = "mounted" => t = orphan',
         mode = "recovering" =>
           orphan' = <<>> \/ (t # <<>> /\ orphan' = <<t[1]>>),
         Contains(t, i) <=> Contains(orphan', i),
         NEW w, Moves(p, w), w.ino = i, Tidy(w, core'[i], Contains(t, i))
  PROVE  ChainInv(t)'
<1>1. /\ i \in Ino /\ i # 0 /\ i \in buf.used /\ mode \in {"mounted", "recovering"}
  BY ChainAtWork, ZenonT(60)
<1>2. /\ proc'[p] = w /\ \A q \in Procs \ {p} : proc'[q] = proc[q]
      /\ \A q \in Procs : proc[q].ino \in Ino \cup {0}
      /\ buf.used \subseteq Ino
  <2>1. proc \in [Procs -> ProcRec] /\ buf.used \subseteq Ino
    BY Zenon DEF BaseInv, TypeOK, ProcRec, Metadata
  <2>2. \A q \in Procs : proc[q].ino \in Ino \cup {0}
    BY <2>1, ConstantsAssumption, SMTT(30) DEF Ino, ProcRec
  <2> QED BY <2>1, <2>2, Zenon DEF Moves
<1>3. \A q \in Procs \ {p} : proc[q].ino # i
  BY <1>1 DEF BaseInv, OwnInv
<1>4. \A j \in Ino : Contains(t, j) => j \in buf'.used
  BY <1>1, Zenon DEF ChainInv
<1>5. ASSUME NEW j \in Ino \ {i}, NEW v, Tidy(v, core[j], Contains(s, j))
      PROVE  Tidy(v, core'[j], Contains(t, j))
  BY <1>5, Zenon DEF Tidy
<1>6. ASSUME NEW q \in Procs, proc'[q].ino # 0
      PROVE  /\ Contains(t, proc'[q].ino) <=> Contains(orphan', proc'[q].ino)
             /\ Tidy(proc'[q], core'[proc'[q].ino], Contains(t, proc'[q].ino))
  <2>1. CASE q = p
    BY <1>2, <2>1, Zenon
  <2>2. CASE q # p
    <3>1. proc'[q] = proc[q] /\ proc[q].ino \in Ino \ {i} /\ proc[q].ino # 0
      BY <1>2, <1>3, <1>6, <2>2, Zenon
    <3>2. Tidy(proc[q], core[proc[q].ino], Contains(s, proc[q].ino))
      BY <3>1, Zenon DEF ChainInv
    <3>3. mode # "recovering"
      BY <1>1, <2>2, <3>1, Zenon DEF ChainInv
    <3>4. Contains(t, proc[q].ino) <=> Contains(orphan', proc[q].ino)
      BY <1>1, <3>3, Zenon
    <3>5. Tidy(proc[q], core'[proc[q].ino], Contains(t, proc[q].ino))
      BY <1>5, <3>1, <3>2, Zenon
    <3> QED BY <3>1, <3>4, <3>5, Zenon
  <2> QED BY <2>1, <2>2, Zenon
<1>7. ASSUME NEW j \in buf'.used, ~Busy(j)'
      PROVE  \/ mode = "recovering" /\ Contains(t, j)
             \/ Tidy(Idle, core'[j], Contains(t, j))
  <2>1. j \in Ino \ {i} /\ j \in buf.used
    BY <1>2, <1>7, Zenon DEF Busy
  <2>2. ~Busy(j)
    BY <1>2, <1>7, <2>1, Zenon DEF Busy
  <2>3. \/ mode = "recovering" /\ Contains(s, j)
        \/ Tidy(Idle, core[j], Contains(s, j))
    BY <2>1, <2>2, Zenon DEF ChainInv
  <2> QED BY <1>5, <2>1, <2>3, Zenon
<1>8. mode = "recovering" =>
        \A q, u \in Procs : proc'[q].ino # 0 /\ proc'[u].ino # 0 => q = u
  <2>1. mode = "recovering" =>
          \A q, u \in Procs : proc[q].ino # 0 /\ proc[u].ino # 0 => q = u
    BY Zenon DEF ChainInv
  <2>2. \A q \in Procs : proc'[q].ino = proc[q].ino
    BY <1>2, Zenon
  <2> QED BY <2>1, <2>2, Zenon
<1> QED BY <1>1, <1>4, <1>6, <1>7, <1>8, Zenon DEF ChainInv, OnList

\* In recovery the in-memory list holds at most the inode of the process that is
\* at work.
LEMMA RecoveryList ==
  ASSUME BaseInv, NEW s, ChainInv(s), NEW p \in Procs, NEW i, i = proc[p].ino,
         i # 0, mode = "recovering"
  PROVE  /\ ~OnList(i) => orphan = <<>>
         /\ OnList(i) => s # <<>> /\ i = s[1] /\ orphan = <<i>>
<1>1. orphan = <<>> \/ (s # <<>> /\ orphan = <<s[1]>>)
  BY Zenon DEF ChainInv
<1>2. CASE orphan = <<>>
  BY <1>2 DEF OnList, Contains
<1>3. CASE s # <<>> /\ orphan = <<s[1]>>
  <2>1. s[1] \in Ino /\ Len(orphan) = 1 /\ orphan[1] = s[1]
    BY <1>3 DEF ChainInv
  <2>2. OnList(s[1])
    BY <2>1 DEF OnList, Contains
  <2>3. Busy(s[1])
    BY <2>1, <2>2, Zenon DEF BaseInv, ListInv
  <2>4. PICK q \in Procs : proc[q].ino = s[1]
    BY <2>3, Zenon DEF Busy
  <2>5. s[1] # 0
    BY <2>1, ConstantsAssumption, SMTT(30) DEF Ino
  <2>6. q = p
    BY <2>4, <2>5, Zenon DEF ChainInv
  <2> QED BY <1>3, <2>2, <2>4, <2>6, Zenon
<1> QED BY <1>1, <1>2, <1>3, Zenon

LEMMA ChainOrphanAdd ==
  ASSUME BaseInv, NEW s, ChainInv(s), NEW p \in Procs, NEW i, i = proc[p].ino,
         ext4_orphan_add(p), ~OnList(i), NEW t, t = Pushed(i, s)
  PROVE  ChainInv(t)'
<1> DEFINE r == [core[i] EXCEPT !.next = buf.last]
           w == At(p, "addmark", proc[p].op, proc[p].ret)
<1>1. proc[p].pc = "add" /\ UNCHANGED mode /\ orphan' = Pushed(i, orphan)
  BY Zenon DEF ext4_orphan_add, list_add, Pushed
<1>2. /\ TypeOK /\ i \in Ino /\ i # 0 /\ proc[p].op \in Calls
      /\ core[i] \in InodeRec
      /\ Flow(proc[p])
      /\ Tidy(proc[p], core[i], Contains(s, i))
      /\ Fits(proc[p], core[i], buf.ino[i], buf.names[i], Contains(s, i))
      /\ buf.names[i] \in Nat
  BY <1>1, ChainFacts, Zenon
<1>3. ~Contains(s, i) /\ s \in Seq(Ino) /\ mode \in {"mounted", "recovering"}
  BY <1>1, ChainAtWork, Zenon DEF ChainInv
<1>4. core[i].next = 0
  BY <1>1, <1>2, <1>3, Zenon DEF Tidy
<1>5. /\ core' = [core EXCEPT ![i] = r]
      /\ buf' = [buf EXCEPT !.last = i]
      /\ Goto(p, "addmark")
  BY <1>4, Zenon DEF ext4_orphan_add
<1>6. /\ buf'.last = i /\ buf'.used = buf.used
      /\ core'[i] = r /\ \A j \in Ino \ {i} : core'[j] = core[j]
  BY <1>2, <1>5, Zenon DEF TypeOK, Metadata
<1>7. /\ r.next = buf.last /\ r.nlink = core[i].nlink /\ r.size = core[i].size
      /\ r.blocks = core[i].blocks
  BY <1>2, Zenon DEF InodeRec
<1> HIDE DEF r
<1>8. IsChain(buf'.last, core', t) /\ t # <<>> /\ t[1] = i
  <2>1. IsChain(buf.last, core, s)
    BY Zenon DEF ChainInv
  <2>2. core'[i].next = buf.last /\ \A j \in Ino \ {i} : core'[j].next = core[j].next
    BY <1>6, <1>7, Zenon
  <2>0. /\ i \in Ino /\ s \in Seq(Ino) /\ ~Contains(s, i)
        /\ t = Pushed(i, s)
    BY <1>2, <1>3, Zenon
  <2>3. IsChain(i, core', t) /\ t # <<>> /\ t[1] = i
    BY ONLY <2>0, <2>1, <2>2, ChainAdd, SMTT(30)
  <2> QED BY <1>6, <2>3, Zenon
<1>9. /\ t \in Seq(Ino)
      /\ \A j : Contains(t, j) <=> Contains(s, j) \/ j = i
  <2>1. NoDup(s)
    BY <1>3, ChainNoDup, Zenon DEF ChainInv
  <2>2. /\ i \in Ino /\ s \in Seq(Ino) /\ ~Contains(s, i)
        /\ t = <<i>> \o s
    BY <1>2, <1>3, Zenon DEF Pushed
  <2> QED BY ONLY <2>1, <2>2, AddMembers, SMTT(30)
<1>10. /\ mode = "mounted" => t = orphan'
       /\ mode = "recovering" => t # <<>> /\ orphan' = <<t[1]>>
  <2>1. CASE mode = "mounted"
    BY <1>1, <2>1, Zenon DEF ChainInv
  <2>2. CASE mode = "recovering"
    <3>1. orphan = <<>>
      BY <1>2, <2>2, RecoveryList, Zenon
    <3>2. orphan' = <<i>>
      BY <1>1, <3>1 DEF Pushed
    <3> QED BY <1>8, <2>2, <3>2, Zenon
  <2> QED BY <1>3, <2>1, <2>2, Zenon
<1>11. Contains(t, i) /\ Contains(orphan', i)
  <2>1. Len(Pushed(i, orphan)) \in Nat \ {0} /\ Pushed(i, orphan)[1] = i
    BY <1>2, SMTT(30) DEF TypeOK, Pushed
  <2>2. 1 \in 1 .. Len(orphan') /\ orphan'[1] = i
    BY <1>1, <2>1
  <2>3. Contains(orphan', i)
    BY <2>2, Zenon DEF Contains
  <2> QED BY <1>9, <2>3, Zenon
<1>12. Moves(p, w) /\ w.ino = i
  BY <1>2, <1>5, MoveFacts, Zenon DEF At, Pcs
<1>13. Tidy(w, core'[i], Contains(t, i))
  BY <1>1, <1>2, <1>6, <1>7, <1>11, Zenon DEF Tidy, At, Flow
<1> HIDE DEF w
<1> QED BY <1>1, <1>3, <1>6, <1>8, <1>9, <1>10, <1>11, <1>12, <1>13, ChainChange, Zenon

LEMMA ChainOrphanDel ==
  ASSUME BaseInv, NEW s, ChainInv(s), NEW p \in Procs, NEW i, i = proc[p].ino,
         ext4_orphan_del(p), OnList(i)
  PROVE  \E t \in Seq(Ino) : ChainInv(t)'
<1> DEFINE w == At(p, "delmark", proc[p].op, proc[p].ret)
<1>1. /\ proc[p].pc = "del" /\ UNCHANGED mode
      /\ orphan' = RemoveAt(orphan, Pos(i)) /\ Goto(p, "delmark")
  BY Zenon DEF ext4_orphan_del, list_del_init
<1>2. /\ TypeOK /\ i \in Ino /\ i # 0 /\ proc[p].op \in Calls
      /\ core[i] \in InodeRec
      /\ Flow(proc[p])
      /\ Tidy(proc[p], core[i], Contains(s, i))
      /\ Fits(proc[p], core[i], buf.ino[i], buf.names[i], Contains(s, i))
      /\ buf.names[i] \in Nat
  BY <1>1, ChainFacts, Zenon
<1>3. /\ Contains(s, i) /\ s \in Seq(Ino) /\ mode \in {"mounted", "recovering"}
      /\ IsChain(buf.last, core, s)
  BY <1>1, ChainAtWork, Zenon DEF ChainInv
<1>4. Pos(i) \in 1 .. Len(orphan) /\ orphan[Pos(i)] = i
  BY Zenon DEF OnList, Contains, Pos
<1>5. NoDup(s) /\ Len(s) \in Nat /\ core \in [Ino -> InodeRec]
  <2>1. NoDup(s) /\ core \in [Ino -> InodeRec]
    BY <1>2, <1>3, ChainNoDup, Zenon DEF TypeOK
  <2>2. Len(s) \in Nat
    BY <1>3
  <2> QED BY <2>1, <2>2, Zenon
<1>6. PICK m \in 1 .. Len(s) : /\ s[m] = i /\ Pos(i) = m
                               /\ m # 1 => orphan[m - 1] = s[m - 1]
                               /\ mode = "recovering" => m = 1 /\ orphan = <<i>>
  <2>1. CASE mode = "mounted"
    BY <1>4, <2>1, Zenon DEF ChainInv
  <2>2. CASE mode = "recovering"
    <3>1. s # <<>> /\ i = s[1] /\ orphan = <<i>>
      BY <1>2, <2>2, RecoveryList, Zenon
    <3>2. Pos(i) = 1 /\ 1 \in 1 .. Len(s)
      BY <1>3, <1>4, <3>1, SMTT(30)
    <3> QED BY <3>1, <3>2, Zenon
  <2> QED BY <1>3, <2>1, <2>2, Zenon
<1> DEFINE t == RemoveAt(s, m)
<1>7. /\ t \in Seq(Ino)
      /\ \A j : Contains(t, j) <=> Contains(s, j) /\ j # i
  <2>1. t \in Seq(Ino)
    BY <1>3, RemoveAtSeq, Zenon
  <2>2. \A j : Contains(t, j) <=> Contains(s, j) /\ j # s[m]
    BY <1>3, <1>5, RemoveAtMembers, Zenon
  <2> QED BY <1>6, <2>1, <2>2, Zenon
<1>8. /\ IsChain(buf'.last, core', t) /\ buf'.used = buf.used
      /\ core'[i] = core[i]
      /\ \A j \in Ino \ {i} :
           /\ core'[j].nlink = core[j].nlink /\ core'[j].size = core[j].size
           /\ core'[j].blocks = core[j].blocks
           /\ ~Contains(s, j) => core'[j].next = core[j].next
  <2>1. CASE m = 1
    <3>1. buf' = [buf EXCEPT !.last = core[i].next] /\ UNCHANGED core
      BY <1>6, <2>1, Zenon DEF ext4_orphan_del
    <3>2. buf'.last = core[i].next /\ buf'.used = buf.used
      BY <1>2, <3>1, Zenon DEF TypeOK, Metadata
    <3>3. s # <<>> /\ t = RemoveAt(s, 1) /\ i = s[1]
      BY <1>3, <1>6, <2>1
    <3> HIDE DEF t
    <3>4. IsChain(core[s[1]].next, core, t)
      BY <1>3, <3>3, ChainDelHead, Zenon
    <3> QED BY <3>1, <3>2, <3>3, <3>4, Zenon
  <2>2. CASE m # 1
    <3> DEFINE k == s[m - 1]
               d == [core[k] EXCEPT !.next = core[i].next]
    <3>1. /\ m - 1 \in 1 .. Len(s) /\ m \in 2 .. Len(s) /\ k \in Ino /\ k # i
          /\ Contains(s, k)
      BY <1>3, <1>5, <1>6, <2>2 DEF NoDup, Contains
    <3>2. mark_inode_dirty(k, d)
      BY <1>6, <2>2, Zenon DEF ext4_orphan_del
    <3>3. core[k] \in InodeRec
      BY <1>5, <3>1, Zenon
    <3>4. /\ d.next = core[i].next /\ d.nlink = core[k].nlink
          /\ d.size = core[k].size /\ d.blocks = core[k].blocks
      BY <3>3, Zenon DEF InodeRec
    <3>5. /\ core' = [core EXCEPT ![k] = d]
          /\ buf'.last = buf.last /\ buf'.used = buf.used
      BY <1>2, <3>1, <3>2, MarkKeeps, Zenon
    <3> HIDE DEF d
    <3>6. core'[k] = d /\ \A j \in Ino : j # k => core'[j] = core[j]
      BY <1>5, <3>1, <3>5, Zenon
    <3>7. IsChain(buf.last, core', t)
      <4>1. core'[s[m - 1]].next = core[s[m]].next
        BY <1>6, <3>4, <3>6, Zenon
      <4>2. \A j \in Ino : j # s[m - 1] => core'[j].next = core[j].next
        BY <3>6, Zenon
      <4> HIDE DEF k
      <4> QED BY <1>3, <3>1, <4>1, <4>2, ChainDelInner, Zenon
    <3> HIDE DEF k, t
    <3> QED BY <1>2, <3>1, <3>4, <3>5, <3>6, <3>7, Zenon
  <2> QED BY <2>1, <2>2, Zenon
<1>9. /\ mode = "mounted" => t = orphan'
      /\ mode = "recovering" => orphan' = <<>>
      /\ ~Contains(orphan', i)
  <2>1. CASE mode = "mounted"
    <3>1. t = orphan'
      BY <1>1, <1>6, <2>1, Zenon DEF ChainInv
    <3> QED BY <1>7, <2>1, <3>1, Zenon
  <2>2. CASE mode = "recovering"
    <3>1. Pos(i) = 1 /\ orphan \in Seq(Ino) /\ Len(orphan) = 1
      BY <1>2, <1>6, <2>2, Zenon DEF TypeOK
    <3>2. orphan' \in Seq(Ino) /\ Len(orphan') = 0
      <4>1. 1 \in 1 .. Len(orphan)
        BY <3>1
      <4>2. /\ RemoveAt(orphan, 1) \in Seq(Ino)
            /\ Len(RemoveAt(orphan, 1)) = Len(orphan) - 1
        BY <3>1, <4>1, RemoveAtSeq, Zenon
      <4> QED BY <1>1, <3>1, <4>2
    <3>3. orphan' = <<>>
      BY <3>2
    <3> QED BY <2>2, <3>3 DEF Contains
  <2> QED BY <1>3, <2>1, <2>2, Zenon
<1>10. Moves(p, w) /\ w.ino = i
  BY <1>1, <1>2, MoveFacts, Zenon DEF At, Pcs
<1>11. Tidy(w, core'[i], Contains(t, i))
  <2>1. ~Contains(t, i) /\ Contains(s, i)
    BY <1>3, <1>7, Zenon
  <2> HIDE DEF t
  <2> QED BY <1>1, <1>2, <1>8, <2>1, Zenon DEF Tidy, At, Flow
<1> HIDE DEF w, t
<1>12. ChainInv(t)'
  BY <1>1, <1>3, <1>7, <1>8, <1>9, <1>10, <1>11, ChainChange, Zenon
<1> QED BY <1>7, <1>12, Zenon

-----------------------------------------------------------------------------
(* System calls.                                                           *)

\* What ChainInv says of an inode that nobody has, to an idle process.
LEMMA ChainCallFacts ==
  ASSUME BaseInv, NEW s, ChainInv(s), NEW p \in Procs, proc[p].pc = "idle",
         mode = "mounted", NEW i \in Ino, i \in buf.used, ~Busy(i)
  PROVE  /\ TypeOK /\ proc[p].ino = 0 /\ proc[p] = Idle
         /\ core[i] \in InodeRec /\ buf.used \subseteq Ino
         /\ core[i].nlink = buf.names[i] /\ buf.names[i] \in 0 .. LinkMax
         /\ core[i].blocks = core[i].size
         /\ Contains(s, i) <=> core[i].nlink = 0
         /\ ~Contains(s, i) => core[i].next = 0
<1>1. /\ TypeOK /\ proc[p].ino = 0 /\ proc[p] = Idle
      /\ core[i] \in InodeRec
      /\ core[i].nlink = buf.names[i] /\ buf.names[i] \in 0 .. LinkMax
  BY CallFacts, Zenon
<1>2. Tidy(Idle, core[i], Contains(s, i))
  BY Zenon DEF ChainInv
<1>3. buf.used \subseteq Ino
  BY <1>1, Zenon DEF TypeOK, Metadata
<1> QED BY <1>1, <1>2, <1>3, Zenon DEF Tidy, Idle

\* A call that starts on inode i.
LEMMA ChainCallStarts ==
  ASSUME BaseInv, NEW s, ChainInv(s), NEW p \in Procs, proc[p].pc = "idle",
         mode = "mounted", NEW i \in Ino, i \in buf.used, ~Busy(i),
         UNCHANGED <<mode, orphan>>,
         NEW r, core' = [core EXCEPT ![i] = r], r.next = core[i].next,
         buf'.last = buf.last, buf'.used = buf.used,
         NEW o \in Calls, NEW l \in Pcs, NEW t \in Pcs \cup {"none"},
         Start(p, i, o, l, t), Tidy(Doing(i, o, l, t), r, Contains(s, i))
  PROVE  ChainInv(s)'
<1>1. TypeOK /\ proc[p].ino = 0 /\ buf.used \subseteq Ino
  BY ChainCallFacts, Zenon
<1>2. Moves(p, Doing(i, o, l, t)) /\ Doing(i, o, l, t).ino = i
  BY <1>1, MoveFacts, Zenon DEF Doing
<1>3. i # 0
  BY ConstantsAssumption DEF Ino
<1> QED BY <1>1, <1>2, <1>3, ChainStep, Zenon

\* A call that is over at once.
LEMMA ChainCallOver ==
  ASSUME BaseInv, NEW s, ChainInv(s), NEW p \in Procs, proc[p].pc = "idle",
         mode = "mounted", NEW i \in Ino, i \in buf.used, ~Busy(i),
         UNCHANGED <<mode, orphan, proc>>,
         NEW r, core' = [core EXCEPT ![i] = r], r.next = core[i].next,
         buf'.last = buf.last, buf'.used = buf.used,
         Tidy(Idle, r, Contains(s, i))
  PROVE  ChainInv(s)'
<1>1. TypeOK /\ proc[p].ino = 0 /\ proc[p] = Idle /\ buf.used \subseteq Ino
  BY ChainCallFacts, Zenon
<1>2. Moves(p, Idle) /\ Idle.ino = 0
  BY <1>1, Zenon DEF Moves, TypeOK, ProcRec, Idle
<1>3. i # 0
  BY ConstantsAssumption DEF Ino
<1> QED BY <1>1, <1>2, <1>3, ChainStep, Zenon

LEMMA ChainDropName ==
  ASSUME BaseInv, NEW s, ChainInv(s), NEW p \in Procs, NEW i \in Ino,
         ext4_unlink(p, i) \/ \E j \in Ino : ext4_rename(p, i, j)
  PROVE  ChainInv(s)'
<1> DEFINE r == [core[i] EXCEPT !.nlink = @ - 1]
<1>1. PICK o \in {"unlink", "rename"} :
        /\ drop_name(p, i, o) /\ proc[p].pc = "idle" /\ mode = "mounted"
        /\ i \in buf.used /\ ~Busy(i) /\ buf.names[i] > 0
        /\ UNCHANGED <<mode, orphan>>
  BY Zenon DEF ext4_unlink, ext4_rename, MayCall, Reachable
<1>2. /\ TypeOK /\ core[i] \in InodeRec
      /\ core[i].nlink = buf.names[i] /\ buf.names[i] \in 0 .. LinkMax
      /\ core[i].blocks = core[i].size
      /\ ~Contains(s, i) /\ core[i].next = 0
  BY <1>1, ChainCallFacts
<1>3. /\ r.nlink = core[i].nlink - 1 /\ r.next = core[i].next
      /\ r.size = core[i].size /\ r.blocks = core[i].blocks
      /\ core' = [core EXCEPT ![i] = r]
  BY <1>1, <1>2, Zenon DEF InodeRec, drop_name
<1>4. CASE r.nlink = 0
  <2>1. buf' = [buf EXCEPT !.names[i] = buf.names[i] - 1]
    BY <1>1, <1>4, Zenon DEF drop_name
  <2>2. Start(p, i, o, "add", "added")
    BY <1>1, <1>4, Zenon DEF drop_name
  <2>3. buf'.last = buf.last /\ buf'.used = buf.used
    BY <1>2, <2>1, Zenon DEF TypeOK, Metadata
  <2> HIDE DEF r
  <2>4. Tidy(Doing(i, o, "add", "added"), r, Contains(s, i))
    BY <1>2, <1>3, Zenon DEF Tidy, Doing
  <2>5. o \in Calls /\ "add" \in Pcs /\ "added" \in Pcs \cup {"none"}
    BY Zenon DEF Calls, Pcs
  <2> QED BY <1>1, <1>3, <2>2, <2>3, <2>4, <2>5, ChainCallStarts, Zenon
<1>5. CASE r.nlink # 0
  <2>1. buf' = Named(buf, i, buf.names[i] - 1, r) /\ UNCHANGED proc
    BY <1>1, <1>5, Zenon DEF drop_name, Named
  <2> HIDE DEF r
  <2>2. buf' = Meta(buf.last, [buf.ino EXCEPT ![i] = r], buf.used,
                    [buf.names EXCEPT ![i] = buf.names[i] - 1])
    BY <1>2, <2>1, MetaNamed, SMTT(30) DEF TypeOK
  <2>3. buf'.last = buf.last /\ buf'.used = buf.used
    BY <2>2, Zenon DEF Meta
  <2>4. Tidy(Idle, r, Contains(s, i))
    BY <1>2, <1>3, <1>5, Zenon DEF Tidy, Idle
  <2> QED BY <1>1, <1>3, <2>1, <2>3, <2>4, ChainCallOver, Zenon
<1> QED BY <1>4, <1>5, Zenon

LEMMA ChainLink ==
  ASSUME BaseInv, NEW s, ChainInv(s), NEW p \in Procs, NEW i \in Ino,
         ext4_link(p, i)
  PROVE  ChainInv(s)'
<1> DEFINE r == [core[i] EXCEPT !.nlink = @ + 1]
           c == [buf EXCEPT !.ino[i] = r]
<1>1. /\ proc[p].pc = "idle" /\ mode = "mounted" /\ i \in buf.used /\ ~Busy(i)
      /\ core' = [core EXCEPT ![i] = r] /\ UNCHANGED <<mode, orphan>>
      /\ r.nlink = 1 => Start(p, i, "link", "del", "added")
      /\ r.nlink # 1 => UNCHANGED proc
  BY Zenon DEF ext4_link, MayCall, Reachable
<1>2. /\ TypeOK /\ core[i] \in InodeRec /\ core[i].nlink \in Nat
      /\ core[i].blocks = core[i].size
      /\ Contains(s, i) <=> core[i].nlink = 0
      /\ ~Contains(s, i) => core[i].next = 0
  BY <1>1, ChainCallFacts, ConstantsAssumption
<1>3. /\ r.nlink = core[i].nlink + 1 /\ r.next = core[i].next
      /\ r.size = core[i].size /\ r.blocks = core[i].blocks
  BY <1>2, Zenon DEF InodeRec
<1>4. buf'.last = buf.last /\ buf'.used = buf.used
  <2>1. buf \in Metadata
    BY <1>2, Zenon DEF TypeOK
  <2>2. buf' = [c EXCEPT !.names[i] = buf.names[i] + 1]
    BY <2>1, Zenon DEF ext4_link, Metadata
  <2> HIDE DEF r
  <2>3. c = Meta(buf.last, [buf.ino EXCEPT ![i] = r], buf.used, buf.names)
    BY <2>1 DEF Metadata, Meta
  <2> HIDE DEF c
  <2> QED BY <2>2, <2>3, Zenon DEF Meta
<1> HIDE DEF r, c
<1>5. CASE r.nlink = 1
  <2>1. Tidy(Doing(i, "link", "del", "added"), r, Contains(s, i))
    BY <1>2, <1>3, <1>5, Zenon DEF Tidy, Doing
  <2>2. "link" \in Calls /\ "del" \in Pcs /\ "added" \in Pcs \cup {"none"}
    BY Zenon DEF Calls, Pcs
  <2> QED BY <1>1, <1>3, <1>4, <1>5, <2>1, <2>2, ChainCallStarts, Zenon
<1>6. CASE r.nlink # 1
  <2>1. Tidy(Idle, r, Contains(s, i))
    BY <1>2, <1>3, <1>6, SMTT(30) DEF Tidy, Idle
  <2> QED BY <1>1, <1>3, <1>4, <1>6, <2>1, ChainCallOver, Zenon
<1> QED BY <1>5, <1>6, Zenon

LEMMA ChainWrite ==
  ASSUME BaseInv, NEW s, ChainInv(s), NEW p \in Procs, NEW i \in Ino,
         ext4_write_end(p, i) \/ ext4_write_begin(p, i)
  PROVE  ChainInv(s)'
<1>1. /\ proc[p].pc = "idle" /\ mode = "mounted" /\ i \in buf.used /\ ~Busy(i)
      /\ UNCHANGED <<mode, orphan>>
  BY Zenon DEF ext4_write_end, ext4_write_begin, MayCall, Reachable
<1>2. /\ TypeOK /\ core[i] \in InodeRec
      /\ core[i].blocks = core[i].size
      /\ Contains(s, i) <=> core[i].nlink = 0
      /\ ~Contains(s, i) => core[i].next = 0
  BY <1>1, ChainCallFacts, Zenon
<1>3. CASE ext4_write_end(p, i)
  <2> DEFINE r == [core[i] EXCEPT !.size = core[i].size + 1,
                                  !.blocks = core[i].blocks + 1]
             d == [core[i] EXCEPT !.size = core[i].size + 1]
  <2>1. mark_inode_dirty(i, r) /\ UNCHANGED proc
    BY <1>3, Zenon DEF ext4_write_end
  <2>2. r = [d EXCEPT !.blocks = core[i].blocks + 1]
    BY <1>2, Zenon DEF InodeRec
  <2>3. d = [nlink |-> core[i].nlink, next |-> core[i].next,
             size |-> core[i].size + 1, blocks |-> core[i].blocks]
    BY <1>2 DEF InodeRec
  <2>4. /\ core' = [core EXCEPT ![i] = r]
        /\ buf'.last = buf.last /\ buf'.used = buf.used
    BY <1>2, <2>1, MarkKeeps, Zenon
  <2> HIDE DEF d, r
  <2>5. /\ r.nlink = core[i].nlink /\ r.next = core[i].next /\ r.blocks = r.size
    BY <1>2, <2>2, <2>3, Zenon
  <2>6. Tidy(Idle, r, Contains(s, i))
    BY <1>2, <2>5, Zenon DEF Tidy, Idle
  <2> QED BY <1>1, <2>1, <2>4, <2>5, <2>6, ChainCallOver, Zenon
<1>4. CASE ext4_write_begin(p, i)
  <2> DEFINE r == [core[i] EXCEPT !.blocks = @ + 1]
  <2>1. mark_inode_dirty(i, r) /\ Start(p, i, "write", "add", "added")
    BY <1>4, Zenon DEF ext4_write_begin
  <2>2. r.next = core[i].next
    BY <1>2, Zenon DEF InodeRec
  <2>3. /\ core' = [core EXCEPT ![i] = r]
        /\ buf'.last = buf.last /\ buf'.used = buf.used
    BY <1>2, <2>1, MarkKeeps, Zenon
  <2> HIDE DEF r
  <2>4. Tidy(Doing(i, "write", "add", "added"), r, Contains(s, i))
    BY <1>2, <2>2, Zenon DEF Tidy, Doing
  <2>5. "write" \in Calls /\ "add" \in Pcs /\ "added" \in Pcs \cup {"none"}
    BY Zenon DEF Calls, Pcs
  <2> QED BY <1>1, <2>1, <2>2, <2>3, <2>4, <2>5, ChainCallStarts, Zenon
<1> QED BY <1>3, <1>4, Zenon

\* Calls that leave the metadata alone at first.
LEMMA ChainPlainCall ==
  ASSUME BaseInv, NEW s, ChainInv(s), NEW p \in Procs, NEW i \in Ino,
         ext4_setattr(p, i) \/ ext4_direct_IO_write(p, i) \/ iput(p, i)
  PROVE  ChainInv(s)'
<1>1. /\ proc[p].pc = "idle" /\ mode = "mounted" /\ i \in buf.used /\ ~Busy(i)
      /\ UNCHANGED <<core, buf>> /\ UNCHANGED <<mode, orphan>>
  <2>1. cached \subseteq buf.used
    BY Zenon DEF BaseInv, ListInv
  <2> QED BY <2>1, Zenon DEF ext4_setattr, ext4_direct_IO_write, iput, MayCall, Reachable
<1>2. /\ TypeOK
      /\ core[i].blocks = core[i].size
      /\ Contains(s, i) <=> core[i].nlink = 0
      /\ ~Contains(s, i) => core[i].next = 0
  BY <1>1, ChainCallFacts, Zenon
<1>3. /\ {"setattr", "dio", "evict"} \subseteq Calls /\ {"add", "evict"} \subseteq Pcs
      /\ {"added", "none"} \subseteq Pcs \cup {"none"}
  BY Zenon DEF Calls, Pcs
<1>4. /\ core' = [core EXCEPT ![i] = core[i]]
      /\ buf'.last = buf.last /\ buf'.used = buf.used
  BY <1>1, <1>2, MarkKeeps, Zenon
<1>5. CASE ext4_setattr(p, i)
  <2>1. Start(p, i, "setattr", "add", "added")
    BY <1>5, Zenon DEF ext4_setattr
  <2>2. Tidy(Doing(i, "setattr", "add", "added"), core[i], Contains(s, i))
    BY <1>2, Zenon DEF Tidy, Doing
  <2> QED BY <1>1, <1>3, <1>4, <2>1, <2>2, ChainCallStarts, Zenon
<1>6. CASE ext4_direct_IO_write(p, i)
  <2>1. Start(p, i, "dio", "add", "added")
    BY <1>6, Zenon DEF ext4_direct_IO_write
  <2>2. Tidy(Doing(i, "dio", "add", "added"), core[i], Contains(s, i))
    BY <1>2, Zenon DEF Tidy, Doing
  <2> QED BY <1>1, <1>3, <1>4, <2>1, <2>2, ChainCallStarts, Zenon
<1>7. CASE iput(p, i)
  <2>1. Start(p, i, "evict", "evict", "none") /\ core[i].nlink = 0
    BY <1>7, Zenon DEF iput
  <2>2. Tidy(Doing(i, "evict", "evict", "none"), core[i], Contains(s, i))
    BY <1>2, <2>1, Zenon DEF Tidy, Doing
  <2> QED BY <1>1, <1>3, <1>4, <2>1, <2>2, ChainCallStarts, Zenon
<1> QED BY <1>5, <1>6, <1>7, Zenon

\* A step that changes nothing the chain depends on.
LEMMA ChainStutter ==
  ASSUME NEW s, ChainInv(s), UNCHANGED <<core, orphan, buf, proc, mode>>
  PROVE  ChainInv(s)'
BY Zenon DEF ChainInv, OnList, Busy

LEMMA ChainNewInodes ==
  ASSUME BaseInv, NEW s, ChainInv(s), NEW p \in Procs, NEW i \in Ino,
         ext4_create(p, i) \/ ext4_tmpfile(p, i) \/ ext4_symlink(p, i)
  PROVE  ChainInv(s)'
<1>1. /\ proc[p].pc = "idle" /\ mode = "mounted" /\ UNCHANGED <<mode, orphan>>
      /\ TypeOK /\ Flow(proc[p]) /\ i # 0
  BY NoInodeZero, Zenon DEF ext4_create, ext4_tmpfile, ext4_symlink, MayCall,
                            BaseInv, OwnInv
<1>2. /\ NewInode.nlink = 1 /\ NewInode.next = 0
      /\ NewInode.size = 0 /\ NewInode.blocks = 0
      /\ Nameless.nlink = 0 /\ Nameless.next = 0
      /\ Nameless.size = 0 /\ Nameless.blocks = 0
  BY Zenon DEF NewInode, Nameless
<1>3. PICK c, r, n : c \in {NewInode, Nameless} /\ new_inode(i, c, r, n)
  BY DEF ext4_create, ext4_tmpfile, ext4_symlink
<1>4. /\ i \notin cached /\ i \notin buf.used
      /\ core' = [core EXCEPT ![i] = c]
      /\ buf' = Created(buf, i, n, r)
  BY <1>3, Zenon DEF new_inode, Created
<1>5. /\ buf'.last = buf.last /\ buf'.used = buf.used \cup {i}
      /\ buf.used \subseteq Ino
  <2>1. buf \in Metadata
    BY <1>1, Zenon DEF TypeOK
  <2>2. buf' = Meta(buf.last, [buf.ino EXCEPT ![i] = r], buf.used \cup {i},
                    [buf.names EXCEPT ![i] = n])
    BY <1>4, <2>1, MetaCreated, Zenon
  <2> QED BY <2>1, <2>2, Zenon DEF Meta, Metadata
<1>6. proc[p].ino = 0 /\ ~Busy(i) /\ ~Contains(s, i) /\ proc[p] = Idle
  <2>0. proc[p] = Idle
    BY <1>1, Zenon DEF Flow
  <2>1. proc[p] = Idle /\ proc[p].ino = 0
    BY <2>0 DEF Idle
  <2>2. ~Busy(i)
    BY <1>1, <1>4, Zenon DEF BaseInv, OwnInv, Busy
  <2>3. ~Contains(s, i)
    BY <1>4, Zenon DEF ChainInv
  <2> QED BY <2>1, <2>2, <2>3, Zenon
<1>7. PICK w : /\ Moves(p, w) /\ w.ino \in {0, i}
               /\ w.ino = i => Tidy(w, c, Contains(s, i))
               /\ w.ino = 0 => Tidy(Idle, c, Contains(s, i))
  <2>1. CASE ext4_create(p, i)
    <3>1. Moves(p, Idle) /\ Idle.ino = 0
      BY <1>1, <1>6, <2>1, Zenon DEF ext4_create, Moves, TypeOK, ProcRec, Idle
    <3>2. c = NewInode
      <4>1. core' = [core EXCEPT ![i] = NewInode]
        BY <2>1, Zenon DEF ext4_create, new_inode
      <4> QED BY <1>1, <1>4, <4>1, Zenon DEF TypeOK
    <3>3. Tidy(Idle, c, Contains(s, i))
      <4>1. c.blocks = c.size /\ c.nlink # 0 /\ c.next = 0
        BY <1>2, <3>2
      <4> QED BY <1>6, <4>1, IdleFacts, Zenon DEF Tidy
    <3> QED BY <1>1, <3>1, <3>3, Zenon
  <2>2. ASSUME NEW o \in {"tmpfile", "symlink"}, Start(p, i, o, "add", "added")
        PROVE  \E w : /\ Moves(p, w) /\ w.ino \in {0, i}
                      /\ w.ino = i => Tidy(w, c, Contains(s, i))
                      /\ w.ino = 0 => Tidy(Idle, c, Contains(s, i))
    <3> DEFINE w == Doing(i, o, "add", "added")
    <3>0. o \in Calls /\ {"add", "added"} \subseteq Pcs
      BY Zenon DEF Calls, Pcs
    <3>1. Moves(p, w) /\ w.ino = i
      BY <1>1, <2>2, <3>0, MoveFacts, Zenon DEF Doing
    <3>2. Tidy(w, c, Contains(s, i))
      BY <1>2, <1>3, <1>6, Zenon DEF Tidy, Doing
    <3> HIDE DEF w
    <3> QED BY <1>1, <3>1, <3>2, Zenon
  <2> QED BY <2>1, <2>2, Zenon DEF ext4_tmpfile, ext4_symlink
<1>8. /\ buf'.used \subseteq Ino
      /\ \A j \in Ino \ {i} : j \in buf'.used <=> j \in buf.used
  BY <1>5, Zenon
<1> QED BY <1>1, <1>4, <1>5, <1>6, <1>7, <1>8, ChainStep, Zenon

-----------------------------------------------------------------------------
(* Mount, journal, unmount.                                                *)

LEMMA ChainCleanup ==
  ASSUME BaseInv, NEW s, ChainInv(s), NEW p \in Procs, ~error,
         ext4_orphan_cleanup(p)
  PROVE  ChainInv(s)' /\ UNCHANGED error
<1>1. /\ mode = "recovering" /\ AllIdle /\ TypeOK /\ buf.last # 0
      /\ UNCHANGED <<core, mode>> /\ s \in Seq(Ino)
      /\ IsChain(buf.last, core, s)
  BY Zenon DEF ext4_orphan_cleanup, BaseInv, ChainInv
<1>2. s # <<>> /\ Len(s) \in Nat \ {0} /\ s[1] \in Ino /\ buf.last = s[1]
  BY <1>1 DEF IsChain
<1>3. PICK k \in Ino : k = buf.last /\ Contains(s, k) /\ k = s[1]
  BY <1>2 DEF Contains
<1>4. k \in buf.used /\ k # 0
  BY <1>1, <1>3, Zenon DEF ChainInv
<1>5. core[k].next <= NIno
  <2>1. 1 \in 1 .. Len(s)
    BY <1>2
  <2>2. core[s[1]].next = IF 1 = Len(s) THEN 0 ELSE s[1 + 1]
    BY <1>1, <2>1, Zenon DEF IsChain
  <2>3. 1 # Len(s) => s[1 + 1] \in Ino
    <3>0. Len(s) \in Nat \ {0}
      BY <1>2, Zenon
    <3>a. \A n \in Nat \ {0} : 1 # n => 1 + 1 \in 1 .. n
      OBVIOUS
    <3>1. 1 # Len(s) => 1 + 1 \in 1 .. Len(s)
      BY <3>0, <3>a, Zenon
    <3> QED BY <1>1, <3>1
  <2> QED BY <1>3, <2>2, <2>3, ConstantsAssumption DEF Ino
<1>6. core[k] \in InodeRec
  BY <1>1, Zenon DEF TypeOK
<1>7. ~(core[k].next > NIno)
  BY <1>5, <1>6, ConstantsAssumption DEF InodeRec, Dtime
<1>8. /\ orphan' = <<k>> \o orphan /\ UNCHANGED <<buf, error>>
      /\ core[k].nlink > 0 => Start(p, k, "recover", "trunc", "none")
      /\ ~(core[k].nlink > 0) => Start(p, k, "evict", "evict", "none")
  BY <1>3, <1>4, <1>7, Zenon DEF ext4_orphan_cleanup, list_add
<1>9. /\ \A q \in Procs : proc[q] = Idle /\ proc[q].ino = 0
      /\ \A i \in Ino : ~Busy(i) /\ ~OnList(i)
  BY <1>1, NobodyBusy, Zenon DEF BaseInv, ListInv
<1>10. orphan = <<>>
  <2>1. orphan \in Seq(Ino)
    BY <1>1, Zenon DEF TypeOK
  <2>2. ASSUME orphan # <<>> PROVE FALSE
    <3>1. 1 \in 1 .. Len(orphan) /\ orphan[1] \in Ino
      BY <2>1, <2>2, SMTT(30)
    <3> QED BY <1>9, <3>1, Zenon DEF OnList, Contains
  <2> QED BY <2>2, Zenon
<1>11. orphan' = <<k>>
  BY <1>8, <1>10
<1>12. PICK w : Moves(p, w) /\ w.ino = k /\ Tidy(w, core[k], TRUE)
  <2>1. /\ {"recover", "evict"} \subseteq Calls /\ {"trunc", "evict"} \subseteq Pcs
        /\ "none" \in Pcs \cup {"none"}
    BY Zenon DEF Calls, Pcs
  <2>2. CASE core[k].nlink > 0
    <3> DEFINE w == Doing(k, "recover", "trunc", "none")
    <3>1. Moves(p, w)
      BY <1>1, <1>8, <2>1, <2>2, MoveFacts, Zenon DEF Doing
    <3>2. w.ino = k /\ Tidy(w, core[k], TRUE)
      BY Zenon DEF Doing, Tidy
    <3> QED BY <3>1, <3>2, Zenon
  <2>3. CASE ~(core[k].nlink > 0)
    <3> DEFINE w == Doing(k, "evict", "evict", "none")
    <3>1. Moves(p, w)
      BY <1>1, <1>8, <2>1, <2>3, MoveFacts, Zenon DEF Doing
    <3>2. w.ino = k /\ Tidy(w, core[k], TRUE)
      BY Zenon DEF Doing, Tidy
    <3> QED BY <3>1, <3>2, Zenon
  <2> QED BY <2>2, <2>3, Zenon
<1>13. /\ proc'[p] = w /\ \A q \in Procs \ {p} : proc'[q].ino = 0
  BY <1>9, <1>12, Zenon DEF Moves
<1>14. Contains(s, k) = TRUE /\ Contains(orphan', k)
  BY <1>3, <1>11 DEF Contains
<1>15. \A q \in Procs : proc'[q].ino # 0 =>
         /\ Contains(s, proc'[q].ino) <=> Contains(orphan', proc'[q].ino)
         /\ Tidy(proc'[q], core'[proc'[q].ino], Contains(s, proc'[q].ino))
  BY <1>1, <1>12, <1>13, <1>14, Zenon
<1>16. \A i \in buf'.used : ~Busy(i)' =>
         \/ mode = "recovering" /\ Contains(s, i)
         \/ Tidy(Idle, core'[i], Contains(s, i))
  <2>1. buf.used \subseteq Ino
    BY <1>1, Zenon DEF TypeOK, Metadata
  <2> QED BY <1>1, <1>8, <1>9, <2>1, Zenon DEF ChainInv
<1>17. ChainInv(s)'
  BY <1>1, <1>2, <1>3, <1>8, <1>11, <1>13, <1>15, <1>16, Zenon DEF ChainInv, OnList
<1> QED BY <1>8, <1>17, Zenon

\* What is in the buffers with no handle open can be recovered from.
LEMMA CommitChain ==
  ASSUME BaseInv, NEW s, ChainInv(s), \A p \in Procs : ~InHandle(p), disk' = buf
  PROVE  DiskChain(s)'
<1>1. /\ s \in Seq(Ino) /\ IsChain(buf.last, core, s)
      /\ \A i \in Ino : Contains(s, i) => i \in buf.used
  BY Zenon DEF ChainInv
<1>2. \A i \in buf.used : buf.ino[i] = core[i]
  BY BuffersConsistent, Zenon
<1>3. IsChain(buf.last, buf.ino, s)
  <2>1. \A j \in Ino : Contains(s, j) => buf.ino[j].next = core[j].next
    BY <1>1, <1>2, Zenon
  <2> QED BY <1>1, <2>1, ChainSame, Zenon
<1>4. ASSUME NEW i \in buf.used, ~Contains(s, i)
      PROVE  Tidy(Idle, core[i], FALSE)
  <2>0. i \in Ino /\ i # 0 /\ Contains(s, i) = FALSE
    BY <1>4, NoInodeZero, Zenon DEF BaseInv, TypeOK, Metadata, Contains
  <2>1. CASE Busy(i)
    <3>1. PICK q \in Procs : proc[q].ino = i
      BY <2>1, Zenon DEF Busy
    <3>2. proc[q].pc \notin HandlePcs /\ proc[q].pc # "idle"
      <4>1. Flow(proc[q]) /\ proc[q].ino # 0
        BY <2>0, <3>1, Zenon DEF BaseInv, OwnInv
      <4>2. proc[q].pc # "idle"
        BY <4>1, IdleFacts, Zenon DEF Flow
      <4> QED BY <4>2, Zenon DEF InHandle
    <3>3. /\ Flow(proc[q]) /\ Tidy(proc[q], core[i], FALSE)
          /\ Fits(proc[q], core[i], buf.ino[i], buf.names[i], FALSE)
          /\ proc[q].pc \in Pcs
      <4>1. proc[q].pc \in Pcs
        BY <3>2, Zenon DEF BaseInv, TypeOK
      <4>2. /\ Flow(proc[q]) /\ Tidy(proc[q], core[i], Contains(s, i))
            /\ Fits(proc[q], core[i], buf.ino[i], buf.names[i], Contains(s, i))
        BY <3>1, <3>2, ChainFacts, Zenon
      <4> QED BY <2>0, <4>1, <4>2, Zenon
    <3>4. proc[q].pc \in {"tail", "dioend"}
      BY <3>2, <3>3, Zenon DEF Pcs, HandlePcs, Fits, Tidy
    <3>5. proc[q].pc = "dioend" => proc[q].op = "diofail"
      BY <3>3, Zenon DEF Flow, Tidy
    <3> QED BY <3>3, <3>4, <3>5, Zenon DEF Tidy, Idle
  <2>2. CASE ~Busy(i)
    BY <1>4, <2>0, <2>2, Zenon DEF ChainInv
  <2> QED BY <2>1, <2>2, Zenon
<1> QED BY <1>1, <1>2, <1>3, <1>4, Zenon DEF DiskChain

LEMMA ChainMount ==
  ASSUME NEW s, DiskChain(s), ~error, BaseInv, mount_from_disk
  PROVE  ChainInv(s)'
<1>1. /\ buf'.last = disk.last /\ buf'.used = disk.used
      /\ core' = disk.ino /\ orphan' = <<>> /\ mode' = "recovering"
      /\ \A p \in Procs : proc'[p].ino = 0
  BY Zenon DEF mount_from_disk, chain_to_clean, BaseInv, TypeOK, Metadata, Idle
<1>2. \A i \in disk.used : Contains(s, i) \/ Tidy(Idle, core'[i], Contains(s, i))
  <2>1. \A i : Contains(s, i) \/ Contains(s, i) = FALSE
    BY Zenon DEF Contains
  <2> QED BY <1>1, <2>1, Zenon DEF DiskChain
<1> QED BY <1>1, <1>2, Zenon DEF ChainInv, DiskChain

\* At the end of recovery nothing is on either list.
LEMMA RecoveryOver ==
  ASSUME BaseInv, NEW s, ChainInv(s), mount_done
  PROVE  /\ s = <<>> /\ orphan = <<>>
         /\ \A i \in buf.used : Tidy(Idle, core[i], FALSE) /\ Contains(s, i) = FALSE
<1>1. mode = "recovering" /\ AllIdle /\ buf.last = 0
  BY Zenon DEF mount_done
<1>2. s \in Seq(Ino) /\ IsChain(buf.last, core, s) /\ 0 \notin Ino
  BY NoInodeZero, Zenon DEF ChainInv
<1>3. s = <<>>
  <2>1. s # <<>> => s[1] \in Ino
    BY <1>2, SMTT(30)
  <2> QED BY <1>1, <1>2, <2>1, Zenon DEF IsChain
<1>4. orphan = <<>> /\ \A i : Contains(s, i) = FALSE
  BY <1>1, <1>3 DEF ChainInv, Contains
<1>5. \A i \in buf.used : Tidy(Idle, core[i], FALSE)
  <2>1. \A i \in buf.used : ~Busy(i)
    BY <1>1, NobodyBusy, Zenon
  <2>2. \A i \in buf.used : Tidy(Idle, core[i], Contains(s, i))
    BY <1>4, <2>1, Zenon DEF ChainInv
  <2>3. ASSUME NEW i \in buf.used PROVE Tidy(Idle, core[i], FALSE)
    <3>1. Contains(s, i) = FALSE
      BY <1>4, Zenon
    <3>2. Tidy(Idle, core[i], Contains(s, i))
      BY <2>2, Zenon
    <3> QED BY <3>1, <3>2, Zenon
  <2> QED BY <2>3, Zenon
<1> QED BY <1>3, <1>4, <1>5, Zenon

LEMMA ChainMountDone ==
  ASSUME BaseInv, NEW s, ChainInv(s), mount_done
  PROVE  ChainInv(s)'
<1>1. /\ s = <<>> /\ orphan = <<>>
      /\ \A i \in buf.used : Tidy(Idle, core[i], Contains(s, i))
  BY RecoveryOver, Zenon
<1>2. /\ mode' = "mounted" /\ AllIdle
      /\ UNCHANGED <<core, orphan, buf, proc>>
  BY Zenon DEF mount_done
<1>3. \A p \in Procs : proc[p].ino = 0
  BY <1>2, NobodyBusy, Zenon
<1> QED BY <1>1, <1>2, <1>3, Zenon DEF ChainInv

LEMMA ChainPutSuper ==
  ASSUME BaseInv, NEW s, ChainInv(s), ext4_put_super
  PROVE  ChainInv(s)' /\ DiskChain(s)'
<1>1. /\ AllIdle /\ mode = "mounted" /\ mode' = "unmounted" /\ disk' = buf
      /\ \A i \in cached : core[i].nlink > 0
      /\ UNCHANGED <<core, orphan, buf, proc>>
  BY Zenon DEF ext4_put_super
<1>2. s = orphan /\ s \in Seq(Ino)
  BY <1>1, Zenon DEF ChainInv
<1>3. \A p \in Procs : proc[p].ino = 0 /\ ~InHandle(p)
  BY <1>1, NobodyBusy, Zenon DEF AllIdle, InHandle, HandlePcs
<1>4. ASSUME NEW i \in Ino, Contains(s, i) PROVE FALSE
  <2>1. i \in cached /\ i \in buf.used
    BY <1>2, <1>4, Zenon DEF BaseInv, ListInv, OnList
  <2>2. ~Busy(i)
    BY <1>1, NobodyBusy, Zenon
  <2>3. Tidy(Idle, core[i], Contains(s, i))
    BY <1>1, <2>1, <2>2, Zenon DEF ChainInv
  <2>4. core[i].nlink = 0
    BY <1>4, <2>3, Zenon DEF Tidy, Idle
  <2> QED BY <1>1, <2>1, <2>4
<1>5. s = <<>>
  <2>1. ASSUME s # <<>> PROVE FALSE
    <3>1. 1 \in 1 .. Len(s) /\ s[1] \in Ino
      BY <1>2, <2>1
    <3> QED BY <1>4, <3>1, Zenon DEF Contains
  <2> QED BY <2>1, Zenon
<1>6. DiskChain(s)'
  BY <1>1, <1>3, CommitChain, Zenon
<1>7. ChainInv(s)'
  BY <1>1, <1>3, <1>5, Zenon DEF ChainInv, Busy
<1> QED BY <1>6, <1>7, Zenon

=============================================================================
