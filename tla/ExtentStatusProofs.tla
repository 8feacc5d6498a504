------------------------- MODULE ExtentStatusProofs -------------------------
(***************************************************************************)
(* The trees of all inodes and the shrinker that walks them, for any       *)
(* number of inodes, blocks and processes: types, disjoint extents,        *)
(* counters and list that agree with the trees, and nobody at work on an   *)
(* inode that is gone.                                                     *)
(***************************************************************************)
EXTENDS ExtentStatus, ExtentTreeProofs, ListLemmas

ProcRecs ==
  [pc : Pcs, call : Calls \cup {NoCall}, back : {"idle", "remove", "insert"},
   walk : Nat, target : Inodes \cup {"none"}, shrunk : BOOLEAN,
   skipped : BOOLEAN, retried : BOOLEAN, scan : 0 .. ScanMax]

TreeInv ==
  /\ tree \in [Inodes -> SUBSET ExtentRec]
  /\ \A i \in Inodes : TreeOK(tree[i])

CountInv ==
  /\ shk \in [Inodes -> 0 .. NBlocks]
  /\ list \in Seq(Inodes) /\ NoDup(list)
  /\ \A i \in Inodes : /\ shk[i] = Cardinality(Reclaimable(tree[i]))
                       /\ Contains(list, i) <=> shk[i] > 0

PlaceInv ==
  /\ cache \in [Inodes -> 0 .. None]
  /\ shrinkAt \in [Inodes -> Block]

\* What process p has locked, and what it relies on while it has.
Own(p) ==
  LET r == proc[p] IN
  /\ r.call # NoCall => r.call.ino \in alive /\ holder[r.call.ino] = p
  /\ r.pc \in {"reclaim", "unlock"} => r.target \in alive /\ holder[r.target] = p
  /\ r.pc = "unlock" => r.target # r.call.ino
  /\ r.pc \in {"remove", "insert"} => r.call # NoCall
  /\ r.call # NoCall /\ (r.pc = "insert" \/ r.back = "insert") =>
       r.call.new \in Extents /\ \A e \in tree[r.call.ino] : Apart(e, r.call.new)

LockInv ==
  /\ alive \in SUBSET Inodes
  /\ holder \in [Inodes -> Threads \cup {Nobody}]
  /\ proc \in [Threads -> ProcRecs]
  /\ err \in [Threads -> BOOLEAN]
  /\ \A i \in Inodes \ alive : tree[i] = {}
  /\ \A p \in Threads : Own(p)

IInv == TreeInv /\ CountInv /\ PlaceInv /\ LockInv

-----------------------------------------------------------------------------

\* ext4_es_list_add() and ext4_es_list_del() on a list without duplicates.
LEMMA Relist ==
  ASSUME NEW l \in Seq(Inodes), NoDup(l), NEW i \in Inodes, NEW n \in Nat
  PROVE  /\ relist(l, i, n) \in Seq(Inodes) /\ NoDup(relist(l, i, n))
         /\ Contains(relist(l, i, n), i) <=> n > 0
         /\ \A x : x # i => (Contains(relist(l, i, n), x) <=> Contains(l, x))
<1>1. CASE Contains(l, i) /\ n = 0
  <2> DEFINE k == CHOOSE j \in 1 .. Len(l) : l[j] = i
  <2>1. k \in 1 .. Len(l) /\ l[k] = i
    BY <1>1, Zenon DEF Contains
  <2>2. relist(l, i, n) = RemoveAt(l, k)
    BY <1>1, Zenon DEF relist
  <2> HIDE DEF k
  <2>3. RemoveAt(l, k) \in Seq(Inodes)
    BY <2>1, RemoveAtSeq, Zenon
  <2>4. /\ NoDup(RemoveAt(l, k))
        /\ \A x : Contains(RemoveAt(l, k), x) <=> Contains(l, x) /\ x # l[k]
    BY <2>1, RemoveAtMembers, Zenon
  <2> QED BY <1>1, <2>1, <2>2, <2>3, <2>4
<1>2. CASE ~Contains(l, i) /\ n # 0
  <2>1. relist(l, i, n) = Append(l, i)
    BY <1>2, Zenon DEF relist
  <2>2. /\ NoDup(Append(l, i)) /\ Append(l, i) \in Seq(Inodes)
        /\ \A x : Contains(Append(l, i), x) <=> Contains(l, x) \/ x = i
    BY <1>2, AddMembers, Zenon
  <2> QED BY <1>2, <2>1, <2>2
<1>3. CASE ~(Contains(l, i) /\ n = 0) /\ ~(~Contains(l, i) /\ n # 0)
  BY <1>3 DEF relist
<1> QED BY <1>1, <1>2, <1>3, Zenon

\* A change of one tree, with its counter and its place on the list.
LEMMA UpdateInv ==
  ASSUME IInv, NEW i \in Inodes, NEW M, TreeOK(M), NEW U, TreeOK(U),
         NEW c \in 0 .. None, Update(i, M, U, c)
  PROVE  /\ TreeInv' /\ CountInv' /\ cache' \in [Inodes -> 0 .. None]
         /\ tree'[i] = U
         /\ \A j \in Inodes : j # i => tree'[j] = tree[j]
<1> DEFINE n(V) == shk[i] + Cardinality(Reclaimable(V)) - Cardinality(Reclaimable(tree[i]))
<1>1. /\ tree \in [Inodes -> SUBSET ExtentRec] /\ U \in SUBSET ExtentRec
      /\ tree' = [tree EXCEPT ![i] = U]
  BY Zenon DEF IInv, TreeInv, TreeOK, Update
<1>2. tree'[i] = U /\ \A j \in Inodes : j # i => tree'[j] = tree[j]
  BY <1>1, Zenon
<1>3. TreeInv'
  <2>1. tree' \in [Inodes -> SUBSET ExtentRec]
    BY <1>1, Zenon
  <2>2. \A j \in Inodes : TreeOK(tree'[j])
    BY <1>2, Zenon DEF IInv, TreeInv
  <2> QED BY <2>1, <2>2, Zenon DEF TreeInv, TreeOK
<1>4. cache' \in [Inodes -> 0 .. None]
  BY Zenon DEF IInv, PlaceInv, Update
<1>5. /\ shk[i] = Cardinality(Reclaimable(tree[i])) /\ shk[i] \in Nat
      /\ Cardinality(Reclaimable(M)) \in 0 .. NBlocks
      /\ Cardinality(Reclaimable(U)) \in 0 .. NBlocks
  BY TreeSize, FileAssumption DEF IInv, CountInv
<1>6. /\ n(M) = Cardinality(Reclaimable(M)) /\ n(M) \in Nat
      /\ n(U) = Cardinality(Reclaimable(U)) /\ n(U) \in 0 .. NBlocks /\ n(U) \in Nat
  BY <1>5, FileAssumption
<1>7. /\ shk' = [shk EXCEPT ![i] = n(U)]
      /\ list' = relist(relist(list, i, n(M)), i, n(U))
  BY Zenon DEF Update, count
<1> HIDE DEF n
<1>8. shk' \in [Inodes -> 0 .. NBlocks] /\ shk'[i] = n(U) /\ \A j \in Inodes : j # i => shk'[j] = shk[j]
  BY <1>6, <1>7, Zenon DEF IInv, CountInv
<1>9. /\ list' \in Seq(Inodes) /\ NoDup(list')
      /\ Contains(list', i) <=> n(U) > 0
      /\ \A x : x # i => (Contains(list', x) <=> Contains(list, x))
  <2> DEFINE l == relist(list, i, n(M))
  <2>1. /\ l \in Seq(Inodes) /\ NoDup(l)
        /\ \A x : x # i => (Contains(l, x) <=> Contains(list, x))
    BY <1>6, Relist, Zenon DEF IInv, CountInv
  <2>2. list' = relist(l, i, n(U))
    BY <1>7, Zenon
  <2> HIDE DEF l
  <2>3. /\ relist(l, i, n(U)) \in Seq(Inodes) /\ NoDup(relist(l, i, n(U)))
        /\ Contains(relist(l, i, n(U)), i) <=> n(U) > 0
        /\ \A x : x # i => (Contains(relist(l, i, n(U)), x) <=> Contains(l, x))
    BY <1>6, <2>1, Relist, Zenon
  <2> QED BY <2>1, <2>2, <2>3, Zenon
<1>10. ASSUME NEW j \in Inodes
       PROVE  /\ shk'[j] = Cardinality(Reclaimable(tree'[j]))
              /\ Contains(list', j) <=> shk'[j] > 0
  <2>1. CASE j = i
    BY <2>1, <1>2, <1>6, <1>8, <1>9, Zenon
  <2>2. CASE j # i
    <3>1. /\ shk[j] = Cardinality(Reclaimable(tree[j]))
          /\ Contains(list, j) <=> shk[j] > 0
      BY Zenon DEF IInv, CountInv
    <3> QED BY <2>2, <3>1, <1>2, <1>8, <1>9, Zenon
  <2> QED BY <2>1, <2>2, Zenon
<1>11. CountInv'
  BY <1>8, <1>9, <1>10, Zenon DEF CountInv, Reclaimable
<1> QED BY <1>2, <1>3, <1>4, <1>11, Zenon

\* A process keeps what it owns when its locks and what they protect are left
\* alone.
LEMMA KeepOwn ==
  ASSUME IInv, NEW q \in Threads, proc'[q] = proc[q],
         \A j \in alive : holder[j] = q =>
           holder'[j] = q /\ j \in alive' /\ tree'[j] = tree[j]
  PROVE  Own(q)'
<1>1. Own(q)
  BY Zenon DEF IInv, LockInv
<1> QED BY <1>1, Zenon DEF Own

\* The parts of a call.
LEMMA CallParts ==
  ASSUME NEW c \in Calls
  PROVE  /\ c.ino \in Inodes /\ c # NoCall
         /\ Interval(c.new)
         /\ c.first = c.new.lblk /\ c.last = ext4_es_end(c.new)
         /\ c.new.type # {} => c.new \in Extents
<1>1. PICK i \in Inodes, e \in Extents \cup Ranges : c = Call(i, e)
  BY DEF Calls
<1>2. /\ c.ino = i /\ c.new = e /\ c.first = e.lblk /\ c.last = ext4_es_end(e)
  BY <1>1, Zenon DEF Call
<1>3. c # NoCall
  <2>1. NoCall.ino = "none"
    BY Zenon DEF NoCall
  <2> QED BY <1>2, <2>1, ConstantsAssumption, Zenon
<1>4. CASE e \in Extents
  BY <1>2, <1>3, <1>4, NewExtent, Zenon
<1>5. CASE e \in Ranges
  <2>1. PICK l \in Block, n \in 1 .. NBlocks : e = Extent(l, n, {}, 0)
    BY <1>5 DEF Ranges
  <2>2. e.lblk = l /\ e.len = n /\ e.type = {}
    BY <2>1, Zenon DEF Extent
  <2>3. Interval(e)
    BY <2>2, FileAssumption DEF Interval, Block
  <2> QED BY <1>2, <1>3, <2>2, <2>3, Zenon
<1> QED BY <1>1, <1>4, <1>5, Zenon

\* The other processes keep what they own when process p works on inode i, which
\* nobody else has locked.
LEMMA OthersOwn ==
  ASSUME IInv, NEW p \in Threads, NEW i \in Inodes, holder[i] \in {Nobody, p},
         NEW q \in Threads, q # p, proc'[q] = proc[q],
         alive \in SUBSET alive',
         \A j \in Inodes : j # i => holder'[j] = holder[j] /\ tree'[j] = tree[j]
  PROVE  Own(q)'
<1>1. q # Nobody
  BY ConstantsAssumption, Zenon DEF Nobody, Threads
<1>2. alive \in SUBSET Inodes
  BY Zenon DEF IInv, LockInv
<1> QED BY <1>1, <1>2, KeepOwn, Zenon

\* A process that returns owns nothing.
LEMMA IdleOwn ==
  ASSUME NEW p \in Threads, proc'[p] = Idle
  PROVE  Own(p)'
BY DEF Own, Idle

\* The inodes that are gone have no extents, also after a step on inode i.
LEMMA GoneEmpty ==
  ASSUME IInv, NEW i \in alive, alive' = alive,
         \A j \in Inodes : j # i => tree'[j] = tree[j]
  PROVE  \A j \in Inodes \ alive' : tree'[j] = {}
BY Zenon DEF IInv, LockInv

\* A call on inode i ends.
LEMMA ReturnLocks ==
  ASSUME IInv, NEW p \in Threads, NEW i \in alive, holder[i] \in {Nobody, p},
         NEW e \in BOOLEAN, Return(p, i, e), alive' = alive,
         \A j \in Inodes : j # i => tree'[j] = tree[j]
  PROVE  LockInv'
<1>1. /\ alive \in SUBSET Inodes /\ i \in Inodes
      /\ holder \in [Inodes -> Threads \cup {Nobody}]
      /\ proc \in [Threads -> ProcRecs] /\ err \in [Threads -> BOOLEAN]
  BY Zenon DEF IInv, LockInv
<1>2. /\ proc' = [proc EXCEPT ![p] = Idle] /\ err' = [err EXCEPT ![p] = e]
      /\ holder' = [holder EXCEPT ![i] = Nobody]
  BY Zenon DEF Return
<1>3. Idle \in ProcRecs
  BY ConstantsAssumption DEF Idle, ProcRecs, Pcs
<1>4. /\ holder' \in [Inodes -> Threads \cup {Nobody}]
      /\ proc' \in [Threads -> ProcRecs] /\ err' \in [Threads -> BOOLEAN]
  BY <1>1, <1>2, <1>3, Zenon
<1>5. /\ proc'[p] = Idle /\ \A q \in Threads : q # p => proc'[q] = proc[q]
      /\ \A j \in Inodes : j # i => holder'[j] = holder[j]
  BY <1>1, <1>2, Zenon
<1>6. \A q \in Threads : Own(q)'
  BY <1>1, <1>5, IdleOwn, OthersOwn
<1>7. \A j \in Inodes \ alive' : tree'[j] = {}
  BY GoneEmpty, Zenon
<1> QED BY <1>1, <1>4, <1>6, <1>7, Zenon DEF LockInv

\* A call on inode i goes into the shrinker.
LEMMA ShrinkLocks ==
  ASSUME IInv, NEW p \in Threads, NEW c \in Calls, c.ino \in alive,
         holder[c.ino] \in {Nobody, p}, alive' = alive,
         \A j \in Inodes : j # c.ino => tree'[j] = tree[j],
         list' \in Seq(Inodes), NEW l \in {"remove", "insert"},
         l = "insert" => c.new \in Extents /\ \A e \in tree'[c.ino] : Apart(e, c.new),
         start_shrink(p, c, l)
  PROVE  LockInv'
<1> DEFINE r == [Idle EXCEPT !.pc = "walk", !.call = c, !.back = l,
                             !.walk = Len(list'), !.scan = ScanMax]
<1>1. /\ alive \in SUBSET Inodes /\ c.ino \in Inodes
      /\ holder \in [Inodes -> Threads \cup {Nobody}]
      /\ proc \in [Threads -> ProcRecs] /\ err \in [Threads -> BOOLEAN]
  BY Zenon DEF IInv, LockInv
<1>2. /\ proc' = [proc EXCEPT ![p] = r] /\ err' = err
      /\ holder' = [holder EXCEPT ![c.ino] = p]
  BY Zenon DEF start_shrink
<1>3. /\ r \in ProcRecs
      /\ r.pc = "walk" /\ r.call = c /\ r.back = l
  <2>1. Len(list') \in Nat /\ ScanMax \in 0 .. ScanMax
    BY ConstantsAssumption
  <2> QED BY <2>1, Zenon DEF Idle, ProcRecs, Pcs
<1> HIDE DEF r
<1>4. /\ holder' \in [Inodes -> Threads \cup {Nobody}]
      /\ proc' \in [Threads -> ProcRecs] /\ err' \in [Threads -> BOOLEAN]
  BY <1>1, <1>2, <1>3, Zenon
<1>5. /\ proc'[p] = r /\ \A q \in Threads : q # p => proc'[q] = proc[q]
      /\ holder'[c.ino] = p
      /\ \A j \in Inodes : j # c.ino => holder'[j] = holder[j]
  BY <1>1, <1>2, Zenon
<1>6. Own(p)'
  BY <1>3, <1>5, Zenon DEF Own
<1>7. \A q \in Threads : q # p => Own(q)'
  BY <1>1, <1>5, OthersOwn
<1>8. \A j \in Inodes \ alive' : tree'[j] = {}
  BY GoneEmpty, Zenon
<1> QED BY <1>1, <1>4, <1>6, <1>7, <1>8, Zenon DEF LockInv

\* The insertion of a call into what the removal has left of the tree.
LEMMA InsertStep ==
  ASSUME IInv, NEW p \in Threads, NEW c \in Calls, c.ino \in alive,
         holder[c.ino] \in {Nobody, p}, UNCHANGED <<shrinkAt, alive>>,
         c.new \in Extents, NEW T, TreeOK(T), \A e \in T : Apart(e, c.new),
         NEW k \in 0 .. None, do_insert(p, c, T, k)
  PROVE  IInv'
<1>0. c.ino \in Inodes /\ c.new \in ExtentRec /\ Fits(c.new) /\ Interval(c.new)
  BY CallParts, NewExtent, Zenon
<1>00. shrinkAt' \in [Inodes -> Block]
  BY Zenon DEF IInv, PlaceInv
<1>1. CASE /\ Update(c.ino, T, es_insert(T, c.new), cache_inserted(T, c.new))
           /\ Return(p, c.ino, FALSE)
  <2>1. TreeOK(es_insert(T, c.new)) /\ cache_inserted(T, c.new) \in 0 .. None
    <3>1. cache_inserted(T, c.new) \in Block
      BY <1>0, CacheInserted, Zenon
    <3>2. Block \in SUBSET (0 .. None)
      BY FileAssumption DEF Block, None
    <3> QED BY <1>0, <3>1, <3>2, InsertTree, Zenon
  <2>2. /\ TreeInv' /\ CountInv' /\ cache' \in [Inodes -> 0 .. None]
        /\ \A j \in Inodes : j # c.ino => tree'[j] = tree[j]
    BY <1>0, <1>1, <2>1, UpdateInv, Zenon
  <2>3. LockInv'
    BY <1>1, <2>2, ReturnLocks, Zenon
  <2> QED BY <1>00, <2>2, <2>3, Zenon DEF IInv, PlaceInv
<1>2. CASE Update(c.ino, T, T, k) /\ start_shrink(p, c, "insert")
  <2>1. /\ TreeInv' /\ CountInv' /\ cache' \in [Inodes -> 0 .. None]
        /\ \A j \in Inodes : j # c.ino => tree'[j] = tree[j]
        /\ tree'[c.ino] = T
    BY <1>0, <1>2, UpdateInv
  <2>2. list' \in Seq(Inodes)
    BY <2>1, Zenon DEF CountInv
  <2>3. LockInv'
    BY <1>2, <2>1, <2>2, ShrinkLocks, Zenon
  <2> QED BY <1>00, <2>1, <2>3, Zenon DEF IInv, PlaceInv
<1> QED BY <1>1, <1>2, Zenon DEF do_insert

\* The removal of a call, and the insertion that may follow it.
LEMMA RemoveStep ==
  ASSUME IInv, NEW p \in Threads, NEW c \in Calls, c.ino \in alive,
         holder[c.ino] \in {Nobody, p}, UNCHANGED <<shrinkAt, alive>>,
         do_remove(p, c)
  PROVE  IInv'
<1> DEFINE T == tree[c.ino]
           rest == es_remove(T, c.first, c.last)
           k == cache_removed(T, cache[c.ino], c.first, c.last)
<1>0. /\ c.ino \in Inodes /\ Interval(c.new)
      /\ c.new.type # {} => c.new \in Extents
      /\ c.first = c.new.lblk /\ c.last = ext4_es_end(c.new)
  BY CallParts, Zenon
<1>1. TreeOK(T) /\ cache[c.ino] \in 0 .. None
  BY <1>0, Zenon DEF IInv, TreeInv, PlaceInv
<1>2. /\ TreeOK(rest) /\ \A e \in rest : Apart(e, c.new)
      /\ k \in 0 .. None
  <2> HIDE DEF T
  <2> QED BY <1>0, <1>1, RemoveTree, CacheRemoved, Zenon
<1>3. shrinkAt' \in [Inodes -> Block]
  BY Zenon DEF IInv, PlaceInv
<1>4. \/ c.new.type = {} /\ Update(c.ino, rest, rest, k) /\ Return(p, c.ino, FALSE)
      \/ c.new.type # {} /\ do_insert(p, c, rest, k)
      \/ /\ cache' = [cache EXCEPT ![c.ino] = None]
         /\ UNCHANGED <<tree, shk, list>> /\ start_shrink(p, c, "remove")
  BY Zenon DEF do_remove
<1> HIDE DEF rest, k, T
<1>5. CASE Update(c.ino, rest, rest, k) /\ Return(p, c.ino, FALSE)
  <2>1. /\ TreeInv' /\ CountInv' /\ cache' \in [Inodes -> 0 .. None]
        /\ \A j \in Inodes : j # c.ino => tree'[j] = tree[j]
    BY <1>0, <1>2, <1>5, UpdateInv, Zenon
  <2>2. LockInv'
    BY <1>5, <2>1, ReturnLocks, Zenon
  <2> QED BY <1>3, <2>1, <2>2, Zenon DEF IInv, PlaceInv
<1>6. CASE c.new.type # {} /\ do_insert(p, c, rest, k)
  BY <1>0, <1>2, <1>6, InsertStep, Zenon
<1>7. CASE /\ cache' = [cache EXCEPT ![c.ino] = None]
           /\ UNCHANGED <<tree, shk, list>> /\ start_shrink(p, c, "remove")
  <2>0. None \in 0 .. None
    BY FileAssumption DEF None
  <2>1. TreeInv' /\ CountInv' /\ PlaceInv'
    BY <1>3, <1>7, <2>0, Zenon DEF IInv, TreeInv, CountInv, PlaceInv
  <2>2. list' \in Seq(Inodes)
    BY <2>1, Zenon DEF CountInv
  <2>3. LockInv'
    BY <1>7, <2>2, ShrinkLocks, Zenon
  <2> QED BY <2>1, <2>3, Zenon DEF IInv
<1> QED BY <1>4, <1>5, <1>6, <1>7, Zenon

\* A step of process p that changes neither the tree nor the lock of an inode
\* that somebody else has locked.
LEMMA StepLocks ==
  ASSUME IInv, NEW p \in Threads, NEW r \in ProcRecs, proc' = [proc EXCEPT ![p] = r],
         alive' = alive, err' = err,
         holder' \in [Inodes -> Threads \cup {Nobody}],
         \A q \in Threads, j \in Inodes :
           q # p /\ holder[j] = q => holder'[j] = q /\ tree'[j] = tree[j],
         \A j \in Inodes \ alive : tree'[j] = {},
         Own(p)'
  PROVE  LockInv'
<1>1. /\ proc \in [Threads -> ProcRecs] /\ alive \in SUBSET Inodes
      /\ err \in [Threads -> BOOLEAN]
  BY Zenon DEF IInv, LockInv
<1>2. proc' \in [Threads -> ProcRecs] /\ \A q \in Threads : q # p => proc'[q] = proc[q]
  BY <1>1, Zenon
<1>3. \A q \in Threads : q # p => Own(q)'
  BY <1>1, <1>2, KeepOwn, Zenon
<1> QED BY <1>1, <1>2, <1>3, Zenon DEF LockInv

\* A step that leaves the processes and the locks alone and works on an inode
\* that nobody has locked.
LEMMA UnlockedStep ==
  ASSUME IInv, NEW i \in Inodes, holder[i] = Nobody, UNCHANGED <<holder, proc, err>>,
         alive' \in SUBSET Inodes,
         \A j \in Inodes : j # i => tree'[j] = tree[j] /\ (j \in alive <=> j \in alive'),
         i \notin alive' => tree'[i] = {}
  PROVE  LockInv'
<1>1. /\ holder \in [Inodes -> Threads \cup {Nobody}] /\ alive \in SUBSET Inodes
      /\ proc \in [Threads -> ProcRecs] /\ err \in [Threads -> BOOLEAN]
      /\ \A j \in Inodes \ alive : tree[j] = {}
  BY Zenon DEF IInv, LockInv
<1>2. \A j \in Inodes \ alive' : tree'[j] = {}
  BY <1>1, Zenon
<1>3. \A q \in Threads : Own(q)'
  <2> TAKE q \in Threads
  <2>1. q # Nobody
    BY ConstantsAssumption DEF Nobody, Threads
  <2>2. ASSUME NEW j \in alive, holder[j] = q
        PROVE  holder'[j] = q /\ j \in alive' /\ tree'[j] = tree[j]
    BY <1>1, <2>1, <2>2, Zenon
  <2> QED BY <2>2, KeepOwn, Zenon
<1> QED BY <1>1, <1>2, <1>3, Zenon DEF LockInv

LEMMA CallActions ==
  ASSUME IInv, NEW p \in Procs, NEW c \in Calls,
         ext4_es_insert_extent(p, c) \/ ext4_es_remove_extent(p, c)
  PROVE  IInv'
<1>1. p \in Threads
  BY Zenon DEF Threads
<1> QED BY <1>1, RemoveStep, Zenon DEF ext4_es_insert_extent, ext4_es_remove_extent

LEMMA RetryActions ==
  ASSUME IInv, NEW p \in Threads, remove_retry(p) \/ insert_retry(p)
  PROVE  IInv'
<1> DEFINE c == proc[p].call
<1>1. Own(p) /\ proc[p] \in ProcRecs
  BY Zenon DEF IInv, LockInv
<1>2. proc[p].pc \in {"remove", "insert"} /\ UNCHANGED <<shrinkAt, alive>>
  BY Zenon DEF remove_retry, insert_retry
<1>3. c \in Calls /\ c.ino \in alive /\ holder[c.ino] = p
  BY <1>1, <1>2, Zenon DEF Own, ProcRecs
<1>4. CASE remove_retry(p)
  <2>1. do_remove(p, c)
    BY <1>4, Zenon DEF remove_retry
  <2> HIDE DEF c
  <2> QED BY <1>2, <1>3, <2>1, RemoveStep, Zenon
<1>5. CASE insert_retry(p)
  <2>1. proc[p].pc = "insert" /\ do_insert(p, c, tree[c.ino], cache[c.ino])
    BY <1>5, Zenon DEF insert_retry
  <2>2. c.new \in Extents /\ \A e \in tree[c.ino] : Apart(e, c.new)
    BY <1>1, <1>2, <2>1, Zenon DEF Own
  <2>3. c.ino \in Inodes
    BY <1>3, Zenon DEF IInv, LockInv
  <2>4. TreeOK(tree[c.ino]) /\ cache[c.ino] \in 0 .. None
    BY <2>3, Zenon DEF IInv, TreeInv, PlaceInv
  <2> HIDE DEF c
  <2> QED BY <1>2, <1>3, <2>1, <2>2, <2>4, InsertStep, Zenon
<1> QED BY <1>4, <1>5, Zenon

LEMMA CacheAction ==
  ASSUME IInv, NEW i \in Inodes, NEW e \in Extents, ext4_es_cache_extent(i, e)
  PROVE  IInv'
<1> DEFINE U == es_insert(tree[i], e)
<1>1. /\ i \in alive /\ holder[i] = Nobody
      /\ \A f \in es_tree_search(tree[i], e.lblk) : f.lblk > ext4_es_end(e)
      /\ Update(i, tree[i], U, cache_inserted(tree[i], e))
      /\ UNCHANGED <<shrinkAt, alive, holder, proc, err>>
  BY Zenon DEF ext4_es_cache_extent
<1>2. TreeOK(tree[i]) /\ e \in ExtentRec /\ Fits(e)
  BY NewExtent, Zenon DEF IInv, TreeInv
<1>3. \A f \in tree[i] : Apart(f, e)
  BY <1>1, <1>2, NothingThere, Zenon
<1>4. TreeOK(U)
  BY <1>2, <1>3, InsertTree, Zenon
<1>5. cache_inserted(tree[i], e) \in 0 .. None
  <2>1. cache_inserted(tree[i], e) \in Block
    BY <1>2, <1>3, CacheInserted, Zenon
  <2> QED BY <2>1, FileAssumption DEF Block, None
<1>6. /\ TreeInv' /\ CountInv' /\ cache' \in [Inodes -> 0 .. None]
      /\ \A j \in Inodes : j # i => tree'[j] = tree[j]
  BY <1>1, <1>2, <1>4, <1>5, UpdateInv, Zenon
<1>7. LockInv'
  BY <1>1, <1>6, UnlockedStep, Zenon DEF IInv, LockInv
<1> QED BY <1>1, <1>6, <1>7, Zenon DEF IInv, PlaceInv

LEMMA LookupAction ==
  ASSUME IInv, NEW i \in Inodes, NEW b \in Block, ext4_es_lookup_extent(i, b)
  PROVE  IInv'
<1>1. PICK e \in tree[i] :
        tree' = [tree EXCEPT ![i] = (@ \ {e}) \cup {[e EXCEPT !.ref = TRUE]}]
  BY Zenon DEF ext4_es_lookup_extent
<1> DEFINE U == (tree[i] \ {e}) \cup {[e EXCEPT !.ref = TRUE]}
<1>2. /\ i \in alive /\ holder[i] = Nobody
      /\ UNCHANGED <<cache, shrinkAt, shk, list, alive, holder, proc, err>>
  BY Zenon DEF ext4_es_lookup_extent
<1>3. TreeOK(U) /\ Cardinality(Reclaimable(U)) = Cardinality(Reclaimable(tree[i]))
  BY MarkTree, Zenon DEF IInv, TreeInv
<1>4. /\ tree \in [Inodes -> SUBSET ExtentRec] /\ U \in SUBSET ExtentRec
      /\ tree' = [tree EXCEPT ![i] = U]
  BY <1>1, <1>3, Zenon DEF IInv, TreeInv, TreeOK
<1> HIDE DEF U
<1>5. /\ tree' \in [Inodes -> SUBSET ExtentRec] /\ tree'[i] = U
      /\ \A j \in Inodes : j # i => tree'[j] = tree[j]
  BY <1>4, Zenon
<1>6. TreeInv'
  <2>1. \A j \in Inodes : TreeOK(tree'[j])
    BY <1>3, <1>5, Zenon DEF IInv, TreeInv
  <2> QED BY <1>5, <2>1, Zenon DEF TreeInv, TreeOK
<1>7. CountInv'
  <2>1. \A j \in Inodes : Cardinality(Reclaimable(tree'[j])) = Cardinality(Reclaimable(tree[j]))
    BY <1>3, <1>5, Zenon
  <2> QED BY <1>2, <2>1, Zenon DEF IInv, CountInv, Reclaimable
<1>8. LockInv'
  BY <1>2, <1>5, UnlockedStep, Zenon DEF IInv, LockInv
<1> QED BY <1>2, <1>6, <1>7, <1>8, Zenon DEF IInv, PlaceInv

LEMMA FindAction ==
  ASSUME IInv, NEW i \in Inodes, NEW lo, NEW hi,
         ext4_es_find_delayed_extent_range(i, lo, hi)
  PROVE  IInv'
<1>1. /\ holder[i] = Nobody
      /\ \E e \in tree[i] : cache' = [cache EXCEPT ![i] = e.lblk]
      /\ UNCHANGED <<tree, shrinkAt, shk, list, alive, holder, proc, err>>
  BY Zenon DEF ext4_es_find_delayed_extent_range, es_tree_search
<1>2. PICK e \in tree[i] : cache' = [cache EXCEPT ![i] = e.lblk]
  BY <1>1, Zenon
<1>3. e.lblk \in 0 .. None
  <2>1. e \in ExtentRec /\ e.lblk + e.len <= NBlocks
    BY Zenon DEF IInv, TreeInv, TreeOK, Fits
  <2> QED BY <2>1, FileAssumption DEF ExtentRec, None
<1>4. PlaceInv'
  BY <1>1, <1>2, <1>3, Zenon DEF IInv, PlaceInv
<1>5. TreeInv' /\ CountInv'
  BY <1>1, Zenon DEF IInv, TreeInv, CountInv
<1>6. LockInv'
  BY <1>1, Zenon DEF IInv, LockInv, Own
<1> QED BY <1>4, <1>5, <1>6, Zenon DEF IInv

\* An inode on the list of the shrinker exists.
LEMMA ListedAlive ==
  ASSUME IInv, NEW i \in Inodes, Contains(list, i)
  PROVE  i \in alive
<1> SUFFICES ASSUME i \notin alive PROVE FALSE
  OBVIOUS
<1>1. tree[i] = {}
  BY Zenon DEF IInv, LockInv
<1>2. shk[i] = 0
  <2>1. Reclaimable(tree[i]) = {}
    BY <1>1, Zenon DEF Reclaimable
  <2> QED BY <2>1, FS_EmptySet, Zenon DEF IInv, CountInv
<1> QED BY <1>2 DEF IInv, CountInv

LEMMA ClearAction ==
  ASSUME IInv, NEW i \in Inodes, ext4_clear_inode(i)
  PROVE  IInv'
<1>1. /\ i \in alive /\ holder[i] = Nobody /\ Update(i, {}, {}, None)
      /\ alive' = alive \ {i}
      /\ UNCHANGED <<shrinkAt, holder, proc, err>>
  BY Zenon DEF ext4_clear_inode, evict_lock
<1>2. TreeOK({}) /\ None \in 0 .. None
  BY FS_EmptySet, FileAssumption DEF TreeOK, None
<1>3. /\ TreeInv' /\ CountInv' /\ cache' \in [Inodes -> 0 .. None] /\ tree'[i] = {}
      /\ \A j \in Inodes : j # i => tree'[j] = tree[j]
  BY <1>1, <1>2, UpdateInv, Zenon
<1>4. alive' \in SUBSET Inodes
  BY <1>1, Zenon DEF IInv, LockInv
<1>5. LockInv'
  BY <1>1, <1>3, <1>4, UnlockedStep, Zenon
<1> QED BY <1>1, <1>3, <1>5, Zenon DEF IInv, PlaceInv

LEMMA InitTreeAction ==
  ASSUME IInv, NEW i \in Inodes, ext4_es_init_tree(i)
  PROVE  IInv'
<1>1. /\ i \notin alive /\ alive' = alive \cup {i}
      /\ tree' = [tree EXCEPT ![i] = {}]
      /\ cache' = [cache EXCEPT ![i] = None]
      /\ shrinkAt' = [shrinkAt EXCEPT ![i] = 0]
      /\ UNCHANGED <<shk, list, holder, proc, err>>
  BY Zenon DEF ext4_es_init_tree
<1>2. tree' = tree
  <2>1. tree[i] = {} /\ tree \in [Inodes -> SUBSET ExtentRec]
    BY <1>1, Zenon DEF IInv, LockInv, TreeInv
  <2> QED BY <1>1, <2>1, Zenon
<1>3. TreeInv' /\ CountInv'
  BY <1>1, <1>2, Zenon DEF IInv, TreeInv, CountInv
<1>4. PlaceInv'
  <2>1. None \in 0 .. None /\ 0 \in Block
    BY FileAssumption DEF None, Block
  <2> QED BY <1>1, <2>1, Zenon DEF IInv, PlaceInv
<1>5. LockInv'
  <2>1. /\ alive \in SUBSET Inodes /\ alive' \in SUBSET Inodes
        /\ holder \in [Inodes -> Threads \cup {Nobody}]
        /\ proc \in [Threads -> ProcRecs] /\ err \in [Threads -> BOOLEAN]
        /\ \A j \in Inodes \ alive : tree[j] = {}
    BY <1>1, Zenon DEF IInv, LockInv
  <2>2. \A q \in Threads : Own(q)'
    BY <1>1, <1>2, KeepOwn, Zenon
  <2> QED BY <1>1, <1>2, <2>1, <2>2, Zenon DEF LockInv
<1> QED BY <1>3, <1>4, <1>5, Zenon DEF IInv

\* A step that changes proc[p] only.
LEMMA ProcStep ==
  ASSUME IInv, NEW p \in Threads, NEW r \in ProcRecs, proc' = [proc EXCEPT ![p] = r],
         UNCHANGED <<tree, cache, shrinkAt, shk, list, alive, holder, err>>, Own(p)'
  PROVE  IInv'
<1>1. /\ holder \in [Inodes -> Threads \cup {Nobody}]
      /\ \A j \in Inodes \ alive : tree[j] = {}
  BY Zenon DEF IInv, LockInv
<1>2. LockInv'
  BY <1>1, StepLocks, Zenon
<1>3. TreeInv' /\ CountInv' /\ PlaceInv'
  BY Zenon DEF IInv, TreeInv, CountInv, PlaceInv
<1> QED BY <1>2, <1>3, Zenon DEF IInv

LEMMA ScanAction ==
  ASSUME IInv, NEW p \in Kswapds, NEW n \in 1 .. ScanMax, ext4_es_scan(p, n)
  PROVE  IInv'
<1> DEFINE r == [Idle EXCEPT !.pc = "walk", !.walk = Len(list), !.scan = n]
<1>1. p \in Threads /\ proc \in [Threads -> ProcRecs] /\ list \in Seq(Inodes)
  BY Zenon DEF Threads, IInv, LockInv, CountInv
<1>2. r \in ProcRecs /\ r.pc = "walk" /\ r.call = NoCall /\ r.back = "idle"
  <2>1. Len(list) \in Nat /\ n \in 0 .. ScanMax
    BY <1>1, ConstantsAssumption
  <2> QED BY <2>1, Zenon DEF Idle, ProcRecs, Pcs
<1>3. /\ proc' = [proc EXCEPT ![p] = r]
      /\ UNCHANGED <<tree, cache, shrinkAt, shk, list, alive, holder, err>>
  BY Zenon DEF ext4_es_scan
<1> HIDE DEF r
<1>4. Own(p)'
  BY <1>1, <1>2, <1>3, Zenon DEF Own
<1> QED BY <1>1, <1>2, <1>3, <1>4, ProcStep, Zenon

LEMMA RoundAction ==
  ASSUME IInv, NEW p \in Threads, shrink_round(p)
  PROVE  IInv'
<1> DEFINE r == proc[p]
           again == [r EXCEPT !.retried = TRUE, !.walk = Len(list)]
           own == [r EXCEPT !.pc = "reclaim", !.target = r.call.ino]
           done == [r EXCEPT !.pc = "shrunk"]
<1>1. /\ r \in ProcRecs /\ Own(p) /\ Len(list) \in Nat /\ alive \in SUBSET Inodes
      /\ proc \in [Threads -> ProcRecs]
  BY DEF IInv, LockInv, CountInv
<1>2. /\ r.pc = "walk"
      /\ UNCHANGED <<tree, cache, shrinkAt, shk, list, alive, holder, err>>
      /\ \/ proc' = [proc EXCEPT ![p] = again]
         \/ r.call # NoCall /\ proc' = [proc EXCEPT ![p] = own]
         \/ proc' = [proc EXCEPT ![p] = done]
  BY Zenon DEF shrink_round
<1>3. CASE proc' = [proc EXCEPT ![p] = again]
  <2>1. /\ again \in ProcRecs /\ again.pc = "walk"
        /\ again.call = r.call /\ again.back = r.back
    BY <1>1, <1>2, Zenon DEF ProcRecs
  <2>2. proc'[p] = again
    BY <1>1, <1>3, Zenon
  <2> HIDE DEF again
  <2>3. Own(p)'
    BY <1>1, <1>2, <2>1, <2>2, Zenon DEF Own
  <2> QED BY <1>2, <1>3, <2>1, <2>3, ProcStep, Zenon
<1>4. CASE r.call # NoCall /\ proc' = [proc EXCEPT ![p] = own]
  <2>1. r.call.ino \in alive /\ holder[r.call.ino] = p
    BY <1>1, <1>4, Zenon DEF Own
  <2>2. /\ own \in ProcRecs /\ own.pc = "reclaim" /\ own.target = r.call.ino
        /\ own.call = r.call /\ own.back = r.back
    BY <1>1, <2>1, Zenon DEF ProcRecs, Pcs
  <2>3. proc'[p] = own
    BY <1>1, <1>4
  <2> HIDE DEF own
  <2>4. Own(p)'
    BY <1>1, <1>2, <2>1, <2>2, <2>3, Zenon DEF Own
  <2> QED BY <1>2, <1>4, <2>2, <2>4, ProcStep, Zenon
<1>5. CASE proc' = [proc EXCEPT ![p] = done]
  <2>1. /\ done \in ProcRecs /\ done.pc = "shrunk"
        /\ done.call = r.call /\ done.back = r.back
    BY <1>1, Zenon DEF ProcRecs, Pcs
  <2>2. proc'[p] = done
    BY <1>1, <1>5, Zenon
  <2> HIDE DEF done
  <2>3. Own(p)'
    BY <1>1, <1>2, <2>1, <2>2, Zenon DEF Own
  <2> QED BY <1>2, <1>5, <2>1, <2>3, ProcStep, Zenon
<1> QED BY <1>2, <1>3, <1>4, <1>5, Zenon

\* The walk takes the first inode of the list: it exists, and when nobody has
\* locked it the shrinker does.
LEMMA WalkAction ==
  ASSUME IInv, NEW p \in Threads, shrink_walk(p)
  PROVE  IInv'
<1> DEFINE r == proc[p]
           j == Head(list)
           done == [r EXCEPT !.pc = "shrunk"]
           next == [r EXCEPT !.walk = @ - 1, !.skipped = TRUE]
           take == [r EXCEPT !.walk = @ - 1, !.target = j, !.pc = "reclaim"]
<1>1. /\ r \in ProcRecs /\ Own(p) /\ alive \in SUBSET Inodes
      /\ proc \in [Threads -> ProcRecs]
      /\ list \in Seq(Inodes) /\ NoDup(list)
      /\ holder \in [Inodes -> Threads \cup {Nobody}]
      /\ \A k \in Inodes \ alive : tree[k] = {}
  BY Zenon DEF IInv, LockInv, CountInv
<1>2. /\ r.pc = "walk" /\ r.walk > 0 /\ r.walk - 1 \in Nat
      /\ UNCHANGED <<tree, cache, shrinkAt, shk, alive, err>>
  BY <1>1 DEF shrink_walk, ProcRecs
<1>3. CASE list = <<>>
  <2>1. proc' = [proc EXCEPT ![p] = done] /\ UNCHANGED <<list, holder>>
    BY <1>1, <1>3, Zenon DEF shrink_walk
  <2>2. /\ done \in ProcRecs /\ done.pc = "shrunk"
        /\ done.call = r.call /\ done.back = r.back
    BY <1>1, Zenon DEF ProcRecs, Pcs
  <2>3. proc'[p] = done
    BY <1>1, <2>1, Zenon
  <2> HIDE DEF done
  <2>4. Own(p)'
    BY <1>1, <1>2, <2>1, <2>2, <2>3, Zenon DEF Own
  <2> QED BY <1>2, <2>1, <2>2, <2>4, ProcStep, Zenon
<1>4. CASE list # <<>>
  <2>1. /\ list' = Append(Tail(list), j) /\ j \in Inodes /\ Contains(list, j)
        /\ \/ proc' = [proc EXCEPT ![p] = next] /\ UNCHANGED holder
           \/ /\ ~skip(p, j) /\ proc' = [proc EXCEPT ![p] = take]
              /\ holder' = [holder EXCEPT ![j] = p]
    <3>1. j \in Inodes /\ Contains(list, j)
      BY <1>1, <1>4 DEF Contains
    <3>2. /\ list' = Append(Tail(list), j)
          /\ IF skip(p, j)
               THEN /\ proc' = [proc EXCEPT ![p].walk = @ - 1, ![p].skipped = TRUE]
                    /\ UNCHANGED holder
               ELSE /\ proc' = [proc EXCEPT ![p].walk = @ - 1, ![p].target = j,
                                            ![p].pc = "reclaim"]
                    /\ holder' = [holder EXCEPT ![j] = p]
      BY <1>4, Zenon DEF shrink_walk
    <3> HIDE DEF j
    <3>3. /\ [proc EXCEPT ![p].walk = @ - 1, ![p].skipped = TRUE] = [proc EXCEPT ![p] = next]
          /\ [proc EXCEPT ![p].walk = @ - 1, ![p].target = j, ![p].pc = "reclaim"]
             = [proc EXCEPT ![p] = take]
      BY <1>1, Zenon
    <3> QED BY <3>1, <3>2, <3>3, Zenon
  <2>2. /\ list' \in Seq(Inodes) /\ NoDup(list')
        /\ \A x : Contains(list', x) <=> Contains(list, x)
    BY <1>1, <1>4, <2>1, RotateMembers, Zenon
  <2>3. CountInv'
    BY <1>2, <2>2, Zenon DEF IInv, CountInv
  <2>4. j \in alive
    BY <2>1, ListedAlive, Zenon
  <2> HIDE DEF j
  <2>5. CASE proc' = [proc EXCEPT ![p] = next] /\ UNCHANGED holder
    <3>1. /\ next \in ProcRecs /\ next.pc = "walk"
          /\ next.call = r.call /\ next.back = r.back
      BY <1>1, <1>2, Zenon DEF ProcRecs
    <3>2. proc'[p] = next
      BY <1>1, <2>5, Zenon
    <3> HIDE DEF next
    <3>3. Own(p)'
      BY <1>1, <1>2, <2>5, <3>1, <3>2, Zenon DEF Own
    <3>4. LockInv'
      BY <1>1, <1>2, <2>5, <3>1, <3>3, StepLocks, Zenon
    <3> QED BY <1>2, <2>3, <3>4, Zenon DEF IInv, TreeInv, PlaceInv
  <2>6. CASE /\ ~skip(p, j) /\ proc' = [proc EXCEPT ![p] = take]
             /\ holder' = [holder EXCEPT ![j] = p]
    <3>1. /\ take \in ProcRecs /\ take.pc = "reclaim" /\ take.target = j
          /\ take.call = r.call /\ take.back = r.back
      BY <1>1, <1>2, <2>1, Zenon DEF ProcRecs, Pcs
    <3>2. proc'[p] = take
      BY <1>1, <2>6, Zenon
    <3> HIDE DEF take
    <3>3. holder[j] = Nobody /\ j # r.call.ino
      BY <2>6, Zenon DEF skip
    <3>4. /\ holder' \in [Inodes -> Threads \cup {Nobody}] /\ holder'[j] = p
          /\ \A k \in Inodes : k # j => holder'[k] = holder[k]
      BY <1>1, <2>1, <2>6, Zenon
    <3>5. Own(p)'
      <4>1. r.call # NoCall => r.call.ino \in alive' /\ holder'[r.call.ino] = p
        BY <1>1, <1>2, <3>3, <3>4, Zenon DEF Own
      <4>2. take.target \in alive' /\ holder'[take.target] = p
        BY <1>2, <2>4, <3>1, <3>4, Zenon
      <4>3. r.call # NoCall /\ r.back = "insert" =>
              r.call.new \in Extents /\ \A e \in tree'[r.call.ino] : Apart(e, r.call.new)
        BY <1>1, <1>2, Zenon DEF Own
      <4> QED BY <3>1, <3>2, <4>1, <4>2, <4>3, Zenon DEF Own
    <3>6. \A q \in Threads, k \in Inodes :
            q # p /\ holder[k] = q => holder'[k] = q /\ tree'[k] = tree[k]
      BY <1>2, <3>3, <3>4, ConstantsAssumption, Zenon DEF Nobody, Threads
    <3>7. LockInv'
      BY <1>1, <1>2, <2>6, <3>1, <3>4, <3>5, <3>6, StepLocks, Zenon
    <3> QED BY <1>2, <2>3, <3>7 DEF IInv, TreeInv, PlaceInv
  <2> QED BY <2>1, <2>5, <2>6, Zenon
<1> QED BY <1>3, <1>4, Zenon

LEMMA UnlockAction ==
  ASSUME IInv, NEW p \in Threads, shrink_unlock(p)
  PROVE  IInv'
<1> DEFINE r == proc[p]
           s == [r EXCEPT !.target = "none", !.pc = IF r.scan = 0 THEN "shrunk" ELSE "walk"]
<1>1. /\ r \in ProcRecs /\ Own(p) /\ alive \in SUBSET Inodes
      /\ proc \in [Threads -> ProcRecs]
      /\ holder \in [Inodes -> Threads \cup {Nobody}]
      /\ \A k \in Inodes \ alive : tree[k] = {}
  BY DEF IInv, LockInv
<1>2. /\ r.pc = "unlock" /\ holder' = [holder EXCEPT ![r.target] = Nobody]
      /\ UNCHANGED <<tree, cache, shrinkAt, shk, list, alive, err>>
  BY DEF shrink_unlock
<1>3. proc' = [proc EXCEPT ![p] = s]
  BY <1>1, Zenon DEF shrink_unlock
<1>4. /\ r.target \in alive /\ holder[r.target] = p /\ r.target # r.call.ino
      /\ r.target \in Inodes
  BY <1>1, <1>2 DEF Own
<1>5. /\ s \in ProcRecs /\ s.pc \in {"walk", "shrunk"}
      /\ s.call = r.call /\ s.back = r.back
  BY <1>1, Zenon DEF ProcRecs, Pcs
<1>6. proc'[p] = s
  BY <1>1, <1>3
<1> HIDE DEF s
<1>7. /\ holder' \in [Inodes -> Threads \cup {Nobody}]
      /\ \A k \in Inodes : k # r.target => holder'[k] = holder[k]
  BY <1>1, <1>2, <1>4
<1>8. Own(p)'
  BY <1>1, <1>2, <1>4, <1>5, <1>6, <1>7 DEF Own
<1>9. \A q \in Threads, k \in Inodes :
        q # p /\ holder[k] = q => holder'[k] = q /\ tree'[k] = tree[k]
  BY <1>2, <1>4, <1>7
<1>10. LockInv'
  BY <1>1, <1>2, <1>3, <1>5, <1>7, <1>8, <1>9, StepLocks, Zenon
<1>11. TreeInv' /\ CountInv' /\ PlaceInv'
  BY <1>2 DEF IInv, TreeInv, CountInv, PlaceInv
<1> QED BY <1>10, <1>11, Zenon DEF IInv

LEMMA ReturnAction ==
  ASSUME IInv, NEW p \in Threads, shrink_return(p)
  PROVE  IInv'
<1> DEFINE r == proc[p]
           s == [Idle EXCEPT !.pc = r.back, !.call = r.call]
<1>1. /\ r \in ProcRecs /\ Own(p) /\ proc \in [Threads -> ProcRecs]
      /\ alive \in SUBSET Inodes
  BY DEF IInv, LockInv
<1>2. /\ UNCHANGED <<tree, cache, shrinkAt, shk, list, alive>>
      /\ \/ proc' = [proc EXCEPT ![p] = Idle] /\ UNCHANGED <<holder, err>>
         \/ r.call # NoCall /\ proc' = [proc EXCEPT ![p] = s] /\ UNCHANGED <<holder, err>>
         \/ /\ r.call # NoCall
            /\ Return(p, r.call.ino, r.back = "remove" \/ Delayed(r.call.new))
  BY DEF shrink_return
<1>3. CASE proc' = [proc EXCEPT ![p] = Idle] /\ UNCHANGED <<holder, err>>
  <2>1. Idle \in ProcRecs
    BY ConstantsAssumption DEF Idle, ProcRecs, Pcs
  <2>2. proc'[p] = Idle
    BY <1>1, <1>3
  <2> QED BY <1>2, <1>3, <2>1, <2>2, IdleOwn, ProcStep, Zenon
<1>4. CASE r.call # NoCall /\ proc' = [proc EXCEPT ![p] = s] /\ UNCHANGED <<holder, err>>
  <2>1. /\ s \in ProcRecs /\ s.pc = r.back /\ s.call = r.call /\ s.back = "idle"
    <3>1. r.back \in Pcs /\ r.call \in Calls \cup {NoCall}
      BY <1>1 DEF ProcRecs, Pcs
    <3>2. 0 \in 0 .. ScanMax
      BY ConstantsAssumption
    <3> QED BY <3>1, <3>2, Zenon DEF Idle, ProcRecs
  <2>2. proc'[p] = s
    BY <1>1, <1>4
  <2>3. r.back \in {"idle", "remove", "insert"}
    BY <1>1 DEF ProcRecs
  <2> HIDE DEF s
  <2>4. Own(p)'
    BY <1>1, <1>2, <1>4, <2>1, <2>2, <2>3, Zenon DEF Own
  <2> QED BY <1>2, <1>4, <2>1, <2>4, ProcStep, Zenon
<1>5. CASE /\ r.call # NoCall
           /\ Return(p, r.call.ino, r.back = "remove" \/ Delayed(r.call.new))
  <2>1. r.call.ino \in alive /\ holder[r.call.ino] = p
    BY <1>1, <1>5, Zenon DEF Own
  <2>2. (r.back = "remove" \/ Delayed(r.call.new)) \in BOOLEAN
    BY DEF Delayed
  <2>3. LockInv'
    BY <1>2, <1>5, <2>1, <2>2, ReturnLocks, Zenon
  <2>4. TreeInv' /\ CountInv' /\ PlaceInv'
    BY <1>2 DEF IInv, TreeInv, CountInv, PlaceInv
  <2> QED BY <2>3, <2>4 DEF IInv
<1> QED BY <1>2, <1>3, <1>4, <1>5

\* es_reclaim_extents() leaves a good tree and places within the file.
LEMMA ReclaimResult ==
  ASSUME IInv, NEW i \in Inodes, NEW n \in 0 .. ScanMax
  PROVE  LET r == es_reclaim_extents(i, n)
         IN  /\ TreeOK(r.tree) /\ r.at \in Block /\ r.n \in 0 .. ScanMax
             /\ r.cache \in 0 .. None
             /\ \A x : (\A f \in tree[i] : Apart(f, x)) => \A f \in r.tree : Apart(f, x)
<1> DEFINE s1 == Scan(tree[i], shrinkAt[i], None, n)
           T1 == reclaim(tree[i], s1.seen)
           s2 == Scan(T1, s1.at, shrinkAt[i] - 1, s1.n)
           T2 == reclaim(T1, s2.seen)
           both == ~s1.more /\ shrinkAt[i] # 0
           r == es_reclaim_extents(i, n)
<1>1. /\ TreeOK(tree[i]) /\ shrinkAt[i] \in Block /\ cache[i] \in 0 .. None
      /\ n \in Nat /\ None = NBlocks /\ None \in 0 .. None
  BY ConstantsAssumption, FileAssumption DEF IInv, TreeInv, PlaceInv, None
<1>2. s1.n \in 0 .. n /\ s1.at \in Block
  BY <1>1, ScanBounds
<1>3. TreeOK(T1) /\ \A x : (\A f \in tree[i] : Apart(f, x)) => \A f \in T1 : Apart(f, x)
  BY <1>1, ReclaimTree
<1>4. s2.n \in 0 .. s1.n /\ s2.at \in Block
  <2>1. s1.n \in Nat /\ (shrinkAt[i] - 1) + 1 \in Block
    BY <1>1, <1>2 DEF Block
  <2> HIDE DEF s1, T1
  <2> QED BY <1>3, <2>1, ScanBounds
<1>5. TreeOK(T2) /\ \A x : (\A f \in T1 : Apart(f, x)) => \A f \in T2 : Apart(f, x)
  <2> HIDE DEF T1, s2
  <2> QED BY <1>3, ReclaimTree
<1>6. CASE shk[i] = 0
  <2>1. r = [tree |-> tree[i], at |-> shrinkAt[i], n |-> n, cache |-> cache[i]]
    BY <1>6, Zenon DEF es_reclaim_extents
  <2> QED BY <1>1, <2>1
<1>7. CASE shk[i] # 0
  <2>1. r = [tree |-> IF both THEN T2 ELSE T1,
             at |-> IF both THEN s2.at ELSE s1.at,
             n |-> IF both THEN s2.n ELSE s1.n,
             cache |-> None]
    BY <1>7, Zenon DEF es_reclaim_extents
  <2> HIDE DEF s1, s2, T1, T2, both, r
  <2>2. /\ r.tree = (IF both THEN T2 ELSE T1) /\ r.at = (IF both THEN s2.at ELSE s1.at)
        /\ r.n = (IF both THEN s2.n ELSE s1.n) /\ r.cache = None
    BY <2>1
  <2>3. r.n \in 0 .. ScanMax
    BY <1>2, <1>4, <2>2, ConstantsAssumption
  <2>4. \A x : (\A f \in tree[i] : Apart(f, x)) => \A f \in r.tree : Apart(f, x)
    BY <1>3, <1>5, <2>2
  <2> QED BY <1>1, <1>2, <1>3, <1>4, <1>5, <2>2, <2>3, <2>4, Zenon DEF r
<1> QED BY <1>6, <1>7

LEMMA ReclaimAction ==
  ASSUME IInv, NEW p \in Threads, shrink_reclaim(p)
  PROVE  IInv'
<1> DEFINE r == proc[p]
           i == r.target
           x == es_reclaim_extents(i, r.scan)
           sh == r.shrunk \/ Cardinality(x.tree) < Cardinality(tree[i])
           nx == IF i = r.call.ino THEN "shrunk" ELSE "unlock"
           s == [r EXCEPT !.scan = x.n, !.shrunk = sh, !.pc = nx]
<1>1. /\ r \in ProcRecs /\ Own(p) /\ alive \in SUBSET Inodes
      /\ proc \in [Threads -> ProcRecs]
      /\ holder \in [Inodes -> Threads \cup {Nobody}]
      /\ \A k \in Inodes \ alive : tree[k] = {}
  BY DEF IInv, LockInv
<1>2. /\ r.pc = "reclaim" /\ Update(i, x.tree, x.tree, x.cache)
      /\ shrinkAt' = [shrinkAt EXCEPT ![i] = x.at]
      /\ UNCHANGED <<alive, holder, err>>
  BY DEF shrink_reclaim
<1>3. proc' = [proc EXCEPT ![p] = s]
  <2>1. proc' = [proc EXCEPT ![p].scan = x.n, ![p].shrunk = @ \/ Cardinality(x.tree) < Cardinality(tree[i]),
                             ![p].pc = nx]
    BY DEF shrink_reclaim
  <2> HIDE DEF x, nx
  <2> QED BY <1>1, <2>1, Zenon
<1>4. i \in alive /\ i \in Inodes /\ holder[i] = p /\ r.scan \in 0 .. ScanMax
  BY <1>1, <1>2, Zenon DEF Own, ProcRecs
<1>5. /\ TreeOK(x.tree) /\ x.at \in Block /\ x.n \in 0 .. ScanMax
      /\ x.cache \in 0 .. None
      /\ \A y : (\A f \in tree[i] : Apart(f, y)) => \A f \in x.tree : Apart(f, y)
  <2> HIDE DEF i
  <2> QED BY <1>4, ReclaimResult, Zenon
<1> HIDE DEF x
<1>6. sh \in BOOLEAN /\ nx \in {"shrunk", "unlock"} /\ (nx = "unlock" => i # r.call.ino)
  BY <1>1 DEF ProcRecs
<1> HIDE DEF sh, nx
<1>7. /\ s \in ProcRecs /\ s.pc = nx /\ s.target = i
      /\ s.call = r.call /\ s.back = r.back
  BY <1>1, <1>5, <1>6, Zenon DEF ProcRecs, Pcs
<1>8. proc'[p] = s
  BY <1>1, <1>3
<1> HIDE DEF s
<1>9. /\ TreeInv' /\ CountInv' /\ cache' \in [Inodes -> 0 .. None]
      /\ tree'[i] = x.tree
      /\ \A j \in Inodes : j # i => tree'[j] = tree[j]
  <2> HIDE DEF i
  <2> QED BY <1>2, <1>4, <1>5, UpdateInv
<1>10. PlaceInv'
  BY <1>2, <1>4, <1>5, <1>9, Zenon DEF IInv, PlaceInv
<1>11. ASSUME r.call # NoCall, s.back = "insert"
       PROVE  /\ r.call.new \in Extents
              /\ \A e \in tree'[r.call.ino] : Apart(e, r.call.new)
  <2>1. /\ r.call.new \in Extents /\ \A e \in tree[r.call.ino] : Apart(e, r.call.new)
        /\ r.call.ino \in Inodes
    BY <1>1, <1>7, <1>11, Zenon DEF Own
  <2> QED BY <1>5, <1>9, <2>1
<1>12. Own(p)'
  BY <1>1, <1>2, <1>4, <1>6, <1>7, <1>8, <1>11, Zenon DEF Own
<1>13. \A q \in Threads, k \in Inodes :
         q # p /\ holder[k] = q => holder'[k] = q /\ tree'[k] = tree[k]
  BY <1>2, <1>4, <1>9, Zenon
<1>14. \A k \in Inodes \ alive : tree'[k] = {}
  BY <1>1, <1>4, <1>9, Zenon
<1>15. LockInv'
  BY <1>1, <1>2, <1>3, <1>7, <1>12, <1>13, <1>14, StepLocks, Zenon
<1> QED BY <1>9, <1>10, <1>15 DEF IInv

-----------------------------------------------------------------------------

LEMMA InitInv == Init => IInv
<1> SUFFICES ASSUME Init PROVE IInv
  OBVIOUS
<1>1. TreeOK({}) /\ Reclaimable({}) = {} /\ Cardinality({}) = 0
  BY FS_EmptySet DEF TreeOK, Reclaimable
<1>2. TreeInv
  BY <1>1 DEF Init, TreeInv
<1>3. CountInv
  <2>1. <<>> \in Seq(Inodes) /\ NoDup(<<>>) /\ \A x : ~Contains(<<>>, x)
    BY DEF NoDup, Contains
  <2>2. 0 \in 0 .. NBlocks
    BY FileAssumption
  <2>3. /\ shk \in [Inodes -> 0 .. NBlocks] /\ list = <<>>
        /\ \A i \in Inodes : shk[i] = 0 /\ tree[i] = {}
    BY <2>2 DEF Init
  <2>4. ASSUME NEW i \in Inodes
        PROVE  /\ shk[i] = Cardinality(Reclaimable(tree[i]))
               /\ Contains(list, i) <=> shk[i] > 0
    <3>1. shk[i] = 0 /\ Reclaimable(tree[i]) = {} /\ ~Contains(list, i)
      BY <1>1, <2>1, <2>3, Zenon
    <3> QED BY <1>1, <3>1
  <2> QED BY <2>1, <2>3, <2>4 DEF CountInv
<1>4. PlaceInv
  BY FileAssumption DEF Init, PlaceInv, Block, None
<1>5. Idle \in ProcRecs
  BY ConstantsAssumption DEF Idle, ProcRecs, Pcs
<1>6. \A p \in Threads : Own(p)
  BY DEF Init, Own, Idle
<1>7. LockInv
  BY <1>5, <1>6 DEF Init, LockInv
<1> QED BY <1>2, <1>3, <1>4, <1>7 DEF IInv

LEMMA NextInv == IInv /\ [Next]_vars => IInv'
<1> SUFFICES ASSUME IInv, [Next]_vars PROVE IInv'
  OBVIOUS
<1>1. CASE UNCHANGED vars
  BY <1>1, Zenon DEF vars, IInv, TreeInv, CountInv, PlaceInv, LockInv, Own
<1>2. ASSUME NEW p \in Procs, NEW c \in Calls,
             ext4_es_insert_extent(p, c) \/ ext4_es_remove_extent(p, c)
      PROVE  IInv'
  BY <1>2, CallActions
<1>3. ASSUME NEW p \in Threads, Step(p)
      PROVE  IInv'
  BY <1>3, RetryActions, WalkAction, RoundAction, ReclaimAction, UnlockAction,
     ReturnAction DEF Step
<1>4. ASSUME NEW i \in Inodes, NEW e \in Extents, ext4_es_cache_extent(i, e)
      PROVE  IInv'
  BY <1>4, CacheAction
<1>5. ASSUME NEW i \in Inodes, NEW b \in Block, ext4_es_lookup_extent(i, b)
      PROVE  IInv'
  BY <1>5, LookupAction
<1>6. ASSUME NEW i \in Inodes, NEW e \in Ranges,
             ext4_es_find_delayed_extent_range(i, e.lblk, ext4_es_end(e))
      PROVE  IInv'
  BY <1>6, FindAction
<1>7. ASSUME NEW i \in Inodes, ext4_clear_inode(i) \/ ext4_es_init_tree(i)
      PROVE  IInv'
  BY <1>7, ClearAction, InitTreeAction
<1>8. ASSUME NEW p \in Kswapds, NEW n \in 1 .. ScanMax, ext4_es_scan(p, n)
      PROVE  IInv'
  BY <1>8, ScanAction
<1> QED BY <1>1, <1>2, <1>3, <1>4, <1>5, <1>6, <1>7, <1>8 DEF Next

LEMMA InvAlways == Spec => []IInv
BY InitInv, NextInv, PTL DEF Spec

\* The variables stay within their types: extents within the file, a counter of
\* at most one extent per block, cache_es and i_es_shrink_lblk within the file.
THEOREM TypeCorrect == Spec => []TypeOK
<1>1. IInv => TypeOK
  <2> SUFFICES ASSUME IInv PROVE TypeOK
    OBVIOUS
  <2>1. ASSUME NEW i \in Inodes, NEW e \in tree[i]
        PROVE  e.type \in Types /\ e.lblk \in Block /\ e.len > 0 /\ e.lblk + e.len <= NBlocks
    <3>1. e \in ExtentRec /\ e.lblk + e.len <= NBlocks
      BY DEF IInv, TreeInv, TreeOK, Fits
    <3> QED BY <3>1, FileAssumption DEF ExtentRec, Block
  <2>2. ASSUME NEW p \in Threads
        PROVE  /\ proc[p].pc \in Pcs
               /\ proc[p].call = NoCall \/ proc[p].call \in Calls
               /\ proc[p].scan \in 0 .. ScanMax
    <3>1. proc[p] \in ProcRecs
      BY DEF IInv, LockInv
    <3> QED BY <3>1 DEF ProcRecs
  <2> QED BY <2>1, <2>2 DEF IInv, CountInv, PlaceInv, LockInv, TypeOK
<1> QED BY <1>1, InvAlways, PTL

\* i_es_shk_nr is the number of extents that can be reclaimed and s_es_list holds
\* exactly the inodes that have some, once each, whoever inserts, removes and
\* shrinks at the same time.
THEOREM CountersCorrect == Spec => []CountersAgree
<1>1. IInv => CountersAgree
  <2> SUFFICES ASSUME IInv PROVE CountersAgree
    OBVIOUS
  <2>1. alive \in SUBSET Inodes
    BY DEF IInv, LockInv
  <2> QED BY <2>1 DEF IInv, CountInv, CountersAgree, NoDup
<1> QED BY <1>1, InvAlways, PTL

\* The shrinker works on inodes that exist.
THEOREM ShrinkerSafe == Spec => []ShrinkerOnLiveInodes
<1>1. IInv => ShrinkerOnLiveInodes
  <2> SUFFICES ASSUME IInv PROVE ShrinkerOnLiveInodes
    OBVIOUS
  <2>1. ASSUME NEW x \in ToSet(list) PROVE x \in alive
    <3>1. list \in Seq(Inodes)
      BY DEF IInv, CountInv
    <3>2. x \in Inodes /\ Contains(list, x)
      BY <3>1 DEF ToSet, Contains
    <3> QED BY <3>2, ListedAlive
  <2>2. \A p \in Threads : Own(p)
    BY DEF IInv, LockInv
  <2> QED BY <2>1, <2>2 DEF ShrinkerOnLiveInodes, Own
<1> QED BY <1>1, InvAlways, PTL

=============================================================================
