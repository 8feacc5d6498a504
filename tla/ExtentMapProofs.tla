-------------------------- MODULE ExtentMapProofs --------------------------
(***************************************************************************)
(* What the trees say of the blocks: no two extents of a tree could be     *)
(* one, cache_es points to an extent, and the trees, with the calls at     *)
(* work on them, implement the map of ExtentMap.                           *)
(***************************************************************************)
EXTENDS ExtentStatusProofs

\* es_reclaim_extents() on the tree of an inode.
LEMMA ReclaimedAlike ==
  ASSUME IInv, NEW i \in Inodes, NEW n
  PROVE  LET r == es_reclaim_extents(i, n)
         IN  /\ \A g \in r.tree : \E e \in tree[i] : Alike(g, e)
             /\ \A e \in tree[i] : Delayed(e) => e \in r.tree
             /\ r.cache = None \/ (r.tree = tree[i] /\ r.cache = cache[i])
<1> DEFINE s1 == Scan(tree[i], shrinkAt[i], None, n)
           T1 == reclaim(tree[i], s1.seen)
           s2 == Scan(T1, s1.at, shrinkAt[i] - 1, s1.n)
           T2 == reclaim(T1, s2.seen)
           both == ~s1.more /\ shrinkAt[i] # 0
           r == es_reclaim_extents(i, n)
<1>1. TreeOK(tree[i])
  BY Zenon DEF IInv, TreeInv
<1>2. /\ TreeOK(T1) /\ \A g \in T1 : \E e \in tree[i] : Alike(g, e)
      /\ \A e \in tree[i] : Delayed(e) => e \in T1
  BY <1>1, ReclaimTree, ReclaimAlike
<1>3. /\ \A g \in T2 : \E e \in T1 : Alike(g, e)
      /\ \A e \in T1 : Delayed(e) => e \in T2
  <2> HIDE DEF T1, s2
  <2> QED BY <1>2, ReclaimAlike, Zenon
<1>4. CASE shk[i] = 0
  <2>1. r = [tree |-> tree[i], at |-> shrinkAt[i], n |-> n, cache |-> cache[i]]
    BY <1>4, Zenon DEF es_reclaim_extents
  <2>2. r.tree = tree[i] /\ r.cache = cache[i]
    BY <2>1
  <2>3. \A e : Alike(e, e)
    BY Zenon DEF Alike
  <2> HIDE DEF r
  <2> QED BY <2>2, <2>3, Zenon DEF r
<1>5. CASE shk[i] # 0
  <2>1. r = [tree |-> IF both THEN T2 ELSE T1,
             at |-> IF both THEN s2.at ELSE s1.at,
             n |-> IF both THEN s2.n ELSE s1.n,
             cache |-> None]
    BY <1>5, Zenon DEF es_reclaim_extents
  <2> HIDE DEF s1, s2, T1, T2, both, r
  <2>2. r.tree = (IF both THEN T2 ELSE T1) /\ r.cache = None
    BY <2>1, Zenon
  <2>3. \A g \in T2 : \E e \in tree[i] : Alike(g, e)
    BY <1>2, <1>3 DEF Alike
  <2>4. \A e \in tree[i] : Delayed(e) => e \in T2
    BY <1>2, <1>3, Zenon
  <2>5. /\ \A g \in r.tree : \E e \in tree[i] : Alike(g, e)
        /\ \A e \in tree[i] : Delayed(e) => e \in r.tree
    BY <1>2, <2>2, <2>3, <2>4, Zenon
  <2> QED BY <2>2, <2>5, Zenon DEF r
<1> QED BY <1>4, <1>5, Zenon

-----------------------------------------------------------------------------
(* What a tree says of a block.                                            *)

LEMMA SameAt ==
  ASSUME NEW e \in ExtentRec, NEW f \in ExtentRec, Same(e, f), NEW b \in Nat
  PROVE  At(e, b) = At(f, b)
<1>1. Mapped(e) <=> Mapped(f)
  BY Zenon DEF Same, Mapped
<1>2. Mapped(e) => e.pblk + b - e.lblk = f.pblk + b - f.lblk
  BY DEF Same, ExtentRec
<1> QED BY <1>1, <1>2, Zenon DEF At, Same

LEMMA StatusHeld ==
  ASSUME NEW T, TreeOK(T), NEW b \in Nat, NEW e \in T, Holds(e, b)
  PROVE  StatusOf(T, b) = At(e, b)
<1> DEFINE hit == {f \in T : f.lblk <= b /\ b <= ext4_es_end(f)}
<1>1. hit = {e}
  <2>1. e \in hit
    BY Zenon DEF Holds
  <2>2. ASSUME NEW f \in hit, f # e PROVE FALSE
    <3>1. f \in ExtentRec /\ e \in ExtentRec /\ Apart(e, f)
      BY <2>2, Zenon DEF TreeOK
    <3> QED BY <3>1 DEF Apart, ExtentRec, Holds, ext4_es_end
  <2> QED BY <2>1, <2>2, Zenon
<1>2. StatusOf(T, b) = IF hit = {} THEN Unknown ELSE At(CHOOSE f \in hit : TRUE, b)
  BY Zenon DEF StatusOf
<1> HIDE DEF hit
<1> QED BY <1>1, <1>2, Zenon

LEMMA StatusNotHeld ==
  ASSUME NEW T, NEW b, \A e \in T : ~Holds(e, b)
  PROVE  StatusOf(T, b) = Unknown
<1>1. {f \in T : f.lblk <= b /\ b <= ext4_es_end(f)} = {}
  BY Zenon DEF Holds
<1> QED BY <1>1, Zenon DEF StatusOf

\* An interval, and an extent that has nothing of it.
LEMMA ApartHolds ==
  ASSUME NEW e, Interval(e), NEW r, Interval(r), NEW b \in Nat, Holds(r, b), Apart(e, r)
  PROVE  ~Holds(e, b)
BY DEF Apart, Holds, Interval, ext4_es_end

LEMMA ExtentInterval ==
  ASSUME NEW e \in ExtentRec
  PROVE  Interval(e)
BY Zenon DEF ExtentRec, Interval

\* A single block as an interval.
LEMMA OneBlock ==
  ASSUME NEW b \in Nat
  PROVE  LET r == [lblk |-> b, len |-> 1]
         IN  Interval(r) /\ \A e \in ExtentRec : Apart(e, r) <=> ~Holds(e, b)
BY DEF Interval, Apart, Holds, ExtentRec, ext4_es_end

LEMMA StatusIncluded ==
  ASSUME NEW U, TreeOK(U), NEW b \in Nat, NEW g \in ExtentRec, Holds(g, b),
         NEW e \in U, Includes(e, g)
  PROVE  StatusOf(U, b) = At(g, b)
<1>1. e \in ExtentRec
  BY Zenon DEF TreeOK
<1>2. Holds(e, b)
  BY <1>1 DEF Holds, Includes, ExtentRec, ext4_es_end
<1>3. At(e, b) = At(g, b)
  BY <1>1, SameAt, Zenon DEF Includes
<1> QED BY <1>2, <1>3, StatusHeld, Zenon

\* After __es_insert_extent() the blocks of the new extent have its status, and
\* no other block has a new one.
LEMMA StatusInsert ==
  ASSUME NEW T, TreeOK(T), NEW n \in ExtentRec, Fits(n), \A e \in T : Apart(e, n),
         NEW b \in Nat
  PROVE  StatusOf(es_insert(T, n), b) = IF Holds(n, b) THEN At(n, b) ELSE StatusOf(T, b)
<1> DEFINE U == es_insert(T, n)
<1>0. TreeOK(U) /\ T \subseteq ExtentRec
  BY InsertTree, Zenon DEF TreeOK
<1>1. ASSUME NEW g \in T \cup {n}, Holds(g, b)
      PROVE  StatusOf(U, b) = At(g, b)
  <2>1. PICK e \in U : Includes(e, g)
    BY InsertIncludes, Zenon
  <2> QED BY <1>0, <1>1, <2>1, StatusIncluded
<1>2. CASE Holds(n, b)
  BY <1>1, <1>2, Zenon
<1>3. ASSUME ~Holds(n, b), NEW g \in T, Holds(g, b)
      PROVE  StatusOf(U, b) = StatusOf(T, b)
  BY <1>1, <1>3, StatusHeld
<1>4. ASSUME ~Holds(n, b), \A g \in T : ~Holds(g, b)
      PROVE  StatusOf(U, b) = StatusOf(T, b)
  <2> DEFINE r == [lblk |-> b, len |-> 1]
  <2>1. Interval(r) /\ \A e \in ExtentRec : Apart(e, r) <=> ~Holds(e, b)
    BY OneBlock, Zenon
  <2> HIDE DEF r
  <2>2. \A e \in T \cup {n} : Apart(e, r)
    BY <1>0, <1>4, <2>1, Zenon
  <2>3. \A e \in U : Apart(e, r)
    BY <2>1, <2>2, InsertTree, Zenon
  <2>4. \A e \in U : ~Holds(e, b)
    BY <1>0, <2>1, <2>3, Zenon DEF TreeOK
  <2> HIDE DEF U
  <2> QED BY <1>4, <2>4, StatusNotHeld, Zenon
<1> QED BY <1>2, <1>3, <1>4, Zenon

\* After __es_remove_extent() nothing is known of the blocks of the interval, and
\* of the others what was.
LEMMA StatusRemove ==
  ASSUME NEW T, TreeOK(T), Canonical(T), NEW r, Interval(r), NEW b \in Nat
  PROVE  StatusOf(es_remove(T, r.lblk, ext4_es_end(r)), b) =
           IF Holds(r, b) THEN Unknown ELSE StatusOf(T, b)
<1> DEFINE U == Outside(T, r.lblk, ext4_es_end(r))
<1>0. es_remove(T, r.lblk, ext4_es_end(r)) = U
  BY RemovePieces, Zenon
<1>1. TreeOK(U) /\ \A e \in U : Apart(e, r)
  BY <1>0, RemoveTree, Zenon
<1>2. U \subseteq ExtentRec /\ T \subseteq ExtentRec
  BY <1>1, Zenon DEF TreeOK
<1>3. ASSUME NEW g \in U, Holds(g, b)
      PROVE  \E e \in T : Holds(e, b) /\ StatusOf(U, b) = StatusOf(T, b)
  <2>1. PICK e \in T : /\ Same(g, e) /\ g.lblk >= e.lblk
                       /\ g.lblk + g.len <= e.lblk + e.len
    BY OutsideParts, Zenon
  <2>2. e \in ExtentRec /\ g \in ExtentRec
    BY <1>2, Zenon
  <2>3. Holds(e, b)
    BY <1>3, <2>1, <2>2 DEF Holds, ExtentRec, ext4_es_end
  <2>4. At(g, b) = At(e, b)
    BY <2>1, <2>2, SameAt, Zenon
  <2> HIDE DEF U
  <2> QED BY <1>1, <1>3, <2>3, <2>4, StatusHeld
<1>4. CASE Holds(r, b)
  <2>1. \A e \in U : ~Holds(e, b)
    BY <1>1, <1>2, <1>4, ApartHolds, ExtentInterval, Zenon
  <2> HIDE DEF U
  <2> QED BY <1>0, <1>4, <2>1, StatusNotHeld, Zenon
<1>5. CASE ~Holds(r, b) /\ \E e \in T : Holds(e, b)
  <2>1. \E g \in U : Holds(g, b)
    BY <1>5, RemoveKeeps, Zenon
  <2> HIDE DEF U
  <2> QED BY <1>0, <1>3, <1>5, <2>1, Zenon
<1>6. CASE ~Holds(r, b) /\ \A e \in T : ~Holds(e, b)
  <2>1. \A g \in U : ~Holds(g, b)
    BY <1>3, <1>6, Zenon
  <2> HIDE DEF U
  <2> QED BY <1>0, <1>6, <2>1, StatusNotHeld, Zenon
<1> QED BY <1>4, <1>5, <1>6, Zenon

\* Where extents are dropped or marked, nothing new is said of a block, and
\* nothing is forgotten of a delayed one when the delayed extents stay.
LEMMA StatusAlike ==
  ASSUME NEW T, TreeOK(T), NEW U, TreeOK(U), NEW b \in Nat,
         \A g \in U : \E e \in T : Alike(g, e)
  PROVE  /\ StatusOf(U, b) \in {StatusOf(T, b), Unknown}
         /\ (\A e \in T : Delayed(e) => e \in U) =>
              StatusOf(U, b) = StatusOf(T, b) \/ ~Delayed(StatusOf(T, b))
         /\ (\A e \in T : \E g \in U : Alike(g, e)) => StatusOf(U, b) = StatusOf(T, b)
<1>0. T \subseteq ExtentRec /\ U \subseteq ExtentRec
  BY Zenon DEF TreeOK
<1>1. CASE \E g \in U : Holds(g, b)
  <2>1. PICK g \in U : Holds(g, b)
    BY <1>1, Zenon
  <2>2. PICK e \in T : Alike(g, e)
    OBVIOUS
  <2>3. Holds(e, b) /\ At(g, b) = At(e, b)
    BY <2>1, <2>2, Zenon DEF Holds, Alike, At, ext4_es_end, Mapped
  <2>4. StatusOf(U, b) = StatusOf(T, b)
    BY <2>1, <2>3, StatusHeld
  <2> QED BY <2>4, Zenon
<1>2. CASE \A g \in U : ~Holds(g, b)
  <2>1. StatusOf(U, b) = Unknown
    BY <1>2, StatusNotHeld, Zenon
  <2>2. CASE \A e \in T : ~Holds(e, b)
    <3>1. StatusOf(T, b) = Unknown
      BY <2>2, StatusNotHeld, Zenon
    <3> QED BY <2>1, <3>1, Zenon
  <2>3. CASE \E e \in T : Holds(e, b)
    <3>1. PICK e \in T : Holds(e, b)
      BY <2>3, Zenon
    <3>2. StatusOf(T, b) = At(e, b)
      BY <3>1, StatusHeld, Zenon
    <3>3. Delayed(At(e, b)) <=> Delayed(e)
      BY Zenon DEF At, Delayed
    <3>4. e \notin U
      BY <1>2, <3>1, Zenon
    <3>5. ~(\E g \in U : Alike(g, e))
      BY <1>2, <3>1, Zenon DEF Alike, Holds, ext4_es_end
    <3> QED BY <2>1, <3>2, <3>3, <3>4, <3>5, Zenon
  <2> QED BY <2>2, <2>3, Zenon
<1> QED BY <1>1, <1>2, Zenon

-----------------------------------------------------------------------------
(* The steps of the abstract map.                                          *)

\* The map of ExtentMap.
Map == [i \in Inodes |-> [b \in Block |-> StatusOf(tree[i], b)]]
InCall == [p \in Threads |-> proc[p].call]

\* One inode changes.
LEMMA MapChange ==
  ASSUME NEW i \in Inodes, NEW f, f = [b \in Block |-> f[b]],
         \A b \in Block : StatusOf(tree'[i], b) = f[b],
         \A j \in Inodes : j # i => tree'[j] = tree[j]
  PROVE  Map' = [Map EXCEPT ![i] = f]
<1>1. [b \in Block |-> StatusOf(tree'[i], b)] = f
  BY Zenon
<1>2. \A j \in Inodes : j # i =>
        [b \in Block |-> StatusOf(tree'[j], b)] = [b \in Block |-> StatusOf(tree[j], b)]
  BY Zenon
<1>3. Map' = [j \in Inodes |-> [b \in Block |-> StatusOf(tree'[j], b)]]
  BY Zenon DEF Map, StatusOf, Block
<1>4. \A j \in Inodes : Map[j] = [b \in Block |-> StatusOf(tree[j], b)]
  BY Zenon DEF Map
<1>5. Map = [j \in Inodes |-> Map[j]]
  BY Zenon DEF Map
<1> DEFINE h(j) == [b \in Block |-> StatusOf(tree'[j], b)]
           k(j) == [b \in Block |-> StatusOf(tree[j], b)]
<1>6. /\ Map' = [j \in Inodes |-> h(j)] /\ h(i) = f
      /\ \A j \in Inodes : j # i => h(j) = Map[j]
  BY <1>1, <1>2, <1>3, <1>4, Zenon
<1> HIDE DEF h, k, Map
<1> QED BY <1>5, <1>6, Zenon

\* Nothing changes.
LEMMA MapSame ==
  ASSUME \A i \in Inodes, b \in Block : StatusOf(tree'[i], b) = StatusOf(tree[i], b)
  PROVE  Map' = Map
<1>1. Map' = [j \in Inodes |-> [b \in Block |-> StatusOf(tree'[j], b)]]
  BY Zenon DEF Map, StatusOf, Block
<1>2. \A j \in Inodes :
        [b \in Block |-> StatusOf(tree'[j], b)] = [b \in Block |-> StatusOf(tree[j], b)]
  BY Zenon
<1> QED BY <1>1, <1>2, Zenon DEF Map

\* The blocks of inode c.ino when call c has given its blocks their status, and
\* when it has invalidated them.
Given(c) == [b \in Block |-> IF Holds(c.new, b) THEN At(c.new, b) ELSE Map[c.ino][b]]
Cleared(c) == [b \in Block |-> IF Holds(c.new, b) THEN Unknown ELSE Map[c.ino][b]]

LEMMA CoversHolds ==
  ASSUME NEW c \in Calls, NEW b
  PROVE  Abstract!Covers(c, b) <=> Holds(c.new, b)
<1>1. c.first = c.new.lblk /\ c.last = ext4_es_end(c.new)
  BY CallParts, Zenon
<1> QED BY <1>1, Zenon DEF Abstract!Covers, Holds

LEMMA MapReturn ==
  ASSUME NEW p \in Threads, NEW c \in Calls, InCall[p] \in {c, NoCall},
         InCall' = [InCall EXCEPT ![p] = NoCall], err' = [err EXCEPT ![p] = FALSE],
         Map' = [Map EXCEPT ![c.ino] = Given(c)]
  PROVE  Abstract!Next
<1>1. Given(c) = [b \in Block |-> IF Abstract!Covers(c, b) THEN At(c.new, b) ELSE Map[c.ino][b]]
  BY CoversHolds, Zenon DEF Given
<1>2. Abstract!Return(p, c)
  BY <1>1, Zenon DEF Abstract!Return, Abstract!Assign, Abstract!Block, Block, Map, InCall
<1> QED BY <1>2, Zenon DEF Abstract!Next

\* A call that gives up is a call that ends with its blocks unknown.
LEMMA MapGiveUp ==
  ASSUME NEW p \in Threads, NEW c \in Calls, InCall[p] \in {c, NoCall},
         InCall' = [InCall EXCEPT ![p] = NoCall], err' = [err EXCEPT ![p] = FALSE],
         ~Delayed(c.new), Map' = [Map EXCEPT ![c.ino] = Cleared(c)]
  PROVE  Abstract!Next
<1>1. Cleared(c) = [b \in Block |-> IF Abstract!Covers(c, b) THEN Unknown ELSE Map[c.ino][b]]
  BY CoversHolds, Zenon DEF Cleared
<1>2. \A b : ~Delayed(At(c.new, b))
  BY Zenon DEF Delayed, At
<1>3. Abstract!Return(p, c)
  BY <1>1, <1>2, Zenon DEF Abstract!Return, Abstract!Assign, Abstract!Block, Block, Map, InCall
<1> QED BY <1>3, Zenon DEF Abstract!Next

LEMMA MapStart ==
  ASSUME NEW p \in Threads, NEW c \in Calls, InCall[p] = NoCall,
         InCall' = [InCall EXCEPT ![p] = c], err' = err,
         Map' = Map \/ Map' = [Map EXCEPT ![c.ino] = Cleared(c)]
  PROVE  Abstract!Next
<1>0. InCall'[p] = c
  BY Zenon DEF InCall
<1>1. Cleared(c) = [b \in Block |-> IF Abstract!Covers(c, b) THEN Unknown ELSE Map[c.ino][b]]
  BY CoversHolds, Zenon DEF Cleared
<1>2. Map' = Map \/ Map' = [Map EXCEPT ![InCall'[p].ino] =
         [b \in Block |-> IF Abstract!Covers(InCall'[p], b) THEN Unknown ELSE Map[InCall'[p].ino][b]]]
  BY <1>0, <1>1, Zenon
<1>3. InCall'[p] \in Calls /\ InCall' = [InCall EXCEPT ![p] = InCall'[p]]
  BY <1>0, Zenon
<1>4. Abstract!Start(p)
  BY <1>2, <1>3, Zenon DEF Abstract!Start, Abstract!Assign, Abstract!Block, Block, Map, InCall
<1> QED BY <1>4, Zenon DEF Abstract!Next

LEMMA MapInvalidate ==
  ASSUME NEW p \in Threads, NEW c \in Calls, InCall[p] = c,
         InCall' = InCall, err' = err, Map' = [Map EXCEPT ![c.ino] = Cleared(c)]
  PROVE  Abstract!Next
<1>0. c # NoCall
  BY CallParts, Zenon
<1>1. Cleared(c) = [b \in Block |-> IF Abstract!Covers(c, b) THEN Unknown ELSE Map[c.ino][b]]
  BY CoversHolds, Zenon DEF Cleared
<1>2. Map' = [Map EXCEPT ![InCall[p].ino] =
         [b \in Block |-> IF Abstract!Covers(InCall[p], b) THEN Unknown ELSE Map[InCall[p].ino][b]]]
  BY <1>1, Zenon
<1>3. Abstract!Invalidate(p)
  BY <1>0, <1>2, Zenon DEF Abstract!Invalidate, Abstract!Assign, Abstract!Block, Block, Map, InCall
<1> QED BY <1>3, Zenon DEF Abstract!Next

LEMMA MapFail ==
  ASSUME NEW p \in Threads, InCall[p] # NoCall, Map' = Map,
         InCall' = [InCall EXCEPT ![p] = NoCall], err' = [err EXCEPT ![p] = TRUE]
  PROVE  Abstract!Next
<1>1. Abstract!Fail(p)
  BY Zenon DEF Abstract!Fail, Abstract!Block, Block, Map, InCall
<1> QED BY <1>1, Zenon DEF Abstract!Next

LEMMA MapCache ==
  ASSUME NEW c \in Calls, InCall' = InCall, err' = err,
         \A b \in Block : Holds(c.new, b) => Map[c.ino][b] = Unknown,
         Map' = [Map EXCEPT ![c.ino] = Given(c)]
  PROVE  Abstract!Next
<1>1. Given(c) = [b \in Block |-> IF Abstract!Covers(c, b) THEN At(c.new, b) ELSE Map[c.ino][b]]
  BY CoversHolds, Zenon DEF Given
<1>2. \A b \in Block : Abstract!Covers(c, b) => Map[c.ino][b] = Unknown
  BY CoversHolds, Zenon
<1>3. Abstract!Cache(c)
  BY <1>1, <1>2, Zenon DEF Abstract!Cache, Abstract!Assign, Abstract!Block, Block, Map, InCall
<1> QED BY <1>3, Zenon DEF Abstract!Next

LEMMA MapForget ==
  ASSUME NEW i \in Inodes, InCall' = InCall, err' = err, NEW f,
         f = [b \in Block |-> f[b]],
         \A b \in Block : f[b] \in {Map[i][b], Unknown} /\ (f[b] = Map[i][b] \/ ~Delayed(Map[i][b])),
         Map' = [Map EXCEPT ![i] = f]
  PROVE  Abstract!Next
<1> DEFINE F == {b \in Block : f[b] # Map[i][b]}
<1>1. F \in SUBSET {b \in Block : ~Delayed(Map[i][b])}
  BY Zenon
<1>2. f = [b \in Block |-> IF b \in F THEN Unknown ELSE Map[i][b]]
  <2>1. \A b \in Block : f[b] = IF b \in F THEN Unknown ELSE Map[i][b]
    BY Zenon
  <2> HIDE DEF F
  <2> QED BY <2>1, Zenon
<1> HIDE DEF F
<1>3. Abstract!Forget(i)
  BY <1>1, <1>2, Zenon DEF Abstract!Forget, Abstract!Block, Block, Map, InCall
<1> QED BY <1>3, Zenon DEF Abstract!Next

LEMMA MapEvict ==
  ASSUME NEW i \in Inodes, InCall' = InCall, err' = err,
         \A p \in Threads : InCall[p] # NoCall => InCall[p].ino # i,
         Map' = [Map EXCEPT ![i] = [b \in Block |-> Unknown]]
  PROVE  Abstract!Next
<1>1. Abstract!Evict(i)
  BY Zenon DEF Abstract!Evict, Abstract!Block, Block, Map, InCall
<1> QED BY <1>1, Zenon DEF Abstract!Next

LEMMA MapStutter ==
  ASSUME Map' = Map, InCall' = InCall, err' = err
  PROVE  UNCHANGED Abstract!vars
BY Zenon DEF Abstract!vars, Map, InCall, Abstract!Block, Block

-----------------------------------------------------------------------------
(* The invariant and the steps.                                            *)

TreesInv == \A i \in Inodes : Canonical(tree[i]) /\ Starts(tree[i], cache[i])

\* A process that is idle is in no call, and one that runs the shrinker for a
\* call knows where to go on.
InCallOK(r) ==
  /\ r.pc = "idle" => r.call = NoCall
  /\ r.call # NoCall /\ r.pc \notin {"remove", "insert"} => r.back \in {"remove", "insert"}

CallsInv == \A p \in Threads : InCallOK(proc[p])

MapInv == TreesInv /\ CallsInv

MapStep == Abstract!Next \/ UNCHANGED Abstract!vars

\* The tree and the cache_es of one inode change.
LEMMA TreesChange ==
  ASSUME IInv, TreesInv, NEW i \in Inodes, NEW U, Canonical(U), NEW c, Starts(U, c),
         tree' = [tree EXCEPT ![i] = U], cache' = [cache EXCEPT ![i] = c]
  PROVE  /\ TreesInv' /\ tree'[i] = U
         /\ \A j \in Inodes : j # i => tree'[j] = tree[j]
<1>1. tree \in [Inodes -> SUBSET ExtentRec] /\ cache \in [Inodes -> 0 .. None]
  BY Zenon DEF IInv, TreeInv, PlaceInv
<1>2. /\ tree'[i] = U /\ cache'[i] = c
      /\ \A j \in Inodes : j # i => tree'[j] = tree[j] /\ cache'[j] = cache[j]
  BY <1>1, Zenon
<1>3. ASSUME NEW j \in Inodes PROVE Canonical(tree'[j]) /\ Starts(tree'[j], cache'[j])
  BY <1>2, Zenon DEF TreesInv
<1> QED BY <1>2, <1>3, Zenon DEF TreesInv, Canonical, Starts, None

\* The call of one process changes.
LEMMA CallChange ==
  ASSUME IInv, CallsInv, NEW p \in Threads, NEW r, proc' = [proc EXCEPT ![p] = r],
         InCallOK(r)
  PROVE  /\ CallsInv' /\ InCall' = [InCall EXCEPT ![p] = r.call]
         /\ r.call = proc[p].call => InCall' = InCall
<1>1. proc \in [Threads -> ProcRecs]
  BY Zenon DEF IInv, LockInv
<1>2. proc'[p] = r /\ \A q \in Threads : q # p => proc'[q] = proc[q]
  BY <1>1, Zenon
<1>3. ASSUME NEW q \in Threads PROVE InCallOK(proc'[q])
  BY <1>2, Zenon DEF CallsInv
<1>4. CallsInv'
  BY <1>3, Zenon DEF CallsInv, InCallOK, NoCall
<1>5. InCall' = [q \in Threads |-> proc'[q].call] /\ InCall = [q \in Threads |-> proc[q].call]
  BY Zenon DEF InCall, Threads
<1>6. InCall' = [InCall EXCEPT ![p] = r.call]
  BY <1>2, <1>5
<1>7. r.call = proc[p].call => InCall' = InCall
  BY <1>2, <1>5
<1> QED BY <1>4, <1>6, <1>7, Zenon

LEMMA IdleCall == InCallOK(Idle) /\ Idle.call = NoCall
BY Zenon DEF InCallOK, Idle

LEMMA BlockNat == \A b \in Block : b \in Nat
BY FileAssumption DEF Block

\* __es_insert_extent() of call c into tree T, where its blocks are unknown.
LEMMA InsertMap ==
  ASSUME IInv, MapInv, NEW p \in Threads, NEW c \in Calls, c.new \in Extents,
         InCall[p] \in {c, NoCall},
         NEW T, TreeOK(T), Canonical(T), \A e \in T : Apart(e, c.new),
         \A b \in Block : StatusOf(T, b) = Cleared(c)[b],
         NEW k, Starts(T, k), do_insert(p, c, T, k)
  PROVE  MapInv' /\ MapStep
<1>0. c.ino \in Inodes /\ c.new \in ExtentRec /\ Fits(c.new) /\ c # NoCall
  BY CallParts, NewExtent, Zenon
<1> DEFINE n == c.new
           i == c.ino
<1>1. CASE /\ Update(i, T, es_insert(T, n), cache_inserted(T, n))
           /\ Return(p, i, FALSE)
  <2> DEFINE U == es_insert(T, n)
  <2>1. Canonical(U) /\ Starts(U, cache_inserted(T, n))
    BY <1>0, InsertCanonical, CacheInsertedStarts, Zenon
  <2>2. /\ tree' = [tree EXCEPT ![i] = U] /\ cache' = [cache EXCEPT ![i] = cache_inserted(T, n)]
        /\ proc' = [proc EXCEPT ![p] = Idle] /\ err' = [err EXCEPT ![p] = FALSE]
    BY <1>1, Zenon DEF Update, Return
  <2>3. \A b \in Block : StatusOf(U, b) = Given(c)[b]
    <3> SUFFICES ASSUME NEW b \in Block PROVE StatusOf(U, b) = Given(c)[b]
      OBVIOUS
    <3>1. StatusOf(U, b) = IF Holds(n, b) THEN At(n, b) ELSE StatusOf(T, b)
      BY <1>0, BlockNat, StatusInsert, Zenon
    <3>2. StatusOf(T, b) = IF Holds(n, b) THEN Unknown ELSE Map[i][b]
      BY Zenon DEF Cleared
    <3>3. Given(c)[b] = IF Holds(n, b) THEN At(n, b) ELSE Map[i][b]
      BY Zenon DEF Given
    <3> HIDE DEF U, n, i
    <3> QED BY <3>1, <3>2, <3>3, Zenon
  <2> HIDE DEF U, n, i
  <2>4. /\ TreesInv' /\ tree'[i] = U
        /\ \A j \in Inodes : j # i => tree'[j] = tree[j]
    BY <1>0, <2>1, <2>2, TreesChange, Zenon DEF MapInv, i
  <2>5. CallsInv' /\ InCall' = [InCall EXCEPT ![p] = NoCall]
    BY <2>2, IdleCall, CallChange, Zenon DEF MapInv
  <2>6. Map' = [Map EXCEPT ![i] = Given(c)]
    <3>1. Given(c) = [b \in Block |-> Given(c)[b]]
      BY Zenon DEF Given
    <3> QED BY <1>0, <2>3, <2>4, <3>1, MapChange DEF i
  <2>7. Abstract!Next
    BY <2>2, <2>5, <2>6, MapReturn, Zenon DEF i
  <2> QED BY <2>4, <2>5, <2>7, Zenon DEF MapInv, MapStep
<1>2. CASE Update(i, T, T, k) /\ start_shrink(p, c, "insert")
  <2> DEFINE r == [Idle EXCEPT !.pc = "walk", !.call = c, !.back = "insert",
                               !.walk = Len(list'), !.scan = ScanMax]
  <2>1. /\ tree' = [tree EXCEPT ![i] = T] /\ cache' = [cache EXCEPT ![i] = k]
        /\ proc' = [proc EXCEPT ![p] = r] /\ err' = err
    BY <1>2, Zenon DEF Update, start_shrink
  <2>2. r.call = c /\ InCallOK(r)
    <3>1. r.call = c /\ r.pc = "walk" /\ r.back = "insert"
      BY Zenon DEF Idle
    <3> HIDE DEF r
    <3> QED BY <3>1 DEF InCallOK
  <2> HIDE DEF r, n, i
  <2>3. /\ TreesInv' /\ tree'[i] = T
        /\ \A j \in Inodes : j # i => tree'[j] = tree[j]
    BY <1>0, <2>1, TreesChange, Zenon DEF MapInv, i
  <2>4. CallsInv' /\ InCall' = [InCall EXCEPT ![p] = c]
    BY <2>1, <2>2, CallChange, Zenon DEF MapInv
  <2>5. Map' = [Map EXCEPT ![i] = Cleared(c)]
    <3>1. Cleared(c) = [b \in Block |-> Cleared(c)[b]]
      BY Zenon DEF Cleared
    <3> QED BY <1>0, <2>3, <3>1, MapChange DEF i
  <2>6. CASE InCall[p] = NoCall
    <3>1. Abstract!Next
      BY <2>1, <2>4, <2>5, <2>6, MapStart, Zenon DEF i
    <3> QED BY <2>3, <2>4, <3>1 DEF MapInv, MapStep
  <2>7. CASE InCall[p] = c
    <3>1. InCall' = InCall
      BY <2>4, <2>7, Zenon DEF InCall
    <3>2. Abstract!Next
      BY <2>1, <2>5, <2>7, <3>1, MapInvalidate, Zenon DEF i
    <3> QED BY <2>3, <2>4, <3>2 DEF MapInv, MapStep
  <2> QED BY <2>6, <2>7, Zenon
<1> QED BY <1>1, <1>2, Zenon DEF do_insert

\* __es_remove_extent() of call c, and the insertion that may follow it.
LEMMA RemoveMap ==
  ASSUME IInv, MapInv, NEW p \in Threads, NEW c \in Calls,
         InCall[p] \in {c, NoCall}, do_remove(p, c)
  PROVE  MapInv' /\ MapStep
<1> DEFINE i == c.ino
           T == tree[i]
           rest == es_remove(T, c.first, c.last)
           k == cache_removed(T, cache[i], c.first, c.last)
<1>0. /\ i \in Inodes /\ Interval(c.new)
      /\ c.new.type # {} => c.new \in Extents
      /\ c.first = c.new.lblk /\ c.last = ext4_es_end(c.new)
  BY CallParts
<1>1. TreeOK(T) /\ Canonical(T) /\ Starts(T, cache[i])
  BY <1>0 DEF IInv, TreeInv, MapInv, TreesInv
<1>2. /\ TreeOK(rest) /\ \A e \in rest : Apart(e, c.new)
      /\ Canonical(rest) /\ Starts(rest, k)
  <2> HIDE DEF T
  <2> QED BY <1>0, <1>1, RemoveTree, RemoveCanonical, CacheRemovedStarts
<1>3. \A b \in Block : StatusOf(rest, b) = Cleared(c)[b]
  <2> SUFFICES ASSUME NEW b \in Block PROVE StatusOf(rest, b) = Cleared(c)[b]
    OBVIOUS
  <2>1. StatusOf(rest, b) = IF Holds(c.new, b) THEN Unknown ELSE StatusOf(T, b)
    <3> HIDE DEF T
    <3> QED BY <1>0, <1>1, BlockNat, StatusRemove
  <2>2. StatusOf(T, b) = Map[i][b]
    BY <1>0, Zenon DEF Map
  <2>3. Cleared(c)[b] = IF Holds(c.new, b) THEN Unknown ELSE Map[i][b]
    BY Zenon DEF Cleared
  <2> HIDE DEF rest, T, i
  <2> QED BY <2>1, <2>2, <2>3
<1>4. \/ c.new.type = {} /\ Update(i, rest, rest, k) /\ Return(p, i, FALSE)
      \/ c.new.type # {} /\ do_insert(p, c, rest, k)
      \/ /\ cache' = [cache EXCEPT ![i] = None]
         /\ UNCHANGED <<tree, shk, list>> /\ start_shrink(p, c, "remove")
  BY Zenon DEF do_remove
<1> HIDE DEF rest, k, T
<1>5. CASE c.new.type = {} /\ Update(i, rest, rest, k) /\ Return(p, i, FALSE)
  <2>1. /\ tree' = [tree EXCEPT ![i] = rest] /\ cache' = [cache EXCEPT ![i] = k]
        /\ proc' = [proc EXCEPT ![p] = Idle] /\ err' = [err EXCEPT ![p] = FALSE]
    BY <1>5, Zenon DEF Update, Return
  <2>2. /\ TreesInv' /\ tree'[i] = rest
        /\ \A j \in Inodes : j # i => tree'[j] = tree[j]
    <3> HIDE DEF i
    <3> QED BY <1>0, <1>2, <2>1, TreesChange, Zenon DEF MapInv
  <2>3. CallsInv' /\ InCall' = [InCall EXCEPT ![p] = NoCall]
    BY <2>1, IdleCall, CallChange, Zenon DEF MapInv
  <2>4. \A b : At(c.new, b) = Unknown
    BY <1>5 DEF At, Unknown, Mapped
  <2>5. Given(c) = Cleared(c)
    BY <2>4, Zenon DEF Given, Cleared
  <2>6. Map' = [Map EXCEPT ![i] = Given(c)]
    <3>1. Given(c) = [b \in Block |-> Given(c)[b]]
      BY Zenon DEF Given
    <3> HIDE DEF i
    <3> QED BY <1>0, <1>3, <2>2, <2>5, <3>1, MapChange
  <2>7. Abstract!Next
    BY <2>1, <2>3, <2>6, MapReturn, Zenon
  <2> QED BY <2>2, <2>3, <2>7 DEF MapInv, MapStep
<1>6. CASE c.new.type # {} /\ do_insert(p, c, rest, k)
  BY <1>0, <1>2, <1>3, <1>6, InsertMap, Zenon
<1>7. CASE /\ cache' = [cache EXCEPT ![i] = None]
           /\ UNCHANGED <<tree, shk, list>> /\ start_shrink(p, c, "remove")
  <2> DEFINE r == [Idle EXCEPT !.pc = "walk", !.call = c, !.back = "remove",
                               !.walk = Len(list'), !.scan = ScanMax]
  <2>1. proc' = [proc EXCEPT ![p] = r] /\ err' = err /\ tree' = tree
    BY <1>7, Zenon DEF start_shrink
  <2>2. r.call = c /\ InCallOK(r)
    <3>1. r.call = c /\ r.pc = "walk" /\ r.back = "remove"
      BY Zenon DEF Idle
    <3> HIDE DEF r
    <3> QED BY <3>1 DEF InCallOK
  <2> HIDE DEF r
  <2>3. TreesInv'
    <3>1. tree' = [tree EXCEPT ![i] = T] /\ Starts(T, None)
      BY <1>0, <2>1 DEF T, Starts, IInv, TreeInv
    <3> HIDE DEF i
    <3> QED BY <1>0, <1>1, <1>7, <3>1, TreesChange, Zenon DEF MapInv
  <2>4. CallsInv' /\ InCall' = [InCall EXCEPT ![p] = c]
    BY <2>1, <2>2, CallChange, Zenon DEF MapInv
  <2>5. Map' = Map
    BY <2>1, MapSame
  <2>6. CASE InCall[p] = NoCall
    <3>1. Abstract!Next
      BY <2>1, <2>4, <2>5, <2>6, MapStart, Zenon
    <3> QED BY <2>3, <2>4, <3>1 DEF MapInv, MapStep
  <2>7. CASE InCall[p] = c
    <3>1. InCall' = InCall
      BY <2>4, <2>7, Zenon DEF InCall
    <3>2. UNCHANGED Abstract!vars
      BY <2>1, <2>5, <3>1, MapStutter
    <3> QED BY <2>3, <2>4, <3>2 DEF MapInv, MapStep
  <2> QED BY <2>6, <2>7
<1> QED BY <1>4, <1>5, <1>6, <1>7, Zenon

LEMMA CallMap ==
  ASSUME IInv, MapInv, NEW p \in Procs, NEW c \in Calls,
         ext4_es_insert_extent(p, c) \/ ext4_es_remove_extent(p, c)
  PROVE  MapInv' /\ MapStep
<1>1. p \in Threads /\ proc[p].pc = "idle" /\ do_remove(p, c)
  BY DEF Threads, ext4_es_insert_extent, ext4_es_remove_extent
<1>2. InCall[p] = NoCall
  BY <1>1 DEF InCall, MapInv, CallsInv, InCallOK
<1> QED BY <1>1, <1>2, RemoveMap

LEMMA RetryMap ==
  ASSUME IInv, MapInv, NEW p \in Threads, remove_retry(p) \/ insert_retry(p)
  PROVE  MapInv' /\ MapStep
<1> DEFINE c == proc[p].call
<1>1. Own(p) /\ proc[p] \in ProcRecs
  BY DEF IInv, LockInv
<1>2. proc[p].pc \in {"remove", "insert"}
  BY DEF remove_retry, insert_retry
<1>3. c \in Calls /\ c.ino \in alive /\ InCall[p] = c
  BY <1>1, <1>2 DEF Own, ProcRecs, InCall
<1>4. CASE remove_retry(p)
  <2>1. do_remove(p, c)
    BY <1>4 DEF remove_retry
  <2> HIDE DEF c
  <2> QED BY <1>3, <2>1, RemoveMap
<1>5. CASE insert_retry(p)
  <2> DEFINE T == tree[c.ino]
  <2>1. proc[p].pc = "insert" /\ do_insert(p, c, T, cache[c.ino])
    BY <1>5 DEF insert_retry
  <2>2. c.new \in Extents /\ \A e \in T : Apart(e, c.new)
    BY <1>1, <1>2, <2>1, Zenon DEF Own
  <2>3. c.ino \in Inodes /\ Interval(c.new)
    BY <1>3, CallParts
  <2>4. TreeOK(T) /\ Canonical(T) /\ Starts(T, cache[c.ino])
    BY <2>3 DEF IInv, TreeInv, MapInv, TreesInv
  <2>5. \A b \in Block : StatusOf(T, b) = Cleared(c)[b]
    <3> SUFFICES ASSUME NEW b \in Block PROVE StatusOf(T, b) = Cleared(c)[b]
      OBVIOUS
    <3>1. Cleared(c)[b] = IF Holds(c.new, b) THEN Unknown ELSE Map[c.ino][b]
      BY Zenon DEF Cleared
    <3>2. Map[c.ino][b] = StatusOf(T, b)
      BY <2>3, Zenon DEF Map
    <3>3. Holds(c.new, b) => \A e \in T : ~Holds(e, b)
      BY <2>2, <2>3, <2>4, BlockNat, ApartHolds, ExtentInterval, Zenon DEF TreeOK
    <3> HIDE DEF T, c
    <3>4. Holds(c.new, b) => StatusOf(T, b) = Unknown
      BY <3>3, StatusNotHeld
    <3> QED BY <3>1, <3>2, <3>4
  <2> HIDE DEF T, c
  <2> QED BY <1>3, <2>1, <2>2, <2>4, <2>5, InsertMap
<1> QED BY <1>4, <1>5

LEMMA CacheMap ==
  ASSUME IInv, MapInv, NEW i \in Inodes, NEW e \in Extents, ext4_es_cache_extent(i, e)
  PROVE  MapInv' /\ MapStep
<1> DEFINE T == tree[i]
           U == es_insert(T, e)
           c == Call(i, e)
<1>1. /\ \A f \in es_tree_search(T, e.lblk) : f.lblk > ext4_es_end(e)
      /\ tree' = [tree EXCEPT ![i] = U] /\ cache' = [cache EXCEPT ![i] = cache_inserted(T, e)]
      /\ UNCHANGED <<proc, err>>
  BY Zenon DEF ext4_es_cache_extent, Update
<1>2. TreeOK(T) /\ Canonical(T) /\ e \in ExtentRec /\ Fits(e) /\ Interval(e)
  BY NewExtent, Zenon DEF IInv, TreeInv, MapInv, TreesInv
<1> HIDE DEF T
<1>3. \A f \in T : Apart(f, e)
  BY <1>1, <1>2, NothingThere
<1>4. Canonical(U) /\ Starts(U, cache_inserted(T, e))
  BY <1>2, <1>3, InsertCanonical, CacheInsertedStarts
<1>5. c \in Calls /\ c.ino = i /\ c.new = e
  BY DEF Calls, Call
<1> HIDE DEF c
<1>6. \A b \in Block : StatusOf(U, b) = Given(c)[b]
  <2> SUFFICES ASSUME NEW b \in Block PROVE StatusOf(U, b) = Given(c)[b]
    OBVIOUS
  <2>1. StatusOf(U, b) = IF Holds(e, b) THEN At(e, b) ELSE StatusOf(T, b)
    BY <1>2, <1>3, BlockNat, StatusInsert
  <2>2. Given(c)[b] = IF Holds(e, b) THEN At(e, b) ELSE Map[i][b]
    BY <1>5, Zenon DEF Given
  <2>3. Map[i][b] = StatusOf(T, b)
    BY Zenon DEF Map, T
  <2> HIDE DEF U
  <2> QED BY <2>1, <2>2, <2>3
<1>7. \A b \in Block : Holds(c.new, b) => Map[c.ino][b] = Unknown
  <2> SUFFICES ASSUME NEW b \in Block, Holds(e, b) PROVE Map[i][b] = Unknown
    BY <1>5
  <2>1. Map[i][b] = StatusOf(T, b)
    BY Zenon DEF Map, T
  <2>2. \A f \in T : ~Holds(f, b)
    BY <1>2, <1>3, BlockNat, ApartHolds, ExtentInterval DEF TreeOK
  <2> QED BY <2>1, <2>2, StatusNotHeld
<1> HIDE DEF U
<1>8. /\ TreesInv' /\ tree'[i] = U
      /\ \A j \in Inodes : j # i => tree'[j] = tree[j]
  BY <1>1, <1>4, TreesChange, Zenon DEF MapInv
<1>9. CallsInv' /\ InCall' = InCall
  BY <1>1 DEF MapInv, CallsInv, InCallOK, InCall
<1>10. Map' = [Map EXCEPT ![i] = Given(c)]
  <2>1. Given(c) = [b \in Block |-> Given(c)[b]]
    BY Zenon DEF Given
  <2> QED BY <1>6, <1>8, <2>1, MapChange
<1>11. Abstract!Next
  BY <1>1, <1>5, <1>7, <1>9, <1>10, MapCache, Zenon
<1> QED BY <1>8, <1>9, <1>11 DEF MapInv, MapStep

LEMMA LookupMap ==
  ASSUME IInv, IInv', MapInv, NEW i \in Inodes, NEW b \in Block, ext4_es_lookup_extent(i, b)
  PROVE  MapInv' /\ MapStep
<1>1. PICK e \in tree[i] :
        tree' = [tree EXCEPT ![i] = (@ \ {e}) \cup {[e EXCEPT !.ref = TRUE]}]
  BY Zenon DEF ext4_es_lookup_extent
<1> DEFINE T == tree[i]
           U == (T \ {e}) \cup {[e EXCEPT !.ref = TRUE]}
<1>2. UNCHANGED <<cache, proc, err>>
  BY DEF ext4_es_lookup_extent
<1>3. TreeOK(T) /\ Canonical(T) /\ Starts(T, cache[i])
  BY DEF IInv, TreeInv, MapInv, TreesInv
<1>4. /\ TreeOK(U) /\ \A g \in U : \E f \in T : Alike(g, f)
      /\ \A f \in T : \E g \in U : Alike(g, f)
  <2>1. e \in T
    OBVIOUS
  <2> HIDE DEF T
  <2> QED BY <1>3, <2>1, MarkTree, MarkAlike
<1>5. tree' = [tree EXCEPT ![i] = U] /\ cache' = [cache EXCEPT ![i] = cache[i]]
  BY <1>1, <1>2 DEF IInv, TreeInv, PlaceInv
<1> HIDE DEF U, T
<1>6. Canonical(U) /\ Starts(U, cache[i])
  <2>1. Canonical(U)
    BY <1>3, <1>4, AlikeCanonical
  <2> QED BY <1>3, <1>4, <2>1 DEF Starts, Alike
<1>7. /\ TreesInv' /\ tree'[i] = U
      /\ \A j \in Inodes : j # i => tree'[j] = tree[j]
  BY <1>5, <1>6, TreesChange, Zenon DEF MapInv
<1>8. CallsInv' /\ InCall' = InCall
  BY <1>2 DEF MapInv, CallsInv, InCallOK, InCall
<1>9. Map' = Map
  <2>1. \A x \in Block : StatusOf(U, x) = StatusOf(T, x)
    BY <1>3, <1>4, BlockNat, StatusAlike, Zenon
  <2>2. \A j \in Inodes, x \in Block : StatusOf(tree'[j], x) = StatusOf(tree[j], x)
    BY <1>7, <2>1, Zenon DEF T
  <2> QED BY <2>2, MapSame
<1>10. UNCHANGED Abstract!vars
  BY <1>2, <1>8, <1>9, MapStutter, Zenon
<1> QED BY <1>7, <1>8, <1>10 DEF MapInv, MapStep

LEMMA FindMap ==
  ASSUME IInv, MapInv, NEW i \in Inodes, NEW lo, NEW hi,
         ext4_es_find_delayed_extent_range(i, lo, hi)
  PROVE  MapInv' /\ MapStep
<1>1. PICK e \in tree[i] : cache' = [cache EXCEPT ![i] = e.lblk]
  <2>1. \E e \in tree[i] : cache' = [cache EXCEPT ![i] = e.lblk]
    BY Zenon DEF ext4_es_find_delayed_extent_range, es_tree_search
  <2> QED BY <2>1, Zenon
<1>2. UNCHANGED <<tree, proc, err>>
  BY Zenon DEF ext4_es_find_delayed_extent_range
<1>3. TreesInv'
  <2>1. tree' = [tree EXCEPT ![i] = tree[i]]
    BY <1>2 DEF IInv, TreeInv
  <2>2. Canonical(tree[i]) /\ Starts(tree[i], e.lblk)
    BY DEF MapInv, TreesInv, Starts
  <2> QED BY <1>1, <2>1, <2>2, TreesChange, Zenon DEF MapInv
<1>4. CallsInv' /\ InCall' = InCall
  BY <1>2 DEF MapInv, CallsInv, InCallOK, InCall
<1>5. Map' = Map
  BY <1>2, MapSame
<1>6. UNCHANGED Abstract!vars
  BY <1>2, <1>4, <1>5, MapStutter
<1> QED BY <1>3, <1>4, <1>6 DEF MapInv, MapStep

LEMMA ClearMap ==
  ASSUME IInv, MapInv, NEW i \in Inodes, ext4_clear_inode(i)
  PROVE  MapInv' /\ MapStep
<1>1. /\ tree' = [tree EXCEPT ![i] = {}] /\ cache' = [cache EXCEPT ![i] = None]
      /\ UNCHANGED <<proc, err>>
      /\ \A p \in Threads : proc[p].call.ino # i
  BY DEF ext4_clear_inode, Update
<1>2. Canonical({}) /\ Starts({}, None)
  BY DEF Canonical, Starts
<1>3. /\ TreesInv' /\ tree'[i] = {}
      /\ \A j \in Inodes : j # i => tree'[j] = tree[j]
  BY <1>1, <1>2, TreesChange, Zenon DEF MapInv
<1>4. CallsInv' /\ InCall' = InCall
  BY <1>1 DEF MapInv, CallsInv, InCallOK, InCall
<1>5. Map' = [Map EXCEPT ![i] = [b \in Block |-> Unknown]]
  <2> DEFINE f == [b \in Block |-> Unknown]
  <2>1. \A b : StatusOf({}, b) = Unknown
    BY StatusNotHeld
  <2>2. f = [b \in Block |-> f[b]] /\ \A b \in Block : StatusOf(tree'[i], b) = f[b]
    BY <1>3, <2>1
  <2> HIDE DEF f
  <2>3. Map' = [Map EXCEPT ![i] = f]
    BY <1>3, <2>2, MapChange
  <2> QED BY <2>3 DEF f
<1>6. \A p \in Threads : InCall[p] # NoCall => InCall[p].ino # i
  BY <1>1 DEF InCall
<1>7. Abstract!Next
  BY <1>1, <1>4, <1>5, <1>6, MapEvict, Zenon
<1> QED BY <1>3, <1>4, <1>7 DEF MapInv, MapStep

LEMMA InitTreeMap ==
  ASSUME IInv, MapInv, NEW i \in Inodes, ext4_es_init_tree(i)
  PROVE  MapInv' /\ MapStep
<1>1. /\ i \notin alive /\ tree' = [tree EXCEPT ![i] = {}]
      /\ cache' = [cache EXCEPT ![i] = None] /\ UNCHANGED <<proc, err>>
  BY DEF ext4_es_init_tree
<1>2. tree' = tree
  <2>1. tree[i] = {} /\ tree \in [Inodes -> SUBSET ExtentRec]
    BY <1>1 DEF IInv, LockInv, TreeInv
  <2> QED BY <1>1, <2>1
<1>3. TreesInv'
  <2>1. Canonical({}) /\ Starts({}, None)
    BY DEF Canonical, Starts
  <2> QED BY <1>1, <2>1, TreesChange, Zenon DEF MapInv
<1>4. CallsInv' /\ InCall' = InCall
  BY <1>1 DEF MapInv, CallsInv, InCallOK, InCall
<1>5. Map' = Map
  BY <1>2, MapSame
<1>6. UNCHANGED Abstract!vars
  BY <1>1, <1>4, <1>5, MapStutter
<1> QED BY <1>3, <1>4, <1>6 DEF MapInv, MapStep

\* A step that changes nothing but where process p is.
LEMMA ProcMap ==
  ASSUME IInv, MapInv, NEW p \in Threads, NEW r, proc' = [proc EXCEPT ![p] = r],
         r.call = proc[p].call, InCallOK(r), UNCHANGED <<tree, cache, err>>
  PROVE  MapInv' /\ MapStep
<1>1. CallsInv' /\ InCall' = InCall
  BY CallChange, Zenon DEF MapInv
<1>2. TreesInv'
  BY Zenon DEF MapInv, TreesInv, Canonical, Starts, None
<1>3. Map' = Map
  BY MapSame
<1>4. UNCHANGED Abstract!vars
  BY <1>1, <1>3, MapStutter
<1> QED BY <1>1, <1>2, <1>4 DEF MapInv, MapStep

LEMMA ScanMap ==
  ASSUME IInv, MapInv, NEW p \in Kswapds, NEW n, ext4_es_scan(p, n)
  PROVE  MapInv' /\ MapStep
<1> DEFINE r == [Idle EXCEPT !.pc = "walk", !.walk = Len(list), !.scan = n]
<1>1. /\ proc[p].pc = "idle" /\ proc' = [proc EXCEPT ![p] = r]
      /\ UNCHANGED <<tree, cache, err>>
  BY DEF ext4_es_scan
<1>2. r.pc = "walk" /\ r.call = NoCall
  BY Zenon DEF Idle
<1>3. p \in Threads /\ proc[p].call = NoCall
  BY <1>1 DEF Threads, MapInv, CallsInv, InCallOK
<1> HIDE DEF r
<1>4. InCallOK(r)
  BY <1>2 DEF InCallOK
<1> QED BY <1>1, <1>2, <1>3, <1>4, ProcMap, Zenon

\* The walk of the shrinker over the list of inodes, and its rounds.
LEMMA WalkMap ==
  ASSUME IInv, MapInv, NEW p \in Threads,
         shrink_walk(p) \/ shrink_round(p) \/ shrink_unlock(p)
  PROVE  MapInv' /\ MapStep
<1>1. /\ proc[p] \in ProcRecs /\ proc \in [Threads -> ProcRecs] /\ InCallOK(proc[p])
      /\ proc[p].pc \in {"walk", "unlock"} /\ UNCHANGED <<tree, cache, err>>
  BY DEF IInv, LockInv, MapInv, CallsInv, shrink_walk, shrink_round, shrink_unlock
<1>2. ASSUME NEW r, proc' = [proc EXCEPT ![p] = r], r.call = proc[p].call,
             r.back = proc[p].back, r.pc \in {"walk", "reclaim", "shrunk"}
      PROVE  MapInv' /\ MapStep
  <2>1. InCallOK(r)
    BY <1>1, <1>2 DEF InCallOK
  <2> QED BY <1>1, <1>2, <2>1, ProcMap, Zenon
<1>3. CASE shrink_walk(p)
  <2> DEFINE j == Head(list)
             done == [proc[p] EXCEPT !.pc = "shrunk"]
             next == [proc[p] EXCEPT !.walk = @ - 1, !.skipped = TRUE]
             take == [proc[p] EXCEPT !.walk = @ - 1, !.target = j, !.pc = "reclaim"]
  <2>1. /\ [proc EXCEPT ![p].walk = @ - 1, ![p].skipped = TRUE] = [proc EXCEPT ![p] = next]
        /\ [proc EXCEPT ![p].walk = @ - 1, ![p].target = j, ![p].pc = "reclaim"]
           = [proc EXCEPT ![p] = take]
        /\ [proc EXCEPT ![p].pc = "shrunk"] = [proc EXCEPT ![p] = done]
    <3> HIDE DEF j
    <3> QED BY <1>1, Zenon
  <2>2. \/ proc' = [proc EXCEPT ![p] = done]
        \/ proc' = [proc EXCEPT ![p] = next]
        \/ proc' = [proc EXCEPT ![p] = take]
    BY <1>3, <2>1, Zenon DEF shrink_walk
  <2>3. proc[p].pc = "walk"
    BY <1>3 DEF shrink_walk
  <2> HIDE DEF j
  <2>4. /\ done.call = proc[p].call /\ done.back = proc[p].back /\ done.pc = "shrunk"
        /\ next.call = proc[p].call /\ next.back = proc[p].back /\ next.pc = proc[p].pc
        /\ take.call = proc[p].call /\ take.back = proc[p].back /\ take.pc = "reclaim"
    BY <1>1, Zenon DEF ProcRecs
  <2> HIDE DEF done, next, take
  <2> QED BY <1>2, <2>2, <2>3, <2>4
<1>4. CASE shrink_round(p)
  <2> DEFINE again == [proc[p] EXCEPT !.retried = TRUE, !.walk = Len(list)]
             own == [proc[p] EXCEPT !.pc = "reclaim", !.target = proc[p].call.ino]
             done == [proc[p] EXCEPT !.pc = "shrunk"]
  <2>1. /\ proc[p].pc = "walk"
        /\ \/ proc' = [proc EXCEPT ![p] = again]
           \/ proc' = [proc EXCEPT ![p] = own]
           \/ proc' = [proc EXCEPT ![p] = done]
    BY <1>4, Zenon DEF shrink_round
  <2>2. /\ again.call = proc[p].call /\ again.back = proc[p].back /\ again.pc = proc[p].pc
        /\ own.call = proc[p].call /\ own.back = proc[p].back /\ own.pc = "reclaim"
        /\ done.call = proc[p].call /\ done.back = proc[p].back /\ done.pc = "shrunk"
    BY <1>1, Zenon DEF ProcRecs
  <2> HIDE DEF again, own, done
  <2> QED BY <1>2, <2>1, <2>2
<1>5. CASE shrink_unlock(p)
  <2> DEFINE s == [proc[p] EXCEPT !.target = "none",
                                  !.pc = IF proc[p].scan = 0 THEN "shrunk" ELSE "walk"]
  <2>1. proc' = [proc EXCEPT ![p] = s]
    BY <1>1, <1>5, Zenon DEF shrink_unlock
  <2>2. s.call = proc[p].call /\ s.back = proc[p].back /\ s.pc \in {"walk", "shrunk"}
    BY <1>1, Zenon DEF ProcRecs
  <2> HIDE DEF s
  <2> QED BY <1>2, <2>1, <2>2, Zenon
<1> QED BY <1>3, <1>4, <1>5

LEMMA ReturnMap ==
  ASSUME IInv, MapInv, NEW p \in Threads, shrink_return(p)
  PROVE  MapInv' /\ MapStep
<1> DEFINE r == proc[p]
           c == r.call
           s == [Idle EXCEPT !.pc = r.back, !.call = r.call]
<1>1. /\ r \in ProcRecs /\ Own(p) /\ InCallOK(r) /\ r.pc = "shrunk" /\ InCall[p] = c
      /\ UNCHANGED <<tree, cache>>
  BY DEF IInv, LockInv, MapInv, CallsInv, shrink_return, InCall
<1>2. \/ c = NoCall /\ proc' = [proc EXCEPT ![p] = Idle] /\ UNCHANGED err
      \/ c # NoCall /\ proc' = [proc EXCEPT ![p] = s] /\ UNCHANGED err
      \/ c # NoCall /\ Return(p, c.ino, r.back = "remove" \/ Delayed(c.new))
  BY Zenon DEF shrink_return
<1>3. CASE c = NoCall /\ proc' = [proc EXCEPT ![p] = Idle] /\ UNCHANGED err
  BY <1>1, <1>3, IdleCall, ProcMap, Zenon
<1>4. CASE c # NoCall /\ proc' = [proc EXCEPT ![p] = s] /\ UNCHANGED err
  <2>1. s.pc = r.back /\ s.call = r.call
    BY Zenon DEF Idle
  <2>2. r.back \in {"remove", "insert"}
    BY <1>1, <1>4 DEF InCallOK
  <2> HIDE DEF s
  <2>3. InCallOK(s)
    BY <2>1, <2>2 DEF InCallOK
  <2> QED BY <1>1, <1>4, <2>1, <2>3, ProcMap, Zenon
<1>5. CASE c # NoCall /\ Return(p, c.ino, r.back = "remove" \/ Delayed(c.new))
  <2>1. c \in Calls /\ r.back \in {"remove", "insert"}
    BY <1>1, <1>5 DEF ProcRecs, InCallOK
  <2>2. /\ proc' = [proc EXCEPT ![p] = Idle]
        /\ err' = [err EXCEPT ![p] = (r.back = "remove" \/ Delayed(c.new))]
    BY <1>5, Zenon DEF Return
  <2>3. CallsInv' /\ InCall' = [InCall EXCEPT ![p] = NoCall]
    BY <2>2, IdleCall, CallChange, Zenon DEF MapInv
  <2>4. TreesInv'
    BY <1>1, Zenon DEF MapInv, TreesInv, Canonical, Starts, None
  <2>5. Map' = Map
    BY <1>1, MapSame, Zenon
  <2> HIDE DEF c, r
  <2>6. CASE r.back = "remove" \/ Delayed(c.new)
    <3>1. (r.back = "remove" \/ Delayed(c.new)) = TRUE
      BY <2>6 DEF Delayed
    <3>2. err' = [err EXCEPT ![p] = TRUE]
      BY <2>2, <3>1, Zenon
    <3>3. Abstract!Next
      BY <1>1, <1>5, <2>3, <2>5, <3>2, MapFail, Zenon
    <3> QED BY <2>3, <2>4, <3>3 DEF MapInv, MapStep
  <2>7. CASE ~(r.back = "remove" \/ Delayed(c.new))
    <3>1. (r.back = "remove" \/ Delayed(c.new)) = FALSE
      BY <2>7 DEF Delayed
    <3>2. err' = [err EXCEPT ![p] = FALSE]
      BY <2>2, <3>1, Zenon
    <3>3. r.back = "insert" /\ ~Delayed(c.new)
      BY <2>1, <2>7
    <3>4. \A e \in tree[c.ino] : Apart(e, c.new)
      BY <1>1, <1>5, <3>3, Zenon DEF Own, c, r
    <3>5. c.ino \in Inodes /\ Interval(c.new)
      BY <2>1, CallParts
    <3>6. \A b \in Block : Holds(c.new, b) => Map[c.ino][b] = Unknown
      <4> SUFFICES ASSUME NEW b \in Block, Holds(c.new, b) PROVE Map[c.ino][b] = Unknown
        OBVIOUS
      <4>1. Map[c.ino][b] = StatusOf(tree[c.ino], b)
        BY <3>5, Zenon DEF Map
      <4>2. tree[c.ino] \subseteq ExtentRec
        BY <3>5 DEF IInv, TreeInv
      <4>3. \A f \in tree[c.ino] : ~Holds(f, b)
        BY <3>4, <3>5, <4>2, BlockNat, ApartHolds, ExtentInterval
      <4> QED BY <4>1, <4>3, StatusNotHeld
    <3>7. Cleared(c) = Map[c.ino]
      <4>1. Map[c.ino] = [b \in Block |-> Map[c.ino][b]]
        BY <3>5, Zenon DEF Map
      <4>2. Cleared(c) = [b \in Block |-> Map[c.ino][b]]
        BY <3>6, Zenon DEF Cleared
      <4> QED BY <4>1, <4>2
    <3>8. Map' = [Map EXCEPT ![c.ino] = Cleared(c)]
      <4>1. Map = [j \in Inodes |-> Map[j]]
        BY Zenon DEF Map
      <4> QED BY <2>5, <3>7, <4>1
    <3>9. Abstract!Next
      BY <1>1, <2>1, <2>3, <3>2, <3>3, <3>8, MapGiveUp, Zenon
    <3> QED BY <2>3, <2>4, <3>9 DEF MapInv, MapStep
  <2> QED BY <2>6, <2>7
<1> QED BY <1>2, <1>3, <1>4, <1>5

LEMMA ReclaimMap ==
  ASSUME IInv, MapInv, NEW p \in Threads, shrink_reclaim(p)
  PROVE  MapInv' /\ MapStep
<1> DEFINE r == proc[p]
           i == r.target
           x == es_reclaim_extents(i, r.scan)
           sh == r.shrunk \/ Cardinality(x.tree) < Cardinality(tree[i])
           nx == IF i = r.call.ino THEN "shrunk" ELSE "unlock"
           s == [r EXCEPT !.scan = x.n, !.shrunk = sh, !.pc = nx]
           T == tree[i]
           U == x.tree
<1>1. /\ r \in ProcRecs /\ Own(p) /\ proc \in [Threads -> ProcRecs] /\ InCallOK(r)
  BY DEF IInv, LockInv, MapInv, CallsInv
<1>2. /\ r.pc = "reclaim" /\ err' = err
      /\ tree' = [tree EXCEPT ![i] = U] /\ cache' = [cache EXCEPT ![i] = x.cache]
  BY DEF shrink_reclaim, Update
<1>3. proc' = [proc EXCEPT ![p] = s]
  <2>1. proc' = [proc EXCEPT ![p].scan = x.n, ![p].shrunk = @ \/ Cardinality(x.tree) < Cardinality(tree[i]),
                             ![p].pc = nx]
    BY DEF shrink_reclaim
  <2> HIDE DEF x, nx
  <2> QED BY <1>1, <2>1, Zenon
<1>4. i \in Inodes /\ r.scan \in 0 .. ScanMax
  BY <1>1, <1>2, Zenon DEF Own, ProcRecs, IInv, LockInv
<1>5. /\ TreeOK(U) /\ \A g \in U : \E e \in T : Alike(g, e)
      /\ \A e \in T : Delayed(e) => e \in U
      /\ x.cache = None \/ (U = T /\ x.cache = cache[i])
  <2> HIDE DEF i, r
  <2>1. TreeOK(U)
    BY <1>4, ReclaimResult, Zenon
  <2>2. /\ \A g \in U : \E e \in T : Alike(g, e)
        /\ \A e \in T : Delayed(e) => e \in U
        /\ x.cache = None \/ (U = T /\ x.cache = cache[i])
    BY <1>4, ReclaimedAlike, Zenon
  <2> QED BY <2>1, <2>2, Zenon
<1>6. TreeOK(T) /\ Canonical(T) /\ Starts(T, cache[i])
  BY <1>4 DEF IInv, TreeInv, MapInv, TreesInv
<1> HIDE DEF x, U, T
<1>7. s.call = r.call /\ s.back = r.back /\ s.pc \in {"shrunk", "unlock"}
  BY <1>1, Zenon DEF ProcRecs
<1> HIDE DEF s, sh, nx
<1>8. InCallOK(s)
  BY <1>1, <1>2, <1>7 DEF InCallOK
<1>9. CallsInv' /\ InCall' = InCall
  BY <1>3, <1>7, <1>8, CallChange, Zenon DEF MapInv
<1> HIDE DEF i, r
<1>10. Canonical(U) /\ Starts(U, x.cache)
  <2>1. Canonical(U)
    BY <1>5, <1>6, AlikeCanonical
  <2> QED BY <1>5, <1>6, <2>1 DEF Starts
<1>11. /\ TreesInv' /\ tree'[i] = U
       /\ \A j \in Inodes : j # i => tree'[j] = tree[j]
  BY <1>2, <1>4, <1>10, TreesChange, Zenon DEF MapInv
<1>12. Abstract!Next
  <2> DEFINE f == [b \in Block |-> StatusOf(U, b)]
  <2>1. /\ f = [b \in Block |-> f[b]] /\ \A b \in Block : f[b] = StatusOf(U, b)
    BY Zenon
  <2>2. \A b \in Block : Map[i][b] = StatusOf(T, b)
    BY <1>4, Zenon DEF Map, T
  <2> HIDE DEF f
  <2>3. \A b \in Block : f[b] \in {Map[i][b], Unknown} /\ (f[b] = Map[i][b] \/ ~Delayed(Map[i][b]))
    <3> SUFFICES ASSUME NEW b \in Block
                 PROVE  f[b] \in {Map[i][b], Unknown} /\ (f[b] = Map[i][b] \/ ~Delayed(Map[i][b]))
      OBVIOUS
    <3>1. /\ StatusOf(U, b) \in {StatusOf(T, b), Unknown}
          /\ StatusOf(U, b) = StatusOf(T, b) \/ ~Delayed(StatusOf(T, b))
      BY <1>5, <1>6, BlockNat, StatusAlike, Zenon
    <3> QED BY <2>1, <2>2, <3>1
  <2>4. Map' = [Map EXCEPT ![i] = f]
    BY <1>4, <1>11, <2>1, MapChange
  <2> QED BY <1>2, <1>4, <1>9, <2>1, <2>3, <2>4, MapForget
<1> QED BY <1>9, <1>11, <1>12 DEF MapInv, MapStep

-----------------------------------------------------------------------------

LEMMA InitMap == Init => MapInv /\ Abstract!Init
<1> SUFFICES ASSUME Init PROVE MapInv /\ Abstract!Init
  OBVIOUS
<1>1. MapInv
  <2>1. TreesInv
    BY DEF Init, TreesInv, Canonical, Starts
  <2>2. CallsInv
    BY IdleCall DEF Init, CallsInv
  <2> QED BY <2>1, <2>2 DEF MapInv
<1>2. Map = [i \in Inodes |-> [b \in Block |-> Unknown]]
  <2>1. \A i \in Inodes, b \in Block : StatusOf(tree[i], b) = Unknown
    BY StatusNotHeld DEF Init
  <2> QED BY <2>1, Zenon DEF Map
<1>3. InCall = [p \in Threads |-> NoCall] /\ err = [p \in Threads |-> FALSE]
  BY IdleCall DEF Init, InCall
<1>4. Abstract!Init
  BY <1>2, <1>3, Zenon DEF Abstract!Init, Abstract!Block, Block, Map, InCall
<1> QED BY <1>1, <1>4

LEMMA NextMap == IInv /\ IInv' /\ MapInv /\ [Next]_vars => MapInv' /\ MapStep
<1> SUFFICES ASSUME IInv, IInv', MapInv, [Next]_vars PROVE MapInv' /\ MapStep
  OBVIOUS
<1>1. CASE UNCHANGED vars
  <2>1. UNCHANGED <<tree, cache, proc, err>>
    BY <1>1 DEF vars
  <2>2. MapInv'
    BY <2>1, Zenon DEF MapInv, TreesInv, CallsInv, Canonical, Starts, None, InCallOK, NoCall
  <2>3. Map' = Map /\ InCall' = InCall
    BY <2>1, MapSame DEF InCall
  <2> QED BY <2>1, <2>2, <2>3, MapStutter DEF MapStep
<1>2. ASSUME NEW p \in Procs, NEW c \in Calls,
             ext4_es_insert_extent(p, c) \/ ext4_es_remove_extent(p, c)
      PROVE  MapInv' /\ MapStep
  BY <1>2, CallMap
<1>3. ASSUME NEW p \in Threads, Step(p)
      PROVE  MapInv' /\ MapStep
  BY <1>3, RetryMap, WalkMap, ReclaimMap, ReturnMap DEF Step
<1>4. ASSUME NEW i \in Inodes, NEW e \in Extents, ext4_es_cache_extent(i, e)
      PROVE  MapInv' /\ MapStep
  BY <1>4, CacheMap
<1>5. ASSUME NEW i \in Inodes, NEW b \in Block, ext4_es_lookup_extent(i, b)
      PROVE  MapInv' /\ MapStep
  BY <1>5, LookupMap
<1>6. ASSUME NEW i \in Inodes, NEW e \in Ranges,
             ext4_es_find_delayed_extent_range(i, e.lblk, ext4_es_end(e))
      PROVE  MapInv' /\ MapStep
  BY <1>6, FindMap
<1>7. ASSUME NEW i \in Inodes, ext4_clear_inode(i) \/ ext4_es_init_tree(i)
      PROVE  MapInv' /\ MapStep
  BY <1>7, ClearMap, InitTreeMap
<1>8. ASSUME NEW p \in Kswapds, NEW n \in 1 .. ScanMax, ext4_es_scan(p, n)
      PROVE  MapInv' /\ MapStep
  BY <1>8, ScanMap
<1> QED BY <1>1, <1>2, <1>3, <1>4, <1>5, <1>6, <1>7, <1>8 DEF Next

LEMMA MapInvAlways == Spec => []MapInv
BY InitMap, NextMap, InvAlways, NextInv, PTL DEF Spec

\* The extents of a tree stay disjoint and merged as far as they can be,
\* whatever __es_insert_extent(), __es_remove_extent() and the shrinker do, for
\* files of any length.
THEOREM TreesCanonical == Spec => []TreeCanonical
<1>1. IInv /\ MapInv => TreeCanonical
  <2> SUFFICES ASSUME IInv, MapInv, NEW i \in Inodes, NEW e \in tree[i], NEW f \in tree[i],
                      e # f
               PROVE  /\ ext4_es_end(e) < f.lblk \/ ext4_es_end(f) < e.lblk
                      /\ ~ext4_es_can_be_merged(e, f)
    BY DEF TreeCanonical
  <2>1. ~ext4_es_can_be_merged(e, f)
    BY DEF MapInv, TreesInv, Canonical
  <2>2. Apart(e, f) /\ e \in ExtentRec /\ f \in ExtentRec
    BY DEF IInv, TreeInv, TreeOK
  <2> QED BY <2>1, <2>2 DEF Apart, ExtentRec, ext4_es_end
<1> QED BY <1>1, InvAlways, MapInvAlways, PTL

\* cache_es points to an extent of the tree after every insertion, removal,
\* search and reclaim.
THEOREM CacheAlwaysValid == Spec => []CacheValid
<1>1. IInv /\ MapInv => CacheValid
  BY DEF IInv, LockInv, MapInv, TreesInv, Starts, CacheValid
<1> QED BY <1>1, InvAlways, MapInvAlways, PTL

\* The trees implement the map from blocks to statuses: every step of a call, of
\* the shrinker or of an eviction is a step of the map, or leaves it alone.
THEOREM TreesImplementMap == Spec => ImplementsExtentMap
<1>1. IInv /\ IInv' /\ MapInv /\ [Next]_vars => [Abstract!Next]_(Abstract!vars)
  BY NextMap DEF MapStep
<1>2. Init => Abstract!Init
  BY InitMap
<1> QED BY <1>1, <1>2, InvAlways, MapInvAlways, PTL DEF Spec, ImplementsExtentMap, Abstract!Spec
=============================================================================
