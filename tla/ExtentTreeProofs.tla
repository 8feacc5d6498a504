-------------------------- MODULE ExtentTreeProofs --------------------------
(***************************************************************************)
(* What the operations on an extent status tree do to it, for trees of any *)
(* size: its extents stay disjoint and within the file, no two of them     *)
(* could be one, and cache_es points to one of them.                       *)
(***************************************************************************)
EXTENDS ExtentTree, FiniteSetTheorems, NaturalsInduction, TLAPS

ExtentRec == [lblk : Nat, len : Nat \ {0}, type : Types, ref : BOOLEAN, pblk : Nat]

\* A piece of a file.
Fits(e) == e.lblk + e.len <= NBlocks

Apart(e, f) == e.lblk + e.len <= f.lblk \/ f.lblk + f.len <= e.lblk

Interval(r) == r.lblk \in Nat /\ r.len \in Nat \ {0}

\* A finite set of pairwise disjoint extents.
TreeOK(T) ==
  /\ T \in SUBSET ExtentRec
  /\ \A e \in T : Fits(e)
  /\ IsFiniteSet(T)
  /\ \A e, f \in T : e # f => Apart(e, f)

-----------------------------------------------------------------------------

\* Part of a good tree is a good tree.
LEMMA SubTree ==
  ASSUME NEW T, TreeOK(T), NEW U \in SUBSET T
  PROVE  TreeOK(U)
BY FS_Subset DEF TreeOK

\* One more extent, apart from the others.
LEMMA AddToTree ==
  ASSUME NEW T, TreeOK(T), NEW n \in ExtentRec, Fits(n), \A e \in T : Apart(e, n)
  PROVE  TreeOK(T \cup {n})
<1>1. IsFiniteSet(T \cup {n})
  BY FS_AddElement DEF TreeOK
<1>2. T \cup {n} \in SUBSET ExtentRec
  BY DEF TreeOK
<1>3. ASSUME NEW e \in T \cup {n}, NEW f \in T \cup {n}, e # f
      PROVE  Apart(e, f)
  BY <1>3 DEF TreeOK, Apart
<1> QED BY <1>1, <1>2, <1>3 DEF TreeOK

\* An extent that is apart from all others has at most one neighbour on each
\* side that it can be merged with.
LEMMA OneNeighbour ==
  ASSUME NEW T, TreeOK(T), NEW n \in ExtentRec
  PROVE  /\ \A e, f \in Left(T, n) : e = f
         /\ \A e, f \in Right(T, n) : e = f
<1>1. ASSUME NEW e \in Left(T, n), NEW f \in Left(T, n), e # f PROVE FALSE
  <2>1. e \in ExtentRec /\ f \in ExtentRec /\ Apart(e, f)
    BY <1>1 DEF Left, TreeOK
  <2>2. e.lblk + e.len = n.lblk /\ f.lblk + f.len = n.lblk
    BY DEF Left, ext4_es_can_be_merged
  <2> QED BY <2>1, <2>2 DEF Apart, ExtentRec
<1>2. ASSUME NEW e \in Right(T, n), NEW f \in Right(T, n), e # f PROVE FALSE
  <2>1. e \in ExtentRec /\ f \in ExtentRec /\ Apart(e, f)
    BY <1>2 DEF Right, TreeOK
  <2>2. n.lblk + n.len = e.lblk /\ n.lblk + n.len = f.lblk
    BY DEF Right, ext4_es_can_be_merged
  <2> QED BY <2>1, <2>2 DEF Apart, ExtentRec
<1> QED BY <1>1, <1>2

\* __es_insert_extent() of an extent that overlaps none keeps the tree good, and
\* covers no block that neither the tree nor the extent did.
LEMMA InsertTree ==
  ASSUME NEW T, TreeOK(T), NEW n \in ExtentRec, Fits(n), \A e \in T : Apart(e, n)
  PROVE  /\ TreeOK(es_insert(T, n))
         /\ \A r : Interval(r) /\ (\A e \in T \cup {n} : Apart(e, r))
                   => \A e \in es_insert(T, n) : Apart(e, r)
         /\ \E e \in es_insert(T, n) : /\ e.lblk <= n.lblk
                                       /\ n.lblk + n.len <= e.lblk + e.len
<1> DEFINE L == Left(T, n)
           R == Right(T, n)
           m == L \cup R
           first == IF L # {} THEN CHOOSE e \in L : TRUE ELSE n
           right == {e.len : e \in R}
           ll == IF L # {} THEN first.len ELSE 0
           rl == IF right # {} THEN CHOOSE l \in right : TRUE ELSE 0
           rf == IF m = {} THEN n.ref ELSE \E e \in m : e.ref
           x == [first EXCEPT !.len = n.len + ll + rl, !.ref = rf]
<1>1. es_insert(T, n) = (T \ m) \cup {x}
  BY DEF es_insert
<1>2. TreeOK(T \ m)
  BY SubTree
<1>3. L \subseteq T /\ R \subseteq T /\ T \subseteq ExtentRec
  BY DEF Left, Right, TreeOK
<1>4. /\ first \in ExtentRec
      /\ ll \in Nat /\ first.lblk + ll = n.lblk
      /\ L # {} => first \in L
  <2>1. CASE L = {}
    BY <2>1 DEF ExtentRec
  <2>2. CASE L # {}
    <3>1. first \in L
      BY <2>2
    <3>2. first \in ExtentRec /\ first.lblk + first.len = n.lblk
      BY <3>1, <1>3 DEF Left, ext4_es_can_be_merged
    <3> QED BY <2>2, <3>1, <3>2 DEF ExtentRec
  <2> QED BY <2>1, <2>2
<1>5. /\ rl \in Nat
      /\ \A e \in R : rl = e.len /\ e.lblk = n.lblk + n.len
      /\ R = {} => rl = 0
  <2>1. CASE R = {}
    BY <2>1
  <2>2. CASE R # {}
    <3>1. PICK e \in R : R = {e}
      BY <2>2, OneNeighbour
    <3>2. rl = e.len
      BY <3>1
    <3>3. e \in ExtentRec /\ e.lblk = n.lblk + n.len
      BY <3>1, <1>3 DEF Right, ext4_es_can_be_merged
    <3> QED BY <3>1, <3>2, <3>3 DEF ExtentRec
  <2> QED BY <2>1, <2>2, Zenon
<1> HIDE DEF first, ll, rl
<1>6. x \in ExtentRec /\ x.lblk = first.lblk /\ x.len = n.len + ll + rl
  <2>1. rf \in BOOLEAN
    BY Zenon DEF ExtentRec
  <2> HIDE DEF rf
  <2>2. n.len + ll + rl \in Nat \ {0}
    BY <1>4, <1>5 DEF ExtentRec
  <2> HIDE DEF ll, rl
  <2> QED BY <1>4, <2>1, <2>2, Zenon DEF ExtentRec
<1> HIDE DEF x
<1>7. ASSUME NEW r, Interval(r), Apart(n, r), \A f \in m : Apart(f, r)
      PROVE  Apart(x, r)
  <2>1. CASE r.lblk + r.len <= n.lblk
    <3>1. CASE L = {}
      <4>1. ll = 0
        BY <3>1 DEF ll
      <4> QED BY <4>1, <1>4, <1>6, <1>7, <2>1 DEF Apart, ExtentRec, Interval
    <3>2. CASE L # {}
      <4>1. Apart(first, r) /\ first \in ExtentRec /\ ll = first.len
        BY <3>2, <1>3, <1>4, <1>7 DEF ll
      <4> QED BY <4>1, <1>4, <1>6, <1>7, <2>1 DEF Apart, ExtentRec, Interval
    <3> QED BY <3>1, <3>2
  <2>2. CASE n.lblk + n.len <= r.lblk
    <3>1. CASE R = {}
      BY <3>1, <1>4, <1>5, <1>6, <1>7, <2>2 DEF Apart, ExtentRec, Interval
    <3>2. CASE R # {}
      <4>1. PICK f \in R : TRUE
        BY <3>2
      <4>2. Apart(f, r) /\ f \in ExtentRec /\ rl = f.len /\ f.lblk = n.lblk + n.len
        BY <4>1, <1>3, <1>5, <1>7
      <4>3. f.lblk + f.len <= r.lblk
        BY <4>2, <1>7, <2>2 DEF Apart, ExtentRec, Interval
      <4> QED BY <4>2, <4>3, <1>4, <1>6, <1>7 DEF Apart, ExtentRec, Interval
    <3> QED BY <3>1, <3>2
  <2> QED BY <1>7, <2>1, <2>2 DEF Apart
<1>8. Fits(x)
  <2>1. CASE R = {}
    BY <2>1, <1>4, <1>5, <1>6 DEF Fits, ExtentRec
  <2>2. CASE R # {}
    <3>1. PICK f \in R : TRUE
      BY <2>2
    <3>2. Fits(f) /\ f \in ExtentRec /\ rl = f.len /\ f.lblk = n.lblk + n.len
      BY <1>3, <1>5 DEF TreeOK
    <3> QED BY <3>2, <1>4, <1>6 DEF Fits, ExtentRec
  <2> QED BY <2>1, <2>2
<1>9. ASSUME NEW e \in T \ m PROVE Apart(e, x)
  <2>1. e \in ExtentRec /\ Interval(e) /\ Apart(n, e)
    BY <1>3 DEF Interval, ExtentRec, Apart
  <2>2. \A f \in m : Apart(f, e)
    BY <1>3 DEF TreeOK
  <2>3. Apart(x, e)
    BY <1>7, <2>1, <2>2
  <2> QED BY <2>3 DEF Apart
<1>10. TreeOK(es_insert(T, n))
  BY <1>1, <1>2, <1>6, <1>8, <1>9, AddToTree
<1>11. ASSUME NEW r, Interval(r), \A e \in T \cup {n} : Apart(e, r),
              NEW e \in es_insert(T, n)
       PROVE  Apart(e, r)
  BY <1>1, <1>3, <1>7, <1>11
<1>12. x.lblk <= n.lblk /\ n.lblk + n.len <= x.lblk + x.len
  BY <1>4, <1>5, <1>6 DEF ExtentRec
<1> QED BY <1>1, <1>10, <1>11, <1>12

\* The image of a finite set.
LEMMA FiniteImage ==
  ASSUME NEW S, IsFiniteSet(S), NEW f
  PROVE  IsFiniteSet({f[x] : x \in S})
<1> DEFINE I == {f[x] : x \in S}
           g == [x \in S |-> f[x]]
<1>1. g \in Surjection(S, I)
  BY DEF Surjection
<1> QED BY <1>1, FS_Surjection

\* Pieces of extents: a finite set of extents each of which lies in an extent of
\* a good tree, with those from the same extent apart, is a good tree.
LEMMA PiecesTree ==
  ASSUME NEW T, TreeOK(T), NEW U \in SUBSET ExtentRec, IsFiniteSet(U),
         \A g, h \in U : g # h =>
           \/ Apart(g, h)
           \/ \E e, f \in T : /\ e # f
                              /\ g.lblk >= e.lblk /\ g.lblk + g.len <= e.lblk + e.len
                              /\ h.lblk >= f.lblk /\ h.lblk + h.len <= f.lblk + f.len,
         \A g \in U : Fits(g)
  PROVE  TreeOK(U)
<1> SUFFICES ASSUME NEW g \in U, NEW h \in U, g # h
             PROVE  Apart(g, h)
  BY DEF TreeOK
<1>1. CASE Apart(g, h)
  BY <1>1
<1>2. CASE ~Apart(g, h)
  <2>1. PICK e \in T, f \in T :
          /\ e # f
          /\ g.lblk >= e.lblk /\ g.lblk + g.len <= e.lblk + e.len
          /\ h.lblk >= f.lblk /\ h.lblk + h.len <= f.lblk + f.len
    BY <1>2
  <2>2. Apart(e, f) /\ e \in ExtentRec /\ f \in ExtentRec
    BY <2>1 DEF TreeOK
  <2>3. g \in ExtentRec /\ h \in ExtentRec
    OBVIOUS
  <2> QED BY <2>1, <2>2, <2>3 DEF Apart, ExtentRec
<1> QED BY <1>1, <1>2

\* What is left of an extent in front of and behind an interval.
LEMMA Pieces ==
  ASSUME NEW e \in ExtentRec, NEW r, Interval(r), Fits(e),
         e.lblk <= ext4_es_end(r), ext4_es_end(e) >= r.lblk
  PROVE  /\ \A g \in Before(e, r.lblk) :
              /\ g \in ExtentRec /\ Fits(g) /\ g.lblk = e.lblk
              /\ g.lblk + g.len = r.lblk /\ g.lblk + g.len <= e.lblk + e.len
         /\ \A g \in After(e, ext4_es_end(r)) :
              /\ g \in ExtentRec /\ Fits(g) /\ g.lblk = r.lblk + r.len
              /\ g.lblk >= e.lblk /\ g.lblk + g.len = e.lblk + e.len
         /\ e.lblk < r.lblk /\ ext4_es_end(e) > ext4_es_end(r) =>
              After(e, ext4_es_end(r)) # {}
<1>1. /\ e.lblk \in Nat /\ e.len \in Nat /\ e.len > 0 /\ e.pblk \in Nat
      /\ r.lblk \in Nat /\ r.len \in Nat /\ r.len > 0
      /\ e.lblk <= r.lblk + r.len - 1 /\ e.lblk + e.len - 1 >= r.lblk
      /\ e.lblk + e.len <= NBlocks /\ NBlocks \in Nat
  BY FileAssumption DEF ExtentRec, Interval, ext4_es_end, Fits
<1>2. ASSUME NEW g \in Before(e, r.lblk)
      PROVE  /\ g \in ExtentRec /\ Fits(g) /\ g.lblk = e.lblk
             /\ g.lblk + g.len = r.lblk /\ g.lblk + g.len <= e.lblk + e.len
  <2>1. e.lblk < r.lblk /\ g = [e EXCEPT !.len = r.lblk - e.lblk]
    BY DEF Before
  <2>2. r.lblk - e.lblk \in Nat \ {0}
    BY <1>1, <2>1
  <2>3. g \in ExtentRec /\ g.lblk = e.lblk /\ g.len = r.lblk - e.lblk
    BY <2>1, <2>2 DEF ExtentRec
  <2> QED BY <1>1, <2>3 DEF Fits
<1>3. ASSUME NEW g \in After(e, ext4_es_end(r))
      PROVE  /\ g \in ExtentRec /\ Fits(g) /\ g.lblk = r.lblk + r.len
             /\ g.lblk >= e.lblk /\ g.lblk + g.len = e.lblk + e.len
  <2> DEFINE l == ext4_es_end(r) + 1
             n == ext4_es_end(e) - ext4_es_end(r)
             b == IF Mapped(e) THEN e.pblk + (ext4_es_end(r) + 1 - e.lblk) ELSE 0
  <2>1. ext4_es_end(e) > ext4_es_end(r) /\ g = [e EXCEPT !.lblk = l, !.len = n, !.pblk = b]
    BY DEF After
  <2>2. /\ l \in Nat /\ n \in Nat \ {0} /\ b \in Nat
        /\ l = r.lblk + r.len /\ l + n = e.lblk + e.len /\ l >= e.lblk
    BY <1>1, <2>1 DEF ext4_es_end
  <2> HIDE DEF l, n, b
  <2>3. g \in ExtentRec /\ g.lblk = l /\ g.len = n
    BY <2>1, <2>2, Zenon DEF ExtentRec
  <2> QED BY <1>1, <2>2, <2>3 DEF Fits
<1>4. ext4_es_end(e) > ext4_es_end(r) => After(e, ext4_es_end(r)) # {}
  BY DEF After
<1> QED BY <1>2, <1>3, <1>4

\* __es_remove_extent() of interval r keeps the tree good and leaves nothing of
\* the interval.
LEMMA RemoveTree ==
  ASSUME NEW T, TreeOK(T), NEW r, Interval(r)
  PROVE  LET U == es_remove(T, r.lblk, ext4_es_end(r))
         IN  TreeOK(U) /\ \A e \in U : Apart(e, r)
<1> DEFINE hi == ext4_es_end(r)
           hit == Overlap(T, r.lblk, hi)
           bef == UNION {Before(e, r.lblk) : e \in hit}
           aft == UNION {After(e, hi) : e \in hit}
           out == T \ hit
           all == out \cup bef \cup aft
<1>0. /\ T \in SUBSET ExtentRec /\ hit \in SUBSET T /\ out \in SUBSET T
      /\ \A e \in T : Fits(e)
      /\ \A e, f \in T : e # f => Apart(e, f)
  BY DEF TreeOK, Overlap
<1>1. \A e \in hit : e.lblk <= hi /\ ext4_es_end(e) >= r.lblk
  BY DEF Overlap
<1>2. \A e \in out : Apart(e, r)
  <2> TAKE e \in out
  <2>1. e \in ExtentRec /\ ~(e.lblk <= hi /\ ext4_es_end(e) >= r.lblk)
    BY <1>0 DEF Overlap
  <2> QED BY <2>1 DEF Apart, ExtentRec, Interval, ext4_es_end
<1>3. \A g \in bef : \E e \in hit :
         /\ g \in ExtentRec /\ Fits(g) /\ g.lblk = e.lblk
         /\ g.lblk + g.len = r.lblk /\ g.lblk + g.len <= e.lblk + e.len
  <2> TAKE g \in bef
  <2>1. PICK e \in hit : g \in Before(e, r.lblk)
    OBVIOUS
  <2> QED BY <1>0, <1>1, <2>1, Pieces
<1>4. \A g \in aft : \E e \in hit :
         /\ g \in ExtentRec /\ Fits(g) /\ g.lblk = r.lblk + r.len
         /\ g.lblk >= e.lblk /\ g.lblk + g.len = e.lblk + e.len
  <2> TAKE g \in aft
  <2>1. PICK e \in hit : g \in After(e, hi)
    OBVIOUS
  <2> QED BY <1>0, <1>1, <2>1, Pieces
<1>5. IsFiniteSet(all)
  <2>1. IsFiniteSet(hit) /\ IsFiniteSet(out)
    BY <1>0, FS_Subset DEF TreeOK
  <2>2. IsFiniteSet(bef)
    <3> DEFINE f == [e \in hit |-> Before(e, r.lblk)]
    <3>1. {f[e] : e \in hit} = {Before(e, r.lblk) : e \in hit}
      OBVIOUS
    <3>2. IsFiniteSet({f[e] : e \in hit})
      BY <2>1, FiniteImage, Zenon
    <3>3. \A e : IsFiniteSet(Before(e, r.lblk))
      BY FS_EmptySet, FS_Singleton, Zenon DEF Before
    <3> HIDE DEF f
    <3> QED BY <3>1, <3>2, <3>3, FS_UNION, Zenon
  <2>3. IsFiniteSet(aft)
    <3> DEFINE f == [e \in hit |-> After(e, hi)]
    <3>1. {f[e] : e \in hit} = {After(e, hi) : e \in hit}
      OBVIOUS
    <3>2. IsFiniteSet({f[e] : e \in hit})
      BY <2>1, FiniteImage, Zenon
    <3>3. \A e : IsFiniteSet(After(e, hi))
      BY FS_EmptySet, FS_Singleton DEF After
    <3> HIDE DEF f
    <3> QED BY <3>1, <3>2, <3>3, FS_UNION, Zenon
  <2> HIDE DEF out, bef, aft
  <2>4. IsFiniteSet(out \cup bef)
    BY <2>1, <2>2, FS_Union, Zenon
  <2> QED BY <2>3, <2>4, FS_Union, Zenon
<1> HIDE DEF hi, hit, bef, aft
<1>6. \A g \in all : g \in ExtentRec /\ Fits(g)
  BY <1>0, <1>3, <1>4
<1>7. \A g \in all : Apart(g, r)
  <2>1. \A g \in bef \cup aft : Apart(g, r)
    BY <1>3, <1>4 DEF Apart, Interval
  <2> QED BY <1>2, <2>1
<1>8. ASSUME NEW g \in all, NEW h \in all, g # h
      PROVE  \/ Apart(g, h)
             \/ \E e, f \in T : /\ e # f
                                /\ g.lblk >= e.lblk /\ g.lblk + g.len <= e.lblk + e.len
                                /\ h.lblk >= f.lblk /\ h.lblk + h.len <= f.lblk + f.len
  <2> DEFINE In(x, e) == x.lblk >= e.lblk /\ x.lblk + x.len <= e.lblk + e.len
  <2>1. \A x \in out : x.lblk \in Nat /\ x.len \in Nat /\ In(x, x)
    BY <1>0 DEF ExtentRec
  <2>2. \A x \in bef : \E e \in hit : In(x, e)
    <3> TAKE x \in bef
    <3>1. PICK e \in hit : x \in ExtentRec /\ x.lblk = e.lblk /\ x.lblk + x.len <= e.lblk + e.len
      BY <1>3
    <3> QED BY <3>1 DEF ExtentRec
  <2>3. \A x \in aft : \E e \in hit : In(x, e)
    <3> TAKE x \in aft
    <3>1. PICK e \in hit : /\ x \in ExtentRec /\ e \in ExtentRec /\ x.lblk >= e.lblk
                           /\ x.lblk + x.len = e.lblk + e.len
      BY <1>0, <1>4
    <3> QED BY <3>1 DEF ExtentRec
  <2>4. \A x, y : (x \in bef /\ y \in aft) \/ (x \in aft /\ y \in bef) => Apart(x, y)
    BY <1>3, <1>4 DEF Apart, Interval
  <2>5. CASE g \in out /\ h \in out
    BY <1>0, <1>8, <2>5
  <2>6. CASE g \in out /\ h \in bef \cup aft
    <3>1. PICK f \in hit : In(h, f)
      BY <2>2, <2>3, <2>6
    <3>2. g # f /\ g \in T /\ f \in T /\ In(g, g)
      BY <1>0, <2>1, <2>6
    <3> QED BY <3>1, <3>2
  <2>7. CASE h \in out /\ g \in bef \cup aft
    <3>1. PICK e \in hit : In(g, e)
      BY <2>2, <2>3, <2>7
    <3>2. h # e /\ h \in T /\ e \in T /\ In(h, h)
      BY <1>0, <2>1, <2>7
    <3> QED BY <3>1, <3>2
  <2>8. CASE g \in bef /\ h \in bef
    <3>1. PICK e \in hit : g \in Before(e, r.lblk)
      BY <2>8 DEF bef
    <3>2. PICK f \in hit : h \in Before(f, r.lblk)
      BY <2>8 DEF bef
    <3>3. e # f
      BY <1>8, <3>1, <3>2 DEF Before
    <3>4. In(g, e) /\ In(h, f)
      <4>1. /\ g \in ExtentRec /\ g.lblk = e.lblk /\ g.lblk + g.len <= e.lblk + e.len
            /\ h \in ExtentRec /\ h.lblk = f.lblk /\ h.lblk + h.len <= f.lblk + f.len
        BY <1>0, <1>1, <3>1, <3>2, Pieces DEF hi
      <4> QED BY <4>1 DEF ExtentRec
    <3> QED BY <1>0, <3>3, <3>4
  <2>9. CASE g \in aft /\ h \in aft
    <3>1. PICK e \in hit : g \in After(e, hi)
      BY <2>9 DEF aft
    <3>2. PICK f \in hit : h \in After(f, hi)
      BY <2>9 DEF aft
    <3>3. e # f
      <4>1. \A k, x, y : x \in After(k, hi) /\ y \in After(k, hi) => x = y
        BY DEF After
      <4> QED BY <1>8, <3>1, <3>2, <4>1
    <3>4. In(g, e) /\ In(h, f)
      <4>1. /\ e \in ExtentRec /\ g.lblk >= e.lblk /\ g.lblk + g.len = e.lblk + e.len
            /\ f \in ExtentRec /\ h.lblk >= f.lblk /\ h.lblk + h.len = f.lblk + f.len
        BY <1>0, <1>1, <3>1, <3>2, Pieces DEF hi
      <4> QED BY <4>1 DEF ExtentRec
    <3> QED BY <1>0, <3>3, <3>4
  <2> QED BY <2>4, <2>5, <2>6, <2>7, <2>8, <2>9
<1>9. TreeOK(all)
  <2> HIDE DEF all
  <2> QED BY <1>5, <1>6, <1>8, PiecesTree
<1>10. CASE Split(T, r.lblk, hi) = {}
  <2>1. es_remove(T, r.lblk, hi) = all
    BY <1>10 DEF es_remove, hit, bef, aft
  <2> QED BY <1>7, <1>9, <2>1 DEF hi
<1>11. CASE Split(T, r.lblk, hi) # {}
  <2> DEFINE n == CHOOSE e \in aft : TRUE
  <2>1. aft # {}
    <3>1. PICK e \in hit : e.lblk < r.lblk /\ ext4_es_end(e) > hi
      BY <1>11 DEF Split, hit
    <3>2. After(e, hi) # {}
      BY <3>1 DEF After
    <3> QED BY <3>1, <3>2 DEF aft
  <2>2. n \in aft
    BY <2>1
  <2>3. es_remove(T, r.lblk, hi) = es_insert(out \cup bef, n)
    BY <1>11 DEF es_remove, hit, bef, aft
  <2> HIDE DEF n
  <2>4. TreeOK(out \cup bef)
    BY <1>9, SubTree
  <2>5. ASSUME NEW e \in out \cup bef PROVE Apart(e, n)
    <3>1. CASE e # n
      BY <3>1, <1>9, <2>2 DEF TreeOK
    <3>2. CASE e = n
      <4>1. PICK f \in hit : /\ n \in ExtentRec /\ n.lblk = r.lblk + r.len
                             /\ n.lblk >= f.lblk /\ n.lblk + n.len = f.lblk + f.len
        BY <1>4, <2>2
      <4>2. n \notin bef
        BY <4>1, <1>3 DEF Interval, ExtentRec
      <4>3. n \in out
        BY <3>2, <4>2
      <4>4. f \in ExtentRec /\ Apart(n, f)
        BY <1>0, <4>3
      <4> QED BY <4>1, <4>4 DEF Apart, ExtentRec
    <3> QED BY <3>1, <3>2
  <2>6. n \in ExtentRec /\ Fits(n) /\ n \in all
    BY <1>6, <2>2
  <2>7. TreeOK(es_insert(out \cup bef, n))
    BY <2>4, <2>5, <2>6, InsertTree
  <2>8. \A e \in es_insert(out \cup bef, n) : Apart(e, r)
    BY <1>7, <2>4, <2>5, <2>6, InsertTree
  <2> QED BY <2>3, <2>7, <2>8 DEF hi
<1> QED BY <1>10, <1>11

\* Every set of extents that is not empty has a first one.
LEMMA FirstExtent ==
  ASSUME NEW S \in SUBSET ExtentRec, S # {}
  PROVE  \E e \in S : \A f \in S : e.lblk <= f.lblk
<1> DEFINE N == {e.lblk : e \in S}
           R == OpToRel(<, Nat)
<1>1. N \in SUBSET Nat /\ N # {}
  BY DEF ExtentRec
<1>2. PICK n \in N : \A m \in N : ~(<<m, n>> \in R)
  BY <1>1, NatLessThanWellFounded, WFMin, Zenon
<1>3. \A m \in N : ~(m < n)
  BY <1>1, <1>2, Zenon DEF OpToRel
<1>4. PICK e \in S : n = e.lblk
  OBVIOUS
<1>5. ASSUME NEW f \in S PROVE e.lblk <= f.lblk
  <2>1. f.lblk \in N /\ f.lblk \in Nat /\ n \in Nat
    BY <1>1
  <2> QED BY <1>3, <1>4, <2>1
<1> QED BY <1>5

\* What the callers insert is an extent of the file.
LEMMA NewExtent ==
  ASSUME NEW e \in Extents
  PROVE  e \in ExtentRec /\ Fits(e) /\ Interval(e) /\ e.ref = FALSE
<1>1. PICK l \in Block, n \in 1 .. NBlocks, y \in Types, o \in Places :
        e = Extent(l, n, y, o)
  BY DEF Extents, NewExtents
<1> DEFINE b == IF "w" \in y \/ "u" \in y THEN l + o ELSE 0
<1>2. l \in Nat /\ n \in Nat \ {0} /\ b \in Nat
  BY FileAssumption DEF Block
<1> HIDE DEF b
<1>3. e = [lblk |-> l, len |-> n, type |-> y, ref |-> FALSE, pblk |-> b]
  BY <1>1 DEF Extent, b
<1>4. e \in ExtentRec /\ e.ref = FALSE
  BY <1>2, <1>3 DEF ExtentRec
<1> QED BY <1>4 DEF Interval, Extents, Fits, ExtentRec

\* ext4_es_cache_extent() looks at one extent of the tree only; that is enough.
LEMMA NothingThere ==
  ASSUME NEW T, TreeOK(T), NEW n \in ExtentRec,
         \A f \in es_tree_search(T, n.lblk) : f.lblk > ext4_es_end(n)
  PROVE  \A f \in T : Apart(f, n)
<1> SUFFICES ASSUME NEW f \in T, ~Apart(f, n)
             PROVE  FALSE
  OBVIOUS
<1> DEFINE from == {e \in T : ext4_es_end(e) >= n.lblk}
<1>1. f \in ExtentRec /\ from \in SUBSET ExtentRec
  BY DEF TreeOK
<1>2. f \in from /\ f.lblk <= ext4_es_end(n)
  BY <1>1 DEF Apart, ExtentRec, ext4_es_end
<1>3. PICK e \in from : \A g \in from : e.lblk <= g.lblk
  BY <1>1, <1>2, FirstExtent, Zenon
<1>4. e.lblk > ext4_es_end(n) /\ e.lblk <= f.lblk
  BY <1>2, <1>3 DEF es_tree_search
<1> QED BY <1>1, <1>2, <1>3, <1>4 DEF ExtentRec, ext4_es_end

\* Marking extents changes neither their number nor where they are.
LEMMA MarkTree ==
  ASSUME NEW T, TreeOK(T), NEW e \in T
  PROVE  LET U == (T \ {e}) \cup {[e EXCEPT !.ref = TRUE]}
         IN  /\ TreeOK(U)
             /\ Cardinality(Reclaimable(U)) = Cardinality(Reclaimable(T))
             /\ \A r : (\A f \in T : Apart(f, r)) => \A f \in U : Apart(f, r)
<1> DEFINE m == [e EXCEPT !.ref = TRUE]
           U == (T \ {e}) \cup {m}
<1>1. /\ e \in ExtentRec /\ Fits(e) /\ T \in SUBSET ExtentRec /\ IsFiniteSet(T)
      /\ \A f, g \in T : f # g => Apart(f, g)
  BY DEF TreeOK
<1>2. /\ m \in ExtentRec
      /\ m.lblk = e.lblk /\ m.len = e.len /\ m.type = e.type
  BY <1>1, Zenon DEF ExtentRec
<1> HIDE DEF m
<1>3. \A f \in T \ {e} : Apart(f, m)
  BY <1>1, <1>2 DEF Apart
<1>4. TreeOK(U)
  <2>1. TreeOK(T \ {e})
    BY SubTree
  <2>2. Fits(m)
    BY <1>1, <1>2 DEF Fits
  <2> QED BY <1>2, <1>3, <2>1, <2>2, AddToTree
<1>5. m \notin T \ {e}
  <2>1. ~Apart(m, m)
    BY <1>2 DEF Apart, ExtentRec
  <2> QED BY <1>3, <2>1
<1>6. Cardinality(Reclaimable(U)) = Cardinality(Reclaimable(T))
  <2> DEFINE R == Reclaimable(T \ {e})
  <2>1. IsFiniteSet(R) /\ m \notin R /\ e \notin R
    BY <1>1, <1>5, FS_Subset DEF Reclaimable
  <2>2. CASE Delayed(e)
    <3>1. Reclaimable(U) = R /\ Reclaimable(T) = R
      BY <2>2, <1>2 DEF Reclaimable, Delayed
    <3> QED BY <3>1
  <2>3. CASE ~Delayed(e)
    <3>1. Reclaimable(U) = R \cup {m} /\ Reclaimable(T) = R \cup {e}
      BY <2>3, <1>2 DEF Reclaimable, Delayed
    <3> HIDE DEF R
    <3>2. /\ Cardinality(R \cup {m}) = Cardinality(R) + 1
          /\ Cardinality(R \cup {e}) = Cardinality(R) + 1
      BY <2>1, FS_AddElement
    <3> QED BY <3>1, <3>2
  <2> QED BY <2>2, <2>3
<1>7. ASSUME NEW r, \A f \in T : Apart(f, r), NEW f \in U PROVE Apart(f, r)
  BY <1>2, <1>7 DEF Apart
<1> QED BY <1>4, <1>6, <1>7 DEF m

\* Reclaim leaves a good tree, with no more extents than before.
LEMMA ReclaimTree ==
  ASSUME NEW T, TreeOK(T), NEW S
  PROVE  LET U == reclaim(T, S)
         IN  /\ TreeOK(U)
             /\ \A r : (\A f \in T : Apart(f, r)) => \A f \in U : Apart(f, r)
<1> DEFINE ex == {f \in T \cap S : f.ref /\ ~Delayed(f)}
           keep == {e \in T : e \notin S \/ Delayed(e)}
           c(e) == [e EXCEPT !.ref = FALSE]
           new == {c(e) : e \in ex}
           U == keep \cup new
<1>1. reclaim(T, S) = U
  BY DEF reclaim
<1>2. /\ T \in SUBSET ExtentRec /\ IsFiniteSet(T)
      /\ \A e \in T : Fits(e)
      /\ \A f, g \in T : f # g => Apart(f, g)
      /\ keep \in SUBSET T /\ ex \in SUBSET T
  BY DEF TreeOK
<1>3. \A e \in ex : /\ c(e) \in ExtentRec /\ Fits(c(e))
                    /\ c(e).lblk = e.lblk /\ c(e).len = e.len
  <2> SUFFICES ASSUME NEW e \in ex
               PROVE  /\ c(e) \in ExtentRec /\ Fits(c(e))
                      /\ c(e).lblk = e.lblk /\ c(e).len = e.len
    BY Zenon
  <2>1. e \in ExtentRec /\ Fits(e)
    BY <1>2
  <2>2. c(e) \in ExtentRec /\ c(e).lblk = e.lblk /\ c(e).len = e.len
    BY <2>1, Zenon DEF ExtentRec
  <2> QED BY <2>1, <2>2 DEF Fits
<1>4. IsFiniteSet(U)
  <2>1. IsFiniteSet(ex) /\ IsFiniteSet(keep)
    BY <1>2, FS_Subset
  <2> DEFINE f == [e \in ex |-> c(e)]
  <2>2. {f[e] : e \in ex} = new
    BY Zenon
  <2>3. IsFiniteSet(new)
    <3> HIDE DEF f, new
    <3> QED BY <2>1, <2>2, FiniteImage
  <2> HIDE DEF new, keep
  <2> QED BY <2>1, <2>3, FS_Union, Zenon
<1>5. \A g \in U : \E e \in T : /\ g \in ExtentRec /\ Fits(g)
                                /\ g.lblk = e.lblk /\ g.len = e.len
                                /\ (g = e /\ e \in keep) \/ (e \in ex /\ g = c(e))
  <2> TAKE g \in U
  <2>1. CASE g \in keep
    <3>1. g \in T /\ g \in ExtentRec /\ Fits(g)
      BY <1>2, <2>1
    <3> HIDE DEF c, ex, keep
    <3> QED BY <2>1, <3>1
  <2>2. CASE g \in new
    <3>1. PICK e \in ex : g = c(e)
      BY <2>2
    <3> HIDE DEF c, ex
    <3> QED BY <1>2, <1>3, <3>1
  <2> QED BY <2>1, <2>2
<1> HIDE DEF U, keep, ex, new, c
<1>6. ASSUME NEW g \in U, NEW h \in U, g # h
      PROVE  \/ Apart(g, h)
             \/ \E e, f \in T : /\ e # f
                                /\ g.lblk >= e.lblk /\ g.lblk + g.len <= e.lblk + e.len
                                /\ h.lblk >= f.lblk /\ h.lblk + h.len <= f.lblk + f.len
  <2>1. PICK e \in T : /\ g \in ExtentRec /\ g.lblk = e.lblk /\ g.len = e.len
                       /\ (g = e /\ e \in keep) \/ (e \in ex /\ g = c(e))
    BY <1>5
  <2>2. PICK f \in T : /\ h \in ExtentRec /\ h.lblk = f.lblk /\ h.len = f.len
                       /\ (h = f /\ f \in keep) \/ (f \in ex /\ h = c(f))
    BY <1>5
  <2>3. keep \cap ex = {}
    BY DEF keep, ex
  <2>4. e # f
    BY <1>6, <2>1, <2>2, <2>3
  <2> QED BY <2>1, <2>2, <2>4 DEF ExtentRec
<1>7. TreeOK(U)
  BY <1>2, <1>4, <1>5, <1>6, PiecesTree
<1>8. ASSUME NEW r, \A f \in T : Apart(f, r), NEW g \in U PROVE Apart(g, r)
  BY <1>5, <1>8 DEF Apart
<1> QED BY <1>1, <1>7, <1>8

\* A good tree has at most one extent per block of the file.
LEMMA TreeSize ==
  ASSUME NEW T, TreeOK(T)
  PROVE  /\ IsFiniteSet(Reclaimable(T))
         /\ Cardinality(Reclaimable(T)) \in 0 .. NBlocks
<1> DEFINE R == Reclaimable(T)
           f == [e \in R |-> e.lblk]
<1>1. R \in SUBSET T /\ R \in SUBSET ExtentRec /\ IsFiniteSet(R)
  BY FS_Subset DEF TreeOK, Reclaimable
<1>2. \A e \in R : e.lblk \in Block
  <2> TAKE e \in R
  <2>1. e \in ExtentRec /\ e.lblk + e.len <= NBlocks
    BY <1>1 DEF TreeOK, Fits
  <2> QED BY <2>1, FileAssumption DEF ExtentRec, Block
<1>3. \A e, g \in R : e.lblk = g.lblk => e = g
  <2> SUFFICES ASSUME NEW e \in R, NEW g \in R, e.lblk = g.lblk, e # g PROVE FALSE
    OBVIOUS
  <2>1. Apart(e, g) /\ e \in ExtentRec /\ g \in ExtentRec
    BY <1>1 DEF TreeOK
  <2> QED BY <2>1 DEF Apart, ExtentRec
<1>4. f \in Injection(R, Block)
  BY <1>2, <1>3 DEF Injection, IsInjective
<1>5. IsFiniteSet(Block) /\ Cardinality(Block) = NBlocks
  <2>1. 0 \in Int /\ NBlocks - 1 \in Int /\ NBlocks \in Nat /\ ~(0 > NBlocks - 1)
    BY FileAssumption
  <2> QED BY <2>1, FS_Interval DEF Block
<1>6. Cardinality(R) <= Cardinality(Block)
  BY <1>4, <1>5, FS_Injection
<1>7. Cardinality(R) \in Nat
  BY <1>1, FS_CardinalityType
<1> QED BY <1>1, <1>5, <1>6, <1>7, FileAssumption

\* A scan looks at no more extents than it may, and ends at a block of the file.
LEMMA ScanBounds ==
  ASSUME NEW T, TreeOK(T), NEW start, NEW n \in Nat,
         NEW end, end + 1 \in Block \/ end = NBlocks
  PROVE  /\ Scan(T, start, end, n).n \in 0 .. n
         /\ Scan(T, start, end, n).at \in Block
<1> DEFINE from == {e \in T : ext4_es_end(e) >= start}
           inside == {e \in from : e.lblk <= end}
           below(e) == {f \in inside : f.lblk < e.lblk}
           seen == {e \in inside : Cardinality(below(e)) < n}
           left == from \ seen
           at == IF left = {} THEN 0
                 ELSE IF Cardinality(seen) < n THEN end + 1
                 ELSE (CHOOSE e \in left : \A f \in left : e.lblk <= f.lblk).lblk
<1>1. Scan(T, start, end, n).n = n - Cardinality(seen) /\ Scan(T, start, end, n).at = at
  BY DEF Scan
<1>2. /\ from \in SUBSET T /\ inside \in SUBSET T /\ seen \in SUBSET T /\ left \in SUBSET T
      /\ T \in SUBSET ExtentRec /\ IsFiniteSet(T)
  BY DEF TreeOK
<1>3. /\ IsFiniteSet(inside) /\ IsFiniteSet(seen)
      /\ Cardinality(seen) \in Nat
      /\ \A e \in inside : IsFiniteSet(below(e)) /\ Cardinality(below(e)) \in Nat
  <2>1. IsFiniteSet(inside) /\ IsFiniteSet(seen)
    BY <1>2, FS_Subset, Zenon
  <2>2. \A e \in inside : below(e) \in SUBSET inside
    OBVIOUS
  <2> QED BY <2>1, <2>2, FS_Subset, FS_CardinalityType
<1>4. \A e, f \in inside : Cardinality(below(e)) = Cardinality(below(f)) => e = f
  <2> SUFFICES ASSUME NEW e \in inside, NEW f \in inside, e.lblk < f.lblk,
                      Cardinality(below(e)) = Cardinality(below(f))
               PROVE  FALSE
    <3>1. ASSUME NEW e \in inside, NEW f \in inside, e # f
          PROVE  e.lblk < f.lblk \/ f.lblk < e.lblk
      <4>1. Apart(e, f) /\ e \in ExtentRec /\ f \in ExtentRec
        BY <1>2, <3>1 DEF TreeOK
      <4> QED BY <4>1 DEF Apart, ExtentRec
    <3> QED BY <3>1
  <2>1. \A g \in inside : g.lblk \in Nat
    BY <1>2 DEF ExtentRec
  <2>2. below(e) \in SUBSET below(f) /\ e \in below(f) /\ e \notin below(e)
    BY <2>1
  <2>3. below(e) = below(f)
    BY <1>3, <2>2, FS_Subset, Zenon
  <2> QED BY <2>2, <2>3
<1>5. Cardinality(seen) <= n
  <2> DEFINE r == [e \in seen |-> Cardinality(below(e))]
  <2>1. \A e \in seen : e \in inside /\ Cardinality(below(e)) \in 0 .. n - 1
    <3> TAKE e \in seen
    <3>1. e \in inside /\ Cardinality(below(e)) < n
      OBVIOUS
    <3>2. Cardinality(below(e)) \in Nat
      BY <1>3, <3>1
    <3> HIDE DEF below
    <3> QED BY <3>1, <3>2
  <2> HIDE DEF below
  <2>2. r \in Injection(seen, 0 .. n - 1)
    BY <1>4, <2>1 DEF Injection, IsInjective
  <2>3. IsFiniteSet(0 .. n - 1) /\ Cardinality(0 .. n - 1) = n
    <3>1. 0 \in Int /\ n - 1 \in Int
      OBVIOUS
    <3>2. IsFiniteSet(0 .. n - 1) /\ Cardinality(0 .. n - 1) = IF 0 > n - 1 THEN 0 ELSE n - 1 - 0 + 1
      BY <3>1, FS_Interval
    <3> QED BY <3>2
  <2> HIDE DEF seen, r
  <2>4. Cardinality(seen) <= Cardinality(0 .. n - 1)
    BY <2>2, <2>3, FS_Injection
  <2> QED BY <2>3, <2>4
<1>6. n - Cardinality(seen) \in 0 .. n
  BY <1>3, <1>5
<1>7. \A e \in T : e.lblk \in Block
  <2> TAKE e \in T
  <2>1. e \in ExtentRec /\ e.lblk + e.len <= NBlocks
    BY <1>2 DEF TreeOK, Fits
  <2> QED BY <2>1, FileAssumption DEF ExtentRec, Block
<1>8. at \in Block
  <2>1. CASE left = {}
    BY <2>1, FileAssumption DEF Block
  <2>2. CASE left # {} /\ ~(Cardinality(seen) < n)
    <3> DEFINE x == CHOOSE e \in left : \A f \in left : e.lblk <= f.lblk
    <3>1. left \in SUBSET ExtentRec
      BY <1>2
    <3>2. \E e \in left : \A f \in left : e.lblk <= f.lblk
      <4> HIDE DEF left
      <4> QED BY <2>2, <3>1, FirstExtent
    <3>3. x \in left /\ at = x.lblk
      BY <2>2, <3>2
    <3> QED BY <1>2, <1>7, <3>3
  <2>3. CASE left # {} /\ Cardinality(seen) < n /\ end + 1 \in Block
    BY <2>3, Zenon
  <2>4. CASE left # {} /\ Cardinality(seen) < n /\ end = NBlocks
    <3>1. inside = from
      <4>1. \A e \in T : e.lblk <= NBlocks
        BY <1>7, FileAssumption DEF Block
      <4> QED BY <2>4, <4>1
    <3>2. PICK g \in left : \A f \in left : g.lblk <= f.lblk
      <4>1. left \in SUBSET ExtentRec
        BY <1>2
      <4> HIDE DEF left
      <4> QED BY <2>4, <4>1, FirstExtent
    <3>3. g \in inside /\ ~(Cardinality(below(g)) < n)
      BY <3>1, <3>2
    <3>4. below(g) \in SUBSET seen
      <4> SUFFICES ASSUME NEW h \in below(g), h \notin seen PROVE FALSE
        OBVIOUS
      <4>1. h \in left /\ h.lblk < g.lblk
        BY <3>1
      <4>2. g.lblk \in Nat /\ h.lblk \in Nat
        BY <1>2 DEF ExtentRec
      <4> QED BY <3>2, <4>1, <4>2
    <3>5. Cardinality(below(g)) <= Cardinality(seen) /\ Cardinality(below(g)) \in Nat
      <4>1. Cardinality(below(g)) \in Nat
        BY <1>3, <3>3, Zenon
      <4> HIDE DEF seen, below
      <4> QED BY <1>3, <3>4, <4>1, FS_Subset
    <3> HIDE DEF seen, below
    <3> QED BY <1>3, <2>4, <3>3, <3>5
  <2> QED BY <2>1, <2>2, <2>3, <2>4, Zenon
<1> QED BY <1>1, <1>6, <1>8, Zenon

\* cache_es after an insertion points into the file.
LEMMA CacheInserted ==
  ASSUME NEW T, TreeOK(T), NEW n \in ExtentRec, Fits(n), \A e \in T : Apart(e, n)
  PROVE  cache_inserted(T, n) \in Block
<1> DEFINE U == es_insert(T, n)
           x == CHOOSE e \in U : e.lblk <= n.lblk /\ n.lblk <= ext4_es_end(e)
<1>1. TreeOK(U) /\ \E e \in U : e.lblk <= n.lblk /\ n.lblk + n.len <= e.lblk + e.len
  BY InsertTree
<1>2. U \in SUBSET ExtentRec
  BY <1>1 DEF TreeOK
<1>3. \E e \in U : e.lblk <= n.lblk /\ n.lblk <= ext4_es_end(e)
  BY <1>1, <1>2 DEF ExtentRec, ext4_es_end
<1>4. x \in U
  BY <1>3
<1>5. x \in ExtentRec /\ x.lblk + x.len <= NBlocks
  BY <1>1, <1>4 DEF TreeOK, Fits
<1>6. cache_inserted(T, n) = x.lblk
  BY DEF cache_inserted
<1> HIDE DEF x
<1> QED BY <1>5, <1>6, FileAssumption DEF ExtentRec, Block

\* cache_es after a removal points into the file, or nowhere.
LEMMA CacheRemoved ==
  ASSUME NEW T, TreeOK(T), NEW c \in 0 .. None, NEW r, Interval(r)
  PROVE  cache_removed(T, c, r.lblk, ext4_es_end(r)) \in 0 .. None
<1> DEFINE hi == ext4_es_end(r)
<1>1. CASE Split(T, r.lblk, hi) # {}
  <2>1. PICK e \in T : ext4_es_end(e) > hi
    BY <1>1 DEF Split, Overlap
  <2>2. e \in ExtentRec /\ e.lblk + e.len <= NBlocks
    BY DEF TreeOK, Fits
  <2>3. hi + 1 \in 0 .. None
    BY <2>1, <2>2, FileAssumption DEF ExtentRec, Interval, ext4_es_end, None
  <2> QED BY <1>1, <2>3 DEF cache_removed
<1>2. CASE Split(T, r.lblk, hi) = {}
  <2>1. None \in 0 .. None
    BY FileAssumption DEF None
  <2> QED BY <1>2, <2>1 DEF cache_removed
<1> QED BY <1>1, <1>2

-----------------------------------------------------------------------------
Holds(e, b) == e.lblk <= b /\ b <= ext4_es_end(e)

\* e and f say the same of the blocks that both hold.
Same(e, f) ==
  e.type = f.type /\ (Mapped(e) => e.pblk + f.lblk = f.pblk + e.lblk)

\* e holds the blocks of f and says the same of them.
Includes(e, f) ==
  e.lblk <= f.lblk /\ f.lblk + f.len <= e.lblk + e.len /\ Same(e, f)

\* No two extents could be one.
Canonical(T) == \A e, f \in T : ~ext4_es_can_be_merged(e, f)

Starts(T, c) == c # None => \E e \in T : e.lblk = c

-----------------------------------------------------------------------------
(* Merging.                                                                *)

\* An extent of which f is the beginning and n the end.
LEMMA MergeSame ==
  ASSUME NEW f \in ExtentRec, NEW n \in ExtentRec, NEW x \in ExtentRec,
         ext4_es_can_be_merged(f, n),
         x.lblk = f.lblk, x.type = f.type, x.pblk = f.pblk
  PROVE  Same(x, f) /\ Same(x, n)
<1>1. /\ f.type = n.type /\ f.lblk + f.len = n.lblk
      /\ Mapped(f) => f.pblk + f.len = n.pblk
  BY TypesAssumption, Zenon DEF ext4_es_can_be_merged, Mapped, Delayed, ExtentRec
<1>2. Same(x, f)
  BY Zenon DEF Same
<1>3. /\ f.lblk \in Nat /\ f.len \in Nat /\ f.pblk \in Nat
      /\ n.lblk \in Nat /\ n.pblk \in Nat
  BY Zenon DEF ExtentRec
<1>4. Mapped(f) => f.pblk + n.lblk = n.pblk + f.lblk
  BY <1>1, <1>3
<1>5. Mapped(x) <=> Mapped(f)
  BY Zenon DEF Mapped
<1> QED BY <1>1, <1>2, <1>4, <1>5, Zenon DEF Same

\* What can be merged with an extent depends on its first block on the left and
\* on its last block on the right.
LEMMA MergeEnds ==
  ASSUME NEW e \in ExtentRec, NEW f \in ExtentRec, NEW g \in ExtentRec, NEW h \in ExtentRec,
         e.type = g.type, e.lblk + e.len = g.lblk + g.len,
         Mapped(g) => e.pblk + e.len = g.pblk + g.len,
         f.type = h.type, f.lblk = h.lblk, f.pblk = h.pblk,
         ext4_es_can_be_merged(g, h)
  PROVE  ext4_es_can_be_merged(e, f)
BY Zenon DEF ext4_es_can_be_merged, Mapped, Delayed

\* The parts of __es_insert_extent(): n, with the neighbour first in front of it
\* and the one behind it that it is merged with, becomes x.
LEMMA InsertParts ==
  ASSUME NEW T, TreeOK(T), NEW n \in ExtentRec, Fits(n), \A e \in T : Apart(e, n)
  PROVE  \E x \in ExtentRec :
           /\ es_insert(T, n) = (T \ (Left(T, n) \cup Right(T, n))) \cup {x}
           /\ x.type = n.type
           /\ Left(T, n) = {} => x.lblk = n.lblk /\ x.pblk = n.pblk
           /\ \A f \in Left(T, n) : x.lblk = f.lblk /\ x.pblk = f.pblk
           /\ Right(T, n) = {} => x.lblk + x.len = n.lblk + n.len
           /\ \A f \in Right(T, n) : x.lblk + x.len = f.lblk + f.len
           /\ Left(T, n) \cup Right(T, n) = {} => x = n
<1> DEFINE L == Left(T, n)
           R == Right(T, n)
           m == L \cup R
           first == IF L # {} THEN CHOOSE e \in L : TRUE ELSE n
           right == {e.len : e \in R}
           ll == IF L # {} THEN first.len ELSE 0
           rl == IF right # {} THEN CHOOSE l \in right : TRUE ELSE 0
           rf == IF m = {} THEN n.ref ELSE \E e \in m : e.ref
           s == n.len + ll + rl
           x == [first EXCEPT !.len = s, !.ref = rf]
<1>1. es_insert(T, n) = (T \ m) \cup {x}
  BY Zenon DEF es_insert
<1>3. L \subseteq T /\ R \subseteq T /\ T \subseteq ExtentRec
  BY Zenon DEF Left, Right, TreeOK
<1>4. /\ first \in ExtentRec /\ first.type = n.type
      /\ ll \in Nat /\ first.lblk + ll = n.lblk
      /\ \A f \in L : first = f
      /\ L = {} => first = n /\ ll = 0
  <2>1. CASE L = {}
    BY <2>1 DEF ExtentRec
  <2>2. CASE L # {}
    <3>1. first \in L
      BY <2>2, Zenon
    <3>2. first \in ExtentRec /\ first.type = n.type /\ first.lblk + first.len = n.lblk
      BY <3>1, <1>3, Zenon DEF Left, ext4_es_can_be_merged
    <3>3. \A f \in L : first = f
      BY <3>1, OneNeighbour, Zenon
    <3> QED BY <2>2, <3>2, <3>3, Zenon DEF ExtentRec
  <2> QED BY <2>1, <2>2, Zenon
<1>5. /\ rl \in Nat
      /\ \A e \in R : rl = e.len /\ e.lblk = n.lblk + n.len
      /\ R = {} => rl = 0
  <2>1. CASE R = {}
    BY <2>1, Zenon
  <2>2. CASE R # {}
    <3>1. PICK e \in R : R = {e}
      BY <2>2, OneNeighbour
    <3>2. rl = e.len
      BY <3>1, Zenon
    <3>3. e \in ExtentRec /\ e.lblk = n.lblk + n.len
      BY <3>1, <1>3, Zenon DEF Right, ext4_es_can_be_merged
    <3> QED BY <3>1, <3>2, <3>3, Zenon DEF ExtentRec
  <2> QED BY <2>1, <2>2, Zenon
<1> HIDE DEF first, ll, rl
<1>6. s \in Nat \ {0}
  BY <1>4, <1>5 DEF ExtentRec
<1>7. rf \in BOOLEAN
  BY Zenon DEF ExtentRec
<1>8. m = {} => rf = n.ref
  BY Zenon
<1>9. m = {} => s = n.len
  BY <1>4, <1>5 DEF ExtentRec
<1> HIDE DEF rf
<1>10. n.lblk \in Nat /\ n.len \in Nat /\ first.lblk \in Nat
  BY <1>4, Zenon DEF ExtentRec
<1>11. first.lblk + s = n.lblk + n.len + rl
  BY <1>4, <1>5, <1>10
<1> HIDE DEF s
<1>12. /\ x \in ExtentRec /\ x.type = first.type /\ x.lblk = first.lblk
       /\ x.pblk = first.pblk /\ x.len = s /\ x.ref = rf
  BY <1>4, <1>6, <1>7, Zenon DEF ExtentRec
<1>13. m = {} => x = n
  <2> SUFFICES ASSUME m = {} PROVE x = n
    OBVIOUS
  <2>1. L = {} /\ x = [n EXCEPT !.len = n.len, !.ref = n.ref]
    BY <1>4, <1>8, <1>9, Zenon
  <2> QED BY <2>1, Zenon DEF ExtentRec
<1> HIDE DEF x, L, R
<1>14. R = {} => x.lblk + x.len = n.lblk + n.len
  BY <1>5, <1>10, <1>11, <1>12
<1>15. \A f \in R : x.lblk + x.len = f.lblk + f.len
  BY <1>5, <1>10, <1>11, <1>12, Zenon
<1>16. L = {} => x.lblk = n.lblk /\ x.pblk = n.pblk
  BY <1>4, <1>12, Zenon
<1>17. \A f \in L : x.lblk = f.lblk /\ x.pblk = f.pblk
  BY <1>4, <1>12, Zenon
<1> QED BY <1>1, <1>4, <1>12, <1>13, <1>14, <1>15, <1>16, <1>17, Zenon DEF L, R

\* __es_insert_extent() leaves no two extents that could be one.
LEMMA InsertCanonical ==
  ASSUME NEW T, TreeOK(T), Canonical(T),
         NEW n \in ExtentRec, Fits(n), \A e \in T : Apart(e, n)
  PROVE  Canonical(es_insert(T, n))
<1> DEFINE L == Left(T, n)
           R == Right(T, n)
           U == T \ (L \cup R)
<1>1. PICK x \in ExtentRec :
        /\ es_insert(T, n) = U \cup {x}
        /\ x.type = n.type
        /\ L = {} => x.lblk = n.lblk /\ x.pblk = n.pblk
        /\ \A f \in L : x.lblk = f.lblk /\ x.pblk = f.pblk
        /\ R = {} => x.lblk + x.len = n.lblk + n.len
        /\ \A f \in R : x.lblk + x.len = f.lblk + f.len
        /\ L \cup R = {} => x = n
  BY InsertParts, Zenon
<1>2. T \subseteq ExtentRec /\ L \subseteq T /\ R \subseteq T /\ U \subseteq T
  BY Zenon DEF Left, Right, TreeOK
<1>3. /\ \A f \in L : ext4_es_can_be_merged(f, n)
      /\ \A f \in R : ext4_es_can_be_merged(n, f)
      /\ \A f \in T : f \notin L => ~ext4_es_can_be_merged(f, n)
      /\ \A f \in T : f \notin R => ~ext4_es_can_be_merged(n, f)
  BY Zenon DEF Left, Right
<1> HIDE DEF L, R
<1>4. ~ext4_es_can_be_merged(x, x)
  BY DEF ext4_es_can_be_merged, ExtentRec
<1>5. ASSUME NEW e \in U, ext4_es_can_be_merged(e, x) PROVE FALSE
  <2>1. CASE L = {}
    <3>1. ext4_es_can_be_merged(e, n)
      BY <1>1, <1>5, <2>1, Zenon DEF ext4_es_can_be_merged
    <3> QED BY <1>2, <1>3, <3>1, Zenon
  <2>2. CASE L # {}
    <3>1. PICK f \in L : TRUE
      BY <2>2, Zenon
    <3>2. f.type = n.type
      BY <1>3, Zenon DEF ext4_es_can_be_merged
    <3>3. ext4_es_can_be_merged(e, f)
      BY <1>1, <1>5, <3>2, Zenon DEF ext4_es_can_be_merged
    <3> QED BY <1>2, <3>3, Zenon DEF Canonical
  <2> QED BY <2>1, <2>2, Zenon
<1>6. Mapped(n) => x.pblk + n.lblk = n.pblk + x.lblk
  <2>1. CASE L = {}
    BY <2>1, <1>1, Zenon DEF ExtentRec
  <2>2. CASE L # {}
    <3>1. PICK f \in L : TRUE
      BY <2>2, Zenon
    <3>2. f \in ExtentRec /\ ext4_es_can_be_merged(f, n)
      BY <1>2, <1>3, Zenon
    <3>3. x.lblk = f.lblk /\ x.type = f.type /\ x.pblk = f.pblk
      BY <1>1, <3>2, Zenon DEF ext4_es_can_be_merged
    <3>4. Same(x, n)
      BY <3>2, <3>3, MergeSame, Zenon
    <3> QED BY <1>1, <3>4, Zenon DEF Same, Mapped
  <2> QED BY <2>1, <2>2, Zenon
<1>7. ASSUME NEW e \in U, ext4_es_can_be_merged(x, e) PROVE FALSE
  <2>0. e \in ExtentRec
    BY <1>2, Zenon
  <2>1. CASE R = {}
    <3>1. x.lblk + x.len = n.lblk + n.len
      BY <1>1, <2>1, Zenon
    <3>2. Mapped(n) => n.pblk + n.len = x.pblk + x.len
      BY <1>6, <3>1 DEF ExtentRec
    <3>3. Mapped(x) <=> Mapped(n)
      BY <1>1, Zenon DEF Mapped
    <3>4. ext4_es_can_be_merged(n, e)
      BY <1>1, <1>7, <2>0, <3>1, <3>2, <3>3, MergeEnds, Zenon
    <3> QED BY <1>2, <1>3, <2>1, <3>4, Zenon
  <2>2. CASE R # {}
    <3>1. PICK f \in R : TRUE
      BY <2>2, Zenon
    <3>2. f \in ExtentRec /\ ext4_es_can_be_merged(n, f)
      BY <1>2, <1>3, Zenon
    <3>3. f.type = n.type /\ Same(n, n) /\ Same(n, f)
      BY <3>2, MergeSame, Zenon DEF ext4_es_can_be_merged
    <3>4. x.lblk + x.len = f.lblk + f.len
      BY <1>1, Zenon
    <3>5. Mapped(n) => f.pblk + f.len = x.pblk + x.len
      BY <1>6, <3>2, <3>3, <3>4 DEF Same, ExtentRec
    <3>6. (Mapped(x) <=> Mapped(n)) /\ f.type = x.type
      BY <1>1, <3>3, Zenon DEF Mapped
    <3>7. ext4_es_can_be_merged(f, e)
      BY <1>7, <2>0, <3>2, <3>4, <3>5, <3>6, MergeEnds, Zenon
    <3> QED BY <1>2, <3>7, Zenon DEF Canonical
  <2> QED BY <2>1, <2>2, Zenon
<1>8. \A e, f \in U : ~ext4_es_can_be_merged(e, f)
  BY <1>2, Zenon DEF Canonical
<1> QED BY <1>1, <1>4, <1>5, <1>7, <1>8, Zenon DEF Canonical

\* Every old extent and the new one are part of an extent afterwards.
LEMMA InsertIncludes ==
  ASSUME NEW T, TreeOK(T), NEW n \in ExtentRec, Fits(n), \A e \in T : Apart(e, n),
         NEW g \in T \cup {n}
  PROVE  \E e \in es_insert(T, n) : Includes(e, g)
<1> DEFINE L == Left(T, n)
           R == Right(T, n)
<1>1. PICK x \in ExtentRec :
        /\ es_insert(T, n) = (T \ (L \cup R)) \cup {x}
        /\ x.type = n.type
        /\ L = {} => x.lblk = n.lblk /\ x.pblk = n.pblk
        /\ \A f \in L : x.lblk = f.lblk /\ x.pblk = f.pblk
        /\ R = {} => x.lblk + x.len = n.lblk + n.len
        /\ \A f \in R : x.lblk + x.len = f.lblk + f.len
        /\ L \cup R = {} => x = n
  BY InsertParts, Zenon
<1>2. T \subseteq ExtentRec /\ L \subseteq T /\ R \subseteq T /\ g \in ExtentRec
  BY Zenon DEF Left, Right, TreeOK
<1>3. /\ \A f \in L : ext4_es_can_be_merged(f, n)
      /\ \A f \in R : ext4_es_can_be_merged(n, f)
  BY Zenon DEF Left, Right
<1> HIDE DEF L, R
<1>4. /\ x.lblk <= n.lblk /\ Same(x, n)
      /\ \A f \in L : Same(x, f) /\ f.lblk + f.len = n.lblk
  <2>1. CASE L = {}
    <3>1. x.lblk <= n.lblk /\ Same(x, n)
      BY <1>1, <2>1 DEF Same, ExtentRec
    <3> QED BY <2>1, <3>1, Zenon
  <2>2. CASE L # {}
    <3>1. ASSUME NEW f \in L
          PROVE  Same(x, f) /\ Same(x, n) /\ x.lblk <= n.lblk /\ f.lblk + f.len = n.lblk
      <4>1. f \in ExtentRec /\ ext4_es_can_be_merged(f, n)
        BY <1>2, <1>3, Zenon
      <4>2. /\ x.lblk = f.lblk /\ x.type = f.type /\ x.pblk = f.pblk
            /\ f.lblk + f.len = n.lblk
        BY <1>1, <4>1, Zenon DEF ext4_es_can_be_merged
      <4>3. Same(x, f) /\ Same(x, n)
        BY <4>1, <4>2, MergeSame, Zenon
      <4> QED BY <4>1, <4>2, <4>3 DEF ExtentRec
    <3> QED BY <2>2, <3>1, Zenon
  <2> QED BY <2>1, <2>2, Zenon
<1>5. /\ n.lblk + n.len <= x.lblk + x.len
      /\ \A f \in R : Same(x, f) /\ n.lblk + n.len = f.lblk
  <2>1. CASE R = {}
    BY <1>1, <2>1 DEF ExtentRec
  <2>2. CASE R # {}
    <3>1. ASSUME NEW f \in R
          PROVE  Same(x, f) /\ n.lblk + n.len <= x.lblk + x.len /\ n.lblk + n.len = f.lblk
      <4>1. f \in ExtentRec /\ ext4_es_can_be_merged(n, f)
        BY <1>2, <1>3, Zenon
      <4>2. x.lblk + x.len = f.lblk + f.len /\ n.lblk + n.len = f.lblk /\ f.type = n.type
        BY <1>1, <4>1, Zenon DEF ext4_es_can_be_merged
      <4>3. Same(n, f)
        BY <4>1, MergeSame, Zenon
      <4>4. Same(x, f)
        BY <1>4, <4>1, <4>3 DEF Same, Mapped, ExtentRec
      <4> QED BY <4>1, <4>2, <4>4 DEF ExtentRec
    <3> QED BY <2>2, <3>1, Zenon
  <2> QED BY <2>1, <2>2, Zenon
<1>6. CASE g \in T \ (L \cup R)
  <2>1. Includes(g, g)
    BY <1>2 DEF Includes, Same, ExtentRec
  <2> QED BY <1>1, <1>6, <2>1, Zenon
<1>7. CASE g = n
  BY <1>1, <1>4, <1>5, <1>7, Zenon DEF Includes
<1>8. CASE g \in L
  <2>1. x.lblk = g.lblk /\ Same(x, g) /\ g.lblk + g.len = n.lblk
    BY <1>1, <1>4, <1>8, Zenon
  <2>2. Includes(x, g)
    BY <1>2, <1>5, <2>1 DEF Includes, ExtentRec
  <2> QED BY <1>1, <2>2, Zenon
<1>9. CASE g \in R
  <2>1. x.lblk + x.len = g.lblk + g.len /\ Same(x, g) /\ n.lblk + n.len = g.lblk
    BY <1>1, <1>5, <1>9, Zenon
  <2>2. Includes(x, g)
    BY <1>2, <1>4, <2>1 DEF Includes, ExtentRec
  <2> QED BY <1>1, <2>2
<1> QED BY <1>6, <1>7, <1>8, <1>9, Zenon

-----------------------------------------------------------------------------
(* Removing.                                                               *)

\* The extents outside of lo..hi and what sticks out of the others.
Outside(T, lo, hi) ==
  (T \ Overlap(T, lo, hi)) \cup (UNION {Before(e, lo) : e \in Overlap(T, lo, hi)})
                          \cup (UNION {After(e, hi) : e \in Overlap(T, lo, hi)})

\* That is what __es_remove_extent() leaves: the tail of a split is merged with
\* nothing.
LEMMA RemovePieces ==
  ASSUME NEW T, TreeOK(T), Canonical(T), NEW r, Interval(r)
  PROVE  es_remove(T, r.lblk, ext4_es_end(r)) = Outside(T, r.lblk, ext4_es_end(r))
<1> DEFINE hi == ext4_es_end(r)
           hit == Overlap(T, r.lblk, hi)
           bef == UNION {Before(e, r.lblk) : e \in hit}
           aft == UNION {After(e, hi) : e \in hit}
           out == T \ hit
           front == out \cup bef
<1>0. /\ T \in SUBSET ExtentRec /\ hit \in SUBSET T /\ out \in SUBSET T
      /\ \A e \in T : Fits(e)
      /\ \A e, f \in T : e # f => Apart(e, f)
  BY Zenon DEF TreeOK, Overlap
<1>1. CASE Split(T, r.lblk, hi) = {}
  <2>1. es_remove(T, r.lblk, hi) = front \cup aft
    BY <1>1, Zenon DEF es_remove
  <2> QED BY <2>1, Zenon DEF Outside
<1>2. CASE Split(T, r.lblk, hi) # {}
  <2>1. PICK e \in hit : e.lblk < r.lblk /\ ext4_es_end(e) > hi
    BY <1>2, Zenon DEF Split
  <2>2. hit = {e}
    <3> SUFFICES ASSUME NEW f \in hit, f # e PROVE FALSE
      OBVIOUS
    <3>1. /\ f \in ExtentRec /\ e \in ExtentRec /\ Apart(e, f)
          /\ f.lblk <= hi /\ ext4_es_end(f) >= r.lblk
      BY <1>0, Zenon DEF Overlap
    <3> QED BY <2>1, <3>1 DEF Apart, ExtentRec, Interval, ext4_es_end
  <2>3. PICK n \in After(e, hi) : After(e, hi) = {n}
    BY <2>1, Zenon DEF After
  <2>4. aft = {n}
    BY <2>2, <2>3, Zenon
  <2>5. es_remove(T, r.lblk, hi) = es_insert(front, n)
    <3>1. es_remove(T, r.lblk, hi) = es_insert(front, CHOOSE x \in aft : TRUE)
      BY <1>2, Zenon DEF es_remove
    <3> HIDE DEF aft, front, hi
    <3> QED BY <2>4, <3>1, Zenon
  <2>6. /\ e \in ExtentRec /\ Fits(e) /\ e.lblk <= hi /\ ext4_es_end(e) >= r.lblk
    BY <1>0, Zenon DEF Overlap
  <2>7. /\ n \in ExtentRec /\ Fits(n) /\ n.lblk = r.lblk + r.len
        /\ n.lblk >= e.lblk /\ n.lblk + n.len = e.lblk + e.len
    BY <2>3, <2>6, Pieces
  <2>8. n.type = e.type /\ (Mapped(n) => n.pblk + n.len = e.pblk + e.len)
    <3> DEFINE l == hi + 1
               k == ext4_es_end(e) - hi
               b == IF Mapped(e) THEN e.pblk + (hi + 1 - e.lblk) ELSE 0
    <3>1. n = [e EXCEPT !.lblk = l, !.len = k, !.pblk = b]
      BY <2>1, <2>3, Zenon DEF After
    <3>2. Mapped(e) => b + k = e.pblk + e.len
      BY <2>6 DEF ExtentRec, Interval, ext4_es_end
    <3> HIDE DEF l, k, b
    <3>3. n.type = e.type /\ n.len = k /\ n.pblk = b
      BY <2>6, <3>1, Zenon DEF ExtentRec
    <3> QED BY <3>2, <3>3, Zenon DEF Mapped
  <2>9. ASSUME NEW g \in front
        PROVE  ~ext4_es_can_be_merged(g, n) /\ ~ext4_es_can_be_merged(n, g)
    <3>1. CASE g \in out
      <4>1. g \in ExtentRec /\ Apart(g, e)
        BY <1>0, <2>2, <3>1, Zenon
      <4>2. ~ext4_es_can_be_merged(g, n)
        BY <2>1, <2>6, <2>7, <4>1 DEF Apart, ext4_es_can_be_merged, ExtentRec,
           Interval, ext4_es_end
      <4>3. ~ext4_es_can_be_merged(e, g)
        BY <1>0, <3>1, Zenon DEF Canonical
      <4>4. ~ext4_es_can_be_merged(n, g)
        BY <2>6, <2>7, <2>8, <4>1, <4>3, MergeEnds, Zenon
      <4> QED BY <4>2, <4>4, Zenon
    <3>2. CASE g \in bef
      <4>1. g \in ExtentRec /\ g.lblk = e.lblk /\ g.lblk + g.len = r.lblk
        <5>1. g \in Before(e, r.lblk)
          BY <2>2, <3>2, Zenon
        <5> QED BY <2>6, <5>1, Pieces
      <4> QED BY <2>6, <2>7, <4>1 DEF ext4_es_can_be_merged, ExtentRec, Interval
    <3> QED BY <3>1, <3>2, Zenon
  <2>10. Left(front, n) = {} /\ Right(front, n) = {}
    BY <2>9, Zenon DEF Left, Right
  <2> HIDE DEF front
  <2>11. es_insert(front, n) = front \cup {n}
    <3> DEFINE x == [n EXCEPT !.len = n.len + 0 + 0, !.ref = n.ref]
    <3>1. {y.len : y \in Right(front, n)} = {}
      BY <2>10, Zenon
    <3>2. es_insert(front, n) = front \cup {x}
      BY <2>10, <3>1, Zenon DEF es_insert
    <3>3. n.len + 0 + 0 = n.len
      BY <2>7 DEF ExtentRec
    <3>4. x = n
      BY <2>7, <3>3, Zenon DEF ExtentRec
    <3> QED BY <3>2, <3>4, Zenon
  <2>12. es_remove(T, r.lblk, hi) = front \cup aft
    <3> HIDE DEF aft, hi
    <3> QED BY <2>4, <2>5, <2>11, Zenon
  <2> QED BY <2>12, Zenon DEF front, Outside
<1> QED BY <1>1, <1>2, Zenon

\* Where an extent of what is left comes from: it keeps the beginning of an old
\* one, or the end, or both.
LEMMA OutsideParts ==
  ASSUME NEW T, TreeOK(T), NEW r, Interval(r),
         NEW g \in Outside(T, r.lblk, ext4_es_end(r))
  PROVE  \E e \in T :
           /\ g \in ExtentRec /\ Same(g, e)
           /\ g.lblk >= e.lblk /\ g.lblk + g.len <= e.lblk + e.len
           /\ g.lblk = e.lblk \/ g.lblk = r.lblk + r.len
           /\ g.lblk + g.len = e.lblk + e.len \/ g.lblk + g.len = r.lblk
           /\ g.lblk = e.lblk => g.pblk = e.pblk
<1> DEFINE hi == ext4_es_end(r)
           hit == Overlap(T, r.lblk, hi)
<1>0. /\ T \in SUBSET ExtentRec /\ hit \in SUBSET T
      /\ \A e \in T : Fits(e)
      /\ \A e \in hit : e.lblk <= hi /\ ext4_es_end(e) >= r.lblk
  BY Zenon DEF TreeOK, Overlap
<1>1. CASE g \in T \ hit
  <2>1. g \in ExtentRec
    BY <1>0, <1>1, Zenon
  <2> QED BY <1>1, <2>1 DEF Same, ExtentRec
<1>2. ASSUME NEW e \in hit, g \in Before(e, r.lblk)
      PROVE  /\ g \in ExtentRec /\ Same(g, e)
             /\ g.lblk = e.lblk /\ g.lblk + g.len <= e.lblk + e.len
             /\ g.lblk + g.len = r.lblk /\ g.pblk = e.pblk
  <2>1. e \in ExtentRec /\ Fits(e) /\ e.lblk <= hi /\ ext4_es_end(e) >= r.lblk
    BY <1>0, Zenon
  <2>2. /\ g \in ExtentRec /\ g.lblk = e.lblk
        /\ g.lblk + g.len = r.lblk /\ g.lblk + g.len <= e.lblk + e.len
    BY <1>2, <2>1, Pieces
  <2> DEFINE k == r.lblk - e.lblk
  <2>3. g = [e EXCEPT !.len = k]
    BY <1>2, Zenon DEF Before
  <2> HIDE DEF k
  <2>4. g.type = e.type /\ g.pblk = e.pblk
    BY <2>1, <2>3, Zenon DEF ExtentRec
  <2> QED BY <2>2, <2>4, Zenon DEF Same
<1>3. ASSUME NEW e \in hit, g \in After(e, hi)
      PROVE  /\ g \in ExtentRec /\ Same(g, e)
             /\ g.lblk >= e.lblk /\ g.lblk + g.len = e.lblk + e.len
             /\ g.lblk = r.lblk + r.len /\ (g.lblk = e.lblk => g.pblk = e.pblk)
  <2>1. e \in ExtentRec /\ Fits(e) /\ e.lblk <= hi /\ ext4_es_end(e) >= r.lblk
    BY <1>0
  <2>2. /\ g \in ExtentRec /\ g.lblk = r.lblk + r.len
        /\ g.lblk >= e.lblk /\ g.lblk + g.len = e.lblk + e.len
    BY <1>3, <2>1, Pieces
  <2> DEFINE l == hi + 1
             k == ext4_es_end(e) - hi
             b == IF Mapped(e) THEN e.pblk + (hi + 1 - e.lblk) ELSE 0
  <2>3. g = [e EXCEPT !.lblk = l, !.len = k, !.pblk = b]
    BY <1>3, Zenon DEF After
  <2>4. Mapped(e) => b + e.lblk = e.pblk + l
    BY <2>1 DEF ExtentRec, Interval, ext4_es_end
  <2>5. l # e.lblk
    BY <2>1 DEF ExtentRec, Interval, ext4_es_end
  <2> HIDE DEF l, k, b
  <2>6. g.type = e.type /\ g.pblk = b /\ g.lblk = l
    BY <2>1, <2>3, Zenon DEF ExtentRec
  <2> QED BY <2>2, <2>4, <2>5, <2>6, Zenon DEF Same, Mapped
<1>4. CASE g \in UNION {Before(e, r.lblk) : e \in hit}
  <2>1. PICK e \in hit : g \in Before(e, r.lblk)
    BY <1>4, Zenon
  <2>2. g.lblk >= e.lblk
    BY <1>2, <2>1 DEF ExtentRec
  <2> HIDE DEF hit
  <2> QED BY <1>0, <1>2, <2>1, <2>2, Zenon
<1>5. CASE g \in UNION {After(e, hi) : e \in hit}
  <2>1. PICK e \in hit : g \in After(e, hi)
    BY <1>5, Zenon
  <2>2. g.lblk + g.len <= e.lblk + e.len
    BY <1>0, <1>3, <2>1 DEF ExtentRec
  <2> HIDE DEF hit
  <2> QED BY <1>0, <1>3, <2>1, <2>2, Zenon
<1> QED BY <1>1, <1>4, <1>5, Zenon DEF Outside

\* No two extents of what is left could be one.
LEMMA RemoveCanonical ==
  ASSUME NEW T, TreeOK(T), Canonical(T), NEW r, Interval(r)
  PROVE  Canonical(es_remove(T, r.lblk, ext4_es_end(r)))
<1> DEFINE U == Outside(T, r.lblk, ext4_es_end(r))
<1>1. es_remove(T, r.lblk, ext4_es_end(r)) = U
  BY RemovePieces, Zenon
<1>2. \A g \in U : Apart(g, r)
  BY <1>1, RemoveTree, Zenon
<1> SUFFICES ASSUME NEW g \in U, NEW h \in U, ext4_es_can_be_merged(g, h)
             PROVE  FALSE
  BY <1>1, Zenon DEF Canonical
<1>3. PICK e \in T :
        /\ g \in ExtentRec /\ Same(g, e)
        /\ g.lblk >= e.lblk /\ g.lblk + g.len <= e.lblk + e.len
        /\ g.lblk + g.len = e.lblk + e.len \/ g.lblk + g.len = r.lblk
  BY OutsideParts
<1>4. PICK f \in T :
        /\ h \in ExtentRec /\ Same(h, f)
        /\ h.lblk >= f.lblk /\ h.lblk + h.len <= f.lblk + f.len
        /\ h.lblk = f.lblk \/ h.lblk = r.lblk + r.len
        /\ h.lblk = f.lblk => h.pblk = f.pblk
  BY OutsideParts
<1>5. g.lblk + g.len = h.lblk
  BY Zenon DEF ext4_es_can_be_merged
<1>6. e \in ExtentRec /\ f \in ExtentRec
  BY Zenon DEF TreeOK
<1> HIDE DEF U
<1>7. g.lblk + g.len = e.lblk + e.len /\ h.lblk = f.lblk
  BY <1>2, <1>3, <1>4, <1>5, <1>6 DEF Apart, ExtentRec, Interval
<1>8. e.type = g.type /\ (Mapped(g) => e.pblk + e.len = g.pblk + g.len)
  BY <1>3, <1>6, <1>7 DEF Same, ExtentRec
<1>9. f.type = h.type /\ f.pblk = h.pblk
  BY <1>4, <1>7, Zenon DEF Same
<1>10. ext4_es_can_be_merged(e, f)
  BY <1>3, <1>4, <1>6, <1>7, <1>8, <1>9, MergeEnds, Zenon
<1> QED BY <1>10, Zenon DEF Canonical

\* A block outside of the interval keeps the extent that says what is known of
\* it.
LEMMA RemoveKeeps ==
  ASSUME NEW T, TreeOK(T), NEW r, Interval(r), NEW e \in T,
         NEW b \in Nat, Holds(e, b), ~Holds(r, b)
  PROVE  \E g \in Outside(T, r.lblk, ext4_es_end(r)) : Holds(g, b)
<1> DEFINE hi == ext4_es_end(r)
           hit == Overlap(T, r.lblk, hi)
           bef == UNION {Before(x, r.lblk) : x \in hit}
           aft == UNION {After(x, hi) : x \in hit}
<1>0. e \in ExtentRec /\ Fits(e)
  BY Zenon DEF TreeOK
<1>1. Outside(T, r.lblk, hi) = (T \ hit) \cup bef \cup aft
  BY Zenon DEF Outside
<1>2. CASE e \notin hit
  <2> HIDE DEF hit, bef, aft, hi
  <2> QED BY <1>1, <1>2, Zenon DEF hi
<1>3. CASE e \in hit
  <2>0. e.lblk <= hi /\ ext4_es_end(e) >= r.lblk
    BY <1>3, Zenon DEF Overlap
  <2>1. CASE b < r.lblk
    <3>1. e.lblk < r.lblk
      BY <1>0, <2>1 DEF Holds, Interval, ExtentRec
    <3>2. PICK g : g \in Before(e, r.lblk)
      BY <3>1, Zenon DEF Before
    <3>3. g \in ExtentRec /\ g.lblk = e.lblk /\ g.lblk + g.len = r.lblk
      BY <1>0, <2>0, <3>2, Pieces
    <3>4. Holds(g, b)
      BY <2>1, <3>3 DEF Holds, ext4_es_end, ExtentRec, Interval
    <3>5. g \in bef
      BY <1>3, <3>2, Zenon
    <3> HIDE DEF bef, aft, hit, hi
    <3> QED BY <1>1, <3>4, <3>5, Zenon DEF hi
  <2>2. CASE b > hi
    <3>1. ext4_es_end(e) > hi
      BY <1>0, <2>2 DEF Holds, Interval, ExtentRec, ext4_es_end
    <3>2. PICK g : g \in After(e, hi)
      BY <3>1, Zenon DEF After
    <3>3. g \in ExtentRec /\ g.lblk = r.lblk + r.len /\ g.lblk + g.len = e.lblk + e.len
      BY <1>0, <2>0, <3>2, Pieces
    <3>4. Holds(g, b)
      BY <1>0, <2>2, <3>3 DEF Holds, ext4_es_end, ExtentRec, Interval
    <3>5. g \in aft
      BY <1>3, <3>2, Zenon
    <3> HIDE DEF bef, aft, hit, hi
    <3> QED BY <1>1, <3>4, <3>5, Zenon DEF hi
  <2> QED BY <2>1, <2>2 DEF Holds, Interval, ext4_es_end
<1> QED BY <1>2, <1>3, Zenon

-----------------------------------------------------------------------------
(* Marking and reclaiming.                                                 *)

\* e and g differ in their reference flag at most.
Alike(g, e) ==
  /\ g.lblk = e.lblk /\ g.len = e.len
  /\ g.type = e.type /\ g.pblk = e.pblk

\* A set of extents of a tree, some of them marked or unmarked.
LEMMA AlikeCanonical ==
  ASSUME NEW T, Canonical(T), NEW U, \A g \in U : \E e \in T : Alike(g, e)
  PROVE  Canonical(U)
<1> SUFFICES ASSUME NEW g \in U, NEW h \in U, ext4_es_can_be_merged(g, h)
             PROVE  FALSE
  BY Zenon DEF Canonical
<1>1. PICK e \in T : Alike(g, e)
  OBVIOUS
<1>2. PICK f \in T : Alike(h, f)
  OBVIOUS
<1>3. ext4_es_can_be_merged(e, f)
  BY <1>1, <1>2, Zenon DEF Alike, ext4_es_can_be_merged, Mapped, Delayed
<1> QED BY <1>3, Zenon DEF Canonical

LEMMA MarkAlike ==
  ASSUME NEW T, TreeOK(T), NEW e \in T
  PROVE  LET U == (T \ {e}) \cup {[e EXCEPT !.ref = TRUE]}
         IN  /\ \A g \in U : \E f \in T : Alike(g, f)
             /\ \A f \in T : \E g \in U : Alike(g, f)
<1> DEFINE m == [e EXCEPT !.ref = TRUE]
           U == (T \ {e}) \cup {m}
<1>1. e \in ExtentRec
  BY Zenon DEF TreeOK
<1>2. Alike(m, e)
  BY <1>1, Zenon DEF Alike, ExtentRec
<1>3. \A f : Alike(f, f)
  BY Zenon DEF Alike
<1> HIDE DEF m
<1>4. /\ \A g \in U : \E f \in T : Alike(g, f)
      /\ \A f \in T : \E g \in U : Alike(g, f)
  BY <1>2, <1>3, Zenon
<1> QED BY <1>4, Zenon DEF m

\* Reclaim drops extents, and of the others at most the flag; delayed extents
\* stay.
LEMMA ReclaimAlike ==
  ASSUME NEW T, TreeOK(T), NEW S
  PROVE  /\ \A g \in reclaim(T, S) : \E e \in T : Alike(g, e)
         /\ \A e \in T : Delayed(e) => e \in reclaim(T, S)
<1> DEFINE ex == {f \in T \cap S : f.ref /\ ~Delayed(f)}
           keep == {e \in T : e \notin S \/ Delayed(e)}
           c(e) == [e EXCEPT !.ref = FALSE]
           new == {c(e) : e \in ex}
<1>1. reclaim(T, S) = keep \cup new
  BY Zenon DEF reclaim
<1>2. \A e \in ex : e \in T /\ Alike(c(e), e)
  <2> SUFFICES ASSUME NEW e \in ex PROVE e \in T /\ Alike(c(e), e)
    BY Zenon
  <2>1. e \in T /\ e \in ExtentRec
    BY Zenon DEF TreeOK
  <2>2. Alike(c(e), e)
    BY <2>1, Zenon DEF Alike, ExtentRec
  <2> QED BY <2>1, <2>2, Zenon
<1>3. \A e \in keep : e \in T /\ Alike(e, e)
  BY Zenon DEF Alike
<1>4. \A e \in T : Delayed(e) => e \in keep
  OBVIOUS
<1> HIDE DEF keep, ex, c
<1> QED BY <1>1, <1>2, <1>3, <1>4, Zenon

-----------------------------------------------------------------------------
(* cache_es.                                                               *)

LEMMA CacheInsertedStarts ==
  ASSUME NEW T, TreeOK(T), NEW n \in ExtentRec, Fits(n), \A e \in T : Apart(e, n)
  PROVE  Starts(es_insert(T, n), cache_inserted(T, n))
<1> DEFINE U == es_insert(T, n)
           x == CHOOSE e \in U : e.lblk <= n.lblk /\ n.lblk <= ext4_es_end(e)
<1>1. TreeOK(U) /\ \E e \in U : e.lblk <= n.lblk /\ n.lblk + n.len <= e.lblk + e.len
  BY InsertTree, Zenon
<1>2. U \in SUBSET ExtentRec
  BY <1>1, Zenon DEF TreeOK
<1>3. \E e \in U : e.lblk <= n.lblk /\ n.lblk <= ext4_es_end(e)
  BY <1>1, <1>2 DEF ExtentRec, ext4_es_end
<1>4. x \in U
  BY <1>3, Zenon
<1>5. cache_inserted(T, n) = x.lblk
  BY Zenon DEF cache_inserted
<1> HIDE DEF x, U
<1> QED BY <1>4, <1>5, Zenon DEF Starts, U

LEMMA CacheRemovedStarts ==
  ASSUME NEW T, TreeOK(T), Canonical(T), NEW c, Starts(T, c), NEW r, Interval(r)
  PROVE  LET hi == ext4_es_end(r)
         IN  Starts(es_remove(T, r.lblk, hi), cache_removed(T, c, r.lblk, hi))
<1> DEFINE hi == ext4_es_end(r)
           hit == Overlap(T, r.lblk, hi)
<1>0. es_remove(T, r.lblk, hi) = Outside(T, r.lblk, hi)
  BY RemovePieces, Zenon
<1>1. CASE hit = {}
  <2>1. Outside(T, r.lblk, hi) = T
    BY <1>1, Zenon DEF Outside
  <2>2. cache_removed(T, c, r.lblk, hi) = c
    BY <1>1, Zenon DEF cache_removed
  <2> QED BY <1>0, <2>1, <2>2, Zenon
<1>2. CASE hit # {} /\ Split(T, r.lblk, hi) = {}
  <2>1. cache_removed(T, c, r.lblk, hi) = None
    BY <1>2, Zenon DEF cache_removed
  <2> QED BY <2>1, Zenon DEF Starts
<1>3. CASE hit # {} /\ Split(T, r.lblk, hi) # {}
  <2>1. cache_removed(T, c, r.lblk, hi) = hi + 1
    BY <1>3, Zenon DEF cache_removed
  <2>2. PICK e \in hit : e \in T /\ e.lblk < r.lblk /\ ext4_es_end(e) > hi
    BY <1>3, Zenon DEF Split, Overlap
  <2>3. PICK g : g \in After(e, hi)
    BY <2>2, Zenon DEF After
  <2>4. e \in ExtentRec /\ Fits(e) /\ e.lblk <= hi /\ ext4_es_end(e) >= r.lblk
    BY <2>2, Zenon DEF TreeOK, Overlap
  <2>5. g.lblk = r.lblk + r.len
    BY <2>3, <2>4, Pieces
  <2>6. g.lblk = hi + 1
    BY <2>5 DEF Interval, ext4_es_end
  <2>7. g \in Outside(T, r.lblk, hi)
    BY <2>3, Zenon DEF Outside
  <2> HIDE DEF hi
  <2> QED BY <1>0, <2>1, <2>6, <2>7, Zenon DEF Starts, hi
<1> QED BY <1>1, <1>2, <1>3, Zenon

=============================================================================
