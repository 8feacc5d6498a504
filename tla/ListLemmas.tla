----------------------------- MODULE ListLemmas -----------------------------
(***************************************************************************)
(* Facts about the sequences that stand for the kernel's doubly linked     *)
(* lists: what adding at an end and taking out of the middle do to the     *)
(* members of a list that holds nothing twice.                             *)
(***************************************************************************)
EXTENDS KernelList, TLAPS

\* No element is on the list twice.
NoDup(s) == \A j, k \in 1 .. Len(s) : s[j] = s[k] => j = k

\* Two lists in a row.
LEMMA JoinSeq ==
  ASSUME NEW S, NEW a \in Seq(S), NEW b \in Seq(S)
  PROVE  a \o b \in Seq(S) /\ Len(a \o b) = Len(a) + Len(b)
OBVIOUS

\* Taking the k-th element out: the elements before it stay where they are,
\* those behind it move up.
LEMMA RemoveAtSeq ==
  ASSUME NEW S, NEW s \in Seq(S), NEW k \in 1 .. Len(s)
  PROVE  /\ RemoveAt(s, k) \in Seq(S)
         /\ Len(RemoveAt(s, k)) = Len(s) - 1
         /\ \A j \in 1 .. k - 1 : RemoveAt(s, k)[j] = s[j]
         /\ \A j \in k .. Len(s) - 1 : RemoveAt(s, k)[j] = s[j + 1]
<1> DEFINE a == SubSeq(s, 1, k - 1)
           b == SubSeq(s, k + 1, Len(s))
<1>1. /\ a \in Seq(S) /\ Len(a) = k - 1
      /\ \A j \in 1 .. k - 1 : a[j] = s[j]
  OBVIOUS
<1>2. /\ b \in Seq(S) /\ Len(b) = Len(s) - k
      /\ \A j \in 1 .. Len(s) - k : b[j] = s[k + j]
  OBVIOUS
<1>3. RemoveAt(s, k) = a \o b
  BY DEF RemoveAt
<1> HIDE DEF a, b
<1>4. /\ a \o b \in Seq(S)
      /\ Len(a \o b) = Len(s) - 1
  <2>1. a \o b \in Seq(S) /\ Len(a \o b) = Len(a) + Len(b)
    BY <1>1, <1>2, JoinSeq
  <2> QED BY <1>1, <1>2, <2>1
<1>5. ASSUME NEW j \in 1 .. k - 1 PROVE (a \o b)[j] = s[j]
  BY <1>1, <1>2
<1>6. ASSUME NEW j \in k .. Len(s) - 1 PROVE (a \o b)[j] = s[j + 1]
  <2>1. /\ (a \o b)[j] = b[j - Len(a)]
        /\ j - Len(a) \in 1 .. Len(s) - k
        /\ k + (j - Len(a)) = j + 1
    BY <1>1, <1>2
  <2> QED BY <1>2, <2>1
<1> QED
  BY <1>3, <1>4, <1>5, <1>6

\* Taking an element out of a list without duplicates removes it and nothing
\* else.
LEMMA RemoveAtMembers ==
  ASSUME NEW S, NEW s \in Seq(S), NoDup(s), NEW k \in 1 .. Len(s)
  PROVE  /\ NoDup(RemoveAt(s, k))
         /\ \A x : Contains(RemoveAt(s, k), x) <=> Contains(s, x) /\ x # s[k]
<1> DEFINE r == RemoveAt(s, k)
<1>1. /\ r \in Seq(S) /\ Len(r) = Len(s) - 1
      /\ \A j \in 1 .. k - 1 : r[j] = s[j]
      /\ \A j \in k .. Len(s) - 1 : r[j] = s[j + 1]
  BY RemoveAtSeq
<1> HIDE DEF r
<1> DEFINE old(j) == IF j < k THEN j ELSE j + 1
<1>2. NoDup(r)
  <2> SUFFICES ASSUME NEW i \in 1 .. Len(r), NEW j \in 1 .. Len(r), r[i] = r[j]
               PROVE  i = j
    BY DEF NoDup
  <2>1. r[i] = s[old(i)] /\ r[j] = s[old(j)]
    BY <1>1
  <2>2. old(i) \in 1 .. Len(s) /\ old(j) \in 1 .. Len(s)
    BY <1>1
  <2>3. old(i) = old(j)
    BY <2>1, <2>2 DEF NoDup
  <2> QED BY <2>3, <1>1
<1>3. ASSUME NEW x, Contains(r, x) PROVE Contains(s, x) /\ x # s[k]
  <2>1. PICK j \in 1 .. Len(r) : r[j] = x
    BY <1>3 DEF Contains
  <2>2. old(j) \in 1 .. Len(s) /\ s[old(j)] = x /\ old(j) # k
    BY <1>1, <2>1
  <2> QED BY <2>2 DEF Contains, NoDup
<1>4. ASSUME NEW x, Contains(s, x), x # s[k] PROVE Contains(r, x)
  <2>1. PICK j \in 1 .. Len(s) : s[j] = x
    BY <1>4 DEF Contains
  <2>2. CASE j < k
    BY <1>1, <2>1, <2>2 DEF Contains
  <2>3. CASE j > k
    <3>1. j - 1 \in k .. Len(s) - 1 /\ r[j - 1] = x
      BY <1>1, <2>1, <2>3
    <3> QED BY <1>1, <3>1 DEF Contains
  <2> QED BY <2>1, <2>2, <2>3, <1>4
<1> QED
  BY <1>2, <1>3, <1>4 DEF r

\* Adding an element that is not on the list, at either end.
LEMMA AddMembers ==
  ASSUME NEW S, NEW s \in Seq(S), NoDup(s), NEW e \in S, ~Contains(s, e)
  PROVE  /\ NoDup(Append(s, e)) /\ Append(s, e) \in Seq(S)
         /\ \A x : Contains(Append(s, e), x) <=> Contains(s, x) \/ x = e
         /\ NoDup(<<e>> \o s) /\ <<e>> \o s \in Seq(S)
         /\ \A x : Contains(<<e>> \o s, x) <=> Contains(s, x) \/ x = e
<1>1. NoDup(Append(s, e)) /\ Append(s, e) \in Seq(S)
  BY DEF NoDup, Contains
<1>2. \A x : Contains(Append(s, e), x) <=> Contains(s, x) \/ x = e
  BY DEF Contains
<1> DEFINE c == <<e>> \o s
<1>3. /\ c \in Seq(S) /\ Len(c) = Len(s) + 1 /\ c[1] = e
      /\ \A j \in 1 .. Len(s) : c[j + 1] = s[j]
      /\ \A j \in 2 .. Len(s) + 1 : c[j] = s[j - 1]
  OBVIOUS
<1> HIDE DEF c
<1>4. NoDup(c)
  <2> SUFFICES ASSUME NEW i \in 1 .. Len(c), NEW j \in 1 .. Len(c), c[i] = c[j], i < j
               PROVE  FALSE
    BY <1>3 DEF NoDup
  <2>1. j - 1 \in 1 .. Len(s) /\ c[j] = s[j - 1]
    BY <1>3
  <2>2. CASE i = 1
    BY <1>3, <2>1, <2>2 DEF Contains
  <2>3. CASE i # 1
    <3>1. i - 1 \in 1 .. Len(s) /\ c[i] = s[i - 1]
      BY <1>3, <2>3
    <3> QED BY <2>1, <3>1 DEF NoDup
  <2> QED BY <2>2, <2>3
<1>5. ASSUME NEW x, Contains(c, x) PROVE Contains(s, x) \/ x = e
  <2>1. PICK j \in 1 .. Len(c) : c[j] = x
    BY <1>5 DEF Contains
  <2>2. CASE j = 1
    BY <1>3, <2>1, <2>2
  <2>3. CASE j # 1
    <3>1. j - 1 \in 1 .. Len(s) /\ s[j - 1] = x
      BY <1>3, <2>1, <2>3
    <3> QED BY <3>1 DEF Contains
  <2> QED BY <2>2, <2>3
<1>6. ASSUME NEW x, Contains(s, x) PROVE Contains(c, x)
  <2>1. PICK j \in 1 .. Len(s) : s[j] = x
    BY <1>6 DEF Contains
  <2>2. j + 1 \in 1 .. Len(c) /\ c[j + 1] = x
    BY <1>3, <2>1
  <2> QED BY <2>2 DEF Contains
<1>7. Contains(c, e)
  <2>1. 1 \in 1 .. Len(c) /\ c[1] = e
    BY <1>3
  <2> QED BY <2>1 DEF Contains
<1> QED BY <1>1, <1>2, <1>3, <1>4, <1>5, <1>6, <1>7 DEF c

\* Moving the first element to the end keeps the members.
LEMMA RotateMembers ==
  ASSUME NEW S, NEW s \in Seq(S), NoDup(s), s # <<>>
  PROVE  /\ Append(Tail(s), Head(s)) \in Seq(S)
         /\ NoDup(Append(Tail(s), Head(s)))
         /\ \A x : Contains(Append(Tail(s), Head(s)), x) <=> Contains(s, x)
<1> DEFINE t == Append(Tail(s), Head(s))
<1>1. /\ t \in Seq(S) /\ Len(t) = Len(s) /\ Len(s) > 0
      /\ \A j \in 1 .. Len(s) - 1 : t[j] = s[j + 1]
      /\ t[Len(s)] = s[1]
      /\ \A j \in 2 .. Len(s) : s[j] = t[j - 1]
  OBVIOUS
<1> HIDE DEF t
<1> DEFINE old(j) == IF j = Len(s) THEN 1 ELSE j + 1
<1>2. NoDup(t)
  <2> SUFFICES ASSUME NEW i \in 1 .. Len(t), NEW j \in 1 .. Len(t), t[i] = t[j]
               PROVE  i = j
    BY DEF NoDup
  <2>1. t[i] = s[old(i)] /\ t[j] = s[old(j)]
    BY <1>1
  <2>2. old(i) \in 1 .. Len(s) /\ old(j) \in 1 .. Len(s)
    BY <1>1
  <2>3. old(i) = old(j)
    BY <2>1, <2>2 DEF NoDup
  <2> QED BY <2>3, <1>1
<1>3. ASSUME NEW x, Contains(t, x) PROVE Contains(s, x)
  <2>1. PICK j \in 1 .. Len(t) : t[j] = x
    BY <1>3 DEF Contains
  <2>2. old(j) \in 1 .. Len(s) /\ s[old(j)] = x
    BY <1>1, <2>1
  <2> QED BY <2>2 DEF Contains
<1>4. ASSUME NEW x, Contains(s, x) PROVE Contains(t, x)
  <2>1. PICK j \in 1 .. Len(s) : s[j] = x
    BY <1>4 DEF Contains
  <2>2. CASE j = 1
    <3>1. Len(s) \in 1 .. Len(t) /\ t[Len(s)] = x
      BY <1>1, <2>1, <2>2
    <3> QED BY <3>1 DEF Contains
  <2>3. CASE j # 1
    <3>1. j - 1 \in 1 .. Len(t) /\ t[j - 1] = x
      BY <1>1, <2>1, <2>3
    <3> QED BY <3>1 DEF Contains
  <2> QED BY <2>2, <2>3
<1> QED BY <1>1, <1>2, <1>3, <1>4 DEF t

=============================================================================
