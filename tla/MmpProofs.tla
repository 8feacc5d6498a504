----------------------------- MODULE MmpProofs -----------------------------
(***************************************************************************)
(* A mount that waited excludes every other one (mmp.c), for every number  *)
(* of nodes, every update and check interval and every counter range, as   *)
(* long as every node is timely.                                           *)
(*                                                                         *)
(* The argument rests on the second wait of ext4_multi_mount_protect().    *)
(* While the random number of a mount stands in the block nobody has       *)
(* written since; a kmmpd that is alive writes within Gap ticks, a mount   *)
(* that is about to write does it within Delay ticks, so after a wait      *)
(* longer than Gap nobody else is left who relies on the block.            *)
(***************************************************************************)
EXTENDS Mmp, FiniteSetTheorems, TLAPS

\* The longest time between two writes of a kmmpd: its sleep, and two steps
\* that are late.
Gap == UpdateInterval + 2 * Delay

\* The least mmp_check_interval of a mount, and the wait it leads to.
LeastCheck == Max({UpdateInterval, MinCheck})
LeastWait == Min({2 * LeastCheck + 1, LeastCheck + WaitCap})

\* No kmmpd oversleeps, and steps are late by little enough for a wait to be
\* longer than the time between two writes: with the constants of the code
\* (minimum 5 seconds, update every 5 seconds) by less than three seconds.
Timely == ~Stall /\ Gap < LeastWait

\* A node whose kmmpd may still write the block.
Active(n) == pc[n] \in {"kwrite", "ksleep", "kstop"}

\* The random number of node m stands in the block.
Holds(m) == pc[m] = "wait2" /\ block.seq = seq[m]

\* What is true of each node by itself.
NodeInv ==
  \A n \in Nodes :
    /\ wait[n] <= 2 * CheckBound + 1
    /\ wait[n] = 0 \/ wait[n] > Gap
    /\ pc[n] = "wait1" => wait[n] > Gap
    /\ pc[n] = "wait2" => seq[n] \in Rands
    /\ Active(n) => seq[n] \in Nums
    /\ pc[n] # "down" => t[n] <= Deadline(n)

\* The numbers of two mounts in their second wait differ.
SeqInv ==
  \A m, n \in Nodes :
    m # n /\ pc[m] = "wait2" /\ pc[n] = "wait2" => seq[m] # seq[n]

\* While the number of m stands in the block no other node has written since
\* m did: what the others rely on is at least as old.
Older(m, n) ==
  /\ pc[n] \in {"wait2", "ksleep"} => t[n] >= t[m]
  /\ pc[n] = "write" => t[n] >= t[m] \/ wait[n] > 0
  /\ pc[n] \in {"kwrite", "kstop"} => t[m] <= t[n] + UpdateInterval + Delay

HoldInv == \A m, n \in Nodes : m # n /\ Holds(m) => Older(m, n)

\* A node that is active after it waited is alone, and no mount that found a
\* clean block is under way.
Alone(m) ==
  /\ block.seq # Clean
  /\ \A n \in Nodes \ {m} :
       ~Active(n) /\ (pc[n] \in {"write", "wait2"} => wait[n] > 0)

AloneInv == \A m \in Nodes : Active(m) /\ wait[m] > 0 => Alone(m)

MmpInv == TypeOK /\ NodeInv /\ SeqInv /\ HoldInv /\ AloneInv

-----------------------------------------------------------------------------
(* Numbers.                                                                *)

\* The largest and the smallest of a few numbers.
LEMMA MaxOfTwo ==
  ASSUME NEW a \in Nat, NEW b \in Nat
  PROVE  /\ Max({a, b}) \in {a, b}
         /\ Max({a, b}) >= a /\ Max({a, b}) >= b
<1>1. \E x \in {a, b} : \A y \in {a, b} : x >= y
  OBVIOUS
<1> QED
  BY <1>1 DEF Max

LEMMA MaxOfThree ==
  ASSUME NEW a \in Nat, NEW b \in Nat, NEW c \in Nat
  PROVE  /\ Max({a, b, c}) \in {a, b, c}
         /\ Max({a, b, c}) >= a /\ Max({a, b, c}) >= b /\ Max({a, b, c}) >= c
<1>1. \E x \in {a, b, c} : \A y \in {a, b, c} : x >= y
  OBVIOUS
<1> QED
  BY <1>1 DEF Max

LEMMA MinOfTwo ==
  ASSUME NEW a \in Nat, NEW b \in Nat
  PROVE  /\ Min({a, b}) \in {a, b}
         /\ Min({a, b}) <= a /\ Min({a, b}) <= b
<1>1. \E x \in {a, b} : \A y \in {a, b} : x =< y
  OBVIOUS
<1> QED
  BY <1>1 DEF Min

\* The sizes of the intervals (EXT4_MMP_CHECK_MULT is 2).
LEMMA CheckBounds ==
  /\ UpdateInterval \in Nat \ {0} /\ MinCheck \in Nat \ {0} /\ MaxCheck \in Nat \ {0}
  /\ Delay \in Nat /\ WaitCap \in Nat /\ SeqMax \in Nat \ {0} /\ Stall \in BOOLEAN
  /\ first_check \in Nat /\ CheckBound \in Nat
  /\ first_check <= CheckBound /\ MaxCheck <= CheckBound /\ MinCheck <= CheckBound
  /\ UpdateInterval < CheckBound
  /\ Horizon = 2 * CheckBound + Delay + 2 /\ Horizon \in Nat
  /\ Gap = UpdateInterval + 2 * Delay /\ Gap \in Nat
<1>1. /\ UpdateInterval \in Nat \ {0} /\ MinCheck \in Nat \ {0} /\ MaxCheck \in Nat \ {0}
      /\ Delay \in Nat /\ WaitCap \in Nat /\ SeqMax \in Nat \ {0} /\ Stall \in BOOLEAN
      /\ MinCheck <= MaxCheck
  BY ConstantsAssumption
<1>2. /\ first_check \in {2 * UpdateInterval, MinCheck}
      /\ first_check >= 2 * UpdateInterval
  BY <1>1, MaxOfTwo DEF first_check
<1>3. /\ CheckBound \in {MaxCheck, first_check}
      /\ CheckBound >= MaxCheck /\ CheckBound >= first_check
  BY <1>1, <1>2, MaxOfTwo DEF CheckBound
<1> QED
  BY <1>1, <1>2, <1>3 DEF Horizon, Gap

\* The wait of a mount that does not find the block clean.
LEMMA WaitBounds ==
  ASSUME Timely, NEW b \in Blocks
  PROVE  /\ wait_time(b) \in 0 .. 2 * CheckBound + 1
         /\ wait_time(b) > Gap
<1> DEFINE c == b.check
<1>1. c \in 0 .. CheckBound /\ c \in Nat
  BY CheckBounds DEF Blocks
<1> DEFINE m == mount_check(b)
<1>2. /\ m \in {UpdateInterval, MinCheck, c}
      /\ m >= UpdateInterval /\ m >= MinCheck
  BY <1>1, CheckBounds, MaxOfThree DEF mount_check
<1>3. m \in Nat /\ m <= CheckBound
  BY <1>1, <1>2, CheckBounds
<1>4. LeastCheck \in {UpdateInterval, MinCheck}
  BY CheckBounds, MaxOfTwo DEF LeastCheck
<1>5. LeastCheck \in Nat /\ LeastCheck <= m
  BY <1>2, <1>3, <1>4, CheckBounds
<1>6. /\ LeastWait <= 2 * LeastCheck + 1 /\ LeastWait <= LeastCheck + WaitCap
      /\ LeastWait \in {2 * LeastCheck + 1, LeastCheck + WaitCap}
  BY <1>5, CheckBounds, MinOfTwo DEF LeastWait
<1>7. /\ wait_time(b) \in {2 * m + 1, m + WaitCap}
      /\ wait_time(b) <= 2 * m + 1
  BY <1>3, CheckBounds, MinOfTwo DEF wait_time
<1>8. Gap < LeastWait
  BY DEF Timely
<1> HIDE DEF m, c
<1> QED
  BY <1>3, <1>5, <1>6, <1>7, <1>8, CheckBounds

LEMMA AdjustedBounds ==
  ASSUME NEW d \in Nat
  PROVE  adjusted_check(d) \in 0 .. CheckBound
<1>1. /\ Min({2 * d, MaxCheck}) \in {2 * d, MaxCheck}
      /\ Min({2 * d, MaxCheck}) <= MaxCheck
  BY CheckBounds, MinOfTwo
<1> DEFINE c == Min({2 * d, MaxCheck})
<1>2. c \in Nat /\ c <= MaxCheck
  BY <1>1, CheckBounds
<1>3. adjusted_check(d) \in {c, MinCheck}
  BY <1>2, CheckBounds, MaxOfTwo DEF adjusted_check
<1> HIDE DEF c
<1> QED
  BY <1>2, <1>3, CheckBounds

\* The four kinds of sequence numbers differ, and random ones are told apart.
LEMMA SeqKinds ==
  /\ Clean \notin Nums /\ Clean \notin Rands /\ Clean # Fsck
  /\ \A x \in Nums : x \notin Rands
  /\ Clean \in Seqs /\ Nums \subseteq Seqs /\ Rands \subseteq Seqs
  /\ \A j, k : Rand(j) = Rand(k) => j = k
<1>1. /\ \A k : Clean # Num(k) /\ Clean # Rand(k)
      /\ Clean # Fsck
      /\ \A j, k : Num(j) # Rand(k)
  BY SMT DEF Clean, Fsck, Num, Rand
<1>2. \A j, k : Rand(j) = Rand(k) => j = k
  BY SMT DEF Rand
<1> QED
  BY <1>1, <1>2, Zenon DEF Nums, Rands, Seqs

\* kmmpd counts from 1 to SeqMax.
LEMMA NextSeq ==
  ASSUME NEW s \in Nums
  PROVE  next_seq(s) \in Nums
<1> PICK k \in 1 .. SeqMax : s = Num(k)
  BY Zenon DEF Nums
<1>1. s[2] = k
  BY SMT DEF Num
<1>2. (k % SeqMax) + 1 \in 1 .. SeqMax
  BY CheckBounds
<1> QED
  BY <1>1, <1>2, Zenon DEF next_seq, Nums

LEMMA FirstNumber == Num(SeqMax) \in Nums
  BY CheckBounds DEF Nums

\* A random number that nobody knows is left: there are more of them than the
\* nodes and the block can hold.
LEMMA FreshNumber ==
  /\ mmp_new_seq \in Rands
  /\ mmp_new_seq # block.seq
  /\ \A n \in Nodes : mmp_new_seq # seq[n]
<1> DEFINE Fresh(r) == r # block.seq /\ \A n \in Nodes : r # seq[n]
           N == Cardinality(Nodes)
<1>1. IsFiniteSet(Nodes)
  BY ConstantsAssumption
<1>2. N \in Nat
  BY <1>1, FS_CardinalityType
<1>3. ASSUME \A r \in Rands : ~Fresh(r) PROVE FALSE
  <2> PICK x : x \notin Nodes
    BY NoSetContainsEverything
  <2> DEFINE S == 1 .. N + 2
             T == Nodes \cup {x}
             f == [k \in S |-> IF Rand(k) = block.seq THEN x
                               ELSE CHOOSE n \in Nodes : Rand(k) = seq[n]]
  <2>1. IsFiniteSet(T) /\ Cardinality(T) = N + 1
    BY <1>1, FS_AddElement
  <2>2. IsFiniteSet(S) /\ Cardinality(S) = N + 2
    BY <1>2, FS_Interval
  <2>3. ASSUME NEW k \in S
        PROVE  /\ f[k] \in T
               /\ f[k] = x => Rand(k) = block.seq
               /\ f[k] # x => Rand(k) = seq[f[k]]
    <3>1. CASE Rand(k) = block.seq
      BY <3>1, Zenon
    <3>2. CASE Rand(k) # block.seq
      <4>1. Rand(k) \in Rands
        BY Zenon DEF Rands
      <4>2. \E n \in Nodes : Rand(k) = seq[n]
        BY <1>3, <3>2, <4>1, Zenon
      <4>3. f[k] = CHOOSE n \in Nodes : Rand(k) = seq[n]
        BY <3>2, Zenon
      <4> HIDE DEF f
      <4> QED
        BY <4>2, <4>3, Zenon
    <3> QED
      BY <3>1, <3>2
  <2>4. f \in [S -> T]
    BY <2>3, Zenon
  <2> HIDE DEF f, S, T
  <2>5. PICK j, k \in S : j # k /\ f[j] = f[k]
    <3>1. Cardinality(T) < Cardinality(S)
      BY <1>2, <2>1, <2>2
    <3> QED
      BY <2>1, <2>2, <2>4, <3>1, FS_PigeonHole, Zenon
  <2>6. Rand(j) = Rand(k)
    BY <2>3, <2>5, Zenon
  <2> QED
    BY <2>5, <2>6, SeqKinds, Zenon
<1> QED
  BY <1>3, Zenon DEF mmp_new_seq

-----------------------------------------------------------------------------
(* Steps of one node.                                                      *)

\* Nothing that belongs to another node changes.
Only(n) ==
  \A k \in Nodes \ {n} :
    pc'[k] = pc[k] /\ seq'[k] = seq[k] /\ wait'[k] = wait[k] /\ t'[k] = t[k]

\* NodeInv for one node.
NodeOK(n) ==
  /\ wait[n] <= 2 * CheckBound + 1
  /\ wait[n] = 0 \/ wait[n] > Gap
  /\ pc[n] = "wait1" => wait[n] > Gap
  /\ pc[n] = "wait2" => seq[n] \in Rands
  /\ Active(n) => seq[n] \in Nums
  /\ pc[n] # "down" => t[n] <= Deadline(n)

\* A mount whose number stands in the block has waited when no other node is
\* active and no other one is about to write because it found the block clean.
LEMMA WaitExcludes ==
  ASSUME Timely, MmpInv, NEW m \in Nodes, Holds(m), t[m] >= wait[m], wait[m] > 0
  PROVE  Alone(m)
<1>1. block.seq # Clean
  BY SeqKinds, Zenon DEF MmpInv, NodeInv, Holds
<1>2. /\ wait[m] \in Nat /\ t[m] \in Nat /\ t[m] > Gap
  BY CheckBounds DEF MmpInv, TypeOK, NodeInv
<1>3. ASSUME NEW n \in Nodes \ {m}
      PROVE  ~Active(n) /\ (pc[n] \in {"write", "wait2"} => wait[n] > 0)
  <2>1. Older(m, n)
    BY Zenon DEF MmpInv, HoldInv
  <2>2. pc[n] \in Pcs /\ t[n] \in Nat /\ wait[n] \in Nat
    BY CheckBounds DEF MmpInv, TypeOK
  <2>3. pc[n] # "down" => t[n] <= Deadline(n)
    BY Zenon DEF MmpInv, NodeInv
  <2>4. ~Stall
    BY DEF Timely
  <2>5. CASE pc[n] = "ksleep"
    BY <1>2, <2>1, <2>2, <2>3, <2>4, <2>5, CheckBounds DEF Older, Deadline
  <2>6. CASE pc[n] \in {"kwrite", "kstop"}
    BY <1>2, <2>1, <2>2, <2>3, <2>6, CheckBounds DEF Older, Deadline
  <2>7. CASE pc[n] = "write"
    BY <1>2, <2>1, <2>2, <2>3, <2>7, CheckBounds DEF Older, Deadline, Active
  <2>8. CASE pc[n] = "wait2"
    BY <1>2, <2>1, <2>2, <2>3, <2>8, CheckBounds DEF Older, Deadline, Active
  <2>9. CASE pc[n] \in {"down", "wait1"}
    BY <2>9 DEF Active
  <2> QED
    BY <2>2, <2>5, <2>6, <2>7, <2>8, <2>9 DEF Pcs
<1> QED
  BY <1>1, <1>3, Zenon DEF Alone

\* A step of node n that does not write the block.
LEMMA QuietStep ==
  ASSUME Timely, MmpInv, TypeOK', NEW n \in Nodes, Only(n), block' = block,
         NodeOK(n)', pc'[n] # "wait2",
         \A m \in Nodes \ {n} : Holds(m) => Older(m, n)',
         \A m \in Nodes \ {n} :
           Active(m) /\ wait[m] > 0 => ~Active(n)' /\ (pc'[n] = "write" => wait'[n] > 0),
         Active(n)' /\ wait'[n] > 0 => Alone(n)
  PROVE  MmpInv'
<1>1. NodeInv'
  <2> SUFFICES ASSUME NEW k \in Nodes PROVE NodeOK(k)'
    BY Zenon DEF NodeInv, NodeOK
  <2>1. CASE k = n
    BY <2>1
  <2>2. CASE k # n
    <3>1. pc'[k] = pc[k] /\ seq'[k] = seq[k] /\ wait'[k] = wait[k] /\ t'[k] = t[k]
      BY <2>2 DEF Only
    <3>2. NodeOK(k)
      BY DEF MmpInv, NodeInv, NodeOK
    <3> QED
      BY <3>1, <3>2, Zenon DEF NodeOK, Active, Deadline
  <2> QED
    BY <2>1, <2>2
<1>2. SeqInv'
  BY Zenon DEF MmpInv, SeqInv, Only
<1>3. HoldInv'
  <2> SUFFICES ASSUME NEW m \in Nodes, NEW k \in Nodes, m # k, Holds(m)' PROVE Older(m, k)'
    BY Zenon DEF HoldInv
  <2>1. m # n
    BY Zenon DEF Holds
  <2>2. pc'[m] = pc[m] /\ seq'[m] = seq[m] /\ t'[m] = t[m]
    BY <2>1, Zenon DEF Only
  <2>3. Holds(m)
    BY <2>2, Zenon DEF Holds
  <2>4. CASE k = n
    BY <2>1, <2>3, <2>4, Zenon
  <2>5. CASE k # n
    <3>1. pc'[k] = pc[k] /\ t'[k] = t[k] /\ wait'[k] = wait[k]
      BY <2>5, Zenon DEF Only
    <3>2. Older(m, k)
      BY <2>3, Zenon DEF MmpInv, HoldInv
    <3> QED
      BY <2>2, <3>1, <3>2, Zenon DEF Older
  <2> QED
    BY <2>4, <2>5
<1>4. AloneInv'
  <2> SUFFICES ASSUME NEW m \in Nodes, Active(m)', wait'[m] > 0 PROVE Alone(m)'
    BY Zenon DEF AloneInv
  <2>1. CASE m = n
    <3>1. Alone(n)
      BY <2>1, Zenon
    <3> QED
      BY <2>1, <3>1, Zenon DEF Alone, Active, Only
  <2>2. CASE m # n
    <3>1. pc'[m] = pc[m] /\ wait'[m] = wait[m]
      BY <2>2, Zenon DEF Only
    <3>2. Active(m) /\ wait[m] > 0
      BY <3>1, Zenon DEF Active
    <3>3. Alone(m)
      BY <3>2, Zenon DEF MmpInv, AloneInv
    <3>4. ~Active(n)' /\ (pc'[n] \in {"write", "wait2"} => wait'[n] > 0)
      BY <2>2, <3>2, Zenon
    <3>5. ASSUME NEW k \in Nodes \ {m}
          PROVE  (~Active(k) /\ (pc[k] \in {"write", "wait2"} => wait[k] > 0))'
      BY <3>3, <3>4, Zenon DEF Alone, Active, Only
    <3> QED
      BY <3>3, <3>5, Zenon DEF Alone
  <2> QED
    BY <2>1, <2>2
<1> QED
  BY <1>1, <1>2, <1>3, <1>4 DEF MmpInv

\* A step of node n that writes the block, with a number no mount waits for.
LEMMA WritingStep ==
  ASSUME Timely, MmpInv, TypeOK', NEW n \in Nodes, Only(n), NodeOK(n)',
         t'[n] = 0,
         \A m \in Nodes \ {n} : pc[m] = "wait2" => block'.seq # seq[m] /\ seq'[n] # seq[m],
         block'.seq = Clean => Active(n) /\ ~Active(n)',
         Active(n)' => Active(n) /\ wait'[n] = wait[n],
         pc'[n] = "wait2" => pc[n] = "write" /\ wait'[n] = wait[n],
         pc'[n] # "write"
  PROVE  MmpInv'
<1>1. NodeInv'
  <2> SUFFICES ASSUME NEW k \in Nodes PROVE NodeOK(k)'
    BY Zenon DEF NodeInv, NodeOK
  <2>1. CASE k = n
    BY <2>1
  <2>2. CASE k # n
    <3>1. pc'[k] = pc[k] /\ seq'[k] = seq[k] /\ wait'[k] = wait[k] /\ t'[k] = t[k]
      BY <2>2 DEF Only
    <3>2. NodeOK(k)
      BY DEF MmpInv, NodeInv, NodeOK
    <3> QED
      BY <3>1, <3>2, Zenon DEF NodeOK, Active, Deadline
  <2> QED
    BY <2>1, <2>2
<1>2. SeqInv'
  <2> SUFFICES ASSUME NEW m \in Nodes, NEW k \in Nodes, m # k,
                      pc'[m] = "wait2", pc'[k] = "wait2"
               PROVE  seq'[m] # seq'[k]
    BY Zenon DEF SeqInv
  <2>1. CASE m # n /\ k # n
    BY <2>1, Zenon DEF MmpInv, SeqInv, Only
  <2>2. CASE m = n
    BY <2>2, Zenon DEF Only
  <2>3. CASE k = n
    BY <2>3, Zenon DEF Only
  <2> QED
    BY <2>1, <2>2, <2>3
<1>3. HoldInv'
  <2> SUFFICES ASSUME NEW m \in Nodes, NEW k \in Nodes, m # k, Holds(m)' PROVE Older(m, k)'
    BY Zenon DEF HoldInv
  <2>1. m = n
    BY Zenon DEF Holds, Only
  <2>2. t'[k] \in Nat /\ t'[m] = 0
    BY <2>1, CheckBounds DEF TypeOK
  <2> QED
    BY <2>2, CheckBounds DEF Older
<1>4. AloneInv'
  <2> SUFFICES ASSUME NEW m \in Nodes, Active(m)', wait'[m] > 0 PROVE Alone(m)'
    BY Zenon DEF AloneInv
  <2>1. Active(m) /\ wait[m] > 0
    BY Zenon DEF Only, Active
  <2>2. Alone(m)
    BY <2>1, Zenon DEF MmpInv, AloneInv
  <2>3. block'.seq # Clean
    BY <2>2, Zenon DEF Alone
  <2>4. ASSUME NEW k \in Nodes \ {m}
        PROVE  (~Active(k) /\ (pc[k] \in {"write", "wait2"} => wait[k] > 0))'
    BY <2>2, Zenon DEF Alone, Active, Only
  <2> QED
    BY <2>3, <2>4, Zenon DEF Alone
<1> QED
  BY <1>1, <1>2, <1>3, <1>4 DEF MmpInv
-----------------------------------------------------------------------------
(* The actions.                                                            *)

\* What an assignment to one component of a function does.
LEMMA OnlyAt ==
  ASSUME NEW S, NEW f, DOMAIN f = S, NEW n \in S, NEW v
  PROVE  /\ [f EXCEPT ![n] = v][n] = v
         /\ \A k \in S \ {n} : [f EXCEPT ![n] = v][k] = f[k]
         /\ \A T : (v \in T /\ f \in [S -> T]) => [f EXCEPT ![n] = v] \in [S -> T]
  BY Zenon

LEMMA Types ==
  ASSUME MmpInv
  PROVE  /\ block \in Blocks /\ bh \in [Nodes -> Blocks] /\ pc \in [Nodes -> Pcs]
         /\ seq \in [Nodes -> Seqs] /\ wait \in [Nodes -> 0 .. Horizon]
         /\ t \in [Nodes -> 0 .. Horizon]
         /\ DOMAIN bh = Nodes /\ DOMAIN pc = Nodes /\ DOMAIN seq = Nodes
         /\ DOMAIN wait = Nodes /\ DOMAIN t = Nodes
  BY Zenon DEF MmpInv, TypeOK

\* A block with another sequence number, check interval or node name.
LEMMA NewBlocks ==
  ASSUME NEW b \in Blocks
  PROVE  /\ b.seq \in Seqs
         /\ \A s \in Seqs : [b EXCEPT !.seq = s] \in Blocks /\ [b EXCEPT !.seq = s].seq = s
         /\ \A c \in 0 .. CheckBound : [b EXCEPT !.check = c] \in Blocks
         /\ \A n \in Nodes : [b EXCEPT !.node = n, !.check = first_check] \in Blocks
<1>1. first_check \in 0 .. CheckBound
  BY CheckBounds
<1> QED
  BY <1>1 DEF Blocks

LEMMA NoBufferType == NoBuffer \in Blocks
  BY SeqKinds, CheckBounds DEF NoBuffer, Blocks

\* Fail(n): the node is down and remembers nothing.
LEMMA FailStep ==
  ASSUME Timely, MmpInv, NEW n \in Nodes, Fail(n), block' = block
  PROVE  MmpInv'
<1>1. /\ pc' = [pc EXCEPT ![n] = "down"] /\ t' = [t EXCEPT ![n] = 0]
      /\ seq' = [seq EXCEPT ![n] = Clean] /\ wait' = [wait EXCEPT ![n] = 0]
      /\ bh' = [bh EXCEPT ![n] = NoBuffer]
  BY Zenon DEF Fail, Goto
<1>2. Only(n) /\ pc'[n] = "down" /\ wait'[n] = 0
  BY <1>1, Types, OnlyAt, Zenon DEF Only
<1>3. TypeOK'
  <2>1. "down" \in Pcs /\ 0 \in 0 .. Horizon /\ Clean \in Seqs
    BY CheckBounds, SeqKinds DEF Pcs
  <2> QED
    BY <1>1, <2>1, Types, NoBufferType, Zenon DEF TypeOK
<1>4. NodeOK(n)'
  BY <1>2, CheckBounds DEF NodeOK, Active
<1>5. \A m \in Nodes \ {n} : Older(m, n)'
  BY <1>2 DEF Older
<1>6. ~Active(n)'
  BY <1>2 DEF Active
<1> QED
  BY <1>2, <1>3, <1>4, <1>5, <1>6, QuietStep, Zenon

LEMMA ReadStep ==
  ASSUME Timely, MmpInv, NEW n \in Nodes, mount_read(n)
  PROVE  MmpInv'
<1> DEFINE l == IF block.seq = Clean THEN "write" ELSE "wait1"
           w == IF block.seq = Clean THEN 0 ELSE wait_time(block)
<1>1. /\ pc' = [pc EXCEPT ![n] = l] /\ t' = [t EXCEPT ![n] = 0]
      /\ seq' = [seq EXCEPT ![n] = block.seq] /\ wait' = [wait EXCEPT ![n] = w]
      /\ bh' = [bh EXCEPT ![n] = block] /\ block' = block
  BY Zenon DEF mount_read, Goto, read_mmp_block
<1>2. /\ l \in Pcs /\ l \in {"write", "wait1"} /\ (l = "wait1" => w > Gap)
      /\ (l = "write" => block.seq = Clean)
      /\ w \in 0 .. 2 * CheckBound + 1 /\ w \in 0 .. Horizon /\ (w = 0 \/ w > Gap)
  <2>1. CASE block.seq = Clean
    BY <2>1, CheckBounds DEF Pcs
  <2>2. CASE block.seq # Clean
    BY <2>2, CheckBounds, WaitBounds, Types DEF Pcs
  <2> QED
    BY <2>1, <2>2
<1> HIDE DEF l, w
<1>3. Only(n) /\ pc'[n] = l /\ wait'[n] = w /\ t'[n] = 0
  BY <1>1, Types, OnlyAt, Zenon DEF Only
<1>4. TypeOK'
  <2>1. 0 \in 0 .. Horizon
    BY CheckBounds
  <2>2. block.seq \in Seqs
    BY Types, NewBlocks, Zenon
  <2> QED
    BY <1>1, <1>2, <2>1, <2>2, Types, Zenon DEF TypeOK
<1>5. NodeOK(n)'
  BY <1>2, <1>3, CheckBounds DEF NodeOK, Active, Deadline
<1>6. ASSUME NEW m \in Nodes \ {n}, Holds(m) PROVE Older(m, n)'
  <2>1. block.seq # Clean
    BY <1>6, SeqKinds, Zenon DEF MmpInv, NodeInv, Holds
  <2> QED
    BY <1>2, <1>3, <2>1 DEF Older
<1>7. ASSUME NEW m \in Nodes, Active(m), wait[m] > 0 PROVE pc'[n] # "write"
  BY <1>2, <1>3, <1>7, Zenon DEF MmpInv, AloneInv, Alone
<1>8. ~Active(n)' /\ pc'[n] # "wait2"
  BY <1>2, <1>3 DEF Active
<1> QED
  BY <1>1, <1>3, <1>4, <1>5, <1>6, <1>7, <1>8, QuietStep, Zenon

LEMMA RecheckStep ==
  ASSUME Timely, MmpInv, NEW n \in Nodes, mount_recheck(n)
  PROVE  MmpInv'
<1>1. CASE block.seq # seq[n]
  BY <1>1, FailStep, Zenon DEF mount_recheck
<1>2. CASE block.seq = seq[n]
  <2>1. /\ pc' = [pc EXCEPT ![n] = "write"] /\ t' = [t EXCEPT ![n] = 0]
        /\ seq' = seq /\ wait' = wait
        /\ bh' = [bh EXCEPT ![n] = block] /\ block' = block
    BY <1>2, Zenon DEF mount_recheck, Goto, read_mmp_block
  <2>2. Only(n) /\ pc'[n] = "write" /\ t'[n] = 0 /\ wait'[n] = wait[n]
    BY <2>1, Types, OnlyAt, Zenon DEF Only
  <2>3. wait[n] > Gap /\ wait[n] <= 2 * CheckBound + 1 /\ wait[n] \in Nat
    BY CheckBounds DEF MmpInv, NodeInv, TypeOK, mount_recheck
  <2>4. TypeOK'
    <3>1. 0 \in 0 .. Horizon /\ "write" \in Pcs
      BY CheckBounds DEF Pcs
    <3> QED
      BY <2>1, <3>1, Types, Zenon DEF TypeOK
  <2>5. NodeOK(n)' /\ wait'[n] > 0
    BY <2>2, <2>3, CheckBounds DEF NodeOK, Active, Deadline
  <2>6. \A m \in Nodes : Older(m, n)'
    BY <2>2, <2>5 DEF Older
  <2>7. ~Active(n)'
    BY <2>2 DEF Active
  <2> QED
    BY <2>1, <2>2, <2>4, <2>5, <2>6, <2>7, QuietStep, Zenon
<1> QED
  BY <1>1, <1>2

\* The number a mount writes is new, so no other mount takes it for its own.
LEMMA WriteStep ==
  ASSUME Timely, MmpInv, NEW n \in Nodes, mount_write(n)
  PROVE  MmpInv'
<1> DEFINE r == mmp_new_seq
           b == [bh[n] EXCEPT !.seq = r]
<1>1. /\ pc' = [pc EXCEPT ![n] = "wait2"] /\ t' = [t EXCEPT ![n] = 0]
      /\ seq' = [seq EXCEPT ![n] = r] /\ wait' = wait
      /\ bh' = [bh EXCEPT ![n] = b] /\ block' = b
      /\ pc[n] = "write"
  BY Zenon DEF mount_write, Goto, write_mmp_block
<1>2. r \in Rands /\ r \in Seqs /\ r # Clean /\ \A m \in Nodes : r # seq[m]
  BY FreshNumber, SeqKinds, Zenon
<1> HIDE DEF r
<1>3. b \in Blocks /\ b.seq = r
  BY <1>2, Types, NewBlocks, Zenon
<1> HIDE DEF b
<1>4. Only(n) /\ pc'[n] = "wait2" /\ t'[n] = 0 /\ wait'[n] = wait[n] /\ seq'[n] = r
  BY <1>1, Types, OnlyAt, Zenon DEF Only
<1>5. TypeOK'
  <2>1. 0 \in 0 .. Horizon /\ "wait2" \in Pcs
    BY CheckBounds DEF Pcs
  <2> QED
    BY <1>1, <1>2, <1>3, <2>1, Types, Zenon DEF TypeOK
<1>6. NodeOK(n)'
  <2>1. wait[n] <= 2 * CheckBound + 1 /\ (wait[n] = 0 \/ wait[n] > Gap) /\ wait[n] \in Nat
    BY CheckBounds DEF MmpInv, NodeInv, TypeOK
  <2> QED
    BY <1>2, <1>4, <2>1, CheckBounds DEF NodeOK, Active, Deadline
<1>7. ~Active(n)' /\ pc'[n] # "write"
  BY <1>4 DEF Active
<1> QED
  BY <1>1, <1>2, <1>3, <1>4, <1>5, <1>6, <1>7, WritingStep, Zenon

\* The second wait is over: WaitExcludes.
LEMMA CheckOwnStep ==
  ASSUME Timely, MmpInv, NEW n \in Nodes, mount_check_own(n)
  PROVE  MmpInv'
<1>1. CASE block.seq # seq[n]
  BY <1>1, FailStep, Zenon DEF mount_check_own
<1>2. CASE block.seq = seq[n]
  <2> DEFINE b == [block EXCEPT !.node = n, !.check = first_check]
  <2>1. /\ pc' = [pc EXCEPT ![n] = "kwrite"] /\ t' = [t EXCEPT ![n] = 0]
        /\ seq' = [seq EXCEPT ![n] = Num(SeqMax)] /\ wait' = wait
        /\ bh' = [bh EXCEPT ![n] = b] /\ block' = block
        /\ pc[n] = "wait2" /\ t[n] >= wait[n]
    BY <1>2, Zenon DEF mount_check_own, Goto
  <2>2. b \in Blocks
    BY Types, NewBlocks, Zenon
  <2> HIDE DEF b
  <2>3. /\ Only(n) /\ pc'[n] = "kwrite" /\ t'[n] = 0 /\ wait'[n] = wait[n]
        /\ seq'[n] = Num(SeqMax)
    BY <2>1, Types, OnlyAt, Zenon DEF Only
  <2>4. TypeOK'
    <3>1. 0 \in 0 .. Horizon /\ "kwrite" \in Pcs /\ Num(SeqMax) \in Seqs
      BY CheckBounds, FirstNumber, SeqKinds DEF Pcs
    <3> QED
      BY <2>1, <2>2, <3>1, Types, Zenon DEF TypeOK
  <2>5. NodeOK(n)'
    <3>1. wait[n] <= 2 * CheckBound + 1 /\ (wait[n] = 0 \/ wait[n] > Gap) /\ wait[n] \in Nat
      BY CheckBounds DEF MmpInv, NodeInv, TypeOK
    <3> QED
      BY <2>3, <3>1, CheckBounds, FirstNumber DEF NodeOK, Active, Deadline
  <2>6. Holds(n)
    BY <1>2, <2>1, Zenon DEF Holds
  <2>7. wait[n] > 0 => Alone(n)
    BY <2>1, <2>6, WaitExcludes, Zenon
  <2>8. \A m \in Nodes \ {n} : ~Holds(m)
    BY <2>6, Zenon DEF Holds, MmpInv, SeqInv
  <2>9. ASSUME NEW m \in Nodes \ {n}, Active(m), wait[m] > 0 PROVE FALSE
    <3>1. wait[n] > 0
      BY <2>1, <2>9, Zenon DEF MmpInv, AloneInv, Alone
    <3> QED
      BY <2>7, <2>9, <3>1, Zenon DEF Alone
  <2>10. pc'[n] # "wait2"
    BY <2>3
  <2> QED
    BY <2>1, <2>3, <2>4, <2>5, <2>7, <2>8, <2>9, <2>10, QuietStep, Zenon
<1> QED
  BY <1>1, <1>2

LEMMA KmmpdWriteStep ==
  ASSUME Timely, MmpInv, NEW n \in Nodes, kmmpd_write(n)
  PROVE  MmpInv'
<1> DEFINE s == next_seq(seq[n])
           b == [bh[n] EXCEPT !.seq = s]
<1>1. /\ pc' = [pc EXCEPT ![n] = "ksleep"] /\ t' = [t EXCEPT ![n] = 0]
      /\ seq' = [seq EXCEPT ![n] = s] /\ wait' = wait
      /\ bh' = [bh EXCEPT ![n] = b] /\ block' = b
      /\ pc[n] = "kwrite"
  BY Zenon DEF kmmpd_write, Goto, write_mmp_block
<1>2. Active(n)
  BY <1>1 DEF Active
<1>3. s \in Nums
  BY <1>2, NextSeq, Zenon DEF MmpInv, NodeInv
<1>4. s \in Seqs /\ s # Clean /\ s \notin Rands
  BY <1>3, SeqKinds, Zenon
<1> HIDE DEF s
<1>5. b \in Blocks /\ b.seq = s
  BY <1>4, Types, NewBlocks, Zenon
<1> HIDE DEF b
<1>6. Only(n) /\ pc'[n] = "ksleep" /\ t'[n] = 0 /\ wait'[n] = wait[n] /\ seq'[n] = s
  BY <1>1, Types, OnlyAt, Zenon DEF Only
<1>7. TypeOK'
  <2>1. 0 \in 0 .. Horizon /\ "ksleep" \in Pcs
    BY CheckBounds DEF Pcs
  <2> QED
    BY <1>1, <1>4, <1>5, <2>1, Types, Zenon DEF TypeOK
<1>8. NodeOK(n)'
  <2>1. wait[n] <= 2 * CheckBound + 1 /\ (wait[n] = 0 \/ wait[n] > Gap) /\ wait[n] \in Nat
    BY CheckBounds DEF MmpInv, NodeInv, TypeOK
  <2> QED
    BY <1>3, <1>6, <2>1, CheckBounds DEF NodeOK, Active, Deadline
<1>9. \A m \in Nodes : pc[m] = "wait2" => s # seq[m]
  BY <1>4, Zenon DEF MmpInv, NodeInv
<1>10. pc'[n] # "write" /\ pc'[n] # "wait2"
  BY <1>6
<1> QED
  BY <1>1, <1>2, <1>4, <1>5, <1>6, <1>7, <1>8, <1>9, <1>10, WritingStep, Zenon

\* kmmpd goes on, to the next write or to the clean one.
LEMMA GoOnStep ==
  ASSUME Timely, MmpInv, NEW n \in Nodes, NEW l \in {"kwrite", "kstop"}, TypeOK', Active(n),
         pc' = [pc EXCEPT ![n] = l], seq' = seq, wait' = wait, block' = block,
         \/ pc[n] = "ksleep" /\ t' = [t EXCEPT ![n] = 0]
         \/ pc[n] = "kwrite" /\ t' = t
  PROVE  MmpInv'
<1>1. /\ Only(n) /\ pc'[n] = l /\ wait'[n] = wait[n] /\ seq'[n] = seq[n]
      /\ \/ pc[n] = "ksleep" /\ t'[n] = 0
         \/ pc[n] = "kwrite" /\ t'[n] = t[n]
  BY Types, OnlyAt, Zenon DEF Only
<1>2. NodeOK(n)
  BY DEF MmpInv, NodeInv, NodeOK
<1>3. t[n] \in Nat /\ pc'[n] # "wait2" /\ pc'[n] # "write"
  BY <1>1, CheckBounds DEF MmpInv, TypeOK
<1>4. NodeOK(n)'
  BY <1>1, <1>2, <1>3, CheckBounds DEF NodeOK, Active, Deadline
<1>5. ASSUME NEW m \in Nodes \ {n}, Holds(m) PROVE Older(m, n)'
  <2>1. t'[m] = t[m] /\ t[m] \in Nat
    BY <1>1, CheckBounds DEF Only, MmpInv, TypeOK
  <2>2. Older(m, n)
    BY <1>5, Zenon DEF MmpInv, HoldInv
  <2>3. CASE pc[n] = "ksleep"
    <3>1. t[n] <= UpdateInterval + Delay
      BY <1>2, <2>3 DEF NodeOK, Deadline, Timely
    <3>2. t[m] <= t[n]
      BY <2>2, <2>3, <1>3, <2>1 DEF Older
    <3>3. t'[n] = 0
      BY <1>1, <2>3
    <3> QED
      BY <1>1, <1>3, <2>1, <3>1, <3>2, <3>3, CheckBounds DEF Older
  <2>4. CASE pc[n] = "kwrite"
    <3>1. t'[n] = t[n]
      BY <1>1, <2>4
    <3>2. t[m] <= t[n] + UpdateInterval + Delay
      BY <2>2, <2>4 DEF Older
    <3> QED
      BY <1>1, <1>3, <2>1, <3>1, <3>2 DEF Older
  <2> QED
    BY <1>1, <2>3, <2>4
<1>6. \A m \in Nodes \ {n} : ~(Active(m) /\ wait[m] > 0)
  BY Zenon DEF MmpInv, AloneInv, Alone
<1>7. wait[n] > 0 => Alone(n)
  BY Zenon DEF MmpInv, AloneInv
<1> QED
  BY <1>1, <1>3, <1>4, <1>5, <1>6, <1>7, QuietStep, Zenon

LEMMA WakeStep ==
  ASSUME Timely, MmpInv, NEW n \in Nodes, NEW stop \in BOOLEAN, kmmpd_wake(n, stop)
  PROVE  MmpInv'
<1>1. CASE overdue(n) /\ taken_over(n)
  BY <1>1, FailStep, Zenon DEF kmmpd_wake
<1>2. CASE ~(overdue(n) /\ taken_over(n))
  <2> DEFINE l == IF stop THEN "kstop" ELSE "kwrite"
             b == [bh[n] EXCEPT !.check = adjusted_check(t[n])]
  <2>1. /\ pc' = [pc EXCEPT ![n] = l] /\ t' = [t EXCEPT ![n] = 0]
        /\ seq' = seq /\ wait' = wait /\ block' = block
        /\ bh' = [bh EXCEPT ![n] = b]
        /\ pc[n] = "ksleep"
    BY <1>2, Zenon DEF kmmpd_wake, Goto
  <2>2. l \in {"kwrite", "kstop"}
    OBVIOUS
  <2> HIDE DEF l
  <2>3. t[n] \in Nat
    BY CheckBounds DEF MmpInv, TypeOK
  <2>4. b \in Blocks
    BY <2>3, AdjustedBounds, Types, NewBlocks, Zenon
  <2> HIDE DEF b
  <2>5. TypeOK'
    <3>1. 0 \in 0 .. Horizon /\ l \in Pcs
      BY <2>2, CheckBounds DEF Pcs
    <3> QED
      BY <2>1, <2>4, <3>1, Types, Zenon DEF TypeOK
  <2>6. Active(n)
    BY <2>1 DEF Active
  <2> QED
    BY <2>1, <2>2, <2>5, <2>6, GoOnStep, Zenon
<1> QED
  BY <1>1, <1>2

LEMMA StopStep ==
  ASSUME Timely, MmpInv, NEW n \in Nodes, kmmpd_stop(n)
  PROVE  MmpInv'
<1>1. /\ pc' = [pc EXCEPT ![n] = "kstop"] /\ t' = t /\ bh' = bh
      /\ seq' = seq /\ wait' = wait /\ block' = block /\ pc[n] = "kwrite"
  BY Zenon DEF kmmpd_stop
<1>2. "kstop" \in Pcs /\ "kstop" \in {"kwrite", "kstop"}
  BY DEF Pcs
<1>3. TypeOK'
  BY <1>1, <1>2, Types, Zenon DEF TypeOK
<1>4. Active(n)
  BY <1>1 DEF Active
<1> QED
  BY <1>1, <1>2, <1>3, <1>4, GoOnStep, Zenon

LEMMA CleanStep ==
  ASSUME Timely, MmpInv, NEW n \in Nodes, kmmpd_clean(n)
  PROVE  MmpInv'
<1> DEFINE b == [bh[n] EXCEPT !.seq = Clean]
<1>1. /\ pc' = [pc EXCEPT ![n] = "down"] /\ t' = [t EXCEPT ![n] = 0]
      /\ seq' = [seq EXCEPT ![n] = Clean] /\ wait' = [wait EXCEPT ![n] = 0]
      /\ bh' = [bh EXCEPT ![n] = NoBuffer] /\ block' = b /\ pc[n] = "kstop"
  BY Zenon DEF kmmpd_clean, Fail, Goto
<1>2. b \in Blocks /\ b.seq = Clean
  BY SeqKinds, Types, NewBlocks, Zenon
<1> HIDE DEF b
<1>3. /\ Only(n) /\ pc'[n] = "down" /\ wait'[n] = 0 /\ t'[n] = 0 /\ seq'[n] = Clean
  BY <1>1, Types, OnlyAt, Zenon DEF Only
<1>4. TypeOK'
  <2>1. "down" \in Pcs /\ 0 \in 0 .. Horizon /\ Clean \in Seqs
    BY CheckBounds, SeqKinds DEF Pcs
  <2> QED
    BY <1>1, <1>2, <2>1, Types, NoBufferType, Zenon DEF TypeOK
<1>5. NodeOK(n)' /\ ~Active(n)' /\ pc'[n] # "wait2" /\ pc'[n] # "write"
  BY <1>3, CheckBounds DEF NodeOK, Active
<1>6. Active(n)
  BY <1>1 DEF Active
<1>7. \A m \in Nodes : pc[m] = "wait2" => Clean # seq[m]
  BY SeqKinds, Zenon DEF MmpInv, NodeInv
<1> QED
  BY <1>1, <1>2, <1>3, <1>4, <1>5, <1>6, <1>7, WritingStep, Zenon

\* Time passes for all nodes that are up, and for none beyond its deadline.
LEMMA TickStep ==
  ASSUME Timely, MmpInv, Tick
  PROVE  MmpInv'
<1>1. /\ block' = block /\ bh' = bh /\ pc' = pc /\ seq' = seq /\ wait' = wait
      /\ t' = [n \in Nodes |-> IF pc[n] = "down" THEN 0 ELSE Min({t[n] + 1, Horizon})]
      /\ \A n \in Nodes : t[n] < Deadline(n)
  BY Zenon DEF Tick
<1>2. ASSUME NEW n \in Nodes
      PROVE  /\ t[n] \in Nat /\ wait[n] \in Nat /\ t'[n] \in 0 .. Horizon
             /\ pc[n] # "down" => t'[n] = t[n] + 1 /\ t'[n] <= Deadline(n)
  <2>1. t[n] \in Nat /\ wait[n] \in Nat /\ pc[n] \in Pcs
    BY CheckBounds DEF MmpInv, TypeOK
  <2>2. wait[n] <= 2 * CheckBound + 1
    BY Zenon DEF MmpInv, NodeInv
  <2>3. CASE pc[n] = "down"
    BY <1>1, <2>1, <2>3, CheckBounds
  <2>4. CASE pc[n] # "down"
    <3>1. Deadline(n) \in Nat /\ Deadline(n) <= Horizon
      BY <2>1, <2>2, <2>4, CheckBounds DEF Deadline, Pcs, Timely
    <3>2. t[n] + 1 <= Deadline(n)
      BY <1>1, <2>1, <3>1
    <3>3. t'[n] = Min({t[n] + 1, Horizon})
      BY <1>1, <2>4, Zenon
    <3>4. /\ Min({t[n] + 1, Horizon}) \in {t[n] + 1, Horizon}
          /\ Min({t[n] + 1, Horizon}) <= t[n] + 1
          /\ Min({t[n] + 1, Horizon}) <= Horizon
      BY <2>1, CheckBounds, MinOfTwo
    <3> QED
      BY <2>1, <2>4, <3>1, <3>2, <3>3, <3>4, CheckBounds
  <2> QED
    BY <2>3, <2>4
<1>3. TypeOK'
  <2>1. t' \in [Nodes -> 0 .. Horizon]
    BY <1>1, <1>2, Zenon
  <2> QED
    BY <1>1, <2>1, Types, Zenon DEF TypeOK
<1>4. NodeInv'
  <2> SUFFICES ASSUME NEW n \in Nodes PROVE NodeOK(n)'
    BY Zenon DEF NodeInv, NodeOK
  <2>1. NodeOK(n)
    BY DEF MmpInv, NodeInv, NodeOK
  <2>2. pc'[n] = pc[n] /\ seq'[n] = seq[n] /\ wait'[n] = wait[n]
    BY <1>1
  <2>3. Deadline(n)' = Deadline(n) /\ Active(n)' = Active(n)
    BY <1>1, Zenon DEF Deadline, Active
  <2> QED
    BY <1>2, <2>1, <2>2, <2>3, Zenon DEF NodeOK
<1>5. SeqInv'
  BY <1>1, Zenon DEF MmpInv, SeqInv
<1>6. HoldInv'
  <2> SUFFICES ASSUME NEW m \in Nodes, NEW k \in Nodes, m # k, Holds(m)' PROVE Older(m, k)'
    BY Zenon DEF HoldInv
  <2>1. Holds(m)
    BY <1>1, Zenon DEF Holds
  <2>2. Older(m, k)
    BY <2>1, Zenon DEF MmpInv, HoldInv
  <2>3. /\ t[m] \in Nat /\ t[k] \in Nat /\ t'[m] = t[m] + 1
        /\ pc[k] # "down" => t'[k] = t[k] + 1
    BY <1>2, <2>1 DEF Holds
  <2>4. pc'[k] = pc[k] /\ wait'[k] = wait[k]
    BY <1>1
  <2> QED
    BY <2>2, <2>3, <2>4, CheckBounds DEF Older
<1>7. AloneInv'
  BY <1>1, Zenon DEF MmpInv, AloneInv, Alone, Active
<1> QED
  BY <1>3, <1>4, <1>5, <1>6, <1>7 DEF MmpInv

LEMMA MmpInit ==
  ASSUME Init
  PROVE  MmpInv
<1>1. ASSUME NEW n \in Nodes PROVE pc[n] = "down" /\ wait[n] = 0
  BY Zenon DEF Init
<1>2. TypeOK
  <2>1. block \in Blocks
    BY FirstAssumption, CheckBounds DEF Init, Blocks
  <2>2. "down" \in Pcs /\ 0 \in 0 .. Horizon /\ Clean \in Seqs
    BY CheckBounds, SeqKinds DEF Pcs
  <2> QED
    BY <2>1, <2>2, NoBufferType, Zenon DEF Init, TypeOK
<1>3. NodeInv
  BY <1>1, CheckBounds DEF NodeInv, Active
<1>4. SeqInv /\ HoldInv
  BY <1>1 DEF SeqInv, HoldInv, Holds
<1>5. AloneInv
  BY <1>1 DEF AloneInv, Active
<1> QED
  BY <1>2, <1>3, <1>4, <1>5 DEF MmpInv

LEMMA MmpNext ==
  ASSUME Timely, MmpInv, [Next]_vars
  PROVE  MmpInv'
<1>1. CASE UNCHANGED vars
  BY <1>1, Zenon DEF vars, MmpInv, TypeOK, NodeInv, SeqInv, HoldInv, AloneInv,
                     Alone, Active, Holds, Older, Deadline
<1>2. CASE Tick
  BY <1>2, TickStep
<1>3. ASSUME NEW n \in Nodes,
             \/ mount_read(n) \/ MountStep(n) \/ KmmpdStep(n)
             \/ kmmpd_wake(n, TRUE) \/ kmmpd_stop(n) \/ Crash(n)
      PROVE  MmpInv'
  <2>1. CASE mount_read(n)
    BY <2>1, ReadStep
  <2>2. CASE mount_recheck(n)
    BY <2>2, RecheckStep
  <2>3. CASE mount_write(n)
    BY <2>3, WriteStep
  <2>4. CASE mount_check_own(n)
    BY <2>4, CheckOwnStep
  <2>5. CASE kmmpd_write(n)
    BY <2>5, KmmpdWriteStep
  <2>6. CASE kmmpd_wake(n, FALSE)
    BY <2>6, WakeStep, Zenon
  <2>7. CASE kmmpd_wake(n, TRUE)
    BY <2>7, WakeStep, Zenon
  <2>8. CASE kmmpd_clean(n)
    BY <2>8, CleanStep
  <2>9. CASE kmmpd_stop(n)
    BY <2>9, StopStep
  <2>10. CASE Crash(n)
    BY <2>10, FailStep, Zenon DEF Crash
  <2> QED
    BY <1>3, <2>1, <2>2, <2>3, <2>4, <2>5, <2>6, <2>7, <2>8, <2>9, <2>10, Zenon
       DEF MountStep, KmmpdStep
<1> QED
  BY <1>1, <1>2, <1>3, Zenon DEF Next

-----------------------------------------------------------------------------

\* The inductive invariant of the protocol holds in every state of timely
\* nodes: every number that stands in the MMP block is at most as old as what
\* any other node relies on (mmp.c:133 kmmpd, mmp.c:278 ext4_multi_mount_protect).
THEOREM MmpInvariant == Timely => (Spec => []MmpInv)
<1> SUFFICES ASSUME Timely PROVE Spec => []MmpInv
  OBVIOUS
<1>1. Init => MmpInv
  BY MmpInit
<1>2. MmpInv /\ [Next]_vars => MmpInv'
  BY MmpNext
<1> QED
  BY <1>1, <1>2, PTL DEF Spec

\* A mount that found somebody may be alive and waited is the only one in
\* service (mmp.c:278 ext4_multi_mount_protect): for any number of nodes,
\* through crashes, racing mounts and wrap-around of the counter, as long as
\* no step is so late that two writes of a kmmpd are further apart than the
\* shortest wait.
THEOREM MountsExclude == Timely => (Spec => []WaitingMountExcludes)
<1> SUFFICES ASSUME Timely PROVE Spec => []WaitingMountExcludes
  OBVIOUS
<1>1. MmpInv => WaitingMountExcludes
  <2> SUFFICES ASSUME MmpInv, NEW n \in Nodes, NEW m \in Nodes, n # m,
                      InService(n), InService(m)
               PROVE  wait[n] = 0
    BY Zenon DEF WaitingMountExcludes
  <2>1. Active(n) /\ Active(m)
    BY DEF InService, Active
  <2>2. ~(wait[n] > 0)
    BY <2>1, Zenon DEF MmpInv, AloneInv, Alone
  <2>3. wait[n] \in Nat
    BY CheckBounds DEF MmpInv, TypeOK
  <2> QED
    BY <2>2, <2>3
<1> QED
  BY <1>1, MmpInvariant, PTL
=============================================================================
