-------------------------------- MODULE Mmp --------------------------------
(***************************************************************************)
(* Multiple mount protection (mmp.c).  Nodes share one device.  A node     *)
(* that mounts it runs ext4_multi_mount_protect(); a node that has mounted *)
(* it keeps a thread, kmmpd, that rewrites the sequence number of the MMP  *)
(* block.  The protocol rests on time: a clock tick is an action, and a    *)
(* step of a node is late by at most Delay ticks.                          *)
(***************************************************************************)
EXTENDS Naturals, FiniteSetsExt

CONSTANTS Nodes,
          UpdateInterval,   \* s_mmp_update_interval
          MinCheck,         \* EXT4_MMP_MIN_CHECK_INTERVAL
          MaxCheck,         \* EXT4_MMP_MAX_CHECK_INTERVAL
          WaitCap,          \* the 60 seconds that bound the waiting time
          SeqMax,           \* EXT4_MMP_SEQ_MAX
          Delay,            \* how late a step of a node may be, in ticks
          FirstSeqs,        \* what the MMP block may hold at first
          Stall             \* may a sleeping kmmpd oversleep without bound?

ASSUME ConstantsAssumption ==
  /\ {UpdateInterval, MinCheck, MaxCheck, SeqMax} \subseteq Nat \ {0}
  /\ MinCheck <= MaxCheck
  /\ {WaitCap, Delay} \subseteq Nat
  /\ Stall \in BOOLEAN
  /\ IsFiniteSet(Nodes)

VARIABLES block,  \* the MMP block on the device
          bh,     \* each node's buffer with its copy of the block
          pc,     \* where each node is
          seq,    \* the sequence number each node compares with
          wait,   \* wait_time of each mount
          t       \* ticks since the node's last step

vars == <<block, bh, pc, seq, wait, t>>

\* Sequence numbers: the two reserved values, those of kmmpd, and the random
\* ones of mmp_new_seq().
Clean == <<"clean", 0>>
Fsck == <<"fsck", 0>>
Num(k) == <<"num", k>>
Rand(k) == <<"rand", k>>
Rands == {Rand(k) : k \in 1 .. Cardinality(Nodes) + 2}
Nums == {Num(k) : k \in 1 .. SeqMax}
Seqs == {Clean, Fsck} \cup Nums \cup Rands

ASSUME FirstAssumption == FirstSeqs \subseteq Seqs

NoNode == "none"

Pcs == {"down", "wait1", "write", "wait2", "kwrite", "ksleep", "kstop"}

\* EXT4_MMP_CHECK_MULT * update interval, at least the minimum.
first_check == Max({2 * UpdateInterval, MinCheck})

\* mmp_check_interval of a mount that read block b.
mount_check(b) == Max({UpdateInterval, MinCheck, b.check})

\* Mutant: the node waits for one update only.
wait_one_update(b) == UpdateInterval

wait_time(b) == Min({2 * mount_check(b) + 1, mount_check(b) + WaitCap})

\* The new check interval of kmmpd after diff ticks between two updates.
adjusted_check(diff) == Max({Min({2 * diff, MaxCheck}), MinCheck})

\* The largest check interval, and more ticks than any node measures.
CheckBound == Max({MaxCheck, first_check})
Horizon == 2 * CheckBound + Delay + 2

Blocks == [seq : Seqs, check : 0 .. CheckBound, node : Nodes \cup {NoNode}]

NoBuffer == [seq |-> Clean, check |-> 0, node |-> NoNode]

TypeOK ==
  /\ block \in Blocks
  /\ bh \in [Nodes -> Blocks]
  /\ pc \in [Nodes -> Pcs]
  /\ seq \in [Nodes -> Seqs]
  /\ wait \in [Nodes -> 0 .. Horizon]
  /\ t \in [Nodes -> 0 .. Horizon]

Init ==
  /\ block \in [seq : FirstSeqs, check : {first_check}, node : {NoNode}]
  /\ bh = [n \in Nodes |-> NoBuffer]
  /\ pc = [n \in Nodes |-> "down"]
  /\ seq = [n \in Nodes |-> Clean]
  /\ wait = [n \in Nodes |-> 0]
  /\ t = [n \in Nodes |-> 0]

Goto(n, l) == pc' = [pc EXCEPT ![n] = l] /\ t' = [t EXCEPT ![n] = 0]

\* mmp_new_seq(): random numbers are taken not to collide with any that the
\* device or a node remembers.
mmp_new_seq == CHOOSE r \in Rands : r # block.seq /\ \A n \in Nodes : r # seq[n]

\* read_mmp_block() always goes to the device.
read_mmp_block(n) == bh' = [bh EXCEPT ![n] = block]

\* write_mmp_block() writes the whole buffer.
write_mmp_block(n, b) == bh' = [bh EXCEPT ![n] = b] /\ block' = b

\* An unsuccessful mount and a stopped kmmpd release the buffer and leave
\* nothing behind in the node.
Fail(n) == /\ Goto(n, "down")
           /\ seq' = [seq EXCEPT ![n] = Clean]
           /\ wait' = [wait EXCEPT ![n] = 0]
           /\ bh' = [bh EXCEPT ![n] = NoBuffer]

-----------------------------------------------------------------------------
(* ext4_multi_mount_protect().                                             *)

\* First look at the block: a clean one is taken over at once, without any
\* waiting, one that e2fsck holds is refused.
mount_read(n) ==
  /\ pc[n] = "down"
  /\ block.seq # Fsck
  /\ read_mmp_block(n)
  /\ seq' = [seq EXCEPT ![n] = block.seq]
  /\ IF block.seq = Clean
       THEN wait' = [wait EXCEPT ![n] = 0] /\ Goto(n, "write")
       ELSE wait' = [wait EXCEPT ![n] = wait_time(block)] /\ Goto(n, "wait1")
  /\ UNCHANGED block

\* Mutant: a changed block makes the node wait again instead of giving up.
mount_recheck_again(n) ==
  /\ pc[n] = "wait1" /\ t[n] >= wait[n]
  /\ read_mmp_block(n)
  /\ seq' = [seq EXCEPT ![n] = block.seq]
  /\ Goto(n, IF block.seq = seq[n] THEN "write" ELSE "wait1")
  /\ UNCHANGED <<block, wait>>

\* After the first wait the sequence number must be what it was.
mount_recheck(n) ==
  /\ pc[n] = "wait1" /\ t[n] >= wait[n]
  /\ IF block.seq = seq[n]
       THEN Goto(n, "write") /\ read_mmp_block(n) /\ UNCHANGED <<seq, wait>>
       ELSE Fail(n)
  /\ UNCHANGED block

mount_write(n) ==
  /\ pc[n] = "write"
  /\ write_mmp_block(n, [bh[n] EXCEPT !.seq = mmp_new_seq])
  /\ seq' = [seq EXCEPT ![n] = mmp_new_seq]
  /\ Goto(n, "wait2")
  /\ UNCHANGED wait

\* After the second wait the node's own number must still be there; then kmmpd
\* is started, with its counter at 0 (SeqMax, so that the next one is 1).
mount_check_own(n) ==
  /\ pc[n] = "wait2" /\ t[n] >= wait[n]
  /\ IF block.seq = seq[n]
       THEN /\ Goto(n, "kwrite")
            /\ seq' = [seq EXCEPT ![n] = Num(SeqMax)]
            /\ bh' = [bh EXCEPT ![n] = [block EXCEPT !.node = n,
                                                     !.check = first_check]]
            /\ UNCHANGED wait
       ELSE Fail(n)
  /\ UNCHANGED block

-----------------------------------------------------------------------------
(* kmmpd().                                                                *)

next_seq(s) == Num((s[2] % SeqMax) + 1)

kmmpd_write(n) ==
  /\ pc[n] = "kwrite"
  /\ seq' = [seq EXCEPT ![n] = next_seq(seq[n])]
  /\ write_mmp_block(n, [bh[n] EXCEPT !.seq = next_seq(seq[n])])
  /\ Goto(n, "ksleep")
  /\ UNCHANGED wait

\* The block was taken over: other sequence number or other node.
taken_over(n) == block.seq # bh[n].seq \/ block.node # bh[n].node

\* Mutant: kmmpd never looks at the block.
never_overdue(n) == FALSE

\* More than mmp_check_interval has passed since the last write.
overdue(n) == t[n] > bh[n].check

\* kmmpd wakes up, because its time has come or because an unmount stops it
\* (stop); an overdue one verifies the block first and gives up when it was
\* taken over.
kmmpd_wake(n, stop) ==
  /\ pc[n] = "ksleep"
  /\ stop \/ t[n] >= UpdateInterval
  /\ IF overdue(n) /\ taken_over(n)
       THEN Fail(n)
       ELSE /\ bh' = [bh EXCEPT ![n].check = adjusted_check(t[n])]
            /\ Goto(n, IF stop THEN "kstop" ELSE "kwrite")
            /\ UNCHANGED <<seq, wait>>
  /\ UNCHANGED block

\* The unmount may also be noticed at the head of the loop; the clean block is
\* then written as late as the next sequence number would have been.
kmmpd_stop(n) ==
  /\ pc[n] = "kwrite"
  /\ pc' = [pc EXCEPT ![n] = "kstop"]
  /\ UNCHANGED <<block, bh, seq, wait, t>>

\* After a clean unmount.
kmmpd_clean(n) ==
  /\ pc[n] = "kstop"
  /\ block' = [bh[n] EXCEPT !.seq = Clean]
  /\ Fail(n)

-----------------------------------------------------------------------------
(* The environment.                                                        *)

\* A mount interrupted by a signal, a failed read or a crash of the node.
Crash(n) ==
  /\ pc[n] # "down"
  /\ Fail(n)
  /\ UNCHANGED block

\* How many ticks node n may let pass before its next step.
Deadline(n) ==
  CASE pc[n] \in {"write", "kwrite", "kstop"} -> Delay
    [] pc[n] \in {"wait1", "wait2"} -> wait[n] + Delay
    [] pc[n] = "ksleep" -> IF Stall THEN Horizon + 1 ELSE UpdateInterval + Delay
    [] pc[n] = "down" -> Horizon + 1

Tick ==
  /\ \E n \in Nodes : pc[n] # "down"
  /\ \A n \in Nodes : t[n] < Deadline(n)
  /\ t' = [n \in Nodes |-> IF pc[n] = "down" THEN 0 ELSE Min({t[n] + 1, Horizon})]
  /\ UNCHANGED <<block, bh, pc, seq, wait>>

MountStep(n) ==
  mount_recheck(n) \/ mount_write(n) \/ mount_check_own(n)

KmmpdStep(n) == kmmpd_write(n) \/ kmmpd_wake(n, FALSE) \/ kmmpd_clean(n)

Next ==
  \/ \E n \in Nodes : \/ mount_read(n) \/ MountStep(n) \/ KmmpdStep(n)
                      \/ kmmpd_wake(n, TRUE) \/ kmmpd_stop(n) \/ Crash(n)
  \/ Tick

Spec == Init /\ [][Next]_vars

-----------------------------------------------------------------------------

InService(n) == pc[n] \in {"kwrite", "ksleep"}

\* The device is in service twice only when both mounts found it clean: a
\* mount that waited, because the block said that somebody may be alive,
\* excludes every other one, through crashes, races of several mounts and
\* wrap-around of the counter.
WaitingMountExcludes ==
  \A n, m \in Nodes :
    InService(n) /\ InService(m) /\ n # m => wait[n] = 0 /\ wait[m] = 0

Fairness == /\ WF_vars(Tick)
            /\ \A n \in Nodes : WF_vars(MountStep(n)) /\ WF_vars(KmmpdStep(n))

FairSpec == Spec /\ Fairness

\* A mount is decided: no combination of waits and checks keeps a node in
\* ext4_multi_mount_protect() for ever.
MountDecided ==
  \A n \in Nodes :
    pc[n] \in {"wait1", "write", "wait2"} ~> pc[n] \in {"down", "kwrite"}

\* Node n is in service after a mount that waited longer than any kmmpd sleeps
\* without looking at the block when it wakes up.
WaitedOut(n) == InService(n) /\ wait[n] > CheckBound + Delay

\* When a kmmpd oversleeps and another node takes the device over, the device
\* does not stay in service twice: the sleeper finds the foreign block when it
\* wakes up and stops.  That is for two mounts that waited long enough.  One
\* that read a smaller mmp_check_interval, or a clean block after the stale
\* unmount of the sleeper, is sooner done than a kmmpd is overdue; two nodes
\* that are never overdue do not look at the block again.
TakeoverDetected ==
  \A n, m \in Nodes :
    n # m => (WaitedOut(n) /\ WaitedOut(m)) ~> ~(InService(n) /\ InService(m))

=============================================================================
