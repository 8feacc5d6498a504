------------------------------ MODULE MCMounts ------------------------------
(* What mounts start in the background, for TLC: kmmpd on two nodes of which
   one may oversleep, and the lazyinit thread shared by two file systems.  A
   behaviour runs one of the two. *)
EXTENDS Mmp, Lazyinit, TLC

VARIABLE part  \* "mmp" or "lazy"

CrashedSeqs == {Num(1), Fsck}

MountsInit ==
  /\ part \in {"mmp", "lazy"}
  /\ Init /\ LazyInit
  /\ part = "lazy" => block.seq = Fsck

mounts_vars == <<vars, lazy_vars, part>>

OnMmp(A) == part = "mmp" /\ A /\ UNCHANGED <<lazy_vars, part>>
OnLazy(A) == part = "lazy" /\ A /\ UNCHANGED <<vars, part>>

MountsNext == OnMmp(Next) \/ OnLazy(LazyNext)

MountsFairness ==
  /\ WF_mounts_vars(OnMmp(Tick))
  /\ \A n \in Nodes : /\ WF_mounts_vars(OnMmp(MountStep(n)))
                      /\ WF_mounts_vars(OnMmp(KmmpdStep(n)))
  /\ WF_mounts_vars(OnLazy(ThreadStep)) /\ SF_mounts_vars(OnLazy(RegisterStep))
  /\ \A f \in LazyFs : WF_mounts_vars(OnLazy(DueStep(f)))

MountsSpec == MountsInit /\ [][MountsNext]_mounts_vars /\ MountsFairness
=============================================================================
