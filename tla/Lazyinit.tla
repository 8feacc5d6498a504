------------------------------ MODULE Lazyinit ------------------------------
(***************************************************************************)
(* The ext4lazyinit thread (super.c): one thread for all file systems,     *)
(* which zeroes the inode tables mkfs left alone.  Mounting or remounting  *)
(* a file system registers a request, unmounting removes it, the thread    *)
(* works on the requests one group at a time and ends when there are none; *)
(* the next request starts it again.                                       *)
(*                                                                         *)
(* Two mutexes order all this: ext4_li_mtx for ext4_li_info and the        *)
(* thread's existence, li_list_mtx for the list.  The thread leaves        *)
(* li_list_mtx while it works and relies on s_umount of the file system,   *)
(* which mount, remount and umount hold for writing.                       *)
(***************************************************************************)
EXTENDS Integers, Sequences, SequencesExt

CONSTANTS LazyFs,       \* the file systems
          LazyGroups,   \* groups of each when it is first mounted
          LazyMax,      \* groups it can be resized to
          LazyOps       \* mounts, remounts, umounts and resizes made
ASSUME LazyAssumption == /\ LazyGroups \in Nat \ {0} /\ LazyMax \in Nat
                         /\ LazyGroups <= LazyMax /\ LazyOps \in Nat

VARIABLES
  fs,       \* file system -> its state, below
  li_info,  \* ext4_li_info: "none", "new" or "running" (EXT4_LAZYINIT_RUNNING)
  li_list,  \* li_request_list
  li_mtx,   \* ext4_li_mtx is held by a mount, remount or resize
  thread,   \* [at, cur, done]: where the thread is, its request, "remove it"
  lops,     \* calls made
  lslip     \* a defect of the code was met; nothing happens after it

lazy_vars == <<fs, li_info, li_list, li_mtx, thread, lops, lslip>>

NoFs == "none"
Gone == [at |-> "none", cur |-> NoFs, done |-> FALSE]

\* A file system: its mode and the one before the last mount or remount,
\* s_umount, the place of the mount-side call ("mnt") and of the resize ioctl
\* ("ioc"), the groups and those zeroed, and of its request lr_next_group,
\* whether lr_next_sched has come, and whether s_li_request points to it.
NewFs == [mode |-> "off", was |-> "off", sem |-> "free", mnt |-> "idle", ioc |-> "idle",
          groups |-> LazyGroups, zero |-> {}, next |-> 1, due |-> FALSE,
          req |-> FALSE, err |-> FALSE]
Callers == {"mnt", "ioc"}

\* li_list_mtx is the thread's at these places
ListLocked == thread.at \in {"walk", "up", "drop"}

Without(f) == SelectSeq(li_list, LAMBDA x : x # f)

\* the request after f on the list, at which the walk goes on
After(f) == LET k == CHOOSE j \in DOMAIN li_list : li_list[j] = f
            IN  IF k = Len(li_list) THEN NoFs ELSE li_list[k + 1]

\* a caller of ext4_register_li_request returns; a mount side gives s_umount up
Done(f, w, s) == [s EXCEPT ![f][w] = "idle",
                           ![f].sem = IF w = "mnt" THEN "free" ELSE @]

Unzeroed(f) == (1..fs[f].groups) \ fs[f].zero

-----------------------------------------------------------------------------
(* The calls.  Mount, remount and umount hold s_umount for writing.        *)

MountCall(f, m) ==
  /\ fs[f].mnt = "idle" /\ fs[f].sem = "free" /\ lops < LazyOps
  /\ m = "off" => fs[f].mode # "off" /\ fs[f].ioc = "idle"
  /\ fs' = [fs EXCEPT ![f].mode = m, ![f].was = fs[f].mode, ![f].sem = "write",
                      ![f].mnt = IF m = "rw" THEN "register" ELSE "unregister"]
  /\ lops' = lops + 1
  /\ UNCHANGED <<li_info, li_list, li_mtx, thread, lslip>>

\* the condition of EXT4_IOC_RESIZE_FS on the old and the new number of groups
resize_registers(old, new) == old > new

\* EXT4_IOC_GROUP_ADD and EXT4_IOC_RESIZE_FS: the new group's table is left to
\* the thread; neither holds s_umount
ResizeCall(f, cmd) ==
  /\ fs[f].mode = "rw" /\ fs[f].mnt = "idle" /\ fs[f].ioc = "idle"
  /\ fs[f].groups < LazyMax /\ lops < LazyOps
  /\ LET n == fs[f].groups + 1
         register == cmd = "GROUP_ADD" \/ resize_registers(fs[f].groups, n)
     IN  fs' = [fs EXCEPT ![f].groups = n, ![f].ioc = IF register THEN "register" ELSE "idle"]
  /\ lops' = lops + 1
  /\ UNCHANGED <<li_info, li_list, li_mtx, thread, lslip>>

\* where the caller has the request start
FirstGroup(f, w) ==
  IF w = "ioc" THEN fs[f].groups ELSE CHOOSE g \in Unzeroed(f) : \A h \in Unzeroed(f) : g <= h

\* ext4_register_li_request takes ext4_li_mtx and looks at s_li_request
ext4_register_li_request(f, w) ==
  /\ fs[f][w] = "register" /\ ~li_mtx
  /\ IF ~fs[f].req /\ (Unzeroed(f) = {} \/ fs[f].mode # "rw")
     THEN fs' = Done(f, w, fs) /\ UNCHANGED li_mtx
     ELSE /\ fs' = [fs EXCEPT ![f][w] = IF fs[f].req THEN "touch" ELSE "add"]
          /\ li_mtx' = TRUE
  /\ UNCHANGED <<li_info, li_list, thread, lops, lslip>>

\* A request it found gets a new timeout.  The thread, which holds only
\* li_list_mtx, may have freed it since ("freed").
touch_request(f, w) ==
  /\ fs[f][w] = "touch"
  /\ lslip' = IF fs[f].req THEN "none" ELSE "freed"
  /\ fs' = Done(f, w, fs) /\ li_mtx' = FALSE
  /\ UNCHANGED <<li_info, li_list, thread, lops>>

\* the request goes to the head of the list ...
add_request(f, w) ==
  /\ fs[f][w] = "add" /\ ~ListLocked
  /\ li_info' = IF li_info = "none" THEN "new" ELSE li_info
  /\ li_list' = <<f>> \o li_list
  /\ fs' = [fs EXCEPT ![f][w] = "start", ![f].next = FirstGroup(f, w),
                      ![f].due = FALSE, ![f].err = FALSE]
  /\ UNCHANGED <<li_mtx, thread, lops, lslip>>

\* ... s_li_request is set, which a thread that is already done with the
\* request cannot know ("dangling"), and the thread is started unless it runs;
\* when that fails the list is emptied, and a mount fails
ext4_run_lazyinit_thread(f, w) ==
  /\ fs[f][w] = "start"
  /\ lslip' = IF f \in Range(li_list) THEN "none" ELSE "dangling"
  /\ li_mtx' = FALSE
  /\ \/ /\ li_info = "running"
        /\ fs' = Done(f, w, [fs EXCEPT ![f].req = TRUE])
        /\ UNCHANGED <<li_info, li_list, thread>>
     \/ /\ li_info = "new"
        /\ li_info' = "running" /\ thread' = [Gone EXCEPT !.at = "loop"]
        /\ fs' = Done(f, w, [fs EXCEPT ![f].req = TRUE])
        /\ UNCHANGED li_list
     \/ /\ li_info = "new"
        /\ li_info' = "none" /\ li_list' = << >>
        /\ fs' = Done(f, w, [fs EXCEPT ![f].err = TRUE,
                      ![f].mode = IF w = "mnt" /\ fs[f].was = "off" THEN "off" ELSE @])
        /\ UNCHANGED thread
  /\ UNCHANGED lops

ext4_unregister_li_request(f) ==
  /\ fs[f].mnt = "unregister" /\ ~li_mtx
  /\ li_info # "none" => ~ListLocked
  /\ li_list' = IF li_info # "none" /\ fs[f].req THEN Without(f) ELSE li_list
  /\ fs' = Done(f, "mnt", [fs EXCEPT ![f].req = @ /\ li_info = "none"])
  /\ UNCHANGED <<li_info, li_mtx, thread, lops, lslip>>

-----------------------------------------------------------------------------
(* The thread.                                                             *)

To(at, cur, done) == thread' = [at |-> at, cur |-> cur, done |-> done]

lazyinit_loop ==
  /\ thread.at = "loop"
  /\ IF li_list = << >> THEN To("exit", NoFs, FALSE) ELSE To("walk", Head(li_list), FALSE)
  /\ UNCHANGED <<fs, li_info, li_list, li_mtx, lops, lslip>>

\* one request of the walk: not yet due, its file system busy, or work to do
lazyinit_walk ==
  LET f == thread.cur IN
  /\ thread.at = "walk" /\ f # NoFs
  /\ \/ /\ ~fs[f].due
        /\ To("walk", After(f), FALSE) /\ UNCHANGED fs
     \/ /\ fs[f].due /\ fs[f].sem # "free"
        /\ fs' = [fs EXCEPT ![f].due = FALSE]
        /\ To("walk", After(f), FALSE)
     \/ /\ fs[f].due /\ fs[f].sem = "free"
        /\ fs' = [fs EXCEPT ![f].sem = "read"]
        /\ To("run", f, FALSE)
  /\ UNCHANGED <<li_info, li_list, li_mtx, lops, lslip>>

\* The next group to zero, if there is one; zeroing may fail.  Afterwards the
\* thread has li_list_mtx again.
ext4_run_li_request ==
  LET f == thread.cur
      todo == {g \in Unzeroed(f) : g >= fs[f].next}
      group == CHOOSE g \in todo : \A h \in todo : g <= h
  IN  /\ thread.at = "run"
      /\ \/ todo = {} /\ To("up", f, TRUE) /\ UNCHANGED fs
         \/ /\ todo # {}
            /\ fs' = [fs EXCEPT ![f].zero = @ \cup {group}, ![f].next = group + 1,
                                ![f].due = FALSE]
            /\ To("up", f, FALSE)
         \/ /\ todo # {}
            /\ fs' = [fs EXCEPT ![f].err = TRUE, ![f].next = group + 1, ![f].due = FALSE]
            /\ To("up", f, TRUE)
      /\ UNCHANGED <<li_info, li_list, li_mtx, lops, lslip>>

\* s_umount is released while li_list_mtx is held ...
lazyinit_up ==
  /\ thread.at = "up"
  /\ fs' = [fs EXCEPT ![thread.cur].sem = "free"]
  /\ thread' = [thread EXCEPT !.at = "drop"]
  /\ UNCHANGED <<li_info, li_list, li_mtx, lops, lslip>>

\* ... and a request that is done with is taken off the list and freed
ext4_remove_li_request ==
  LET f == thread.cur IN
  /\ thread.at = "drop"
  /\ To("walk", After(f), FALSE)
  /\ IF thread.done THEN li_list' = Without(f) /\ fs' = [fs EXCEPT ![f].req = FALSE]
                    ELSE UNCHANGED <<li_list, fs>>
  /\ UNCHANGED <<li_info, li_mtx, lops, lslip>>

\* the end of the walk, and the sleep until the first of the requests is due
lazyinit_sleep ==
  /\ thread.at = "walk" /\ thread.cur = NoFs
  /\ To("loop", NoFs, FALSE)
  /\ UNCHANGED <<fs, li_info, li_list, li_mtx, lops, lslip>>

exit_unchecked == TRUE

\* with both mutexes held the list is looked at again
may_exit == li_list = << >>

lazyinit_exit ==
  /\ thread.at = "exit" /\ ~li_mtx
  /\ IF may_exit THEN thread' = Gone /\ li_info' = "none"
                 ELSE To("loop", NoFs, FALSE) /\ UNCHANGED li_info
  /\ UNCHANGED <<fs, li_list, li_mtx, lops, lslip>>

\* lr_next_sched has come
request_due(f) ==
  /\ f \in Range(li_list) /\ ~fs[f].due
  /\ fs' = [fs EXCEPT ![f].due = TRUE]
  /\ UNCHANGED <<li_info, li_list, li_mtx, thread, lops, lslip>>

-----------------------------------------------------------------------------
LazyInit ==
  /\ fs = [f \in LazyFs |-> NewFs]
  /\ li_info = "none" /\ li_list = << >> /\ li_mtx = FALSE
  /\ thread = Gone /\ lops = 0 /\ lslip = "none"

RegisterStep ==
  /\ lslip = "none"
  /\ \E f \in LazyFs, w \in Callers :
       \/ ext4_register_li_request(f, w)
       \/ touch_request(f, w)
       \/ add_request(f, w)
       \/ ext4_run_lazyinit_thread(f, w)

UnregisterStep(f) == lslip = "none" /\ ext4_unregister_li_request(f)
DueStep(f) == lslip = "none" /\ request_due(f)

ThreadStep ==
  /\ lslip = "none"
  /\ \/ lazyinit_loop
     \/ lazyinit_walk
     \/ ext4_run_li_request
     \/ lazyinit_up
     \/ ext4_remove_li_request
     \/ lazyinit_sleep
     \/ lazyinit_exit

CallStep(f) ==
  /\ lslip = "none"
  /\ \/ \E m \in {"rw", "ro", "off"} : MountCall(f, m)
     \/ \E cmd \in {"GROUP_ADD", "RESIZE_FS"} : ResizeCall(f, cmd)

LazyNext ==
  \/ \E f \in LazyFs : \/ CallStep(f)
                       \/ UnregisterStep(f)
                       \/ DueStep(f)
  \/ RegisterStep
  \/ ThreadStep

\* The thread is scheduled, time passes and registering goes on.  A caller that
\* waits for li_list_mtx, which the thread takes again and again, gets it in
\* turn: strong fairness.
LazyFairness ==
  /\ WF_lazy_vars(ThreadStep) /\ SF_lazy_vars(RegisterStep)
  /\ \A f \in LazyFs : WF_lazy_vars(DueStep(f))

\* A request that was put on the list is worked on until the inode tables of
\* all groups from its first on are zeroed: the thread neither ends nor forgets
\* a request while another mount is registering (super.c:2992
\* ext4_lazyinit_thread, super.c:3193 ext4_register_li_request).  A zeroing
\* that fails, a thread that cannot be started and the end of the read-write
\* mount are the exceptions.  A group that a resize adds when the thread has
\* already given the request up is left to the next mount.
LazyInitServed ==
  \A f \in LazyFs, g \in 1..LazyMax :
    (/\ f \in Range(li_list) /\ ~(thread.cur = f /\ thread.done)
     /\ g \in Unzeroed(f) /\ g >= fs[f].next)
      ~> (g \in fs[f].zero \/ fs[f].mode # "rw" \/ fs[f].err \/ lslip # "none")
=============================================================================
