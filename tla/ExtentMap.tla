----------------------------- MODULE ExtentMap -----------------------------
(***************************************************************************)
(* What the extent status tree promises to its users: for every block of   *)
(* a file a status, or nothing.  It is a cache, so anything but a delayed  *)
(* block may be forgotten at any time; a delayed block is remembered until *)
(* a call on it says otherwise.                                            *)
(***************************************************************************)
EXTENDS Naturals

CONSTANTS Inodes, Procs, NBlocks,
          Statuses, Unknown,  \* what may be known of a block, and nothing
          IsDelayed(_),       \* is it a delayed block?
          Calls, NoCall,      \* [ino, first, last, ...], and no call
          To(_, _)            \* the status that a call gives to a block

VARIABLES status,  \* the status of each block of each inode
          call,    \* the call that each process is in
          err      \* did the last call of the process report an error?

vars == <<status, call, err>>

Block == 0 .. NBlocks - 1

Covers(c, b) == c.first <= b /\ b <= c.last

Assign(c, v(_)) ==
  LET s == status[c.ino]
  IN status' = [status EXCEPT ![c.ino] =
                  [b \in Block |-> IF Covers(c, b) THEN v(b) ELSE s[b]]]

Init == /\ status = [i \in Inodes |-> [b \in Block |-> Unknown]]
        /\ call = [p \in Procs |-> NoCall]
        /\ err = [p \in Procs |-> FALSE]

\* A call starts; its blocks may be invalidated at once.
Start(p) ==
  /\ call[p] = NoCall
  /\ call'[p] \in Calls
  /\ call' = [call EXCEPT ![p] = call'[p]]
  /\ UNCHANGED status \/ Assign(call'[p], LAMBDA b : Unknown)
  /\ UNCHANGED err

Invalidate(p) ==
  /\ call[p] # NoCall
  /\ Assign(call[p], LAMBDA b : Unknown)
  /\ UNCHANGED <<call, err>>

\* A call ends well: its blocks have the status it gives them, or none when
\* they are not delayed.
Return(p, c) ==
  /\ call[p] \in {c, NoCall}
  /\ call' = [call EXCEPT ![p] = NoCall]
  /\ err' = [err EXCEPT ![p] = FALSE]
  /\ \/ Assign(c, LAMBDA b : To(c, b))
     \/ /\ \A b \in Block : Covers(c, b) => ~IsDelayed(To(c, b))
        /\ Assign(c, LAMBDA b : Unknown)

\* A call fails: it has not changed anything but what it invalidated.
Fail(p) ==
  /\ call[p] # NoCall
  /\ call' = [call EXCEPT ![p] = NoCall]
  /\ err' = [err EXCEPT ![p] = TRUE]
  /\ UNCHANGED status

\* ext4_es_cache_extent() speaks only of blocks of which nothing is known.
Cache(c) ==
  /\ UNCHANGED <<call, err>>
  /\ LET s == status[c.ino] IN \A b \in Block : Covers(c, b) => s[b] = Unknown
  /\ Assign(c, LAMBDA b : To(c, b))

\* Reclaim under memory pressure.
Forget(i) ==
  /\ UNCHANGED <<call, err>>
  /\ LET s == status[i] IN
       \E F \in SUBSET {b \in Block : ~IsDelayed(s[b])} :
         status' = [status EXCEPT ![i] = [b \in Block |-> IF b \in F THEN Unknown ELSE s[b]]]

\* The inode goes, and with it everything that was known of its blocks.
Evict(i) ==
  /\ UNCHANGED <<call, err>>
  /\ \A p \in Procs : call[p] # NoCall => call[p].ino # i
  /\ status' = [status EXCEPT ![i] = [b \in Block |-> Unknown]]

Next == \/ \E p \in Procs : Start(p) \/ Invalidate(p) \/ Fail(p)
        \/ \E p \in Procs, c \in Calls : Return(p, c)
        \/ \E c \in Calls : Cache(c)
        \/ \E i \in Inodes : Forget(i) \/ Evict(i)

Spec == Init /\ [][Next]_vars
=============================================================================
