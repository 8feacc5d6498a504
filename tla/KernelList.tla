----------------------------- MODULE KernelList -----------------------------
(***************************************************************************)
(* The kernel's doubly linked lists (list_head) as sequences, from the     *)
(* head of the list.  Few operators, so that proofs about lists do not     *)
(* carry a library of sequences with them.                                 *)
(***************************************************************************)
EXTENDS Naturals, Sequences

ToSet(s) == {s[k] : k \in DOMAIN s}

Contains(s, x) == \E k \in 1 .. Len(s) : s[k] = x

\* list_del() of the k-th entry.
RemoveAt(s, k) == SubSeq(s, 1, k - 1) \o SubSeq(s, k + 1, Len(s))

=============================================================================
