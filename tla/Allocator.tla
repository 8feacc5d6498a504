----------------------------- MODULE Allocator -----------------------------
(***************************************************************************)
(* ext4_mb_regular_allocator() of mballoc.c: the search of one allocation  *)
(* for free clusters in the block groups.  It takes the lock of one group  *)
(* at a time and remembers the best extent it has seen, which others may   *)
(* take while no lock is held.                                             *)
(*                                                                         *)
(* The others are any number of allocations and frees: each of them, too,  *)
(* only marks free extents used (other_alloc) or frees used ones           *)
(* (other_free) under the lock of a group.                                 *)
(***************************************************************************)
EXTENDS Buddy

CONSTANTS NGroups,       \* s_groups_count
          LowGroups,     \* s_blockfile_groups, for files without extents
          Metadata,      \* Metadata[g]: the clusters of g that are never freed
          Requests,      \* what the allocations ask for
          Order2Reqs,    \* s_mb_order2_reqs
          MaxToScan,     \* s_mb_max_to_scan
          MinToScan,     \* s_mb_min_to_scan
          Stripe,        \* s_stripe
          FlexSize,      \* blocks groups of a flex group
          DirAllocScheme, \* EXT4_FLEX_SIZE_DIR_ALLOC_SCHEME
          MaxMoves       \* bound: steps of others during one call

Groups == 0 .. NGroups - 1
InGroup == 0 .. Clusters - 1

ASSUME AllocatorAssumption ==
  /\ NGroups \in Nat \ {0} /\ LowGroups \in 1 .. NGroups
  /\ Metadata \in [Groups -> SUBSET InGroup]
  /\ {Order2Reqs, MaxToScan, MinToScan, Stripe, FlexSize, DirAllocScheme, MaxMoves} \subseteq Nat

VARIABLES grp,    \* the groups
          ac,     \* the allocation context
          last,   \* s_mb_last_group and s_mb_last_start
          stayed, \* history: the clusters that stayed free during the call
          moves   \* steps of others during the call

allocVars == <<grp, ac, last, stayed, moves>>

NoResult == [group |-> 0, start |-> 0, len |-> 0]
NoCall == [pc |-> "idle", g |-> NoResult, b |-> NoResult, status |-> "continue",
           flags |-> {}, ngroups |-> 0, order2 |-> 0, cr |-> 0, i |-> 0, found |-> 0]

AllocInit ==
  /\ grp = [k \in Groups |-> GroupOf(Metadata[k])]
  /\ ac = NoCall
  /\ last = [group |-> 0, start |-> 0]
  /\ stayed = {}
  /\ moves = 0

FreeClusters(G) == {x \in Groups \X InGroup : ~G[x[1]].corrupt /\ x[2] \notin G[x[1]].used}

Stay == stayed' = stayed \cap FreeClusters(grp')

-----------------------------------------------------------------------------
(* What happens under the lock of one group.  s is the pair of the         *)
(* allocation context and the group.                                       *)

ext4_mb_use_best_found(s) ==
  LET len == Min({s.ac.b.len, s.ac.g.len})
  IN [ac |-> [s.ac EXCEPT !.b.len = len, !.status = "found"],
      e4b |-> mb_mark_used(s.e4b, s.ac.b.start, len)]

ext4_mb_check_limits(s, k, finish) ==
  IF s.ac.status = "found" THEN s
  ELSE IF s.ac.found > MaxToScan /\ "first" \notin s.ac.flags
    THEN [s EXCEPT !.ac.status = "break"]
  ELSE IF /\ s.ac.b.len >= s.ac.g.len
          /\ finish \/ s.ac.found > MinToScan
          /\ s.ac.b.group = k
          /\ mb_find_extent(s.e4b, s.ac.b.start, s.ac.g.len) >= s.ac.g.len
    THEN ext4_mb_use_best_found(s)
    ELSE s

\* Is extent ex better than the best one so far?  Longer while the request is
\* not met, shorter once it is.
better(a, ex) ==
  \/ a.b.len = 0
  \/ a.b.len < a.g.len /\ ex.len > a.b.len
  \/ a.b.len >= a.g.len /\ ex.len > a.g.len /\ ex.len < a.b.len

ext4_mb_measure_extent(s, k, ex) ==
  LET counted == [s EXCEPT !.ac.found = @ + 1]
      taken == [counted EXCEPT !.ac.b = ex]
  IN IF "first" \in s.ac.flags \/ ex.len = s.ac.g.len
       THEN ext4_mb_use_best_found(taken)
     ELSE IF s.ac.b.len = 0 THEN taken
     ELSE ext4_mb_check_limits(IF better(s.ac, ex) THEN taken ELSE counted, k, FALSE)

\* ext4_mb_find_by_goal(): the goal itself, all of it, or what is free of it
\* when the caller wants to extend what it has.
find_by_goal(s) ==
  LET g == s.ac.g
      max == mb_find_extent(s.e4b, g.start, g.len)
      taken == [s EXCEPT !.ac.found = @ + 1, !.ac.b = [g EXCEPT !.len = max]]
      striped == g.len = Stripe => (g.group * Clusters + g.start) % Stripe = 0
  IN IF \/ "goal" \notin s.ac.flags \/ s.e4b.free = 0 \/ s.e4b.corrupt
     THEN s
     ELSE IF IF max >= g.len THEN striped ELSE max > 0 /\ "merge" \in s.ac.flags
       THEN ext4_mb_use_best_found(taken)
       ELSE s

\* The smallest chunk of the buddy that is large enough.
ext4_mb_simple_scan_group(s, k) ==
  LET fit == {o \in Orders : o >= s.ac.order2 /\ s.e4b.counters[o] > 0}
      o == Min(fit)
      chunk == [group |-> k, start |-> Min(s.e4b.buddy[o]) * 2^o, len |-> 2^o]
  IN IF fit = {} THEN s
     ELSE ext4_mb_use_best_found([s EXCEPT !.ac.found = @ + 1, !.ac.b = chunk])

\* Every free extent of the group from cluster i on is measured.
RECURSIVE measure_from(_, _, _, _)
measure_from(s, k, i, free) ==
  LET from == next_zero(s.e4b.used, i)
      len == mb_find_extent(s.e4b, from, s.ac.g.len)
  IN IF free = 0 \/ s.ac.status # "continue" THEN s
     ELSE IF from >= Clusters \/ free < len
       THEN [s EXCEPT !.e4b.corrupt = TRUE]
       ELSE measure_from(ext4_mb_measure_extent(s, k, [group |-> k, start |-> from, len |-> len]),
                         k, from + len, free - len)

ext4_mb_complex_scan_group(s, k) ==
  ext4_mb_check_limits(measure_from(s, k, s.e4b.first, s.e4b.free), k, TRUE)

\* The first free extent of a stripe that starts on a stripe.
ext4_mb_scan_aligned(s, k) ==
  LET fit == {i \in InGroup : /\ (k * Clusters + i) % Stripe = 0
                              /\ mb_find_extent(s.e4b, i, Stripe) >= Stripe}
      i == Min(fit)
  IN IF fit = {} THEN s
     ELSE ext4_mb_use_best_found(
            [s EXCEPT !.ac.found = @ + 1,
                      !.ac.b = [group |-> k, start |-> i,
                                len |-> mb_find_extent(s.e4b, i, Stripe)]])

ext4_mb_good_group(a, k, e4b) ==
  LET average == e4b.free \div e4b.fragments
  IN /\ e4b.free > 0
     /\ a.cr <= 2 => e4b.free >= a.g.len
     /\ ~e4b.corrupt
     /\ e4b.fragments > 0
     /\ CASE a.cr = 0 -> /\ ~("data" \in a.flags /\ FlexSize >= DirAllocScheme
                                 /\ k % FlexSize = 0)
                         /\ average >= a.g.len \/ e4b.largest >= a.order2
          [] a.cr = 1 -> average >= a.g.len
          [] OTHER -> TRUE

-----------------------------------------------------------------------------
(* The steps of the allocation: each takes the lock of one group.          *)

allocation_request(r) ==
  /\ ac.pc = "idle"
  /\ ac' = [NoCall EXCEPT
              !.pc = "goal", !.flags = r.flags,
              !.ngroups = IF "low" \in r.flags THEN LowGroups ELSE NGroups,
              !.g = [group |-> r.group, start |-> r.start, len |-> Min({r.len, Clusters})]]
  /\ stayed' = {x \in FreeClusters(grp) : x[1] < ac'.ngroups}
  /\ UNCHANGED <<grp, last, moves>>

\* fls(len) - 1 when len is a power of two within the limits, 0 otherwise.
goal_order(len) ==
  LET o == fitting_order(len)
  IN IF o + 1 >= Order2Reqs /\ o <= MaxOrder /\ len = 2^o THEN o ELSE 0

\* The result s of a step under the lock of group k.
Done(s, k) ==
  /\ grp' = [grp EXCEPT ![k] = s.e4b]
  /\ last' = IF s.ac.status = "found" /\ ac.status # "found" /\ "stream" \in s.ac.flags
               THEN [group |-> s.ac.b.group, start |-> s.ac.b.start] ELSE last
  /\ Stay
  /\ UNCHANGED moves

try_goal ==
  LET k == ac.g.group
      s == find_by_goal([ac |-> ac, e4b |-> grp[k]])
      o == goal_order(ac.g.len)
  IN /\ ac.pc = "goal"
     /\ ac' = IF s.ac.status = "found" \/ "only" \in ac.flags
                THEN [s.ac EXCEPT !.pc = "out"]
                ELSE [s.ac EXCEPT
                        !.pc = "scan", !.order2 = o, !.cr = IF o > 0 THEN 0 ELSE 1,
                        !.g.group = IF "stream" \in ac.flags THEN last.group ELSE @,
                        !.g.start = IF "stream" \in ac.flags THEN last.start ELSE @]
     /\ Done(s, k)

\* One round of the loop over the groups, and at the end of the last group the
\* next criterion.  A group that is not good before its lock is taken is not
\* good in an instant in which this step could have been taken.
scan_group ==
  LET k == IF ac.g.group + ac.i < ac.ngroups THEN ac.g.group + ac.i
           ELSE IF ac.g.group < ac.ngroups THEN ac.g.group + ac.i - ac.ngroups
           ELSE ac.i
      old == [ac |-> ac, e4b |-> grp[k]]
      s == IF ~ext4_mb_good_group(ac, k, grp[k]) THEN old
           ELSE IF ac.cr = 0 THEN ext4_mb_simple_scan_group(old, k)
           ELSE IF ac.cr = 1 /\ Stripe > 0 /\ ac.g.len % Stripe = 0
             THEN ext4_mb_scan_aligned(old, k)
           ELSE ext4_mb_complex_scan_group(old, k)
      wrap == ac.i + 1 = ac.ngroups
  IN /\ ac.pc = "scan"
     /\ ac' = IF s.ac.status # "continue" \/ (wrap /\ ac.cr = 3)
                THEN [s.ac EXCEPT !.pc = "best"]
                ELSE IF wrap THEN [s.ac EXCEPT !.i = 0, !.cr = @ + 1]
                ELSE [s.ac EXCEPT !.i = @ + 1]
     /\ Done(s, k)

\* Mutant: when the best extent is gone the allocation gives up.
best_or_nothing ==
  LET k == ac.b.group
      len == mb_find_extent(grp[k], ac.b.start, ac.b.len)
      s == IF ac.b.len > 0 /\ ac.status # "found" /\ "first" \notin ac.flags /\ len > 0
             THEN ext4_mb_use_best_found([ac |-> [ac EXCEPT !.b.len = len], e4b |-> grp[k]])
             ELSE [ac |-> ac, e4b |-> grp[k]]
  IN /\ ac.pc = "best"
     /\ ac' = [s.ac EXCEPT !.pc = "out"]
     /\ Done(s, k)

\* Mutant: the best extent is taken as it was found.
best_stale ==
  LET k == ac.b.group
      try == ac.b.len > 0 /\ ac.status # "found" /\ "first" \notin ac.flags
      s == IF try THEN ext4_mb_use_best_found([ac |-> ac, e4b |-> grp[k]])
           ELSE [ac |-> ac, e4b |-> grp[k]]
  IN /\ ac.pc = "best"
     /\ ac' = [s.ac EXCEPT !.pc = "out"]
     /\ Done(s, k)

\* The best extent found so far is taken if any of it is still free; otherwise
\* the search begins again, for the first free extent it meets.
ext4_mb_try_best_found ==
  LET k == ac.b.group
      try == ac.b.len > 0 /\ ac.status # "found" /\ "first" \notin ac.flags
      len == mb_find_extent(grp[k], ac.b.start, ac.b.len)
      s == IF try /\ len > 0
             THEN ext4_mb_use_best_found([ac |-> [ac EXCEPT !.b.len = len], e4b |-> grp[k]])
             ELSE [ac |-> ac, e4b |-> grp[k]]
  IN /\ ac.pc = "best"
     /\ ac' = IF try /\ len = 0
                THEN [ac EXCEPT !.b = NoResult, !.status = "continue", !.cr = 3,
                                !.i = 0, !.flags = @ \cup {"first"}, !.pc = "scan"]
                ELSE [s.ac EXCEPT !.pc = "out"]
     /\ Done(s, k)

\* The caller of ext4_mb_regular_allocator() takes the result.
return ==
  /\ ac.pc = "out"
  /\ ac' = NoCall
  /\ stayed' = {} /\ moves' = 0
  /\ UNCHANGED <<grp, last>>

-----------------------------------------------------------------------------
(* The others.                                                             *)

\* Outside the call others may do what they like.
Moves ==
  /\ ac.pc # "idle" => moves < MaxMoves
  /\ moves' = IF ac.pc = "idle" THEN 0 ELSE moves + 1

other_alloc(k, start, len) ==
  /\ start + len <= Clusters
  /\ ~grp[k].corrupt /\ Span(start, len) \cap grp[k].used = {}
  /\ grp' = [grp EXCEPT ![k] = mb_mark_used(@, start, len)]
  /\ Stay /\ Moves
  /\ UNCHANGED <<ac, last>>

\* Clusters are freed; some of them may be free already when an inode is
\* damaged, and then the group is not trusted any more.
other_free(k, start, len) ==
  /\ start + len <= Clusters
  /\ Span(start, len) \cap Metadata[k] = {}
  /\ Span(start, len) \cap grp[k].used # {} /\ ~grp[k].corrupt
  /\ grp' = [grp EXCEPT ![k] = mb_free_blocks(@, start, len)]
  /\ Stay /\ Moves
  /\ UNCHANGED <<ac, last>>

AllocNext ==
  \/ \E r \in Requests : allocation_request(r)
  \/ try_goal \/ scan_group \/ ext4_mb_try_best_found \/ return
  \/ \E k \in Groups, start \in InGroup, len \in 1 .. Clusters :
       other_alloc(k, start, len) \/ other_free(k, start, len)

AllocSpec == AllocInit /\ [][AllocNext]_allocVars

-----------------------------------------------------------------------------
(* Properties.                                                             *)

\* The buddy that splits and joins have made is the one that
\* ext4_mb_generate_buddy() would build from the bitmap: exactly the maximal
\* aligned chunks are free in it, the counters, bb_free, bb_fragments and
\* bb_largest_free_order are right, and nothing is free before bb_first_free.
BuddyCanonical == \A k \in Groups : Canonical(grp[k])

\* What the allocation takes was free up to that step, however long ago it was
\* found, and it is exactly what it marks used.
TakesFreeClusters ==
  [][ac.status # "found" /\ ac'.status = "found" =>
       LET b == ac'.b
       IN /\ b.len \in 1 .. ac.g.len
          /\ Span(b.start, b.len) \cap grp[b.group].used = {}
          /\ grp'[b.group].used = grp[b.group].used \cup Span(b.start, b.len)]_allocVars

\* An allocation that may take any cluster fails only when no cluster stayed
\* free from its first step to its last: races for the best extent, the limits
\* of the scan and the criteria never make it miss one.
FailsOnlyWhenFull ==
  ac.pc = "out" /\ ac.status # "found" /\ "only" \notin ac.flags => stayed = {}

=============================================================================
