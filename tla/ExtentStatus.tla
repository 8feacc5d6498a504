---------------------------- MODULE ExtentStatus ----------------------------
(***************************************************************************)
(* The extent status tree (extents_status.c): for each inode a tree of     *)
(* disjoint extents that say what is known of its blocks, a pointer to the *)
(* extent used last, counters for the shrinker, and the shrinker itself,   *)
(* which walks the inodes while other processes insert and remove.         *)
(***************************************************************************)
EXTENDS ExtentTree, KernelList

CONSTANTS Inodes, Procs,
          Kswapds,    \* the threads that run the registered shrinker
          NoMemory,   \* may kmem_cache_alloc fail?
          ScanMax,    \* nr_to_scan of a shrink (128 on behalf of an insertion)
          Precached   \* inodes in state EXT4_STATE_EXT_PRECACHED

ASSUME ConstantsAssumption ==
  /\ ScanMax \in Nat \ {0}
  /\ Precached \subseteq Inodes
  /\ Kswapds \cap Procs = {}
  /\ "none" \notin Inodes
  /\ "nobody" \notin Procs \cup Kswapds

VARIABLES tree,      \* i_es_tree: the extents of each inode
          cache,     \* cache_es: first block of the extent it points to, or None
          shrinkAt,  \* i_es_shrink_lblk
          shk,       \* i_es_shk_nr
          list,      \* s_es_list
          alive,     \* the inodes that exist
          holder,    \* who holds i_es_lock for writing
          proc,      \* the processes
          err        \* did the last call of a process return an error?

vars == <<tree, cache, shrinkAt, shk, list, alive, holder, proc, err>>

Nobody == "nobody"
Threads == Procs \cup Kswapds

\* A call inserts extent e into the tree of inode i; one that removes carries
\* an extent without type.
Call(i, e) == [ino |-> i, first |-> e.lblk, last |-> ext4_es_end(e), new |-> e]
NoCall == [ino |-> "none", first |-> 0, last |-> 0, new |-> "none"]
Ranges == {e \in {Extent(l, n, {}, 0) : l \in Block, n \in 1 .. NBlocks} :
             e.lblk + e.len <= NBlocks}
Calls == {Call(i, e) : i \in Inodes, e \in Extents \cup Ranges}

\* back, walk, target, shrunk, skipped, retried and scan are the variables of
\* __es_shrink() and the place it returns to.
Idle == [pc |-> "idle", call |-> NoCall, back |-> "idle", walk |-> 0,
         target |-> "none", shrunk |-> FALSE, skipped |-> FALSE,
         retried |-> FALSE, scan |-> 0]

Pcs == {"idle", "remove", "insert", "walk", "reclaim", "unlock", "shrunk"}

TypeOK ==
  /\ \A i \in Inodes : \A e \in tree[i] :
       e.type \in Types /\ e.lblk \in Block /\ e.len > 0 /\ e.lblk + e.len <= NBlocks
  /\ cache \in [Inodes -> 0 .. None]
  /\ shrinkAt \in [Inodes -> Block]
  /\ shk \in [Inodes -> 0 .. NBlocks]
  /\ alive \subseteq Inodes
  /\ holder \in [Inodes -> Threads \cup {Nobody}]
  /\ \A p \in Threads : /\ proc[p].pc \in Pcs
                        /\ proc[p].call = NoCall \/ proc[p].call \in Calls
                        /\ proc[p].scan \in 0 .. ScanMax
  /\ err \in [Threads -> BOOLEAN]

Init ==
  /\ tree = [i \in Inodes |-> {}]
  /\ cache = [i \in Inodes |-> None]
  /\ shrinkAt = [i \in Inodes |-> 0]
  /\ shk = [i \in Inodes |-> 0]
  /\ list = <<>>
  /\ alive = Inodes
  /\ holder = [i \in Inodes |-> Nobody]
  /\ proc = [p \in Threads |-> Idle]
  /\ err = [p \in Threads |-> FALSE]

-----------------------------------------------------------------------------
(* Counters and the list of inodes.                                        *)

\* ext4_es_list_add() and ext4_es_list_del(): inode i, with n reclaimable
\* extents now, on list l.
relist(l, i, n) ==
  IF Contains(l, i)
    THEN IF n = 0 THEN RemoveAt(l, CHOOSE k \in 1 .. Len(l) : l[k] = i) ELSE l
    ELSE IF n = 0 THEN l ELSE Append(l, i)

\* Mutant: an inode stays on the list once it is there.
list_never_del(i, T, M, U) ==
  /\ shk' = [shk EXCEPT ![i] =
               @ + Cardinality(Reclaimable(U)) - Cardinality(Reclaimable(T))]
  /\ list' = IF shk'[i] > 0 THEN relist(list, i, shk'[i]) ELSE list

\* ext4_es_alloc_extent() and ext4_es_free_extent() keep i_es_shk_nr and put the
\* inode on s_es_list while it is not 0: tree T becomes M and then U.
count(i, T, M, U) ==
  LET n(V) == shk[i] + Cardinality(Reclaimable(V)) - Cardinality(Reclaimable(T))
  IN /\ shk' = [shk EXCEPT ![i] = n(U)]
     /\ list' = relist(relist(list, i, n(M)), i, n(U))

-----------------------------------------------------------------------------
(* Reclaim.                                                                *)

\* es_reclaim_extents(): to the end of the file, then from its beginning to
\* where the first scan started.
es_reclaim_extents(i, n) ==
  LET s1 == Scan(tree[i], shrinkAt[i], None, n)
      T1 == reclaim(tree[i], s1.seen)
      s2 == Scan(T1, s1.at, shrinkAt[i] - 1, s1.n)
      T2 == reclaim(T1, s2.seen)
      both == ~s1.more /\ shrinkAt[i] # 0
  IN IF shk[i] = 0
       THEN [tree |-> tree[i], at |-> shrinkAt[i], n |-> n, cache |-> cache[i]]
       ELSE [tree |-> IF both THEN T2 ELSE T1,
             at |-> IF both THEN s2.at ELSE s1.at,
             n |-> IF both THEN s2.n ELSE s1.n,
             cache |-> None]

-----------------------------------------------------------------------------
(* The calls.  Whoever holds i_es_lock works on the tree alone, so that a  *)
(* call is one step; only when there is no memory it lasts longer, keeps   *)
(* the lock and runs the shrinker on other inodes.                         *)

\* The tree of inode i becomes M and then U, and its cache_es c.
Update(i, M, U, c) ==
  /\ tree' = [tree EXCEPT ![i] = U]
  /\ cache' = [cache EXCEPT ![i] = c]
  /\ count(i, tree[i], M, U)

\* kmem_cache_alloc() may fail where an extent has to be allocated.
Fails(needed) == needed /\ NoMemory

Return(p, i, e) ==
  /\ proc' = [proc EXCEPT ![p] = Idle]
  /\ holder' = [holder EXCEPT ![i] = Nobody]
  /\ err' = [err EXCEPT ![p] = e]

\* __es_shrink() on behalf of call c, which keeps its lock and goes on at place
\* l afterwards.
start_shrink(p, c, l) ==
  /\ proc' = [proc EXCEPT ![p] = [Idle EXCEPT !.pc = "walk", !.call = c, !.back = l,
                                     !.walk = Len(list'), !.scan = ScanMax]]
  /\ holder' = [holder EXCEPT ![c.ino] = p]
  /\ UNCHANGED err

\* __es_insert_extent() of call c into tree T, what the removal has left, with
\* cache_es k.
do_insert(p, c, T, k) ==
  \/ /\ Update(c.ino, T, es_insert(T, c.new), cache_inserted(T, c.new))
     /\ Return(p, c.ino, FALSE)
  \/ /\ Fails(needs_alloc(T, c.new))
     /\ Update(c.ino, T, T, k)
     /\ start_shrink(p, c, "insert")

\* __es_remove_extent() of call c, and the insertion that may follow it.
do_remove(p, c) ==
  LET T == tree[c.ino]
      rest == es_remove(T, c.first, c.last)
      k == cache_removed(T, cache[c.ino], c.first, c.last)
  IN \/ c.new.type = {} /\ Update(c.ino, rest, rest, k) /\ Return(p, c.ino, FALSE)
     \/ c.new.type # {} /\ do_insert(p, c, rest, k)
     \/ /\ Fails(Split(T, c.first, c.last) # {})
        /\ cache' = [cache EXCEPT ![c.ino] = None]
        /\ UNCHANGED <<tree, shk, list>>
        /\ start_shrink(p, c, "remove")

ext4_es_remove_extent(p, c) ==
  /\ proc[p].pc = "idle" /\ c.new.type = {}
  /\ c.ino \in alive /\ holder[c.ino] = Nobody
  /\ do_remove(p, c)
  /\ UNCHANGED <<shrinkAt, alive>>

ext4_es_insert_extent(p, c) ==
  /\ proc[p].pc = "idle" /\ c.new.type # {}
  /\ c.ino \in alive /\ holder[c.ino] = Nobody
  /\ do_remove(p, c)
  /\ UNCHANGED <<shrinkAt, alive>>

\* The shrinker has freed something: the allocation is tried again.
remove_retry(p) ==
  /\ proc[p].pc = "remove"
  /\ do_remove(p, proc[p].call)
  /\ UNCHANGED <<shrinkAt, alive>>

insert_retry(p) ==
  LET c == proc[p].call IN
  /\ proc[p].pc = "insert"
  /\ do_insert(p, c, tree[c.ino], cache[c.ino])
  /\ UNCHANGED <<shrinkAt, alive>>

\* Only where nothing is known about any of the blocks.
ext4_es_cache_extent(i, e) ==
  /\ i \in alive /\ holder[i] = Nobody
  /\ \A f \in es_tree_search(tree[i], e.lblk) : f.lblk > ext4_es_end(e)
  /\ Update(i, tree[i], es_insert(tree[i], e), cache_inserted(tree[i], e))
  /\ UNCHANGED <<shrinkAt, alive, holder, proc, err>>

ext4_es_lookup_extent(i, b) ==
  /\ i \in alive /\ holder[i] = Nobody
  /\ \E e \in tree[i] :
       /\ e.lblk <= b /\ b <= ext4_es_end(e) /\ ~e.ref
       /\ tree' = [tree EXCEPT ![i] = (@ \ {e}) \cup {[e EXCEPT !.ref = TRUE]}]
  /\ UNCHANGED <<cache, shrinkAt, shk, list, alive, holder, proc, err>>

\* The delayed extent that holds block lo, or the first one behind the extent
\* found there that starts at or before hi.
ext4_es_find_delayed_extent_range(i, lo, hi) ==
  LET at == es_tree_search(tree[i], lo)
      behind == {e \in tree[i] : Delayed(e) /\ \E f \in at : e.lblk > f.lblk}
      found == IF \E e \in at : Delayed(e) THEN at
               ELSE {e \in behind : e.lblk <= hi /\ \A f \in behind : e.lblk <= f.lblk}
  IN /\ i \in alive /\ holder[i] = Nobody
     /\ \E e \in found : cache' = [cache EXCEPT ![i] = e.lblk]
     /\ UNCHANGED <<tree, shrinkAt, shk, list, alive, holder, proc, err>>

\* Mutant: an empty tree is not locked.
lock_if_not_empty(i) == tree[i] = {} \/ holder[i] = Nobody

\* ext4_es_remove_extent() takes i_es_lock unconditionally.
evict_lock(i) == holder[i] = Nobody

\* ext4_clear_inode() removes all extents of an inode that the VFS has no user
\* of any more; then the inode is freed.
ext4_clear_inode(i) ==
  /\ i \in alive /\ evict_lock(i)
  /\ \A p \in Threads : proc[p].call.ino # i
  /\ Update(i, {}, {}, None)
  /\ alive' = alive \ {i}
  /\ UNCHANGED <<shrinkAt, holder, proc, err>>

\* A new inode in the same memory.
ext4_es_init_tree(i) ==
  /\ i \notin alive
  /\ alive' = alive \cup {i}
  /\ tree' = [tree EXCEPT ![i] = {}]
  /\ cache' = [cache EXCEPT ![i] = None]
  /\ shrinkAt' = [shrinkAt EXCEPT ![i] = 0]
  /\ UNCHANGED <<shk, list, holder, proc, err>>

-----------------------------------------------------------------------------
(* __es_shrink().                                                          *)

ext4_es_scan(p, n) ==
  /\ proc[p].pc = "idle"
  /\ proc' = [proc EXCEPT ![p] = [Idle EXCEPT !.pc = "walk", !.walk = Len(list),
                                              !.scan = n]]
  /\ UNCHANGED <<tree, cache, shrinkAt, shk, list, alive, holder, err>>

\* Precached inodes are spared in the first round; the inode that is locked by
\* the caller itself or by anybody else is left alone.
skip(p, j) == \/ ~proc[p].retried /\ j \in Precached
              \/ j = proc[p].call.ino
              \/ holder[j] # Nobody

\* One inode of the walk: the first of the list goes to its end.
shrink_walk(p) ==
  /\ proc[p].pc = "walk" /\ proc[p].walk > 0
  /\ IF list = <<>>
       THEN /\ proc' = [proc EXCEPT ![p].pc = "shrunk"]
            /\ UNCHANGED <<list, holder>>
       ELSE LET j == Head(list) IN
            /\ list' = Append(Tail(list), j)
            /\ IF skip(p, j)
                 THEN /\ proc' = [proc EXCEPT ![p].walk = @ - 1, ![p].skipped = TRUE]
                      /\ UNCHANGED holder
                 ELSE /\ proc' = [proc EXCEPT ![p].walk = @ - 1, ![p].target = j,
                                              ![p].pc = "reclaim"]
                      /\ holder' = [holder EXCEPT ![j] = p]
  /\ UNCHANGED <<tree, cache, shrinkAt, shk, alive, err>>

\* A second round when inodes were skipped in vain, then the caller's own
\* inode.
shrink_round(p) ==
  LET r == proc[p] IN
  /\ r.pc = "walk" /\ r.walk = 0
  /\ proc' = [proc EXCEPT ![p] =
       IF ~r.shrunk /\ r.skipped /\ ~r.retried
         THEN [r EXCEPT !.retried = TRUE, !.walk = Len(list)]
       ELSE IF ~r.shrunk /\ r.call # NoCall
         THEN [r EXCEPT !.pc = "reclaim", !.target = r.call.ino]
       ELSE [r EXCEPT !.pc = "shrunk"]]
  /\ UNCHANGED <<tree, cache, shrinkAt, shk, list, alive, holder, err>>

shrink_reclaim(p) ==
  LET i == proc[p].target
      r == es_reclaim_extents(i, proc[p].scan)
  IN /\ proc[p].pc = "reclaim"
     /\ Update(i, r.tree, r.tree, r.cache)
     /\ shrinkAt' = [shrinkAt EXCEPT ![i] = r.at]
     /\ proc' = [proc EXCEPT
          ![p].scan = r.n,
          ![p].shrunk = @ \/ Cardinality(r.tree) < Cardinality(tree[i]),
          ![p].pc = IF i = proc[p].call.ino THEN "shrunk" ELSE "unlock"]
     /\ UNCHANGED <<alive, holder, err>>

shrink_unlock(p) ==
  /\ proc[p].pc = "unlock"
  /\ holder' = [holder EXCEPT ![proc[p].target] = Nobody]
  /\ proc' = [proc EXCEPT ![p].target = "none",
                          ![p].pc = IF proc[p].scan = 0 THEN "shrunk" ELSE "walk"]
  /\ UNCHANGED <<tree, cache, shrinkAt, shk, list, alive, err>>

\* Mutant: the allocation is tried again whatever the shrinker did.
try_again_always(p) == TRUE

\* An allocation is tried again when the shrinker has freed something.
try_again(p) == proc[p].shrunk

\* Back in the call: try again, or give up; an insertion that gives up reports
\* it only for a delayed extent.
shrink_return(p) ==
  LET r == proc[p] IN
  /\ r.pc = "shrunk"
  /\ IF r.call = NoCall
       THEN proc' = [proc EXCEPT ![p] = Idle] /\ UNCHANGED <<holder, err>>
     ELSE IF try_again(p)
       THEN /\ proc' = [proc EXCEPT ![p] = [Idle EXCEPT !.pc = r.back,
                                                        !.call = r.call]]
            /\ UNCHANGED <<holder, err>>
     ELSE Return(p, r.call.ino, r.back = "remove" \/ Delayed(r.call.new))
  /\ UNCHANGED <<tree, cache, shrinkAt, shk, list, alive>>

-----------------------------------------------------------------------------

Step(p) ==
  \/ remove_retry(p) \/ insert_retry(p)
  \/ shrink_walk(p) \/ shrink_round(p) \/ shrink_reclaim(p)
  \/ shrink_unlock(p) \/ shrink_return(p)

Next ==
  \/ \E p \in Procs, c \in Calls :
       ext4_es_insert_extent(p, c) \/ ext4_es_remove_extent(p, c)
  \/ \E p \in Threads : Step(p)
  \/ \E i \in Inodes, e \in Extents : ext4_es_cache_extent(i, e)
  \/ \E i \in Inodes, b \in Block : ext4_es_lookup_extent(i, b)
  \/ \E i \in Inodes, e \in Ranges :
       ext4_es_find_delayed_extent_range(i, e.lblk, ext4_es_end(e))
  \/ \E i \in Inodes : ext4_clear_inode(i) \/ ext4_es_init_tree(i)
  \/ \E p \in Kswapds, n \in 1 .. ScanMax : ext4_es_scan(p, n)

Spec == Init /\ [][Next]_vars

-----------------------------------------------------------------------------

\* The extents of a tree are disjoint, which __es_insert_extent() relies on
\* (BUG_ON(1)), and no two of them could be one: removals, splits and reclaims
\* never leave neighbours that the next insertion would not see.
TreeCanonical ==
  \A i \in Inodes : \A e, f \in tree[i] :
    e # f => /\ ext4_es_end(e) < f.lblk \/ ext4_es_end(f) < e.lblk
             /\ ~ext4_es_can_be_merged(e, f)

\* cache_es, which lookups trust, points to an extent of the tree.
CacheValid ==
  \A i \in alive : cache[i] # None => \E e \in tree[i] : e.lblk = cache[i]

\* The counter is the number of reclaimable extents (BUG_ON in
\* ext4_es_free_extent()), and the shrinker finds exactly the inodes that have
\* some.
CountersAgree ==
  /\ \A i \in alive : /\ shk[i] = Cardinality(Reclaimable(tree[i]))
                      /\ (shk[i] > 0) <=> Contains(list, i)
  /\ \A j, k \in 1 .. Len(list) : list[j] = list[k] => j = k

\* The shrinker never works on an inode that is gone: ext4_clear_inode() waits
\* for the lock of an inode the shrinker has picked, also when its tree is
\* empty already.
ShrinkerOnLiveInodes ==
  /\ ToSet(list) \subseteq alive
  /\ \A p \in Threads : proc[p].pc \in {"reclaim", "unlock"} => proc[p].target \in alive

\* What is known of a block.
Unknown == [type |-> {}, pblk |-> 0]
At(e, b) == [type |-> e.type, pblk |-> IF Mapped(e) THEN e.pblk + b - e.lblk ELSE 0]
StatusOf(T, b) ==
  LET hit == {e \in T : e.lblk <= b /\ b <= ext4_es_end(e)}
  IN IF hit = {} THEN Unknown ELSE At(CHOOSE e \in hit : TRUE, b)

Abstract == INSTANCE ExtentMap WITH
  Procs <- Threads,
  Statuses <- {At(e, b) : e \in Extents, b \in Block},
  IsDelayed <- Delayed,
  To <- LAMBDA c, b : At(c.new, b),
  status <- [i \in Inodes |-> [b \in Block |-> StatusOf(tree[i], b)]],
  call <- [p \in Threads |-> proc[p].call]

\* The trees, with their splits, merges, failed allocations and reclaims, are a
\* map from blocks to statuses in which delayed blocks are never lost: a block
\* has the status of the last call on it or, unless that is delayed, none.
ImplementsExtentMap == Abstract!Spec

Fairness == \A p \in Threads : WF_vars(Step(p))
FairSpec == Spec /\ Fairness

\* A call returns, because it allocates again only after the shrinker has freed
\* something.  (Of a single inode: other inodes may fill up again and again.)
CallReturns == \A p \in Procs : proc[p].pc # "idle" ~> proc[p].pc = "idle"

=============================================================================
