------------------------------- MODULE Ialloc -------------------------------
(***************************************************************************)
(* Inode allocation (ialloc.c).  Tasks create inodes: they choose a group  *)
(* from the descriptors, look for a clear bit without a lock, take it      *)
(* under the group lock, and only later, under the lock again, account for *)
(* it in the descriptor.  Meanwhile other tasks create and delete inodes,  *)
(* allocate the group's first blocks, and the ext4lazyinit thread zeroes   *)
(* the part of the inode table that the descriptor calls unused.           *)
(*                                                                         *)
(* A group is [bits, free, dirs, unused, uninit, zeroed, buninit, clu]:    *)
(* the inode bitmap (a set of numbers 1..ipg), bg_free_inodes_count,       *)
(* bg_used_dirs_count, bg_itable_unused, the flags INODE_UNINIT,           *)
(* INODE_ZEROED and BLOCK_UNINIT, and bg_free_blocks_count.                *)
(*                                                                         *)
(* A group whose inode bitmap turns out to be damaged is marked when it is *)
(* first read: nothing is taken from it or given back to it any more.  A   *)
(* buffer that cannot be had or written makes a call stop half way; what   *)
(* such calls leave behind is kept in the ghost variable stuck.            *)
(* Left out: quota, encryption and the values of ownership and time.       *)
(***************************************************************************)
EXTENDS Integers, FiniteSets, FiniteSetsExt

CONSTANT IallocSetups   \* the instances: groups, sizes, what is in use

VARIABLES
  isu,      \* the setup of this behaviour
  gr,       \* group number -> group
  fx,       \* flex group -> [free, dirs] (s_flex_groups)
  ctr,      \* [free, dirs]: s_freeinodes_counter, s_dirs_counter
  cr,       \* task -> where its call stands
  inodes,   \* the inodes in use: [g, i, dir]
  table,    \* the inodes whose contents are in the inode table
  recent,   \* inodes deleted a short time ago
  last,     \* i_last_alloc_group of the parent directory (-1: ~0)
  lz,       \* lazyinit: [at, from], at = the group whose alloc_sem it holds
  iops,     \* calls made, at most isu.ops
  corrupt,  \* the groups marked EXT4_GROUP_INFO_IBITMAP_CORRUPT
  stuck,    \* what failed calls left: [g, i, dir, at], at = the step not made
  islip     \* the known misbehaviour that was met, if any

ialloc_vars == <<isu, gr, fx, ctr, cr, inodes, table, recent, last, lz, iops, corrupt, stuck, islip>>

Groups == 0 .. isu.groups - 1
Ipg == isu.ipg
Flex(g) == g \div isu.flex
NoCall == [at |-> "idle", dir |-> FALSE, g |-> 0, i |-> 0, tries |-> 0,
           goal |-> FALSE, alone |-> FALSE]

-----------------------------------------------------------------------------
(* Which group.  A result of -1 is a failed search.                        *)

\* the first group of the sequence start, start+1, ... (mod n) that qualifies
First(n, start, Good(_)) ==
  LET good == {k \in 0 .. n - 1 : Good((start + k) % n)}
  IN  IF good = {} THEN -1 ELSE (start + Min(good)) % n

\* what the search knows of a flex group, or of a group when there are none
get_orlov_stats(g) ==
  IF isu.flex > 1
  THEN [free |-> fx[g].free, dirs |-> fx[g].dirs,
        clu |-> MapThenSumSet(LAMBDA h : gr[h].clu, {h \in Groups : Flex(h) = g})]
  ELSE [free |-> gr[g].free, dirs |-> gr[g].dirs, clu |-> gr[g].clu]

NFlex == (isu.groups + isu.flex - 1) \div isu.flex

orlov_fallback(avefreei) ==
  LET Some(g) == gr[g].free > 0 /\ gr[g].free >= avefreei
      Any(g) == gr[g].free > 0
      g == First(isu.groups, isu.parent, Some)
  IN  IF g # -1 \/ avefreei = 0 THEN g ELSE First(isu.groups, isu.parent, Any)

\* the first group of the flex group that has an inode
orlov_in_flex(f, freei) ==
  LET in == {g \in Groups : Flex(g) = f /\ gr[g].free > 0}
  IN  IF isu.flex = 1 THEN f
      ELSE IF in # {} THEN Min(in) ELSE orlov_fallback(freei \div isu.groups)

\* a directory below the root goes to the emptiest of the groups that are not
\* worse than average; hash is where the search starts
orlov_top(hash, freei, freec) ==
  LET ok == {f \in 0 .. NFlex - 1 :
               LET s == get_orlov_stats(f) IN
               /\ s.free > 0 /\ s.dirs < Ipg
               /\ s.free >= freei \div NFlex /\ s.clu >= freec \div NFlex}
      Best(f) == f \in ok /\ \A h \in ok : get_orlov_stats(f).dirs <= get_orlov_stats(h).dirs
      f == First(NFlex, hash % NFlex, Best)
  IN  IF f = -1 THEN orlov_fallback(freei \div isu.groups) ELSE orlov_in_flex(f, freei)

\* another one stays near its parent, or where the last one went.  ipg16,
\* ipg4 and cpg4 are the sixteenth and the quarters of the sizes of a group.
\* min_clusters is signed and free_clusters is not: when it is negative the
\* comparison refuses every group.
orlov_near(freei, freec) ==
  LET ave == freei \div NFlex
      max_dirs == ctr.dirs \div NFlex + isu.ipg16
      min_inodes == Max({1, ave - isu.ipg4})
      min_clusters == freec \div NFlex - isu.cpg4
      Good(f) == LET s == get_orlov_stats(f) IN
                 /\ s.dirs < max_dirs /\ s.free >= min_inodes
                 /\ min_clusters >= 0 /\ s.clu >= min_clusters
      from == IF last # -1 THEN last ELSE isu.parent
      f == First(NFlex, Flex(from), Good)
  IN  IF f = -1 THEN orlov_fallback(freei \div isu.groups) ELSE orlov_in_flex(f, freei)

\* freei is the approximate percpu counter
find_group_orlov(top, freei) ==
  LET freec == MapThenSumSet(LAMBDA g : gr[g].clu, Groups)
  IN  IF top THEN orlov_top(isu.hash, freei, freec) ELSE orlov_near(freei, freec)

\* the groups of the flex group of g that have an inode
FlexRoom(g) == {h \in Groups : Flex(h) = Flex(g) /\ gr[h].free > 0}

\* the quadratic probe of groups other than the parent's
Probes == LET g0 == (isu.parent + isu.parent_ino) % isu.groups
              steps == {k \in 1 .. isu.groups : 2^(k - 1) < isu.groups}
          IN  [k \in steps |-> (g0 + 2^k - 1) % isu.groups]

find_group_other(freei) ==
  LET p == isu.parent
      Both(g) == gr[g].free > 0 /\ gr[g].clu > 0
      Room(g) == gr[g].free > 0
      probed == {k \in DOMAIN Probes : Both(Probes[k])}
  IN  IF isu.flex > 1
      THEN IF FlexRoom(p) # {} THEN Min(FlexRoom(p))
           ELSE IF last # -1 /\ FlexRoom(last) # {} THEN Min(FlexRoom(last))
           ELSE find_group_orlov(FALSE, freei)
      ELSE IF Both(p) THEN p
      ELSE IF probed # {} THEN Probes[Min(probed)]
      ELSE First(isu.groups, p + 1, Room)

-----------------------------------------------------------------------------
(* Which inode, and the steps of __ext4_new_inode.                         *)

\* the first clear bit from number i on that was not deleted recently (that
\* matters without a journal only); 0 when there is none
find_inode_bit(g, i) ==
  LET free == {n \in Max({i, 1}) .. Ipg : n \notin gr[g].bits
                 /\ (isu.journal \/ <<g, n>> \notin recent)}
  IN  IF free = {} THEN 0 ELSE Min(free)

Busy(p, t) == cr' = [cr EXCEPT ![p] = t]

\* another call begins: nobody is alone any more
Start(p, t) ==
  /\ cr[p].at = "idle" /\ iops < isu.ops /\ iops' = iops + 1
  /\ \A q \in isu.tasks : q < p => cr[q].at # "idle"
  /\ cr' = [q \in isu.tasks |->
              IF q = p THEN [t EXCEPT !.alone = \A r \in isu.tasks \ {p} : cr[r].at = "idle"]
              ELSE [cr[q] EXCEPT !.alone = FALSE]]

\* ENOSPC, which a call with no other one beside it returns only when all
\* inodes are in use, unless it began at a goal in the middle of a group
Room == \E g \in Groups :
          /\ g \notin isu.bad /\ gr[g].bits # 1 .. Ipg
          /\ ~\E s \in stuck : s.g = g /\ s.at = "cleared"
Fail(p, t) ==
  /\ Busy(p, NoCall)
  /\ islip' = IF isu.journal /\ Room /\ t.alone
              THEN IF t.goal THEN "goal" ELSE "starved" ELSE islip

\* the group number a failed search leaves behind
FailedGroup(dir) ==
  LET next == (Flex(IF last # -1 THEN last ELSE isu.parent) + 1) * isu.flex
  IN  CASE dir -> 0
        [] ~dir /\ isu.flex = 1 -> isu.parent
        [] OTHER -> IF next > isu.groups THEN 0 ELSE next

\* the choice of the group; a goal (the number of an inode) decides at once
__ext4_new_inode(p, dir, top, goal, freei) ==
  LET g == IF goal > 0 THEN (goal - 1) \div Ipg
           ELSE IF dir THEN find_group_orlov(top, freei) ELSE find_group_other(freei)
      i == IF goal > 0 THEN ((goal - 1) % Ipg) + 1 ELSE 1
      t == [NoCall EXCEPT !.at = IF g = -1 THEN "full" ELSE "search", !.dir = dir,
              !.g = Max({g, 0}), !.i = i, !.goal = goal > 0]
  IN  /\ Start(p, t)
      /\ last' = IF g # -1 THEN g ELSE FailedGroup(dir)
      /\ UNCHANGED <<isu, gr, fx, ctr, inodes, table, recent, lz, corrupt, stuck, islip>>

NextGroup(t) == [t EXCEPT !.g = (t.g + 1) % isu.groups, !.i = 1, !.tries = @ + 1, !.at = "search"]

\* the bitmap can be read and agrees with its checksum; isu.bad are groups in
\* use for which it does not
ext4_read_inode_bitmap(g) == g \notin isu.bad


\* the group's free inodes no longer count, once it is known to be damaged
ext4_mark_group_bitmap_corrupted(g) ==
  /\ corrupt' = corrupt \cup {g}
  /\ ctr' = IF g \in corrupt THEN ctr ELSE [ctr EXCEPT !.free = @ - gr[g].free]

\* one group of the loop: its free count, then its bitmap, without a lock
search_group(p) ==
  LET t == cr[p]
      i == find_inode_bit(t.g, t.i)
      skip == gr[t.g].free = 0 \/ t.g \in corrupt
  IN  /\ t.at = "search" /\ t.tries < isu.groups
      /\ \/ /\ skip \/ ext4_read_inode_bitmap(t.g)
            /\ Busy(p, IF skip \/ i = 0 THEN NextGroup(t) ELSE [t EXCEPT !.at = "take", !.i = i])
            /\ UNCHANGED <<ctr, corrupt>>
         \/ /\ ~skip /\ ~ext4_read_inode_bitmap(t.g)
            /\ ext4_mark_group_bitmap_corrupted(t.g)
            /\ Busy(p, NextGroup(t))
      /\ UNCHANGED <<isu, gr, fx, inodes, table, recent, last, lz, iops, stuck, islip>>

\* a call stops before the step `at', for an error of the journal or a buffer;
\* isu.errors bounds how often that happens
GivesUp(p, t, at) ==
  /\ Cardinality(stuck) < isu.errors
  /\ stuck' = stuck \cup {[g |-> t.g, i |-> t.i, dir |-> t.dir, at |-> at]}
  /\ Busy(p, NoCall)

\* every group has been tried, or none looked promising
no_group(p) ==
  LET t == cr[p] IN
  /\ t.at = "full" \/ (t.at = "search" /\ t.tries = isu.groups)
  /\ Fail(p, t)
  /\ UNCHANGED <<isu, gr, fx, ctr, inodes, table, recent, last, lz, iops, corrupt, stuck>>

take_without_test(g, i) == i

\* test and set under the group lock; a bit lost to another task is looked
\* for once more while the lock is held
test_and_set(g, i) == IF i \in gr[g].bits THEN find_inode_bit(g, i) ELSE i

take_inode(p) ==
  LET t == cr[p]
      i == test_and_set(t.g, t.i)
      Set == gr' = [gr EXCEPT ![t.g].bits = @ \cup {i}]
  IN  /\ t.at = "take"
      /\ \/ i = 0 /\ Busy(p, NextGroup(t)) /\ UNCHANGED <<gr, stuck>>
         \/ /\ i # 0 /\ Set /\ UNCHANGED stuck
            /\ Busy(p, [t EXCEPT !.i = i, !.at = IF gr[t.g].buninit THEN "blocks" ELSE "desc"])
         \/ i # 0 /\ Set /\ GivesUp(p, [t EXCEPT !.i = i], "desc")
         \/ isu.errors > 0 /\ Busy(p, NoCall) /\ UNCHANGED <<gr, stuck>>
      /\ UNCHANGED <<isu, fx, ctr, inodes, table, recent, last, lz, iops, corrupt, islip>>

\* the group's block bitmap is initialised: the flag seen without the lock is
\* looked at again under it
init_block_group(g) == IF gr[g].buninit THEN [gr[g] EXCEPT !.buninit = FALSE, !.clu = isu.cpg]
                       ELSE gr[g]

\* the bitmap may not be readable, or not be written after the flag is cleared
init_blocks(p) ==
  LET t == cr[p]
      Init == gr' = [gr EXCEPT ![t.g] = init_block_group(t.g)]
  IN  /\ t.at = "blocks"
      /\ \/ Init /\ Busy(p, [t EXCEPT !.at = "desc"]) /\ UNCHANGED stuck
         \/ (Init \/ UNCHANGED gr) /\ GivesUp(p, t, "desc")
      /\ UNCHANGED <<isu, fx, ctr, inodes, table, recent, last, lz, iops, corrupt, islip>>

\* the descriptor: bg_itable_unused shrinks past the new inode
UsedUpTo(d) == IF d.uninit THEN 0 ELSE Ipg - d.unused
update_desc(p) ==
  LET t == cr[p]
      d == gr[t.g]
  IN  /\ t.at = "desc" /\ lz.at # t.g
      /\ gr' = [gr EXCEPT ![t.g] =
           [d EXCEPT !.uninit = FALSE,
                     !.unused = IF t.i > UsedUpTo(d) THEN Ipg - t.i ELSE @,
                     !.free = @ - 1,
                     !.dirs = IF t.dir THEN @ + 1 ELSE @]]
      /\ fx' = IF t.dir THEN [fx EXCEPT ![Flex(t.g)].dirs = @ + 1] ELSE fx
      /\ \/ Busy(p, [t EXCEPT !.at = "count"]) /\ UNCHANGED stuck
         \/ GivesUp(p, t, "count")
      /\ UNCHANGED <<isu, ctr, inodes, table, recent, last, lz, iops, corrupt, islip>>

\* the counters; then the inode is written, or a later part of the creation
\* (quota, ACL, security) fails and the inode is evicted
count_inode(p) ==
  LET t == cr[p] IN
  /\ t.at = "count"
  /\ ctr' = [free |-> ctr.free - 1, dirs |-> IF t.dir THEN ctr.dirs + 1 ELSE ctr.dirs]
  /\ fx' = [fx EXCEPT ![Flex(t.g)].free = @ - 1]
  /\ \/ Busy(p, [t EXCEPT !.at = "write"])
     \/ isu.fails /\ Busy(p, [t EXCEPT !.at = "evict"])
  /\ UNCHANGED <<isu, gr, inodes, table, recent, last, lz, iops, corrupt, stuck, islip>>

write_inode(p) ==
  LET t == cr[p] IN
  /\ t.at = "write"
  /\ inodes' = inodes \cup {[g |-> t.g, i |-> t.i, dir |-> t.dir]}
  /\ table' = table \cup {<<t.g, t.i>>}
  /\ Busy(p, NoCall)
  /\ UNCHANGED <<isu, gr, fx, ctr, recent, last, lz, iops, corrupt, stuck, islip>>

\* the last reference to an inode without links goes: ext4_free_inode
ext4_unlink(p, n) ==
  /\ n \in inodes
  /\ Start(p, [NoCall EXCEPT !.at = "evict", !.g = n.g, !.i = n.i, !.dir = n.dir])
  /\ inodes' = inodes \ {n}
  /\ UNCHANGED <<isu, gr, fx, ctr, table, recent, last, lz, corrupt, stuck, islip>>

free_inode_clears(p) ==
  LET t == cr[p]
      dirs == IF t.dir THEN 1 ELSE 0
  IN  /\ ext4_read_inode_bitmap(t.g)
      /\ gr' = [gr EXCEPT ![t.g].bits = @ \ {t.i}, ![t.g].free = @ + 1, ![t.g].dirs = @ - dirs]
      /\ ctr' = [free |-> ctr.free + 1, dirs |-> ctr.dirs - dirs]
      /\ fx' = [fx EXCEPT ![Flex(t.g)].free = @ + 1, ![Flex(t.g)].dirs = @ - dirs]
      /\ Busy(p, NoCall)
      /\ UNCHANGED <<corrupt, stuck>>

\* a damaged bitmap: the inode is gone, its bit and its place in the counts stay
free_inode_refused(p) ==
  LET t == cr[p]
  IN  /\ ~ext4_read_inode_bitmap(t.g)
      /\ ext4_mark_group_bitmap_corrupted(t.g)
      /\ stuck' = stuck \cup {[g |-> t.g, i |-> t.i, dir |-> t.dir, at |-> "evict"]}
      /\ Busy(p, NoCall)
      /\ UNCHANGED <<gr, fx>>

\* no write access to the bitmap, and nothing happens, or to the descriptor
\* block, and the bit is cleared all the same
free_inode_fails(p) ==
  LET t == cr[p]
  IN  /\ ext4_read_inode_bitmap(t.g)
      /\ \/ GivesUp(p, t, "evict") /\ UNCHANGED gr
         \/ GivesUp(p, t, "cleared") /\ gr' = [gr EXCEPT ![t.g].bits = @ \ {t.i}]
      /\ UNCHANGED <<fx, ctr, corrupt>>

ext4_free_inode(p) ==
  LET t == cr[p]
  IN  /\ t.at = "evict"
      /\ free_inode_clears(p) \/ free_inode_refused(p) \/ free_inode_fails(p)
      /\ table' = table \ {<<t.g, t.i>>}
      /\ recent' = IF isu.journal THEN recent ELSE recent \cup {<<t.g, t.i>>}
      /\ UNCHANGED <<isu, inodes, last, lz, iops, islip>>

\* RECENTCY_MIN, RECENTCY_DIRTY: after a while the number may be used again
recently_deleted_ends ==
  /\ \E n \in recent : recent' = recent \ {n}
  /\ UNCHANGED <<isu, gr, fx, ctr, cr, inodes, table, last, lz, iops, corrupt, stuck, islip>>

\* the block allocator takes a cluster of the group
ext4_mb_mark_diskspace_used(g) ==
  /\ isu.blocks /\ (gr[g].buninit \/ gr[g].clu = isu.cpg)
  /\ gr' = [gr EXCEPT ![g] = [init_block_group(g) EXCEPT !.clu = @ - 1]]
  /\ UNCHANGED <<isu, fx, ctr, cr, inodes, table, recent, last, lz, iops, corrupt, stuck, islip>>

-----------------------------------------------------------------------------
(* ext4_init_inode_table, called by the ext4lazyinit thread.               *)

\* alloc_sem is taken for writing and the inodes to spare are computed, in
\* whole blocks of the table
ext4_init_inode_table(g) ==
  /\ isu.lazy /\ lz.at = -1 /\ ~gr[g].zeroed
  /\ lz' = [at |-> g, from |-> ((UsedUpTo(gr[g]) + isu.ipb - 1) \div isu.ipb) * isu.ipb]
  /\ UNCHANGED <<isu, gr, fx, ctr, cr, inodes, table, recent, last, iops, corrupt, stuck, islip>>

\* the zeroes reach the disk, the flag is set and alloc_sem released
sb_issue_zeroout ==
  /\ lz.at # -1
  /\ table' = {n \in table : n[1] # lz.at \/ n[2] <= lz.from}
  /\ gr' = [gr EXCEPT ![lz.at].zeroed = TRUE]
  /\ lz' = [at |-> -1, from |-> 0]
  /\ UNCHANGED <<isu, fx, ctr, cr, inodes, recent, last, iops, corrupt, stuck, islip>>

-----------------------------------------------------------------------------
\* isu.used: how many inodes (files) of each group are in use from the start
IallocInit ==
  /\ isu \in IallocSetups
  /\ inodes = {[g |-> n[1], i |-> n[2], dir |-> FALSE] :
                 n \in {m \in Groups \X (1 .. Ipg) : m[2] <= isu.used[m[1]]}}
  /\ table = {<<n.g, n.i>> : n \in inodes}
  /\ gr = [g \in Groups |->
             LET fresh == isu.used[g] = 0 IN
             [bits |-> 1 .. isu.used[g], free |-> Ipg - isu.used[g], dirs |-> 0,
              unused |-> Ipg - isu.used[g], uninit |-> fresh, zeroed |-> FALSE,
              buninit |-> fresh, clu |-> isu.cpg]]
  /\ fx = [f \in 0 .. NFlex - 1 |->
             [free |-> MapThenSumSet(LAMBDA g : gr[g].free, {g \in Groups : Flex(g) = f}),
              dirs |-> 0]]
  /\ ctr = [free |-> MapThenSumSet(LAMBDA g : gr[g].free, Groups), dirs |-> 0]
  /\ cr = [p \in isu.tasks |-> NoCall]
  /\ recent = {}
  /\ last = -1
  /\ lz = [at |-> -1, from |-> 0]
  /\ iops = 0
  /\ corrupt = {} /\ stuck = {}
  /\ islip = "none"

IallocStep(p) ==
  \/ search_group(p)
  \/ no_group(p)
  \/ take_inode(p)
  \/ init_blocks(p)
  \/ update_desc(p)
  \/ count_inode(p)
  \/ write_inode(p)
  \/ ext4_free_inode(p)

IallocNext ==
  \/ \E p \in isu.tasks : IallocStep(p)
  \/ \E p \in isu.tasks, dir, top \in BOOLEAN, goal \in isu.goals, freei \in {0, ctr.free} :
       /\ top => dir /\ isu.dirs
       /\ dir => isu.dirs
       /\ __ext4_new_inode(p, dir, top, goal, freei)
  \/ \E p \in isu.tasks, n \in inodes : ext4_unlink(p, n)
  \/ recently_deleted_ends
  \/ \E g \in Groups : ext4_mb_mark_diskspace_used(g)
  \/ \E g \in Groups : ext4_init_inode_table(g)
  \/ sb_issue_zeroout

-----------------------------------------------------------------------------
\* an inode number taken by a call that is still under way, or stuck
Held == {[g |-> cr[p].g, i |-> cr[p].i, dir |-> cr[p].dir, at |-> cr[p].at, p |-> p] :
           p \in {q \in isu.tasks : cr[q].at \in {"blocks", "desc", "count", "write", "evict"}}}
        \cup stuck
HeldAt(stages) == {h \in Held : h.at \in stages}
Of(g, S) == {n \in S : n.g = g}
DirsOf(S) == Cardinality({n \in S : n.dir})

=============================================================================
