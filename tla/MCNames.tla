------------------------------ MODULE MCNames ------------------------------
(* Directories, extended attributes, the inode allocator and multiple-mount
   protection for TLC.  A behaviour runs one of them, in one of its setups. *)
EXTENDS Integers, FiniteSets, TLC

VARIABLES part,                                              \* which one
          dsu, dir, names, rd, dops, dslip, dbroken,         \* Directory
          xsu, ino, xb, bc, ea, px, want, xops, xslip,       \* Xattr
          isu, gr, fx, ctr, cr, inodes, table, recent, last, lz, iops, corrupt, stuck, islip, \* Ialloc
          block, bh, pc, seq, wait, t                        \* Mmp

-----------------------------------------------------------------------------
(* Directories.  Hashes are <<major, minor>>; b, c and d share a major hash. *)

Dots == "dots"
Six == {"a", "b", "c", "d", "e", "f"}
Five == Six \ {"f"}
SixHashes == [n \in Six \cup {Dots} |->
                CASE n = "a" -> <<4, 0>> [] n = "b" -> <<8, 1>> [] n = "c" -> <<8, 1>>
                  [] n = "d" -> <<8, 2>> [] n = "e" -> <<10, 0>> [] n = "f" -> <<12, 0>>
                  [] OTHER -> <<6, 1>>]

\* An indexed directory whose colliding names spread over two leaves.
Colliding ==
  [index |-> TRUE, bs |-> 4, ibs |-> 0, xbs |-> 0, rootlim |-> 3, nodelim |-> 2,
   maxlevel |-> 2, maxblk |-> 6, names |-> Six, len |-> [n \in Six \cup {Dots} |-> 1],
   hash |-> SixHashes, pre |-> <<"c", "b">>, ops |-> 5, rooms |-> {1, 2},
   rename |-> FALSE, whiteout |-> FALSE]
\* Small index blocks: the tree gets its second and third level.
Deep == [Colliding EXCEPT !.rootlim = 2, !.bs = 2, !.maxlevel = 3, !.maxblk = 9,
           !.pre = <<"e", "b", "f", "a">>, !.ops = 6, !.rename = TRUE, !.rooms = {1}]
\* No index.
Linear == [Colliding EXCEPT !.index = FALSE, !.bs = 3, !.rooms = {1}, !.ops = 7,
             !.pre = <<"a", "b", "c", "d", "e">>]
\* Entries in the inode body, converted to a block when it is full.
Inline == [Colliding EXCEPT !.ibs = 2, !.xbs = 2, !.bs = 6, !.names = Five, !.rooms = {2},
             !.pre = <<"a", "b", "c">>, !.rename = TRUE]
InlineLinear == [Inline EXCEPT !.index = FALSE, !.rename = FALSE]
\* No block left for a split, also while a whiteout is made.
Full == [Colliding EXCEPT !.pre = <<"a", "b">>, !.maxblk = 2, !.whiteout = TRUE,
           !.rooms = {2}, !.ops = 4]
\* Names of two lengths leave gaps.
Fragmented == [Colliding EXCEPT !.bs = 8, !.rename = TRUE, !.ops = 7, !.rooms = {2},
                 !.len = [n \in Six \cup {Dots} |-> IF n \in {"a", "c", "e"} THEN 2 ELSE 1],
                 !.pre = <<"a", "f", "b", "c", "d">>]

Dirs == INSTANCE Directory WITH
  DirSetups <- {Colliding, Deep, Linear, Inline, InlineLinear, Full, Fragmented}

-----------------------------------------------------------------------------
(* Extended attributes: x (and y) of two or three files, set by two tasks. *)

In(v) == [v |-> v, e |-> 0]

\* A block shared by equal attributes, copied, given up and found again.
Shared ==
  [tasks |-> {1, 2}, files |-> {1, 2, 3}, blocks |-> 3, eas |-> 0,
   shared |-> [x |-> In("a")], by |-> {1}, large_value |-> "L",
   names |-> {"x"}, values |-> {"a", "b"}, size |-> [a |-> 1, b |-> 1],
   body |-> 0, block |-> 5, header |-> 1, reserve |-> 1, large |-> 9,
   ea_inode |-> FALSE, max |-> 2, want_extra |-> 0, min_extra |-> 0,
   expand |-> FALSE, delete |-> TRUE, get |-> FALSE, shrink |-> FALSE, ops |-> 3]
\* The same with readers and a cache under memory pressure.
Cached == [Shared EXCEPT !.values = {"a"}, !.get = TRUE, !.shrink = TRUE, !.delete = FALSE]
\* Large values, which have inodes of their own.
Large == [Shared EXCEPT !.by = {1, 2}, !.shared = [x |-> [v |-> "L", e |-> 1]],
            !.values = {"a", "L"}, !.size = [a |-> 1, L |-> 3], !.large = 2,
            !.ea_inode = TRUE, !.eas = 2, !.body = 1, !.block = 4, !.blocks = 2]
\* The inode's fixed part grows and pushes attributes out of the body.
Growing == [Shared EXCEPT !.names = {"x", "y"}, !.files = {1, 2}, !.body = 4, !.blocks = 1,
              !.values = {"a", "L"}, !.size = [a |-> 1, L |-> 2], !.expand = TRUE,
              !.delete = FALSE, !.want_extra = 3, !.min_extra = 1, !.eas = 1,
              !.ea_inode = TRUE, !.large = 2, !.reserve = 2, !.shrink = TRUE]
\* Attributes in body and block, and no block left to copy to.
Spread == [Shared EXCEPT !.names = {"x", "y"}, !.files = {1, 2}, !.by = {1, 2},
             !.shared = [x |-> In("a"), y |-> In("a")], !.values = {"e", "a"},
             !.size = [a |-> 1, e |-> 0], !.body = 1, !.blocks = 1]

Attrs == INSTANCE Xattr WITH XattrSetups <- {Shared, Cached, Large, Growing, Spread}

-----------------------------------------------------------------------------
(* The inode allocator: two tasks, two or three groups of two inodes. *)

\* Files, with lazy initialisation of tables and block bitmaps beside them.
Beside ==
  [tasks |-> {1, 2}, groups |-> 2, ipg |-> 2, ipb |-> 1, flex |-> 1, cpg |-> 2,
   ipg16 |-> 1, ipg4 |-> 1, cpg4 |-> 1, parent |-> 0, parent_ino |-> 1, hash |-> 1,
   goals |-> {0}, bad |-> {}, used |-> (0 :> 1 @@ 1 :> 0), journal |-> TRUE,
   fails |-> FALSE, errors |-> 0, lazy |-> TRUE, blocks |-> TRUE, dirs |-> FALSE, ops |-> 3]
\* Calls stop half way: no buffer, no access, a block bitmap that cannot be read.
Erring == [Beside EXCEPT !.errors = 1, !.dirs = TRUE, !.blocks = FALSE, !.lazy = FALSE]
\* Directories are spread by the Orlov rule; handles fail.
Orlov == [Beside EXCEPT !.groups = 3, !.used = (0 :> 2 @@ 1 :> 1 @@ 2 :> 0), !.dirs = TRUE,
            !.lazy = FALSE, !.blocks = FALSE, !.fails = TRUE]
\* Flexible groups, one bitmap of which is damaged.
Flexible == [Orlov EXCEPT !.used = (0 :> 2 @@ 1 :> 1 @@ 2 :> 1), !.flex = 2, !.fails = FALSE,
               !.ops = 4, !.cpg4 = 2, !.bad = {1}]
\* An inode asked for by number, without and with a journal.
Goals == [Beside EXCEPT !.goals = {0, 2}, !.blocks = FALSE, !.lazy = FALSE, !.ipg = 3,
            !.ipb = 2, !.journal = FALSE, !.used = (0 :> 1 @@ 1 :> 1)]
JournaledGoals == [Beside EXCEPT !.goals = {0, 4}, !.used = (0 :> 2 @@ 1 :> 0),
                     !.blocks = FALSE]

Inodes == INSTANCE Ialloc WITH IallocSetups <- {Beside, Erring, Orlov, Flexible, Goals, JournaledGoals}

-----------------------------------------------------------------------------
(* Multiple-mount protection: two nodes mount, unmount and crash. *)

Crashes == INSTANCE Mmp WITH
  Nodes <- {"n1", "n2"}, UpdateInterval <- 2, MinCheck <- 2, MaxCheck <- 5, WaitCap <- 60,
  SeqMax <- 3, Delay <- 1, FirstSeqs <- {<<"clean", 0>>, <<"num", 1>>}, Stall <- FALSE

-----------------------------------------------------------------------------
dir_vars == <<dsu, dir, names, rd, dops, dslip, dbroken>>
xattr_vars == <<xsu, ino, xb, bc, ea, px, want, xops, xslip>>
ialloc_vars == <<isu, gr, fx, ctr, cr, inodes, table, recent, last, lz, iops, corrupt, stuck, islip>>
mmp_vars == <<block, bh, pc, seq, wait, t>>

\* the other parts are not there
NoDirs == /\ dsu = 0 /\ dir = 0 /\ names = 0 /\ rd = 0 /\ dops = 0 /\ dslip = 0
          /\ dbroken = 0
NoAttrs == /\ xsu = 0 /\ ino = 0 /\ xb = 0 /\ bc = 0 /\ ea = 0 /\ px = 0
           /\ want = 0 /\ xops = 0 /\ xslip = 0
NoInodes == /\ isu = 0 /\ gr = 0 /\ fx = 0 /\ ctr = 0 /\ cr = 0 /\ inodes = 0
            /\ table = 0 /\ recent = 0 /\ last = 0 /\ lz = 0 /\ iops = 0
            /\ corrupt = 0 /\ stuck = 0 /\ islip = 0
NoMmp == /\ block = 0 /\ bh = 0 /\ pc = 0 /\ seq = 0 /\ wait = 0 /\ t = 0

NamesInit ==
  \/ /\ part = "dirs" /\ Dirs!DirInit
     /\ NoAttrs /\ NoInodes /\ NoMmp
  \/ /\ part = "attrs" /\ Attrs!XattrInit
     /\ NoDirs /\ NoInodes /\ NoMmp
  \/ /\ part = "inodes" /\ Inodes!IallocInit
     /\ NoDirs /\ NoAttrs /\ NoMmp
  \/ /\ part = "mmp" /\ Crashes!Init
     /\ NoDirs /\ NoAttrs /\ NoInodes

NamesNext ==
  /\ UNCHANGED part
  /\ \/ part = "dirs" /\ Dirs!DirNext /\ UNCHANGED <<xattr_vars, ialloc_vars, mmp_vars>>
     \/ part = "attrs" /\ Attrs!XattrNext /\ UNCHANGED <<dir_vars, ialloc_vars, mmp_vars>>
     \/ part = "inodes" /\ Inodes!IallocNext /\ UNCHANGED <<dir_vars, xattr_vars, mmp_vars>>
     \/ part = "mmp" /\ Crashes!Next /\ UNCHANGED <<dir_vars, xattr_vars, ialloc_vars>>

NamesSpec == NamesInit /\ [][NamesNext]_<<part, dir_vars, xattr_vars, ialloc_vars, mmp_vars>>

\* Directory!NamesFound: a lookup finds exactly the names that were added and
\* not removed, however the directory has been split, indexed or converted.
NamesFound == part = "dirs" => Dirs!NamesFound

\* Directory!ReaddirExact: a scan beside changes returns every name that stays
\* once, and none that was never there.
ReaddirExact == part = "dirs" => Dirs!ReaddirExact

\* Xattr!AttributesExact: every file has the attributes last set, and blocks and
\* EA inodes are counted exactly, through sharing, copying and release.
AttributesExact == part = "attrs" => Attrs!AttributesExact


\* Mmp!WaitingMountExcludes: a mount that had to wait excludes every other one,
\* through crashes and races of several mounts.
WaitingMountExcludes == part = "mmp" => Crashes!WaitingMountExcludes
=============================================================================
