---------------------------- MODULE Directory ----------------------------
(***************************************************************************)
(* A directory and one reader of it: namei.c (leaf blocks, the hashed      *)
(* index, rename inside a directory), inline.c (a directory kept in its    *)
(* inode) and dir.c (readdir).                                             *)
(*                                                                         *)
(* A leaf is the sequence of its records; a record has a name (or none), a *)
(* file type and a record length, all lengths in units of the shortest     *)
(* record.  An index block is the sequence of its dx entries.  The hash of *)
(* a name is a constant of the setup: even, as ext4fs_dirhash() makes it,  *)
(* with a minor hash below MinorBase.  "." and ".." are one entry, Dots.   *)
(*                                                                         *)
(* The writers hold i_rwsem, so each of their calls is one action; a call  *)
(* of the reader holds it shared and is a sequence of steps during which   *)
(* no writer runs, except where ext4_readdir() lets go of it between two   *)
(* blocks.  The ghost "names" is what the directory should hold.           *)
(*                                                                         *)
(* dslip records two things the code gets wrong, so that the properties    *)
(* can speak of everything else: "wrap", a rescan that ends at the end of  *)
(* an odd block ORs the block size into a position that already has that   *)
(* bit and reads the block again (dir.c:313); "whiteout", a rename that    *)
(* leaves a whiteout has already overwritten the old entry when adding the *)
(* new one fails (namei.c:3580).                                           *)
(***************************************************************************)
EXTENDS Integers, Sequences, FiniteSets, SequencesExt

CONSTANT DirSetups

VARIABLES dsu,      \* the setup: feature flags, sizes, names and their hashes
          dir,      \* the directory
          names,    \* ghost: the names it should hold and their types
          rd,       \* the reader
          dops,     \* ghost: calls made so far
          dslip,    \* ghost: see above
          dbroken   \* ghost: an entry was written where it does not fit

dir_vars == <<dsu, dir, names, rd, dops, dslip, dbroken>>

None == "none"
Dots == "dots"
MinorBase == 4
EOF == 1000
Absent == [b |-> -9, i |-> 0]

Hash(n) == dsu.hash[n][1]
Key(n) == Hash(n) * MinorBase + dsu.hash[n][2]
EXT4_DIR_REC_LEN(n) == dsu.len[n]
Rec(n, f, r) == [n |-> n, f |-> f, rec |-> r]
Blk(D, b) == D.blk[b + 1].v

(* Records of a leaf. *)

RECURSIVE Off(_, _)
Off(s, i) == IF i = 1 THEN 0 ELSE Off(s, i - 1) + s[i - 1].rec

Size(s) == Off(s, Len(s) + 1)
Live(s) == SelectSeq(s, LAMBDA e : e.n \notin {None, Dots})
Index(s, n) == IF \E i \in DOMAIN s : s[i].n = n
               THEN CHOOSE i \in DOMAIN s : s[i].n = n ELSE 0
Room(e) == IF e.n = None THEN e.rec ELSE e.rec - EXT4_DIR_REC_LEN(e.n)

\* The last record is made to reach the end of the space.
ext4_update_final_de(s, size) ==
  Append(Front(s), [Last(s) EXCEPT !.rec = size - Off(s, Len(s))])

ext4_find_dest_de(s, n) ==
  LET fit == {i \in DOMAIN s : Room(s[i]) >= EXT4_DIR_REC_LEN(n)}
  IN IF fit = {} THEN 0 ELSE CHOOSE i \in fit : \A j \in fit : i <= j

ext4_insert_dentry(s, i, n, f) ==
  IF s[i].n = None
  THEN [s EXCEPT ![i] = Rec(n, f, @.rec)]
  ELSE InsertAt([s EXCEPT ![i].rec = EXT4_DIR_REC_LEN(s[i].n)], i + 1,
                Rec(n, f, s[i].rec - EXT4_DIR_REC_LEN(s[i].n)))

ext4_generic_delete_entry(s, i) ==
  IF i = 1
  THEN [s EXCEPT ![1] = Rec(None, "file", @.rec)]
  ELSE RemoveAt([s EXCEPT ![i - 1].rec = @ + s[i].rec], i)

(* The hashed index. *)

\* The entry of an index block whose range holds hash h; the first entry has
\* no hash of its own.
dx_search(v, h) ==
  LET low == {i \in DOMAIN v : i = 1 \/ v[i].hash <= h}
  IN CHOOSE i \in low : \A j \in low : j <= i

RECURSIVE dx_descend(_, _, _, _)
dx_descend(D, h, b, k) ==
  LET at == dx_search(Blk(D, b), h)
  IN <<[b |-> b, at |-> at]>> \o
     IF k = 0 THEN <<>> ELSE dx_descend(D, h, Blk(D, b)[at].blk, k - 1)

dx_probe(D, h) == dx_descend(D, h, 0, D.levels)

Leaf(D, frames) == Blk(D, Last(frames).b)[Last(frames).at].blk

RECURSIVE dx_leftmost(_, _, _)
dx_leftmost(D, b, k) ==
  IF k = 0 THEN <<>>
  ELSE <<[b |-> b, at |-> 1]>> \o dx_leftmost(D, Blk(D, b)[1].blk, k - 1)

\* The frames of the next leaf, <<>> after the last one, and the hash at which
\* that leaf starts.
ext4_htree_next_block(D, frames) ==
  LET more == {j \in DOMAIN frames : frames[j].at < Len(Blk(D, frames[j].b))}
      p == CHOOSE j \in more : \A k \in more : k <= j
      next == Blk(D, frames[p].b)[frames[p].at + 1]
  IN IF more = {} THEN [frames |-> <<>>, start |-> EOF]
     ELSE [frames |-> [SubSeq(frames, 1, p) EXCEPT ![p].at = @ + 1] \o
                      dx_leftmost(D, next.blk, Len(frames) - p),
           start |-> next.hash]

RECURSIVE dx_walk(_, _, _)
dx_walk(D, n, frames) ==
  LET b == Leaf(D, frames)
      i == Index(Blk(D, b), n)
      next == ext4_htree_next_block(D, frames)
  IN IF i > 0 THEN [b |-> b, i |-> i]
     ELSE IF next.frames # <<>> /\ next.start \div 2 = Hash(n) \div 2
          THEN dx_walk(D, n, next.frames)
          ELSE Absent

ext4_dx_find_entry(D, n) == dx_walk(D, n, dx_probe(D, Hash(n)))

\* An entry of an inline directory is found in area 1 (i_block) or 2 (the
\* system.data attribute), given as block -1 or -2.
ext4_find_inline_entry(D, n) ==
  LET at == {a \in DOMAIN D.inl : Index(D.inl[a], n) > 0}
  IN IF at = {} THEN Absent
     ELSE LET a == CHOOSE a \in at : TRUE
          IN [b |-> -a, i |-> Index(D.inl[a], n)]

ext4_find_entry(D, n) ==
  IF D.inl # <<>> THEN ext4_find_inline_entry(D, n)
  ELSE IF D.flag THEN ext4_dx_find_entry(D, n)
  ELSE LET at == {b \in DOMAIN D.blk : Index(D.blk[b].v, n) > 0}
       IN IF at = {} THEN Absent
          ELSE LET b == CHOOSE b \in at : TRUE
               IN [b |-> b - 1, i |-> Index(D.blk[b].v, n)]

(* Splitting a leaf. *)

\* One pass of the comb: from the top, each pair at distance g is ordered.
RECURSIVE dx_comb_pass(_, _, _)
dx_comb_pass(s, g, p) ==
  IF p <= g THEN s
  ELSE dx_comb_pass(IF Hash(s[p].n) < Hash(s[p - g].n)
                    THEN [s EXCEPT ![p] = s[p - g], ![p - g] = s[p]] ELSE s,
                    g, p - 1)

RECURSIVE dx_comb(_, _)
dx_comb(s, count) ==
  LET c == (count * 10) \div 13
      g == IF c \in {9, 10} THEN 11 ELSE c
  IN IF count <= 2 THEN s ELSE dx_comb(dx_comb_pass(s, g, Len(s)), g)

\* The bubble sort that ends the sort keeps the order of equal hashes.
dx_bubble(s) ==
  LET before(i, j) == \/ Hash(s[i].n) < Hash(s[j].n)
                      \/ (Hash(s[i].n) = Hash(s[j].n) /\ i < j)
      order == SetToSortSeq(DOMAIN s, before)
  IN [k \in DOMAIN s |-> s[order[k]]]

dx_sort_map(s) == dx_bubble(dx_comb(s, Len(s)))

\* The map is filled from its end, so the first record comes last.
dx_make_map(s) == Reverse(Live(s))

RECURSIVE dx_move_count(_, _, _)
dx_move_count(map, i, size) ==
  IF i = 0 \/ 2 * size + map[i].rec > dsu.bs THEN 0
  ELSE 1 + dx_move_count(map, i - 1, size + map[i].rec)

Packed(s) ==
  ext4_update_final_de(
    IF s = <<>> THEN <<Rec(None, "file", 0)>>
    ELSE [k \in DOMAIN s |-> [s[k] EXCEPT !.rec = EXT4_DIR_REC_LEN(s[k].n)]],
    dsu.bs)

\* The entries of the map from "split" on go to the new block.  The word
\* before the map, read when all of them move, is zero: the block is new.
dx_split(D, nb, at, h, map, split) ==
  LET b == Blk(D, nb)[at].blk
      moved == SubSeq(map, split + 1, Len(map))
      kept == SelectSeq(Live(Blk(D, b)), LAMBDA e : ~ Contains(moved, e))
      hash2 == Hash(map[split + 1].n)
      continued == IF hash2 = IF split = 0 THEN 0 ELSE Hash(map[split].n)
                   THEN 1 ELSE 0
      new == Len(D.blk)
  IN [ok |-> TRUE, b |-> IF h >= hash2 THEN new ELSE b,
      d |-> [D EXCEPT !.blk =
               Append([@ EXCEPT ![b + 1].v = Packed(kept),
                                ![nb + 1].v = InsertAt(@, at + 1,
                                    [hash |-> hash2 + continued, blk |-> new])],
                      [t |-> "leaf", v |-> Packed(moved)])]]

ext4_append_fails(D) == Len(D.blk) >= dsu.maxblk

do_split(D, nb, at, h) ==
  LET map == dx_sort_map(dx_make_map(Blk(D, Blk(D, nb)[at].blk)))
  IN IF ext4_append_fails(D) THEN [ok |-> FALSE, d |-> D, b |-> 0]
     ELSE dx_split(D, nb, at, h, map, Len(map) - dx_move_count(map, Len(map), 0))

(* Adding an entry.  The result has the directory, whether the call
   succeeded, and whether the entry fits where it was put. *)

Done(D, ok, fits) == [d |-> D, ok |-> ok, fits |-> fits]

add_dirent_to_buf(D, b, i, n, f) ==
  Done([D EXCEPT !.blk[b + 1].v = ext4_insert_dentry(@, i, n, f)], TRUE,
       Room(Blk(D, b)[i]) >= EXT4_DIR_REC_LEN(n))

\* do_split() hands back the last record of the block it chose.
add_after_split(r, n, f) ==
  IF r.ok THEN add_dirent_to_buf(r.d, r.b, Len(Blk(r.d, r.b)), n, f)
  ELSE Done(r.d, FALSE, TRUE)

dx_limit(b) == IF b = 0 THEN dsu.rootlim ELSE dsu.nodelim

dx_full(D, fr) == Len(Blk(D, fr.b)) = dx_limit(fr.b)

\* The index block to split: the lowest one whose parent has room, the root
\* when there is none.
dx_split_level(D, frames) ==
  LET tops == {j \in DOMAIN frames : j = 1 \/ ~ dx_full(D, frames[j - 1])}
  IN CHOOSE j \in tops : \A k \in tops : k <= j

dx_add_level(D) ==
  [D EXCEPT !.blk = Append([@ EXCEPT ![1].v =
                              <<[hash |-> 0, blk |-> Len(D.blk)]>>],
                           [t |-> "node", v |-> Blk(D, 0)]),
            !.levels = @ + 1]

dx_split_index(D, frames, j) ==
  LET v == Blk(D, frames[j].b)
      half == Len(v) \div 2
  IN [D EXCEPT !.blk =
        Append([@ EXCEPT ![frames[j].b + 1].v = SubSeq(v, 1, half),
                         ![frames[j - 1].b + 1].v =
                             InsertAt(@, frames[j - 1].at + 1,
                                      [hash |-> v[half + 1].hash,
                                       blk |-> Len(D.blk)])],
               [t |-> "node", v |-> SubSeq(v, half + 1, Len(v))])]

RECURSIVE ext4_dx_add_entry(_, _, _)
ext4_dx_add_entry(D, n, f) ==
  LET frames == dx_probe(D, Hash(n))
      b == Leaf(D, frames)
      i == ext4_find_dest_de(Blk(D, b), n)
      L == Len(frames)
      j == dx_split_level(D, frames)
      half == Len(Blk(D, frames[j].b)) \div 2
      right == frames[L].at > half
  IN IF i > 0 THEN add_dirent_to_buf(D, b, i, n, f)
     ELSE IF ~ dx_full(D, frames[L])
     THEN add_after_split(do_split(D, frames[L].b, frames[L].at, Hash(n)), n, f)
     ELSE IF (j = 1 /\ L = dsu.maxlevel) \/ ext4_append_fails(D)
     THEN Done(D, FALSE, TRUE)
     ELSE IF j = 1 THEN ext4_dx_add_entry(dx_add_level(D), n, f)
     ELSE IF j < L THEN ext4_dx_add_entry(dx_split_index(D, frames, j), n, f)
     ELSE add_after_split(
            do_split(dx_split_index(D, frames, L),
                     IF right THEN Len(D.blk) ELSE frames[L].b,
                     IF right THEN frames[L].at - half ELSE frames[L].at,
                     Hash(n)), n, f)

\* The records of the only block move to block 1, block 0 becomes the root.
make_indexed_dir(D, n, f) ==
  IF ext4_append_fails(D) THEN Done(D, FALSE, TRUE)
  ELSE add_after_split(
         do_split([D EXCEPT !.blk =
                     <<[t |-> "node", v |-> <<[hash |-> 0, blk |-> 1]>>],
                       [t |-> "leaf", v |-> ext4_update_final_de(
                                              Tail(Blk(D, 0)), dsu.bs)]>>,
                     !.flag = TRUE], 0, 1, Hash(n)), n, f)

ext4_add_linear(D, n, f) ==
  LET fit == {b \in DOMAIN D.blk : ext4_find_dest_de(D.blk[b].v, n) > 0}
      b == CHOOSE b \in fit : \A c \in fit : b <= c
  IN IF fit # {}
     THEN add_dirent_to_buf(D, b - 1, ext4_find_dest_de(D.blk[b].v, n), n, f)
     ELSE IF Len(D.blk) = 1 /\ dsu.index THEN make_indexed_dir(D, n, f)
     ELSE IF ext4_append_fails(D) THEN Done(D, FALSE, TRUE)
     ELSE add_dirent_to_buf([D EXCEPT !.blk = Append(@, [t |-> "leaf",
                               v |-> <<Rec(None, "file", dsu.bs)>>])],
                            Len(D.blk), 1, n, f)

(* A directory in its inode. *)

\* The entries of both areas follow "." and ".." in the new block.
ext4_finish_convert_inline_dir(D) ==
  [D EXCEPT !.inl = <<>>,
            !.blk = <<[t |-> "leaf", v |-> ext4_update_final_de(
                        <<Rec(Dots, "file", EXT4_DIR_REC_LEN(Dots))>> \o
                        FlattenSeq(D.inl), dsu.bs)]>>]

\* The attribute space is used once, when there is more of it than the
\* shortest record needs.
ext4_update_inline_dir(D) ==
  IF Len(D.inl) = 1 /\ dsu.xbs > 1
  THEN [D EXCEPT !.inl = Append(@, <<Rec(None, "file", dsu.xbs)>>)] ELSE D

ext4_add_dirent_to_inline(D, a, n, f) ==
  Done([D EXCEPT !.inl[a] = ext4_insert_dentry(@, ext4_find_dest_de(@, n), n, f)],
       TRUE, TRUE)

ext4_try_add_inline_entry(D, n, f) ==
  LET E == ext4_update_inline_dir(D)
  IN IF ext4_find_dest_de(D.inl[1], n) > 0
     THEN ext4_add_dirent_to_inline(D, 1, n, f)
     ELSE IF Len(E.inl) = 2 /\ ext4_find_dest_de(E.inl[2], n) > 0
     THEN ext4_add_dirent_to_inline(E, 2, n, f)
     ELSE IF ext4_append_fails(E) THEN Done(E, FALSE, TRUE)
     ELSE ext4_add_linear(ext4_finish_convert_inline_dir(E), n, f)

ext4_add_entry(D, n, f) ==
  IF D.inl # <<>> THEN ext4_try_add_inline_entry(D, n, f)
  ELSE IF D.flag THEN ext4_dx_add_entry(D, n, f)
  ELSE ext4_add_linear(D, n, f)

(* Deleting an entry, renaming one. *)

ext4_delete_entry(D, at) ==
  IF at.b < 0
  THEN [D EXCEPT !.inl[-at.b] = ext4_generic_delete_entry(@, at.i)]
  ELSE [D EXCEPT !.blk[at.b + 1].v = ext4_generic_delete_entry(@, at.i)]

RecordsAt(D, b) == IF b < 0 THEN D.inl[-b] ELSE Blk(D, b)

\* The offset of the record found before the new entry was added.
OldOffset(D, at) == Off(RecordsAt(D, at.b), at.i)

\* The record that now starts at that offset of that buffer, 0 when the
\* offset is inside a record; the root of an index is one record to its end.
OldRecord(D, b, off) ==
  LET at == IF b >= 0 /\ D.blk[b + 1].t = "node" THEN {}
            ELSE {i \in DOMAIN RecordsAt(D, b) : Off(RecordsAt(D, b), i) = off}
  IN IF at = {} THEN 0 ELSE CHOOSE i \in at : TRUE

rename_delete_by_place(D, a, b, off, reread) ==
  IF reread \/ OldRecord(D, b, off) = 0
  THEN ext4_delete_entry(D, ext4_find_entry(D, a))
  ELSE ext4_delete_entry(D, [b |-> b, i |-> OldRecord(D, b, off)])

\* A record that is not the old entry any more, or not a record, makes the
\* entry be looked up again; bytes left over in unused space that still look
\* like it are found out by ext4_generic_delete_entry() and end there too.
ext4_rename_delete(D, a, b, off, reread) ==
  LET i == IF reread THEN 0 ELSE OldRecord(D, b, off)
  IN IF i > 0 /\ RecordsAt(D, b)[i].n = a
     THEN ext4_delete_entry(D, [b |-> b, i |-> i])
     ELSE ext4_delete_entry(D, ext4_find_entry(D, a))

ext4_setent(D, at, f) ==
  IF at.b < 0 THEN [D EXCEPT !.inl[-at.b][at.i].f = f]
  ELSE [D EXCEPT !.blk[at.b + 1].v[at.i].f = f]

(* The calls that change the directory. *)

is_dx_dir(D) == dsu.index /\ (D.flag \/ Len(D.blk) = 1 \/ D.inl # <<>>)

\* i_rwsem is free: the reader is outside its call, or between two blocks of
\* a directory that is read block by block.
Unlocked ==
  \/ ~ rd.in
  \/ ~ is_dx_dir(dir) /\ dir.inl = <<>> /\ rd.pos % dsu.bs = 0

DirCall == Unlocked /\ dops < dsu.ops /\ dops' = dops + 1 /\ UNCHANGED dsu

\* The first calls add the names of the setup in their order.
Filled == dops >= Len(dsu.pre)

\* The reader sees that i_version moved; a name that goes is no longer one
\* that was there all along.
Changed(there) ==
  rd' = [rd EXCEPT !.fresh = FALSE, !.stay = @ \cap there, !.ever = @ \cup there]

Add(n) ==
  /\ DirCall
  /\ ~ Filled => n = dsu.pre[dops + 1]
  /\ n \notin DOMAIN names
  /\ LET r == ext4_add_entry(dir, n, "file")
     IN /\ dir' = r.d
        /\ dbroken' = (dbroken \/ ~ r.fits)
        /\ IF r.ok
           THEN /\ names' = (n :> "file") @@ names
                /\ Changed(DOMAIN names \cup {n})
           ELSE UNCHANGED <<names, rd>>
  /\ UNCHANGED dslip

Delete(n) ==
  /\ DirCall
  /\ Filled
  /\ n \in DOMAIN names
  /\ ext4_find_entry(dir, n) # Absent
  /\ dir' = ext4_delete_entry(dir, ext4_find_entry(dir, n))
  /\ names' = [m \in DOMAIN names \ {n} |-> names[m]]
  /\ Changed(DOMAIN names \ {n})
  /\ UNCHANGED <<dslip, dbroken>>

\* ext4_rename() of a to b, which is not there: add b, delete a where it was
\* found before.
RenameNew(a, b) ==
  /\ DirCall
  /\ Filled
  /\ dsu.rename
  /\ a \in DOMAIN names
  /\ b \notin DOMAIN names
  /\ LET at == ext4_find_entry(dir, a)
         r == ext4_add_entry(dir, b, names[a])
         reread == dir.inl # <<>> /\ r.d.inl = <<>>
     IN /\ at # Absent
        /\ dbroken' = (dbroken \/ ~ r.fits)
        /\ IF r.ok
           THEN /\ dir' = ext4_rename_delete(r.d, a, at.b, OldOffset(dir, at),
                                             reread)
                /\ names' = (b :> names[a]) @@
                            [m \in DOMAIN names \ {a} |-> names[m]]
                /\ Changed(DOMAIN names' )
           ELSE dir' = r.d /\ UNCHANGED <<names, rd>>
  /\ UNCHANGED dslip

\* The same over an existing b: its entry is given the inode of a.
RenameOver(a, b) ==
  /\ DirCall
  /\ Filled
  /\ dsu.rename
  /\ a # b
  /\ {a, b} \subseteq DOMAIN names
  /\ LET at == ext4_find_entry(dir, a)
         set == ext4_setent(dir, ext4_find_entry(dir, b), names[a])
     IN dir' = ext4_rename_delete(set, a, at.b, OldOffset(dir, at), FALSE)
  /\ names' = [m \in DOMAIN names \ {a} |-> IF m = b THEN names[a] ELSE names[m]]
  /\ Changed(DOMAIN names')
  /\ UNCHANGED <<dslip, dbroken>>

\* RENAME_WHITEOUT: the old entry becomes the whiteout first.
RenameWhiteout(a, b) ==
  /\ DirCall
  /\ Filled
  /\ dsu.whiteout
  /\ a \in DOMAIN names
  /\ names[a] = "file"
  /\ b \notin DOMAIN names
  /\ LET r == ext4_add_entry(ext4_setent(dir, ext4_find_entry(dir, a), "white"),
                             b, "file")
     IN /\ dir' = r.d
        /\ dbroken' = (dbroken \/ ~ r.fits)
        /\ names' = IF r.ok THEN (b :> "file") @@ [names EXCEPT ![a] = "white"]
                    ELSE names
        /\ dslip' = IF r.ok THEN dslip ELSE dslip \cup {"whiteout"}
        /\ Changed(DOMAIN names')

(* readdir in hash order. *)

Group(s, k) == SelectSeq(s, LAMBDA e : e.k = k)

\* The red-black tree: one node per hash, further names of the same hash
\* behind the first one, the latest first.
ext4_htree_store_dirent(s) ==
  LET keys == SetToSortSeq({s[i].k : i \in DOMAIN s}, <)
      chain(g) == <<Head(g)>> \o Reverse(Tail(g))
  IN [j \in DOMAIN keys |->
        [k |-> keys[j],
         ns |-> LET g == chain(Group(s, keys[j])) IN [i \in DOMAIN g |-> g[i].n]]]

\* The names of a leaf whose hash is not below the start.
htree_dirblock_to_tree(s, start) ==
  LET live == SelectSeq(s, LAMBDA e : e.n # None /\ Key(e.n) >= start)
  IN [i \in DOMAIN live |-> [k |-> Key(live[i].n), n |-> live[i].n]]

RECURSIVE htree_fill_one_leaf(_, _, _, _)
htree_fill_one_leaf(D, start, frames, acc) ==
  LET all == acc \o htree_dirblock_to_tree(Blk(D, Leaf(D, frames)), start)
      next == ext4_htree_next_block(D, frames)
  IN IF next.frames = <<>> THEN [s |-> all, next |-> EOF]
     ELSE IF all # <<>> THEN [s |-> all, next |-> next.start * MinorBase]
     ELSE htree_fill_one_leaf(D, start, next.frames, all)

\* Leaves are read until one name is in the tree and the next leaf does not
\* continue the hash of this one.
RECURSIVE htree_fill(_, _, _, _)
htree_fill(D, start, frames, acc) ==
  LET all == acc \o htree_dirblock_to_tree(Blk(D, Leaf(D, frames)), start)
      next == ext4_htree_next_block(D, frames)
  IN IF next.frames = <<>> THEN [s |-> all, next |-> EOF]
     ELSE IF all # <<>> /\ next.start % 2 = 0
     THEN [s |-> all, next |-> next.start * MinorBase]
     ELSE htree_fill(D, start, next.frames, all)

ext4_htree_fill_tree(D, start) ==
  IF D.inl # <<>>
  THEN [s |-> htree_dirblock_to_tree(<<Rec(Dots, "file", 1)>> \o FlattenSeq(D.inl),
                                     start), next |-> EOF]
  ELSE IF ~ D.flag
  THEN [s |-> htree_dirblock_to_tree(Blk(D, 0), start), next |-> EOF]
  ELSE htree_fill(D, start, dx_probe(D, start \div MinorBase),
                  IF start = 0 THEN <<[k |-> 0, n |-> Dots]>> ELSE <<>>)

Reading == rd.in /\ UNCHANGED <<dsu, dir, names, dops, dbroken>>

\* A call with room for k names; the first one begins the scan.  A position that
\* is not the one the last call left makes it start over from there.
ReaddirEnters(k) ==
  /\ ~ rd.in
  /\ Filled
  /\ ~ rd.eof
  /\ LET r == IF rd.got = {} THEN [rd EXCEPT !.stay = DOMAIN names,
                                            !.ever = DOMAIN names] ELSE rd
     IN rd' = IF is_dx_dir(dir) /\ rd.last # rd.pos
              THEN [r EXCEPT !.in = TRUE, !.room = k, !.nodes = <<>>,
                             !.chain = <<>>, !.curr = rd.pos]
              ELSE [r EXCEPT !.in = TRUE, !.room = k]
  /\ UNCHANGED <<dsu, dir, names, dops, dslip, dbroken>>

ext4_dir_llseek ==
  /\ ~ rd.in
  /\ rd.pos # 0
  /\ rd' = [rd EXCEPT !.pos = 0, !.fresh = FALSE, !.eof = FALSE, !.got = {},
                      !.stay = DOMAIN names, !.ever = DOMAIN names]
  /\ UNCHANGED <<dsu, dir, names, dops, dslip, dbroken>>

Left(r) == [r EXCEPT !.in = FALSE, !.last = r.pos]
AtEof(r) == Left([r EXCEPT !.pos = EOF, !.eof = TRUE])

dx_readdir_fills ==
  /\ Reading
  /\ is_dx_dir(dir)
  /\ rd.chain = <<>>
  /\ rd.nodes = <<>> \/ ~ rd.fresh
  /\ LET t == ext4_htree_fill_tree(dir, rd.curr)
     IN rd' = IF t.s = <<>> THEN AtEof([rd EXCEPT !.nodes = <<>>, !.fresh = TRUE])
              ELSE [rd EXCEPT !.nodes = ext4_htree_store_dirent(t.s),
                              !.next = t.next, !.fresh = TRUE]
  /\ UNCHANGED dslip

dx_readdir_takes_node ==
  /\ Reading
  /\ is_dx_dir(dir)
  /\ rd.chain = <<>>
  /\ rd.nodes # <<>>
  /\ rd.fresh
  /\ rd' = [rd EXCEPT !.curr = Head(rd.nodes).k, !.pos = Head(rd.nodes).k,
                      !.chain = Head(rd.nodes).ns]
  /\ UNCHANGED dslip

Emit(r, n) == [r EXCEPT !.room = @ - 1, !.got = @ \cup {n},
                        !.dup = @ \/ n \in r.got \cap r.stay]

\* The step after the last name of a node: the next node, the next leaf, the
\* end.
next_node(r) ==
  LET more == Tail(r.nodes)
      s == [r EXCEPT !.chain = <<>>, !.nodes = more]
  IN IF more # <<>> THEN [s EXCEPT !.curr = Head(more).k]
     ELSE IF r.next = EOF THEN AtEof(s)
     ELSE [s EXCEPT !.curr = r.next]

\* With no room left the rest of the chain is the first thing the next call
\* returns.
call_filldir ==
  /\ Reading
  /\ is_dx_dir(dir)
  /\ rd.chain # <<>>
  /\ rd' = IF rd.room = 0 THEN Left(rd)
           ELSE IF Len(rd.chain) = 1 THEN next_node(Emit(rd, Head(rd.chain)))
           ELSE [Emit(rd, Head(rd.chain)) EXCEPT !.chain = Tail(rd.chain)]
  /\ UNCHANGED dslip

(* readdir by position. *)

\* An inline directory is read as if "." and ".." took their place in a block.
ReadSize == IF dir.inl # <<>> THEN 1 + Size(FlattenSeq(dir.inl))
            ELSE Len(dir.blk) * dsu.bs
ReadBlock(b) == IF dir.inl # <<>>
                THEN <<Rec(Dots, "file", 1)>> \o FlattenSeq(dir.inl)
                ELSE Blk(dir, b)

\* The first record boundary at or after the offset.
ext4_rescan(s, off) ==
  LET ends == {o \in {Off(s, i) : i \in 1 .. Len(s) + 1} : o >= off}
  IN CHOOSE o \in ends : \A p \in ends : o <= p

LinearRescan ==
  /\ Reading
  /\ ~ is_dx_dir(dir)
  /\ rd.pos < ReadSize
  /\ ~ rd.fresh
  /\ LET b == IF dir.inl # <<>> THEN 0 ELSE rd.pos \div dsu.bs
         off == ext4_rescan(ReadBlock(b), rd.pos - b * dsu.bs)
         wraps == dir.inl = <<>> /\ off = dsu.bs /\ b % 2 = 1
     IN /\ rd' = [rd EXCEPT !.fresh = TRUE,
                            !.pos = b * dsu.bs + IF wraps THEN 0 ELSE off]
        /\ dslip' = IF wraps THEN dslip \cup {"wrap"} ELSE dslip

ext4_readdir ==
  /\ Reading
  /\ ~ is_dx_dir(dir)
  /\ rd.pos < ReadSize
  /\ rd.fresh
  /\ LET b == IF dir.inl # <<>> THEN 0 ELSE rd.pos \div dsu.bs
         s == ReadBlock(b)
         i == CHOOSE i \in DOMAIN s : Off(s, i) = rd.pos - b * dsu.bs
     IN rd' = IF s[i].n # None /\ rd.room = 0 THEN Left(rd)
              ELSE [(IF s[i].n = None THEN rd ELSE Emit(rd, s[i].n))
                      EXCEPT !.pos = @ + s[i].rec]
  /\ UNCHANGED dslip

LinearEnd ==
  /\ Reading
  /\ ~ is_dx_dir(dir)
  /\ rd.pos >= ReadSize
  /\ rd' = [Left(rd) EXCEPT !.eof = TRUE]
  /\ UNCHANGED dslip

(* The specification. *)

NewReader == [in |-> FALSE, room |-> 0, pos |-> 0, last |-> 0, curr |-> 0,
              next |-> EOF, nodes |-> <<>>, chain |-> <<>>, fresh |-> FALSE,
              got |-> {}, stay |-> {}, ever |-> {}, dup |-> FALSE, eof |-> FALSE]

\* A new directory, in its inode or in one block.
ext4_init_new_dir(s) ==
  [inl |-> IF s.ibs > 0 THEN <<<<Rec(None, "file", s.ibs)>>>> ELSE <<>>,
   blk |-> IF s.ibs > 0 THEN <<>>
           ELSE <<[t |-> "leaf", v |-> <<Rec(Dots, "file", s.bs)>>]>>,
   levels |-> 0, flag |-> FALSE]

DirInit ==
  /\ dsu \in DirSetups
  /\ dir = ext4_init_new_dir(dsu)
  /\ names = [n \in {} |-> "file"]
  /\ rd = NewReader
  /\ dops = 0
  /\ dslip = {}
  /\ dbroken = FALSE

DirNext ==
  \/ \E n \in dsu.names : Add(n) \/ Delete(n)
  \/ \E a, b \in dsu.names :
       RenameNew(a, b) \/ RenameOver(a, b) \/ RenameWhiteout(a, b)
  \/ \E k \in dsu.rooms : ReaddirEnters(k)
  \/ ext4_dir_llseek
  \/ dx_readdir_fills
  \/ dx_readdir_takes_node
  \/ call_filldir
  \/ LinearRescan
  \/ ext4_readdir
  \/ LinearEnd

(* Properties. *)

Leaves(D) == IF D.inl # <<>> THEN ToSet(D.inl)
             ELSE {D.blk[b].v : b \in {c \in DOMAIN D.blk : D.blk[c].t = "leaf"}}

\* ext4_find_entry() finds every name of the directory with its type, and no
\* other name, whatever splits of leaves and of the index, conversions, failed
\* additions and renames came before; an entry is never written where it does
\* not fit, and every leaf keeps its records end to end.
NamesFound ==
  "whiteout" \notin dslip =>
  /\ ~ dbroken
  /\ \A n \in dsu.names :
       LET at == ext4_find_entry(dir, n)
       IN IF n \in DOMAIN names
          THEN at # Absent /\ RecordsAt(dir, at.b)[at.i].f = names[n]
          ELSE at = Absent
  /\ Cardinality({<<s, i>> \in Leaves(dir) \X (1 .. 8) :
                    i \in DOMAIN s /\ s[i].n \notin {None, Dots}}) =
       Cardinality(DOMAIN names)
  /\ \A b \in DOMAIN dir.blk : dir.blk[b].t = "leaf" => Size(dir.blk[b].v) = dsu.bs

\* A reader that gets to the end has been given every name that was there from
\* its first call on, and such a name only once; it is never given a name that
\* was not there since.
ReaddirExact ==
  "wrap" \notin dslip =>
  /\ ~ rd.dup
  /\ rd.eof => rd.stay \subseteq rd.got
  /\ rd.got \subseteq rd.ever \cup {Dots}
=============================================================================
