------------------------------- MODULE Xattr -------------------------------
(***************************************************************************)
(* Extended attributes (xattr.c).  An inode keeps its attributes in its    *)
(* body and in one external block; identical blocks are found through a    *)
(* cache (mbcache) and shared with a reference count, and a large value    *)
(* lives in an inode of its own (an "EA inode"), shared in the same way.   *)
(*                                                                         *)
(* Tasks work on different inodes, so xattr_sem never makes them wait: all *)
(* that orders two of them is the buffer lock of a block.  A task's call   *)
(* is therefore cut where ext4_xattr_block_set and                         *)
(* ext4_xattr_release_block take and drop that lock.                       *)
(*                                                                         *)
(* A set of attributes is a function from names to [v, e]: the value, and  *)
(* the EA inode that holds it (0: it lies in the block or body itself).    *)
(*                                                                         *)
(* Three weaknesses of the code are kept apart in xslip, at the attribute  *)
(* or block they concern: an attribute taken out of the body is "lost"     *)
(* when the block cannot take it; a value written to the body hides an     *)
(* older one ("both") when the block cannot be copied to drop it, and the  *)
(* call fails; a block gets references over the "limit".                   *)
(* Left out: quota, journal credits, checksums and corrupted blocks.       *)
(***************************************************************************)
EXTENDS Integers, FiniteSets, FiniteSetsExt, Functions, TLC

CONSTANT XattrSetups   \* the instances: who calls what, and all the sizes

VARIABLES
  xsu,     \* the setup of this behaviour
  ino,     \* inode -> [body, acl, extra]: i_extra_isize, i_file_acl
  xb,      \* block -> [ref, ents]; ref 0 is a free block
  bc,      \* block -> its cache entry [on, reuse]: hashed, e_reusable
  ea,      \* EA inode -> [v, ref, on]; v = None is a free inode
  px,      \* task -> where its call stands
  want,    \* inode -> name -> the value its calls gave it last
  xops,    \* calls made, at most xsu.ops
  xslip    \* what the known weaknesses did: [lost, both, limit], sets of
           \* <<inode, name>>, <<inode, name>> and blocks

xattr_vars == <<xsu, ino, xb, bc, ea, px, want, xops, xslip>>

None == "none"
NoAttrs == [n \in {} |-> None]

Idle == [at |-> "idle", f |-> 0, n |-> None, v |-> None, val |-> None,
         inode |-> FALSE, pin |-> 0, cont |-> NoAttrs, own |-> FALSE,
         new |-> 0, ce |-> 0, old |-> 0, then |-> "done", inbody |-> FALSE,
         inblock |-> FALSE, extra |-> 0, bfree |-> -1, tried |-> FALSE]

Tasks == xsu.tasks
Files == DOMAIN ino
Block(f) == IF ino[f].acl = 0 THEN NoAttrs ELSE xb[ino[f].acl].ents

-----------------------------------------------------------------------------
(* Entries: what fits, and what an update leaves.                          *)

\* EXT4_XATTR_SIZE of the value an entry keeps in place
EntrySize(x) == IF x.e # 0 \/ x.v = None THEN 0 ELSE xsu.size[x.v]

Values(c) == MapThenSumSet(LAMBDA n: EntrySize(c[n]), DOMAIN c)
Used(c) == Cardinality(DOMAIN c) + Values(c)

\* the space check of ext4_xattr_set_entry; a value of the same size as the
\* one it replaces is simply written over it
ext4_xattr_fits(c, cap, n, val, in, is_block) ==
  LET old == IF n \in DOMAIN c THEN EntrySize(c[n]) ELSE 0
      new == IF in THEN 0 ELSE xsu.size[val]
  IN  \/ new > 0 /\ new = old
      \/ /\ cap - Used(c) + (IF n \in DOMAIN c THEN 1 + old ELSE 0) >= 1 + new
         /\ ~ /\ xsu.ea_inode /\ is_block /\ new > 0
              /\ xsu.block - Values(c) + old - new < xsu.reserve

ext4_xattr_write(c, n, val, e) ==
  IF val = None THEN Restrict(c, DOMAIN c \ {n})
                ELSE (n :> [v |-> val, e |-> e]) @@ c

\* an entry in place has the value already (ext4_xattr_value_same)
ext4_xattr_value_same(c, n, v) ==
  n \in DOMAIN c /\ c[n].e = 0 /\ c[n].v = v

\* what the body of f may hold
Cap(f) == xsu.body - ino[f].extra

-----------------------------------------------------------------------------
(* EA inodes and the cache entries.                                        *)

\* ext4_xattr_inode_update_ref: the count, and the cache entry that comes and
\* goes with the first and the last reference (as its orphan list entry does)
ext4_xattr_inode_update_ref(m, e, d) ==
  IF e = 0 \/ d = 0 THEN m ELSE
  [m EXCEPT ![e].ref = @ + d,
            ![e].on = IF d > 0 THEN @ \/ m[e].ref = 0
                               ELSE @ /\ m[e].ref + d > 0]

Refs(c, e) == Cardinality({n \in DOMAIN c : c[n].e = e})

ext4_xattr_inode_inc_ref_all(m, c) ==
  [e \in DOMAIN m |-> ext4_xattr_inode_update_ref(m, e, Refs(c, e))[e]]
ext4_xattr_inode_dec_ref_all(m, c) ==
  [e \in DOMAIN m |-> ext4_xattr_inode_update_ref(m, e, 0 - Refs(c, e))[e]]

\* the cached EA inodes that hold the value; 0 when there is none
ext4_xattr_inode_cache_find(val) ==
  LET found == {e \in DOMAIN ea : ea[e].on /\ ea[e].v = val}
  IN  IF found = {} THEN {0} ELSE found

\* mb_cache_entry_delete: tasks that still hold the entry find it unhashed
Off == [on |-> FALSE, reuse |-> FALSE]
Unhashed(ps, b) == [q \in DOMAIN ps |-> IF ps[q].ce = b
                                        THEN [ps[q] EXCEPT !.ce = -1] ELSE ps[q]]

\* ext4_xattr_block_cache_insert: nothing happens when the entry exists
ext4_xattr_block_cache_insert(c, b, reuse) ==
  IF c[b].on THEN c ELSE [c EXCEPT ![b] = [on |-> TRUE, reuse |-> reuse]]

-----------------------------------------------------------------------------
(* The end of a call, and what follows a part of it.                       *)

Finish(p, w) == /\ px' = [px EXCEPT ![p] = Idle]
                /\ want' = [want EXCEPT ![px[p].f] = w]

\* the value the caller asked for is in place
Asked(t) == IF t.v = None
            THEN Restrict(want[t.f], DOMAIN want[t.f] \ {t.n})
            ELSE (t.n :> t.v) @@ want[t.f]

Goto(p, t) == px' = [px EXCEPT ![p] = t] /\ UNCHANGED want

\* ext4_xattr_ibody_set writes the body; the copy in the block goes next
BodyWritten(p, t, e, m) ==
  /\ ino' = [ino EXCEPT ![t.f].body = ext4_xattr_write(@, t.n, t.val, e)]
  /\ ea' = ext4_xattr_inode_update_ref(m,
             IF t.n \in DOMAIN ino[t.f].body THEN ino[t.f].body[t.n].e ELSE 0, -1)
  /\ IF t.val # None /\ t.inblock
     THEN Goto(p, [t EXCEPT !.at = "block", !.val = None, !.then = "both", !.pin = 0])
     ELSE Finish(p, Asked(t))

\* An expansion starts again with s_min_extra_isize, once, or gives up.
ExpandFailed(p, t) ==
  IF ~t.tried /\ xsu.min_extra # 0
  THEN Goto(p, [Idle EXCEPT !.at = "space", !.f = t.f, !.extra = xsu.min_extra, !.tried = TRUE])
  ELSE Finish(p, want[t.f])

\* ext4_xattr_block_set failed: ENOSPC.  With ea_inode the value is tried once
\* more as an EA inode.  A value moved out of the body has nowhere to go; one
\* written to the body is there all the same, before the one in the block, and
\* a second try would report success.
BlockFailed(p, t) ==
  CASE t.then = "expand" ->
         /\ ExpandFailed(p, t)
         /\ xslip' = [xslip EXCEPT !.lost = @ \cup {<<t.f, t.n>>}]
    [] t.then = "both" ->
         /\ Finish(p, Asked(t))
         /\ xslip' = [xslip EXCEPT !.both = @ \cup {<<t.f, t.n>>}]
    [] OTHER ->
         /\ IF t.val # None /\ xsu.ea_inode /\ ~t.inode
            THEN Goto(p, [t EXCEPT !.at = "ibody", !.inode = TRUE, !.pin = 0, !.then = "done"])
            ELSE Finish(p, want[t.f])
         /\ UNCHANGED xslip

-----------------------------------------------------------------------------
(* setxattr and removexattr: ext4_xattr_set_handle.                        *)

Free(f) == \A q \in Tasks : px[q].f # f

\* tasks are alike: the first idle one makes the call
Call(p, f) == /\ px[p].at = "idle" /\ \A q \in Tasks : q < p => px[q].at # "idle"
              /\ Free(f) /\ xops < xsu.ops
              /\ xops' = xops + 1
              /\ UNCHANGED xsu

ext4_xattr_set(p, f, n, v) ==
  LET inbody == n \in DOMAIN ino[f].body
      inblock == ~inbody /\ n \in DOMAIN Block(f)
      c == IF inbody THEN ino[f].body ELSE Block(f)
  IN  /\ Call(p, f)
      /\ v = None => inbody \/ inblock
      /\ v # None => ~ext4_xattr_value_same(c, n, v)
      /\ Goto(p, [Idle EXCEPT !.f = f, !.n = n, !.v = v, !.val = v,
                    !.at = IF v = None /\ inblock THEN "block" ELSE "ibody",
                    !.inode = v # None /\ xsu.ea_inode /\ xsu.size[v] > xsu.large,
                    !.inbody = inbody, !.inblock = inblock])
      /\ UNCHANGED <<ino, xb, bc, ea, xslip>>

ext4_xattr_ibody_set(p) ==
  LET t == px[p]
      room == t.val # None =>
                ext4_xattr_fits(ino[t.f].body, Cap(t.f), t.n, t.val, t.inode, FALSE)
  IN  /\ t.at = "ibody"
      /\ \/ /\ room /\ (t.val # None => ~t.inode)
            /\ BodyWritten(p, t, 0, ea)
         \/ /\ t.val # None /\ room /\ t.inode
            /\ \E e \in ext4_xattr_inode_cache_find(t.val) :
                 Goto(p, [t EXCEPT !.at = "take", !.pin = e, !.then = "body"])
            /\ UNCHANGED <<ino, ea>>
         \/ /\ ~room
            /\ Goto(p, [t EXCEPT !.at = "block",
                         !.then = IF t.inbody THEN "unbody" ELSE "done"])
            /\ UNCHANGED <<ino, ea>>
      /\ UNCHANGED <<xsu, xb, bc, xops, xslip>>

\* ext4_xattr_set_entry with the EA inode it found or creates: the reference
\* to the new value is taken before the one to the old value is dropped
ext4_xattr_set_entry(p, t, e, m) ==
  LET gone == IF t.own /\ t.n \in DOMAIN t.cont THEN t.cont[t.n].e ELSE 0
      c == ext4_xattr_write(t.cont, t.n, t.val, e)
  IN  /\ ea' = ext4_xattr_inode_update_ref(m, gone, -1)
      /\ xb' = IF t.own THEN [xb EXCEPT ![ino[t.f].acl].ents = c] ELSE xb
      /\ px' = [px EXCEPT ![p] = [t EXCEPT !.at = "insert", !.cont = c,
                                    !.pin = IF t.own THEN 0 ELSE e]]
      /\ UNCHANGED <<ino, want>>

\* ext4_xattr_inode_lookup_create: one more reference to the EA inode found,
\* which may have lost its last one since, or a new EA inode
ext4_xattr_inode_lookup_create(p) ==
  LET t == px[p]
      free == {e \in DOMAIN ea : ea[e].v = None}
  IN
  /\ t.at = "take"
  /\ \/ /\ t.pin # 0 \/ free # {}
        /\ LET e == IF t.pin = 0 THEN Min(free) ELSE t.pin
               m == IF t.pin = 0
                    THEN [ea EXCEPT ![e] = [v |-> t.val, ref |-> 1, on |-> TRUE]]
                    ELSE ext4_xattr_inode_update_ref(ea, e, 1)
           IN IF t.then = "body" THEN BodyWritten(p, t, e, m) /\ UNCHANGED xb
                                 ELSE ext4_xattr_set_entry(p, t, e, m)
        /\ UNCHANGED xslip
     \/ /\ t.pin = 0 /\ free = {}
        /\ IF t.then = "body"
           THEN Goto(p, [t EXCEPT !.at = "block",
                          !.then = IF t.inbody THEN "unbody" ELSE "done"]) /\ UNCHANGED xslip
           ELSE BlockFailed(p, t)
        /\ UNCHANGED <<ino, ea, xb>>
  /\ UNCHANGED <<xsu, bc, xops>>

-----------------------------------------------------------------------------
(* ext4_xattr_block_set, one lock-protected piece after the other.         *)

\* A block that nobody shares is taken out of the cache and changed where it
\* is; another one is copied, and the copy's entry gives up its EA inode,
\* whose reference belongs to the original.
ext4_xattr_block_set(p) ==
  LET t == px[p]
      acl == ino[t.f].acl
      own == acl # 0 /\ xb[acl].ref = 1
      old == Block(t.f)
      c == IF own \/ t.n \notin DOMAIN old THEN old
           ELSE IF old[t.n].e = 0 THEN old
           ELSE (t.n :> [v |-> None, e |-> 0]) @@ old
      room == t.val # None =>
                ext4_xattr_fits(c, xsu.block - xsu.header, t.n, t.val, t.inode, TRUE)
      t1 == [t EXCEPT !.own = own, !.cont = c]
      Cached == IF own THEN bc' = [bc EXCEPT ![acl] = Off] ELSE bc' = bc
      ps == IF own THEN Unhashed(px, acl) ELSE px
      e0 == IF own /\ t.n \in DOMAIN old THEN old[t.n].e ELSE 0
      c1 == ext4_xattr_write(c, t.n, t.val, 0)
  IN  /\ t.at = "block" /\ Cached
      /\ \/ /\ ~room
            /\ px' = [ps EXCEPT ![p] = [t1 EXCEPT !.at = "fail"]]
            /\ UNCHANGED <<ea, xb>>
         \/ /\ room /\ t.val # None /\ t.inode
            /\ \E e \in ext4_xattr_inode_cache_find(t.val) :
                 px' = [ps EXCEPT ![p] = [t1 EXCEPT !.at = "take", !.pin = e]]
            /\ UNCHANGED <<ea, xb>>
         \/ /\ room /\ (t.val # None => ~t.inode)
            /\ px' = [ps EXCEPT ![p] = [t1 EXCEPT !.at = "insert", !.cont = c1]]
            /\ ea' = ext4_xattr_inode_update_ref(ea, e0, -1)
            /\ xb' = IF own THEN [xb EXCEPT ![acl].ents = c1] ELSE xb
      /\ UNCHANGED <<xsu, ino, want, xops, xslip>>

ext4_xattr_block_fail(p) ==
  /\ px[p].at = "fail"
  /\ BlockFailed(p, px[p])
  /\ ea' = ext4_xattr_inode_update_ref(ea, px[p].pin, -1)
  /\ UNCHANGED <<xsu, ino, xb, bc, xops>>

\* identical blocks in the cache that may take one more reference; a task
\* whose own block is among them keeps it
ext4_xattr_block_cache_find(c) == {b \in DOMAIN bc : bc[b].on /\ bc[b].reuse /\ xb[b].ents = c}

ext4_xattr_block_insert(p) ==
  LET t == px[p]
      acl == ino[t.f].acl
      found == ext4_xattr_block_cache_find(t.cont)
      To(at, new, ce) == Goto(p, [t EXCEPT !.at = at, !.new = new, !.ce = ce])
  IN  /\ t.at = "insert"
      /\ \/ DOMAIN t.cont = {} /\ To("swap", 0, 0) /\ UNCHANGED bc
         \/ /\ DOMAIN t.cont # {} /\ UNCHANGED bc
            /\ \E b \in found : IF b = acl THEN To("swap", b, 0) ELSE To("share", b, b)
         \/ /\ DOMAIN t.cont # {} /\ found = {} /\ t.own
            /\ bc' = ext4_xattr_block_cache_insert(bc, acl, xb[acl].ref < xsu.max)
            /\ To("swap", acl, 0)
         \/ /\ DOMAIN t.cont # {} /\ found = {} /\ ~t.own /\ UNCHANGED bc
            /\ To("alloc", 0, 0)
      /\ UNCHANGED <<xsu, ino, xb, ea, xops, xslip>>

share_unchecked(t) == t.new

\* still hashed and reusable, now that the block is locked
ext4_xattr_share_valid(t) == IF t.ce # -1 /\ bc[t.new].reuse THEN t.new ELSE 0

\* one more reference to the block found, unless it changed before its lock
\* was taken: then everything is looked up again
ext4_xattr_block_share(p) ==
  LET t == px[p]
      b == ext4_xattr_share_valid(t)
  IN  /\ t.at = "share"
      /\ \/ /\ b = 0 /\ UNCHANGED <<xb, bc, xslip>>
            /\ Goto(p, [t EXCEPT !.at = "insert", !.new = 0, !.ce = 0])
         \/ /\ b # 0
            /\ xb' = [xb EXCEPT ![b].ref = @ + 1]
            /\ bc' = [bc EXCEPT ![b].reuse = @ /\ xb[b].ref + 1 < xsu.max]
            /\ xslip' = IF xb[b].ref < xsu.max THEN xslip
                        ELSE [xslip EXCEPT !.limit = @ \cup {b}]
            /\ Goto(p, [t EXCEPT !.at = "swap", !.ce = 0])
      /\ UNCHANGED <<xsu, ino, ea, xops>>

\* a new block, which takes its own references to the EA inodes
ext4_xattr_block_alloc(p) ==
  LET t == px[p]
      free == {b \in DOMAIN xb : xb[b].ref = 0}
  IN  /\ t.at = "alloc"
      /\ \/ /\ free = {}
            /\ Goto(p, [t EXCEPT !.at = "fail"])
            /\ UNCHANGED <<xb, bc, ea>>
         \/ /\ free # {}
            /\ LET b == Min(free) IN
              /\ xb' = [xb EXCEPT ![b] = [ref |-> 1, ents |-> t.cont]]
              /\ bc' = ext4_xattr_block_cache_insert(bc, b, 1 < xsu.max)
              /\ ea' = ext4_xattr_inode_update_ref(
                         ext4_xattr_inode_inc_ref_all(ea, t.cont), t.pin, -1)
              /\ Goto(p, [t EXCEPT !.at = "swap", !.new = b, !.pin = 0])
      /\ UNCHANGED <<xsu, ino, xops, xslip>>

\* the inode points at its new block, and the old one is released next
ext4_xattr_block_swap(p) ==
  LET t == px[p]
      old == ino[t.f].acl
  IN  /\ t.at = "swap"
      /\ ino' = [ino EXCEPT ![t.f].acl = t.new]
      /\ Goto(p, [t EXCEPT !.at = IF old \in {0, t.new} THEN "cleanup" ELSE "release",
                            !.old = old, !.own = FALSE, !.cont = NoAttrs, !.new = 0])
      /\ UNCHANGED <<xsu, xb, bc, ea, xops, xslip>>

\* ext4_xattr_release_block: under the lock one reference less, or the cache
\* entry of a block about to be freed
ext4_xattr_release_block(p) ==
  LET t == px[p]
      b == t.old
  IN  /\ t.at = "release"
      /\ \/ /\ xb[b].ref = 1
            /\ bc' = [bc EXCEPT ![b] = Off]
            /\ px' = [Unhashed(px, b) EXCEPT ![p] = [t EXCEPT !.at = "free"]]
            /\ UNCHANGED xb
         \/ /\ xb[b].ref # 1
            /\ xb' = [xb EXCEPT ![b].ref = @ - 1]
            /\ bc' = IF xb[b].ref - 1 = xsu.max - 1 /\ bc[b].on
                     THEN [bc EXCEPT ![b].reuse = TRUE] ELSE bc
            /\ px' = [px EXCEPT ![p].at = "cleanup"]
      /\ UNCHANGED <<xsu, ino, ea, want, xops, xslip>>

\* then, without the lock, the references to EA inodes and the block itself
ext4_xattr_free_block(p) ==
  LET b == px[p].old IN
  /\ px[p].at = "free"
  /\ ea' = ext4_xattr_inode_dec_ref_all(ea, xb[b].ents)
  /\ xb' = [xb EXCEPT ![b] = [ref |-> 0, ents |-> NoAttrs]]
  /\ px' = [px EXCEPT ![p].at = "cleanup"]
  /\ UNCHANGED <<xsu, ino, bc, want, xops, xslip>>

\* the extra reference to the EA inode goes, and the caller continues
ext4_xattr_block_done(p) ==
  LET t == px[p]
      m == ext4_xattr_inode_update_ref(ea, t.pin, -1)
  IN  /\ t.at = "cleanup"
      /\ \/ /\ t.then \in {"done", "both"}
            /\ ea' = m /\ Finish(p, Asked(t)) /\ UNCHANGED ino
         \/ /\ t.then = "unbody"
            /\ BodyWritten(p, [t EXCEPT !.val = None], 0, m)
         \/ /\ t.then = "expand"
            /\ ea' = m /\ UNCHANGED ino
            /\ Goto(p, [t EXCEPT !.at = "space", !.pin = 0, !.old = 0])
         \/ /\ t.then = "delete"
            /\ ea' = m /\ Finish(p, NoAttrs)
            /\ ino' = [ino EXCEPT ![t.f].acl = 0]
      /\ UNCHANGED <<xsu, xb, bc, xops, xslip>>

-----------------------------------------------------------------------------
(* A larger i_extra_isize pushes attributes out of the body.               *)

ext4_expand_extra_isize_ea(p, f) ==
  /\ Call(p, f)
  /\ ino[f].extra < xsu.want_extra
  /\ Goto(p, [Idle EXCEPT !.at = "space", !.f = f, !.extra = xsu.want_extra])
  /\ UNCHANGED <<ino, xb, bc, ea, xslip>>

\* the space counted free in the block before anything is moved; without a
\* block it is the whole block size
BlockFree(f) == IF ino[f].acl = 0 THEN xsu.block
                ELSE xsu.block - xsu.header - Used(Block(f))

\* the entry moved next: the smallest one that makes enough room, otherwise
\* any that the block can hold
ext4_xattr_pick(body, need, bfree) ==
  LET total == [n \in DOMAIN body |-> 1 + EntrySize(body[n])]
      fit == {n \in DOMAIN body : total[n] <= bfree}
      enough == {n \in fit : total[n] >= need}
  IN  IF enough = {} THEN fit
      ELSE {n \in enough : \A m \in enough : total[n] <= total[m]}

ext4_xattr_make_inode_space(p) ==
  LET t == px[p]
      body == ino[t.f].body
      ifree == Cap(t.f) - Used(body)
      diff == t.extra - ino[t.f].extra
      bfree == IF t.bfree = -1 THEN BlockFree(t.f) ELSE t.bfree
      full == t.bfree = -1 /\ ino[t.f].acl # 0 /\ bfree + ifree < diff
      moved == IF full THEN {} ELSE ext4_xattr_pick(body, diff - ifree, bfree)
  IN  /\ t.at = "space"
      /\ \/ /\ ifree >= diff
            /\ ino' = IF diff > 0 THEN [ino EXCEPT ![t.f].extra = t.extra] ELSE ino
            /\ Finish(p, want[t.f]) /\ UNCHANGED ea
         \/ /\ ifree < diff /\ moved = {} /\ UNCHANGED <<ino, ea>>
            /\ ExpandFailed(p, t)
         \/ /\ ifree < diff
            /\ \E n \in moved :
                 /\ ino' = [ino EXCEPT ![t.f].body = ext4_xattr_write(@, n, None, 0)]
                 /\ ea' = ext4_xattr_inode_update_ref(ea, body[n].e, -1)
                 /\ Goto(p, [t EXCEPT !.at = "block", !.n = n, !.val = body[n].v,
                              !.inode = body[n].e # 0, !.then = "expand",
                              !.bfree = bfree - (1 + EntrySize(body[n]))])
      /\ UNCHANGED <<xsu, xb, bc, xops, xslip>>

-----------------------------------------------------------------------------
(* Deletion of the inode, reading, and memory pressure.                    *)

ext4_xattr_delete_inode(p, f) ==
  /\ Call(p, f)
  /\ ino[f].acl # 0 \/ DOMAIN ino[f].body # {}
  /\ ea' = ext4_xattr_inode_dec_ref_all(ea, ino[f].body)
  /\ ino' = [ino EXCEPT ![f].body = NoAttrs]
  /\ Goto(p, [Idle EXCEPT !.f = f, !.then = "delete", !.old = ino[f].acl,
                !.at = IF ino[f].acl = 0 THEN "cleanup" ELSE "release"])
  /\ UNCHANGED <<xb, bc, xslip>>

\* a read looks at the reference count, without the buffer lock ...
ext4_xattr_block_get(p, f) ==
  /\ Call(p, f)
  /\ ino[f].acl # 0
  /\ Goto(p, [Idle EXCEPT !.at = "get", !.f = f, !.own = xb[ino[f].acl].ref < xsu.max])
  /\ UNCHANGED <<ino, xb, bc, ea, xslip>>

\* ... and then enters the block in the cache
ext4_xattr_block_got(p) ==
  LET t == px[p] IN
  /\ t.at = "get"
  /\ bc' = ext4_xattr_block_cache_insert(bc, ino[t.f].acl, t.own)
  /\ Finish(p, want[t.f])
  /\ UNCHANGED <<xsu, ino, xb, ea, xops, xslip>>

\* the shrinker takes a cache entry
mb_cache_shrink ==
  /\ xsu.shrink
  /\ \/ \E b \in DOMAIN bc : /\ bc[b].on
                             /\ bc' = [bc EXCEPT ![b] = Off]
                             /\ px' = Unhashed(px, b) /\ UNCHANGED ea
     \/ \E e \in DOMAIN ea : /\ ea[e].on
                             /\ ea' = [ea EXCEPT ![e].on = FALSE]
                             /\ UNCHANGED <<bc, px>>
  /\ UNCHANGED <<xsu, ino, xb, want, xops, xslip>>

\* an EA inode without references goes once nobody holds it in memory
EvictEaInode ==
  /\ \E e \in DOMAIN ea :
       /\ ea[e].v # None /\ ea[e].ref = 0
       /\ \A q \in Tasks : px[q].pin # e
       /\ ea' = [ea EXCEPT ![e] = [v |-> None, ref |-> 0, on |-> FALSE]]
  /\ UNCHANGED <<xsu, ino, xb, bc, px, want, xops, xslip>>

-----------------------------------------------------------------------------
\* some inodes already share block 1, which has been read
XattrInit ==
  /\ xsu \in XattrSetups
  /\ ino = [f \in xsu.files |-> [body |-> NoAttrs, extra |-> 0,
                                 acl |-> IF f \in xsu.by THEN 1 ELSE 0]]
  /\ xb = [b \in 1..xsu.blocks |->
             IF b = 1 /\ xsu.by # {} THEN [ref |-> Cardinality(xsu.by), ents |-> xsu.shared]
                                     ELSE [ref |-> 0, ents |-> NoAttrs]]
  /\ bc = [b \in 1..xsu.blocks |->
             IF b = 1 /\ xsu.by # {} THEN [on |-> TRUE, reuse |-> Cardinality(xsu.by) < xsu.max]
                                     ELSE Off]
  /\ ea = [e \in 1..xsu.eas |->
             IF xsu.by # {} /\ Refs(xsu.shared, e) > 0
             THEN [v |-> xsu.large_value, ref |-> Refs(xsu.shared, e), on |-> TRUE]
             ELSE [v |-> None, ref |-> 0, on |-> FALSE]]
  /\ px = [p \in xsu.tasks |-> Idle]
  /\ want = [f \in xsu.files |-> IF f \in xsu.by
                                 THEN [n \in DOMAIN xsu.shared |-> xsu.shared[n].v]
                                 ELSE NoAttrs]
  /\ xops = 0
  /\ xslip = [lost |-> {}, both |-> {}, limit |-> {}]

XattrStep(p) ==
  \/ ext4_xattr_ibody_set(p)
  \/ ext4_xattr_inode_lookup_create(p)
  \/ ext4_xattr_block_set(p)
  \/ ext4_xattr_block_fail(p)
  \/ ext4_xattr_block_insert(p)
  \/ ext4_xattr_block_share(p)
  \/ ext4_xattr_block_alloc(p)
  \/ ext4_xattr_block_swap(p)
  \/ ext4_xattr_release_block(p)
  \/ ext4_xattr_free_block(p)
  \/ ext4_xattr_block_done(p)
  \/ ext4_xattr_make_inode_space(p)
  \/ ext4_xattr_block_got(p)

XattrNext ==
  \/ \E p \in Tasks : XattrStep(p)
  \/ \E p \in Tasks, f \in Files, n \in xsu.names, v \in xsu.values \cup {None} :
       ext4_xattr_set(p, f, n, v)
  \/ \E p \in Tasks, f \in Files :
       \/ xsu.expand /\ ext4_expand_extra_isize_ea(p, f)
       \/ xsu.delete /\ ext4_xattr_delete_inode(p, f)
       \/ xsu.get /\ ext4_xattr_block_get(p, f)
  \/ mb_cache_shrink
  \/ EvictEaInode

-----------------------------------------------------------------------------
Held(f) == ino[f].body @@ Block(f)
\* an inode being deleted gives its reference up before its i_file_acl
Holders(b) == {f \in Files : ino[f].acl = b /\ \A p \in Tasks : px[p].f = f => px[p].then # "delete"}
EaRefs(e) == MapThenSumSet(LAMBDA f : Refs(ino[f].body, e), Files)
             + MapThenSumSet(LAMBDA b : Refs(xb[b].ents, e), DOMAIN xb)

\* However setxattr, removexattr, expansion of the inode, deletion, reads and
\* memory pressure on several inodes interleave, an inode with no call under
\* way has exactly the attributes its last successful calls gave it (a failed
\* call changes nothing), an inode never points at a block with fewer
\* references than inodes, and once no call is under way the reference counts
\* of blocks and EA inodes are exact, within their limit, and nothing leaks
\* (xattr.c:1848 ext4_xattr_block_set, xattr.c:1243 ext4_xattr_release_block).
\* The exceptions are confined to one attribute or block each: nothing is said
\* of an attribute lost when a growing body could not move it (xattr.c:2600);
\* one that a failed call wrote to the body over a copy that stays in the block
\* has that value until it is removed, and may then show the older one
\* (xattr.c:2393); and a block in a race of a reader may exceed the limit
\* (xattr.c:2969).
AttributesExact ==
  /\ \A f \in Files, n \in xsu.names :
       Free(f) /\ <<f, n>> \notin xslip.lost =>
         /\ n \in DOMAIN want[f] =>
              /\ n \in DOMAIN Held(f) /\ Held(f)[n].v = want[f][n]
              /\ LET e == Held(f)[n].e IN e # 0 => ea[e].v = want[f][n] /\ ea[e].ref > 0
         /\ n \in DOMAIN Held(f) => n \in DOMAIN want[f] \/ <<f, n>> \in xslip.both
  /\ \A b \in DOMAIN xb : xb[b].ref >= Cardinality(Holders(b))
  /\ (\A p \in Tasks : px[p].at = "idle") =>
       /\ \A b \in DOMAIN xb : /\ xb[b].ref = Cardinality(Holders(b))
                               /\ xb[b].ref <= xsu.max \/ b \in xslip.limit
       /\ \A e \in DOMAIN ea : ea[e].ref = EaRefs(e)

=============================================================================
