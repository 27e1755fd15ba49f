---------------------------- MODULE WorkTree_proofs ----------------------------
(***************************************************************************)
(* Proofs about one working tree: what its calls may take away, where they *)
(* may fail, and what a switch and a sparse selection leave behind, for    *)
(* any paths, contents and arguments.                                      *)
(***************************************************************************)
EXTENDS Sparse, ReadTree, SequenceTheorems, TLAPS

Entries == [path : Path, stage : 0 .. 3, blob : Blob, skip : BOOLEAN, intent : BOOLEAN]

\* What a path argument may be: a path, or the root.
Spot == Path \cup {<<>>}

-------------------------------------------------------------------------------
(* The calls, with any arguments. *)

IndexCall ==
    \/ \E p \in Spot, force \in BOOLEAN : Add(p, force)
    \/ \E ps \in SUBSET Spot, wish \in {"none", "force", "update", "keep", "intent"} :
           AddPaths(ps, wish)
    \/ \E e \in Entries, allow \in SUBSET {"add", "remove", "replace"} : CacheInfo(e, allow)
    \/ \E p \in Path, allow \in SUBSET {"add", "remove", "replace"} : UpdatePath(p, allow)
    \/ \E p \in Path, flag \in {"skip", "intent"}, value \in BOOLEAN : SetFlag(p, flag, value)
    \/ Commit

RemoveCall == \E p \in Spot, recursive, cached, force \in BOOLEAN :
                  RemovePaths(p, recursive, cached, force)

MoveCall == \E from, to \in Path, force \in BOOLEAN : MovePath(from, to, force)

SwitchCall == \E t \in Trees, force \in BOOLEAN : Switch(t, force)

ResetCall == \E t \in Trees, mode \in {"soft", "mixed", "hard"} : Reset(t, mode)

RestoreCall ==
    \E ps \in SUBSET Spot, force \in BOOLEAN, target \in {"worktree", "index", "both"},
       src \in {index} \cup {FromTree(t) : t \in Trees} :
        RestorePaths([op |-> "restore", force |-> force], ps, src, target)

CopyCall == \E ps \in SUBSET Path, all, force \in BOOLEAN, stage \in 0 .. 3 :
                CheckoutIndex(ps, all, stage, force)

CleanCall == \E ps \in SUBSET Path, mode \in {"respect", "include", "only"},
                directories \in BOOLEAN : Clean(ps, mode, directories)

\* One, two or three trees, or none; only one below a prefix, two to merge or reset.
ReadCall ==
    \E trees \in {<<>>} \cup {<<t>> : t \in Trees} \cup {<<t, u>> : t, u \in Trees}
                 \cup {<<t, u, v>> : t, u, v \in Trees},
       mode \in {"reset", "merge", "prefix", "plain"}, update \in BOOLEAN :
        /\ mode = "prefix" => /\ Len(trees) = 1
                              /\ DOMAIN Shifted(trees[1], <<2>>) \subseteq Path
        /\ Len(trees) = 2 => mode \in {"reset", "merge"}
        /\ mode = "plain" => ~update
        /\ ReadTree(trees, mode, update)

SparseCall ==
    \E cs \in SUBSET Seq(Nat), force \in BOOLEAN :
        SetSparse(cs, force) \/ AddSparse(cs, force) \/ Reapply(force) \/ DisableSparse(force)

Called ==
    \/ /\ \/ IndexCall \/ RemoveCall \/ MoveCall \/ SwitchCall \/ ResetCall
          \/ RestoreCall \/ CopyCall \/ CleanCall \/ ReadCall
       /\ UNCHANGED cones
    \/ SparseCall

TreeNext == \/ last = None /\ Called
            \/ last = None /\ (\E w \in Trees : Edit(w)) /\ UNCHANGED cones
            \/ Return /\ UNCHANGED cones

TreeInit == /\ host \in BOOLEAN
            /\ files = <<>> /\ index = {} /\ head = <<>> /\ last = None /\ cones = Full

TreeSpec == TreeInit /\ [][TreeNext]_<<wtVars, cones>>

-------------------------------------------------------------------------------
\* No file lies below another, in the working tree and in HEAD; a path has one entry
\* of stage zero at most.
Single(ix) == \A e, f \in ix : e.path = f.path /\ e.stage = 0 /\ f.stage = 0 => e = f

TreeInv == /\ files \in Trees /\ head \in Trees
           /\ index \subseteq Entries /\ Single(index)
           /\ cones \subseteq Seq(Nat)
           /\ host \in BOOLEAN

-------------------------------------------------------------------------------
(* Paths: one covers another. *)

LEMMA PathsAre == \A p \in Path : p \in Seq(Nat) /\ p # <<>> /\ Len(p) > 0
BY WorkTreeAssumption

LEMMA CoversIs ==
  ASSUME NEW q \in Seq(Nat), NEW p \in Seq(Nat)
  PROVE  Covers(q, p) <=> Len(q) <= Len(p) /\ \A i \in 1 .. Len(q) : q[i] = p[i]
<1>1. CASE Len(q) <= Len(p)
  <2>1. /\ SubSeq(q, 1, Len(q)) = [i \in 1 .. Len(q) |-> q[i]]
        /\ SubSeq(p, 1, Len(q)) = [i \in 1 .. Len(q) |-> p[i]]
    BY <1>1, SMT
  <2>2. [i \in 1 .. Len(q) |-> q[i]] = [i \in 1 .. Len(q) |-> p[i]]
          <=> \A i \in 1 .. Len(q) : q[i] = p[i]
    OBVIOUS
  <2> QED
    BY <1>1, <2>1, <2>2 DEF Covers, IsPrefix
<1>2. CASE ~ (Len(q) <= Len(p))
  BY <1>2 DEF Covers, IsPrefix
<1> QED
  BY <1>1, <1>2

LEMMA CoversSelf == ASSUME NEW p \in Seq(Nat) PROVE Covers(p, p) /\ Covers(<<>>, p)
<1>1. Covers(p, p)
  BY CoversIs
<1>2. ASSUME NEW z \in Seq(Nat), Len(z) = 0 PROVE Covers(z, p)
  <2>1. Len(z) <= Len(p) /\ \A i \in 1 .. Len(z) : z[i] = p[i]
    BY <1>2
  <2> QED
    BY <2>1, CoversIs
<1>3. <<>> \in Seq(Nat) /\ Len(<<>>) = 0
  BY EmptySeq
<1>4. Covers(<<>>, p)
  BY <1>2, <1>3, Zenon
<1> QED
  BY <1>1, <1>4

\* The beginning of a path.
LEMMA PrefixIs ==
  ASSUME NEW p \in Seq(Nat), NEW n \in Nat, n <= Len(p)
  PROVE  SubSeq(p, 1, n) \in Seq(Nat) /\ Len(SubSeq(p, 1, n)) = n /\ Covers(SubSeq(p, 1, n), p)
<1> DEFINE s == SubSeq(p, 1, n)
<1>1. \A i \in 1 .. n : p[i] \in Nat
  OBVIOUS
<1>2. /\ s \in Seq(Nat)
      /\ Len(s) = IF 1 <= n THEN n - 1 + 1 ELSE 0
      /\ \A i \in 1 .. n - 1 + 1 : s[i] = p[1 + i - 1]
  BY <1>1, SubSeqProperties, n \in Int, 1 \in Int
<1> HIDE DEF s
<1>3. Len(s) = n
  BY <1>2
<1>4. \A i \in 1 .. Len(s) : s[i] = p[i]
  BY <1>2, <1>3
<1>5. Covers(s, p)
  BY <1>2, <1>3, <1>4, CoversIs
<1> QED
  BY <1>2, <1>3, <1>5 DEF s

LEMMA CoversTrans ==
  ASSUME NEW p \in Seq(Nat), NEW q \in Seq(Nat), NEW r \in Seq(Nat), Covers(p, q), Covers(q, r)
  PROVE  Covers(p, r)
BY CoversIs

LEMMA CoversSame ==
  ASSUME NEW p \in Seq(Nat), NEW q \in Seq(Nat), Covers(p, q), Len(q) <= Len(p)
  PROVE  p = q
<1>1. Len(p) = Len(q) /\ \A i \in 1 .. Len(p) : p[i] = q[i]
  BY CoversIs
<1> QED
  BY <1>1, SMTT(40)

LEMMA CoversBoth ==
  ASSUME NEW p \in Seq(Nat), NEW q \in Seq(Nat), Covers(p, q), Covers(q, p)
  PROVE  p = q
BY CoversSame, CoversIs

\* Of two directories of a path one lies in the other.
LEMMA CoversChain ==
  ASSUME NEW p \in Seq(Nat), NEW q \in Seq(Nat), NEW r \in Seq(Nat), Covers(p, r), Covers(q, r)
  PROVE  Covers(p, q) \/ Covers(q, p)
<1>1. /\ Len(p) \in Nat /\ Len(q) \in Nat
      /\ \A i \in 1 .. Len(p) : p[i] = r[i]
      /\ \A i \in 1 .. Len(q) : q[i] = r[i]
  BY CoversIs
<1>2. CASE Len(p) <= Len(q)
  <2>1. \A i \in 1 .. Len(p) : p[i] = q[i]
    BY <1>1, <1>2
  <2> QED
    BY <1>2, <2>1, CoversIs
<1>3. CASE Len(q) <= Len(p)
  <2>1. \A i \in 1 .. Len(q) : q[i] = p[i]
    BY <1>1, <1>3
  <2> QED
    BY <1>3, <2>1, CoversIs
<1> QED
  BY <1>1, <1>2, <1>3

LEMMA AboveIs ==
  ASSUME NEW p \in Seq(Nat), NEW q
  PROVE  q \in Above(p) <=> q \in Seq(Nat) /\ q # <<>> /\ q # p /\ Covers(q, p)
<1>1. ASSUME q \in Above(p) PROVE q \in Seq(Nat) /\ q # <<>> /\ q # p /\ Covers(q, p)
  <2>1. PICK n \in 1 .. Len(p) - 1 : q = SubSeq(p, 1, n)
    BY <1>1 DEF Above
  <2>2. n \in Nat /\ n # 0 /\ n < Len(p)
    BY <2>1
  <2>3. q \in Seq(Nat) /\ Len(q) = n /\ Covers(q, p)
    BY <2>1, <2>2, PrefixIs
  <2>4. q # <<>> /\ q # p
    BY <2>2, <2>3
  <2> QED
    BY <2>3, <2>4
<1>2. ASSUME q \in Seq(Nat), q # <<>>, q # p, Covers(q, p) PROVE q \in Above(p)
  <2>1. Len(q) \in 1 .. Len(p) - 1
    BY <1>2, CoversIs, CoversSame
  <2>2. \A i \in 1 .. Len(q) : q[i] = p[i]
    BY <1>2, CoversIs
  <2>3. SubSeq(p, 1, Len(q)) = q
    BY <1>2, <2>1, <2>2
  <2> QED
    BY <2>1, <2>3 DEF Above
<1> QED
  BY <1>1, <1>2

\* Below a directory that leads to a selected one everything on the way is included.
LEMMA ConeUpward ==
  ASSUME NEW cs \in SUBSET Seq(Nat), NEW p \in Seq(Nat), NEW r \in Seq(Nat),
         p # <<>>, Covers(p, r), ConeIncludes(r, cs)
  PROVE  ConeIncludes(p, cs)
<1> DEFINE Parent(q) == SubSeq(q, 1, Len(q) - 1)
<1>1. \A q \in Seq(Nat) : q # <<>> => /\ Parent(q) \in Seq(Nat) /\ Len(Parent(q)) = Len(q) - 1
                                      /\ Covers(Parent(q), q) /\ Parent(q) # q
  <2> SUFFICES ASSUME NEW q \in Seq(Nat), q # <<>>
               PROVE  /\ Parent(q) \in Seq(Nat) /\ Len(Parent(q)) = Len(q) - 1
                      /\ Covers(Parent(q), q) /\ Parent(q) # q
    OBVIOUS
  <2>1. Len(q) \in Nat /\ Len(q) > 0
    OBVIOUS
  <2>2. Len(q) - 1 \in Nat /\ Len(q) - 1 <= Len(q)
    BY <2>1
  <2>3. Parent(q) \in Seq(Nat) /\ Len(Parent(q)) = Len(q) - 1 /\ Covers(Parent(q), q)
    BY <2>2, PrefixIs
  <2>4. Parent(q) # q
    BY <2>1, <2>3
  <2> QED
    BY <2>3, <2>4
<1> HIDE DEF Parent
<1>2. \A q : ConeIncludes(q, cs) <=> \/ Parent(q) = <<>>
                                     \/ \E c \in cs : q # c /\ Covers(c, q)
                                     \/ \E c \in cs : c # Parent(q) /\ Covers(Parent(q), c)
  BY DEF ConeIncludes, Parent
<1>3. CASE p = r
  BY <1>3
<1>4. CASE p # r
  <2>0. r # <<>> /\ Len(p) < Len(r)
    BY <1>4, CoversIs, CoversSame
  <2>1. Covers(p, Parent(r)) /\ Covers(Parent(p), p) /\ Parent(p) \in Seq(Nat) /\ Parent(p) # p
        /\ Parent(r) \in Seq(Nat)
    <3>1. Covers(p, Parent(r)) \/ Covers(Parent(r), p)
      BY <1>1, <2>0, CoversChain
    <3>2. Len(p) <= Len(Parent(r))
      BY <1>1, <2>0
    <3> QED
      BY <1>1, <2>0, <3>1, <3>2, CoversSame, CoversSelf
  <2>2. CASE Parent(r) = <<>>
    <3>1. Len(r) = 1
      BY <1>1, <2>0, <2>2
    <3> QED
      BY <2>0, <3>1
  <2>3. ASSUME NEW c \in cs, Covers(c, r) \/ Covers(Parent(r), c) PROVE ConeIncludes(p, cs)
    <3>0. c \in Seq(Nat)
      OBVIOUS
    <3>1. CASE Covers(p, c)
      <4>1. Covers(Parent(p), c)
        BY <2>1, <3>0, <3>1, CoversTrans
      <4>2. c # Parent(p)
        BY <2>1, <3>0, <3>1, CoversBoth
      <4> QED
        BY <1>2, <4>1, <4>2
    <3>2. CASE ~ Covers(p, c)
      <4>1. ~ Covers(Parent(r), c)
        BY <2>1, <3>0, <3>2, CoversTrans
      <4>2. Covers(c, p)
        BY <2>3, <3>0, <3>2, <4>1, CoversChain
      <4>3. c # p
        BY <3>2, CoversSelf
      <4> QED
        BY <1>2, <4>2, <4>3
    <3> QED
      BY <3>1, <3>2
  <2> QED
    BY <1>2, <2>2, <2>3
<1> QED
  BY <1>3, <1>4

-------------------------------------------------------------------------------
(* Trees, and what the file system answers. *)

\* A function on paths.
Patch(t) == /\ t = [p \in DOMAIN t |-> t[p]] /\ DOMAIN t \subseteq Path
            /\ \A p \in DOMAIN t : t[p] \in Blob

LEMMA TreesAre ==
  ASSUME NEW t
  PROVE  t \in Trees <=> Patch(t) /\ \A p, q \in DOMAIN t : Covers(p, q) => p = q
<1>1. t \in UNION {[D -> Blob] : D \in SUBSET Path} <=> Patch(t)
  BY DEF Patch
<1> QED
  BY <1>1 DEF Trees

LEMMA EmptyTree == <<>> \in Trees /\ DOMAIN <<>> = {}
<1>1. DOMAIN <<>> = {} /\ <<>> = [p \in {} |-> <<>>[p]]
  OBVIOUS
<1> QED
  BY <1>1, TreesAre DEF Patch

LEMMA AbovePaths ==
  ASSUME NEW D \in SUBSET Path, NEW p \in Path
  PROVE  Above(p) \cap D = {q \in D : q # p /\ Covers(q, p)}
BY PathsAre, AboveIs

LEMMA LookIs ==
  ASSUME NEW w, NEW p \in Path
  PROVE  /\ Look(w, p) \in {"file", "directory", "error", "nothing"}
         /\ Look(w, p) = "file" <=> p \in DOMAIN w
         /\ Look(w, p) = "directory" <=> p \notin DOMAIN w /\ \E q \in DOMAIN w : Covers(p, q)
         /\ Look(w, p) = "error" => host /\ Above(p) \cap DOMAIN w # {}
         /\ Look(w, p) = "nothing" => p \notin DOMAIN w /\ \A q \in DOMAIN w : ~ Covers(p, q)
         /\ Look(w, p) = "nothing" <=> /\ p \notin DOMAIN w /\ \A q \in DOMAIN w : ~ Covers(p, q)
                                       /\ ~ (host /\ Above(p) \cap DOMAIN w # {})
<1>1. p # <<>>
  BY PathsAre
<1> QED
  BY <1>1 DEF Look

LEMMA WithoutTree ==
  ASSUME NEW w \in Trees, NEW ps
  PROVE  /\ Without(w, ps) \in Trees
         /\ DOMAIN Without(w, ps) = DOMAIN w \ ps
         /\ \A p \in DOMAIN w \ ps : Without(w, ps)[p] = w[p]
<1>1. /\ DOMAIN Without(w, ps) = DOMAIN w \ ps
      /\ \A p \in DOMAIN w \ ps : Without(w, ps)[p] = w[p]
      /\ Without(w, ps) = [p \in DOMAIN w \ ps |-> w[p]]
  BY DEF Without
<1>2. Patch(Without(w, ps))
  BY <1>1, TreesAre DEF Patch
<1> QED
  BY <1>1, <1>2, TreesAre

LEMMA OverIs ==
  ASSUME NEW put, NEW w
  PROVE  /\ DOMAIN Over(put, w) = DOMAIN put \cup DOMAIN w
         /\ \A p \in DOMAIN put : Over(put, w)[p] = put[p]
         /\ \A p \in DOMAIN w \ DOMAIN put : Over(put, w)[p] = w[p]
BY DEF Over

\* Where there is room, what is written leaves a tree.
LEMMA OverTree ==
  ASSUME NEW w \in Trees, NEW put, Patch(put),
         \A p, q \in DOMAIN put : Covers(p, q) => p = q,
         \A p \in DOMAIN put : \A q \in DOMAIN w : Covers(p, q) \/ Covers(q, p) => p = q
  PROVE  Over(put, w) \in Trees
<1>0. Patch(w)
  BY TreesAre
<1>1. Over(put, w) = [p \in DOMAIN put \cup DOMAIN w |-> Over(put, w)[p]]
  BY DEF Over
<1>2. \A p \in DOMAIN put \cup DOMAIN w : Over(put, w)[p] \in Blob
  <2>1. /\ \A p \in DOMAIN put : Over(put, w)[p] = put[p]
        /\ \A p \in DOMAIN w \ DOMAIN put : Over(put, w)[p] = w[p]
    BY OverIs, Zenon
  <2>2. (\A p \in DOMAIN put : put[p] \in Blob) /\ \A p \in DOMAIN w : w[p] \in Blob
    BY <1>0 DEF Patch
  <2> QED
    BY <2>1, <2>2
<1>3. Patch(Over(put, w))
  BY <1>1, <1>2, OverIs, TreesAre DEF Patch
<1>4. \A p, q \in DOMAIN put \cup DOMAIN w : Covers(p, q) => p = q
  BY TreesAre
<1> QED
  BY <1>3, <1>4, OverIs, TreesAre

-------------------------------------------------------------------------------
(* How a call with changes ends. *)

Obstacles(gone, put) ==
    {p \in DOMAIN put : Blocked(Without(files, gone), p)} \cup Astray(put, DOMAIN put)

\* An obstacle leads through a file, or is a directory, or lies below another one.
LEMMA ObstaclesAre ==
  ASSUME files \in Trees, NEW gone, NEW put, Patch(put), NEW p \in DOMAIN put
  PROVE  p \in Obstacles(gone, put) <=>
             \/ \E q \in DOMAIN files \ gone : q # p /\ (Covers(q, p) \/ Covers(p, q))
             \/ \E q \in DOMAIN put : q # p /\ Covers(q, p)
<1> DEFINE w == Without(files, gone)
<1>1. w \in Trees /\ DOMAIN w = DOMAIN files \ gone
  BY WithoutTree
<1> HIDE DEF w
<1>2. DOMAIN w \subseteq Path /\ p \in Path /\ DOMAIN put \subseteq Path
      /\ \A q \in DOMAIN w : Covers(p, q) /\ p \in DOMAIN w => q = p
  BY <1>1, TreesAre DEF Patch
<1>3. Blocked(w, p) <=> \E q \in DOMAIN w : q # p /\ (Covers(q, p) \/ Covers(p, q))
  <2>1. Above(p) \cap DOMAIN w # {} <=> \E q \in DOMAIN w : q # p /\ Covers(q, p)
    BY <1>2, AbovePaths
  <2>2. Look(w, p) = "directory" <=> \E q \in DOMAIN w : q # p /\ Covers(p, q)
    BY <1>2, LookIs
  <2> QED
    BY <2>1, <2>2 DEF Blocked
<1>4. p \in Astray(put, DOMAIN put) <=> \E q \in DOMAIN put : q # p /\ Covers(q, p)
  BY <1>2, AbovePaths DEF Astray
<1> QED
  BY <1>1, <1>3, <1>4 DEF Obstacles, w

LEMMA PutTree ==
  ASSUME files \in Trees, NEW gone, NEW put, Patch(put), NEW some,
         some \subseteq DOMAIN put \ Obstacles(gone, put)
  PROVE  /\ Over(Only(put, some), Without(files, gone)) \in Trees
         /\ DOMAIN Only(put, some) = some
         /\ \A p \in some : Only(put, some)[p] = put[p]
<1> DEFINE w == Without(files, gone)
           o == Only(put, some)
<1>1. w \in Trees /\ DOMAIN w = DOMAIN files \ gone
  BY WithoutTree
<1>2. DOMAIN o = some /\ (\A p \in some : o[p] = put[p]) /\ Patch(o)
  BY DEF Only, Patch
<1>3. \A p, q \in some : Covers(p, q) => p = q
  BY ObstaclesAre
<1>4. \A p \in some : \A q \in DOMAIN w : Covers(p, q) \/ Covers(q, p) => p = q
  BY <1>1, ObstaclesAre
<1> HIDE DEF w, o
<1>5. Over(o, w) \in Trees
  BY <1>1, <1>2, <1>3, <1>4, OverTree
<1> QED
  BY <1>2, <1>5 DEF w, o

Kept(p) == p \in DOMAIN files' /\ files'[p] = files[p]

LEMMA ApplyEnds ==
  ASSUME files \in Trees, NEW call, NEW gone, NEW stuck, NEW put, Patch(put), NEW ix, NEW h,
         Apply(call, gone, stuck, put, ix, h)
  PROVE  /\ files' \in Trees /\ host' = host
         /\ last'.call = call /\ last'.outcome \in {"done", "stopped", "failed"}
         /\ index' \in {index, ix} /\ head' \in {head, h}
         /\ last'.outcome = "failed" => stuck # {} \/ Obstacles(gone, put) # {}
         /\ last'.outcome = "done" => /\ stuck = {} /\ Obstacles(gone, put) = {}
                                      /\ files' = Over(put, Without(files, gone))
                                      /\ index' = ix /\ head' = h
         /\ \A p \in DOMAIN files : p \notin gone \cup DOMAIN put => Kept(p)
<1> DEFINE cleared  == Without(files, gone)
           obstacle == Obstacles(gone, put)
           early    == IF stuck \cup obstacle = {} THEN "stopped" ELSE "failed"
<1>0. /\ cleared \in Trees /\ DOMAIN cleared = DOMAIN files \ gone
      /\ \A p \in DOMAIN files \ gone : cleared[p] = files[p]
  BY WithoutTree
<1>1. CASE \E some \in SUBSET (gone \cap DOMAIN files) :
               Answer(call, early, Without(files, some), index, head)
  <2>1. PICK some \in SUBSET (gone \cap DOMAIN files) :
               Answer(call, early, Without(files, some), index, head)
    BY <1>1
  <2>2. /\ Without(files, some) \in Trees /\ DOMAIN Without(files, some) = DOMAIN files \ some
        /\ \A p \in DOMAIN files \ some : Without(files, some)[p] = files[p]
    BY WithoutTree
  <2> QED
    BY <2>1, <2>2 DEF Answer, Kept
<1>2. CASE \E some \in SUBSET (DOMAIN put \ obstacle) :
           \E torn \in {{}} \cup {{p} : p \in DOMAIN put \ some} :
               Answer(call, early, Without(Over(Only(put, some), cleared), torn), index, head)
  <2>1. PICK some \in SUBSET (DOMAIN put \ obstacle),
             torn \in SUBSET DOMAIN put :
               Answer(call, early, Without(Over(Only(put, some), cleared), torn), index, head)
    BY <1>2
  <2> DEFINE w == Over(Only(put, some), cleared)
  <2>2. /\ w \in Trees /\ DOMAIN w = some \cup DOMAIN cleared
        /\ \A p \in DOMAIN cleared \ some : w[p] = cleared[p]
    <3>1. some \subseteq DOMAIN put \ Obstacles(gone, put)
      OBVIOUS
    <3>2. w \in Trees /\ DOMAIN Only(put, some) = some
      BY <3>1, PutTree, Zenon
    <3>3. /\ DOMAIN w = DOMAIN Only(put, some) \cup DOMAIN cleared
          /\ \A p \in DOMAIN cleared \ DOMAIN Only(put, some) : w[p] = cleared[p]
      BY OverIs, ZenonT(40)
    <3> QED
      BY <3>2, <3>3, Zenon
  <2> HIDE DEF w
  <2>4. /\ Without(w, torn) \in Trees /\ DOMAIN Without(w, torn) = DOMAIN w \ torn
        /\ \A p \in DOMAIN w \ torn : Without(w, torn)[p] = w[p]
    BY <2>2, WithoutTree
  <2>5. /\ files' = Without(w, torn) /\ index' = index /\ head' = head /\ host' = host
        /\ last'.call = call /\ last'.outcome = early
    BY <2>1 DEF Answer, w
  <2>6. \A p \in DOMAIN files : p \notin gone \cup DOMAIN put => Kept(p)
    BY <1>0, <2>2, <2>4, <2>5 DEF Kept
  <2> QED
    BY <2>4, <2>5, <2>6
<1>3. CASE /\ early = "stopped"
           /\ \/ Answer(call, "done", Over(put, cleared), ix, h)
              \/ h # head /\ Answer(call, "stopped", Over(put, cleared), ix, head)
  <2>1. stuck = {} /\ obstacle = {}
    BY <1>3
  <2>2. put = Only(put, DOMAIN put)
    BY DEF Only, Patch
  <2>3. /\ Over(put, cleared) \in Trees
        /\ DOMAIN Over(put, cleared) = DOMAIN put \cup DOMAIN cleared
        /\ \A p \in DOMAIN cleared \ DOMAIN put : Over(put, cleared)[p] = cleared[p]
    <3>1. DOMAIN put \subseteq DOMAIN put \ Obstacles(gone, put)
      BY <2>1
    <3>2. Over(put, cleared) \in Trees
      BY <2>2, <3>1, PutTree, Zenon
    <3> QED
      BY <3>2, OverIs
  <2>4. /\ files' = Over(put, cleared) /\ index' = ix /\ head' \in {head, h} /\ host' = host
        /\ last'.call = call /\ last'.outcome \in {"done", "stopped"}
        /\ last'.outcome = "done" => head' = h
    BY <1>3 DEF Answer
  <2>5. \A p \in DOMAIN files : p \notin gone \cup DOMAIN put => Kept(p)
    BY <1>0, <2>3, <2>4 DEF Kept
  <2> QED
    BY <2>1, <2>3, <2>4, <2>5
<1> QED
  BY <1>1, <1>2, <1>3 DEF Apply, Obstacles

-------------------------------------------------------------------------------
(* Indexes. *)

IndexOK(ix) == ix \subseteq Entries /\ Single(ix)

LEMMA EntryIs ==
  ASSUME NEW p \in Path, NEW b \in Blob
  PROVE  /\ Entry(p, b) \in Entries
         /\ Entry(p, b).path = p /\ Entry(p, b).blob = b /\ Entry(p, b).stage = 0
         /\ Entry(p, b).skip = FALSE /\ Entry(p, b).intent = FALSE
BY DEF Entry, Entries

LEMMA PlainIs ==
  ASSUME NEW ix \in SUBSET Entries
  PROVE  /\ \A p \in DOMAIN Plain(ix) : /\ Plain(ix)[p] \in ix /\ Plain(ix)[p].stage = 0
                                        /\ Plain(ix)[p].path = p /\ p \in Path
                                        /\ Plain(ix)[p].blob \in Blob /\ p \in PathsOf(ix)
         /\ \A e \in ix : e.stage = 0 => e.path \in DOMAIN Plain(ix)
         /\ Plain(ix) = [p \in DOMAIN Plain(ix) |-> Plain(ix)[p]]
<1> DEFINE zero == {e \in ix : e.stage = 0}
<1>1. Plain(ix) = [p \in PathsOf(zero) |-> CHOOSE e \in zero : e.path = p]
  BY DEF Plain
<1>2. ASSUME NEW p \in PathsOf(zero)
      PROVE  (CHOOSE e \in zero : e.path = p) \in zero /\ (CHOOSE e \in zero : e.path = p).path = p
  BY DEF PathsOf
<1>3. \A e \in ix : e.path \in Path /\ e.blob \in Blob /\ e.path \in PathsOf(ix)
  BY DEF Entries, PathsOf
<1>4. \A e \in ix : e.stage = 0 => e.path \in PathsOf(zero)
  BY DEF PathsOf
<1>5. DOMAIN Plain(ix) = PathsOf(zero)
  BY <1>1
<1> QED
  BY <1>1, <1>2, <1>3, <1>4, <1>5

LEMMA PlainOf ==
  ASSUME NEW ix, IndexOK(ix), NEW e \in ix, e.stage = 0
  PROVE  e.path \in DOMAIN Plain(ix) /\ Plain(ix)[e.path] = e
BY PlainIs DEF IndexOK, Single

LEMMA PlainAll ==
  ASSUME NEW ix, IndexOK(ix), \A e \in ix : e.stage = 0
  PROVE  /\ DOMAIN Plain(ix) = PathsOf(ix)
         /\ \A p \in PathsOf(ix) : Plain(ix)[p] \in ix /\ Plain(ix)[p].path = p
<1>1. /\ \A p \in DOMAIN Plain(ix) : /\ Plain(ix)[p] \in ix /\ Plain(ix)[p].path = p
                                      /\ p \in PathsOf(ix)
      /\ \A e \in ix : e.stage = 0 => e.path \in DOMAIN Plain(ix)
  BY PlainIs DEF IndexOK
<1>2. \A p \in PathsOf(ix) : p \in DOMAIN Plain(ix)
  BY <1>1 DEF PathsOf
<1> QED
  BY <1>1, <1>2

LEMMA PathsOfIs == ASSUME NEW ix, NEW p PROVE p \in PathsOf(ix) <=> \E e \in ix : e.path = p
BY DEF PathsOf

LEMMA FromPatch ==
  ASSUME NEW t, Patch(t)
  PROVE  /\ IndexOK(FromTree(t)) /\ PathsOf(FromTree(t)) = DOMAIN t
         /\ \A e \in FromTree(t) : /\ e.path \in DOMAIN t /\ e.blob = t[e.path] /\ e.stage = 0
                                   /\ ~ e.skip /\ e = Entry(e.path, t[e.path])
         /\ \A p \in DOMAIN t : Entry(p, t[p]) \in FromTree(t)
<1>1. \A p \in DOMAIN t : p \in Path /\ t[p] \in Blob
  BY DEF Patch
<1>2. \A e \in FromTree(t) : /\ e.path \in DOMAIN t /\ e.blob = t[e.path] /\ e.stage = 0
                             /\ ~ e.skip /\ e = Entry(e.path, t[e.path]) /\ e \in Entries
  <2> SUFFICES ASSUME NEW e \in FromTree(t)
               PROVE  /\ e.path \in DOMAIN t /\ e.blob = t[e.path] /\ e.stage = 0
                      /\ ~ e.skip /\ e = Entry(e.path, t[e.path]) /\ e \in Entries
    OBVIOUS
  <2>1. PICK p \in DOMAIN t : e = Entry(p, t[p])
    BY DEF FromTree
  <2>2. /\ Entry(p, t[p]) \in Entries
        /\ Entry(p, t[p]).path = p /\ Entry(p, t[p]).blob = t[p] /\ Entry(p, t[p]).stage = 0
        /\ ~ Entry(p, t[p]).skip
    BY <1>1, EntryIs, ZenonT(60)
  <2>3. e.path = p
    BY <2>1, <2>2
  <2> QED
    BY <2>1, <2>2, <2>3
<1>3. \A p \in DOMAIN t : Entry(p, t[p]) \in FromTree(t) /\ Entry(p, t[p]).path = p
  BY <1>1, EntryIs DEF FromTree
<1>4. IndexOK(FromTree(t))
  BY <1>2 DEF IndexOK, Single
<1>5. PathsOf(FromTree(t)) = DOMAIN t
  BY <1>2, <1>3, PathsOfIs
<1> QED
  BY <1>2, <1>3, <1>4, <1>5

\* A part of an index, and two parts that have no path in common.
LEMMA IndexPart ==
  ASSUME NEW ix, IndexOK(ix), NEW jx \in SUBSET ix
  PROVE  IndexOK(jx)
BY DEF IndexOK, Single

LEMMA IndexJoin ==
  ASSUME NEW ix, NEW jx, IndexOK(ix), IndexOK(jx),
         \A e \in ix, f \in jx : e.stage = 0 /\ f.stage = 0 => e.path # f.path
  PROVE  IndexOK(ix \cup jx)
BY DEF IndexOK, Single

LEMMA IndexWith ==
  ASSUME NEW ix, NEW e \in Entries, IndexOK(ix), \A f \in ix : f.path = e.path => f.stage # e.stage
  PROVE  IndexOK(ix \cup {e})
BY DEF IndexOK, Single

-------------------------------------------------------------------------------
(* What a step must show. *)

Losses == ~ last'.call.force \/ last'.call.op = "clean" =>
              \A p \in DOMAIN files : Kept(p) \/ MayLose(last'.call, p)

Failures == last'.outcome = "failed" =>
                last'.call.force \/ last'.call.op = "clash" \/ Tangled

Carries == last'.outcome = "done" /\ last'.call.op \in {"switch", "hard"} =>
               /\ StagedChanges' = {}
               /\ last'.call.force => LocalChanges' = {}
               /\ ~ last'.call.force => /\ LocalChanges' \subseteq LocalChanges
                                        /\ Untracked \subseteq Untracked'

Quiet == last'.outcome = "done" /\ last'.call.op \in {"sparse", "disable"} =>
             /\ \A p \in LocalChanges' \ LocalChanges :
                    p \in PathsOf({e \in index : e.skip}) /\ Look(files, p) # "nothing"
             /\ \A e \in index' : e.skip =>
                    Look(files', e.path) = "nothing" /\ ~ ConeIncludes(e.path, cones')
             /\ \A e \in index' : e.stage = 0 /\ ConeIncludes(e.path, cones') =>
                    Look(files', e.path) # "nothing" \/ Tangled

Shown == TreeInv' /\ Losses /\ Failures /\ Carries /\ Quiet

LEMMA AllKept ==
  ASSUME files \in Trees, files' = files
  PROVE  Losses
BY DEF Losses, Kept

\* A call that leaves the files alone, and is neither a switch nor a sparse selection
\* that is done.
LEMMA Unmoved ==
  ASSUME TreeInv, UNCHANGED cones, NEW call, NEW outcome, NEW ix, NEW h,
         Answer(call, outcome, files, ix, h), outcome # "failed",
         outcome = "refused" \/ call.op \notin {"switch", "hard", "sparse", "disable"},
         IndexOK(ix), h \in Trees
  PROVE  Shown
<1>1. /\ files' = files /\ index' = ix /\ head' = h /\ host' = host /\ cones' = cones
      /\ last'.call = call /\ last'.outcome = outcome
  BY DEF Answer
<1>2. TreeInv'
  BY <1>1 DEF TreeInv, IndexOK
<1>3. Losses
  BY <1>1, AllKept DEF TreeInv
<1> QED
  BY <1>1, <1>2, <1>3 DEF Shown, Failures, Carries, Quiet

LEMMA Refused ==
  ASSUME TreeInv, UNCHANGED cones, NEW call, Refuse(call)
  PROVE  Shown
BY Unmoved DEF Refuse, TreeInv, IndexOK

-------------------------------------------------------------------------------
(* Calls on the index alone. *)

LEMMA FoundIn == ASSUME NEW p, NEW force PROVE Found(p, force) \subseteq DOMAIN files
BY DEF Found

LEMMA AddShown ==
  ASSUME TreeInv, UNCHANGED cones, NEW p \in Spot, NEW force \in BOOLEAN, Add(p, force)
  PROVE  Shown
<1> DEFINE call  == [op |-> "add", force |-> force]
           found == Found(p, force)
           kept  == index \ Under(index, p)
           ix    == kept \cup FromTree(Only(files, found))
<1>1. CASE Refuse(call)
  BY <1>1, Refused
<1>2. CASE Answer(call, "done", files, ix, head)
  <2>1. Patch(Only(files, found)) /\ DOMAIN Only(files, found) = found
    BY FoundIn, TreesAre DEF Only, Patch, TreeInv
  <2>2. IndexOK(kept) /\ IndexOK(FromTree(Only(files, found)))
    BY <2>1, IndexPart, FromPatch DEF TreeInv, IndexOK, Under
  <2>3. \A e \in kept, f \in FromTree(Only(files, found)) : e.path # f.path
    <3>1. \A f \in FromTree(Only(files, found)) : Covers(p, f.path)
      BY <2>1, FromPatch DEF Found
    <3> QED
      BY <3>1 DEF Under
  <2>4. IndexOK(ix)
    BY <2>2, <2>3, IndexJoin
  <2> QED
    BY <1>2, <2>4, Unmoved DEF TreeInv
<1> QED
  BY <1>1, <1>2 DEF Add

LEMMA AddPathsShown ==
  ASSUME TreeInv, UNCHANGED cones, NEW ps \in SUBSET Spot, NEW wish, AddPaths(ps, wish)
  PROVE  Shown
<1> DEFINE call    == [op |-> "add_paths", force |-> wish = "force"]
           tracked == PathsOf(index)
           found   == {f \in UNION {Found(p, wish = "force") : p \in ps} :
                           wish = "update" => f \in tracked}
           removed == {p \in tracked \ found : /\ wish # "keep"
                                               /\ \E q \in ps : Covers(q, p)}
           new     == IF wish = "intent" THEN found \ tracked ELSE {}
           Stage(f) == IF f \in new THEN [Entry(f, Empty) EXCEPT !.intent = TRUE]
                                    ELSE Entry(f, files[f])
           staged  == {Stage(f) : f \in found}
           rest    == {e \in index : e.path \notin found \cup removed}
<1>1. CASE Refuse(call)
  BY <1>1, Refused
<1>2. CASE Answer(call, "done", files, rest \cup staged, head)
  <2>1. found \subseteq DOMAIN files /\ \A f \in found : f \in Path /\ files[f] \in Blob
    BY FoundIn, TreesAre DEF Patch, TreeInv
  <2>2. ASSUME NEW f \in found PROVE Stage(f) \in Entries /\ Stage(f).path = f
    <3>1. Entry(f, files[f]) \in Entries /\ Entry(f, files[f]).path = f
      BY <2>1, EntryIs
    <3>2. /\ [Entry(f, Empty) EXCEPT !.intent = TRUE] \in Entries
          /\ [Entry(f, Empty) EXCEPT !.intent = TRUE].path = f
      <4>1. Entry(f, Empty) \in Entries /\ Entry(f, Empty).path = f
        BY <2>1, EntryIs, WorkTreeAssumption
      <4>2. ASSUME NEW e \in Entries
            PROVE  [e EXCEPT !.intent = TRUE] \in Entries /\ [e EXCEPT !.intent = TRUE].path = e.path
        BY DEF Entries
      <4> QED
        BY <4>1, <4>2
    <3> QED
      BY <3>1, <3>2
  <2> HIDE DEF Stage, found, removed
  <2>3. IndexOK(staged)
    BY <2>2 DEF IndexOK, Single
  <2>4. IndexOK(rest)
    BY IndexPart DEF TreeInv, IndexOK
  <2>5. \A e \in rest, f \in staged : e.path # f.path
    BY <2>2
  <2>6. IndexOK(rest \cup staged)
    BY <2>3, <2>4, <2>5, IndexJoin
  <2> QED
    BY <1>2, <2>6, Unmoved DEF TreeInv
<1> QED
  BY <1>1, <1>2 DEF AddPaths

LEMMA PutShown ==
  ASSUME TreeInv, UNCHANGED cones, NEW call, call.op = "cacheinfo" \/ call.op = "update-index",
         NEW e \in Entries, NEW allow, NEW gone,
         \A f \in index : f.path = e.path /\ f.stage = e.stage => f \in gone,
         Put(call, e, allow, gone)
  PROVE  Shown
<1> DEFINE rest == index \ (Clash(e.path) \cup gone)
<1>1. CASE Refuse(call)
  BY <1>1, Refused
<1>2. CASE Answer(call, "done", files, rest \cup {e}, head)
  <2>1. IndexOK(rest)
    BY IndexPart DEF TreeInv, IndexOK
  <2>2. \A f \in rest : f.path = e.path => f.stage # e.stage
    OBVIOUS
  <2>3. IndexOK(rest \cup {e})
    BY <2>1, <2>2, IndexWith
  <2> QED
    BY <1>2, <2>3, Unmoved DEF TreeInv
<1> QED
  BY <1>1, <1>2 DEF Put

LEMMA UpdatePathShown ==
  ASSUME TreeInv, UNCHANGED cones, NEW p \in Path, NEW allow, UpdatePath(p, allow)
  PROVE  Shown
<1> DEFINE call  == [op |-> "update-index", force |-> FALSE]
           exact == {e \in index : e.path = p}
           there == Look(files, p)
<1>0. call.op = "update-index"
  OBVIOUS
<1>1. CASE Refuse(call)
  BY <1>1, Refused
<1>2. ASSUME NEW ix \in SUBSET index, Answer(call, "done", files, ix, head) PROVE Shown
  <2>1. IndexOK(ix)
    BY IndexPart DEF TreeInv, IndexOK
  <2> QED
    BY <1>2, <2>1, Unmoved DEF TreeInv
<1>3. CASE there = "file" /\ Put(call, Entry(p, files[p]), allow, exact)
  <2>1. p \in DOMAIN files
    BY <1>3, LookIs
  <2>2. Entry(p, files[p]) \in Entries /\ Entry(p, files[p]).path = p
    BY <2>1, EntryIs, TreesAre DEF TreeInv, Patch
  <2>3. \A f \in index : f.path = Entry(p, files[p]).path => f \in exact
    BY <2>2
  <2> HIDE DEF call, exact
  <2> QED
    BY <1>0, <1>3, <2>2, <2>3, PutShown
<1>4. \/ Refuse(call) \/ Answer(call, "done", files, index, head)
      \/ Answer(call, "done", files, index \ exact, head)
      \/ there = "file" /\ Put(call, Entry(p, files[p]), allow, exact)
  BY DEF UpdatePath
<1> QED
  BY <1>1, <1>2, <1>3, <1>4

LEMMA SetFlagShown ==
  ASSUME TreeInv, UNCHANGED cones, NEW p \in Path, NEW flag, NEW value \in BOOLEAN,
         SetFlag(p, flag, value)
  PROVE  Shown
<1> DEFINE call == [op |-> "flag", force |-> FALSE]
           zero == {e \in index : e.path = p /\ e.stage = 0}
           Flagged(e) == IF flag = "skip" THEN [e EXCEPT !.skip = value]
                                          ELSE [e EXCEPT !.intent = value]
           now == {Flagged(e) : e \in zero}
<1>1. CASE Refuse(call)
  BY <1>1, Refused
<1>2. CASE Answer(call, "done", files, (index \ zero) \cup now, head)
  <2>1. ASSUME NEW e \in zero
        PROVE  Flagged(e) \in Entries /\ Flagged(e).path = p /\ Flagged(e).stage = 0
    BY DEF TreeInv, Entries
  <2> HIDE DEF Flagged
  <2>2. \A e, f \in zero : e = f
    BY DEF TreeInv, Single
  <2>3. IndexOK(now)
    BY <2>1, <2>2 DEF IndexOK, Single
  <2>4. IndexOK(index \ zero)
    BY IndexPart DEF TreeInv, IndexOK
  <2>5. \A e \in index \ zero, f \in now : e.stage = 0 /\ f.stage = 0 => e.path # f.path
    BY <2>1
  <2> HIDE DEF now, zero
  <2>6. IndexOK((index \ zero) \cup now)
    BY <2>3, <2>4, <2>5, IndexJoin
  <2> QED
    BY <1>2, <2>6, Unmoved DEF TreeInv
<1> QED
  BY <1>1, <1>2 DEF SetFlag

LEMMA CommitShown == ASSUME TreeInv, UNCHANGED cones, Commit PROVE Shown
<1> DEFINE call == [op |-> "commit", force |-> FALSE]
<1>1. CASE Refuse(call)
  BY <1>1, Refused
<1>2. CASE Writable(index) /\ Answer(call, "done", files, index, TreeOf(index))
  <2>0. IndexOK(index)
    BY DEF TreeInv, IndexOK
  <2>1. \A p \in PathsOf(index) : p \in DOMAIN Plain(index)
    BY <1>2, <2>0, PlainIs, PathsOfIs DEF Writable, IndexOK
  <2>2. Patch(TreeOf(index)) /\ DOMAIN TreeOf(index) = PathsOf(index)
    BY <2>0, <2>1, PlainIs DEF TreeOf, Patch, IndexOK
  <2>3. ASSUME NEW p \in PathsOf(index), NEW q \in PathsOf(index), Covers(p, q) PROVE p = q
    BY <1>2, <2>3, PathsOfIs DEF Writable
  <2>4. TreeOf(index) \in Trees
    BY <2>2, <2>3, TreesAre
  <2> QED
    BY <1>2, <2>0, <2>4, Unmoved
<1> QED
  BY <1>1, <1>2 DEF Commit

LEMMA IndexShown == ASSUME TreeInv, UNCHANGED cones, IndexCall PROVE Shown
<1>1. ASSUME NEW e \in Entries, NEW allow, CacheInfo(e, allow) PROVE Shown
  BY <1>1, PutShown DEF CacheInfo
<1> QED
  BY <1>1, AddShown, AddPathsShown, UpdatePathShown, SetFlagShown, CommitShown DEF IndexCall

-------------------------------------------------------------------------------
(* Calls that change files. *)

LEMMA Applied ==
  ASSUME TreeInv, cones' \in SUBSET Seq(Nat),
         NEW call, NEW gone, NEW stuck, NEW put, Patch(put), NEW ix, IndexOK(ix), NEW h \in Trees,
         Apply(call, gone, stuck, put, ix, h),
         ~ call.force \/ call.op = "clean" =>
             \A p \in DOMAIN files : p \in gone \cup DOMAIN put => MayLose(call, p),
         stuck # {} \/ Obstacles(gone, put) # {} =>
             call.force \/ call.op = "clash" \/ Tangled
  PROVE  /\ TreeInv' /\ Losses /\ Failures
         /\ call.op \notin {"switch", "hard"} => Carries
         /\ call.op \notin {"sparse", "disable"} => Quiet
<1>0. files \in Trees /\ index \subseteq Entries /\ Single(index) /\ head \in Trees
      /\ host \in BOOLEAN
  BY DEF TreeInv
<1>1. /\ files' \in Trees /\ host' = host
      /\ last'.call = call /\ last'.outcome \in {"done", "stopped", "failed"}
      /\ index' \in {index, ix} /\ head' \in {head, h}
      /\ last'.outcome = "failed" => stuck # {} \/ Obstacles(gone, put) # {}
      /\ \A p \in DOMAIN files : p \notin gone \cup DOMAIN put => Kept(p)
  BY <1>0, ApplyEnds
<1>2. TreeInv'
  BY <1>0, <1>1 DEF TreeInv, IndexOK
<1>3. Losses
  BY <1>1 DEF Losses
<1>4. Failures
  BY <1>1 DEF Failures
<1>5. call.op \notin {"switch", "hard"} => Carries
  BY <1>1 DEF Carries
<1>6. call.op \notin {"sparse", "disable"} => Quiet
  BY <1>1 DEF Quiet
<1> QED
  BY <1>2, <1>3, <1>4, <1>5, <1>6

LEMMA NothingPut ==
  ASSUME NEW gone
  PROVE  Patch(<<>>) /\ DOMAIN <<>> = {} /\ Obstacles(gone, <<>>) = {}
<1>1. Patch(<<>>) /\ DOMAIN <<>> = {}
  BY EmptyTree, TreesAre
<1> QED
  BY <1>1 DEF Obstacles, Astray

LEMMA CleanShown ==
  ASSUME TreeInv, UNCHANGED cones, NEW ps, NEW mode, NEW directories, Clean(ps, mode, directories)
  PROVE  Shown
<1> DEFINE call == [op |-> "clean", force |-> TRUE]
           gone == Cleaned(ps, mode, directories)
<1>1. Apply(call, gone, {}, <<>>, index, head)
  BY DEF Clean
<1>2. \A p \in gone : p \notin PathsOf(index)
  BY DEF Cleaned
<1>3. Patch(<<>>) /\ DOMAIN <<>> = {} /\ Obstacles(gone, <<>>) = {}
  BY NothingPut
<1>4. \A p \in DOMAIN files : p \in gone \cup DOMAIN <<>> => MayLose(call, p)
  BY <1>2, <1>3 DEF MayLose
<1>5. call.op = "clean" /\ call.force /\ IndexOK(index) /\ head \in Trees
      /\ cones' \in SUBSET Seq(Nat)
  BY DEF TreeInv, IndexOK
<1> HIDE DEF call, gone
<1>6. TreeInv' /\ Losses /\ Failures /\ Carries /\ Quiet
  BY <1>1, <1>3, <1>4, <1>5, Applied
<1> QED
  BY <1>6 DEF Shown

\* A removal that is safe takes away what the index has.
LEMMA SafeRemoval ==
  ASSUME NEW p \in DOMAIN files, p \in PathsOf(index), ~ UnsafeRemoval(p, FALSE)
  PROVE  Recorded(p)
<1> DEFINE entry == CHOOSE e \in index : e.path = p
<1>1. entry \in index /\ entry.path = p
  BY PathsOfIs
<1>2. CASE \A e \in index : e.path = p => e.stage = 0
  <2>1. Matches(files, entry)
    BY <1>2 DEF UnsafeRemoval
  <2> QED
    BY <1>1, <2>1 DEF Recorded, Matches
<1>3. CASE \E e \in index : e.path = p /\ e.stage # 0
  BY <1>3 DEF Recorded
<1> QED
  BY <1>2, <1>3

LEMMA RemoveShown ==
  ASSUME TreeInv, UNCHANGED cones, NEW p \in Spot, NEW recursive \in BOOLEAN,
         NEW cached \in BOOLEAN, NEW force \in BOOLEAN, RemovePaths(p, recursive, cached, force)
  PROVE  Shown
<1> DEFINE call     == [op |-> IF cached THEN "remove_cached" ELSE "remove", force |-> force]
           selected == Under(index, p)
           paths    == PathsOf(selected)
           unseen   == Reported(files, paths)
           rest     == index \ selected
<1>0. /\ files \in Trees /\ head \in Trees /\ IndexOK(index) /\ IndexOK(rest)
      /\ cones' \in SUBSET Seq(Nat) /\ paths \subseteq PathsOf(index)
  BY IndexPart DEF TreeInv, IndexOK, PathsOf, Under
<1>1. call.op \notin {"switch", "hard", "sparse", "disable", "clean", "move", "restore"}
      /\ call.force = force
  OBVIOUS
<1>2. CASE Refuse(call)
  BY <1>2, Refused
<1>3. CASE ~ Refuse(call)
  <2>0. /\ ~ force => \A q \in paths : ~ UnsafeRemoval(q, cached)
        /\ \/ /\ cached \/ Astray(files, paths) = {}
              /\ Apply(call, IF cached THEN {} ELSE paths, {}, <<>>, rest, head)
           \/ /\ ~ cached /\ Astray(files, paths) # {}
              /\ \E some \in SUBSET (paths \cap DOMAIN files) :
                     \/ Answer(call, "failed", files, index, head)
                     \/ Answer(call, "failed", Without(files, some), rest, head)
    BY <1>3, Zenon DEF RemovePaths
  <2>1. \A q \in DOMAIN files : q \in paths /\ ~ force /\ ~ cached => MayLose(call, q)
    BY <1>0, <1>1, <2>0, SafeRemoval DEF MayLose
  <2>2. CASE Apply(call, IF cached THEN {} ELSE paths, {}, <<>>, rest, head)
    <3> DEFINE gone == IF cached THEN {} ELSE paths
    <3>1. Patch(<<>>) /\ DOMAIN <<>> = {} /\ Obstacles(gone, <<>>) = {}
      BY NothingPut
    <3>2. ~ call.force \/ call.op = "clean" =>
              \A q \in DOMAIN files : q \in gone \cup DOMAIN <<>> => MayLose(call, q)
      BY <1>1, <2>1, <3>1
    <3>3. Apply(call, gone, {}, <<>>, rest, head)
      BY <2>2
    <3> HIDE DEF call, gone, rest
    <3>4. TreeInv' /\ Losses /\ Failures /\ Carries /\ Quiet
      BY <1>0, <1>1, <3>1, <3>2, <3>3, Applied
    <3> QED
      BY <3>4 DEF Shown
  <2>3. CASE /\ ~ cached /\ Astray(files, paths) # {}
             /\ \E some \in SUBSET (paths \cap DOMAIN files) :
                     \/ Answer(call, "failed", files, index, head)
                     \/ Answer(call, "failed", Without(files, some), rest, head)
    <3>1. PICK some \in SUBSET (paths \cap DOMAIN files) :
                     \/ Answer(call, "failed", files, index, head)
                     \/ Answer(call, "failed", Without(files, some), rest, head)
      BY <2>3
    <3>2. /\ Without(files, some) \in Trees /\ DOMAIN Without(files, some) = DOMAIN files \ some
          /\ \A q \in DOMAIN files \ some : Without(files, some)[q] = files[q]
      BY <1>0, WithoutTree
    <3>3. /\ files' \in {files, Without(files, some)} /\ index' \in {index, rest}
          /\ head' = head /\ host' = host /\ last'.call = call /\ last'.outcome = "failed"
      BY <3>1 DEF Answer
    <3>4. Tangled
      BY <1>0, <2>3 DEF Astray, Tangled
    <3> HIDE DEF call, rest
    <3>5. TreeInv'
      BY <1>0, <3>2, <3>3 DEF TreeInv, IndexOK
    <3>6. Losses
      BY <1>1, <2>1, <2>3, <3>2, <3>3 DEF Losses, Kept
    <3> QED
      BY <3>3, <3>4, <3>5, <3>6 DEF Shown, Failures, Carries, Quiet
  <2> QED
    BY <2>0, <2>2, <2>3
<1> QED
  BY <1>2, <1>3

LEMMA CopyShown ==
  ASSUME TreeInv, UNCHANGED cones, NEW ps, NEW all, NEW force \in BOOLEAN, NEW stage,
         CheckoutIndex(ps, all, stage, force)
  PROVE  Shown
<1> DEFINE call   == [op |-> "checkout-index", force |-> force]
           chosen == {e \in index : /\ all \/ e.path \in ps
                                    /\ e.stage = stage /\ ~e.skip}
           paths  == PathsOf(chosen)
           put    == [p \in paths |-> (CHOOSE e \in chosen : e.path = p).blob]
<1>0. files \in Trees /\ head \in Trees /\ IndexOK(index) /\ cones' \in SUBSET Seq(Nat)
  BY DEF TreeInv, IndexOK
<1>1. CASE Refuse(call)
  BY <1>1, Refused
<1>2. CASE ~ Refuse(call)
  <2>0. /\ Apply(call, {}, {}, put, index, head)
        /\ \A p, q \in paths : Covers(p, q) => p = q
        /\ (UNION {Above(p) : p \in paths}) \cap DOMAIN files = {}
        /\ \A p \in paths : /\ Look(files, p) \notin {"error", "directory"}
                            /\ ~ force => Look(files, p) # "file"
    BY <1>2, Zenon DEF CheckoutIndex
  <2>1. Patch(put) /\ DOMAIN put = paths /\ paths \subseteq Path
    <3>1. ASSUME NEW p \in paths
          PROVE  p \in Path /\ (CHOOSE e \in chosen : e.path = p).blob \in Blob
      <4>1. (CHOOSE e \in chosen : e.path = p) \in chosen
            /\ (CHOOSE e \in chosen : e.path = p).path = p
        BY PathsOfIs
      <4> QED
        BY <1>0, <4>1 DEF IndexOK, Entries
    <3> QED
      BY <3>1 DEF Patch
  <2> HIDE DEF put, paths
  <2>2. \A p \in paths : p \in DOMAIN files => force
    BY <2>0, <2>1, LookIs
  <2>3. ASSUME NEW p \in paths PROVE p \notin Obstacles({}, put)
    <3>1. \A q \in DOMAIN files : Covers(q, p) => q = p
      <4>1. Above(p) \subseteq UNION {Above(q) : q \in paths}
        OBVIOUS
      <4> QED
        <5>1. Above(p) \cap DOMAIN files = {q \in DOMAIN files : q # p /\ Covers(q, p)}
          BY <1>0, <2>1, AbovePaths, TreesAre DEF Patch
        <5>2. ASSUME NEW q \in DOMAIN files, Covers(q, p), q # p PROVE FALSE
          <6>1. q \in Above(p)
            BY <5>1, <5>2
          <6>2. q \in UNION {Above(r) : r \in paths}
            BY <4>1, <6>1
          <6> QED
            BY <2>0, <6>2
        <5> QED
          BY <5>2
    <3>2. \A q \in DOMAIN files : Covers(p, q) => q = p
      BY <1>0, <2>0, <2>1, LookIs, TreesAre
    <3> QED
      BY <1>0, <2>0, <2>1, <3>1, <3>2, ObstaclesAre
  <2>4. Obstacles({}, put) = {}
    BY <2>1, <2>3 DEF Obstacles, Astray
  <2>5. call.op \notin {"switch", "hard", "sparse", "disable", "clean"} /\ call.force = force
    OBVIOUS
  <2> HIDE DEF call
  <2>6. TreeInv' /\ Losses /\ Failures /\ Carries /\ Quiet
    BY <1>0, <2>0, <2>1, <2>2, <2>4, <2>5, Applied
  <2> QED
    BY <2>6 DEF Shown
<1> QED
  BY <1>1, <1>2

-------------------------------------------------------------------------------
(* Checkout. *)

LEMMA StagedIs ==
  ASSUME NEW t, Patch(t), index = FromTree(t), head = t
  PROVE  StagedChanges = {}
<1>1. /\ IndexOK(index) /\ PathsOf(index) = DOMAIN t
      /\ \A e \in index : e.path \in DOMAIN t /\ e.blob = t[e.path] /\ e.stage = 0
      /\ \A p \in DOMAIN t : Entry(p, t[p]) \in index
  BY FromPatch
<1>2. Unmerged = {}
  BY <1>1, PathsOfIs DEF Unmerged
<1>3. DOMAIN Plain(index) = DOMAIN t
  BY <1>1, PlainAll
<1>4. \A p \in DOMAIN t : Plain(index)[p].blob = t[p]
  BY <1>1, PlainAll
<1> QED
  BY <1>2, <1>3, <1>4 DEF StagedChanges

\* What the check lets through.
LEMMA ConflictIs ==
  ASSUME TreeInv, NEW t \in Trees, ~ CheckoutConflict(t)
  PROVE  /\ \A p \in DOMAIN Plain(index) : ~ Same(t, Plain(index), p) =>
                Look(files, p) = "nothing" \/ Matches(files, Plain(index)[p])
         /\ \A p \in DOMAIN t : \A q \in DOMAIN files : q # p /\ Covers(q, p) =>
                q \in DOMAIN Plain(index) \ DOMAIN t
         /\ \A p \in DOMAIN t \ DOMAIN Plain(index) : Look(files, p) = "nothing"
<1>1. /\ \A p \in DOMAIN Plain(index) : ~ Same(t, Plain(index), p) =>
                Look(files, p) = "nothing" \/ Matches(files, Plain(index)[p])
      /\ \A p \in DOMAIN t : \A q \in Above(p) : q \in DOMAIN files =>
             q \in DOMAIN Plain(index) \ DOMAIN t
      /\ \A p \in DOMAIN t \ DOMAIN Plain(index) : Look(files, p) = "nothing"
  BY DEF CheckoutConflict
<1>2. \A p \in DOMAIN t : \A q \in DOMAIN files : q # p /\ Covers(q, p) => q \in Above(p)
  BY AbovePaths, TreesAre DEF TreeInv, Patch
<1> QED
  BY <1>1, <1>2

LEMMA CheckoutShown ==
  ASSUME TreeInv, UNCHANGED cones, NEW call, call.force \in BOOLEAN,
         call.op \in {"switch", "hard"}, NEW t \in Trees, CheckoutTree(call, t, t)
  PROVE  Shown
<1> DEFINE cur   == Plain(index)
           same  == IF call.force THEN {} ELSE {p \in DOMAIN t : Same(t, cur, p)}
           put   == Without(t, same)
           gone  == DOMAIN cur \ DOMAIN t
           stuck == Reported(files, DOMAIN cur \ DOMAIN t)
           ix    == {cur[p] : p \in same} \cup FromTree(put)
<1>0. /\ files \in Trees /\ head \in Trees /\ IndexOK(index) /\ cones' \in SUBSET Seq(Nat)
      /\ Patch(files) /\ Patch(t)
  BY TreesAre DEF TreeInv, IndexOK
<1>1. /\ \A p \in DOMAIN cur : /\ cur[p] \in index /\ cur[p].stage = 0 /\ cur[p].path = p
                               /\ p \in Path /\ p \in PathsOf(index)
      /\ \A e \in index : e.stage = 0 => e.path \in DOMAIN cur
  BY <1>0, PlainIs DEF IndexOK
<1>2. /\ same \subseteq DOMAIN t /\ same \subseteq DOMAIN cur
      /\ \A p \in same : cur[p].blob = t[p]
      /\ ~ call.force => \A p \in DOMAIN t : p \in same <=> Same(t, cur, p)
      /\ call.force => same = {}
  BY DEF Same
<1>3. CASE Refuse(call)
  BY <1>3, Refused
<1>4. CASE ~ Refuse(call)
  <2>0. /\ Apply(call, gone, stuck, put, ix, t)
        /\ ~ call.force => ~ CheckoutConflict(t)
    BY <1>4, Zenon DEF CheckoutTree
  <2> HIDE DEF cur, same, gone
  <2>1. /\ put \in Trees /\ Patch(put) /\ DOMAIN put = DOMAIN t \ same
        /\ \A p \in DOMAIN t \ same : put[p] = t[p]
    BY WithoutTree, TreesAre
  <2>2. /\ IndexOK(FromTree(put)) /\ PathsOf(FromTree(put)) = DOMAIN put
        /\ \A e \in FromTree(put) : e.path \in DOMAIN put /\ e.blob = put[e.path] /\ ~ e.skip
        /\ \A e \in FromTree(put) : e.stage = 0
    BY <2>1, FromPatch
  <2> HIDE DEF put
  <2>3. IndexOK(ix)
    <3>1. IndexOK({cur[p] : p \in same})
      BY <1>0, <1>1, <1>2, IndexPart
    <3>2. \A e \in {cur[p] : p \in same}, f \in FromTree(put) : e.path # f.path
      BY <1>1, <1>2, <2>1, <2>2
    <3> QED
      BY <2>2, <3>1, <3>2, IndexJoin
  <2>4. ~ call.force =>
            /\ \A p \in DOMAIN cur : ~ Same(t, cur, p) =>
                   Look(files, p) = "nothing" \/ Matches(files, cur[p])
            /\ \A p \in DOMAIN t : \A q \in DOMAIN files : q # p /\ Covers(q, p) => q \in gone
            /\ \A p \in DOMAIN t \ DOMAIN cur : Look(files, p) = "nothing"
    BY <2>0, ConflictIs DEF cur, gone
  \* What goes or is written over is recorded.
  <2>5. ASSUME ~ call.force, NEW p \in DOMAIN files, p \in gone \cup DOMAIN put
        PROVE  MayLose(call, p)
    <3>1. Look(files, p) = "file" /\ p \in Path
      BY <1>0, LookIs DEF Patch
    <3>2. p \in DOMAIN cur /\ ~ Same(t, cur, p)
      <4>1. CASE p \in gone
        BY <4>1 DEF gone, Same
      <4>2. CASE p \in DOMAIN put
        BY <1>2, <2>1, <2>4, <2>5, <3>1, <4>2
      <4> QED
        BY <2>5, <4>1, <4>2
    <3>3. Matches(files, cur[p])
      BY <2>4, <2>5, <3>1, <3>2
    <3>4. Recorded(p)
      BY <1>1, <3>2, <3>3 DEF Recorded, Matches
    <3> QED
      BY <3>4 DEF MayLose
  \* Nothing is in the way of what is written.
  <2>6. ASSUME ~ call.force, NEW p \in DOMAIN put PROVE p \notin Obstacles(gone, put)
    <3>1. p \in DOMAIN t /\ p \in Path
      BY <1>0, <2>1 DEF Patch
    <3>2. \A q \in DOMAIN files \ gone : q # p => ~ Covers(q, p)
      BY <2>4, <2>6, <3>1
    <3>3. \A q \in DOMAIN files : q # p => ~ Covers(p, q)
      <4> SUFFICES ASSUME NEW q \in DOMAIN files, q # p, Covers(p, q) PROVE FALSE
        OBVIOUS
      <4>1. p \notin DOMAIN files /\ Look(files, p) = "directory"
        BY <1>0, <3>1, LookIs, TreesAre
      <4>2. p \in DOMAIN cur /\ ~ Same(t, cur, p)
        BY <1>2, <2>1, <2>4, <2>6, <3>1, <4>1
      <4> QED
        BY <1>1, <2>4, <2>6, <4>1, <4>2 DEF Matches
    <3>4. \A q \in DOMAIN put : q # p => ~ Covers(q, p)
      BY <2>1, TreesAre
    <3> QED
      BY <1>0, <2>1, <3>2, <3>3, <3>4, ObstaclesAre
  <2>7. stuck # {} => Tangled
    <3> SUFFICES ASSUME NEW p \in DOMAIN cur, Look(files, p) = "error" PROVE Tangled
      BY DEF Reported
    <3>1. Above(p) \cap DOMAIN files # {}
      BY <1>1, LookIs
    <3> QED
      BY <1>1, <3>1 DEF Tangled
  <2>8. stuck # {} \/ Obstacles(gone, put) # {} => call.force \/ call.op = "clash" \/ Tangled
    BY <2>6, <2>7 DEF Obstacles, Astray
  <2> HIDE DEF ix, stuck
  <2>9. TreeInv' /\ Losses /\ Failures /\ Quiet
    BY <1>0, <2>0, <2>1, <2>3, <2>5, <2>8, Applied
  <2>10. Carries
    <3> SUFFICES ASSUME last'.outcome = "done"
                 PROVE  /\ StagedChanges' = {}
                        /\ call.force => LocalChanges' = {}
                        /\ ~ call.force => /\ LocalChanges' \subseteq LocalChanges
                                           /\ Untracked \subseteq Untracked'
      <4>1. last'.call = call
        BY <1>0, <2>0, <2>1, ApplyEnds
      <4> QED
        BY <4>1 DEF Carries
    <3>1. files' = Over(put, Without(files, gone)) /\ index' = ix /\ head' = t
      BY <1>0, <2>0, <2>1, ApplyEnds
    <3>2. /\ DOMAIN files' = DOMAIN put \cup (DOMAIN files \ gone)
          /\ \A p \in DOMAIN put : files'[p] = put[p]
          /\ \A p \in DOMAIN files \ gone : p \notin DOMAIN put => files'[p] = files[p]
      <4>1. /\ DOMAIN Without(files, gone) = DOMAIN files \ gone
            /\ \A p \in DOMAIN files \ gone : Without(files, gone)[p] = files[p]
        BY <1>0, WithoutTree
      <4>2. /\ DOMAIN files' = DOMAIN put \cup DOMAIN Without(files, gone)
            /\ \A p \in DOMAIN put : files'[p] = put[p]
            /\ \A p \in DOMAIN Without(files, gone) \ DOMAIN put :
                   files'[p] = Without(files, gone)[p]
        <5> DEFINE w == Without(files, gone)
        <5>1. files' = Over(put, w)
          BY <3>1
        <5> HIDE DEF w
        <5>2. /\ DOMAIN files' = DOMAIN put \cup DOMAIN w
              /\ \A p \in DOMAIN put : files'[p] = put[p]
              /\ \A p \in DOMAIN w \ DOMAIN put : files'[p] = w[p]
          BY <5>1, OverIs, ZenonT(60)
        <5> QED
          BY <5>2 DEF w
      <4> QED
        BY <4>1, <4>2
    <3>3. \A e \in index' : \/ e \in FromTree(put)
                            \/ e \in index /\ e.path \in same /\ e.blob = t[e.path] /\ e.stage = 0
      BY <1>1, <1>2, <3>1 DEF ix
    <3>4. \A e \in index' : e.path \in DOMAIN t /\ e.blob = t[e.path] /\ e.stage = 0
      BY <1>2, <2>1, <2>2, <3>3
    <3>5. \A p \in DOMAIN t : \E e \in index' : e.path = p
      <4> SUFFICES ASSUME NEW p \in DOMAIN t PROVE \E e \in index' : e.path = p
        OBVIOUS
      <4>1. CASE p \in same
        BY <1>1, <1>2, <3>1, <4>1 DEF ix
      <4>2. CASE p \notin same
        BY <2>1, <2>2, <3>1, <4>2, PathsOfIs DEF ix
      <4> QED
        BY <4>1, <4>2
    <3>6. StagedChanges' = {}
      <4>1. IndexOK(index')
        BY <2>3, <3>1
      <4>2. Plain(index') = Plain(index)'
        BY DEF Plain, PathsOf
      <4>3. Unmerged' = {}
        BY <3>4 DEF Unmerged, PathsOf
      <4>4. /\ DOMAIN Plain(index') = DOMAIN t
            /\ \A p \in DOMAIN t : Plain(index')[p].blob = t[p]
        <5>1. PathsOf(index') = DOMAIN t
          BY <3>4, <3>5 DEF PathsOf
        <5>2. \A p \in DOMAIN t : Plain(index')[p] \in index' /\ Plain(index')[p].path = p
          BY <3>4, <4>1, <5>1, PlainAll
        <5>3. DOMAIN Plain(index') = DOMAIN t
          BY <3>4, <4>1, <5>1, PlainAll
        <5> QED
          BY <3>4, <5>2, <5>3
      <4> QED
        BY <3>1, <4>2, <4>3, <4>4 DEF StagedChanges
    <3>7. \A e \in index' : ~ Matches(files', e) => e \in index /\ e.path \in same
      BY <2>1, <2>2, <3>2, <3>3 DEF Matches
    <3>8. LocalChanges' = PathsOf({e \in index' : e.stage = 0 /\ ~ e.skip /\ ~ Matches(files', e)})
      BY DEF LocalChanges, PathsOf, Matches
    <3>9. call.force => LocalChanges' = {}
      BY <1>2, <3>7, <3>8 DEF PathsOf
    <3>10. ~ call.force => LocalChanges' \subseteq LocalChanges
      <4> SUFFICES ASSUME NEW e \in index', e.stage = 0, ~ e.skip, ~ Matches(files', e)
                   PROVE  e.path \in LocalChanges
        BY <3>8 DEF PathsOf
      <4>1. e \in index /\ e.path \in same
        BY <3>7
      <4>2. e.path \notin DOMAIN put /\ e.path \notin gone
        BY <1>2, <2>1, <4>1 DEF gone
      <4>3. ~ Matches(files, e)
        BY <3>2, <4>2 DEF Matches
      <4> QED
        BY <4>1, <4>3 DEF LocalChanges, PathsOf
    <3>11. ASSUME ~ call.force, NEW p \in Untracked PROVE p \in Untracked'
      <4>1. p \in DOMAIN files /\ p \notin PathsOf(index) /\ ~ IsIgnored(p) /\ p \in Path
        BY <1>0 DEF Untracked, Patch
      <4>2. p \notin DOMAIN cur
        BY <1>1, <4>1
      <4>3. p \notin DOMAIN t
        BY <1>0, <2>4, <3>11, <4>1, <4>2, LookIs
      <4>4. p \in DOMAIN files'
        BY <3>2, <4>1, <4>2 DEF gone
      <4>5. p \notin PathsOf(index')
        BY <3>4, <4>3, PathsOfIs
      <4>6. Untracked' = {f \in DOMAIN files' : f \notin PathsOf(index') /\ ~ IsIgnored(f)}
        BY DEF Untracked, PathsOf, IsIgnored
      <4> QED
        BY <4>1, <4>4, <4>5, <4>6
    <3> QED
      BY <3>6, <3>9, <3>10, <3>11
  <2> QED
    BY <2>9, <2>10 DEF Shown
<1> QED
  BY <1>3, <1>4

LEMMA SwitchShown ==
  ASSUME TreeInv, UNCHANGED cones, NEW t \in Trees, NEW force \in BOOLEAN, Switch(t, force)
  PROVE  Shown
<1> DEFINE call == [op |-> "switch", force |-> force]
<1>1. call.force \in BOOLEAN /\ call.op = "switch" /\ CheckoutTree(call, t, t)
  BY DEF Switch
<1> HIDE DEF call
<1> QED
  BY <1>1, CheckoutShown

LEMMA ResetShown ==
  ASSUME TreeInv, UNCHANGED cones, NEW t \in Trees, NEW mode \in {"soft", "mixed", "hard"},
         Reset(t, mode)
  PROVE  Shown
<1> DEFINE call == [op |-> mode, force |-> TRUE]
<1>0. IndexOK(index) /\ cones' \in SUBSET Seq(Nat) /\ call.force = TRUE /\ call.op = mode
      /\ files \in Trees
  BY DEF TreeInv, IndexOK
<1>1. CASE mode = "soft" /\ Answer(call, "done", files, index, t)
  BY <1>0, <1>1, Unmoved
<1>2. CASE mode = "mixed" /\ Apply(call, {}, {}, <<>>, FromTree(t), t)
  <2>1. Patch(<<>>) /\ DOMAIN <<>> = {} /\ Obstacles({}, <<>>) = {}
    BY NothingPut
  <2>2. IndexOK(FromTree(t))
    BY FromPatch, TreesAre
  <2> HIDE DEF call
  <2>3. TreeInv' /\ Losses /\ Failures /\ Carries /\ Quiet
    BY <1>0, <1>2, <2>1, <2>2, Applied
  <2> QED
    BY <2>3 DEF Shown
<1>3. CASE mode = "hard" /\ CheckoutTree(call, t, t)
  <2>1. call.force \in BOOLEAN /\ call.op \in {"switch", "hard"} /\ CheckoutTree(call, t, t)
    BY <1>3
  <2> HIDE DEF call
  <2> QED
    BY <2>1, CheckoutShown
<1> QED
  BY <1>1, <1>2, <1>3, Zenon DEF Reset

-------------------------------------------------------------------------------
(* Restore. *)

LEMMA RestoreShown ==
  ASSUME TreeInv, UNCHANGED cones, NEW ps, NEW force \in BOOLEAN, NEW src, NEW target,
         src = index \/ \E t \in Trees : src = FromTree(t),
         RestorePaths([op |-> "restore", force |-> force], ps, src, target)
  PROVE  Shown
<1> DEFINE call     == [op |-> "restore", force |-> force]
           paths    == PathsOf(index) \cup PathsOf(src)
           selected == {q \in paths : \E p \in ps : Covers(p, q)}
           tracked  == PathsOf(index) \cap selected
           desired  == Only(Plain(src), selected)
           inTree   == target \in {"worktree", "both"}
           above    == UNION {Above(q) : q \in DOMAIN desired}
           swept    == {f \in DOMAIN files : \E q \in tracked \cup DOMAIN desired : Covers(q, f)}
           rest     == {e \in index : e.path \notin selected}
           chosen   == {desired[q] : q \in DOMAIN desired}
           next     == IF target = "worktree" THEN index ELSE rest \cup chosen
           gone     == swept \cup (IF force THEN above ELSE {})
           stuck    == Astray(files, tracked)
           put      == [q \in DOMAIN desired \ (IF force THEN above ELSE {}) |-> desired[q].blob]
<1>0. /\ files \in Trees /\ head \in Trees /\ IndexOK(index) /\ cones' \in SUBSET Seq(Nat)
      /\ Patch(files)
  BY TreesAre DEF TreeInv, IndexOK
<1>1. /\ IndexOK(src)
      /\ src # index => \A p, q \in PathsOf(src) : Covers(p, q) => p = q
  <2>1. CASE src = index
    BY <1>0, <2>1
  <2>2. CASE \E t \in Trees : src = FromTree(t)
    <3>1. PICK t \in Trees : src = FromTree(t)
      BY <2>2
    <3>2. Patch(t) /\ \A p, q \in DOMAIN t : Covers(p, q) => p = q
      BY TreesAre
    <3> QED
      BY <3>1, <3>2, FromPatch
  <2> QED
    BY <2>1, <2>2
<1>2. /\ DOMAIN desired = DOMAIN Plain(src) \cap selected
      /\ \A q \in DOMAIN desired : /\ desired[q] \in src /\ desired[q].path = q
                                   /\ desired[q].blob \in Blob /\ q \in Path /\ q \in PathsOf(src)
  <2>1. \A q \in DOMAIN Plain(src) : /\ Plain(src)[q] \in src /\ Plain(src)[q].path = q /\ q \in Path
                                     /\ Plain(src)[q].blob \in Blob /\ q \in PathsOf(src)
    BY <1>1, PlainIs DEF IndexOK
  <2> QED
    BY <2>1 DEF Only
<1>3. CASE Refuse(call)
  BY <1>3, Refused
<1>4. IndexOK(next)
  <2> HIDE DEF selected, desired
  <2>1. IndexOK(rest)
    BY <1>0, IndexPart
  <2>2. IndexOK(chosen)
    BY <1>1, <1>2, IndexPart
  <2>3. \A e \in rest, f \in chosen : e.path # f.path
    BY <1>2
  <2>4. IndexOK(rest \cup chosen)
    BY <2>1, <2>2, <2>3, IndexJoin
  <2> QED
    BY <1>0, <2>4
<1>5. CASE ~ inTree /\ Answer(call, "done", files, next, head)
  <2>1. call.op = "restore" /\ head \in Trees
    BY <1>0
  <2> HIDE DEF call, next
  <2> QED
    BY <1>4, <1>5, <2>1, Unmoved
<1>6. CASE /\ Apply(call, gone, stuck, put, next, head)
           /\ \A e \in src : e.path \in selected => e.stage = 0
           /\ ~ force => /\ (above \ selected) \cap DOMAIN files = {}
                         /\ \A q \in DOMAIN desired :
                                /\ Look(files, q) # "directory"
                                /\ q \in DOMAIN files => q \in PathsOf(index)
  <2>0. \A q \in DOMAIN desired : q \in paths
    BY <1>2
  <2>1. Patch(put) /\ DOMAIN put = DOMAIN desired \ (IF force THEN above ELSE {})
    <3> HIDE DEF desired, above
    <3> QED
      BY <1>2 DEF Patch
  <2>2. tracked \subseteq PathsOf(index)
    OBVIOUS
  <2>3. \A e \in src : e.path \in selected => e.path \in DOMAIN desired
    BY <1>1, <1>2, <1>6, PlainIs DEF IndexOK
  \* What goes lies at or below a tracked path.
  <2>4. ASSUME ~ force, NEW q \in DOMAIN desired, NEW f \in DOMAIN files, Covers(q, f)
        PROVE  q \in PathsOf(index) /\ q = f
    <3>1. q \in DOMAIN files
      BY <1>2, <1>6, <2>4, LookIs
    <3>2. q = f
      BY <1>0, <2>4, <3>1, TreesAre
    <3> QED
      BY <1>6, <2>4, <3>1, <3>2
  <2>5. ASSUME ~ force, NEW p \in DOMAIN files, p \in gone \cup DOMAIN put
        PROVE  MayLose(call, p)
    <3>1. p \in swept \/ p \in DOMAIN desired
      BY <2>1, <2>5
    <3>2. \E q \in PathsOf(index) : Covers(q, p)
      <4>1. p \in Seq(Nat)
        BY <1>0, PathsAre DEF Patch
      <4>2. CASE p \in DOMAIN desired
        BY <2>4, <2>5, <4>1, <4>2, CoversSelf
      <4>3. CASE p \in swept
        BY <2>2, <2>4, <2>5, <4>3
      <4> QED
        BY <3>1, <4>2, <4>3
    <3> QED
      BY <3>2 DEF MayLose
  <2>6. ASSUME NEW p \in stuck PROVE Tangled
    BY <2>2 DEF Astray, Tangled
  <2>7. ASSUME ~ force, NEW p \in Obstacles(gone, put) PROVE Tangled
    <3>1. p \in DOMAIN desired /\ p \in Path /\ p \in DOMAIN put
      BY <1>2, <2>1 DEF Obstacles, Astray
    <3>2. \A f \in DOMAIN files : Covers(p, f) => f \in gone
      BY <3>1
    <3>3. \A f \in DOMAIN files : f # p /\ Covers(f, p) => f \in gone
      <4> SUFFICES ASSUME NEW f \in DOMAIN files, f # p, Covers(f, p) PROVE f \in gone
        OBVIOUS
      <4>1. f \in Above(p)
        BY <1>0, <3>1, AbovePaths DEF Patch
      <4>2. f \in above
        BY <3>1, <4>1
      <4>3. f \in selected
        BY <1>6, <2>7, <4>2
      <4>4. f \in PathsOf(index) \/ f \in DOMAIN desired
        BY <2>3, <4>3, PathsOfIs
      <4>5. Covers(f, f)
        BY <1>0, PathsAre, CoversSelf DEF Patch
      <4> QED
        BY <4>3, <4>4, <4>5
    <3>4. PICK q \in DOMAIN put : q # p /\ Covers(q, p)
      <4> HIDE DEF gone, put
      <4>1. \/ \E q \in DOMAIN files \ gone : q # p /\ (Covers(q, p) \/ Covers(p, q))
            \/ \E q \in DOMAIN put : q # p /\ Covers(q, p)
        BY <1>0, <2>1, <2>7, <3>1, ObstaclesAre
      <4> QED
        BY <3>2, <3>3, <4>1
    <3>5. q \in PathsOf(src) /\ p \in PathsOf(src) /\ q \in Path
      BY <1>2, <2>1, <3>1
    <3>6. src = index
      BY <1>1, <3>4, <3>5
    <3>7. q \in Above(p)
      <4>1. Above(p) \cap Path = {r \in Path : r # p /\ Covers(r, p)}
        BY <3>1, AbovePaths
      <4> QED
        BY <3>4, <3>5, <4>1
    <3> QED
      BY <3>5, <3>6, <3>7 DEF Tangled
  <2>8. stuck # {} \/ Obstacles(gone, put) # {} => call.force \/ call.op = "clash" \/ Tangled
    BY <2>6, <2>7
  <2>9. ~ call.force \/ call.op = "clean" =>
            \A p \in DOMAIN files : p \in gone \cup DOMAIN put => MayLose(call, p)
    BY <2>5
  <2>10. call.op = "restore"
    OBVIOUS
  <2> HIDE DEF call, gone, stuck, put, next
  <2>11. TreeInv' /\ Losses /\ Failures /\ Carries /\ Quiet
    BY <1>0, <1>4, <1>6, <2>1, <2>8, <2>9, <2>10, Applied
  <2> QED
    BY <2>11 DEF Shown
<1>7. \/ Refuse(call)
      \/ ~ inTree /\ Answer(call, "done", files, next, head)
      \/ /\ Apply(call, gone, stuck, put, next, head)
         /\ \A e \in src : e.path \in selected => e.stage = 0
         /\ ~ force => /\ (above \ selected) \cap DOMAIN files = {}
                       /\ \A q \in DOMAIN desired :
                              /\ Look(files, q) # "directory"
                              /\ q \in DOMAIN files => q \in PathsOf(index)
  BY DEF RestorePaths
<1> QED
  BY <1>3, <1>5, <1>6, <1>7

-------------------------------------------------------------------------------
(* Merging trees. *)

LEMMA AtIs == ASSUME NEW t, NEW p, NEW b PROVE b \in At(t, p) <=> p \in DOMAIN t /\ b = t[p]
BY DEF At

LEMMA StagedOK ==
  ASSUME NEW p \in Path, NEW n \in 0 .. 3, NEW found \in SUBSET Blob
  PROVE  \A e \in Staged(p, n, found) : /\ e \in Entries /\ e.path = p /\ e.stage = n
                                        /\ e.blob \in found
                                        /\ e = [Entry(p, e.blob) EXCEPT !.stage = n]
<1> SUFFICES ASSUME NEW e \in Staged(p, n, found)
             PROVE  /\ e \in Entries /\ e.path = p /\ e.stage = n /\ e.blob \in found
                    /\ e = [Entry(p, e.blob) EXCEPT !.stage = n]
  OBVIOUS
<1>1. PICK b \in found : e = [Entry(p, b) EXCEPT !.stage = n]
  BY DEF Staged
<1>2. Entry(p, b) \in Entries /\ Entry(p, b).path = p /\ Entry(p, b).blob = b
  BY EntryIs
<1>3. ASSUME NEW f \in Entries
      PROVE  /\ [f EXCEPT !.stage = n] \in Entries /\ [f EXCEPT !.stage = n].path = f.path
             /\ [f EXCEPT !.stage = n].stage = n /\ [f EXCEPT !.stage = n].blob = f.blob
  BY DEF Entries
<1>4. e \in Entries /\ e.path = p /\ e.stage = n /\ e.blob = b
  BY <1>1, <1>2, <1>3
<1> QED
  BY <1>1, <1>4

LEMMA TwoWayOK ==
  ASSUME NEW old, NEW new, NEW cur, Patch(old), Patch(new), Patch(cur)
  PROVE  IndexOK(TwoWay(old, new, cur))
<1> DEFINE D == DOMAIN old \cup DOMAIN new \cup DOMAIN cur
           Next2(p) == IF \/ At(cur, p) = At(old, p)
                          \/ DOMAIN cur = {} /\ At(old, p) = At(new, p)
                       THEN At(new, p) ELSE At(cur, p)
           F(p) == Staged(p, 0, Next2(p))
<1>1. D \in SUBSET Path
  BY DEF Patch
<1>2. ASSUME NEW p \in D PROVE Next2(p) \in SUBSET Blob /\ \A b, c \in Next2(p) : b = c
  <2>1. \A b \in Next2(p) : b \in At(new, p) \/ b \in At(cur, p)
    OBVIOUS
  <2>2. Next2(p) = At(new, p) \/ Next2(p) = At(cur, p)
    OBVIOUS
  <2> HIDE DEF Next2
  <2> QED
    BY <2>1, <2>2, AtIs DEF Patch
<1> HIDE DEF Next2
<1>3. ASSUME NEW p \in D
      PROVE  /\ \A e \in F(p) : e \in Entries /\ e.path = p
             /\ \A e, f \in F(p) : e.stage = 0 /\ f.stage = 0 => e = f
  <2>1. \A e \in F(p) : /\ e \in Entries /\ e.path = p /\ e.blob \in Next2(p)
                        /\ e = [Entry(p, e.blob) EXCEPT !.stage = 0]
    BY <1>1, <1>2, StagedOK
  <2> QED
    BY <1>2, <2>1
<1>4. TwoWay(old, new, cur) = UNION {F(p) : p \in D}
  BY DEF TwoWay, Next2
<1> HIDE DEF F, D
<1>5. UNION {F(p) : p \in D} \subseteq Entries /\ Single(UNION {F(p) : p \in D})
  BY <1>3 DEF Single
<1> QED
  BY <1>4, <1>5 DEF IndexOK

LEMMA ThreeWayOK ==
  ASSUME NEW base, NEW ours, NEW theirs, Patch(base), Patch(ours), Patch(theirs), NEW aggressive
  PROVE  IndexOK(ThreeWay(base, ours, theirs, aggressive))
<1> DEFINE D == DOMAIN base \cup DOMAIN ours \cup DOMAIN theirs
           F(p) == ThreeWayAt(p, At(base, p), At(ours, p), At(theirs, p), aggressive)
<1>1. D \in SUBSET Path
  BY DEF Patch
<1>2. ASSUME NEW p \in D, NEW t \in {base, ours, theirs}
      PROVE  At(t, p) \in SUBSET Blob /\ \A b, c \in At(t, p) : b = c
  BY AtIs DEF Patch
<1>3. ASSUME NEW p \in D
      PROVE  /\ \A e \in F(p) : e \in Entries /\ e.path = p
             /\ \A e, f \in F(p) : e.stage = 0 /\ f.stage = 0 => e = f
  <2> DEFINE b == At(base, p)
             o == At(ours, p)
             t == At(theirs, p)
  <2>1. p \in Path /\ b \in SUBSET Blob /\ o \in SUBSET Blob /\ t \in SUBSET Blob
    BY <1>1, <1>2
  <2>2. (\A c, d \in o : c = d) /\ (\A c, d \in t : c = d)
    BY <1>2
  <2> HIDE DEF b, o, t
  <2>3. CASE F(p) = Staged(p, 0, IF o = b THEN t ELSE o)
    <3> DEFINE x == IF o = b THEN t ELSE o
    <3>1. x \in SUBSET Blob /\ \A c, d \in x : c = d
      BY <2>1, <2>2
    <3>2. F(p) = Staged(p, 0, x)
      BY <2>3
    <3> HIDE DEF x, F
    <3>3. \A e \in F(p) : /\ e \in Entries /\ e.path = p /\ e.blob \in x
                          /\ e = [Entry(p, e.blob) EXCEPT !.stage = 0]
      BY <2>1, <3>1, <3>2, StagedOK
    <3> QED
      BY <3>1, <3>3
  <2>4. CASE F(p) = Staged(p, 1, b) \cup Staged(p, 2, o) \cup Staged(p, 3, t)
    <3>1. /\ \A e \in Staged(p, 1, b) : e \in Entries /\ e.path = p /\ e.stage = 1
          /\ \A e \in Staged(p, 2, o) : e \in Entries /\ e.path = p /\ e.stage = 2
          /\ \A e \in Staged(p, 3, t) : e \in Entries /\ e.path = p /\ e.stage = 3
      BY <2>1, StagedOK
    <3> HIDE DEF F
    <3>2. \A e \in F(p) : e \in Entries /\ e.path = p /\ e.stage # 0
      BY <2>4, <3>1
    <3> QED
      BY <3>2
  <2> QED
    BY <2>3, <2>4 DEF ThreeWayAt, b, o, t
<1>4. ThreeWay(base, ours, theirs, aggressive) = UNION {F(p) : p \in D}
  BY DEF ThreeWay
<1> HIDE DEF F, D
<1>5. UNION {F(p) : p \in D} \subseteq Entries /\ Single(UNION {F(p) : p \in D})
  BY <1>3 DEF Single
<1> QED
  BY <1>4, <1>5 DEF IndexOK

LEMMA FollowShown ==
  ASSUME TreeInv, UNCHANGED cones, NEW force \in BOOLEAN, NEW next, IndexOK(next),
         NEW update, Follow([op |-> "read-tree", force |-> force], next, update)
  PROVE  Shown
<1> DEFINE clash    == \E e, f \in next : e.path # f.path /\ Covers(e.path, f.path)
           call     == [op |-> IF clash THEN "clash" ELSE "read-tree", force |-> force]
           zero     == {e \in next : e.stage = 0}
           cur      == Plain(index)
           new      == Plain(zero)
           changing == {p \in DOMAIN new : p \in DOMAIN cur => cur[p].blob # new[p].blob}
           removals == DOMAIN cur \ PathsOf(next)
           touched  == changing \cup removals
           over     == (UNION {Above(p) : p \in changing}) \ removals
           swept    == {f \in DOMAIN files : \E p \in touched : f # p /\ Covers(p, f)}
           gone     == removals \cup over \cup swept
           stuck    == Astray(files, removals)
           put      == [p \in changing |-> new[p].blob]
           passed   ==
               /\ \A p \in touched \cap DOMAIN cur :
                      Look(files, p) = "nothing" \/ Matches(files, cur[p])
               /\ \A p \in changing \ DOMAIN cur : Look(files, p) = "nothing"
               /\ over \cap DOMAIN files = {}
<1>0. /\ files \in Trees /\ head \in Trees /\ IndexOK(index) /\ cones' \in SUBSET Seq(Nat)
      /\ Patch(files)
  BY TreesAre DEF TreeInv, IndexOK
<1>1. [[op |-> "read-tree", force |-> force] EXCEPT !.op = IF clash THEN "clash" ELSE @] = call
  OBVIOUS
<1>2. /\ \/ Answer(call, "done", files, next, head)
         \/ Refuse(call)
         \/ Apply(call, gone, stuck, put, next, head) /\ (~ force => passed)
  BY <1>1, Zenon DEF Follow
<1>3. CASE Refuse(call)
  BY <1>3, Refused
<1>4. /\ call.op \in {"clash", "read-tree"} /\ call.force = force
      /\ ~ clash => call.op = "read-tree"
      /\ clash => call.op = "clash"
  OBVIOUS
<1>5. CASE Answer(call, "done", files, next, head)
  <2> HIDE DEF call
  <2> QED
    BY <1>0, <1>4, <1>5, Unmoved
<1>6. CASE Apply(call, gone, stuck, put, next, head) /\ (~ force => passed)
  <2> HIDE DEF call
  <2>1. \A p \in DOMAIN cur : /\ cur[p] \in index /\ cur[p].path = p /\ p \in Path
                             /\ p \in PathsOf(index)
    BY <1>0, PlainIs DEF IndexOK
  <2>2. \A p \in DOMAIN new : /\ new[p] \in next /\ new[p].path = p /\ p \in Path
                             /\ new[p].blob \in Blob
    <3>1. zero \in SUBSET Entries
      BY DEF IndexOK
    <3>2. \A p \in DOMAIN new : /\ new[p] \in zero /\ new[p].path = p /\ p \in Path
                               /\ new[p].blob \in Blob
      BY <3>1, PlainIs
    <3> QED
      BY <3>2
  <2> HIDE DEF cur, new
  <2>3. Patch(put) /\ DOMAIN put = changing /\ changing \subseteq DOMAIN new
    BY <2>2 DEF Patch
  <2>4. \A p \in DOMAIN files : Look(files, p) = "file" /\ p \in Path /\ p \in Seq(Nat)
    BY <1>0, LookIs, PathsAre DEF Patch
  <2>5. touched \subseteq Path
    BY <2>1, <2>2
  \* What a call that has passed its checks takes away.
  <2>6. ASSUME ~ force, NEW p \in DOMAIN files, p \in touched PROVE Recorded(p)
    <3>1. p \in DOMAIN cur /\ Matches(files, cur[p])
      BY <1>6, <2>4, <2>6
    <3> QED
      BY <2>1, <3>1 DEF Recorded, Matches
  <2>7. ASSUME ~ force, NEW q \in touched, NEW f \in DOMAIN files, f # q PROVE ~ Covers(q, f)
    <3> SUFFICES ASSUME Covers(q, f) PROVE FALSE
      OBVIOUS
    <3>1. q \notin DOMAIN files /\ Look(files, q) = "directory"
      BY <1>0, <2>5, <2>7, LookIs, TreesAre
    <3>2. q \in DOMAIN cur => ~ Matches(files, cur[q])
      BY <2>1, <3>1 DEF Matches
    <3> QED
      BY <1>6, <2>7, <3>1, <3>2
  <2>8. ASSUME ~ force, NEW p \in DOMAIN files, p \in gone \cup DOMAIN put
        PROVE  MayLose(call, p)
    <3>1. p \in touched
      <4>1. p \notin over /\ p \notin swept
        BY <1>6, <2>7, <2>8
      <4> QED
        BY <2>3, <2>8, <4>1
    <3>2. Recorded(p)
      BY <2>6, <2>8, <3>1
    <3> QED
      BY <1>4, <3>2 DEF MayLose
  <2>9. ASSUME NEW p \in stuck PROVE Tangled
    <3>1. p \in DOMAIN cur /\ Above(p) \cap DOMAIN files # {}
      BY DEF Astray
    <3> QED
      BY <2>1, <3>1 DEF Tangled
  \* Nothing is in the way of what is written, unless the entries clash.
  <2>10. ASSUME ~ clash, NEW p \in changing PROVE p \notin Obstacles(gone, put)
    <3>1. p \in Path /\ p \in DOMAIN put /\ p \in touched
      BY <2>2, <2>3
    <3>2. \A q \in DOMAIN files : q # p /\ Covers(q, p) => q \in gone
      <4> SUFFICES ASSUME NEW q \in DOMAIN files, q # p, Covers(q, p) PROVE q \in gone
        OBVIOUS
      <4>1. q \in Above(p)
        BY <1>0, <3>1, AbovePaths DEF Patch
      <4> QED
        BY <4>1
    <3>3. \A q \in DOMAIN files : q # p /\ Covers(p, q) => q \in gone
      BY <3>1
    <3>4. \A q \in DOMAIN put : q # p => ~ Covers(q, p)
      BY <2>2, <2>3, <2>10
    <3> HIDE DEF gone, put
    <3>5. p \in Obstacles(gone, put) =>
              \/ \E q \in DOMAIN files \ gone : q # p /\ (Covers(q, p) \/ Covers(p, q))
              \/ \E q \in DOMAIN put : q # p /\ Covers(q, p)
      BY <1>0, <2>3, <3>1, ObstaclesAre
    <3> QED
      BY <3>2, <3>3, <3>4, <3>5
  <2>11. stuck # {} \/ Obstacles(gone, put) # {} => call.force \/ call.op = "clash" \/ Tangled
    <3>1. \A p \in Obstacles(gone, put) : p \in changing
      BY <2>3 DEF Obstacles, Astray
    <3> QED
      BY <1>4, <2>9, <2>10, <3>1
  <2>12. ~ call.force \/ call.op = "clean" =>
            \A p \in DOMAIN files : p \in gone \cup DOMAIN put => MayLose(call, p)
    BY <1>4, <2>8
  <2> HIDE DEF gone, stuck, put
  <2>13. TreeInv' /\ Losses /\ Failures /\ Carries /\ Quiet
    BY <1>0, <1>4, <1>6, <2>3, <2>11, <2>12, Applied
  <2> QED
    BY <2>13 DEF Shown
<1> QED
  BY <1>2, <1>3, <1>5, <1>6

LEMMA ShiftedOK ==
  ASSUME NEW t \in Trees, DOMAIN Shifted(t, << 2 >>) \subseteq Path
  PROVE  Patch(Shifted(t, <<2>>))
<1> DEFINE s == Shifted(t, <<2>>)
<1>1. s = [q \in {<<2>> \o p : p \in DOMAIN t} |-> t[SubSeq(q, Len(<<2>>) + 1, Len(q))]]
  BY DEF Shifted
<1>2. ASSUME NEW p \in DOMAIN t PROVE SubSeq(<<2>> \o p, Len(<<2>>) + 1, Len(<<2>> \o p)) = p
  <2>1. p \in Seq(Nat)
    BY TreesAre, PathsAre DEF Patch
  <2> QED
    BY <2>1
<1>3. ASSUME NEW q \in DOMAIN s PROVE s[q] \in Blob
  <2>1. PICK p \in DOMAIN t : q = <<2>> \o p
    BY <1>1
  <2>2. s[q] = t[p]
    BY <1>1, <1>2, <2>1, ZenonT(60)
  <2> QED
    BY <2>2, TreesAre DEF Patch
<1>4. s = [q \in DOMAIN s |-> s[q]]
  BY <1>1
<1> QED
  BY <1>3, <1>4 DEF Patch

Merged(trees) == ThreeWay(trees[1], trees[2], trees[3], FALSE)

Bound(trees) == FromTree(Shifted(trees[1], <<2>>))

LEMMA MergedOK ==
  ASSUME NEW trees, Patch(trees[1]), Patch(trees[2]), Patch(trees[3])
  PROVE  IndexOK(Merged(trees))
BY ThreeWayOK DEF Merged

Present == [p \in DOMAIN Plain(index) |-> Plain(index)[p].blob]

ReadingOf(mode) == [op |-> "read-tree", force |-> mode = "reset"]

\* The ways a call of read-tree may go.
ReadingWays(trees, mode, update) ==
    \/ Refuse(ReadingOf(mode))
    \/ /\ mode = "prefix" /\ \A e \in index, f \in Bound(trees) : ~ Collide(e.path, f.path)
       /\ Follow(ReadingOf(mode), index \cup Bound(trees), update)
    \/ Answer(ReadingOf(mode), "done", files, {}, head)
    \/ Len(trees) = 1 /\ Follow(ReadingOf(mode), FromTree(trees[1]), update)
    \/ Len(trees) = 2 /\ Follow(ReadingOf(mode), FromTree(trees[2]), update)
    \/ Len(trees) = 2 /\ Follow(ReadingOf(mode), TwoWay(trees[1], trees[2], Present), update)
    \/ Len(trees) = 3 /\ Follow(ReadingOf(mode), Merged(trees), update)

LEMMA ReadWays ==
  ASSUME NEW trees, NEW mode, NEW update, trees = <<>> \/ Len(trees) \in 1 .. 3,
         Len(trees) = 2 => mode \in {"reset", "merge"}, ReadTree(trees, mode, update)
  PROVE  ReadingWays(trees, mode, update)
<1> USE DEF ReadingWays
<1>0. trees = <<>> => Len(trees) = 0
  BY EmptySeq
<1>1. CASE mode \in {"merge", "prefix"} /\ \E e \in index : e.stage # 0
  BY <1>1 DEF ReadTree, ReadingOf
<1>2. CASE ~ (mode \in {"merge", "prefix"} /\ \E e \in index : e.stage # 0) /\ mode = "prefix"
  BY <1>2 DEF ReadTree, ReadingOf, Bound
<1>3. CASE ~ (mode \in {"merge", "prefix"} /\ \E e \in index : e.stage # 0) /\ mode # "prefix"
  <2>1. CASE trees = <<>>
    BY <1>0, <1>3, <2>1 DEF ReadTree, ReadingOf
  <2>2. CASE Len(trees) = 1
    BY <1>0, <1>3, <2>2 DEF ReadTree, ReadingOf
  <2>3. CASE Len(trees) = 2
    <3>1. CASE mode = "reset"
      BY <1>0, <1>3, <2>3, <3>1 DEF ReadTree, ReadingOf, Present
    <3>2. CASE mode = "merge"
      BY <1>0, <1>3, <2>3, <3>2 DEF ReadTree, ReadingOf, Present
    <3> QED
      BY <2>3, <3>1, <3>2
  <2>4. CASE Len(trees) = 3
    <3>1. trees # <<>> /\ Len(trees) # 1 /\ Len(trees) # 2
      BY <1>0, <2>4
    <3> QED
      BY <1>3, <2>4, <3>1 DEF ReadTree, ReadingOf, Merged
  <2> QED
    BY <2>1, <2>2, <2>3, <2>4
<1> QED
  BY <1>1, <1>2, <1>3

LEMMA ReadShown == ASSUME TreeInv, UNCHANGED cones, ReadCall PROVE Shown
<1>1. PICK trees \in {<<>>} \cup {<<t>> : t \in Trees} \cup {<<t, u>> : t, u \in Trees}
                   \cup {<<t, u, v>> : t, u, v \in Trees},
            mode \in {"reset", "merge", "prefix", "plain"}, update \in BOOLEAN :
        /\ mode = "prefix" => /\ Len(trees) = 1
                              /\ DOMAIN Shifted(trees[1], <<2>>) \subseteq Path
        /\ Len(trees) = 2 => mode \in {"reset", "merge"}
        /\ ReadTree(trees, mode, update)
  BY DEF ReadCall
<1>0. IndexOK(index) /\ head \in Trees
  BY DEF TreeInv, IndexOK
<1>2. /\ \A i \in 1 .. Len(trees) : Patch(trees[i]) /\ trees[i] \in Trees
      /\ trees = <<>> \/ Len(trees) \in 1 .. 3
  BY TreesAre
<1>3. ReadingWays(trees, mode, update)
  BY <1>1, <1>2, ReadWays
<1> DEFINE force == mode = "reset"
<1>4. ReadingOf(mode) = [op |-> "read-tree", force |-> force] /\ force \in BOOLEAN /\ ReadingOf(mode).op = "read-tree"
  BY DEF ReadingOf
<1> HIDE DEF force
<1>5. CASE Refuse(ReadingOf(mode))
  BY <1>5, Refused
<1>6. CASE /\ mode = "prefix" /\ \A e \in index, f \in Bound(trees) : ~ Collide(e.path, f.path)
           /\ Follow(ReadingOf(mode), index \cup Bound(trees), update)
  <2>1. Patch(Shifted(trees[1], <<2>>))
    BY <1>1, <1>2, <1>6, ShiftedOK
  <2>2. IndexOK(Bound(trees))
    BY <2>1, FromPatch DEF Bound
  <2>3. ASSUME NEW e \in index, NEW f \in Bound(trees) PROVE e.path # f.path
    <3>1. f.path \in Seq(Nat)
      BY <2>2, PathsAre DEF IndexOK, Entries
    <3> QED
      BY <1>6, <3>1, CoversSelf DEF Collide
  <2>4. IndexOK(index \cup Bound(trees))
    BY <1>0, <2>2, <2>3, IndexJoin
  <2> QED
    BY <1>4, <1>6, <2>4, FollowShown
<1>7. CASE Answer(ReadingOf(mode), "done", files, {}, head)
  <2>1. IndexOK({})
    BY DEF IndexOK, Single
  <2> QED
    BY <1>0, <1>4, <1>7, <2>1, Unmoved
<1>8. CASE Len(trees) = 1 /\ Follow(ReadingOf(mode), FromTree(trees[1]), update)
  <2>1. IndexOK(FromTree(trees[1]))
    BY <1>2, <1>8, FromPatch
  <2> QED
    BY <1>4, <1>8, <2>1, FollowShown
<1>9. CASE Len(trees) = 2 /\ Follow(ReadingOf(mode), FromTree(trees[2]), update)
  <2>1. IndexOK(FromTree(trees[2]))
    BY <1>2, <1>9, FromPatch
  <2> QED
    BY <1>4, <1>9, <2>1, FollowShown
<1>10. CASE Len(trees) = 2 /\ Follow(ReadingOf(mode), TwoWay(trees[1], trees[2], Present), update)
  <2>1. Patch(Present)
    BY <1>0, PlainIs DEF IndexOK, Patch, Present
  <2>2. IndexOK(TwoWay(trees[1], trees[2], Present))
    BY <1>2, <1>10, <2>1, TwoWayOK
  <2> QED
    BY <1>4, <1>10, <2>2, FollowShown
<1>11. CASE Len(trees) = 3 /\ Follow(ReadingOf(mode), Merged(trees), update)
  <2>1. Patch(trees[1]) /\ Patch(trees[2]) /\ Patch(trees[3])
    BY <1>2, <1>11
  <2>2. IndexOK(Merged(trees))
    BY <2>1, MergedOK
  <2> QED
    BY <1>4, <1>11, <2>2, FollowShown
<1> QED
  BY <1>3, <1>5, <1>6, <1>7, <1>8, <1>9, <1>10, <1>11 DEF ReadingWays

-------------------------------------------------------------------------------
(* Moves. *)

\* The name of p when what is at "from" is moved to "to".
Renamed(from, to, p) == to \o SubSeq(p, Len(from) + 1, Len(p))

LEMMA RenamedIs ==
  ASSUME NEW from \in Seq(Nat), NEW to \in Seq(Nat), NEW p \in Seq(Nat), Covers(from, p)
  PROVE  /\ Renamed(from, to, p) \in Seq(Nat)
         /\ Len(from) <= Len(p)
         /\ Len(Renamed(from, to, p)) = Len(to) + (Len(p) - Len(from))
         /\ \A i \in 1 .. Len(to) : Renamed(from, to, p)[i] = to[i]
         /\ \A i \in 1 .. Len(p) - Len(from) :
                Renamed(from, to, p)[Len(to) + i] = p[Len(from) + i]
         /\ Covers(to, Renamed(from, to, p))
<1> DEFINE s == SubSeq(p, Len(from) + 1, Len(p))
           r == Renamed(from, to, p)
<1>1. Len(from) <= Len(p) /\ Len(from) \in Nat /\ Len(p) \in Nat /\ Len(to) \in Nat
  BY CoversIs
<1>2. /\ s \in Seq(Nat)
      /\ Len(s) = IF Len(from) + 1 <= Len(p) THEN Len(p) - (Len(from) + 1) + 1 ELSE 0
      /\ \A i \in 1 .. Len(p) - (Len(from) + 1) + 1 : s[i] = p[Len(from) + 1 + i - 1]
  <2>1. \A i \in Len(from) + 1 .. Len(p) : p[i] \in Nat
    BY <1>1
  <2>2. Len(from) + 1 \in Int /\ Len(p) \in Int
    BY <1>1
  <2> QED
    BY <2>1, <2>2, SubSeqProperties
<1> HIDE DEF s
<1>3. Len(s) = Len(p) - Len(from) /\ \A i \in 1 .. Len(p) - Len(from) : s[i] = p[Len(from) + i]
  BY <1>1, <1>2
<1>4. r = to \o s
  BY DEF Renamed, s
<1>5. /\ r \in Seq(Nat) /\ Len(r) = Len(to) + Len(s)
      /\ \A i \in 1 .. Len(to) : r[i] = to[i]
      /\ \A i \in 1 .. Len(s) : r[Len(to) + i] = s[i]
  <2>1. /\ to \o s \in Seq(Nat) /\ Len(to \o s) = Len(to) + Len(s)
        /\ \A i \in 1 .. Len(to) + Len(s) :
               (to \o s)[i] = IF i <= Len(to) THEN to[i] ELSE s[i - Len(to)]
    BY <1>2, ConcatProperties
  <2>2. Len(s) \in Nat
    BY <1>2
  <2>3. ASSUME NEW i \in 1 .. Len(to) PROVE (to \o s)[i] = to[i]
    BY <1>1, <2>1, <2>2
  <2>4. ASSUME NEW i \in 1 .. Len(s) PROVE (to \o s)[Len(to) + i] = s[i]
    <3>1. /\ Len(to) + i \in 1 .. Len(to) + Len(s) /\ ~ (Len(to) + i <= Len(to))
          /\ Len(to) + i - Len(to) = i
      BY <1>1, <2>2
    <3> QED
      BY <2>1, <3>1
  <2> QED
    BY <1>4, <2>1, <2>3, <2>4
<1> HIDE DEF r
<1>6. Covers(to, r)
  <2>1. Len(to) <= Len(r) /\ \A i \in 1 .. Len(to) : to[i] = r[i]
    BY <1>1, <1>3, <1>5
  <2> QED
    BY <1>5, <2>1, CoversIs
<1> QED
  BY <1>1, <1>3, <1>5, <1>6 DEF r

\* Names move along without meeting each other.
LEMMA RenamedCovers ==
  ASSUME NEW from \in Seq(Nat), NEW to \in Seq(Nat), NEW p \in Seq(Nat), NEW q \in Seq(Nat),
         Covers(from, p), Covers(from, q), Covers(Renamed(from, to, p), Renamed(from, to, q))
  PROVE  Covers(p, q)
<1> DEFINE r == Renamed(from, to, p)
           s == Renamed(from, to, q)
           n == Len(from)
<1>1. /\ r \in Seq(Nat) /\ n <= Len(p) /\ Len(r) = Len(to) + (Len(p) - n)
      /\ \A i \in 1 .. Len(p) - n : r[Len(to) + i] = p[n + i]
  BY RenamedIs, ZenonT(60)
<1>2. /\ s \in Seq(Nat) /\ n <= Len(q) /\ Len(s) = Len(to) + (Len(q) - n)
      /\ \A i \in 1 .. Len(q) - n : s[Len(to) + i] = q[n + i]
  BY RenamedIs, ZenonT(60)
<1>3. Covers(r, s)
  OBVIOUS
<1> HIDE DEF r, s
<1>4. Len(r) <= Len(s) /\ \A i \in 1 .. Len(r) : r[i] = s[i]
  BY <1>1, <1>2, <1>3, CoversIs
<1>5. Len(p) <= Len(q) /\ n \in Nat /\ Len(p) \in Nat /\ Len(q) \in Nat /\ Len(to) \in Nat
  BY <1>1, <1>2, <1>4
<1>6. /\ \A i \in 1 .. n : from[i] = p[i]
      /\ \A i \in 1 .. n : from[i] = q[i]
  BY CoversIs
<1>7. ASSUME NEW i \in 1 .. Len(p) PROVE p[i] = q[i]
  <2>1. CASE i \in 1 .. n
    BY <1>6, <2>1
  <2>2. CASE i > n
    <3> DEFINE k == i - n
    <3>1. k \in 1 .. Len(p) - n /\ k \in 1 .. Len(q) - n /\ n + k = i
          /\ Len(to) + k \in 1 .. Len(r)
      BY <1>1, <1>5, <2>2, SMTT(40)
    <3>2. p[i] = r[Len(to) + k] /\ q[i] = s[Len(to) + k]
      BY <1>1, <1>2, <3>1
    <3> QED
      BY <1>4, <3>1, <3>2
  <2> QED
    BY <1>5, <2>1, <2>2
<1> QED
  BY <1>5, <1>7, CoversIs

LEMMA RenamedOnce ==
  ASSUME NEW from \in Seq(Nat), NEW to \in Seq(Nat), NEW p \in Seq(Nat), NEW q \in Seq(Nat),
         Covers(from, p), Covers(from, q), Renamed(from, to, p) = Renamed(from, to, q)
  PROVE  p = q
<1>1. Covers(Renamed(from, to, p), Renamed(from, to, q))
      /\ Covers(Renamed(from, to, q), Renamed(from, to, p))
  BY RenamedIs, CoversSelf
<1>2. Covers(p, q) /\ Covers(q, p)
  BY <1>1, RenamedCovers
<1> QED
  BY <1>2, CoversBoth

LEMMA MoveShown ==
  ASSUME TreeInv, UNCHANGED cones, NEW from \in Path, NEW to \in Path, NEW force \in BOOLEAN,
         MovePath(from, to, force)
  PROVE  Shown
<1> DEFINE call     == [op |-> "move", force |-> force]
           New(p)   == Renamed(from, to, p)
           selected == Under(index, from)
           others   == index \ selected
           isDir    == Look(files, from) = "directory"
           there    == Look(files, to)
           parent   == SubSeq(to, 1, Len(to) - 1)
           over     == {e \in others : ~isDir /\ force /\ e.path = to}
           carried  == {f \in DOMAIN files : Covers(from, f)}
           Laid(fs)  == [q \in {New(f) : f \in fs} |-> files[CHOOSE f \in fs : New(f) = q]]
           renamed  == {[e EXCEPT !.path = New(e.path)] : e \in selected}
           ix       == (others \ over) \cup renamed
<1>0. /\ files \in Trees /\ head \in Trees /\ IndexOK(index) /\ cones' \in SUBSET Seq(Nat)
      /\ Patch(files) /\ from \in Seq(Nat) /\ to \in Seq(Nat)
  BY TreesAre, PathsAre DEF TreeInv, IndexOK
<1>1. CASE Refuse(call)
  BY <1>1, Refused
<1>2. CASE ~ Refuse(call)
  <2>0. /\ {New(f) : f \in carried \cup PathsOf(selected)} \subseteq Path
        /\ \/ Answer(call, "done", Over(Laid(carried), Without(files, carried)), ix, head)
           \/ \E some \in SUBSET carried :
                  Answer(call, "stopped", Over(Laid(some), Without(files, some)), index, head)
        /\ ~ (there = "error" \/ (isDir /\ there # "nothing"))
        /\ ~ (~isDir /\ (there = "directory" \/ (there = "file" /\ ~force)))
        /\ Look(files, parent) = "directory"
        /\ ~ \E e \in others \ over, f \in selected : Collide(e.path, New(f.path))
        /\ Look(files, from) \notin {"nothing", "error"}
    BY <1>2, Zenon DEF MovePath, Renamed
  <2>1. \A p \in DOMAIN files : p \in Path /\ p \in Seq(Nat) /\ p # <<>>
    BY <1>0, PathsAre DEF Patch
  \* Only the file that the call replaces lies at "to" or below it, and none above it.
  <2>2. ASSUME NEW g \in DOMAIN files, Covers(to, g) PROVE g = to /\ ~ isDir /\ force
    <3>1. there # "nothing"
      BY <2>2, LookIs
    <3>2. there = "file" /\ ~ isDir /\ force
      BY <2>0, <3>1, LookIs
    <3>3. to \in DOMAIN files
      BY <3>2, LookIs
    <3> QED
      BY <1>0, <2>2, <3>2, <3>3, TreesAre
  <2>3. ASSUME NEW g \in DOMAIN files, Covers(g, to), g # to PROVE FALSE
    <3>1. to # <<>> /\ Len(to) \in Nat /\ Len(to) > 0
      BY PathsAre
    <3>2. parent \in Seq(Nat) /\ Len(parent) = Len(to) - 1 /\ Covers(parent, to)
      <4>1. Len(to) - 1 \in Nat /\ Len(to) - 1 <= Len(to)
        BY <3>1
      <4> QED
        BY <1>0, <4>1, PrefixIs
    <3>3. Len(g) <= Len(parent)
      BY <1>0, <2>1, <2>3, <3>1, <3>2, CoversIs, CoversSame
    <3> HIDE DEF parent
    <3>4. Covers(g, parent)
      <4>1. Covers(g, parent) \/ Covers(parent, g)
        BY <1>0, <2>1, <2>3, <3>2, CoversChain
      <4>2. Covers(parent, g) => parent = g
        BY <2>1, <3>2, <3>3, CoversSame
      <4> QED
        BY <2>1, <4>1, <4>2, CoversSelf
    <3>5. parent \notin DOMAIN files /\ (parent = <<>> \/ \E q \in DOMAIN files : Covers(parent, q))
      BY <2>0 DEF Look
    <3>6. CASE parent = <<>>
      <4>1. Len(parent) = 0
        BY <3>6, EmptySeq
      <4>2. Len(g) > 0
        BY <1>0, PathsAre DEF Patch
      <4> QED
        BY <3>3, <4>1, <4>2
    <3>7. CASE \E q \in DOMAIN files : Covers(parent, q)
      <4>1. PICK q \in DOMAIN files : Covers(parent, q)
        BY <3>7
      <4>2. Covers(g, q)
        BY <2>1, <3>2, <3>4, <4>1, CoversTrans
      <4>3. g = q
        BY <1>0, <4>2, TreesAre
      <4>4. parent = g
        BY <2>1, <3>2, <3>4, <4>1, <4>3, CoversBoth
      <4> QED
        BY <3>5, <4>4
    <3> QED
      BY <3>5, <3>6, <3>7
  <2>4. ASSUME NEW f \in carried
        PROVE  New(f) \in Path /\ New(f) \in Seq(Nat) /\ Covers(to, New(f)) /\ f \in Seq(Nat)
    <3>1. f \in Seq(Nat) /\ Covers(from, f)
      BY <2>1
    <3> QED
      BY <1>0, <2>0, <3>1, RenamedIs
  <2>5. \A f, g \in carried : Covers(New(f), New(g)) => f = g
    <3>1. \A f, g \in carried : Covers(New(f), New(g)) => Covers(f, g)
      BY <1>0, <2>4, RenamedCovers
    <3> QED
      BY <1>0, <3>1, TreesAre
  <2> HIDE DEF New
  <2>6. ASSUME NEW some \in SUBSET carried
        PROVE  /\ Over(Laid(some), Without(files, some)) \in Trees
               /\ DOMAIN Laid(some) = {New(f) : f \in some}
               /\ \A f \in some : Laid(some)[New(f)] = files[f]
    <3>1. \A f, g \in some : New(f) = New(g) => f = g
      BY <2>4, <2>5, CoversSelf
    <3>2. DOMAIN Laid(some) = {New(f) : f \in some}
      OBVIOUS
    <3>3. ASSUME NEW f \in some PROVE Laid(some)[New(f)] = files[f]
      <4>1. (CHOOSE g \in some : New(g) = New(f)) = f
        BY <3>1
      <4> QED
        BY <4>1
    <3>4. Laid(some) = [q \in DOMAIN Laid(some) |-> Laid(some)[q]]
      OBVIOUS
    <3> HIDE DEF Laid
    <3>5. Patch(Laid(some))
      <4>1. \A q \in DOMAIN Laid(some) : q \in Path /\ Laid(some)[q] \in Blob
        BY <1>0, <2>4, <3>2, <3>3 DEF Patch
      <4> QED
        BY <3>4, <4>1 DEF Patch
    <3>6. \A p, q \in DOMAIN Laid(some) : Covers(p, q) => p = q
      BY <2>5, <3>2
    <3>7. ASSUME NEW f \in some, NEW q \in DOMAIN files, Covers(New(f), q) \/ Covers(q, New(f))
          PROVE  New(f) = q
      <4>1. Covers(to, q) \/ Covers(q, to)
        BY <1>0, <2>1, <2>4, <3>7, CoversTrans, CoversChain
      <4>2. q = to
        BY <2>2, <2>3, <4>1
      <4>3. ~ isDir
        BY <1>0, <2>2, <4>2, CoversSelf
      <4>4. from \in DOMAIN files
        BY <2>0, <4>3, LookIs
      <4>5. f = from
        BY <1>0, <4>4, TreesAre
      <4>6. Len(New(f)) = Len(to)
        <5>1. Covers(from, from)
          BY <1>0, CoversSelf
        <5>2. Len(Renamed(from, to, from)) = Len(to) + (Len(from) - Len(from))
          BY <1>0, <5>1, RenamedIs
        <5> QED
          BY <1>0, <4>5, <5>2 DEF New
      <4> QED
        BY <1>0, <2>4, <4>2, <4>6, CoversSame
    <3>8. /\ Without(files, some) \in Trees
          /\ DOMAIN Without(files, some) \subseteq DOMAIN files
      BY <1>0, WithoutTree
    <3>9. \A p \in DOMAIN Laid(some) : \A q \in DOMAIN Without(files, some) :
              Covers(p, q) \/ Covers(q, p) => p = q
      BY <3>2, <3>7, <3>8
    <3> QED
      BY <3>2, <3>3, <3>5, <3>6, <3>8, <3>9, OverTree
  <2>7. IndexOK(ix)
    <3>1. ASSUME NEW e \in selected
          PROVE  /\ e \in Entries /\ e.path \in Seq(Nat) /\ Covers(from, e.path)
                 /\ New(e.path) \in Path
      <4>1. e \in Entries /\ Covers(from, e.path)
        BY <1>0 DEF IndexOK, Under
      <4>2. e.path \in PathsOf(selected)
        BY PathsOfIs
      <4> QED
        BY <2>0, <4>1, <4>2, PathsAre DEF Entries
    <3>2. ASSUME NEW e \in selected
          PROVE  /\ [e EXCEPT !.path = New(e.path)] \in Entries
                 /\ [e EXCEPT !.path = New(e.path)].path = New(e.path)
                 /\ [e EXCEPT !.path = New(e.path)].stage = e.stage
      BY <3>1 DEF Entries
    <3>3. IndexOK(renamed)
      <4>1. renamed \subseteq Entries
        BY <3>2
      <4>2. ASSUME NEW e \in selected, NEW f \in selected, New(e.path) = New(f.path),
                   e.stage = 0, f.stage = 0
            PROVE  e = f
        <5>1. e.path = f.path
          BY <1>0, <3>1, <4>2, RenamedOnce DEF New
        <5> QED
          BY <1>0, <4>2, <5>1 DEF IndexOK, Single, Under
      <4>3. ASSUME NEW x \in renamed, NEW y \in renamed, x.path = y.path, x.stage = 0, y.stage = 0
            PROVE  x = y
        <5>1. PICK e \in selected : x = [e EXCEPT !.path = New(e.path)]
          OBVIOUS
        <5>2. PICK f \in selected : y = [f EXCEPT !.path = New(f.path)]
          OBVIOUS
        <5>3. /\ x.path = New(e.path) /\ x.stage = e.stage
              /\ y.path = New(f.path) /\ y.stage = f.stage
          BY <3>2, <5>1, <5>2
        <5>4. e = f
          BY <4>2, <4>3, <5>3
        <5> QED
          BY <5>1, <5>2, <5>4
      <4> QED
        BY <4>1, <4>3 DEF IndexOK, Single
    <3>4. IndexOK(others \ over)
      BY <1>0, IndexPart
    <3>5. ASSUME NEW e \in others \ over, NEW g \in renamed PROVE e.path # g.path
      <4>1. PICK f \in selected : g = [f EXCEPT !.path = New(f.path)]
        OBVIOUS
      <4>2. g.path = New(f.path) /\ New(f.path) \in Seq(Nat)
        BY <3>1, <3>2, <4>1, PathsAre
      <4> QED
        BY <2>0, <4>2, CoversSelf DEF Collide
    <3> HIDE DEF renamed, others, over
    <3> QED
      BY <3>3, <3>4, <3>5, IndexJoin
  <2>8. PICK some \in SUBSET carried :
            /\ files' = Over(Laid(some), Without(files, some))
            /\ index' \in {index, ix} /\ head' = head /\ host' = host
            /\ last'.call = call /\ last'.outcome \in {"done", "stopped"}
    <3> HIDE DEF Laid, ix, call
    <3>1. CASE Answer(call, "done", Over(Laid(carried), Without(files, carried)), ix, head)
      BY <3>1 DEF Answer
    <3>2. CASE \E some \in SUBSET carried :
                   Answer(call, "stopped", Over(Laid(some), Without(files, some)), index, head)
      BY <3>2 DEF Answer
    <3> QED
      BY <2>0, <3>1, <3>2
  <2> HIDE DEF ix, Laid
  <2>9. TreeInv'
    BY <1>0, <2>6, <2>7, <2>8 DEF TreeInv, IndexOK
  <2>10. ASSUME ~ force, NEW p \in DOMAIN files PROVE Kept(p) \/ MayLose(call, p)
    <3>1. /\ DOMAIN files' = DOMAIN Laid(some) \cup (DOMAIN files \ some)
          /\ \A q \in DOMAIN Laid(some) : files'[q] = Laid(some)[q]
          /\ \A q \in DOMAIN files \ some : q \notin DOMAIN Laid(some) => files'[q] = files[q]
      <4> DEFINE w == Without(files, some)
                 x == Laid(some)
      <4>1. DOMAIN w = DOMAIN files \ some /\ \A q \in DOMAIN files \ some : w[q] = files[q]
        BY <1>0, WithoutTree
      <4>2. files' = Over(x, w)
        BY <2>8
      <4> HIDE DEF w, x
      <4>3. /\ DOMAIN files' = DOMAIN x \cup DOMAIN w
            /\ \A q \in DOMAIN x : files'[q] = x[q]
            /\ \A q \in DOMAIN w \ DOMAIN x : files'[q] = w[q]
        <5>1. /\ DOMAIN Over(x, w) = DOMAIN x \cup DOMAIN w
              /\ \A q \in DOMAIN x : Over(x, w)[q] = x[q]
              /\ \A q \in DOMAIN w \ DOMAIN x : Over(x, w)[q] = w[q]
          BY OverIs, ZenonT(60)
        <5> QED
          BY <4>2, <5>1
      <4> QED
        BY <4>1, <4>3 DEF x
    <3>2. CASE p \in some
      <4>1. New(p) \in DOMAIN files' /\ files'[New(p)] = files[p]
        BY <2>6, <3>1, <3>2
      <4> QED
        BY <4>1 DEF MayLose
    <3>3. CASE p \notin some
      <4>1. p \notin DOMAIN Laid(some)
        <5> SUFFICES ASSUME p \in DOMAIN Laid(some) PROVE FALSE
          OBVIOUS
        <5>1. PICK f \in some : p = New(f)
          BY <2>6
        <5>2. Covers(to, p)
          BY <2>4, <5>1
        <5> QED
          BY <2>2, <2>10, <5>2
      <4> QED
        BY <3>1, <3>3, <4>1 DEF Kept
    <3> QED
      BY <3>2, <3>3
  <2>11. call.op = "move" /\ call.force = force
    OBVIOUS
  <2> HIDE DEF call
  <2> QED
    BY <2>8, <2>9, <2>10, <2>11 DEF Shown, Losses, Failures, Carries, Quiet
<1> QED
  BY <1>1, <1>2

-------------------------------------------------------------------------------
(* Sparse selections. *)

LEMMA SelectShown ==
  ASSUME TreeInv, NEW op \in {"sparse", "disable"}, NEW cs \in SUBSET Seq(Nat),
         NEW mark \in BOOLEAN, NEW force \in BOOLEAN,
         mark \/ \A p \in Path : ConeIncludes(p, cs),
         Select(op, cs, mark, force)
  PROVE  Shown
<1> DEFINE call     == [op |-> op, force |-> force]
           inside   == {e \in index : e.stage # 0 \/ ConeIncludes(e.path, cs)}
           outside  == index \ inside
           missing  == PathsOf({e \in inside : e.stage = 0 /\ Look(files, e.path) = "nothing"})
           Leaves(e) == \/ Look(files, e.path) = "nothing"
                        \/ Look(files, e.path) = "file" /\ (force \/ Matches(files, e))
           removed  == {e.path : e \in {o \in outside : Leaves(o)}} \cap DOMAIN files
           Hidden(e) == e \in outside /\ Leaves(e) /\ mark
           Mark(e)  == [e EXCEPT !.skip = Hidden(e)]
           marked   == {Mark(e) : e \in index}
           restored == {e \in index : \E p \in missing : Covers(p, e.path)}
           put      == [p \in PathsOf(restored) |-> Plain(index)[p].blob]
<1>0. /\ files \in Trees /\ head \in Trees /\ IndexOK(index) /\ Patch(files)
      /\ cones \in SUBSET Seq(Nat) /\ host \in BOOLEAN
  BY TreesAre DEF TreeInv, IndexOK
<1>1. \A e \in index : e \in Entries /\ e.path \in Path /\ e.path \in Seq(Nat) /\ e.path # <<>>
  BY <1>0, PathsAre DEF IndexOK, Entries
<1>2. CASE Refuse(call) /\ UNCHANGED cones
  BY <1>2, Refused
<1>3. CASE ~ (Refuse(call) /\ UNCHANGED cones)
  <2>0. /\ Reported(files, PathsOf(index)) = {}
        /\ Astray(files, missing) = {}
        /\ \A e \in restored : e.stage = 0
        /\ \/ /\ Apply(call, removed, {}, put, marked, head)
              /\ cones' = IF last'.outcome = "done" THEN cs ELSE cones
           \/ /\ Astray(put, DOMAIN put) = {}
              /\ Answer(call, "stopped", Over(put, Without(files, removed)), marked, head)
              /\ UNCHANGED cones
    BY <1>3, Zenon DEF Select
  <2>1. \A q \in missing : \E e \in index : e.path = q /\ e.stage = 0 /\ ConeIncludes(q, cs)
                                            /\ Look(files, q) = "nothing" /\ q \in Path
    BY <1>1 DEF PathsOf
  <2>2. \A e \in outside : e.stage = 0 /\ ~ ConeIncludes(e.path, cs)
    OBVIOUS
  <2>3. \A p \in removed : p \in DOMAIN files /\ \E e \in outside : e.path = p /\ Leaves(e)
    OBVIOUS
  <2>4. \A e \in outside : Leaves(e) /\ e.path \in DOMAIN files => e.path \in removed
    OBVIOUS
  <2>5. \A e \in inside : e.stage = 0 /\ Look(files, e.path) = "nothing" => e.path \in missing
    BY DEF PathsOf
  <2>6. \A e \in index : e \in inside <=> e.stage # 0 \/ ConeIncludes(e.path, cs)
    OBVIOUS
  <2>7. inside \subseteq index /\ outside \subseteq index /\ outside \cap inside = {}
        /\ index = inside \cup outside
    OBVIOUS
  <2> HIDE DEF inside, outside, missing
  <2>8. /\ \A p \in PathsOf(restored) : /\ \E e \in index : e.path = p /\ e.stage = 0
                                        /\ p \in Path /\ p \in PathsOf(index)
                                        /\ \E q \in missing : Covers(q, p)
        /\ \A p \in missing : p \in PathsOf(restored)
    <3>1. \A q \in missing : Covers(q, q)
      BY <2>1, PathsAre, CoversSelf
    <3> QED
      BY <1>1, <2>0, <2>1, <3>1 DEF PathsOf
  <2>9. Patch(put) /\ DOMAIN put = PathsOf(restored)
        /\ \A e \in index : e.stage = 0 /\ e.path \in PathsOf(restored) => put[e.path] = e.blob
    <3>1. \A p \in PathsOf(restored) : Plain(index)[p].blob \in Blob
      BY <1>0, <2>8, PlainIs DEF IndexOK
    <3>2. \A e \in index : e.stage = 0 => Plain(index)[e.path] = e
      BY <1>0, PlainOf
    <3> QED
      BY <2>8, <3>1, <3>2 DEF Patch
  <2> HIDE DEF put, restored
  \* What is restored lies where there is no file, above it or below.
  <2>10. ASSUME NEW p \in DOMAIN put, NEW f \in DOMAIN files PROVE ~ Covers(p, f) /\ ~ Covers(f, p)
    <3>1. PICK q \in missing : Covers(q, p)
      BY <2>8, <2>9
    <3>2. /\ q \in Path /\ q \in Seq(Nat) /\ p \in Seq(Nat) /\ f \in Seq(Nat) /\ f \in Path
          /\ Look(files, q) = "nothing"
      BY <1>0, <2>1, <2>8, <2>9, PathsAre DEF Patch
    <3>3. ~ Covers(q, f)
      BY <3>2, LookIs
    <3>4. ~ Covers(p, f)
      BY <3>1, <3>2, <3>3, CoversTrans
    <3>5. ASSUME Covers(f, p) PROVE FALSE
      <4>1. Covers(f, q) /\ f # q
        BY <3>1, <3>2, <3>3, <3>5, CoversChain, CoversSelf
      <4>2. f \in Above(q) \cap DOMAIN files
        BY <1>0, <3>2, <4>1, AbovePaths DEF Patch
      <4> QED
        BY <2>0, <3>1, <4>2 DEF Astray
    <3> QED
      BY <3>4, <3>5
  <2>11. \A gone : Obstacles(gone, put) = Astray(put, DOMAIN put)
    <3> SUFFICES ASSUME NEW gone PROVE Obstacles(gone, put) = Astray(put, DOMAIN put)
      OBVIOUS
    <3>1. \A p \in Obstacles(gone, put) : p \in DOMAIN put
      BY DEF Obstacles, Astray
    <3>2. \A p \in DOMAIN put : p \in Obstacles(gone, put)
              <=> \E q \in DOMAIN put : q # p /\ Covers(q, p)
      BY <1>0, <2>9, <2>10, ObstaclesAre
    <3>3. \A p \in DOMAIN put : p \in Astray(put, DOMAIN put)
              <=> \E q \in DOMAIN put : q # p /\ Covers(q, p)
      BY <2>9, AbovePaths DEF Astray, Patch
    <3>4. Astray(put, DOMAIN put) \subseteq DOMAIN put
      BY DEF Astray
    <3> QED
      BY <3>1, <3>2, <3>3, <3>4
  <2>12. ASSUME NEW p \in Astray(put, DOMAIN put) PROVE Tangled
    <3>1. p \in DOMAIN put /\ Above(p) \cap DOMAIN put # {}
      BY DEF Astray
    <3> QED
      BY <2>8, <2>9, <3>1 DEF Tangled
  <2>13. ASSUME NEW e \in index
         PROVE  /\ Mark(e) \in Entries /\ Mark(e).path = e.path /\ Mark(e).stage = e.stage
                /\ Mark(e).blob = e.blob /\ Mark(e).skip = Hidden(e)
    BY <1>1 DEF Entries
  <2> HIDE DEF Mark
  <2>14. IndexOK(marked)
    BY <1>0, <2>13 DEF IndexOK, Single
  <2>15. ASSUME ~ force, NEW p \in DOMAIN files, p \in removed \cup DOMAIN put
         PROVE  Recorded(p)
    <3>1. Covers(p, p) /\ p \in Path
      BY <1>0, PathsAre, CoversSelf DEF Patch
    <3>2. p \in removed
      BY <2>10, <2>15, <3>1
    <3>3. PICK e \in outside : e.path = p /\ Leaves(e)
      BY <2>3, <3>2
    <3>4. Look(files, p) = "file"
      BY <3>1, LookIs
    <3>5. Matches(files, e)
      BY <2>15, <3>3, <3>4
    <3> QED
      BY <2>7, <3>3, <3>5 DEF Recorded, Matches
  <2>16. call.op = op /\ call.force = force
    OBVIOUS
  <2>17. ~ call.force \/ call.op = "clean" =>
            \A p \in DOMAIN files : p \in removed \cup DOMAIN put => MayLose(call, p)
    BY <2>15, <2>16 DEF MayLose
  <2> HIDE DEF call, removed, marked
  <2>18. CASE /\ Astray(put, DOMAIN put) = {}
              /\ Answer(call, "stopped", Over(put, Without(files, removed)), marked, head)
              /\ UNCHANGED cones
    <3>1. /\ files' = Over(put, Without(files, removed)) /\ index' = marked /\ head' = head
          /\ host' = host /\ cones' = cones /\ last'.call = call /\ last'.outcome = "stopped"
      BY <2>18 DEF Answer
    <3> DEFINE w == Without(files, removed)
    <3>2. w \in Trees /\ DOMAIN w = DOMAIN files \ removed
          /\ \A p \in DOMAIN files \ removed : w[p] = files[p]
      BY <1>0, WithoutTree
    <3>3. Over(put, w) \in Trees
      <4>1. put = Only(put, DOMAIN put)
        BY <2>9 DEF Only, Patch
      <4>2. DOMAIN put \subseteq DOMAIN put \ Obstacles(removed, put)
        BY <2>11, <2>18
      <4> QED
        BY <1>0, <2>9, <4>1, <4>2, PutTree, Zenon
    <3> HIDE DEF w
    <3>4. /\ DOMAIN Over(put, w) = DOMAIN put \cup DOMAIN w
          /\ \A p \in DOMAIN w \ DOMAIN put : Over(put, w)[p] = w[p]
      BY OverIs
    <3>5. files' = Over(put, w)
      BY <3>1 DEF w
    <3>6. \A p \in DOMAIN files : p \notin removed \cup DOMAIN put => Kept(p)
      BY <3>2, <3>4, <3>5 DEF Kept
    <3>7. Losses
      BY <2>17, <3>1, <3>6 DEF Losses
    <3>8. TreeInv'
      BY <1>0, <2>14, <3>1, <3>3, <3>5 DEF TreeInv, IndexOK
    <3> QED
      BY <3>1, <3>7, <3>8 DEF Shown, Failures, Carries, Quiet
  <2>19. CASE /\ Apply(call, removed, {}, put, marked, head)
              /\ cones' = IF last'.outcome = "done" THEN cs ELSE cones
    <3>1. TreeInv' /\ Losses /\ Failures /\ Carries
      <4>1. cones' \in SUBSET Seq(Nat)
        BY <1>0, <2>19
      <4>2. Obstacles(removed, put) # {} => Tangled
        BY <2>11, <2>12
      <4> QED
        BY <1>0, <2>9, <2>14, <2>16, <2>17, <2>19, <4>1, <4>2, Applied
    <3>2. ASSUME last'.outcome = "done"
          PROVE  /\ \A p \in LocalChanges' \ LocalChanges :
                        p \in PathsOf({e \in index : e.skip}) /\ Look(files, p) # "nothing"
                 /\ \A e \in index' : e.skip =>
                        Look(files', e.path) = "nothing" /\ ~ ConeIncludes(e.path, cones')
                 /\ \A e \in index' : e.stage = 0 /\ ConeIncludes(e.path, cones') =>
                        Look(files', e.path) # "nothing" \/ Tangled
      <4>1. /\ files' = Over(put, Without(files, removed)) /\ index' = marked /\ cones' = cs
            /\ Obstacles(removed, put) = {}
        BY <1>0, <2>9, <2>19, <3>2, ApplyEnds
      <4>2. /\ DOMAIN files' = DOMAIN put \cup (DOMAIN files \ removed)
            /\ \A p \in DOMAIN put : files'[p] = put[p]
            /\ \A p \in DOMAIN files \ removed : p \notin DOMAIN put => files'[p] = files[p]
        <5> DEFINE w == Without(files, removed)
        <5>1. DOMAIN w = DOMAIN files \ removed /\ \A p \in DOMAIN files \ removed : w[p] = files[p]
          BY <1>0, WithoutTree
        <5>2. files' = Over(put, w)
          BY <4>1
        <5> HIDE DEF w
        <5>3. /\ DOMAIN Over(put, w) = DOMAIN put \cup DOMAIN w
              /\ \A q \in DOMAIN put : Over(put, w)[q] = put[q]
              /\ \A q \in DOMAIN w \ DOMAIN put : Over(put, w)[q] = w[q]
          BY OverIs
        <5> QED
          BY <5>1, <5>2, <5>3
      \* What is written is what was missing.
      <4>3. ASSUME NEW p \in DOMAIN put PROVE p \in missing
        <5>1. PICK q \in missing : Covers(q, p)
          BY <2>8, <2>9
        <5>2. q \in DOMAIN put
          BY <2>8, <2>9
        <5>3. q = p
          BY <1>0, <2>9, <4>1, <5>1, <5>2, ObstaclesAre
        <5> QED
          BY <5>1, <5>3
      <4>4. \A p \in DOMAIN put : ConeIncludes(p, cs) /\ p \in Path /\ p \in Seq(Nat)
        BY <2>1, <4>3, PathsAre
      <4>5. ASSUME NEW e \in outside, NEW p \in DOMAIN put
            PROVE  ~ Covers(e.path, p) /\ ~ Covers(p, e.path)
        <5>1. ~ Covers(e.path, p)
          BY <1>1, <2>2, <2>7, <4>4, ConeUpward
        <5>2. ASSUME Covers(p, e.path) PROVE FALSE
          <6>1. e.path \in DOMAIN put
            BY <2>7, <2>9, <4>3, <5>2 DEF restored, PathsOf
          <6>2. p = e.path
            BY <1>0, <2>9, <4>1, <5>2, <6>1, ObstaclesAre
          <6> QED
            BY <2>2, <4>4, <6>2
        <5> QED
          BY <5>1, <5>2
      <4>6. \A e \in inside : e.stage = 0 => e.path \notin removed
        BY <2>2, <2>3, <2>6, <2>7
      <4>7. ASSUME NEW e \in index, Hidden(e)
            PROVE  Look(files', e.path) = "nothing" /\ ~ ConeIncludes(e.path, cs)
        <5>1. e \in outside /\ Leaves(e) /\ e.path \in Path /\ e.path \in Seq(Nat)
          BY <1>1, <4>7
        <5>2. \A q \in DOMAIN files \ removed : ~ Covers(e.path, q)
                  /\ (host /\ q # e.path => ~ Covers(q, e.path))
          <6>1. CASE Look(files, e.path) = "nothing"
            <7>1. Above(e.path) \cap DOMAIN files = {q \in DOMAIN files : q # e.path /\ Covers(q, e.path)}
              BY <1>0, <5>1, AbovePaths DEF Patch
            <7> QED
              BY <5>1, <6>1, <7>1, LookIs
          <6>2. CASE Look(files, e.path) = "file"
            <7>1. e.path \in DOMAIN files /\ e.path \in removed
              BY <2>4, <5>1, <6>2, LookIs
            <7> QED
              BY <1>0, <7>1, TreesAre
          <6> QED
            BY <5>1, <6>1, <6>2
        <5>3. \A q \in DOMAIN files' : ~ Covers(e.path, q)
                  /\ (host /\ q # e.path => ~ Covers(q, e.path))
          BY <4>2, <4>5, <5>1, <5>2
        <5>4. e.path \notin DOMAIN files'
          BY <5>1, <5>3, CoversSelf
        <5>5. ~ (host /\ Above(e.path) \cap DOMAIN files' # {})
          <6>1. DOMAIN files' \subseteq Path
            BY <1>0, <2>9, <4>2 DEF Patch
          <6>2. Above(e.path) \cap DOMAIN files' = {q \in DOMAIN files' : q # e.path /\ Covers(q, e.path)}
            BY <5>1, <6>1, AbovePaths
          <6> QED
            BY <5>3, <6>2
        <5>6. Look(files', e.path) = "nothing"
          BY <5>1, <5>3, <5>4, <5>5, LookIs
        <5> QED
          BY <2>2, <5>1, <5>6
      <4>8. ASSUME NEW e \in index, e.stage = 0, ConeIncludes(e.path, cs)
            PROVE  Look(files', e.path) # "nothing" \/ Tangled
        <5>0. e \in inside /\ e.path \in Path /\ e.path \notin removed
          BY <1>1, <2>6, <4>6, <4>8
        <5>1. CASE Look(files, e.path) = "nothing"
          <6>1. e.path \in DOMAIN files'
            BY <2>5, <2>8, <2>9, <4>2, <4>8, <5>0, <5>1
          <6> QED
            BY <5>0, <6>1, LookIs
        <5>2. CASE Look(files, e.path) = "file"
          <6>1. e.path \in DOMAIN files'
            BY <4>2, <5>0, <5>2, LookIs
          <6> QED
            BY <5>0, <6>1, LookIs
        <5>3. CASE Look(files, e.path) = "directory"
          <6>1. PICK f \in DOMAIN files : f # e.path /\ Covers(e.path, f)
            BY <5>0, <5>3, LookIs
          <6>2. CASE f \in removed
            <7>1. f \in PathsOf(index) /\ e.path \in PathsOf(index)
              BY <2>3, <2>7, <6>2 DEF PathsOf
            <7>2. e.path \in Above(f)
              BY <1>0, <1>1, <6>1, PathsAre, AboveIs DEF Patch
            <7> QED
              BY <7>1, <7>2 DEF Tangled
          <6>3. CASE f \notin removed
            <7>1. f \in DOMAIN files'
              BY <4>2, <6>3
            <7> QED
              BY <5>0, <6>1, <7>1, LookIs
          <6> QED
            BY <6>2, <6>3
        <5>4. CASE Look(files, e.path) = "error"
          BY <2>0, <5>4 DEF Reported, PathsOf
        <5> QED
          BY <5>0, <5>1, <5>2, <5>3, <5>4, LookIs
      <4>9. ASSUME NEW e \in index, e.stage = 0, ~ Hidden(e), e.blob # files'[e.path] \/ e.path \notin DOMAIN files',
                   e.path \notin LocalChanges
            PROVE  e.skip /\ Look(files, e.path) # "nothing"
        <5>1. e.skip \/ Matches(files, e)
          BY <4>9 DEF LocalChanges, PathsOf
        <5>2. CASE e \in outside
          <6>1. mark /\ ~ Leaves(e)
            BY <1>1, <2>2, <4>9, <5>2
          <6>2. ~ Matches(files, e)
            BY <1>1, <6>1, LookIs DEF Matches
          <6> QED
            BY <5>1, <6>1, <6>2
        <5>3. CASE e \in inside
          <6>1. e.path \notin removed /\ e.path \in Path /\ e.path \in Seq(Nat)
            BY <1>1, <4>6, <4>9, <5>3
          <6>2. ASSUME Matches(files, e) PROVE FALSE
            <7>1. e.path \in DOMAIN files /\ files[e.path] = e.blob
              BY <6>2 DEF Matches
            <7>2. e.path \notin DOMAIN put
              BY <2>10, <6>1, <7>1, CoversSelf
            <7> QED
              BY <4>2, <4>9, <6>1, <7>1, <7>2
          <6>3. Look(files, e.path) # "nothing"
            BY <2>5, <2>8, <2>9, <4>2, <4>9, <5>3
          <6> QED
            BY <5>1, <6>2, <6>3
        <5> QED
          BY <2>7, <5>2, <5>3
      <4>10. \A p \in LocalChanges' \ LocalChanges :
                 p \in PathsOf({e \in index : e.skip}) /\ Look(files, p) # "nothing"
        <5> SUFFICES ASSUME NEW m \in index', m.stage = 0, ~ m.skip, ~ Matches(files', m),
                            m.path \notin LocalChanges
                     PROVE  m.path \in PathsOf({e \in index : e.skip}) /\ Look(files, m.path) # "nothing"
          <6>1. LocalChanges' = PathsOf({e \in index' : e.stage = 0 /\ ~ e.skip /\ ~ Matches(files', e)})
            BY DEF LocalChanges, PathsOf, Matches
          <6> QED
            BY <6>1 DEF PathsOf
        <5>1. PICK e \in index : m = Mark(e)
          BY <4>1 DEF marked
        <5>2. m.path = e.path /\ m.stage = e.stage /\ m.blob = e.blob /\ m.skip = Hidden(e)
          BY <2>13, <5>1
        <5>3. e.skip /\ Look(files, e.path) # "nothing"
          BY <4>9, <5>2 DEF Matches
        <5> QED
          BY <5>2, <5>3 DEF PathsOf
      <4>11. \A m \in index' : \E e \in index : /\ m.path = e.path /\ m.stage = e.stage
                                              /\ m.skip = Hidden(e)
        BY <2>13, <4>1 DEF marked
      <4> QED
        BY <4>1, <4>7, <4>8, <4>10, <4>11, ZenonT(60)
    <3>3. Quiet
      BY <3>2 DEF Quiet
    <3> QED
      BY <3>1, <3>3 DEF Shown
  <2> QED
    BY <2>0, <2>18, <2>19
<1> QED
  BY <1>2, <1>3

-------------------------------------------------------------------------------
(* Every call, and the specification. *)

LEMMA FullIncludes == Full \subseteq Seq(Nat) /\ \A p \in Path : ConeIncludes(p, Full)
<1>1. Full \subseteq Seq(Nat)
  BY EmptySeq DEF Full
<1>2. ASSUME NEW p \in Path PROVE ConeIncludes(p, Full)
  <2>1. p # <<>> /\ Covers(<<>>, p)
    BY PathsAre, CoversSelf
  <2> QED
    BY <2>1 DEF ConeIncludes, Full
<1> QED
  BY <1>1, <1>2

LEMMA SparseShown == ASSUME TreeInv, SparseCall PROVE Shown
<1>1. PICK cs \in SUBSET Seq(Nat), force \in BOOLEAN :
          \/ SetSparse(cs, force) \/ AddSparse(cs, force)
          \/ Reapply(force) \/ DisableSparse(force)
  BY DEF SparseCall
<1>2. /\ cones \in SUBSET Seq(Nat) /\ Normal(cs) \in SUBSET Seq(Nat)
      /\ Normal(cones \cup cs) \in SUBSET Seq(Nat)
  BY DEF TreeInv, Normal
<1>3. ASSUME NEW ds \in SUBSET Seq(Nat), Select("sparse", ds, TRUE, force) PROVE Shown
  BY <1>3, SelectShown
<1>4. ASSUME Select("disable", Full, FALSE, force) PROVE Shown
  BY <1>4, FullIncludes, SelectShown
<1> QED
  BY <1>1, <1>2, <1>3, <1>4 DEF SetSparse, AddSparse, Reapply, DisableSparse

LEMMA CallShown == ASSUME TreeInv, Called PROVE Shown
<1>1. ASSUME RemoveCall, UNCHANGED cones PROVE Shown
  BY <1>1, RemoveShown DEF RemoveCall
<1>2. ASSUME MoveCall, UNCHANGED cones PROVE Shown
  BY <1>2, MoveShown DEF MoveCall
<1>3. ASSUME SwitchCall, UNCHANGED cones PROVE Shown
  BY <1>3, SwitchShown DEF SwitchCall
<1>4. ASSUME ResetCall, UNCHANGED cones PROVE Shown
  BY <1>4, ResetShown DEF ResetCall
<1>5. ASSUME RestoreCall, UNCHANGED cones PROVE Shown
  BY <1>5, RestoreShown DEF RestoreCall
<1>6. ASSUME CopyCall, UNCHANGED cones PROVE Shown
  BY <1>6, CopyShown DEF CopyCall
<1>7. ASSUME CleanCall, UNCHANGED cones PROVE Shown
  BY <1>7, CleanShown DEF CleanCall
<1> QED
  BY <1>1, <1>2, <1>3, <1>4, <1>5, <1>6, <1>7, IndexShown, ReadShown, SparseShown DEF Called

\* Between calls the caller has its answer, and the user changes files.
LEMMA EditFits ==
  ASSUME TreeInv, UNCHANGED cones, NEW w \in Trees, Edit(w)
  PROVE  TreeInv' /\ UNCHANGED last
BY DEF Edit, TreeInv

LEMMA ReturnShown == ASSUME TreeInv, UNCHANGED cones, Return PROVE Shown
<1>1. /\ files' = files /\ index' = index /\ head' = head /\ host' = host
      /\ last'.call.op = "none" /\ last'.outcome = "done" /\ last'.call.force
  BY DEF Return, None
<1> QED
  BY <1>1 DEF TreeInv, Shown, Losses, Failures, Carries, Quiet

LEMMA StepShown ==
  ASSUME TreeInv, [TreeNext]_<<wtVars, cones>>
  PROVE  TreeInv' /\ (Shown \/ UNCHANGED last)
<1>1. CASE Called
  BY <1>1, CallShown DEF Shown
<1>2. ASSUME NEW w \in Trees, Edit(w), UNCHANGED cones PROVE TreeInv' /\ UNCHANGED last
  BY <1>2, EditFits
<1>3. CASE Return /\ UNCHANGED cones
  BY <1>3, ReturnShown DEF Shown
<1>4. CASE UNCHANGED <<wtVars, cones>>
  BY <1>4 DEF TreeInv, wtVars
<1> QED
  BY <1>1, <1>2, <1>3, <1>4 DEF TreeNext

\* Whatever the calls and wherever they stop, the working tree and HEAD are trees, no
\* path has two entries of stage zero, and the selection is a set of directories.
THEOREM TreesFit == TreeSpec => []TreeInv
<1>1. TreeInit => TreeInv
  BY EmptyTree, FullIncludes DEF TreeInit, TreeInv, Single
<1>2. TreeInv /\ [TreeNext]_<<wtVars, cones>> => TreeInv'
  BY StepShown
<1> QED
  BY <1>1, <1>2, PTL DEF TreeSpec

\* An unforced call takes nothing away that the index does not have, or that has not
\* moved, wherever it fails or stops; a restore gives up changes of tracked files only,
\* a clean untracked files only.
THEOREM WorkKept == TreeSpec => NothingLost
<1>1. ASSUME TreeInv, [TreeNext]_<<wtVars, cones>>
      PROVE  [last' # last /\ (~last'.call.force \/ last'.call.op = "clean") =>
                \A p \in DOMAIN files : \/ p \in DOMAIN files' /\ files'[p] = files[p]
                                        \/ MayLose(last'.call, p)]_wtVars
  BY <1>1, StepShown DEF Shown, Losses, Kept
<1> QED
  BY <1>1, TreesFit, PTL DEF TreeSpec, NothingLost

\* An unforced call that has passed its checks does not fail on the way, but where a
\* tracked path leads through a file or through another tracked path, or where merged
\* trees do not fit in one.
THEOREM ChecksHold == TreeSpec => ChecksSuffice
<1>1. ASSUME TreeInv, [TreeNext]_<<wtVars, cones>>
      PROVE  [last' # last /\ last'.outcome = "failed" =>
                last'.call.force \/ last'.call.op = "clash" \/ Tangled]_wtVars
  BY <1>1, StepShown DEF Shown, Failures
<1> QED
  BY <1>1, TreesFit, PTL DEF TreeSpec, ChecksSuffice

\* After a switch or reset --hard nothing is staged; one that is not forced adds no
\* local change and keeps every untracked file, a forced one leaves no local change.
THEOREM ChangesCarried == TreeSpec => SwitchCarries
<1> DEFINE Body == last' # last /\ last'.outcome = "done" /\ last'.call.op \in {"switch", "hard"} =>
                      /\ StagedChanges' = {}
                      /\ last'.call.force => LocalChanges' = {}
                      /\ ~last'.call.force => /\ LocalChanges' \subseteq LocalChanges
                                              /\ Untracked \subseteq Untracked'
<1>1. ASSUME TreeInv, [TreeNext]_<<wtVars, cones>> PROVE [Body]_wtVars
  BY <1>1, StepShown DEF Shown, Carries
<1> QED
  BY <1>1, TreesFit, PTL DEF TreeSpec, SwitchCarries

\* A change of the sparse selection, forced or not, shows in status only where a marked
\* path was there with other content; afterwards what is marked is not in the working
\* tree and not selected, and what is selected is there, unless tracked paths lead
\* through each other.
THEOREM SelectionQuiet == TreeSpec => SparseQuiet
<1> DEFINE Body == last' # last /\ last'.outcome = "done" /\ last'.call.op \in {"sparse", "disable"} =>
                      /\ \A p \in LocalChanges' \ LocalChanges :
                             p \in PathsOf({e \in index : e.skip}) /\ Look(files, p) # "nothing"
                      /\ \A e \in index' : e.skip =>
                             Look(files', e.path) = "nothing" /\ ~ConeIncludes(e.path, cones')
                      /\ \A e \in index' : e.stage = 0 /\ ConeIncludes(e.path, cones') =>
                             Look(files', e.path) # "nothing" \/ Tangled
<1>1. ASSUME TreeInv, [TreeNext]_<<wtVars, cones>> PROVE [Body]_<<wtVars, cones>>
  BY <1>1, StepShown DEF Shown, Quiet
<1> QED
  BY <1>1, TreesFit, PTL DEF TreeSpec, SparseQuiet
===============================================================================
