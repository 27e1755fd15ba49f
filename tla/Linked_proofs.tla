----------------------------- MODULE Linked_proofs -----------------------------
(***************************************************************************)
(* Proofs about linked worktrees and the branches they have checked out:   *)
(* what a call on them may take away, whom it leaves linked, and which     *)
(* branches move along, for any names, places, branches and arguments.     *)
(***************************************************************************)
EXTENDS Linked, FiniteSetTheorems, SequenceTheorems, TLAPS

Registered == [there : {TRUE}, gitdir : Seq(Nat), common : BOOLEAN,
               head : HeadValues \cup {NoHead}, index : {"none", "fresh", "old"},
               locked : BOOLEAN, lock : BOOLEAN]

Admins == [Name -> {NoAdmin} \cup Registered]

Works == {"empty", "dirty", "clean"}

Dirs == [git : [name : Nat, depth : Nat], work : Works, lock : BOOLEAN]

Paths == Seq(Nat) \ {<<>>}

\* What a directory lies in is there as well.
Trees == {t \in UNION {[S -> Dirs] : S \in SUBSET Paths} :
              /\ IsFiniteSet(DOMAIN t)
              /\ \A x \in DOMAIN t, y \in Paths : Inside(y, x) => y \in DOMAIN t}

Repos == [head : HeadValues, tip : [Branch -> Change \cup {NoTip}],
          log : [Branch -> SUBSET Branch], config : [Branch -> Branch \cup {NoConfig}],
          relative : BOOLEAN, admin : Admins, tree : Trees]

-------------------------------------------------------------------------------
(* The parts of a repository. *)

LEMMA NamesAre == \A n \in Name : n \in Nat /\ n # 0
BY LinkedAssumption

LEMMA PlacesAre == \A p \in Place : p \in Paths
BY LinkedAssumption DEF Paths

LEMMA HeadsAre ==
  /\ NoHead \notin HeadValues
  /\ \A b \in Branch : On(b) \in HeadValues /\ On(b) # NoHead
  /\ \A b, c \in Branch : On(b) = On(c) => b = c
BY DEF HeadValues, On, Detached, NoHead

LEMMA WithAdmins ==
  ASSUME NEW d \in Repos, NEW a \in Admins
  PROVE  LET e == [d EXCEPT !.admin = a]
         IN  /\ e \in Repos /\ e.admin = a
             /\ e.head = d.head /\ e.tip = d.tip /\ e.log = d.log /\ e.config = d.config
             /\ e.relative = d.relative /\ e.tree = d.tree
BY DEF Repos

LEMMA WithTree ==
  ASSUME NEW d \in Repos, NEW t \in Trees
  PROVE  LET e == [d EXCEPT !.tree = t]
         IN  /\ e \in Repos /\ e.tree = t
             /\ e.head = d.head /\ e.tip = d.tip /\ e.log = d.log /\ e.config = d.config
             /\ e.relative = d.relative /\ e.admin = d.admin
BY DEF Repos

LEMMA WithRelative ==
  ASSUME NEW d \in Repos
  PROVE  LET e == [d EXCEPT !.relative = TRUE]
         IN  /\ e \in Repos /\ e.tree = d.tree
             /\ e.head = d.head /\ e.tip = d.tip /\ e.log = d.log /\ e.config = d.config
             /\ e.admin = d.admin
BY DEF Repos

LEMMA AdminIs ==
  ASSUME NEW d \in Repos, NEW n \in Name
  PROVE  /\ There(d, n) \in BOOLEAN
         /\ There(d, n) <=> d.admin[n] \in Registered
         /\ ~There(d, n) <=> d.admin[n] = NoAdmin
         /\ n \in Names(d) <=> There(d, n)
<1>1. d.admin[n] \in {NoAdmin} \cup Registered
  BY DEF Repos, Admins
<1>2. NoAdmin.there = FALSE /\ \A a \in Registered : a.there = TRUE
  BY DEF NoAdmin, Registered
<1>3. There(d, n) = d.admin[n].there
  BY DEF There
<1> QED
  BY <1>1, <1>2, <1>3 DEF Names

LEMMA EmptyIs == EmptyAdmin \in Registered /\ NoAdmin \notin Registered /\ EmptyDir \in Dirs
BY EmptySeq DEF EmptyAdmin, Registered, NoAdmin, EmptyDir, Dirs, Works, NoGit, NoHead

LEMMA TreeIs ==
  ASSUME NEW t \in Trees
  PROVE  /\ t = [x \in DOMAIN t |-> t[x]]
         /\ DOMAIN t \subseteq Paths /\ IsFiniteSet(DOMAIN t)
         /\ \A x \in DOMAIN t : t[x] \in Dirs
         /\ \A x \in DOMAIN t, y \in Paths : Inside(y, x) => y \in DOMAIN t
BY DEF Trees

LEMMA IsTree ==
  ASSUME NEW S \in SUBSET Paths, NEW t \in [S -> Dirs], IsFiniteSet(S),
         \A x \in S, y \in Paths : Inside(y, x) => y \in S
  PROVE  t \in Trees
BY DEF Trees
-------------------------------------------------------------------------------
(* Sequences of states. *)

LEMMA LastIs ==
  ASSUME NEW S, NEW s \in Seq(S), s # <<>>
  PROVE  Len(s) \in Nat \ {0} /\ Len(s) \in DOMAIN s /\ DOMAIN s = 1 .. Len(s)
         /\ Last(s) \in S /\ Last(s) = s[Len(s)]
BY EmptySeq, LenProperties, ElementOfSeq DEF Last

LEMMA JoinIs ==
  ASSUME NEW S, NEW s \in Seq(S), NEW u \in Seq(S), s # <<>>
  PROVE  /\ s \o u \in Seq(S) /\ s \o u # <<>>
         /\ u # <<>> => Last(s \o u) = Last(u)
         /\ u = <<>> => s \o u = s
         /\ Len(s \o u) = Len(s) + Len(u)
<1>1. /\ Len(s) \in Nat \ {0} /\ Len(u) \in Nat /\ s \o u \in Seq(S)
      /\ Len(s \o u) = Len(s) + Len(u)
      /\ \A i \in 1 .. Len(s) + Len(u) : (s \o u)[i] = IF i <= Len(s) THEN s[i] ELSE u[i - Len(s)]
  BY LastIs, LenProperties, ConcatProperties
<1>2. s \o u # <<>>
  BY <1>1, EmptySeq
<1>3. u # <<>> => Last(s \o u) = Last(u)
  <2>1. SUFFICES ASSUME u # <<>> PROVE (s \o u)[Len(s) + Len(u)] = u[Len(u)]
    BY <1>1 DEF Last
  <2>2. Len(u) \in Nat \ {0}
    BY <2>1, LastIs
  <2>3. /\ Len(s) + Len(u) \in 1 .. Len(s) + Len(u) /\ ~ (Len(s) + Len(u) <= Len(s))
        /\ Len(s) + Len(u) - Len(s) = Len(u)
    BY <1>1, <2>2
  <2> QED
    BY <1>1, <2>3
<1>4. u = <<>> => s \o u = s
  BY ConcatEmptySeq
<1> QED
  BY <1>1, <1>2, <1>3, <1>4

LEMMA OneMore ==
  ASSUME NEW S, NEW s \in Seq(S), NEW e \in S
  PROVE  Append(s, e) \in Seq(S) /\ Append(s, e) # <<>> /\ Last(Append(s, e)) = e
         /\ Len(Append(s, e)) = Len(s) + 1
         /\ \A i \in 1 .. Len(s) : Append(s, e)[i] = s[i]
<1>1. /\ Append(s, e) \in Seq(S) /\ Len(Append(s, e)) = Len(s) + 1
      /\ Append(s, e)[Len(s) + 1] = e /\ \A i \in 1 .. Len(s) : Append(s, e)[i] = s[i]
  BY AppendProperties
<1>2. Append(s, e) # <<>>
  BY <1>1, EmptySeq, LenProperties
<1> QED
  BY <1>1, <1>2 DEF Last

LEMMA ListIs ==
  ASSUME NEW S, NEW n \in Nat, NEW s \in [1 .. n -> S]
  PROVE  s \in Seq(S) /\ Len(s) = n /\ (n = 0 <=> s = <<>>) /\ (n > 0 => Last(s) = s[n])
<1>1. s \in Seq(S) /\ Len(s) = n
  OBVIOUS
<1> QED
  BY <1>1, EmptySeq DEF Last

\* One to four states.
LEMMA FewAre ==
  ASSUME NEW S
  PROVE  /\ \A a \in S : <<a>> \in Seq(S) /\ <<a>> # <<>> /\ Last(<<a>>) = a
         /\ \A a, b \in S : <<a, b>> \in Seq(S) /\ <<a, b>> # <<>> /\ Last(<<a, b>>) = b
         /\ \A a, b, c \in S :
                <<a, b, c>> \in Seq(S) /\ <<a, b, c>> # <<>> /\ Last(<<a, b, c>>) = c
         /\ \A a, b, c, d \in S :
                <<a, b, c, d>> \in Seq(S) /\ <<a, b, c, d>> # <<>> /\ Last(<<a, b, c, d>>) = d
BY DEF Last

-------------------------------------------------------------------------------
(* Registrations that go. *)

LEMMA FirstOnes ==
  ASSUME NEW ns, ns \subseteq Nat, IsFiniteSet(ns)
  PROVE  /\ Cardinality(ns) \in Nat /\ (Cardinality(ns) = 0 <=> ns = {})
         /\ \A n \in ns : Smaller(n, ns) \in Nat /\ Smaller(n, ns) < Cardinality(ns)
<1>1. Cardinality(ns) \in Nat /\ (Cardinality(ns) = 0 <=> ns = {})
  BY FS_CardinalityType, FS_EmptySet
<1>2. ASSUME NEW n \in ns PROVE Smaller(n, ns) \in Nat /\ Smaller(n, ns) < Cardinality(ns)
  <2> DEFINE T == {m \in ns : m < n}
  <2>1. T \subseteq ns /\ n \notin T
    OBVIOUS
  <2>2. IsFiniteSet(T) /\ Cardinality(T) <= Cardinality(ns) /\ (Cardinality(ns) = Cardinality(T) => ns = T)
    BY <2>1, FS_Subset
  <2>3. Cardinality(T) \in Nat /\ Cardinality(T) # Cardinality(ns)
    BY <2>1, <2>2, FS_CardinalityType
  <2> QED
    BY <1>1, <2>2, <2>3 DEF Smaller
<1> QED
  BY <1>1, <1>2
\* The registrations of ns are as they were or, as far as HEAD, gone.
Lapsed(a, b, ns) ==
    \A n \in Name : \/ b[n] = a[n]
                    \/ n \in ns /\ b[n] = NoAdmin
                    \/ n \in ns /\ b[n] \in Registered /\ b[n].head = NoHead

Without(a, ns) == [n \in Name |-> IF n \in ns THEN NoAdmin ELSE a[n]]

LEMMA RemovingIs ==
  ASSUME NEW a \in Registered
  PROVE  /\ \A k \in 1 .. 4 : Removing(a)[k] \in Registered /\ Removing(a)[k].head = NoHead
         /\ Removing(a)[5] = NoAdmin
<1> DEFINE a1 == [a EXCEPT !.head = NoHead]
           a2 == [a1 EXCEPT !.common = FALSE]
           a3 == [a2 EXCEPT !.gitdir = <<>>, !.lock = FALSE]
           a4 == [a3 EXCEPT !.index = "none"]
<1>0. Removing(a) = <<a1, a2, a3, a4, NoAdmin>>
  BY DEF Removing
<1>1. a1 \in Registered /\ a1.head = NoHead
  BY DEF Registered
<1>2. a2 \in Registered /\ a2.head = NoHead
  <2> HIDE DEF a1
  <2> QED BY <1>1 DEF Registered
<1>3. a3 \in Registered /\ a3.head = NoHead
  <2> HIDE DEF a2
  <2> QED BY <1>2, EmptySeq DEF Registered
<1>4. a4 \in Registered /\ a4.head = NoHead
  <2> HIDE DEF a3
  <2> QED BY <1>3 DEF Registered
<1> HIDE DEF a1, a2, a3, a4
<1> QED
  BY <1>0, <1>1, <1>2, <1>3, <1>4

LEMMA RemoveAdminsIs ==
  ASSUME NEW S \in SUBSET Repos, NEW ways \in Seq(S), ways # <<>>,
         NEW ns, ns \subseteq Names(Last(ways)),
         \A a \in Admins : Lapsed(Last(ways).admin, a, ns) => [Last(ways) EXCEPT !.admin = a] \in S
  PROVE  /\ RemoveAdmins(ways, ns) \in Seq(S) /\ RemoveAdmins(ways, ns) # <<>>
         /\ Last(RemoveAdmins(ways, ns)) =
                IF ns = {} THEN Last(ways)
                ELSE [Last(ways) EXCEPT !.admin = Without(Last(ways).admin, ns)]
<1> DEFINE d == Last(ways)
           m == Cardinality(ns)
           After(i, n) == LET k == i - 5 * Smaller(n, ns)
                          IN  IF n \notin ns \/ k < 1 THEN d.admin[n]
                              ELSE IF k > 5 THEN NoAdmin ELSE Removing(d.admin[n])[k]
           a(i) == [n \in Name |-> After(i, n)]
           u == [i \in 1 .. 5 * m |-> [d EXCEPT !.admin = a(i)]]
<1>1. d \in Repos /\ d \in S
  BY LastIs
<1>2. ns \subseteq Nat /\ ns \subseteq Name /\ IsFiniteSet(ns)
  BY LinkedAssumption, FS_Subset DEF Names
<1>3. /\ m \in Nat /\ (m = 0 <=> ns = {})
      /\ \A n \in ns : Smaller(n, ns) \in Nat /\ Smaller(n, ns) < m
  BY <1>2, FirstOnes
<1>4. RemoveAdmins(ways, ns) = ways \o u
  BY DEF RemoveAdmins
<1> HIDE DEF d, m
<1>5. ASSUME NEW i \in 1 .. 5 * m PROVE a(i) \in Admins /\ Lapsed(d.admin, a(i), ns)
  <2>1. ASSUME NEW n \in Name
        PROVE  /\ After(i, n) \in {NoAdmin} \cup Registered
               /\ \/ After(i, n) = d.admin[n]
                  \/ n \in ns /\ After(i, n) = NoAdmin
                  \/ n \in ns /\ After(i, n) \in Registered /\ After(i, n).head = NoHead
    <3> DEFINE k == i - 5 * Smaller(n, ns)
    <3>1. d.admin[n] \in {NoAdmin} \cup Registered
      BY <1>1, AdminIs
    <3>2. CASE n \notin ns \/ k < 1
      <4>1. After(i, n) = d.admin[n]
        BY <3>2
      <4> QED BY <3>1, <4>1
    <3>3. CASE n \in ns /\ ~ (k < 1) /\ k > 5
      <4>1. After(i, n) = NoAdmin
        BY <3>3
      <4> HIDE DEF After, k
      <4> QED BY <3>3, <4>1
    <3>4. CASE n \in ns /\ ~ (k < 1) /\ ~ (k > 5)
      <4>1. After(i, n) = Removing(d.admin[n])[k]
        BY <3>4
      <4>2. k \in 1 .. 4 \/ k = 5
        <5>1. i \in Int /\ Smaller(n, ns) \in Int
          BY <1>3, <3>4
        <5>2. k \in Int /\ 1 <= k /\ k <= 5
          BY <3>4, <5>1
        <5> QED BY <5>2
      <4>3. d.admin[n] \in Registered
        BY <1>1, <3>4, AdminIs DEF d
      <4> HIDE DEF After, k
      <4> QED BY <3>4, <4>1, <4>2, <4>3, RemovingIs
    <3> QED BY <3>2, <3>3, <3>4
  <2> HIDE DEF After
  <2>2. \A n \in Name : a(i)[n] = After(i, n)
    OBVIOUS
  <2> QED
    BY <2>1, <2>2 DEF Admins, Lapsed
<1>6. a(5 * m) = Without(d.admin, ns)
  <2>1. ASSUME NEW n \in Name PROVE After(5 * m, n) = IF n \in ns THEN NoAdmin ELSE d.admin[n]
    <3>1. CASE n \notin ns
      BY <3>1
    <3>2. CASE n \in ns
      <4> DEFINE k == 5 * m - 5 * Smaller(n, ns)
      <4>1. k \in Nat /\ k > 4
        BY <1>3, <3>2
      <4>2. k = 5 \/ k > 5
        BY <4>1
      <4>3. d.admin[n] \in Registered
        BY <1>1, <3>2, <1>2, AdminIs DEF d
      <4> QED BY <3>2, <4>1, <4>2, <4>3, RemovingIs
    <3> QED BY <3>1, <3>2
  <2> HIDE DEF After
  <2> QED
    BY <2>1 DEF Without
<1>7. u \in [1 .. 5 * m -> S]
  BY <1>5 DEF d
<1>8. /\ 5 * m \in Nat /\ (5 * m = 0 <=> ns = {})
      /\ u \in Seq(S) /\ Len(u) = 5 * m /\ (ns = {} <=> u = <<>>)
      /\ ns # {} => Last(u) = u[5 * m]
  <2>1. 5 * m \in Nat /\ (5 * m = 0 <=> ns = {}) /\ (5 * m > 0 <=> ns # {})
    BY <1>3
  <2> HIDE DEF u
  <2> QED
    BY <1>7, <2>1, ListIs
<1>9. ns # {} => u[5 * m] = [d EXCEPT !.admin = Without(d.admin, ns)]
  BY <1>6, <1>8
<1> HIDE DEF u
<1>10. /\ ways \o u \in Seq(S) /\ ways \o u # <<>>
       /\ u # <<>> => Last(ways \o u) = Last(u)
       /\ u = <<>> => ways \o u = ways
  BY <1>8, JoinIs
<1> QED
  BY <1>4, <1>8, <1>9, <1>10 DEF d
-------------------------------------------------------------------------------
(* Paths: what lies inside what. *)

LEMMA InsideIs ==
  ASSUME NEW q \in Seq(Nat), NEW p \in Seq(Nat)
  PROVE  Inside(q, p) <=> Len(q) <= Len(p) /\ \A i \in 1 .. Len(q) : q[i] = p[i]
<1>1. CASE Len(q) <= Len(p)
  <2>1. /\ SubSeq(q, 1, Len(q)) = [i \in 1 .. Len(q) |-> q[i]]
        /\ SubSeq(p, 1, Len(q)) = [i \in 1 .. Len(q) |-> p[i]]
    BY <1>1, SMT
  <2>2. [i \in 1 .. Len(q) |-> q[i]] = [i \in 1 .. Len(q) |-> p[i]]
          <=> \A i \in 1 .. Len(q) : q[i] = p[i]
    OBVIOUS
  <2> QED
    BY <1>1, <2>1, <2>2 DEF Inside, IsPrefix
<1>2. CASE ~ (Len(q) <= Len(p))
  BY <1>2 DEF Inside, IsPrefix
<1> QED
  BY <1>1, <1>2

LEMMA InsideSelf == ASSUME NEW p \in Seq(Nat) PROVE Inside(p, p)
BY InsideIs

LEMMA InsideTrans ==
  ASSUME NEW p \in Seq(Nat), NEW q \in Seq(Nat), NEW r \in Seq(Nat), Inside(p, q), Inside(q, r)
  PROVE  Inside(p, r)
BY InsideIs

LEMMA InsideShort ==
  ASSUME NEW p \in Seq(Nat), NEW q \in Seq(Nat), Inside(p, q), Len(q) <= Len(p)
  PROVE  p = q
<1>1. Len(p) = Len(q) /\ \A i \in 1 .. Len(p) : p[i] = q[i]
  BY InsideIs
<1> QED
  BY <1>1, SMTT(40)

\* Of two directories that a third one lies in one lies in the other.
LEMMA InsideChain ==
  ASSUME NEW p \in Seq(Nat), NEW q \in Seq(Nat), NEW r \in Seq(Nat), Inside(p, r), Inside(q, r)
  PROVE  Inside(p, q) \/ Inside(q, p)
<1>1. /\ Len(p) \in Nat /\ Len(q) \in Nat
      /\ \A i \in 1 .. Len(p) : p[i] = r[i]
      /\ \A i \in 1 .. Len(q) : q[i] = r[i]
  BY InsideIs
<1>2. CASE Len(p) <= Len(q)
  <2>1. \A i \in 1 .. Len(p) : p[i] = q[i]
    BY <1>1, <1>2
  <2> QED
    BY <1>2, <2>1, InsideIs
<1>3. CASE Len(q) <= Len(p)
  <2>1. \A i \in 1 .. Len(q) : q[i] = p[i]
    BY <1>1, <1>3
  <2> QED
    BY <1>3, <2>1, InsideIs
<1> QED
  BY <1>1, <1>2, <1>3

LEMMA PathLength == ASSUME NEW p \in Paths PROVE p \in Seq(Nat) /\ Len(p) \in Nat \ {0}
BY EmptySeq DEF Paths

\* The beginning of a path.
LEMMA PrefixIs ==
  ASSUME NEW p \in Seq(Nat), NEW n \in Nat, n <= Len(p)
  PROVE  SubSeq(p, 1, n) \in Seq(Nat) /\ Len(SubSeq(p, 1, n)) = n /\ Inside(SubSeq(p, 1, n), p)
<1> DEFINE s == SubSeq(p, 1, n)
<1>1. \A i \in 1 .. n : p[i] \in Nat
  OBVIOUS
<1>2. /\ s \in Seq(Nat)
      /\ Len(s) = IF 1 <= n THEN n - 1 + 1 ELSE 0
      /\ \A i \in 1 .. n - 1 + 1 : s[i] = p[1 + i - 1]
  BY <1>1, SubSeqProperties, n \in Int, 1 \in Int
<1> HIDE DEF s
<1>3. Len(s) = n
  BY <1>2
<1>4. \A i \in 1 .. Len(s) : s[i] = p[i]
  BY <1>2, <1>3
<1>5. Inside(s, p)
  BY <1>2, <1>3, <1>4, InsideIs
<1> QED
  BY <1>2, <1>3, <1>5 DEF s

\* What lies above a path is one of its beginnings.
LEMMA AboveIs ==
  ASSUME NEW p \in Seq(Nat), NEW q \in Paths, Inside(q, p)
  PROVE  Len(q) \in 1 .. Len(p) /\ q = SubSeq(p, 1, Len(q))
<1>1. q \in Seq(Nat) /\ Len(q) \in Nat \ {0} /\ Len(q) <= Len(p)
  BY InsideIs, PathLength
<1>2. SubSeq(p, 1, Len(q)) \in Seq(Nat) /\ Len(SubSeq(p, 1, Len(q))) = Len(q)
      /\ Inside(SubSeq(p, 1, Len(q)), p)
  BY <1>1, PrefixIs
<1>3. Inside(q, SubSeq(p, 1, Len(q))) \/ Inside(SubSeq(p, 1, Len(q)), q)
  BY <1>1, <1>2, InsideChain
<1> DEFINE u == SubSeq(p, 1, Len(q))
<1> HIDE DEF u
<1>4. u \in Seq(Nat) /\ Len(u) = Len(q) /\ (Inside(q, u) \/ Inside(u, q))
  BY <1>2, <1>3 DEF u
<1>5. q = u
  BY <1>1, <1>4, InsideShort
<1>6. Len(q) \in 1 .. Len(p)
  BY <1>1
<1> QED
  BY <1>5, <1>6 DEF u

\* What follows p in x, and x with q in the place of p.
Rest(p, x) == SubSeq(x, Len(p) + 1, Len(x))
Shift(p, q, x) == q \o Rest(p, x)

LEMMA RestIs ==
  ASSUME NEW p \in Seq(Nat), NEW x \in Seq(Nat), Inside(p, x)
  PROVE  /\ Rest(p, x) \in Seq(Nat) /\ Len(Rest(p, x)) = Len(x) - Len(p)
         /\ \A i \in 1 .. Len(x) - Len(p) : Rest(p, x)[i] = x[Len(p) + i]
<1> DEFINE s == SubSeq(x, Len(p) + 1, Len(x))
<1>1. Len(p) <= Len(x) /\ Len(p) \in Nat /\ Len(x) \in Nat
  BY InsideIs
<1>2. /\ s \in Seq(Nat)
      /\ Len(s) = IF Len(p) + 1 <= Len(x) THEN Len(x) - (Len(p) + 1) + 1 ELSE 0
      /\ \A i \in 1 .. Len(x) - (Len(p) + 1) + 1 : s[i] = x[Len(p) + 1 + i - 1]
  <2>1. \A i \in Len(p) + 1 .. Len(x) : x[i] \in Nat
    BY <1>1
  <2>2. Len(p) + 1 \in Int /\ Len(x) \in Int
    BY <1>1
  <2> QED
    BY <2>1, <2>2, SubSeqProperties
<1> HIDE DEF s
<1>3. Len(s) = Len(x) - Len(p) /\ \A i \in 1 .. Len(x) - Len(p) : s[i] = x[Len(p) + i]
  BY <1>1, <1>2
<1> QED
  BY <1>2, <1>3 DEF Rest, s

LEMMA JoinPath ==
  ASSUME NEW q \in Seq(Nat), NEW s \in Seq(Nat)
  PROVE  /\ q \o s \in Seq(Nat) /\ Len(q \o s) = Len(q) + Len(s)
         /\ \A i \in 1 .. Len(q) : (q \o s)[i] = q[i]
         /\ \A i \in 1 .. Len(s) : (q \o s)[Len(q) + i] = s[i]
         /\ Inside(q, q \o s)
<1>1. /\ q \o s \in Seq(Nat) /\ Len(q \o s) = Len(q) + Len(s)
      /\ \A i \in 1 .. Len(q) + Len(s) : (q \o s)[i] = IF i <= Len(q) THEN q[i] ELSE s[i - Len(q)]
  BY ConcatProperties
<1>2. Len(q) \in Nat /\ Len(s) \in Nat
  BY LenProperties
<1>3. ASSUME NEW i \in 1 .. Len(q) PROVE (q \o s)[i] = q[i]
  BY <1>1, <1>2
<1>4. ASSUME NEW i \in 1 .. Len(s) PROVE (q \o s)[Len(q) + i] = s[i]
  <2>1. /\ Len(q) + i \in 1 .. Len(q) + Len(s) /\ ~ (Len(q) + i <= Len(q))
        /\ Len(q) + i - Len(q) = i
    BY <1>2
  <2> QED
    BY <1>1, <2>1
<1>5. Inside(q, q \o s)
  <2>1. Len(q) <= Len(q \o s) /\ \A i \in 1 .. Len(q) : q[i] = (q \o s)[i]
    BY <1>1, <1>2, <1>3
  <2> QED
    BY <1>1, <2>1, InsideIs
<1> QED
  BY <1>1, <1>3, <1>4, <1>5

\* Shifting there and back is nothing.
LEMMA ShiftIs ==
  ASSUME NEW p \in Seq(Nat), NEW q \in Seq(Nat), NEW x \in Seq(Nat), Inside(p, x)
  PROVE  /\ Shift(p, q, x) \in Seq(Nat) /\ Inside(q, Shift(p, q, x))
         /\ Len(Shift(p, q, x)) = Len(q) + (Len(x) - Len(p))
         /\ Shift(q, p, Shift(p, q, x)) = x
<1> DEFINE s == Rest(p, x)
           y == q \o s
<1>1. /\ s \in Seq(Nat) /\ Len(s) = Len(x) - Len(p)
      /\ \A i \in 1 .. Len(x) - Len(p) : s[i] = x[Len(p) + i]
  BY RestIs
<1>2. Len(p) \in Nat /\ Len(x) \in Nat /\ Len(q) \in Nat /\ Len(p) <= Len(x)
      /\ \A i \in 1 .. Len(p) : p[i] = x[i]
  BY InsideIs
<1> HIDE DEF s
<1>3. /\ y \in Seq(Nat) /\ Len(y) = Len(q) + Len(s) /\ Inside(q, y)
      /\ \A i \in 1 .. Len(s) : y[Len(q) + i] = s[i]
  BY <1>1, JoinPath
<1> HIDE DEF y
<1> DEFINE r == Rest(q, y)
           z == p \o r
<1>4. /\ r \in Seq(Nat) /\ Len(r) = Len(y) - Len(q)
      /\ \A i \in 1 .. Len(y) - Len(q) : r[i] = y[Len(q) + i]
  BY <1>3, RestIs
<1> HIDE DEF r
<1>5. /\ z \in Seq(Nat) /\ Len(z) = Len(p) + Len(r)
      /\ \A i \in 1 .. Len(p) : z[i] = p[i]
      /\ \A i \in 1 .. Len(r) : z[Len(p) + i] = r[i]
  BY <1>4, JoinPath
<1> HIDE DEF z
<1>6. Len(z) = Len(x) /\ Len(r) = Len(x) - Len(p) /\ Len(s) = Len(r)
  BY <1>1, <1>2, <1>3, <1>4, <1>5
<1>7. ASSUME NEW i \in 1 .. Len(x) PROVE z[i] = x[i]
  <2>1. CASE i <= Len(p)
    BY <1>2, <1>5, <2>1
  <2>2. CASE i > Len(p)
    <3> DEFINE k == i - Len(p)
    <3>1. k \in 1 .. Len(r) /\ Len(p) + k = i
      BY <1>2, <1>6, <2>2
    <3>2. z[i] = r[k] /\ r[k] = y[Len(q) + k] /\ y[Len(q) + k] = s[k] /\ s[k] = x[i]
      BY <1>1, <1>3, <1>4, <1>5, <1>6, <3>1
    <3> QED
      BY <3>2
  <2> QED
    BY <1>2, <2>1, <2>2
<1>8. z = x
  BY <1>5, <1>6, <1>7, SeqEqual
<1>9. Shift(p, q, x) = y /\ Shift(q, p, y) = z
  BY DEF Shift, y, s, z, r
<1> QED
  BY <1>1, <1>2, <1>3, <1>8, <1>9

\* Shifting keeps what lies inside what.
LEMMA ShiftInside ==
  ASSUME NEW p \in Seq(Nat), NEW q \in Seq(Nat), NEW x \in Seq(Nat), NEW y \in Seq(Nat),
         Inside(p, x), Inside(p, y), Inside(x, y)
  PROVE  Inside(Shift(p, q, x), Shift(p, q, y))
<1> DEFINE r == Rest(p, x)
           s == Rest(p, y)
<1>1. /\ r \in Seq(Nat) /\ Len(r) = Len(x) - Len(p)
      /\ \A i \in 1 .. Len(x) - Len(p) : r[i] = x[Len(p) + i]
      /\ s \in Seq(Nat) /\ Len(s) = Len(y) - Len(p)
      /\ \A i \in 1 .. Len(y) - Len(p) : s[i] = y[Len(p) + i]
  BY RestIs
<1>2. /\ Len(p) \in Nat /\ Len(x) \in Nat /\ Len(y) \in Nat /\ Len(q) \in Nat
      /\ Len(p) <= Len(x) /\ Len(x) <= Len(y) /\ \A i \in 1 .. Len(x) : x[i] = y[i]
  BY InsideIs
<1> HIDE DEF r, s
<1> DEFINE v == q \o r
           w == q \o s
<1>3. /\ v \in Seq(Nat) /\ Len(v) = Len(q) + Len(r)
      /\ \A i \in 1 .. Len(q) : v[i] = q[i]
      /\ \A i \in 1 .. Len(r) : v[Len(q) + i] = r[i]
      /\ w \in Seq(Nat) /\ Len(w) = Len(q) + Len(s)
      /\ \A i \in 1 .. Len(q) : w[i] = q[i]
      /\ \A i \in 1 .. Len(s) : w[Len(q) + i] = s[i]
  BY <1>1, JoinPath
<1> HIDE DEF v, w
<1>4. ASSUME NEW i \in 1 .. Len(v) PROVE v[i] = w[i]
  <2>1. CASE i <= Len(q)
    BY <1>2, <1>3, <2>1
  <2>2. CASE i > Len(q)
    <3> DEFINE k == i - Len(q)
    <3>0. k \in Int /\ 1 <= k /\ k <= Len(x) - Len(p) /\ Len(q) + k = i
      BY <1>1, <1>2, <1>3, <2>2
    <3>1. k \in 1 .. Len(x) - Len(p) /\ k \in 1 .. Len(y) - Len(p) /\ Len(q) + k = i
          /\ Len(p) + k \in 1 .. Len(x)
      <4> HIDE DEF k
      <4> QED BY <1>2, <3>0
    <3>2. v[i] = r[k] /\ r[k] = x[Len(p) + k] /\ x[Len(p) + k] = y[Len(p) + k]
          /\ w[i] = s[k] /\ s[k] = y[Len(p) + k]
      BY <1>1, <1>2, <1>3, <3>1
    <3> QED
      BY <3>2
  <2> QED
    BY <1>2, <1>3, <2>1, <2>2
<1>5. Len(v) <= Len(w)
  BY <1>1, <1>2, <1>3
<1>6. Inside(v, w)
  BY <1>3, <1>4, <1>5, InsideIs
<1> QED
  BY <1>6 DEF Shift, v, w, r, s
-------------------------------------------------------------------------------
(* Directories. *)

LEMMA HavingIs ==
  ASSUME NEW t \in Trees, NEW p \in DOMAIN t, NEW c \in Dirs
  PROVE  LET u == Having(t, p, c)
         IN  /\ u \in Trees /\ DOMAIN u = DOMAIN t /\ u[p] = c
             /\ \A q \in DOMAIN t : q # p => u[q] = t[q]
<1> DEFINE u == Having(t, p, c)
<1>1. DOMAIN u = DOMAIN t /\ \A q \in DOMAIN t : u[q] = IF q = p THEN c ELSE t[q]
  BY DEF Having
<1>2. u \in [DOMAIN t -> Dirs]
  BY TreeIs DEF Having
<1>3. u \in Trees
  <2> HIDE DEF u
  <2> QED BY <1>2, TreeIs, IsTree
<1> QED
  BY <1>1, <1>3

LEMMA WithGitIs ==
  ASSUME NEW t \in Trees, NEW p \in DOMAIN t, NEW g \in [name : Nat, depth : Nat]
  PROVE  LET u == WithGit(t, p, g)
         IN  /\ u \in Trees /\ DOMAIN u = DOMAIN t
             /\ u[p].git = g /\ u[p].work = t[p].work /\ u[p].lock = t[p].lock
             /\ \A q \in DOMAIN t : q # p => u[q] = t[q]
             /\ \A q \in DOMAIN t : u[q].work = t[q].work
<1> DEFINE c == [t[p] EXCEPT !.git = g]
           u == WithGit(t, p, g)
<1>1. c \in Dirs /\ c.git = g /\ c.work = t[p].work /\ c.lock = t[p].lock
  BY TreeIs DEF Dirs
<1>2. u = Having(t, p, c)
  BY DEF WithGit
<1> HIDE DEF c, u
<1>3. /\ u \in Trees /\ DOMAIN u = DOMAIN t /\ u[p] = c
      /\ \A q \in DOMAIN t : q # p => u[q] = t[q]
  BY <1>1, <1>2, HavingIs
<1>4. \A q \in DOMAIN t : u[q].work = t[q].work
  BY <1>1, <1>3
<1> QED
  BY <1>1, <1>3, <1>4 DEF u

LEMMA WithWorkIs ==
  ASSUME NEW t \in Trees, NEW p \in DOMAIN t, NEW w \in Works
  PROVE  LET u == WithWork(t, p, w)
         IN  /\ u \in Trees /\ DOMAIN u = DOMAIN t
             /\ u[p].git = t[p].git /\ u[p].work = w /\ u[p].lock = t[p].lock
             /\ \A q \in DOMAIN t : q # p => u[q] = t[q]
<1> DEFINE c == [t[p] EXCEPT !.work = w]
           u == WithWork(t, p, w)
<1>1. c \in Dirs /\ c.git = t[p].git /\ c.work = w /\ c.lock = t[p].lock
  BY TreeIs DEF Dirs
<1>2. u = Having(t, p, c)
  BY DEF WithWork
<1> HIDE DEF c, u
<1>3. /\ u \in Trees /\ DOMAIN u = DOMAIN t /\ u[p] = c
      /\ \A q \in DOMAIN t : q # p => u[q] = t[q]
  BY <1>1, <1>2, HavingIs
<1> QED
  BY <1>1, <1>3 DEF u

LEMMA WithLockIs ==
  ASSUME NEW t \in Trees, NEW p \in DOMAIN t
  PROVE  \A u \in {WithLock(t, p, TRUE), WithLock(t, p, FALSE)} :
             /\ u \in Trees /\ DOMAIN u = DOMAIN t /\ u[p].git = t[p].git
             /\ \A q \in DOMAIN t : u[q].work = t[q].work
<1>1. ASSUME NEW l \in BOOLEAN, NEW u, u = WithLock(t, p, l)
      PROVE  /\ u \in Trees /\ DOMAIN u = DOMAIN t /\ u[p].git = t[p].git
             /\ \A q \in DOMAIN t : u[q].work = t[q].work
  <2> DEFINE c == [t[p] EXCEPT !.lock = l]
  <2>1. c \in Dirs /\ c.git = t[p].git /\ c.work = t[p].work
    BY TreeIs DEF Dirs
  <2>2. u = Having(t, p, c)
    BY <1>1 DEF WithLock
  <2> HIDE DEF c
  <2>3. /\ u \in Trees /\ DOMAIN u = DOMAIN t /\ u[p] = c
        /\ \A q \in DOMAIN t : q # p => u[q] = t[q]
    BY <2>1, <2>2, HavingIs
  <2> QED BY <2>1, <2>3
<1>2. ASSUME NEW u, u = WithLock(t, p, TRUE) \/ u = WithLock(t, p, FALSE)
      PROVE  /\ u \in Trees /\ DOMAIN u = DOMAIN t /\ u[p].git = t[p].git
             /\ \A q \in DOMAIN t : u[q].work = t[q].work
  <2>1. PICK l \in BOOLEAN : u = WithLock(t, p, l)
    BY <1>2, Zenon
  <2> QED BY <1>1, <2>1
<1> QED
  BY <1>2

LEMMA RemovedIs ==
  ASSUME NEW t \in Trees, NEW p \in Paths
  PROVE  LET u == Removed(t, p)
         IN  /\ u \in Trees /\ DOMAIN u = {x \in DOMAIN t : ~Inside(p, x)}
             /\ \A x \in DOMAIN u : u[x] = t[x]
<1> DEFINE u == Removed(t, p)
           S == {x \in DOMAIN t : ~Inside(p, x)}
<1>1. u = [x \in S |-> t[x]]
  BY DEF Removed
<1>2. S \subseteq DOMAIN t /\ S \subseteq Paths /\ IsFiniteSet(S)
  BY TreeIs, FS_Subset
<1>3. u \in [S -> Dirs]
  BY <1>1, <1>2, TreeIs
<1>4. ASSUME NEW x \in S, NEW y \in Paths, Inside(y, x) PROVE y \in S
  <2>1. y \in DOMAIN t
    BY <1>4, TreeIs
  <2>2. ASSUME Inside(p, y) PROVE FALSE
    BY <1>2, <1>4, <2>2, InsideTrans DEF Paths
  <2> QED
    BY <2>1, <2>2
<1>5. u \in Trees
  <2> HIDE DEF u, S
  <2> QED BY <1>2, <1>3, <1>4, IsTree
<1> QED
  BY <1>1, <1>5

LEMMA WithDirIs ==
  ASSUME NEW t \in Trees, NEW p \in Paths
  PROVE  LET u == WithDir(t, p)
         IN  /\ u \in Trees /\ DOMAIN t \subseteq DOMAIN u /\ p \in DOMAIN u
             /\ \A x \in DOMAIN u : u[x] = IF x \in DOMAIN t THEN t[x] ELSE EmptyDir
<1> DEFINE u == WithDir(t, p)
           A == {SubSeq(p, 1, i) : i \in 1 .. Len(p)}
           S == DOMAIN t \cup A
<1>1. u = [x \in S |-> IF x \in DOMAIN t THEN t[x] ELSE EmptyDir]
  BY DEF WithDir
<1>2. p \in Seq(Nat) /\ Len(p) \in Nat \ {0}
  BY PathLength
<1>3. A \subseteq Paths
  <2>1. ASSUME NEW i \in 1 .. Len(p) PROVE SubSeq(p, 1, i) \in Paths
    <3>1. i \in Nat /\ i <= Len(p) /\ i # 0
      BY <1>2
    <3>2. SubSeq(p, 1, i) \in Seq(Nat) /\ Len(SubSeq(p, 1, i)) = i
      BY <1>2, <3>1, PrefixIs
    <3> QED BY <3>1, <3>2, EmptySeq DEF Paths
  <2> QED BY <2>1
<1>4. IsFiniteSet(A)
  <2> DEFINE f == [i \in 1 .. Len(p) |-> SubSeq(p, 1, i)]
  <2>1. f \in Surjection(1 .. Len(p), A)
    BY DEF Surjection
  <2>2. IsFiniteSet(1 .. Len(p))
    BY <1>2, FS_Interval
  <2> HIDE DEF f, A
  <2> QED BY <2>1, <2>2, FS_Surjection
<1>5. S \subseteq Paths /\ IsFiniteSet(S)
  <2> HIDE DEF A
  <2> QED BY <1>3, <1>4, TreeIs, FS_Union
<1>6. p \in A
  <2>1. SubSeq(p, 1, Len(p)) = p /\ Len(p) \in 1 .. Len(p)
    BY <1>2, SubSeqFull
  <2> QED BY <2>1
<1>7. ASSUME NEW x \in S, NEW y \in Paths, Inside(y, x) PROVE y \in S
  <2>1. CASE x \in DOMAIN t
    BY <1>7, <2>1, TreeIs
  <2>2. CASE x \in A
    <3>1. PICK i \in 1 .. Len(p) : x = SubSeq(p, 1, i)
      BY <2>2
    <3>2. x \in Seq(Nat) /\ Inside(x, p)
      BY <1>2, <3>1, PrefixIs
    <3>3. Inside(y, p)
      BY <1>2, <1>7, <3>2, InsideTrans DEF Paths
    <3>4. Len(y) \in 1 .. Len(p) /\ y = SubSeq(p, 1, Len(y))
      BY <1>2, <3>3, AboveIs
    <3> QED BY <3>4
  <2> QED BY <2>1, <2>2
<1>8. u \in [S -> Dirs]
  BY <1>1, TreeIs, EmptyIs
<1>9. u \in Trees
  <2> HIDE DEF u, S
  <2> QED BY <1>5, <1>7, <1>8, IsTree
<1> QED
  BY <1>1, <1>6, <1>9
-------------------------------------------------------------------------------
(* A directory that is renamed. *)

\* What lies above q, but is not q, lies above its parent.
LEMMA AboveFront ==
  ASSUME NEW q \in Paths, NEW z \in Paths, Inside(z, q), z # q
  PROVE  Len(q) > 1 /\ Front(q) \in Paths /\ Inside(z, Front(q)) /\ Inside(Front(q), q)
<1>1. /\ q \in Seq(Nat) /\ z \in Seq(Nat) /\ Len(q) \in Nat \ {0} /\ Len(z) \in Nat \ {0}
      /\ Len(z) <= Len(q) /\ Len(z) # Len(q)
  BY PathLength, InsideIs, InsideShort
<1> DEFINE f == SubSeq(q, 1, Len(q) - 1)
<1>2. Len(q) - 1 \in Nat /\ Len(q) - 1 <= Len(q)
  BY <1>1
<1>3. f \in Seq(Nat) /\ Len(f) = Len(q) - 1 /\ Inside(f, q)
  BY <1>1, <1>2, PrefixIs
<1> HIDE DEF f
<1>4. Inside(z, f) \/ Inside(f, z)
  BY <1>1, <1>3, InsideChain
<1>5. Inside(z, f)
  BY <1>1, <1>3, <1>4, InsideShort, InsideSelf
<1>6. f # <<>> /\ Len(q) > 1
  BY <1>1, <1>3, EmptySeq
<1> QED
  BY <1>3, <1>5, <1>6 DEF f, Front, Paths

MayGo(t, p, q) ==
    /\ p \in DOMAIN t /\ q \in Paths /\ q \notin DOMAIN t /\ ~Inside(p, q)
    /\ Len(q) > 1 => Front(q) \in DOMAIN t

\* Where a directory is after p was renamed.
After(p, q, x) == IF Inside(p, x) THEN Shift(p, q, x) ELSE x

LEMMA RenamedDomain ==
  ASSUME NEW t \in Trees, NEW p, NEW q, MayGo(t, p, q)
  PROVE  LET u == Renamed(t, p, q)
         IN  /\ \A x \in DOMAIN t : ~Inside(q, x)
             /\ \A x \in DOMAIN t : After(p, q, x) \in DOMAIN u /\ u[After(p, q, x)] = t[x]
             /\ \A y \in DOMAIN u : \E x \in DOMAIN t : y = After(p, q, x)
             /\ \A x, y \in DOMAIN t : After(p, q, x) = After(p, q, y) => x = y
             /\ \A y \in DOMAIN u :
                    \/ Inside(q, y) /\ Shift(q, p, y) \in DOMAIN t /\ Inside(p, Shift(q, p, y))
                    \/ ~Inside(q, y) /\ y \in DOMAIN t /\ ~Inside(p, y)
             /\ u = [y \in DOMAIN u |-> u[y]]
<1> DEFINE u == Renamed(t, p, q)
           T == {q \o SubSeq(x, Len(p) + 1, Len(x)) : x \in {x \in DOMAIN t : Inside(p, x)}}
           S == {x \in DOMAIN t : ~Inside(p, x)}
<1>1. p \in Paths /\ p \in Seq(Nat) /\ q \in Seq(Nat) /\ DOMAIN t \subseteq Seq(Nat) /\ DOMAIN t \subseteq Paths
  BY TreeIs DEF MayGo, Paths
<1>2. u = [y \in T \cup S |-> IF y \in T THEN t[p \o SubSeq(y, Len(q) + 1, Len(y))] ELSE t[y]]
  BY <1>1, RemovedIs DEF Renamed
<1>3. T = {Shift(p, q, x) : x \in {x \in DOMAIN t : Inside(p, x)}}
  BY DEF Shift, Rest
<1>4. DOMAIN u = T \cup S /\ \A y \in DOMAIN u : u[y] = IF y \in T THEN t[Shift(q, p, y)] ELSE t[y]
  BY <1>2 DEF Shift, Rest
<1>5. u = [y \in DOMAIN u |-> u[y]]
  BY <1>2
<1> HIDE DEF u, T
<1>6. ASSUME NEW x \in DOMAIN t PROVE ~Inside(q, x)
  BY TreeIs DEF MayGo
<1>7. ASSUME NEW x \in DOMAIN t, Inside(p, x)
      PROVE  Shift(p, q, x) \in T /\ Inside(q, Shift(p, q, x)) /\ Shift(q, p, Shift(p, q, x)) = x
  <2>1. Shift(p, q, x) \in T
    BY <1>3, <1>7
  <2> QED BY <1>1, <1>7, <2>1, ShiftIs
<1>8. ASSUME NEW y \in T
      PROVE  /\ Inside(q, y) /\ Shift(q, p, y) \in DOMAIN t /\ Inside(p, Shift(q, p, y))
             /\ \E x \in DOMAIN t : Inside(p, x) /\ y = Shift(p, q, x)
  <2>1. PICK x \in DOMAIN t : Inside(p, x) /\ y = Shift(p, q, x)
    BY <1>3
  <2> QED BY <1>7, <2>1
<1>9. ASSUME NEW x \in DOMAIN t PROVE After(p, q, x) \in DOMAIN u /\ u[After(p, q, x)] = t[x]
  <2>1. CASE Inside(p, x)
    BY <1>4, <1>7, <2>1 DEF After
  <2>2. CASE ~Inside(p, x)
    <3>1. x \in S /\ x \notin T
      BY <1>6, <1>8, <2>2
    <3> QED BY <1>4, <2>2, <3>1 DEF After
  <2> QED BY <2>1, <2>2
<1>10. ASSUME NEW y \in DOMAIN u PROVE \E x \in DOMAIN t : y = After(p, q, x)
  <2>1. CASE y \in T
    BY <1>8, <2>1 DEF After
  <2>2. CASE y \in S
    BY <2>2 DEF After
  <2> QED BY <1>4, <2>1, <2>2
<1>11. ASSUME NEW x \in DOMAIN t, NEW y \in DOMAIN t, After(p, q, x) = After(p, q, y) PROVE x = y
  <2>1. CASE Inside(p, x) /\ Inside(p, y)
    BY <1>7, <1>11, <2>1 DEF After
  <2>2. CASE Inside(p, x) /\ ~Inside(p, y)
    BY <1>6, <1>7, <1>11, <2>2 DEF After
  <2>3. CASE ~Inside(p, x) /\ Inside(p, y)
    BY <1>6, <1>7, <1>11, <2>3 DEF After
  <2>4. CASE ~Inside(p, x) /\ ~Inside(p, y)
    BY <1>11, <2>4 DEF After
  <2> QED BY <2>1, <2>2, <2>3, <2>4
<1>12. ASSUME NEW y \in DOMAIN u
       PROVE  \/ Inside(q, y) /\ Shift(q, p, y) \in DOMAIN t /\ Inside(p, Shift(q, p, y))
              \/ ~Inside(q, y) /\ y \in DOMAIN t /\ ~Inside(p, y)
  <2>1. CASE y \in T
    BY <1>8, <2>1
  <2>2. CASE y \in S
    BY <1>6, <2>2
  <2> QED BY <1>4, <2>1, <2>2
<1> QED
  BY <1>5, <1>6, <1>9, <1>10, <1>11, <1>12 DEF u

LEMMA RenamedIs ==
  ASSUME NEW t \in Trees, NEW p, NEW q, MayGo(t, p, q)
  PROVE  LET u == Renamed(t, p, q)
         IN  /\ u \in Trees /\ q \in DOMAIN u /\ u[q] = t[p]
             /\ \A x \in DOMAIN t : ~Inside(p, x) => x \in DOMAIN u /\ u[x] = t[x]
             /\ \A y \in DOMAIN u : y = q \/ Inside(q, y) \/ (y \in DOMAIN t /\ u[y] = t[y])
             /\ p \notin DOMAIN u
<1> DEFINE u == Renamed(t, p, q)
<1>1. /\ p \in Paths /\ p \in Seq(Nat) /\ q \in Seq(Nat) /\ q \in Paths /\ p \in DOMAIN t
      /\ DOMAIN t \subseteq Seq(Nat) /\ DOMAIN t \subseteq Paths /\ IsFiniteSet(DOMAIN t)
  BY TreeIs DEF MayGo, Paths
<1>2. /\ \A x \in DOMAIN t : ~Inside(q, x)
      /\ \A x \in DOMAIN t : After(p, q, x) \in DOMAIN u /\ u[After(p, q, x)] = t[x]
      /\ \A y \in DOMAIN u : \E x \in DOMAIN t : y = After(p, q, x)
      /\ \A y \in DOMAIN u :
             \/ Inside(q, y) /\ Shift(q, p, y) \in DOMAIN t /\ Inside(p, Shift(q, p, y))
             \/ ~Inside(q, y) /\ y \in DOMAIN t /\ ~Inside(p, y)
      /\ u = [y \in DOMAIN u |-> u[y]]
  BY RenamedDomain
<1> HIDE DEF u
<1>3. ASSUME NEW x \in DOMAIN t PROVE After(p, q, x) \in Paths
  <2>1. CASE Inside(p, x)
    <3>1. Shift(p, q, x) \in Seq(Nat) /\ Inside(q, Shift(p, q, x))
      BY <1>1, <2>1, ShiftIs
    <3>2. Len(q) <= Len(Shift(p, q, x)) /\ Len(q) \in Nat \ {0}
      BY <1>1, <3>1, InsideIs, PathLength
    <3> QED BY <2>1, <3>1, <3>2, EmptySeq DEF After, Paths
  <2>2. CASE ~Inside(p, x)
    BY <1>1, <2>2 DEF After
  <2> QED BY <2>1, <2>2
<1>4. DOMAIN u \subseteq Paths /\ u \in [DOMAIN u -> Dirs]
  <2>1. ASSUME NEW y \in DOMAIN u PROVE y \in Paths /\ u[y] \in Dirs
    <3>1. PICK x \in DOMAIN t : y = After(p, q, x)
      BY <1>2
    <3> QED BY <1>2, <1>3, <3>1, TreeIs
  <2> QED BY <1>2, <2>1
<1>5. IsFiniteSet(DOMAIN u)
  <2> DEFINE f == [x \in DOMAIN t |-> After(p, q, x)]
  <2>1. f \in Surjection(DOMAIN t, DOMAIN u)
    BY <1>2 DEF Surjection
  <2> HIDE DEF f
  <2> QED BY <1>1, <2>1, FS_Surjection
<1>6. ASSUME NEW y \in DOMAIN u, NEW z \in Paths, Inside(z, y) PROVE z \in DOMAIN u
  <2>1. y \in Seq(Nat) /\ z \in Seq(Nat)
    BY <1>4 DEF Paths
  <2>2. ASSUME z \in DOMAIN t, ~Inside(p, z) PROVE z \in DOMAIN u
    BY <1>2, <2>2 DEF After
  <2>3. CASE ~Inside(q, y) /\ y \in DOMAIN t /\ ~Inside(p, y)
    <3>1. z \in DOMAIN t /\ ~Inside(p, z)
      BY <1>1, <1>6, <2>1, <2>3, TreeIs, InsideTrans
    <3> QED BY <2>2, <3>1
  <2>4. CASE Inside(q, y) /\ Shift(q, p, y) \in DOMAIN t /\ Inside(p, Shift(q, p, y)) /\ Inside(q, z)
    <3>1. Inside(Shift(q, p, z), Shift(q, p, y))
      BY <1>1, <1>6, <2>1, <2>4, ShiftInside
    <3>2. Shift(q, p, z) \in Seq(Nat) /\ Inside(p, Shift(q, p, z)) /\ Shift(p, q, Shift(q, p, z)) = z
      BY <1>1, <2>1, <2>4, ShiftIs
    <3>3. Shift(q, p, z) \in Paths
      <4>1. Len(p) <= Len(Shift(q, p, z)) /\ Len(p) \in Nat \ {0}
        BY <1>1, <3>2, InsideIs, PathLength
      <4> QED BY <3>2, <4>1, EmptySeq DEF Paths
    <3>4. Shift(q, p, z) \in DOMAIN t
      BY <2>4, <3>1, <3>3, TreeIs
    <3>5. After(p, q, Shift(q, p, z)) = z
      BY <3>2 DEF After
    <3> QED BY <1>2, <3>4, <3>5
  <2>5. CASE Inside(q, y) /\ Shift(q, p, y) \in DOMAIN t /\ ~Inside(q, z)
    <3>1. Inside(z, q) /\ z # q
      BY <1>1, <1>6, <2>1, <2>5, InsideChain, InsideSelf
    <3>2. Len(q) > 1 /\ Inside(z, Front(q))
      BY <1>1, <3>1, AboveFront
    <3>3. z \in DOMAIN t
      BY <3>2, TreeIs DEF MayGo
    <3>4. ~Inside(p, z)
      BY <1>1, <2>1, <3>1, InsideTrans DEF MayGo
    <3> QED BY <2>2, <3>3, <3>4
  <2> QED BY <1>2, <2>3, <2>4, <2>5
<1>7. u \in Trees
  BY <1>4, <1>5, <1>6, IsTree
<1>8. Shift(p, q, p) = q
  <2>1. Inside(p, p)
    BY <1>1, InsideSelf
  <2>2. /\ Shift(p, q, p) \in Seq(Nat) /\ Inside(q, Shift(p, q, p))
        /\ Len(Shift(p, q, p)) = Len(q) + (Len(p) - Len(p))
    BY <1>1, <2>1, ShiftIs
  <2>3. Len(p) \in Nat /\ Len(q) \in Nat
    BY <1>1, PathLength
  <2>4. Len(Shift(p, q, p)) <= Len(q)
    BY <2>2, <2>3
  <2> QED BY <1>1, <2>2, <2>4, InsideShort
<1>9. q \in DOMAIN u /\ u[q] = t[p]
  BY <1>1, <1>2, <1>8, InsideSelf DEF After
<1>10. ASSUME NEW x \in DOMAIN t, ~Inside(p, x) PROVE x \in DOMAIN u /\ u[x] = t[x]
  BY <1>2, <1>10 DEF After
<1>11. ASSUME NEW y \in DOMAIN u
       PROVE  y = q \/ Inside(q, y) \/ (y \in DOMAIN t /\ u[y] = t[y])
  BY <1>2, <1>10
<1>12. p \notin DOMAIN u
  BY <1>1, <1>2, InsideSelf DEF MayGo
<1> QED
  BY <1>7, <1>9, <1>10, <1>11, <1>12 DEF u

LEMMA MayReturn ==
  ASSUME NEW t \in Trees, NEW p, NEW q, MayGo(t, p, q)
  PROVE  MayGo(Renamed(t, p, q), q, p)
<1> DEFINE u == Renamed(t, p, q)
<1>1. /\ p \in Paths /\ p \in Seq(Nat) /\ q \in Seq(Nat) /\ q \in Paths /\ p \in DOMAIN t
      /\ Len(p) \in Nat \ {0}
  BY TreeIs, PathLength DEF MayGo, Paths
<1>2. /\ q \in DOMAIN u /\ p \notin DOMAIN u
      /\ \A x \in DOMAIN t : ~Inside(p, x) => x \in DOMAIN u
  BY RenamedIs
<1>3. \A x \in DOMAIN t : ~Inside(q, x)
  BY RenamedDomain
<1> HIDE DEF u
<1>4. ASSUME Len(p) > 1 PROVE Front(p) \in DOMAIN u
  <2> DEFINE f == SubSeq(p, 1, Len(p) - 1)
  <2>0. Len(p) \in Nat
    BY <1>1
  <2>1. Len(p) - 1 \in Nat /\ Len(p) - 1 <= Len(p) /\ Len(p) - 1 # 0
    <3>1. \A n \in Nat : n > 1 => n - 1 \in Nat /\ n - 1 <= n /\ n - 1 # 0
      OBVIOUS
    <3> QED BY <1>4, <2>0, <3>1
  <2>2. f \in Seq(Nat) /\ Len(f) = Len(p) - 1 /\ Inside(f, p)
    BY <1>1, <2>1, PrefixIs
  <2> HIDE DEF f
  <2>3. f \in Paths
    BY <2>1, <2>2, EmptySeq DEF Paths
  <2>4. f \in DOMAIN t
    BY <1>1, <2>2, <2>3, TreeIs
  <2>5. ~Inside(p, f)
    BY <1>1, <2>2, InsideIs
  <2> QED BY <1>2, <2>4, <2>5 DEF f, Front
<1> QED
  BY <1>1, <1>2, <1>3, <1>4 DEF MayGo, u

LEMMA RenamedBack ==
  ASSUME NEW t \in Trees, NEW p, NEW q, MayGo(t, p, q)
  PROVE  Renamed(Renamed(t, p, q), q, p) = t
<1> DEFINE u == Renamed(t, p, q)
           v == Renamed(u, q, p)
<1>1. u \in Trees /\ MayGo(u, q, p)
  BY RenamedIs, MayReturn
<1>2. /\ \A x \in DOMAIN t : ~Inside(q, x)
      /\ \A x \in DOMAIN t : After(p, q, x) \in DOMAIN u /\ u[After(p, q, x)] = t[x]
      /\ \A y \in DOMAIN u : \E x \in DOMAIN t : y = After(p, q, x)
  BY RenamedDomain
<1> HIDE DEF u
<1>3. /\ \A y \in DOMAIN u : After(q, p, y) \in DOMAIN v /\ v[After(q, p, y)] = u[y]
      /\ \A x \in DOMAIN v : \E y \in DOMAIN u : x = After(q, p, y)
      /\ v = [x \in DOMAIN v |-> v[x]]
  BY <1>1, RenamedDomain
<1> HIDE DEF v
<1>4. ASSUME NEW x \in DOMAIN t PROVE After(q, p, After(p, q, x)) = x
  <2>1. p \in Seq(Nat) /\ q \in Seq(Nat) /\ x \in Seq(Nat)
    BY TreeIs DEF MayGo, Paths
  <2>2. CASE Inside(p, x)
    BY <2>1, <2>2, ShiftIs DEF After
  <2>3. CASE ~Inside(p, x)
    BY <1>2, <2>3 DEF After
  <2> QED BY <2>2, <2>3
<1>5. DOMAIN v = DOMAIN t /\ \A x \in DOMAIN t : v[x] = t[x]
  BY <1>2, <1>3, <1>4
<1>6. v = t
  BY <1>3, <1>5, TreeIs
<1> QED
  BY <1>6 DEF u, v

\* A change has moved with what it lies in.
LEMMA DirtyIs ==
  ASSUME NEW d \in Repos
  PROVE  Dirty(d) \subseteq DOMAIN d.tree /\ IsFiniteSet(Dirty(d)) /\ d.tree \in Trees
<1>1. d.tree \in Trees
  BY DEF Repos
<1> QED
  BY <1>1, TreeIs, FS_Subset DEF Dirty

LEMMA DirtySame ==
  ASSUME NEW d, NEW e, DOMAIN e.tree = DOMAIN d.tree,
         \A x \in DOMAIN d.tree : e.tree[x].work = d.tree[x].work
  PROVE  Dirty(e) = Dirty(d)
BY DEF Dirty

LEMMA DirtyMoved ==
  ASSUME NEW d \in Repos, NEW e \in Repos, NEW p, NEW q, MayGo(d.tree, p, q),
         e.tree = Renamed(d.tree, p, q)
  PROVE  Cardinality(Dirty(e)) = Cardinality(Dirty(d))
<1> DEFINE t == d.tree
           u == e.tree
           f == [x \in Dirty(d) |-> After(p, q, x)]
<1>1. /\ \A x \in DOMAIN t : After(p, q, x) \in DOMAIN u /\ u[After(p, q, x)] = t[x]
      /\ \A y \in DOMAIN u : \E x \in DOMAIN t : y = After(p, q, x)
      /\ \A x, y \in DOMAIN t : After(p, q, x) = After(p, q, y) => x = y
  BY DirtyIs, RenamedDomain
<1> HIDE DEF t, u
<1>2. /\ \A x : x \in Dirty(d) <=> x \in DOMAIN t /\ t[x].work = "dirty"
      /\ \A x : x \in Dirty(e) <=> x \in DOMAIN u /\ u[x].work = "dirty"
  BY DEF Dirty, t, u
<1>3. f \in Bijection(Dirty(d), Dirty(e))
  <2>1. \A x \in Dirty(d) : f[x] \in Dirty(e)
    BY <1>1, <1>2
  <2>2. \A x, y \in Dirty(d) : f[x] = f[y] => x = y
    BY <1>1, <1>2
  <2>3. \A y \in Dirty(e) : \E x \in Dirty(d) : f[x] = y
    BY <1>1, <1>2
  <2> QED BY <2>1, <2>2, <2>3 DEF Bijection, Injection, Surjection, IsInjective
<1>4. ExistsBijection(Dirty(d), Dirty(e))
  BY <1>3 DEF ExistsBijection
<1> QED
  BY <1>4, DirtyIs, FS_Bijection

-------------------------------------------------------------------------------
(* What a call leaves. *)

Shown == /\ repo' \in Repos
         /\ did'.op # "none" => WorkKept /\ LinksAgree /\ HeadsFollow

\* A call ends in one of the states it leads through.
LEMMA EndsIs ==
  ASSUME NEW op, NEW about, NEW to, NEW force, NEW r, Ends(op, about, to, force, r),
         NEW S, r.ways \in Seq(S), r.ways # <<>>, r.done \in BOOLEAN
  PROVE  /\ repo' \in S
         /\ did'.op = op /\ did'.about = about /\ did'.to = to /\ did'.force = force
         /\ did'.broken \in BOOLEAN /\ did'.done \in BOOLEAN
         /\ did'.broken \/ repo' = Last(r.ways)
         /\ did'.done => repo' = Last(r.ways) /\ r.done
         /\ ~did'.broken /\ ~did'.done => ~r.done
<1>1. PICK k \in DOMAIN r.ways :
          /\ repo' = r.ways[k]
          /\ did' = [op |-> op, about |-> about, to |-> to, force |-> force,
                     broken |-> k < Len(r.ways), done |-> k = Len(r.ways) /\ r.done]
  BY DEF Ends
<1>2. k \in 1 .. Len(r.ways) /\ Len(r.ways) \in Nat
  BY LastIs
<1>3. repo' \in S
  BY <1>1, <1>2, ElementOfSeq
<1>4. /\ did'.op = op /\ did'.about = about /\ did'.to = to /\ did'.force = force
      /\ did'.broken = (k < Len(r.ways)) /\ did'.done = (k = Len(r.ways) /\ r.done)
  BY <1>1
<1>5. CASE k = Len(r.ways)
  <2>1. ~ (k < Len(r.ways)) /\ repo' = Last(r.ways)
    BY <1>1, <1>2, <1>5 DEF Last
  <2> QED BY <1>3, <1>4, <1>5, <2>1
<1>6. CASE k # Len(r.ways)
  <2>1. k < Len(r.ways)
    BY <1>2, <1>6
  <2> QED BY <1>3, <1>4, <1>6, <2>1
<1> QED
  BY <1>5, <1>6

LEMMA OneWay ==
  ASSUME NEW d \in Repos
  PROVE  <<d>> \in Seq({d}) /\ <<d>> # <<>> /\ Last(<<d>>) = d
BY FewAre

LEMMA RejectedShown ==
  ASSUME repo \in Repos, NEW op, NEW about, NEW to, NEW force,
         Ends(op, about, to, force, Rejected(repo))
  PROVE  Shown
<1> DEFINE r == Rejected(repo)
<1>1. r.ways = <<repo>> /\ r.done = FALSE
  BY DEF Rejected, Failed
<1>2. r.ways \in Seq({repo}) /\ r.ways # <<>> /\ r.done \in BOOLEAN
  BY <1>1, OneWay
<1> HIDE DEF r
<1>3. repo' \in {repo} /\ did'.op = op /\ (did'.done => r.done) /\ did'.about = about
  BY <1>2, EndsIs DEF r
<1>4. repo' = repo /\ ~did'.done
  BY <1>1, <1>3
<1>5. WorkKept
  BY <1>4 DEF WorkKept, Live, Names
<1>6. LinksAgree
  BY <1>4 DEF LinksAgree
<1>7. HeadsFollow
  BY <1>4 DEF HeadsFollow
<1> QED
  BY <1>4, <1>5, <1>6, <1>7 DEF Shown

-------------------------------------------------------------------------------
(* Enough for the properties. *)

\* The HEADs of registrations are as they were or gone.
Sheds(d, e) ==
    /\ e.head = d.head /\ e.tip = d.tip
    /\ \A n \in Name : There(e, n) => There(d, n) /\ e.admin[n].head \in {d.admin[n].head, NoHead}

LEMMA ShedsFollow ==
  ASSUME did'.op \notin {"add", "rename"}, Sheds(repo, repo')
  PROVE  HeadsFollow
<1>1. ASSUME NEW x \in Branch PROVE HeadsOn(repo', x) \subseteq HeadsOn(repo, x)
  BY HeadsAre DEF Sheds, HeadsOn, Names
<1>2. repo'.tip = repo.tip
  BY DEF Sheds
<1> HIDE DEF Sheds
<1> QED
  BY <1>1, <1>2 DEF HeadsFollow

LEMMA WorkStays ==
  ASSUME did'.op # "move", Dirty(repo) \subseteq Dirty(repo'),
         \A n \in Name : Live(repo, n) /\ ~Contested(repo) => Whole(repo', n),
         \A n \in Name : There(repo, n) /\ repo.admin[n].locked => There(repo', n)
  PROVE  WorkKept
BY DEF WorkKept, Names

LEMMA WorkSame ==
  ASSUME did'.op # "move", Dirty(repo) \subseteq Dirty(repo'),
         \A n \in Name : There(repo, n) => repo'.admin[n] = repo.admin[n]
  PROVE  WorkKept
<1>1. \A n \in Name : There(repo, n) => There(repo', n)
  BY DEF There
<1>2. \A n \in Name : Live(repo, n) => Whole(repo', n)
  BY <1>1 DEF Live, Whole, Opens
<1> QED
  BY <1>1, <1>2, WorkStays

LEMMA LinksStay == ASSUME did'.op \notin {"add", "move", "repair"} PROVE LinksAgree
BY DEF LinksAgree

LEMMA OneAdmin ==
  ASSUME NEW d \in Repos, NEW n \in Name, NEW a \in {NoAdmin} \cup Registered
  PROVE  LET e == [d EXCEPT !.admin[n] = a]
         IN  /\ e \in Repos /\ e.admin[n] = a
             /\ \A m \in Name : m # n => e.admin[m] = d.admin[m]
             /\ e.head = d.head /\ e.tip = d.tip /\ e.log = d.log /\ e.config = d.config
             /\ e.relative = d.relative /\ e.tree = d.tree
<1> DEFINE b == [d.admin EXCEPT ![n] = a]
<1>1. d.admin \in Admins
  BY DEF Repos
<1>2. b \in Admins /\ b[n] = a /\ \A m \in Name : m # n => b[m] = d.admin[m]
  BY <1>1 DEF Admins
<1>3. [d EXCEPT !.admin[n] = a] = [d EXCEPT !.admin = b]
  OBVIOUS
<1> DEFINE e == [d EXCEPT !.admin = b]
<1> HIDE DEF b
<1>4. /\ e \in Repos /\ e.admin = b
      /\ e.head = d.head /\ e.tip = d.tip /\ e.log = d.log /\ e.config = d.config
      /\ e.relative = d.relative /\ e.tree = d.tree
  BY <1>2, WithAdmins
<1> HIDE DEF e
<1>5. [d EXCEPT !.admin[n] = a] = e
  BY <1>3 DEF e
<1> QED
  BY <1>2, <1>4, <1>5

-------------------------------------------------------------------------------
(* Locking. *)

LEMMA Relocked ==
  ASSUME repo \in Repos, NEW n \in Name, There(repo, n), NEW v \in BOOLEAN,
         NEW op \in {"lock", "unlock"}, NEW about, NEW to, NEW force,
         Ends(op, about, to, force, Through(<<[repo EXCEPT !.admin[n].locked = v]>>))
  PROVE  Shown
<1> DEFINE a == [repo.admin[n] EXCEPT !.locked = v]
           e == [repo EXCEPT !.admin[n] = a]
           r == Through(<<e>>)
<1>1. a \in Registered /\ a = [repo.admin[n] EXCEPT !.locked = v]
      /\ a.head = repo.admin[n].head /\ a.gitdir = repo.admin[n].gitdir
      /\ a.common = repo.admin[n].common /\ a.there
  BY AdminIs DEF Registered
<1>2. [repo EXCEPT !.admin[n].locked = v] = e
  OBVIOUS
<1> HIDE DEF a
<1>3. /\ e \in Repos /\ e.admin[n] = a /\ \A m \in Name : m # n => e.admin[m] = repo.admin[m]
      /\ e.head = repo.head /\ e.tip = repo.tip /\ e.tree = repo.tree
  BY <1>1, OneAdmin
<1> HIDE DEF e
<1>4. r.ways = <<e>> /\ r.done = TRUE
  BY DEF Through
<1>5. r.ways \in Seq({e}) /\ r.ways # <<>> /\ r.done \in BOOLEAN /\ Ends(op, about, to, force, r)
  BY <1>2, <1>3, <1>4, OneWay
<1> HIDE DEF r
<1>6. repo' \in {e} /\ did'.op = op
  BY <1>5, EndsIs
<1>7. repo' = e /\ did'.op \in {"lock", "unlock"}
  BY <1>6
<1>8. Dirty(repo) \subseteq Dirty(repo')
  BY <1>3, <1>7 DEF Dirty
<1>9. ASSUME NEW m \in Name
      PROVE  (There(repo, m) => There(repo', m)) /\ (Whole(repo, m) => Whole(repo', m))
  <2>1. CASE m = n
    <3>1. repo'.admin[m] = a /\ a.there
      BY <1>1, <1>3, <1>7, <2>1
    <3> QED BY <1>1, <2>1, <3>1 DEF There, Whole, Opens
  <2>2. CASE m # n
    <3>1. repo'.admin[m] = repo.admin[m]
      BY <1>3, <1>7, <2>2
    <3> QED BY <3>1 DEF There, Whole, Opens
  <2> QED BY <2>1, <2>2
<1>10. WorkKept
  BY <1>7, <1>8, <1>9, WorkStays DEF Live
<1>11. Sheds(repo, repo')
  BY <1>1, <1>3, <1>7 DEF Sheds, There
<1>12. HeadsFollow
  BY <1>7, <1>11, ShedsFollow
<1> QED
  BY <1>3, <1>7, <1>10, <1>12, LinksStay DEF Shown

LEMMA LockShown ==
  ASSUME repo \in Repos, NEW n \in Name, LockCall(n) \/ UnlockCall(n)
  PROVE  Shown
<1>1. CASE LockCall(n)
  <2>1. CASE ~There(repo, n) \/ repo.admin[n].locked
    BY <1>1, <2>1, RejectedShown DEF LockCall, LockWorktree
  <2>2. CASE ~ (~There(repo, n) \/ repo.admin[n].locked)
    BY <1>1, <2>2, Relocked DEF LockCall, LockWorktree
  <2> QED BY <2>1, <2>2
<1>2. CASE UnlockCall(n)
  <2>1. CASE ~There(repo, n) \/ ~repo.admin[n].locked
    BY <1>2, <2>1, RejectedShown DEF UnlockCall, UnlockWorktree
  <2>2. CASE ~ (~There(repo, n) \/ ~repo.admin[n].locked)
    BY <1>2, <2>2, Relocked DEF UnlockCall, UnlockWorktree
  <2> QED BY <2>1, <2>2
<1> QED
  BY <1>1, <1>2

-------------------------------------------------------------------------------
(* Removing a worktree. *)

\* What a removal of n may change.
Removes(d, e, n, force) ==
    /\ Sheds(d, e)
    /\ \A m \in Name : m # n => e.admin[m] = d.admin[m]
    /\ \A x \in Dirty(d) \ Dirty(e) : force /\ Inside(d.admin[n].gitdir, x)

LEMMA CleanInside ==
  ASSUME NEW d \in Repos, NEW p \in Paths, CleanAt(d, p), NEW x \in Dirty(d)
  PROVE  ~Inside(p, x)
<1>1. /\ d.tree[p].work = "clean"
      /\ \A q \in DOMAIN d.tree : Inside(p, q) /\ q # p => d.tree[q] = EmptyDir
  BY DEF CleanAt
<1>2. x \in DOMAIN d.tree /\ d.tree[x].work = "dirty"
  BY DEF Dirty
<1>3. EmptyDir.work = "empty"
  BY DEF EmptyDir
<1> QED
  BY <1>1, <1>2, <1>3

LEMMA ShedsAdmins ==
  ASSUME NEW d \in Repos, NEW e \in Repos, NEW ns \in SUBSET Names(d), e.head = d.head, e.tip = d.tip,
         Lapsed(d.admin, e.admin, ns)
  PROVE  Sheds(d, e) /\ \A m \in Name : m \notin ns => e.admin[m] = d.admin[m]
<1>1. \A m \in Name : m \notin ns => e.admin[m] = d.admin[m]
  BY DEF Lapsed
<1>2. ASSUME NEW m \in Name, There(e, m)
      PROVE  There(d, m) /\ e.admin[m].head \in {d.admin[m].head, NoHead}
  <2>1. e.admin[m] # NoAdmin
    BY <1>2, AdminIs
  <2>2. CASE e.admin[m] = d.admin[m]
    BY <1>2, <2>2 DEF There
  <2>3. CASE m \in ns /\ e.admin[m] \in Registered /\ e.admin[m].head = NoHead
    BY <2>3 DEF Names
  <2> QED BY <2>1, <2>2, <2>3 DEF Lapsed
<1> QED
  BY <1>1, <1>2 DEF Sheds

LEMMA RemoveShown ==
  ASSUME repo \in Repos, NEW n \in Name, NEW force \in BOOLEAN, NEW override \in BOOLEAN,
         RemoveCall(n, force, override)
  PROVE  Shown
<1> DEFINE d == repo
           op == IF override THEN "evict" ELSE "remove"
           p == d.admin[n].gitdir
           S == {e \in Repos : Removes(d, e, n, force)}
           w == IF Exists(d, p) THEN RemoveDir(<<d>>, p) ELSE <<d>>
           r == Through(RemoveAdmin(w, n))
<1>0. d \in Repos /\ Ends(op, n, 0, force, RemoveWorktree(d, n, force, override))
  BY DEF RemoveCall
<1> HIDE DEF d
<1>1. CASE ~MayRemove(d, n, force, override)
  BY <1>0, <1>1, RejectedShown DEF RemoveWorktree, d
<1>2. CASE MayRemove(d, n, force, override)
  <2>1. Ends(op, n, 0, force, r)
    BY <1>0, <1>2 DEF RemoveWorktree
  <2>2. /\ There(d, n) /\ p \in Paths /\ d.tree \in Trees
        /\ d.admin[n].locked => override
        /\ Exists(d, p) => force \/ CleanAt(d, p)
    BY <1>0, <1>2, AdminIs DEF MayRemove, Registered, Paths, Repos
  <2>3. Removes(d, d, n, force)
    BY DEF Removes, Sheds
  <2>4. d \in S
    BY <1>0, <2>3
  <2>5. ASSUME NEW e \in Repos, e.admin = d.admin, e.head = d.head, e.tip = d.tip,
               e.tree = d.tree \/ (DOMAIN e.tree = DOMAIN d.tree
                                  /\ \A x \in DOMAIN d.tree : e.tree[x].work = d.tree[x].work)
               \/ (Exists(d, p) /\ e.tree = Removed(d.tree, p)),
               NEW a \in Admins, Lapsed(d.admin, a, {n})
        PROVE  [e EXCEPT !.admin = a] \in S
    <3> DEFINE f == [e EXCEPT !.admin = a]
    <3>1. f \in Repos /\ f.admin = a /\ f.head = d.head /\ f.tip = d.tip /\ f.tree = e.tree
      BY <2>5, WithAdmins
    <3> HIDE DEF f
    <3>2. Sheds(d, f) /\ \A m \in Name : m # n => f.admin[m] = d.admin[m]
      BY <1>0, <2>2, <2>5, <3>1, ShedsAdmins DEF Names
    <3>3. ASSUME NEW x \in Dirty(d) \ Dirty(f) PROVE force /\ Inside(p, x)
      <4>1. Exists(d, p) /\ e.tree = Removed(d.tree, p)
        BY <2>5, <3>1, <3>3 DEF Dirty
      <4>2. Inside(p, x)
        <5> DEFINE u == Removed(d.tree, p)
        <5>1. DOMAIN u = {y \in DOMAIN d.tree : ~Inside(p, y)} /\ \A y \in DOMAIN u : u[y] = d.tree[y]
          BY <2>2, RemovedIs
        <5> HIDE DEF u
        <5>2. f.tree = u
          BY <3>1, <4>1 DEF u
        <5> QED BY <3>3, <5>1, <5>2 DEF Dirty
      <4>3. force
        BY <1>0, <2>2, <4>1, <4>2, CleanInside
      <4> QED BY <4>2, <4>3
    <3> QED
      BY <3>1, <3>2, <3>3 DEF Removes, f
  <2>6. /\ w \in Seq(S) /\ w # <<>> /\ Last(w) \in Repos
        /\ Last(w).admin = d.admin /\ Last(w).head = d.head /\ Last(w).tip = d.tip
        /\ Last(w).tree = d.tree \/ (Exists(d, p) /\ Last(w).tree = Removed(d.tree, p))
    <3>1. CASE ~Exists(d, p)
      <4>1. w = <<d>>
        BY <3>1
      <4> HIDE DEF w
      <4> QED BY <1>0, <2>4, <4>1, FewAre
    <3>2. CASE Exists(d, p)
      <4> DEFINE t1 == WithGit(d.tree, p, NoGit)
                 t2 == Removed(d.tree, p)
                 e1 == [d EXCEPT !.tree = t1]
                 e2 == [d EXCEPT !.tree = t2]
      <4>1. w = <<d>> \o <<e1, e2>>
        <5>1. Last(<<d>>) = d
          BY OneWay, <1>0
        <5> QED BY <3>2, <5>1 DEF RemoveDir
      <4>2. /\ t1 \in Trees /\ DOMAIN t1 = DOMAIN d.tree
            /\ \A x \in DOMAIN d.tree : t1[x].work = d.tree[x].work
        BY <2>2, <3>2, WithGitIs DEF Exists, NoGit
      <4>3. t2 \in Trees
        BY <2>2, RemovedIs
      <4> HIDE DEF t1, t2
      <4>4. /\ e1 \in Repos /\ e1.tree = t1 /\ e1.admin = d.admin /\ e1.head = d.head /\ e1.tip = d.tip
            /\ e2 \in Repos /\ e2.tree = t2 /\ e2.admin = d.admin /\ e2.head = d.head /\ e2.tip = d.tip
        BY <1>0, <4>2, <4>3, WithTree
      <4> HIDE DEF e1, e2
      <4>5. d.admin \in Admins /\ Lapsed(d.admin, d.admin, {n})
        BY <1>0 DEF Repos, Lapsed
      <4>6. ASSUME NEW e \in Repos PROVE e = [e EXCEPT !.admin = e.admin]
        BY DEF Repos
      <4>7. e1 \in S /\ e2 \in S
        BY <2>5, <3>2, <4>2, <4>4, <4>5, <4>6 DEF t2
      <4>8. /\ <<d>> \in Seq(S) /\ <<d>> # <<>>
            /\ <<e1, e2>> \in Seq(S) /\ <<e1, e2>> # <<>> /\ Last(<<e1, e2>>) = e2
        BY <2>4, <4>7, FewAre
      <4>9. w \in Seq(S) /\ w # <<>> /\ Last(w) = e2
        <5> DEFINE u == <<e1, e2>>
                   v == <<d>>
        <5>1. v \in Seq(S) /\ v # <<>> /\ u \in Seq(S) /\ u # <<>> /\ Last(u) = e2 /\ w = v \o u
          BY <4>1, <4>8
        <5> HIDE DEF u, v, S, w
        <5> QED BY <5>1, JoinIs
      <4> HIDE DEF w
      <4> QED BY <3>2, <4>4, <4>9 DEF t2
    <3> QED BY <3>1, <3>2
  <2> HIDE DEF w, S
  <2>7. RemoveAdmins(w, {n}) \in Seq(S) /\ RemoveAdmins(w, {n}) # <<>>
    <3>1. \A a \in Admins : Lapsed(Last(w).admin, a, {n}) => [Last(w) EXCEPT !.admin = a] \in S
      BY <2>5, <2>6
    <3>2. {n} \subseteq Names(Last(w)) /\ S \subseteq Repos
      BY <2>2, <2>6 DEF Names, There, S
    <3> QED BY <2>6, <3>1, <3>2, RemoveAdminsIs
  <2>8. r.ways = RemoveAdmins(w, {n}) /\ r.done = TRUE
    BY DEF Through, RemoveAdmin
  <2> HIDE DEF r
  <2>9. repo' \in S /\ did'.op = op /\ did'.about = n /\ did'.force = force
    <3>1. r.ways \in Seq(S) /\ r.ways # <<>> /\ r.done \in BOOLEAN
      BY <2>7, <2>8
    <3> HIDE DEF op
    <3> QED BY <2>1, <3>1, EndsIs
  <2>10. repo' \in Repos /\ Removes(d, repo', n, force)
    BY <2>9 DEF S
  <2>11. did'.op \in {"remove", "evict"} /\ (did'.op = "evict" <=> override)
    BY <2>9
  <2>12. HeadsFollow
    BY <2>10, <2>11, ShedsFollow DEF Removes, d
  <2>13. WorkKept
    <3>1. \A x \in Dirty(d) \ Dirty(repo') : force /\ Inside(p, x)
      BY <2>10 DEF Removes
    <3>2. \A m \in Name : m # n => repo'.admin[m] = d.admin[m]
      BY <2>10 DEF Removes
    <3>3. \A m \in Name : m # n => (Live(d, m) => Whole(repo', m)) /\ (There(d, m) => There(repo', m))
      BY <3>2 DEF Live, Whole, Opens, There
    <3> QED BY <2>2, <2>9, <2>11, <3>1, <3>3 DEF WorkKept, Names, d
  <2> QED
    BY <2>10, <2>11, <2>12, <2>13, LinksStay DEF Shown
<1> QED
  BY <1>1, <1>2

-------------------------------------------------------------------------------
(* Pruning. *)

LEMMA GitFileIs ==
  ASSUME NEW n \in Name, NEW p \in Seq(Nat)
  PROVE  GitFile(n, p) \in [name : Nat, depth : Nat] /\ GitFile(n, p) # NoGit /\ GitFile(n, p).name = n
         /\ NoGit \in [name : Nat, depth : Nat]
<1>1. n \in Nat /\ n # 0 /\ Len(p) \in Nat
  BY NamesAre
<1> QED
  BY <1>1 DEF GitFile, NoGit

LEMMA PruneSpares ==
  ASSUME NEW d \in Repos, NEW n \in Name, NEW all, Stale(d, n, all) \/ Duplicate(d, n)
  PROVE  There(d, n) /\ ~d.admin[n].locked /\ (Live(d, n) => Contested(d))
<1>1. There(d, n) /\ ~d.admin[n].locked
  BY DEF Stale, Duplicate, Alive
<1>2. ASSUME Live(d, n), Stale(d, n, all) PROVE FALSE
  <2>1. d.admin[n].gitdir \in Seq(Nat) /\ d.admin[n].gitdir # <<>>
    BY <1>1, <1>2, AdminIs DEF Registered, Live, Whole
  <2>2. Exists(d, d.admin[n].gitdir) /\ d.tree[d.admin[n].gitdir].git # NoGit
    BY <1>2, <2>1, GitFileIs DEF Live, Agree, Leads
  <2> QED BY <1>1, <1>2, <2>1, <2>2 DEF Stale, Alive
<1>3. ASSUME Duplicate(d, n) PROVE Contested(d)
  <2>1. PICK m \in Names(d) : Alive(d, m) /\ m < n /\ d.admin[m].gitdir = d.admin[n].gitdir
    BY <1>3 DEF Duplicate
  <2>2. n \in Names(d) /\ d.admin[n].gitdir # <<>> /\ n # m
    BY <1>3, <2>1, NamesAre DEF Duplicate, Alive, Names
  <2> QED BY <2>1, <2>2 DEF Contested
<1> QED
  BY <1>1, <1>2, <1>3

LEMMA PruneShown ==
  ASSUME repo \in Repos, NEW all \in BOOLEAN, PruneCall(all)
  PROVE  Shown
<1> DEFINE d == repo
           gone == {n \in Name : Stale(d, n, all) \/ Duplicate(d, n)}
           S == {e \in Repos : /\ e.tree = d.tree /\ e.head = d.head /\ e.tip = d.tip
                               /\ Lapsed(d.admin, e.admin, gone)}
           w == <<d>>
           r == Through(RemoveAdmins(w, gone))
<1>0. d \in Repos /\ Ends("prune", 0, 0, all, r)
  BY DEF PruneCall, PruneWorktrees
<1> HIDE DEF d
<1>1. \A n \in gone : n \in Name /\ There(d, n) /\ ~d.admin[n].locked /\ (Live(d, n) => Contested(d))
  BY <1>0, PruneSpares
<1>2. gone \subseteq Names(d)
  BY <1>1 DEF Names
<1> HIDE DEF gone
<1>3. d \in S
  BY <1>0 DEF Lapsed
<1>4. ASSUME NEW a \in Admins, Lapsed(d.admin, a, gone) PROVE [d EXCEPT !.admin = a] \in S
  BY <1>0, <1>4, WithAdmins
<1>5. S \subseteq Repos
  OBVIOUS
<1>6. w \in Seq(S) /\ w # <<>> /\ Last(w) = d
  BY <1>3, FewAre
<1> HIDE DEF S, w
<1>7. RemoveAdmins(w, gone) \in Seq(S) /\ RemoveAdmins(w, gone) # <<>>
  BY <1>2, <1>4, <1>5, <1>6, RemoveAdminsIs
<1>8. r.ways \in Seq(S) /\ r.ways # <<>> /\ r.done \in BOOLEAN
  BY <1>7 DEF Through
<1> HIDE DEF r
<1>9. repo' \in S /\ did'.op = "prune"
  BY <1>0, <1>8, EndsIs
<1>10. /\ repo' \in Repos /\ repo'.tree = d.tree /\ repo'.head = d.head /\ repo'.tip = d.tip
       /\ Lapsed(d.admin, repo'.admin, gone)
  BY <1>9 DEF S
<1>11. Sheds(d, repo') /\ \A m \in Name : m \notin gone => repo'.admin[m] = d.admin[m]
  BY <1>0, <1>2, <1>10, ShedsAdmins
<1>12. HeadsFollow
  BY <1>9, <1>11, ShedsFollow DEF d
<1>13. WorkKept
  <2>1. \A m \in Name : m \notin gone => (Live(d, m) => Whole(repo', m)) /\ (There(d, m) => There(repo', m))
    BY <1>11 DEF Live, Whole, Opens, There
  <2>2. Dirty(d) \subseteq Dirty(repo')
    BY <1>10 DEF Dirty
  <2>3. \A m \in Name : Live(d, m) /\ ~Contested(d) => Whole(repo', m)
    BY <1>1, <2>1
  <2>4. \A m \in Name : There(d, m) /\ d.admin[m].locked => There(repo', m)
    BY <1>1, <2>1
  <2> QED BY <1>9, <2>2, <2>3, <2>4, WorkStays DEF d
<1> QED
  BY <1>9, <1>10, <1>12, <1>13, LinksStay DEF Shown

-------------------------------------------------------------------------------
(* Adding a worktree. *)

\* What adding n with HEAD h may change.
Adds(d, e, n, h) ==
    /\ e.head = d.head /\ e.tip = d.tip
    /\ \A m \in Name : m # n => e.admin[m] = d.admin[m]
    /\ There(e, n) => e.admin[n].head \in {NoHead, h}
    /\ \A x \in DOMAIN d.tree : x \in DOMAIN e.tree /\ e.tree[x] = d.tree[x]

LEMMA AddsAdmin ==
  ASSUME NEW d \in Repos, NEW n \in Name, NEW h, NEW e \in Repos, Adds(d, e, n, h),
         NEW a \in Registered, a.head \in {NoHead, h}
  PROVE  LET f == [e EXCEPT !.admin[n] = a]
         IN  f \in Repos /\ Adds(d, f, n, h) /\ f.admin[n] = a /\ f.tree = e.tree
<1> DEFINE f == [e EXCEPT !.admin[n] = a]
<1>1. /\ f \in Repos /\ f.admin[n] = a /\ \A m \in Name : m # n => f.admin[m] = e.admin[m]
      /\ f.head = e.head /\ f.tip = e.tip /\ f.tree = e.tree
  BY OneAdmin
<1> HIDE DEF f
<1> QED
  BY <1>1 DEF Adds, f

LEMMA AddsTree ==
  ASSUME NEW d \in Repos, NEW n \in Name, NEW h, NEW e \in Repos, Adds(d, e, n, h),
         NEW t \in Trees, \A x \in DOMAIN d.tree : x \in DOMAIN t /\ t[x] = e.tree[x]
  PROVE  LET f == [e EXCEPT !.tree = t]
         IN  f \in Repos /\ Adds(d, f, n, h) /\ f.admin = e.admin /\ f.tree = t
<1> DEFINE f == [e EXCEPT !.tree = t]
<1>1. /\ f \in Repos /\ f.tree = t /\ f.admin = e.admin /\ f.head = e.head /\ f.tip = e.tip
  BY WithTree
<1> HIDE DEF f
<1> QED
  BY <1>1 DEF Adds, There, f

LEMMA AddsFollow ==
  ASSUME repo \in Repos, repo' \in Repos, NEW n \in Name, NEW p, NEW h \in HeadValues, did'.op = "add",
         MayAdd(repo, p, n, h), Adds(repo, repo', n, h)
  PROVE  HeadsFollow
<1>1. /\ repo'.head = repo.head /\ repo'.tip = repo.tip /\ ~There(repo, n)
      /\ \A m \in Name : m # n => repo'.admin[m] = repo.admin[m]
      /\ There(repo', n) => repo'.admin[n].head \in {NoHead, h}
  BY DEF Adds, MayAdd
<1>2. ASSUME NEW x \in Branch
      PROVE  HeadsOn(repo', x) = HeadsOn(repo, x) \/ (h = On(x) /\ HeadsOn(repo, x) = {} /\ repo.tip[x] # NoTip)
  <2>1. CASE h = On(x)
    <3>1. h[1] = "branch" /\ h[2] = x
      BY <2>1 DEF On
    <3>2. Available(repo, x) /\ repo.tip[x] # NoTip
      BY <3>1 DEF MayAdd
    <3> QED BY <2>1, <3>2 DEF Available, HeadsOn
  <2>2. CASE h # On(x)
    <3>1. ASSUME NEW m \in Name
          PROVE  (m \in Names(repo') /\ repo'.admin[m].head = On(x))
                    <=> (m \in Names(repo) /\ repo.admin[m].head = On(x))
      BY <1>1, <2>2, HeadsAre DEF Names, There
    <3>2. {m \in Names(repo') : repo'.admin[m].head = On(x)}
            = {m \in Names(repo) : repo.admin[m].head = On(x)}
      BY <3>1 DEF Names
    <3> QED BY <1>1, <3>2 DEF HeadsOn
  <2> QED BY <2>1, <2>2
<1> QED
  BY <1>1, <1>2 DEF HeadsFollow

LEMMA AddShown ==
  ASSUME repo \in Repos, NEW p \in Place, NEW n \in Name, NEW h \in HeadValues,
         NEW checkout \in BOOLEAN, AddCall(p, n, h, checkout)
  PROVE  Shown
<1> DEFINE d == repo
           d0 == [d EXCEPT !.relative = TRUE]
           d1 == [d0 EXCEPT !.admin[n] = EmptyAdmin]
           d2 == [d1 EXCEPT !.tree = WithDir(@, p)]
           d3 == [d2 EXCEPT !.tree = WithGit(@, p, GitFile(n, p))]
           d4 == [d3 EXCEPT !.admin[n].gitdir = p]
           d5 == [d4 EXCEPT !.admin[n].common = TRUE]
           d6 == [d5 EXCEPT !.admin[n].head = h]
           d7 == [d6 EXCEPT !.tree = WithWork(@, p, "dirty")]
           d8 == [d7 EXCEPT !.tree = WithWork(@, p, "clean"), !.admin[n].index = "fresh"]
           w == <<d0, d1, d2, d3, d4, d5, d6>> \o IF checkout THEN <<d7, d8>> ELSE <<>>
           r == Through(w)
           S == {e \in Repos : Adds(d, e, n, h)}
<1>0. d \in Repos /\ Ends("add", n, 0, FALSE, AddWorktree(d, p, n, h, checkout)) /\ p \in Paths
  BY PlacesAre DEF AddCall
<1>00. AddWorktree(d, p, n, h, checkout) = IF ~MayAdd(d, p, n, h) THEN Rejected(d) ELSE r
  BY DEF AddWorktree
<1> HIDE DEF d, d0, d1, d2, d3, d4, d5, d6, d7, d8
<1>1. CASE ~MayAdd(d, p, n, h)
  BY <1>0, <1>00, <1>1, RejectedShown DEF d
<1>2. CASE MayAdd(d, p, n, h)
  <2>1. Ends("add", n, 0, FALSE, r) /\ ~There(d, n) /\ p \notin DOMAIN d.tree
    BY <1>0, <1>00, <1>2 DEF MayAdd, Exists
  <2>2. d0 \in Repos /\ Adds(d, d0, n, h) /\ d0.admin = d.admin /\ d0.tree = d.tree
    <3>1. d0 \in Repos /\ d0.admin = d.admin /\ d0.tree = d.tree /\ d0.head = d.head /\ d0.tip = d.tip
      BY <1>0, WithRelative DEF d0
    <3> QED BY <2>1, <3>1 DEF Adds, There
  <2>3. d1 \in Repos /\ Adds(d, d1, n, h) /\ d1.tree = d.tree /\ d1.admin[n] = EmptyAdmin
    <3>1. EmptyAdmin \in Registered /\ EmptyAdmin.head = NoHead
      BY EmptyIs DEF EmptyAdmin
    <3> QED BY <1>0, <2>2, <3>1, AddsAdmin DEF d1
  <2> DEFINE t2 == WithDir(d1.tree, p)
  <2>4. /\ t2 \in Trees /\ p \in DOMAIN t2 /\ \A x \in DOMAIN d.tree : x \in DOMAIN t2 /\ t2[x] = d.tree[x]
    <3>1. d.tree \in Trees
      BY <1>0 DEF Repos
    <3> QED BY <1>0, <2>3, <3>1, WithDirIs
  <2> HIDE DEF t2
  <2>5. d2 \in Repos /\ Adds(d, d2, n, h) /\ d2.tree = t2 /\ d2.admin[n] = EmptyAdmin
    <3>1. d2 = [d1 EXCEPT !.tree = t2]
      BY DEF d2, t2
    <3> QED BY <1>0, <2>3, <2>4, <3>1, AddsTree
  <2> DEFINE t3 == WithGit(d2.tree, p, GitFile(n, p))
  <2>6. /\ t3 \in Trees /\ p \in DOMAIN t3 /\ t3[p].git = GitFile(n, p)
        /\ \A x \in DOMAIN d.tree : x \in DOMAIN t3 /\ t3[x] = d2.tree[x]
    <3>1. GitFile(n, p) \in [name : Nat, depth : Nat]
      BY <1>0, GitFileIs DEF Paths
    <3> QED BY <2>1, <2>4, <2>5, <3>1, WithGitIs
  <2> HIDE DEF t3
  <2>7. d3 \in Repos /\ Adds(d, d3, n, h) /\ d3.tree = t3 /\ d3.admin[n] = EmptyAdmin
    <3>1. d3 = [d2 EXCEPT !.tree = t3]
      BY DEF d3, t3
    <3> QED BY <1>0, <2>5, <2>6, <3>1, AddsTree
  <2>8. /\ d4 \in Repos /\ Adds(d, d4, n, h) /\ d4.tree = t3 /\ d4.admin[n] \in Registered
        /\ d4.admin[n].gitdir = p /\ d4.admin[n].head = NoHead
    <3> DEFINE a == [d3.admin[n] EXCEPT !.gitdir = p]
    <3>1. a \in Registered /\ a.gitdir = p /\ a.head = NoHead
      <4>1. d3.admin[n] \in Registered /\ d3.admin[n].head = NoHead
        BY <2>7, EmptyIs DEF EmptyAdmin
      <4>2. p \in Seq(Nat)
        BY <1>0 DEF Paths
      <4> QED BY <4>1, <4>2 DEF Registered
    <3>2. d4 = [d3 EXCEPT !.admin[n] = a]
      BY DEF d4
    <3> HIDE DEF a
    <3> QED BY <1>0, <2>7, <3>1, <3>2, AddsAdmin
  <2>9. /\ d5 \in Repos /\ Adds(d, d5, n, h) /\ d5.tree = t3 /\ d5.admin[n] \in Registered
        /\ d5.admin[n].gitdir = p
    <3> DEFINE a == [d4.admin[n] EXCEPT !.common = TRUE]
    <3>1. a \in Registered /\ a.gitdir = p /\ a.head = NoHead
      BY <2>8 DEF Registered
    <3>2. d5 = [d4 EXCEPT !.admin[n] = a]
      BY DEF d5
    <3> HIDE DEF a
    <3> QED BY <1>0, <2>8, <3>1, <3>2, AddsAdmin
  <2>10. /\ d6 \in Repos /\ Adds(d, d6, n, h) /\ d6.tree = t3 /\ d6.admin[n] \in Registered
         /\ d6.admin[n].gitdir = p /\ d6.admin[n].head = h
    <3> DEFINE a == [d5.admin[n] EXCEPT !.head = h]
    <3>1. a \in Registered /\ a.gitdir = p /\ a.head = h
      BY <2>9 DEF Registered
    <3>2. d6 = [d5 EXCEPT !.admin[n] = a]
      BY DEF d6
    <3> HIDE DEF a
    <3> QED BY <1>0, <2>9, <3>1, <3>2, AddsAdmin
  <2> DEFINE t7 == WithWork(d6.tree, p, "dirty")
  <2>11. /\ t7 \in Trees /\ p \in DOMAIN t7 /\ t7[p].git = GitFile(n, p)
         /\ \A x \in DOMAIN d.tree : x \in DOMAIN t7 /\ t7[x] = d6.tree[x]
    <3>1. d6.tree \in Trees /\ p \in DOMAIN d6.tree /\ d6.tree[p].git = GitFile(n, p)
          /\ \A x \in DOMAIN d.tree : x \in DOMAIN d6.tree
      BY <2>6, <2>10
    <3>2. /\ t7 \in Trees /\ DOMAIN t7 = DOMAIN d6.tree
          /\ t7[p].git = d6.tree[p].git
          /\ \A x \in DOMAIN d6.tree : x # p => t7[x] = d6.tree[x]
      <4> DEFINE t == d6.tree
      <4>1. t \in Trees /\ p \in DOMAIN t /\ "dirty" \in Works /\ t7 = WithWork(t, p, "dirty")
        BY <3>1 DEF t7, Works
      <4> HIDE DEF t, t7
      <4>2. /\ t7 \in Trees /\ DOMAIN t7 = DOMAIN t /\ t7[p].git = t[p].git
            /\ \A x \in DOMAIN t : x # p => t7[x] = t[x]
        BY <4>1, WithWorkIs
      <4> QED BY <4>2 DEF t
    <3> HIDE DEF t7
    <3> QED BY <2>1, <3>1, <3>2
  <2> HIDE DEF t7
  <2>12. d7 \in Repos /\ Adds(d, d7, n, h) /\ d7.tree = t7 /\ d7.admin = d6.admin
    <3>1. d7 = [d6 EXCEPT !.tree = t7]
      BY DEF d7, t7
    <3> QED BY <1>0, <2>10, <2>11, <3>1, AddsTree
  <2> DEFINE t8 == WithWork(d7.tree, p, "clean")
  <2>13. /\ t8 \in Trees /\ p \in DOMAIN t8 /\ t8[p].git = GitFile(n, p)
         /\ \A x \in DOMAIN d.tree : x \in DOMAIN t8 /\ t8[x] = d7.tree[x]
    <3>1. d7.tree \in Trees /\ p \in DOMAIN d7.tree /\ d7.tree[p].git = GitFile(n, p)
          /\ \A x \in DOMAIN d.tree : x \in DOMAIN d7.tree
      BY <2>11, <2>12
    <3>2. /\ t8 \in Trees /\ DOMAIN t8 = DOMAIN d7.tree
          /\ t8[p].git = d7.tree[p].git
          /\ \A x \in DOMAIN d7.tree : x # p => t8[x] = d7.tree[x]
      <4> DEFINE t == d7.tree
      <4>1. t \in Trees /\ p \in DOMAIN t /\ "clean" \in Works /\ t8 = WithWork(t, p, "clean")
        BY <3>1 DEF t8, Works
      <4> HIDE DEF t, t8
      <4>2. /\ t8 \in Trees /\ DOMAIN t8 = DOMAIN t /\ t8[p].git = t[p].git
            /\ \A x \in DOMAIN t : x # p => t8[x] = t[x]
        BY <4>1, WithWorkIs
      <4> QED BY <4>2 DEF t
    <3> HIDE DEF t8
    <3> QED BY <2>1, <3>1, <3>2
  <2> HIDE DEF t8
  <2>14. /\ d8 \in Repos /\ Adds(d, d8, n, h) /\ d8.tree = t8
         /\ d8.admin[n] \in Registered /\ d8.admin[n].gitdir = p
    <3> DEFINE a == [d7.admin[n] EXCEPT !.index = "fresh"]
               c == [d7 EXCEPT !.tree = t8]
    <3>1. a \in Registered /\ a.gitdir = p /\ a.head = h
      BY <2>10, <2>12 DEF Registered
    <3>2. c \in Repos /\ Adds(d, c, n, h) /\ c.tree = t8 /\ c.admin = d7.admin
      BY <1>0, <2>12, <2>13, AddsTree
    <3>3. d8 = [c EXCEPT !.admin[n] = a]
      BY <2>12 DEF d8, t8, Repos
    <3> HIDE DEF a, c
    <3> QED BY <1>0, <3>1, <3>2, <3>3, AddsAdmin
  <2>15. /\ w \in Seq(S) /\ w # <<>> /\ Last(w) \in {d6, d8}
    <3> DEFINE u == <<d0, d1, d2, d3, d4, d5, d6>>
               v == IF checkout THEN <<d7, d8>> ELSE <<>>
    <3>1. /\ d0 \in S /\ d1 \in S /\ d2 \in S /\ d3 \in S /\ d4 \in S /\ d5 \in S /\ d6 \in S
          /\ d7 \in S /\ d8 \in S
      BY <2>2, <2>3, <2>5, <2>7, <2>8, <2>9, <2>10, <2>12, <2>14
    <3> HIDE DEF S
    <3>2. u \in Seq(S) /\ u # <<>> /\ Last(u) = d6
      BY <3>1 DEF Last
    <3>3. v \in Seq(S) /\ (v = <<>> \/ Last(v) = d8)
      <4>1. CASE checkout
        <5>1. v = <<d7, d8>>
          BY <4>1
        <5> HIDE DEF v
        <5> QED BY <3>1, <5>1, FewAre
      <4>2. CASE ~checkout
        BY <4>2, EmptySeq
      <4> QED BY <4>1, <4>2
    <3>4. w = u \o v
      OBVIOUS
    <3> HIDE DEF u, v, w
    <3> QED BY <3>2, <3>3, <3>4, JoinIs
  <2> HIDE DEF w, S
  <2>16. r.ways = w /\ r.done = TRUE
    BY DEF Through
  <2> HIDE DEF r
  <2>17. repo' \in S /\ did'.op = "add" /\ did'.about = n /\ (did'.done => repo' \in {d6, d8})
    <3>1. r.ways \in Seq(S) /\ r.ways # <<>> /\ r.done \in BOOLEAN /\ Last(r.ways) \in {d6, d8}
      BY <2>15, <2>16
    <3> DEFINE no == FALSE
    <3>2. Ends("add", n, 0, no, r)
      BY <2>1
    <3> HIDE DEF no
    <3>3. /\ repo' \in S /\ did'.op = "add" /\ did'.about = n
          /\ did'.done => repo' = Last(r.ways)
      BY <3>1, <3>2, EndsIs
    <3> QED BY <3>1, <3>3
  <2>18. repo' \in Repos /\ Adds(d, repo', n, h)
    BY <2>17 DEF S
  <2>19. HeadsFollow
    BY <1>0, <1>2, <2>17, <2>18, AddsFollow DEF d
  <2>20. WorkKept
    <3>1. Dirty(d) \subseteq Dirty(repo')
      BY <2>18 DEF Adds, Dirty
    <3>2. \A m \in Name : There(d, m) => repo'.admin[m] = d.admin[m]
      BY <2>1, <2>18 DEF Adds
    <3> QED BY <2>17, <3>1, <3>2, WorkSame DEF d
  <2>21. LinksAgree
    <3>1. Agree(d6, n) /\ Agree(d8, n)
      BY <2>6, <2>10, <2>13, <2>14, AdminIs DEF Agree, Leads, Exists
    <3> QED BY <2>17, <3>1 DEF LinksAgree
  <2> QED
    BY <2>17, <2>18, <2>19, <2>20, <2>21 DEF Shown
<1> QED
  BY <1>1, <1>2

-------------------------------------------------------------------------------
(* Repairing a worktree. *)

\* What repairing n at p may change.
Repairs(d, e, n, p) ==
    /\ e.head = d.head /\ e.tip = d.tip
    /\ \A m \in Name : m # n => e.admin[m] = d.admin[m]
    /\ d.admin[n] \in Registered /\ e.admin[n] \in Registered
    /\ e.admin[n].head = d.admin[n].head /\ e.admin[n].common = d.admin[n].common
    /\ e.admin[n].locked = d.admin[n].locked
    /\ e.admin[n].gitdir \in {d.admin[n].gitdir, p}
    /\ DOMAIN e.tree = DOMAIN d.tree
    /\ \A x \in DOMAIN d.tree : e.tree[x].work = d.tree[x].work

LEMMA RepairsSame ==
  ASSUME NEW d \in Repos, NEW n \in Name, There(d, n), NEW p
  PROVE  Repairs(d, d, n, p)
BY AdminIs DEF Repairs

\* Of a registration only gitdir, to p, and its lock file.
Relinked(b, a, p) ==
    a.head = b.head /\ a.common = b.common /\ a.locked = b.locked /\ a.gitdir \in {b.gitdir, p}

LEMMA RepairsAdmin ==
  ASSUME NEW d \in Repos, NEW n \in Name, NEW p, NEW e \in Repos, Repairs(d, e, n, p),
         NEW a \in Registered, Relinked(e.admin[n], a, p)
  PROVE  LET f == [e EXCEPT !.admin[n] = a]
         IN  f \in Repos /\ Repairs(d, f, n, p) /\ f.admin[n] = a /\ f.tree = e.tree
<1> DEFINE f == [e EXCEPT !.admin[n] = a]
<1>1. /\ f \in Repos /\ f.admin[n] = a /\ \A m \in Name : m # n => f.admin[m] = e.admin[m]
      /\ f.head = e.head /\ f.tip = e.tip /\ f.tree = e.tree
  BY OneAdmin
<1> HIDE DEF f
<1> QED
  BY <1>1 DEF Repairs, Relinked, f

LEMMA RepairsTree ==
  ASSUME NEW d \in Repos, NEW n \in Name, NEW p, NEW e \in Repos, Repairs(d, e, n, p),
         NEW t \in Trees, DOMAIN t = DOMAIN e.tree, \A x \in DOMAIN t : t[x].work = e.tree[x].work
  PROVE  LET f == [e EXCEPT !.tree = t]
         IN  f \in Repos /\ Repairs(d, f, n, p) /\ f.admin = e.admin /\ f.tree = t
<1> DEFINE f == [e EXCEPT !.tree = t]
<1>1. /\ f \in Repos /\ f.tree = t /\ f.admin = e.admin /\ f.head = e.head /\ f.tip = e.tip
  BY WithTree
<1> HIDE DEF f
<1> QED
  BY <1>1 DEF Repairs, f

\* Closed under what repairing n at p may change, from d on.
Closed(S, d, n, p) == S \subseteq Repos /\ \A e \in Repos : Repairs(d, e, n, p) => e \in S

\* What a repair comes to: both links, or nothing but the configuration has changed.
Settles(r, S, d, n, p) ==
    /\ r.ways \in Seq(S) /\ r.ways # <<>> /\ r.done \in BOOLEAN
    /\ r.done => Leads(Last(r.ways), p, n) /\ Last(r.ways).admin[n].gitdir = p
                 /\ There(Last(r.ways), n)
    /\ ~r.done => Last(r.ways).tree = d.tree /\ Last(r.ways).admin = d.admin

LEMMA PublishSettles ==
  ASSUME NEW S, NEW d \in Repos, NEW n \in Name, NEW p \in DOMAIN d.tree, Closed(S, d, n, p),
         NEW ways \in Seq(S), ways # <<>>, Last(ways) \in Repos, Repairs(d, Last(ways), n, p),
         Last(ways).tree = d.tree, Last(ways).admin = d.admin
  PROVE  Settles(Publish(ways, n, p), S, d, n, p)
<1> DEFINE d0 == Last(ways)
           d1 == [d0 EXCEPT !.admin[n].lock = TRUE]
           d2 == [d1 EXCEPT !.tree = WithLock(@, p, TRUE)]
           d3 == [d2 EXCEPT !.admin[n].gitdir = p, !.admin[n].lock = FALSE]
           d4 == [d3 EXCEPT !.tree = WithLock(WithGit(@, p, GitFile(n, p)), p, FALSE)]
           r == Publish(ways, n, p)
<1>0. r = IF d0.admin[n].lock THEN Failed(ways)
          ELSE IF d0.tree[p].lock THEN Failed(ways \o <<d1, d0>>)
          ELSE Through(ways \o <<d1, d2, d3, d4>>)
  BY DEF Publish
<1>1. /\ d0 \in Repos /\ Repairs(d, d0, n, p) /\ d0.tree = d.tree /\ d0.admin = d.admin /\ d0 \in S
      /\ ways \in Seq(S) /\ ways # <<>> /\ d.tree \in Trees /\ p \in Seq(Nat)
  BY LastIs, DirtyIs, TreeIs DEF Paths
<1> HIDE DEF d0, d1, d2, d3, d4, r
<1>2. /\ d1 \in Repos /\ Repairs(d, d1, n, p) /\ d1.tree = d.tree /\ d1.admin[n] \in Registered
      /\ d1.admin[n].gitdir = d.admin[n].gitdir
  <2> DEFINE a == [d0.admin[n] EXCEPT !.lock = TRUE]
  <2>1. /\ a \in Registered /\ a.head = d0.admin[n].head /\ a.common = d0.admin[n].common
        /\ a.locked = d0.admin[n].locked /\ a.gitdir = d0.admin[n].gitdir
    BY <1>1 DEF Registered, Repairs
  <2>2. d1 = [d0 EXCEPT !.admin[n] = a]
    BY DEF d1
  <2> HIDE DEF a
  <2>3. Relinked(d0.admin[n], a, p)
    BY <2>1 DEF Relinked
  <2> DEFINE f == [d0 EXCEPT !.admin[n] = a]
  <2>4. f \in Repos /\ Repairs(d, f, n, p) /\ f.admin[n] = a /\ f.tree = d0.tree
    <3>1. d0 \in Repos /\ Repairs(d, d0, n, p) /\ a \in Registered
      BY <1>1, <2>1
    <3> QED BY <2>3, <3>1, RepairsAdmin
  <2>5. d1 = f
    BY <2>2
  <2> HIDE DEF f
  <2> QED BY <1>1, <2>1, <2>4, <2>5
<1> DEFINE t2 == WithLock(d1.tree, p, TRUE)
<1>3. /\ t2 \in Trees /\ DOMAIN t2 = DOMAIN d.tree /\ \A x \in DOMAIN t2 : t2[x].work = d.tree[x].work
  <2> DEFINE t == d1.tree
  <2>1. t \in Trees /\ p \in DOMAIN t /\ t2 \in {WithLock(t, p, TRUE), WithLock(t, p, FALSE)}
    BY <1>1, <1>2
  <2>2. t = d.tree
    BY <1>2
  <2> HIDE DEF t, t2
  <2>3. t2 \in Trees /\ DOMAIN t2 = DOMAIN t /\ \A x \in DOMAIN t : t2[x].work = t[x].work
    BY <2>1, WithLockIs
  <2> QED BY <2>2, <2>3
<1> HIDE DEF t2
<1>4. d2 \in Repos /\ Repairs(d, d2, n, p) /\ d2.admin = d1.admin /\ d2.tree = t2
  <2>1. d2 = [d1 EXCEPT !.tree = t2]
    BY DEF d2, t2
  <2> QED BY <1>2, <1>3, <2>1, RepairsTree
<1>5. /\ d3 \in Repos /\ Repairs(d, d3, n, p) /\ d3.tree = t2 /\ d3.admin[n].gitdir = p
  <2> DEFINE a == [d2.admin[n] EXCEPT !.gitdir = p, !.lock = FALSE]
  <2>1. /\ a \in Registered /\ a.head = d2.admin[n].head /\ a.common = d2.admin[n].common
        /\ a.locked = d2.admin[n].locked /\ a.gitdir = p
    BY <1>1, <1>2, <1>4 DEF Registered
  <2>2. d3 = [d2 EXCEPT !.admin[n] = a]
    BY <1>4 DEF d3, Repos, Admins
  <2> HIDE DEF a
  <2>3. Relinked(d2.admin[n], a, p)
    BY <2>1 DEF Relinked
  <2> DEFINE f == [d2 EXCEPT !.admin[n] = a]
  <2>4. f \in Repos /\ Repairs(d, f, n, p) /\ f.admin[n] = a /\ f.tree = d2.tree
    <3>1. d2 \in Repos /\ Repairs(d, d2, n, p) /\ a \in Registered
      BY <1>4, <2>1
    <3> QED BY <2>3, <3>1, RepairsAdmin
  <2>5. d3 = f
    BY <2>2
  <2> HIDE DEF f
  <2> QED BY <1>4, <2>1, <2>4, <2>5
<1> DEFINE t3 == WithGit(d3.tree, p, GitFile(n, p))
           t4 == WithLock(t3, p, FALSE)
<1>6. /\ t3 \in Trees /\ DOMAIN t3 = DOMAIN d.tree /\ t3[p].git = GitFile(n, p)
      /\ \A x \in DOMAIN t3 : t3[x].work = d3.tree[x].work
  BY <1>1, <1>3, <1>5, GitFileIs, WithGitIs
<1> HIDE DEF t3
<1>7. /\ t4 \in Trees /\ DOMAIN t4 = DOMAIN d.tree /\ t4[p].git = GitFile(n, p)
      /\ \A x \in DOMAIN t4 : t4[x].work = d3.tree[x].work
  <2>1. t3 \in Trees /\ p \in DOMAIN t3
    BY <1>6
  <2>2. /\ t4 \in Trees /\ DOMAIN t4 = DOMAIN t3 /\ t4[p].git = t3[p].git
        /\ \A x \in DOMAIN t3 : t4[x].work = t3[x].work
    BY <2>1, WithLockIs
  <2> HIDE DEF t4
  <2> QED BY <1>6, <2>2
<1> HIDE DEF t4
<1>8. d4 \in Repos /\ Repairs(d, d4, n, p) /\ d4.admin = d3.admin /\ d4.tree = t4
  <2>1. d4 = [d3 EXCEPT !.tree = t4]
    BY DEF d4, t3, t4
  <2> QED BY <1>3, <1>5, <1>7, <2>1, RepairsTree
<1>9. d1 \in S /\ d2 \in S /\ d3 \in S /\ d4 \in S
  BY <1>2, <1>4, <1>5, <1>8 DEF Closed
<1>10. CASE d0.admin[n].lock
  <2>1. r.ways = ways /\ r.done = FALSE
    BY <1>0, <1>10 DEF Failed
  <2> QED BY <1>1, <2>1 DEF Settles, r, d0
<1>11. CASE ~d0.admin[n].lock /\ d0.tree[p].lock
  <2> DEFINE u == <<d1, d0>>
  <2>1. r.ways = ways \o u /\ r.done = FALSE
    BY <1>0, <1>11 DEF Failed
  <2>2. u \in Seq(S) /\ u # <<>> /\ Last(u) = d0
    BY <1>1, <1>9, FewAre
  <2> HIDE DEF u
  <2>3. r.ways \in Seq(S) /\ r.ways # <<>> /\ Last(r.ways) = d0
    BY <1>1, <2>1, <2>2, JoinIs
  <2> QED BY <1>1, <2>1, <2>3 DEF Settles, r
<1>12. CASE ~d0.admin[n].lock /\ ~d0.tree[p].lock
  <2> DEFINE u == <<d1, d2, d3, d4>>
  <2>1. r.ways = ways \o u /\ r.done = TRUE
    BY <1>0, <1>12 DEF Through
  <2>2. u \in Seq(S) /\ u # <<>> /\ Last(u) = d4
    BY <1>9, FewAre
  <2> HIDE DEF u
  <2>3. r.ways \in Seq(S) /\ r.ways # <<>> /\ Last(r.ways) = d4
    BY <1>1, <2>1, <2>2, JoinIs
  <2>4. Leads(d4, p, n) /\ d4.admin[n].gitdir = p
    BY <1>5, <1>7, <1>8 DEF Leads, Exists
  <2>5. There(d4, n)
    BY <1>8 DEF Repairs, Registered, There
  <2> QED BY <2>1, <2>3, <2>4, <2>5 DEF Settles, r
<1> QED
  BY <1>10, <1>11, <1>12

LEMMA RepairSettles ==
  ASSUME NEW S, NEW ways \in Seq(S), ways # <<>>, NEW n \in Name, NEW p,
         Closed(S, Last(ways), n, p)
  PROVE  Settles(RepairFrom(ways, n, p), S, Last(ways), n, p)
<1> DEFINE d == Last(ways)
           r == RepairFrom(ways, n, p)
           e == [d EXCEPT !.relative = TRUE]
           w == Append(ways, e)
<1>0. r = IF ~There(d, n) \/ ~Exists(d, p) THEN Failed(ways)
          ELSE IF Linking(d, n, p) THEN Through(ways) ELSE Publish(w, n, p)
  BY DEF RepairFrom
<1>1. d \in S /\ d \in Repos /\ ways \in Seq(S) /\ ways # <<>> /\ Closed(S, d, n, p)
  BY LastIs DEF Closed
<1> HIDE DEF r, e
<1>2. CASE ~There(d, n) \/ ~Exists(d, p)
  <2>1. r.ways = ways /\ r.done = FALSE
    BY <1>0, <1>2 DEF Failed
  <2> QED BY <1>1, <2>1 DEF Settles, r
<1>3. CASE ~ (~There(d, n) \/ ~Exists(d, p)) /\ Linking(d, n, p)
  <2>1. r.ways = ways /\ r.done = TRUE
    BY <1>0, <1>3 DEF Through
  <2> QED BY <1>1, <1>3, <2>1 DEF Settles, r, Linking
<1>4. CASE ~ (~There(d, n) \/ ~Exists(d, p)) /\ ~Linking(d, n, p)
  <2>1. r = Publish(w, n, p) /\ p \in DOMAIN d.tree
    BY <1>0, <1>4 DEF Exists
  <2> HIDE DEF d
  <2>2. e \in Repos /\ e.tree = d.tree /\ e.admin = d.admin /\ e.head = d.head /\ e.tip = d.tip
    BY <1>1, WithRelative DEF e
  <2>3. Repairs(d, e, n, p)
    BY <1>1, <1>4, <2>2, RepairsSame DEF Repairs
  <2>4. e \in S
    BY <1>1, <2>2, <2>3 DEF Closed
  <2>5. w \in Seq(S) /\ w # <<>> /\ Last(w) = e
    BY <1>1, <2>4, OneMore
  <2> HIDE DEF w
  <2>6. Settles(Publish(w, n, p), S, d, n, p)
    BY <1>1, <2>1, <2>2, <2>3, <2>5, PublishSettles
  <2> QED BY <2>1, <2>6 DEF r, d
<1> QED
  BY <1>2, <1>3, <1>4

LEMMA RepairShown ==
  ASSUME repo \in Repos, NEW n \in Name, NEW p \in Place, RepairCall(n, p)
  PROVE  Shown
<1> DEFINE d == repo
           r == RepairFrom(<<d>>, n, p)
           S == {e \in Repos : e = d \/ Repairs(d, e, n, p)}
           no == FALSE
<1>0. d \in Repos /\ Ends("repair", n, 0, no, r) /\ p \in Paths
  BY PlacesAre DEF RepairCall, RepairWorktree
<1> HIDE DEF d, r, no
<1>1. <<d>> \in Seq(S) /\ <<d>> # <<>> /\ Last(<<d>>) = d
  BY <1>0, FewAre
<1>2. Closed(S, d, n, p)
  BY DEF Closed
<1> HIDE DEF S
<1>3. Settles(r, S, d, n, p)
  BY <1>1, <1>2, RepairSettles DEF r
<1>4. r.ways \in Seq(S) /\ r.ways # <<>> /\ r.done \in BOOLEAN
  BY <1>3 DEF Settles
<1>5. /\ repo' \in S /\ did'.op = "repair" /\ did'.about = n
      /\ did'.done => repo' = Last(r.ways) /\ r.done
  BY <1>0, <1>4, EndsIs
<1>6. repo' \in Repos /\ (repo' = d \/ Repairs(d, repo', n, p))
  BY <1>5 DEF S
<1>7. WorkKept
  <2>1. Dirty(d) \subseteq Dirty(repo')
    BY <1>6 DEF Repairs, Dirty
  <2>2. \A m \in Name : There(d, m) => There(repo', m)
    BY <1>6 DEF Repairs, There, Registered
  <2>3. \A m \in Name : Whole(d, m) => Whole(repo', m)
    BY <1>0, <1>6, <2>2 DEF Repairs, Whole, Opens, There, Paths
  <2> QED BY <1>5, <2>1, <2>2, <2>3, WorkStays DEF Live, d
<1>8. Sheds(d, repo')
  <2>1. \A m \in Name : There(repo', m) => There(d, m)
    BY <1>6 DEF Repairs, There, Registered
  <2> QED BY <1>6, <2>1 DEF Sheds, Repairs
<1>9. HeadsFollow
  BY <1>5, <1>8, ShedsFollow DEF d
<1>10. LinksAgree
  <2>1. did'.done => Leads(repo', p, n) /\ repo'.admin[n].gitdir = p
    BY <1>3, <1>5 DEF Settles
  <2>2. did'.done => There(repo', n)
    BY <1>3, <1>5 DEF Settles
  <2> QED BY <1>5, <2>1, <2>2 DEF LinksAgree, Agree
<1> QED
  BY <1>5, <1>6, <1>7, <1>9, <1>10 DEF Shown

-------------------------------------------------------------------------------
(* Moving a worktree. *)

SameWork(t, u) == DOMAIN t = DOMAIN u /\ \A x \in DOMAIN u : t[x].work = u[x].work

\* What moving n from p to q may change.
Moves(d, e, n, p, q, override) ==
    /\ Sheds(d, e)
    /\ \A m \in Name : m # n => \/ e.admin[m] = d.admin[m]
                                \/ /\ There(d, m) /\ d.admin[m].gitdir = q
                                   /\ d.admin[m].locked => override
    /\ e.admin[n] \in Registered
    /\ e.admin[n].head = d.admin[n].head /\ e.admin[n].common = d.admin[n].common
    /\ e.admin[n].gitdir \in {p, q}
    /\ \/ e.tree = d.tree
       \/ MayGo(d.tree, p, q) /\ SameWork(e.tree, Renamed(d.tree, p, q))

LEMMA MovesRepair ==
  ASSUME NEW d \in Repos, NEW n \in Name, NEW p, NEW q, NEW override, NEW c, Moves(d, c, n, p, q, override),
         MayGo(d.tree, p, q), c.tree = Renamed(d.tree, p, q), NEW e, Repairs(c, e, n, q)
  PROVE  Moves(d, e, n, p, q, override)
<1>1. Sheds(d, e)
  <2>1. e.head = d.head /\ e.tip = d.tip
    BY DEF Moves, Sheds, Repairs
  <2>2. \A m \in Name : m # n => e.admin[m] = c.admin[m]
    BY DEF Repairs
  <2>3. There(c, n) /\ e.admin[n].head = c.admin[n].head
    BY DEF Repairs, Registered, There
  <2>4. \A m \in Name : There(c, m) => There(d, m) /\ c.admin[m].head \in {d.admin[m].head, NoHead}
    BY DEF Moves, Sheds
  <2> QED BY <2>1, <2>2, <2>3, <2>4 DEF Sheds, There
<1>2. SameWork(e.tree, Renamed(d.tree, p, q))
  BY DEF Repairs, SameWork
<1>3. \A m \in Name : m # n => e.admin[m] = c.admin[m]
  BY DEF Repairs
<1>4. /\ e.admin[n] \in Registered /\ e.admin[n].head = c.admin[n].head
      /\ e.admin[n].common = c.admin[n].common /\ e.admin[n].gitdir \in {c.admin[n].gitdir, q}
  BY DEF Repairs
<1> QED
  BY <1>1, <1>2, <1>3, <1>4 DEF Moves

LEMMA MovesWork ==
  ASSUME NEW d \in Repos, NEW e \in Repos, NEW n, NEW p, NEW q, NEW override,
         Moves(d, e, n, p, q, override)
  PROVE  Cardinality(Dirty(e)) = Cardinality(Dirty(d))
<1>1. CASE e.tree = d.tree
  BY <1>1 DEF Dirty
<1>2. CASE MayGo(d.tree, p, q) /\ SameWork(e.tree, Renamed(d.tree, p, q))
  <2> DEFINE u == Renamed(d.tree, p, q)
             c == [d EXCEPT !.tree = u]
  <2>1. u \in Trees
    BY <1>2, DirtyIs, RenamedIs
  <2>2. SameWork(e.tree, u)
    BY <1>2
  <2> HIDE DEF u
  <2>3. c \in Repos /\ c.tree = u
    BY <2>1, WithTree
  <2> HIDE DEF c
  <2>4. Cardinality(Dirty(c)) = Cardinality(Dirty(d))
    BY <1>2, <2>3, DirtyMoved DEF u
  <2>5. Dirty(e) = Dirty(c)
    BY <2>2, <2>3 DEF SameWork, Dirty
  <2> QED BY <2>4, <2>5
<1> QED
  BY <1>1, <1>2 DEF Moves

\* The other registrations of q that may go under this authority over locks.
Yielding(d, n, q, override) == {m \in InTheWay(d, n, q) : d.admin[m].locked => override}

\* The registrations in the way are gone, or the first of them that may not go is left.
LEMMA VacatedIs ==
  ASSUME NEW d \in Repos, NEW n \in Name, There(d, n), NEW q, NEW forceRegistered, NEW override,
         NEW S \in SUBSET Repos, d \in S,
         \A a \in Admins : Lapsed(d.admin, a, Yielding(d, n, q, override)) => [d EXCEPT !.admin = a] \in S
  PROVE  LET r == Vacated(d, n, q, forceRegistered, override)
         IN  /\ r.ways \in Seq(S) /\ r.ways # <<>> /\ r.done \in BOOLEAN
             /\ Last(r.ways).tree = d.tree /\ Last(r.ways).admin[n] = d.admin[n]
             /\ Last(r.ways).admin \in Admins
             /\ Last(r.ways).head = d.head /\ Last(r.ways).tip = d.tip
             /\ Lapsed(d.admin, Last(r.ways).admin, Yielding(d, n, q, override))
<1> DEFINE r == Vacated(d, n, q, forceRegistered, override)
           others == InTheWay(d, n, q)
           kept == {m \in others : ~MayVacate(d, m, forceRegistered, override)}
           gone == {m \in others : \A k \in kept : m < k}
           free == Yielding(d, n, q, override)
           w == <<d>>
<1>1. r.ways = RemoveAdmins(w, gone) /\ r.done = (kept = {})
  BY DEF Vacated
<1>2. gone \subseteq free /\ gone \subseteq Names(d) /\ n \notin gone
  <2>1. ASSUME NEW m \in gone PROVE m \in free /\ m \in Names(d) /\ m # n
    <3>1. m \in others /\ m \in Name
      BY DEF InTheWay, Names
    <3>2. ~ (m < m)
      BY <3>1, NamesAre
    <3>3. m \notin kept
      BY <3>2
    <3>4. MayVacate(d, m, forceRegistered, override)
      BY <3>1, <3>3
    <3>5. d.admin[m].locked => override
      BY <3>4 DEF MayVacate
    <3> QED BY <3>1, <3>5 DEF InTheWay, Yielding
  <2> QED BY <2>1
<1> HIDE DEF gone, r
<1>3. \A a \in Admins : Lapsed(d.admin, a, gone) => Lapsed(d.admin, a, free)
  BY <1>2 DEF Lapsed
<1>4. \A a \in Admins : Lapsed(d.admin, a, gone) => [d EXCEPT !.admin = a] \in S
  BY <1>3
<1> HIDE DEF free
<1>5. w \in Seq(S) /\ w # <<>> /\ Last(w) = d
  BY FewAre
<1> HIDE DEF w
<1>6. /\ RemoveAdmins(w, gone) \in Seq(S) /\ RemoveAdmins(w, gone) # <<>>
      /\ Last(RemoveAdmins(w, gone)) =
             IF gone = {} THEN d ELSE [d EXCEPT !.admin = Without(d.admin, gone)]
  BY <1>2, <1>4, <1>5, RemoveAdminsIs
<1>7. d.admin \in Admins /\ Lapsed(d.admin, d.admin, free)
  BY DEF Repos, Lapsed
<1> DEFINE b == Without(d.admin, gone)
<1>8. b \in Admins /\ b[n] = d.admin[n] /\ Lapsed(d.admin, b, free)
  BY <1>2, <1>7 DEF Without, Admins, Lapsed
<1> HIDE DEF b
<1> DEFINE e == [d EXCEPT !.admin = b]
<1>9. e.admin = b /\ e.tree = d.tree /\ e.head = d.head /\ e.tip = d.tip
  BY <1>8, WithAdmins
<1>10. Last(r.ways) = d \/ Last(r.ways) = e
  BY <1>1, <1>6 DEF b
<1> HIDE DEF e
<1>11. r.ways \in Seq(S) /\ r.ways # <<>> /\ r.done \in BOOLEAN
  BY <1>1, <1>6
<1>12. /\ Last(r.ways).tree = d.tree /\ Last(r.ways).admin[n] = d.admin[n]
       /\ Last(r.ways).admin \in Admins
       /\ Last(r.ways).head = d.head /\ Last(r.ways).tip = d.tip
       /\ Lapsed(d.admin, Last(r.ways).admin, free)
  BY <1>7, <1>8, <1>9, <1>10
<1> QED
  BY <1>11, <1>12 DEF r, free

LEMMA MovesTree ==
  ASSUME NEW d \in Repos, NEW n \in Name, NEW p, NEW q, NEW override, NEW e \in Repos,
         Moves(d, e, n, p, q, override), NEW t \in Trees,
         t = d.tree \/ (MayGo(d.tree, p, q) /\ t = Renamed(d.tree, p, q))
  PROVE  LET f == [e EXCEPT !.tree = t]
         IN  f \in Repos /\ Moves(d, f, n, p, q, override) /\ f.admin = e.admin /\ f.tree = t
<1> DEFINE f == [e EXCEPT !.tree = t]
<1>1. f \in Repos /\ f.tree = t /\ f.admin = e.admin /\ f.head = e.head /\ f.tip = e.tip
  BY WithTree
<1> HIDE DEF f
<1>2. Sheds(d, f)
  BY <1>1 DEF Moves, Sheds, There
<1>3. t = d.tree \/ (MayGo(d.tree, p, q) /\ SameWork(t, Renamed(d.tree, p, q)))
  BY DEF SameWork
<1>4. Moves(d, f, n, p, q, override)
  BY <1>1, <1>2, <1>3 DEF Moves
<1> QED
  BY <1>1, <1>4 DEF f

\* The directory has arrived and both links name it, or nothing has changed.
Arrives(r, S, d, n, p, q) ==
    /\ r.ways \in Seq(S) /\ r.ways # <<>> /\ r.done \in BOOLEAN
    /\ r.done => /\ Leads(Last(r.ways), q, n) /\ Last(r.ways).admin[n].gitdir = q
                 /\ There(Last(r.ways), n) /\ Last(r.ways).tree[q].work = d.tree[p].work
    /\ ~r.done => Last(r.ways).tree = d.tree /\ Last(r.ways).admin[n] = d.admin[n]

LEMMA ArriveIs ==
  ASSUME NEW d \in Repos, NEW n \in Name, There(d, n), NEW p \in DOMAIN d.tree, NEW q \in Paths,
         ~Exists(d, q), ~Inside(p, q), NEW override,
         NEW S, S = {e \in Repos : Moves(d, e, n, p, q, override)},
         NEW ways \in Seq(S), ways # <<>>,
         Last(ways).tree = d.tree, Last(ways).admin[n] = d.admin[n]
  PROVE  Arrives(Arrive(ways, n, p, q), S, d, n, p, q)
<1> DEFINE c == Last(ways)
           t == d.tree
           u == Renamed(t, p, q)
           e == [c EXCEPT !.tree = u]
           w == Append(ways, e)
           s == RepairFrom(w, n, q)
           f == Last(s.ways)
           g == [f EXCEPT !.tree = Renamed(f.tree, q, p)]
           r == Arrive(ways, n, p, q)
<1>0. r = IF Len(q) > 1 /\ ~Exists(c, Front(q)) THEN Failed(ways)
          ELSE IF s.done THEN s ELSE Failed(Append(s.ways, g))
  BY DEF Arrive
<1>1. c \in Repos /\ Moves(d, c, n, p, q, override) /\ c \in S
  BY LastIs
<1>2. t \in Trees
  BY DEF Repos
<1>3. c.tree = t /\ c.admin[n] = d.admin[n]
  OBVIOUS
<1> HIDE DEF r, c
<1>4. CASE Len(q) > 1 /\ ~Exists(c, Front(q))
  <2>1. r.ways = ways /\ r.done = FALSE
    BY <1>0, <1>4 DEF Failed
  <2> QED BY <1>3, <2>1 DEF Arrives, r, c
<1>5. CASE ~ (Len(q) > 1 /\ ~Exists(c, Front(q)))
  <2>1. MayGo(t, p, q)
    BY <1>3, <1>5 DEF MayGo, Exists
  <2>2. u \in Trees /\ q \in DOMAIN u /\ u[q] = t[p]
    BY <1>2, <2>1, RenamedIs
  <2>3. Renamed(u, q, p) = t
    BY <1>2, <2>1, RenamedBack
  <2>4. e \in Repos /\ Moves(d, e, n, p, q, override) /\ e.admin = c.admin /\ e.tree = u
    BY <1>1, <2>1, <2>2, MovesTree
  <2> HIDE DEF e
  <2>5. e \in S
    BY <2>4
  <2>6. w \in Seq(S) /\ w # <<>> /\ Last(w) = e
    BY <2>5, OneMore
  <2>7. Closed(S, e, n, q)
    BY <2>1, <2>4, MovesRepair DEF Closed
  <2> HIDE DEF w
  <2>8. Settles(s, S, e, n, q)
    BY <2>6, <2>7, RepairSettles
  <2> HIDE DEF s
  <2>9. f \in S /\ f \in Repos /\ Moves(d, f, n, p, q, override)
    BY <2>8, LastIs DEF Settles
  <2>10. CASE s.done
    <3>1. r = s
      BY <1>0, <1>5, <2>10
    <3>2. Leads(f, q, n) /\ f.admin[n].gitdir = q /\ There(f, n)
      BY <2>8, <2>10 DEF Settles
    <3>3. q \in DOMAIN f.tree
      BY <3>2 DEF Leads, Exists
    <3>4. f.tree = t \/ SameWork(f.tree, u)
      BY <2>9 DEF Moves
    <3>5. f.tree[q].work = t[p].work
      BY <2>2, <3>3, <3>4 DEF SameWork, Exists
    <3> QED BY <2>8, <2>10, <3>1, <3>2, <3>5 DEF Settles, Arrives, r
  <2>11. CASE ~s.done
    <3>1. f.tree = u /\ f.admin = c.admin
      BY <2>4, <2>8, <2>11 DEF Settles
    <3>2. g = [f EXCEPT !.tree = t]
      BY <2>3, <3>1
    <3>3. g \in Repos /\ Moves(d, g, n, p, q, override) /\ g.admin = f.admin /\ g.tree = t
      <4> DEFINE h == [f EXCEPT !.tree = t]
      <4>1. h \in Repos /\ Moves(d, h, n, p, q, override) /\ h.admin = f.admin /\ h.tree = t
        BY <1>2, <2>9, MovesTree
      <4> HIDE DEF h, f, g, t, u
      <4> QED BY <3>2, <4>1 DEF h
    <3> HIDE DEF g, f
    <3>4. g \in S
      BY <3>3
    <3> DEFINE v == Append(s.ways, g)
    <3>5. v \in Seq(S) /\ v # <<>> /\ Last(v) = g
      BY <2>8, <3>4, OneMore DEF Settles
    <3> HIDE DEF v
    <3>6. r.ways = v /\ r.done = FALSE
      BY <1>0, <1>5, <2>11 DEF Failed, v
    <3>7. g.admin[n] = d.admin[n] /\ g.tree = d.tree
      BY <1>3, <3>1, <3>3
    <3> QED BY <3>5, <3>6, <3>7 DEF Arrives, r
  <2> QED BY <2>10, <2>11
<1> QED
  BY <1>4, <1>5

LEMMA DestinationIs ==
  ASSUME NEW d, NEW p \in Paths, NEW q \in Paths
  PROVE  Destination(d, p, q) \in Paths
<1>1. q \in Seq(Nat) /\ p \in Seq(Nat) /\ Last(p) \in Nat
  BY LastIs DEF Paths
<1>2. Append(q, Last(p)) \in Seq(Nat) /\ Append(q, Last(p)) # <<>>
  BY <1>1, OneMore
<1> QED
  BY <1>2 DEF Destination, Paths

\* Whatever a move has come to: of the registrations only those in the way may suffer.
LEMMA MovesKept ==
  ASSUME repo \in Repos, repo' \in Repos, NEW n \in Name, NEW p, NEW q, NEW override,
         There(repo, n), p = repo.admin[n].gitdir, p # <<>>, q # <<>>, ~Exists(repo, q),
         repo.admin[n].locked => override,
         Moves(repo, repo', n, p, q, override), did'.op = "move", did'.force = override
  PROVE  WorkKept
<1> DEFINE d == repo
           e == repo'
<1>1. Cardinality(Dirty(e)) = Cardinality(Dirty(d))
  BY MovesWork
<1>2. /\ \A m \in Name : m # n => \/ e.admin[m] = d.admin[m]
                                  \/ /\ There(d, m) /\ d.admin[m].gitdir = q
                                     /\ d.admin[m].locked => override
      /\ e.admin[n] \in Registered
      /\ e.admin[n].head = d.admin[n].head /\ e.admin[n].common = d.admin[n].common
      /\ e.admin[n].gitdir \in {p, q}
  BY DEF Moves
<1> HIDE DEF d, e
<1>3. ASSUME NEW m \in Name, Live(d, m) PROVE Whole(e, m)
  <2>1. CASE m = n
    BY <1>2, <1>3, <2>1 DEF Live, Whole, Opens, There, Registered
  <2>2. CASE m # n /\ e.admin[m] = d.admin[m]
    BY <1>3, <2>2 DEF Live, Whole, Opens, There
  <2>3. CASE d.admin[m].gitdir = q
    BY <1>3, <2>3 DEF Live, Agree, Leads, d
  <2> QED BY <1>2, <2>1, <2>2, <2>3
<1>4. ASSUME NEW m \in Name, There(d, m), d.admin[m].locked, ~There(e, m) PROVE did'.force
  <2>1. m # n
    BY <1>2, <1>4 DEF There, Registered
  <2> QED BY <1>2, <1>4, <2>1 DEF There
<1> QED
  BY <1>1, <1>3, <1>4 DEF WorkKept, Names, d, e

LEMMA MoveShown ==
  ASSUME repo \in Repos, NEW n \in Name, NEW q \in Place, NEW forceRegistered \in BOOLEAN,
         NEW override \in BOOLEAN, MoveCall(n, q, forceRegistered, override)
  PROVE  Shown
<1> DEFINE d == repo
           p == d.admin[n].gitdir
           to == Destination(d, p, q)
           v == Vacated(d, n, to, forceRegistered, override)
           r == IF v.done THEN Arrive(v.ways, n, p, to) ELSE v
           S == {e \in Repos : Moves(d, e, n, p, to, override)}
           free == Yielding(d, n, to, override)
           zero == 0
<1>0. d \in Repos /\ Ends("move", n, zero, override, MoveWorktree(d, n, q, forceRegistered, override))
  BY DEF MoveCall
<1> HIDE DEF d, zero
<1>1. CASE ~MayMove(d, n, q, override)
  BY <1>0, <1>1, RejectedShown DEF MoveWorktree, d
<1>2. CASE MayMove(d, n, q, override)
  <2>1. Ends("move", n, zero, override, r)
    BY <1>0, <1>2 DEF MoveWorktree
  <2>2. /\ There(d, n) /\ p \in Paths /\ p \in DOMAIN d.tree /\ d.admin[n] \in Registered
        /\ d.admin[n].locked => override
        /\ ~Exists(d, to) /\ ~Inside(p, to)
    BY <1>0, <1>2, AdminIs DEF MayMove, Registered, Paths, Leads, Exists
  <2>3. to \in Paths
    BY <2>2, PlacesAre, DestinationIs
  <2> HIDE DEF p, to
  <2>4. ASSUME NEW e \in Repos, e.head = d.head, e.tip = d.tip, e.tree = d.tree,
               Lapsed(d.admin, e.admin, free)
        PROVE  e \in S
    <3>1. free \in SUBSET Names(d) /\ n \notin free
      BY DEF InTheWay, Yielding
    <3>2. Sheds(d, e) /\ \A m \in Name : m \notin free => e.admin[m] = d.admin[m]
      BY <1>0, <2>4, <3>1, ShedsAdmins
    <3>3. \A m \in free : There(d, m) /\ d.admin[m].gitdir = to /\ (d.admin[m].locked => override)
      BY DEF InTheWay, Yielding, Names
    <3> HIDE DEF free
    <3>4. Moves(d, e, n, p, to, override)
      BY <2>2, <2>4, <3>1, <3>2, <3>3 DEF Moves, p
    <3> QED BY <3>4
  <2>5. d \in S
    BY <1>0, <2>4 DEF Lapsed
  <2>6. \A a \in Admins : Lapsed(d.admin, a, free) => [d EXCEPT !.admin = a] \in S
    BY <1>0, <2>4, WithAdmins
  <2>7. S \in SUBSET Repos /\ S = {e \in Repos : Moves(d, e, n, p, to, override)}
    OBVIOUS
  <2> HIDE DEF S
  <2>8. /\ v.ways \in Seq(S) /\ v.ways # <<>> /\ v.done \in BOOLEAN
        /\ Last(v.ways).tree = d.tree /\ Last(v.ways).admin[n] = d.admin[n]
    BY <1>0, <2>2, <2>5, <2>6, <2>7, VacatedIs
  <2> HIDE DEF v
  <2>9. Arrives(r, S, d, n, p, to)
    <3>1. CASE v.done
      <4>1. Arrives(Arrive(v.ways, n, p, to), S, d, n, p, to)
        BY <1>0, <2>2, <2>3, <2>7, <2>8, ArriveIs
      <4> QED BY <3>1, <4>1
    <3>2. CASE ~v.done
      BY <2>8, <3>2 DEF Arrives
    <3> QED BY <2>8, <3>1, <3>2
  <2> HIDE DEF r
  <2>10. r.ways \in Seq(S) /\ r.ways # <<>> /\ r.done \in BOOLEAN
    BY <2>9 DEF Arrives
  <2>11. /\ repo' \in S /\ did'.op = "move" /\ did'.about = n /\ did'.force = override
         /\ did'.broken \/ repo' = Last(r.ways)
         /\ did'.done => repo' = Last(r.ways) /\ r.done
         /\ ~did'.broken /\ ~did'.done => ~r.done
    BY <2>1, <2>10, EndsIs
  <2>12. repo' \in Repos /\ Moves(d, repo', n, p, to, override)
    BY <2>7, <2>11
  <2>13. HeadsFollow
    BY <2>11, <2>12, ShedsFollow DEF Moves, d
  <2>14. WorkKept
    BY <1>0, <2>2, <2>3, <2>11, <2>12, MovesKept DEF d, p, Paths
  <2>15. LinksAgree
    <3>1. did'.done => /\ Leads(repo', to, n) /\ repo'.admin[n].gitdir = to /\ There(repo', n)
                       /\ repo'.tree[to].work = d.tree[p].work
      BY <2>9, <2>11 DEF Arrives
    <3>2. ~did'.done /\ ~did'.broken => repo'.tree = d.tree /\ repo'.admin[n] = d.admin[n]
      BY <2>9, <2>11 DEF Arrives
    <3> QED BY <2>11, <3>1, <3>2 DEF LinksAgree, Agree, d, p
  <2> QED
    BY <2>11, <2>12, <2>13, <2>14, <2>15 DEF Shown
<1> QED
  BY <1>1, <1>2

-------------------------------------------------------------------------------
(* Branches. *)

LEMMA TipIs ==
  ASSUME NEW d \in Repos, NEW b \in Branch, NEW c \in Change \cup {NoTip}
  PROVE  LET e == [d EXCEPT !.tip[b] = c]
         IN  /\ e \in Repos /\ e.tip[b] = c /\ \A x \in Branch : x # b => e.tip[x] = d.tip[x]
             /\ e.head = d.head /\ e.log = d.log /\ e.config = d.config
             /\ e.admin = d.admin /\ e.tree = d.tree
BY DEF Repos

LEMMA LogIs ==
  ASSUME NEW d \in Repos, NEW b \in Branch, NEW l \in SUBSET Branch
  PROVE  LET e == [d EXCEPT !.log[b] = l]
         IN  /\ e \in Repos /\ e.log[b] = l /\ \A x \in Branch : x # b => e.log[x] = d.log[x]
             /\ e.head = d.head /\ e.tip = d.tip /\ e.config = d.config
             /\ e.admin = d.admin /\ e.tree = d.tree
BY DEF Repos

LEMMA ConfigIs ==
  ASSUME NEW d \in Repos, NEW b \in Branch, NEW c \in Branch \cup {NoConfig}
  PROVE  LET e == [d EXCEPT !.config[b] = c]
         IN  /\ e \in Repos /\ e.config[b] = c /\ \A x \in Branch : x # b => e.config[x] = d.config[x]
             /\ e.head = d.head /\ e.tip = d.tip /\ e.log = d.log
             /\ e.admin = d.admin /\ e.tree = d.tree
BY DEF Repos

LEMMA BranchIs ==
  ASSUME NEW d \in Repos, NEW b \in Branch
  PROVE  /\ d.tip[b] \in Change \cup {NoTip} /\ d.log[b] \in SUBSET Branch
         /\ d.config[b] \in Branch \cup {NoConfig}
         /\ NoLog \in SUBSET Branch
BY DEF Repos, NoLog

LEMMA HeadIs ==
  ASSUME NEW d \in Repos, NEW b \in Branch
  PROVE  /\ HeadsOn(d, b) \subseteq Nat /\ IsFiniteSet(HeadsOn(d, b))
         /\ HeadsOn(d, b) \subseteq Names(d) \cup {0}
         /\ 0 \in HeadsOn(d, b) <=> d.head = On(b)
         /\ \A n \in Name : n \in HeadsOn(d, b) <=> There(d, n) /\ d.admin[n].head = On(b)
<1>1. 0 \notin Name /\ Name \subseteq Nat /\ IsFiniteSet(Name)
  BY NamesAre, LinkedAssumption
<1>2. HeadsOn(d, b) \subseteq Names(d) \cup {0} /\ Names(d) \subseteq Name
  BY DEF HeadsOn, Names
<1>3. IsFiniteSet(Name \cup {0})
  BY <1>1, FS_AddElement
<1>4. IsFiniteSet(HeadsOn(d, b))
  BY <1>2, <1>3, FS_Subset
<1>5. 0 \in HeadsOn(d, b) <=> d.head = On(b)
  BY <1>1 DEF HeadsOn, Names
<1>6. \A n \in Name : n \in HeadsOn(d, b) <=> There(d, n) /\ d.admin[n].head = On(b)
  BY <1>1 DEF HeadsOn, Names
<1>7. HeadsOn(d, b) \subseteq Nat
  <2>1. 0 \in Nat
    OBVIOUS
  <2>2. Names(d) \cup {0} \subseteq Nat
    BY <1>1, <1>2, <2>1, Zenon
  <2> QED BY <1>2, <2>2, Zenon
<1> HIDE DEF HeadsOn
<1> QED
  BY <1>2, <1>4, <1>5, <1>6, <1>7, Zenon

\* HEADs are as they were or h; nothing changed in a worktree is lost.
Heads(d, e, h) ==
    /\ Dirty(d) \subseteq Dirty(e)
    /\ e.head \in {d.head, h}
    /\ \A m \in Name :
          \/ e.admin[m] = d.admin[m]
          \/ /\ There(d, m) /\ e.admin[m] \in Registered
             /\ e.admin[m].gitdir = d.admin[m].gitdir /\ e.admin[m].common = d.admin[m].common
             /\ e.admin[m].head \in {d.admin[m].head, h}

LEMMA HeadsKept ==
  ASSUME did'.op # "move", NEW h \in HeadValues, Heads(repo, repo', h)
  PROVE  WorkKept
<1>1. h # NoHead
  BY HeadsAre
<1>2. ASSUME NEW m \in Name
      PROVE  (There(repo, m) => There(repo', m)) /\ (Whole(repo, m) => Whole(repo', m))
  <2>1. CASE repo'.admin[m] = repo.admin[m]
    BY <2>1 DEF There, Whole, Opens
  <2>2. CASE repo'.admin[m] # repo.admin[m]
    BY <1>1, <2>2 DEF Heads, There, Whole, Opens, Registered
  <2> QED BY <2>1, <2>2
<1>3. Dirty(repo) \subseteq Dirty(repo')
  BY DEF Heads
<1> QED
  BY <1>2, <1>3, WorkStays DEF Live

LEMMA DeleteShown ==
  ASSUME repo \in Repos, NEW b \in Branch, NEW force \in BOOLEAN, DeleteCall(b, force)
  PROVE  Shown
<1> DEFINE d == repo
           d1 == [d EXCEPT !.tip[b] = NoTip]
           d2 == [d1 EXCEPT !.log[b] = NoLog]
           d3 == [d2 EXCEPT !.config[b] = NoConfig]
           r == Through(<<d1, d2, d3>>)
           S == {e \in Repos : /\ e.head = d.head /\ e.admin = d.admin /\ e.tree = d.tree
                               /\ \A x \in Branch : x # b => e.tip[x] = d.tip[x]}
           zero == 0
<1>0. d \in Repos /\ Ends("delete", b, zero, force, DeleteBranch(d, b, force))
  BY DEF DeleteCall
<1> HIDE DEF d, zero
<1>1. CASE ~MayDelete(d, b, force)
  BY <1>0, <1>1, RejectedShown DEF DeleteBranch, d
<1>2. CASE MayDelete(d, b, force)
  <2>1. Ends("delete", b, zero, force, r)
    BY <1>0, <1>2 DEF DeleteBranch
  <2>2. d1 \in S
    <3>1. /\ d1 \in Repos /\ \A x \in Branch : x # b => d1.tip[x] = d.tip[x]
          /\ d1.head = d.head /\ d1.admin = d.admin /\ d1.tree = d.tree
      BY <1>0, TipIs
    <3> HIDE DEF d1
    <3> QED BY <3>1
  <2> HIDE DEF d1
  <2>3. d2 \in S
    <3>1. /\ d2 \in Repos /\ d2.tip = d1.tip
          /\ d2.head = d1.head /\ d2.admin = d1.admin /\ d2.tree = d1.tree
      <4>1. d1 \in Repos /\ NoLog \in SUBSET Branch
        BY <2>2 DEF NoLog
      <4> QED BY <4>1, LogIs
    <3> HIDE DEF d2
    <3> QED BY <2>2, <3>1
  <2> HIDE DEF d2
  <2>4. d3 \in S
    <3>1. /\ d3 \in Repos /\ d3.tip = d2.tip
          /\ d3.head = d2.head /\ d3.admin = d2.admin /\ d3.tree = d2.tree
      BY <2>3, ConfigIs
    <3> HIDE DEF d3
    <3> QED BY <2>3, <3>1
  <2> HIDE DEF d3, S
  <2>5. r.ways \in Seq(S) /\ r.ways # <<>> /\ r.done \in BOOLEAN
    BY <2>2, <2>3, <2>4, FewAre DEF Through
  <2> HIDE DEF r
  <2>6. repo' \in S /\ did'.op = "delete"
    BY <2>1, <2>5, EndsIs
  <2>7. /\ repo' \in Repos /\ repo'.head = d.head /\ repo'.admin = d.admin /\ repo'.tree = d.tree
        /\ \A x \in Branch : x # b => repo'.tip[x] = d.tip[x]
    BY <2>6 DEF S
  <2>8. WorkKept
    BY <2>6, <2>7, WorkSame DEF Dirty, d
  <2>9. \A x \in Branch : HeadsOn(repo', x) = HeadsOn(d, x)
    BY <2>7 DEF HeadsOn, Names, There
  <2>10. HeadsOn(d, b) = {}
    BY <1>2 DEF MayDelete, Available, HeadsOn
  <2>11. HeadsFollow
    BY <2>6, <2>7, <2>9, <2>10 DEF HeadsFollow, d
  <2> QED
    BY <2>6, <2>7, <2>8, <2>11, LinksStay DEF Shown
<1> QED
  BY <1>1, <1>2

LEMMA KnownFollow ==
  ASSUME did'.op \notin {"add", "rename"}, NEW h, HeadKnown(repo, h), Heads(repo, repo', h),
         repo'.tip = repo.tip
  PROVE  HeadsFollow
<1>1. ASSUME NEW x \in Branch, repo.tip[x] = NoTip PROVE HeadsOn(repo', x) \subseteq HeadsOn(repo, x)
  <2>1. h # On(x)
    BY <1>1 DEF HeadKnown, On
  <2>2. repo'.head = On(x) => repo.head = On(x)
    BY <2>1 DEF Heads
  <2>3. ASSUME NEW m \in Name, There(repo', m), repo'.admin[m].head = On(x)
        PROVE  There(repo, m) /\ repo.admin[m].head = On(x)
    BY <2>1, <2>3 DEF Heads, There
  <2> QED BY <2>2, <2>3 DEF HeadsOn, Names
<1> QED
  BY <1>1 DEF HeadsFollow

LEMMA SwitchShown ==
  ASSUME repo \in Repos, NEW p \in DOMAIN repo.tree \cup {<<>>}, NEW h \in HeadValues, SwitchCall(p, h)
  PROVE  Shown
<1> DEFINE d == repo
           n == d.tree[p].git.name
           v == IF d.tree[p].work = "empty" THEN "clean" ELSE d.tree[p].work
           t == WithWork(d.tree, p, v)
           S == {e \in Repos : Heads(d, e, h) /\ e.tip = d.tip}
           zero == 0
           no == FALSE
           open == \E m \in Names(d) : Leads(d, p, m) /\ d.admin[m].head # NoHead /\ d.admin[m].common
<1>0. d \in Repos /\ Ends("switch", zero, zero, no, SwitchTo(d, p, h))
  BY DEF SwitchCall
<1> HIDE DEF zero, no
<1>1. ASSUME HeadKnown(d, h), NEW r, Ends("switch", zero, zero, no, r),
             r.ways \in Seq(S), r.ways # <<>>, r.done \in BOOLEAN
      PROVE  Shown
  <2> HIDE DEF S
  <2>1. repo' \in S /\ did'.op = "switch"
    BY <1>1, EndsIs
  <2>2. repo' \in Repos /\ Heads(d, repo', h) /\ repo'.tip = d.tip
    BY <2>1 DEF S
  <2>3. WorkKept /\ HeadsFollow
    BY <1>1, <2>1, <2>2, HeadsKept, KnownFollow
  <2> QED
    BY <2>1, <2>2, <2>3, LinksStay DEF Shown
<1>2. CASE ~HeadKnown(d, h)
  <2>1. SwitchTo(d, p, h) = Rejected(d)
    BY <1>2 DEF SwitchTo
  <2> QED BY <1>0, <2>1, RejectedShown
<1>3. CASE HeadKnown(d, h) /\ p = <<>>
  <2> DEFINE e == [d EXCEPT !.head = h]
             r == Through(<<e>>)
  <2>1. e \in Repos /\ e.head = h /\ e.tip = d.tip /\ e.admin = d.admin /\ e.tree = d.tree
    BY <1>0 DEF Repos
  <2>2. SwitchTo(d, p, h) = r
    BY <1>3 DEF SwitchTo
  <2> HIDE DEF e
  <2>3. Heads(d, e, h)
    BY <2>1 DEF Heads, Dirty
  <2>4. e \in S
    BY <2>1, <2>3
  <2> HIDE DEF S
  <2>5. r.ways \in Seq(S) /\ r.ways # <<>> /\ r.done \in BOOLEAN
    BY <2>4, FewAre DEF Through
  <2> HIDE DEF r
  <2> QED BY <1>0, <1>1, <1>3, <2>2, <2>5
<1>4. CASE HeadKnown(d, h) /\ p # <<>> /\ open
  <2> DEFINE c == [d EXCEPT !.tree = t]
             a1 == [d.admin[n] EXCEPT !.index = "fresh"]
             a2 == [a1 EXCEPT !.head = h]
             e1 == [c EXCEPT !.admin[n] = a1]
             e2 == [c EXCEPT !.admin[n] = a2]
             r == Through(<<e1, e2>>)
  <2>1. PICK m \in Names(d) : Leads(d, p, m) /\ d.admin[m].head # NoHead /\ d.admin[m].common
    BY <1>4
  <2>2. d.tree \in Trees /\ p \in DOMAIN d.tree /\ p \in Seq(Nat) /\ d.tree[p].git = GitFile(m, p) /\ m \in Name
    BY <1>0, <1>4, <2>1, TreeIs DEF Repos, Leads, Exists, Names, Paths
  <2>3. n = m /\ n \in Name /\ There(d, n) /\ d.admin[n] \in Registered
    BY <1>0, <2>1, <2>2, GitFileIs, AdminIs
  <2>4. v \in Works /\ (d.tree[p].work = "dirty" => v = "dirty")
    <3>1. d.tree[p].work \in Works
      BY <2>2, TreeIs DEF Dirs
    <3> QED BY <3>1 DEF Works
  <2> HIDE DEF v
  <2>5. /\ t \in Trees /\ DOMAIN t = DOMAIN d.tree /\ t[p].work = v
        /\ \A q \in DOMAIN d.tree : q # p => t[q] = d.tree[q]
    BY <2>2, <2>4, WithWorkIs
  <2>6. SwitchTo(d, p, h) = Through(<<[d EXCEPT !.tree = t, !.admin[n].index = "fresh"],
                                     [d EXCEPT !.tree = t, !.admin[n].index = "fresh",
                                               !.admin[n].head = h]>>)
    BY <1>4 DEF SwitchTo, v
  <2> HIDE DEF t, n
  <2>7. SwitchTo(d, p, h) = r
    <3>1. [d EXCEPT !.tree = t, !.admin[n].index = "fresh"] = e1
      OBVIOUS
    <3>2. [d EXCEPT !.tree = t, !.admin[n].index = "fresh", !.admin[n].head = h] = e2
      OBVIOUS
    <3> QED BY <2>6, <3>1, <3>2
  <2>8. /\ c \in Repos /\ c.tree = t /\ c.admin = d.admin /\ c.head = d.head /\ c.tip = d.tip
    BY <1>0, <2>5, WithTree
  <2>9. /\ a1 \in Registered /\ a1.gitdir = d.admin[n].gitdir /\ a1.common = d.admin[n].common
        /\ a1.head = d.admin[n].head
    BY <2>3 DEF Registered
  <2> HIDE DEF a1
  <2>10. /\ a2 \in Registered /\ a2.gitdir = d.admin[n].gitdir /\ a2.common = d.admin[n].common
         /\ a2.head = h
    BY <2>9 DEF Registered
  <2> HIDE DEF a2, c
  <2>11. ASSUME NEW a \in Registered, a.gitdir = d.admin[n].gitdir, a.common = d.admin[n].common,
                a.head \in {d.admin[n].head, h}, NEW e, e = [c EXCEPT !.admin[n] = a]
         PROVE  e \in S
    <3>1. /\ e \in Repos /\ e.admin[n] = a /\ \A x \in Name : x # n => e.admin[x] = c.admin[x]
          /\ e.head = c.head /\ e.tip = c.tip /\ e.tree = c.tree
      BY <2>3, <2>8, <2>11, OneAdmin
    <3>2. Dirty(d) \subseteq Dirty(e)
      BY <2>4, <2>5, <2>8, <3>1 DEF Dirty
    <3>3. Heads(d, e, h)
      BY <2>3, <2>8, <2>11, <3>1, <3>2 DEF Heads
    <3> QED BY <2>8, <3>1, <3>3
  <2>12. e1 \in S /\ e2 \in S
    BY <2>9, <2>10, <2>11
  <2> HIDE DEF S, e1, e2
  <2>13. r.ways \in Seq(S) /\ r.ways # <<>> /\ r.done \in BOOLEAN
    BY <2>12, FewAre DEF Through
  <2> HIDE DEF r
  <2> QED BY <1>0, <1>1, <1>4, <2>7, <2>13
<1>5. CASE HeadKnown(d, h) /\ p # <<>> /\ ~open
  <2>1. SwitchTo(d, p, h) = Rejected(d)
    BY <1>5 DEF SwitchTo
  <2> QED BY <1>0, <2>1, RejectedShown
<1> QED
  BY <1>2, <1>3, <1>4, <1>5

-------------------------------------------------------------------------------
(* Renaming a branch. *)

SameButBranches(d, e) == e.head = d.head /\ e.admin = d.admin /\ e.tree = d.tree

\* The references and logs of old and new have changed over.
Swaps(d, e, old, new) ==
    /\ e \in Repos /\ SameButBranches(d, e) /\ e.config = d.config
    /\ e.tip[new] = d.tip[old] /\ e.tip[old] = NoTip
    /\ e.log[old] = NoLog
    /\ \A x \in Branch \ {old, new} : e.tip[x] = d.tip[x]

LEMMA SwappedIs ==
  ASSUME NEW d \in Repos, NEW old \in Branch, NEW new \in Branch, old # new,
         NEW S, \A e \in Repos : SameButBranches(d, e) => e \in S
  PROVE  LET w == Swapped(d, old, new)
         IN  w \in Seq(S) /\ w # <<>> /\ Swaps(d, Last(w), old, new)
<1> DEFINE c == d.tip[old]
           x1 == [d EXCEPT !.tip[new] = c]
           x2 == [x1 EXCEPT !.tip[old] = NoTip]
           x3 == [x2 EXCEPT !.log[old] = NoLog]
           y1 == [d EXCEPT !.tip[old] = NoTip]
           y2 == [y1 EXCEPT !.log[old] = NoLog]
           y3 == [y2 EXCEPT !.tip[new] = c]
           w == Swapped(d, old, new)
<1>1. w = IF new < old THEN <<x1, x2, x3>> ELSE <<y1, y2, y3>>
  BY DEF Swapped
<1>2. c \in Change \cup {NoTip} /\ NoTip \in Change \cup {NoTip} /\ NoLog \in SUBSET Branch
  BY BranchIs
<1> HIDE DEF c, w
<1>3. /\ x1 \in Repos /\ SameButBranches(d, x1) /\ x1.config = d.config
      /\ x1.tip[new] = c /\ \A x \in Branch : x # new => x1.tip[x] = d.tip[x]
  BY <1>2, TipIs DEF SameButBranches
<1> HIDE DEF x1
<1>4. /\ x2 \in Repos /\ SameButBranches(x1, x2) /\ x2.config = x1.config
      /\ x2.tip[old] = NoTip /\ \A x \in Branch : x # old => x2.tip[x] = x1.tip[x]
  BY <1>2, <1>3, TipIs DEF SameButBranches
<1> HIDE DEF x2
<1>5. /\ x3 \in Repos /\ SameButBranches(x2, x3) /\ x3.config = x2.config
      /\ x3.tip = x2.tip /\ x3.log[old] = NoLog
  BY <1>2, <1>4, LogIs DEF SameButBranches
<1> HIDE DEF x3
<1>6. /\ y1 \in Repos /\ SameButBranches(d, y1) /\ y1.config = d.config
      /\ y1.tip[old] = NoTip /\ \A x \in Branch : x # old => y1.tip[x] = d.tip[x]
  BY <1>2, TipIs DEF SameButBranches
<1> HIDE DEF y1
<1>7. /\ y2 \in Repos /\ SameButBranches(y1, y2) /\ y2.config = y1.config
      /\ y2.tip = y1.tip /\ y2.log[old] = NoLog
  BY <1>2, <1>6, LogIs DEF SameButBranches
<1> HIDE DEF y2
<1>8. /\ y3 \in Repos /\ SameButBranches(y2, y3) /\ y3.config = y2.config
      /\ y3.tip[new] = c /\ \A x \in Branch : x # new => y3.tip[x] = y2.tip[x]
      /\ y3.log = y2.log
  BY <1>2, <1>7, TipIs DEF SameButBranches
<1> HIDE DEF y3
<1>9. CASE new < old
  <2>1. w = <<x1, x2, x3>>
    BY <1>1, <1>9
  <2>2. x1 \in S /\ x2 \in S /\ x3 \in S
    BY <1>3, <1>4, <1>5 DEF SameButBranches
  <2>3. w \in Seq(S) /\ w # <<>> /\ Last(w) = x3
    BY <2>1, <2>2, FewAre
  <2>4. Swaps(d, x3, old, new)
    BY <1>3, <1>4, <1>5 DEF Swaps, SameButBranches, c
  <2> QED BY <2>3, <2>4 DEF w
<1>10. CASE ~ (new < old)
  <2>1. w = <<y1, y2, y3>>
    BY <1>1, <1>10
  <2>2. y1 \in S /\ y2 \in S /\ y3 \in S
    BY <1>6, <1>7, <1>8 DEF SameButBranches
  <2>3. w \in Seq(S) /\ w # <<>> /\ Last(w) = y3
    BY <2>1, <2>2, FewAre
  <2>4. Swaps(d, y3, old, new)
    BY <1>6, <1>7, <1>8 DEF Swaps, SameButBranches, c
  <2> QED BY <2>3, <2>4 DEF w
<1> QED
  BY <1>9, <1>10

\* The HEADs of hs name the branch new.
Retargets(c, e, hs, new) ==
    /\ e \in Repos /\ e.tip = c.tip /\ e.log = c.log /\ e.config = c.config /\ e.tree = c.tree
    /\ e.head = IF 0 \in hs THEN On(new) ELSE c.head
    /\ \A n \in Name : n \notin hs => e.admin[n] = c.admin[n]
    /\ \A n \in Name : n \in hs => /\ e.admin[n] \in Registered /\ e.admin[n].head = On(new)
                                   /\ e.admin[n].gitdir = c.admin[n].gitdir
                                   /\ e.admin[n].common = c.admin[n].common

LEMMA RetargetedIs ==
  ASSUME NEW c \in Repos, NEW new \in Branch, NEW hs, hs \subseteq Names(c) \cup {0}
  PROVE  Retargets(c, Retargeted(c, hs, new), hs, new)
<1> DEFINE h == IF 0 \in hs THEN On(new) ELSE c.head
           a == [n \in Name |-> IF n \in hs THEN [c.admin[n] EXCEPT !.head = On(new)] ELSE c.admin[n]]
           e == [c EXCEPT !.head = h, !.admin = a]
<1>1. Retargeted(c, hs, new) = e
  BY DEF Retargeted
<1>2. On(new) \in HeadValues
  BY HeadsAre
<1>3. h \in HeadValues
  BY <1>2 DEF Repos
<1>4. ASSUME NEW n \in Name, n \in hs
      PROVE  LET b == [c.admin[n] EXCEPT !.head = On(new)]
             IN  b \in Registered /\ b.head = On(new) /\ b.gitdir = c.admin[n].gitdir
                 /\ b.common = c.admin[n].common
  <2>1. c.admin[n] \in Registered
    BY <1>4, NamesAre, AdminIs
  <2> QED BY <1>2, <2>1 DEF Registered
<1>5. /\ \A n \in Name : n \notin hs => a[n] = c.admin[n]
      /\ \A n \in Name : n \in hs => /\ a[n] \in Registered /\ a[n].head = On(new)
                                     /\ a[n].gitdir = c.admin[n].gitdir
                                     /\ a[n].common = c.admin[n].common
  BY <1>4
<1>6. c.admin \in Admins
  BY DEF Repos
<1>7. a \in Admins
  <2>1. ASSUME NEW n \in Name PROVE a[n] \in {NoAdmin} \cup Registered
    <3> HIDE DEF a
    <3> QED BY <1>5, <1>6 DEF Admins
  <2>2. DOMAIN a = Name /\ a = [n \in Name |-> a[n]]
    OBVIOUS
  <2> HIDE DEF a
  <2> QED BY <2>1, <2>2 DEF Admins
<1> HIDE DEF a, h
<1>8. /\ e \in Repos /\ e.head = h /\ e.admin = a
      /\ e.tip = c.tip /\ e.log = c.log /\ e.config = c.config /\ e.tree = c.tree
  BY <1>3, <1>7 DEF Repos
<1> HIDE DEF e
<1>9. Retargets(c, e, hs, new)
  BY <1>5, <1>8 DEF Retargets, h
<1> QED
  BY <1>1, <1>9

LEMMA RetargetIs ==
  ASSUME NEW S, NEW ways \in Seq(S), ways # <<>>, Last(ways) \in Repos,
         NEW hs, hs \subseteq Names(Last(ways)) \cup {0}, hs \subseteq Nat, IsFiniteSet(hs),
         NEW new \in Branch,
         \A e, gs : gs \subseteq hs /\ Retargets(Last(ways), e, gs, new) => e \in S
  PROVE  LET w == Retarget(ways, hs, new)
         IN  w \in Seq(S) /\ w # <<>> /\ Retargets(Last(ways), Last(w), hs, new)
<1> DEFINE c == Last(ways)
           k == Cardinality(hs)
           G(i) == {n \in hs : Smaller(n, hs) < i}
           u == [i \in 1 .. k |-> Retargeted(c, G(i), new)]
           w == Retarget(ways, hs, new)
<1>1. w = ways \o u
  BY DEF Retarget
<1>2. k \in Nat /\ (k = 0 <=> hs = {}) /\ \A n \in hs : Smaller(n, hs) \in Nat /\ Smaller(n, hs) < k
  BY FirstOnes
<1>3. G(k) = hs
  BY <1>2
<1>4. \A i : G(i) \subseteq hs
  OBVIOUS
<1>5. c \in Repos /\ hs \subseteq Names(c) \cup {0}
  OBVIOUS
<1> HIDE DEF c, G, k, w
<1>6. \A gs : gs \subseteq hs => Retargets(c, Retargeted(c, gs, new), gs, new)
  BY <1>5, RetargetedIs
<1>7. ASSUME NEW i \in 1 .. k PROVE Retargeted(c, G(i), new) \in S
  BY <1>4, <1>6 DEF c
<1>8. u \in [1 .. k -> S]
  BY <1>7
<1>9. k > 0 => u[k] = Retargeted(c, hs, new)
  BY <1>2, <1>3
<1> HIDE DEF u
<1>10. u \in Seq(S) /\ (k = 0 <=> u = <<>>) /\ (k > 0 => Last(u) = u[k])
  BY <1>2, <1>8, ListIs
<1>11. /\ w \in Seq(S) /\ w # <<>>
       /\ u # <<>> => Last(w) = Last(u)
       /\ u = <<>> => w = ways
  BY <1>1, <1>10, JoinIs
<1>12. Retargets(c, Last(w), hs, new)
  <2>1. CASE k > 0
    BY <1>2, <1>6, <1>9, <1>10, <1>11, <2>1
  <2>2. CASE k = 0
    <3>1. Last(w) = c /\ hs = {}
      BY <1>2, <1>10, <1>11, <2>2 DEF c
    <3> QED BY <1>5, <3>1 DEF Retargets
  <2> QED BY <1>2, <2>1, <2>2
<1> QED
  BY <1>11, <1>12 DEF w, c

LEMMA HeadsMoved ==
  ASSUME NEW c \in Repos, NEW e \in Repos, NEW old \in Branch, NEW new \in Branch, old # new,
         Retargets(c, e, HeadsOn(c, old), new)
  PROVE  /\ HeadsOn(e, new) = HeadsOn(c, new) \cup HeadsOn(c, old)
         /\ HeadsOn(e, old) = {}
         /\ \A x \in Branch \ {old, new} : HeadsOn(e, x) = HeadsOn(c, x)
<1> DEFINE hs == HeadsOn(c, old)
<1>1. On(new) # On(old) /\ \A x \in Branch \ {old, new} : On(x) # On(new) /\ On(x) # On(old)
  BY HeadsAre
<1>2. ASSUME NEW n \in Name, n \in hs
      PROVE  There(e, n) /\ e.admin[n].head = On(new) /\ There(c, n) /\ c.admin[n].head = On(old)
  BY <1>2, HeadIs DEF Retargets, Registered, There
<1>3. ASSUME NEW n \in Name, n \notin hs
      PROVE  e.admin[n] = c.admin[n] /\ ~ (There(c, n) /\ c.admin[n].head = On(old))
  BY <1>3, HeadIs DEF Retargets
<1>4. /\ 0 \in hs => e.head = On(new) /\ c.head = On(old)
      /\ 0 \notin hs => e.head = c.head /\ c.head # On(old)
  BY HeadIs DEF Retargets
<1>5. ASSUME NEW x \in Branch PROVE HeadsOn(e, x) \subseteq Name \cup {0} /\ HeadsOn(c, x) \subseteq Name \cup {0}
  BY DEF HeadsOn, Names
<1> HIDE DEF hs
<1>6. ASSUME NEW x \in Branch
      PROVE  /\ 0 \in HeadsOn(e, x) <=> e.head = On(x)
             /\ 0 \in HeadsOn(c, x) <=> c.head = On(x)
             /\ \A n \in Name : n \in HeadsOn(e, x) <=> There(e, n) /\ e.admin[n].head = On(x)
             /\ \A n \in Name : n \in HeadsOn(c, x) <=> There(c, n) /\ c.admin[n].head = On(x)
  BY HeadIs
<1>7. ASSUME NEW n \in Name
      PROVE  /\ n \in HeadsOn(e, new) <=> n \in HeadsOn(c, new) \/ n \in hs
             /\ n \notin HeadsOn(e, old)
             /\ \A x \in Branch \ {old, new} : n \in HeadsOn(e, x) <=> n \in HeadsOn(c, x)
  <2>1. CASE n \in hs
    BY <1>1, <1>2, <1>6, <2>1
  <2>2. CASE n \notin hs
    BY <1>1, <1>3, <1>6, <2>2 DEF There
  <2> QED BY <2>1, <2>2
<1>8. /\ 0 \in HeadsOn(e, new) <=> 0 \in HeadsOn(c, new) \/ 0 \in hs
      /\ 0 \notin HeadsOn(e, old)
      /\ \A x \in Branch \ {old, new} : 0 \in HeadsOn(e, x) <=> 0 \in HeadsOn(c, x)
  BY <1>1, <1>4, <1>6
<1>9. HeadsOn(e, new) = HeadsOn(c, new) \cup hs
  BY <1>5, <1>7, <1>8 DEF hs
<1>10. HeadsOn(e, old) = {}
  BY <1>5, <1>7, <1>8
<1>11. ASSUME NEW x \in Branch \ {old, new} PROVE HeadsOn(e, x) = HeadsOn(c, x)
  <2>1. HeadsOn(e, x) \subseteq Name \cup {0} /\ HeadsOn(c, x) \subseteq Name \cup {0}
    BY <1>5
  <2>2. \A n \in Name : n \in HeadsOn(e, x) <=> n \in HeadsOn(c, x)
    BY <1>7
  <2>3. 0 \in HeadsOn(e, x) <=> 0 \in HeadsOn(c, x)
    BY <1>8
  <2> QED BY ONLY <2>1, <2>2, <2>3
<1> QED
  BY <1>9, <1>10, <1>11 DEF hs

LEMMA RetargetsHeads ==
  ASSUME NEW d \in Repos, NEW c \in Repos, SameButBranches(d, c), NEW old \in Branch, NEW new \in Branch,
         NEW gs, gs \subseteq HeadsOn(d, old), NEW e, Retargets(c, e, gs, new)
  PROVE  Heads(d, e, On(new))
<1>1. \A n \in Name : n \in gs => There(d, n)
  BY HeadIs
<1>2. Dirty(d) \subseteq Dirty(e)
  BY DEF Retargets, SameButBranches, Dirty
<1>3. e.head \in {d.head, On(new)}
  BY DEF Retargets, SameButBranches
<1>4. ASSUME NEW m \in Name
      PROVE  \/ e.admin[m] = d.admin[m]
             \/ /\ There(d, m) /\ e.admin[m] \in Registered
                /\ e.admin[m].gitdir = d.admin[m].gitdir /\ e.admin[m].common = d.admin[m].common
                /\ e.admin[m].head \in {d.admin[m].head, On(new)}
  BY <1>1 DEF Retargets, SameButBranches
<1> QED
  BY <1>2, <1>3, <1>4 DEF Heads

\* What a rename leaves unless it breaks off; the section moves only if it is done.
Renames(d, e, old, new) ==
    /\ e \in Repos
    /\ HeadsOn(e, new) = HeadsOn(d, new) \cup HeadsOn(d, old) /\ HeadsOn(e, old) = {}
    /\ \A x \in Branch \ {old, new} : HeadsOn(e, x) = HeadsOn(d, x) /\ e.tip[x] = d.tip[x]
    /\ e.tip[new] = d.tip[old] /\ e.tip[old] = NoTip
    /\ e.log[new] = d.log[old] /\ e.log[old] = NoLog

LEMMA RenamesFollow ==
  ASSUME NEW old \in Branch, NEW new \in Branch, NEW force, old # new, MayRename(repo, old, new, force),
         Heads(repo, repo', On(new)), did'.op = "rename", did'.about = old, did'.to = new,
         did'.broken \/ Renames(repo, repo', old, new),
         did'.done => /\ Renames(repo, repo', old, new) /\ repo'.config[new] = repo.config[old]
                      /\ repo'.config[old] = NoConfig
  PROVE  HeadsFollow
<1>1. repo.tip[old] # NoTip
  BY DEF MayRename
<1>2. repo.tip[new] # NoTip => HeadsOn(repo, new) = {}
  BY DEF MayRename, Available, HeadsOn
<1>3. ASSUME Renames(repo, repo', old, new), NEW x \in Branch, HeadsOn(repo', x) # {}, repo'.tip[x] = NoTip
      PROVE  HeadsOn(repo, x) # {} /\ repo.tip[x] = NoTip
  BY <1>1, <1>3 DEF Renames
<1>4. ASSUME did'.done
      PROVE  /\ HeadsOn(repo, old) \subseteq HeadsOn(repo', new) /\ HeadsOn(repo', old) = {}
             /\ repo.tip[new] # NoTip => HeadsOn(repo, old) = HeadsOn(repo', new)
             /\ repo'.tip[new] = repo.tip[old] /\ repo'.log[new] = repo.log[old]
             /\ repo'.config[new] = repo.config[old]
             /\ repo'.tip[old] = NoTip /\ repo'.log[old] = NoLog /\ repo'.config[old] = NoConfig
  BY <1>2, <1>4 DEF Renames
<1> QED
  BY <1>3, <1>4 DEF HeadsFollow

\* The HEADs have moved, the section not yet.
LEMMA RetargetedRenames ==
  ASSUME NEW d \in Repos, NEW c \in Repos, NEW e \in Repos, NEW old \in Branch, NEW new \in Branch, old # new,
         SameButBranches(d, c), c.tip[new] = d.tip[old], c.tip[old] = NoTip,
         c.log[new] = d.log[old], c.log[old] = NoLog,
         \A x \in Branch \ {old, new} : c.tip[x] = d.tip[x],
         Retargets(c, e, HeadsOn(c, old), new)
  PROVE  Renames(d, e, old, new) /\ e.config = c.config
<1>1. /\ HeadsOn(e, new) = HeadsOn(c, new) \cup HeadsOn(c, old)
      /\ HeadsOn(e, old) = {}
      /\ \A x \in Branch \ {old, new} : HeadsOn(e, x) = HeadsOn(c, x)
  BY HeadsMoved
<1>2. \A x \in Branch : HeadsOn(c, x) = HeadsOn(d, x)
  BY DEF SameButBranches, HeadsOn, Names, There
<1>3. e.tip = c.tip /\ e.log = c.log /\ e.config = c.config
  BY DEF Retargets
<1> QED
  BY <1>1, <1>2, <1>3 DEF Renames

LEMMA RenameShown ==
  ASSUME repo \in Repos, NEW old \in Branch, NEW new \in Branch, NEW force \in BOOLEAN,
         RenameCall(old, new, force)
  PROVE  Shown
<1> DEFINE d == repo
           hs == HeadsOn(d, old)
           w1 == Swapped(d, old, new)
           c1 == Last(w1)
           c2 == [c1 EXCEPT !.log[new] = d.log[old]]
           w2 == Append(w1, c2)
           w3 == Retarget(w2, hs, new)
           c3 == Last(w3)
           c4 == [c3 EXCEPT !.config[new] = c3.config[old], !.config[old] = NoConfig]
           w4 == Append(w3, c4)
           r == Configured(w3, old, new, force)
           S == {e \in Repos : Heads(d, e, On(new))}
<1>0. d \in Repos /\ Ends("rename", old, new, force, RenameBranch(d, old, new, force))
  BY DEF RenameCall
<1>1. CASE old # new /\ ~MayRename(d, old, new, force)
  <2>1. RenameBranch(d, old, new, force) = Rejected(d)
    BY <1>1 DEF RenameBranch
  <2> QED BY <1>0, <2>1, RejectedShown
<1>2. CASE old = new /\ d.tip[old] = NoTip
  <2>1. RenameBranch(d, old, new, force) = Rejected(d)
    BY <1>2 DEF RenameBranch
  <2> QED BY <1>0, <2>1, RejectedShown
<1>3. CASE old = new /\ d.tip[old] # NoTip
  <2> DEFINE z == Unchanged(d)
  <2>1. RenameBranch(d, old, new, force) = z /\ z.ways = <<d>> /\ z.done = TRUE
    BY <1>3 DEF RenameBranch, Unchanged, Through
  <2>2. z.ways \in Seq({d}) /\ z.ways # <<>> /\ z.done \in BOOLEAN
    BY <1>0, <2>1, OneWay
  <2> HIDE DEF z, d
  <2>3. repo' \in {d} /\ did'.op = "rename" /\ did'.about = old /\ did'.to = new
    <3>1. Ends("rename", old, new, force, z)
      BY <1>0, <2>1 DEF d
    <3> QED BY <2>2, <3>1, EndsIs
  <2>4. repo' = repo /\ did'.op = "rename" /\ did'.about = did'.to
    BY <1>3, <2>3 DEF d
  <2>5. WorkKept
    BY <2>4 DEF WorkKept, Live, Names
  <2>6. HeadsFollow
    BY <2>4 DEF HeadsFollow
  <2> QED BY <1>0, <2>4, <2>5, <2>6, LinksStay DEF Shown, d
<1>4. CASE old # new /\ MayRename(d, old, new, force)
  <2>1. Ends("rename", old, new, force, r)
    <3>1. RenameBranch(d, old, new, force) = r
      BY <1>4 DEF RenameBranch
    <3> QED BY <1>0, <3>1
  <2> HIDE DEF d
  <2>2. \A e \in Repos : SameButBranches(d, e) => e \in S
    BY DEF SameButBranches, Heads, Dirty
  <2>3. \A c \in Repos : \A e, gs : SameButBranches(d, c) /\ gs \subseteq hs /\ Retargets(c, e, gs, new) => e \in S
    BY <1>0, RetargetsHeads DEF Retargets
  <2>4. S \subseteq Repos
    OBVIOUS
  <2>5. \A c \in Repos, e \in Repos : e.head = c.head /\ e.admin = c.admin /\ e.tree = c.tree /\ c \in S => e \in S
    BY DEF Heads, Dirty
  <2> HIDE DEF S
  <2>6. w1 \in Seq(S) /\ w1 # <<>> /\ Swaps(d, c1, old, new)
    BY <1>0, <1>4, <2>2, SwappedIs
  <2> HIDE DEF w1, c1
  <2>7. /\ c2 \in Repos /\ SameButBranches(d, c2) /\ c2.config = d.config /\ c2.tip = c1.tip
        /\ c2.log[new] = d.log[old] /\ \A x \in Branch : x # new => c2.log[x] = c1.log[x]
    <3>1. c1 \in Repos /\ d.log[old] \in SUBSET Branch
      BY <1>0, <2>6, BranchIs DEF Swaps
    <3>2. /\ c2 \in Repos /\ c2.log[new] = d.log[old] /\ \A x \in Branch : x # new => c2.log[x] = c1.log[x]
          /\ c2.head = c1.head /\ c2.tip = c1.tip /\ c2.config = c1.config
          /\ c2.admin = c1.admin /\ c2.tree = c1.tree
      BY <3>1, LogIs
    <3> HIDE DEF c2
    <3> QED BY <2>6, <3>2 DEF Swaps, SameButBranches
  <2> HIDE DEF c2
  <2>8. c2 \in S
    BY <2>2, <2>7
  <2>9. w2 \in Seq(S) /\ w2 # <<>> /\ Last(w2) = c2
    BY <2>6, <2>8, OneMore
  <2> HIDE DEF w2
  <2>10. HeadsOn(c2, old) = hs
    BY <2>7 DEF SameButBranches, HeadsOn, Names, There
  <2>11. hs \subseteq Names(c2) \cup {0} /\ hs \subseteq Nat /\ IsFiniteSet(hs)
    BY <2>7, <2>10, HeadIs
  <2> HIDE DEF hs
  <2>12. w3 \in Seq(S) /\ w3 # <<>> /\ Retargets(c2, c3, hs, new)
    BY <2>3, <2>7, <2>9, <2>11, RetargetIs
  <2> HIDE DEF w3, c3
  <2>13. c3 = Last(w3) /\ c3 \in S /\ c3 \in Repos
    BY <2>4, <2>12, LastIs DEF c3
  <2>14. Renames(d, c3, old, new) /\ c3.config = d.config
    BY <1>0, <1>4, <2>6, <2>7, <2>10, <2>12, <2>13, RetargetedRenames DEF Swaps
  <2>15. /\ c4 \in Repos /\ c4.config[new] = d.config[old] /\ c4.config[old] = NoConfig
         /\ c4.head = c3.head /\ c4.admin = c3.admin /\ c4.tree = c3.tree
         /\ c4.tip = c3.tip /\ c4.log = c3.log
    <3>1. c3.config \in [Branch -> Branch \cup {NoConfig}]
      BY <2>13 DEF Repos
    <3> QED BY <1>4, <2>13, <2>14, <3>1 DEF Repos
  <2> HIDE DEF c4
  <2>16. c4 \in S
    BY <2>5, <2>13, <2>15
  <2>17. Renames(d, c4, old, new)
    <3>1. \A x \in Branch : HeadsOn(c4, x) = HeadsOn(c3, x)
      BY <2>15 DEF HeadsOn, Names, There
    <3> QED BY <2>14, <2>15, <3>1 DEF Renames
  <2>18. w4 \in Seq(S) /\ w4 # <<>> /\ Last(w4) = c4
    BY <2>12, <2>16, OneMore
  <2> HIDE DEF w4
  <2>19. /\ r.ways \in Seq(S) /\ r.ways # <<>> /\ r.done \in BOOLEAN
         /\ Last(r.ways) = c3 \/ Last(r.ways) = c4
         /\ r.done => Last(r.ways) = c4
    <3>1. \/ r.ways = w3 /\ r.done = FALSE
          \/ r.ways = w4 /\ r.done = TRUE
      BY <2>13 DEF Configured, Failed, Through, w4, c4
    <3> HIDE DEF r
    <3> QED BY <2>12, <2>13, <2>18, <3>1
  <2> HIDE DEF r
  <2>20. /\ repo' \in S /\ did'.op = "rename" /\ did'.about = old /\ did'.to = new
         /\ did'.broken \/ repo' = Last(r.ways)
         /\ did'.done => repo' = Last(r.ways) /\ r.done
    BY <2>1, <2>19, EndsIs
  <2>21. repo' \in Repos /\ Heads(d, repo', On(new))
    BY <2>20 DEF S
  <2>22. WorkKept
    BY <2>20, <2>21, HeadsAre, HeadsKept DEF d
  <2>23. did'.broken \/ Renames(d, repo', old, new)
    BY <2>14, <2>17, <2>19, <2>20
  <2>24. did'.done => /\ Renames(d, repo', old, new) /\ repo'.config[new] = d.config[old]
                      /\ repo'.config[old] = NoConfig
    BY <2>15, <2>17, <2>19, <2>20
  <2>25. HeadsFollow
    BY <1>4, <2>20, <2>21, <2>23, <2>24, RenamesFollow DEF d
  <2> QED
    BY <2>20, <2>21, <2>22, <2>25, LinksStay DEF Shown
<1> QED
  BY <1>1, <1>2, <1>3, <1>4

-------------------------------------------------------------------------------
(* What others do. *)

LEMMA ElseShown == ASSUME NEW e \in Repos, Else(e) PROVE Shown
BY DEF Else, NoCall, Shown

LEMMA WorkInShown ==
  ASSUME repo \in Repos, NEW p \in DOMAIN repo.tree, WorkIn(p)
  PROVE  Shown
<1> DEFINE dirty == "dirty"
           t == WithWork(repo.tree, p, dirty)
           e == [repo EXCEPT !.tree = t]
<1>1. Else(e)
  BY DEF WorkIn
<1>2. dirty \in Works /\ repo.tree \in Trees
  BY DEF Works, Repos
<1> HIDE DEF dirty
<1>3. t \in Trees
  BY <1>2, WithWorkIs
<1> HIDE DEF t
<1>4. e \in Repos
  BY <1>3, WithTree
<1> HIDE DEF e
<1> QED
  BY <1>1, <1>4, ElseShown

LEMMA ElsewhereShown ==
  ASSUME repo \in Repos, Elsewhere
  PROVE  Shown
<1>0. repo.tree \in Trees
  BY DEF Repos
<1>1. ASSUME NEW t \in Trees, Else([repo EXCEPT !.tree = t]) PROVE Shown
  BY <1>1, WithTree, ElseShown
<1>2. ASSUME NEW p \in Place, Else([repo EXCEPT !.tree = WithDir(@, p)]) PROVE Shown
  <2>1. WithDir(repo.tree, p) \in Trees
    BY <1>0, PlacesAre, WithDirIs
  <2> QED BY <1>1, <1>2, <2>1
<1>3. ASSUME NEW p \in DOMAIN repo.tree, Else([repo EXCEPT !.tree = Removed(@, p)]) PROVE Shown
  <2>1. p \in Paths
    BY <1>0, TreeIs
  <2>2. Removed(repo.tree, p) \in Trees
    BY <1>0, <2>1, RemovedIs
  <2> QED BY <1>1, <1>3, <2>2
<1>4. ASSUME NEW p \in DOMAIN repo.tree, NEW q \in Place, ~Exists(repo, q), ~Inside(p, q),
             Len(q) > 1 => Exists(repo, Front(q)), Else([repo EXCEPT !.tree = Renamed(repo.tree, p, q)])
      PROVE  Shown
  <2>1. MayGo(repo.tree, p, q)
    BY <1>4, PlacesAre DEF MayGo, Exists
  <2>2. Renamed(repo.tree, p, q) \in Trees
    BY <1>0, <2>1, RenamedIs
  <2> QED BY <1>1, <1>4, <2>2
<1> QED
  BY <1>2, <1>3, <1>4 DEF Elsewhere

LEMMA UnlockingShown ==
  ASSUME repo \in Repos, Unlocking
  PROVE  Shown
<1> DEFINE d == repo
           a == [n \in Name |-> IF There(d, n) THEN [d.admin[n] EXCEPT !.lock = FALSE] ELSE NoAdmin]
           t == [p \in DOMAIN d.tree |-> [d.tree[p] EXCEPT !.lock = FALSE]]
           e == [d EXCEPT !.admin = a, !.tree = t]
<1>1. Else(e)
  BY DEF Unlocking, NoLocks
<1>2. a \in Admins
  <2>1. ASSUME NEW n \in Name, There(d, n) PROVE [d.admin[n] EXCEPT !.lock = FALSE] \in Registered
    <3>1. d.admin[n] \in Registered
      BY <2>1, AdminIs
    <3> QED BY <3>1 DEF Registered
  <2> QED BY <2>1 DEF Admins
<1>3. t \in Trees
  <2>0. d.tree \in Trees
    BY DEF Repos
  <2>1. ASSUME NEW p \in DOMAIN d.tree PROVE [d.tree[p] EXCEPT !.lock = FALSE] \in Dirs
    <3>1. d.tree[p] \in Dirs
      BY <2>0, TreeIs
    <3> QED BY <3>1 DEF Dirs
  <2>2. t \in [DOMAIN d.tree -> Dirs]
    BY <2>1
  <2> HIDE DEF t
  <2> QED BY <2>0, <2>2, TreeIs, IsTree
<1> HIDE DEF a, t
<1>4. e \in Repos
  BY <1>2, <1>3 DEF Repos
<1> HIDE DEF e
<1> QED
  BY <1>1, <1>4, ElseShown

LEMMA AgeingShown ==
  ASSUME repo \in Repos, Ageing
  PROVE  Shown
<1>1. PICK n \in Names(repo) : Else([repo EXCEPT !.admin[n].index = "old"])
  BY DEF Ageing
<1> DEFINE a == [repo.admin[n] EXCEPT !.index = "old"]
           e == [repo EXCEPT !.admin[n] = a]
<1>2. n \in Name /\ repo.admin[n] \in Registered
  BY AdminIs DEF Names
<1>3. a \in Registered
  BY <1>2 DEF Registered
<1>4. Else(e)
  BY <1>1
<1> HIDE DEF a
<1>5. e \in Repos
  BY <1>2, <1>3, OneAdmin
<1> HIDE DEF e
<1> QED
  BY <1>4, <1>5, ElseShown

-------------------------------------------------------------------------------
(* The theorems. *)

LEMMA InitFits == LinkedInit => repo \in Repos
<1>1. <<>> \in Trees
  <2>1. <<>> \in [{} -> Dirs] /\ DOMAIN <<>> = {}
    OBVIOUS
  <2>2. IsFiniteSet({})
    BY FS_EmptySet
  <2> QED BY <2>1, <2>2, IsTree
<1>2. [Name -> {NoAdmin}] \subseteq Admins
  BY DEF Admins
<1> QED
  BY <1>1, <1>2 DEF LinkedInit, Repos

LEMMA StepShown ==
  ASSUME repo \in Repos, LinkedNext
  PROVE  Shown
<1>1. ASSUME NEW n \in Name, LockCall(n) \/ UnlockCall(n) PROVE Shown
  BY <1>1, LockShown
<1>2. ASSUME NEW n \in Name, NEW force \in BOOLEAN, NEW override \in BOOLEAN,
             RemoveCall(n, force, override)
      PROVE  Shown
  BY <1>2, RemoveShown
<1>3. ASSUME NEW n \in Name, NEW p \in Place, RepairCall(n, p) PROVE Shown
  BY <1>3, RepairShown
<1>4. ASSUME NEW n \in Name, NEW p \in Place, NEW h \in HeadValues, NEW checkout \in BOOLEAN,
             AddCall(p, n, h, checkout)
      PROVE  Shown
  BY <1>4, AddShown
<1>5. ASSUME NEW n \in Name, NEW p \in Place, NEW force \in BOOLEAN, NEW override \in BOOLEAN,
             MoveCall(n, p, force, override)
      PROVE  Shown
  BY <1>5, MoveShown
<1>6. ASSUME NEW all \in BOOLEAN, PruneCall(all) PROVE Shown
  BY <1>6, PruneShown
<1>7. ASSUME NEW b \in Branch, NEW force \in BOOLEAN, DeleteCall(b, force) PROVE Shown
  BY <1>7, DeleteShown
<1>8. ASSUME NEW b \in Branch, NEW c \in Branch, NEW force \in BOOLEAN, RenameCall(b, c, force)
      PROVE  Shown
  BY <1>8, RenameShown
<1>9. ASSUME NEW p \in DOMAIN repo.tree \cup {<<>>}, NEW h \in HeadValues, SwitchCall(p, h) PROVE Shown
  BY <1>9, SwitchShown
<1>10. ASSUME NEW p \in DOMAIN repo.tree, WorkIn(p) PROVE Shown
  BY <1>10, WorkInShown
<1> QED
  BY <1>1, <1>2, <1>3, <1>4, <1>5, <1>6, <1>7, <1>8, <1>9, <1>10,
     ElsewhereShown, UnlockingShown, AgeingShown DEF LinkedNext

\* A directory is always in one that exists, a .git file names a number, a registration
\* is whole in its fields however far it was written: whatever call breaks off where
\* (linked_worktree.rs, branch.rs).
THEOREM ReposFit == LinkedSpec => [](repo \in Repos)
<1>1. repo \in Repos /\ [LinkedNext]_linkedVars => (repo \in Repos)'
  <2>1. SUFFICES ASSUME repo \in Repos, [LinkedNext]_linkedVars PROVE repo' \in Repos
    OBVIOUS
  <2>2. CASE LinkedNext
    BY <2>1, <2>2, StepShown DEF Shown
  <2>3. CASE UNCHANGED linkedVars
    BY <2>1, <2>3 DEF linkedVars
  <2> QED BY <2>1, <2>2, <2>3
<1> QED
  BY <1>1, InitFits, PTL DEF LinkedSpec

\* Work in a worktree goes only with a forced removal of it, a registration that its
\* directory leads to only with a call about it, a locked one only under authority over
\* locks; what was added, moved or repaired is linked both ways, and a move that returns
\* an error has changed neither directories nor registration (linked_worktree.rs).
THEOREM DirectoriesKept == LinkedSpec => TreesKept
<1>1. repo \in Repos /\ [LinkedNext]_linkedVars =>
          [did'.op # "none" => WorkKept /\ LinksAgree]_linkedVars
  <2>1. SUFFICES ASSUME repo \in Repos, [LinkedNext]_linkedVars
                 PROVE  [did'.op # "none" => WorkKept /\ LinksAgree]_linkedVars
    OBVIOUS
  <2>2. CASE LinkedNext
    BY <2>1, <2>2, StepShown DEF Shown
  <2>3. CASE UNCHANGED linkedVars
    BY <2>3
  <2> QED BY <2>1, <2>2, <2>3
<1> QED
  BY <1>1, ReposFit, PTL DEF LinkedSpec, TreesKept

\* Adding a worktree takes no branch that a HEAD names, no call that ends takes a branch
\* from under a HEAD, and a rename that is done takes every HEAD, the reference, its log
\* and its section along (linked_worktree.rs:412, branch.rs:134).
THEOREM BranchesFollowed == LinkedSpec => BranchesFollow
<1>1. repo \in Repos /\ [LinkedNext]_linkedVars => [did'.op # "none" => HeadsFollow]_linkedVars
  <2>1. SUFFICES ASSUME repo \in Repos, [LinkedNext]_linkedVars
                 PROVE  [did'.op # "none" => HeadsFollow]_linkedVars
    OBVIOUS
  <2>2. CASE LinkedNext
    BY <2>1, <2>2, StepShown DEF Shown
  <2>3. CASE UNCHANGED linkedVars
    BY <2>3
  <2> QED BY <2>1, <2>2, <2>3
<1> QED
  BY <1>1, ReposFit, PTL DEF LinkedSpec, BranchesFollow
===============================================================================
