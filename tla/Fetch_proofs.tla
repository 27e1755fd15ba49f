----------------------------- MODULE Fetch_proofs -----------------------------
(***************************************************************************)
(* What a client has after a fetch, for every universe of objects, every   *)
(* server and every sequence of calls and of steps of others.              *)
(***************************************************************************)
EXTENDS Fetch, FiniteSetTheorems, WellFoundedInduction, TLAPS

-------------------------------------------------------------------------------
(* Walks. *)

\* A set of numbers has a least one.
LEMMA Least ==
    ASSUME NEW T \in SUBSET Nat, T # {}
    PROVE  \E o \in T : \A p \in T : o <= p
<1> DEFINE Upto == {0 .. o : o \in T}
<1>1. Upto \subseteq FiniteSubsetsOf(Nat)
  <2> SUFFICES ASSUME NEW o \in T PROVE 0 .. o \in FiniteSubsetsOf(Nat)
    OBVIOUS
  <2>1. o \in Int /\ 0 \in Int /\ 0 .. o \in SUBSET Nat
    OBVIOUS
  <2> QED
    BY <2>1, FS_Interval DEF FiniteSubsetsOf
<1>2. \E X \in Upto : \A Y \in Upto : ~ (<<Y, X>> \in StrictSubsetOrdering(Nat))
  <2>1. Upto # {}
    OBVIOUS
  <2> HIDE DEF Upto
  <2> QED
    BY <1>1, <2>1, WFMin, FS_StrictSubsetOrderingWellFounded
<1>3. PICK o \in T : \A p \in T : ~ (<<0 .. p, 0 .. o>> \in StrictSubsetOrdering(Nat))
  BY <1>2
<1>4. ASSUME NEW p \in T, ~(o <= p)
      PROVE  FALSE
  <2>1. 0 .. p \subseteq 0 .. o /\ 0 .. p # 0 .. o
    BY <1>4
  <2>2. 0 .. p \in SUBSET Nat /\ 0 .. o \in SUBSET Nat
    OBVIOUS
  <2> QED
    BY <1>3, <2>1, <2>2 DEF StrictSubsetOrdering
<1> QED
  BY <1>4

\* A graph without cycles: next leads from each place of V to places of V of a lower rank.
Graded(V, next, rank) ==
    /\ next \in [V -> SUBSET V] /\ rank \in [V -> Nat]
    /\ \A v \in V : \A u \in next[v] : rank[u] < rank[v]

\* So any places among those have one that leads to none of them.
LEMMA Lowest ==
    ASSUME NEW V, NEW next, NEW rank, Graded(V, next, rank), NEW T \in SUBSET V, T # {}
    PROVE  \E v \in T : \A u \in next[v] : u \notin T
<1> DEFINE R == {rank[v] : v \in T}
<1>1. R \in SUBSET Nat /\ R # {}
  BY DEF Graded
<1>2. PICK o \in R : \A p \in R : o <= p
  <2> HIDE DEF R
  <2> QED
    BY <1>1, Least
<1>3. PICK v \in T : rank[v] = o
  OBVIOUS
<1>4. ASSUME NEW u \in next[v], u \in T PROVE FALSE
  <2>1. rank[u] < rank[v] /\ rank[u] \in Nat /\ rank[v] \in Nat
    BY <1>4 DEF Graded
  <2>2. rank[u] \in R
    BY <1>4
  <2> QED
    BY <1>2, <1>3, <2>1, <2>2
<1> QED
  BY <1>4

\* What w gives for each place is the place and what w gives for those it leads to.
Unfolds(V, next, w) == w = [v \in V |-> {v} \cup UNION {w[u] : u \in next[v]}]

LEMMA Unfolded ==
    ASSUME NEW V, NEW next, NEW w, Unfolds(V, next, w), NEW v \in V
    PROVE  w[v] = {v} \cup UNION {w[u] : u \in next[v]}
BY DEF Unfolds

\* What a walk from v must visit: what is in every closed set with v.
Visited(V, next, v) == {x \in V : \A S \in SUBSET V :
                           v \in S /\ (\A p \in S : next[p] \subseteq S) => x \in S}

LEMMA VisitedUnfolds ==
    ASSUME NEW V, NEW next \in [V -> SUBSET V], NEW o \in V
    PROVE  Visited(V, next, o) = {o} \cup UNION {Visited(V, next, p) : p \in next[o]}
<1> DEFINE Shut(S) == \A p \in S : next[p] \subseteq S
           U == {o} \cup UNION {Visited(V, next, p) : p \in next[o]}
<1>1. \A p \in V : p \in Visited(V, next, p) /\ Visited(V, next, p) \subseteq V
  BY DEF Visited
<1>2. \A p \in V : \A S \in SUBSET V :
         p \in S /\ Shut(S) => Visited(V, next, p) \subseteq S
  BY DEF Visited
<1>3. \A p \in V : Shut(Visited(V, next, p))
  <2> SUFFICES ASSUME NEW p \in V, NEW q \in Visited(V, next, p), NEW r \in next[q]
               PROVE  r \in Visited(V, next, p)
    OBVIOUS
  <2>1. q \in V /\ r \in V
    BY <1>1
  <2> QED
    BY <2>1 DEF Visited
<1>4. U \subseteq Visited(V, next, o)
  <2>1. o \in Visited(V, next, o)
    BY <1>1
  <2>2. ASSUME NEW p \in next[o] PROVE Visited(V, next, p) \subseteq Visited(V, next, o)
    BY <1>1, <1>2, <1>3
  <2> QED
    BY <2>1, <2>2
<1>5. Visited(V, next, o) \subseteq U
  <2>1. U \subseteq V /\ o \in U
    BY <1>1
  <2>2. ASSUME NEW q \in U, NEW r \in next[q] PROVE r \in U
    <3>1. CASE q = o
      BY <1>1, <2>2, <3>1
    <3>2. ASSUME NEW p \in next[o], q \in Visited(V, next, p) PROVE r \in U
      BY <1>3, <2>2, <3>2
    <3> QED
      BY <2>2, <3>1, <3>2
  <2> QED
    BY <1>2, <2>1, <2>2
<1> QED
  BY <1>4, <1>5

\* The recursive functions of the walks exist.
LEMMA WalksExist ==
    ASSUME NEW V, NEW next \in [V -> SUBSET V]
    PROVE  \E w : Unfolds(V, next, w)
<1> DEFINE g == [v \in V |-> Visited(V, next, v)]
<1>1. ASSUME NEW v \in V
      PROVE  g[v] = {v} \cup UNION {g[u] : u \in next[v]}
  <2>1. \A u \in next[v] : g[u] = Visited(V, next, u)
    OBVIOUS
  <2>2. {g[u] : u \in next[v]} = {Visited(V, next, u) : u \in next[v]}
    BY <2>1
  <2> QED
    BY <2>2, VisitedUnfolds
<1>2. g = [v \in V |-> g[v]]
  OBVIOUS
<1> HIDE DEF g
<1>3. g = [v \in V |-> {v} \cup UNION {g[u] : u \in next[v]}]
  BY <1>1, <1>2
<1> QED
  BY <1>3 DEF Unfolds

\* In a graph without cycles such a function gives all that the walk visits, and no more.
LEMMA WalkIn ==
    ASSUME NEW V, NEW next, NEW rank, Graded(V, next, rank), NEW w, Unfolds(V, next, w),
           NEW v \in V
    PROVE  v \in w[v] /\ w[v] \subseteq V
<1> DEFINE T == {p \in V : ~(w[p] \subseteq V)}
<1>1. T = {}
  <2> SUFFICES ASSUME T # {} PROVE FALSE
    OBVIOUS
  <2>1. T \in SUBSET V
    OBVIOUS
  <2>2. PICK p \in T : \A u \in next[p] : u \notin T
    <3> HIDE DEF T
    <3> QED
      BY <2>1, Lowest
  <2>3. \A u \in next[p] : u \in V /\ w[u] \subseteq V
    BY <2>2 DEF Graded
  <2>4. w[p] = {p} \cup UNION {w[u] : u \in next[p]}
    BY Unfolded
  <2> QED
    BY <2>3, <2>4
<1> QED
  BY <1>1, Unfolded

LEMMA WalkClosed ==
    ASSUME NEW V, NEW next, NEW rank, Graded(V, next, rank), NEW w, Unfolds(V, next, w),
           NEW v \in V, NEW x \in w[v]
    PROVE  next[x] \subseteq w[v]
<1> DEFINE Shut(p) == \A y \in w[p] : next[y] \subseteq w[p]
           T == {p \in V : ~Shut(p)}
<1>1. T = {}
  <2> SUFFICES ASSUME T # {} PROVE FALSE
    OBVIOUS
  <2>1. T \in SUBSET V
    OBVIOUS
  <2>2. PICK p \in T : \A u \in next[p] : u \notin T
    <3> HIDE DEF T
    <3> QED
      BY <2>1, Lowest
  <2>3. \A u \in next[p] : u \in V /\ Shut(u) /\ u \in w[u]
    BY <2>2, WalkIn DEF Graded
  <2>4. w[p] = {p} \cup UNION {w[u] : u \in next[p]}
    BY Unfolded
  <2>5. ASSUME NEW y \in w[p] PROVE next[y] \subseteq w[p]
    <3>1. CASE y = p
      BY <2>3, <2>4, <3>1
    <3>2. ASSUME NEW u \in next[p], y \in w[u] PROVE next[y] \subseteq w[p]
      BY <2>3, <2>4, <3>2
    <3> QED
      BY <2>4, <3>1, <3>2
  <2> QED
    BY <2>5
<1> QED
  BY <1>1

LEMMA WalkLeast ==
    ASSUME NEW V, NEW next, NEW rank, Graded(V, next, rank), NEW w, Unfolds(V, next, w),
           NEW S, \A p \in V : p \in S => next[p] \subseteq S, NEW v \in V, v \in S
    PROVE  w[v] \subseteq S
<1> DEFINE T == {p \in V : p \in S /\ ~(w[p] \subseteq S)}
<1>1. T = {}
  <2> SUFFICES ASSUME T # {} PROVE FALSE
    OBVIOUS
  <2>1. T \in SUBSET V
    OBVIOUS
  <2>2. PICK p \in T : \A u \in next[p] : u \notin T
    <3> HIDE DEF T
    <3> QED
      BY <2>1, Lowest
  <2>3. \A u \in next[p] : u \in V /\ w[u] \subseteq S
    BY <2>2 DEF Graded
  <2>4. w[p] = {p} \cup UNION {w[u] : u \in next[p]}
    BY Unfolded
  <2> QED
    BY <2>3, <2>4
<1> QED
  BY <1>1

LEMMA WalkUnfolds ==
    ASSUME NEW V, NEW next \in [V -> SUBSET V]
    PROVE  Unfolds(V, next, Walk(next))
<1>1. \E w : w = [v \in V |-> {v} \cup UNION {w[u] : u \in next[v]}]
  <2>1. \E w : Unfolds(V, next, w)
    BY WalksExist
  <2> QED
    BY <2>1 DEF Unfolds
<1>2. DOMAIN next = V
  OBVIOUS
<1>3. \E w : w = [v \in DOMAIN next |-> {v} \cup UNION {w[u] : u \in next[v]}]
  BY <1>1, <1>2
<1>4. Walk(next) = [v \in DOMAIN next |-> {v} \cup UNION {Walk(next)[u] : u \in next[v]}]
  BY <1>3 DEF Walk
<1> QED
  BY <1>2, <1>4 DEF Unfolds

LEMMA ReachClosed ==
    ASSUME NEW V, NEW next, NEW rank, Graded(V, next, rank), NEW os \in SUBSET V
    PROVE  /\ os \subseteq Reach(os, next) /\ Reach(os, next) \subseteq V
           /\ \A x \in Reach(os, next) : next[x] \subseteq Reach(os, next)
<1> DEFINE w == Walk(next)
<1>1. Unfolds(V, next, w)
  BY WalkUnfolds DEF Graded
<1>2. Reach(os, next) = UNION {w[v] : v \in os}
  BY DEF Reach
<1> HIDE DEF w
<1>3. \A v \in V : v \in w[v] /\ w[v] \subseteq V
  BY <1>1, WalkIn
<1>4. \A v \in V : \A x \in w[v] : next[x] \subseteq w[v]
  BY <1>1, WalkClosed
<1> QED
  BY <1>2, <1>3, <1>4

LEMMA ReachLeast ==
    ASSUME NEW V, NEW next, NEW rank, Graded(V, next, rank), NEW os \in SUBSET V,
           NEW S, os \subseteq S, \A p \in V : p \in S => next[p] \subseteq S
    PROVE  Reach(os, next) \subseteq S
<1> DEFINE w == Walk(next)
<1>1. Unfolds(V, next, w)
  BY WalkUnfolds DEF Graded
<1>2. Reach(os, next) = UNION {w[v] : v \in os}
  BY DEF Reach
<1> HIDE DEF w
<1>3. \A v \in os : w[v] \subseteq S
  BY <1>1, WalkLeast
<1> QED
  BY <1>2, <1>3

-------------------------------------------------------------------------------
(* The objects. *)

LEMMA ObjectFacts ==
    /\ Object \subseteq Nat
    /\ \A o \in Object : Links[o] \subseteq Object /\ \A p \in Links[o] : p < o
    /\ \A o \in Commits : /\ o \in Object /\ Parents(o) \subseteq Commits
                          /\ Content[o].tree \in Trees
                          /\ Links[o] = Parents(o) \cup {Content[o].tree}
    /\ \A o \in Object : Content[o].kind = "tree" =>
          Links[o] \subseteq Trees \cup Of("blob", Object)
    /\ \A o \in Object : Content[o].kind = "tag" => Links[o] = {Content[o].target}
    /\ \A o \in Object : Content[o].kind = "blob" => Links[o] = {}
    /\ \A o \in Object : Content[o].kind \in {"commit", "tree", "tag", "blob"}
<1>1. Object \subseteq Nat
  BY UploadPackAssumption
<1>2. \A o \in Object : Links[o] = Targets(o)
  BY DEF Links
<1>3. ASSUME NEW o \in Object PROVE Links[o] \subseteq Object /\ \A p \in Links[o] : p < o
  <2>1. Links[o] \subseteq 1 .. o - 1
    BY <1>2, UploadPackAssumption
  <2> QED
    BY <2>1, UploadPackAssumption
<1>4. \A o \in Object : Content[o].kind = "commit" =>
        Parents(o) \subseteq Commits /\ Content[o].tree \in Trees
  BY UploadPackAssumption
<1>5. \A o \in Object : Content[o].kind = "tree" =>
          Targets(o) \subseteq Trees \cup Of("blob", Object)
  BY UploadPackAssumption
<1>6. \A o \in Object : Content[o].kind \in {"commit", "tree", "tag", "blob"}
  BY UploadPackAssumption
<1>7. \A o \in Commits : o \in Object /\ Content[o].kind = "commit"
  BY DEF Commits, Of
<1>8. \A o \in Object :
        /\ Content[o].kind = "commit" => Targets(o) = Parents(o) \cup {Content[o].tree}
        /\ Content[o].kind = "tag" => Targets(o) = {Content[o].target}
        /\ Content[o].kind = "blob" => Targets(o) = {}
  BY DEF Targets
<1> QED
  BY <1>1, <1>2, <1>3, <1>4, <1>5, <1>6, <1>7, <1>8

\* Walks that follow links of objects, all of them or some.
LEMMA Along ==
    ASSUME NEW next, next \in [Object -> SUBSET Object],
           \A o \in Object : next[o] \subseteq Links[o]
    PROVE  Graded(Object, next, [o \in Object |-> o])
BY ObjectFacts DEF Graded

LEMMA Follow ==
    ASSUME NEW next, next \in [Object -> SUBSET Object],
           \A o \in Object : next[o] \subseteq Links[o], NEW os \in SUBSET Object
    PROVE  /\ os \subseteq Reach(os, next) /\ Reach(os, next) \subseteq Object
           /\ \A x \in Reach(os, next) : next[x] \subseteq Reach(os, next)
           /\ \A S : os \subseteq S /\ (\A p \in Object : p \in S => next[p] \subseteq S)
                     => Reach(os, next) \subseteq S
<1> DEFINE rank == [o \in Object |-> o]
<1>1. Graded(Object, next, rank)
  BY Along
<1> HIDE DEF rank
<1> QED
  BY <1>1, ReachClosed, ReachLeast

\* Where Below goes on from an object.
Onward(o, stop) == IF o \in stop THEN Links[o] \ Commits ELSE Links[o]

LEMMA BelowFacts ==
    ASSUME NEW os \in SUBSET Object, NEW stop
    PROVE  /\ os \subseteq Below(os, stop) /\ Below(os, stop) \subseteq Object
           /\ \A x \in Below(os, stop) : Onward(x, stop) \subseteq Below(os, stop)
           /\ \A S : os \subseteq S /\ (\A p \in Object : p \in S => Onward(p, stop) \subseteq S)
                     => Below(os, stop) \subseteq S
<1> DEFINE next == [o \in Object |-> Onward(o, stop)]
<1>1. Below(os, stop) = Reach(os, next)
  BY DEF Below, Onward
<1>2. /\ next \in [Object -> SUBSET Object]
      /\ \A o \in Object : next[o] \subseteq Links[o] /\ next[o] = Onward(o, stop)
  BY ObjectFacts DEF Onward
<1> HIDE DEF next
<1>3. /\ os \subseteq Reach(os, next) /\ Reach(os, next) \subseteq Object
      /\ \A x \in Reach(os, next) : next[x] \subseteq Reach(os, next)
      /\ \A S : os \subseteq S /\ (\A p \in Object : p \in S => next[p] \subseteq S)
                => Reach(os, next) \subseteq S
  BY <1>2, Follow
<1> QED
  BY <1>1, <1>2, <1>3

LEMMA BelowWithin ==
    ASSUME NEW os \in SUBSET Object, NEW stop, NEW S, os \subseteq S,
           \A p \in Object : p \in S => Onward(p, stop) \subseteq S
    PROVE  Below(os, stop) \subseteq S
BY BelowFacts

LEMMA OnwardFacts ==
    /\ \A o \in Object : \A stop : Onward(o, stop) \subseteq Links[o]
    /\ \A stop : \A o \in Object \ stop : Onward(o, stop) = Links[o]
    /\ \A o \in Commits : \A stop : Content[o].tree \in Onward(o, stop)
    /\ \A o \in Commits : \A stop : Onward(o, stop) \subseteq Parents(o) \cup {Content[o].tree}
    /\ \A o \in Object \ Commits : \A stop \in SUBSET Commits : Onward(o, stop) = Links[o]
    /\ \A o \in Commits : \A stop : o \in stop => Onward(o, stop) = {Content[o].tree}
<1>1. \A o \in Trees : o \notin Commits
  BY DEF Of, Commits, Trees
<1> QED
  BY <1>1, ObjectFacts DEF Onward

-------------------------------------------------------------------------------
(* What the sender leaves out. *)

\* What the client is taken to hold, its haves lead to.
LEMMA CommonHad ==
    ASSUME NEW s, NEW haves \in SUBSET Object, NEW shallow, NEW stop, shallow \subseteq stop
    PROVE  /\ ReachableCommits(s, haves, stop).commits \subseteq Below(haves, shallow)
           /\ ReachableCommits(s, haves, stop).trees \subseteq Below(haves, shallow) \cap Trees
<1> DEFINE known == haves \cap s.objects
           next  == [o \in Object |-> IF o \in Commits \ stop THEN Parents(o) \cap s.objects ELSE {}]
           B     == Below(haves, shallow)
<1>1. /\ ReachableCommits(s, haves, stop).commits = Reach(known, next)
      /\ ReachableCommits(s, haves, stop).trees = {Content[c].tree : c \in known \cap Commits}
  BY DEF ReachableCommits
<1>2. /\ haves \subseteq B /\ B \subseteq Object
      /\ \A x \in B : Onward(x, shallow) \subseteq B
  BY BelowFacts
<1>3. \A o \in Object : next[o] \subseteq Links[o] /\ next[o] \subseteq Onward(o, shallow)
  BY ObjectFacts, OnwardFacts
<1>4. next \in [Object -> SUBSET Object]
  BY ObjectFacts
<1> HIDE DEF next, B
<1>5. Reach(known, next) \subseteq B
  <2>1. known \in SUBSET Object /\ known \subseteq B
    BY <1>2
  <2>2. \A p \in Object : p \in B => next[p] \subseteq B
    BY <1>2, <1>3
  <2> HIDE DEF known
  <2> QED
    BY <1>3, <1>4, <2>1, <2>2, Follow
<1>6. \A c \in known \cap Commits : Content[c].tree \in B \cap Trees
  BY <1>2, OnwardFacts, ObjectFacts
<1> QED
  BY <1>1, <1>5, <1>6 DEF B

LEMMA SubtreesOf ==
    ASSUME NEW ts \in SUBSET Trees, NEW n
    PROVE  /\ SubtreesAt(ts, n) \subseteq Trees
           /\ \A o \in SubtreesAt(ts, n) : \E t \in ts : o \in Links[t]
<1>1. \A o \in EntriesAt(ts, n) : \E t \in ts : o \in Targets(t)
  <2> SUFFICES ASSUME NEW t \in ts, n \in DOMAIN Content[t].entries
               PROVE  Content[t].entries[n] \in Targets(t)
    BY DEF EntriesAt
  <2>1. Content[t].kind = "tree"
    BY DEF Trees, Of
  <2> QED
    BY <2>1 DEF Targets
<1>2. \A t \in ts : t \in Object /\ Links[t] = Targets(t)
  BY DEF Links, Trees, Of
<1> QED
  BY <1>1, <1>2, ObjectFacts DEF SubtreesAt, Trees, Of

Pairs == (SUBSET Trees) \X (SUBSET Trees)

\* A number above all ts, no larger than need be.
Over(ts) == {n \in Nat : \A o \in ts : o < n}
Size(ts) == CHOOSE n \in Over(ts) : \A m \in Over(ts) : n <= m

LEMMA Sized ==
    ASSUME NEW ts \in SUBSET Object
    PROVE  Size(ts) \in Over(ts) /\ \A m \in Over(ts) : Size(ts) <= m
<1>1. Len(Content) + 1 \in Over(ts)
  BY UploadPackAssumption DEF Over
<1>2. Over(ts) \in SUBSET Nat /\ Over(ts) # {}
  BY <1>1 DEF Over
<1>3. \E n \in Over(ts) : \A m \in Over(ts) : n <= m
  BY <1>2, Least
<1> QED
  BY <1>3 DEF Size

\* What is compared gets smaller from pair to pair.
LEMMA BesideSmaller ==
    ASSUME NEW p \in Pairs, NEW q \in Beside(p)
    PROVE  q \in Pairs /\ Size(q[1]) < Size(p[1]) /\ Size(p[1]) \in Nat /\ Size(q[1]) \in Nat
<1> DEFINE new == p[1] \ p[2]
<1>1. PICK n \in NamesIn(new) : /\ q = <<SubtreesAt(new, n), SubtreesAt(p[2], n)>>
                                /\ SubtreesAt(new, n) # {}
  BY DEF Beside
<1>2. p[1] \in SUBSET Trees /\ p[2] \in SUBSET Trees /\ new \in SUBSET Trees
  BY DEF Pairs
<1>3. q[1] = SubtreesAt(new, n) /\ q[2] = SubtreesAt(p[2], n) /\ q[1] # {}
  BY <1>1
<1>4. q \in Pairs /\ q[1] \in SUBSET Trees
  BY <1>1, <1>2, SubtreesOf DEF Pairs
<1>5. \A o \in q[1] : \E t \in p[1] : o \in Links[t]
  BY <1>2, <1>3, SubtreesOf
<1>6. Trees \subseteq Object
  BY DEF Trees, Of
<1> DEFINE k == Size(p[1])
<1>7. k \in Nat /\ \A t \in p[1] : t < k
  BY <1>2, <1>6, Sized DEF Over
<1> HIDE DEF k, new
<1>8. \A o \in q[1] : o \in Nat /\ \E t \in p[1] : t \in Nat /\ o < t /\ t < k
  BY <1>2, <1>4, <1>5, <1>6, <1>7, ObjectFacts
<1>9. k - 1 \in Nat /\ \A o \in q[1] : o < k - 1
  BY <1>3, <1>7, <1>8
<1>10. k - 1 \in Over(q[1])
  BY <1>9 DEF Over
<1>11. Size(q[1]) \in Nat /\ Size(q[1]) <= k - 1
  BY <1>4, <1>6, <1>10, Sized DEF Over
<1> QED
  BY <1>4, <1>7, <1>11 DEF k

LEMMA ComparedClosed ==
    ASSUME NEW wanted \in SUBSET Trees, NEW had \in SUBSET Trees
    PROVE  /\ <<wanted, had>> \in Compared(wanted, had)
           /\ Compared(wanted, had) \subseteq Pairs
           /\ \A p \in Compared(wanted, had) : Beside(p) \subseteq Compared(wanted, had)
           /\ \A S : <<wanted, had>> \in S /\ (\A p \in Pairs : p \in S => Beside(p) \subseteq S)
                     => Compared(wanted, had) \subseteq S
<1> DEFINE next == [p \in Pairs |-> Beside(p)]
           rank == [p \in Pairs |-> Size(p[1])]
<1>1. \A p \in Pairs : next[p] = Beside(p) /\ Beside(p) \subseteq Pairs
  BY BesideSmaller
<1>2. \A p \in Pairs : Size(p[1]) \in Nat
  BY Sized DEF Pairs, Over, Trees, Of
<1>3. Graded(Pairs, next, rank)
  <2>1. next \in [Pairs -> SUBSET Pairs] /\ rank \in [Pairs -> Nat]
    BY <1>1, <1>2
  <2>2. \A p \in Pairs : \A q \in Beside(p) : rank[q] < rank[p]
    BY <1>1, BesideSmaller
  <2> QED
    BY <1>1, <2>1, <2>2 DEF Graded
<1> HIDE DEF rank
<1>4. PICK g : Unfolds(Pairs, next, g)
  BY <1>3, WalksExist DEF Graded
<1>5. \E w : w = [p \in Pairs |-> {p} \cup UNION {w[q] : q \in Beside(p)}]
  <2>1. g = [p \in Pairs |-> {p} \cup UNION {g[q] : q \in next[p]}]
    BY <1>4 DEF Unfolds
  <2>2. \A p \in Pairs : {g[q] : q \in next[p]} = {g[q] : q \in Beside(p)}
    BY <1>1
  <2> HIDE DEF next
  <2>3. g = [p \in Pairs |-> {p} \cup UNION {g[q] : q \in Beside(p)}]
    BY <2>1, <2>2
  <2> QED
    BY <2>3
<1> DEFINE walk[p \in Pairs] == {p} \cup UNION {walk[q] : q \in Beside(p)}
<1>6. walk = [p \in Pairs |-> {p} \cup UNION {walk[q] : q \in Beside(p)}]
  BY <1>5
<1>7. Compared(wanted, had) = walk[<<wanted, had>>]
  BY DEF Compared, Pairs
<1> HIDE DEF walk
<1>8. Unfolds(Pairs, next, walk)
  <2>1. \A p \in Pairs : {walk[q] : q \in next[p]} = {walk[q] : q \in Beside(p)}
    BY <1>1
  <2> HIDE DEF next
  <2> QED
    BY <1>6, <2>1 DEF Unfolds
<1> HIDE DEF next
<1>9. <<wanted, had>> \in Pairs
  BY DEF Pairs
<1> DEFINE v == <<wanted, had>>
<1> HIDE DEF v
<1>10. v \in Pairs
  BY <1>9 DEF v
<1>11. v \in walk[v] /\ walk[v] \subseteq Pairs
  BY <1>3, <1>8, <1>10, WalkIn
<1>12. \A p \in walk[v] : next[p] \subseteq walk[v]
  BY <1>3, <1>8, <1>10, WalkClosed
<1>13. \A S : v \in S /\ (\A p \in Pairs : p \in S => next[p] \subseteq S) => walk[v] \subseteq S
  BY <1>3, <1>8, <1>10, WalkLeast
<1>14. \A S : v \in S /\ (\A p \in Pairs : p \in S => Beside(p) \subseteq S) => walk[v] \subseteq S
  BY <1>1, <1>13
<1>15. Compared(wanted, had) = walk[v]
  BY <1>7 DEF v
<1> QED
  BY <1>1, <1>11, <1>12, <1>14, <1>15 DEF v

\* What one comparison has sent.
SentOf(p) == (p[1] \ p[2]) \cup (Of("blob", EntriesOf(p[1] \ p[2])) \ EntriesOf(p[2]))

\* Nothing but what is had is left out of the trees sent.
LEMMA ChangedTrees ==
    ASSUME NEW wanted \in SUBSET Trees, NEW had \in SUBSET Trees,
           NEW K, had \subseteq K, \A x \in K \cap Trees : Links[x] \subseteq K
    PROVE  /\ wanted \subseteq CollectChangedTrees(wanted, had) \cup K
           /\ CollectChangedTrees(wanted, had) \subseteq Object \ Commits
           /\ \A x \in CollectChangedTrees(wanted, had) :
                 Links[x] \subseteq CollectChangedTrees(wanted, had) \cup K
<1> DEFINE W == Compared(wanted, had)
           R == CollectChangedTrees(wanted, had)
<1>1. R = UNION {SentOf(p) : p \in W}
  BY DEF CollectChangedTrees, SentOf
<1>2. /\ <<wanted, had>> \in W /\ W \subseteq Pairs
      /\ \A p \in W : Beside(p) \subseteq W
  BY ComparedClosed
<1>3. \A S : <<wanted, had>> \in S /\ (\A p \in Pairs : p \in S => Beside(p) \subseteq S)
             => W \subseteq S
  BY ComparedClosed
<1> HIDE DEF W, R
<1>4. \A p \in Pairs : /\ p[1] \in SUBSET Trees /\ p[2] \in SUBSET Trees
                       /\ p[1] \ p[2] \in SUBSET Trees
  BY DEF Pairs
<1>5. Trees \subseteq Object \ Commits /\ \A t \in Trees : Links[t] = Targets(t) /\ Content[t].kind = "tree"
  BY DEF Trees, Of, Commits, Links
<1>6. \A p \in W : p[2] \subseteq K
  <2> DEFINE S == {p \in Pairs : p[2] \subseteq K}
  <2>1. <<wanted, had>> \in S
    BY <1>2
  <2>2. ASSUME NEW p \in Pairs, p \in S PROVE Beside(p) \subseteq S
    <3> SUFFICES ASSUME NEW q \in Beside(p) PROVE q[2] \subseteq K /\ q \in Pairs
      OBVIOUS
    <3>1. q \in Pairs
      BY <2>2, BesideSmaller
    <3>2. PICK n : q[2] = SubtreesAt(p[2], n)
      BY DEF Beside
    <3>3. \A o \in q[2] : \E t \in p[2] : o \in Links[t]
      BY <1>4, <3>2, SubtreesOf
    <3>4. p[2] \subseteq K \cap Trees
      BY <1>4, <2>2
    <3> QED
      BY <3>1, <3>3, <3>4
  <2> HIDE DEF S
  <2>3. W \subseteq S
    BY <1>3, <2>1, <2>2
  <2> QED
    BY <2>3 DEF S
<1>7. \A p \in W : p[1] \subseteq R \cup K
  BY <1>1, <1>6 DEF SentOf
<1>8. wanted \subseteq R \cup K
  BY <1>2, <1>7
<1>9. ASSUME NEW p \in W
      PROVE  /\ SentOf(p) \subseteq Object \ Commits
             /\ \A x \in SentOf(p) : x \in p[1] \ p[2] \/ Content[x].kind = "blob"
  <2>1. Of("blob", EntriesOf(p[1] \ p[2])) \subseteq Object \ Commits
    <3>1. \A t \in Trees : Targets(t) \subseteq Object
      <4> SUFFICES ASSUME NEW t \in Trees PROVE Targets(t) \subseteq Object
        OBVIOUS
      <4>1. t \in Object /\ Links[t] = Targets(t)
        BY <1>5
      <4> QED
        BY <4>1, ObjectFacts
    <3>2. p[1] \ p[2] \subseteq Trees
      BY <1>2, <1>4, <1>9
    <3> QED
      BY <3>1, <3>2 DEF Of, EntriesOf, Commits
  <2>2. p[1] \ p[2] \subseteq Object \ Commits
    BY <1>2, <1>4, <1>5, <1>9
  <2> QED
    BY <2>1, <2>2 DEF SentOf, Of
<1>10. R \subseteq Object \ Commits
  BY <1>1, <1>9
<1>11. ASSUME NEW x \in R, NEW y \in Links[x]
       PROVE  y \in R \cup K
  <2>1. PICK p \in W : x \in SentOf(p)
    BY <1>1
  <2>2. x \in Object /\ p \in Pairs
    BY <1>2, <1>10
  <2>3. x \in p[1] \ p[2]
    BY <1>9, <1>11, <2>1, <2>2, ObjectFacts
  <2>4. x \in Trees /\ y \in Targets(x)
    BY <1>4, <1>5, <1>11, <2>2, <2>3
  <2>5. y \in Trees \cup Of("blob", Object)
    BY <1>5, <1>11, <2>4, ObjectFacts
  <2>6. CASE y \in Of("blob", Object)
    <3>1. y \in Of("blob", EntriesOf(p[1] \ p[2]))
      BY <2>3, <2>4, <2>6 DEF Of, EntriesOf
    <3>2. ASSUME y \in EntriesOf(p[2]) PROVE y \in K
      <4>1. PICK t \in p[2] : y \in Targets(t)
        BY <3>2 DEF EntriesOf
      <4>2. t \in K \cap Trees /\ y \in Links[t]
        BY <1>4, <1>5, <1>6, <2>2, <4>1
      <4> QED
        BY <4>2
    <3>3. y \in SentOf(p) \/ y \in K
      BY <3>1, <3>2 DEF SentOf
    <3> QED
      BY <1>1, <3>3
  <2>7. CASE y \in Trees
    <3>1. PICK n \in DOMAIN Content[x].entries : y = Content[x].entries[n]
      BY <1>5, <2>4 DEF Targets
    <3>2. n \in NamesIn(p[1] \ p[2]) /\ y \in SubtreesAt(p[1] \ p[2], n)
      BY <1>5, <2>3, <2>7, <3>1 DEF NamesIn, SubtreesAt, EntriesAt, Of
    <3>3. <<SubtreesAt(p[1] \ p[2], n), SubtreesAt(p[2], n)>> \in Beside(p)
      BY <3>2 DEF Beside
    <3>4. <<SubtreesAt(p[1] \ p[2], n), SubtreesAt(p[2], n)>> \in W
      BY <1>2, <3>3
    <3> QED
      BY <1>7, <3>2, <3>4
  <2> QED
    BY <2>5, <2>6, <2>7
<1>12. \A x \in R : Links[x] \subseteq R \cup K
  BY <1>11
<1> QED
  BY <1>8, <1>10, <1>12 DEF R

-------------------------------------------------------------------------------
(* What the sender sends. *)

\* Trees among what is below something have all they lead to there.
LEMMA TreesBelow ==
    ASSUME NEW os \in SUBSET Object, NEW stop \in SUBSET Commits
    PROVE  \A x \in Below(os, stop) \cap Trees : Links[x] \subseteq Below(os, stop)
<1>1. \A x \in Trees : x \in Object \ Commits
  BY DEF Trees, Of, Commits
<1> QED
  BY <1>1, BelowFacts, OnwardFacts

\* Without a depth: what the wants lead to is sent, or behind what the client has.
LEMMA PlainFills ==
    ASSUME NEW s, NEW wants \in SUBSET Object, NEW haves \in SUBSET Object,
           NEW shallow \in SUBSET Commits, NEW stop, shallow \subseteq stop,
           NEW common, common = ReachableCommits(s, haves, stop)
    PROVE  /\ SelectUploadObjects(s, wants, common).objects \subseteq Object
           /\ Below(wants, shallow) \subseteq
                SelectUploadObjects(s, wants, common).objects \cup Below(haves, shallow)
<1> DEFINE next == [o \in Object |->
                      IF o \in common.commits THEN {}
                      ELSE IF o \in Commits THEN Parents(o)
                      ELSE IF Content[o].kind = "tag" THEN {Content[o].target} ELSE {}]
           seen  == Reach(wants, next)
           sent  == seen \ common.commits
           trees == Of("tree", sent) \cup {Content[c].tree : c \in sent \cap Commits}
           had   == common.trees \cup {Content[c].tree : c \in seen \cap common.commits \cap Commits}
           R     == CollectChangedTrees(trees, had)
           O     == (sent \ Of("tree", sent)) \cup R
           B     == Below(haves, shallow)
<1>1. SelectUploadObjects(s, wants, common).objects = O
  BY DEF SelectUploadObjects
<1>2. common.commits \subseteq B /\ common.trees \subseteq B \cap Trees
  BY CommonHad
<1>3. B \subseteq Object /\ \A x \in B : Onward(x, shallow) \subseteq B
  BY BelowFacts
<1>4. \A x \in B \cap Trees : Links[x] \subseteq B
  BY TreesBelow
<1>5. \A o \in Object : next[o] \subseteq Links[o]
  <2> SUFFICES ASSUME NEW o \in Object PROVE next[o] \subseteq Links[o]
    OBVIOUS
  <2>1. next[o] = IF o \in common.commits THEN {}
                  ELSE IF o \in Commits THEN Parents(o)
                  ELSE IF Content[o].kind = "tag" THEN {Content[o].target} ELSE {}
    OBVIOUS
  <2> HIDE DEF next
  <2> QED
    BY <2>1, ObjectFacts
<1>6. next \in [Object -> SUBSET Object]
  BY <1>5, ObjectFacts
<1>7. \A o \in Object \ common.commits :
         /\ o \in Commits => Parents(o) \subseteq next[o]
         /\ o \notin Commits /\ Content[o].kind = "tag" => next[o] = {Content[o].target}
  OBVIOUS
<1> HIDE DEF next, B
<1>8. wants \subseteq seen /\ seen \subseteq Object /\ \A x \in seen : next[x] \subseteq seen
  BY <1>5, <1>6, Follow
<1> HIDE DEF seen
<1>9. trees \in SUBSET Trees
  <2>1. Of("tree", sent) \subseteq Trees
    BY <1>8 DEF Of, Trees
  <2>2. \A c \in Commits : Content[c].tree \in Trees
    BY ObjectFacts
  <2> QED
    BY <2>1, <2>2
<1>10. had \in SUBSET Trees /\ had \subseteq B
  <2>1. ASSUME NEW c \in common.commits \cap Commits
        PROVE  Content[c].tree \in B /\ Content[c].tree \in Trees
    BY <1>2, <1>3, OnwardFacts, ObjectFacts
  <2> QED
    BY <1>2, <2>1
<1>11. /\ trees \subseteq R \cup B /\ R \subseteq Object \ Commits
       /\ \A x \in R : Links[x] \subseteq R \cup B
  <2> HIDE DEF trees, had
  <2> QED
    BY <1>4, <1>9, <1>10, ChangedTrees
<1>12. O \subseteq Object
  BY <1>8, <1>11
<1>13. seen \subseteq O \cup B
  <2> SUFFICES ASSUME NEW x \in seen, x \notin common.commits, x \in Of("tree", sent)
               PROVE  x \in R \cup B
    BY <1>2
  <2> QED
    BY <1>11
<1>14. ASSUME NEW x \in Object, x \in O \cup B
       PROVE  Onward(x, shallow) \subseteq O \cup B
  <2>1. CASE x \in B
    BY <1>3, <2>1
  <2>2. CASE x \in R
    <3>1. Onward(x, shallow) \subseteq Links[x]
      BY <1>14, OnwardFacts
    <3> QED
      BY <1>11, <2>2, <3>1
  <2>3. CASE x \in sent \ Of("tree", sent)
    <3>1. x \in seen /\ x \notin common.commits /\ Content[x].kind # "tree"
      BY <2>3 DEF Of
    <3>2. Onward(x, shallow) \subseteq Links[x]
      BY <1>14, OnwardFacts
    <3>3. CASE x \in Commits
      <4>1. Parents(x) \subseteq O \cup B
        BY <1>7, <1>8, <1>13, <3>1, <3>3
      <4>2. Content[x].tree \in trees
        BY <2>3, <3>3
      <4>3. Content[x].tree \in O \cup B
        BY <1>11, <4>2
      <4>4. Links[x] = Parents(x) \cup {Content[x].tree}
        BY <3>3, ObjectFacts
      <4> QED
        BY <3>2, <4>1, <4>3, <4>4
    <3>4. CASE x \notin Commits
      <4>1. Content[x].kind # "commit"
        BY <1>14, <3>4 DEF Commits, Of
      <4>2. CASE Content[x].kind = "tag"
        <5>1. next[x] = Links[x]
          <6>1. next[x] = {Content[x].target}
            BY <1>7, <1>14, <3>1, <3>4, <4>2
          <6>2. Links[x] = {Content[x].target}
            BY <1>14, <4>2, ObjectFacts
          <6> QED
            BY <6>1, <6>2
        <5> QED
          BY <1>8, <1>13, <3>1, <3>2, <5>1
      <4>3. CASE Content[x].kind = "blob"
        BY <1>14, <3>2, <4>3, ObjectFacts
      <4> QED
        BY <1>14, <3>1, <4>1, <4>2, <4>3, ObjectFacts
    <3> QED
      BY <3>3, <3>4
  <2> QED
    BY <1>14, <2>1, <2>2, <2>3
<1>15. Below(wants, shallow) \subseteq O \cup B
  <2> DEFINE S == O \cup B
  <2>1. wants \subseteq S /\ \A x \in Object : x \in S => Onward(x, shallow) \subseteq S
    BY <1>8, <1>13, <1>14
  <2> HIDE DEF O, S
  <2>2. Below(wants, shallow) \subseteq S
    BY <2>1, BelowWithin
  <2> QED
    BY <2>2 DEF S
<1> QED
  BY <1>1, <1>12, <1>15 DEF B

\* A walk that counts generations.
LEMMA CountedFacts ==
    ASSUME NEW first \in SUBSET Commits, NEW n \in Nat, NEW open
    PROVE  /\ \A c \in first : <<c, n>> \in Counted(first, n, open)
           /\ Counted(first, n, open) \subseteq Commits \X (0 .. n)
           /\ \A c \in Commits : \A k \in 1 .. n : c \in open /\ <<c, k>> \in Counted(first, n, open)
                 => \A p \in Parents(c) : <<p, k - 1>> \in Counted(first, n, open)
           /\ \A S : /\ \A c \in first : <<c, n>> \in S
                     /\ \A c \in Commits : \A k \in 1 .. n : c \in open /\ <<c, k>> \in S
                           => \A p \in Parents(c) : <<p, k - 1>> \in S
                     => Counted(first, n, open) \subseteq S
<1> DEFINE V    == Commits \X (0 .. n)
           next == [v \in V |-> IF v[1] \in open /\ v[2] > 0
                                THEN Parents(v[1]) \X {v[2] - 1} ELSE {}]
           rank == [v \in V |-> v[1]]
           os   == first \X {n}
           W    == Counted(first, n, open)
<1>1. W = Reach(os, next)
  BY DEF Counted
<1>2. \A v \in V : v[1] \in Commits /\ v[2] \in 0 .. n /\ v = <<v[1], v[2]>>
  OBVIOUS
<1>3. \A v \in V : \A u \in next[v] :
         /\ v[1] \in open /\ v[2] \in 1 .. n
         /\ u \in V /\ u[1] \in Parents(v[1]) /\ u[2] = v[2] - 1
  <2> SUFFICES ASSUME NEW v \in V, NEW u \in next[v]
               PROVE  /\ v[1] \in open /\ v[2] \in 1 .. n
                      /\ u \in V /\ u[1] \in Parents(v[1]) /\ u[2] = v[2] - 1
    OBVIOUS
  <2>1. v[1] \in open /\ v[2] > 0 /\ u \in Parents(v[1]) \X {v[2] - 1}
    OBVIOUS
  <2>2. Parents(v[1]) \subseteq Commits /\ v[2] \in 0 .. n
    BY <1>2, ObjectFacts
  <2>3. u[1] \in Commits /\ u[2] \in 0 .. n /\ u = <<u[1], u[2]>>
    BY <2>1, <2>2
  <2> QED
    BY <2>1, <2>2, <2>3
<1>4. Graded(V, next, rank)
  <2>1. next \in [V -> SUBSET V]
    <3>1. \A v \in V : next[v] \in SUBSET V
      BY <1>3
    <3>2. next = [v \in V |-> next[v]]
      OBVIOUS
    <3> HIDE DEF next, V
    <3> QED
      BY <3>1, <3>2
  <2>2. rank \in [V -> Nat]
    BY ObjectFacts
  <2>3. \A v \in V : \A u \in next[v] : rank[u] = u[1] /\ rank[v] = v[1] /\ u[1] < v[1]
    <3> SUFFICES ASSUME NEW v \in V, NEW u \in next[v]
                 PROVE  rank[u] = u[1] /\ rank[v] = v[1] /\ u[1] < v[1]
      OBVIOUS
    <3>1. u \in V /\ u[1] \in Parents(v[1]) /\ v[1] \in Commits
      BY <1>2, <1>3
    <3> HIDE DEF next
    <3> QED
      BY <3>1, ObjectFacts
  <2> HIDE DEF next, rank, V
  <2> QED
    BY <2>1, <2>2, <2>3 DEF Graded
<1>5. os \in SUBSET V
  OBVIOUS
<1>6. \A c \in Commits : \A k \in 1 .. n : c \in open =>
         <<c, k>> \in V /\ next[<<c, k>>] = Parents(c) \X {k - 1}
  OBVIOUS
<1>7. \A c \in first : <<c, n>> \in os
  OBVIOUS
<1>8. \A v \in os : v[1] \in first /\ v = <<v[1], n>>
  OBVIOUS
<1> HIDE DEF next, rank, os
<1>9. /\ os \subseteq W /\ W \subseteq V
      /\ \A x \in W : next[x] \subseteq W
  BY <1>1, <1>4, <1>5, ReachClosed
<1>10. \A c \in Commits : \A k \in 1 .. n : c \in open /\ <<c, k>> \in W
                 => \A p \in Parents(c) : <<p, k - 1>> \in W
  BY <1>6, <1>9
<1>11. ASSUME NEW S,
              \A c \in first : <<c, n>> \in S,
              \A c \in Commits : \A k \in 1 .. n : c \in open /\ <<c, k>> \in S
                           => \A p \in Parents(c) : <<p, k - 1>> \in S
       PROVE  W \subseteq S
  <2>1. os \subseteq S
    BY <1>8, <1>11
  <2>2. ASSUME NEW v \in V, v \in S PROVE next[v] \subseteq S
    <3> SUFFICES ASSUME NEW u \in next[v] PROVE u \in S
      OBVIOUS
    <3>1. /\ v[1] \in open /\ v[2] \in 1 .. n
          /\ u \in V /\ u[1] \in Parents(v[1]) /\ u[2] = v[2] - 1
      BY <1>3, <2>2
    <3>2. v[1] \in Commits /\ v = <<v[1], v[2]>> /\ u = <<u[1], u[2]>>
      BY <1>2, <2>2, <3>1
    <3> HIDE DEF V
    <3>3. <<v[1], v[2]>> \in S
      BY <2>2, <3>2
    <3>4. <<u[1], v[2] - 1>> \in S
      BY <1>11, <3>1, <3>2, <3>3
    <3> QED
      BY <3>1, <3>2, <3>4
  <2> HIDE DEF V
  <2> QED
    BY <1>1, <1>4, <1>5, <2>1, <2>2, ReachLeast
<1> HIDE DEF W
<1>12. \A S : /\ \A c \in first : <<c, n>> \in S
              /\ \A c \in Commits : \A k \in 1 .. n : c \in open /\ <<c, k>> \in S
                           => \A p \in Parents(c) : <<p, k - 1>> \in S
              => W \subseteq S
  BY <1>11
<1> QED
  BY <1>7, <1>9, <1>10, <1>12 DEF W

\* The walk ends at its boundaries and nowhere else.
LEMMA GenerationsFacts ==
    ASSUME NEW s, NEW first \in SUBSET Commits, NEW depth \in Nat \ {0},
           NEW g, g = Generations(s, first, depth), g.commits \subseteq s.objects
    PROVE  /\ first \subseteq g.commits /\ g.commits \subseteq Commits
           /\ g.boundaries \subseteq g.commits
           /\ \A c \in g.commits \ g.boundaries : Parents(c) \subseteq g.commits
<1> DEFINE n       == depth - 1
           open    == s.objects \ s.shallow
           walk    == Counted(first, n, open)
           commits == {v[1] : v \in walk}
           last    == commits \ {v[1] : v \in {w \in walk : w[2] > 0}}
<1>1. /\ g.commits = commits
      /\ g.boundaries = (commits \cap s.shallow) \cup {c \in last : Parents(c) # {}}
  BY DEF Generations
<1>2. n \in Nat
  OBVIOUS
<1> HIDE DEF n
<1>3. /\ \A c \in first : <<c, n>> \in walk
      /\ walk \subseteq Commits \X (0 .. n)
      /\ \A c \in Commits : \A k \in 1 .. n : c \in open /\ <<c, k>> \in walk
            => \A p \in Parents(c) : <<p, k - 1>> \in walk
  BY <1>2, CountedFacts
<1> HIDE DEF walk
<1>4. \A c, k : <<c, k>> \in walk => c \in commits
  <2> SUFFICES ASSUME NEW c, NEW k, <<c, k>> \in walk PROVE c \in commits
    OBVIOUS
  <2>1. <<c, k>>[1] = c
    OBVIOUS
  <2> QED
    BY <2>1
<1>5. first \subseteq commits /\ commits \subseteq Commits
  BY <1>3, <1>4
<1>6. ASSUME NEW c \in commits, c \notin s.shallow, c \notin last
      PROVE  Parents(c) \subseteq commits
  <2>1. PICK w \in walk : w[2] > 0 /\ w[1] = c
    BY <1>6
  <2>2. w[2] \in 1 .. n /\ c \in Commits /\ w = <<c, w[2]>>
    BY <1>2, <1>3, <2>1
  <2>3. c \in open
    BY <1>1, <1>6
  <2>4. \A p \in Parents(c) : <<p, w[2] - 1>> \in walk
    BY <1>3, <2>2, <2>3
  <2> QED
    BY <1>4, <2>4
<1> QED
  BY <1>1, <1>5, <1>6

LEMMA TreesOfFacts ==
    ASSUME NEW commits \in SUBSET Commits, NEW taken, taken \cap Trees = {}
    PROVE  /\ \A c \in commits : Content[c].tree \in TreesOf(commits, taken)
           /\ TreesOf(commits, taken) \subseteq Object \ Commits
           /\ \A x \in TreesOf(commits, taken) : Links[x] \subseteq TreesOf(commits, taken)
<1> DEFINE next == [o \in Object |-> IF o \in taken THEN {} ELSE Links[o]]
           os   == {Content[c].tree : c \in commits}
           T    == TreesOf(commits, taken)
           S    == Trees \cup Of("blob", Object)
<1>1. T = Reach(os, next)
  BY DEF TreesOf
<1>2. /\ next \in [Object -> SUBSET Object]
      /\ \A o \in Object : next[o] \subseteq Links[o]
      /\ \A o \in Object \ taken : next[o] = Links[o]
  BY ObjectFacts
<1> HIDE DEF next, T
<1>3. os \in SUBSET Object /\ os \subseteq S
  <2>1. \A c \in Commits : Content[c].tree \in Trees
    BY ObjectFacts
  <2> QED
    BY <2>1 DEF Trees, Of
<1>4. \A o \in Object : o \in S =>
        /\ o \notin Commits /\ Links[o] \subseteq S
        /\ o \notin Trees => Links[o] = {}
  BY ObjectFacts DEF Trees, Of, Commits
<1> HIDE DEF os, S
<1>5. /\ os \subseteq T /\ T \subseteq Object
      /\ \A x \in T : next[x] \subseteq T
      /\ T \subseteq S
  BY <1>1, <1>2, <1>3, <1>4, Follow
<1>6. \A x \in T : x \in Object \ Commits /\ Links[x] \subseteq T
  BY <1>2, <1>4, <1>5
<1> QED
  BY <1>5, <1>6 DEF os, T

LEMMA NamedFacts ==
    ASSUME NEW os \in SUBSET Object
    PROVE  /\ os \subseteq TagsOf(os) \cup Peeled(os)
           /\ TagsOf(os) \subseteq Object /\ Peeled(os) \subseteq Object
           /\ \A x \in TagsOf(os) : x \notin Commits /\ Links[x] \subseteq TagsOf(os) \cup Peeled(os)
<1> DEFINE next == [o \in Object |-> IF Content[o].kind = "tag" THEN Links[o] ELSE {}]
           N    == Named(os)
<1>1. N = Reach(os, next)
  BY DEF Named
<1>2. /\ next \in [Object -> SUBSET Object]
      /\ \A o \in Object : next[o] \subseteq Links[o]
      /\ \A o \in Object : Content[o].kind = "tag" => next[o] = Links[o]
  BY ObjectFacts
<1> HIDE DEF next, N
<1>3. os \subseteq N /\ N \subseteq Object /\ \A x \in N : next[x] \subseteq N
  BY <1>1, <1>2, Follow
<1>4. TagsOf(os) = {o \in N : Content[o].kind = "tag"} /\ Peeled(os) = N \ TagsOf(os)
  BY DEF TagsOf, Peeled, Of, N
<1>5. \A o \in TagsOf(os) : o \notin Commits
  BY <1>4 DEF Commits, Of
<1> QED
  BY <1>2, <1>3, <1>4, <1>5

\* To a depth: down to the boundary to come, all that the wants lead to is sent, and what is
\* behind the boundaries that go.
LEMMA DepthFills ==
    ASSUME NEW s, NEW wants \in SUBSET Object, NEW depth \in Nat \ {0},
           NEW shallow \in SUBSET Commits, Of("tree", Peeled(wants)) = {},
           NEW a, a = ObjectsAtDepth(s, wants, depth), ~a.fails,
           NEW N, N = (shallow \ ((shallow \ a.boundaries) \cap a.objects)) \cup a.boundaries
    PROVE  /\ a.objects \subseteq Object /\ N \subseteq Commits
           /\ Below(wants \cup UNION {Parents(c) : c \in shallow \ N}, N) \subseteq a.objects
<1> DEFINE roots == Peeled(wants)
           bare  == roots \ Commits
           first == roots \cap Commits
           g     == Generations(s, first, depth)
           T     == TreesOf(g.commits, bare)
           O     == TagsOf(wants) \cup bare \cup g.commits \cup T
           more  == UNION {Parents(c) : c \in shallow \ N}
<1>1. /\ a.objects = O /\ a.boundaries = g.boundaries
      /\ g.commits \subseteq s.objects
  BY DEF ObjectsAtDepth
<1>2. /\ wants \subseteq TagsOf(wants) \cup roots
      /\ TagsOf(wants) \subseteq Object /\ roots \subseteq Object
      /\ \A x \in TagsOf(wants) : x \notin Commits /\ Links[x] \subseteq TagsOf(wants) \cup roots
  BY NamedFacts
<1>3. bare \cap Trees = {}
  BY <1>2 DEF Of, Trees
<1>4. \A x \in bare : Links[x] = {}
  <2> SUFFICES ASSUME NEW x \in roots, x \notin Commits PROVE Links[x] = {}
    OBVIOUS
  <2>1. x \in Object /\ Content[x].kind # "tree" /\ Content[x].kind # "commit"
    BY <1>2 DEF Of, Commits
  <2>2. Content[x].kind # "tag"
    BY DEF Peeled, TagsOf, Of
  <2> QED
    BY <2>1, <2>2, ObjectFacts
<1> HIDE DEF roots
<1>5. /\ first \subseteq g.commits /\ g.commits \subseteq Commits
      /\ g.boundaries \subseteq g.commits
      /\ \A c \in g.commits \ g.boundaries : Parents(c) \subseteq g.commits
  <2> HIDE DEF g
  <2>1. first \in SUBSET Commits
    OBVIOUS
  <2> HIDE DEF first
  <2> QED
    BY <1>1, <2>1, GenerationsFacts DEF g
<1> HIDE DEF g
<1>6. /\ \A c \in g.commits : Content[c].tree \in T
      /\ T \subseteq Object \ Commits
      /\ \A x \in T : Links[x] \subseteq T
  BY <1>3, <1>5, TreesOfFacts
<1> HIDE DEF T
<1>7. O \subseteq Object /\ N \subseteq Commits /\ wants \subseteq O /\ Commits \subseteq Object
  BY <1>1, <1>2, <1>5, <1>6 DEF Commits, Of
<1>8. more \subseteq O
  <2> SUFFICES ASSUME NEW c \in shallow \ N PROVE Parents(c) \subseteq O
    OBVIOUS
  <2>1. c \in O /\ c \in Commits /\ c \notin g.boundaries
    BY <1>1
  <2>2. c \in g.commits
    BY <1>2, <1>6, <2>1
  <2> QED
    BY <1>5, <2>1, <2>2
<1>9. ASSUME NEW x \in Object, x \in O
      PROVE  Onward(x, N) \subseteq O
  <2>1. CASE x \in g.commits
    <3>1. x \in N \/ Parents(x) \subseteq g.commits
      BY <1>1, <1>5, <2>1
    <3>2. Content[x].tree \in O /\ x \in Commits
      BY <1>5, <1>6, <2>1
    <3> HIDE DEF O
    <3>3. x \in N => Onward(x, N) = {Content[x].tree}
      BY <3>2, OnwardFacts
    <3>4. Onward(x, N) \subseteq Parents(x) \cup {Content[x].tree}
      BY <3>2, OnwardFacts
    <3> QED
      BY <3>1, <3>2, <3>3, <3>4 DEF O
  <2>2. CASE x \notin g.commits
    <3>1. Links[x] \subseteq O
      BY <1>2, <1>4, <1>5, <1>6, <1>9, <2>2
    <3> HIDE DEF O
    <3> QED
      BY <1>9, <3>1, OnwardFacts
  <2> QED
    BY <2>1, <2>2
<1>10. wants \cup more \in SUBSET Object /\ wants \cup more \subseteq O
  BY <1>7, <1>8
<1> HIDE DEF O, more
<1>11. Below(wants \cup more, N) \subseteq O
  <2> DEFINE os == wants \cup more
  <2> HIDE DEF os
  <2>1. os \in SUBSET Object /\ os \subseteq O
    BY <1>10 DEF os
  <2>2. \A x \in Object : x \in O => Onward(x, N) \subseteq O
    BY <1>9
  <2>3. Below(os, N) \subseteq O
    BY ONLY <2>1, <2>2, BelowWithin
  <2> QED
    BY <2>3 DEF os
<1> QED
  BY <1>1, <1>7, <1>11 DEF more

\* The same of a deepening.
LEMMA RelativeFills ==
    ASSUME NEW s, NEW wants \in SUBSET Object, NEW depth \in Nat \ {0},
           NEW shallow \in SUBSET Commits,
           NEW a, a = DeepenRelative(s, wants, shallow, depth), ~a.fails,
           NEW N, N = (shallow \ a.unshallow) \cup a.boundaries
    PROVE  /\ a.objects \subseteq Object /\ N \subseteq Commits
           /\ Below(wants \cup UNION {Parents(c) : c \in shallow \ N}, N) \subseteq a.objects
<1> DEFINE near    == Below(wants, shallow)
           reached == shallow \cap near
           opened  == reached \ s.shallow
           first   == UNION {Parents(c) : c \in opened}
           g       == Generations(s, first, depth)
           T       == TreesOf(g.commits, {})
           O       == near \cup g.commits \cup T
           more    == UNION {Parents(c) : c \in shallow \ N}
<1>1. /\ a.objects = O /\ a.boundaries = (reached \cap s.shallow) \cup g.boundaries
      /\ a.unshallow = opened /\ g.commits \subseteq s.objects
  BY DEF DeepenRelative
<1>2. /\ wants \subseteq near /\ near \subseteq Object
      /\ \A x \in near : Onward(x, shallow) \subseteq near
  BY BelowFacts
<1> HIDE DEF near
<1>3. first \in SUBSET Commits
  BY ObjectFacts
<1>4. /\ first \subseteq g.commits /\ g.commits \subseteq Commits
      /\ g.boundaries \subseteq g.commits
      /\ \A c \in g.commits \ g.boundaries : Parents(c) \subseteq g.commits
  <2> HIDE DEF g, first
  <2> QED
    BY <1>1, <1>3, GenerationsFacts DEF g
<1> HIDE DEF g
<1>5. /\ \A c \in g.commits : Content[c].tree \in T
      /\ T \subseteq Object \ Commits
      /\ \A x \in T : Links[x] \subseteq T
  <2>1. g.commits \in SUBSET Commits
    BY <1>4
  <2> DEFINE none == {}
  <2>2. none \cap Trees = {} /\ T = TreesOf(g.commits, none)
    OBVIOUS
  <2> HIDE DEF none, T
  <2> QED
    BY <2>1, <2>2, TreesOfFacts
<1> HIDE DEF T
<1>6. O \subseteq Object /\ N \subseteq Commits /\ wants \subseteq O /\ Commits \subseteq Object
  BY <1>1, <1>2, <1>4, <1>5 DEF Commits, Of
<1>7. \A c \in shallow \ N : Parents(c) \subseteq g.commits
  BY <1>1, <1>4
<1>8. ASSUME NEW x \in Object, x \in O
      PROVE  Onward(x, N) \subseteq O
  <2>1. CASE x \in g.commits
    <3>1. x \in N \/ Parents(x) \subseteq g.commits
      BY <1>1, <1>4, <2>1
    <3>2. Content[x].tree \in O /\ x \in Commits
      BY <1>4, <1>5, <2>1
    <3> HIDE DEF O
    <3>3. x \in N => Onward(x, N) = {Content[x].tree}
      BY <3>2, OnwardFacts
    <3>4. Onward(x, N) \subseteq Parents(x) \cup {Content[x].tree}
      BY <3>2, OnwardFacts
    <3> QED
      BY <3>1, <3>2, <3>3, <3>4 DEF O
  <2>2. CASE x \in T
    <3>1. Links[x] \subseteq O
      BY <1>5, <2>2
    <3> HIDE DEF O
    <3> QED
      BY <1>8, <3>1, OnwardFacts
  <2>3. CASE x \in near
    <3>1. Onward(x, shallow) \subseteq near
      BY <1>2, <2>3
    <3>2. CASE x \notin shallow
      <4>1. Links[x] \subseteq near
        BY <1>8, <3>1, <3>2, OnwardFacts
      <4>2. Links[x] \subseteq O
        BY <4>1
      <4> HIDE DEF O
      <4> QED
        BY <1>8, <4>2, OnwardFacts
    <3>3. CASE x \in shallow
      <4>1. x \in N \/ Parents(x) \subseteq O
        BY <1>7, <3>3
      <4>2. Content[x].tree \in O /\ x \in Commits
        BY <3>1, <3>3, OnwardFacts
      <4> HIDE DEF O
      <4>3. x \in N => Onward(x, N) = {Content[x].tree}
        BY <4>2, OnwardFacts
      <4>4. Onward(x, N) \subseteq Parents(x) \cup {Content[x].tree}
        BY <4>2, OnwardFacts
      <4> QED
        BY <4>1, <4>2, <4>3, <4>4
    <3> QED
      BY <3>2, <3>3
  <2> QED
    BY <1>8, <2>1, <2>2, <2>3
<1>9. wants \cup more \in SUBSET Object /\ wants \cup more \subseteq O
  BY <1>6, <1>7
<1>10. \A x \in Object : x \in O => Onward(x, N) \subseteq O
  BY <1>8
<1> HIDE DEF O, more
<1>11. Below(wants \cup more, N) \subseteq O
  <2> DEFINE os == wants \cup more
  <2> HIDE DEF os
  <2>1. os \in SUBSET Object /\ os \subseteq O
    BY <1>9 DEF os
  <2>2. Below(os, N) \subseteq O
    BY <1>10, <2>1, BelowWithin
  <2> QED
    BY <2>2 DEF os
<1> QED
  BY <1>1, <1>6, <1>11 DEF more

\* The fields of what a depth selects.
LEMMA PlainFields ==
    ASSUME NEW plain, DOMAIN plain = {"fails", "objects"},
           NEW r, r = Override(plain, [boundaries |-> {}, unshallow |-> {}])
    PROVE  r.objects = plain.objects /\ r.boundaries = {} /\ r.unshallow = {}
BY DEF Override

LEMMA LevelFields ==
    ASSUME NEW level, DOMAIN level = {"fails", "objects", "boundaries"}, NEW old,
           NEW r, r = Override(level, [unshallow |-> old])
    PROVE  /\ r.objects = level.objects /\ r.boundaries = level.boundaries
           /\ r.fails = level.fails /\ r.unshallow = old
BY DEF Override

\* An answer keeps what was promised.
LEMMA AnswerFills ==
    ASSUME NEW s, NEW q, q.wants \in SUBSET Object, q.haves \in SUBSET Object,
           q.shallow \in SUBSET Commits, Tips(s) \subseteq Object,
           q.depth # None => q.depth \in Nat \ {0},
           q.depth # None /\ ~q.relative => Of("tree", Peeled(q.wants)) = {},
           NEW a, a = Respond(s, q), a.ok,
           NEW N, N = (q.shallow \ a.unshallow) \cup a.shallow
    PROVE  /\ a.pack \subseteq Object /\ N \subseteq Commits
           /\ Below(q.wants \cup UNION {Parents(c) : c \in q.shallow \ N}, N)
                 \subseteq a.pack \cup Below(q.haves, q.shallow)
<1> DEFINE common == ReachableCommits(s, q.haves, q.shallow \cup s.shallow)
           r      == Selected(s, q, common)
           tags   == IF q.tags THEN ReachableTags(s, r.objects) ELSE {}
           B      == Below(q.haves, q.shallow)
           Must   == Below(q.wants \cup UNION {Parents(c) : c \in q.shallow \ N}, N)
<1>1. /\ ~r.fails
      /\ a = [ok |-> TRUE, pack |-> (r.objects \cup tags) \ common.commits,
              shallow |-> r.boundaries, unshallow |-> r.unshallow]
  BY DEF Respond, Refused
<1>2. /\ a.pack = (r.objects \cup tags) \ common.commits
      /\ a.shallow = r.boundaries /\ a.unshallow = r.unshallow
  BY <1>1
<1>3. common.commits \subseteq B
  BY CommonHad
<1>4. tags \subseteq Object
  <2>1. ASSUME NEW os \in SUBSET Tips(s) PROVE TagsOf(os) \subseteq Object
    BY NamedFacts
  <2> DEFINE named == {s.refs[n] : n \in {t \in DOMAIN s.refs :
                                  t[1] = "tags" /\ Peeled({s.refs[t]}) \subseteq r.objects}}
  <2>2. ReachableTags(s, r.objects) = TagsOf(named)
    BY DEF ReachableTags
  <2>3. named \in SUBSET Tips(s)
    BY DEF Tips
  <2> HIDE DEF named, r
  <2> QED
    BY <2>1, <2>2, <2>3
<1> HIDE DEF tags, common
<1>5. r.objects \subseteq Object /\ N \subseteq Commits /\ Must \subseteq r.objects \cup B
  <2>1. CASE q.depth = None
    <3> DEFINE plain == SelectUploadObjects(s, q.wants, common)
    <3>1. r = Override(plain, [boundaries |-> {}, unshallow |-> {}])
      BY <2>1 DEF Selected
    <3>2. DOMAIN plain = {"fails", "objects"}
      BY DEF SelectUploadObjects
    <3>4. plain.objects \subseteq Object /\ Below(q.wants, q.shallow) \subseteq plain.objects \cup B
      BY PlainFills DEF common
    <3> HIDE DEF plain, r
    <3>5. r.objects = plain.objects /\ r.boundaries = {} /\ r.unshallow = {}
      BY <3>1, <3>2, PlainFields
    <3>6. N = q.shallow
      BY <1>2, <3>5
    <3>7. q.wants \cup UNION {Parents(c) : c \in q.shallow \ N} = q.wants
      BY <3>6
    <3> QED
      BY <3>4, <3>5, <3>6, <3>7
  <2>2. CASE q.depth # None /\ q.relative
    <3> DEFINE rel == DeepenRelative(s, q.wants, q.shallow, q.depth)
    <3>1. r = rel
      BY <2>2 DEF Selected
    <3> HIDE DEF r, rel
    <3>2. N = (q.shallow \ rel.unshallow) \cup rel.boundaries
      BY <1>2, <3>1
    <3>3. ~rel.fails /\ q.depth \in Nat \ {0}
      BY <1>1, <2>2, <3>1
    <3>4. rel.objects \subseteq Object /\ N \subseteq Commits /\ Must \subseteq rel.objects
      BY <3>2, <3>3, RelativeFills DEF rel
    <3> QED
      BY <3>1, <3>4
  <2>3. CASE q.depth # None /\ ~q.relative
    <3> DEFINE level == ObjectsAtDepth(s, q.wants, q.depth)
               old   == (q.shallow \ level.boundaries) \cap level.objects
    <3>1. r = Override(level, [unshallow |-> old])
      BY <2>3 DEF Selected
    <3>2. DOMAIN level = {"fails", "objects", "boundaries"}
      BY DEF ObjectsAtDepth
    <3> HIDE DEF level, old, r
    <3>4. /\ r.objects = level.objects /\ r.boundaries = level.boundaries
          /\ r.fails = level.fails /\ r.unshallow = old
      BY <3>1, <3>2, LevelFields
    <3>5. N = (q.shallow \ ((q.shallow \ level.boundaries) \cap level.objects)) \cup level.boundaries
      BY <1>2, <3>4 DEF old
    <3>6. level.objects \subseteq Object /\ N \subseteq Commits /\ Must \subseteq level.objects
      <4>1. ~level.fails /\ q.depth \in Nat \ {0} /\ Of("tree", Peeled(q.wants)) = {}
        BY <1>1, <2>3, <3>4
      <4> QED
        BY <3>5, <4>1, DepthFills DEF level
    <3> QED
      BY <3>4, <3>6
  <2> QED
    BY <2>1, <2>2, <2>3
<1> HIDE DEF r, B, Must
<1>6. a.pack \subseteq Object /\ Must \subseteq a.pack \cup B
  BY <1>2, <1>3, <1>4, <1>5
<1> QED
  BY <1>5, <1>6 DEF Must, B

-----------------------------------------------------------------------------
(* The invariant is kept. *)

CallFields == {"op", "version", "depth", "relative", "tags", "bare", "specs", "advertised",
               "default", "track", "original"}

\* Walks from more places, and down to the same boundary.
LEMMA BelowJoin ==
    ASSUME NEW os, NEW ps, NEW qs, os \subseteq ps \cup qs, NEW stop
    PROVE  Below(os, stop) \subseteq Below(ps, stop) \cup Below(qs, stop)
BY DEF Below, Reach

LEMMA PeeledMonotone ==
    ASSUME NEW os, NEW ps, os \subseteq ps
    PROVE  Peeled(os) \subseteq Peeled(ps)
<1>1. Named(os) \subseteq Named(ps)
  BY DEF Named, Reach
<1> QED
  BY <1>1 DEF Peeled, TagsOf, Of

\* The new boundary: what is not behind the old one is behind the references, the rest is
\* what was needed.
LEMMA NewBoundary ==
    ASSUME NEW tips \in SUBSET Object, NEW wants \in SUBSET Object,
           NEW C \in SUBSET Commits, NEW N \in SUBSET Commits,
           NEW need, need = Below(wants \cup UNION {Parents(c) : c \in C \ N}, N)
    PROVE  Below(tips, N) \subseteq Below(tips, C) \cup need
<1> DEFINE os == wants \cup UNION {Parents(c) : c \in C \ N}
           B  == Below(tips, C)
           S  == B \cup need
<1>1. os \in SUBSET Object
  <2>1. \A c \in Commits : Parents(c) \subseteq Object
    BY ObjectFacts DEF Commits, Of
  <2> QED
    BY <2>1
<1>2. UNION {Parents(c) : c \in C \ N} \subseteq os /\ need = Below(os, N)
  OBVIOUS
<1> HIDE DEF os
<1>3. os \subseteq need /\ need \subseteq Object /\ \A x \in need : Onward(x, N) \subseteq need
  BY <1>1, <1>2, BelowFacts
<1>4. tips \subseteq B /\ B \subseteq Object /\ \A x \in B : Onward(x, C) \subseteq B
  BY BelowFacts
<1> HIDE DEF B
<1>5. ASSUME NEW x \in Object, x \in S PROVE Onward(x, N) \subseteq S
  <2>1. CASE x \in need
    BY <1>3, <2>1
  <2>2. CASE x \in B /\ x \notin C
    <3>1. Links[x] \subseteq B
      BY <1>4, <2>2, OnwardFacts
    <3> QED
      BY <3>1, OnwardFacts
  <2>3. CASE x \in B /\ x \in C
    <3>1. x \in Commits /\ Onward(x, C) = {Content[x].tree}
      BY <2>3, OnwardFacts
    <3>2. Content[x].tree \in S
      BY <1>4, <2>3, <3>1
    <3>3. x \in N => Onward(x, N) = {Content[x].tree}
      BY <3>1, OnwardFacts
    <3>4. Onward(x, N) \subseteq Parents(x) \cup {Content[x].tree}
      BY <3>1, OnwardFacts
    <3>5. x \notin N => Parents(x) \subseteq S
      BY <1>2, <1>3, <2>3
    <3> QED
      BY <3>2, <3>3, <3>4, <3>5
  <2> QED
    BY <1>5, <2>1, <2>2, <2>3
<1>6. tips \subseteq S /\ \A x \in Object : x \in S => Onward(x, N) \subseteq S
  BY <1>4, <1>5
<1> HIDE DEF S
<1>7. Below(tips, N) \subseteq S
  BY <1>6, BelowWithin
<1> QED
  BY <1>7 DEF S, B

\* A commit whose parents are there, and its tree.
LEMMA Committed ==
    ASSUME NEW tips \in SUBSET Object, NEW C \in SUBSET Commits, NEW c \in Commits,
           Parents(c) \subseteq tips
    PROVE  /\ Below(tips \cup {c}, C) \subseteq
                 Below(tips, C) \cup {c} \cup Below({Content[c].tree}, {})
           /\ c \in Object /\ Below({Content[c].tree}, {}) \subseteq Object
<1> DEFINE T  == Below({Content[c].tree}, {})
           B  == Below(tips, C)
           S  == B \cup {c} \cup T
           os == tips \cup {c}
<1>1. c \in Object /\ Content[c].tree \in Object
  BY ObjectFacts DEF Trees, Commits, Of
<1>2. Content[c].tree \in T /\ T \subseteq Object /\ \A x \in T : Onward(x, {}) \subseteq T
  <2> DEFINE t == {Content[c].tree}
             no == {}
  <2>1. t \in SUBSET Object /\ no \in SUBSET Commits
    BY <1>1
  <2>2. Content[c].tree \in t
    OBVIOUS
  <2> HIDE DEF t, no
  <2>3. t \subseteq Below(t, no) /\ Below(t, no) \subseteq Object
        /\ \A x \in Below(t, no) : Onward(x, no) \subseteq Below(t, no)
    BY <2>1, BelowFacts
  <2> QED
    BY <2>2, <2>3 DEF t, no
<1>3. tips \subseteq B /\ B \subseteq Object /\ \A x \in B : Onward(x, C) \subseteq B
  BY BelowFacts
<1> HIDE DEF B, T
<1>4. ASSUME NEW x \in Object, x \in S PROVE Onward(x, C) \subseteq S
  <2>1. CASE x \in B
    BY <1>3, <2>1
  <2>2. CASE x = c
    <3>1. Onward(x, C) \subseteq Parents(x) \cup {Content[x].tree}
      BY <2>2, OnwardFacts
    <3> QED
      BY <1>2, <1>3, <2>2, <3>1
  <2>3. CASE x \in T
    <3>1. Links[x] \subseteq T
      BY <1>2, <2>3, OnwardFacts
    <3>2. Onward(x, C) \subseteq Links[x]
      BY OnwardFacts
    <3> QED
      BY <3>1, <3>2
  <2> QED
    BY <1>4, <2>1, <2>2, <2>3
<1>5. os \in SUBSET Object /\ os \subseteq S /\ \A x \in Object : x \in S => Onward(x, C) \subseteq S
  BY <1>1, <1>3, <1>4
<1> HIDE DEF S, os
<1>6. Below(os, C) \subseteq S
  BY <1>5, BelowWithin
<1> QED
  BY <1>1, <1>2, <1>6 DEF S, B, T, os

\* A step of the call sets some fields and keeps the others.
LEMMA CallKept ==
    ASSUME CallFits, call.stage \notin {"none", "failed"},
           NEW fields, Set(fields), "stage" \in DOMAIN fields,
           DOMAIN fields \cap CallFields = {}
    PROVE  /\ CallFits' /\ call'.stage = fields.stage /\ Wants' = Wants
           /\ DOMAIN call' = DOMAIN fields \cup DOMAIN call
           /\ \A k \in DOMAIN fields : call'[k] = fields[k]
           /\ \A k \in DOMAIN call : k \notin DOMAIN fields => call'[k] = call[k]
<1>1. /\ DOMAIN call' = DOMAIN fields \cup DOMAIN call
      /\ \A k \in DOMAIN fields : call'[k] = fields[k]
      /\ \A k \in DOMAIN call : k \notin DOMAIN fields => call'[k] = call[k]
  BY DEF Set, Override
<1>2. CallFields \subseteq DOMAIN call
  BY DEF CallFits, CallFields
<1>3. \A k \in CallFields : k \in DOMAIN call' /\ call'[k] = call[k]
  BY <1>1, <1>2
<1>4. /\ call'.advertised = call.advertised /\ call'.op = call.op
      /\ call'.default = call.default /\ call'.depth = call.depth
      /\ call'.relative = call.relative
  BY <1>3 DEF CallFields
<1>5. Wants' = Wants
  BY <1>4 DEF Wants
<1>6. CallFits'
  BY <1>3, <1>4, <1>5 DEF CallFits, CallFields
<1> QED
  BY <1>1, <1>5, <1>6

\* The call is over, or a stage of it.
LEMMA Staged ==
    ASSUME CallFits, call.stage \notin {"none", "failed"}, NEW stage, End(stage)
    PROVE  /\ CallFits' /\ call'.stage = stage /\ Wants' = Wants
           /\ "response" \in DOMAIN call =>
                 "response" \in DOMAIN call' /\ call'.response = call.response
<1> DEFINE fields == [stage |-> stage]
<1>1. Set(fields)
  BY DEF End
<1>2. "stage" \in DOMAIN fields /\ DOMAIN fields \cap CallFields = {} /\ fields.stage = stage
      /\ "response" \notin DOMAIN fields
  BY DEF CallFields
<1> HIDE DEF fields
<1> QED
  BY <1>1, <1>2, CallKept

LEMMA FailKept ==
    ASSUME Fail
    PROVE  call'.stage = "failed" /\ CallFits' /\ Promised' /\ Delivered'
BY DEF Fail, CallFits, Promised, Delivered

\* References are published, of objects whose ways down are there.
LEMMA PublishKeeps ==
    ASSUME Repository(client), ClientWhole, NEW f, NEW W \in SUBSET Object,
           \A t \in DOMAIN f : f[t] \in W, Below(W, client.shallow) \subseteq client.objects,
           client' = [client EXCEPT !.refs = Override(f, @)]
    PROVE  /\ Repository(client)' /\ ClientWhole'
           /\ client'.shallow = client.shallow /\ client'.objects = client.objects
<1> DEFINE refs == Override(f, client.refs)
<1>1. client' = [refs |-> refs, shallow |-> client.shallow, objects |-> client.objects]
  BY DEF Repository
<1>2. /\ DOMAIN refs = DOMAIN f \cup DOMAIN client.refs
      /\ \A k \in DOMAIN f : refs[k] = f[k]
      /\ \A k \in DOMAIN client.refs : k \notin DOMAIN f => refs[k] = client.refs[k]
  BY DEF Override
<1> HIDE DEF refs
<1>3. /\ client'.refs = refs /\ client'.shallow = client.shallow
      /\ client'.objects = client.objects
  BY <1>1
<1>4. Tips(client') \subseteq Tips(client) \cup W
  BY <1>2, <1>3 DEF Tips
<1>5. Tips(client') \subseteq Object
  BY <1>4 DEF Repository
<1>6. Below(Tips(client'), client.shallow)
         \subseteq Below(Tips(client), client.shallow) \cup Below(W, client.shallow)
  BY <1>4, BelowJoin
<1>7. ClientWhole'
  BY <1>3, <1>6 DEF ClientWhole
<1>8. Repository(client')
  BY <1>1, <1>3, <1>5 DEF Repository
<1> QED
  BY <1>3, <1>7, <1>8

\* More objects than before, the same references and boundary.
LEMMA ObjectsAdded ==
    ASSUME Repository(client), ClientWhole, NEW more \in SUBSET Object,
           client' = [client EXCEPT !.objects = @ \cup more]
    PROVE  /\ Repository(client)' /\ ClientWhole'
           /\ client'.shallow = client.shallow /\ client'.refs = client.refs
           /\ client'.objects = client.objects \cup more
<1>1. /\ client' = [refs |-> client.refs, shallow |-> client.shallow,
                    objects |-> client.objects \cup more]
  BY DEF Repository
<1>2. /\ client'.shallow = client.shallow /\ client'.refs = client.refs
      /\ client'.objects = client.objects \cup more
  BY <1>1
<1>3. Tips(client') = Tips(client)
  BY <1>2 DEF Tips
<1>4. Repository(client')
  BY <1>1, <1>2, <1>3 DEF Repository
<1>5. ClientWhole'
  BY <1>2, <1>3 DEF ClientWhole
<1> QED
  BY <1>2, <1>4, <1>5

LEMMA InitHolds == Init => IInv
<1> SUFFICES ASSUME Init PROVE IInv
  OBVIOUS
<1> DEFINE Sides == [refs : References, shallow : SUBSET Commits, objects : SUBSET Object]
<1>1. ASSUME NEW s \in Sides PROVE Repository(s)
  <2>1. /\ s = [refs |-> s.refs, shallow |-> s.shallow, objects |-> s.objects]
        /\ s.shallow \subseteq Commits /\ s.objects \subseteq Object /\ s.refs \in References
    OBVIOUS
  <2>2. \A r \in DOMAIN s.refs : s.refs[r] \in Object
    BY <2>1 DEF References
  <2> QED
    BY <2>1, <2>2 DEF Repository, Tips
<1>2. Repository(server) /\ Repository(client)
  BY <1>1 DEF Init
<1>3. ClientWhole
  BY DEF Init, ClientWhole
<1>4. CallFits /\ Promised /\ Delivered
  BY DEF Init, NoCall, CallFits, Promised, Delivered
<1> QED
  BY <1>2, <1>3, <1>4 DEF IInv

\* Where a depth is asked for, no reference that is wanted names a tree.
LEMMA BeginKeeps ==
    ASSUME IInv, NEW c \in Calls, Begin(c)
    PROVE  IInv' /\ DepthKept'
<1> DEFINE chosen == [r \in {n \in DOMAIN server.refs : Chosen(c.specs, n)} |-> server.refs[r]]
           track  == IF c.specs = None THEN {} ELSE {Mapped(p, Main) : p \in ByRule(c.specs, Main)}
           head   == HeadOf(server)
           orig   == HeadOf(client)
           begun  == Override(c, [advertised |-> chosen, default |-> head, track |-> track,
                                  original |-> orig])
           fails  == \/ c.op = "pull" /\ Cardinality(track) # 1
                     \/ chosen = <<>> /\ ~Readable(client.shallow)
           stage  == IF fails THEN "failed" ELSE IF chosen = <<>> THEN "fetched" ELSE "request"
<1>1. /\ call' = Override([stage |-> stage], begun)
      /\ server' = server /\ client' = client
      /\ c.op = "clone" => c.specs = None
      /\ c.depth # None /\ ~c.relative => Of("tree", Peeled(Tips(server))) = {}
  BY DEF Begin, Start
<1>2. /\ DOMAIN c = {"op", "version", "depth", "relative", "tags", "bare", "specs"}
      /\ c.depth # None => c.depth \in Nat \ {0}
      /\ c.op \in {"fetch", "clone", "pull"}
  BY CallsAssumption
<1>3. /\ {chosen[r] : r \in DOMAIN chosen} \subseteq Tips(server)
      /\ chosen = <<>> => {chosen[r] : r \in DOMAIN chosen} = {}
      /\ c.specs = None /\ head # None => head \in {chosen[r] : r \in DOMAIN chosen}
  <2>1. /\ \A r \in DOMAIN chosen : r \in DOMAIN server.refs /\ chosen[r] = server.refs[r]
        /\ \A r \in DOMAIN server.refs : Chosen(c.specs, r) => r \in DOMAIN chosen
    OBVIOUS
  <2>2. chosen = <<>> => DOMAIN chosen = {}
    OBVIOUS
  <2>3. c.specs = None => Chosen(c.specs, Main)
    BY DEF Chosen, Main
  <2>4. head # None => Main \in DOMAIN server.refs /\ head = server.refs[Main]
    BY DEF HeadOf
  <2> HIDE DEF chosen, head
  <2> QED
    BY <2>1, <2>2, <2>3, <2>4 DEF Tips
<1> HIDE DEF chosen, track, head, orig, fails
<1>4. /\ DOMAIN call' = {"stage", "advertised", "default", "track", "original"} \cup DOMAIN c
      /\ call'.stage = stage /\ call'.advertised = chosen /\ call'.default = head
      /\ call'.op = c.op /\ call'.depth = c.depth /\ call'.relative = c.relative
  <2> DEFINE found == [advertised |-> chosen, default |-> head, track |-> track, original |-> orig]
             st    == [stage |-> stage]
  <2>1. /\ DOMAIN found = {"advertised", "default", "track", "original"}
        /\ found.advertised = chosen /\ found.default = head
        /\ begun = Override(c, found)
    OBVIOUS
  <2>2. DOMAIN st = {"stage"} /\ st.stage = stage /\ call' = Override(st, begun)
    BY <1>1
  <2> HIDE DEF found, begun, st, stage
  <2>3. /\ DOMAIN begun = DOMAIN c \cup DOMAIN found
        /\ begun.advertised = chosen /\ begun.default = head
        /\ begun.op = c.op /\ begun.depth = c.depth /\ begun.relative = c.relative
    BY <1>2, <2>1 DEF Override
  <2> QED
    BY <1>2, <2>1, <2>2, <2>3 DEF Override
<1>5. /\ Wants' = {chosen[r] : r \in DOMAIN chosen}
      /\ Wants' \subseteq Tips(server) /\ Wants' \subseteq Object
  BY <1>3, <1>4 DEF Wants, IInv, Repository
<1>6. CallFits'
  <2>1. c.depth # None /\ ~c.relative => Of("tree", Peeled(Wants')) = {}
    BY <1>1, <1>5, PeeledMonotone DEF Of
  <2>2. c.op = "clone" /\ head # None => head \in Wants'
    BY <1>1, <1>3, <1>5
  <2> HIDE DEF stage
  <2> QED
    BY <1>2, <1>4, <1>5, <2>1, <2>2 DEF CallFits
<1>7. Promised'
  BY <1>4 DEF Promised
<1>8. Delivered'
  <2>1. stage = "fetched" => Wants' = {}
    BY <1>3, <1>5
  <2>2. Below({}, client'.shallow) = {}
    BY DEF Below, Reach
  <2> QED
    BY <1>4, <2>1, <2>2 DEF Delivered
<1>9. ClientWhole' /\ Repository(server)' /\ Repository(client)'
  BY <1>1 DEF IInv, ClientWhole
<1>10. DepthKept'
  <2>1. chosen = <<>> => DOMAIN chosen = {}
    OBVIOUS
  <2> QED
    BY <1>4, <2>1 DEF DepthKept
<1> QED
  BY <1>6, <1>7, <1>8, <1>9, <1>10 DEF IInv

LEMMA ExchangeKeeps ==
    ASSUME IInv, Exchange
    PROVE  IInv'
<1> DEFINE q == [version |-> call.version, wants |-> {call.advertised[r] : r \in DOMAIN call.advertised},
                 haves |-> Tips(client), shallow |-> client.shallow,
                 depth |-> call.depth, relative |-> call.relative, tags |-> call.tags]
           a == Respond(server, q)
           N == (client.shallow \ a.unshallow) \cup a.shallow
           fields == [stage |-> "pack", q |-> q, response |-> a]
<1>1. server' = server /\ client' = client /\ call.stage = "request"
  BY DEF Exchange, Receive
<1>2. Repository(server) /\ Repository(client) /\ CallFits /\ ClientWhole
  BY DEF IInv
<1>3. Repository(server)' /\ Repository(client)' /\ ClientWhole'
  BY <1>1, <1>2 DEF ClientWhole
<1>4. CASE Fail
  BY <1>3, <1>4, FailKept DEF IInv
<1>5. CASE a.ok /\ Set(fields)
  <2>1. /\ q.wants = Wants /\ q.haves = Tips(client) /\ q.shallow = client.shallow
        /\ q.depth = call.depth /\ q.relative = call.relative
    BY DEF Wants
  <2>2. /\ Wants \in SUBSET Object /\ Tips(client) \in SUBSET Object
        /\ client.shallow \in SUBSET Commits /\ Tips(server) \subseteq Object
        /\ call.depth # None => call.depth \in Nat \ {0}
        /\ call.depth # None /\ ~call.relative => Of("tree", Peeled(Wants)) = {}
    BY <1>1, <1>2 DEF CallFits, Repository
  <2> HIDE DEF q
  <2>3. /\ a.pack \subseteq Object /\ N \subseteq Commits
        /\ Below(Wants \cup UNION {Parents(c) : c \in client.shallow \ N}, N)
              \subseteq a.pack \cup Below(Tips(client), client.shallow)
    <3>1. /\ q.wants \in SUBSET Object /\ q.haves \in SUBSET Object /\ q.shallow \in SUBSET Commits
          /\ q.depth # None => q.depth \in Nat \ {0}
          /\ q.depth # None /\ ~q.relative => Of("tree", Peeled(q.wants)) = {}
      BY <2>1, <2>2
    <3> DEFINE M == (q.shallow \ a.unshallow) \cup a.shallow
    <3>2. /\ a.pack \subseteq Object /\ M \subseteq Commits
          /\ Below(q.wants \cup UNION {Parents(c) : c \in q.shallow \ M}, M)
                \subseteq a.pack \cup Below(q.haves, q.shallow)
      BY <1>5, <2>2, <3>1, AnswerFills
    <3> HIDE DEF a
    <3> QED
      BY <2>1, <3>2
  <2> HIDE DEF a
  <2>4. /\ fields.stage = "pack" /\ fields.response = a
        /\ DOMAIN fields = {"stage", "q", "response"}
        /\ "stage" \in DOMAIN fields /\ "response" \in DOMAIN fields
        /\ DOMAIN fields \cap CallFields = {}
    BY DEF CallFields
  <2> HIDE DEF fields
  <2>5. /\ CallFits' /\ call'.stage = fields.stage /\ Wants' = Wants
        /\ DOMAIN call' = DOMAIN fields \cup DOMAIN call
        /\ \A k \in DOMAIN fields : call'[k] = fields[k]
    BY <1>1, <1>2, <1>5, <2>4, CallKept
  <2>6. call'.stage = "pack" /\ "response" \in DOMAIN call' /\ call'.response = a
    BY <2>4, <2>5
  <2>7. Boundary' = N
    BY <1>1, <2>6 DEF Boundary
  <2>8. Needed' = Below(Wants \cup UNION {Parents(c) : c \in client.shallow \ N}, N)
    BY <1>1, <2>5, <2>7 DEF Needed
  <2>9. Promised'
    BY <1>1, <1>2, <2>3, <2>6, <2>7, <2>8 DEF Promised, ClientWhole
  <2>10. Delivered'
    BY <2>6 DEF Delivered
  <2> QED
    BY <1>3, <2>5, <2>9, <2>10 DEF IInv
<1> QED
  BY <1>4, <1>5 DEF Exchange, Receive

LEMMA PublishPackKeeps ==
    ASSUME IInv, PublishPack
    PROVE  IInv'
<1>1. /\ server' = server /\ call.stage = "pack" /\ End("shallow")
      /\ client' = [client EXCEPT !.objects = @ \cup call.response.pack]
  BY DEF PublishPack
<1>2. Repository(server) /\ Repository(client) /\ CallFits /\ ClientWhole /\ Promised
  BY DEF IInv
<1>3. /\ "response" \in DOMAIN call /\ call.response.pack \subseteq Object
      /\ Boundary \subseteq Commits
      /\ Needed \subseteq client.objects \cup call.response.pack
  BY <1>1, <1>2 DEF Promised
<1>4. /\ Repository(client)' /\ ClientWhole' /\ client'.shallow = client.shallow
      /\ client'.objects = client.objects \cup call.response.pack
  BY <1>1, <1>2, <1>3, ObjectsAdded
<1>5. /\ CallFits' /\ call'.stage = "shallow" /\ Wants' = Wants
      /\ "response" \in DOMAIN call' /\ call'.response = call.response
  BY <1>1, <1>2, <1>3, Staged
<1>6. Boundary' = Boundary
  BY <1>4, <1>5 DEF Boundary
<1>7. Needed' = Needed
  BY <1>4, <1>5, <1>6 DEF Needed
<1>8. Promised'
  BY <1>3, <1>4, <1>5, <1>6, <1>7 DEF Promised
<1>9. Delivered'
  BY <1>5 DEF Delivered
<1> QED
  BY <1>1, <1>2, <1>4, <1>5, <1>8, <1>9 DEF IInv

LEMMA WriteShallowKeeps ==
    ASSUME IInv, WriteShallow
    PROVE  IInv'
<1>1. /\ server' = server /\ call.stage = "shallow" /\ End("refs")
      /\ client' = [client EXCEPT !.shallow = Boundary]
  BY DEF WriteShallow, Boundary
<1>2. Repository(server) /\ Repository(client) /\ CallFits /\ ClientWhole /\ Promised
  BY DEF IInv
<1>3. Boundary \subseteq Commits /\ Needed \subseteq client.objects
  BY <1>1, <1>2 DEF Promised
<1>4. /\ client' = [refs |-> client.refs, shallow |-> Boundary, objects |-> client.objects]
      /\ client'.shallow = Boundary /\ client'.refs = client.refs
      /\ client'.objects = client.objects
  <2> HIDE DEF Boundary
  <2> QED
    BY <1>1, <1>2 DEF Repository
<1>5. Tips(client') = Tips(client)
  BY <1>4 DEF Tips
<1>6. Repository(client')
  BY <1>2, <1>3, <1>4, <1>5 DEF Repository
<1>7. Tips(client) \in SUBSET Object /\ client.shallow \in SUBSET Commits /\ Wants \in SUBSET Object
  BY <1>1, <1>2 DEF Repository, CallFits
<1>8. Below(Tips(client), Boundary) \subseteq Below(Tips(client), client.shallow) \cup Needed
  <2> DEFINE C == client.shallow
             N == Boundary
  <2>1. Needed = Below(Wants \cup UNION {Parents(c) : c \in C \ N}, N)
    BY DEF Needed
  <2> QED
    BY <1>3, <1>7, <2>1, NewBoundary
<1>9. ClientWhole'
  BY <1>2, <1>3, <1>4, <1>5, <1>8 DEF ClientWhole
<1>10. CallFits' /\ call'.stage = "refs" /\ Wants' = Wants
  BY <1>1, <1>2, Staged
<1>11. Below(Wants, Boundary) \subseteq Needed
  <2> DEFINE os == Wants \cup UNION {Parents(c) : c \in client.shallow \ Boundary}
  <2>1. Wants \subseteq os \cup os
    OBVIOUS
  <2> HIDE DEF os
  <2>2. Below(Wants, Boundary) \subseteq Below(os, Boundary) \cup Below(os, Boundary)
    BY <2>1, BelowJoin
  <2> QED
    BY <2>2 DEF Needed, os
<1>12. Promised' /\ Delivered'
  BY <1>3, <1>4, <1>10, <1>11 DEF Promised, Delivered
<1> QED
  BY <1>1, <1>2, <1>6, <1>9, <1>10, <1>12 DEF IInv

LEMMA PrepareRefsKeeps ==
    ASSUME IInv, PrepareRefs
    PROVE  IInv'
<1> DEFINE wishes == UNION {{Override([new |-> call.advertised[r]], d) : d \in Destinations(call, r)}
                            : r \in DOMAIN call.advertised}
           old(d) == IF d.to \in DOMAIN client.refs THEN client.refs[d.to] ELSE None
           edits  == {[to |-> d.to, old |-> old(d), new |-> d.new]
                         : d \in {w \in wishes : old(w) # w.new}}
           fields == [stage |-> "apply", edits |-> edits]
<1>1. server' = server /\ client' = client /\ call.stage = "refs" /\ (Fail \/ Set(fields))
  BY DEF PrepareRefs
<1>2. Repository(server) /\ Repository(client) /\ CallFits /\ ClientWhole /\ Delivered
  BY DEF IInv
<1>3. Repository(server)' /\ Repository(client)' /\ ClientWhole'
  BY <1>1, <1>2 DEF ClientWhole
<1>4. CASE Fail
  BY <1>3, <1>4, FailKept DEF IInv
<1>5. CASE Set(fields)
  <2>1. \A d \in wishes : d.new \in Wants
    <3>1. \A r \in DOMAIN call.advertised : \A d :
             Override([new |-> call.advertised[r]], d).new = call.advertised[r]
      BY DEF Override
    <3>2. ASSUME NEW d \in wishes PROVE d.new \in Wants
      <4>1. PICK r \in DOMAIN call.advertised : \E e \in Destinations(call, r) :
                 d = Override([new |-> call.advertised[r]], e)
        OBVIOUS
      <4>2. d.new = call.advertised[r]
        BY <3>1, <4>1
      <4> QED
        BY <4>2 DEF Wants
    <3> QED
      BY <3>2
  <2> HIDE DEF wishes
  <2>2. {e.new : e \in edits} \subseteq Wants
    BY <2>1
  <2> HIDE DEF edits
  <2>3. /\ fields.stage = "apply" /\ fields.edits = edits
        /\ DOMAIN fields = {"stage", "edits"}
        /\ "stage" \in DOMAIN fields /\ "edits" \in DOMAIN fields
        /\ DOMAIN fields \cap CallFields = {}
    BY DEF CallFields
  <2> HIDE DEF fields
  <2>4. /\ CallFits' /\ call'.stage = fields.stage /\ Wants' = Wants
        /\ DOMAIN call' = DOMAIN fields \cup DOMAIN call
        /\ \A k \in DOMAIN fields : call'[k] = fields[k]
    BY <1>1, <1>2, <1>5, <2>3, CallKept
  <2>5. call'.stage = "apply" /\ "edits" \in DOMAIN call' /\ call'.edits = edits
    BY <2>3, <2>4
  <2>6. Below(Wants, client.shallow) \subseteq client.objects
    BY <1>1, <1>2 DEF Delivered
  <2>7. Promised' /\ Delivered'
    BY <1>1, <2>2, <2>4, <2>5, <2>6 DEF Promised, Delivered
  <2> QED
    BY <1>3, <2>4, <2>7 DEF IInv
<1> QED
  BY <1>1, <1>4, <1>5

LEMMA ApplyRefsKeeps ==
    ASSUME IInv, ApplyRefs
    PROVE  IInv'
<1>1. Repository(server) /\ Repository(client) /\ CallFits /\ ClientWhole /\ Delivered
  BY DEF IInv
<1>2. /\ server' = server /\ call.stage = "apply"
      /\ \/ Publish(call.edits) /\ End("fetched")
         \/ (\E es \in SUBSET call.edits : Publish(es)) /\ Fail
         \/ UNCHANGED client /\ Fail
  BY DEF ApplyRefs
<1>3. /\ Wants \in SUBSET Object /\ Below(Wants, client.shallow) \subseteq client.objects
      /\ {e.new : e \in call.edits} \subseteq Wants
  BY <1>1, <1>2 DEF CallFits, Delivered
<1>4. Repository(server)'
  BY <1>1, <1>2
<1>5. ASSUME NEW es \in SUBSET call.edits, Publish(es)
      PROVE  /\ Repository(client)' /\ ClientWhole'
             /\ client'.shallow = client.shallow /\ client'.objects = client.objects
  <2> DEFINE f == [t \in {e.to : e \in es} |-> (CHOOSE e \in es : e.to = t).new]
  <2>1. \A t \in DOMAIN f : f[t] \in Wants
    <3> SUFFICES ASSUME NEW t \in {e.to : e \in es}
                 PROVE  (CHOOSE e \in es : e.to = t).new \in Wants
      OBVIOUS
    <3>1. \E e \in es : e.to = t
      OBVIOUS
    <3>2. (CHOOSE e \in es : e.to = t) \in es
      BY <3>1
    <3> QED
      BY <1>3, <3>2
  <2>2. client' = [client EXCEPT !.refs = Override(f, @)]
    BY <1>5 DEF Publish
  <2> HIDE DEF f
  <2> QED
    BY <1>1, <1>3, <2>1, <2>2, PublishKeeps
<1>6. CASE Publish(call.edits) /\ End("fetched")
  <2>1. CallFits' /\ call'.stage = "fetched" /\ Wants' = Wants
    BY <1>1, <1>2, <1>6, Staged
  <2>2. /\ Repository(client)' /\ ClientWhole'
        /\ client'.shallow = client.shallow /\ client'.objects = client.objects
    BY <1>5, <1>6
  <2>3. Promised' /\ Delivered'
    BY <1>3, <2>1, <2>2 DEF Promised, Delivered
  <2> QED
    BY <1>4, <2>1, <2>2, <2>3 DEF IInv
<1>7. CASE (\E es \in SUBSET call.edits : Publish(es)) /\ Fail
  BY <1>4, <1>5, <1>7, FailKept DEF IInv
<1>8. CASE UNCHANGED client /\ Fail
  BY <1>1, <1>4, <1>8, FailKept DEF IInv, ClientWhole
<1> QED
  BY <1>2, <1>6, <1>7, <1>8

\* What follows a fetch moves a branch to what was wanted, or to what a reference names.
LEMMA FinishKeeps ==
    ASSUME IInv, Finish
    PROVE  IInv'
<1>1. Repository(server) /\ Repository(client) /\ CallFits /\ ClientWhole /\ Delivered
  BY DEF IInv
<1>2. server' = server /\ call.stage = "fetched" /\ Repository(server)'
  BY <1>1 DEF Finish
<1>3. /\ Wants \in SUBSET Object /\ Below(Wants, client.shallow) \subseteq client.objects
      /\ Tips(client) \in SUBSET Object /\ Below(Tips(client), client.shallow) \subseteq client.objects
      /\ call.op = "clone" /\ call.default # None => call.default \in Wants
      /\ call.op \in {"fetch", "clone", "pull"}
  BY <1>1, <1>2 DEF CallFits, Delivered, Repository, ClientWhole
<1>4. /\ End("done") \/ Fail
      /\ \/ UNCHANGED client
         \/ \E to \in Wants \cup Tips(client) : Move(to)
  <2>1. CASE call.op = "clone"
    BY <1>3, <2>1 DEF Finish
  <2>2. CASE call.op = "pull"
    <3> DEFINE track == CHOOSE t \in call.track : TRUE
               up    == IF track \in DOMAIN client.refs THEN client.refs[track] ELSE None
    <3>1. (End("done") \/ Fail) /\ (UNCHANGED client \/ (up # None /\ Move(up)))
      BY <2>2 DEF Finish
    <3>2. up # None => up \in Tips(client)
      BY DEF Tips
    <3> HIDE DEF up
    <3> QED
      BY <3>1, <3>2
  <2>3. CASE call.op = "fetch"
    BY <2>3 DEF Finish
  <2> QED
    BY <1>3, <2>1, <2>2, <2>3
<1>5. Repository(client)' /\ ClientWhole'
  <2>1. CASE UNCHANGED client
    BY <1>1, <2>1 DEF ClientWhole
  <2>2. ASSUME NEW to \in Wants \cup Tips(client), Move(to)
        PROVE  Repository(client)' /\ ClientWhole'
    <3> DEFINE f == [r \in {Main} |-> to]
               W == Wants \cup Tips(client)
    <3>1. \A t \in DOMAIN f : f[t] \in W
      OBVIOUS
    <3>2. client' = [client EXCEPT !.refs = Override(f, @)]
      BY <2>2 DEF Move
    <3>3. W \in SUBSET Object
      BY <1>3
    <3>4. W \subseteq Wants \cup Tips(client)
      OBVIOUS
    <3> HIDE DEF f, W
    <3>5. Below(W, client.shallow) \subseteq client.objects
      BY <1>3, <3>4, BelowJoin
    <3> QED
      BY <1>1, <3>1, <3>2, <3>3, <3>5, PublishKeeps
  <2> QED
    BY <1>4, <2>1, <2>2
<1>6. CASE End("done")
  <2>1. CallFits' /\ call'.stage = "done"
    BY <1>1, <1>2, <1>6, Staged
  <2> QED
    BY <1>2, <1>5, <2>1 DEF IInv, Promised, Delivered
<1>7. CASE Fail
  BY <1>2, <1>5, <1>7, FailKept DEF IInv
<1> QED
  BY <1>4, <1>6, <1>7

\* Others commit, delete references and collect.
LEMMA CommitLocallyKeeps ==
    ASSUME IInv, NEW c \in Commits, CommitLocally(c)
    PROVE  IInv'
<1>1. Repository(server) /\ Repository(client) /\ CallFits /\ Promised /\ Delivered /\ ClientWhole
  BY DEF IInv
<1> DEFINE T    == Below({Content[c].tree}, {})
           more == {c} \cup T
           f    == [r \in {Main} |-> c]
           refs == Override(f, client.refs)
<1>2. /\ server' = server /\ call' = call /\ Parents(c) = {HeadOf(client)} \ {None}
      /\ client' = [client EXCEPT !.objects = @ \cup more, !.refs = refs]
  BY DEF CommitLocally
<1>3. Parents(c) \subseteq Tips(client)
  BY <1>2 DEF HeadOf, Tips
<1>4. /\ Tips(client) \in SUBSET Object /\ client.shallow \in SUBSET Commits
      /\ client.objects \subseteq Object
  BY <1>1 DEF Repository
<1>5. /\ Below(Tips(client) \cup {c}, client.shallow)
            \subseteq Below(Tips(client), client.shallow) \cup {c} \cup T
      /\ c \in Object /\ T \subseteq Object
  BY <1>3, <1>4, Committed
<1> HIDE DEF T
<1>6. /\ client' = [refs |-> refs, shallow |-> client.shallow,
                    objects |-> client.objects \cup more]
      /\ client'.refs = refs /\ client'.shallow = client.shallow
      /\ client'.objects = client.objects \cup more
  <2> HIDE DEF refs, more
  <2> QED
    BY <1>1, <1>2 DEF Repository
<1>7. /\ DOMAIN refs = {Main} \cup DOMAIN client.refs /\ refs[Main] = c
      /\ \A k \in DOMAIN client.refs : k # Main => refs[k] = client.refs[k]
  BY DEF Override
<1> HIDE DEF refs
<1>8. Tips(client') \subseteq Tips(client) \cup {c}
  BY <1>6, <1>7 DEF Tips
<1>9. Repository(client')
  BY <1>4, <1>5, <1>6, <1>8 DEF Repository
<1>10. ClientWhole'
  <2> DEFINE all == Tips(client) \cup {c}
  <2>1. Tips(client') \subseteq all \cup all
    BY <1>8
  <2>2. Below(all, client.shallow) \subseteq client.objects \cup more
    BY <1>1, <1>5 DEF ClientWhole
  <2> HIDE DEF all
  <2>3. Below(Tips(client'), client.shallow)
           \subseteq Below(all, client.shallow) \cup Below(all, client.shallow)
    BY <2>1, BelowJoin
  <2> QED
    BY <1>6, <2>2, <2>3 DEF ClientWhole
<1>11. Wants' = Wants /\ Boundary' = Boundary /\ Needed' = Needed
  BY <1>2, <1>6 DEF Wants, Boundary, Needed
<1>12. CallFits'
  BY <1>1, <1>2, <1>11 DEF CallFits
<1> HIDE DEF more
<1>13. Promised' /\ Delivered'
  BY <1>1, <1>2, <1>6, <1>11 DEF Promised, Delivered
<1> QED
  BY <1>1, <1>2, <1>9, <1>10, <1>12, <1>13 DEF IInv

LEMMA DeleteReferenceKeeps ==
    ASSUME IInv, NEW r \in DOMAIN client.refs, DeleteReference(r)
    PROVE  IInv'
<1>1. Repository(server) /\ Repository(client) /\ CallFits /\ Promised /\ Delivered /\ ClientWhole
  BY DEF IInv
<1> DEFINE refs == [n \in DOMAIN client.refs \ {r} |-> client.refs[n]]
<1>2. /\ server' = server /\ call' = call /\ client' = [client EXCEPT !.refs = refs]
  BY DEF DeleteReference
<1>3. /\ client' = [refs |-> refs, shallow |-> client.shallow, objects |-> client.objects]
      /\ client'.refs = refs /\ client'.shallow = client.shallow
      /\ client'.objects = client.objects
  <2> HIDE DEF refs
  <2> QED
    BY <1>1, <1>2 DEF Repository
<1>4. Tips(client') \subseteq Tips(client) \cup Tips(client)
  BY <1>3 DEF Tips
<1>5. Repository(client')
  BY <1>1, <1>3, <1>4 DEF Repository
<1>6. ClientWhole'
  BY <1>1, <1>3, <1>4, BelowJoin DEF ClientWhole
<1>7. Wants' = Wants /\ Boundary' = Boundary /\ Needed' = Needed
  BY <1>2, <1>3 DEF Wants, Boundary, Needed
<1>8. CallFits'
  BY <1>1, <1>2, <1>7 DEF CallFits
<1>9. Promised' /\ Delivered'
  BY <1>1, <1>2, <1>3, <1>7 DEF Promised, Delivered
<1> QED
  BY <1>1, <1>2, <1>5, <1>6, <1>8, <1>9 DEF IInv

LEMMA CollectKeeps ==
    ASSUME IInv, Collect
    PROVE  IInv'
<1>1. Repository(server) /\ Repository(client) /\ CallFits /\ ClientWhole
  BY DEF IInv
<1> DEFINE kept == client.objects \cap Below(Tips(client), client.shallow)
<1>2. /\ server' = server /\ call' = call /\ call.stage \in Ended
      /\ client' = [client EXCEPT !.objects = kept]
  BY DEF Collect
<1>3. /\ client' = [refs |-> client.refs, shallow |-> client.shallow, objects |-> kept]
      /\ client'.refs = client.refs /\ client'.shallow = client.shallow
      /\ client'.objects = kept
  <2> HIDE DEF kept
  <2> QED
    BY <1>1, <1>2 DEF Repository
<1>4. Tips(client') = Tips(client)
  BY <1>3 DEF Tips
<1>5. Repository(client') /\ ClientWhole'
  BY <1>1, <1>3, <1>4 DEF Repository, ClientWhole
<1>6. Wants' = Wants
  BY <1>2 DEF Wants
<1>7. CallFits'
  BY <1>1, <1>2, <1>6 DEF CallFits
<1>8. Promised' /\ Delivered'
  BY <1>2 DEF Promised, Delivered, Ended
<1> QED
  BY <1>1, <1>2, <1>5, <1>7, <1>8 DEF IInv

LEMMA ServerMovesKeeps ==
    ASSUME IInv, NEW refs \in References, ServerMoves(refs)
    PROVE  IInv'
<1>1. Repository(server) /\ Repository(client) /\ CallFits /\ Promised /\ Delivered /\ ClientWhole
  BY DEF IInv
<1>2. /\ client' = client /\ call' = call /\ server' = [server EXCEPT !.refs = refs]
  BY DEF ServerMoves
<1>3. /\ server' = [refs |-> refs, shallow |-> server.shallow, objects |-> server.objects]
      /\ server'.refs = refs /\ server'.shallow = server.shallow
      /\ server'.objects = server.objects
  BY <1>1, <1>2 DEF Repository
<1>4. Tips(server') \subseteq Object
  <2>1. \A r \in DOMAIN refs : refs[r] \in Object
    BY DEF References
  <2> QED
    BY <1>3, <2>1 DEF Tips
<1>5. Repository(server')
  BY <1>1, <1>3, <1>4 DEF Repository
<1>6. Wants' = Wants /\ Boundary' = Boundary /\ Needed' = Needed
  BY <1>2 DEF Wants, Boundary, Needed
<1>7. CallFits' /\ Promised' /\ Delivered' /\ ClientWhole' /\ Repository(client)'
  BY <1>1, <1>2, <1>6 DEF CallFits, Promised, Delivered, ClientWhole
<1> QED
  BY <1>5, <1>7 DEF IInv

LEMMA NextKeeps == IInv /\ [Next]_fetchVars => IInv'
<1> SUFFICES ASSUME IInv, [Next]_fetchVars PROVE IInv'
  OBVIOUS
<1>1. ASSUME NEW c \in Calls, Begin(c) PROVE IInv'
  BY <1>1, BeginKeeps
<1>2. CASE Exchange
  BY <1>2, ExchangeKeeps
<1>3. CASE PublishPack
  BY <1>3, PublishPackKeeps
<1>4. CASE WriteShallow
  BY <1>4, WriteShallowKeeps
<1>5. CASE PrepareRefs
  BY <1>5, PrepareRefsKeeps
<1>6. CASE ApplyRefs
  BY <1>6, ApplyRefsKeeps
<1>7. CASE Finish
  BY <1>7, FinishKeeps
<1>8. CASE BreakOff
  BY <1>8, FailKept DEF BreakOff, IInv, ClientWhole
<1>9. ASSUME NEW refs \in References, ServerMoves(refs) PROVE IInv'
  BY <1>9, ServerMovesKeeps
<1>10. ASSUME NEW c \in Commits, CommitLocally(c) PROVE IInv'
  BY <1>10, CommitLocallyKeeps
<1>11. ASSUME NEW r \in DOMAIN client.refs, DeleteReference(r) PROVE IInv'
  BY <1>11, DeleteReferenceKeeps
<1>12. CASE Collect
  BY <1>12, CollectKeeps
<1>13. CASE UNCHANGED fetchVars
  <2>1. server' = server /\ client' = client /\ call' = call
    BY <1>13 DEF fetchVars
  <2>2. Wants' = Wants /\ Boundary' = Boundary /\ Needed' = Needed
    BY <2>1 DEF Wants, Boundary, Needed
  <2> QED
    BY <2>1, <2>2 DEF IInv, CallFits, Promised, Delivered, ClientWhole
<1> QED
  BY <1>1, <1>2, <1>3, <1>4, <1>5, <1>6, <1>7, <1>8, <1>9, <1>10, <1>11, <1>12, <1>13
  DEF Next, Handle

\* At every moment of any sequence of calls, broken off or not, and of the steps of others: what
\* the references of the client lead to is there, down to its boundary (fetch.rs, shallow.rs,
\* upload_pack.rs).
THEOREM WholeAlways == Spec => []ClientWhole
<1>1. IInv => ClientWhole
  BY DEF IInv
<1> QED
  BY <1>1, InitHolds, NextKeeps, PTL DEF Spec

-----------------------------------------------------------------------------
(* What is seen after a fetch to some depth. *)

\* A counted walk reaches what it must and no more.
LEMMA CountedWithin ==
    ASSUME NEW first \in SUBSET Commits, NEW n \in Nat, NEW open, NEW S,
           \A c \in first : <<c, n>> \in S,
           \A c \in Commits : \A k \in 1 .. n : c \in open /\ <<c, k>> \in S
                 => \A p \in Parents(c) : <<p, k - 1>> \in S
    PROVE  Counted(first, n, open) \subseteq S
BY CountedFacts

\* Each place of it is one of the first or comes after another.
LEMMA CountedFrom ==
    ASSUME NEW first \in SUBSET Commits, NEW n \in Nat, NEW open
    PROVE  \A c, k : <<c, k>> \in Counted(first, n, open) =>
              \/ c \in first /\ k = n
              \/ \E b \in open : <<b, k + 1>> \in Counted(first, n, open) /\ c \in Parents(b)
<1> DEFINE W == Counted(first, n, open)
           From(c, k) == \/ c \in first /\ k = n
                         \/ \E b \in open : <<b, k + 1>> \in W /\ c \in Parents(b)
           S == {v \in W : From(v[1], v[2])}
<1>1. /\ \A c \in first : <<c, n>> \in W
      /\ \A c \in Commits : \A k \in 1 .. n : c \in open /\ <<c, k>> \in W
                 => \A p \in Parents(c) : <<p, k - 1>> \in W
  BY CountedFacts
<1> HIDE DEF W
<1>2. \A c, k : <<c, k>> \in S <=> <<c, k>> \in W /\ From(c, k)
  <2> SUFFICES ASSUME NEW c, NEW k
               PROVE  <<c, k>> \in S <=> <<c, k>> \in W /\ From(c, k)
    OBVIOUS
  <2>1. <<c, k>>[1] = c /\ <<c, k>>[2] = k
    OBVIOUS
  <2> HIDE DEF From
  <2> QED
    BY <2>1
<1>3. \A c \in first : <<c, n>> \in S
  BY <1>1, <1>2
<1>4. ASSUME NEW c \in Commits, NEW k \in 1 .. n, c \in open, <<c, k>> \in S, NEW p \in Parents(c)
      PROVE  <<p, k - 1>> \in S
  <2>1. <<c, k>> \in W /\ k = (k - 1) + 1
    BY <1>2, <1>4
  <2>2. <<p, k - 1>> \in W
    BY <1>1, <1>4, <2>1
  <2>3. From(p, k - 1)
    BY <1>4, <2>1
  <2> QED
    BY <1>2, <2>2, <2>3
<1> HIDE DEF S
<1>5. W \subseteq S
  BY <1>3, <1>4, CountedWithin DEF W
<1> QED
  BY <1>2, <1>5 DEF W

\* near is the recursion of Within.
Chain(near, cs, n, stop) ==
    near = [k \in 0 .. n |-> IF k = 0 THEN cs
                             ELSE near[k - 1] \cup UNION {Parents(c) : c \in near[k - 1] \ stop}]

LEMMA WithinChain ==
    ASSUME NEW cs, NEW n \in Nat, NEW stop, NEW near, Chain(near, cs, n, stop)
    PROVE  Within(cs, n, stop) = near[n]
<1> DEFINE other == CHOOSE f : f = [k \in 0 .. n |-> IF k = 0 THEN cs
                        ELSE f[k - 1] \cup UNION {Parents(c) : c \in f[k - 1] \ stop}]
<1>1. Within(cs, n, stop) = other[n]
  BY DEF Within
<1>2. Chain(other, cs, n, stop)
  BY DEF Chain
<1> HIDE DEF other
<1>3. /\ near[0] = cs /\ other[0] = cs
      /\ \A k \in 1 .. n :
            /\ near[k] = near[k - 1] \cup UNION {Parents(c) : c \in near[k - 1] \ stop}
            /\ other[k] = other[k - 1] \cup UNION {Parents(c) : c \in other[k - 1] \ stop}
  <2>1. \A k \in 0 .. n :
            /\ near[k] = IF k = 0 THEN cs
                 ELSE near[k - 1] \cup UNION {Parents(c) : c \in near[k - 1] \ stop}
            /\ other[k] = IF k = 0 THEN cs
                 ELSE other[k - 1] \cup UNION {Parents(c) : c \in other[k - 1] \ stop}
    BY <1>2 DEF Chain
  <2> DEFINE after(f, k) == f[k - 1] \cup UNION {Parents(c) : c \in f[k - 1] \ stop}
  <2>2. \A k \in 0 .. n : /\ near[k] = IF k = 0 THEN cs ELSE after(near, k)
                         /\ other[k] = IF k = 0 THEN cs ELSE after(other, k)
    BY <2>1
  <2> HIDE DEF after
  <2>3. /\ near[0] = cs /\ other[0] = cs
        /\ \A k \in 1 .. n : near[k] = after(near, k) /\ other[k] = after(other, k)
    BY <2>2
  <2> QED
    BY <2>3 DEF after
<1> DEFINE T == {k \in 0 .. n : near[k] # other[k]}
<1>4. CASE T # {}
  <2>1. PICK o \in T : \A p \in T : o <= p
    <3>1. T \in SUBSET Nat
      OBVIOUS
    <3> HIDE DEF T
    <3> QED
      BY <1>4, <3>1, Least
  <2>2. o \in 1 .. n
    BY <1>3
  <2>3. near[o - 1] = other[o - 1]
    <3>1. o - 1 \notin T /\ o - 1 \in 0 .. n
      BY <2>1, <2>2
    <3> QED
      BY <3>1
  <2> QED
    BY <1>3, <2>2, <2>3
<1> QED
  BY <1>1, <1>4

\* The commits of a walk by generations are those that are so near.
LEMMA GenerationsChain ==
    ASSUME NEW s, NEW first \in SUBSET Commits, NEW depth \in Nat \ {0},
           NEW g, g = Generations(s, first, depth), g.commits \subseteq s.objects
    PROVE  \E near : Chain(near, first, depth - 1, s.shallow) /\ near[depth - 1] = g.commits
<1> DEFINE n       == depth - 1
           open    == s.objects \ s.shallow
           walk    == Counted(first, n, open)
           near    == [k \in 0 .. n |-> {v[1] : v \in {w \in walk : w[2] >= n - k}}]
<1>1. g.commits = {v[1] : v \in walk}
  BY DEF Generations
<1>2. n \in Nat
  OBVIOUS
<1> HIDE DEF n
<1>3. /\ \A c \in first : <<c, n>> \in walk
      /\ walk \subseteq Commits \X (0 .. n)
      /\ \A c \in Commits : \A k \in 1 .. n : c \in open /\ <<c, k>> \in walk
            => \A p \in Parents(c) : <<p, k - 1>> \in walk
  BY <1>2, CountedFacts
<1>4. \A c, k : <<c, k>> \in walk =>
              \/ c \in first /\ k = n
              \/ \E b \in open : <<b, k + 1>> \in walk /\ c \in Parents(b)
  BY <1>2, CountedFrom
<1> HIDE DEF walk
<1>5. \A k \in 0 .. n : \A c : c \in near[k] <=> \E m \in (n - k) .. n : <<c, m>> \in walk
  <2> SUFFICES ASSUME NEW k \in 0 .. n, NEW c
               PROVE  c \in near[k] <=> \E m \in (n - k) .. n : <<c, m>> \in walk
    OBVIOUS
  <2>1. ASSUME c \in near[k] PROVE \E m \in (n - k) .. n : <<c, m>> \in walk
    <3>1. PICK w \in walk : w[2] >= n - k /\ c = w[1]
      BY <2>1
    <3>2. w[2] \in 0 .. n /\ w = <<w[1], w[2]>>
      BY <1>3
    <3> QED
      BY <1>2, <3>1, <3>2
  <2>2. ASSUME NEW m \in (n - k) .. n, <<c, m>> \in walk PROVE c \in near[k]
    <3>1. <<c, m>>[1] = c /\ <<c, m>>[2] = m /\ m >= n - k
      BY <1>2
    <3>2. <<c, m>> \in {w \in walk : w[2] >= n - k}
      BY <2>2, <3>1
    <3> QED
      BY <3>1, <3>2
  <2> QED
    BY <2>1, <2>2
<1>6. near[n] = g.commits
  <2>1. near[n] = {v[1] : v \in {w \in walk : w[2] >= n - n}}
    BY <1>2
  <2>2. \A w \in walk : w[2] >= n - n
    BY <1>2, <1>3
  <2> QED
    BY <1>1, <2>1, <2>2
<1> DEFINE step(k) == near[k - 1] \cup UNION {Parents(c) : c \in near[k - 1] \ s.shallow}
<1>7. near[0] = first
  <2>1. ASSUME NEW c, c \in near[0] PROVE c \in first
    <3>0. 0 \in 0 .. n /\ n - 0 = n
      BY <1>2
    <3>3. PICK m \in (n - 0) .. n : <<c, m>> \in walk
      BY <1>5, <2>1, <3>0
    <3>1. <<c, n>> \in walk
      BY <1>2, <3>0, <3>3
    <3>2. ~\E b \in open : <<b, n + 1>> \in walk /\ c \in Parents(b)
      <4>1. \A b : <<b, n + 1>> \notin walk
        BY <1>2, <1>3
      <4> QED
        BY <4>1
    <3> QED
      BY <1>4, <3>1, <3>2
  <2>2. ASSUME NEW c \in first PROVE c \in near[0]
    <3>1. 0 \in 0 .. n /\ n \in (n - 0) .. n
      BY <1>2
    <3>2. <<c, n>> \in walk
      BY <1>3
    <3> QED
      BY <1>5, <3>1, <3>2
  <2> QED
    BY <2>1, <2>2
<1>8. ASSUME NEW k \in 1 .. n PROVE near[k] = step(k)
  <2>0. k - 1 \in 0 .. n /\ k \in 0 .. n /\ n - (k - 1) = (n - k) + 1
    BY <1>2
  <2>1. ASSUME NEW c, c \in near[k] PROVE c \in step(k)
    <3>1. PICK m \in (n - k) .. n : <<c, m>> \in walk
      BY <1>5, <2>0, <2>1
    <3>2. CASE m # n - k
      <4>1. m \in (n - (k - 1)) .. n
        BY <1>2, <2>0, <3>2
      <4>2. c \in near[k - 1]
        BY <1>5, <2>0, <3>1, <4>1
      <4> QED
        BY <4>2
    <3>3. CASE m = n - k
      <4>1. m # n
        BY <1>2, <3>3
      <4>2. PICK b \in open : <<b, m + 1>> \in walk /\ c \in Parents(b)
        BY <1>4, <3>1, <4>1
      <4>3. m + 1 \in (n - (k - 1)) .. n
        BY <1>2, <2>0, <3>3
      <4>4. b \in near[k - 1]
        BY <1>5, <2>0, <4>2, <4>3
      <4> HIDE DEF near
      <4> QED
        BY <4>2, <4>4
    <3> QED
      BY <3>2, <3>3
  <2>2. ASSUME NEW c \in near[k - 1] PROVE c \in near[k]
    <3>1. PICK m \in (n - (k - 1)) .. n : <<c, m>> \in walk
      BY <1>5, <2>0
    <3>2. m \in (n - k) .. n
      BY <1>2, <2>0
    <3> QED
      BY <1>5, <2>0, <3>1, <3>2
  <2>3. ASSUME NEW b \in near[k - 1], b \notin s.shallow, NEW c \in Parents(b) PROVE c \in near[k]
    <3>1. PICK m \in (n - (k - 1)) .. n : <<b, m>> \in walk
      BY <1>5, <2>0
    <3>2. m \in 1 .. n /\ m - 1 \in (n - k) .. n
      BY <1>2, <2>0
    <3>3. b \in Commits
      BY <1>3, <3>1
    <3>4. b \in open
      <4>1. <<b, m>>[1] = b
        OBVIOUS
      <4>2. b \in g.commits
        BY <1>1, <3>1, <4>1
      <4> QED
        BY <2>3, <4>2
    <3>5. <<c, m - 1>> \in walk
      BY <1>3, <2>3, <3>1, <3>2, <3>3, <3>4
    <3> QED
      BY <1>5, <2>0, <3>2, <3>5
  <2> HIDE DEF near
  <2> QED
    BY <2>1, <2>2, <2>3
<1>9. near = [k \in 0 .. n |-> IF k = 0 THEN first ELSE step(k)]
  <2>1. near = [k \in 0 .. n |-> near[k]]
    OBVIOUS
  <2>2. \A k \in 0 .. n : k = 0 \/ k \in 1 .. n
    BY <1>2
  <2> HIDE DEF near
  <2>3. \A k \in 0 .. n : near[k] = IF k = 0 THEN first ELSE step(k)
    BY <1>7, <1>8, <2>2
  <2> HIDE DEF step
  <2> QED
    BY <2>1, <2>3
<1>10. Chain(near, first, n, s.shallow)
  <2> HIDE DEF near
  <2> QED
    BY <1>9 DEF Chain
<1> QED
  BY <1>6, <1>10 DEF n

\* One generation before the first of a chain.
LEMMA ChainBefore ==
    ASSUME NEW cs, NEW n \in Nat \ {0}, NEW stop, NEW near,
           Chain(near, UNION {Parents(c) : c \in cs \ stop}, n - 1, stop)
    PROVE  Within(cs, n, stop) = cs \cup near[n - 1]
<1> DEFINE first == UNION {Parents(c) : c \in cs \ stop}
           more  == [k \in 0 .. n |-> IF k = 0 THEN cs ELSE cs \cup near[k - 1]]
           step(k) == more[k - 1] \cup UNION {Parents(c) : c \in more[k - 1] \ stop}
<1>1. \A k \in 0 .. n - 1 : near[k] = IF k = 0 THEN first
                 ELSE near[k - 1] \cup UNION {Parents(c) : c \in near[k - 1] \ stop}
  BY DEF Chain
<1>2. /\ near[0] = first
      /\ \A k \in 1 .. n - 1 :
            near[k] = near[k - 1] \cup UNION {Parents(c) : c \in near[k - 1] \ stop}
  <2> DEFINE after(k) == near[k - 1] \cup UNION {Parents(c) : c \in near[k - 1] \ stop}
  <2>1. \A k \in 0 .. n - 1 : near[k] = IF k = 0 THEN first ELSE after(k)
    BY <1>1
  <2> HIDE DEF after, first
  <2>2. near[0] = first /\ \A k \in 1 .. n - 1 : near[k] = after(k)
    BY <2>1
  <2> QED
    BY <2>2 DEF after
<1>3. \A k \in 0 .. n - 1 : first \subseteq near[k]
  <2> DEFINE T == {k \in 0 .. n - 1 : ~(first \subseteq near[k])}
  <2>1. CASE T # {}
    <3>1. PICK o \in T : \A p \in T : o <= p
      <4>1. T \in SUBSET Nat
        OBVIOUS
      <4> HIDE DEF T
      <4> QED
        BY <2>1, <4>1, Least
    <3>2. o \in 1 .. n - 1
      BY <1>2
    <3>3. o - 1 \notin T /\ o - 1 \in 0 .. n - 1
      BY <3>1, <3>2
    <3> HIDE DEF first
    <3> QED
      BY <1>2, <3>2, <3>3
  <2> QED
    BY <2>1
<1>4. more[0] = cs /\ \A k \in 1 .. n : more[k] = cs \cup near[k - 1]
  OBVIOUS
<1>5. ASSUME NEW k \in 1 .. n PROVE more[k] = step(k)
  <2>1. CASE k = 1
    BY <1>2, <1>4, <2>1
  <2>2. CASE k # 1
    <3>1. k - 1 \in 1 .. n /\ k - 1 \in 1 .. n - 1 /\ k - 2 \in 0 .. n - 1 /\ (k - 1) - 1 = k - 2
      BY <2>2
    <3>2. more[k - 1] = cs \cup near[k - 2]
      BY <1>4, <3>1
    <3>3. near[k - 1] = near[k - 2] \cup UNION {Parents(c) : c \in near[k - 2] \ stop}
      BY <1>2, <3>1
    <3>4. first \subseteq near[k - 2]
      BY <1>3, <3>1
    <3>5. more[k] = cs \cup near[k - 1]
      BY <1>4
    <3> HIDE DEF more
    <3>6. UNION {Parents(c) : c \in more[k - 1] \ stop}
             = first \cup UNION {Parents(c) : c \in near[k - 2] \ stop}
      BY <3>2
    <3> QED
      BY <3>2, <3>3, <3>4, <3>5, <3>6
  <2> QED
    BY <2>1, <2>2
<1>6. more = [k \in 0 .. n |-> IF k = 0 THEN cs ELSE step(k)]
  <2>1. more = [k \in 0 .. n |-> more[k]]
    OBVIOUS
  <2>2. \A k \in 0 .. n : k = 0 \/ k \in 1 .. n
    OBVIOUS
  <2> HIDE DEF more
  <2>3. \A k \in 0 .. n : more[k] = IF k = 0 THEN cs ELSE step(k)
    BY <1>4, <1>5, <2>2
  <2> HIDE DEF step
  <2> QED
    BY <2>1, <2>3
<1>7. n \in 1 .. n
  OBVIOUS
<1>8. more[n] = cs \cup near[n - 1]
  BY <1>4, <1>7
<1> HIDE DEF more
<1>9. Chain(more, cs, n, stop)
  BY <1>6 DEF Chain
<1> QED
  BY <1>8, <1>9, WithinChain

\* The commits that are seen from others down to a boundary.
Visible(tips, stop) == Below(tips, stop) \cap Commits

\* Objects from which no commit is seen.
Plain == Trees \cup Of("blob", Object)

LEMMA PlainFacts ==
    /\ Plain \subseteq Object /\ Plain \cap Commits = {}
    /\ \A o \in Plain : Links[o] \subseteq Plain
    /\ \A c \in Commits : c \in Object /\ Parents(c) \subseteq Commits /\ Content[c].tree \in Plain
<1>1. \A o \in Plain : Content[o].kind \in {"tree", "blob"} /\ o \in Object
  BY DEF Plain, Trees, Of
<1> QED
  BY <1>1, ObjectFacts DEF Plain, Trees, Commits, Of

LEMMA VisibleFacts ==
    ASSUME NEW tips \in SUBSET Commits, NEW stop
    PROVE  /\ tips \subseteq Visible(tips, stop) /\ Visible(tips, stop) \subseteq Commits
           /\ \A c \in Visible(tips, stop) : c \notin stop => Parents(c) \subseteq Visible(tips, stop)
<1>1. tips \in SUBSET Object
  BY PlainFacts
<1>2. /\ tips \subseteq Below(tips, stop)
      /\ \A x \in Below(tips, stop) : Onward(x, stop) \subseteq Below(tips, stop)
  BY <1>1, BelowFacts
<1>3. ASSUME NEW c \in Visible(tips, stop), c \notin stop PROVE Parents(c) \subseteq Visible(tips, stop)
  <2>1. c \in Commits /\ c \in Object /\ c \in Below(tips, stop)
    BY PlainFacts DEF Visible
  <2>2. Onward(c, stop) = Links[c] /\ Links[c] = Parents(c) \cup {Content[c].tree}
    BY <1>3, <2>1, OnwardFacts, ObjectFacts
  <2>3. Parents(c) \subseteq Commits
    BY <2>1, ObjectFacts
  <2> QED
    BY <1>2, <2>1, <2>2, <2>3 DEF Visible
<1> QED
  BY <1>2, <1>3 DEF Visible

LEMMA VisibleWithin ==
    ASSUME NEW tips \in SUBSET Commits, NEW stop, NEW S, tips \subseteq S,
           \A c \in Commits : c \in S /\ c \notin stop => Parents(c) \subseteq S
    PROVE  Visible(tips, stop) \subseteq S
<1> DEFINE T == (S \cap Commits) \cup Plain
<1>1. tips \in SUBSET Object /\ tips \subseteq T
  BY PlainFacts
<1>2. ASSUME NEW x \in Object, x \in T PROVE Onward(x, stop) \subseteq T
  <2>1. CASE x \in Plain
    <3>1. Links[x] \subseteq T
      BY <2>1, PlainFacts
    <3> HIDE DEF T
    <3> QED
      BY <3>1, OnwardFacts
  <2>2. CASE x \in Commits /\ x \in S
    <3>1. Content[x].tree \in T /\ (x \notin stop => Parents(x) \subseteq T)
      BY <2>2, PlainFacts
    <3> HIDE DEF T
    <3>2. x \in stop => Onward(x, stop) = {Content[x].tree}
      BY <2>2, OnwardFacts
    <3>3. Onward(x, stop) \subseteq Parents(x) \cup {Content[x].tree}
      BY <2>2, OnwardFacts
    <3> QED
      BY <3>1, <3>2, <3>3
  <2> QED
    BY <1>2, <2>1, <2>2
<1> HIDE DEF T
<1>3. \A x \in Object : x \in T => Onward(x, stop) \subseteq T
  BY <1>2
<1>4. Below(tips, stop) \subseteq T
  BY <1>1, <1>3, BelowWithin
<1> QED
  BY <1>4, PlainFacts DEF Visible, T

\* Tags lead to what they name, so commits are seen from the wants as from what these peel to.
LEMMA VisiblePeeled ==
    ASSUME NEW wants \in SUBSET Object, NEW stop \in SUBSET Commits
    PROVE  Below(wants, stop) \cap Commits = Visible(Peeled(wants) \cap Commits, stop)
<1> DEFINE tips == Peeled(wants) \cap Commits
           B    == Below(wants, stop)
           V    == Below(tips, stop)
<1>1. /\ wants \subseteq TagsOf(wants) \cup Peeled(wants)
      /\ TagsOf(wants) \subseteq Object /\ Peeled(wants) \subseteq Object
      /\ \A x \in TagsOf(wants) : x \notin Commits /\ Links[x] \subseteq TagsOf(wants) \cup Peeled(wants)
  BY NamedFacts
<1>2. tips \in SUBSET Object
  BY <1>1
<1>3. \A x \in Peeled(wants) : x \in Commits \/ x \in Plain
  <2>1. \A x \in Peeled(wants) : x \in Object /\ Content[x].kind # "tag"
    BY <1>1 DEF Peeled, TagsOf, Of
  <2> QED
    BY <2>1, ObjectFacts DEF Commits, Plain, Trees, Of
<1>4. B \subseteq V \cup TagsOf(wants) \cup Plain
  <2> DEFINE S == V \cup TagsOf(wants) \cup Plain
  <2>1. tips \subseteq V /\ V \subseteq Object /\ \A x \in V : Onward(x, stop) \subseteq V
    BY <1>2, BelowFacts
  <2>2. wants \subseteq S
    BY <1>1, <1>3, <2>1
  <2> HIDE DEF V
  <2>3. ASSUME NEW x \in Object, x \in S PROVE Onward(x, stop) \subseteq S
    <3>1. CASE x \in V
      BY <2>1, <3>1
    <3>2. CASE x \in TagsOf(wants)
      <4>1. Links[x] \subseteq S
        BY <1>1, <1>3, <2>1, <3>2
      <4> HIDE DEF S
      <4> QED
        BY <4>1, OnwardFacts
    <3>3. CASE x \in Plain
      <4>1. Links[x] \subseteq S
        BY <3>3, PlainFacts
      <4> HIDE DEF S
      <4> QED
        BY <4>1, OnwardFacts
    <3> QED
      BY <2>3, <3>1, <3>2, <3>3
  <2> HIDE DEF S
  <2>4. \A x \in Object : x \in S => Onward(x, stop) \subseteq S
    BY <2>3
  <2>5. B \subseteq S
    BY <2>2, <2>4, BelowWithin
  <2> QED
    BY <2>5 DEF S
<1>5. V \subseteq B
  <2>1. wants \subseteq B /\ \A x \in B : Onward(x, stop) \subseteq B
    BY BelowFacts
  <2> HIDE DEF B
  <2>2. Named(wants) \subseteq B
    <3> DEFINE next == [o \in Object |-> IF Content[o].kind = "tag" THEN Links[o] ELSE {}]
    <3>1. /\ next \in [Object -> SUBSET Object]
          /\ \A o \in Object : next[o] \subseteq Links[o]
      BY ObjectFacts
    <3>2. \A x \in Object : x \in B => next[x] \subseteq B
      <4> SUFFICES ASSUME NEW x \in Object, x \in B, Content[x].kind = "tag"
                   PROVE  Links[x] \subseteq B
        OBVIOUS
      <4>1. x \notin Commits
        BY DEF Commits, Of
      <4> QED
        BY <2>1, <4>1, OnwardFacts
    <3>3. Named(wants) = Reach(wants, next)
      BY DEF Named
    <3> HIDE DEF next
    <3>4. \A S : wants \subseteq S /\ (\A p \in Object : p \in S => next[p] \subseteq S)
                     => Reach(wants, next) \subseteq S
      BY <3>1, Follow
    <3> QED
      BY <2>1, <3>2, <3>3, <3>4
  <2>3. tips \subseteq B
    BY <2>2 DEF Peeled
  <2> HIDE DEF tips
  <2> QED
    BY <1>2, <2>1, <2>3, BelowWithin
<1>6. \A x \in TagsOf(wants) \cup Plain : x \notin Commits
  BY <1>1, PlainFacts
<1> HIDE DEF B, V, tips
<1> QED
  BY <1>4, <1>5, <1>6 DEF Visible, B, V, tips

\* What a walk by generations must reach at the least, and what it reaches at the most.
LEMMA GenerationsLeast ==
    ASSUME NEW s, NEW first \in SUBSET Commits, NEW depth \in Nat \ {0},
           NEW g, g = Generations(s, first, depth), g.commits \subseteq s.objects,
           NEW S, first \subseteq S,
           \A c \in g.commits : c \notin g.boundaries /\ c \in S => Parents(c) \subseteq S
    PROVE  g.commits \subseteq S
<1> DEFINE n       == depth - 1
           open    == s.objects \ s.shallow
           walk    == Counted(first, n, open)
           commits == {v[1] : v \in walk}
           last    == commits \ {v[1] : v \in {w \in walk : w[2] > 0}}
           T       == {v \in walk : v[1] \in S}
<1>1. /\ g.commits = commits
      /\ g.boundaries = (commits \cap s.shallow) \cup {c \in last : Parents(c) # {}}
  BY DEF Generations
<1>2. n \in Nat
  OBVIOUS
<1> HIDE DEF n
<1>3. /\ \A c \in first : <<c, n>> \in walk
      /\ walk \subseteq Commits \X (0 .. n)
      /\ \A c \in Commits : \A k \in 1 .. n : c \in open /\ <<c, k>> \in walk
            => \A p \in Parents(c) : <<p, k - 1>> \in walk
  BY <1>2, CountedFacts
<1> HIDE DEF walk
<1>4. \A c, k : <<c, k>> \in T <=> <<c, k>> \in walk /\ c \in S
  <2> SUFFICES ASSUME NEW c, NEW k PROVE <<c, k>> \in T <=> <<c, k>> \in walk /\ c \in S
    OBVIOUS
  <2>1. <<c, k>>[1] = c
    OBVIOUS
  <2> QED
    BY <2>1
<1>5. \A c \in first : <<c, n>> \in T
  BY <1>3, <1>4
<1>6. ASSUME NEW c \in Commits, NEW k \in 1 .. n, c \in open, <<c, k>> \in T, NEW p \in Parents(c)
      PROVE  <<p, k - 1>> \in T
  <2>1. <<c, k>> \in walk /\ c \in S
    BY <1>4, <1>6
  <2>2. <<c, k>>[1] = c /\ <<c, k>>[2] = k /\ k > 0
    BY <1>2
  <2>3. c \in commits /\ c \notin last
    BY <2>1, <2>2
  <2>4. Parents(c) \subseteq S
    BY <1>1, <1>6, <2>1, <2>3
  <2>5. <<p, k - 1>> \in walk
    BY <1>3, <1>6, <2>1
  <2> QED
    BY <1>4, <1>6, <2>4, <2>5
<1> HIDE DEF T
<1>7. walk \subseteq T
  BY <1>2, <1>5, <1>6, CountedWithin DEF walk
<1> QED
  BY <1>1, <1>7 DEF T

\* The boundary to come, of a client with the boundary shallow.
LevelBoundary(s, wants, depth, shallow) ==
    LET a == ObjectsAtDepth(s, wants, depth)
    IN  (shallow \ ((shallow \ a.boundaries) \cap a.objects)) \cup a.boundaries

RelativeBoundary(s, wants, depth, shallow) ==
    LET a == DeepenRelative(s, wants, shallow, depth)
    IN  (shallow \ a.unshallow) \cup a.boundaries

\* To a depth: what is seen down to the boundary to come are the commits that are so near.
LEMMA DepthSeen ==
    ASSUME NEW s, NEW wants \in SUBSET Object, NEW depth \in Nat \ {0},
           NEW shallow \in SUBSET Commits, ~ObjectsAtDepth(s, wants, depth).fails,
           NEW N, N = LevelBoundary(s, wants, depth, shallow)
    PROVE  Visible(Peeled(wants) \cap Commits, N)
              = Within(Peeled(wants) \cap Commits, depth - 1, s.shallow)
<1> DEFINE a     == ObjectsAtDepth(s, wants, depth)
           first == Peeled(wants) \cap Commits
           g     == Generations(s, first, depth)
           V     == Visible(first, N)
<1>0. N = (shallow \ ((shallow \ a.boundaries) \cap a.objects)) \cup a.boundaries
  BY DEF LevelBoundary
<1>1. /\ g.commits \subseteq a.objects /\ a.boundaries = g.boundaries
      /\ g.commits \subseteq s.objects
  BY DEF ObjectsAtDepth
<1> HIDE DEF a
<1>2. first \in SUBSET Commits
  OBVIOUS
<1> HIDE DEF first
<1>3. /\ first \subseteq g.commits /\ g.commits \subseteq Commits
      /\ g.boundaries \subseteq g.commits
      /\ \A c \in g.commits \ g.boundaries : Parents(c) \subseteq g.commits
  <2> HIDE DEF g
  <2> QED
    BY <1>1, <1>2, GenerationsFacts DEF g
<1>4. PICK near : Chain(near, first, depth - 1, s.shallow) /\ near[depth - 1] = g.commits
  <2> HIDE DEF g
  <2> QED
    BY <1>1, <1>2, GenerationsChain DEF g
<1>5. Within(first, depth - 1, s.shallow) = g.commits
  <2> DEFINE n == depth - 1
  <2>1. n \in Nat
    OBVIOUS
  <2> HIDE DEF n, g
  <2>2. Chain(near, first, n, s.shallow) /\ near[n] = g.commits
    BY <1>4 DEF n
  <2>3. Within(first, n, s.shallow) = near[n]
    BY <2>1, <2>2, WithinChain
  <2> QED
    BY <2>2, <2>3 DEF n
<1>6. V \subseteq g.commits
  <2>1. \A c \in Commits : c \in g.commits /\ c \notin N => Parents(c) \subseteq g.commits
    BY <1>0, <1>1, <1>3
  <2> HIDE DEF g
  <2> QED
    BY <1>2, <1>3, <2>1, VisibleWithin
<1>7. g.commits \subseteq V
  <2>1. /\ first \subseteq V
        /\ \A c \in V : c \notin N => Parents(c) \subseteq V
    BY <1>2, VisibleFacts
  <2>2. \A c \in g.commits : c \notin g.boundaries => c \notin N
    BY <1>0, <1>1
  <2>3. \A c \in g.commits : c \notin g.boundaries /\ c \in V => Parents(c) \subseteq V
    BY <2>1, <2>2
  <2> HIDE DEF g, V
  <2> QED
    BY <1>1, <1>2, <2>1, <2>3, GenerationsLeast DEF g
<1> QED
  BY <1>5, <1>6, <1>7 DEF first

\* Who is behind whom, over all links.
LEMMA Behind ==
    /\ \A d \in Object : d \in Below({d}, {}) /\ Below({d}, {}) \subseteq Object
    /\ \A d \in Object : \A c \in Below({d}, {}) : c <= d
    /\ \A d \in Object : \A x \in Below({d}, {}) : Below({x}, {}) \subseteq Below({d}, {})
    /\ \A c \in Commits : \A p \in Parents(c) : p \in Below({c}, {}) /\ p < c
<1>1. ASSUME NEW d \in Object
      PROVE  /\ d \in Below({d}, {}) /\ Below({d}, {}) \subseteq Object
             /\ \A x \in Below({d}, {}) : Links[x] \subseteq Below({d}, {})
             /\ \A S : d \in S /\ (\A p \in Object : p \in S => Links[p] \subseteq S)
                       => Below({d}, {}) \subseteq S
  <2> DEFINE os == {d}
             no == {}
  <2>1. os \in SUBSET Object /\ d \in os /\ no \in SUBSET Commits /\ \A x \in Object : x \notin no
    OBVIOUS
  <2>2. \A S : d \in S => os \subseteq S
    OBVIOUS
  <2> HIDE DEF os, no
  <2>3. /\ os \subseteq Below(os, no) /\ Below(os, no) \subseteq Object
        /\ \A x \in Below(os, no) : Onward(x, no) \subseteq Below(os, no)
        /\ \A S : os \subseteq S /\ (\A p \in Object : p \in S => Onward(p, no) \subseteq S)
                     => Below(os, no) \subseteq S
    BY <2>1, BelowFacts
  <2>4. \A x \in Object : Onward(x, no) = Links[x]
    BY <2>1, OnwardFacts
  <2>5. /\ d \in Below(os, no) /\ Below(os, no) \subseteq Object
        /\ \A x \in Below(os, no) : Links[x] \subseteq Below(os, no)
        /\ \A S : d \in S /\ (\A p \in Object : p \in S => Links[p] \subseteq S)
                     => Below(os, no) \subseteq S
    BY ONLY <2>1, <2>2, <2>3, <2>4
  <2> QED
    BY <2>5 DEF os, no
<1>2. ASSUME NEW d \in Object, NEW c \in Below({d}, {}) PROVE c <= d
  <2> DEFINE S == {o \in Object : o <= d}
  <2>1. d \in S /\ \A p \in Object : p \in S => Links[p] \subseteq S
    <3>1. d \in S
      BY ObjectFacts
    <3>2. ASSUME NEW p \in Object, p <= d, NEW q \in Links[p] PROVE q \in Object /\ q <= d
      <4>1. q \in Object /\ q < p
        BY ObjectFacts
      <4>2. q \in Nat /\ p \in Nat /\ d \in Nat
        BY <4>1, ObjectFacts
      <4> QED
        BY <3>2, <4>1, <4>2
    <3> QED
      BY <3>1, <3>2
  <2> HIDE DEF S
  <2>2. Below({d}, {}) \subseteq S
    BY <1>1, <2>1
  <2> QED
    BY <2>2 DEF S
<1>3. ASSUME NEW d \in Object, NEW x \in Below({d}, {})
      PROVE  Below({x}, {}) \subseteq Below({d}, {})
  <2> DEFINE S == Below({d}, {})
  <2>1. x \in Object /\ x \in S /\ \A p \in Object : p \in S => Links[p] \subseteq S
    BY <1>1
  <2> HIDE DEF S
  <2>2. Below({x}, {}) \subseteq S
    BY <1>1, <2>1
  <2> QED
    BY <2>2 DEF S
<1>4. ASSUME NEW c \in Commits, NEW p \in Parents(c) PROVE p \in Below({c}, {}) /\ p < c
  <2>1. c \in Object /\ p \in Links[c]
    BY <1>4, ObjectFacts
  <2>2. c \in Below({c}, {}) /\ \A x \in Below({c}, {}) : Links[x] \subseteq Below({c}, {})
    BY <1>1, <2>1
  <2> QED
    BY <2>1, <2>2, ObjectFacts
<1> QED
  BY <1>1, <1>2, <1>3, <1>4

From(wants, stop) == Visible(Peeled(wants) \cap Commits, stop)

\* The commits that are so near behind a boundary.
Nearer(s, wants, depth, shallow) == Within(From(wants, shallow) \cap shallow, depth, s.shallow)

\* After a deepening: what is seen was seen before or is so near behind a boundary; all of
\* this is seen where no boundary lies behind another.
LEMMA RelativeSeen ==
    ASSUME NEW s, NEW wants \in SUBSET Object, NEW depth \in Nat \ {0},
           NEW shallow \in SUBSET Commits, ~DeepenRelative(s, wants, shallow, depth).fails,
           NEW N, N = RelativeBoundary(s, wants, depth, shallow)
    PROVE  /\ From(wants, N) \subseteq From(wants, shallow) \cup Nearer(s, wants, depth, shallow)
           /\ Apart(shallow) => Nearer(s, wants, depth, shallow) \subseteq From(wants, N)
<1> DEFINE a       == DeepenRelative(s, wants, shallow, depth)
           tips    == Peeled(wants) \cap Commits
           near    == Below(wants, shallow)
           reached == shallow \cap near
           cut     == reached \ s.shallow
           first   == UNION {Parents(c) : c \in cut}
           g       == Generations(s, first, depth)
           Saw     == Visible(tips, shallow)
           Sees    == Visible(tips, N)
           opened  == Within(Saw \cap shallow, depth, s.shallow)
<1>0. tips \in SUBSET Commits
  OBVIOUS
<1>1. /\ a.boundaries = (reached \cap s.shallow) \cup g.boundaries
      /\ a.unshallow = cut /\ g.commits \subseteq s.objects
  BY DEF DeepenRelative
<1>01. N = (shallow \ a.unshallow) \cup a.boundaries
  BY DEF RelativeBoundary
<1> HIDE DEF a, opened
<1>2. near \cap Commits = Saw
  BY VisiblePeeled
<1>3. reached = Saw \cap shallow
  BY <1>2
<1> HIDE DEF near
<1>4. first \in SUBSET Commits
  <2>1. \A c \in cut : Parents(c) \subseteq Commits
    BY PlainFacts
  <2> QED
    BY <2>1
<1>5. /\ first \subseteq g.commits /\ g.commits \subseteq Commits
      /\ g.boundaries \subseteq g.commits
      /\ \A c \in g.commits \ g.boundaries : Parents(c) \subseteq g.commits
  <2> HIDE DEF g, first
  <2> QED
    BY <1>1, <1>4, GenerationsFacts DEF g
<1>6. opened = reached \cup g.commits
  <2> DEFINE n == depth - 1
  <2>1. PICK up : Chain(up, first, depth - 1, s.shallow) /\ up[depth - 1] = g.commits
    <3> HIDE DEF g, first
    <3> QED
      BY <1>1, <1>4, GenerationsChain DEF g
  <2> HIDE DEF g
  <2>2. Chain(up, UNION {Parents(c) : c \in reached \ s.shallow}, depth - 1, s.shallow)
    BY <2>1
  <2> HIDE DEF reached
  <2>3. Within(reached, depth, s.shallow) = reached \cup up[depth - 1]
    BY <2>2, ChainBefore
  <2> QED
    BY <1>3, <2>1, <2>3 DEF opened
<1> HIDE DEF reached, g
<1>7. /\ tips \subseteq Saw /\ Saw \subseteq Commits
      /\ \A c \in Saw : c \notin shallow => Parents(c) \subseteq Saw
  <2> QED
    BY ONLY <1>0, VisibleFacts DEF Saw
<1>8. /\ tips \subseteq Sees /\ Sees \subseteq Commits
      /\ \A c \in Sees : c \notin N => Parents(c) \subseteq Sees
  <2> QED
    BY ONLY <1>0, VisibleFacts DEF Sees
<1>9. N = (shallow \ cut) \cup (reached \cap s.shallow) \cup g.boundaries
  BY <1>01, <1>1
<1>10. \A c \in cut : Parents(c) \subseteq first
  OBVIOUS
<1>11. Sees \subseteq Saw \cup opened
  <2> DEFINE S == Saw \cup g.commits
  <2>1. ASSUME NEW c \in Commits, c \in S, c \notin N PROVE Parents(c) \subseteq S
    <3>1. CASE c \in g.commits
      BY <1>5, <1>9, <2>1, <3>1
    <3>2. CASE c \in Saw /\ c \notin shallow
      BY <1>7, <3>2
    <3>3. CASE c \in Saw /\ c \in shallow
      <4>1. c \in cut
        BY <1>9, <2>1, <3>3
      <4> QED
        BY <1>5, <1>10, <4>1
    <3> QED
      BY <2>1, <3>1, <3>2, <3>3
  <2>2. tips \subseteq S /\ tips \in SUBSET Commits
    BY <1>7
  <2> HIDE DEF S
  <2>3. Sees \subseteq S
    BY <2>1, <2>2, VisibleWithin
  <2> QED
    BY <1>6, <2>3 DEF S
<1>12. ASSUME Apart(shallow)
       PROVE  opened \subseteq Sees
  <2>1. \A x \in g.commits : \E d \in shallow : x \in Below({d}, {}) /\ x < d
    <3> DEFINE S == {x \in Commits : \E d \in shallow : x \in Below({d}, {}) /\ x < d}
    <3>1. first \subseteq S
      <4>1. \A c \in cut : c \in shallow /\ c \in Commits
        BY <1>3
      <4>2. ASSUME NEW c \in cut, NEW p \in Parents(c) PROVE p \in S
        BY <4>1, Behind, PlainFacts
      <4> HIDE DEF S, cut
      <4> QED
        BY <4>2
    <3>2. ASSUME NEW c \in g.commits, c \in S PROVE Parents(c) \subseteq S
      <4> SUFFICES ASSUME NEW p \in Parents(c) PROVE p \in S
        OBVIOUS
      <4>1. PICK d \in shallow : c \in Below({d}, {}) /\ c < d
        BY <3>2
      <4>2. p \in Below({c}, {}) /\ p < c /\ c \in Commits /\ p \in Commits
        BY <1>5, <3>2, Behind, PlainFacts
      <4>3. d \in Object /\ c \in Nat /\ p \in Nat /\ d \in Nat
        BY <4>2, ObjectFacts, PlainFacts
      <4>4. p \in Below({d}, {})
        BY <4>1, <4>2, <4>3, Behind
      <4>5. p < d
        BY <4>1, <4>2, <4>3
      <4> QED
        BY <4>2, <4>4, <4>5
    <3> HIDE DEF S, first
    <3>3. g.commits \subseteq S
      BY <1>1, <1>4, <3>1, <3>2, GenerationsLeast DEF g
    <3> QED
      BY <3>3 DEF S
  <2>2. \A x \in g.commits : \A c \in shallow : c \notin Below({x}, {})
    <3> SUFFICES ASSUME NEW x \in g.commits, NEW c \in shallow, c \in Below({x}, {}) PROVE FALSE
      OBVIOUS
    <3>1. PICK d \in shallow : x \in Below({d}, {}) /\ x < d
      BY <2>1
    <3>2. d \in Object /\ x \in Object /\ c \in Object /\ d \in Nat /\ x \in Nat /\ c \in Nat
      BY <1>5, ObjectFacts, PlainFacts
    <3>3. c \in Below({d}, {}) /\ c <= x
      BY <3>1, <3>2, Behind
    <3>4. c = d
      BY <1>12, <3>3 DEF Apart
    <3> QED
      BY <3>1, <3>2, <3>3, <3>4
  <2>3. \A x \in g.commits : x \notin shallow
    <3>1. \A x \in g.commits : x \in Below({x}, {})
      BY <1>5, Behind, PlainFacts
    <3> QED
      BY <2>2, <3>1
  <2>4. reached \subseteq Sees
    <3> SUFFICES ASSUME NEW c \in reached PROVE c \in Sees
      OBVIOUS
    <3>1. c \in shallow /\ c \in Saw /\ c \in Object
      BY <1>3, PlainFacts
    <3> DEFINE S == {x \in Commits : c \in Below({x}, {}) => x \in Sees}
    <3>2. tips \subseteq S /\ tips \in SUBSET Commits
      BY <1>8
    <3>3. ASSUME NEW x \in Commits, x \in S, x \notin shallow PROVE Parents(x) \subseteq S
      <4> SUFFICES ASSUME NEW p \in Parents(x), c \in Below({p}, {}) PROVE p \in Sees
        BY PlainFacts
      <4>1. x \in Object /\ p \in Below({x}, {})
        BY Behind, PlainFacts
      <4>2. c \in Below({x}, {})
        BY <4>1, Behind
      <4>3. x \in Sees
        BY <3>3, <4>2
      <4>4. x \notin N
        <5>1. x \notin g.commits
          BY <2>2, <3>1, <4>2
        <5> QED
          BY <1>3, <1>5, <1>9, <3>3, <5>1
      <4> QED
        BY <1>8, <4>3, <4>4
    <3> HIDE DEF S
    <3>4. Saw \subseteq S
      BY <3>2, <3>3, VisibleWithin
    <3> QED
      BY <3>1, <3>4, Behind DEF S
  <2>5. g.commits \subseteq Sees
    <3>1. first \subseteq Sees
      <4> SUFFICES ASSUME NEW c \in cut PROVE Parents(c) \subseteq Sees
        OBVIOUS
      <4>1. c \in reached /\ c \in shallow /\ c \notin s.shallow
        BY <1>3
      <4>2. c \notin N
        BY <1>5, <1>9, <2>3, <4>1
      <4> QED
        BY <1>8, <2>4, <4>1, <4>2
    <3>2. ASSUME NEW c \in g.commits, c \notin g.boundaries, c \in Sees PROVE Parents(c) \subseteq Sees
      <4>1. c \notin N
        BY <1>3, <1>9, <2>3, <3>2
      <4> QED
        BY <1>8, <3>2, <4>1
    <3> HIDE DEF first, Sees
    <3> QED
      BY <1>1, <1>4, <3>1, <3>2, GenerationsLeast DEF g
  <2> QED
    BY <1>6, <2>4, <2>5
<1>13. From(wants, N) = Sees /\ From(wants, shallow) = Saw /\ Nearer(s, wants, depth, shallow) = opened
  BY DEF From, Nearer, opened
<1> HIDE DEF Sees, Saw
<1> QED
  BY <1>11, <1>12, <1>13

\* So it is with an answer.
LEMMA AnswerSeen ==
    ASSUME NEW s, NEW q, q.wants \in SUBSET Object, q.shallow \in SUBSET Commits,
           q.depth \in Nat \ {0}, q.depth # None,
           NEW a, a = Respond(s, q), a.ok,
           NEW N, N = (q.shallow \ a.unshallow) \cup a.shallow
    PROVE  Met(q, s.shallow, N)
<1> DEFINE common == ReachableCommits(s, q.haves, q.shallow \cup s.shallow)
           r      == Selected(s, q, common)
           tags   == IF q.tags THEN ReachableTags(s, r.objects) ELSE {}
           tips   == Peeled(q.wants) \cap Commits
<1>1. /\ ~r.fails
      /\ a = [ok |-> TRUE, pack |-> (r.objects \cup tags) \ common.commits,
              shallow |-> r.boundaries, unshallow |-> r.unshallow]
  BY DEF Respond, Refused
<1>2. a.shallow = r.boundaries /\ a.unshallow = r.unshallow
  BY <1>1
<1> HIDE DEF tags, common
<1>3. CASE q.relative
  <2> DEFINE rel == DeepenRelative(s, q.wants, q.shallow, q.depth)
  <2>1. r = rel
    BY <1>3 DEF Selected
  <2> HIDE DEF r, rel
  <2>2. N = RelativeBoundary(s, q.wants, q.depth, q.shallow) /\ ~rel.fails
    BY <1>1, <1>2, <2>1 DEF rel, RelativeBoundary
  <2>3. /\ From(q.wants, N) \subseteq From(q.wants, q.shallow)
                                        \cup Nearer(s, q.wants, q.depth, q.shallow)
        /\ Apart(q.shallow) => Nearer(s, q.wants, q.depth, q.shallow) \subseteq From(q.wants, N)
    BY <2>2, RelativeSeen DEF rel
  <2> QED
    BY <1>3, <2>3 DEF Met, Seen, Tipped, Opened, From, Nearer, Visible
<1>4. CASE ~q.relative
  <2> DEFINE level == ObjectsAtDepth(s, q.wants, q.depth)
             old   == (q.shallow \ level.boundaries) \cap level.objects
  <2>1. r = Override(level, [unshallow |-> old])
    BY <1>4 DEF Selected
  <2>2. DOMAIN level = {"fails", "objects", "boundaries"}
    BY DEF ObjectsAtDepth
  <2> HIDE DEF level, old, r
  <2>3. /\ r.objects = level.objects /\ r.boundaries = level.boundaries
        /\ r.fails = level.fails /\ r.unshallow = old
    BY <2>1, <2>2, LevelFields
  <2>4. N = (q.shallow \ ((q.shallow \ level.boundaries) \cap level.objects)) \cup level.boundaries
        /\ ~level.fails
    BY <1>1, <1>2, <2>3 DEF old
  <2>5. Visible(tips, N) = Within(tips, q.depth - 1, s.shallow)
    <3>1. N = LevelBoundary(s, q.wants, q.depth, q.shallow) /\ ~level.fails
      BY <2>4 DEF level, LevelBoundary
    <3> QED
      BY <3>1, DepthSeen DEF level
  <2> QED
    BY <1>4, <2>5 DEF Met, Seen, Tipped, Visible
<1> QED
  BY <1>3, <1>4

-----------------------------------------------------------------------------
(* And it stays so until the call is over. *)

LEMMA Decided ==
    ASSUME DepthKept, UNCHANGED call,
           server'.shallow = server.shallow, client'.shallow = client.shallow
    PROVE  DepthKept'
BY DEF DepthKept, Boundary

\* A step that sets the stage and maybe the edits, and leaves the boundaries.
LEMMA StillDecided ==
    ASSUME IInv, DepthKept, NEW fields, Set(fields),
           "stage" \in DOMAIN fields, DOMAIN fields \subseteq {"stage", "edits"},
           \/ call.stage = "pack" /\ fields.stage = "shallow"
           \/ call.stage = "refs" /\ fields.stage = "apply"
           \/ call.stage = "apply" /\ fields.stage = "fetched"
           \/ call.stage = "fetched" /\ fields.stage = "done",
           server'.shallow = server.shallow, client'.shallow = client.shallow
    PROVE  DepthKept'
<1>1. /\ \A k \in DOMAIN call : k \in DOMAIN call' /\ (k \notin DOMAIN fields => call'[k] = call[k])
      /\ call'.stage = fields.stage
  BY DEF Set, Override
<1>2. {"depth", "advertised"} \subseteq DOMAIN call
  BY DEF IInv, CallFits
<1>3. /\ call'.depth = call.depth /\ call'.advertised = call.advertised
      /\ "q" \in DOMAIN call => "q" \in DOMAIN call' /\ call'.q = call.q
      /\ "response" \in DOMAIN call => "response" \in DOMAIN call' /\ call'.response = call.response
  BY <1>1, <1>2
<1>4. "response" \in DOMAIN call => Boundary' = Boundary
  BY <1>3 DEF Boundary
<1> QED
  BY <1>1, <1>3, <1>4 DEF DepthKept

LEMMA ExchangeMet ==
    ASSUME IInv, Exchange
    PROVE  DepthKept'
<1> DEFINE q == [version |-> call.version, wants |-> {call.advertised[r] : r \in DOMAIN call.advertised},
                 haves |-> Tips(client), shallow |-> client.shallow,
                 depth |-> call.depth, relative |-> call.relative, tags |-> call.tags]
           a == Respond(server, q)
           N == (q.shallow \ a.unshallow) \cup a.shallow
           fields == [stage |-> "pack", q |-> q, response |-> a]
<1>1. server' = server /\ client' = client /\ call.stage = "request"
  BY DEF Exchange, Receive
<1>2. Repository(client) /\ CallFits
  BY DEF IInv
<1>3. CASE Fail
  BY <1>3 DEF Fail, DepthKept
<1>4. CASE a.ok /\ Set(fields)
  <2>1. /\ q.wants \in SUBSET Object /\ q.shallow \in SUBSET Commits
        /\ q.shallow = client.shallow /\ q.depth = call.depth
        /\ call.depth # None => call.depth \in Nat \ {0}
    BY <1>1, <1>2 DEF CallFits, Repository, Wants
  <2> HIDE DEF q
  <2>2. call.depth # None => Met(q, server.shallow, N)
    BY <1>4, <2>1, AnswerSeen
  <2> HIDE DEF a
  <2>3. /\ fields.stage = "pack" /\ fields.q = q /\ fields.response = a
        /\ DOMAIN fields = {"stage", "q", "response"}
    OBVIOUS
  <2> HIDE DEF fields
  <2>4. {"depth", "advertised"} \subseteq DOMAIN call
    BY <1>1, <1>2 DEF CallFits
  <2>5. /\ call'.stage = "pack" /\ {"q", "response"} \subseteq DOMAIN call'
        /\ call'.q = q /\ call'.response = a /\ call'.depth = call.depth
    BY <1>4, <2>3, <2>4 DEF Set, Override
  <2>6. Boundary' = N
    BY <1>1, <2>1, <2>5 DEF Boundary
  <2> QED
    BY <1>1, <2>2, <2>5, <2>6 DEF DepthKept
<1> QED
  BY <1>3, <1>4 DEF Exchange, Receive

LEMMA WriteShallowMet ==
    ASSUME IInv, DepthKept, WriteShallow
    PROVE  DepthKept'
<1> DEFINE fields == [stage |-> "refs"]
<1>1. /\ server' = server /\ call.stage = "shallow" /\ Set(fields)
      /\ client' = [client EXCEPT !.shallow = Boundary]
  BY DEF WriteShallow, Boundary, End
<1>2. client'.shallow = Boundary
  <2>1. "shallow" \in DOMAIN client
    BY DEF IInv, Repository
  <2> QED
    BY <1>1, <2>1
<1>3. "stage" \in DOMAIN fields /\ DOMAIN fields = {"stage"} /\ fields.stage = "refs"
  OBVIOUS
<1> HIDE DEF fields
<1>4. {"depth", "advertised", "q"} \subseteq DOMAIN call
  BY <1>1 DEF IInv, CallFits, DepthKept
<1>5. /\ call'.stage = "refs" /\ "q" \in DOMAIN call'
      /\ call'.q = call.q /\ call'.depth = call.depth
  BY <1>1, <1>3, <1>4 DEF Set, Override
<1> QED
  BY <1>1, <1>2, <1>5 DEF DepthKept

LEMMA OthersMet ==
    ASSUME IInv, DepthKept,
           \/ PublishPack \/ PrepareRefs \/ ApplyRefs \/ Finish \/ BreakOff
           \/ \E refs \in References : ServerMoves(refs)
           \/ \E c \in Commits : CommitLocally(c)
           \/ \E r \in DOMAIN client.refs : DeleteReference(r)
           \/ Collect \/ UNCHANGED fetchVars
    PROVE  DepthKept'
<1>1. "shallow" \in DOMAIN client /\ "shallow" \in DOMAIN server
  BY DEF IInv, Repository
<1>2. ASSUME Fail PROVE DepthKept'
  BY <1>2 DEF Fail, DepthKept
<1>3. ASSUME NEW stage, End(stage),
             \/ call.stage = "pack" /\ stage = "shallow"
             \/ call.stage = "apply" /\ stage = "fetched"
             \/ call.stage = "fetched" /\ stage = "done",
             server' = server, client'.shallow = client.shallow
      PROVE  DepthKept'
  <2> DEFINE fields == [stage |-> stage]
  <2>1. /\ Set(fields) /\ "stage" \in DOMAIN fields /\ DOMAIN fields \subseteq {"stage", "edits"}
        /\ fields.stage = stage
    BY <1>3 DEF End
  <2> HIDE DEF fields
  <2> QED
    BY <1>3, <2>1, StillDecided
<1>4. CASE PublishPack
  <2>1. /\ call.stage = "pack" /\ End("shallow") /\ server' = server
        /\ client'.shallow = client.shallow
    BY <1>1, <1>4 DEF PublishPack
  <2> QED
    BY <1>3, <2>1
<1>5. CASE PrepareRefs
  <2>1. /\ server' = server /\ client' = client /\ call.stage = "refs"
        /\ Fail \/ \E edits : Set([stage |-> "apply", edits |-> edits])
    BY <1>5 DEF PrepareRefs
  <2>2. ASSUME NEW edits, Set([stage |-> "apply", edits |-> edits]) PROVE DepthKept'
    <3> DEFINE fields == [stage |-> "apply", edits |-> edits]
    <3>1. /\ Set(fields) /\ "stage" \in DOMAIN fields /\ DOMAIN fields \subseteq {"stage", "edits"}
          /\ fields.stage = "apply"
      BY <2>2
    <3> HIDE DEF fields
    <3> QED
      BY <2>1, <3>1, StillDecided
  <2> QED
    BY <1>2, <2>1, <2>2
<1>6. CASE ApplyRefs
  <2>1. /\ call.stage = "apply" /\ server' = server
        /\ Fail \/ (End("fetched") /\ Publish(call.edits))
    BY <1>6 DEF ApplyRefs
  <2>2. Publish(call.edits) => client'.shallow = client.shallow
    BY <1>1 DEF Publish
  <2> QED
    BY <1>2, <1>3, <2>1, <2>2
<1>7. CASE Finish
  <2>1. call.stage = "fetched" /\ server' = server /\ call.op \in {"fetch", "clone", "pull"}
    BY <1>7 DEF Finish, IInv, CallFits
  <2>2. ASSUME NEW to, Move(to) PROVE client'.shallow = client.shallow
    BY <1>1, <2>2 DEF Move
  <2>3. (End("done") \/ Fail) /\ (UNCHANGED client \/ \E to : Move(to))
    <3>1. CASE call.op = "fetch"
      BY <1>7, <3>1 DEF Finish
    <3>2. CASE call.op = "clone"
      BY <1>7, <3>2 DEF Finish
    <3>3. CASE call.op = "pull"
      BY <1>7, <3>3 DEF Finish
    <3> QED
      BY <2>1, <3>1, <3>2, <3>3
  <2>4. client'.shallow = client.shallow
    BY <2>2, <2>3
  <2> QED
    BY <1>2, <1>3, <2>1, <2>3, <2>4
<1>8. CASE BreakOff
  BY <1>2, <1>8 DEF BreakOff
<1>9. CASE \E refs \in References : ServerMoves(refs)
  BY <1>1, <1>9, Decided DEF ServerMoves
<1>10. CASE \E c \in Commits : CommitLocally(c)
  BY <1>1, <1>10, Decided DEF CommitLocally
<1>11. CASE \E r \in DOMAIN client.refs : DeleteReference(r)
  BY <1>1, <1>11, Decided DEF DeleteReference
<1>12. CASE Collect
  BY <1>1, <1>12, Decided DEF Collect
<1>13. CASE UNCHANGED fetchVars
  BY <1>13, Decided DEF fetchVars
<1> QED
  BY <1>4, <1>5, <1>6, <1>7, <1>8, <1>9, <1>10, <1>11, <1>12, <1>13

\* When a fetch to a depth is done, the client sees what was asked for: of a depth, the commits
\* that are so near and no others; of a deepening, nothing farther behind a boundary, and all
\* up to there where no boundary lies behind another (upload_pack.rs, shallow.rs).
THEOREM DepthAlways == Spec => []DepthMet
<1>1. Init => DepthKept
  BY DEF Init, NoCall, DepthKept
<1>2. IInv /\ DepthKept /\ [Next]_fetchVars => DepthKept'
  <2> SUFFICES ASSUME IInv, DepthKept, [Next]_fetchVars PROVE DepthKept'
    OBVIOUS
  <2>1. CASE \E c \in Calls : Begin(c)
    BY <2>1, BeginKeeps
  <2>2. CASE Exchange
    BY <2>2, ExchangeMet
  <2>3. CASE WriteShallow
    BY <2>3, WriteShallowMet
  <2> QED
    BY <2>1, <2>2, <2>3, OthersMet DEF Next, Handle
<1>3. DepthKept => DepthMet
  BY DEF DepthKept, DepthMet
<1> QED
  BY <1>1, <1>2, <1>3, InitHolds, NextKeeps, PTL DEF Spec
===============================================================================
