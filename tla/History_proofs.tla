---------------------------- MODULE History_proofs ----------------------------
(***************************************************************************)
(* What a repository answers about ancestry, merge bases and lists of      *)
(* commits, for every history, whatever is replaced, shallow or saved; and *)
(* the names it gives to commits, whatever references there are.           *)
(***************************************************************************)
EXTENDS History, FiniteSetTheorems, WellFoundedInduction, TLAPS

-------------------------------------------------------------------------------
(* What leads where. *)

\* A set of numbers has a least one.
LEMMA Least ==
    ASSUME NEW T \in SUBSET Nat, T # {}
    PROVE  \E o \in T : \A p \in T : o <= p
<1> DEFINE Upto == {0 .. o : o \in T}
<1>1. Upto \subseteq FiniteSubsetsOf(Nat)
  <2> SUFFICES ASSUME NEW o \in T PROVE 0 .. o \in FiniteSubsetsOf(Nat)
    OBVIOUS
  <2>1. o \in Int /\ 0 \in Int /\ 0 .. o \in SUBSET Nat
    OBVIOUS
  <2> QED
    BY <2>1, FS_Interval DEF FiniteSubsetsOf
<1>2. \E X \in Upto : \A Y \in Upto : ~ (<<Y, X>> \in StrictSubsetOrdering(Nat))
  <2>1. Upto # {}
    OBVIOUS
  <2> HIDE DEF Upto
  <2> QED
    BY <1>1, <2>1, WFMin, FS_StrictSubsetOrderingWellFounded
<1>3. PICK o \in T : \A p \in T : ~ (<<0 .. p, 0 .. o>> \in StrictSubsetOrdering(Nat))
  BY <1>2
<1>4. ASSUME NEW p \in T, ~(o <= p)
      PROVE  FALSE
  <2>1. 0 .. p \subseteq 0 .. o /\ 0 .. p # 0 .. o
    BY <1>4
  <2>2. 0 .. p \in SUBSET Nat /\ 0 .. o \in SUBSET Nat
    OBVIOUS
  <2> QED
    BY <1>3, <2>1, <2>2 DEF StrictSubsetOrdering
<1> QED
  BY <1>4

\* A graph without cycles: next leads from each place of V to places of V of a lower rank.
Graded(V, next, rank) ==
    /\ next \in [V -> SUBSET V] /\ rank \in [V -> Nat]
    /\ \A v \in V : \A u \in next[v] : rank[u] < rank[v]

\* So any places among those have one that leads to none of them.
LEMMA Lowest ==
    ASSUME NEW V, NEW next, NEW rank, Graded(V, next, rank), NEW T \in SUBSET V, T # {}
    PROVE  \E v \in T : \A u \in next[v] : u \notin T
<1> DEFINE R == {rank[v] : v \in T}
<1>1. R \in SUBSET Nat /\ R # {}
  BY DEF Graded
<1>2. PICK o \in R : \A p \in R : o <= p
  <2> HIDE DEF R
  <2> QED
    BY <1>1, Least
<1>3. PICK v \in T : rank[v] = o
  OBVIOUS
<1>4. ASSUME NEW u \in next[v], u \in T PROVE FALSE
  <2>1. rank[u] < rank[v] /\ rank[u] \in Nat /\ rank[v] \in Nat
    BY <1>4 DEF Graded
  <2>2. rank[u] \in R
    BY <1>4
  <2> QED
    BY <1>2, <1>3, <2>1, <2>2
<1> QED
  BY <1>4

\* What w gives for each place is the place and what w gives for those it leads to.
Unfolds(V, next, w) == w = [v \in V |-> {v} \cup UNION {w[u] : u \in next[v]}]

LEMMA Unfolded ==
    ASSUME NEW V, NEW next, NEW w, Unfolds(V, next, w), NEW v \in V
    PROVE  w[v] = {v} \cup UNION {w[u] : u \in next[v]}
BY DEF Unfolds

\* What a walk from v must visit: what is in every closed set with v.
Visited(V, next, v) == {x \in V : \A S \in SUBSET V :
                           v \in S /\ (\A p \in S : next[p] \subseteq S) => x \in S}

LEMMA VisitedUnfolds ==
    ASSUME NEW V, NEW next \in [V -> SUBSET V], NEW o \in V
    PROVE  Visited(V, next, o) = {o} \cup UNION {Visited(V, next, p) : p \in next[o]}
<1> DEFINE Shut(S) == \A p \in S : next[p] \subseteq S
           U == {o} \cup UNION {Visited(V, next, p) : p \in next[o]}
<1>1. \A p \in V : p \in Visited(V, next, p) /\ Visited(V, next, p) \subseteq V
  BY DEF Visited
<1>2. \A p \in V : \A S \in SUBSET V :
         p \in S /\ Shut(S) => Visited(V, next, p) \subseteq S
  BY DEF Visited
<1>3. \A p \in V : Shut(Visited(V, next, p))
  <2> SUFFICES ASSUME NEW p \in V, NEW q \in Visited(V, next, p), NEW r \in next[q]
               PROVE  r \in Visited(V, next, p)
    OBVIOUS
  <2>1. q \in V /\ r \in V
    BY <1>1
  <2> QED
    BY <2>1 DEF Visited
<1>4. U \subseteq Visited(V, next, o)
  <2>1. o \in Visited(V, next, o)
    BY <1>1
  <2>2. ASSUME NEW p \in next[o] PROVE Visited(V, next, p) \subseteq Visited(V, next, o)
    BY <1>1, <1>2, <1>3
  <2> QED
    BY <2>1, <2>2
<1>5. Visited(V, next, o) \subseteq U
  <2>1. U \subseteq V /\ o \in U
    BY <1>1
  <2>2. ASSUME NEW q \in U, NEW r \in next[q] PROVE r \in U
    <3>1. CASE q = o
      BY <1>1, <2>2, <3>1
    <3>2. ASSUME NEW p \in next[o], q \in Visited(V, next, p) PROVE r \in U
      BY <1>3, <2>2, <3>2
    <3> QED
      BY <2>2, <3>1, <3>2
  <2> QED
    BY <1>2, <2>1, <2>2
<1> QED
  BY <1>4, <1>5

\* The recursive functions of the walks exist.
LEMMA WalksExist ==
    ASSUME NEW V, NEW next \in [V -> SUBSET V]
    PROVE  \E w : Unfolds(V, next, w)
<1> DEFINE g == [v \in V |-> Visited(V, next, v)]
<1>1. ASSUME NEW v \in V
      PROVE  g[v] = {v} \cup UNION {g[u] : u \in next[v]}
  <2>1. \A u \in next[v] : g[u] = Visited(V, next, u)
    OBVIOUS
  <2>2. {g[u] : u \in next[v]} = {Visited(V, next, u) : u \in next[v]}
    BY <2>1
  <2> QED
    BY <2>2, VisitedUnfolds
<1>2. g = [v \in V |-> g[v]]
  OBVIOUS
<1> HIDE DEF g
<1>3. g = [v \in V |-> {v} \cup UNION {g[u] : u \in next[v]}]
  BY <1>1, <1>2
<1> QED
  BY <1>3 DEF Unfolds

\* In a graph without cycles such a function gives all that the walk visits, and no more.
LEMMA WalkIn ==
    ASSUME NEW V, NEW next, NEW rank, Graded(V, next, rank), NEW w, Unfolds(V, next, w),
           NEW v \in V
    PROVE  v \in w[v] /\ w[v] \subseteq V
<1> DEFINE T == {p \in V : ~(w[p] \subseteq V)}
<1>1. T = {}
  <2> SUFFICES ASSUME T # {} PROVE FALSE
    OBVIOUS
  <2>1. T \in SUBSET V
    OBVIOUS
  <2>2. PICK p \in T : \A u \in next[p] : u \notin T
    <3> HIDE DEF T
    <3> QED
      BY <2>1, Lowest
  <2>3. \A u \in next[p] : u \in V /\ w[u] \subseteq V
    BY <2>2 DEF Graded
  <2>4. w[p] = {p} \cup UNION {w[u] : u \in next[p]}
    BY Unfolded
  <2> QED
    BY <2>3, <2>4
<1> QED
  BY <1>1, Unfolded

LEMMA WalkClosed ==
    ASSUME NEW V, NEW next, NEW rank, Graded(V, next, rank), NEW w, Unfolds(V, next, w),
           NEW v \in V, NEW x \in w[v]
    PROVE  next[x] \subseteq w[v]
<1> DEFINE Shut(p) == \A y \in w[p] : next[y] \subseteq w[p]
           T == {p \in V : ~Shut(p)}
<1>1. T = {}
  <2> SUFFICES ASSUME T # {} PROVE FALSE
    OBVIOUS
  <2>1. T \in SUBSET V
    OBVIOUS
  <2>2. PICK p \in T : \A u \in next[p] : u \notin T
    <3> HIDE DEF T
    <3> QED
      BY <2>1, Lowest
  <2>3. \A u \in next[p] : u \in V /\ Shut(u) /\ u \in w[u]
    BY <2>2, WalkIn DEF Graded
  <2>4. w[p] = {p} \cup UNION {w[u] : u \in next[p]}
    BY Unfolded
  <2>5. ASSUME NEW y \in w[p] PROVE next[y] \subseteq w[p]
    <3>1. CASE y = p
      BY <2>3, <2>4, <3>1
    <3>2. ASSUME NEW u \in next[p], y \in w[u] PROVE next[y] \subseteq w[p]
      BY <2>3, <2>4, <3>2
    <3> QED
      BY <2>4, <3>1, <3>2
  <2> QED
    BY <2>5
<1> QED
  BY <1>1

LEMMA WalkLeast ==
    ASSUME NEW V, NEW next, NEW rank, Graded(V, next, rank), NEW w, Unfolds(V, next, w),
           NEW S, \A p \in V : p \in S => next[p] \subseteq S, NEW v \in V, v \in S
    PROVE  w[v] \subseteq S
<1> DEFINE T == {p \in V : p \in S /\ ~(w[p] \subseteq S)}
<1>1. T = {}
  <2> SUFFICES ASSUME T # {} PROVE FALSE
    OBVIOUS
  <2>1. T \in SUBSET V
    OBVIOUS
  <2>2. PICK p \in T : \A u \in next[p] : u \notin T
    <3> HIDE DEF T
    <3> QED
      BY <2>1, Lowest
  <2>3. \A u \in next[p] : u \in V /\ w[u] \subseteq S
    BY <2>2 DEF Graded
  <2>4. w[p] = {p} \cup UNION {w[u] : u \in next[p]}
    BY Unfolded
  <2> QED
    BY <2>3, <2>4
<1> QED
  BY <1>1


LEMMA AncestryUnfolds ==
    ASSUME NEW V, NEW next \in [V -> SUBSET V]
    PROVE  Unfolds(V, next, Ancestry(next))
<1>1. \E w : w = [v \in V |-> {v} \cup UNION {w[u] : u \in next[v]}]
  <2>1. \E w : Unfolds(V, next, w)
    BY WalksExist
  <2> QED
    BY <2>1 DEF Unfolds
<1>2. DOMAIN next = V
  OBVIOUS
<1>3. \E w : w = [v \in DOMAIN next |-> {v} \cup UNION {w[u] : u \in next[v]}]
  BY <1>1, <1>2
<1>4. Ancestry(next) = [v \in DOMAIN next |-> {v} \cup UNION {Ancestry(next)[u] : u \in next[v]}]
  BY <1>3 DEF Ancestry
<1> QED
  BY <1>2, <1>4 DEF Unfolds

\* Reach gives a set that is closed, and the least one.
LEMMA ReachIs ==
    ASSUME NEW V, NEW next, NEW rank, Graded(V, next, rank), NEW c \in V
    PROVE  /\ c \in Reach(next, c) /\ Reach(next, c) \subseteq V
           /\ \A x \in Reach(next, c) : next[x] \subseteq Reach(next, c)
           /\ Reach(next, c) = {c} \cup UNION {Reach(next, p) : p \in next[c]}
           /\ \A S : c \in S /\ (\A p \in V : p \in S => next[p] \subseteq S)
                        => Reach(next, c) \subseteq S
<1> DEFINE w == Ancestry(next)
<1>1. Unfolds(V, next, w)
  BY AncestryUnfolds DEF Graded
<1>2. \A v : Reach(next, v) = w[v]
  BY DEF Reach
<1> HIDE DEF w
<1>3. c \in w[c] /\ w[c] \subseteq V
  BY <1>1, WalkIn
<1>4. \A x \in w[c] : next[x] \subseteq w[c]
  BY <1>1, WalkClosed
<1>5. w[c] = {c} \cup UNION {w[p] : p \in next[c]}
  BY <1>1, Unfolded
<1>6. ASSUME NEW S, c \in S, \A p \in V : p \in S => next[p] \subseteq S
      PROVE  w[c] \subseteq S
  BY <1>1, <1>6, WalkLeast
<1> QED
  BY <1>2, <1>3, <1>4, <1>5, <1>6

\* The same for several at once.
LEMMA ReachAllIs ==
    ASSUME NEW V, NEW next, NEW rank, Graded(V, next, rank), NEW cs \in SUBSET V
    PROVE  /\ cs \subseteq ReachAll(next, cs) /\ ReachAll(next, cs) \subseteq V
           /\ \A x \in ReachAll(next, cs) : next[x] \subseteq ReachAll(next, cs)
           /\ \A S : cs \subseteq S /\ (\A p \in V : p \in S => next[p] \subseteq S)
                        => ReachAll(next, cs) \subseteq S
<1>1. ReachAll(next, cs) = UNION {Reach(next, c) : c \in cs}
  BY DEF ReachAll
<1>2. \A c \in cs : /\ c \in Reach(next, c) /\ Reach(next, c) \subseteq V
                    /\ \A x \in Reach(next, c) : next[x] \subseteq Reach(next, c)
  BY ReachIs
<1>3. ASSUME NEW S, cs \subseteq S, \A p \in V : p \in S => next[p] \subseteq S
      PROVE  \A c \in cs : Reach(next, c) \subseteq S
  BY <1>3, ReachIs
<1> QED
  BY <1>1, <1>2, <1>3

-------------------------------------------------------------------------------
(* Loops. *)

\* A finite set of numbers has a greatest one.
LEMMA Greatest ==
    ASSUME NEW T \in SUBSET Nat, IsFiniteSet(T), T # {}
    PROVE  \E o \in T : \A p \in T : p <= o
<1> DEFINE From(x) == {y \in T : x <= y}
           Tails == {From(o) : o \in T}
<1>1. Tails \subseteq FiniteSubsetsOf(Nat)
  <2> SUFFICES ASSUME NEW o \in T PROVE From(o) \in FiniteSubsetsOf(Nat)
    OBVIOUS
  <2>1. From(o) \in SUBSET T
    OBVIOUS
  <2>2. IsFiniteSet(From(o))
    <3> HIDE DEF From
    <3> QED
      BY <2>1, FS_Subset
  <2> QED
    BY <2>1, <2>2 DEF FiniteSubsetsOf
<1>2. \E X \in Tails : \A Y \in Tails : ~ (<<Y, X>> \in StrictSubsetOrdering(Nat))
  <2>1. Tails # {}
    OBVIOUS
  <2> HIDE DEF Tails
  <2> QED
    BY <1>1, <2>1, WFMin, FS_StrictSubsetOrderingWellFounded
<1>3. PICK o \in T : \A p \in T : ~ (<<From(p), From(o)>> \in StrictSubsetOrdering(Nat))
  BY <1>2
<1>4. ASSUME NEW p \in T, ~(p <= o)
      PROVE  FALSE
  <2>0. p \in Nat /\ o \in Nat /\ o < p
    BY <1>4
  <2>a. ASSUME NEW q \in T, p <= q PROVE o <= q
    <3>1. q \in Nat
      OBVIOUS
    <3> QED
      BY <2>0, <2>a, <3>1
  <2>1. From(p) \subseteq From(o) /\ o \in From(o) /\ o \notin From(p)
    <3>1. From(p) \subseteq From(o)
      BY <2>a
    <3>2. o \in From(o)
      BY <2>0
    <3>3. o \notin From(p)
      BY <1>4
    <3> QED
      BY <3>1, <3>2, <3>3
  <2>2. From(p) \in SUBSET Nat /\ From(o) \in SUBSET Nat
    OBVIOUS
  <2> QED
    BY <1>3, <2>1, <2>2 DEF StrictSubsetOrdering
<1> QED
  BY <1>4

\* A loop goes from each place of S that is not in Stop to the next; f says what comes out.
Loops(S, Stop, out, step, f) == f = [x \in S |-> IF x \in Stop THEN out[x] ELSE f[step[x]]]

\* The function exists.
LEMMA LoopExists ==
    ASSUME NEW S, NEW Stop, NEW out, NEW step, \A x \in S \ Stop : step[x] \in S
    PROVE  \E f : Loops(S, Stop, out, step, f)
<1> DEFINE Shut(Q) == \A z \in Q : z \notin Stop => step[z] \in Q
           Orbit(x) == {y \in S : \A Q \in SUBSET S : x \in Q /\ Shut(Q) => y \in Q}
           Ends(x)  == Orbit(x) \cap Stop
           g == [x \in S |-> out[CHOOSE y : y \in Ends(x)]]
<1>1. ASSUME NEW x \in S, x \in Stop PROVE g[x] = out[x]
  <2>1. {x} \in SUBSET S /\ Shut({x})
    BY <1>1
  <2>2. Orbit(x) \subseteq {x}
    BY <2>1
  <2>3. x \in Orbit(x)
    OBVIOUS
  <2>4. Ends(x) = {x}
    BY <1>1, <2>2, <2>3
  <2> HIDE DEF Ends
  <2> QED
    BY <2>4
<1>2. ASSUME NEW x \in S, x \notin Stop PROVE g[x] = g[step[x]]
  <2>1. step[x] \in S
    BY <1>2
  <2>2. ASSUME NEW y \in Ends(x) PROVE y \in Ends(step[x])
    <3> SUFFICES ASSUME NEW Q \in SUBSET S, step[x] \in Q, Shut(Q) PROVE y \in Q
      BY <2>2
    <3>1. Q \cup {x} \in SUBSET S /\ Shut(Q \cup {x})
      BY <1>2
    <3>2. y \in Q \cup {x}
      BY <2>2, <3>1
    <3> QED
      BY <1>2, <2>2, <3>2
  <2>3. ASSUME NEW y \in Ends(step[x]) PROVE y \in Ends(x)
    <3> SUFFICES ASSUME NEW Q \in SUBSET S, x \in Q, Shut(Q) PROVE y \in Q
      BY <2>3
    <3>1. step[x] \in Q
      BY <1>2
    <3> QED
      BY <2>3, <3>1
  <2>4. Ends(x) = Ends(step[x])
    BY <2>2, <2>3
  <2> HIDE DEF Ends
  <2> QED
    BY <2>1, <2>4
<1>3. g = [x \in S |-> g[x]]
  OBVIOUS
<1> HIDE DEF g
<1>4. g = [x \in S |-> IF x \in Stop THEN out[x] ELSE g[step[x]]]
  BY <1>1, <1>2, <1>3
<1> QED
  BY <1>4 DEF Loops

\* A loop that leaves less of a finite set with each step ends, and what holds of the
\* places it passes holds where it ends.
Ends(U, G, Stop, step, f, R, left) ==
    \A x \in G : /\ left[x] \subseteq U
                 /\ x \in Stop => f[x] \in R
                 /\ x \notin Stop =>
                       /\ step[x] \in G /\ f[x] = f[step[x]]
                       /\ left[step[x]] \subseteq left[x] /\ left[step[x]] # left[x]

LEMMA LoopEnds ==
    ASSUME NEW U, IsFiniteSet(U), NEW G, NEW Stop, NEW step, NEW f, NEW R, NEW left,
           Ends(U, G, Stop, step, f, R, left)
    PROVE  \A x \in G : f[x] \in R
<1> USE DEF Ends
<1> DEFINE Bad == {x \in G : f[x] \notin R}
           Lefts == {left[x] : x \in Bad}
<1> SUFFICES ASSUME Bad # {} PROVE FALSE
  OBVIOUS
<1>1. Lefts \subseteq FiniteSubsetsOf(U)
  <2> SUFFICES ASSUME NEW x \in G PROVE left[x] \in FiniteSubsetsOf(U)
    OBVIOUS
  <2>1. left[x] \in SUBSET U
    OBVIOUS
  <2> QED
    BY <2>1, FS_Subset DEF FiniteSubsetsOf
<1>2. \E X \in Lefts : \A Y \in Lefts : ~ (<<Y, X>> \in StrictSubsetOrdering(U))
  <2>1. Lefts # {}
    OBVIOUS
  <2> HIDE DEF Lefts
  <2> QED
    BY <1>1, <2>1, WFMin, FS_StrictSubsetOrderingWellFounded
<1>3. PICK x \in Bad : \A y \in Bad : ~ (<<left[y], left[x]>> \in StrictSubsetOrdering(U))
  BY <1>2
<1>4. x \in G /\ x \notin Stop
  BY <1>3
<1>5. /\ step[x] \in G /\ f[x] = f[step[x]]
      /\ left[step[x]] \subseteq left[x] /\ left[step[x]] # left[x]
  BY <1>4
<1>6. step[x] \in Bad
  BY <1>3, <1>5
<1>7. left[x] \in SUBSET U /\ left[step[x]] \in SUBSET U
  BY <1>4, <1>5
<1> QED
  BY <1>3, <1>5, <1>6, <1>7 DEF StrictSubsetOrdering

\* Counting up from a.
LEMMA Climb ==
    ASSUME NEW a \in Nat, NEW n \in Nat, NEW Good,
           a \in Good, \A i \in a + 1 .. n : i - 1 \in Good => i \in Good
    PROVE  a .. n \subseteq Good
<1> DEFINE Bad == {i \in a .. n : i \notin Good}
<1> SUFFICES ASSUME Bad # {} PROVE FALSE
  OBVIOUS
<1>1. Bad \in SUBSET Nat
  OBVIOUS
<1>2. PICK i \in Bad : \A j \in Bad : i <= j
  <2> HIDE DEF Bad
  <2> QED
    BY <1>1, Least
<1>3. i \in a .. n /\ i # a /\ i \notin Good
  BY <1>2
<1>4. i - 1 \in a .. n /\ i \in a + 1 .. n /\ ~(i <= i - 1)
  BY <1>3
<1>5. i - 1 \in Good
  BY <1>2, <1>4
<1> QED
  BY <1>3, <1>4, <1>5

Counts(a, n, base, step, f) ==
    f = [i \in a .. n |-> IF i = a THEN base ELSE step[<<i, f[i - 1]>>]]

\* The function that is counted up exists.
LEMMA CountExists ==
    ASSUME NEW a \in Nat, NEW n \in Nat, NEW base, NEW step
    PROVE  \E f : Counts(a, n, base, step, f)
<1> USE DEF Counts
<1> DEFINE Good == {k \in Nat : \E f : Counts(a, k, base, step, f)}
<1>1. a \in Good
  <2> DEFINE f == [i \in a .. a |-> base]
  <2>1. \A i \in a .. a : i = a
    OBVIOUS
  <2>2. f = [i \in a .. a |-> IF i = a THEN base ELSE step[<<i, f[i - 1]>>]]
    BY <2>1
  <2> HIDE DEF f
  <2> QED
    BY <2>2
<1>2. ASSUME NEW k \in a + 1 .. n, k - 1 \in Good PROVE k \in Good
  <2>1. PICK g : Counts(a, k - 1, base, step, g)
    BY <1>2
  <2> DEFINE f == [i \in a .. k |-> IF i = k THEN step[<<k, g[k - 1]>>] ELSE g[i]]
  <2>2. ASSUME NEW i \in a .. k
        PROVE  f[i] = IF i = a THEN base ELSE step[<<i, f[i - 1]>>]
    <3>1. CASE i = k
      <4>1. k - 1 \in a .. k /\ k - 1 # k /\ k # a
        OBVIOUS
      <4>2. f[k - 1] = g[k - 1] /\ f[k] = step[<<k, g[k - 1]>>]
        BY <4>1
      <4> QED
        BY <3>1, <4>1, <4>2
    <3>2. CASE i # k /\ i # a
      <4>1. i \in a .. k - 1 /\ i - 1 \in a .. k - 1 /\ i - 1 # k /\ i - 1 \in a .. k
        BY <3>2
      <4>2. g[i] = step[<<i, g[i - 1]>>]
        BY <2>1, <3>2, <4>1
      <4>3. f[i] = g[i] /\ f[i - 1] = g[i - 1]
        BY <3>2, <4>1
      <4> QED
        BY <3>2, <4>2, <4>3
    <3>3. CASE i # k /\ i = a
      <4>1. a \in a .. k - 1
        OBVIOUS
      <4>2. g[a] = base
        BY <2>1, <4>1
      <4> QED
        BY <3>3, <4>2
    <3> QED
      BY <3>1, <3>2, <3>3
  <2>3. f = [i \in a .. k |-> f[i]]
    OBVIOUS
  <2> HIDE DEF f
  <2>4. Counts(a, k, base, step, f)
    BY <2>2, <2>3
  <2>5. k \in Nat
    OBVIOUS
  <2> QED
    BY <2>4, <2>5
<1>3. CASE a <= n
  <2>1. n \in a .. n
    BY <1>3
  <2> HIDE DEF Good
  <2>2. a .. n \subseteq Good
    BY <1>1, <1>2, Climb
  <2>3. n \in Good
    BY <2>1, <2>2
  <2> QED
    BY <2>3 DEF Good
<1>4. CASE ~(a <= n)
  <2> DEFINE f == [i \in a .. n |-> base]
  <2>1. a .. n = {}
    BY <1>4
  <2>2. f = [i \in a .. n |-> IF i = a THEN base ELSE step[<<i, f[i - 1]>>]]
    BY <2>1
  <2> HIDE DEF f
  <2> QED
    BY <2>2
<1> QED
  BY <1>3, <1>4

-------------------------------------------------------------------------------
(* The graph as it is read. *)

\* Where a walk goes from each commit.
Along(first) == IF first THEN Firsts ELSE Here

Id == [c \in Known |-> c]

LEMMA Elements ==
    ASSUME NEW T, NEW s \in Seq(T)
    PROVE  /\ ToSet(s) \subseteq T
           /\ \A x : x \in ToSet(s) <=> \E i \in 1 .. Len(s) : s[i] = x
<1>1. DOMAIN s = 1 .. Len(s) /\ \A i \in 1 .. Len(s) : s[i] \in T
  OBVIOUS
<1> QED
  BY <1>1 DEF ToSet

LEMMA GraphFacts ==
    ASSUME GraphFits
    PROVE  /\ IsFiniteSet(Known) /\ Known \subseteq Nat
           /\ \A c \in Known : /\ ParentsOf(c) \in Seq(Known) /\ DateOf(c) \in Nat
                               /\ \A p \in ToSet(ParentsOf(c)) : p \in Known /\ p < c
<1>1. IsFiniteSet(Known) /\ Known \subseteq Nat
  BY RevisionsAssumption, FS_Subset DEF GraphFits
<1>2. ASSUME NEW c \in Known
      PROVE  /\ Resolved(c) \in Known
             /\ \A p \in ToSet(parents[Resolved(c)]) : p < c
  <2>1. CASE c \in DOMAIN replaced
    BY <2>1 DEF GraphFits, Resolved
  <2>2. CASE c \notin DOMAIN replaced
    BY <2>2 DEF GraphFits, Resolved
  <2> QED
    BY <2>1, <2>2
<1>3. ASSUME NEW c \in Known PROVE ParentsOf(c) \in Seq(Known) /\ DateOf(c) \in Nat
  BY <1>2, RevisionsAssumption DEF ParentsOf, DateOf, GraphFits
<1>4. ASSUME NEW c \in Known PROVE \A p \in ToSet(ParentsOf(c)) : p \in Known /\ p < c
  <2>1. ToSet(ParentsOf(c)) \subseteq Known
    BY <1>3, Elements
  <2> QED
    BY <1>2, <2>1 DEF ParentsOf
<1> QED
  BY <1>1, <1>3, <1>4

LEMMA SelectedFacts ==
    ASSUME GraphFits, NEW c \in Known, NEW first \in BOOLEAN
    PROVE  /\ Selected(c, first) \in Seq(Known)
           /\ ToSet(Selected(c, first)) \subseteq ToSet(ParentsOf(c))
           /\ ToSet(Selected(c, first)) \subseteq Known
           /\ Selected(c, FALSE) = ParentsOf(c)
<1> DEFINE ps == ParentsOf(c)
<1>1. ps \in Seq(Known) /\ \A p \in ToSet(ps) : p \in Known
  BY GraphFacts
<1>2. Selected(c, first) = IF first /\ ps # <<>> THEN <<ps[1]>> ELSE ps
  BY DEF Selected
<1>3. Selected(c, FALSE) = ps
  BY DEF Selected
<1> HIDE DEF ps
<1>4. CASE first /\ ps # <<>>
  <2>1. 1 \in 1 .. Len(ps) /\ ps[1] \in Known
    BY <1>1, <1>4
  <2>2. ps[1] \in ToSet(ps)
    BY <1>1, <2>1, Elements
  <2> DEFINE one == <<ps[1]>>
  <2>3. one \in Seq(Known) /\ Len(one) = 1 /\ one[1] = ps[1]
    BY <2>1
  <2>4. Selected(c, first) = one
    BY <1>2, <1>4
  <2> HIDE DEF one
  <2>5. \A x \in ToSet(one) : x = ps[1]
    <3> SUFFICES ASSUME NEW x \in ToSet(one) PROVE x = ps[1]
      OBVIOUS
    <3>1. PICK i \in 1 .. Len(one) : one[i] = x
      BY <2>3, Elements
    <3> QED
      BY <2>3, <3>1
  <2> QED
    BY <1>1, <1>3, <2>2, <2>3, <2>4, <2>5 DEF ps
<1>5. CASE ~(first /\ ps # <<>>)
  BY <1>1, <1>2, <1>3, <1>5 DEF ps
<1> QED
  BY <1>4, <1>5

LEMMA AlongFacts ==
    ASSUME GraphFits, NEW first \in BOOLEAN
    PROVE  /\ Graded(Known, Along(first), Id)
           /\ \A c \in Known : Along(first)[c] =
                 IF c \in shallow THEN {} ELSE ToSet(Selected(c, first))
<1>1. ASSUME NEW c \in Known
      PROVE  Along(first)[c] = IF c \in shallow THEN {} ELSE ToSet(Selected(c, first))
  <2>1. Selected(c, FALSE) = ParentsOf(c)
    BY SelectedFacts
  <2>2. CASE first = TRUE
    BY <2>2 DEF Along, Firsts
  <2>3. CASE first = FALSE
    BY <2>1, <2>3 DEF Along, Here, Edges
  <2> QED
    BY <2>2, <2>3
<1>2. Along(first) \in [Known -> SUBSET Known]
  <2>1. \A c \in Known : Along(first)[c] \in SUBSET Known
    BY <1>1, SelectedFacts
  <2>2. Along(first) = [c \in Known |-> Along(first)[c]]
    BY DEF Along, Firsts, Here
  <2> QED
    BY <2>1, <2>2
<1>3. \A c \in Known : \A p \in Along(first)[c] : p < c
  BY <1>1, SelectedFacts, GraphFacts
<1>4. Id \in [Known -> Nat] /\ \A c \in Known : Id[c] = c
  BY GraphFacts DEF Id
<1>5. \A c \in Known : \A p \in Along(first)[c] : Id[p] < Id[c]
  BY <1>2, <1>3, <1>4
<1> QED
  BY <1>1, <1>2, <1>4, <1>5 DEF Graded

LEMMA EdgesFacts ==
    ASSUME GraphFits
    PROVE  /\ Graded(Known, Edges, Id)
           /\ \A c \in Known : Edges[c] = ToSet(ParentsOf(c))
           /\ shallow = {} => Along(FALSE) = Edges
<1>1. \A c \in Known : Edges[c] = ToSet(ParentsOf(c))
  BY DEF Edges
<1>2. Edges \in [Known -> SUBSET Known]
  <2>1. \A c \in Known : ToSet(ParentsOf(c)) \in SUBSET Known
    BY GraphFacts
  <2> QED
    BY <2>1 DEF Edges
<1>3. Id \in [Known -> Nat] /\ \A c \in Known : Id[c] = c
  BY GraphFacts DEF Id
<1>4. \A c \in Known : \A p \in Edges[c] : Id[p] < Id[c]
  BY <1>1, <1>2, <1>3, GraphFacts
<1>5. shallow = {} => Along(FALSE) = Edges
  BY DEF Along, Here, Edges
<1> QED
  BY <1>1, <1>2, <1>3, <1>4, <1>5 DEF Graded

\* load_reachable gives all that the roots lead to.
LEMMA LoadIs ==
    ASSUME GraphFits, NEW first \in BOOLEAN, NEW roots \in SUBSET Known
    PROVE  LoadReachable(roots, first) = ReachAll(Along(first), roots)
<1> DEFINE next == Along(first)
           all == ReachAll(next, roots)
           More(seen) == seen \cup UNION {ToSet(Selected(c, first)) : c \in seen \ shallow}
           S == SUBSET Known
           Stop == {x \in S : More(x) = x}
           step == [x \in S |-> More(x)]
           out == [x \in S |-> x]
           load == CHOOSE f : f = [seen \in SUBSET Known |->
                       LET more == seen \cup UNION {ToSet(Selected(c, first)) : c \in seen \ shallow}
                       IN  IF more = seen THEN seen ELSE f[more]]
<1>1. LoadReachable(roots, first) = load[roots]
  BY DEF LoadReachable
<1>2. \A x \in S : More(x) \in S
  BY SelectedFacts
<1>3. \E f : f = [x \in S |-> IF More(x) = x THEN x ELSE f[More(x)]]
  <2>1. \A x \in S \ Stop : step[x] \in S
    BY <1>2
  <2>2. \E f : Loops(S, Stop, out, step, f)
    <3> HIDE DEF S, Stop, step, out
    <3> QED
      BY <2>1, LoopExists
  <2>3. PICK f : f = [x \in S |-> IF x \in Stop THEN out[x] ELSE f[step[x]]]
    BY <2>2 DEF Loops
  <2>4. ASSUME NEW x \in S PROVE f[x] = IF More(x) = x THEN x ELSE f[More(x)]
    <3>1. x \in Stop <=> More(x) = x
      OBVIOUS
    <3>2. out[x] = x /\ step[x] = More(x)
      OBVIOUS
    <3> HIDE DEF S, Stop, step, out, More
    <3> QED
      BY <2>3, <3>1, <3>2
  <2>5. f = [x \in S |-> IF More(x) = x THEN x ELSE f[More(x)]]
    <3>1. f = [x \in S |-> f[x]]
      BY <2>3
    <3> HIDE DEF S, More
    <3> QED
      BY <2>4, <3>1
  <2> QED
    BY <2>5
<1>4. load = [x \in S |-> IF More(x) = x THEN x ELSE load[More(x)]]
  BY <1>3
<1> HIDE DEF load
<1>5. /\ roots \subseteq all /\ all \subseteq Known
      /\ \A x \in all : next[x] \subseteq all
      /\ \A Q : roots \subseteq Q /\ (\A p \in Known : p \in Q => next[p] \subseteq Q)
                   => all \subseteq Q
  BY AlongFacts, ReachAllIs
<1>6. \A c \in Known : next[c] = IF c \in shallow THEN {} ELSE ToSet(Selected(c, first))
  BY AlongFacts
<1> HIDE DEF next, all
<1> DEFINE G == {x \in S : roots \subseteq x /\ x \subseteq all}
           left == [x \in G |-> Known \ x]
<1>7. ASSUME NEW x \in G, More(x) = x PROVE load[x] \in {all}
  <2>1. \A p \in Known : p \in x => next[p] \subseteq x
    BY <1>6, <1>7
  <2>2. x = all
    BY <1>5, <2>1
  <2>3. load[x] = x
    BY <1>4, <1>7
  <2> QED
    BY <2>2, <2>3
<1>8. ASSUME NEW x \in G, More(x) # x
      PROVE  /\ step[x] \in G /\ load[x] = load[step[x]]
             /\ left[step[x]] \subseteq left[x] /\ left[step[x]] # left[x]
  <2>1. x \in S /\ More(x) \in S /\ step[x] = More(x)
    BY <1>2
  <2>2. load[x] = load[step[x]]
    BY <1>4, <1>8, <2>1
  <2>3. More(x) \subseteq all
    BY <1>5, <1>6
  <2>4. x \subseteq More(x) /\ More(x) \in G
    BY <2>1, <2>3
  <2>5. left[More(x)] = Known \ More(x) /\ left[x] = Known \ x
    BY <2>4
  <2> HIDE DEF More
  <2>6. Known \ More(x) \subseteq Known \ x /\ Known \ More(x) # Known \ x
    BY <1>8, <2>1, <2>4
  <2> QED
    BY <2>1, <2>2, <2>4, <2>5, <2>6
<1>9. roots \in G
  BY <1>5
<1>10. \A x \in G : load[x] \in {all}
  <2>1. \A x \in G : left[x] \subseteq Known
    OBVIOUS
  <2>2. \A x \in G : (x \in Stop <=> More(x) = x)
    OBVIOUS
  <2>3. IsFiniteSet(Known)
    BY GraphFacts
  <2> HIDE DEF G, Stop, step, left, More
  <2>4. \A x \in G : x \in Stop => load[x] \in {all}
    BY <1>7, <2>2
  <2>5. \A x \in G : x \notin Stop =>
               /\ step[x] \in G /\ load[x] = load[step[x]]
               /\ left[step[x]] \subseteq left[x] /\ left[step[x]] # left[x]
    BY <1>8, <2>2
  <2>6. Ends(Known, G, Stop, step, load, {all}, left)
    BY <2>1, <2>4, <2>5 DEF Ends
  <2> QED
    BY <2>3, <2>6, LoopEnds
<1> QED
  BY <1>1, <1>9, <1>10 DEF all, next

-------------------------------------------------------------------------------
(* Lists. *)

LEMMA NewestIn ==
    ASSUME GraphFits, NEW cs \in SUBSET Known, cs # {}
    PROVE  Newest(cs) \in cs
<1> DEFINE when == [c \in cs |-> DateOf(c)]
           Dates == {when[c] : c \in cs}
<1>1. IsFiniteSet(cs) /\ cs \subseteq Nat /\ \A c \in cs : DateOf(c) \in Nat
  BY GraphFacts, FS_Subset
<1>2. PICK d \in Dates : \A e \in Dates : e <= d
  <2>1. when \in Surjection(cs, Dates)
    BY DEF Surjection
  <2>2. Dates \in SUBSET Nat /\ Dates # {}
    BY <1>1
  <2> HIDE DEF Dates, when
  <2>3. IsFiniteSet(Dates)
    BY <1>1, <2>1, FS_Surjection
  <2> QED
    BY <2>2, <2>3, Greatest
<1> DEFINE Latest == {c \in cs : DateOf(c) = d}
<1>3. PICK c \in Latest : \A e \in Latest : e <= c
  <2>1. Latest \in SUBSET Nat /\ Latest # {} /\ Latest \in SUBSET cs
    BY <1>1, <1>2
  <2> HIDE DEF Latest
  <2>2. IsFiniteSet(Latest)
    BY <1>1, <2>1, FS_Subset
  <2> QED
    BY <2>1, <2>2, Greatest
<1>4. ASSUME NEW e \in cs \ {c}
      PROVE  DateOf(e) < DateOf(c) \/ (DateOf(e) = DateOf(c) /\ e < c)
  <2>1. c \in cs /\ DateOf(c) = d /\ e \in Nat /\ c \in Nat /\ DateOf(e) \in Nat /\ d \in Nat
    BY <1>1, <1>3
  <2>2. DateOf(e) <= d
    BY <1>2
  <2>3. DateOf(e) = d => e <= c
    BY <1>3
  <2> QED
    BY <2>1, <2>2, <2>3
<1> QED
  BY <1>3, <1>4 DEF Newest

\* A list of a set of commits: each once, and none before one that it is selected from.
Ordered(list, visible, first) ==
    /\ list \in Seq(visible)
    /\ \A i, j \in 1 .. Len(list) : list[i] = list[j] => i = j
    /\ \A c \in visible : \E i \in 1 .. Len(list) : list[i] = c
    /\ \A i, j \in 1 .. Len(list) : list[j] \in ToSet(Selected(list[i], first)) => i < j

\* Such a list as far as it has come: what is left leads to nothing of it.
Begun(out, visible, first) ==
    /\ out \in Seq(visible)
    /\ \A i, j \in 1 .. Len(out) : out[i] = out[j] => i = j
    /\ \A d \in visible : \/ \E i \in 1 .. Len(out) : out[i] = d
                          \/ \A i \in 1 .. Len(out) : out[i] \notin ToSet(Selected(d, first))
    /\ \A i, j \in 1 .. Len(out) : out[j] \in ToSet(Selected(out[i], first)) => i < j

LEMMA BegunOn ==
    ASSUME NEW visible, NEW first, NEW out, Begun(out, visible, first), NEW c \in visible,
           \A i \in 1 .. Len(out) : out[i] # c,
           \A d \in visible : (\A i \in 1 .. Len(out) : out[i] # d)
                                 => c \notin ToSet(Selected(d, first))
    PROVE  Begun(Append(out, c), visible, first)
<1> DEFINE n == Len(out)
           new == Append(out, c)
<1>1. /\ n \in Nat /\ new \in Seq(visible) /\ Len(new) = n + 1
      /\ \A i \in 1 .. n : new[i] = out[i]
      /\ new[n + 1] = c
  BY DEF Begun
<1> HIDE DEF new
<1>2. ASSUME NEW i \in 1 .. n + 1, i \notin 1 .. n PROVE i = n + 1
  BY <1>1, <1>2
<1>3. ASSUME NEW i \in 1 .. n + 1, NEW j \in 1 .. n + 1, new[i] = new[j] PROVE i = j
  <2>1. CASE i \in 1 .. n /\ j \in 1 .. n
    BY <1>1, <1>3, <2>1 DEF Begun
  <2>2. CASE i \in 1 .. n /\ j \notin 1 .. n
    BY <1>1, <1>2, <1>3, <2>2
  <2>3. CASE i \notin 1 .. n /\ j \in 1 .. n
    BY <1>1, <1>2, <1>3, <2>3
  <2>4. CASE i \notin 1 .. n /\ j \notin 1 .. n
    BY <1>2, <2>4
  <2> QED
    BY <2>1, <2>2, <2>3, <2>4
<1>4. ASSUME NEW d \in visible, \A i \in 1 .. n + 1 : new[i] # d
      PROVE  \A i \in 1 .. n + 1 : new[i] \notin ToSet(Selected(d, first))
  <2>1. \A i \in 1 .. n : out[i] # d
    <3> SUFFICES ASSUME NEW i \in 1 .. n PROVE out[i] # d
      OBVIOUS
    <3>1. i \in 1 .. n + 1
      BY <1>1
    <3> QED
      BY <1>1, <1>4, <3>1
  <2>2. c \notin ToSet(Selected(d, first))
    BY <2>1
  <2>3. \A i \in 1 .. n : out[i] \notin ToSet(Selected(d, first))
    BY <2>1 DEF Begun
  <2> QED
    BY <1>1, <1>2, <2>2, <2>3
<1>5. ASSUME NEW i \in 1 .. n + 1, NEW j \in 1 .. n + 1, new[j] \in ToSet(Selected(new[i], first))
      PROVE  i < j
  <2>1. CASE i \in 1 .. n /\ j \in 1 .. n
    BY <1>1, <1>5, <2>1 DEF Begun
  <2>2. CASE i \in 1 .. n /\ j \notin 1 .. n
    BY <1>1, <1>2, <2>2
  <2>3. CASE i \notin 1 .. n
    <3>1. new[i] = c
      BY <1>1, <1>2, <2>3
    <3>2. c \notin ToSet(Selected(c, first))
      OBVIOUS
    <3>3. \A k \in 1 .. n : out[k] \notin ToSet(Selected(c, first))
      BY DEF Begun
    <3>4. j \in 1 .. n
      BY <1>1, <1>2, <1>5, <3>1, <3>2
    <3> QED
      BY <1>1, <1>5, <3>1, <3>3, <3>4
  <2> QED
    BY <2>1, <2>2, <2>3
<1> QED
  BY <1>1, <1>3, <1>4, <1>5 DEF Begun, new

\* Of commits that are left there is one that none of them leads to.
LEMMA SomeReady ==
    ASSUME GraphFits, NEW left \in SUBSET Known, left # {}, NEW first \in BOOLEAN
    PROVE  left \ UNION {ToSet(Selected(d, first)) : d \in left} # {}
<1>1. left \in SUBSET Nat /\ IsFiniteSet(left)
  BY GraphFacts, FS_Subset
<1>2. PICK m \in left : \A d \in left : d <= m
  BY <1>1, Greatest
<1>3. ASSUME NEW d \in left, m \in ToSet(Selected(d, first)) PROVE FALSE
  <2>1. m < d /\ d \in Nat /\ m \in Nat
    BY <1>3, <1>1, SelectedFacts, GraphFacts
  <2> QED
    BY <1>2, <2>1
<1> QED
  BY <1>3

LEMMA OrderIs ==
    ASSUME GraphFits, NEW visible \in SUBSET Known, NEW first \in BOOLEAN
    PROVE  Ordered(TopoOrder(visible, first), visible, first)
<1> DEFINE Ready(out) == LET left == visible \ ToSet(out)
                         IN  left \ UNION {ToSet(Selected(d, first)) : d \in left}
           S == Seq(visible)
           Stop == {x \in S : Ready(x) = {}}
           step == [x \in S |-> Append(x, Newest(Ready(x)))]
           id == [x \in S |-> x]
           put == CHOOSE f : f = [out \in Seq(visible) |->
                    LET left  == visible \ ToSet(out)
                        ready == left \ UNION {ToSet(Selected(d, first)) : d \in left}
                    IN  IF ready = {} THEN out ELSE f[Append(out, Newest(ready))]]
<1>1. TopoOrder(visible, first) = put[<<>>]
  BY DEF TopoOrder
<1>2. \A x \in S : Ready(x) # {} => Newest(Ready(x)) \in Ready(x)
  <2> SUFFICES ASSUME NEW x \in S, Ready(x) # {} PROVE Newest(Ready(x)) \in Ready(x)
    OBVIOUS
  <2>1. Ready(x) \in SUBSET Known
    OBVIOUS
  <2> HIDE DEF Ready
  <2> QED
    BY <2>1, NewestIn
<1>3. \E f : f = [x \in S |-> IF Ready(x) = {} THEN x ELSE f[Append(x, Newest(Ready(x)))]]
  <2>1. \A x \in S \ Stop : step[x] \in S
    <3> SUFFICES ASSUME NEW x \in S, Ready(x) # {} PROVE step[x] \in S
      OBVIOUS
    <3>1. Newest(Ready(x)) \in visible
      <4>1. Ready(x) \subseteq visible
        OBVIOUS
      <4> HIDE DEF Ready
      <4> QED
        BY <1>2, <4>1
    <3> HIDE DEF Ready
    <3> QED
      BY <3>1
  <2>2. \E f : Loops(S, Stop, id, step, f)
    <3> HIDE DEF S, Stop, step, id
    <3> QED
      BY <2>1, LoopExists
  <2>3. PICK f : f = [x \in S |-> IF x \in Stop THEN id[x] ELSE f[step[x]]]
    BY <2>2 DEF Loops
  <2>4. ASSUME NEW x \in S
        PROVE  f[x] = IF Ready(x) = {} THEN x ELSE f[Append(x, Newest(Ready(x)))]
    <3>1. x \in Stop <=> Ready(x) = {}
      OBVIOUS
    <3>2. id[x] = x /\ step[x] = Append(x, Newest(Ready(x)))
      OBVIOUS
    <3> HIDE DEF S, Stop, step, id, Ready
    <3> QED
      BY <2>3, <3>1, <3>2
  <2>5. f = [x \in S |-> IF Ready(x) = {} THEN x ELSE f[Append(x, Newest(Ready(x)))]]
    <3>1. f = [x \in S |-> f[x]]
      BY <2>3
    <3> HIDE DEF S, Ready
    <3> QED
      BY <2>4, <3>1
  <2> QED
    BY <2>5
<1>4. put = [x \in S |-> IF Ready(x) = {} THEN x ELSE put[Append(x, Newest(Ready(x)))]]
  BY <1>3
<1> HIDE DEF put
<1> DEFINE G == {x \in S : Begun(x, visible, first)}
           R == {x \in S : Ordered(x, visible, first)}
           left == [x \in S |-> visible \ ToSet(x)]
<1>5. \A x \in S : \A c : c \in ToSet(x) <=> \E i \in 1 .. Len(x) : x[i] = c
  BY Elements
<1>6. ASSUME NEW x \in G, Ready(x) = {} PROVE put[x] \in R
  <2>1. visible \ ToSet(x) = {}
    BY <1>6, SomeReady
  <2>2. Ordered(x, visible, first)
    BY <1>5, <2>1 DEF Begun, Ordered
  <2>3. put[x] = x
    BY <1>4, <1>6
  <2> QED
    BY <2>2, <2>3
<1>7. ASSUME NEW x \in G, Ready(x) # {}
      PROVE  /\ step[x] \in G /\ put[x] = put[step[x]]
             /\ left[step[x]] \subseteq left[x] /\ left[step[x]] # left[x]
  <2> DEFINE c == Newest(Ready(x))
             new == Append(x, c)
  <2>1. c \in Ready(x)
    <3> HIDE DEF Ready
    <3> QED
      BY <1>2, <1>7
  <2>2. /\ c \in visible /\ c \notin ToSet(x)
        /\ \A d \in visible : d \notin ToSet(x) => c \notin ToSet(Selected(d, first))
    <3> HIDE DEF c
    <3> QED
      BY <2>1
  <2> HIDE DEF c
  <2>3. x \in S /\ new \in S /\ step[x] = new
    BY <2>2 DEF c
  <2>4. Begun(new, visible, first)
    BY <1>5, <2>2, BegunOn
  <2>5. put[x] = put[new]
    BY <1>4, <1>7, <2>3 DEF c
  <2>6. Len(new) = Len(x) + 1 /\ new[Len(x) + 1] = c /\ \A i \in 1 .. Len(x) : new[i] = x[i]
    BY <2>2, <2>3
  <2>7. c \in ToSet(new) /\ ToSet(x) \subseteq ToSet(new)
    <3>1. Len(x) \in Nat /\ Len(x) + 1 \in 1 .. Len(new)
      BY <2>6
    <3>2. ASSUME NEW y \in ToSet(x) PROVE y \in ToSet(new)
      <4>1. PICK i \in 1 .. Len(x) : x[i] = y
        BY <1>5
      <4>2. i \in 1 .. Len(new) /\ new[i] = y
        BY <2>6, <3>1, <4>1
      <4> QED
        BY <1>5, <2>3, <4>2
    <3> QED
      BY <1>5, <2>3, <2>6, <3>1, <3>2
  <2>8. left[new] = visible \ ToSet(new) /\ left[x] = visible \ ToSet(x)
    BY <2>3
  <2> HIDE DEF new, step, left
  <2> QED
    BY <2>2, <2>3, <2>4, <2>5, <2>7, <2>8
<1>8. <<>> \in G
  <2>1. <<>> \in Seq(visible) /\ Len(<<>>) = 0 /\ 1 .. 0 = {}
    OBVIOUS
  <2> QED
    BY <2>1 DEF Begun
<1>9. \A x \in G : put[x] \in R
  <2>1. \A x \in G : left[x] \subseteq visible
    OBVIOUS
  <2>2. \A x \in G : (x \in Stop <=> Ready(x) = {})
    OBVIOUS
  <2>3. IsFiniteSet(visible)
    BY GraphFacts, FS_Subset
  <2> HIDE DEF G, R, Stop, step, left, Ready
  <2>4. Ends(visible, G, Stop, step, put, R, left)
    BY <1>6, <1>7, <2>1, <2>2 DEF Ends
  <2> QED
    BY <2>3, <2>4, LoopEnds
<1> QED
  BY <1>1, <1>8, <1>9

-------------------------------------------------------------------------------
(* Ancestry. *)

LEMMA MaxIs ==
    ASSUME NEW T \in SUBSET Nat, IsFiniteSet(T), T # {}
    PROVE  Max(T) \in T /\ \A n \in T : n <= Max(T)
<1>1. \E m \in T : \A n \in T : m >= n
  <2>1. PICK m \in T : \A n \in T : n <= m
    BY Greatest
  <2>2. \A n \in T : n \in Nat /\ m \in Nat
    OBVIOUS
  <2> QED
    BY <2>1, <2>2
<1>2. Max(T) \in T /\ \A n \in T : Max(T) >= n
  BY <1>1 DEF Max
<1>3. \A n \in T : n \in Nat /\ Max(T) \in Nat
  BY <1>2
<1> QED
  BY <1>2, <1>3

\* A generation above those that are given for the parents.
Above(g, c) == LET below == {g[p] : p \in ToSet(parents[c])}
               IN  IF below = {} THEN 1 ELSE 1 + Max(below)

LEMMA AboveIs ==
    ASSUME GraphFits, NEW g, \A c \in Known : g[c] \in Nat, NEW c \in Known
    PROVE  Above(g, c) \in Nat /\ \A p \in ToSet(parents[c]) : g[p] < Above(g, c)
<1> DEFINE ps == ToSet(parents[c])
           value == [p \in ps |-> g[p]]
           below == {g[p] : p \in ps}
<1>1. ps \in SUBSET Known /\ IsFiniteSet(ps)
  <2>1. ps \in SUBSET Known
    BY Elements DEF GraphFits
  <2> QED
    BY <2>1, GraphFacts, FS_Subset
<1>2. below \in SUBSET Nat /\ IsFiniteSet(below)
  <2>1. value \in Surjection(ps, below)
    BY DEF Surjection
  <2> HIDE DEF value, ps
  <2>2. below \in SUBSET Nat
    BY <1>1
  <2> HIDE DEF below
  <2> QED
    BY <1>1, <2>1, <2>2, FS_Surjection
<1>3. Above(g, c) = IF below = {} THEN 1 ELSE 1 + Max(below)
  BY DEF Above
<1>4. \A p \in ps : g[p] \in below
  OBVIOUS
<1> HIDE DEF below
<1>5. CASE below = {}
  BY <1>3, <1>4, <1>5
<1>6. CASE below # {}
  <2>1. Max(below) \in below /\ \A n \in below : n <= Max(below)
    BY <1>2, <1>6, MaxIs
  <2>2. Max(below) \in Nat /\ \A n \in below : n \in Nat
    BY <1>2, <2>1
  <2>3. \A p \in ps : g[p] < 1 + Max(below)
    BY <1>4, <2>1, <2>2
  <2> QED
    BY <1>3, <1>6, <2>2, <2>3
<1> QED
  BY <1>5, <1>6

\* Generations exist: counted for all commits again and again, they no longer change for
\* the smaller ids.
LEMMA GenerationsExist ==
    ASSUME GraphFits
    PROVE  \E g : g = [c \in Known |-> Above(g, c)]
<1> DEFINE base == [c \in Known |-> 0]
           step == [w \in Nat \X [Known -> Nat] |-> [c \in Known |-> Above(w[2], c)]]
<1>1. PICK m \in Nat : \A c \in Known : c <= m
  <2>1. CASE Known = {}
    BY <2>1
  <2>2. CASE Known # {}
    BY <2>2, GraphFacts, Greatest
  <2> QED
    BY <2>1, <2>2
<1>2. \E f : Counts(0, m + 1, base, step, f)
  <2>1. 0 \in Nat /\ m + 1 \in Nat
    OBVIOUS
  <2> HIDE DEF base, step
  <2> QED
    BY <2>1, CountExists
<1>3. PICK f : f = [i \in 0 .. m + 1 |-> IF i = 0 THEN base ELSE step[<<i, f[i - 1]>>]]
  BY <1>2 DEF Counts
<1>4. 0 .. m + 1 \subseteq {i \in 0 .. m + 1 : f[i] \in [Known -> Nat]}
  <2> DEFINE Good == {i \in 0 .. m + 1 : f[i] \in [Known -> Nat]}
  <2>1. 0 \in Good
    <3>1. f[0] = base
      BY <1>3
    <3> QED
      BY <3>1
  <2>2. ASSUME NEW i \in 0 + 1 .. m + 1, i - 1 \in Good PROVE i \in Good
    <3>1. i \in 0 .. m + 1 /\ i # 0 /\ i \in Nat
      OBVIOUS
    <3>2. f[i] = step[<<i, f[i - 1]>>]
      BY <1>3, <3>1
    <3>3. f[i - 1] \in [Known -> Nat]
      BY <2>2
    <3>4. f[i] = [c \in Known |-> Above(f[i - 1], c)]
      BY <3>1, <3>2, <3>3
    <3>5. \A c \in Known : Above(f[i - 1], c) \in Nat
      BY <3>3, AboveIs
    <3> QED
      BY <3>1, <3>4, <3>5
  <2> HIDE DEF Good
  <2>3. 0 .. m + 1 \subseteq Good
    BY <2>1, <2>2, Climb
  <2> QED
    BY <2>3 DEF Good
<1>5. ASSUME NEW i \in 1 .. m + 1
      PROVE  f[i] = [c \in Known |-> Above(f[i - 1], c)]
  <2>1. i \in 0 .. m + 1 /\ i - 1 \in 0 .. m + 1 /\ i # 0 /\ i \in Nat
    OBVIOUS
  <2>2. f[i] = step[<<i, f[i - 1]>>]
    BY <1>3, <2>1
  <2>3. f[i - 1] \in [Known -> Nat]
    BY <1>4, <2>1
  <2> QED
    BY <2>1, <2>2, <2>3
<1>6. 0 .. m \subseteq {i \in 0 .. m : \A c \in Known : c <= i => f[i + 1][c] = f[i][c]}
  <2> DEFINE Good == {i \in 0 .. m : \A c \in Known : c <= i => f[i + 1][c] = f[i][c]}
  <2>0. \A c \in Known : c \in Nat /\ c # 0
    BY RevisionsAssumption DEF GraphFits
  <2>1. 0 \in Good
    <3>1. \A c \in Known : ~(c <= 0)
      BY <2>0
    <3>2. 0 \in 0 .. m
      OBVIOUS
    <3> QED
      BY <3>1, <3>2
  <2>2. ASSUME NEW i \in 0 + 1 .. m, i - 1 \in Good PROVE i \in Good
    <3>1. /\ i \in Nat /\ i \in 1 .. m + 1 /\ i + 1 \in 1 .. m + 1 /\ (i + 1) - 1 = i
          /\ i - 1 \in Nat /\ (i - 1) + 1 = i /\ i \in 0 .. m
      OBVIOUS
    <3>2. ASSUME NEW c \in Known, c <= i PROVE f[i + 1][c] = f[i][c]
      <4>0. f[i + 1] = [x \in Known |-> Above(f[i], x)] /\ f[i] = [x \in Known |-> Above(f[i - 1], x)]
        <5>1. \A j \in 1 .. m + 1 : f[j] = [x \in Known |-> Above(f[j - 1], x)]
          BY <1>5
        <5>2. f[i + 1] = [x \in Known |-> Above(f[(i + 1) - 1], x)]
          BY <3>1, <5>1
        <5> QED
          BY <3>1, <5>1, <5>2
      <4>1. f[i + 1][c] = Above(f[i], c) /\ f[i][c] = Above(f[i - 1], c)
        BY <4>0
      <4>2. ASSUME NEW p \in ToSet(parents[c]) PROVE f[i][p] = f[i - 1][p]
        <5>1. p \in Known /\ p < c
          BY Elements DEF GraphFits
        <5>2. p \in Nat /\ c \in Nat /\ p <= i - 1
          BY <2>0, <3>1, <3>2, <5>1
        <5> QED
          BY <2>2, <3>1, <5>1, <5>2
      <4>3. {f[i][p] : p \in ToSet(parents[c])} = {f[i - 1][p] : p \in ToSet(parents[c])}
        BY <4>2
      <4>4. Above(f[i], c) = Above(f[i - 1], c)
        BY <4>3 DEF Above
      <4> QED
        BY <4>1, <4>4
    <3> QED
      BY <3>1, <3>2
  <2> HIDE DEF Good
  <2>3. 0 .. m \subseteq Good
    BY <2>1, <2>2, Climb
  <2> QED
    BY <2>3 DEF Good
<1> DEFINE g == f[m]
<1>7. \A c \in Known : g[c] = Above(g, c)
  <2>1. m + 1 \in 1 .. m + 1 /\ (m + 1) - 1 = m /\ m \in 0 .. m
    OBVIOUS
  <2>2. f[m + 1] = [c \in Known |-> Above(f[m], c)]
    BY <1>5, <2>1
  <2>3. \A c \in Known : f[m + 1][c] = f[m][c]
    BY <1>1, <1>6, <2>1
  <2> QED
    BY <2>2, <2>3
<1>8. g = [c \in Known |-> g[c]]
  <2>1. m \in 0 .. m + 1
    OBVIOUS
  <2> QED
    BY <1>4, <2>1
<1> HIDE DEF g
<1>9. g = [c \in Known |-> Above(g, c)]
  BY <1>7, <1>8
<1> QED
  BY <1>9

LEMMA GenerationIs ==
    ASSUME GraphFits
    PROVE  \A c \in Known : /\ Generation[c] \in Nat
                            /\ \A p \in ToSet(parents[c]) : Generation[p] < Generation[c]
<1>1. \E g : g = [c \in Known |-> Above(g, c)]
  BY GenerationsExist
<1>2. Generation = [c \in Known |-> Above(Generation, c)]
  BY <1>1 DEF Generation, Above
<1>3. \A c \in Known : Generation[c] = Above(Generation, c)
  BY <1>2
<1>p. \A c \in Known : \A p \in ToSet(parents[c]) : p \in Known /\ p < c
  BY Elements DEF GraphFits
<1>4. \A c \in Known : Generation[c] \in Nat
  <2> DEFINE Bad == {c \in Known : Generation[c] \notin Nat}
  <2> SUFFICES ASSUME Bad # {} PROVE FALSE
    OBVIOUS
  <2>1. Bad \in SUBSET Nat
    BY GraphFacts
  <2>2. PICK c \in Bad : \A d \in Bad : c <= d
    <3> HIDE DEF Bad
    <3> QED
      BY <2>1, Least
  <2> DEFINE g == [d \in Known |-> IF d < c THEN Generation[d] ELSE 0]
  <2>3. \A d \in Known : g[d] \in Nat
    <3> SUFFICES ASSUME NEW d \in Known, d < c PROVE Generation[d] \in Nat
      OBVIOUS
    <3>1. d \in Nat /\ c \in Nat /\ d \notin Bad
      BY <2>1, <2>2, GraphFacts
    <3> QED
      BY <3>1
  <2>4. \A p \in ToSet(parents[c]) : g[p] = Generation[p]
    BY <1>p
  <2> HIDE DEF g
  <2>5. {g[p] : p \in ToSet(parents[c])} = {Generation[p] : p \in ToSet(parents[c])}
    BY <2>4
  <2>6. Above(g, c) = Above(Generation, c)
    BY <2>5 DEF Above
  <2>7. Above(g, c) \in Nat
    BY <2>3, AboveIs
  <2> QED
    BY <1>3, <2>6, <2>7
<1>5. ASSUME NEW c \in Known PROVE \A p \in ToSet(parents[c]) : Generation[p] < Generation[c]
  <2>1. \A p \in ToSet(parents[c]) : Generation[p] < Above(Generation, c)
    <3> DEFINE g == Generation
    <3>1. \A d \in Known : g[d] \in Nat
      BY <1>4
    <3> HIDE DEF g
    <3>2. \A p \in ToSet(parents[c]) : g[p] < Above(g, c)
      BY <3>1, AboveIs
    <3> QED
      BY <3>2 DEF g
  <2> QED
    BY <1>3, <2>1
<1> QED
  BY <1>4, <1>5


\* What a place leads to is of a lower rank.
LEMMA LowerBehind ==
    ASSUME NEW V, NEW next, NEW rank, Graded(V, next, rank), NEW y \in V,
           NEW x \in Reach(next, y), x # y
    PROVE  rank[x] < rank[y]
<1> DEFINE S == {z \in V : z = y \/ rank[z] < rank[y]}
<1>1. ASSUME NEW p \in V, p \in S PROVE next[p] \subseteq S
  <2> SUFFICES ASSUME NEW u \in next[p] PROVE u \in S
    OBVIOUS
  <2>1. u \in V /\ rank[u] < rank[p] /\ rank[u] \in Nat /\ rank[p] \in Nat /\ rank[y] \in Nat
    BY DEF Graded
  <2>2. p = y \/ rank[p] < rank[y]
    BY <1>1
  <2> QED
    BY <2>1, <2>2
<1>2. y \in S
  OBVIOUS
<1> HIDE DEF S
<1>3. Reach(next, y) \subseteq S
  BY <1>1, <1>2, ReachIs
<1> QED
  BY <1>3 DEF S

\* Reachability goes on from what is reached.
LEMMA ReachOn ==
    ASSUME NEW V, NEW next, NEW rank, Graded(V, next, rank), NEW y \in V,
           NEW x \in Reach(next, y)
    PROVE  x \in V /\ Reach(next, x) \subseteq Reach(next, y)
<1>1. /\ Reach(next, y) \subseteq V
      /\ \A p \in Reach(next, y) : next[p] \subseteq Reach(next, y)
  BY ReachIs
<1> QED
  BY <1>1, ReachIs

\* With nothing replaced and no commit shallow, the file leads where the commits do.
LEMMA FileGraded ==
    ASSUME GraphFits, shallow = {}, DOMAIN replaced = {}
    PROVE  /\ Graded(Known, Here, Generation)
           /\ \A c \in Known : Here[c] = ToSet(parents[c])
<1>1. \A c \in Known : ParentsOf(c) = parents[c]
  BY DEF ParentsOf, Resolved
<1>2. \A c \in Known : Here[c] = ToSet(parents[c])
  BY <1>1 DEF Here, Edges
<1>3. Here \in [Known -> SUBSET Known]
  <2>1. Graded(Known, Along(FALSE), Id)
    BY AlongFacts
  <2> QED
    BY <2>1 DEF Graded, Along
<1>4. Generation \in [Known -> Nat]
  <2>1. \E g : g = [c \in Known |-> Above(g, c)]
    BY GenerationsExist
  <2>2. Generation = [c \in Known |-> Above(Generation, c)]
    BY <2>1 DEF Generation, Above
  <2>3. \A c \in Known : Generation[c] \in Nat
    BY GenerationIs
  <2> DEFINE g == Generation
  <2>4. g = [c \in Known |-> g[c]]
    <3>1. g = [c \in Known |-> Above(g, c)]
      BY <2>2
    <3> HIDE DEF g
    <3> QED
      BY <3>1
  <2>5. \A c \in Known : g[c] \in Nat
    BY <2>3
  <2> HIDE DEF g
  <2>6. g \in [Known -> Nat]
    BY <2>4, <2>5
  <2> QED
    BY <2>6 DEF g
<1>5. \A c \in Known : \A p \in Here[c] : Generation[p] < Generation[c]
  BY <1>2, GenerationIs
<1> QED
  BY <1>2, <1>3, <1>4, <1>5 DEF Graded

\* What a walk in the file has found so far, of what leads to a.
Searched(at, a, d, rank) ==
    /\ at.pending \subseteq Reach(Here, d) /\ at.seen \subseteq Reach(Here, d)
    /\ a \notin at.seen /\ d \in at.pending \cup at.seen
    /\ at.pending \cap at.seen = {}
    /\ \A c \in at.seen : rank[c] > rank[a] => Here[c] \subseteq at.seen \cup at.pending

LEMMA SearchEnds ==
    ASSUME NEW V, NEW rank, Graded(V, Here, rank), NEW a \in V, NEW d \in V,
           NEW at, Searched(at, a, d, rank), at.pending = {}
    PROVE  a \notin Reach(Here, d)
<1> DEFINE seen == at.seen
           Q == {x \in V : x \in seen \/ a \notin Reach(Here, x)}
<1>1. seen \subseteq V /\ a \notin seen /\ d \in seen
  BY ReachIs DEF Searched
<1>2. \A c \in seen : rank[c] > rank[a] => Here[c] \subseteq seen
  BY DEF Searched
<1> HIDE DEF seen
<1>3. ASSUME NEW p \in V, p \in Q PROVE Here[p] \subseteq Q
  <2>1. Here[p] \subseteq V /\ Here[p] \subseteq Reach(Here, p)
    BY ReachIs DEF Graded
  <2>2. CASE p \in seen /\ rank[p] > rank[a]
    BY <1>2, <2>1, <2>2
  <2>3. CASE ~(p \in seen /\ rank[p] > rank[a])
    <3>1. a \notin Reach(Here, p)
      <4>1. CASE p \in seen
        <5>1. a # p
          BY <1>1, <4>1
        <5>2. a \in Reach(Here, p) => rank[a] < rank[p]
          BY <5>1, LowerBehind
        <5>3. rank[a] \in Nat /\ rank[p] \in Nat
          BY DEF Graded
        <5> QED
          BY <2>3, <4>1, <5>2, <5>3
      <4>2. CASE p \notin seen
        BY <1>3, <4>2
      <4> QED
        BY <4>1, <4>2
    <3>2. \A u \in Here[p] : Reach(Here, u) \subseteq Reach(Here, p)
      BY <2>1, ReachOn
    <3> QED
      BY <2>1, <3>1, <3>2
  <2> QED
    BY <2>2, <2>3
<1>4. d \in Q
  BY <1>1
<1> HIDE DEF Q
<1>5. Reach(Here, d) \subseteq Q
  BY <1>3, <1>4, ReachIs
<1>6. a \notin Q
  BY <1>1, ReachIs DEF Q
<1> QED
  BY <1>5, <1>6

LEMMA SearchGoesOn ==
    ASSUME NEW V, NEW rank, Graded(V, Here, rank), NEW a \in V, NEW d \in V,
           NEW at, Searched(at, a, d, rank), a \notin at.pending,
           NEW new,
           new.seen = at.seen \cup at.pending,
           new.pending = (UNION {Here[c] : c \in {x \in at.pending : rank[x] > rank[a]}}) \ new.seen
    PROVE  Searched(new, a, d, rank)
<1> DEFINE more == UNION {Here[c] : c \in {x \in at.pending : rank[x] > rank[a]}}
<1>1. \A c \in Reach(Here, d) : Here[c] \subseteq Reach(Here, d)
  BY ReachIs
<1>2. new.pending \subseteq Reach(Here, d) /\ new.seen \subseteq Reach(Here, d)
  BY <1>1 DEF Searched
<1>5. new.pending = more \ new.seen
  OBVIOUS
<1>6. \A c \in at.pending : rank[c] > rank[a] => Here[c] \subseteq more
  OBVIOUS
<1> HIDE DEF more
<1>3. a \notin new.seen /\ d \in new.pending \cup new.seen /\ new.pending \cap new.seen = {}
  BY <1>5 DEF Searched
<1>4. ASSUME NEW c \in new.seen, rank[c] > rank[a] PROVE Here[c] \subseteq new.seen \cup new.pending
  <2>1. CASE c \in at.seen
    BY <1>4, <2>1 DEF Searched
  <2>2. CASE c \in at.pending
    BY <1>4, <1>5, <1>6, <2>2
  <2> QED
    BY <2>1, <2>2
<1> QED
  BY <1>2, <1>3, <1>4 DEF Searched

\* A walk in the file finds an ancestor if there is one.
LEMMA WalkFileIs ==
    ASSUME GraphFits, shallow = {}, DOMAIN replaced = {}, NEW a \in Known, NEW d \in Known
    PROVE  WalkFile(a, d) = (a \in Reach(Here, d))
<1> DEFINE Deeper(cs) == {c \in cs : Generation[c] > Generation[a]}
           Seen(at) == at.seen \cup at.pending
           More(at) == (UNION {ToSet(parents[c]) : c \in Deeper(at.pending)}) \ Seen(at)
           Next0(at) == [pending |-> More(at), seen |-> Seen(at)]
           Over(at) == at.pending = {} \/ a \in at.pending
           S == [pending : SUBSET Known, seen : SUBSET Known]
           Stop == {x \in S : Over(x)}
           step == [x \in S |-> Next0(x)]
           out == [x \in S |-> a \in x.pending]
           walk == CHOOSE f : f = [at \in [pending : SUBSET Known, seen : SUBSET Known] |->
                     LET seen == at.seen \cup at.pending
                         more == (UNION {ToSet(parents[c]) : c \in Deeper(at.pending)}) \ seen
                     IN  IF at.pending = {} \/ a \in at.pending THEN a \in at.pending
                         ELSE f[[pending |-> more, seen |-> seen]]]
           start == [pending |-> {d}, seen |-> {}]
<1>1. WalkFile(a, d) = walk[start]
  BY DEF WalkFile
<1>2. \A x \in S : Next0(x) \in S
  <2>1. \A c \in Known : ToSet(parents[c]) \subseteq Known
    BY FileGraded DEF Graded
  <2> QED
    BY <2>1
<1>3. \E f : f = [x \in S |-> IF Over(x) THEN a \in x.pending ELSE f[Next0(x)]]
  <2>1. \A x \in S \ Stop : step[x] \in S
    BY <1>2
  <2>2. \E f : Loops(S, Stop, out, step, f)
    <3> HIDE DEF S, Stop, step, out
    <3> QED
      BY <2>1, LoopExists
  <2>3. PICK f : f = [x \in S |-> IF x \in Stop THEN out[x] ELSE f[step[x]]]
    BY <2>2 DEF Loops
  <2>4. ASSUME NEW x \in S PROVE f[x] = IF Over(x) THEN a \in x.pending ELSE f[Next0(x)]
    <3>1. x \in Stop <=> Over(x)
      OBVIOUS
    <3>2. out[x] = (a \in x.pending) /\ step[x] = Next0(x)
      OBVIOUS
    <3> HIDE DEF S, Stop, step, out, Next0, Over
    <3> QED
      BY <2>3, <3>1, <3>2
  <2>5. f = [x \in S |-> IF Over(x) THEN a \in x.pending ELSE f[Next0(x)]]
    <3>1. f = [x \in S |-> f[x]]
      BY <2>3
    <3> HIDE DEF S, Next0, Over
    <3> QED
      BY <2>4, <3>1
  <2> QED
    BY <2>5
<1>4. walk = [x \in S |-> IF Over(x) THEN a \in x.pending ELSE walk[Next0(x)]]
  BY <1>3
<1> HIDE DEF walk
<1> DEFINE G == {x \in S : Searched(x, a, d, Generation)}
           R == {(a \in Reach(Here, d))}
           left == [x \in G |-> Known \ x.seen]
<1>5. Graded(Known, Here, Generation) /\ \A c \in Known : Here[c] = ToSet(parents[c])
  BY FileGraded
<1>6. ASSUME NEW x \in G, Over(x) PROVE walk[x] \in R
  <2>1. walk[x] = (a \in x.pending)
    BY <1>4, <1>6
  <2>2. (a \in x.pending) <=> (a \in Reach(Here, d))
    <3>1. CASE a \in x.pending
      BY <3>1 DEF Searched
    <3>2. CASE a \notin x.pending
      <4>1. x.pending = {} /\ Searched(x, a, d, Generation)
        BY <1>6, <3>2
      <4>2. a \notin Reach(Here, d)
        <5> HIDE DEF G, Over
        <5> QED
          BY <1>5, <4>1, SearchEnds
      <4> QED
        BY <3>2, <4>2
    <3> QED
      BY <3>1, <3>2
  <2>3. (a \in x.pending) = (a \in Reach(Here, d))
    BY <2>2
  <2>4. walk[x] = (a \in Reach(Here, d))
    BY <2>1, <2>3
  <2> HIDE DEF walk
  <2> QED
    BY <2>4, Zenon
<1>7. ASSUME NEW x \in G, ~Over(x)
      PROVE  /\ step[x] \in G /\ walk[x] = walk[step[x]]
             /\ left[step[x]] \subseteq left[x] /\ left[step[x]] # left[x]
  <2> DEFINE new == Next0(x)
  <2>1. x \in S /\ new \in S /\ step[x] = new /\ walk[x] = walk[new]
    BY <1>2, <1>4, <1>7
  <2>2. /\ new.seen = x.seen \cup x.pending
        /\ new.pending = (UNION {Here[c] : c \in {y \in x.pending : Generation[y] > Generation[a]}})
                            \ new.seen
    <3>1. \A c \in x.pending : Here[c] = ToSet(parents[c])
      BY <1>5, <2>1
    <3>2. {Here[c] : c \in {y \in x.pending : Generation[y] > Generation[a]}}
             = {ToSet(parents[c]) : c \in {y \in x.pending : Generation[y] > Generation[a]}}
      BY <3>1
    <3> QED
      BY <3>2
  <2>3. Searched(x, a, d, Generation) /\ a \notin x.pending /\ x.pending # {}
    BY <1>7
  <2> HIDE DEF new, G, S
  <2>4. Searched(new, a, d, Generation)
    BY <1>5, <2>2, <2>3, SearchGoesOn
  <2>5. x \in G /\ new \in G
    BY <1>7, <2>1, <2>4 DEF G
  <2>6. left[new] = Known \ new.seen /\ left[x] = Known \ x.seen
    BY <2>5
  <2>7. x.pending \subseteq Known
    BY <2>1 DEF S
  <2>8. Known \ new.seen \subseteq Known \ x.seen /\ Known \ new.seen # Known \ x.seen
    BY <2>2, <2>3, <2>7 DEF Searched
  <2> QED
    BY <2>1, <2>5, <2>6, <2>8
<1>8. start \in G
  <2>1. start \in S /\ start.pending = {d} /\ start.seen = {}
    OBVIOUS
  <2>2. d \in Reach(Here, d)
    BY <1>5, ReachIs
  <2> HIDE DEF start, S
  <2> QED
    BY <2>1, <2>2 DEF Searched
<1>9. \A x \in G : walk[x] \in R
  <2>1. \A x \in G : left[x] \subseteq Known
    OBVIOUS
  <2>2. \A x \in G : (x \in Stop <=> Over(x))
    OBVIOUS
  <2>3. IsFiniteSet(Known)
    BY GraphFacts
  <2> HIDE DEF G, R, Stop, step, left, Over
  <2>4. Ends(Known, G, Stop, step, walk, R, left)
    BY <1>6, <1>7, <2>1, <2>2 DEF Ends
  <2> QED
    BY <2>3, <2>4, LoopEnds
<1> QED
  BY <1>1, <1>8, <1>9

\* is_ancestor agrees with reachability.
LEMMA AncestorIs ==
    ASSUME GraphFits, NEW a \in Known, NEW d \in Known
    PROVE  IsAncestor(a, d) = (a \in Reach(Here, d))
<1>1. CASE FileApplies({a, d})
  <2>1. IsAncestor(a, d) = WalkFile(a, d)
    BY <1>1 DEF IsAncestor
  <2> QED
    BY <1>1, <2>1, WalkFileIs DEF FileApplies
<1>2. CASE ~FileApplies({a, d})
  <2>1. IsAncestor(a, d) = (a \in LoadReachable({d}, FALSE))
    BY <1>2 DEF IsAncestor
  <2>2. LoadReachable({d}, FALSE) = ReachAll(Along(FALSE), {d})
    BY LoadIs
  <2>3. ReachAll(Along(FALSE), {d}) = Reach(Here, d)
    BY DEF ReachAll, Along
  <2> QED
    BY <2>1, <2>2, <2>3
<1> QED
  BY <1>1, <1>2


-------------------------------------------------------------------------------
(* Order. *)

\* From what is visible, a way out of it does not lead back.
Convex(next, visible) ==
    \A c \in visible : \A u \in next[c] : u \in visible \/ Reach(next, u) \cap visible = {}

\* A list in which no commit comes before its parents has none before what leads to it.
LEMMA OrderedAlong ==
    ASSUME GraphFits, NEW first \in BOOLEAN, NEW visible \in SUBSET Known,
           Convex(Along(first), visible),
           NEW list, Ordered(list, visible, first),
           NEW i \in 1 .. Len(list), NEW j \in 1 .. Len(list),
           list[j] \in Reach(Along(first), list[i])
    PROVE  i <= j
<1> DEFINE next == Along(first)
           Q == {x \in Known : IF x \in visible THEN \E k \in 1 .. Len(list) : i <= k /\ list[k] = x
                                                ELSE Reach(next, x) \cap visible = {}}
<1>1. /\ Graded(Known, next, Id)
      /\ \A c \in Known : next[c] \subseteq ToSet(Selected(c, first)) /\ next[c] \subseteq Known
  <2>1. Graded(Known, next, Id)
    BY AlongFacts
  <2>2. \A c \in Known : next[c] \subseteq ToSet(Selected(c, first))
    BY AlongFacts
  <2> HIDE DEF next
  <2> QED
    BY <2>1, <2>2 DEF Graded
<1>2. /\ list \in Seq(visible) /\ Len(list) \in Nat
      /\ \A k \in 1 .. Len(list) : list[k] \in visible
  BY DEF Ordered
<1>3. Convex(next, visible)
  OBVIOUS
<1> HIDE DEF next
<1>4. ASSUME NEW x \in Known, x \in Q, NEW u \in next[x] PROVE u \in Q
  <2>1. u \in Known
    BY <1>1
  <2>2. CASE x \in visible /\ u \in visible
    <3>1. PICK k \in 1 .. Len(list) : i <= k /\ list[k] = x
      BY <1>4, <2>2
    <3>2. PICK m \in 1 .. Len(list) : list[m] = u
      BY <2>2 DEF Ordered
    <3>3. list[m] \in ToSet(Selected(list[k], first))
      BY <1>1, <1>4, <3>1, <3>2
    <3>4. k < m
      BY <3>3 DEF Ordered
    <3>5. i <= m
      BY <3>1, <3>4, <1>2
    <3> QED
      BY <2>1, <2>2, <3>2, <3>5
  <2>3. CASE x \in visible /\ u \notin visible
    BY <1>3, <1>4, <2>1, <2>3 DEF Convex
  <2>4. CASE x \notin visible
    <3>1. Reach(next, x) \cap visible = {}
      BY <1>4, <2>4
    <3>2. u \in Reach(next, x)
      BY <1>1, <1>4, ReachIs
    <3>3. Reach(next, u) \subseteq Reach(next, x)
      BY <1>1, <3>2, ReachOn
    <3>4. u \notin visible
      BY <3>1, <3>2
    <3> QED
      BY <2>1, <3>1, <3>3, <3>4
  <2> QED
    BY <2>2, <2>3, <2>4
<1>5. list[i] \in Q /\ list[i] \in Known
  <2>1. list[i] \in visible /\ i <= i
    BY <1>2
  <2> QED
    BY <2>1
<1>6. Reach(next, list[i]) \subseteq Q
  <2> HIDE DEF Q
  <2> QED
    BY <1>1, <1>4, <1>5, ReachIs
<1>7. PICK k \in 1 .. Len(list) : i <= k /\ list[k] = list[j]
  <2>1. list[j] \in Q
    BY <1>6 DEF next
  <2> QED
    BY <1>2, <2>1
<1>8. k = j
  BY <1>7 DEF Ordered
<1> QED
  BY <1>7, <1>8

-------------------------------------------------------------------------------
(* Merge bases. *)

Closed(next, S) == \A x \in S : next[x] \subseteq S

\* Those of common that no other of common leads to.
Best(next, common) == {c \in common : \A d \in common \ {c} : c \notin Reach(next, d)}

\* The loop of Behind, from one commit.
LEMMA BehindIs ==
    ASSUME GraphFits, NEW common \in SUBSET Known, Closed(Edges, common), NEW root \in common
    PROVE  Behind({root}, common) = Reach(Edges, root)
<1> DEFINE all == Reach(Edges, root)
           More(x) == x \cup (common \cap UNION {ToSet(ParentsOf(c)) : c \in x})
           S == SUBSET Known
           Stop == {x \in S : More(x) = x}
           step == [x \in S |-> More(x)]
           out == [x \in S |-> x]
           below == CHOOSE f : f = [cs \in SUBSET Known |->
                       LET more == cs \cup (common \cap UNION {ToSet(ParentsOf(c)) : c \in cs})
                       IN  IF more = cs THEN cs ELSE f[more]]
<1>1. Behind({root}, common) = below[{root}]
  BY DEF Behind
<1>2. \A x \in S : More(x) \in S
  OBVIOUS
<1>3. \E f : f = [x \in S |-> IF More(x) = x THEN x ELSE f[More(x)]]
  <2>1. \A x \in S \ Stop : step[x] \in S
    BY <1>2
  <2>2. \E f : Loops(S, Stop, out, step, f)
    <3> HIDE DEF S, Stop, step, out
    <3> QED
      BY <2>1, LoopExists
  <2>3. PICK f : f = [x \in S |-> IF x \in Stop THEN out[x] ELSE f[step[x]]]
    BY <2>2 DEF Loops
  <2>4. ASSUME NEW x \in S PROVE f[x] = IF More(x) = x THEN x ELSE f[More(x)]
    <3>1. x \in Stop <=> More(x) = x
      OBVIOUS
    <3>2. out[x] = x /\ step[x] = More(x)
      OBVIOUS
    <3> HIDE DEF S, Stop, step, out, More
    <3> QED
      BY <2>3, <3>1, <3>2
  <2>5. f = [x \in S |-> IF More(x) = x THEN x ELSE f[More(x)]]
    <3>1. f = [x \in S |-> f[x]]
      BY <2>3
    <3> HIDE DEF S, More
    <3> QED
      BY <2>4, <3>1
  <2> QED
    BY <2>5
<1>4. below = [x \in S |-> IF More(x) = x THEN x ELSE below[More(x)]]
  BY <1>3
<1> HIDE DEF below
<1>5. /\ root \in all /\ all \subseteq Known
      /\ \A x \in all : Edges[x] \subseteq all
      /\ \A Q : root \in Q /\ (\A p \in Known : p \in Q => Edges[p] \subseteq Q)
                   => all \subseteq Q
  BY EdgesFacts, ReachIs
<1>6. \A c \in Known : Edges[c] = ToSet(ParentsOf(c)) /\ Edges[c] \subseteq Known
  BY EdgesFacts DEF Graded
<1> HIDE DEF all
<1> DEFINE G == {x \in S : root \in x /\ x \subseteq all /\ x \subseteq common}
           left == [x \in G |-> Known \ x]
<1>7. ASSUME NEW x \in G, More(x) = x PROVE below[x] \in {all}
  <2>1. \A p \in Known : p \in x => Edges[p] \subseteq x
    BY <1>6, <1>7 DEF Closed
  <2>2. x = all
    BY <1>5, <2>1
  <2>3. below[x] = x
    BY <1>4, <1>7
  <2> QED
    BY <2>2, <2>3
<1>8. ASSUME NEW x \in G, More(x) # x
      PROVE  /\ step[x] \in G /\ below[x] = below[step[x]]
             /\ left[step[x]] \subseteq left[x] /\ left[step[x]] # left[x]
  <2>1. x \in S /\ More(x) \in S /\ step[x] = More(x)
    BY <1>2
  <2>2. below[x] = below[step[x]]
    BY <1>4, <1>8, <2>1
  <2>3. More(x) \subseteq all /\ More(x) \subseteq common
    BY <1>5, <1>6
  <2>4. x \subseteq More(x) /\ More(x) \in G
    BY <2>1, <2>3
  <2>5. left[More(x)] = Known \ More(x) /\ left[x] = Known \ x
    BY <2>4
  <2> HIDE DEF More
  <2>6. Known \ More(x) \subseteq Known \ x /\ Known \ More(x) # Known \ x
    BY <1>8, <2>1, <2>4
  <2> QED
    BY <2>1, <2>2, <2>4, <2>5, <2>6
<1>9. {root} \in G
  BY <1>5
<1>10. \A x \in G : below[x] \in {all}
  <2>1. \A x \in G : left[x] \subseteq Known
    OBVIOUS
  <2>2. \A x \in G : (x \in Stop <=> More(x) = x)
    OBVIOUS
  <2>3. IsFiniteSet(Known)
    BY GraphFacts
  <2> HIDE DEF G, Stop, step, left, More
  <2>4. \A x \in G : x \in Stop => below[x] \in {all}
    BY <1>7, <2>2
  <2>5. \A x \in G : x \notin Stop =>
               /\ step[x] \in G /\ below[x] = below[step[x]]
               /\ left[step[x]] \subseteq left[x] /\ left[step[x]] # left[x]
    BY <1>8, <2>2
  <2>6. Ends(Known, G, Stop, step, below, {all}, left)
    BY <2>1, <2>4, <2>5 DEF Ends
  <2> QED
    BY <2>3, <2>6, LoopEnds
<1> QED
  BY <1>1, <1>9, <1>10 DEF all


\* What the loop of best_common_commits has after k commits of a list in order.
Taken(acc, k, order, common) ==
    /\ acc.bases = {c \in Best(Edges, common) : \E j \in 1 .. k : order[j] = c}
    /\ acc.stale = {x \in common : \E j \in 1 .. k : x \in Reach(Edges, order[j]) /\ x # order[j]}

TakeNext(acc, c, common) ==
    IF c \in acc.stale THEN acc
    ELSE [bases |-> acc.bases \cup {c}, stale |-> acc.stale \cup (Behind({c}, common) \ {c})]

\* A commit is stale when its turn comes just if some other common commit leads to it.
LEMMA StaleIs ==
    ASSUME GraphFits, shallow = {}, NEW common \in SUBSET Known, Closed(Edges, common),
           NEW order, Ordered(order, common, FALSE), NEW k \in 1 .. Len(order),
           NEW acc, Taken(acc, k - 1, order, common)
    PROVE  order[k] \in acc.stale <=> order[k] \notin Best(Edges, common)
<1> DEFINE c == order[k]
<1>1. /\ Len(order) \in Nat /\ \A j \in 1 .. Len(order) : order[j] \in common
      /\ 1 .. k - 1 \subseteq 1 .. Len(order)
  BY DEF Ordered
<1>2. c \in common
  BY <1>1
<1>3. ASSUME c \in acc.stale PROVE c \notin Best(Edges, common)
  <2>1. PICK j \in 1 .. k - 1 : c \in Reach(Edges, order[j]) /\ c # order[j]
    BY <1>3 DEF Taken
  <2>2. order[j] \in common
    BY <1>1
  <2> QED
    BY <2>1, <2>2 DEF Best
<1>4. ASSUME c \notin Best(Edges, common) PROVE c \in acc.stale
  <2>1. PICK d \in common : d # c /\ c \in Reach(Edges, d)
    BY <1>2, <1>4 DEF Best
  <2>2. PICK j \in 1 .. Len(order) : order[j] = d
    BY DEF Ordered
  <2>3. Convex(Edges, common) /\ Along(FALSE) = Edges
    BY EdgesFacts DEF Closed, Convex
  <2>4. j <= k
    BY <2>1, <2>2, <2>3, OrderedAlong
  <2>5. j # k
    BY <2>1, <2>2
  <2>6. j \in 1 .. k - 1
    BY <2>4, <2>5
  <2> QED
    BY <1>2, <2>1, <2>2, <2>6 DEF Taken
<1> QED
  BY <1>3, <1>4

LEMMA TakesOn ==
    ASSUME GraphFits, shallow = {}, NEW common \in SUBSET Known, Closed(Edges, common),
           NEW order, Ordered(order, common, FALSE), NEW k \in 1 .. Len(order),
           NEW acc, Taken(acc, k - 1, order, common)
    PROVE  Taken(TakeNext(acc, order[k], common), k, order, common)
<1> DEFINE c == order[k]
           new == TakeNext(acc, c, common)
           Behind1(j) == {x \in common : x \in Reach(Edges, order[j]) /\ x # order[j]}
<1>1. /\ Len(order) \in Nat /\ \A j \in 1 .. Len(order) : order[j] \in common
      /\ 1 .. k - 1 \subseteq 1 .. Len(order) /\ 1 .. k = (1 .. k - 1) \cup {k}
  BY DEF Ordered
<1>2. c \in common
  BY <1>1
<1>3. c \in acc.stale <=> c \notin Best(Edges, common)
  BY StaleIs
<1>4. CASE c \in acc.stale
  <2>1. new = acc
    BY <1>4 DEF TakeNext
  <2>2. acc.bases = {x \in Best(Edges, common) : \E j \in 1 .. k : order[j] = x}
    <3>1. \A x \in Best(Edges, common) :
             (\E j \in 1 .. k : order[j] = x) <=> \E j \in 1 .. k - 1 : order[j] = x
      BY <1>1, <1>3, <1>4
    <3> QED
      BY <3>1 DEF Taken
  <2>3. ASSUME NEW x \in common, x \in Reach(Edges, c), x # c
        PROVE  \E j \in 1 .. k - 1 : x \in Reach(Edges, order[j]) /\ x # order[j]
    <3>1. PICK j \in 1 .. k - 1 : c \in Reach(Edges, order[j]) /\ c # order[j]
      BY <1>4 DEF Taken
    <3>2. order[j] \in Known /\ c \in Known
      BY <1>1, <1>2
    <3>3. x \in Reach(Edges, order[j])
      BY <2>3, <3>1, <3>2, EdgesFacts, ReachOn
    <3>4. Id[x] < Id[c] /\ Id[c] < Id[order[j]]
      BY <2>3, <3>1, <3>2, EdgesFacts, LowerBehind
    <3>5. x < c /\ c < order[j] /\ x \in Nat /\ c \in Nat /\ order[j] \in Nat
      BY <3>2, <3>4, GraphFacts DEF Id
    <3>6. x # order[j]
      BY <3>5
    <3> QED
      BY <3>3, <3>6
  <2>4. acc.stale = {x \in common : \E j \in 1 .. k : x \in Reach(Edges, order[j]) /\ x # order[j]}
    <3>1. \A x \in common :
             (\E j \in 1 .. k : x \in Reach(Edges, order[j]) /\ x # order[j])
               <=> \E j \in 1 .. k - 1 : x \in Reach(Edges, order[j]) /\ x # order[j]
      BY <1>1, <2>3
    <3> QED
      BY <3>1 DEF Taken
  <2> QED
    BY <2>1, <2>2, <2>4 DEF Taken
<1>5. CASE c \notin acc.stale
  <2>1. new = [bases |-> acc.bases \cup {c}, stale |-> acc.stale \cup (Reach(Edges, c) \ {c})]
    <3>1. Behind({c}, common) = Reach(Edges, c)
      <4> HIDE DEF c
      <4> QED
        BY <1>2, BehindIs
    <3> HIDE DEF c
    <3> QED
      BY <1>5, <3>1 DEF TakeNext
  <2> HIDE DEF new
  <2>2. new.bases = acc.bases \cup {c} /\ new.stale = acc.stale \cup (Reach(Edges, c) \ {c})
    BY <2>1
  <2>3. Reach(Edges, c) \subseteq common
    <3>1. \A p \in Known : p \in common => Edges[p] \subseteq common
      BY DEF Closed
    <3> HIDE DEF c
    <3> QED
      BY <1>2, <3>1, EdgesFacts, ReachIs
  <2>4. new.bases = {x \in Best(Edges, common) : \E j \in 1 .. k : order[j] = x}
    BY <1>1, <1>3, <1>5, <2>2 DEF Taken
  <2>5. new.stale = {x \in common : \E j \in 1 .. k : x \in Reach(Edges, order[j]) /\ x # order[j]}
    BY <1>1, <2>2, <2>3 DEF Taken
  <2> QED
    BY <2>4, <2>5 DEF Taken, new
<1> QED
  BY <1>4, <1>5

\* The loop gives the best of common commits.
LEMMA BestIs ==
    ASSUME GraphFits, shallow = {}, NEW common \in SUBSET Known, Closed(Edges, common)
    PROVE  BestCommits(common) = Best(Edges, common)
<1> DEFINE order == TopoOrder(common, FALSE)
           n == Len(order)
           base == [bases |-> {}, stale |-> {}]
           Acc == [bases : SUBSET Known, stale : SUBSET Known]
           step == [w \in Nat \X Acc |-> TakeNext(w[2], order[w[1]], common)]
           taken == CHOOSE f : f = [i \in 0 .. Len(order) |->
               IF i = 0 THEN [bases |-> {}, stale |-> {}]
               ELSE IF order[i] \in f[i - 1].stale THEN f[i - 1]
                    ELSE [bases |-> f[i - 1].bases \cup {order[i]},
                          stale |-> f[i - 1].stale \cup (Behind({order[i]}, common) \ {order[i]})]]
<1>1. BestCommits(common) = taken[n].bases
  BY DEF BestCommits
<1>2. Ordered(order, common, FALSE)
  BY OrderIs
<1>3. n \in Nat /\ 0 \in Nat /\ \A i \in 1 .. n : order[i] \in common
  <2> HIDE DEF order
  <2> QED
    BY <1>2 DEF Ordered
<1> HIDE DEF order
<1> DEFINE Good(f) == {i \in 0 .. n : f[i] \in Acc /\ Taken(f[i], i, order, common)}
<1>4. \A i \in 1 .. n : \A acc \in Acc :
         Taken(acc, i - 1, order, common) =>
            /\ TakeNext(acc, order[i], common) \in Acc
            /\ Taken(TakeNext(acc, order[i], common), i, order, common)
  <2> SUFFICES ASSUME NEW i \in 1 .. n, NEW acc \in Acc, Taken(acc, i - 1, order, common)
               PROVE  /\ TakeNext(acc, order[i], common) \in Acc
                      /\ Taken(TakeNext(acc, order[i], common), i, order, common)
    OBVIOUS
  <2>1. Taken(TakeNext(acc, order[i], common), i, order, common)
    BY <1>2, TakesOn
  <2>2. Behind({order[i]}, common) \subseteq Known
    <3>1. order[i] \in common
      BY <1>3
    <3>2. Behind({order[i]}, common) = Reach(Edges, order[i])
      BY <3>1, BehindIs
    <3> QED
      BY <3>1, <3>2, EdgesFacts, ReachIs
  <2>3. TakeNext(acc, order[i], common) \in Acc
    BY <1>3, <2>2 DEF TakeNext
  <2> QED
    BY <2>1, <2>3
<1>5. base \in Acc /\ Taken(base, 0, order, common)
  BY DEF Taken
<1> HIDE DEF Acc
<1>6. \E f : Counts(0, n, base, step, f)
  <2> HIDE DEF base, step, n
  <2> QED
    BY <1>3, CountExists
<1>7. PICK f : f = [i \in 0 .. n |-> IF i = 0 THEN base ELSE step[<<i, f[i - 1]>>]]
  BY <1>6 DEF Counts
<1>8. 0 .. n \subseteq Good(f)
  <2>1. 0 \in Good(f)
    <3>1. 0 \in 0 .. n /\ f[0] = base
      BY <1>3, <1>7
    <3> QED
      BY <1>5, <3>1
  <2>2. ASSUME NEW i \in 0 + 1 .. n, i - 1 \in Good(f) PROVE i \in Good(f)
    <3>1. i \in 0 .. n /\ i # 0 /\ i \in Nat /\ i \in 1 .. n
      BY <1>3
    <3>2. f[i] = step[<<i, f[i - 1]>>]
      BY <1>7, <3>1
    <3>3. f[i - 1] \in Acc /\ Taken(f[i - 1], i - 1, order, common)
      BY <2>2
    <3>4. f[i] = TakeNext(f[i - 1], order[i], common)
      BY <3>1, <3>2, <3>3
    <3> HIDE DEF step
    <3>5. f[i] \in Acc /\ Taken(f[i], i, order, common)
      BY <1>4, <3>1, <3>3, <3>4
    <3> QED
      BY <3>1, <3>5
  <2> DEFINE good == Good(f)
  <2>3. 0 \in good /\ \A i \in 0 + 1 .. n : i - 1 \in good => i \in good
    BY <2>1, <2>2
  <2> HIDE DEF good, n
  <2>4. 0 .. n \subseteq good
    BY <1>3, <2>3, Climb
  <2> QED
    BY <2>4 DEF good
<1>9. f = [i \in 0 .. n |-> IF i = 0 THEN base ELSE TakeNext(f[i - 1], order[i], common)]
  <2>1. ASSUME NEW i \in 0 .. n
        PROVE  f[i] = IF i = 0 THEN base ELSE TakeNext(f[i - 1], order[i], common)
    <3>1. CASE i = 0
      BY <1>7, <3>1
    <3>2. CASE i # 0
      <4>1. i \in Nat /\ i - 1 \in 0 .. n
        BY <1>3, <3>2
      <4>2. f[i] = step[<<i, f[i - 1]>>]
        BY <1>7, <3>2
      <4>3. f[i - 1] \in Acc
        BY <1>8, <4>1
      <4> QED
        BY <3>2, <4>1, <4>2, <4>3
    <3> QED
      BY <3>1, <3>2
  <2>2. f = [i \in 0 .. n |-> f[i]]
    BY <1>7
  <2> HIDE DEF step, base, n
  <2> QED
    BY <2>1, <2>2
<1>10. taken = [i \in 0 .. n |-> IF i = 0 THEN base ELSE TakeNext(taken[i - 1], order[i], common)]
  <2>1. \E g : g = [i \in 0 .. n |-> IF i = 0 THEN base ELSE TakeNext(g[i - 1], order[i], common)]
    BY <1>9
  <2> QED
    BY <2>1 DEF TakeNext
<1> HIDE DEF taken, step
<1>11. 0 .. n \subseteq Good(taken)
  <2>1. 0 \in Good(taken)
    <3>1. 0 \in 0 .. n /\ taken[0] = base
      BY <1>3, <1>10
    <3> QED
      BY <1>5, <3>1
  <2>2. ASSUME NEW i \in 0 + 1 .. n, i - 1 \in Good(taken) PROVE i \in Good(taken)
    <3>1. i \in 0 .. n /\ i # 0 /\ i \in Nat /\ i \in 1 .. n
      BY <1>3
    <3>2. taken[i] = TakeNext(taken[i - 1], order[i], common)
      BY <1>10, <3>1
    <3>3. taken[i - 1] \in Acc /\ Taken(taken[i - 1], i - 1, order, common)
      BY <2>2
    <3>4. taken[i] \in Acc /\ Taken(taken[i], i, order, common)
      BY <1>4, <3>1, <3>2, <3>3
    <3> QED
      BY <3>1, <3>4
  <2> DEFINE good == Good(taken)
  <2>3. 0 \in good /\ \A i \in 0 + 1 .. n : i - 1 \in good => i \in good
    BY <2>1, <2>2
  <2> HIDE DEF good, n
  <2>4. 0 .. n \subseteq good
    BY <1>3, <2>3, Climb
  <2> QED
    BY <2>4 DEF good
<1>12. Taken(taken[n], n, order, common)
  <2>1. n \in 0 .. n
    BY <1>3
  <2> QED
    BY <1>11, <2>1
<1>13. \A c \in Best(Edges, common) : \E j \in 1 .. n : order[j] = c
  BY <1>2 DEF Ordered, Best
<1> QED
  BY <1>1, <1>12, <1>13 DEF Taken


\* What both lead to is closed.
LEMMA BothClosed ==
    ASSUME GraphFits, NEW one \in Known, NEW others \in SUBSET Known
    PROVE  /\ Reach(Edges, one) \cap ReachAll(Edges, others) \in SUBSET Known
           /\ Closed(Edges, Reach(Edges, one) \cap ReachAll(Edges, others))
<1>1. /\ Reach(Edges, one) \subseteq Known
      /\ \A x \in Reach(Edges, one) : Edges[x] \subseteq Reach(Edges, one)
  BY EdgesFacts, ReachIs
<1>2. \A x \in ReachAll(Edges, others) : Edges[x] \subseteq ReachAll(Edges, others)
  BY EdgesFacts, ReachAllIs
<1> QED
  BY <1>1, <1>2 DEF Closed

\* merge_bases gives the best of the common commits of one and others.
LEMMA MergeBasesIs ==
    ASSUME GraphFits, shallow = {}, NEW one \in Known, NEW others \in SUBSET Known
    PROVE  MergeBases(one, others)
             = Best(Edges, Reach(Edges, one) \cap ReachAll(Edges, others))
<1>1. LoadReachable({one}, FALSE) = Reach(Edges, one)
  <2>1. LoadReachable({one}, FALSE) = ReachAll(Along(FALSE), {one})
    BY LoadIs
  <2>2. Along(FALSE) = Edges
    BY EdgesFacts
  <2> QED
    BY <2>1, <2>2 DEF ReachAll
<1>2. LoadReachable(others, FALSE) = ReachAll(Edges, others)
  BY LoadIs, EdgesFacts
<1>3. MergeBases(one, others) = BestCommits(Reach(Edges, one) \cap ReachAll(Edges, others))
  BY <1>1, <1>2 DEF MergeBases
<1> DEFINE common == Reach(Edges, one) \cap ReachAll(Edges, others)
<1>4. common \in SUBSET Known /\ Closed(Edges, common)
  BY BothClosed
<1> HIDE DEF common
<1>5. BestCommits(common) = Best(Edges, common)
  BY <1>4, BestIs
<1> QED
  BY <1>3, <1>5 DEF common

\* Every commit of a set is led to by one of the best.
LEMMA SomeBest ==
    ASSUME GraphFits, NEW common \in SUBSET Known, NEW c \in common
    PROVE  \E b \in Best(Edges, common) : c \in Reach(Edges, b)
<1> DEFINE T == {d \in common : c \in Reach(Edges, d)}
<1>1. c \in T
  BY EdgesFacts, ReachIs
<1>2. T \in SUBSET Nat /\ IsFiniteSet(T) /\ T \subseteq Known
  <2>1. T \in SUBSET Known
    OBVIOUS
  <2> HIDE DEF T
  <2> QED
    BY <2>1, GraphFacts, FS_Subset
<1>3. PICK b \in T : \A d \in T : d <= b
  <2> HIDE DEF T
  <2> QED
    BY <1>1, <1>2, Greatest
<1>4. ASSUME NEW d \in common \ {b}, b \in Reach(Edges, d) PROVE FALSE
  <2>1. c \in Reach(Edges, b) /\ d \in Known /\ b \in Known
    BY <1>3
  <2>2. c \in Reach(Edges, d)
    BY <1>4, <2>1, EdgesFacts, ReachOn
  <2>3. d <= b
    BY <1>3, <1>4, <2>2
  <2>4. Id[b] < Id[d]
    BY <1>4, <2>1, EdgesFacts, LowerBehind
  <2>5. b < d /\ b \in Nat /\ d \in Nat
    BY <2>1, <2>4, GraphFacts DEF Id
  <2> QED
    BY <2>3, <2>5
<1> QED
  BY <1>3, <1>4 DEF Best

LEMMA IndependentIs ==
    ASSUME GraphFits, shallow = {}, NEW cs \in SUBSET Known
    PROVE  Independent(cs) = Best(Edges, cs)
<1>1. ASSUME NEW d \in cs PROVE LoadReachable({d}, FALSE) = Reach(Edges, d)
  <2>1. LoadReachable({d}, FALSE) = ReachAll(Along(FALSE), {d})
    BY LoadIs
  <2>2. Along(FALSE) = Edges
    BY EdgesFacts
  <2> QED
    BY <2>1, <2>2 DEF ReachAll
<1> QED
  BY <1>1 DEF Independent, Best

\* What the first k of several commits lead to, all of them.
Shared(cs, k) == {c \in Known : \A j \in 1 .. k : c \in Reach(Edges, cs[j])}

\* Bases among the shared commits, from which all the shared commits are reached.
Covers(bs, cs, k) ==
    /\ bs \subseteq Shared(cs, k)
    /\ \A c \in Shared(cs, k) : \E b \in bs : c \in Reach(Edges, b)

FoldBases(c, bs) == UNION {MergeBases(c, {b}) : b \in bs}

LEMMA CoversOn ==
    ASSUME GraphFits, shallow = {}, NEW cs \in Seq(Known), NEW k \in 2 .. Len(cs),
           NEW bs, Covers(bs, cs, k - 1)
    PROVE  Covers(FoldBases(cs[k], bs), cs, k)
<1> DEFINE c == cs[k]
           Both(b) == Reach(Edges, c) \cap ReachAll(Edges, {b})
<1>0. Graded(Known, Edges, Id)
  BY EdgesFacts
<1>1. /\ c \in Known /\ \A j \in 1 .. k : cs[j] \in Known
      /\ 1 .. k = (1 .. k - 1) \cup {k}
  <2>1. k \in Nat /\ Len(cs) \in Nat /\ k <= Len(cs) /\ 1 <= k
    OBVIOUS
  <2>2. \A j \in 1 .. k : j \in 1 .. Len(cs)
    BY <2>1
  <2> QED
    BY <2>1, <2>2
<1>2. Shared(cs, k) = Shared(cs, k - 1) \cap Reach(Edges, c)
  BY <1>1 DEF Shared
<1>3. bs \subseteq Known /\ bs \subseteq Shared(cs, k - 1)
  BY DEF Covers, Shared
<1> HIDE DEF c
<1>4. ASSUME NEW b \in bs
      PROVE  /\ MergeBases(c, {b}) = Best(Edges, Both(b)) /\ Both(b) \in SUBSET Known
             /\ Both(b) = Reach(Edges, c) \cap Reach(Edges, b)
  <2>1. MergeBases(c, {b}) = Best(Edges, Both(b))
    BY <1>1, <1>3, MergeBasesIs
  <2>2. ReachAll(Edges, {b}) = Reach(Edges, b)
    BY DEF ReachAll
  <2>3. Both(b) \in SUBSET Known
    BY <1>1, <1>3, BothClosed
  <2> QED
    BY <2>1, <2>2, <2>3
<1>5. ASSUME NEW x \in FoldBases(c, bs) PROVE x \in Shared(cs, k)
  <2>1. PICK b \in bs : x \in MergeBases(c, {b})
    BY DEF FoldBases
  <2>2. x \in Reach(Edges, c) /\ x \in Reach(Edges, b) /\ x \in Known
    <3>1. x \in Best(Edges, Both(b)) /\ Both(b) \in SUBSET Known
          /\ Both(b) = Reach(Edges, c) \cap Reach(Edges, b)
      BY <1>4, <2>1
    <3> QED
      BY <3>1 DEF Best
  <2>3. ASSUME NEW j \in 1 .. k - 1 PROVE x \in Reach(Edges, cs[j])
    <3>1. b \in Reach(Edges, cs[j]) /\ cs[j] \in Known
      BY <1>1, <1>3 DEF Shared
    <3> QED
      BY <1>0, <2>2, <3>1, ReachOn
  <2> QED
    BY <1>2, <2>2, <2>3 DEF Shared
<1>6. ASSUME NEW x \in Shared(cs, k) PROVE \E m \in FoldBases(c, bs) : x \in Reach(Edges, m)
  <2>1. PICK b \in bs : x \in Reach(Edges, b)
    BY <1>2 DEF Covers
  <2>2. x \in Both(b) /\ Both(b) \in SUBSET Known
    BY <1>2, <1>4, <2>1
  <2>3. PICK m \in Best(Edges, Both(b)) : x \in Reach(Edges, m)
    <3> DEFINE common == Both(b)
    <3>1. common \in SUBSET Known /\ x \in common
      BY <2>2
    <3> HIDE DEF common
    <3>2. \E m \in Best(Edges, common) : x \in Reach(Edges, m)
      BY <3>1, SomeBest
    <3> QED
      BY <3>2 DEF common
  <2>4. m \in FoldBases(c, bs)
    BY <1>4, <2>3 DEF FoldBases
  <2> QED
    BY <2>3, <2>4
<1> QED
  BY <1>5, <1>6 DEF Covers, c

\* The independent ones of bases that cover what is shared are the best that is shared.
LEMMA CoversBest ==
    ASSUME GraphFits, NEW cs, NEW k, NEW bs, Covers(bs, cs, k)
    PROVE  Best(Edges, bs) = Best(Edges, Shared(cs, k))
<1> DEFINE common == Shared(cs, k)
<1>0. Graded(Known, Edges, Id)
  BY EdgesFacts
<1>1. /\ common \subseteq Known /\ bs \subseteq common
      /\ \A c \in common : \E b \in bs : c \in Reach(Edges, b)
  BY DEF Shared, Covers
<1> HIDE DEF common
<1>2. ASSUME NEW c \in Best(Edges, bs) PROVE c \in Best(Edges, common)
  <2> SUFFICES ASSUME NEW d \in common \ {c}, c \in Reach(Edges, d) PROVE FALSE
    BY <1>1 DEF Best
  <2>1. PICK b \in bs : d \in Reach(Edges, b)
    BY <1>1
  <2>2. b \in Known /\ d \in Known /\ c \in Known /\ c \in bs
    BY <1>1, <2>1 DEF Best
  <2>3. c \in Reach(Edges, b)
    BY <1>0, <2>1, <2>2, ReachOn
  <2>4. b = c
    BY <1>2, <2>1, <2>3 DEF Best
  <2>5. Id[c] < Id[d] /\ Id[d] < Id[c]
    BY <1>0, <2>1, <2>2, <2>4, LowerBehind
  <2>6. c < d /\ d < c /\ c \in Nat /\ d \in Nat
    BY <2>2, <2>5, GraphFacts DEF Id
  <2> QED
    BY <2>6
<1>3. ASSUME NEW c \in Best(Edges, common) PROVE c \in Best(Edges, bs)
  <2>1. c \in common /\ \A d \in common \ {c} : c \notin Reach(Edges, d)
    BY DEF Best
  <2>2. PICK b \in bs : c \in Reach(Edges, b)
    BY <1>1, <2>1
  <2>3. c = b
    BY <1>1, <2>1, <2>2
  <2> QED
    BY <1>1, <2>1, <2>3 DEF Best
<1> QED
  BY <1>2, <1>3 DEF common

\* merge_bases_octopus gives the best of what all of several commits lead to.
LEMMA OctopusIs ==
    ASSUME GraphFits, shallow = {}, NEW cs \in Seq(Known), Len(cs) >= 1
    PROVE  OctopusBases(cs) = Best(Edges, Shared(cs, Len(cs)))
<1> DEFINE n == Len(cs)
           base == {cs[1]}
           step == [w \in Nat \X SUBSET Known |-> FoldBases(cs[w[1]], w[2])]
           bases == CHOOSE f : f = [i \in 1 .. Len(cs) |->
                       IF i = 1 THEN {cs[1]} ELSE UNION {MergeBases(cs[i], {b}) : b \in f[i - 1]}]
           Good(f) == {i \in 1 .. n : f[i] \in SUBSET Known /\ Covers(f[i], cs, i)}
<1>1. OctopusBases(cs) = Independent(bases[n])
  BY DEF OctopusBases
<1>2. n \in Nat /\ 1 \in Nat /\ n >= 1 /\ \A i \in 1 .. n : cs[i] \in Known
  OBVIOUS
<1>3. base \in SUBSET Known /\ Covers(base, cs, 1)
  <2>1. cs[1] \in Known /\ 1 .. 1 = {1}
    BY <1>2
  <2>2. Shared(cs, 1) = Reach(Edges, cs[1])
    BY <2>1, EdgesFacts, ReachIs DEF Shared
  <2>3. cs[1] \in Reach(Edges, cs[1])
    BY <2>1, EdgesFacts, ReachIs
  <2> QED
    BY <2>1, <2>2, <2>3 DEF Covers
<1>4. \A i \in 2 .. n : \A bs \in SUBSET Known :
         Covers(bs, cs, i - 1) =>
            FoldBases(cs[i], bs) \in SUBSET Known /\ Covers(FoldBases(cs[i], bs), cs, i)
  <2> SUFFICES ASSUME NEW i \in 2 .. n, NEW bs \in SUBSET Known, Covers(bs, cs, i - 1)
               PROVE  FoldBases(cs[i], bs) \in SUBSET Known /\ Covers(FoldBases(cs[i], bs), cs, i)
    OBVIOUS
  <2>1. Covers(FoldBases(cs[i], bs), cs, i)
    BY CoversOn
  <2> QED
    BY <2>1 DEF Covers, Shared
<1> HIDE DEF n
<1>5. \E f : Counts(1, n, base, step, f)
  <2> HIDE DEF base, step
  <2> QED
    BY <1>2, CountExists
<1>6. PICK f : f = [i \in 1 .. n |-> IF i = 1 THEN base ELSE step[<<i, f[i - 1]>>]]
  BY <1>5 DEF Counts
<1>7. 1 .. n \subseteq Good(f)
  <2>1. 1 \in Good(f)
    <3>1. 1 \in 1 .. n /\ f[1] = base
      BY <1>2, <1>6
    <3> QED
      BY <1>3, <3>1
  <2>2. ASSUME NEW i \in 1 + 1 .. n, i - 1 \in Good(f) PROVE i \in Good(f)
    <3>1. i \in 1 .. n /\ i # 1 /\ i \in Nat /\ i \in 2 .. n
      BY <1>2
    <3>2. f[i] = step[<<i, f[i - 1]>>]
      BY <1>6, <3>1
    <3>3. f[i - 1] \in SUBSET Known /\ Covers(f[i - 1], cs, i - 1)
      BY <2>2
    <3>4. f[i] = FoldBases(cs[i], f[i - 1])
      BY <3>1, <3>2, <3>3
    <3> HIDE DEF step
    <3>5. f[i] \in SUBSET Known /\ Covers(f[i], cs, i)
      BY <1>4, <3>1, <3>3, <3>4
    <3> QED
      BY <3>1, <3>5
  <2> DEFINE good == Good(f)
  <2>3. 1 \in good /\ \A i \in 1 + 1 .. n : i - 1 \in good => i \in good
    BY <2>1, <2>2
  <2> HIDE DEF good
  <2>4. 1 .. n \subseteq good
    BY <1>2, <2>3, Climb
  <2> QED
    BY <2>4 DEF good
<1>8. f = [i \in 1 .. n |-> IF i = 1 THEN base ELSE FoldBases(cs[i], f[i - 1])]
  <2>1. ASSUME NEW i \in 1 .. n
        PROVE  f[i] = IF i = 1 THEN base ELSE FoldBases(cs[i], f[i - 1])
    <3>1. CASE i = 1
      BY <1>6, <3>1
    <3>2. CASE i # 1
      <4>1. i \in Nat /\ i - 1 \in 1 .. n
        BY <1>2, <3>2
      <4>2. f[i] = step[<<i, f[i - 1]>>]
        BY <1>6, <3>2
      <4>3. f[i - 1] \in SUBSET Known
        BY <1>7, <4>1
      <4> QED
        BY <3>2, <4>1, <4>2, <4>3
    <3> QED
      BY <3>1, <3>2
  <2>2. f = [i \in 1 .. n |-> f[i]]
    BY <1>6
  <2> HIDE DEF step, base
  <2> QED
    BY <2>1, <2>2
<1>9. bases = [i \in 1 .. n |-> IF i = 1 THEN base ELSE FoldBases(cs[i], bases[i - 1])]
  <2>1. \E g : g = [i \in 1 .. n |-> IF i = 1 THEN base ELSE FoldBases(cs[i], g[i - 1])]
    BY <1>8
  <2> QED
    BY <2>1 DEF FoldBases, n
<1> HIDE DEF bases, step
<1>10. 1 .. n \subseteq Good(bases)
  <2>1. 1 \in Good(bases)
    <3>1. 1 \in 1 .. n /\ bases[1] = base
      BY <1>2, <1>9
    <3> QED
      BY <1>3, <3>1
  <2>2. ASSUME NEW i \in 1 + 1 .. n, i - 1 \in Good(bases) PROVE i \in Good(bases)
    <3>1. i \in 1 .. n /\ i # 1 /\ i \in Nat /\ i \in 2 .. n
      BY <1>2
    <3>2. bases[i] = FoldBases(cs[i], bases[i - 1])
      BY <1>9, <3>1
    <3>3. bases[i - 1] \in SUBSET Known /\ Covers(bases[i - 1], cs, i - 1)
      BY <2>2
    <3>4. bases[i] \in SUBSET Known /\ Covers(bases[i], cs, i)
      BY <1>4, <3>1, <3>2, <3>3
    <3> QED
      BY <3>1, <3>4
  <2> DEFINE good == Good(bases)
  <2>3. 1 \in good /\ \A i \in 1 + 1 .. n : i - 1 \in good => i \in good
    BY <2>1, <2>2
  <2> HIDE DEF good
  <2>4. 1 .. n \subseteq good
    BY <1>2, <2>3, Climb
  <2> QED
    BY <2>4 DEF good
<1>11. bases[n] \in SUBSET Known /\ Covers(bases[n], cs, n)
  <2>1. n \in 1 .. n
    BY <1>2
  <2> QED
    BY <1>10, <2>1
<1>12. Independent(bases[n]) = Best(Edges, Shared(cs, n))
  BY <1>11, IndependentIs, CoversBest
<1> QED
  BY <1>1, <1>12 DEF n


-------------------------------------------------------------------------------
(* Walks. *)

LEMMA MinIs ==
    ASSUME NEW m \in Nat, NEW n \in Nat
    PROVE  Min({m, n}) = IF m < n THEN m ELSE n
<1> DEFINE T == {m, n}
           least == IF m < n THEN m ELSE n
<1>1. least \in T /\ \A y \in T : least =< y
  OBVIOUS
<1>2. ASSUME NEW x \in T, \A y \in T : x =< y PROVE x = least
  BY <1>1, <1>2
<1> HIDE DEF T, least
<1>3. Min(T) = least
  BY <1>1, <1>2 DEF Min
<1> QED
  BY <1>3 DEF T, least

\* A list without repetitions is as long as it has elements.
LEMMA DistinctLength ==
    ASSUME NEW T, NEW s \in Seq(T), \A i, j \in 1 .. Len(s) : s[i] = s[j] => i = j
    PROVE  IsFiniteSet(ToSet(s)) /\ Cardinality(ToSet(s)) = Len(s)
<1> DEFINE n == Len(s)
           C == ToSet(s)
           f == [i \in 1 .. n |-> s[i]]
<1>1. n \in Nat /\ \A x : x \in C <=> \E i \in 1 .. n : s[i] = x
  BY Elements
<1> HIDE DEF n, C
<1>2. f \in [1 .. n -> C] /\ (\A i, j \in 1 .. n : f[i] = f[j] => i = j)
      /\ \A x \in C : \E i \in 1 .. n : f[i] = x
  BY <1>1 DEF n
<1> HIDE DEF f
<1>3. f \in Bijection(1 .. n, C)
  BY <1>2 DEF Bijection, Injection, IsInjective, Surjection
<1>4. ExistsBijection(1 .. n, C)
  BY <1>3 DEF ExistsBijection
<1>5. Cardinality(C) = n
  BY <1>1, <1>4, FS_CountingElements
<1>6. IsFiniteSet(C)
  BY <1>1, <1>4, FS_NatBijection
<1> QED
  BY <1>5, <1>6 DEF n, C

\* A limit keeps a beginning.
LEMMA UpToIs ==
    ASSUME NEW T, NEW list \in Seq(T), NEW limit \in Nat
    PROVE  /\ UpTo(list, limit) \in Seq(T)
           /\ Len(UpTo(list, limit)) = (IF limit < Len(list) THEN limit ELSE Len(list))
           /\ \A i \in 1 .. Len(UpTo(list, limit)) : UpTo(list, limit)[i] = list[i]
<1>1. CASE limit < Len(list)
  <2> DEFINE out == SubSeq(list, 1, limit)
  <2>1. UpTo(list, limit) = out
    BY <1>1 DEF UpTo
  <2>2. out \in Seq(T) /\ Len(out) = limit /\ \A i \in 1 .. limit : out[i] = list[i]
    BY <1>1
  <2> HIDE DEF out
  <2> QED
    BY <1>1, <2>1, <2>2
<1>2. CASE ~(limit < Len(list))
  BY <1>2 DEF UpTo
<1> QED
  BY <1>1, <1>2

LEMMA OrderedAll ==
    ASSUME NEW visible, NEW first, NEW list, Ordered(list, visible, first)
    PROVE  ToSet(list) = visible
<1>1. \A x : x \in ToSet(list) <=> \E i \in 1 .. Len(list) : list[i] = x
  BY Elements DEF Ordered
<1>2. ASSUME NEW x \in ToSet(list) PROVE x \in visible
  <2>1. list \in Seq(visible)
    BY DEF Ordered
  <2> QED
    BY <2>1, Elements
<1>3. ASSUME NEW x \in visible PROVE x \in ToSet(list)
  BY <1>1 DEF Ordered
<1> QED
  BY <1>2, <1>3

\* What is asked for: all that include leads to without what exclude leads to.
LEMMA AskedConvex ==
    ASSUME GraphFits, NEW first \in BOOLEAN,
           NEW include \in SUBSET Known, NEW exclude \in SUBSET Known
    PROVE  LET asked == ReachAll(Along(first), include) \ ReachAll(Along(first), exclude)
           IN  asked \subseteq Known /\ Convex(Along(first), asked)
<1> DEFINE next == Along(first)
           in == ReachAll(next, include)
           out == ReachAll(next, exclude)
<1>0. Graded(Known, next, Id)
  BY AlongFacts
<1> HIDE DEF next
<1>1. in \subseteq Known /\ out \subseteq Known
      /\ (\A x \in in : next[x] \subseteq in) /\ (\A x \in out : next[x] \subseteq out)
  BY <1>0, ReachAllIs
<1> HIDE DEF in, out
<1>2. ASSUME NEW c \in in \ out, NEW u \in next[c], u \notin in \ out
      PROVE  Reach(next, u) \cap (in \ out) = {}
  <2>1. u \in out /\ u \in Known
    BY <1>1, <1>2
  <2>2. Reach(next, u) \subseteq out
    BY <1>0, <1>1, <2>1, ReachIs
  <2> QED
    BY <2>2
<1> QED
  BY <1>1, <1>2 DEF Convex, in, out, next

\* A walk without its limit.
LEMMA WalkOrder ==
    ASSUME GraphFits, NEW first \in BOOLEAN, NEW limit \in Nat,
           NEW include \in SUBSET Known, NEW exclude \in SUBSET Known
    PROVE  LET asked == ReachAll(Along(first), include) \ ReachAll(Along(first), exclude)
           IN  /\ Walk(include, exclude, first, limit) = UpTo(TopoOrder(asked, first), limit)
               /\ Ordered(TopoOrder(asked, first), asked, first)
<1> DEFINE asked == ReachAll(Along(first), include) \ ReachAll(Along(first), exclude)
<1>1. asked \subseteq Known
  BY AskedConvex
<1>2. LoadReachable(include, first) \ LoadReachable(exclude, first) = asked
  BY LoadIs
<1>3. Walk(include, exclude, first, limit) = UpTo(TopoOrder(asked, first), limit)
  BY <1>2 DEF Walk
<1> HIDE DEF asked
<1>4. Ordered(TopoOrder(asked, first), asked, first)
  BY <1>1, OrderIs
<1> QED
  BY <1>3, <1>4 DEF asked

\* What InOrder says, with the places of a list in order.
LEMMA OrderedApart ==
    ASSUME GraphFits, NEW first \in BOOLEAN, NEW visible \in SUBSET Known,
           Convex(Along(first), visible), NEW list, Ordered(list, visible, first),
           NEW i \in 1 .. Len(list), NEW j \in 1 .. Len(list), i < j
    PROVE  list[i] \notin Reach(Along(first), list[j])
<1>1. ASSUME list[i] \in Reach(Along(first), list[j]) PROVE FALSE
  <2>1. j <= i
    BY <1>1, OrderedAlong
  <2>2. i \in Nat /\ j \in Nat
    BY DEF Ordered
  <2> QED
    BY <2>1, <2>2
<1> QED
  BY <1>1

\* walk_revisions lists what it is asked for.
LEMMA WalkIsExact ==
    ASSUME GraphFits, NEW first \in BOOLEAN, NEW limit \in Nat,
           NEW include \in SUBSET Known, NEW exclude \in SUBSET Known,
           NEW a, a.include = include, a.exclude = exclude, a.first = first, a.limit = limit,
           a.list = Walk(include, exclude, first, limit)
    PROVE  WalkExact(a)
<1> DEFINE next == Along(first)
           asked == ReachAll(next, include) \ ReachAll(next, exclude)
           order == TopoOrder(asked, first)
           list == a.list
           n == Len(list)
<1>1. asked \subseteq Known /\ Convex(next, asked)
  BY AskedConvex
<1>2. list = UpTo(order, limit) /\ Ordered(order, asked, first)
  BY WalkOrder
<1>3. next = (IF a.first THEN Firsts ELSE Here)
  BY DEF Along
<1>4. WalkExact(a) <=>
        /\ Len(list) = Cardinality(ToSet(list))
        /\ Len(list) = Min({limit, Cardinality(asked)})
        /\ ToSet(list) \subseteq asked
        /\ InOrder(next, list)
        /\ \A c \in asked : Reach(next, c) \cap ToSet(list) # {} => c \in ToSet(list)
  BY <1>3 DEF WalkExact
<1> HIDE DEF asked, order, list
<1>5. /\ order \in Seq(asked) /\ Len(order) \in Nat
      /\ \A i \in 1 .. Len(order) : order[i] \in asked
      /\ \A i, j \in 1 .. Len(order) : order[i] = order[j] => i = j
      /\ \A c \in asked : \E i \in 1 .. Len(order) : order[i] = c
  <2>1. order \in Seq(asked)
    BY <1>2 DEF Ordered
  <2>2. /\ \A i, j \in 1 .. Len(order) : order[i] = order[j] => i = j
        /\ \A c \in asked : \E i \in 1 .. Len(order) : order[i] = c
    BY <1>2 DEF Ordered
  <2>3. Len(order) \in Nat /\ \A i \in 1 .. Len(order) : order[i] \in asked
    BY <2>1
  <2> QED
    BY <2>1, <2>2, <2>3
<1>6. /\ list \in Seq(asked) /\ n = (IF limit < Len(order) THEN limit ELSE Len(order))
      /\ \A i \in 1 .. n : list[i] = order[i]
  <2> DEFINE kept == UpTo(order, limit)
  <2>1. /\ kept \in Seq(asked) /\ Len(kept) = (IF limit < Len(order) THEN limit ELSE Len(order))
        /\ \A i \in 1 .. Len(kept) : kept[i] = order[i]
    <3>1. order \in Seq(asked)
      BY <1>5
    <3> QED
      BY <3>1, UpToIs
  <2>2. list = kept
    BY <1>2
  <2> HIDE DEF kept
  <2> QED
    BY <2>1, <2>2
<1>7. n \in Nat /\ n <= Len(order) /\ DOMAIN list = 1 .. n
      /\ \A i \in 1 .. n : i \in 1 .. Len(order)
  BY <1>5, <1>6
<1>8. \A c : c \in ToSet(list) <=> \E i \in 1 .. n : list[i] = c
  BY <1>6, Elements
<1>9. Len(list) = Cardinality(ToSet(list))
  <2>1. \A i, j \in 1 .. n : list[i] = list[j] => i = j
    BY <1>5, <1>6, <1>7
  <2> QED
    BY <1>6, <2>1, DistinctLength
<1>10. Len(list) = Min({limit, Cardinality(asked)})
  <2>1. ToSet(order) = asked
    BY <1>2, OrderedAll
  <2>2. Cardinality(asked) = Len(order)
    BY <1>5, <2>1, DistinctLength
  <2>3. Min({limit, Len(order)}) = IF limit < Len(order) THEN limit ELSE Len(order)
    BY <1>5, MinIs
  <2> QED
    BY <1>6, <2>2, <2>3
<1>11. ToSet(list) \subseteq asked
  BY <1>5, <1>6, <1>7, <1>8
<1>12. InOrder(next, list)
  <2> SUFFICES ASSUME NEW j \in 1 .. n, NEW i \in 1 .. j - 1
               PROVE  list[i] \notin Reach(next, list[j])
    BY <1>7 DEF InOrder
  <2>1. i \in 1 .. n /\ i < j
    BY <1>7
  <2>2. order[i] \notin Reach(next, order[j])
    BY <1>1, <1>2, <1>7, <2>1, OrderedApart
  <2> QED
    BY <1>6, <2>1, <2>2
<1>13. ASSUME NEW c \in asked, NEW x \in ToSet(list), x \in Reach(next, c)
       PROVE  c \in ToSet(list)
  <2>1. PICK k \in 1 .. Len(order) : order[k] = c
    BY <1>5
  <2>2. PICK j \in 1 .. n : list[j] = x
    BY <1>8
  <2>3. order[j] \in Reach(next, order[k]) /\ j \in 1 .. Len(order)
    BY <1>6, <1>7, <1>13, <2>1, <2>2
  <2>4. k <= j
    BY <1>1, <1>2, <2>3, OrderedAlong
  <2>5. k \in 1 .. n
    BY <1>7, <2>4
  <2> QED
    BY <1>6, <1>8, <2>1, <2>5
<1> QED
  BY <1>4, <1>9, <1>10, <1>11, <1>12, <1>13


-------------------------------------------------------------------------------
(* The two sides of left...right. *)

\* What out takes of the first k of a list: all that is in cs, in the order of the list.
Picked(out, k, list, cs) ==
    /\ \A i \in 1 .. Len(out) : out[i] \in cs /\ \E p \in 1 .. k : list[p] = out[i]
    /\ \A p \in 1 .. k : list[p] \in cs => \E i \in 1 .. Len(out) : out[i] = list[p]
    /\ \A i, j \in 1 .. Len(out) : i < j =>
          \E p, q \in 1 .. k : p < q /\ list[p] = out[i] /\ list[q] = out[j]

PickNext(out, c, cs) == IF c \in cs THEN Append(out, c) ELSE out

LEMMA PicksOn ==
    ASSUME NEW T, NEW list \in Seq(T), NEW cs, NEW k \in 1 .. Len(list),
           NEW out \in Seq(T), Picked(out, k - 1, list, cs)
    PROVE  /\ PickNext(out, list[k], cs) \in Seq(T)
           /\ Picked(PickNext(out, list[k], cs), k, list, cs)
<1>1. list[k] \in T /\ 1 .. k = (1 .. k - 1) \cup {k} /\ (\A p \in 1 .. k - 1 : p < k)
  OBVIOUS
<1>2. CASE list[k] \notin cs
  <2>1. PickNext(out, list[k], cs) = out
    BY <1>2 DEF PickNext
  <2>2. \A i \in 1 .. Len(out) : out[i] \in cs /\ \E p \in 1 .. k : list[p] = out[i]
    BY <1>1 DEF Picked
  <2>3. \A p \in 1 .. k : list[p] \in cs => \E i \in 1 .. Len(out) : out[i] = list[p]
    BY <1>1, <1>2 DEF Picked
  <2>4. \A i, j \in 1 .. Len(out) : i < j =>
           \E p, q \in 1 .. k : p < q /\ list[p] = out[i] /\ list[q] = out[j]
    BY <1>1 DEF Picked
  <2>5. Picked(out, k, list, cs)
    BY <2>2, <2>3, <2>4 DEF Picked
  <2> QED
    BY <2>1, <2>5
<1>3. CASE list[k] \in cs
  <2> DEFINE new == Append(out, list[k])
             n == Len(out)
  <2>1. /\ n \in Nat /\ new \in Seq(T) /\ Len(new) = n + 1
        /\ \A i \in 1 .. n : new[i] = out[i]
        /\ new[n + 1] = list[k]
    BY <1>1
  <2>2. PickNext(out, list[k], cs) = new
    BY <1>3 DEF PickNext
  <2> HIDE DEF new
  <2>3. ASSUME NEW i \in 1 .. n + 1, i \notin 1 .. n PROVE i = n + 1
    BY <2>1, <2>3
  <2>4. ASSUME NEW i \in 1 .. n + 1
        PROVE  new[i] \in cs /\ \E p \in 1 .. k : list[p] = new[i]
    <3>1. CASE i \in 1 .. n
      <4>1. out[i] \in cs
        BY <3>1 DEF Picked
      <4>2. PICK p \in 1 .. k - 1 : list[p] = out[i]
        BY <3>1 DEF Picked
      <4>3. p \in 1 .. k /\ new[i] = out[i]
        BY <1>1, <2>1, <3>1
      <4> QED
        BY <4>1, <4>2, <4>3
    <3>2. CASE i \notin 1 .. n
      BY <1>1, <1>3, <2>1, <2>3, <3>2
    <3> QED
      BY <3>1, <3>2
  <2>5. ASSUME NEW p \in 1 .. k, list[p] \in cs PROVE \E i \in 1 .. n + 1 : new[i] = list[p]
    <3>1. CASE p \in 1 .. k - 1
      <4>1. PICK i \in 1 .. n : out[i] = list[p]
        BY <2>5, <3>1 DEF Picked
      <4>2. i \in 1 .. n + 1 /\ new[i] = list[p]
        BY <2>1, <4>1
      <4> QED
        BY <4>2
    <3>2. CASE p \notin 1 .. k - 1
      <4>1. p = k /\ n + 1 \in 1 .. n + 1
        BY <1>1, <2>1, <3>2
      <4> QED
        BY <2>1, <4>1
    <3> QED
      BY <3>1, <3>2
  <2>6. ASSUME NEW i \in 1 .. n + 1, NEW j \in 1 .. n + 1, i < j
        PROVE  \E p, q \in 1 .. k : p < q /\ list[p] = new[i] /\ list[q] = new[j]
    <3>1. i \in 1 .. n
      BY <2>1, <2>6
    <3>2. CASE j \in 1 .. n
      <4>1. PICK p, q \in 1 .. k - 1 : p < q /\ list[p] = out[i] /\ list[q] = out[j]
        BY <2>6, <3>1, <3>2 DEF Picked
      <4>2. p \in 1 .. k /\ q \in 1 .. k /\ new[i] = out[i] /\ new[j] = out[j]
        BY <1>1, <2>1, <3>1, <3>2
      <4> QED
        BY <4>1, <4>2
    <3>3. CASE j \notin 1 .. n
      <4>1. PICK p \in 1 .. k - 1 : list[p] = out[i]
        BY <3>1 DEF Picked
      <4>2. new[i] = list[p] /\ new[j] = list[k] /\ p < k
        BY <1>1, <2>1, <2>3, <3>1, <3>3, <4>1
      <4> QED
        BY <1>1, <4>2
    <3> QED
      BY <3>2, <3>3
  <2>7. Picked(new, k, list, cs)
    BY <2>1, <2>4, <2>5, <2>6 DEF Picked
  <2> QED
    BY <2>1, <2>2, <2>7
<1> QED
  BY <1>2, <1>3

LEMMA AmongIs ==
    ASSUME NEW T, NEW list \in Seq(T), NEW cs
    PROVE  Among(list, cs) \in Seq(T) /\ Picked(Among(list, cs), Len(list), list, cs)
<1> DEFINE n == Len(list)
           base == <<>>
           Acc == Seq(T)
           step == [w \in Nat \X Acc |-> PickNext(w[2], list[w[1]], cs)]
           among == CHOOSE f : f = [i \in 0 .. Len(list) |->
               IF i = 0 THEN <<>>
               ELSE IF list[i] \in cs THEN Append(f[i - 1], list[i]) ELSE f[i - 1]]
           Good(f) == {i \in 0 .. n : f[i] \in Acc /\ Picked(f[i], i, list, cs)}
<1>1. Among(list, cs) = among[n]
  BY DEF Among
<1>3. n \in Nat /\ 0 \in Nat
  OBVIOUS
<1>4. \A i \in 1 .. n : \A out \in Acc :
         Picked(out, i - 1, list, cs) =>
            PickNext(out, list[i], cs) \in Acc /\ Picked(PickNext(out, list[i], cs), i, list, cs)
  BY PicksOn
<1>5. base \in Acc /\ Picked(base, 0, list, cs)
  <2>1. base \in Acc /\ Len(base) = 0
    OBVIOUS
  <2>2. 1 .. 0 = {}
    OBVIOUS
  <2> HIDE DEF base
  <2> QED
    BY <2>1, <2>2 DEF Picked
<1> HIDE DEF Acc, n
<1>6. \E f : Counts(0, n, base, step, f)
  <2> HIDE DEF base, step
  <2> QED
    BY <1>3, CountExists
<1>7. PICK f : f = [i \in 0 .. n |-> IF i = 0 THEN base ELSE step[<<i, f[i - 1]>>]]
  BY <1>6 DEF Counts
<1> HIDE DEF base
<1>8. 0 .. n \subseteq Good(f)
  <2>1. 0 \in Good(f)
    <3>1. 0 \in 0 .. n /\ f[0] = base
      BY <1>3, <1>7
    <3> QED
      BY <1>5, <3>1
  <2>2. ASSUME NEW i \in 0 + 1 .. n, i - 1 \in Good(f) PROVE i \in Good(f)
    <3>1. i \in 0 .. n /\ i # 0 /\ i \in Nat /\ i \in 1 .. n
      BY <1>3
    <3>2. f[i] = step[<<i, f[i - 1]>>]
      BY <1>7, <3>1
    <3>3. f[i - 1] \in Acc /\ Picked(f[i - 1], i - 1, list, cs)
      BY <2>2
    <3>4. f[i] = PickNext(f[i - 1], list[i], cs)
      BY <3>1, <3>2, <3>3
    <3> HIDE DEF step
    <3>5. f[i] \in Acc /\ Picked(f[i], i, list, cs)
      BY <1>4, <3>1, <3>3, <3>4
    <3> QED
      BY <3>1, <3>5
  <2> DEFINE good == Good(f)
  <2>3. 0 \in good /\ \A i \in 0 + 1 .. n : i - 1 \in good => i \in good
    BY <2>1, <2>2
  <2> HIDE DEF good
  <2>4. 0 .. n \subseteq good
    BY <1>3, <2>3, Climb
  <2> QED
    BY <2>4 DEF good
<1>9. f = [i \in 0 .. n |-> IF i = 0 THEN base ELSE PickNext(f[i - 1], list[i], cs)]
  <2>1. ASSUME NEW i \in 0 .. n
        PROVE  f[i] = IF i = 0 THEN base ELSE PickNext(f[i - 1], list[i], cs)
    <3>1. CASE i = 0
      BY <1>7, <3>1
    <3>2. CASE i # 0
      <4>1. i \in Nat /\ i - 1 \in 0 .. n
        BY <1>3, <3>2
      <4>2. f[i] = step[<<i, f[i - 1]>>]
        BY <1>7, <3>2
      <4>3. f[i - 1] \in Acc
        BY <1>8, <4>1
      <4> QED
        BY <3>2, <4>1, <4>2, <4>3
    <3> QED
      BY <3>1, <3>2
  <2>2. f = [i \in 0 .. n |-> f[i]]
    BY <1>7
  <2> HIDE DEF step
  <2> QED
    BY <2>1, <2>2
<1>10. among = [i \in 0 .. n |-> IF i = 0 THEN base ELSE PickNext(among[i - 1], list[i], cs)]
  <2>1. \E g : g = [i \in 0 .. n |-> IF i = 0 THEN base ELSE PickNext(g[i - 1], list[i], cs)]
    BY <1>9
  <2> QED
    BY <2>1 DEF PickNext, base, n
<1> HIDE DEF among, step
<1>11. 0 .. n \subseteq Good(among)
  <2>1. 0 \in Good(among)
    <3>1. 0 \in 0 .. n /\ among[0] = base
      BY <1>3, <1>10
    <3> QED
      BY <1>5, <3>1
  <2>2. ASSUME NEW i \in 0 + 1 .. n, i - 1 \in Good(among) PROVE i \in Good(among)
    <3>1. i \in 0 .. n /\ i # 0 /\ i \in Nat /\ i \in 1 .. n
      BY <1>3
    <3>2. among[i] = PickNext(among[i - 1], list[i], cs)
      BY <1>10, <3>1
    <3>3. among[i - 1] \in Acc /\ Picked(among[i - 1], i - 1, list, cs)
      BY <2>2
    <3>4. among[i] \in Acc /\ Picked(among[i], i, list, cs)
      BY <1>4, <3>1, <3>2, <3>3
    <3> QED
      BY <3>1, <3>4
  <2> DEFINE good == Good(among)
  <2>3. 0 \in good /\ \A i \in 0 + 1 .. n : i - 1 \in good => i \in good
    BY <2>1, <2>2
  <2> HIDE DEF good
  <2>4. 0 .. n \subseteq good
    BY <1>3, <2>3, Climb
  <2> QED
    BY <2>4 DEF good
<1>12. among[n] \in Acc /\ Picked(among[n], n, list, cs)
  <2>1. n \in 0 .. n
    BY <1>3
  <2> QED
    BY <1>11, <2>1
<1> QED
  BY <1>1, <1>12 DEF Acc, n

\* Two parts of what is visible, neither of which leads to the other.
Parted(visible, xs, ys) ==
    /\ visible = xs \cup ys /\ xs \cap ys = {}
    /\ \A x \in xs : Reach(Along(FALSE), x) \cap ys = {}
    /\ \A y \in ys : Reach(Along(FALSE), y) \cap xs = {}

\* All that is visible, each commit once and none before what leads to it.
PutOut(list, visible) ==
    /\ list \in Seq(visible)
    /\ \A i, j \in 1 .. Len(list) : list[i] = list[j] => i = j
    /\ ToSet(list) = visible
    /\ InOrder(Along(FALSE), list)

\* Such parts of a list in order may be put out one after the other.
LEMMA PartsInOrder ==
    ASSUME GraphFits, NEW visible \in SUBSET Known, Convex(Along(FALSE), visible),
           NEW list, Ordered(list, visible, FALSE),
           NEW xs, NEW ys, Parted(visible, xs, ys),
           NEW A \in Seq(visible), Picked(A, Len(list), list, xs),
           NEW B \in Seq(visible), Picked(B, Len(list), list, ys)
    PROVE  PutOut(A \o B, visible)
<1> DEFINE next == Along(FALSE)
           all == A \o B
           m == Len(A)
           n == Len(B)
<1>1. /\ all \in Seq(visible) /\ m \in Nat /\ n \in Nat /\ Len(all) = m + n
      /\ \A i \in 1 .. m : all[i] = A[i]
      /\ \A i \in m + 1 .. m + n : all[i] = B[i - m] /\ i - m \in 1 .. n
      /\ \A i \in 1 .. n : all[m + i] = B[i] /\ m + i \in 1 .. m + n
  OBVIOUS
<1> HIDE DEF all, next
<1>2. ASSUME NEW i \in 1 .. m + n, i \notin 1 .. m PROVE i \in m + 1 .. m + n
  BY <1>1, <1>2
<1>3. ASSUME NEW p \in 1 .. Len(list), NEW q \in 1 .. Len(list), p < q
      PROVE  list[p] # list[q] /\ list[p] \notin Reach(next, list[q])
  <2>1. list[p] \notin Reach(next, list[q])
    BY <1>3, OrderedApart DEF next
  <2>2. list[p] # list[q]
    BY <1>3 DEF Ordered
  <2> QED
    BY <2>1, <2>2
<1>4. ASSUME NEW i \in 1 .. m, NEW j \in 1 .. m, i < j
      PROVE  A[i] # A[j] /\ A[i] \notin Reach(next, A[j])
  <2>1. PICK p, q \in 1 .. Len(list) : p < q /\ list[p] = A[i] /\ list[q] = A[j]
    BY <1>4 DEF Picked
  <2> QED
    BY <1>3, <2>1
<1>5. ASSUME NEW i \in 1 .. n, NEW j \in 1 .. n, i < j
      PROVE  B[i] # B[j] /\ B[i] \notin Reach(next, B[j])
  <2>1. PICK p, q \in 1 .. Len(list) : p < q /\ list[p] = B[i] /\ list[q] = B[j]
    BY <1>5 DEF Picked
  <2> QED
    BY <1>3, <2>1
<1>6. /\ \A i \in 1 .. m : A[i] \in xs /\ A[i] \in visible
      /\ \A i \in 1 .. n : B[i] \in ys /\ B[i] \in visible
  BY DEF Picked
<1>7. ASSUME NEW i \in 1 .. m + n, NEW j \in 1 .. m + n, i < j
      PROVE  all[i] # all[j] /\ all[i] \notin Reach(next, all[j])
  <2>1. CASE i \in 1 .. m /\ j \in 1 .. m
    BY <1>1, <1>4, <1>7, <2>1
  <2>2. CASE i \in 1 .. m /\ j \notin 1 .. m
    <3>1. all[i] = A[i] /\ all[j] = B[j - m] /\ j - m \in 1 .. n
      BY <1>1, <1>2, <2>2
    <3>2. A[i] \in xs /\ B[j - m] \in ys /\ B[j - m] \in visible
      BY <1>6, <2>2, <3>1
    <3>3. Reach(next, B[j - m]) \cap xs = {}
      BY <3>2 DEF next, Parted
    <3>4. A[i] \notin Reach(next, B[j - m])
      BY <3>2, <3>3
    <3>5. B[j - m] \in Reach(next, B[j - m])
      <4>1. Graded(Known, next, Id)
        BY AlongFacts DEF next
      <4>2. B[j - m] \in Known
        BY <3>2
      <4> QED
        BY <4>1, <4>2, ReachIs
    <3> QED
      BY <3>1, <3>4, <3>5
  <2>3. CASE i \notin 1 .. m
    <3>1. i \in m + 1 .. m + n /\ j \in m + 1 .. m + n
      BY <1>1, <1>2, <1>7, <2>3
    <3>2. all[i] = B[i - m] /\ i - m \in 1 .. n /\ all[j] = B[j - m] /\ j - m \in 1 .. n
      BY <1>1, <3>1
    <3>3. i - m < j - m
      BY <1>1, <1>7, <3>1
    <3> QED
      BY <1>5, <3>2, <3>3
  <2> QED
    BY <2>1, <2>2, <2>3
<1>8. ASSUME NEW i \in 1 .. m + n, NEW j \in 1 .. m + n, all[i] = all[j] PROVE i = j
  <2>1. i \in Int /\ j \in Int /\ ~(i < j) /\ ~(j < i)
    BY <1>1, <1>7, <1>8
  <2> QED
    BY <2>1
<1>9. ToSet(all) = visible
  <2>0. all \in Seq(visible) /\ Len(all) = m + n
    BY <1>1
  <2>1. \A x : x \in ToSet(all) <=> \E i \in 1 .. m + n : all[i] = x
    BY <2>0, Elements
  <2>2. ToSet(all) \subseteq visible
    BY <2>0, Elements
  <2>3. ASSUME NEW x \in visible PROVE x \in ToSet(all)
    <3>0. x \in xs \/ x \in ys
      BY DEF Parted
    <3>1. PICK p \in 1 .. Len(list) : list[p] = x
      BY DEF Ordered
    <3>2. CASE x \in xs
      <4>1. PICK i \in 1 .. m : A[i] = x
        BY <3>1, <3>2 DEF Picked
      <4>2. i \in 1 .. m + n /\ all[i] = x
        BY <1>1, <4>1
      <4> QED
        BY <2>1, <4>2
    <3>3. CASE x \in ys
      <4>1. PICK i \in 1 .. n : B[i] = x
        BY <3>1, <3>3 DEF Picked
      <4>2. m + i \in 1 .. m + n /\ all[m + i] = x
        BY <1>1, <4>1
      <4> QED
        BY <2>1, <4>2
    <3> QED
      BY <3>0, <3>2, <3>3
  <2> QED
    BY <2>2, <2>3
<1>10. InOrder(next, all)
  <2> SUFFICES ASSUME NEW j \in 1 .. m + n, NEW i \in 1 .. j - 1
               PROVE  all[i] \notin Reach(next, all[j])
    BY <1>1 DEF InOrder
  <2>1. i \in 1 .. m + n /\ i < j
    BY <1>1
  <2> QED
    BY <1>7, <2>1
<1> QED
  BY <1>1, <1>8, <1>9, <1>10 DEF all, next, PutOut


\* order_sides: each commit once, in order, whichever side is put first.
LEMMA OrderSidesIs ==
    ASSUME GraphFits, NEW visible \in SUBSET Known, Convex(Along(FALSE), visible),
           NEW list, Ordered(list, visible, FALSE),
           NEW lefts, NEW rights, Parted(visible, lefts, rights)
    PROVE  PutOut(OrderSides(list, lefts, rights), visible)
<1> DEFINE A == Among(list, lefts)
           B == Among(list, rights)
           all == OrderSides(list, lefts, rights)
<1>1. ToSet(list) \ rights = lefts
  BY OrderedAll DEF Parted
<1>2. all = A \o B \/ all = B \o A
  BY <1>1 DEF OrderSides
<1>3. list \in Seq(visible)
  BY DEF Ordered
<1>4. /\ A \in Seq(visible) /\ Picked(A, Len(list), list, lefts)
      /\ B \in Seq(visible) /\ Picked(B, Len(list), list, rights)
  BY <1>3, AmongIs
<1>5. Parted(visible, rights, lefts)
  BY DEF Parted
<1> HIDE DEF A, B, all
<1>6. PutOut(A \o B, visible)
  BY <1>4, PartsInOrder
<1>7. PutOut(B \o A, visible)
  BY <1>4, <1>5, PartsInOrder
<1> QED
  BY <1>2, <1>6, <1>7 DEF all

\* Without a limit a walk is the whole list.
LEMMA WholeWalk ==
    ASSUME GraphFits, shallow = {}, NEW include \in SUBSET Known, NEW exclude \in SUBSET Known
    PROVE  LET asked == ReachAll(Edges, include) \ ReachAll(Edges, exclude)
           IN  /\ asked \subseteq Known /\ Convex(Edges, asked)
               /\ Ordered(Walk(include, exclude, FALSE, NoLimit), asked, FALSE)
<1> DEFINE asked == ReachAll(Edges, include) \ ReachAll(Edges, exclude)
           order == TopoOrder(asked, FALSE)
<1>1. Along(FALSE) = Edges
  BY EdgesFacts
<1>2. asked \subseteq Known /\ Convex(Edges, asked)
  BY <1>1, AskedConvex
<1>3. NoLimit \in Nat
  BY RevisionsAssumption, FS_CardinalityType DEF NoLimit
<1>4. /\ Walk(include, exclude, FALSE, NoLimit) = UpTo(order, NoLimit)
      /\ Ordered(order, asked, FALSE)
  BY <1>1, <1>3, WalkOrder
<1> HIDE DEF asked, order
<1>5. Len(order) <= NoLimit
  <2>1. ToSet(order) = asked
    BY <1>4, OrderedAll
  <2>2. order \in Seq(asked) /\ \A i, j \in 1 .. Len(order) : order[i] = order[j] => i = j
    BY <1>4 DEF Ordered
  <2>3. Len(order) = Cardinality(asked)
    BY <2>1, <2>2, DistinctLength
  <2>4. asked \in SUBSET Commit
    BY <1>2 DEF GraphFits
  <2>5. Cardinality(asked) <= Cardinality(Commit)
    BY <2>4, RevisionsAssumption, FS_Subset
  <2> QED
    BY <2>3, <2>5 DEF NoLimit
<1>6. UpTo(order, NoLimit) = order
  <2>1. Len(order) \in Nat
    BY <1>4 DEF Ordered
  <2> QED
    BY <1>3, <1>5, <2>1 DEF UpTo
<1> QED
  BY <1>2, <1>4, <1>6 DEF asked

\* Merge bases lead to all that two commits both lead to.
LEMMA BasesCover ==
    ASSUME GraphFits, shallow = {}, NEW left \in Known, NEW right \in Known
    PROVE  /\ MergeBases(left, {right}) \subseteq Known
           /\ ReachAll(Edges, MergeBases(left, {right})) = Reach(Edges, left) \cap Reach(Edges, right)
<1> DEFINE common == Reach(Edges, left) \cap Reach(Edges, right)
<1>1. ReachAll(Edges, {right}) = Reach(Edges, right)
  BY DEF ReachAll
<1>2. MergeBases(left, {right}) = Best(Edges, common)
  BY <1>1, MergeBasesIs
<1>3. common \in SUBSET Known /\ Closed(Edges, common)
  BY <1>1, BothClosed
<1> HIDE DEF common
<1>4. Best(Edges, common) \subseteq common
  BY DEF Best
<1>5. ReachAll(Edges, Best(Edges, common)) \subseteq common
  <2>1. \A p \in Known : p \in common => Edges[p] \subseteq common
    BY <1>3 DEF Closed
  <2>2. Best(Edges, common) \in SUBSET Known
    BY <1>3, <1>4
  <2> QED
    BY <1>4, <2>1, <2>2, EdgesFacts, ReachAllIs
<1>6. common \subseteq ReachAll(Edges, Best(Edges, common))
  <2>1. \A c \in common : \E b \in Best(Edges, common) : c \in Reach(Edges, b)
    BY <1>3, SomeBest
  <2> QED
    BY <2>1 DEF ReachAll
<1> QED
  BY <1>2, <1>3, <1>4, <1>5, <1>6 DEF common

\* left...right is exact.
LEMMA SidesAreExact ==
    ASSUME GraphFits, shallow = {}, NEW left \in Known, NEW right \in Known,
           NEW a, a.left = left, a.right = right, a.result = Symmetric(left, right)
    PROVE  SidesExact(a)
<1> DEFINE L == Reach(Edges, left)
           R == Reach(Edges, right)
           bases == MergeBases(left, {right})
           lefts == ToSet(Walk({left}, bases, FALSE, NoLimit))
           rights == ToSet(Walk({right}, bases, FALSE, NoLimit))
           both == Walk({left, right}, bases, FALSE, NoLimit)
           list == OrderSides(both, lefts, rights)
           r == a.result
<1>0. Graded(Known, Edges, Id) /\ Along(FALSE) = Edges
  BY EdgesFacts
<1>1. r = [list     |-> list,
           mark     |-> [c \in ToSet(list) |-> IF c \in lefts THEN "left" ELSE "right"],
           boundary |-> Boundary(list, LoadReachable(bases, FALSE))]
  BY DEF Symmetric, Sides
<1>2. bases \in SUBSET Known /\ ReachAll(Edges, bases) = L \cap R
  BY BasesCover
<1>3. LoadReachable(bases, FALSE) = L \cap R
  BY <1>0, <1>2, LoadIs
<1>4. /\ L \subseteq Known /\ R \subseteq Known
      /\ \A x \in L : Edges[x] \subseteq L /\ Reach(Edges, x) \subseteq L
      /\ \A x \in R : Edges[x] \subseteq R /\ Reach(Edges, x) \subseteq R
  BY <1>0, ReachIs, ReachOn
<1>5. ReachAll(Edges, {left}) = L /\ ReachAll(Edges, {right}) = R
      /\ ReachAll(Edges, {left, right}) = L \cup R
  BY DEF ReachAll
<1>6. SidesExact(a) <=>
        /\ Len(r.list) = Cardinality(ToSet(r.list))
        /\ ToSet(r.list) = (L \ R) \cup (R \ L)
        /\ InOrder(Edges, r.list)
        /\ \A c \in L \ R : r.mark[c] = "left"
        /\ \A c \in R \ L : r.mark[c] = "right"
        /\ r.boundary = (UNION {Edges[c] : c \in ToSet(r.list)}) \ ToSet(r.list)
  BY DEF SidesExact
<1> HIDE DEF bases, L, R
<1>7. lefts = L \ R
  <2>1. Ordered(Walk({left}, bases, FALSE, NoLimit), L \ (L \cap R), FALSE)
    BY <1>2, <1>5, WholeWalk
  <2>2. L \ (L \cap R) = L \ R
    OBVIOUS
  <2> QED
    BY <2>1, <2>2, OrderedAll
<1>8. rights = R \ L
  <2>1. Ordered(Walk({right}, bases, FALSE, NoLimit), R \ (L \cap R), FALSE)
    BY <1>2, <1>5, WholeWalk
  <2>2. R \ (L \cap R) = R \ L
    OBVIOUS
  <2> QED
    BY <2>1, <2>2, OrderedAll
<1> DEFINE visible == (L \ R) \cup (R \ L)
<1>9. visible \subseteq Known /\ Convex(Edges, visible) /\ Ordered(both, visible, FALSE)
  <2> DEFINE asked == (L \cup R) \ (L \cap R)
  <2>1. asked \subseteq Known /\ Convex(Edges, asked) /\ Ordered(both, asked, FALSE)
    BY <1>2, <1>5, WholeWalk
  <2>2. asked = visible
    OBVIOUS
  <2> HIDE DEF asked, visible
  <2> QED
    BY <2>1, <2>2
<1> HIDE DEF both, lefts, rights
<1>10. /\ list \in Seq(visible)
       /\ \A i, j \in 1 .. Len(list) : list[i] = list[j] => i = j
       /\ ToSet(list) = visible
       /\ InOrder(Edges, list)
  <2>1. visible = lefts \cup rights /\ lefts \cap rights = {}
    BY <1>7, <1>8
  <2>2. \A x \in lefts : Reach(Edges, x) \cap rights = {}
    BY <1>4, <1>7, <1>8
  <2>3. \A y \in rights : Reach(Edges, y) \cap lefts = {}
    BY <1>4, <1>7, <1>8
  <2>4. Parted(visible, lefts, rights)
    BY <1>0, <2>1, <2>2, <2>3 DEF Parted
  <2> HIDE DEF visible
  <2>5. PutOut(list, visible)
    BY <1>0, <1>9, <2>4, OrderSidesIs
  <2> QED
    BY <1>0, <2>5 DEF PutOut
<1> HIDE DEF list
<1>11. r.list = list
       /\ r.mark = [c \in ToSet(list) |-> IF c \in lefts THEN "left" ELSE "right"]
       /\ r.boundary = Boundary(list, L \cap R)
  <2>1. a.result = [list     |-> list,
           mark     |-> [c \in ToSet(list) |-> IF c \in lefts THEN "left" ELSE "right"],
           boundary |-> Boundary(list, L \cap R)]
    BY <1>1, <1>3
  <2> QED
    BY <2>1
<1> HIDE DEF r
<1>12. Len(list) = Cardinality(ToSet(list))
  BY <1>10, DistinctLength
<1>13. (\A c \in L \ R : r.mark[c] = "left") /\ (\A c \in R \ L : r.mark[c] = "right")
  BY <1>7, <1>10, <1>11
<1>14. Boundary(list, L \cap R) = (UNION {Edges[c] : c \in ToSet(list)}) \ ToSet(list)
  <2>1. \A c \in visible : Edges[c] = ToSet(ParentsOf(c))
    BY <1>9, EdgesFacts
  <2>2. {Edges[c] : c \in visible} = {ToSet(ParentsOf(c)) : c \in visible}
    BY <2>1
  <2> DEFINE up == UNION {Edges[c] : c \in visible}
  <2>3. Boundary(list, L \cap R) = (up \ visible) \cap (L \cap R)
    BY <1>10, <2>2 DEF Boundary
  <2>4. up \subseteq L \cup R
    BY <1>4
  <2> HIDE DEF up
  <2>5. (up \ visible) \cap (L \cap R) = up \ visible
    BY <2>4
  <2> QED
    BY <1>10, <2>3, <2>5 DEF up
<1> QED
  BY <1>6, <1>10, <1>11, <1>12, <1>13, <1>14


-------------------------------------------------------------------------------
(* The graph stays fit. *)

\* A history that is saved is whole.
LEMMA StoredIs ==
    ASSUME GraphFits, NEW tips \in SUBSET Known
    PROVE  /\ Stored(tips) \subseteq Known
           /\ \A c \in Stored(tips) : ToSet(parents[c]) \subseteq Stored(tips)
<1> DEFINE More(x) == x \cup UNION {ToSet(parents[c]) : c \in x}
           S == SUBSET Known
           Stop == {x \in S : More(x) = x}
           step == [x \in S |-> More(x)]
           out == [x \in S |-> x]
           stored == CHOOSE f : f = [cs \in SUBSET Known |->
                       LET more == cs \cup UNION {ToSet(parents[c]) : c \in cs}
                       IN  IF more = cs THEN cs ELSE f[more]]
           R == {x \in S : \A c \in x : ToSet(parents[c]) \subseteq x}
<1>1. Stored(tips) = stored[tips]
  BY DEF Stored
<1>2. \A x \in S : More(x) \in S
  <2>1. \A c \in Known : ToSet(parents[c]) \subseteq Known
    BY Elements DEF GraphFits
  <2> QED
    BY <2>1
<1>3. \E f : f = [x \in S |-> IF More(x) = x THEN x ELSE f[More(x)]]
  <2>1. \A x \in S \ Stop : step[x] \in S
    BY <1>2
  <2>2. \E f : Loops(S, Stop, out, step, f)
    <3> HIDE DEF S, Stop, step, out
    <3> QED
      BY <2>1, LoopExists
  <2>3. PICK f : f = [x \in S |-> IF x \in Stop THEN out[x] ELSE f[step[x]]]
    BY <2>2 DEF Loops
  <2>4. ASSUME NEW x \in S PROVE f[x] = IF More(x) = x THEN x ELSE f[More(x)]
    <3>1. x \in Stop <=> More(x) = x
      OBVIOUS
    <3>2. out[x] = x /\ step[x] = More(x)
      OBVIOUS
    <3> HIDE DEF S, Stop, step, out, More
    <3> QED
      BY <2>3, <3>1, <3>2
  <2>5. f = [x \in S |-> IF More(x) = x THEN x ELSE f[More(x)]]
    <3>1. f = [x \in S |-> f[x]]
      BY <2>3
    <3> HIDE DEF S, More
    <3> QED
      BY <2>4, <3>1
  <2> QED
    BY <2>5
<1>4. stored = [x \in S |-> IF More(x) = x THEN x ELSE stored[More(x)]]
  BY <1>3
<1> HIDE DEF stored
<1> DEFINE left == [x \in S |-> Known \ x]
<1>5. ASSUME NEW x \in S, More(x) = x PROVE stored[x] \in R
  <2>1. stored[x] = x
    BY <1>4, <1>5
  <2>2. x \in R
    BY <1>5
  <2> QED
    BY <2>1, <2>2
<1>6. ASSUME NEW x \in S, More(x) # x
      PROVE  /\ step[x] \in S /\ stored[x] = stored[step[x]]
             /\ left[step[x]] \subseteq left[x] /\ left[step[x]] # left[x]
  <2>1. More(x) \in S /\ step[x] = More(x) /\ x \subseteq More(x)
    BY <1>2
  <2>2. stored[x] = stored[step[x]]
    BY <1>4, <1>6, <2>1
  <2>3. left[More(x)] = Known \ More(x) /\ left[x] = Known \ x
    BY <2>1
  <2> HIDE DEF More
  <2>4. Known \ More(x) \subseteq Known \ x /\ Known \ More(x) # Known \ x
    BY <1>6, <2>1
  <2> QED
    BY <2>1, <2>2, <2>3, <2>4
<1>7. \A x \in S : stored[x] \in R
  <2>1. \A x \in S : left[x] \subseteq Known
    OBVIOUS
  <2>2. \A x \in S : (x \in Stop <=> More(x) = x)
    OBVIOUS
  <2>3. IsFiniteSet(Known)
    BY GraphFacts
  <2> HIDE DEF S, R, Stop, step, left, More
  <2>4. Ends(Known, S, Stop, step, stored, R, left)
    BY <1>5, <1>6, <2>1, <2>2 DEF Ends
  <2> QED
    BY <2>3, <2>4, LoopEnds
<1>8. tips \in S
  OBVIOUS
<1> QED
  BY <1>1, <1>7, <1>8

LEMMA GraphInit == HistoryInit => GraphFits
<1> SUFFICES ASSUME HistoryInit PROVE GraphFits
  OBVIOUS
<1>1. Known = {} /\ DOMAIN replaced = {}
  BY DEF HistoryInit, Known
<1>2. parents = [c \in {} |-> 0] /\ date = [c \in {} |-> 0] /\ replaced = [c \in {} |-> 0]
  BY DEF HistoryInit
<1>3. parents \in [Known -> Seq(Known)] /\ date \in [Known -> Date]
      /\ replaced \in [DOMAIN replaced -> Known]
  BY <1>1, <1>2
<1> QED
  BY <1>1, <1>3 DEF GraphFits, HistoryInit

LEMMA WriteFits ==
    ASSUME GraphFits, NEW c \in Commit, NEW ps \in Seq(Known), NEW d \in Date,
           WriteCommit(c, ps, d)
    PROVE  GraphFits'
<1>1. /\ c \notin Known /\ ToSet(ps) \subseteq {p \in Known : p < c}
      /\ parents' = [x \in Known \cup {c} |-> IF x = c THEN ps ELSE parents[x]]
      /\ date' = [x \in Known \cup {c} |-> IF x = c THEN d ELSE date[x]]
      /\ replaced' = replaced /\ shallow' = shallow /\ saved' = saved
  BY DEF WriteCommit
<1>2. Known' = Known \cup {c} /\ Known' \subseteq Commit
  BY <1>1 DEF Known, GraphFits
<1>3. \A x \in Known : parents'[x] = parents[x]
  BY <1>1
<1>4. parents'[c] = ps
  BY <1>1
<1>5. parents' \in [Known' -> Seq(Known')]
  <2>1. \A x \in Known : parents[x] \in Seq(Known)
    BY DEF GraphFits
  <2>2. \A s \in Seq(Known) : s \in Seq(Known \cup {c})
    OBVIOUS
  <2> QED
    BY <1>1, <1>2, <2>1, <2>2
<1>6. date' \in [Known' -> Date]
  BY <1>1, <1>2 DEF GraphFits
<1>7. \A x \in Known' : \A p \in ToSet(parents'[x]) : p < x
  BY <1>1, <1>2, <1>3, <1>4 DEF GraphFits
<1>8. /\ replaced' \in [DOMAIN replaced' -> Known'] /\ DOMAIN replaced' \subseteq Known'
      /\ shallow' \subseteq Known' /\ saved' \subseteq Known'
  BY <1>1, <1>2 DEF GraphFits
<1>9. \A x \in DOMAIN replaced' : \A p \in ToSet(parents'[replaced'[x]]) : p < x
  <2>1. \A x \in DOMAIN replaced : replaced[x] \in Known
    BY DEF GraphFits
  <2> QED
    BY <1>1, <1>3, <2>1 DEF GraphFits
<1>10. \A x \in saved' : ToSet(parents'[x]) \subseteq saved'
  BY <1>1, <1>3 DEF GraphFits
<1> QED
  BY <1>2, <1>5, <1>6, <1>7, <1>8, <1>9, <1>10 DEF GraphFits

LEMMA ReplaceFits ==
    ASSUME GraphFits, NEW c \in Known, NEW r \in Known, CreateReplacement(c, r)
    PROVE  GraphFits'
<1>1. /\ \A p \in ToSet(parents[r]) : p < c
      /\ replaced' = [x \in {c} |-> r]
      /\ parents' = parents /\ date' = date /\ shallow' = shallow /\ saved' = saved
  BY DEF CreateReplacement
<1>2. Known' = Known
  BY <1>1 DEF Known
<1>3. replaced' \in [DOMAIN replaced' -> Known] /\ DOMAIN replaced' = {c} /\ replaced'[c] = r
  BY <1>1
<1> QED
  BY <1>1, <1>2, <1>3 DEF GraphFits

LEMMA UnreplaceFits ==
    ASSUME GraphFits, NEW c \in Known, DeleteReplacement(c)
    PROVE  GraphFits'
<1>1. /\ replaced' = [x \in {} |-> c]
      /\ parents' = parents /\ date' = date /\ shallow' = shallow /\ saved' = saved
  BY DEF DeleteReplacement
<1>2. Known' = Known
  BY <1>1 DEF Known
<1>3. replaced' \in [DOMAIN replaced' -> Known] /\ DOMAIN replaced' = {}
  BY <1>1
<1> QED
  BY <1>1, <1>2, <1>3 DEF GraphFits

LEMMA SameFits ==
    ASSUME GraphFits, UNCHANGED <<parents, date, replaced>>,
           shallow' \subseteq Known, saved' \subseteq Known,
           \A c \in saved' : ToSet(parents[c]) \subseteq saved'
    PROVE  GraphFits'
<1>1. Known' = Known
  BY DEF Known
<1> QED
  BY <1>1 DEF GraphFits

LEMMA GraphStays == GraphFits /\ [HistoryNext]_<<graph, refs, answer>> => GraphFits'
<1> SUFFICES ASSUME GraphFits, [HistoryNext]_<<graph, refs, answer>> PROVE GraphFits'
  OBVIOUS
<1>0. \A c \in saved : ToSet(parents[c]) \subseteq saved
  BY DEF GraphFits
<1>1. ASSUME UNCHANGED graph PROVE GraphFits'
  <2>1. UNCHANGED <<parents, date, replaced, shallow, saved>>
    BY <1>1 DEF graph
  <2> QED
    BY <1>0, <2>1, SameFits DEF GraphFits
<1>2. CASE UNCHANGED <<graph, refs, answer>>
  BY <1>1, <1>2
<1>3. CASE (Question \/ Answered) /\ UNCHANGED <<graph, refs>>
  BY <1>1, <1>3
<1>4. CASE answer = NoAnswer /\ Alter /\ UNCHANGED answer
  <2>1. ASSUME NEW c \in Commit, NEW ps \in Seq(Known), NEW d \in Date, WriteCommit(c, ps, d)
        PROVE  GraphFits'
    BY <2>1, WriteFits
  <2>2. ASSUME NEW c \in Known, NEW r \in Known, CreateReplacement(c, r) PROVE GraphFits'
    BY <2>2, ReplaceFits
  <2>3. ASSUME NEW c \in Known, DeleteReplacement(c) PROVE GraphFits'
    BY <2>3, UnreplaceFits
  <2>4. ASSUME NEW cs \in SUBSET Known, WriteShallow(cs) PROVE GraphFits'
    <3>1. UNCHANGED <<parents, date, replaced>> /\ shallow' = cs /\ saved' = saved
      BY <2>4 DEF WriteShallow
    <3> QED
      BY <1>0, <3>1, SameFits DEF GraphFits
  <2>5. ASSUME NEW cs \in SUBSET Known, WriteCommitGraph(cs) PROVE GraphFits'
    <3>1. UNCHANGED <<parents, date, replaced>> /\ shallow' = shallow /\ saved' = Stored(cs)
      BY <2>5 DEF WriteCommitGraph
    <3> QED
      BY <3>1, StoredIs, SameFits DEF GraphFits
  <2>6. ASSUME NEW r \in Ref, NEW tip \in ARef, SetReference(r, tip) PROVE GraphFits'
    BY <1>1, <2>6 DEF SetReference
  <2> QED
    BY <1>4, <2>1, <2>2, <2>3, <2>4, <2>5, <2>6 DEF Alter
<1> QED
  BY <1>2, <1>3, <1>4 DEF HistoryNext


-------------------------------------------------------------------------------
(* The answers. *)

\* BasesBest, of some answer.
BasesFit(a) ==
    a.bases = Best(Here, {c \in Known : \A i \in DOMAIN a.between : c \in ReachAll(Here, a.between[i])})

\* AncestryTrue, of some answer.
AnswerTrue(a) ==
    /\ a.op = "ancestor" => a.result = (a.ancestor \in Reach(Here, a.descendant))
    /\ a.op = "bases" /\ shallow = {} => BasesFit(a)
    /\ a.op = "walk" => WalkExact(a)
    /\ a.op = "sides" /\ shallow = {} => SidesExact(a)

LEMMA AnswerIs == AncestryTrue <=> AnswerTrue(answer)
<1>1. BasesBest <=> (answer.op = "bases" /\ shallow = {} => BasesFit(answer))
  BY DEF BasesBest, BasesFit, Best
<1> QED
  BY <1>1 DEF AncestryTrue, AncestryExact, ListsExact, AnswerTrue

\* An answer stays true while the graph stays.
LEMMA AnswerStays ==
    ASSUME NEW a, AnswerTrue(a), UNCHANGED graph
    PROVE  AnswerTrue(a)'
<1>1. UNCHANGED <<parents, date, replaced, shallow, saved>>
  BY DEF graph
<1>2. Known' = Known
  BY <1>1 DEF Known
<1>3. \A c : ParentsOf(c)' = ParentsOf(c)
  BY <1>1 DEF ParentsOf, Resolved
<1>4. Edges' = Edges
  BY <1>2, <1>3 DEF Edges
<1>5. Here' = Here
  BY <1>1, <1>2, <1>4 DEF Here
<1>6. Firsts' = Firsts
  <2>1. \A c : Selected(c, TRUE)' = Selected(c, TRUE)
    BY <1>3 DEF Selected
  <2> QED
    BY <1>1, <1>2, <2>1 DEF Firsts
<1>7. (a.op = "ancestor" => a.result = (a.ancestor \in Reach(Here, a.descendant)))'
  BY <1>5 DEF AnswerTrue
<1>8. (a.op = "bases" /\ shallow = {} => BasesFit(a))'
  BY <1>1, <1>2, <1>5 DEF AnswerTrue, BasesFit
<1>9. (a.op = "walk" => WalkExact(a))'
  BY <1>5, <1>6 DEF AnswerTrue, WalkExact
<1>10. (a.op = "sides" /\ shallow = {} => SidesExact(a))'
  BY <1>1, <1>4 DEF AnswerTrue, SidesExact
<1> QED
  BY <1>7, <1>8, <1>9, <1>10 DEF AnswerTrue

\* Each question is answered truly.
LEMMA AncestorTrue ==
    ASSUME GraphFits, NEW p \in Known, NEW d \in Known
    PROVE  AnswerTrue([op |-> "ancestor", ancestor |-> p, descendant |-> d,
                       result |-> IsAncestor(p, d)])
BY AncestorIs DEF AnswerTrue

LEMMA MergeBasesTrue ==
    ASSUME GraphFits, NEW one \in Known, NEW others \in SUBSET Known
    PROVE  AnswerTrue([op |-> "bases", between |-> <<{one}, others>>,
                       bases |-> MergeBases(one, others)])
<1> DEFINE n == <<{one}, others>>
           common == {c \in Known : \A i \in DOMAIN n : c \in ReachAll(Here, n[i])}
<1> SUFFICES ASSUME shallow = {} PROVE MergeBases(one, others) = Best(Here, common)
  BY DEF AnswerTrue, BasesFit
<1>1. Here = Edges
  BY EdgesFacts DEF Along
<1>2. DOMAIN n = {1, 2} /\ n[1] = {one} /\ n[2] = others
  OBVIOUS
<1>3. ReachAll(Edges, {one}) = Reach(Edges, one)
  BY DEF ReachAll
<1>4. Reach(Edges, one) \subseteq Known
  BY EdgesFacts, ReachIs
<1> HIDE DEF n
<1>5. common = Reach(Edges, one) \cap ReachAll(Edges, others)
  BY <1>1, <1>2, <1>3, <1>4
<1> QED
  BY <1>1, <1>5, MergeBasesIs

LEMMA OctopusTrue ==
    ASSUME GraphFits, NEW cs \in Seq(Known), Len(cs) >= 2
    PROVE  AnswerTrue([op |-> "bases", between |-> [i \in DOMAIN cs |-> {cs[i]}],
                       bases |-> OctopusBases(cs)])
<1> DEFINE n == [i \in DOMAIN cs |-> {cs[i]}]
           common == {c \in Known : \A i \in DOMAIN n : c \in ReachAll(Here, n[i])}
<1> SUFFICES ASSUME shallow = {} PROVE OctopusBases(cs) = Best(Here, common)
  BY DEF AnswerTrue, BasesFit
<1>1. Here = Edges
  BY EdgesFacts DEF Along
<1>2. DOMAIN n = 1 .. Len(cs) /\ \A i \in 1 .. Len(cs) : n[i] = {cs[i]}
  OBVIOUS
<1>3. \A c : ReachAll(Edges, {c}) = Reach(Edges, c)
  BY DEF ReachAll
<1> HIDE DEF n
<1>4. common = Shared(cs, Len(cs))
  BY <1>1, <1>2, <1>3 DEF Shared
<1>5. Len(cs) >= 1
  OBVIOUS
<1> QED
  BY <1>1, <1>4, <1>5, OctopusIs

LEMMA WalkTrue ==
    ASSUME GraphFits, NEW first \in BOOLEAN, NEW limit \in Nat,
           NEW include \in SUBSET Known, NEW exclude \in SUBSET Known
    PROVE  AnswerTrue([op |-> "walk", include |-> include, exclude |-> exclude, first |-> first,
                       limit |-> limit, list |-> Walk(include, exclude, first, limit)])
<1> DEFINE a == [op |-> "walk", include |-> include, exclude |-> exclude, first |-> first,
                 limit |-> limit, list |-> Walk(include, exclude, first, limit)]
<1>1. /\ a.op = "walk" /\ a.include = include /\ a.exclude = exclude /\ a.first = first
      /\ a.limit = limit /\ a.list = Walk(include, exclude, first, limit)
  OBVIOUS
<1> HIDE DEF a
<1>2. WalkExact(a)
  BY <1>1, WalkIsExact
<1>3. AnswerTrue(a)
  BY <1>1, <1>2 DEF AnswerTrue
<1> QED
  BY <1>3 DEF a

LEMMA SidesTrue ==
    ASSUME GraphFits, NEW left \in Known, NEW right \in Known
    PROVE  AnswerTrue([op |-> "sides", left |-> left, right |-> right,
                       result |-> Symmetric(left, right)])
<1> DEFINE a == [op |-> "sides", left |-> left, right |-> right,
                 result |-> Symmetric(left, right)]
<1>1. a.op = "sides" /\ a.left = left /\ a.right = right /\ a.result = Symmetric(left, right)
  OBVIOUS
<1> HIDE DEF a
<1>2. shallow = {} => SidesExact(a)
  BY <1>1, SidesAreExact
<1>3. AnswerTrue(a)
  BY <1>1, <1>2 DEF AnswerTrue
<1> QED
  BY <1>3 DEF a

LEMMA QuestionTrue ==
    ASSUME GraphFits, Question, UNCHANGED graph
    PROVE  AncestryTrue'
<1> SUFFICES AnswerTrue(answer')
  <2>1. ASSUME NEW a, a = answer', AnswerTrue(a) PROVE AncestryTrue'
    <3>1. AnswerTrue(a)'
      BY <2>1, AnswerStays
    <3>2. AncestryTrue' <=> AnswerTrue(answer)'
      BY AnswerIs, PTL
    <3>3. AnswerTrue(answer)'
      BY <2>1, <3>1 DEF AnswerTrue
    <3> QED
      BY <3>2, <3>3
  <2> QED
    BY <2>1
<1> USE DEF Ask
<1>1. ASSUME NEW p \in Known, NEW d \in Known, AskAncestor(p, d) PROVE AnswerTrue(answer')
  <2>1. answer' = [op |-> "ancestor", ancestor |-> p, descendant |-> d, result |-> IsAncestor(p, d)]
    BY <1>1 DEF AskAncestor
  <2> QED
    BY <2>1, AncestorTrue
<1>2. ASSUME NEW p \in Known, NEW d \in Known, AskSymmetric(p, d) PROVE AnswerTrue(answer')
  <2>1. answer' = [op |-> "sides", left |-> p, right |-> d, result |-> Symmetric(p, d)]
    BY <1>2 DEF AskSymmetric
  <2> QED
    BY <2>1, SidesTrue
<1>3. ASSUME NEW one \in Known, NEW others \in (SUBSET Known) \ {{}}, AskMergeBases(one, others)
      PROVE  AnswerTrue(answer')
  <2>1. answer' = [op |-> "bases", between |-> <<{one}, others>>, bases |-> MergeBases(one, others)]
    BY <1>3 DEF AskMergeBases
  <2> QED
    BY <2>1, MergeBasesTrue
<1>4. ASSUME NEW cs \in Seq(Known), Len(cs) >= 2, AskOctopusBases(cs) PROVE AnswerTrue(answer')
  <2>1. answer' = [op |-> "bases", between |-> [i \in DOMAIN cs |-> {cs[i]}],
                   bases |-> OctopusBases(cs)]
    BY <1>4 DEF AskOctopusBases
  <2> QED
    BY <1>4, <2>1, OctopusTrue
<1>5. ASSUME NEW include \in SUBSET Known, NEW exclude \in SUBSET Known, NEW first \in BOOLEAN,
             NEW limit \in Nat, AskWalk(include, exclude, first, limit)
      PROVE  AnswerTrue(answer')
  <2>1. answer' = [op |-> "walk", include |-> include, exclude |-> exclude, first |-> first,
                   limit |-> limit, list |-> Walk(include, exclude, first, limit)]
    BY <1>5 DEF AskWalk
  <2> QED
    BY <2>1, WalkTrue
<1>6. ASSUME NEW targets, NEW all, AskNames(targets, all) PROVE AnswerTrue(answer')
  <2>1. answer'.op = "names"
    BY <1>6 DEF AskNames
  <2> QED
    BY <2>1 DEF AnswerTrue
<1>7. ASSUME NEW target, NEW admit, NEW first, NEW candidates,
             AskDescribe(target, admit, first, candidates)
      PROVE  AnswerTrue(answer')
  <2>1. answer'.op = "describe"
    BY <1>7 DEF AskDescribe
  <2> QED
    BY <2>1 DEF AnswerTrue
<1> QED
  BY <1>1, <1>2, <1>3, <1>4, <1>5, <1>6, <1>7 DEF Question

-------------------------------------------------------------------------------
\* Whatever the history becomes and whatever is asked of it, what is_ancestor, merge_bases,
\* merge_bases_octopus, walk_revisions and the list of left...right answer is what
\* reachability says: for histories of any size, any references and any dates.
THEOREM AncestryAlways == HistorySpec => []AncestryTrue
<1>1. HistoryInit => GraphFits /\ AncestryTrue
  <2>1. HistoryInit => answer.op = "none"
    BY DEF HistoryInit, NoAnswer
  <2>2. answer.op = "none" => AncestryTrue
    BY AnswerIs DEF AnswerTrue
  <2> QED
    BY <2>1, <2>2, GraphInit
<1>2. GraphFits /\ AncestryTrue /\ [HistoryNext]_<<graph, refs, answer>>
        => GraphFits' /\ AncestryTrue'
  <2> SUFFICES ASSUME GraphFits, AncestryTrue, [HistoryNext]_<<graph, refs, answer>>
               PROVE  AncestryTrue'
    BY GraphStays
  <2>0. AncestryTrue' <=> AnswerTrue(answer)'
    BY AnswerIs, PTL
  <2>1. ASSUME answer' = NoAnswer PROVE AncestryTrue'
    <3>1. answer'.op = "none"
      BY <2>1 DEF NoAnswer
    <3>2. AnswerTrue(answer)'
      BY <3>1 DEF AnswerTrue
    <3> QED
      BY <2>0, <3>2
  <2>2. CASE UNCHANGED <<graph, refs, answer>>
    <3>1. ASSUME NEW a, a = answer PROVE AncestryTrue'
      <4>1. AnswerTrue(a)'
        BY <2>2, <3>1, AnswerIs, AnswerStays
      <4>2. answer' = a
        BY <2>2, <3>1
      <4>3. AnswerTrue(answer)'
        BY <4>1, <4>2 DEF AnswerTrue
      <4> QED
        BY <2>0, <4>3
    <3> QED
      BY <3>1
  <2>3. CASE answer = NoAnswer /\ Alter /\ UNCHANGED answer
    BY <2>1, <2>3
  <2>4. CASE Question /\ UNCHANGED <<graph, refs>>
    BY <2>4, QuestionTrue
  <2>5. CASE Answered
    BY <2>1, <2>5 DEF Answered
  <2> QED
    BY <2>2, <2>3, <2>4, <2>5 DEF HistoryNext
<1> QED
  BY <1>1, <1>2, PTL DEF HistorySpec

-------------------------------------------------------------------------------
(* Names. *)

\* A loop that leaves less of a finite set with each step, or as much and counts down, ends.
EndsBoth(U, G, Stop, step, f, R, left, size) ==
    \A x \in G : /\ left[x] \subseteq U /\ size[x] \in Nat
                 /\ x \in Stop => f[x] \in R
                 /\ x \notin Stop =>
                       /\ step[x] \in G /\ f[x] = f[step[x]]
                       /\ left[step[x]] \subseteq left[x]
                       /\ left[step[x]] = left[x] => size[step[x]] < size[x]

LEMMA LoopEndsBoth ==
    ASSUME NEW U, IsFiniteSet(U), NEW G, NEW Stop, NEW step, NEW f, NEW R, NEW left, NEW size,
           EndsBoth(U, G, Stop, step, f, R, left, size)
    PROVE  \A x \in G : f[x] \in R
<1> SUFFICES ASSUME NEW y \in G, f[y] \notin R PROVE FALSE
  OBVIOUS
<1> DEFINE Bad == {x \in G : f[x] \notin R}
           Lefts == {left[x] : x \in Bad}
<1>1. Lefts \subseteq FiniteSubsetsOf(U)
  <2> SUFFICES ASSUME NEW x \in Bad PROVE left[x] \in FiniteSubsetsOf(U)
    OBVIOUS
  <2>1. left[x] \in SUBSET U
    BY DEF EndsBoth
  <2> QED
    BY <2>1, FS_Subset DEF FiniteSubsetsOf
<1>2. \E X \in Lefts : \A Y \in Lefts : ~ (<<Y, X>> \in StrictSubsetOrdering(U))
  <2>1. Lefts # {}
    BY y \in Bad
  <2> HIDE DEF Lefts
  <2> QED
    BY <1>1, <2>1, WFMin, FS_StrictSubsetOrderingWellFounded
<1>3. PICK z \in Bad : \A x \in Bad : ~ (<<left[x], left[z]>> \in StrictSubsetOrdering(U))
  BY <1>2
<1> DEFINE Same == {x \in Bad : left[x] = left[z]}
           Sizes == {size[x] : x \in Same}
<1>4. Sizes \in SUBSET Nat /\ Sizes # {}
  <2>1. z \in Same
    OBVIOUS
  <2>2. \A x \in Same : size[x] \in Nat
    BY DEF EndsBoth
  <2> QED
    BY <2>1, <2>2
<1>5. PICK x \in Same : \A p \in Same : size[x] <= size[p]
  <2>1. \E o \in Sizes : \A p \in Sizes : o <= p
    <3> HIDE DEF Sizes
    <3> QED
      BY <1>4, Least
  <2> QED
    BY <2>1
<1>6. x \in Bad /\ x \in G /\ left[x] = left[z]
  OBVIOUS
<1>7. x \notin Stop
  BY <1>6 DEF EndsBoth
<1>8. /\ step[x] \in G /\ f[x] = f[step[x]] /\ left[step[x]] \subseteq left[x]
      /\ left[step[x]] = left[x] => size[step[x]] < size[x]
      /\ left[step[x]] \subseteq U /\ left[x] \subseteq U /\ size[x] \in Nat /\ size[step[x]] \in Nat
  BY <1>6, <1>7 DEF EndsBoth
<1>9. step[x] \in Bad
  BY <1>6, <1>8
<1>10. CASE left[step[x]] = left[x]
  <2>1. step[x] \in Same
    BY <1>6, <1>9, <1>10
  <2>2. size[x] <= size[step[x]]
    BY <1>5, <2>1
  <2> QED
    BY <1>8, <1>10, <2>2
<1>11. CASE left[step[x]] # left[x]
  <2>1. <<left[step[x]], left[z]>> \in StrictSubsetOrdering(U)
    BY <1>6, <1>8, <1>11 DEF StrictSubsetOrdering
  <2> QED
    BY <1>3, <1>9, <2>1
<1> QED
  BY <1>10, <1>11

\* The same with a step that stays within a set.
LEMMA CountIn ==
    ASSUME NEW a \in Nat, NEW n \in Nat, NEW Acc, NEW base \in Acc, NEW step,
           \A i \in a + 1 .. n : \A x \in Acc : step[<<i, x>>] \in Acc
    PROVE  \E f \in [a .. n -> Acc] : Counts(a, n, base, step, f)
<1>1. PICK f : f = [i \in a .. n |-> IF i = a THEN base ELSE step[<<i, f[i - 1]>>]]
  <2>1. \E f : Counts(a, n, base, step, f)
    BY CountExists
  <2> QED
    BY <2>1 DEF Counts
<1>2. CASE n < a
  <2>1. a .. n = {}
    BY <1>2
  <2> QED
    BY <1>1, <2>1 DEF Counts
<1>3. CASE a <= n
  <2> DEFINE Good == {i \in a .. n : f[i] \in Acc}
  <2>1. a \in Good
    <3>1. a \in a .. n
      BY <1>3
    <3> QED
      BY <1>1, <3>1
  <2>2. ASSUME NEW i \in a + 1 .. n, i - 1 \in Good PROVE i \in Good
    <3>1. i \in a .. n /\ i # a /\ i - 1 \in a .. n
      OBVIOUS
    <3>2. f[i] = step[<<i, f[i - 1]>>]
      BY <1>1, <3>1
    <3> QED
      BY <2>2, <3>1, <3>2
  <2> HIDE DEF Good
  <2>3. a .. n \subseteq Good
    BY <2>1, <2>2, Climb
  <2>4. f \in [a .. n -> Acc]
    BY <1>1, <2>3 DEF Good
  <2> QED
    BY <1>1, <2>4 DEF Counts
<1> QED
  BY <1>2, <1>3

\* Two that count the same agree as far as both go.
LEMMA CountsAgree ==
    ASSUME NEW n \in Nat, NEW m \in Nat, n <= m, NEW base, NEW step,
           NEW f, Counts(0, n, base, step, f), NEW g, Counts(0, m, base, step, g)
    PROVE  \A i \in 0 .. n : f[i] = g[i]
<1> DEFINE Good == {i \in 0 .. n : f[i] = g[i]}
<1>1. 0 \in Good
  BY DEF Counts
<1>2. ASSUME NEW i \in 0 + 1 .. n, i - 1 \in Good PROVE i \in Good
  <2>1. i \in 0 .. n /\ i # 0 /\ i \in 0 .. m
    OBVIOUS
  <2>2. f[i] = step[<<i, f[i - 1]>>] /\ g[i] = step[<<i, g[i - 1]>>]
    BY <2>1 DEF Counts
  <2> QED
    BY <1>2, <2>1, <2>2
<1> HIDE DEF Good
<1>3. 0 .. n \subseteq Good
  BY <1>1, <1>2, Climb
<1> QED
  BY <1>3 DEF Good

-------------------------------------------------------------------------------
(* Where a name leads. *)

LEMMA ParentIn ==
    ASSUME GraphFits, NEW c, NEW k
    PROVE  Parent(c, k) \in Known \cup {0}
<1>1. CASE c \in Known /\ k \in DOMAIN ParentsOf(c)
  <2>1. ParentsOf(c) \in Seq(Known)
    BY <1>1, GraphFacts
  <2>2. ParentsOf(c)[k] \in Known
    BY <1>1, <2>1
  <2> QED
    BY <1>1, <2>2 DEF Parent
<1>2. CASE ~(c \in Known /\ k \in DOMAIN ParentsOf(c))
  BY <1>2 DEF Parent
<1> QED
  BY <1>1, <1>2

\* The way up by first parents, i of them.
Ups(c, n, up) == up = [i \in 0 .. n |-> IF i = 0 THEN c ELSE Parent(up[i - 1], 1)]

UpStep == [w \in Nat \X (Known \cup {0}) |-> Parent(w[2], 1)]

LEMMA UpsIs ==
    ASSUME GraphFits, NEW c \in Known \cup {0}, NEW n \in Nat
    PROVE  \E up \in [0 .. n -> Known \cup {0}] :
               /\ Ups(c, n, up)
               /\ Counts(0, n, c, UpStep, up)
               /\ FirstParent(c, n) = up[n]
<1> DEFINE Acc == Known \cup {0}
           first == CHOOSE up : up = [i \in 0 .. n |-> IF i = 0 THEN c ELSE Parent(up[i - 1], 1)]
<1>0. FirstParent(c, n) = first[n]
  BY DEF FirstParent
<1>1. \A i \in Nat : \A x \in Acc : UpStep[<<i, x>>] = Parent(x, 1) /\ Parent(x, 1) \in Acc
  BY ParentIn DEF UpStep
<1>2. PICK f \in [0 .. n -> Acc] : Counts(0, n, c, UpStep, f)
  <2>1. \A i \in 0 + 1 .. n : \A x \in Acc : UpStep[<<i, x>>] \in Acc
    <3>1. \A i \in 0 + 1 .. n : i \in Nat
      OBVIOUS
    <3> HIDE DEF Acc
    <3> QED
      BY <1>1, <3>1
  <2>2. 0 \in Nat /\ c \in Acc
    OBVIOUS
  <2> HIDE DEF Acc
  <2> QED
    BY <2>1, <2>2, CountIn
<1> HIDE DEF Acc
<1>3. \A up \in [0 .. n -> Acc] :
         Ups(c, n, up) <=> Counts(0, n, c, UpStep, up)
  <2> SUFFICES ASSUME NEW up \in [0 .. n -> Acc]
               PROVE  [i \in 0 .. n |-> IF i = 0 THEN c ELSE Parent(up[i - 1], 1)]
                        = [i \in 0 .. n |-> IF i = 0 THEN c ELSE UpStep[<<i, up[i - 1]>>]]
    BY DEF Ups, Counts
  <2>1. ASSUME NEW i \in 0 .. n, i # 0
        PROVE  Parent(up[i - 1], 1) = UpStep[<<i, up[i - 1]>>]
    <3>1. i - 1 \in 0 .. n /\ i \in Nat
      BY <2>1
    <3> QED
      BY <1>1, <3>1
  <2> QED
    BY <2>1
<1>4. Ups(c, n, f)
  BY <1>2, <1>3
<1>5. Ups(c, n, first)
  BY <1>4 DEF Ups
<1> HIDE DEF first
<1>6. first \in [0 .. n -> Acc]
  <2> DEFINE Good == {i \in 0 .. n : first[i] \in Acc}
  <2>1. 0 \in Good
    BY <1>5 DEF Ups, Acc
  <2>2. ASSUME NEW i \in 0 + 1 .. n, i - 1 \in Good PROVE i \in Good
    <3>1. i \in 0 .. n /\ i # 0
      OBVIOUS
    <3>2. first[i] = Parent(first[i - 1], 1)
      BY <1>5, <3>1 DEF Ups
    <3> QED
      BY <3>1, <3>2, ParentIn DEF Acc
  <2> HIDE DEF Good
  <2>3. 0 .. n \subseteq Good
    BY <2>1, <2>2, Climb
  <2>4. first = [i \in 0 .. n |-> first[i]]
    BY <1>5 DEF Ups
  <2> QED
    BY <2>3, <2>4 DEF Good
<1>7. Counts(0, n, c, UpStep, first)
  BY <1>3, <1>5, <1>6
<1> QED
  BY <1>0, <1>5, <1>6, <1>7 DEF Acc

LEMMA FirstParentIs ==
    ASSUME GraphFits, NEW c \in Known \cup {0}, NEW n \in Nat
    PROVE  /\ FirstParent(c, n) \in Known \cup {0}
           /\ FirstParent(c, 0) = c
           /\ FirstParent(c, n + 1) = Parent(FirstParent(c, n), 1)
<1>1. PICK up \in [0 .. n -> Known \cup {0}] :
          /\ Counts(0, n, c, UpStep, up)
          /\ FirstParent(c, n) = up[n]
  BY UpsIs
<1>2. PICK m \in Nat : m = n + 1
  OBVIOUS
<1>3. PICK far \in [0 .. m -> Known \cup {0}] :
          /\ Ups(c, m, far)
          /\ Counts(0, m, c, UpStep, far)
          /\ FirstParent(c, m) = far[m]
  BY UpsIs
<1>4. up[n] = far[n]
  <2>1. n <= m /\ n \in 0 .. n
    BY <1>2
  <2>2. \A i \in 0 .. n : up[i] = far[i]
    BY <1>1, <1>3, <2>1, CountsAgree
  <2> QED
    BY <2>1, <2>2
<1>5. far[m] = Parent(far[n], 1)
  <2>1. m \in 0 .. m /\ m # 0 /\ m - 1 = n
    BY <1>2
  <2> QED
    BY <1>3, <2>1 DEF Ups
<1>6. FirstParent(c, 0) = c
  <2>1. PICK none : Ups(c, 0, none) /\ FirstParent(c, 0) = none[0]
    BY UpsIs
  <2> QED
    BY <2>1 DEF Ups
<1> QED
  BY <1>1, <1>2, <1>3, <1>4, <1>5, <1>6, ParentIn

\* The way by steps of another parent, i of them.
StepTo(steps, i, c) == Parent(FirstParent(c, steps[i][1]), steps[i][2])

Turns(tip, steps, n, at) ==
    at = [i \in 0 .. n |-> IF i = 0 THEN tip ELSE StepTo(steps, i, at[i - 1])]

TurnStep(steps) == [w \in Nat \X (Known \cup {0}) |-> StepTo(steps, w[1], w[2])]

\* They stay the same when more steps are appended, and Follow goes that way.
LEMMA TurnsIn ==
    ASSUME GraphFits, NEW tip \in Known \cup {0}, NEW steps, NEW n \in Nat,
           NEW at, Turns(tip, steps, n, at)
    PROVE  /\ at \in [0 .. n -> Known \cup {0}]
           /\ Counts(0, n, tip, TurnStep(steps), at)
<1> DEFINE Acc == Known \cup {0}
<1>1. at \in [0 .. n -> Acc]
  <2> DEFINE Good == {i \in 0 .. n : at[i] \in Acc}
  <2>1. 0 \in Good
    BY DEF Turns
  <2>2. ASSUME NEW i \in 0 + 1 .. n, i - 1 \in Good PROVE i \in Good
    <3>1. i \in 0 .. n /\ i # 0
      OBVIOUS
    <3>2. at[i] = StepTo(steps, i, at[i - 1])
      BY <3>1 DEF Turns
    <3> QED
      BY <3>1, <3>2, ParentIn DEF StepTo
  <2> HIDE DEF Good
  <2>3. 0 .. n \subseteq Good
    BY <2>1, <2>2, Climb
  <2>4. at = [i \in 0 .. n |-> at[i]]
    BY DEF Turns
  <2> QED
    BY <2>3, <2>4 DEF Good
<1>2. ASSUME NEW i \in 0 .. n, i # 0
      PROVE  StepTo(steps, i, at[i - 1]) = TurnStep(steps)[<<i, at[i - 1]>>]
  <2>1. i - 1 \in 0 .. n /\ i \in Nat
    BY <1>2
  <2>2. at[i - 1] \in Acc
    BY <1>1, <2>1
  <2> QED
    BY <2>1, <2>2 DEF TurnStep
<1>3. Counts(0, n, tip, TurnStep(steps), at)
  BY <1>2 DEF Turns, Counts
<1> QED
  BY <1>1, <1>3

LEMMA TurnsExist ==
    ASSUME GraphFits, NEW tip \in Known \cup {0}, NEW steps, NEW n \in Nat
    PROVE  \E at : Turns(tip, steps, n, at)
<1> DEFINE Acc == Known \cup {0}
           step == TurnStep(steps)
<1>1. \A i \in Nat : \A x \in Acc : step[<<i, x>>] = StepTo(steps, i, x) /\ StepTo(steps, i, x) \in Acc
  BY ParentIn DEF TurnStep, StepTo
<1>2. PICK f \in [0 .. n -> Acc] : Counts(0, n, tip, step, f)
  <2>1. \A i \in 0 + 1 .. n : \A x \in Acc : step[<<i, x>>] \in Acc
    <3>1. \A i \in 0 + 1 .. n : i \in Nat
      OBVIOUS
    <3> HIDE DEF Acc, step
    <3> QED
      BY <1>1, <3>1
  <2>2. 0 \in Nat /\ tip \in Acc
    OBVIOUS
  <2> HIDE DEF Acc, step
  <2> QED
    BY <2>1, <2>2, CountIn
<1> HIDE DEF Acc, step
<1>3. ASSUME NEW i \in 0 .. n, i # 0 PROVE StepTo(steps, i, f[i - 1]) = step[<<i, f[i - 1]>>]
  <2>1. i - 1 \in 0 .. n /\ i \in Nat
    BY <1>3
  <2> QED
    BY <1>1, <2>1
<1>4. f = [i \in 0 .. n |-> IF i = 0 THEN tip ELSE StepTo(steps, i, f[i - 1])]
  BY <1>2, <1>3 DEF Counts
<1> QED
  BY <1>4 DEF Turns

LEMMA FollowIs ==
    ASSUME GraphFits, NEW name, refs[name.tip].commit \in Known, Len(name.steps) \in Nat
    PROVE  \E at : /\ Turns(refs[name.tip].commit, name.steps, Len(name.steps), at)
                   /\ Follow(name) = FirstParent(at[Len(name.steps)], name.generation)
<1> DEFINE way == CHOOSE at : at = [i \in 0 .. Len(name.steps) |->
                     IF i = 0 THEN refs[name.tip].commit
                     ELSE Parent(FirstParent(at[i - 1], name.steps[i][1]), name.steps[i][2])]
<1>1. Follow(name) = FirstParent(way[Len(name.steps)], name.generation)
  BY DEF Follow
<1>2. \E at : Turns(refs[name.tip].commit, name.steps, Len(name.steps), at)
  BY TurnsExist
<1>3. Turns(refs[name.tip].commit, name.steps, Len(name.steps), way)
  BY <1>2 DEF Turns, StepTo
<1> QED
  BY <1>1, <1>3

-------------------------------------------------------------------------------
(* Names of commits. *)

LEMMA NameFacts ==
    ASSUME GraphFits, RefsFit, NEW name \in AName
    PROVE  /\ name.tip \in DOMAIN refs /\ name.steps \in Seq(Nat \X Nat)
           /\ name.generation \in Nat /\ name.distance \in Nat
           /\ refs[name.tip].commit \in Known
           /\ EffectiveDistance(name) \in Nat
           /\ EffectiveDistance(name) <= name.distance + MergeWeight
           /\ name # NoName
<1>1. /\ name.tip \in DOMAIN refs /\ name.steps \in Seq(Nat \X Nat)
      /\ name.generation \in Nat /\ name.distance \in Nat
  BY DEF AName
<1>2. EffectiveDistance(name) \in Nat /\ EffectiveDistance(name) <= name.distance + MergeWeight
  BY <1>1 DEF EffectiveDistance, MergeWeight
<1>3. name # NoName
  <2>1. DOMAIN name = {"tip", "steps", "generation", "distance"}
    BY DEF AName
  <2>2. DOMAIN NoName = {"distance"}
    BY DEF NoName
  <2> QED
    BY <2>1, <2>2
<1> QED
  BY <1>1, <1>2, <1>3 DEF RefsFit

LEMMA TipFacts ==
    ASSUME GraphFits, RefsFit, NEW r \in DOMAIN refs
    PROVE  /\ r \in Nat /\ refs[r].commit \in Known /\ TipTime(r) \in Nat
           /\ FromTag(r) \in BOOLEAN
           /\ TipName(r) \in AName /\ TipName(r).tip = r
<1>1. refs[r] \in ARef /\ r \in Nat /\ refs[r].commit \in Known
  BY NamingAssumption DEF RefsFit
<1>2. refs[r].time \in Nat
  BY <1>1, RevisionsAssumption DEF ARef
<1>3. DateOf(refs[r].commit) \in Nat
  BY <1>1, GraphFacts
<1>4. TipTime(r) \in Nat /\ FromTag(r) \in BOOLEAN
  BY <1>2, <1>3 DEF TipTime, FromTag
<1>5. TipName(r) \in AName /\ TipName(r).tip = r
  BY DEF TipName, AName
<1> QED
  BY <1>1, <1>4, <1>5

LEMMA ParentNameIn ==
    ASSUME GraphFits, RefsFit, NEW name \in AName, NEW k \in Nat
    PROVE  /\ ParentName(name, k) \in AName
           /\ ParentName(name, k).tip = name.tip
           /\ ParentName(name, k).distance <= name.distance + MergeWeight
<1>1. /\ name.tip \in DOMAIN refs /\ name.steps \in Seq(Nat \X Nat)
      /\ name.generation \in Nat /\ name.distance \in Nat
  BY NameFacts
<1>2. Append(name.steps, <<name.generation, k>>) \in Seq(Nat \X Nat)
  BY <1>1
<1>3. MergeWeight \in Nat /\ 1 <= MergeWeight
  BY DEF MergeWeight
<1>4. \A g \in Nat, d \in Nat, ss \in Seq(Nat \X Nat) :
         [tip |-> name.tip, steps |-> ss, generation |-> g, distance |-> d] \in AName
  BY <1>1 DEF AName
<1>5. CASE k = 1
  <2>1. ParentName(name, k) = [name EXCEPT !.generation = name.generation + 1,
                                           !.distance = name.distance + 1]
    BY <1>5 DEF ParentName
  <2>2. ParentName(name, k) = [tip |-> name.tip, steps |-> name.steps,
                               generation |-> name.generation + 1, distance |-> name.distance + 1]
    BY <2>1 DEF AName
  <2> QED
    <3>1. name.generation + 1 \in Nat /\ name.distance + 1 \in Nat
          /\ name.distance + 1 <= name.distance + MergeWeight
      BY <1>1, <1>3
    <3>2. ParentName(name, k) \in AName
      BY <1>1, <1>4, <2>2, <3>1
    <3>3. ParentName(name, k).tip = name.tip /\ ParentName(name, k).distance = name.distance + 1
      BY <2>2
    <3> QED
      BY <3>1, <3>2, <3>3
<1>6. CASE k # 1
  <2>1. ParentName(name, k) = [name EXCEPT !.steps = Append(name.steps, <<name.generation, k>>),
                                  !.generation = 0, !.distance = name.distance + MergeWeight]
    BY <1>6 DEF ParentName
  <2>2. ParentName(name, k) = [tip |-> name.tip, steps |-> Append(name.steps, <<name.generation, k>>),
                               generation |-> 0, distance |-> name.distance + MergeWeight]
    BY <2>1 DEF AName
  <2> QED
    <3>1. name.distance + MergeWeight \in Nat /\ 0 \in Nat
      BY <1>1, <1>3
    <3>2. ParentName(name, k) \in AName
      BY <1>2, <1>4, <2>2, <3>1
    <3>3. /\ ParentName(name, k).tip = name.tip
          /\ ParentName(name, k).distance = name.distance + MergeWeight
      BY <2>2
    <3> QED
      BY <3>1, <3>2, <3>3
<1> QED
  BY <1>5, <1>6

\* The name that is passed to a parent leads to that parent.
LEMMA ParentNameLeads ==
    ASSUME GraphFits, RefsFit, NEW name \in AName, NEW c \in Known, Follow(name) = c,
           NEW k \in 1 .. Len(ParentsOf(c))
    PROVE  Follow(ParentName(name, k)) = ParentsOf(c)[k]
<1> DEFINE tip == refs[name.tip].commit
           new == ParentName(name, k)
           n == Len(name.steps)
<1>1. /\ name.tip \in DOMAIN refs /\ name.steps \in Seq(Nat \X Nat) /\ n \in Nat
      /\ name.generation \in Nat /\ tip \in Known /\ tip \in Known \cup {0}
  BY NameFacts
<1>2. PICK at : Turns(tip, name.steps, n, at) /\ c = FirstParent(at[n], name.generation)
  BY <1>1, FollowIs
<1>3. at \in [0 .. n -> Known \cup {0}] /\ n \in 0 .. n /\ at[n] \in Known \cup {0}
  <2> HIDE DEF tip, n
  <2>1. at \in [0 .. n -> Known \cup {0}]
    BY <1>1, <1>2, TurnsIn
  <2> QED
    BY <1>1, <2>1
<1>4. Parent(c, k) = ParentsOf(c)[k]
  <2>1. ParentsOf(c) \in Seq(Known)
    BY GraphFacts
  <2> QED
    BY <2>1 DEF Parent
<1>5. CASE k = 1
  <2>1. new.steps = name.steps /\ new.tip = name.tip /\ new.generation = name.generation + 1
    <3>1. new = [name EXCEPT !.generation = name.generation + 1, !.distance = name.distance + 1]
      BY <1>5 DEF ParentName
    <3> QED
      BY <3>1 DEF AName
  <2> HIDE DEF new
  <2>2. PICK to : Turns(tip, name.steps, n, to) /\ Follow(new) = FirstParent(to[n], new.generation)
    BY <1>1, <2>1, FollowIs
  <2>3. to[n] = at[n]
    <3>1. Counts(0, n, tip, TurnStep(name.steps), at) /\ Counts(0, n, tip, TurnStep(name.steps), to)
      BY <1>1, <1>2, <2>2, TurnsIn
    <3>2. n <= n
      BY <1>1
    <3>3. \A i \in 0 .. n : at[i] = to[i]
      BY <1>1, <3>1, <3>2, CountsAgree
    <3> QED
      BY <1>3, <3>3
  <2>4. FirstParent(at[n], name.generation + 1) = Parent(c, 1)
    <3> HIDE DEF n
    <3> DEFINE from == at[n]
               g == name.generation
    <3>1. from \in Known \cup {0} /\ g \in Nat /\ c = FirstParent(from, g)
      BY <1>1, <1>2, <1>3
    <3> HIDE DEF from, g
    <3>2. FirstParent(from, g + 1) = Parent(FirstParent(from, g), 1)
      BY <3>1, FirstParentIs
    <3> QED
      BY <3>1, <3>2 DEF from, g
  <2> QED
    BY <1>4, <1>5, <2>1, <2>2, <2>3, <2>4 DEF new
<1>6. CASE k # 1
  <2> DEFINE steps == Append(name.steps, <<name.generation, k>>)
  <2>1. new.steps = steps /\ new.tip = name.tip /\ new.generation = 0
    <3>1. new = [name EXCEPT !.steps = steps,
                             !.generation = 0, !.distance = name.distance + MergeWeight]
      BY <1>6 DEF ParentName
    <3> QED
      BY <3>1 DEF AName
  <2>2. /\ Len(steps) = n + 1 /\ steps[n + 1] = <<name.generation, k>>
        /\ \A i \in 1 .. n : steps[i] = name.steps[i]
    BY <1>1
  <2> HIDE DEF new, steps
  <2>3. PICK m \in Nat : m = n + 1
    BY <1>1
  <2>4. PICK to : Turns(tip, steps, m, to) /\ Follow(new) = FirstParent(to[m], 0)
    BY <1>1, <2>1, <2>2, <2>3, FollowIs
  <2>5. to \in [0 .. m -> Known \cup {0}]
    BY <1>1, <2>4, TurnsIn
  <2>6. to[n] = at[n]
    <3> DEFINE Good == {i \in 0 .. n : to[i] = at[i]}
    <3>1. 0 \in Good
      BY <1>1, <1>2, <2>3, <2>4 DEF Turns
    <3>2. ASSUME NEW i \in 0 + 1 .. n, i - 1 \in Good PROVE i \in Good
      <4>1. i \in 0 .. n /\ i \in 0 .. m /\ i # 0 /\ i \in 1 .. n
        BY <1>1, <2>3
      <4>2. to[i] = StepTo(steps, i, to[i - 1]) /\ at[i] = StepTo(name.steps, i, at[i - 1])
        BY <1>2, <2>4, <4>1 DEF Turns
      <4>3. steps[i] = name.steps[i]
        BY <2>2, <4>1
      <4> QED
        BY <3>2, <4>1, <4>2, <4>3 DEF StepTo
    <3> HIDE DEF Good
    <3>3. 0 .. n \subseteq Good
      BY <1>1, <3>1, <3>2, Climb
    <3> QED
      BY <1>3, <3>3 DEF Good
  <2>7. to[m] = Parent(c, k)
    <3>1. m \in 0 .. m /\ m # 0 /\ m - 1 = n
      BY <1>1, <2>3
    <3>2. to[m] = StepTo(steps, m, to[n])
      BY <2>4, <3>1 DEF Turns
    <3>3. steps[m] = <<name.generation, k>>
      BY <2>2, <2>3
    <3> QED
      BY <1>2, <2>6, <3>2, <3>3 DEF StepTo
  <2>8. FirstParent(to[m], 0) = to[m]
    <3>1. to[m] \in Known \cup {0}
      BY <2>3, <2>5
    <3> QED
      BY <3>1, FirstParentIs
  <2> QED
    BY <1>4, <2>4, <2>7, <2>8 DEF new
<1> QED
  BY <1>5, <1>6

\* The name of a tip leads to its commit.
LEMMA TipNameLeads ==
    ASSUME GraphFits, RefsFit, NEW r \in DOMAIN refs
    PROVE  Follow(TipName(r)) = refs[r].commit
<1> DEFINE name == TipName(r)
           tip == refs[r].commit
<1>1. name.tip = r /\ name.steps = <<>> /\ name.generation = 0
  BY DEF TipName
<1>2. tip \in Known /\ Len(name.steps) = 0
  BY <1>1, TipFacts
<1> HIDE DEF name
<1>3. PICK at : Turns(tip, name.steps, 0, at) /\ Follow(name) = FirstParent(at[0], 0)
  BY <1>1, <1>2, FollowIs
<1>4. at[0] = tip
  BY <1>3 DEF Turns
<1>5. FirstParent(tip, 0) = tip
  BY <1>2, FirstParentIs
<1> QED
  BY <1>3, <1>4, <1>5 DEF name

-------------------------------------------------------------------------------
(* Better names. *)

NameMaps == [Known -> NameOrNone]

Has(names, c) == names[c] # NoName
Tagged(names, c) == names[c] # NoName /\ FromTag(names[c].tip)

\* What has a name keeps one, and a name from a tag if it has that.
Kept(old, new) ==
    \A c \in Known : (Has(old, c) => Has(new, c)) /\ (Tagged(old, c) => Tagged(new, c))

\* A name from tip r at an effective distance of e is better.
Beats(old, r, e) ==
    IF FromTag(old.tip) = FromTag(r)
    THEN \/ e < EffectiveDistance(old)
         \/ ~FromTag(old.tip) /\ e = EffectiveDistance(old) /\ TipTime(r) < TipTime(old.tip)
    ELSE FromTag(r)

LEMMA BetterIs ==
    ASSUME NEW old, NEW new
    PROVE  Better(old, new) <=> Beats(old, new.tip, EffectiveDistance(new))
BY DEF Better, Beats

LEMMA BeatsOn ==
    ASSUME GraphFits, RefsFit, NEW a \in AName, NEW b \in AName
    PROVE  /\ ~Beats(a, a.tip, EffectiveDistance(a))
           /\ Better(a, b) => \A r \in DOMAIN refs, e \in Nat : Beats(b, r, e) => Beats(a, r, e)
           /\ Better(a, b) /\ FromTag(a.tip) => FromTag(b.tip)
           /\ ~Better(a, b) /\ FromTag(b.tip) => FromTag(a.tip)
<1>1. /\ a.tip \in DOMAIN refs /\ EffectiveDistance(a) \in Nat
      /\ b.tip \in DOMAIN refs /\ EffectiveDistance(b) \in Nat
  BY NameFacts
<1>2. \A r \in DOMAIN refs : TipTime(r) \in Nat /\ FromTag(r) \in BOOLEAN
  BY TipFacts
<1>3. ~Beats(a, a.tip, EffectiveDistance(a))
  BY <1>1, <1>2 DEF Beats
<1>4. ASSUME Better(a, b), NEW r \in DOMAIN refs, NEW e \in Nat, Beats(b, r, e)
      PROVE  Beats(a, r, e)
  <2>1. Beats(a, b.tip, EffectiveDistance(b))
    BY <1>4, BetterIs
  <2>2. /\ TipTime(r) \in Nat /\ TipTime(a.tip) \in Nat /\ TipTime(b.tip) \in Nat
        /\ FromTag(r) \in BOOLEAN /\ FromTag(a.tip) \in BOOLEAN /\ FromTag(b.tip) \in BOOLEAN
    BY <1>1, <1>2
  <2>3. CASE FromTag(a.tip) = FromTag(b.tip)
    BY <1>1, <1>4, <2>1, <2>2, <2>3 DEF Beats
  <2>4. CASE FromTag(a.tip) # FromTag(b.tip)
    BY <1>1, <1>4, <2>1, <2>2, <2>4 DEF Beats
  <2> QED
    BY <2>3, <2>4
<1>5. /\ Better(a, b) /\ FromTag(a.tip) => FromTag(b.tip)
      /\ ~Better(a, b) /\ FromTag(b.tip) => FromTag(a.tip)
  <2>1. FromTag(a.tip) \in BOOLEAN /\ FromTag(b.tip) \in BOOLEAN
    BY <1>1, <1>2
  <2> QED
    BY <2>1, BetterIs DEF Beats
<1> QED
  BY <1>3, <1>4, <1>5

\* By how many commits, tips and distances names can still get better.
Room(D) == Known \X ((DOMAIN refs) \X (0 .. D))

Open(names, D) ==
    {w \in Room(D) : names[w[1]] = NoName \/ Beats(names[w[1]], w[2][1], w[2][2])}

\* Smaller ids are farther from a tip.
Bounded(names, D) ==
    \A c \in Known : Has(names, c) => names[c].distance + MergeWeight * c <= D

\* A name that improves a commit leaves less room.
LEMMA ImproveOn ==
    ASSUME GraphFits, RefsFit, NEW names \in NameMaps, NEW p \in Known, NEW name \in AName,
           Improves(names, p, name),
           NEW new, new = [names EXCEPT ![p] = name]
    PROVE  /\ new \in NameMaps /\ Has(new, p) /\ Kept(names, new)
           /\ \A D \in Nat : EffectiveDistance(name) <= D =>
                 Open(new, D) \subseteq Open(names, D) /\ Open(new, D) # Open(names, D)
<1>1. new \in NameMaps /\ new[p] = name /\ \A x \in Known \ {p} : new[x] = names[x]
  BY DEF NameMaps, NameOrNone
<1>2. name # NoName /\ EffectiveDistance(name) \in Nat /\ name.tip \in DOMAIN refs
  BY NameFacts
<1>3. names[p] = NoName \/ (names[p] \in AName /\ Better(names[p], name))
  BY DEF NameMaps, NameOrNone, Improves
<1>4. Kept(names, new)
  <2> SUFFICES ASSUME NEW c \in Known
               PROVE  (Has(names, c) => Has(new, c)) /\ (Tagged(names, c) => Tagged(new, c))
    BY DEF Kept
  <2>1. CASE c = p
    <3>1. Has(new, c)
      BY <1>1, <1>2, <2>1 DEF Has
    <3>2. ASSUME Tagged(names, c) PROVE Tagged(new, c)
      <4>1. names[p] \in AName /\ Better(names[p], name) /\ FromTag(names[p].tip)
        BY <1>3, <2>1, <3>2 DEF Tagged
      <4>2. FromTag(name.tip)
        BY <4>1, BeatsOn
      <4> QED
        BY <1>1, <1>2, <2>1, <4>2 DEF Tagged
    <3> QED
      BY <3>1, <3>2
  <2>2. CASE c # p
    BY <1>1, <2>2 DEF Has, Tagged
  <2> QED
    BY <2>1, <2>2
<1>5. ASSUME NEW D \in Nat, EffectiveDistance(name) <= D
      PROVE  Open(new, D) \subseteq Open(names, D) /\ Open(new, D) # Open(names, D)
  <2>1. ASSUME NEW w \in Open(new, D) PROVE w \in Open(names, D)
    <3>1. /\ w \in Room(D) /\ w[1] \in Known /\ w[2][1] \in DOMAIN refs /\ w[2][2] \in Nat
          /\ new[w[1]] = NoName \/ Beats(new[w[1]], w[2][1], w[2][2])
      BY DEF Open, Room
    <3>2. CASE w[1] = p
      <4>1. Beats(name, w[2][1], w[2][2])
        BY <1>1, <1>2, <3>1, <3>2
      <4>2. names[p] = NoName \/ Beats(names[p], w[2][1], w[2][2])
        BY <1>3, <3>1, <4>1, BeatsOn
      <4> QED
        BY <3>1, <3>2, <4>2 DEF Open
    <3>3. CASE w[1] # p
      BY <1>1, <3>1, <3>3 DEF Open
    <3> QED
      BY <3>2, <3>3
  <2> DEFINE v == <<p, <<name.tip, EffectiveDistance(name)>>>>
  <2>2. v \in Room(D) /\ v[1] = p /\ v[2][1] = name.tip /\ v[2][2] = EffectiveDistance(name)
    BY <1>2, <1>5 DEF Room
  <2> HIDE DEF v
  <2>3. v \in Open(names, D)
    <3>1. names[p] = NoName \/ Beats(names[p], name.tip, EffectiveDistance(name))
      BY <1>3, BetterIs
    <3> QED
      BY <2>2, <3>1 DEF Open
  <2>4. v \notin Open(new, D)
    <3>1. ~Beats(name, name.tip, EffectiveDistance(name))
      BY BeatsOn
    <3> QED
      BY <1>1, <1>2, <2>2, <3>1 DEF Open
  <2> QED
    BY <2>1, <2>3, <2>4
<1> QED
  BY <1>1, <1>2, <1>4, <1>5 DEF Has

LEMMA KeptOn ==
    ASSUME NEW a, NEW b, NEW d, Kept(a, b), Kept(b, d)
    PROVE  Kept(a, d)
BY DEF Kept

-------------------------------------------------------------------------------
(* A name is passed on. *)

Within(young) == [c \in Known |-> Edges[c] \cap young]

Reaching(r, c, young) == refs[r].commit \in young /\ c \in Reach(Within(young), refs[r].commit)

\* Names lead to what they name, from a tip that leads there.
Sound(names, young) ==
    \A c \in Known : Has(names, c) => Follow(names[c]) = c /\ Reaching(names[c].tip, c, young)

LEMMA WithinFacts ==
    ASSUME GraphFits, NEW young \in SUBSET Known
    PROVE  /\ Graded(Known, Within(young), Id)
           /\ \A c \in Known : Within(young)[c] = Edges[c] \cap young
<1>1. Graded(Known, Edges, Id)
  BY EdgesFacts
<1>2. \A c \in Known : Within(young)[c] = Edges[c] \cap young
  BY DEF Within
<1>3. Within(young) \in [Known -> SUBSET Known]
  BY <1>1 DEF Within, Graded
<1> QED
  BY <1>1, <1>2, <1>3 DEF Graded

\* What has been passed to the first k parents of c.
PassGood(acc, names, c, k, young) ==
    /\ acc.names \in NameMaps /\ acc.queued \in Seq(Known)
    /\ acc.names[c] = names[c]
    /\ \A i \in 1 .. Len(acc.queued) : Has(acc.names, acc.queued[i])
    /\ Kept(names, acc.names)
    /\ \A x \in Known : acc.names[x] # names[x] => \E i \in 1 .. Len(acc.queued) : acc.queued[i] = x
    /\ \A j \in 1 .. k : ParentsOf(c)[j] \in young =>
          /\ Has(acc.names, ParentsOf(c)[j])
          /\ Tagged(names, c) => Tagged(acc.names, ParentsOf(c)[j])
    /\ Sound(names, young) => Sound(acc.names, young)
    /\ \A D \in Nat : Bounded(names, D) =>
          /\ Bounded(acc.names, D)
          /\ Open(acc.names, D) \subseteq Open(names, D)
          /\ acc.queued = <<>> => acc.names = names
          /\ acc.queued # <<>> => Open(acc.names, D) # Open(names, D)

LEMMA PassesOn ==
    ASSUME GraphFits, RefsFit, NEW names \in NameMaps, NEW c \in Known, Has(names, c),
           NEW young \in SUBSET Known, NEW k \in 1 .. Len(ParentsOf(c)),
           NEW acc, PassGood(acc, names, c, k - 1, young)
    PROVE  PassGood(PassTo(acc, c, k, young), names, c, k, young)
<1> DEFINE p == ParentsOf(c)[k]
           name == ParentName(acc.names[c], k)
           new == PassTo(acc, c, k, young)
<1>1. /\ ParentsOf(c) \in Seq(Known) /\ p \in Known /\ p < c /\ c \in Nat /\ p \in Nat
      /\ p \in Edges[c]
  <2>1. ParentsOf(c) \in Seq(Known) /\ Known \subseteq Nat
    BY GraphFacts
  <2>2. p \in ToSet(ParentsOf(c))
    BY <2>1, Elements
  <2> QED
    BY <2>1, <2>2, GraphFacts, EdgesFacts
<1>2. /\ acc.names \in NameMaps /\ acc.queued \in Seq(Known) /\ acc.names[c] = names[c]
      /\ names[c] \in AName
  BY DEF PassGood, NameMaps, NameOrNone, Has
<1>3. name \in AName /\ name.tip = names[c].tip /\ k \in Nat
      /\ name.distance <= names[c].distance + MergeWeight
  <2>1. k \in Nat /\ acc.names[c] \in AName
    BY <1>2
  <2> QED
    BY <1>2, <2>1, ParentNameIn
<1>4. \A j \in 1 .. k : j \in 1 .. k - 1 \/ j = k
  OBVIOUS
<1>5. CASE ~(p \in young /\ Improves(acc.names, p, name))
  <2>1. new = acc
    BY <1>5 DEF PassTo
  <2>2. ASSUME p \in young
        PROVE  Has(acc.names, p) /\ (Tagged(names, c) => Tagged(acc.names, p))
    <3>1. acc.names[p] # NoName /\ ~Better(acc.names[p], name)
      BY <1>5, <2>2 DEF Improves
    <3>2. acc.names[p] \in AName
      BY <1>1, <1>2, <3>1 DEF NameMaps, NameOrNone
    <3>3. FromTag(name.tip) => FromTag(acc.names[p].tip)
      BY <1>3, <3>1, <3>2, BeatsOn
    <3> QED
      BY <1>3, <3>1, <3>3 DEF Has, Tagged
  <2> HIDE DEF new, name, p
  <2>3. \A j \in 1 .. k : ParentsOf(c)[j] \in young =>
           /\ Has(acc.names, ParentsOf(c)[j])
           /\ Tagged(names, c) => Tagged(acc.names, ParentsOf(c)[j])
    BY <1>4, <2>2 DEF PassGood, p
  <2>4. PassGood(acc, names, c, k, young)
    BY <2>3 DEF PassGood
  <2> QED
    BY <2>1, <2>4 DEF new
<1>6. CASE p \in young /\ Improves(acc.names, p, name)
  <2> DEFINE n == Len(acc.queued)
  <2>1. /\ new.names = [acc.names EXCEPT ![p] = name]
        /\ new.queued = Append(acc.queued, p)
    BY <1>6 DEF PassTo
  <2> HIDE DEF new, name, p
  <2>2. /\ new.names \in NameMaps /\ Has(new.names, p) /\ Kept(acc.names, new.names)
        /\ \A D \in Nat : EffectiveDistance(name) <= D =>
              Open(new.names, D) \subseteq Open(acc.names, D) /\ Open(new.names, D) # Open(acc.names, D)
    BY <1>1, <1>2, <1>3, <1>6, <2>1, ImproveOn
  <2>3. new.names[p] = name /\ \A x \in Known \ {p} : new.names[x] = acc.names[x]
    BY <1>1, <1>2, <2>1 DEF NameMaps
  <2>4. new.names[c] = names[c]
    BY <1>1, <1>2, <2>3
  <2>5. /\ n \in Nat /\ new.queued \in Seq(Known) /\ Len(new.queued) = n + 1
        /\ new.queued[n + 1] = p /\ \A i \in 1 .. n : new.queued[i] = acc.queued[i]
        /\ n + 1 \in 1 .. n + 1 /\ 1 .. n \subseteq 1 .. n + 1
        /\ \A i \in 1 .. n + 1 : i \in 1 .. n \/ i = n + 1
        /\ new.queued # <<>>
    <3> DEFINE q == acc.queued
    <3>1. q \in Seq(Known) /\ p \in Known /\ new.queued = Append(q, p) /\ n = Len(q)
      BY <1>1, <1>2, <2>1
    <3> HIDE DEF q, n
    <3>2. /\ n \in Nat /\ new.queued \in Seq(Known) /\ Len(new.queued) = n + 1
          /\ new.queued[n + 1] = p /\ \A i \in 1 .. n : new.queued[i] = q[i]
      BY <3>1
    <3>3. /\ n + 1 \in 1 .. n + 1 /\ 1 .. n \subseteq 1 .. n + 1
          /\ \A i \in 1 .. n + 1 : i \in 1 .. n \/ i = n + 1
      BY <3>2
    <3>4. new.queued # <<>>
      BY <3>2
    <3> QED
      BY <3>2, <3>3, <3>4 DEF q
  <2> HIDE DEF n
  <2>6. \A i \in 1 .. Len(new.queued) : Has(new.names, new.queued[i])
    <3> SUFFICES ASSUME NEW i \in 1 .. n + 1 PROVE Has(new.names, new.queued[i])
      BY <2>5
    <3>1. CASE i = n + 1
      BY <2>2, <2>5, <3>1
    <3>2. CASE i \in 1 .. n
      <4>1. acc.queued[i] \in Known /\ Has(acc.names, acc.queued[i])
        BY <1>2, <3>2 DEF PassGood, n
      <4> QED
        BY <2>2, <2>5, <3>2, <4>1 DEF Kept
    <3> QED
      BY <2>5, <3>1, <3>2
  <2>7. Kept(names, new.names)
    BY <2>2, KeptOn DEF PassGood
  <2>8. ASSUME NEW x \in Known, new.names[x] # names[x]
        PROVE  \E i \in 1 .. Len(new.queued) : new.queued[i] = x
    <3>1. CASE x = p
      BY <2>5, <3>1
    <3>2. CASE x # p
      <4>1. acc.names[x] # names[x]
        BY <2>3, <2>8, <3>2
      <4>2. PICK i \in 1 .. n : acc.queued[i] = x
        BY <4>1 DEF PassGood, n
      <4> QED
        BY <2>5, <4>2
    <3> QED
      BY <3>1, <3>2
  <2>9. ASSUME NEW j \in 1 .. k, ParentsOf(c)[j] \in young
        PROVE  /\ Has(new.names, ParentsOf(c)[j])
               /\ Tagged(names, c) => Tagged(new.names, ParentsOf(c)[j])
    <3>1. CASE j = k
      <4>1. Tagged(names, c) => Tagged(new.names, p)
        BY <1>3, <2>2, <2>3 DEF Tagged, Has
      <4> QED
        BY <2>2, <3>1, <4>1 DEF p
    <3>2. CASE j \in 1 .. k - 1
      <4>1. /\ Has(acc.names, ParentsOf(c)[j])
            /\ Tagged(names, c) => Tagged(acc.names, ParentsOf(c)[j])
        BY <2>9, <3>2 DEF PassGood
      <4>2. ParentsOf(c)[j] \in Known
        BY <2>9
      <4> QED
        BY <2>2, <4>1, <4>2 DEF Kept
    <3> QED
      BY <1>4, <3>1, <3>2
  <2>10. ASSUME Sound(names, young) PROVE Sound(new.names, young)
    <3> SUFFICES ASSUME NEW x \in Known, Has(new.names, x)
                 PROVE  Follow(new.names[x]) = x /\ Reaching(new.names[x].tip, x, young)
      BY DEF Sound
    <3>1. Sound(acc.names, young)
      BY <2>10 DEF PassGood
    <3>2. CASE x # p
      BY <2>3, <3>1, <3>2 DEF Sound, Has
    <3>3. CASE x = p
      <4>1. Follow(names[c]) = c /\ Reaching(names[c].tip, c, young)
        BY <2>10 DEF Sound
      <4>2. Follow(name) = p
        BY <1>2, <1>3, <4>1, ParentNameLeads DEF name, p
      <4>3. Reaching(name.tip, p, young)
        <5>1. refs[name.tip].commit \in young /\ c \in Reach(Within(young), refs[name.tip].commit)
          BY <1>3, <4>1 DEF Reaching
        <5>2. p \in Within(young)[c]
          BY <1>1, <1>6, WithinFacts
        <5>3. p \in Reach(Within(young), refs[name.tip].commit)
          BY <5>1, <5>2, WithinFacts, ReachIs
        <5> QED
          BY <5>1, <5>3 DEF Reaching
      <4> QED
        BY <2>3, <3>3, <4>2, <4>3
    <3> QED
      BY <3>2, <3>3
  <2>11. ASSUME NEW D \in Nat, Bounded(names, D)
         PROVE  /\ Bounded(new.names, D)
                /\ Open(new.names, D) \subseteq Open(names, D)
                /\ Open(new.names, D) # Open(names, D)
    <3>1. Bounded(acc.names, D) /\ Open(acc.names, D) \subseteq Open(names, D)
      BY <2>11 DEF PassGood
    <3>2. names[c].distance + MergeWeight * c <= D /\ names[c].distance \in Nat
      BY <1>2, <2>11, NameFacts DEF Bounded
    <3>3. name.distance \in Nat /\ EffectiveDistance(name) \in Nat
          /\ EffectiveDistance(name) <= name.distance + MergeWeight
      BY <1>3, NameFacts
    <3>4. MergeWeight = 65535
      BY DEF MergeWeight
    <3>5. name.distance + MergeWeight * p <= D
      <4>1. \A d, e, x, y \in Nat : x < y /\ d <= e + 65535 /\ e + 65535 * y <= D
                                        => d + 65535 * x <= D
        OBVIOUS
      <4>2. name.distance + MergeWeight * p <= D
        <5> DEFINE d == name.distance
                   e == names[c].distance
        <5>1. d \in Nat /\ e \in Nat /\ p \in Nat /\ c \in Nat /\ p < c
          BY <1>1, <3>2, <3>3
        <5>2. d <= e + 65535 /\ e + 65535 * c <= D
          BY <1>3, <3>2, <3>4
        <5> HIDE DEF d, e
        <5>3. d + 65535 * p <= D
          BY <4>1, <5>1, <5>2
        <5> QED
          BY <3>4, <5>3 DEF d
      <4> QED
        BY <4>2
    <3>6. p >= 1
      <4>1. p \in Commit
        BY <1>1 DEF GraphFits
      <4> QED
        BY <4>1, RevisionsAssumption
    <3>7. EffectiveDistance(name) <= D
      BY <1>1, <3>3, <3>4, <3>5, <3>6
    <3>8. Bounded(new.names, D)
      BY <2>3, <3>1, <3>5 DEF Bounded, Has
    <3>9. /\ Open(new.names, D) \subseteq Open(acc.names, D)
          /\ Open(new.names, D) # Open(acc.names, D)
      BY <2>2, <3>7
    <3> QED
      BY <3>1, <3>8, <3>9
  <2> QED
    BY <2>2, <2>4, <2>5, <2>6, <2>7, <2>8, <2>9, <2>10, <2>11 DEF PassGood, new
<1> QED
  BY <1>5, <1>6

\* All parents, one after the other.
LEMMA PassOnIs ==
    ASSUME GraphFits, RefsFit, NEW names \in NameMaps, NEW c \in Known, Has(names, c),
           NEW young \in SUBSET Known
    PROVE  /\ PassGood(PassOn(names, c, young), names, c, Len(ParentsOf(c)), young)
           /\ PassOn(names, c, young) \in [names : NameMaps, queued : Seq(Known)]
<1> DEFINE n == Len(ParentsOf(c))
           Recs == [names : NameMaps, queued : Seq(Known)]
           Acc == {acc \in Recs : acc.names[c] = names[c]}
           base == [names |-> names, queued |-> <<>>]
           step == [w \in Nat \X Acc |-> PassTo(w[2], c, w[1], young)]
           passed == CHOOSE f : f = [k \in 0 .. Len(ParentsOf(c)) |->
                        IF k = 0 THEN [names |-> names, queued |-> <<>>]
                        ELSE PassTo(f[k - 1], c, k, young)]
           Good == {k \in 0 .. n : passed[k] \in Acc /\ PassGood(passed[k], names, c, k, young)}
<1>1. PassOn(names, c, young) = passed[n]
  BY DEF PassOn
<1>2. ParentsOf(c) \in Seq(Known) /\ n \in Nat /\ 0 \in Nat
  BY GraphFacts
<1>3. names[c] \in AName
  BY DEF NameMaps, NameOrNone, Has
<1>4. ASSUME NEW k \in 0 + 1 .. n, NEW acc \in Acc PROVE PassTo(acc, c, k, young) \in Acc
  <2> DEFINE p == ParentsOf(c)[k]
             name == ParentName(acc.names[c], k)
             new == PassTo(acc, c, k, young)
  <2>0. acc.names \in NameMaps /\ acc.queued \in Seq(Known) /\ acc.names[c] = names[c]
    OBVIOUS
  <2>1. k \in 1 .. n /\ k \in Nat /\ p \in Known
    BY <1>2
  <2>2. p < c /\ c \in Nat
    <3>1. p \in ToSet(ParentsOf(c))
      BY <1>2, <2>1, Elements
    <3> QED
      BY <3>1, GraphFacts
  <2>3. name \in AName
    <3>1. acc.names[c] \in AName
      BY <1>3, <2>0
    <3> QED
      BY <2>1, <3>1, ParentNameIn
  <2>4. CASE ~(p \in young /\ Improves(acc.names, p, name))
    BY <2>4 DEF PassTo
  <2>5. CASE p \in young /\ Improves(acc.names, p, name)
    <3> DEFINE q == acc.queued
               old == acc.names
    <3>1. new = [names |-> [old EXCEPT ![p] = name], queued |-> Append(q, p)]
      BY <2>5 DEF PassTo
    <3> HIDE DEF name, new, p
    <3>2. [old EXCEPT ![p] = name] \in NameMaps /\ [old EXCEPT ![p] = name][c] = old[c]
      BY <2>0, <2>1, <2>2, <2>3 DEF NameMaps, NameOrNone
    <3>3. Append(q, p) \in Seq(Known)
      BY <2>0, <2>1
    <3>4. new \in Recs /\ new.names[c] = names[c]
      BY <2>0, <3>1, <3>2, <3>3
    <3> QED
      BY <3>4 DEF new
  <2> QED
    BY <2>4, <2>5
<1>5. PICK f \in [0 .. n -> Acc] : Counts(0, n, base, step, f)
  <2>1. base \in Acc
    OBVIOUS
  <2>2. \A i \in 0 + 1 .. n : \A x \in Acc : step[<<i, x>>] \in Acc
    <3> SUFFICES ASSUME NEW i \in 0 + 1 .. n, NEW x \in Acc PROVE step[<<i, x>>] \in Acc
      OBVIOUS
    <3>1. i \in Nat /\ PassTo(x, c, i, young) \in Acc
      BY <1>2, <1>4
    <3> HIDE DEF Acc
    <3> QED
      BY <3>1
  <2> HIDE DEF Acc, step, base, n
  <2> QED
    BY <1>2, <2>1, <2>2, CountIn
<1> HIDE DEF Acc, base
<1>6. passed = [k \in 0 .. n |-> IF k = 0 THEN base ELSE PassTo(passed[k - 1], c, k, young)]
  <2>1. ASSUME NEW k \in 0 .. n, k # 0 PROVE step[<<k, f[k - 1]>>] = PassTo(f[k - 1], c, k, young)
    <3>1. k - 1 \in 0 .. n /\ k \in Nat
      BY <1>2, <2>1
    <3>2. f[k - 1] \in Acc
      BY <3>1
    <3> QED
      BY <3>1, <3>2
  <2> HIDE DEF step
  <2>2. f = [k \in 0 .. n |-> IF k = 0 THEN base ELSE PassTo(f[k - 1], c, k, young)]
    BY <1>5, <2>1 DEF Counts
  <2> QED
    BY <2>2 DEF base
<1> HIDE DEF passed, step
<1>7. 0 \in Good
  <2>1. passed[0] = base /\ 0 \in 0 .. n /\ base.names = names /\ base.queued = <<>>
    BY <1>2, <1>6 DEF base
  <2>2. base \in Acc
    BY DEF Acc, base
  <2>3. Kept(names, names) /\ Len(<<>>) = 0 /\ 1 .. 0 = {}
    BY DEF Kept
  <2>4. PassGood(base, names, c, 0, young)
    BY <2>1, <2>3 DEF PassGood
  <2> QED
    BY <2>1, <2>2, <2>4
<1>8. ASSUME NEW k \in 0 + 1 .. n, k - 1 \in Good PROVE k \in Good
  <2>1. k \in 0 .. n /\ k # 0 /\ k \in 1 .. n
    BY <1>2
  <2>2. passed[k] = PassTo(passed[k - 1], c, k, young)
    BY <1>6, <2>1
  <2>3. passed[k - 1] \in Acc /\ PassGood(passed[k - 1], names, c, k - 1, young)
    BY <1>8
  <2>4. PassGood(passed[k], names, c, k, young)
    BY <2>1, <2>2, <2>3, PassesOn
  <2>5. passed[k] \in Acc
    BY <1>4, <2>2, <2>3
  <2> QED
    BY <2>1, <2>4, <2>5
<1>9. n \in Good
  <2> HIDE DEF Good
  <2>1. 0 .. n \subseteq Good
    BY <1>2, <1>7, <1>8, Climb
  <2> QED
    BY <1>2, <2>1
<1> QED
  BY <1>1, <1>9 DEF Acc

-------------------------------------------------------------------------------
(* Names spread from a tip. *)

SpreadNext(at, young) ==
    LET passed == PassOn(at.names, Head(at.queued), young)
    IN  [passed EXCEPT !.queued = @ \o Tail(at.queued)]

Queued(q, x) == \E i \in 1 .. Len(q) : q[i] = x

\* What has a name has passed it on, or is queued.
Spreads(names, q, young) ==
    \A x \in Known : Has(names, x) =>
        \/ Queued(q, x)
        \/ \A p \in Edges[x] \cap young :
              Has(names, p) /\ (Tagged(names, x) => Tagged(names, p))

LEMMA QueuedOn ==
    ASSUME NEW q \in Seq(Known), q # <<>>, NEW r \in Seq(Known)
    PROVE  /\ Head(q) \in Known /\ Queued(q, Head(q))
           /\ r \o Tail(q) \in Seq(Known)
           /\ \A x : Queued(r \o Tail(q), x) => Queued(r, x) \/ Queued(q, x)
           /\ \A x : Queued(r, x) => Queued(r \o Tail(q), x)
           /\ \A x : Queued(q, x) /\ x # Head(q) => Queued(r \o Tail(q), x)
           /\ r = <<>> => Len(r \o Tail(q)) < Len(q)
           /\ Len(q) \in Nat
<1> DEFINE m == Len(r)
           n == Len(q)
           t == Tail(q)
           new == r \o t
<1>1. /\ n \in Nat /\ n >= 1 /\ m \in Nat /\ t \in Seq(Known) /\ Len(t) = n - 1
      /\ Head(q) = q[1] /\ \A i \in 1 .. n - 1 : t[i] = q[i + 1]
  OBVIOUS
<1> HIDE DEF t
<1>2. /\ new \in Seq(Known) /\ Len(new) = m + (n - 1)
      /\ \A i \in 1 .. m : new[i] = r[i]
      /\ \A i \in m + 1 .. m + (n - 1) : new[i] = t[i - m]
  BY <1>1
<1> HIDE DEF new, m, n
<1>3. Head(q) \in Known /\ Queued(q, Head(q))
  BY <1>1 DEF Queued, n
<1>4. ASSUME NEW x, Queued(new, x) PROVE Queued(r, x) \/ Queued(q, x)
  <2>1. PICK i \in 1 .. m + (n - 1) : new[i] = x
    BY <1>2, <1>4 DEF Queued
  <2>2. CASE i \in 1 .. m
    BY <1>2, <2>1, <2>2 DEF Queued, m
  <2>3. CASE i \in m + 1 .. m + (n - 1)
    <3>1. i - m \in 1 .. n - 1 /\ (i - m) + 1 \in 1 .. n
      BY <1>1, <2>3
    <3>2. x = q[(i - m) + 1]
      BY <1>1, <1>2, <2>1, <2>3, <3>1
    <3> QED
      BY <3>1, <3>2 DEF Queued, n
  <2> QED
    BY <1>1, <2>1, <2>2, <2>3
<1>5. ASSUME NEW x, Queued(r, x) PROVE Queued(new, x)
  <2>1. PICK i \in 1 .. m : r[i] = x
    BY <1>5 DEF Queued, m
  <2>2. i \in 1 .. m + (n - 1)
    BY <1>1
  <2> QED
    BY <1>2, <2>1, <2>2 DEF Queued
<1>6. ASSUME NEW x, Queued(q, x), x # Head(q) PROVE Queued(new, x)
  <2>1. PICK i \in 1 .. n : q[i] = x
    BY <1>6 DEF Queued, n
  <2>2. i # 1 /\ i - 1 \in 1 .. n - 1 /\ (i - 1) + m \in m + 1 .. m + (n - 1)
        /\ (i - 1) + m \in 1 .. m + (n - 1) /\ ((i - 1) + m) - m = i - 1 /\ (i - 1) + 1 = i
    BY <1>1, <1>6, <2>1
  <2>3. new[(i - 1) + m] = x
    BY <1>1, <1>2, <2>1, <2>2
  <2> QED
    BY <1>2, <2>2, <2>3 DEF Queued
<1>7. r = <<>> => Len(new) < n
  BY <1>1, <1>2 DEF m
<1> QED
  BY <1>1, <1>2, <1>3, <1>4, <1>5, <1>6, <1>7 DEF new, t, n

\* One commit of the queue.
SpreadGood(new, at, young) ==
    /\ new \in Spreading
    /\ Kept(at.names, new.names)
    /\ Sound(at.names, young) => Sound(new.names, young)
    /\ Spreads(at.names, at.queued, young) => Spreads(new.names, new.queued, young)
    /\ \A D \in Nat : Bounded(at.names, D) =>
          /\ Bounded(new.names, D)
          /\ Open(new.names, D) \subseteq Open(at.names, D)
          /\ Open(new.names, D) = Open(at.names, D) => Len(new.queued) < Len(at.queued)

LEMMA SpreadingIs ==
    ASSUME NEW at
    PROVE  at \in Spreading <=> /\ at \in [names : NameMaps, queued : Seq(Known)]
                                /\ \A x : Queued(at.queued, x) => Has(at.names, x)
<1>1. ASSUME at \in [names : NameMaps, queued : Seq(Known)]
      PROVE  DOMAIN at.queued = 1 .. Len(at.queued)
  BY <1>1
<1>2. ASSUME at \in Spreading
      PROVE  /\ at \in [names : NameMaps, queued : Seq(Known)]
             /\ \A x : Queued(at.queued, x) => Has(at.names, x)
  BY <1>1, <1>2 DEF Spreading, NameMaps, Queued, Has
<1>3. ASSUME at \in [names : NameMaps, queued : Seq(Known)],
             \A x : Queued(at.queued, x) => Has(at.names, x)
      PROVE  at \in Spreading
  BY <1>1, <1>3 DEF Spreading, NameMaps, Queued, Has
<1> QED
  BY <1>2, <1>3

LEMMA SpreadNextIs ==
    ASSUME GraphFits, RefsFit, NEW young \in SUBSET Known,
           NEW at \in Spreading, at.queued # <<>>
    PROVE  SpreadGood(SpreadNext(at, young), at, young)
<1> DEFINE q == at.queued
           names == at.names
           c == Head(q)
           passed == PassOn(names, c, young)
           r == passed.queued
           new == SpreadNext(at, young)
<1>1. /\ names \in NameMaps /\ q \in Seq(Known) /\ q # <<>>
      /\ \A x : Queued(q, x) => Has(names, x)
  BY SpreadingIs
<1>2. c \in Known /\ Queued(q, c) /\ Has(names, c)
  <2> HIDE DEF q, names
  <2>1. <<>> \in Seq(Known)
    OBVIOUS
  <2> QED
    BY <1>1, <2>1, QueuedOn
<1> HIDE DEF c, q, names
<1>3. /\ PassGood(passed, names, c, Len(ParentsOf(c)), young)
      /\ passed \in [names : NameMaps, queued : Seq(Known)]
  BY <1>1, <1>2, PassOnIs
<1>4. new.names = passed.names /\ new.queued = r \o Tail(q)
      /\ new = [names |-> passed.names, queued |-> r \o Tail(q)]
  <2>1. new = [passed EXCEPT !.queued = passed.queued \o Tail(q)]
    BY DEF SpreadNext, c, q, names
  <2> HIDE DEF passed, new
  <2> QED
    BY <1>3, <2>1
<1> HIDE DEF passed, new
<1>5. r \in Seq(Known) /\ passed.names \in NameMaps
  BY <1>3
<1> HIDE DEF r
<1>6. /\ r \o Tail(q) \in Seq(Known)
      /\ \A x : Queued(r \o Tail(q), x) => Queued(r, x) \/ Queued(q, x)
      /\ \A x : Queued(r, x) => Queued(r \o Tail(q), x)
      /\ \A x : Queued(q, x) /\ x # c => Queued(r \o Tail(q), x)
      /\ r = <<>> => Len(r \o Tail(q)) < Len(q)
  BY <1>1, <1>5, QueuedOn DEF c
<1>7. Kept(names, passed.names)
  BY <1>3 DEF PassGood
<1>8. new \in Spreading
  <2>1. new \in [names : NameMaps, queued : Seq(Known)]
    BY <1>4, <1>5, <1>6
  <2>2. ASSUME NEW x, Queued(new.queued, x) PROVE Has(new.names, x)
    <3>1. CASE Queued(r, x)
      BY <1>3, <1>4, <3>1 DEF PassGood, Queued, r
    <3>2. CASE Queued(q, x)
      <4>1. x \in Known /\ Has(names, x)
        BY <1>1, <3>2 DEF Queued
      <4> QED
        BY <1>4, <1>7, <4>1 DEF Kept
    <3> QED
      BY <1>4, <1>6, <2>2, <3>1, <3>2
  <2> QED
    BY <2>1, <2>2, SpreadingIs
<1>9. Sound(names, young) => Sound(new.names, young)
  BY <1>3, <1>4 DEF PassGood
<1>10. ASSUME Spreads(names, q, young) PROVE Spreads(new.names, new.queued, young)
  <2> SUFFICES ASSUME NEW x \in Known, Has(new.names, x), ~Queued(new.queued, x),
                      NEW p \in Edges[x] \cap young
               PROVE  Has(new.names, p) /\ (Tagged(new.names, x) => Tagged(new.names, p))
    BY DEF Spreads
  <2>1. p \in Known /\ Edges[x] = ToSet(ParentsOf(x)) /\ ParentsOf(x) \in Seq(Known)
    BY EdgesFacts, GraphFacts DEF Graded
  <2>2. new.names[x] = names[x]
    <3>1. ~Queued(r, x)
      BY <1>4, <1>6
    <3> QED
      BY <1>3, <1>4, <3>1 DEF PassGood, Queued, r
  <2>3. CASE x = c
    <3>1. PICK j \in 1 .. Len(ParentsOf(c)) : ParentsOf(c)[j] = p
      BY <2>1, <2>3, Elements
    <3> QED
      BY <1>3, <1>4, <2>2, <2>3, <3>1 DEF PassGood, Tagged
  <2>4. CASE x # c
    <3>1. ~Queued(q, x) /\ Has(names, x)
      BY <1>4, <1>6, <2>2, <2>4 DEF Has
    <3>2. Has(names, p) /\ (Tagged(names, x) => Tagged(names, p))
      BY <1>10, <3>1 DEF Spreads
    <3> QED
      BY <1>4, <1>7, <2>1, <2>2, <3>2 DEF Kept, Tagged
  <2> QED
    BY <2>3, <2>4
<1>11. ASSUME NEW D \in Nat, Bounded(names, D)
       PROVE  /\ Bounded(new.names, D)
              /\ Open(new.names, D) \subseteq Open(names, D)
              /\ Open(new.names, D) = Open(names, D) => Len(new.queued) < Len(q)
  BY <1>3, <1>4, <1>6, <1>11 DEF PassGood, r
<1> QED
  BY <1>4, <1>7, <1>8, <1>9, <1>10, <1>11 DEF SpreadGood, new, q, names

LEMMA BoundExists ==
    ASSUME GraphFits, RefsFit, NEW names \in NameMaps
    PROVE  \E D \in Nat : Bounded(names, D)
<1> DEFINE f == [c \in Known |-> IF Has(names, c) THEN names[c].distance + MergeWeight * c ELSE 0]
           T == {f[c] : c \in Known}
<1>1. \A c \in Known : f[c] \in Nat
  <2> SUFFICES ASSUME NEW c \in Known, Has(names, c)
               PROVE  names[c].distance + MergeWeight * c \in Nat
    OBVIOUS
  <2>1. names[c] \in AName /\ c \in Nat
    BY GraphFacts DEF NameMaps, NameOrNone, Has
  <2>2. names[c].distance \in Nat
    BY <2>1, NameFacts
  <2> QED
    BY <2>1, <2>2 DEF MergeWeight
<1>2. f \in Surjection(Known, T)
  <2>1. f \in [Known -> T]
    OBVIOUS
  <2> QED
    BY <2>1 DEF Surjection
<1>3. T \in SUBSET Nat /\ IsFiniteSet(T)
  <2>1. IsFiniteSet(Known)
    BY GraphFacts
  <2>2. T \in SUBSET Nat
    BY <1>1
  <2> HIDE DEF f, T
  <2> QED
    BY <1>2, <2>1, <2>2, FS_Surjection
<1>4. PICK D \in Nat : \A p \in T : p <= D
  <2> HIDE DEF T
  <2>1. CASE T = {}
    BY <2>1
  <2>2. CASE T # {}
    BY <1>3, <2>2, Greatest
  <2> QED
    BY <2>1, <2>2
<1>5. \A c \in Known : Has(names, c) => names[c].distance + MergeWeight * c \in T
  <2> SUFFICES ASSUME NEW c \in Known, Has(names, c)
               PROVE  names[c].distance + MergeWeight * c \in T
    OBVIOUS
  <2>1. f[c] = names[c].distance + MergeWeight * c
    OBVIOUS
  <2> HIDE DEF f
  <2> QED
    BY <2>1
<1> HIDE DEF T
<1> QED
  BY <1>4, <1>5 DEF Bounded

LEMMA RoomFinite ==
    ASSUME GraphFits, RefsFit, NEW D \in Nat
    PROVE  IsFiniteSet(Room(D))
<1>1. IsFiniteSet(0 .. D)
  BY FS_Interval
<1>2. IsFiniteSet((DOMAIN refs) \X (0 .. D))
  BY <1>1, FS_Product DEF RefsFit
<1> QED
  BY <1>2, GraphFacts, FS_Product DEF Room

SpreadFrom(start, tipCommit, out, young) ==
    /\ out \in NameMaps
    /\ Kept(start, out)
    /\ Sound(start, young) => Sound(out, young)
    /\ Spreads(start, <<tipCommit>>, young) => Spreads(out, <<>>, young)

LEMMA SpreadIs ==
    ASSUME GraphFits, RefsFit, NEW young \in SUBSET Known,
           NEW start \in NameMaps, NEW tipCommit \in Known, Has(start, tipCommit)
    PROVE  SpreadFrom(start, tipCommit, Spread(start, tipCommit, young), young)
<1> DEFINE S == Spreading
           Over(x) == x.queued = <<>>
           Stop == {x \in S : Over(x)}
           step == [x \in S |-> SpreadNext(x, young)]
           out == [x \in S |-> x.names]
           spread == CHOOSE f : f = [at \in Spreading |->
               IF at.queued = <<>> THEN at.names
               ELSE LET passed == PassOn(at.names, Head(at.queued), young)
                    IN  f[[passed EXCEPT !.queued = @ \o Tail(at.queued)]]]
           begin == [names |-> start, queued |-> <<tipCommit>>]
           R == {x \in NameMaps : SpreadFrom(start, tipCommit, x, young)}
<1>1. Spread(start, tipCommit, young) = spread[begin]
  BY DEF Spread
<1>2. \A x \in S : ~Over(x) => SpreadGood(SpreadNext(x, young), x, young)
  BY SpreadNextIs
<1>3. spread = [x \in S |-> IF Over(x) THEN x.names ELSE spread[SpreadNext(x, young)]]
  <2>1. \A x \in S \ Stop : step[x] \in S
    <3> SUFFICES ASSUME NEW x \in S, ~Over(x) PROVE step[x] \in S
      OBVIOUS
    <3>1. step[x] = SpreadNext(x, young)
      OBVIOUS
    <3> QED
      BY <1>2, <3>1 DEF SpreadGood
  <2>2. \E f : Loops(S, Stop, out, step, f)
    <3> HIDE DEF S, Stop, step, out
    <3> QED
      BY <2>1, LoopExists
  <2>3. PICK f : f = [x \in S |-> IF x \in Stop THEN out[x] ELSE f[step[x]]]
    BY <2>2 DEF Loops
  <2>4. ASSUME NEW x \in S PROVE f[x] = IF Over(x) THEN x.names ELSE f[SpreadNext(x, young)]
    <3>1. x \in Stop <=> Over(x)
      OBVIOUS
    <3>2. out[x] = x.names /\ step[x] = SpreadNext(x, young)
      OBVIOUS
    <3> HIDE DEF S, Stop, step, out, Over
    <3> QED
      BY <2>3, <3>1, <3>2
  <2>5. f = [x \in S |-> IF Over(x) THEN x.names ELSE f[SpreadNext(x, young)]]
    <3>1. f = [x \in S |-> f[x]]
      BY <2>3
    <3> HIDE DEF S, Over
    <3> QED
      BY <2>4, <3>1
  <2>6. \E g : g = [x \in S |-> IF Over(x) THEN x.names ELSE g[SpreadNext(x, young)]]
    BY <2>5
  <2> QED
    BY <2>6 DEF SpreadNext
<1> HIDE DEF spread
<1>4. PICK D \in Nat : Bounded(start, D)
  BY BoundExists
<1> DEFINE G == {x \in S : /\ Bounded(x.names, D) /\ Kept(start, x.names)
                           /\ Sound(start, young) => Sound(x.names, young)
                           /\ Spreads(start, <<tipCommit>>, young) =>
                                 Spreads(x.names, x.queued, young)}
           left == [x \in G |-> Open(x.names, D)]
           size == [x \in G |-> Len(x.queued)]
<1>5. begin \in G
  <2>1. begin.names = start /\ begin.queued = <<tipCommit>>
    OBVIOUS
  <2>2. begin \in [names : NameMaps, queued : Seq(Known)]
    OBVIOUS
  <2>3. \A x : Queued(<<tipCommit>>, x) => x = tipCommit
    BY DEF Queued
  <2> HIDE DEF begin
  <2>4. begin \in S
    BY <2>1, <2>2, <2>3, SpreadingIs
  <2>5. Kept(start, start)
    BY DEF Kept
  <2> QED
    BY <1>4, <2>1, <2>4, <2>5
<1>6. ASSUME NEW x \in G
      PROVE  /\ x \in S /\ left[x] \subseteq Room(D) /\ size[x] \in Nat
             /\ left[x] = Open(x.names, D) /\ size[x] = Len(x.queued)
             /\ x.names \in NameMaps
  <2>1. x.queued \in Seq(Known) /\ x.names \in NameMaps
    BY SpreadingIs
  <2> QED
    BY <2>1 DEF Open
<1>7. ASSUME NEW x \in G, Over(x) PROVE spread[x] \in R
  <2>1. x \in S /\ x.names \in NameMaps /\ x.queued = <<>>
    BY <1>6, <1>7
  <2>2. spread[x] = x.names
    BY <1>3, <2>1
  <2>3. SpreadFrom(start, tipCommit, x.names, young)
    BY <2>1 DEF SpreadFrom
  <2> QED
    BY <2>1, <2>2, <2>3
<1>8. ASSUME NEW x \in G, ~Over(x)
      PROVE  /\ step[x] \in G /\ spread[x] = spread[step[x]]
             /\ left[step[x]] \subseteq left[x]
             /\ left[step[x]] = left[x] => size[step[x]] < size[x]
  <2> DEFINE new == SpreadNext(x, young)
  <2>1. SpreadGood(new, x, young) /\ step[x] = new /\ x \in S
    BY <1>2, <1>8
  <2>2. new \in S /\ spread[x] = spread[new]
    BY <1>3, <1>8, <2>1 DEF SpreadGood
  <2> HIDE DEF new, step
  <2>3. new \in G
    BY <2>1, <2>2, KeptOn DEF SpreadGood
  <2>4. /\ Open(new.names, D) \subseteq Open(x.names, D)
        /\ Open(new.names, D) = Open(x.names, D) => Len(new.queued) < Len(x.queued)
    BY <2>1 DEF SpreadGood
  <2> QED
    BY <1>6, <2>1, <2>2, <2>3, <2>4
<1>9. spread[begin] \in R
  <2>1. \A x \in G : (x \in Stop <=> Over(x))
    OBVIOUS
  <2>2. IsFiniteSet(Room(D))
    BY RoomFinite
  <2> HIDE DEF G, Stop, step, left, size, Over, R
  <2>3. EndsBoth(Room(D), G, Stop, step, spread, R, left, size)
    BY <1>6, <1>7, <1>8, <2>1 DEF EndsBoth
  <2>4. \A x \in G : spread[x] \in R
    BY <2>2, <2>3, LoopEndsBoth
  <2> QED
    BY <1>5, <2>4
<1> QED
  BY <1>1, <1>9

-------------------------------------------------------------------------------
(* Names from all tips. *)

TipGood(names, r, out, young) ==
    /\ out \in NameMaps
    /\ Kept(names, out)
    /\ Sound(names, young) => Sound(out, young)
    /\ Spreads(names, <<>>, young) => Spreads(out, <<>>, young)
    /\ refs[r].commit \in young =>
          Has(out, refs[r].commit) /\ (FromTag(r) => Tagged(out, refs[r].commit))

LEMMA SpreadTipIs ==
    ASSUME GraphFits, RefsFit, NEW young \in SUBSET Known,
           NEW names \in NameMaps, NEW r \in DOMAIN refs
    PROVE  TipGood(names, r, SpreadTip(names, r, young), young)
<1> DEFINE c == refs[r].commit
           name == TipName(r)
           start == [names EXCEPT ![c] = name]
           out == SpreadTip(names, r, young)
<1>1. c \in Known /\ name \in AName /\ name.tip = r /\ EffectiveDistance(name) \in Nat
  BY TipFacts, NameFacts
<1>2. CASE ~(c \in young /\ Improves(names, c, name))
  <2>1. out = names
    BY <1>2 DEF SpreadTip
  <2>2. Kept(names, names)
    BY DEF Kept
  <2>3. ASSUME c \in young PROVE Has(names, c) /\ (FromTag(r) => Tagged(names, c))
    <3>1. names[c] # NoName /\ ~Better(names[c], name)
      BY <1>2, <2>3 DEF Improves
    <3>2. names[c] \in AName
      BY <1>1, <3>1 DEF NameMaps, NameOrNone
    <3>3. FromTag(name.tip) => FromTag(names[c].tip)
      BY <1>1, <3>1, <3>2, BeatsOn
    <3> QED
      BY <1>1, <3>1, <3>3 DEF Has, Tagged
  <2> HIDE DEF out
  <2> QED
    BY <2>1, <2>2, <2>3 DEF TipGood, out
<1>3. CASE c \in young /\ Improves(names, c, name)
  <2>1. out = Spread(start, c, young)
    BY <1>3 DEF SpreadTip
  <2> HIDE DEF out, name, start
  <2>2. start \in NameMaps /\ Has(start, c) /\ Kept(names, start)
    BY <1>1, <1>3, ImproveOn DEF start
  <2>3. start[c] = name /\ \A x \in Known \ {c} : start[x] = names[x]
    BY <1>1 DEF start, NameMaps
  <2>4. SpreadFrom(start, c, out, young)
    BY <1>1, <2>1, <2>2, SpreadIs
  <2>5. Kept(names, out)
    BY <2>2, <2>4, KeptOn DEF SpreadFrom
  <2>6. ASSUME Sound(names, young) PROVE Sound(start, young)
    <3> SUFFICES ASSUME NEW x \in Known, Has(start, x)
                 PROVE  Follow(start[x]) = x /\ Reaching(start[x].tip, x, young)
      BY DEF Sound
    <3>1. CASE x = c
      <4>1. Follow(name) = c
        BY TipNameLeads DEF name
      <4>2. c \in Reach(Within(young), c)
        BY <1>1, WithinFacts, ReachIs
      <4> QED
        BY <1>1, <1>3, <2>3, <3>1, <4>1, <4>2 DEF Reaching
    <3>2. CASE x # c
      BY <2>3, <2>6, <3>2 DEF Sound, Has
    <3> QED
      BY <3>1, <3>2
  <2>7. ASSUME Spreads(names, <<>>, young) PROVE Spreads(start, <<c>>, young)
    <3> SUFFICES ASSUME NEW x \in Known, Has(start, x), ~Queued(<<c>>, x),
                        NEW p \in Edges[x] \cap young
                 PROVE  Has(start, p) /\ (Tagged(start, x) => Tagged(start, p))
      BY DEF Spreads
    <3>1. x # c
      BY DEF Queued
    <3>2. start[x] = names[x] /\ p \in Known /\ Has(names, x)
      BY <2>3, <3>1, EdgesFacts DEF Graded, Has
    <3>3. ~Queued(<<>>, x)
      BY DEF Queued
    <3>4. Has(names, p) /\ (Tagged(names, x) => Tagged(names, p))
      BY <2>7, <3>2, <3>3 DEF Spreads
    <3> QED
      BY <2>2, <3>2, <3>4 DEF Kept, Tagged
  <2>8. Has(out, c) /\ (FromTag(r) => Tagged(out, c))
    <3>1. FromTag(r) => Tagged(start, c)
      BY <1>1, <2>2, <2>3 DEF Tagged, Has
    <3> QED
      BY <1>1, <2>2, <2>4, <3>1 DEF SpreadFrom, Kept
  <2> QED
    BY <2>4, <2>5, <2>6, <2>7, <2>8 DEF SpreadFrom, TipGood, out
<1> QED
  BY <1>2, <1>3

LEMMA FirstTipIn ==
    ASSUME GraphFits, RefsFit, NEW rs \in SUBSET DOMAIN refs, rs # {}
    PROVE  FirstTip(rs) \in rs
<1>1. \A r \in rs : r \in Nat /\ TipTime(r) \in Nat /\ FromTag(r) \in BOOLEAN
  BY TipFacts
<1> DEFINE tags == {r \in rs : FromTag(r)}
           best == IF tags # {} THEN tags ELSE rs
           times == {TipTime(r) : r \in best}
<1>2. /\ best # {} /\ best \subseteq rs
      /\ \A r \in best, q \in rs : FromTag(r) # FromTag(q) => FromTag(r)
      /\ \A q \in rs \ best : \A r \in best : FromTag(r) = TRUE /\ FromTag(q) = FALSE
  BY <1>1
<1> HIDE DEF best
<1>3. PICK w \in best : \A r \in best : TipTime(w) <= TipTime(r)
  <2>1. times \in SUBSET Nat /\ times # {}
    BY <1>1, <1>2
  <2>2. \E o \in times : \A p \in times : o <= p
    <3> HIDE DEF times
    <3> QED
      BY <2>1, Least
  <2> QED
    BY <2>2
<1> DEFINE even == {r \in best : TipTime(r) = TipTime(w)}
<1>4. PICK f \in even : \A q \in even : f <= q
  <2>1. even \in SUBSET Nat /\ even # {}
    BY <1>1, <1>2
  <2> HIDE DEF even
  <2> QED
    BY <2>1, Least
<1>5. f \in rs /\ f \in best /\ TipTime(f) = TipTime(w)
  BY <1>2
<1>6. ASSUME NEW q \in rs \ {f} PROVE TipBefore(f, q)
  <2>1. CASE q \notin best
    <3>1. FromTag(f) = TRUE /\ FromTag(q) = FALSE
      BY <1>1, <1>2, <1>5, <2>1
    <3> QED
      BY <3>1 DEF TipBefore
  <2>2. CASE q \in best
    <3>1. FromTag(f) = FromTag(q)
      BY <1>1, <1>2, <1>5, <2>2
    <3>2. TipTime(f) <= TipTime(q) /\ TipTime(f) \in Nat /\ TipTime(q) \in Nat
          /\ f \in Nat /\ q \in Nat /\ f # q
      BY <1>1, <1>3, <1>5, <2>2
    <3>3. TipTime(f) = TipTime(q) => f <= q
      BY <1>4, <1>5, <2>2
    <3> QED
      BY <3>1, <3>2, <3>3 DEF TipBefore
  <2> QED
    BY <2>1, <2>2
<1>7. \E r \in rs : \A q \in rs \ {r} : TipBefore(r, q)
  BY <1>5, <1>6
<1> QED
  BY <1>7 DEF FirstTip

\* Names after all tips: sound, passed on, and from each tip that counts.
AllNamed(names, young) ==
    /\ names \in NameMaps /\ Sound(names, young) /\ Spreads(names, <<>>, young)
    /\ \A r \in DOMAIN refs : refs[r].commit \in young =>
          Has(names, refs[r].commit) /\ (FromTag(r) => Tagged(names, refs[r].commit))

LEMMA NameRevsIs ==
    ASSUME GraphFits, RefsFit, NEW targets \in SUBSET Known, NEW all \in BOOLEAN
    PROVE  \E names : /\ AllNamed(names, Young(targets, all))
                      /\ NameRevs(targets, all) = [c \in {x \in Known : names[x] # NoName} |-> names[c]]
<1> DEFINE young == Young(targets, all)
           tips == DOMAIN refs
           S == [names : [Known -> NameOrNone], left : SUBSET tips]
           Over(x) == x.left = {}
           Stop == {x \in S : Over(x)}
           Next0(x) == [names |-> SpreadTip(x.names, FirstTip(x.left), young),
                        left  |-> x.left \ {FirstTip(x.left)}]
           step == [x \in S |-> Next0(x)]
           out == [x \in S |-> x.names]
           take == CHOOSE f : f = [at \in [names : [Known -> NameOrNone], left : SUBSET DOMAIN refs] |->
               IF at.left = {} THEN at.names
               ELSE LET r == FirstTip(at.left)
                    IN  f[[names |-> SpreadTip(at.names, r, young), left |-> at.left \ {r}]]]
           begin == [names |-> [c \in Known |-> NoName], left |-> tips]
<1>1. NameRevs(targets, all) = [c \in {x \in Known : take[begin][x] # NoName} |-> take[begin][c]]
  BY DEF NameRevs
<1>2. young \in SUBSET Known
  BY DEF Young
<1> HIDE DEF young
<1>3. S = [names : NameMaps, left : SUBSET tips]
  BY DEF NameMaps
<1>4. ASSUME NEW x \in S, ~Over(x)
      PROVE  /\ FirstTip(x.left) \in x.left /\ Next0(x) \in S
             /\ TipGood(x.names, FirstTip(x.left), Next0(x).names, young)
  <2> DEFINE r == FirstTip(x.left)
  <2>1. x.names \in NameMaps /\ x.left \in SUBSET tips
    BY <1>3
  <2>2. r \in x.left
    BY <1>4, <2>1, FirstTipIn
  <2>3. TipGood(x.names, r, SpreadTip(x.names, r, young), young)
    BY <1>2, <2>1, <2>2, SpreadTipIs
  <2> HIDE DEF r
  <2>4. SpreadTip(x.names, r, young) \in NameMaps /\ x.left \ {r} \in SUBSET tips
    BY <2>1, <2>3 DEF TipGood
  <2>5. [names |-> SpreadTip(x.names, r, young), left |-> x.left \ {r}] \in S
    BY <1>3, <2>4
  <2> QED
    BY <2>2, <2>3, <2>5 DEF r
<1>5. take = [x \in S |-> IF Over(x) THEN x.names ELSE take[Next0(x)]]
  <2>1. \A x \in S \ Stop : step[x] \in S
    <3> SUFFICES ASSUME NEW x \in S, ~Over(x) PROVE step[x] \in S
      OBVIOUS
    <3>1. step[x] = Next0(x)
      OBVIOUS
    <3> QED
      BY <1>4, <3>1
  <2>2. \E f : Loops(S, Stop, out, step, f)
    <3> HIDE DEF S, Stop, step, out
    <3> QED
      BY <2>1, LoopExists
  <2>3. PICK f : f = [x \in S |-> IF x \in Stop THEN out[x] ELSE f[step[x]]]
    BY <2>2 DEF Loops
  <2>4. ASSUME NEW x \in S PROVE f[x] = IF Over(x) THEN x.names ELSE f[Next0(x)]
    <3>1. x \in Stop <=> Over(x)
      OBVIOUS
    <3>2. out[x] = x.names /\ step[x] = Next0(x)
      OBVIOUS
    <3> HIDE DEF S, Stop, step, out, Over, Next0
    <3> QED
      BY <2>3, <3>1, <3>2
  <2>5. f = [x \in S |-> IF Over(x) THEN x.names ELSE f[Next0(x)]]
    <3>1. f = [x \in S |-> f[x]]
      BY <2>3
    <3> HIDE DEF S, Over, Next0
    <3> QED
      BY <2>4, <3>1
  <2>6. \E g : g = [x \in S |-> IF Over(x) THEN x.names ELSE g[Next0(x)]]
    BY <2>5
  <2> QED
    BY <2>6
<1> HIDE DEF take
<1> DEFINE Given(names, left) ==
               \A r \in tips \ left : refs[r].commit \in young =>
                  Has(names, refs[r].commit) /\ (FromTag(r) => Tagged(names, refs[r].commit))
           G == {x \in S : Sound(x.names, young) /\ Spreads(x.names, <<>>, young)
                           /\ Given(x.names, x.left)}
           R == {x \in NameMaps : AllNamed(x, young)}
           left == [x \in G |-> x.left]
<1>6. begin \in G
  <2>1. begin.left = tips /\ \A c \in Known : begin.names[c] = NoName
    OBVIOUS
  <2>2. begin \in S
    BY DEF NameOrNone
  <2> HIDE DEF begin
  <2>3. Sound(begin.names, young) /\ Spreads(begin.names, <<>>, young)
    BY <2>1 DEF Sound, Spreads, Has
  <2> QED
    BY <2>1, <2>2, <2>3
<1>7. ASSUME NEW x \in G, Over(x) PROVE take[x] \in R
  <2>1. take[x] = x.names /\ x.names \in NameMaps
    BY <1>3, <1>5, <1>7
  <2>2. AllNamed(x.names, young)
    BY <1>7, <2>1 DEF AllNamed
  <2> QED
    BY <2>1, <2>2
<1>8. ASSUME NEW x \in G, ~Over(x)
      PROVE  /\ step[x] \in G /\ take[x] = take[step[x]]
             /\ left[step[x]] \subseteq left[x] /\ left[step[x]] # left[x]
  <2> DEFINE r == FirstTip(x.left)
             new == Next0(x)
  <2>1. x \in S /\ r \in x.left /\ new \in S /\ TipGood(x.names, r, new.names, young)
    BY <1>4, <1>8
  <2>2. step[x] = new /\ take[x] = take[new]
    BY <1>5, <1>8, <2>1
  <2>3. new.left = x.left \ {r}
    OBVIOUS
  <2> HIDE DEF new, step, r
  <2>4. Given(new.names, new.left)
    <3> SUFFICES ASSUME NEW q \in tips \ new.left, refs[q].commit \in young
                 PROVE  Has(new.names, refs[q].commit)
                        /\ (FromTag(q) => Tagged(new.names, refs[q].commit))
      OBVIOUS
    <3>1. CASE q = r
      BY <2>1, <3>1 DEF TipGood
    <3>2. CASE q # r
      <4>1. q \in tips \ x.left /\ refs[q].commit \in Known
        BY <2>3, <3>2, TipFacts
      <4>2. Has(x.names, refs[q].commit) /\ (FromTag(q) => Tagged(x.names, refs[q].commit))
        BY <4>1
      <4> QED
        BY <2>1, <4>1, <4>2 DEF TipGood, Kept
    <3> QED
      BY <3>1, <3>2
  <2>5. new \in G
    BY <2>1, <2>4 DEF TipGood
  <2> QED
    BY <2>1, <2>2, <2>3, <2>5
<1>9. take[begin] \in R
  <2>1. \A x \in G : (x \in Stop <=> Over(x))
    OBVIOUS
  <2>2. IsFiniteSet(tips)
    BY DEF RefsFit
  <2>3. \A x \in G : left[x] \subseteq tips
    OBVIOUS
  <2> HIDE DEF G, Stop, step, left, Over, R
  <2>4. Ends(tips, G, Stop, step, take, R, left)
    BY <1>7, <1>8, <2>1, <2>3 DEF Ends
  <2>5. \A x \in G : take[x] \in R
    BY <2>2, <2>4, LoopEnds
  <2> QED
    BY <1>6, <2>5
<1> QED
  BY <1>1, <1>9 DEF young

\* name_revs names what some tip leads to, from a tag where a tag does.
LEMMA NamesAreExact ==
    ASSUME GraphFits, RefsFit, NEW targets \in SUBSET Known, NEW all \in BOOLEAN,
           NEW a, a.targets = targets, a.all = all, a.names = NameRevs(targets, all)
    PROVE  NamesExact(a)
<1> DEFINE young == Young(targets, all)
<1>1. PICK names : /\ AllNamed(names, young)
                   /\ a.names = [c \in {x \in Known : names[x] # NoName} |-> names[c]]
  <2>1. \E names : /\ AllNamed(names, young)
                   /\ NameRevs(targets, all) = [c \in {x \in Known : names[x] # NoName} |-> names[c]]
    BY NameRevsIs
  <2> QED
    BY <2>1
<1>2. young \in SUBSET Known
  BY DEF Young
<1> DEFINE From(t) == {r \in DOMAIN refs : Reaching(r, t, young)}
<1>3. NamesExact(a) <=>
        \A t \in targets :
            /\ t \in DOMAIN a.names <=> From(t) # {}
            /\ t \in DOMAIN a.names =>
                  /\ Follow(a.names[t]) = t
                  /\ (\E r \in From(t) : FromTag(r)) => FromTag(a.names[t].tip)
  BY DEF NamesExact, Reaching, Within
<1> HIDE DEF young
<1>4. names \in NameMaps /\ Sound(names, young) /\ Spreads(names, <<>>, young)
      /\ \A r \in DOMAIN refs : refs[r].commit \in young =>
            Has(names, refs[r].commit) /\ (FromTag(r) => Tagged(names, refs[r].commit))
  BY <1>1 DEF AllNamed
<1>5. Graded(Known, Within(young), Id) /\ \A c \in Known : Within(young)[c] = Edges[c] \cap young
  BY <1>2, WithinFacts
\* What is named passes it on; so do those that are named from a tag.
<1>6. \A x \in Known : Has(names, x) =>
         \A p \in Within(young)[x] : Has(names, p) /\ (Tagged(names, x) => Tagged(names, p))
  <2>1. \A x : ~Queued(<<>>, x)
    BY DEF Queued
  <2> QED
    BY <1>4, <1>5, <2>1 DEF Spreads
<1>7. ASSUME NEW r \in DOMAIN refs, NEW t \in Known, Reaching(r, t, young)
      PROVE  Has(names, t) /\ (FromTag(r) => Tagged(names, t))
  <2> DEFINE c == refs[r].commit
             Named == {x \in Known : Has(names, x)}
             FromTags == {x \in Known : Tagged(names, x)}
  <2>1. c \in Known /\ c \in young /\ t \in Reach(Within(young), c)
    BY <1>7, TipFacts DEF Reaching
  <2>2. Has(names, c) /\ (FromTag(r) => Tagged(names, c))
    BY <1>4, <2>1
  <2> HIDE DEF c
  <2>3. Within(young) \in [Known -> SUBSET Known]
    BY <1>5 DEF Graded
  <2>4. Reach(Within(young), c) \subseteq Named
    <3>1. c \in Named /\ \A p \in Known : p \in Named => Within(young)[p] \subseteq Named
      BY <1>6, <2>1, <2>2, <2>3
    <3> HIDE DEF Named
    <3> QED
      BY <1>5, <2>1, <3>1, ReachIs
  <2>5. FromTag(r) => Reach(Within(young), c) \subseteq FromTags
    <3> SUFFICES ASSUME FromTag(r) PROVE Reach(Within(young), c) \subseteq FromTags
      OBVIOUS
    <3>1. c \in FromTags /\ \A p \in Known : p \in FromTags => Within(young)[p] \subseteq FromTags
      BY <1>6, <2>1, <2>2, <2>3 DEF Tagged, Has
    <3> HIDE DEF FromTags
    <3> QED
      BY <1>5, <2>1, <3>1, ReachIs
  <2> QED
    BY <2>1, <2>4, <2>5
<1>8. ASSUME NEW t \in Known, Has(names, t)
      PROVE  names[t].tip \in DOMAIN refs /\ Follow(names[t]) = t /\ Reaching(names[t].tip, t, young)
  <2>1. names[t] \in AName
    BY <1>4, <1>8 DEF NameMaps, NameOrNone, Has
  <2> QED
    BY <1>4, <1>8, <2>1 DEF Sound, AName
<1>9. \A t \in Known : t \in DOMAIN a.names <=> Has(names, t)
  BY <1>1 DEF Has
<1>10. \A t \in DOMAIN a.names : a.names[t] = names[t]
  BY <1>1
<1> SUFFICES ASSUME NEW t \in targets
             PROVE  /\ t \in DOMAIN a.names <=> From(t) # {}
                    /\ t \in DOMAIN a.names =>
                          /\ Follow(a.names[t]) = t
                          /\ (\E r \in From(t) : FromTag(r)) => FromTag(a.names[t].tip)
  BY <1>3
<1>11. t \in DOMAIN a.names <=> From(t) # {}
  BY <1>7, <1>8, <1>9
<1>12. t \in DOMAIN a.names => Follow(a.names[t]) = t
  BY <1>8, <1>9, <1>10
<1>13. ASSUME t \in DOMAIN a.names, NEW r \in From(t), FromTag(r)
       PROVE  FromTag(a.names[t].tip)
  BY <1>7, <1>10, <1>13 DEF Tagged
<1> QED
  BY <1>11, <1>12, <1>13


-------------------------------------------------------------------------------
(* describe. *)

LEMMA MinIn ==
    ASSUME NEW T \in SUBSET Nat, T # {}
    PROVE  Min(T) \in T
<1>1. \E o \in T : \A p \in T : o =< p
  BY Least
<1> QED
  BY <1>1 DEF Min

LEMMA PriorityIs ==
    ASSUME GraphFits, RefsFit, NEW r \in DOMAIN refs
    PROVE  /\ Priority(r) \in 0 .. 2 /\ (Priority(r) = 2 <=> Annotated(r))
           /\ FromTag(r) <=> Priority(r) > 0
<1>1. refs[r].kind \in Kinds
  BY DEF RefsFit, ARef
<1> QED
  BY <1>1 DEF Priority, Annotated, FromTag, Kinds

Admitted(admit) == {r \in DOMAIN refs : admit = "all" \/ FromTag(r)}

Bests == UNION {[cs -> Ref] : cs \in SUBSET Known}

\* The best of the tips: one of each commit, none of them with a greater priority.
BestNames(best, tips) ==
    /\ best \in Bests /\ DOMAIN best \subseteq Known
    /\ \A c \in DOMAIN best : best[c] \in tips /\ refs[best[c]].commit = c
    /\ \A r \in tips : /\ refs[r].commit \in DOMAIN best
                       /\ Priority(r) <= Priority(best[refs[r].commit])

LEMMA TakeNameIs ==
    ASSUME GraphFits, RefsFit, NEW best \in Bests, NEW r \in DOMAIN refs
    PROVE  /\ TakeName(best, r) \in Bests
           /\ \A tips \in SUBSET DOMAIN refs : BestNames(best, tips) =>
                 BestNames(TakeName(best, r), tips \cup {r})
<1> DEFINE c == refs[r].commit
           new == TakeName(best, r)
<1>1. c \in Known /\ r \in Ref
  BY TipFacts DEF RefsFit
<1>2. PICK cs \in SUBSET Known : best \in [cs -> Ref]
  BY DEF Bests
<1>3. CASE c \notin DOMAIN best \/ Replaces(r, best[c])
  <2>1. new = [x \in DOMAIN best \cup {c} |-> IF x = c THEN r ELSE best[x]]
    BY <1>3 DEF TakeName
  <2> HIDE DEF new
  <2>2. DOMAIN new = cs \cup {c} /\ new[c] = r /\ \A x \in cs : x # c => new[x] = best[x]
    BY <1>2, <2>1
  <2>3. new \in [cs \cup {c} -> Ref] /\ cs \cup {c} \in SUBSET Known
    BY <1>1, <1>2, <2>1
  <2>4. new \in Bests
    BY <2>3 DEF Bests
  <2>5. ASSUME NEW tips \in SUBSET DOMAIN refs, BestNames(best, tips)
        PROVE  BestNames(new, tips \cup {r})
    <3>1. \A x \in cs : best[x] \in tips /\ refs[best[x]].commit = x
      BY <1>2, <2>5 DEF BestNames
    <3>2. \A x \in DOMAIN new : new[x] \in tips \cup {r} /\ refs[new[x]].commit = x
      BY <2>2, <3>1
    <3>3. ASSUME NEW q \in tips \cup {r}
          PROVE  refs[q].commit \in DOMAIN new /\ Priority(q) <= Priority(new[refs[q].commit])
      <4>1. q \in tips => refs[q].commit \in cs /\ Priority(q) <= Priority(best[refs[q].commit])
        BY <1>2, <2>5 DEF BestNames
      <4>2. Priority(q) \in 0 .. 2 /\ Priority(r) \in 0 .. 2
        BY PriorityIs
      <4>3. CASE q = r
        BY <2>2, <4>2, <4>3
      <4>4. CASE q # r /\ refs[q].commit # c
        BY <2>2, <4>1, <4>4
      <4>5. CASE q # r /\ refs[q].commit = c
        <5>1. c \in cs /\ Priority(q) <= Priority(best[c]) /\ best[c] \in DOMAIN refs
          BY <3>1, <4>1, <4>5
        <5>2. Replaces(r, best[c])
          BY <1>2, <1>3, <5>1
        <5>3. Priority(best[c]) \in 0 .. 2
              /\ (Annotated(r) => Priority(r) = 2)
          BY <5>1, PriorityIs
        <5>4. Priority(best[c]) <= Priority(r)
          BY <4>2, <5>2, <5>3 DEF Replaces
        <5> QED
          BY <2>2, <4>2, <4>5, <5>1, <5>3, <5>4
      <4> QED
        BY <4>3, <4>4, <4>5
    <3> QED
      BY <2>2, <2>3, <2>4, <3>2, <3>3 DEF BestNames
  <2> QED
    BY <2>4, <2>5 DEF new
<1>4. CASE ~(c \notin DOMAIN best \/ Replaces(r, best[c]))
  <2>1. new = best
    BY <1>4 DEF TakeName
  <2> HIDE DEF new
  <2>2. ASSUME NEW tips \in SUBSET DOMAIN refs, BestNames(best, tips)
        PROVE  BestNames(best, tips \cup {r})
    <3>1. c \in DOMAIN best /\ ~Replaces(r, best[c]) /\ best[c] \in DOMAIN refs
      BY <1>4, <2>2 DEF BestNames
    <3>2. Priority(best[c]) \in 0 .. 2 /\ Priority(r) \in 0 .. 2
      BY <3>1, PriorityIs
    <3>3. Priority(r) <= Priority(best[c])
      BY <3>1, <3>2 DEF Replaces
    <3> QED
      BY <2>2, <3>1, <3>3 DEF BestNames
  <2> QED
    BY <2>1, <2>2 DEF new
<1> QED
  BY <1>3, <1>4

LEMMA DescribeNamesIs ==
    ASSUME GraphFits, RefsFit, NEW admit
    PROVE  BestNames(DescribeNames(admit), Admitted(admit))
<1> DEFINE tips == Admitted(admit)
           S == [best : Bests, left : SUBSET DOMAIN refs]
           Over(x) == x.left = {}
           Stop == {x \in S : Over(x)}
           Next0(x) == [best |-> TakeName(x.best, Min(x.left)), left |-> x.left \ {Min(x.left)}]
           step == [x \in S |-> Next0(x)]
           out == [x \in S |-> x.best]
           take == CHOOSE f : f =
               [at \in [best : UNION {[cs -> Ref] : cs \in SUBSET Known}, left : SUBSET DOMAIN refs] |->
                  IF at.left = {} THEN at.best
                  ELSE LET r == Min(at.left)
                       IN  f[[best |-> TakeName(at.best, r), left |-> at.left \ {r}]]]
           begin == [best |-> [c \in {} |-> c], left |-> tips]
<1>1. DescribeNames(admit) = take[begin]
  BY DEF DescribeNames, Admitted
<1>2. tips \subseteq DOMAIN refs /\ IsFiniteSet(tips)
  <2>1. tips \in SUBSET DOMAIN refs
    BY DEF Admitted
  <2> QED
    BY <2>1, FS_Subset DEF RefsFit
<1> HIDE DEF tips
<1>4. ASSUME NEW x \in S, ~Over(x)
      PROVE  Min(x.left) \in x.left /\ Next0(x) \in S
  <2> DEFINE r == Min(x.left)
  <2>1. x.best \in Bests /\ x.left \in SUBSET DOMAIN refs
    OBVIOUS
  <2>2. DOMAIN refs \subseteq Nat
    BY TipFacts
  <2>3. r \in x.left
    BY <1>4, <2>1, <2>2, MinIn
  <2> HIDE DEF r
  <2>4. TakeName(x.best, r) \in Bests
    BY <2>1, <2>3, TakeNameIs
  <2>5. [best |-> TakeName(x.best, r), left |-> x.left \ {r}] \in S
    BY <2>1, <2>4
  <2> QED
    BY <2>3, <2>5 DEF r
<1>5. take = [x \in S |-> IF Over(x) THEN x.best ELSE take[Next0(x)]]
  <2>1. \A x \in S \ Stop : step[x] \in S
    <3> SUFFICES ASSUME NEW x \in S, ~Over(x) PROVE step[x] \in S
      OBVIOUS
    <3>1. step[x] = Next0(x)
      OBVIOUS
    <3> QED
      BY <1>4, <3>1
  <2>2. \E f : Loops(S, Stop, out, step, f)
    <3> HIDE DEF S, Stop, step, out
    <3> QED
      BY <2>1, LoopExists
  <2>3. PICK f : f = [x \in S |-> IF x \in Stop THEN out[x] ELSE f[step[x]]]
    BY <2>2 DEF Loops
  <2>4. ASSUME NEW x \in S PROVE f[x] = IF Over(x) THEN x.best ELSE f[Next0(x)]
    <3>1. x \in Stop <=> Over(x)
      OBVIOUS
    <3>2. out[x] = x.best /\ step[x] = Next0(x)
      OBVIOUS
    <3> HIDE DEF S, Stop, step, out, Over, Next0
    <3> QED
      BY <2>3, <3>1, <3>2
  <2>5. f = [x \in S |-> IF Over(x) THEN x.best ELSE f[Next0(x)]]
    <3>1. f = [x \in S |-> f[x]]
      BY <2>3
    <3> HIDE DEF S, Over, Next0
    <3> QED
      BY <2>4, <3>1
  <2>6. \E g : g = [x \in S |-> IF Over(x) THEN x.best ELSE g[Next0(x)]]
    BY <2>5
  <2> QED
    BY <2>6 DEF Bests
<1> HIDE DEF take
<1> DEFINE G == {x \in S : x.left \subseteq tips /\ BestNames(x.best, tips \ x.left)}
           R == {best \in Bests : BestNames(best, tips)}
           left == [x \in G |-> x.left]
<1>6. begin \in G
  <2>1. begin.left = tips /\ DOMAIN begin.best = {}
    OBVIOUS
  <2>2. begin.best \in [{} -> Ref] /\ {} \in SUBSET Known
    OBVIOUS
  <2>3. begin.best \in Bests
    <3> HIDE DEF begin
    <3> QED
      BY <2>2 DEF Bests
  <2>4. begin \in S
    BY <1>2, <2>3
  <2> HIDE DEF begin
  <2>5. tips \ begin.left = {} /\ DOMAIN begin.best \subseteq Known
    BY <2>1
  <2>6. BestNames(begin.best, tips \ begin.left)
    BY <2>1, <2>3, <2>5 DEF BestNames
  <2> QED
    BY <2>1, <2>4, <2>6
<1>7. ASSUME NEW x \in G, Over(x) PROVE take[x] \in R
  <2>1. take[x] = x.best /\ x.best \in Bests
    BY <1>5, <1>7
  <2>2. tips \ x.left = tips
    BY <1>7
  <2> QED
    BY <1>7, <2>1, <2>2
<1>8. ASSUME NEW x \in G, ~Over(x)
      PROVE  /\ step[x] \in G /\ take[x] = take[step[x]]
             /\ left[step[x]] \subseteq left[x] /\ left[step[x]] # left[x]
  <2> DEFINE r == Min(x.left)
             new == Next0(x)
  <2>1. x \in S /\ r \in x.left /\ new \in S /\ x.left \subseteq tips /\ x.best \in Bests
    BY <1>4, <1>8
  <2>2. step[x] = new /\ take[x] = take[new]
    BY <1>5, <1>8, <2>1
  <2>3. new.left = x.left \ {r} /\ new.best = TakeName(x.best, r)
    OBVIOUS
  <2>4. BestNames(x.best, tips \ x.left)
    BY <1>8
  <2> HIDE DEF new, step, r
  <2>5. tips \ new.left = (tips \ x.left) \cup {r} /\ r \in DOMAIN refs
        /\ tips \ x.left \in SUBSET DOMAIN refs
    BY <1>2, <2>1, <2>3
  <2>6. BestNames(new.best, tips \ new.left)
    BY <2>1, <2>3, <2>4, <2>5, TakeNameIs
  <2>7. new \in G
    BY <2>1, <2>3, <2>6
  <2> QED
    BY <2>1, <2>2, <2>3, <2>7
<1>9. take[begin] \in R
  <2>1. \A x \in G : (x \in Stop <=> Over(x))
    OBVIOUS
  <2>3. \A x \in G : left[x] \subseteq tips
    OBVIOUS
  <2> HIDE DEF G, Stop, step, left, Over, R
  <2>4. Ends(tips, G, Stop, step, take, R, left)
    BY <1>7, <1>8, <2>1, <2>3 DEF Ends
  <2>5. \A x \in G : take[x] \in R
    BY <1>2, <2>4, LoopEnds
  <2> QED
    BY <1>6, <2>5
<1> QED
  BY <1>1, <1>9 DEF tips


\* What describe may answer.
Fitting(admit) ==
    {r \in DOMAIN refs : \/ admit = "all"
                         \/ admit = "tags" /\ FromTag(r)
                         \/ Annotated(r)}

NamedBy(admit) == {c \in DOMAIN DescribeNames(admit) : Eligible(DescribeNames(admit)[c], admit)}

LEMMA NamedIs ==
    ASSUME GraphFits, RefsFit, NEW admit \in {"annotated", "tags", "all"}
    PROVE  /\ NamedBy(admit) \subseteq Known
           /\ \A c \in NamedBy(admit) : /\ DescribeNames(admit)[c] \in Fitting(admit)
                                        /\ refs[DescribeNames(admit)[c]].commit = c
           /\ \A r \in Fitting(admit) : refs[r].commit \in NamedBy(admit)
<1> DEFINE best == DescribeNames(admit)
<1>1. BestNames(best, Admitted(admit)) /\ NamedBy(admit) = {c \in DOMAIN best : Eligible(best[c], admit)}
  BY DescribeNamesIs DEF NamedBy
<1> HIDE DEF best
<1>2. \A c \in DOMAIN best : best[c] \in DOMAIN refs /\ best[c] \in Admitted(admit)
                             /\ refs[best[c]].commit = c
  BY <1>1 DEF BestNames, Admitted
<1>3. ASSUME NEW c \in NamedBy(admit)
      PROVE  best[c] \in Fitting(admit) /\ refs[best[c]].commit = c
  <2>1. c \in DOMAIN best /\ (admit # "annotated" \/ Annotated(best[c]))
    BY <1>1 DEF Eligible
  <2>2. admit = "all" \/ FromTag(best[c])
    BY <1>2, <2>1 DEF Admitted
  <2> QED
    BY <1>2, <2>1, <2>2 DEF Fitting
<1>4. ASSUME NEW r \in Fitting(admit) PROVE refs[r].commit \in NamedBy(admit)
  <2> DEFINE c == refs[r].commit
  <2>1. r \in DOMAIN refs /\ (admit = "all" \/ (admit = "tags" /\ FromTag(r)) \/ Annotated(r))
    BY DEF Fitting
  <2>2. /\ Priority(r) \in 0 .. 2 /\ (Priority(r) = 2 <=> Annotated(r))
        /\ FromTag(r) <=> Priority(r) > 0
    BY <2>1, PriorityIs
  <2>3. r \in Admitted(admit)
    BY <2>1, <2>2 DEF Admitted
  <2>4. c \in DOMAIN best /\ Priority(r) <= Priority(best[c])
    BY <1>1, <2>3 DEF BestNames
  <2>5. Priority(best[c]) \in 0 .. 2 /\ (Priority(best[c]) = 2 <=> Annotated(best[c]))
    BY <1>2, <2>4, PriorityIs
  <2>6. Annotated(r) => Annotated(best[c])
    BY <2>2, <2>4, <2>5
  <2> HIDE DEF c
  <2>7. Eligible(best[c], admit)
    BY <2>1, <2>6 DEF Eligible
  <2>8. c \in NamedBy(admit)
    BY <1>1, <2>4, <2>7
  <2> QED
    BY <2>8 DEF c
<1>5. NamedBy(admit) \subseteq Known
  BY <1>1 DEF BestNames
<1> QED
  BY <1>3, <1>4, <1>5 DEF best

\* All that one commit leads to, as it is walked.
LEMMA WalkFrom ==
    ASSUME GraphFits, NEW c \in Known, NEW first \in BOOLEAN
    PROVE  Ordered(Walk({c}, {}, first, NoLimit), Reach(Along(first), c), first)
<1> DEFINE asked == ReachAll(Along(first), {c}) \ ReachAll(Along(first), {})
           order == TopoOrder(asked, first)
<1>1. asked = Reach(Along(first), c)
  BY DEF ReachAll
<1>2. asked \subseteq Known
  <2>1. {c} \in SUBSET Known /\ {} \in SUBSET Known
    OBVIOUS
  <2> QED
    BY <2>1, AskedConvex
<1>3. NoLimit \in Nat
  BY RevisionsAssumption, FS_CardinalityType DEF NoLimit
<1>4. Walk({c}, {}, first, NoLimit) = UpTo(order, NoLimit) /\ Ordered(order, asked, first)
  <2>1. {c} \in SUBSET Known /\ {} \in SUBSET Known
    OBVIOUS
  <2> QED
    BY <1>3, <2>1, WalkOrder
<1> HIDE DEF asked, order
<1>5. Len(order) <= NoLimit
  <2>1. ToSet(order) = asked
    BY <1>4, OrderedAll
  <2>2. order \in Seq(asked) /\ \A i, j \in 1 .. Len(order) : order[i] = order[j] => i = j
    BY <1>4 DEF Ordered
  <2>3. Len(order) = Cardinality(asked)
    BY <2>1, <2>2, DistinctLength
  <2>4. asked \in SUBSET Commit
    BY <1>2 DEF GraphFits
  <2>5. Cardinality(asked) <= Cardinality(Commit)
    BY <2>4, RevisionsAssumption, FS_Subset
  <2> QED
    BY <2>3, <2>5 DEF NoLimit
<1>6. UpTo(order, NoLimit) = order
  <2>1. Len(order) \in Nat
    BY <1>4 DEF Ordered
  <2> QED
    BY <1>3, <1>5, <2>1 DEF UpTo
<1> QED
  BY <1>1, <1>4, <1>6


Tried(target, admit, first, candidates) ==
    UpTo(Among(Walk({target}, {}, first, NoLimit), NamedBy(admit)), candidates)

\* All commits behind the target that may be named.
CandidatesOf(tried, admit, first, target) ==
    /\ tried \in Seq(Known)
    /\ \A c : (\E i \in 1 .. Len(tried) : tried[i] = c)
                 <=> c \in NamedBy(admit) \cap Reach(Along(first), target)

\* No commit that describe may name is left out of its candidates when there may be as many
\* as there are references.
LEMMA CandidatesAre ==
    ASSUME GraphFits, RefsFit, NEW admit \in {"annotated", "tags", "all"}, NEW target \in Known,
           NEW first \in BOOLEAN, NEW candidates \in Nat, candidates >= Cardinality(DOMAIN refs)
    PROVE  CandidatesOf(Tried(target, admit, first, candidates), admit, first, target)
<1> DEFINE walk == Walk({target}, {}, first, NoLimit)
           named == NamedBy(admit)
           behind == Reach(Along(first), target)
           found == Among(walk, named)
           best == DescribeNames(admit)
<1>1. /\ named \subseteq Known
      /\ \A c \in named : best[c] \in Fitting(admit) /\ refs[best[c]].commit = c
  BY NamedIs
<1>2. Ordered(walk, behind, first)
  BY WalkFrom
<1>3. behind \subseteq Known
  <2>1. Graded(Known, Along(first), Id)
    BY AlongFacts
  <2> QED
    BY <2>1, ReachIs
<1> HIDE DEF walk, named, behind, best
<1>4. walk \in Seq(behind) /\ (\A i, j \in 1 .. Len(walk) : walk[i] = walk[j] => i = j)
      /\ (\A c \in behind : \E i \in 1 .. Len(walk) : walk[i] = c)
  BY <1>2 DEF Ordered
<1>5. found \in Seq(behind) /\ Picked(found, Len(walk), walk, named)
  BY <1>4, AmongIs
<1> HIDE DEF found
<1>6. Len(walk) \in Nat /\ (\A p \in 1 .. Len(walk) : walk[p] \in behind)
  BY <1>4
<1>7. Len(found) \in Nat /\ \A i \in 1 .. Len(found) : found[i] \in behind
  BY <1>5
<1>8. \A c : (\E i \in 1 .. Len(found) : found[i] = c) <=> c \in named \cap behind
  <2>1. \A i \in 1 .. Len(found) : found[i] \in named
    BY <1>5 DEF Picked
  <2>2. ASSUME NEW c \in named \cap behind PROVE \E i \in 1 .. Len(found) : found[i] = c
    <3>1. PICK p \in 1 .. Len(walk) : walk[p] = c
      BY <1>4
    <3> QED
      BY <1>5, <3>1 DEF Picked
  <2> QED
    BY <1>7, <2>1, <2>2
<1>9. ASSUME NEW i \in 1 .. Len(found), NEW j \in 1 .. Len(found), found[i] = found[j]
      PROVE  i = j
  <2>1. ASSUME NEW u \in 1 .. Len(found), NEW v \in 1 .. Len(found), u < v PROVE found[u] # found[v]
    <3>1. PICK p \in 1 .. Len(walk), q \in 1 .. Len(walk) :
             p < q /\ walk[p] = found[u] /\ walk[q] = found[v]
      BY <1>5, <2>1 DEF Picked
    <3> QED
      BY <1>4, <1>6, <3>1
  <2>2. i \in Nat /\ j \in Nat
    BY <1>7
  <2> QED
    BY <1>9, <2>1, <2>2
<1>10. Len(found) <= Cardinality(DOMAIN refs)
  <2> DEFINE f == [c \in ToSet(found) |-> best[c]]
  <2>1. \A c \in ToSet(found) : c \in named
    BY <1>5, <1>8, Elements
  <2>2. \A c \in ToSet(found) : best[c] \in DOMAIN refs /\ refs[best[c]].commit = c
    BY <1>1, <2>1 DEF Fitting
  <2>3. f \in Injection(ToSet(found), DOMAIN refs)
    BY <2>2 DEF Injection, IsInjective
  <2>4. Cardinality(ToSet(found)) <= Cardinality(DOMAIN refs)
    BY <2>3, FS_Injection DEF RefsFit
  <2>5. Cardinality(ToSet(found)) = Len(found)
    BY <1>5, <1>9, DistinctLength
  <2> QED
    BY <2>4, <2>5
<1>11. UpTo(found, candidates) = found
  <2>1. Cardinality(DOMAIN refs) \in Nat
    BY FS_CardinalityType DEF RefsFit
  <2> QED
    BY <1>7, <1>10, <2>1 DEF UpTo
<1>12. found \in Seq(Known)
  BY <1>3, <1>5
<1> QED
  BY <1>8, <1>11, <1>12 DEF CandidatesOf, Tried, found, walk, named, behind

\* How many commits are behind one and not behind another.
Left(next, c, d) == Cardinality(Reach(next, c) \ Reach(next, d))

LEMMA LeftIn ==
    ASSUME GraphFits, NEW first \in BOOLEAN, NEW c \in Known, NEW d \in Known
    PROVE  /\ Left(Along(first), c, d) \in Nat /\ Left(Along(first), c, c) = 0
           /\ Left(Along(first), c, d) =
                 Cardinality(ToSet(Walk({c}, {}, first, NoLimit)) \ ToSet(Walk({d}, {}, first, NoLimit)))
<1>1. \A x \in Known : ToSet(Walk({x}, {}, first, NoLimit)) = Reach(Along(first), x)
  <2> SUFFICES ASSUME NEW x \in Known
               PROVE  ToSet(Walk({x}, {}, first, NoLimit)) = Reach(Along(first), x)
    OBVIOUS
  <2>1. Ordered(Walk({x}, {}, first, NoLimit), Reach(Along(first), x), first)
    BY WalkFrom
  <2> QED
    BY <2>1, OrderedAll
<1>2. Graded(Known, Along(first), Id)
  BY AlongFacts
<1>3. Reach(Along(first), c) \subseteq Known
  BY <1>2, ReachIs
<1>4. IsFiniteSet(Reach(Along(first), c) \ Reach(Along(first), d))
  <2>1. Reach(Along(first), c) \ Reach(Along(first), d) \in SUBSET Known
    BY <1>3
  <2> QED
    BY <2>1, GraphFacts, FS_Subset
<1>5. Left(Along(first), c, d) \in Nat
  BY <1>4, FS_CardinalityType DEF Left
<1>6. Left(Along(first), c, c) = 0
  <2>1. Reach(Along(first), c) \ Reach(Along(first), c) = {}
    OBVIOUS
  <2> QED
    BY <2>1, FS_EmptySet DEF Left
<1> QED
  BY <1>1, <1>5, <1>6 DEF Left

\* The nearest of the candidates is there: none leaves fewer commits out.
LEMMA NearestIs ==
    ASSUME GraphFits, NEW first \in BOOLEAN, NEW target \in Known,
           NEW tried \in Seq(Known), tried # <<>>, NEW best
    PROVE  \E k \in 1 .. Len(tried) :
              /\ Nearest(best, tried, Walk({target}, {}, first, NoLimit), first)
                    = [name |-> best[tried[k]], depth |-> Left(Along(first), target, tried[k])]
              /\ \A j \in 1 .. Len(tried) : Left(Along(first), target, tried[k])
                                              <= Left(Along(first), target, tried[j])
<1> DEFINE n == Len(tried)
           walk == Walk({target}, {}, first, NoLimit)
           Depth(c) == Cardinality(ToSet(walk) \ ToSet(Walk({c}, {}, first, NoLimit)))
           Before(i, j) == \/ Depth(tried[i]) < Depth(tried[j])
                           \/ Depth(tried[i]) = Depth(tried[j]) /\ i < j
           k == CHOOSE i \in DOMAIN tried : \A j \in DOMAIN tried \ {i} : Before(i, j)
           D == [i \in 1 .. n |-> Left(Along(first), target, tried[i])]
<1>1. Nearest(best, tried, walk, first) = [name |-> best[tried[k]], depth |-> Depth(tried[k])]
  BY DEF Nearest
<1>2. n \in Nat /\ n >= 1 /\ DOMAIN tried = 1 .. n /\ \A i \in 1 .. n : tried[i] \in Known
  OBVIOUS
<1>3. \A i \in 1 .. n : D[i] \in Nat /\ Depth(tried[i]) = D[i]
                        /\ D[i] = Left(Along(first), target, tried[i])
  BY <1>2, LeftIn
<1> HIDE DEF D, n, Depth
<1>4. \E i \in 1 .. n : \A j \in (1 .. n) \ {i} : Before(i, j)
  <2> DEFINE depths == {D[i] : i \in 1 .. n}
  <2>1. \E w \in depths : \A p \in depths : w <= p
    <3>1. depths \in SUBSET Nat /\ depths # {}
      BY <1>2, <1>3
    <3> HIDE DEF depths
    <3> QED
      BY <3>1, Least
  <2>2. PICK w \in 1 .. n : \A i \in 1 .. n : D[w] <= D[i]
    BY <2>1
  <2> DEFINE even == {i \in 1 .. n : D[i] = D[w]}
  <2>3. PICK i \in even : \A j \in even : i <= j
    <3>1. even \in SUBSET Nat /\ even # {}
      BY <1>2
    <3> HIDE DEF even
    <3> QED
      BY <3>1, Least
  <2>4. ASSUME NEW j \in (1 .. n) \ {i} PROVE Before(i, j)
    <3>1. D[i] <= D[j] /\ i \in Nat /\ j \in Nat /\ i # j /\ D[i] \in Nat /\ D[j] \in Nat
      BY <1>2, <1>3, <2>2, <2>3
    <3>2. D[i] = D[j] => i <= j
      BY <2>3
    <3> QED
      BY <1>3, <3>1, <3>2
  <2> QED
    BY <2>3, <2>4
<1>5. k \in 1 .. n /\ \A j \in (1 .. n) \ {k} : Before(k, j)
  <2> HIDE DEF Before
  <2> QED
    BY <1>2, <1>4
<1> HIDE DEF k
<1>6. \A j \in 1 .. n : D[k] <= D[j]
  BY <1>3, <1>5
<1> QED
  BY <1>1, <1>3, <1>5, <1>6 DEF n


\* describe names what is there to be named, and nothing that is further.
LEMMA DescribesExactly ==
    ASSUME GraphFits, RefsFit, NEW admit \in {"annotated", "tags", "all"}, NEW target \in Known,
           NEW first \in BOOLEAN, NEW candidates \in Nat, candidates >= Cardinality(DOMAIN refs),
           NEW a, a.target = target, a.admit = admit, a.first = first,
           a.result = Describe(target, admit, first, candidates)
    PROVE  DescribeExact(a)
<1> DEFINE next == Along(first)
           behind == Reach(next, target)
           fit == {r \in Fitting(admit) : refs[r].commit \in behind}
           best == DescribeNames(admit)
           named == NamedBy(admit)
           walk == Walk({target}, {}, first, NoLimit)
           tried == UpTo(Among(walk, named), candidates)
<1>1. DescribeExact(a) <=>
        IF fit = {} THEN a.result.depth = NoLimit
        ELSE /\ "name" \in DOMAIN a.result /\ a.result.name \in fit
             /\ a.result.depth = Left(next, target, refs[a.result.name].commit)
             /\ \A r \in fit : a.result.depth <= Left(next, target, refs[r].commit)
  <2>1. next = (IF a.first THEN Firsts ELSE Here)
    BY DEF Along
  <2> HIDE DEF next
  <2>2. fit = {r \in DOMAIN refs : refs[r].commit \in behind
                    /\ \/ a.admit = "all"
                       \/ a.admit = "tags" /\ FromTag(r)
                       \/ Annotated(r)}
    BY DEF Fitting
  <2> HIDE DEF fit
  <2> QED
    BY <2>1, <2>2 DEF DescribeExact, Left
<1>2. a.result = IF target \in named THEN [name |-> best[target], depth |-> 0]
                 ELSE Nearest(best, tried, walk, first)
  BY DEF Describe, NamedBy
<1>3. /\ named \subseteq Known
      /\ \A c \in named : best[c] \in Fitting(admit) /\ refs[best[c]].commit = c
      /\ \A r \in Fitting(admit) : refs[r].commit \in named
  BY NamedIs
<1>4. tried \in Seq(Known)
      /\ \A c : (\E i \in 1 .. Len(tried) : tried[i] = c) <=> c \in named \cap behind
  <2>1. CandidatesOf(Tried(target, admit, first, candidates), admit, first, target)
    BY CandidatesAre
  <2> QED
    BY <2>1 DEF CandidatesOf, Tried
<1>5. target \in behind
  <2>1. Graded(Known, next, Id)
    BY AlongFacts
  <2> QED
    BY <2>1, ReachIs
<1>6. \A c \in Known : Left(next, target, c) \in Nat /\ Left(next, target, target) = 0
  BY LeftIn
<1>7. tried # <<>> =>
        \E k \in 1 .. Len(tried) :
           /\ Nearest(best, tried, walk, first)
                 = [name |-> best[tried[k]], depth |-> Left(next, target, tried[k])]
           /\ \A j \in 1 .. Len(tried) : Left(next, target, tried[k]) <= Left(next, target, tried[j])
  <2> HIDE DEF best, named, tried
  <2>1. tried \in Seq(Known)
    BY <1>4
  <2> QED
    BY <2>1, NearestIs
<1>8. tried = <<>> => Nearest(best, tried, walk, first) = [depth |-> NoLimit]
  BY DEF Nearest
<1>9. \A r \in fit : refs[r].commit \in named \cap behind
  BY <1>3
<1> DEFINE result == a.result
<1> HIDE DEF next, behind, best, named, walk, tried
<1>10. CASE target \in named
  <2>1. result = [name |-> best[target], depth |-> 0]
    BY <1>2, <1>10
  <2> HIDE DEF result
  <2>2. "name" \in DOMAIN result /\ result.name = best[target] /\ result.depth = 0
    BY <2>1
  <2>3. best[target] \in fit /\ refs[best[target]].commit = target
    BY <1>3, <1>5, <1>10
  <2>4. \A r \in fit : Left(next, target, refs[r].commit) \in Nat
    BY <1>3, <1>6, <1>9
  <2> HIDE DEF fit
  <2>5. \A r \in fit : 0 <= Left(next, target, refs[r].commit)
    BY <2>4
  <2> QED
    BY <1>1, <1>6, <2>2, <2>3, <2>5 DEF result
<1>11. CASE target \notin named /\ tried = <<>>
  <2>1. result.depth = NoLimit
    BY <1>2, <1>8, <1>11
  <2>2. named \cap behind = {}
    BY <1>4, <1>11
  <2>3. fit = {}
    BY <1>9, <2>2
  <2> HIDE DEF fit
  <2> QED
    BY <1>1, <2>1, <2>3 DEF result
<1>12. CASE target \notin named /\ tried # <<>>
  <2>1. PICK k \in 1 .. Len(tried) :
           /\ Nearest(best, tried, walk, first)
                 = [name |-> best[tried[k]], depth |-> Left(next, target, tried[k])]
           /\ \A j \in 1 .. Len(tried) : Left(next, target, tried[k]) <= Left(next, target, tried[j])
    BY <1>7, <1>12
  <2>2. result = [name |-> best[tried[k]], depth |-> Left(next, target, tried[k])]
    BY <1>2, <1>12, <2>1
  <2> HIDE DEF result
  <2>3. /\ "name" \in DOMAIN result /\ result.name = best[tried[k]]
        /\ result.depth = Left(next, target, tried[k])
    BY <2>2
  <2>4. tried[k] \in named \cap behind
    BY <1>4
  <2>5. best[tried[k]] \in fit /\ refs[best[tried[k]]].commit = tried[k]
    BY <1>3, <2>4
  <2>6. ASSUME NEW r \in fit PROVE result.depth <= Left(next, target, refs[r].commit)
    <3>1. PICK j \in 1 .. Len(tried) : tried[j] = refs[r].commit
      BY <1>4, <1>9
    <3> QED
      BY <2>1, <2>3, <3>1
  <2> HIDE DEF fit
  <2> QED
    BY <1>1, <2>3, <2>5, <2>6 DEF result
<1> QED
  BY <1>10, <1>11, <1>12

-------------------------------------------------------------------------------
(* The references fit, and the answers stay true. *)

LEMMA RefsInit == HistoryInit => RefsFit
<1> SUFFICES ASSUME HistoryInit PROVE RefsFit
  OBVIOUS
<1>1. DOMAIN refs = {} /\ refs = [r \in {} |-> 0]
  BY DEF HistoryInit
<1>2. refs \in [DOMAIN refs -> ARef]
  BY <1>1
<1> QED
  BY <1>1, <1>2, FS_EmptySet DEF RefsFit

LEMMA RefsStay == RefsFit /\ [HistoryNext]_<<graph, refs, answer>> => RefsFit'
<1> SUFFICES ASSUME RefsFit, [HistoryNext]_<<graph, refs, answer>> PROVE RefsFit'
  OBVIOUS
<1>1. ASSUME refs' = refs, Known \subseteq Known' PROVE RefsFit'
  BY <1>1 DEF RefsFit
<1>2. UNCHANGED graph => Known' = Known
  BY DEF graph, Known
<1>3. CASE UNCHANGED <<graph, refs, answer>>
  BY <1>1, <1>2, <1>3
<1>4. CASE (Question \/ Answered) /\ UNCHANGED <<graph, refs>>
  BY <1>1, <1>2, <1>4
<1>5. CASE answer = NoAnswer /\ Alter /\ UNCHANGED answer
  <2>1. ASSUME NEW c \in Commit, NEW ps \in Seq(Known), NEW d \in Date, WriteCommit(c, ps, d)
        PROVE  Known \subseteq Known'
    BY <2>1 DEF WriteCommit, Known
  <2>2. ASSUME parents' = parents PROVE Known \subseteq Known'
    BY <2>2 DEF Known
  <2>3. ASSUME NEW r \in Ref, NEW tip \in ARef, SetReference(r, tip) PROVE RefsFit'
    <3>1. /\ tip.commit \in Known /\ UNCHANGED graph
          /\ refs' = [x \in DOMAIN refs \cup {r} |-> IF x = r THEN tip ELSE refs[x]]
      BY <2>3 DEF SetReference
    <3>2. Known' = Known /\ DOMAIN refs' = DOMAIN refs \cup {r} /\ refs'[r] = tip
          /\ \A x \in DOMAIN refs \ {r} : refs'[x] = refs[x]
      BY <1>2, <3>1
    <3>3. \A x \in DOMAIN refs' : refs'[x] \in ARef /\ refs'[x].commit \in Known
      BY <3>1, <3>2 DEF RefsFit
    <3>4. IsFiniteSet(DOMAIN refs') /\ DOMAIN refs' \subseteq Ref
      BY <3>2, FS_AddElement DEF RefsFit
    <3>5. refs' \in [DOMAIN refs' -> ARef]
      BY <3>1, <3>2, <3>3
    <3> QED
      BY <3>2, <3>3, <3>4, <3>5 DEF RefsFit
  <2>4. CASE refs' = refs
    <3>1. Known \subseteq Known' \/ \E r \in Ref, tip \in ARef : SetReference(r, tip)
      BY <1>5, <2>1, <2>2 DEF Alter, CreateReplacement, DeleteReplacement, WriteShallow,
         WriteCommitGraph
    <3> QED
      BY <1>1, <2>3, <2>4, <3>1
  <2> QED
    BY <1>5, <2>3, <2>4 DEF Alter
<1> QED
  BY <1>3, <1>4, <1>5 DEF HistoryNext

\* NamesTrue, of some answer.
NameTrue(a) ==
    /\ a.op = "names" => NamesExact(a)
    /\ a.op = "describe" /\ a.candidates >= Cardinality(DOMAIN refs) => DescribeExact(a)

LEMMA NamesTrueIs == NamesTrue <=> NameTrue(answer)
BY DEF NamesTrue, NamesLead, DescribeNearest, NameTrue

\* What a name says of a history stays true while graph and references stay.
LEMMA NameStays ==
    ASSUME NEW a, NameTrue(a), UNCHANGED <<graph, refs>>
    PROVE  NameTrue(a)'
<1>1. UNCHANGED <<parents, date, replaced, shallow, saved, refs>>
  BY DEF graph
<1>2. Known' = Known
  BY <1>1 DEF Known
<1>3. \A c : ParentsOf(c)' = ParentsOf(c) /\ DateOf(c)' = DateOf(c)
  BY <1>1 DEF ParentsOf, DateOf, Resolved
<1>4. Edges' = Edges
  BY <1>2, <1>3 DEF Edges
<1>5. Here' = Here
  BY <1>1, <1>2, <1>4 DEF Here
<1>6. Firsts' = Firsts
  <2>1. \A c : Selected(c, TRUE)' = Selected(c, TRUE)
    BY <1>3 DEF Selected
  <2> QED
    BY <1>1, <1>2, <2>1 DEF Firsts
<1>7. \A targets, all : Young(targets, all)' = Young(targets, all)
  BY <1>2, <1>3 DEF Young
<1>8. \A r : FromTag(r)' = FromTag(r) /\ Annotated(r)' = Annotated(r)
  BY <1>1 DEF FromTag, Annotated
<1>9. \A name : Follow(name)' = Follow(name)
  <2>1. \A c, k : Parent(c, k)' = Parent(c, k)
    BY <1>2, <1>3 DEF Parent
  <2>2. \A c, n : FirstParent(c, n)' = FirstParent(c, n)
    BY <2>1 DEF FirstParent
  <2> QED
    BY <1>1, <2>1, <2>2 DEF Follow
<1>10. NamesExact(a)' <=> NamesExact(a)
  BY <1>1, <1>2, <1>4, <1>7, <1>8, <1>9 DEF NamesExact
<1>11. DescribeExact(a)' <=> DescribeExact(a)
  BY <1>1, <1>5, <1>6, <1>8 DEF DescribeExact
<1> QED
  BY <1>1, <1>10, <1>11 DEF NameTrue


LEMMA NamesAnswered ==
    ASSUME GraphFits, RefsFit, NEW targets \in SUBSET Known, NEW all \in BOOLEAN
    PROVE  NameTrue([op |-> "names", targets |-> targets, all |-> all,
                     names |-> NameRevs(targets, all)])
<1> DEFINE a == [op |-> "names", targets |-> targets, all |-> all, names |-> NameRevs(targets, all)]
<1>1. a.op = "names" /\ a.targets = targets /\ a.all = all /\ a.names = NameRevs(targets, all)
  OBVIOUS
<1> HIDE DEF a
<1>2. NamesExact(a)
  BY <1>1, NamesAreExact
<1>3. NameTrue(a)
  BY <1>1, <1>2 DEF NameTrue
<1> QED
  BY <1>3 DEF a

LEMMA DescribeAnswered ==
    ASSUME GraphFits, RefsFit, NEW target \in Known, NEW admit \in {"annotated", "tags", "all"},
           NEW first \in BOOLEAN, NEW candidates \in Nat
    PROVE  NameTrue([op |-> "describe", target |-> target, admit |-> admit, first |-> first,
                     candidates |-> candidates, result |-> Describe(target, admit, first, candidates)])
<1> DEFINE a == [op |-> "describe", target |-> target, admit |-> admit, first |-> first,
                 candidates |-> candidates, result |-> Describe(target, admit, first, candidates)]
<1>1. /\ a.op = "describe" /\ a.target = target /\ a.admit = admit /\ a.first = first
      /\ a.candidates = candidates /\ a.result = Describe(target, admit, first, candidates)
  OBVIOUS
<1> HIDE DEF a
<1>2. candidates >= Cardinality(DOMAIN refs) => DescribeExact(a)
  BY <1>1, DescribesExactly
<1>3. NameTrue(a)
  BY <1>1, <1>2 DEF NameTrue
<1> QED
  BY <1>3 DEF a

LEMMA NamingTrue ==
    ASSUME GraphFits, RefsFit, Question, UNCHANGED <<graph, refs>>
    PROVE  NamesTrue'
<1> SUFFICES NameTrue(answer')
  <2>1. ASSUME NEW a, a = answer', NameTrue(a) PROVE NamesTrue'
    <3>1. NameTrue(a)'
      BY <2>1, NameStays
    <3>2. NamesTrue' <=> NameTrue(answer)'
      BY NamesTrueIs, PTL
    <3>3. NameTrue(answer)'
      BY <2>1, <3>1 DEF NameTrue
    <3> QED
      BY <3>2, <3>3
  <2> QED
    BY <2>1
<1> USE DEF Ask
<1>1. ASSUME NEW targets \in SUBSET Known, NEW all \in BOOLEAN, AskNames(targets, all)
      PROVE  NameTrue(answer')
  <2>1. answer' = [op |-> "names", targets |-> targets, all |-> all, names |-> NameRevs(targets, all)]
    BY <1>1 DEF AskNames
  <2> QED
    BY <2>1, NamesAnswered
<1>2. ASSUME NEW target \in Known, NEW admit \in {"annotated", "tags", "all"},
             NEW first \in BOOLEAN, NEW candidates \in Nat,
             AskDescribe(target, admit, first, candidates)
      PROVE  NameTrue(answer')
  <2>1. answer' = [op |-> "describe", target |-> target, admit |-> admit, first |-> first,
                   candidates |-> candidates, result |-> Describe(target, admit, first, candidates)]
    BY <1>2 DEF AskDescribe
  <2> QED
    BY <2>1, DescribeAnswered
<1>3. ASSUME answer'.op \notin {"names", "describe"} PROVE NameTrue(answer')
  BY <1>3 DEF NameTrue
<1>4. ASSUME NEW p, NEW d, AskAncestor(p, d) \/ AskSymmetric(p, d) \/ AskMergeBases(p, d)
      PROVE  answer'.op \notin {"names", "describe"}
  BY <1>4 DEF AskAncestor, AskSymmetric, AskMergeBases
<1>5. ASSUME NEW cs, AskOctopusBases(cs) PROVE answer'.op \notin {"names", "describe"}
  BY <1>5 DEF AskOctopusBases
<1>6. ASSUME NEW include, NEW exclude, NEW first, NEW limit, AskWalk(include, exclude, first, limit)
      PROVE  answer'.op \notin {"names", "describe"}
  BY <1>6 DEF AskWalk
<1> QED
  BY <1>1, <1>2, <1>3, <1>4, <1>5, <1>6 DEF Question

\* Whatever the history and the references become: a name that name_rev gives leads to the
\* commit it names, each commit some reference leads to by commits that are young enough has
\* one, from a tag if a tag does; and describe, which may try as many candidates as there are
\* references, answers with a name that leaves out as few commits as any: for histories of any
\* size and any shape, any references, dates and slop.
THEOREM NamesAlways == HistorySpec => []NamesTrue
<1>1. HistoryInit => GraphFits /\ RefsFit /\ NamesTrue
  <2>1. HistoryInit => answer.op = "none"
    BY DEF HistoryInit, NoAnswer
  <2>2. answer.op = "none" => NamesTrue
    BY NamesTrueIs DEF NameTrue
  <2> QED
    BY <2>1, <2>2, GraphInit, RefsInit
<1>2. GraphFits /\ RefsFit /\ NamesTrue /\ [HistoryNext]_<<graph, refs, answer>>
        => GraphFits' /\ RefsFit' /\ NamesTrue'
  <2> SUFFICES ASSUME GraphFits, RefsFit, NamesTrue, [HistoryNext]_<<graph, refs, answer>>
               PROVE  NamesTrue'
    BY GraphStays, RefsStay
  <2>0. NamesTrue' <=> NameTrue(answer)'
    BY NamesTrueIs, PTL
  <2>1. ASSUME answer' = NoAnswer PROVE NamesTrue'
    <3>1. answer'.op = "none"
      BY <2>1 DEF NoAnswer
    <3>2. NameTrue(answer)'
      BY <3>1 DEF NameTrue
    <3> QED
      BY <2>0, <3>2
  <2>2. CASE UNCHANGED <<graph, refs, answer>>
    <3>1. ASSUME NEW a, a = answer PROVE NamesTrue'
      <4>1. NameTrue(a)'
        BY <2>2, <3>1, NamesTrueIs, NameStays
      <4>2. answer' = a
        BY <2>2, <3>1
      <4>3. NameTrue(answer)'
        BY <4>1, <4>2 DEF NameTrue
      <4> QED
        BY <2>0, <4>3
    <3> QED
      BY <3>1
  <2>3. CASE answer = NoAnswer /\ Alter /\ UNCHANGED answer
    BY <2>1, <2>3
  <2>4. CASE Question /\ UNCHANGED <<graph, refs>>
    BY <2>4, NamingTrue
  <2>5. CASE Answered
    BY <2>1, <2>5 DEF Answered
  <2> QED
    BY <2>2, <2>3, <2>4, <2>5 DEF HistoryNext
<1> QED
  BY <1>1, <1>2, PTL DEF HistorySpec

\* Through every change the graph is whole: commits, as written and as read through replacements,
\* lead to commits that are there, and never in a circle; the commit-graph file has whole
\* histories; and a reference names a commit that is there.
THEOREM FitsAlways == HistorySpec => []HistoryFits
<1>1. HistoryInit => HistoryFits
  BY GraphInit, RefsInit DEF HistoryFits
<1>2. HistoryFits /\ [HistoryNext]_<<graph, refs, answer>> => HistoryFits'
  BY GraphStays, RefsStay DEF HistoryFits
<1> QED
  BY <1>1, <1>2, PTL DEF HistorySpec
===============================================================================
