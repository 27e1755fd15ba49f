------------------------------ MODULE Revisions ------------------------------
(***************************************************************************)
(* The commit graph of a repository and the calls that read it: walks,     *)
(* ancestry, merge bases, lists.  What these calls see of a commit is what *)
(* replace references, the file "shallow" and the commit-graph file make   *)
(* of it, and each of the three may change between two calls.              *)
(*                                                                         *)
(* An object id is a number, larger than the ids of its parents: that is   *)
(* how the graph is kept acyclic, and how ids break ties.  Limits on the   *)
(* number of commits, at which a call fails, are left out.                 *)
(***************************************************************************)
EXTENDS Naturals, FiniteSets, SequencesExt

CONSTANTS Commit,     \* ids of commits
          Date        \* committer timestamps

ASSUME RevisionsAssumption ==
    /\ Commit \subseteq Nat \ {0} /\ IsFiniteSet(Commit)
    /\ Date \subseteq Nat

VARIABLES parents,    \* of each commit that is stored, in order
          date,       \* its committer timestamp
          replaced,   \* replace references: from an id to the id read instead
          shallow,    \* the commits in the file "shallow"
          saved       \* the commits in the file "commit-graph", {} if none is there

graph == <<parents, date, replaced, shallow, saved>>

Known == DOMAIN parents

\* A caller reads the replacement of a commit, if there is one.
Resolved(c)  == IF c \in DOMAIN replaced THEN replaced[c] ELSE c
ParentsOf(c) == parents[Resolved(c)]
DateOf(c)    == date[Resolved(c)]

\* A traversal takes the first parent only or all of them.
Selected(c, first) ==
    LET ps == ParentsOf(c) IN IF first /\ ps # <<>> THEN <<ps[1]>> ELSE ps

-------------------------------------------------------------------------------
\* All that is read from these roots; parents of a shallow commit are not.
LoadReachable(roots, first) ==
    LET load[seen \in SUBSET Known] ==
            LET more == seen \cup UNION {ToSet(Selected(c, first)) : c \in seen \ shallow}
            IN  IF more = seen THEN seen ELSE load[more]
    IN  load[roots]

\* The first of those ready: the latest, and the largest id among these.
Newest(cs) == CHOOSE c \in cs : \A d \in cs \ {c} :
                  DateOf(d) < DateOf(c) \/ (DateOf(d) = DateOf(c) /\ d < c)

\* Wrong: by date alone, which a wrong clock upsets.
DateOrder(visible, first) ==
    SetToSortSeq(visible, LAMBDA c, d : DateOf(c) > DateOf(d) \/ (DateOf(c) = DateOf(d) /\ c > d))

\* A commit is put out when the count of its children still to come is zero.
TopoOrder(visible, first) ==
    LET put[out \in Seq(visible)] ==
            LET left  == visible \ ToSet(out)
                ready == left \ UNION {ToSet(Selected(d, first)) : d \in left}
            IN  IF ready = {} THEN out ELSE put[Append(out, Newest(ready))]
    IN  put[<<>>]

UpTo(list, limit) == IF limit < Len(list) THEN SubSeq(list, 1, limit) ELSE list

Walk(include, exclude, first, limit) ==
    UpTo(TopoOrder(LoadReachable(include, first) \ LoadReachable(exclude, first), first), limit)

NoLimit == Cardinality(Commit)

-------------------------------------------------------------------------------
\* The commit-graph file: whole histories, with a generation for each commit.
\* It is made from the stored objects: neither replacements nor the file
\* "shallow" count.
Stored(tips) ==
    LET stored[cs \in SUBSET Known] ==
            LET more == cs \cup UNION {ToSet(parents[c]) : c \in cs}
            IN  IF more = cs THEN cs ELSE stored[more]
    IN  stored[tips]

Generation[c \in Known] ==
    LET below == {Generation[p] : p \in ToSet(parents[c])}
    IN  IF below = {} THEN 1 ELSE 1 + Max(below)

\* A walk in the file, cut where generations say that it cannot succeed.
WalkFile(ancestor, descendant) ==
    LET Deeper(cs) == {c \in cs : Generation[c] > Generation[ancestor]}
        walk[at \in [pending : SUBSET Known, seen : SUBSET Known]] ==
            LET seen == at.seen \cup at.pending
                more == (UNION {ToSet(parents[c]) : c \in Deeper(at.pending)}) \ seen
            IN  IF at.pending = {} \/ ancestor \in at.pending THEN ancestor \in at.pending
                ELSE walk[[pending |-> more, seen |-> seen]]
    IN  walk[[pending |-> {descendant}, seen |-> {}]]

\* Wrong: a replacement made since the file was written is not seen.
FileAnyway(cs) == shallow = {} /\ cs \subseteq saved

FileApplies(cs) == shallow = {} /\ DOMAIN replaced = {} /\ cs \subseteq saved

IsAncestor(ancestor, descendant) ==
    IF FileApplies({ancestor, descendant})
    THEN WalkFile(ancestor, descendant)
    ELSE ancestor \in LoadReachable({descendant}, FALSE)

-------------------------------------------------------------------------------
\* Commits behind c, as far as they are in common.
Behind(roots, common) ==
    LET below[cs \in SUBSET Known] ==
            LET more == cs \cup (common \cap UNION {ToSet(ParentsOf(c)) : c \in cs})
            IN  IF more = cs THEN cs ELSE below[more]
    IN  below[roots]

\* Wrong: only the parents of a base are stale, not what is behind them.
BestOfTwo(common) ==
    LET Take(acc, c) == IF c \in acc.stale THEN acc
                        ELSE [bases |-> acc.bases \cup {c},
                              stale |-> acc.stale \cup ToSet(ParentsOf(c))]
    IN  FoldLeft(Take, [bases |-> {}, stale |-> {}], TopoOrder(common, FALSE)).bases

\* In topological order, a commit that no base has made stale is a base.
BestCommits(common) ==
    LET order == TopoOrder(common, FALSE)
        Take(acc, c) == IF c \in acc.stale THEN acc
                        ELSE [bases |-> acc.bases \cup {c},
                              stale |-> acc.stale \cup (Behind({c}, common) \ {c})]
        taken[i \in 0 .. Len(order)] ==
            IF i = 0 THEN [bases |-> {}, stale |-> {}] ELSE Take(taken[i - 1], order[i])
    IN  taken[Len(order)].bases

MergeBases(one, others) ==
    BestCommits(LoadReachable({one}, FALSE) \cap LoadReachable(others, FALSE))

Independent(cs) == {c \in cs : \A d \in cs \ {c} : c \notin LoadReachable({d}, FALSE)}

OctopusBases(cs) ==
    LET bases[i \in 1 .. Len(cs)] ==
            IF i = 1 THEN {cs[1]} ELSE UNION {MergeBases(cs[i], {b}) : b \in bases[i - 1]}
    IN  Independent(bases[Len(cs)])

-------------------------------------------------------------------------------
\* What a list has in cs.
Among(list, cs) ==
    LET among[i \in 0 .. Len(list)] ==
            IF i = 0 THEN <<>>
            ELSE IF list[i] \in cs THEN Append(among[i - 1], list[i]) ELSE among[i - 1]
    IN  among[Len(list)]

\* The commits of left...right, those of the side with the newest commit first.
OrderSides(list, lefts, rights) ==
    LET Newest0(cs) == IF cs = {} THEN 0 ELSE 1 + Max({DateOf(c) : c \in cs})
        others      == ToSet(list) \ rights
    IN  IF Newest0(rights) > Newest0(lefts)
        THEN Among(list, rights) \o Among(list, others)
        ELSE Among(list, others) \o Among(list, rights)

\* Parents of what is listed that are excluded.
Boundary(list, excluded) ==
    LET parent == UNION {ToSet(ParentsOf(c)) : c \in ToSet(list)}
    IN  (parent \ ToSet(list)) \cap excluded

Sides(bases, left, right) ==
    LET lefts  == ToSet(Walk({left}, bases, FALSE, NoLimit))
        rights == ToSet(Walk({right}, bases, FALSE, NoLimit))
        list   == OrderSides(Walk({left, right}, bases, FALSE, NoLimit), lefts, rights)
    IN  [list     |-> list,
         mark     |-> [c \in ToSet(list) |-> IF c \in lefts THEN "left" ELSE "right"],
         boundary |-> Boundary(list, LoadReachable(bases, FALSE))]

Symmetric(left, right) == Sides(MergeBases(left, {right}), left, right)

-------------------------------------------------------------------------------
\* What the properties measure all this by: reachability along the relation "next".
Ancestry(next) ==
    LET above[x \in DOMAIN next] == {x} \cup UNION {above[p] : p \in next[x]} IN above
Reach(next, c) == Ancestry(next)[c]

ReachAll(next, cs) == UNION {Reach(next, c) : c \in cs}

Edges  == [c \in Known |-> ToSet(ParentsOf(c))]
Here   == [c \in Known |-> IF c \in shallow THEN {} ELSE Edges[c]]
Firsts == [c \in Known |-> IF c \in shallow THEN {} ELSE ToSet(Selected(c, TRUE))]

-------------------------------------------------------------------------------
\* What changes the graph.  A commit is written when its parents are there.
WriteCommit(c, ps, d) ==
    /\ c \in Commit \ Known
    /\ ToSet(ps) \subseteq {p \in Known : p < c}
    /\ parents' = [x \in Known \cup {c} |-> IF x = c THEN ps ELSE parents[x]]
    /\ date' = [x \in Known \cup {c} |-> IF x = c THEN d ELSE date[x]]
    /\ UNCHANGED <<replaced, shallow, saved>>

\* A replacement descends from nothing that descends from the original, and chains
\* of replacements are left out.
CreateReplacement(c, r) ==
    /\ c # r /\ {c, r} \subseteq Known
    /\ c \notin DOMAIN replaced
    /\ DOMAIN replaced = {}
    /\ \A p \in ToSet(parents[r]) : p < c
    /\ replaced' = [x \in {c} |-> r]
    /\ UNCHANGED <<parents, date, shallow, saved>>

DeleteReplacement(c) ==
    /\ c \in DOMAIN replaced
    /\ replaced' = [x \in {} |-> c]
    /\ UNCHANGED <<parents, date, shallow, saved>>

WriteShallow(cs) ==
    /\ cs \subseteq Known
    /\ shallow' = cs
    /\ UNCHANGED <<parents, date, replaced, saved>>

WriteCommitGraph(tips) ==
    /\ tips \subseteq Known
    /\ saved' = Stored(tips)
    /\ UNCHANGED <<parents, date, replaced, shallow>>
===============================================================================
