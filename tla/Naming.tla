-------------------------------- MODULE Naming --------------------------------
(***************************************************************************)
(* Names for commits: name_revs, which says how a commit is found from a   *)
(* reference (main~2^2~1), and describe, which says which name is nearest. *)
(*                                                                         *)
(* A reference is a number, ordered as the names are.  It names a commit,  *)
(* directly or through an annotated tag with a time of its own.  Patterns, *)
(* abbreviations and the text of names are left out: a name is the         *)
(* reference and the way from its commit.                                  *)
(***************************************************************************)
EXTENDS Revisions

CONSTANTS Ref,    \* names of references
          Slop    \* how much older than its target a commit on the way may be

ASSUME NamingAssumption == Ref \subseteq Nat /\ Slop \in Nat

VARIABLE refs     \* per existing reference: commit, kind, time of the tag

Kinds == {"annotated", "tag", "branch"}
ARef == [commit: Commit, kind: Kinds, time: Date]

Annotated(r) == refs[r].kind = "annotated"
FromTag(r)   == refs[r].kind # "branch"
TipTime(r)   == IF Annotated(r) THEN refs[r].time ELSE DateOf(refs[r].commit)

SetReference(r, tip) ==
    /\ tip.commit \in Known
    /\ refs' = [x \in DOMAIN refs \cup {r} |-> IF x = r THEN tip ELSE refs[x]]
    /\ UNCHANGED graph

-------------------------------------------------------------------------------
\* name_revs.  From the commit of reference tip: for each <<n, k>> in steps n first
\* parents and one k-th, then generation first parents.
MergeWeight == 65535

AName  == [tip : DOMAIN refs, steps : Seq(Nat \X Nat), generation : Nat, distance : Nat]
NoName == [distance |-> 0]

TipName(r) == [tip |-> r, steps |-> <<>>, generation |-> 0, distance |-> 0]

\* Wrong: the generation survives the step to another parent.
CarriedName(name, k) ==
    IF k = 1
    THEN [name EXCEPT !.generation = @ + 1, !.distance = @ + 1]
    ELSE [name EXCEPT !.steps = Append(@, <<name.generation, k>>),
                      !.distance = @ + MergeWeight]

ParentName(name, k) ==
    IF k = 1
    THEN [name EXCEPT !.generation = @ + 1, !.distance = @ + 1]
    ELSE [name EXCEPT !.steps = Append(@, <<name.generation, k>>), !.generation = 0,
                      !.distance = @ + MergeWeight]

EffectiveDistance(name) ==
    name.distance + IF name.generation > 0 THEN MergeWeight ELSE 0

Better(old, new) ==
    LET nearer == EffectiveDistance(new) < EffectiveDistance(old)
        even   == EffectiveDistance(new) = EffectiveDistance(old)
    IN  IF FromTag(old.tip) = FromTag(new.tip)
        THEN nearer \/ (~FromTag(old.tip) /\ even /\ TipTime(new.tip) < TipTime(old.tip))
        ELSE FromTag(new.tip)

Improves(names, c, name) == names[c] = NoName \/ Better(names[c], name)

NameOrNone == AName \cup {NoName}

\* Names as they are after the commit c has passed its own to its k-th parent, if that
\* improves it there, and the parents for which it did.
PassTo(acc, c, k, young) ==
    LET p == ParentsOf(c)[k]
        name == ParentName(acc.names[c], k)
    IN  IF p \in young /\ Improves(acc.names, p, name)
        THEN [names  |-> [acc.names EXCEPT ![p] = name], queued |-> Append(acc.queued, p)]
        ELSE acc

PassOn(names, c, young) ==
    LET passed[k \in 0 .. Len(ParentsOf(c))] ==
            IF k = 0 THEN [names |-> names, queued |-> <<>>] ELSE PassTo(passed[k - 1], c, k, young)
    IN  passed[Len(ParentsOf(c))]

\* What is queued has a name.
Spreading == {at \in [names : [Known -> NameOrNone], queued : Seq(Known)] :
                 \A i \in DOMAIN at.queued : at.names[at.queued[i]] # NoName}

\* A commit whose name has improved passes it on to its parents, the first of
\* them next.
Spread(start, tipCommit, young) ==
    LET spread[at \in Spreading] ==
            IF at.queued = <<>> THEN at.names
            ELSE LET passed == PassOn(at.names, Head(at.queued), young)
                 IN  spread[[passed EXCEPT !.queued = @ \o Tail(at.queued)]]
    IN  spread[[names |-> start, queued |-> <<tipCommit>>]]

SpreadTip(names, r, young) ==
    LET c == refs[r].commit
    IN  IF c \in young /\ Improves(names, c, TipName(r))
        THEN Spread([names EXCEPT ![c] = TipName(r)], c, young)
        ELSE names

\* Tags first, older ones first.
TipBefore(r, s) ==
    IF FromTag(r) # FromTag(s) THEN FromTag(r)
    ELSE TipTime(r) < TipTime(s) \/ (TipTime(r) = TipTime(s) /\ r < s)

FirstTip(rs) == CHOOSE r \in rs : \A q \in rs \ {r} : TipBefore(r, q)

\* Commits older than the oldest target, less the slop, get no name, unless all do.
Young(targets, all) ==
    {c \in Known : all \/ \E t \in targets : DateOf(c) + Slop >= DateOf(t)}

NameRevs(targets, all) ==
    LET young == Young(targets, all)
        take[at \in [names : [Known -> NameOrNone], left : SUBSET DOMAIN refs]] ==
            IF at.left = {} THEN at.names
            ELSE LET r == FirstTip(at.left)
                 IN  take[[names |-> SpreadTip(at.names, r, young), left |-> at.left \ {r}]]
        names == take[[names |-> [c \in Known |-> NoName], left |-> DOMAIN refs]]
    IN  [c \in {x \in Known : names[x] # NoName} |-> names[c]]

-------------------------------------------------------------------------------
\* describe.  One reference for each commit: annotated tags before other tags
\* before branches, the newer of annotated ones, otherwise the first.
Priority(r) == CASE refs[r].kind = "annotated" -> 2
                 [] refs[r].kind = "tag"       -> 1
                 [] refs[r].kind = "branch"    -> 0

\* Wrong: the last one that is listed.
ReplacesAny(new, old) == TRUE

Replaces(new, old) ==
    \/ Priority(new) > Priority(old)
    \/ Annotated(new) /\ Annotated(old) /\ refs[new].time > refs[old].time

TakeName(best, r) ==
    LET c == refs[r].commit
    IN  IF c \notin DOMAIN best \/ Replaces(r, best[c])
        THEN [x \in DOMAIN best \cup {c} |-> IF x = c THEN r ELSE best[x]]
        ELSE best

\* "all" admits every reference, "tags" every tag, and else annotated tags only.
DescribeNames(admit) ==
    LET take[at \in [best : UNION {[cs -> Ref] : cs \in SUBSET Known}, left : SUBSET DOMAIN refs]] ==
            IF at.left = {} THEN at.best
            ELSE LET r == Min(at.left)
                 IN  take[[best |-> TakeName(at.best, r), left |-> at.left \ {r}]]
    IN  take[[best |-> [c \in {} |-> c], left |-> {r \in DOMAIN refs : admit = "all" \/ FromTag(r)}]]

Eligible(r, admit) == admit # "annotated" \/ Annotated(r)

\* Of the candidates the one that leaves the fewest commits of the target out.
Nearest(best, tried, walk, first) ==
    LET Depth(c) == Cardinality(ToSet(walk) \ ToSet(Walk({c}, {}, first, NoLimit)))
        nearest  == CHOOSE i \in DOMAIN tried : \A j \in DOMAIN tried \ {i} :
                        \/ Depth(tried[i]) < Depth(tried[j])
                        \/ Depth(tried[i]) = Depth(tried[j]) /\ i < j
    IN  IF tried = <<>> THEN [depth |-> NoLimit]
        ELSE [name |-> best[tried[nearest]], depth |-> Depth(tried[nearest])]

\* The first named commits in topological order are the candidates.
Describe(target, admit, first, candidates) ==
    LET best  == DescribeNames(admit)
        named == {c \in DOMAIN best : Eligible(best[c], admit)}
        walk  == Walk({target}, {}, first, NoLimit)
    IN  IF target \in named THEN [name |-> best[target], depth |-> 0]
        ELSE Nearest(best, UpTo(Among(walk, named), candidates), walk, first)
===============================================================================
