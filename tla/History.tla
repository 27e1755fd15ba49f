-------------------------------- MODULE History --------------------------------
(***************************************************************************)
(* Questions about the history of a repository, each answered by one call, *)
(* while commits, references, replacements, shallow boundaries and the     *)
(* commit-graph file come and go; and what the answers have to agree with, *)
(* which is said by reachability alone.                                    *)
(***************************************************************************)
EXTENDS Naming

VARIABLE answer     \* the question asked last, with its answer

NoAnswer == [op |-> "none"]

Ask(a) == answer = NoAnswer /\ answer' = a

AskAncestor(a, d) ==
    Ask([op |-> "ancestor", ancestor |-> a, descendant |-> d, result |-> IsAncestor(a, d)])

AskMergeBases(one, others) ==
    Ask([op |-> "bases", between |-> <<{one}, others>>, bases |-> MergeBases(one, others)])

AskOctopusBases(cs) ==
    Ask([op |-> "bases", between |-> [i \in DOMAIN cs |-> {cs[i]}],
         bases |-> OctopusBases(cs)])

AskWalk(include, exclude, first, limit) ==
    Ask([op |-> "walk", include |-> include, exclude |-> exclude, first |-> first,
         limit |-> limit, list |-> Walk(include, exclude, first, limit)])

AskSymmetric(left, right) ==
    Ask([op |-> "sides", left |-> left, right |-> right, result |-> Symmetric(left, right)])

AskNames(targets, all) ==
    Ask([op |-> "names", targets |-> targets, all |-> all, names |-> NameRevs(targets, all)])

AskDescribe(target, admit, first, candidates) ==
    Ask([op |-> "describe", target |-> target, admit |-> admit, first |-> first,
         candidates |-> candidates, result |-> Describe(target, admit, first, candidates)])

Answered == answer # NoAnswer /\ answer' = NoAnswer

-------------------------------------------------------------------------------
\* A repository begins empty; what it becomes may change between any two questions.
HistoryInit ==
    /\ parents = <<>> /\ date = <<>> /\ replaced = <<>> /\ refs = <<>>
    /\ shallow = {} /\ saved = {}
    /\ answer = NoAnswer

Alter ==
    \/ /\ \/ \E c \in Commit, ps \in Seq(Known), d \in Date : WriteCommit(c, ps, d)
          \/ \E c, r \in Known : CreateReplacement(c, r)
          \/ \E c \in Known : DeleteReplacement(c)
          \/ \E cs \in SUBSET Known : WriteShallow(cs) \/ WriteCommitGraph(cs)
       /\ UNCHANGED refs
    \/ \E r \in Ref, tip \in ARef : SetReference(r, tip)

Question ==
    \/ \E a, d \in Known : AskAncestor(a, d) \/ AskSymmetric(a, d)
    \/ \E one \in Known, others \in (SUBSET Known) \ {{}} : AskMergeBases(one, others)
    \/ \E cs \in Seq(Known) : Len(cs) >= 2 /\ AskOctopusBases(cs)
    \/ \E include, exclude \in SUBSET Known, first \in BOOLEAN, limit \in Nat :
          AskWalk(include, exclude, first, limit)
    \/ \E targets \in SUBSET Known, all \in BOOLEAN : AskNames(targets, all)
    \/ \E target \in Known, admit \in {"annotated", "tags", "all"}, first \in BOOLEAN,
          candidates \in Nat : AskDescribe(target, admit, first, candidates)

HistoryNext ==
    \/ answer = NoAnswer /\ Alter /\ UNCHANGED answer
    \/ (Question \/ Answered) /\ UNCHANGED <<graph, refs>>

HistorySpec == HistoryInit /\ [][HistoryNext]_<<graph, refs, answer>>

-------------------------------------------------------------------------------
\* What holds of the graph: a commit, as it was written and as it is read, leads to commits
\* of smaller ids that are there, and a history is saved as a whole.
GraphFits ==
    /\ Known \subseteq Commit
    /\ parents \in [Known -> Seq(Known)] /\ date \in [Known -> Date]
    /\ \A c \in Known : \A p \in ToSet(parents[c]) : p < c
    /\ replaced \in [DOMAIN replaced -> Known] /\ DOMAIN replaced \subseteq Known
    /\ \A c \in DOMAIN replaced : \A p \in ToSet(parents[replaced[c]]) : p < c
    /\ shallow \subseteq Known /\ saved \subseteq Known
    /\ \A c \in saved : ToSet(parents[c]) \subseteq saved

\* A reference names a commit that is there.
RefsFit ==
    /\ DOMAIN refs \subseteq Ref /\ IsFiniteSet(DOMAIN refs)
    /\ refs \in [DOMAIN refs -> ARef]
    /\ \A r \in DOMAIN refs : refs[r].commit \in Known

\* What is there fits together, through every change: what all the answers rely on.
HistoryFits == GraphFits /\ RefsFit

-------------------------------------------------------------------------------
\* No commit is listed before one that leads to it.
InOrder(next, list) ==
    \A j \in DOMAIN list :
        LET behind == Reach(next, list[j]) IN \A i \in 1..j - 1 : list[i] \notin behind

\* is_ancestor says whether the one commit leads to the other, whatever the
\* commit-graph file was made from and whatever has been replaced or cut off since.
AncestryExact ==
    answer.op = "ancestor" =>
        answer.result = (answer.ancestor \in Reach(Here, answer.descendant))

\* Merge bases, between one commit and several, or of all of several commits: the
\* common ancestors that no other common ancestor leads to, each of them, and no
\* other commit.
BasesBest ==
    answer.op = "bases" /\ shallow = {} =>
        LET next   == Here
            n      == answer.between
            common == {c \in Known : \A i \in DOMAIN n : c \in ReachAll(next, n[i])}
        IN  answer.bases = {c \in common : \A d \in common \ {c} : c \notin Reach(next, d)}

\* A walk lists what is asked for once, no commit before its descendants, and with
\* a limit leaves out nothing that leads to something listed.
WalkExact(a) ==
    LET next   == IF a.first THEN Firsts ELSE Here
        asked  == ReachAll(next, a.include) \ ReachAll(next, a.exclude)
        listed == ToSet(a.list)
    IN  /\ Len(a.list) = Cardinality(listed)
        /\ Len(a.list) = Min({a.limit, Cardinality(asked)})
        /\ listed \subseteq asked
        /\ InOrder(next, a.list)
        /\ \A c \in asked : Reach(next, c) \cap listed # {} => c \in listed

\* left...right lists what one of the two leads to and the other does not, marks it
\* by side, and gives every parent left out as boundary.
SidesExact(a) ==
    LET next   == Edges
        lefts  == Reach(next, a.left) \ Reach(next, a.right)
        rights == Reach(next, a.right) \ Reach(next, a.left)
        r      == a.result
    IN  /\ Len(r.list) = Cardinality(ToSet(r.list))
        /\ ToSet(r.list) = lefts \cup rights
        /\ InOrder(next, r.list)
        /\ \A c \in lefts : r.mark[c] = "left"
        /\ \A c \in rights : r.mark[c] = "right"
        /\ r.boundary = (UNION {Edges[c] : c \in ToSet(r.list)}) \ ToSet(r.list)

ListsExact ==
    /\ answer.op = "walk" => WalkExact(answer)
    /\ answer.op = "sides" /\ shallow = {} => SidesExact(answer)

\* Where the name of a commit leads, step by step; 0 if nowhere.
Parent(c, k) == IF c \in Known /\ k \in DOMAIN ParentsOf(c) THEN ParentsOf(c)[k] ELSE 0

FirstParent(c, n) ==
    LET up[i \in 0 .. n] == IF i = 0 THEN c ELSE Parent(up[i - 1], 1) IN up[n]

Follow(name) ==
    LET at[i \in 0 .. Len(name.steps)] ==
            IF i = 0 THEN refs[name.tip].commit
            ELSE Parent(FirstParent(at[i - 1], name.steps[i][1]), name.steps[i][2])
    IN  FirstParent(at[Len(name.steps)], name.generation)

\* name_revs: a name leads to the commit it names; a commit has a name as soon as
\* some reference leads to it by commits that are young enough, and a name from a
\* tag if a tag does.
NamesExact(a) ==
    LET young == Young(a.targets, a.all)
        next  == [c \in Known |-> Edges[c] \cap young]
        From(t) == {r \in DOMAIN refs : /\ refs[r].commit \in young
                                        /\ t \in Reach(next, refs[r].commit)}
    IN  \A t \in a.targets :
            /\ t \in DOMAIN a.names <=> From(t) # {}
            /\ t \in DOMAIN a.names =>
                  /\ Follow(a.names[t]) = t
                  /\ (\E r \in From(t) : FromTag(r)) => FromTag(a.names[t].tip)

NamesLead == answer.op = "names" => NamesExact(answer)

\* describe: when every name may be a candidate, the name is that of the commit,
\* or one behind it that leaves out as few commits as any, and its depth is how many.
DescribeExact(a) ==
    LET next   == IF a.first THEN Firsts ELSE Here
        behind == Reach(next, a.target)
        Depth(r) == Cardinality(behind \ Reach(next, refs[r].commit))
        fit == {r \in DOMAIN refs : refs[r].commit \in behind
                    /\ \/ a.admit = "all"
                       \/ a.admit = "tags" /\ FromTag(r)
                       \/ Annotated(r)}
    IN  IF fit = {} THEN a.result.depth = NoLimit
        ELSE /\ "name" \in DOMAIN a.result /\ a.result.name \in fit
             /\ a.result.depth = Depth(a.result.name)
             /\ \A r \in fit : a.result.depth <= Depth(r)

DescribeNearest ==
    answer.op = "describe" /\ answer.candidates >= Cardinality(DOMAIN refs) => DescribeExact(answer)

\* Names and descriptions lead where they say.
NamesTrue == NamesLead /\ DescribeNearest

\* Ancestors, what two histories have in common and the lists of commits are what
\* reachability says.
AncestryTrue == AncestryExact /\ BasesBest /\ ListsExact
===============================================================================
