-------------------------------- MODULE Bisect --------------------------------
(***************************************************************************)
(* A bisection session: start_bisect, mark_bisect, bisect_next and         *)
(* reset_bisect over the references and files they keep, the work of the   *)
(* user in between, and calls that stop half way.                          *)
(*                                                                         *)
(* One process at a time works on a session.  A checkout succeeds or       *)
(* refuses to overwrite something, with nothing changed.                   *)
(***************************************************************************)
EXTENDS Revisions

CONSTANTS Branch,      \* names of branches
          None

\* HEAD names a branch or a commit.
On(b) == [branch |-> b]
At(c) == [commit |-> c]
OnBranch == {On(b) : b \in Branch}

VARIABLES tip,         \* the commit of each branch
          head,        \* HEAD
          start,       \* BISECT_START: what HEAD was; None if the file is not there
          bad,         \* refs/bisect/bad
          good, skip,  \* the commits of refs/bisect/good-* and skip-*
          bisectHead,  \* BISECT_HEAD
          expected,    \* BISECT_EXPECTED_REV
          outcome,     \* what the last call returned
          quiet,       \* the calls of the session check nothing out (no_checkout)
          tested,      \* history: the commit the user was last told to test
          culprit,     \* history: the commit that broke what is looked for
          origin       \* history: HEAD when the session began

refsAndFiles == <<start, bad, good, skip, bisectHead, expected>>
session == <<quiet, tested, culprit, origin>>
bisect == <<tip, head, refsAndFiles, outcome, session>>

Stopped == [kind |-> "stopped"]     \* nothing: the call did not return
Failed  == [kind |-> "error"]
Done    == [kind |-> "done"]

CommitOf(h) == IF h \in OnBranch THEN tip[h.branch] ELSE h.commit

\* bisect_state can be read.
Active == start # None /\ bad # None

\* What a mark without a commit is about, and whether it may be.
Current == IF bisectHead # None THEN bisectHead ELSE CommitOf(head)

\* Wrong: whatever is checked out is taken for what was tested.
Unexpected(c) == TRUE

Expected(c) == c = expected

-------------------------------------------------------------------------------
\* Wrong: what two parents lead to is added up, what both lead to counts twice.
SummedWeights(list) ==
    LET Inner(c) == SelectSeq(ParentsOf(c), LAMBDA p : p \in ToSet(list))
        Weigh(w, c) ==
            [x \in DOMAIN w \cup {c} |->
                IF x # c THEN w[x]
                ELSE FoldLeft(LAMBDA n, p : n + w[p], 1, Inner(c))]
    IN  FoldLeft(Weigh, [x \in {} |-> 0], Reverse(list))

\* bisect_weights: how many candidates a candidate leads to, itself included.  From
\* the oldest on; where candidates merge, those behind are counted one by one.
Weights(list) ==
    LET candidates == ToSet(list)
        Inner(c) == SelectSeq(ParentsOf(c), LAMBDA p : p \in candidates)
        Weigh(w, c) ==
            LET ps == Inner(c)
            IN  [x \in DOMAIN w \cup {c} |->
                    IF x # c THEN w[x]
                    ELSE IF Len(ps) = 0 THEN 1
                    ELSE IF Len(ps) = 1 THEN w[ps[1]] + 1
                    ELSE Cardinality(Behind({c}, candidates))]
    IN  FoldLeft(Weigh, [x \in {} |-> 0], Reverse(list))

\* The commit to test: the first of those that split the n candidates most evenly.
Halving(w, n, testable) ==
    LET Split(c) == Min({w[c], n - w[c]})
        i        == CHOOSE i \in DOMAIN testable : \A j \in DOMAIN testable \ {i} :
                        \/ Split(testable[i]) > Split(testable[j])
                        \/ Split(testable[i]) = Split(testable[j]) /\ i < j
        c        == testable[i]
    IN  [kind |-> "test", commit |-> c, remaining |-> Max({w[c], n - w[c]}) - 1]

\* What bisect_next finds: an error, the end, or the commit to test.
ChoiceOf(list, b, gs, ss) ==
    LET testable == SelectSeq(list, LAMBDA c : c \notin ss)
    IN  IF list = <<>> \/ \E g \in gs : ~IsAncestor(g, b) THEN Failed
        ELSE IF testable = <<>> THEN [kind |-> "skipped", commits |-> ToSet(list)]
        ELSE IF list = <<b>> THEN [kind |-> "found", commit |-> b]
        ELSE Halving(Weights(list), Len(list), testable)

Choice(b, gs, ss) == ChoiceOf(Walk({b}, gs, FALSE, NoLimit), b, gs, ss)

\* What becomes of HEAD and the files when the choice is carried out: the commit is
\* selected (select_bisect_commit), or its checkout is refused, or the call stops
\* before BISECT_EXPECTED_REV is written.
Results(choice) ==
    LET same == [head |-> head, bisectHead |-> bisectHead, expected |-> expected]
        selected == IF quiet' THEN [same EXCEPT !.bisectHead = choice.commit]
                    ELSE [same EXCEPT !.head = At(choice.commit), !.bisectHead = None]
    IN  IF choice.kind # "test" THEN {<<choice, same>>}
        ELSE {<<choice, [selected EXCEPT !.expected = choice.commit]>>, <<Stopped, selected>>}
             \cup (IF quiet' THEN {} ELSE {<<Failed, same>>})

Carry(result) ==
    /\ outcome' = result[1]
    /\ head' = result[2].head
    /\ bisectHead' = result[2].bisectHead
    /\ expected' = result[2].expected
    /\ tested' = IF result[1].kind = "test" THEN result[1].commit ELSE tested

Fails == outcome' = Failed /\ UNCHANGED <<tip, head, refsAndFiles, session>>

\* clean_bisect_state: the references first, refs/bisect/bad before the others, and
\* BISECT_START last; it may stop in between.
Clean ==
    /\ start' = None /\ bad' = None /\ good' = {} /\ skip' = {}
    /\ bisectHead' = None /\ expected' = None
CleanStops == bad' = None /\ UNCHANGED <<start, good, skip, bisectHead, expected>>

-------------------------------------------------------------------------------
StartBisect(b, gs) ==
    IF \/ start # None \/ gs = {} \/ \E g \in gs : ~IsAncestor(g, b)
       \/ bad # None \/ gs \cap good # {}
    THEN Fails
    ELSE /\ UNCHANGED tip
         /\ origin' = head /\ quiet' \in BOOLEAN
         /\ culprit' \in (Reach(Edges, b) \ ReachAll(Edges, gs))
                             \cup (IF b \in gs THEN {b} ELSE {})
         /\ \/ \E r \in Results(Choice(b, gs, skip)) :
                 \/ /\ r[1] # Failed
                    /\ start' = head /\ bad' = b /\ good' = gs /\ UNCHANGED skip
                    /\ Carry(r)
                 \/ r[1] = Failed /\ Clean /\ outcome' = Failed /\ UNCHANGED <<head, tested>>
            \* it stops with the references made, before BISECT_START is written
            \/ /\ bad' = b /\ good' = gs /\ outcome' = Stopped
               /\ UNCHANGED <<head, start, skip, bisectHead, expected, tested>>

\* A mark for a commit, or without one for what is being tested.
MarkBisect(mark, commit) ==
    LET c == IF commit # None THEN commit ELSE Current
    IN  IF \/ ~Active
           \/ commit = None /\ ~Expected(c)
           \/ mark = "bad" /\ \E g \in good : ~IsAncestor(g, c)
           \/ mark # "bad" /\ ~IsAncestor(c, bad)
        THEN Fails
        ELSE /\ bad'  = IF mark = "bad" THEN c ELSE bad
             /\ good' = IF mark = "good" THEN good \cup {c} ELSE good
             /\ skip' = IF mark = "skip" THEN skip \cup {c} ELSE skip
             /\ UNCHANGED <<tip, start, origin, quiet, culprit>>
             /\ \/ \E r \in Results(Choice(bad', good', skip')) : Carry(r)
                \/ outcome' = Stopped /\ UNCHANGED <<head, bisectHead, expected, tested>>

BisectNext ==
    IF ~Active THEN Fails
    ELSE /\ UNCHANGED <<tip, start, bad, good, skip, origin, quiet, culprit>>
         /\ \E r \in Results(Choice(bad, good, skip)) : Carry(r)

\* Wrong: HEAD is where it was when it has the same commit.
SameCommit == bisectHead # None \/ CommitOf(head) = CommitOf(start)

\* HEAD was not moved, or is where it was.
AtStart == bisectHead # None \/ (head = start /\ start \in OnBranch)

\* A session that began with a detached HEAD is taken for one that began on a branch
\* of that name, which is not there.
ResetBisect ==
    IF ~Active THEN Fails
    ELSE /\ UNCHANGED <<tip, session>>
         /\ IF AtStart
            THEN UNCHANGED head /\ \/ Clean /\ outcome' = Done
                                   \/ CleanStops /\ outcome' = Stopped
            ELSE \/ /\ start \in OnBranch /\ head' = start
                    /\ \/ Clean /\ outcome' = Done
                       \/ CleanStops /\ outcome' = Stopped
                       \/ UNCHANGED refsAndFiles /\ outcome' = Stopped
                 \/ outcome' = Failed /\ UNCHANGED <<head, refsAndFiles>>

\* The user checks something else out.
Switch(h) ==
    /\ head' = h
    /\ UNCHANGED <<tip, refsAndFiles, outcome, session>>

-------------------------------------------------------------------------------
Broken(c) == culprit \in Reach(Edges, c)

\* Marks that are true: of the commit given, or of the one the user was last told
\* to test.
Truthful(mark, commit) ==
    LET c == IF commit # None THEN commit ELSE tested
    IN  /\ c # None
        /\ mark = "good" => ~Broken(c)
        /\ mark = "bad" => Broken(c)

Candidates == Reach(Edges, bad) \ ReachAll(Edges, good)

\* After marks that are true, what bisect_next finds is the commit that broke it, or
\* it is among the ones that are left over because they were skipped.
OutcomeTrue ==
    /\ outcome.kind = "found" => outcome.commit = culprit
    /\ outcome.kind = "skipped" => culprit \in outcome.commits /\ outcome.commits \subseteq skip

\* A commit to test can tell something: the worse verdict leaves "remaining"
\* candidates besides the one known to be bad, and no other commit that was not
\* skipped splits the candidates more evenly.  The bad commit itself is tested
\* only when all others were skipped.
TestTells ==
    outcome.kind = "test" =>
        LET Bad(c)  == Cardinality(Candidates \cap Reach(Edges, c))
            Good(c) == Cardinality(Candidates) - Bad(c)
            c == outcome.commit
        IN  /\ c \in Candidates \ skip
            /\ outcome.remaining = Max({Bad(c), Good(c)}) - 1
            /\ \A d \in Candidates \ skip : Min({Bad(d), Good(d)}) <= Min({Bad(c), Good(c)})
            /\ c = bad => Candidates \ skip = {bad}

\* What a session asks and what it concludes; and one that is over has left HEAD where
\* it was when the session began, or, without checkouts, has not touched it.
SessionTrue ==
    /\ [](OutcomeTrue /\ TestTells)
    /\ [][start # None /\ start' = None => head' = origin \/ (quiet /\ head' = head)]_bisect
===============================================================================
