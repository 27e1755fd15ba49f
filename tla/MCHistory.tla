------------------------------- MODULE MCHistory -------------------------------
(* Small histories for TLC; load selects what is asked of them. *)
EXTENDS History, Bisect

VARIABLE load
vars == <<graph, refs, answer, bisect, load>>

Loads == {"ancestry", "bases", "lists", "names", "describe", "bisect"}

N == IF load = "bases" THEN 5 ELSE 4
Full == Cardinality(Known) = N

\* Up to two parents, and the order of two matters only for names and first parents.
ParentLists(c) ==
    {<<>>} \cup {<<p>> : p \in 1..c - 1}
           \cup {<<p, q>> \in (1..c - 1) \X (1..c - 1) :
                    p < q \/ (p > q /\ c = N /\ load \in {"lists", "names"})}

\* Timestamps order a list, and decide which commits name_revs passes by.
Dates(c) == IF load \in {"lists", "names"} /\ c = 3 THEN Date ELSE {1}
OneDate == \A c \in Known : date[c] = 1

\* The histories that are bisected: two branches that merge, and a merge below the
\* bad commit that leads to an older commit both ways.
Histories == {<<<<>>, <<1>>, <<1>>, <<2, 3>>>>,
              <<<<>>, <<1>>, <<2>>, <<3, 2>>, <<4>>>>}

MCInit ==
    /\ load \in Loads
    /\ parents \in IF load = "bisect" THEN Histories ELSE {<<>>}
    /\ date = [c \in DOMAIN parents |-> 1] /\ replaced = <<>>
    /\ shallow = {} /\ saved = {} /\ refs = <<>>
    /\ answer = NoAnswer
    /\ tip = [b \in Branch |-> Len(parents)] /\ head \in {On(b) : b \in Branch} \cup {At(3)}
    /\ head = At(3) => load = "bisect" /\ Len(parents) = 4
    /\ start = None /\ bad = None /\ good = {} /\ skip = {} /\ bisectHead = None
    /\ expected = None /\ outcome = Done
    /\ quiet = FALSE /\ tested = None /\ culprit = None /\ origin = None

Grow ==
    LET c == Cardinality(Known) + 1
    IN  c <= N /\ \E ps \in ParentLists(c), d \in Dates(c) : WriteCommit(c, ps, d)

Altered ==
    \/ \E c, r \in Known : CreateReplacement(c, r)
    \/ \E c \in Known : DeleteReplacement(c)
    \/ \E c \in Known \cup {0} :
          (load = "lists" => c = 2) /\ WriteShallow({c} \ {0})
    \/ \E c \in Known : WriteCommitGraph({c})

Name ==
    \E r \in Ref \ DOMAIN refs, c \in Known, k \in Kinds, t \in Date :
        /\ \A s \in DOMAIN refs : s < r
        /\ refs # <<>> => OneDate
        /\ k # "annotated" \/ r = 1 => t = 1
        /\ k = "tag" => load = "describe"
        /\ SetReference(r, [commit |-> c, kind |-> k, time |-> t])

Asked ==
    CASE load = "ancestry" -> \E a, d \in Known : AskAncestor(a, d)
      [] load = "bases" ->
            Full /\ \/ \E others \in SUBSET (2..N - 1) :
                            Cardinality(others) \in {1, 2} /\ AskMergeBases(N, others)
                    \/ \E c, d \in 2..N - 1 : c < d /\ AskOctopusBases(<<c, d, N>>)
      [] load = "lists" ->
            Full /\ \/ \E i, e \in SUBSET Known, first \in BOOLEAN, n \in {2, NoLimit} :
                            /\ Cardinality(i) \in {1, 2} /\ Cardinality(e) \in {0, 1}
                            /\ n = 2 => ~first /\ e = {}
                            /\ N \in i /\ (first => i = {N})
                            /\ AskWalk(i, e, first, n)
                    \/ \E l \in 2..N - 1 : AskSymmetric(l, N) \/ AskSymmetric(N, l)
      [] load = "names" ->
            refs # <<>> /\ \/ AskNames(Known, TRUE)
                           \/ \E t \in Known : ~OneDate /\ AskNames({t}, FALSE)
      [] load = "describe" ->
            \E admit \in {"annotated", "tags", "all"}, first \in BOOLEAN :
                refs # <<>> /\ AskDescribe(N, admit, first, 2)

\* One session of a user who marks truthfully; only commit 2 is marked by its name.
Bisecting ==
    \/ /\ culprit = None \/ start # None \/ bad # None
       /\ \E gs \in {{1}, {1, 2}} :
             (gs # {1} => Len(parents) = 5) /\ StartBisect(Len(parents), gs)
    \/ \E mark \in {"good", "bad", "skip"}, c \in {2, None} :
          Truthful(mark, c) /\ MarkBisect(mark, c)
    \/ BisectNext
    \/ ResetBisect
    \/ Switch(At(2)) /\ tested # None /\ ~quiet

MCNext ==
    /\ UNCHANGED load
    /\ IF load = "bisect" THEN Bisecting /\ UNCHANGED <<graph, refs, answer>>
       ELSE UNCHANGED bisect
    /\ \/ load = "bisect"
       \/ Grow /\ answer = NoAnswer /\ UNCHANGED <<refs, answer>>
       \/ /\ load = "ancestry" \/ (load = "lists" /\ Full /\ OneDate)
          /\ answer = NoAnswer /\ Altered /\ UNCHANGED <<refs, answer>>
          /\ shallow' = {} \/ DOMAIN replaced' = {}
          /\ load = "lists" => UNCHANGED <<saved, replaced>>
       \/ load \in {"names", "describe"} /\ Full /\ answer = NoAnswer /\ Name /\ UNCHANGED answer
       \/ load # "bisect" /\ Asked /\ UNCHANGED <<graph, refs>>
       \/ Answered /\ UNCHANGED <<graph, refs>>

MCSpec == MCInit /\ [][MCNext]_vars
===============================================================================
