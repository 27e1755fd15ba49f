-------------------------------- MODULE MCTexts --------------------------------
(* Short texts and series for TLC. *)
EXTENDS Texts, TLC

CONSTANT Letter      \* the lines a text is made of

VARIABLE given       \* what the call will be given

vars == <<call, given>>

\* Two of the letters, where longer texts matter more than different lines.
Two == CHOOSE S \in SUBSET Letter : Cardinality(S) = 2

Long   == BoundedSeq(Two, 5)
Medium == BoundedSeq(Two, 3)
Short  == BoundedSeq(Letter, 2) \cup Medium

\* Five lines, of two kinds in turn.
Alternating == CHOOSE t \in [1..5 -> Two] : \A i \in 1..4 : t[i] # t[i + 1]

Give(g) == given = g

GiveApply(old, new, context, text) ==
    Give([op |-> "apply", old |-> old, new |-> new, context |-> context, text |-> text])

\* The patches 1 and 2 are old ones, 2 and 3 new ones.
GiveSeries(o, n) ==
    \E old \in [1..o -> {1, 2}], new \in [1..n -> {2, 3}],
       pair \in [1..n -> [1..o -> {1, 2, 4}]],
       create \in [1..n -> {1, 2}], drop \in [1..o -> {1, 2}] :
        Give([op |-> "series", old |-> old, new |-> new, pair |-> pair,
              create |-> create, drop |-> drop])

MCInit ==
    /\ call = NoCall
    /\ \/ \E o, n \in {1, 2} : GiveSeries(o, n)
       \/ \E old, new \in Long : Give([op |-> "diff", old |-> old, new |-> new])
       \/ \E old, new, text \in Medium : GiveApply(old, new, 0, text)
       \/ \E old, new \in Long : Len(old) = 5 /\ GiveApply(old, new, 1, old)
       \/ \E base, ours, theirs \in Short :
             Give([op |-> "merge", base |-> base, ours |-> ours, theirs |-> theirs])
       \/ \E ours, theirs \in Long :
             /\ Len(ours) >= 4 /\ Len(theirs) >= 4
             /\ Give([op |-> "merge", base |-> Alternating, ours |-> ours, theirs |-> theirs])

MCNext ==
    /\ UNCHANGED given
    /\ \/ given.op = "diff" /\ CallDiff(given.old, given.new)
       \/ given.op = "apply" /\ CallApply(given.old, given.new, given.context, given.text)
       \/ given.op = "merge" /\ CallMerge(given.base, given.ours, given.theirs)
       \/ /\ given.op = "series"
          /\ CallRangeDiff(given.old, given.new, given.pair, given.create, given.drop)
       \/ Return

MCSpec == MCInit /\ [][MCNext]_vars
===============================================================================
