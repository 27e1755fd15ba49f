--------------------------------- MODULE Texts ---------------------------------
(***************************************************************************)
(* The pure algorithms on texts and patches, one call at a time, and what  *)
(* their results have to be, said without the algorithms.                  *)
(***************************************************************************)
EXTENDS Patch, TextMerge, RangeDiff

VARIABLE call      \* the call made last, with its result

NoCall == [op |-> "none"]
Call(c) == call = NoCall /\ call' = c
Return  == call # NoCall /\ call' = NoCall

CallDiff(old, new) ==
    LET With(edits) == Call([op |-> "diff", old |-> old, new |-> new, edits |-> edits,
                             compact |-> Compact(edits), map |-> UnchangedLineMap(edits)])
    IN  With(Myers(old, new))

CallApply(old, new, context, text) ==
    Call([op |-> "apply", old |-> old, new |-> new, text |-> text,
          hunks |-> Hunks(Myers(old, new), context)])

CallMerge(base, ours, theirs) ==
    Call([op |-> "merge", base |-> base, ours |-> ours, theirs |-> theirs,
          result |-> MergeText(base, ours, theirs, "normal", "merge")])

CallRangeDiff(old, new, pair, create, drop) ==
    LET With(matching) ==
            Call([op |-> "series", old |-> old, new |-> new, pair |-> pair, create |-> create,
                  drop |-> drop, matching |-> matching,
                  rows |-> OrderedEntries(matching, Len(old))])
    IN  With(Correspondences(ExactMatches(old, new), pair, create, drop))

-------------------------------------------------------------------------------
(* Reference definitions *)

\* The length of a longest common subsequence.
Common(s, t) ==
    LET Pick(x, S) == SelectSeq([i \in DOMAIN x |-> <<i, x[i]>>], LAMBDA e : e[1] \in S)
        Lines(x, S) == LET p == Pick(x, S) IN [i \in DOMAIN p |-> p[i][2]]
        subs == {Lines(t, T) : T \in SUBSET DOMAIN t}
    IN  Max({Cardinality(S) : S \in {R \in SUBSET DOMAIN s : Lines(s, R) \in subs}})

Count(edits) == Cardinality({i \in DOMAIN edits : edits[i][1] # "equal"})

\* What a merge gives when one side is taken in every conflict.
Resolve(pieces, side) ==
    LET Take(p) == IF p.kind = "text" THEN p.lines
                   ELSE IF side = "ours" THEN p.ours ELSE p.theirs
    IN  FlattenSeq([i \in DOMAIN pieces |-> Take(pieces[i])])

\* Replaced lines of the base, or one place of two insertions.
Overlap(c, d) ==
    \/ \E i \in c.start..c.end - 1 : i \in d.start..d.end - 1
    \/ c.start = c.end /\ d.start = d.end /\ c.start = d.start
    \/ c.start = c.end /\ d.start < c.start /\ c.start < d.end
    \/ d.start = d.end /\ c.start < d.start /\ d.start < c.end

\* Changes, none of which overlaps another, made together; an insertion comes
\* before a change at the same place.
Together(base, changes) ==
    LET Before(c, d) == c.start < d.start \/ (c.start = d.start /\ c.end < d.end)
        order == SetToSortSeq(changes, Before)
    IN  Apply(base, order, 1, Len(order) + 1, 0, Len(base))

Changes(base, side) == LineChanges(Myers(base, side))

Clash(ours, theirs) ==
    \E i \in DOMAIN ours, j \in DOMAIN theirs :
        ours[i] # theirs[j] /\ Overlap(ours[i], theirs[j])

-------------------------------------------------------------------------------
\* A script leads from the one text to the other with as few edits as any; so does
\* the compacted one, on the way to which no assertion fails; and the line map
\* takes lines to equal lines, in order, and as many as the texts have in common.
Shortest(c, edits, common) ==
    /\ Side(edits, OldKinds) = c.old /\ Side(edits, NewKinds) = c.new
    /\ Count(edits) = Len(c.old) + Len(c.new) - 2 * common

Maps(c, map, mapped, common) ==
    /\ Len(map) = Len(c.new) /\ Cardinality(mapped) = common
    /\ \A i \in mapped : c.old[map[i] + 1] = c.new[i]
    /\ \A i, j \in mapped : i < j => map[i] < map[j]

ScriptRight(c, common) ==
    /\ c.compact.holds
    /\ \A edits \in {c.edits, c.compact.edits} : Shortest(c, edits, common)
    /\ Maps(c, c.map, {i \in DOMAIN c.map : c.map[i] # -1}, common)

ScriptsShortest == call.op = "diff" => ScriptRight(call, Common(call.old, call.new))

\* A patch makes the new text of the old one, reversed the old one of the new one,
\* with any context; and whatever text it can be applied to, it can be taken back
\* from.
TakesBack(back, text, made) ==
    ~made.refused => ApplyHunks(made.output, back) = [refused |-> FALSE, output |-> text]

PatchRight(c, back) ==
    /\ \A i \in DOMAIN c.hunks : CountsMatch(c.hunks[i])
    /\ ApplyHunks(c.old, c.hunks) = [refused |-> FALSE, output |-> c.new]
    /\ \A text \in {c.old, c.text} : TakesBack(back, text, ApplyHunks(text, c.hunks))

PatchesApply == call.op = "apply" => PatchRight(call, Reversed(call.hunks))

\* A merge that returns: "identical edits are deduplicated, and only overlapping
\* changes receive" markers (docs/merge.md:28); what neither side touches and what
\* only one changes is taken over, whichever side is taken in the conflicts; the
\* sides may be exchanged; and the styles and favours agree with each other.
Exchanged(r, swapped) ==
    ~swapped.panics =>
        /\ swapped.conflicts = r.conflicts
        /\ Resolve(swapped.pieces, "ours") = Resolve(r.pieces, "theirs")
        /\ Resolve(swapped.pieces, "theirs") = Resolve(r.pieces, "ours")

Agrees(r, side, favoured, diff3) ==
    /\ diff3.conflicts = r.conflicts
    /\ Resolve(favoured.pieces, side) = Resolve(r.pieces, side)
    /\ Resolve(diff3.pieces, side) = Resolve(r.pieces, side)

MergeRight(c, r, ours, theirs, clash, result) ==
    /\ r.conflicts > 0 => clash
    /\ ~clash => result = Together(c.base, ToSet(ours) \cup ToSet(theirs))
    /\ c.ours = c.base => result = c.theirs
    /\ c.theirs \in {c.base, c.ours} => result = c.ours
    /\ \A s \in {"ours", "theirs"} :
          Agrees(r, s, MergeChanges(c.base, ours, theirs, s, "merge"),
                 MergeChanges(c.base, ours, theirs, "normal", "diff3"))
    /\ Exchanged(r, MergeChanges(c.base, theirs, ours, "normal", "merge"))

MergeSound ==
    LET With(ours, theirs) ==
            MergeRight(call, call.result, ours, theirs, Clash(ours, theirs),
                       Resolve(call.result.pieces, "ours"))
    IN  call.op = "merge" /\ ~call.result.panics =>
            With(Changes(call.base, call.ours), Changes(call.base, call.theirs))

\* "independent edits within the same file combine cleanly" (docs/merge.md:27): a
\* merge of edits that do not overlap returns, with all of them.
IndependentCombine ==
    call.op = "merge" =>
        Clash(Changes(call.base, call.ours), Changes(call.base, call.theirs))
            \/ (~call.result.panics /\ call.result.conflicts = 0)

\* The cost of pairing new patches with old ones as m says.
Price(c, m) ==
    LET paired == {n \in DOMAIN m : m[n] # 0}
        Sum(f, S) == FoldSet(LAMBDA i, acc : acc + f[i], 0, S)
    IN  Sum([n \in DOMAIN m |-> IF m[n] = 0 THEN c.create[n]
                               ELSE IF c.new[n] = c.old[m[n]] THEN 0 ELSE c.pair[n][m[n]]],
            DOMAIN m)
          + Sum(c.drop, DOMAIN c.drop \ ToSet(m))

\* Equal patches are paired, in order; the others so that no pairing costs less;
\* every patch is shown once, in the order of its series but for the dropped ones,
\* each of which comes after all that stand before it.
Pairings(c, exact) ==
    {m \in [DOMAIN c.new -> 0..Len(c.old)] :
        /\ \A i, j \in DOMAIN m : i # j /\ m[i] # 0 => m[i] # m[j]
        /\ \A n \in DOMAIN m : exact[n] # 0 => m[n] = exact[n]}

CheapestOf(c, pairings) ==
    c.matching \in pairings /\ \A m \in pairings : Price(c, c.matching) <= Price(c, m)

ShowsAll(c, rows) ==
    LET IsNew(r) == r.new # 0
        news == SelectSeq(rows, IsNew)
    IN  /\ [i \in DOMAIN news |-> news[i].new] = [n \in DOMAIN c.new |-> n]
        /\ \A i \in DOMAIN news : news[i].old = c.matching[news[i].new]
        /\ \A o \in DOMAIN c.old : Cardinality({i \in DOMAIN rows : rows[i].old = o}) = 1
        /\ \A i, j \in DOMAIN rows :
              i < j /\ rows[i].new = 0 => rows[j].old = 0 \/ rows[i].old < rows[j].old

PairingCheapest ==
    call.op = "series" =>
        /\ CheapestOf(call, Pairings(call, ExactMatches(call.old, call.new)))
        /\ ShowsAll(call, call.rows)
===============================================================================
