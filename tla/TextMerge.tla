------------------------------- MODULE TextMerge -------------------------------
(***************************************************************************)
(* The three-way merge of one text (merge_text_configured, diff.rs), which *)
(* merge_file, tree merges and replayed commits share.  A conflict in the  *)
(* output is one item that holds what stands between its markers.  The     *)
(* changes of the two sides are those of LineDiff.                         *)
(***************************************************************************)
EXTENDS LineDiff

\* Insertions at one place are not disjoint; touching changes are.
Disjoint(l, r) ==
    /\ ~(l.start = l.end /\ r.start = r.end /\ l.start = r.start)
    /\ l.end <= r.start \/ r.end <= l.start

\* collect_overlapping: the changes from index i on that touch the region, one by
\* one, each extending it.
RECURSIVE Collect(_, _, _, _)
Collect(changes, i, start, end) ==
    IF i <= Len(changes) /\ (changes[i].start < end \/ changes[i].start = start)
    THEN Collect(changes, i + 1, start, Max({end, changes[i].end}))
    ELSE [next |-> i, end |-> end]

Collection(o, t, end) == [ours |-> o, theirs |-> t, end |-> end]

CollectBoth(ours, theirs, c, start) ==
    LET Theirs(d) == LET e == Collect(theirs, c.theirs, start, d.end)
                     IN  Collection(d.next, e.next, e.end)
    IN  Theirs(Collect(ours, c.ours, start, c.end))

\* Both sides are collected until neither extends the region.
RECURSIVE Collected(_, _, _, _, _)
Collected(ours, theirs, c, d, start) ==
    IF c = d THEN c
    ELSE Collected(ours, theirs, CollectBoth(ours, theirs, c, start), c, start)

\* apply_changes: the base from start to end with changes i to j - 1 made.
Apply(base, changes, i, j, start, end) ==
    LET Step(acc, c) ==
            [out |-> acc.out \o SubSeq(base, acc.at + 1, c.start) \o c.replacement, at |-> c.end]
        done == FoldLeft(Step, [out |-> <<>>, at |-> start], SubSeq(changes, i, j - 1))
    IN  done.out \o SubSeq(base, done.at + 1, end)

\* Variant for the checks: a suffix may reach into the prefix.
AnyRoom(shortest, prefix) == shortest

\* The lines of the shorter side that may be part of a common suffix.
Remaining(shortest, prefix) == shortest - prefix

\* trim_common_conflict_lines
Trim(ours, theirs) ==
    LET shortest == Min({Len(ours), Len(theirs)})
        Same(n) == SubSeq(ours, 1, n) = SubSeq(theirs, 1, n)
        p == Max({n \in 0..shortest : Same(n)})
        Tails(n) == SubSeq(ours, Len(ours) - n + 1, Len(ours))
                      = SubSeq(theirs, Len(theirs) - n + 1, Len(theirs))
        s == Max({n \in 0..Remaining(shortest, p) : Tails(n)})
    IN  [prefix |-> SubSeq(ours, 1, p),
         ours   |-> SubSeq(ours, p + 1, Len(ours) - s),
         theirs |-> SubSeq(theirs, p + 1, Len(theirs) - s),
         suffix |-> SubSeq(ours, Len(ours) - s + 1, Len(ours))]

Untrimmed(ours, theirs) ==
    [prefix |-> <<>>, ours |-> ours, theirs |-> theirs, suffix |-> <<>>]

\* The output is made of pieces: lines, and conflicts.
Text(lines) == [kind |-> "text", lines |-> lines]
Conflict(ours, base, theirs) ==
    [kind |-> "conflict", ours |-> ours, base |-> base, theirs |-> theirs]

\* What a region that both sides changed becomes.
Middle(r, base, favor, style) ==
    CASE favor = "ours"   -> Text(r.ours)
      [] favor = "theirs" -> Text(r.theirs)
      [] favor = "union"  -> Text(r.ours \o r.theirs)
      [] favor = "normal" -> Conflict(r.ours, IF style = "merge" THEN <<>> ELSE base, r.theirs)

Differing(r, base, favor, style) ==
    <<Text(r.prefix), Middle(r, base, favor, style), Text(r.suffix)>>

Region(ours, base, theirs, favor, style) ==
    IF ours = theirs THEN <<Text(ours)>>
    ELSE Differing(IF style = "diff3" THEN Untrimmed(ours, theirs) ELSE Trim(ours, theirs),
                   base, favor, style)

\* append_change.  The base from where the output has come to, up to the change,
\* is a slice that must not end before it begins: the call panics if it does.
AppendChange(base, m, c) ==
    IF m.at > c.start THEN [m EXCEPT !.panics = TRUE]
    ELSE [m EXCEPT !.out = Append(@, Text(SubSeq(base, m.at + 1, c.start) \o c.replacement)),
                   !.at = c.end]

MergeRegion(base, ours, theirs, m, start, c, favor, style) ==
    IF m.at > start THEN [m EXCEPT !.panics = TRUE]
    ELSE [m EXCEPT !.out = @ \o <<Text(SubSeq(base, m.at + 1, start))>>
                             \o Region(Apply(base, ours, m.o, c.ours, start, c.end),
                                       SubSeq(base, start + 1, c.end),
                                       Apply(base, theirs, m.t, c.theirs, start, c.end),
                                       favor, style),
                   !.at = c.end, !.o = c.ours, !.t = c.theirs]

\* The region that begins with one change of each side, and all it grows to.
RegionAt(ours, theirs, m, start) ==
    LET end   == Max({ours[m.o].end, theirs[m.t].end})
        first == Collection(m.o, m.t, end)
    IN  Collected(ours, theirs, CollectBoth(ours, theirs, first, start), first, start)

\* One change of the one side, or a region of both.
MergeStep(base, ours, theirs, m, favor, style) ==
    LET hasOurs   == m.o <= Len(ours)
        hasTheirs == m.t <= Len(theirs)
        apart == hasOurs /\ hasTheirs => Disjoint(ours[m.o], theirs[m.t])
        oursFirst == hasOurs /\ (hasTheirs => ours[m.o].start <= theirs[m.t].start)
        start == Min({ours[m.o].start, theirs[m.t].start})
    IN  IF ~apart
        THEN MergeRegion(base, ours, theirs, m, start,
                         RegionAt(ours, theirs, m, start), favor, style)
        ELSE IF oursFirst THEN [AppendChange(base, m, ours[m.o]) EXCEPT !.o = @ + 1]
        ELSE [AppendChange(base, m, theirs[m.t]) EXCEPT !.t = @ + 1]

RECURSIVE MergeFrom(_, _, _, _, _, _)
MergeFrom(base, ours, theirs, m, favor, style) ==
    IF m.panics THEN m
    ELSE IF m.o > Len(ours) /\ m.t > Len(theirs)
    THEN [m EXCEPT !.out = Append(@, Text(SubSeq(base, m.at + 1, Len(base))))]
    ELSE MergeFrom(base, ours, theirs,
                   MergeStep(base, ours, theirs, m, favor, style), favor, style)

\* merge_text_configured
Merged(m) ==
    LET Conflicts(p) == p.kind = "conflict"
    IN  [panics |-> m.panics, pieces |-> m.out,
         conflicts |-> Len(SelectSeq(m.out, Conflicts))]

MergeChanges(base, ours, theirs, favor, style) ==
    Merged(MergeFrom(base, ours, theirs,
                     [out |-> <<>>, at |-> 0, o |-> 1, t |-> 1, panics |-> FALSE],
                     favor, style))

MergeText(base, ours, theirs, favor, style) ==
    MergeChanges(base, LineChanges(Myers(base, ours)), LineChanges(Myers(base, theirs)),
                 favor, style)
===============================================================================
