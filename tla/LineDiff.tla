------------------------------- MODULE LineDiff -------------------------------
(***************************************************************************)
(* The edit script between two texts, its compaction for patch ids, and    *)
(* what merges and blame read off it (diff.rs).  A text is a sequence of   *)
(* whole lines, each ended by a newline; the limits on lines and on trace  *)
(* cells are left out.  Positions count from 0, as in the code, so line i  *)
(* is text[i + 1].                                                         *)
(***************************************************************************)
EXTENDS Integers, SequencesExt

Equal(line)  == <<"equal", line>>
Delete(line) == <<"delete", line>>
Insert(line) == <<"insert", line>>

OldKinds == {"equal", "delete"}
NewKinds == {"equal", "insert"}
InOld(e) == e[1] \in OldKinds
InNew(e) == e[1] \in NewKinds
Line(e) == e[2]

\* The edits of the lines from i to j, i excluded.
Edits(kind, text, i, j) == [n \in 1..j - i |-> <<kind, text[i + n]>>]

-------------------------------------------------------------------------------
(* myers: for every number of edits, how far each diagonal k = x - y reaches *)

Diagonals(d) == {k \in -d..d : (k + d) % 2 = 0}

\* Variant for the checks: the neighbour that has come less far is preferred.
FromBehind(v, d, k) == k = -d \/ (k # d /\ v[k - 1] > v[k + 1])

\* Whether diagonal k is entered from the one above, by an insertion.
FromAbove(v, d, k) == k = -d \/ (k # d /\ v[k - 1] < v[k + 1])

\* Past the lines that agree.
RECURSIVE Slide(_, _, _, _)
Slide(old, new, x, y) ==
    IF x < Len(old) /\ y < Len(new) /\ old[x + 1] = new[y + 1]
    THEN Slide(old, new, x + 1, y + 1) ELSE x

\* The neighbours a diagonal is entered from are of the round before.
Frontier(old, new, v, d) ==
    LET Entry(k) == IF FromAbove(v, d, k) THEN v[k + 1] ELSE v[k - 1] + 1
    IN  [k \in DOMAIN v |-> IF k \in Diagonals(d)
                            THEN Slide(old, new, Entry(k), Entry(k) - k) ELSE v[k]]

Corner(old, new, v, d) ==
    \E k \in Diagonals(d) : v[k] >= Len(old) /\ v[k] - k >= Len(new)

\* The frontiers of all rounds, the one that reaches the corner last.
RECURSIVE Rounds(_, _, _)
Rounds(old, new, trace) ==
    IF Len(trace) > 1 /\ Corner(old, new, Last(trace), Len(trace) - 2) THEN trace
    ELSE Rounds(old, new, Append(trace, Frontier(old, new, Last(trace), Len(trace) - 1)))

\* The edits that lead to (x, y) in d rounds, the last from trace[d + 1].
RECURSIVE Backtrack(_, _, _, _, _, _)
Backtrack(old, new, trace, d, x, y) ==
    IF d = 0
    THEN LET e == Min({x, y})
         IN  Edits("insert", new, 0, y - e) \o Edits("delete", old, 0, x - e)
               \o Edits("equal", old, x - e, x)
    ELSE LET v  == trace[d + 1]
             pk == IF FromAbove(v, d, x - y) THEN x - y + 1 ELSE x - y - 1
             e  == Max({0, Min({x - v[pk], y - v[pk] + pk})})
             equals == Edits("equal", old, x - e, x)
         IN  IF x - e = v[pk]
             THEN Append(Backtrack(old, new, trace, d - 1, x - e, y - e - 1),
                         Insert(new[y - e])) \o equals
             ELSE Append(Backtrack(old, new, trace, d - 1, x - e - 1, y - e),
                         Delete(old[x - e])) \o equals

Script(old, new, trace) == Backtrack(old, new, trace, Len(trace) - 2, Len(old), Len(new))

Myers(old, new) ==
    LET max == Len(old) + Len(new)
    IN  IF max = 0 THEN <<>>
        ELSE Script(old, new, Rounds(old, new, <<[k \in -(max + 1)..max + 1 |-> 0]>>))

-------------------------------------------------------------------------------
(* compact_patch_edits: groups of changed lines slide over equal lines *)

\* The ends of the group of changed lines at i.
GroupEnd(changed, i) == Min({j \in i..Len(changed) : j = Len(changed) \/ ~changed[j + 1]})
GroupStart(changed, i) == Max({j \in 0..i : j = 0 \/ ~changed[j]})

FirstGroup(changed) == [start |-> 0, end |-> GroupEnd(changed, 0)]

HasNext(changed, g) == g.end # Len(changed)
NextGroup(changed, g) == [start |-> g.end + 1, end |-> GroupEnd(changed, g.end + 1)]
PreviousGroup(changed, g) == [start |-> GroupStart(changed, g.start - 1), end |-> g.start - 1]

\* A pass over one text: its changed lines and the group that moves, the group of
\* the other text beside it, where the group last ended beside one that is not
\* empty, and whether every assertion held.
CanSlideUp(lines, p)   == p.group.start # 0 /\ lines[p.group.start] = lines[p.group.end]
CanSlideDown(lines, p) ==
    p.group.end # Len(lines) /\ lines[p.group.start + 1] = lines[p.group.end + 1]

MoveUp(p, g, changed, other) ==
    [p EXCEPT !.changed = changed,
              !.group = [start |-> GroupStart(changed, g.start - 1), end |-> g.end - 1],
              !.beside = PreviousGroup(other, @)]

SlideUp(p, other) ==
    IF p.beside.start = 0 THEN [p EXCEPT !.holds = FALSE]
    ELSE MoveUp(p, p.group,
                [p.changed EXCEPT ![p.group.start] = TRUE, ![p.group.end] = FALSE], other)

\* Beside changed lines of the other text.
Meet(p) == IF p.beside.end > p.beside.start THEN [p EXCEPT !.matching = p.group.end] ELSE p

MoveDown(p, g, changed, other) ==
    Meet([p EXCEPT !.changed = changed,
                   !.group = [start |-> g.start + 1, end |-> GroupEnd(changed, g.end + 1)],
                   !.beside = NextGroup(other, @)])

SlideDown(p, other) ==
    IF ~HasNext(other, p.beside) THEN [p EXCEPT !.holds = FALSE]
    ELSE MoveDown(p, p.group,
                  [p.changed EXCEPT ![p.group.start + 1] = FALSE, ![p.group.end + 1] = TRUE],
                  other)

RECURSIVE AllUp(_, _, _)
AllUp(lines, p, other) ==
    IF p.holds /\ CanSlideUp(lines, p) THEN AllUp(lines, SlideUp(p, other), other) ELSE p

RECURSIVE AllDown(_, _, _)
AllDown(lines, p, other) ==
    IF p.holds /\ CanSlideDown(lines, p) THEN AllDown(lines, SlideDown(p, other), other) ELSE p

\* Up, then down, until the group has met no other on the way.
UpAndDown(lines, p, other) ==
    LET Turn(q) == Meet([q EXCEPT !.earliest = q.group.end])
    IN  AllDown(lines, Turn(AllUp(lines, [p EXCEPT !.matching = -1], other)), other)

RECURSIVE Swing(_, _, _, _)
Swing(lines, p, size, other) ==
    IF p.group.end - p.group.start = size \/ ~p.holds THEN p
    ELSE Swing(lines, UpAndDown(lines, p, other), p.group.end - p.group.start, other)

\* Back up to where the other text has changed lines too.
RECURSIVE Align(_, _, _)
Align(lines, p, other) ==
    IF p.beside.end # p.beside.start \/ ~p.holds THEN p
    ELSE IF CanSlideUp(lines, p) THEN Align(lines, SlideUp(p, other), other)
    ELSE [p EXCEPT !.holds = FALSE]

Aligned(lines, p, other) ==
    IF p.group.end = p.earliest \/ p.matching = -1 THEN p ELSE Align(lines, p, other)

Settle(lines, p, other) ==
    IF p.group.end = p.group.start THEN p
    ELSE Aligned(lines, Swing(lines, p, 0, other), other)

\* The next group of each text, if the one has any; both must have one then.
Advance(p, other) ==
    IF HasNext(p.changed, p.group) /\ HasNext(other, p.beside)
    THEN [p EXCEPT !.group = NextGroup(p.changed, @), !.beside = NextGroup(other, @)]
    ELSE [p EXCEPT !.holds = @ /\ ~HasNext(p.changed, p.group) /\ ~HasNext(other, p.beside),
                   !.done = TRUE]

RECURSIVE Pass(_, _, _)
Pass(lines, p, other) ==
    IF p.done \/ ~p.holds THEN p
    ELSE Pass(lines, Advance(Settle(lines, p, other), other), other)

CompactChanges(lines, changed, other) ==
    Pass(lines, [changed |-> changed, group |-> FirstGroup(changed),
                 beside |-> FirstGroup(other), earliest |-> 0, matching |-> -1,
                 holds |-> TRUE, done |-> FALSE], other)

\* The script of two texts with their changed lines.
RECURSIVE Weave(_, _, _, _, _, _)
Weave(old, new, oldChanged, newChanged, i, j) ==
    IF i = Len(old) /\ j = Len(new) THEN <<>>
    ELSE IF i < Len(old) /\ oldChanged[i + 1]
    THEN Cons(Delete(old[i + 1]), Weave(old, new, oldChanged, newChanged, i + 1, j))
    ELSE IF j < Len(new) /\ newChanged[j + 1]
    THEN Cons(Insert(new[j + 1]), Weave(old, new, oldChanged, newChanged, i, j + 1))
    ELSE Cons(Equal(old[i + 1]), Weave(old, new, oldChanged, newChanged, i + 1, j + 1))

\* The lines a side of a script has, and which of them are changed.
Of(edits, kinds) == LET In(e) == e[1] \in kinds IN SelectSeq(edits, In)
Side(edits, kinds) == LET s == Of(edits, kinds) IN [i \in DOMAIN s |-> Line(s[i])]
Changed(edits, kinds) == LET s == Of(edits, kinds) IN [i \in DOMAIN s |-> s[i][1] # "equal"]

Compacted(edits, old, new, first, second) ==
    [holds |-> first.holds /\ second.holds,
     edits |-> IF first.holds /\ second.holds
               THEN Weave(old, new, first.changed, second.changed, 0, 0) ELSE edits]

Compact(edits) ==
    LET Then(old, new, first) ==
            Compacted(edits, old, new, first,
                      CompactChanges(new, Changed(edits, NewKinds), first.changed))
        From(old, new) ==
            Then(old, new, CompactChanges(old, Changed(edits, OldKinds), Changed(edits, NewKinds)))
    IN  From(Side(edits, OldKinds), Side(edits, NewKinds))

-------------------------------------------------------------------------------
\* unchanged_line_map: for every new line, the old line it is, or -1.
UnchangedLineMap(edits) ==
    LET Step(acc, e) ==
            [old |-> acc.old + IF InOld(e) THEN 1 ELSE 0,
             map |-> IF ~InNew(e) THEN acc.map
                     ELSE Append(acc.map, IF InOld(e) THEN acc.old ELSE -1)]
    IN  FoldLeft(Step, [old |-> 0, map |-> <<>>], edits).map

\* line_changes: the runs of deletions and insertions, as base lines from start to
\* end that are replaced.
NoChange == [start |-> -1, end |-> -1, replacement |-> <<>>]

LineChanges(edits) ==
    LET Close(acc) == IF acc.pending = NoChange THEN acc.changes
                      ELSE Append(acc.changes, acc.pending)
        Begun(acc) == IF acc.pending # NoChange THEN acc.pending
                      ELSE [start |-> acc.at, end |-> acc.at, replacement |-> <<>>]
        Step(acc, e) ==
            CASE e[1] = "equal" ->
                    [at |-> acc.at + 1, pending |-> NoChange, changes |-> Close(acc)]
              [] e[1] = "delete" ->
                    [acc EXCEPT !.at = @ + 1, !.pending = [Begun(acc) EXCEPT !.end = acc.at + 1]]
              [] e[1] = "insert" ->
                    [acc EXCEPT !.pending = [Begun(acc) EXCEPT
                                              !.replacement = Append(@, Line(e))]]
    IN  Close(FoldLeft(Step, [at |-> 0, pending |-> NoChange, changes |-> <<>>], edits))
===============================================================================
