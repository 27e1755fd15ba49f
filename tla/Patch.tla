--------------------------------- MODULE Patch ---------------------------------
(***************************************************************************)
(* The hunks of a unified patch (diff.rs) and their application (apply.rs) *)
(* to one text.  Headers, modes, the text form of a hunk, and last lines   *)
(* without a newline are left out.                                         *)
(***************************************************************************)
EXTENDS LineDiff

\* hunk_ranges: the changes no more than two contexts apart, with their context.
Ranges(edits, context) ==
    LET changes == {i \in DOMAIN edits : edits[i][1] # "equal"}
        Opens(i) == \A j \in changes : j < i => i - j > 2 * context + 1
        starts == {i \in changes : Opens(i)}
        LastOf(s) == Max({i \in changes : \A t \in starts : t > s => i < t})
    IN  {<<Max({s - context, 1}), Min({LastOf(s) + context, Len(edits)})>> : s \in starts}

Old(lines) == Of(lines, OldKinds)
New(lines) == Of(lines, NewKinds)

\* Variant for the checks: an empty range starts at the line after it.
AfterGap(before, lines) == before + 1

\* A range that is empty starts at the line before it.
RangeStart(before, lines) == IF lines = 0 THEN before ELSE before + 1

Hunk(edits, range) ==
    LET before == SubSeq(edits, 1, range[1] - 1)
        lines  == SubSeq(edits, range[1], range[2])
        oldCount == Len(Old(lines))
        newCount == Len(New(lines))
    IN  [oldStart |-> RangeStart(Len(Old(before)), oldCount), oldCount |-> oldCount,
         newStart |-> RangeStart(Len(New(before)), newCount), newCount |-> newCount,
         lines |-> lines]

\* render_hunks
Hunks(edits, context) ==
    LET Before(r, s) == r[1] < s[1]
        ranges == SetToSortSeq(Ranges(edits, context), Before)
    IN  [i \in DOMAIN ranges |-> Hunk(edits, ranges[i])]

\* validate_hunk_counts
CountsMatch(hunk) ==
    hunk.oldCount = Len(Old(hunk.lines)) /\ hunk.newCount = Len(New(hunk.lines))

\* apply_hunks, for one hunk: to the lines at the place it names and no other.
ApplyHunk(input, acc, hunk) ==
    LET start == IF hunk.oldCount = 0 THEN hunk.oldStart ELSE Max({hunk.oldStart - 1, 0})
        end   == start + Len(Old(hunk.lines))
    IN  IF acc.refused \/ start < acc.cursor \/ start > Len(input) \/ end > Len(input)
             \/ SubSeq(input, start + 1, end) # Side(hunk.lines, OldKinds)
        THEN [acc EXCEPT !.refused = TRUE]
        ELSE [acc EXCEPT !.output = @ \o SubSeq(input, acc.cursor + 1, start)
                                      \o Side(hunk.lines, NewKinds),
                         !.cursor = end]

ApplyHunks(input, hunks) ==
    LET Step(acc, hunk) == ApplyHunk(input, acc, hunk)
        done == FoldLeft(Step, [cursor |-> 0, output |-> <<>>, refused |-> FALSE], hunks)
    IN  [refused |-> done.refused,
         output |-> done.output \o SubSeq(input, done.cursor + 1, Len(input))]

\* reverse_patch
Reversed(hunks) ==
    LET Turn(e) == CASE InOld(e) /\ InNew(e) -> e
                     [] InOld(e) -> Insert(Line(e))
                     [] InNew(e) -> Delete(Line(e))
        Swap(h) == [oldStart |-> h.newStart, oldCount |-> h.newCount,
                    newStart |-> h.oldStart, newCount |-> h.oldCount,
                    lines |-> [i \in DOMAIN h.lines |-> Turn(h.lines[i])]]
    IN  [i \in DOMAIN hunks |-> Swap(hunks[i])]
===============================================================================
