------------------------------- MODULE RangeDiff -------------------------------
(***************************************************************************)
(* The pairing of two series of patches (range_diff.rs): equal patches     *)
(* first, the others by a least-cost assignment, and the order in which    *)
(* the pairs are shown.  Positions count from 1.  What a pair costs is     *)
(* given: it is the length of the difference of two patches.               *)
(***************************************************************************)
EXTENDS Integers, SequencesExt

\* Larger than any cost; the code has i64::MAX / 16.
Infinite == 1000

\* find_exact_matches: each new patch takes the first equal old one that is left.
\* diffs are compared; the result maps new positions to old ones, 0 for none.
ExactMatches(old, new) ==
    LET Step(m, patch) ==
            LET free == {i \in DOMAIN old : old[i] = patch /\ i \notin ToSet(m)}
            IN  Append(m, IF free = {} THEN 0 ELSE Min(free))
    IN  FoldLeft(Step, <<>>, new)

\* The matrix of assign_correspondences: rows are new patches, then one for every
\* old patch that may be dropped; columns are old patches, then one for every new
\* patch that may be added.  pair[n][o], create of new patches and drop of old ones.
Costs(exact, pair, create, drop) ==
    LET news == Len(create)
        olds == Len(drop)
        size == olds + news
        Paired(o) == o \in ToSet(exact)
        Cell(r, c) ==
            CASE r <= news /\ c <= olds ->
                    IF exact[r] = c THEN 0
                    ELSE IF exact[r] = 0 /\ ~Paired(c) THEN pair[r][c] ELSE Infinite
              [] r <= news /\ c > olds -> IF exact[r] = 0 THEN create[r] ELSE Infinite
              [] r > news /\ c <= olds -> IF Paired(c) THEN Infinite ELSE drop[c]
              [] OTHER -> 0
    IN  [r \in 1..size |-> [c \in 1..size |-> Cell(r, c)]]

-------------------------------------------------------------------------------
(* minimum_assignment: rows enter one by one; each is placed by the cheapest *)
(* path of moves, under potentials of rows and columns.                      *)

\* Variant for the checks: a move is taken at its cost, whatever the potentials.
Unreduced(costs, s, row, c) == costs[row][c]

Reduced(costs, s, row, c) == costs[row][c] - s.rowPotential[row] - s.columnPotential[c]

\* One column more is reached, from the column reached last.
Extend(costs, s) ==
    LET n    == Len(costs)
        row  == s.columnRow[s.column]
        used == s.used \cup {s.column}
        open == 1..n \ used
        Better(c) == c \in open /\ Reduced(costs, s, row, c) < s.minimum[c]
        minimum == [c \in 1..n |-> IF Better(c) THEN Reduced(costs, s, row, c)
                                   ELSE s.minimum[c]]
        delta == Min({minimum[c] : c \in open} \cup {Infinite})
        Uses(r) == \E c \in used : s.columnRow[c] = r
    IN  IF delta = Infinite THEN [s EXCEPT !.refused = TRUE]
        ELSE [s EXCEPT
                !.used = used, !.column = Min({c \in open : minimum[c] = delta}),
                !.path = [c \in 1..n |-> IF Better(c) THEN s.column ELSE @[c]],
                !.minimum = [c \in 1..n |-> IF c \in open THEN minimum[c] - delta ELSE minimum[c]],
                !.rowPotential = [r \in DOMAIN @ |-> IF Uses(r) THEN @[r] + delta ELSE @[r]],
                !.columnPotential = [c \in DOMAIN @ |-> IF c \in used THEN @[c] - delta ELSE @[c]]]

RECURSIVE Search(_, _)
Search(costs, s) ==
    LET t == Extend(costs, s)
    IN  IF t.refused \/ t.columnRow[t.column] = 0 THEN t ELSE Search(costs, t)

\* The rows along the path move by one column each.
RECURSIVE Shift(_)
Shift(s) ==
    IF s.column = 0 THEN s
    ELSE LET previous == s.path[s.column]
         IN  Shift([s EXCEPT !.columnRow[s.column] = s.columnRow[previous],
                             !.column = previous])

PlaceRow(costs, s, row) ==
    LET n == Len(costs)
        t == Search(costs, [s EXCEPT !.columnRow[0] = row, !.column = 0, !.used = {},
                                     !.minimum = [c \in 1..n |-> Infinite]])
    IN  IF s.refused THEN s ELSE IF t.refused THEN t ELSE Shift(t)

MinimumAssignment(costs) ==
    LET n == Len(costs)
        Place(s, row) == PlaceRow(costs, s, row)
        done == FoldLeft(Place,
                    [rowPotential |-> [r \in 1..n |-> 0], columnPotential |-> [c \in 0..n |-> 0],
                     columnRow |-> [c \in 0..n |-> 0], path |-> [c \in 1..n |-> 0],
                     column |-> 0, used |-> {}, minimum |-> <<>>, refused |-> FALSE],
                    [i \in 1..n |-> i])
    IN  [refused |-> done.refused,
         column |-> [r \in 1..n |-> IF done.refused THEN 0
                                    ELSE CHOOSE c \in 1..n : done.columnRow[c] = r]]

\* For every new patch the old one it corresponds to, 0 for none.
Correspondences(exact, pair, create, drop) ==
    LET a == MinimumAssignment(Costs(exact, pair, create, drop))
    IN  [n \in DOMAIN create |-> IF a.column[n] <= Len(drop) THEN a.column[n] ELSE exact[n]]

-------------------------------------------------------------------------------
(* ordered_entries *)

Row(o, n) == [old |-> o, new |-> n]

RECURSIVE Show(_, _, _, _, _, _)
Show(matching, olds, o, n, shown, rows) ==
    LET news == Len(matching)
        dropped(i) == i \notin ToSet(matching)
    IN  IF o <= olds /\ o \in shown THEN Show(matching, olds, o + 1, n, shown, rows)
        ELSE IF o <= olds /\ dropped(o)
        THEN Show(matching, olds, o + 1, n, shown, Append(rows, Row(o, 0)))
        ELSE IF n <= news /\ matching[n] = 0
        THEN Show(matching, olds, o, n + 1, shown, Append(rows, Row(0, n)))
        ELSE IF n <= news
        THEN Show(matching, olds, o, n + 1, shown \cup {matching[n]},
                  Append(rows, Row(matching[n], n)))
        ELSE rows

OrderedEntries(matching, olds) == Show(matching, olds, 1, 1, {}, <<>>)
===============================================================================
