----------------------------- MODULE Operations -----------------------------
(***************************************************************************)
(* The calls of Sequencer, Rebase and Stash one after the other, each ending  *)
(* where it should or breaking off on the way, and between them a user who    *)
(* resolves conflicts and changes files.                                     *)
(***************************************************************************)
EXTENDS Rebase, Stash

CONSTANTS MaxDepth,   \* bound: how many commits may lie behind HEAD
          MaxStashes, \* bound: how many stashes are kept
          MaxStops    \* bound: how many calls break off

VARIABLES stops,
          keep        \* a rebase keeps commits that have become empty

opVars == <<seqVars, stops, keep>>

NoAnswer == [op |-> "none", end |-> "done"]
Starts   == {"merge", "replay", "rebase", "am"}
Skips    == {"skip_rebase", "skip_am"}
Moves    == {"commit", "reset", "switch", "detach"}

Active(d) == \/ d.merging # NoCommit \/ d.picking # NoCommit
             \/ d.rebase.state # "none" \/ d.am.state # "none"

\* What the operation under way started from, as long as HEAD is left to it; whether
\* no call broke off since, and how many changes were skipped.
Nothing == [whole |-> FALSE]
Origin(op, stopped, after) ==
    IF ~Active(after) \/ op \in Moves THEN Nothing
    ELSE IF op \in Starts /\ ~Active(disk)
         THEN [whole |-> ~stopped, skips |-> 0, at |-> disk.at, on |-> disk.on, op |-> op,
               plan |-> CASE op = "rebase" -> after.rebase
                          [] op = "am" -> after.am
                          [] OTHER -> Inactive]
    ELSE IF began = Nothing THEN Nothing
    ELSE [began EXCEPT !.whole = @ /\ ~stopped,
                       !.skips = IF op \in Skips /\ after # disk THEN @ + 1 ELSE @]

Call(op, r) ==
    /\ answer = NoAnswer
    /\ \E k \in 1 .. Len(r.ways) :
         LET stopped == k < Len(r.ways)
         IN  /\ stopped => stops < MaxStops
             /\ disk'   = r.ways[k]
             /\ answer' = [op |-> op, end |-> IF stopped THEN "stopped" ELSE r.end]
             /\ stops'  = IF stopped THEN stops + 1 ELSE stops
             /\ began'  = Origin(op, stopped, r.ways[k])
             /\ Cardinality(Ancestors(r.ways[k].at)) <= MaxDepth
             /\ Len(r.ways[k].stashes) <= MaxStashes
    /\ UNCHANGED keep

Return ==
    /\ answer # NoAnswer
    /\ answer' = NoAnswer
    /\ UNCHANGED <<disk, began, stops, keep>>

\* A file gets content or goes; a path is added or taken out of the index.
Edit(p, w) ==
    /\ answer = NoAnswer
    /\ disk' = [disk EXCEPT !.files = w @@ W(disk)!Without(@, {p})]
    /\ UNCHANGED <<answer, began, stops, keep>>

Stage(p) ==
    /\ answer = NoAnswer
    /\ disk' = [disk EXCEPT !.index = {e \in @ : e.path # p}
                                      \cup W(disk)!FromTree(W(disk)!Only(disk.files, {p}))]
    /\ UNCHANGED <<answer, began, stops, keep>>
-------------------------------------------------------------------------------
\* An abort that is done brings back the commit and the branch that the operation
\* started from, with its index and tracked files, after any number of conflicts,
\* resolutions, continued or skipped changes and calls that broke off.
AbortOf == [merge |-> "abort_merge", replay |-> "abort_replay",
            rebase |-> "abort_rebase", am |-> "abort_am"]

AbortRestores ==
    [][began # Nothing /\ answer' = [op |-> AbortOf[began.op], end |-> "done"] =>
           /\ disk'.at = began.at /\ disk'.on = began.on
           /\ disk'.branches = [disk.branches EXCEPT ![began.on] = began.at]
           /\ disk'.index = W(disk)!FromTree(began.at.tree)
           /\ W(disk)!Only(disk'.files, DOMAIN began.at.tree) = began.at.tree]_opVars

\* A series that has run to its end without a call breaking off has each planned
\* change in the history of HEAD at most once, in the planned order, and has left out
\* only what was skipped or, in a rebase that drops them, what had become empty.
RECURSIVE Line(_, _)
Line(c, known) == IF c.parents = <<>> \/ c \in known THEN <<>>
                  ELSE Append(Line(c.parents[1], known), c.change)

Planned(op, state) ==
    IF op = "am" THEN [i \in DOMAIN state.mails |-> state.mails[i].change]
    ELSE LET all == state.done \o state.todo IN [i \in DOMAIN all |-> all[i].change]

SeriesComplete ==
    [][(/\ began # Nothing /\ answer'.end = "done" /\ began.whole
        /\ \/ began.op = "rebase" /\ answer'.op \in {"continue_rebase", "skip_rebase"}
           \/ began.op = "am" /\ answer'.op \in {"continue_am", "skip_am"}) =>
        LET plan == Planned(began.op, began.plan)
            known == IF began.op = "am" THEN Ancestors(began.at) ELSE {}
            new  == SelectSeq(Line(disk'.at, known), LAMBDA n : \E i \in DOMAIN plan : plan[i] = n)
            kept == SelectSeq(plan, LAMBDA n : \E i \in DOMAIN new : new[i] = n)
            skips == began.skips + (IF answer'.op \in Skips THEN 1 ELSE 0)
        IN  /\ new = kept
            /\ began.op = "am" \/ keep => Len(kept) >= Len(plan) - skips]_opVars

\* What a merge or replay under way is about goes only with an abort, or when it is in
\* the history of HEAD: also where a call breaks off.
Aborts == {AbortOf[op] : op \in Starts} \cup {"skip_rebase"}
NothingForgotten ==
    [][answer'.op \notin Aborts =>
        /\ disk.merging \in {NoCommit, disk'.merging} \cup Ancestors(disk'.at)
        /\ \/ disk.picking \in {NoCommit, disk'.picking}
           \/ \E c \in Ancestors(disk'.at) : c.parents = <<disk.at>>]_opVars

\* No call of the stash loses content, wherever it breaks off: what lies in files or was
\* put away is afterwards in a file, in the index, in a stash or on a branch; a file
\* with conflict markers has both sides.  (A file that was taken out of the index only,
\* at a path that HEAD has, is overwritten by a push.)
Pairs(t) == {<<p, t[p]>> : p \in DOMAIN t}
Work(d)  == Pairs(d.files) \cup
            UNION {Pairs(d.stashes[i].work) : i \in DOMAIN d.stashes} \cup
            UNION {Pairs(OthersOf(d.stashes[i])) : i \in DOMAIN d.stashes}
Staged(d) == {<<e.path, e.blob>> : e \in d.index}
Kept(d)  == Work(d) \cup Staged(d) \cup
            UNION {Pairs(d.stashes[i].index) : i \in DOMAIN d.stashes} \cup
            UNION {Pairs(c.tree) : c \in UNION {Ancestors(d.branches[b]) : b \in Branch}}

StashKeeps ==
    [][LET lost == (Work(disk) \cup IF answer'.op = "stash_push" THEN Staged(disk) ELSE {})
                   \ Kept(disk')
           hidden == IF answer'.op = "stash_push"
                     THEN W(disk)!Untracked \cap DOMAIN disk.at.tree ELSE {}
       IN  answer'.op \in {"stash_push", "stash_apply", "stash_pop"} =>
               \A c \in lost : c[1] \in hidden \/ <<c[1], Mixed>> \in Kept(disk')]_opVars
===============================================================================
