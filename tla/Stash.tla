-------------------------------- MODULE Stash -------------------------------
(***************************************************************************)
(* The stash: local changes are put away in commits, found through the log   *)
(* of one reference, and brought back by a merge.                            *)
(***************************************************************************)
EXTENDS Sequencer

\* others: the tree of untracked files, if there is one.
NoStash == [base |-> <<>>, index |-> <<>>, work |-> <<>>, others |-> {}]
OthersOf(s) == IF s.others = {} THEN <<>> ELSE CHOOSE t \in s.others : TRUE

\* The tracked files as they are, as a tree.
Snapshot(d) == W(d)!Only(d.files, W(d)!PathsOf(d.index))

\* Mutant: the files are put back before the stash is published.
StashPushLate(d, withUntracked) ==
    LET others == W(d)!Only(d.files, W(d)!Untracked)
        new == [base |-> d.at.tree, index |-> W(d)!TreeOf(d.index), work |-> Snapshot(d),
                others |-> IF withUntracked /\ DOMAIN others # {} THEN {others} ELSE {}]
    IN  IF Clean(d) \/ ~W(d)!Writable(d.index) THEN Ends(d, "refused")
        ELSE AndWrite(AndWrite(Checkout(d, d.at.tree, TRUE),
                               [stashes |-> <<new>> \o d.stashes]), [stash |-> new])

\* disk.stashes is the log, newest first; disk.stash the reference.  The log is
\* published before the reference, the reference before the files are put back.
StashPush(d, withUntracked) ==
    LET others == W(d)!Only(d.files, W(d)!Untracked)
        new == [base |-> d.at.tree, index |-> W(d)!TreeOf(d.index), work |-> Snapshot(d),
                others |-> IF withUntracked /\ DOMAIN others # {} THEN {others} ELSE {}]
        away(e) == IF withUntracked THEN W(e)!Without(e.files, DOMAIN others) ELSE e.files
    IN  IF \/ Clean(d) /\ ~(withUntracked /\ DOMAIN others # {})
           \/ ~W(d)!Writable(d.index)
        THEN Ends(d, "refused")
        ELSE Then(Then(AndWrite(Write(d, [stashes |-> <<new>> \o d.stashes]), [stash |-> new]),
                       LAMBDA e : Checkout(e, e.at.tree, TRUE)),
                  LAMBDA e : Write(e, [files |-> away(e)]))

\* Untracked files where the stash has changes, and files in the way of its own
\* untracked ones.
Collisions(d, s) ==
    {p \in W(d)!Untracked : W(d)!Only(s.work, {p}) # W(d)!Only(s.base, {p})}
    \cup (DOMAIN OthersOf(s) \cap DOMAIN d.files)

\* New files stay staged, other changes do not.
Unstaged(staged, merged) == W(disk)!FromTree(staged @@ merged)

\* Untracked files come back only where nothing lies.
RestoreOthers(d, s) ==
    IF DOMAIN OthersOf(s) \cap DOMAIN d.files # {} THEN Ends(d, "failed")
    ELSE Write(d, [files |-> OthersOf(s) @@ d.files])

\* The work of the stash is merged with that of the tracked files; what was staged
\* is staged again on demand, else new files only.
StashApply(d, i, reinstate) ==
    LET s       == d.stashes[i]
        staged  == W(d)!TreeOf(d.index)
        mine    == Snapshot(d)
        restage == reinstate /\ s.index # s.base /\ s.index # staged
        left    == Conflicts(s.base, mine, s.work)
        merged  == MergedTree(s.base, mine, s.work)
        next    == IF restage THEN W(d)!FromTree(MergedTree(s.base, staged, s.index))
                   ELSE Unstaged(staged, merged)
    IN  IF i > Len(d.stashes) \/ ~W(d)!Writable(d.index) THEN Ends(d, "refused")
        ELSE IF \/ Collisions(d, s) # {}
                \/ restage /\ Conflicts(s.base, staged, s.index) # {} THEN Ends(d, "refused")
        ELSE Then(Then(Then(Materialize(d, s.base, mine, s.work, TRUE),
             LAMBDA e : IF left # {} THEN Ends(e, "done") ELSE Write(e, [index |-> next])),
             LAMBDA e : RestoreOthers(e, s)),
             LAMBDA e : Ends(e, IF left # {} THEN "conflict" ELSE "done"))

\* The reference moves to the next stash, or goes; then the log follows.
StashDrop(d, i) ==
    LET rest == IF i > Len(d.stashes) THEN <<>> ELSE RemoveAt(d.stashes, i)
        next == IF rest = <<>> THEN NoStash ELSE rest[1]
    IN  IF i > Len(d.stashes) THEN Ends(d, "refused")
        ELSE IF rest # <<>> /\ i # 1 THEN Write(d, [stashes |-> rest])
        ELSE IF d.stash # d.stashes[i] THEN Ends(d, "refused")
        ELSE AndWrite(Write(d, [stash |-> next]), [stashes |-> rest])

StashPop(d, i, reinstate) ==
    Then(StashApply(d, i, reinstate), LAMBDA e : StashDrop(e, i))
===============================================================================
