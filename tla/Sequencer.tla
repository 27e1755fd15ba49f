------------------------------ MODULE Sequencer -----------------------------
(***************************************************************************)
(* Calls that carry several commits or files through several stages: commit, *)
(* reset, switch, merge, cherry-pick and revert, rebase, am and stash.  Most  *)
(* can stop with a conflict, to be continued, skipped or aborted later, and   *)
(* each can break off between two files it writes.                            *)
(*                                                                         *)
(* The repository on disk is one record, and a procedure gives the sequence   *)
(* of records that it leads through; a call that breaks off leaves one of      *)
(* them.  A commit is what its object says: tree, parents and, for a message,   *)
(* the number of the change it introduces.  Lock files of calls that broke     *)
(* off are taken to be removed; logs, renames and file limits are left out.    *)
(***************************************************************************)
EXTENDS Naturals, FiniteSets, SequencesExt

CONSTANTS Path, Blob, Empty, Ignored,   \* as in WorkTree
          Mixed,      \* a blob with conflict markers
          Branch      \* the names of branches

ASSUME SequencerAssumption == Mixed \in Blob /\ Branch # {}

VARIABLES disk,       \* the files of the repository and the working tree
          answer,     \* the call that has just ended
          began       \* what the operation under way started from

seqVars == <<disk, answer, began>>

\* The index and the working tree of a disk, as their own modules see them.
W(d) == INSTANCE Sparse WITH host <- FALSE, files <- d.files, index <- d.index,
                             head <- d.at.tree, last <- 0, cones <- {<<>>}

-------------------------------------------------------------------------------
NoCommit == [tree |-> <<>>, parents |-> <<>>, change |-> 0]
NewCommit(t, parents, change) == [tree |-> t, parents |-> parents, change |-> change]

RECURSIVE Ancestors(_)
Ancestors(c) == {c} \cup UNION {Ancestors(c.parents[i]) : i \in 1 .. Len(c.parents)}

MergeBases(a, b) ==
    LET common == Ancestors(a) \cap Ancestors(b)
    IN  {c \in common : \A e \in common \ {c} : c \notin Ancestors(e)}

\* at is the commit of HEAD, on the branch that HEAD names, or Detached.
Detached == "detached"

\* MERGE_HEAD, CHERRY_PICK_HEAD or REVERT_HEAD, MERGE_MSG, ORIG_HEAD and the files of
\* a rebase or am.  A message is the number of a change, in a set of its own.
NoMessage == {}
Inactive  == [state |-> "none"]

Idle == [merging |-> NoCommit, picking |-> NoCommit, kind |-> "pick", message |-> NoMessage,
         orig |-> NoCommit, rebase |-> Inactive, am |-> Inactive]

-------------------------------------------------------------------------------
\* A procedure: the disks it leads through, and how it ends.
Ends(d, end) == [ways |-> <<d>>, end |-> end]
Write(d, u)  == [ways |-> <<d, u @@ d>>, end |-> "done"]

Then(r, P(_)) ==
    IF r.end # "done" THEN r
    ELSE LET s == P(Last(r.ways)) IN [ways |-> r.ways \o Tail(s.ways), end |-> s.end]

AndWrite(r, u) == Then(r, LAMBDA d : Write(d, u))
EndsWith(r, end) == Then(r, LAMBDA d : Ends(d, end))

ClearMerge(r)  == AndWrite(AndWrite(r, [merging |-> NoCommit]), [message |-> NoMessage])
ClearReplay(r) == AndWrite(AndWrite(r, [picking |-> NoCommit]), [message |-> NoMessage])

-------------------------------------------------------------------------------
\* Checkout of a tree: files that go, files that come, the index.
Checkout(d, t, force) ==
    LET cur  == W(d)!Plain(d.index)
        gone == W(d)!Without(d.files, DOMAIN cur \ DOMAIN t)
        same == {p \in DOMAIN t : ~force /\ W(d)!Same(t, cur, p)}
        full == W(d)!Without(t, same) @@ gone
        next == {cur[p] : p \in same} \cup W(d)!FromTree(W(d)!Without(t, same))
    IN  IF ~force /\ W(d)!CheckoutConflict(t) THEN Ends(d, "refused")
        ELSE AndWrite(AndWrite(Write(d, [files |-> gone]), [files |-> full]), [index |-> next])

\* HEAD, or the branch it names, moves on.
MoveHead(d, c) ==
    Write(d, IF d.on = Detached THEN [at |-> c]
             ELSE [at |-> c, branches |-> [d.branches EXCEPT ![d.on] = c]])

Reset(d, c, mode) ==
    Then(CASE mode = "soft"  -> Ends(d, "done")
           [] mode = "mixed" -> Write(d, [index |-> W(d)!FromTree(c.tree)])
           [] mode = "hard"  -> Checkout(d, c.tree, TRUE),
         LAMBDA e : MoveHead(e, c))

Switch(d, b, force) ==
    LET c == d.branches[b]
    IN  IF c = NoCommit THEN Ends(d, "refused")
        ELSE AndWrite(Checkout(d, c.tree, force), [on |-> b, at |-> c])

SwitchDetached(d, c, force) ==
    AndWrite(Checkout(d, c.tree, force), [on |-> Detached, at |-> c])

\* No staged and no local change.
Clean(d) == W(d)!StagedChanges \cup W(d)!LocalChanges = {}

-------------------------------------------------------------------------------
\* A commit of the index; it ends a merge, but no other operation.
MayCommit(d, duringAm) ==
    /\ d.picking = NoCommit /\ d.rebase.state = "none"
    /\ duringAm \/ d.am.state = "none"

MergeParents(d) == IF d.merging \in {NoCommit, d.at} THEN <<>> ELSE <<d.merging>>

Commit(d, change, amend, emptyToo, duringAm) ==
    LET parents == IF amend THEN d.at.parents ELSE <<d.at>> \o MergeParents(d)
        c == NewCommit(W(d)!TreeOf(d.index), parents, change)
        refused == \/ ~MayCommit(d, duringAm)
                   \/ ~W(d)!Writable(d.index)
                   \/ amend /\ d.merging # NoCommit
                   \/ ~emptyToo /\ ~amend /\ d.merging = NoCommit /\ c.tree = d.at.tree
    IN  IF refused THEN Ends(d, "refused")
        ELSE IF d.merging = NoCommit THEN MoveHead(d, c)
        ELSE ClearMerge(MoveHead(d, c))

-------------------------------------------------------------------------------
\* Three trees merged: per path one side, or a conflict with a file to show for it.
\* A text of which all sides have changed is merged as a whole, with markers.
Conflicted(b, o, t, p) ==
    LET B == W(disk)!Only(b, {p}) O == W(disk)!Only(o, {p}) T == W(disk)!Only(t, {p})
    IN  O # T /\ O # B /\ T # B

Working(b, o, t, p) ==
    IF ~Conflicted(b, o, t, p)
    THEN W(disk)!Only(IF W(disk)!Only(o, {p}) = W(disk)!Only(b, {p}) THEN t ELSE o, {p})
    ELSE p :> (IF p \in DOMAIN b \cap DOMAIN o \cap DOMAIN t THEN Mixed
               ELSE IF p \in DOMAIN o THEN o[p] ELSE t[p])

Paths(b, o, t) == DOMAIN b \cup DOMAIN o \cup DOMAIN t
Conflicts(b, o, t) == {p \in Paths(b, o, t) : Conflicted(b, o, t, p)}

RECURSIVE Joined(_)
Joined(ts) == IF ts = {} THEN <<>>
              ELSE LET t == CHOOSE t \in ts : TRUE IN t @@ Joined(ts \ {t})

MergedTree(b, o, t) == Joined({Working(b, o, t, p) : p \in Paths(b, o, t)})

Stages(b, o, t) ==
    UNION {{[W(disk)!Entry(p, side[2][p]) EXCEPT !.stage = side[1]] :
                side \in {s \in {<<1, b>>, <<2, o>>, <<3, t>>} : p \in DOMAIN s[2]}} :
           p \in Conflicts(b, o, t)}

\* The result in the working tree; then the index learns of the conflicts.
Materialize(d, b, o, t, force) ==
    LET left == Conflicts(b, o, t)
    IN  Then(Checkout(d, MergedTree(b, o, t), force), LAMBDA e :
             IF left = {} THEN Ends(e, "done")
             ELSE Write(e, [index |-> {i \in e.index : i.path \notin left} \cup Stages(b, o, t)]))

\* Several bases are merged into one tree first, two at a time.
BaseTree(bases) ==
    LET first == CHOOSE c \in bases : TRUE
        over(c, e) == LET m == MergeBases(c, e)
                      IN  IF m = {} THEN <<>> ELSE (CHOOSE x \in m : TRUE).tree
    IN  IF Cardinality(bases) = 1 THEN first.tree
        ELSE LET second == CHOOSE c \in bases \ {first} : TRUE
             IN  MergedTree(over(first, second), first.tree, second.tree)

-------------------------------------------------------------------------------
\* Mutant: the state goes before the branch moves.
FinishMergeForgetting(d, t) ==
    Then(ClearMerge(Ends(d, "done")),
         LAMBDA e : MoveHead(e, NewCommit(t, <<d.at, d.merging>>, 0)))

FinishMerge(d, t) ==
    ClearMerge(MoveHead(d, NewCommit(t, <<d.at, d.merging>>, 0)))

Merge(d, target, ff, noCommit) ==
    LET ours  == d.at
        bases == MergeBases(ours, target)
        b     == BaseTree(bases)
        left  == Conflicts(b, ours.tree, target.tree)
    IN  IF d.merging # NoCommit THEN Ends(d, "refused")
        ELSE IF target \in Ancestors(ours) THEN Ends(d, "uptodate")
        ELSE IF ours \in Ancestors(target) /\ ff # "never"
        THEN Then(AndWrite(Checkout(d, target.tree, FALSE), [orig |-> ours]),
                  LAMBDA e : MoveHead(e, target))
        ELSE IF ff = "only" \/ ~Clean(d) \/ bases = {} THEN Ends(d, "refused")
        ELSE Then(AndWrite(AndWrite(AndWrite(Materialize(d, b, ours.tree, target.tree, FALSE),
                                    [orig |-> ours]), [merging |-> target]), [message |-> {0}]),
                  LAMBDA e : IF left # {} THEN Ends(e, "conflict")
                             ELSE IF noCommit THEN Ends(e, "prepared")
                             ELSE FinishMerge(e, MergedTree(b, ours.tree, target.tree)))

ContinueMerge(d) ==
    IF d.merging = NoCommit \/ d.at # d.orig \/ ~W(d)!Writable(d.index)
    THEN Ends(d, "refused")
    ELSE FinishMerge(d, W(d)!TreeOf(d.index))

\* Back to the commit from before, and its tree.
BackToOrig(d) ==
    Then(Checkout(d, d.orig.tree, TRUE), LAMBDA e :
         IF e.at = e.orig THEN Ends(e, "done") ELSE MoveHead(e, e.orig))

AbortMerge(d) ==
    IF d.merging = NoCommit THEN Ends(d, "refused")
    ELSE ClearMerge(BackToOrig(d))

-------------------------------------------------------------------------------
FinishReplay(d, ours, t, change) ==
    ClearReplay(MoveHead(d, NewCommit(t, <<ours>>, change)))

\* What a replay introduces: a picked commit its change, a reverted one none.
ChangeOf(c, kind) == IF kind = "pick" THEN c.change ELSE 0

Replay(d, c, kind, emptyToo, noCommit) ==
    LET ours   == d.at
        before == IF c.parents = <<>> THEN <<>> ELSE c.parents[1].tree
        b      == IF kind = "pick" THEN before ELSE c.tree
        theirs == IF kind = "pick" THEN c.tree ELSE before
        t      == MergedTree(b, ours.tree, theirs)
    IN  IF d.picking # NoCommit \/ d.merging # NoCommit \/ ~Clean(d) \/ Len(c.parents) > 1
        THEN Ends(d, "refused")
        ELSE Then(Materialize(d, b, ours.tree, theirs, FALSE), LAMBDA e :
             IF Conflicts(b, ours.tree, theirs) # {}
             THEN EndsWith(AndWrite(AndWrite(Write(e, [orig |-> ours]),
                                             [picking |-> c, kind |-> kind]),
                                    [message |-> {ChangeOf(c, kind)}]), "conflict")
             ELSE IF t = ours.tree /\ ~emptyToo THEN Ends(e, "empty")
             ELSE IF noCommit THEN Ends(e, "prepared")
             ELSE FinishReplay(e, ours, t, ChangeOf(c, kind)))

ContinueReplay(d) ==
    IF \/ d.picking = NoCommit \/ d.at # d.orig
       \/ ~W(d)!Writable(d.index) \/ d.message = NoMessage
    THEN Ends(d, "refused")
    ELSE FinishReplay(d, d.at, W(d)!TreeOf(d.index), CHOOSE n \in d.message : TRUE)

AbortReplay(d) ==
    IF d.picking = NoCommit THEN Ends(d, "refused")
    ELSE ClearReplay(BackToOrig(d))
===============================================================================
