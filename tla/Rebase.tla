------------------------------- MODULE Rebase -------------------------------
(***************************************************************************)
(* Series of changes applied one after the other: the commits of a rebase,   *)
(* the mails of am.  What is left to do is stored, so that a stopped series    *)
(* can be continued, skip its next change, or be aborted.                     *)
(***************************************************************************)
EXTENDS Sequencer

\* The commits of a rebase: reachable from HEAD and not from upstream, no merges,
\* a parent before its child.
Series(tip, upstream) ==
    LET todo == {c \in Ancestors(tip) \ Ancestors(upstream) : Len(c.parents) <= 1}
    IN  SetToSortSeq(todo, LAMBDA c, e : Cardinality(Ancestors(c)) < Cardinality(Ancestors(e)))

\* The files of the state are written one by one, and removed one by one: in between
\* nobody can read them.
Partial == [state |-> "partial"]

StartRebase(d, todo) ==
    AndWrite(Write(d, [rebase |-> Partial]),
             [rebase |-> [state |-> "active", orig |-> d.at, todo |-> todo,
                          done |-> <<>>, dropped |-> 0]])

ClearRebase(d) == AndWrite(Write(d, [rebase |-> Partial]), [rebase |-> Inactive])

\* One more commit is done: three files.
Complete(d, dropped) ==
    LET r    == d.rebase
        todo == [r EXCEPT !.todo = Tail(@)]
        done == [todo EXCEPT !.done = Append(@, Head(r.todo))]
        all  == [done EXCEPT !.dropped = @ + (IF dropped THEN 1 ELSE 0)]
    IN  AndWrite(AndWrite(Write(d, [rebase |-> todo]), [rebase |-> done]), [rebase |-> all])

\* The commits that are left, up to the first conflict; then the state goes.
Pick(d, c, keep) ==
    LET r == Replay(d, c, "pick", keep, FALSE)
    IN  Then([r EXCEPT !.end = IF @ = "empty" THEN "done" ELSE @],
             LAMBDA e : Complete(e, r.end = "empty"))

Advance(d, keep) ==
    Then(AndWrite(FoldLeft(LAMBDA r, c : Then(r, LAMBDA e : Pick(e, c, keep)),
                           Ends(d, "done"), d.rebase.todo),
                  [orig |-> d.rebase.orig]), ClearRebase)

Rebase(d, upstream, onto, keep) ==
    LET todo == Series(d.at, upstream)
        Hard(e) == Reset(e, onto, "hard")
    IN  IF d.rebase.state # "none" \/ d.merging # NoCommit \/ d.picking # NoCommit \/ ~Clean(d) THEN Ends(d, "refused")
        ELSE IF d.at = onto THEN Ends(d, "uptodate")
        ELSE IF d.at \in Ancestors(onto) \/ todo = <<>> THEN Hard(d)
        ELSE Then(Then(AndWrite(StartRebase(d, todo), [orig |-> d.at]), Hard),
                  LAMBDA e : Advance(e, keep))

\* The stopped commit must be the one that is picked.
Stopped(d) == /\ d.rebase.state = "active" /\ d.rebase.todo # <<>>
              /\ d.kind = "pick" /\ d.picking = Head(d.rebase.todo)

ContinueRebase(d, keep) ==
    IF ~Stopped(d) THEN Ends(d, "refused")
    ELSE Then(Then(ContinueReplay(d), LAMBDA e : Complete(e, FALSE)),
              LAMBDA e : Advance(e, keep))

SkipRebase(d, keep) ==
    IF ~Stopped(d) THEN Ends(d, "refused")
    ELSE Then(Then(AbortReplay(d), LAMBDA e : Complete(e, TRUE)), LAMBDA e : Advance(e, keep))

\* Mutant: back to ORIG_HEAD, which each stopped replay overwrites.
AbortRebaseToOrigHead(d) ==
    IF d.rebase.state # "active" THEN Ends(d, "refused")
    ELSE Then(ClearReplay(Reset(d, d.orig, "hard")), ClearRebase)

AbortRebase(d) ==
    IF d.rebase.state # "active" THEN Ends(d, "refused")
    ELSE Then(ClearReplay(Reset(d, d.rebase.orig, "hard")), ClearRebase)

-------------------------------------------------------------------------------
\* A mail: what a commit changes, path by path, from which content to which.
MailOf(c) == [old |-> c.parents[1].tree, new |-> c.tree, change |-> c.change]

Touched(mail) == {p \in DOMAIN mail.old \cup DOMAIN mail.new :
                      W(disk)!Only(mail.old, {p}) # W(disk)!Only(mail.new, {p})}

\* The patch applies where file and index have the old content, and nothing where
\* there was nothing.
FileMatches(d, mail, p) ==
    IF p \in DOMAIN mail.old THEN p \in DOMAIN d.files /\ d.files[p] = mail.old[p]
    ELSE p \notin DOMAIN d.files

IndexMatches(d, mail, p) ==
    IF p \in DOMAIN mail.old THEN \E e \in d.index : e.path = p /\ e.blob = mail.old[p]
    ELSE p \notin W(d)!PathsOf(d.index)

PatchedFiles(d, mail) ==
    W(d)!Only(mail.new, Touched(mail)) @@ W(d)!Without(d.files, Touched(mail))

PatchedIndex(d, mail) ==
    {e \in d.index : e.path \notin Touched(mail)}
    \cup W(d)!FromTree(W(d)!Only(mail.new, Touched(mail)))

Patch(d, mail) ==
    IF \A p \in Touched(mail) : FileMatches(d, mail, p) /\ IndexMatches(d, mail, p)
    THEN AndWrite(Write(d, [files |-> PatchedFiles(d, mail)]),
                  [index |-> PatchedIndex(d, mail)])
    ELSE Ends(d, "failed")

Mail(d) == d.am.mails[d.am.next]
NextMail(d) == Write(d, [am |-> [d.am EXCEPT !.next = @ + 1]])
CommitMail(d) == Then(Commit(d, Mail(d).change, FALSE, FALSE, TRUE), NextMail)

\* The state is a file in a directory of its own.
WriteAm(d, am) == Write(d, [am |-> am])
ClearAm(d) == AndWrite(WriteAm(d, Partial), [am |-> Inactive])

\* The mails that are left, up to the first that fails; then the state goes.
RunAm(d) ==
    Then(FoldLeft(LAMBDA r, m : Then(Then(r, LAMBDA e : Patch(e, m)), CommitMail),
                  Ends(d, "done"), SubSeq(d.am.mails, d.am.next, Len(d.am.mails))), ClearAm)

Am(d, mails) ==
    IF d.am.state # "none" \/ ~Clean(d) THEN Ends(d, "refused")
    ELSE Then(AndWrite(WriteAm(d, Partial),
                       [am |-> [state |-> "active", on |-> d.on, orig |-> d.at,
                                next |-> 1, mails |-> mails]]), RunAm)

Finished(d) == d.am.next > Len(d.am.mails)

\* Mutant: the resolved mail is not counted as done.
ContinueAmAgain(d) ==
    IF d.am.state # "active" THEN Ends(d, "refused")
    ELSE IF Finished(d) THEN ClearAm(d)
    ELSE Then(Commit(d, Mail(d).change, FALSE, FALSE, TRUE), RunAm)

ContinueAm(d) ==
    IF d.am.state # "active" THEN Ends(d, "refused")
    ELSE IF Finished(d) THEN ClearAm(d)
    ELSE Then(CommitMail(d), RunAm)

SkipAm(d) ==
    IF d.am.state # "active" THEN Ends(d, "refused")
    ELSE IF Finished(d) THEN ClearAm(d)
    ELSE Then(Then(Checkout(d, d.at.tree, TRUE), NextMail), RunAm)

AbortAm(d) ==
    IF d.am.state # "active" \/ (d.am.on # d.on) THEN Ends(d, "refused")
    ELSE Then(Reset(d, d.am.orig, "hard"), ClearAm)
===============================================================================
