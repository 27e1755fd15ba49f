------------------------------- MODULE MCReflog -------------------------------
(* Small instances of Reflog for TLC. *)
EXTENDS Reflog, TLC

Update(prev, new) == [op |-> "update", prev |-> prev, new |-> new, logged |-> TRUE]
Silent(prev, new) == [Update(prev, new) EXCEPT !.logged = FALSE]
Delete(prev)      == [op |-> "delete", prev |-> prev]
AppendOf(o, n)    == [op |-> "append", entry |-> [old |-> o, new |-> n]]
Drop              == [op |-> "drop"]
Rewrite(relink, move) ==
    [op |-> "rewrite", dry |-> FALSE, relink |-> relink, move |-> move]
DryRun            == [Rewrite(FALSE, FALSE) EXCEPT !.dry = TRUE]

\* Logged updates of a direct reference, with and without an expected value.
LogRequests == {Update(v, i) : v \in Id \cup {None, AnyOld}, i \in Id}

\* A reference like HEAD, whose log other calls append to and drop.
HeadRequests == {Update(AnyOld, i) : i \in Id}
                  \cup {Update(i, Symbolic) : i \in Id} \cup {Silent(AnyOld, Symbolic), Drop}
                  \cup {AppendOf(Null, i) : i \in Id}

\* Expiry beside logged updates.
RewriteRequests == {Update(AnyOld, i) : i \in Id} \cup {Rewrite(TRUE, FALSE), DryRun}

\* Entries deleted with the reference moved back, beside logged updates.
MoveRequests == {Update(AnyOld, i) : i \in Id} \cup {Rewrite(FALSE, TRUE)}

\* Deletions beside updates that keep no log; the reference may be symbolic.
DeleteRequests == {Delete(v) : v \in Id \cup {Symbolic}}
                    \cup {Silent(None, i) : i \in Id} \cup {Silent(AnyOld, Symbolic)}

AllWorkloads == {LogRequests, HeadRequests, RewriteRequests, DeleteRequests, MoveRequests}

\* Two calls at a time where rewrites move the reference.
MCSpec ==
    Init /\ [][/\ Next
               /\ calls = MoveRequests => \E p \in Proc : pc'[p] = "idle"]_vars

Symmetric == Permutations(Id) \cup Permutations(Proc)
===============================================================================
