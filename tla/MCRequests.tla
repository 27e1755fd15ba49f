------------------------------ MODULE MCRequests ------------------------------
(* The requests that instances of RefStore are given, and small instances of  *)
(* the whole store.                                                          *)
EXTENDS RefStoreInv, TLC

\* The shapes of request the code has, over every id: create, force, update
\* with an expected value, delete, and transactions that mix an update with a
\* verification, or with the deletion of another reference.
Create(r)    == {(r :> [prev |-> None, new |-> i]) : i \in Id}
Force(r)     == {(r :> [prev |-> AnyOld, new |-> i]) : i \in Id}
Update(r)    == {(r :> [prev |-> u[1], new |-> u[2]]) :
                     u \in {x \in Id \X Id : x[1] # x[2]}}
Delete(r)    == {(r :> [prev |-> i, new |-> None]) : i \in Id}
DeleteAny(r) == {(r :> [prev |-> AnyOld, new |-> None])}
Verify(r)    == {(r :> [prev |-> i, new |-> Keep]) : i \in Id}

\* Both edits in one transaction.
Both(A, B) == {a @@ b : a \in A, b \in B}

\* One transaction that mixes every kind of edit, and single edits that
\* interfere with it.
TransactionRequests == Both(Update(1), Delete(2)) \cup Force(2) \cup Delete(1)

\* One reference.
SingleRequests == Create(1) \cup Update(1) \cup Delete(1)

\* Verification, and deletions of two references, beside a packer.
MixedRequests == Force(2) \cup Both(Verify(1), Update(2)) \cup Both(Delete(1), DeleteAny(2))

AllRequests == TransactionRequests \cup SingleRequests \cup MixedRequests

\* With one id, for liveness: two transactions over the same two references.
LiveRequests == Both(Verify(1), Delete(2)) \cup Force(2)

-------------------------------------------------------------------------------
IdSymmetry == Permutations(Id)
===============================================================================
