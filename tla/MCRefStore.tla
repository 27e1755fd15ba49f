------------------------------ MODULE MCRefStore ------------------------------
(* The store under four workloads, with a caller that enumerates in the last. *)
EXTENDS RefEnumeration, MCRequests

\* One run checks four workloads: two writers with transactions that mix every
\* kind of edit; a packer beside one writer with edits of every shape;
\* on the first reference, the packer beside two of the other three processes;
\* and an enumeration beside one writer that creates and updates, of a reference
\* that is packed or missing at first and one that may be both loose and packed.
VARIABLE workload

\* Nothing is deleted.
WriteRequests == Create(1) \cup Both(Verify(1), Update(2))

EveryRequest == AllRequests \cup WriteRequests

Begun(S) == \A w \in Writer : edits'[w] \in S \cup {NoEdits}

Transactions ==
    /\ Begun(TransactionRequests)
    /\ \A p \in Packer \cup Reader : pc'[p] = "idle"

OneWriter ==
    \E v \in Writer : \A w \in Writer \ {v} : pc'[w] = "idle" /\ outcome'[w] = "none"

Packing ==
    /\ Begun(MixedRequests)
    /\ \A q \in Reader : pc'[q] = "idle"
    /\ OneWriter

Race ==
    /\ Begun(SingleRequests)
    /\ \A q \in Reader :
          reading'[q] = None \/ (reading'[q] = 1 /\ \E w \in Writer : pc'[w] = "idle")

Listing ==
    /\ Begun(WriteRequests)
    /\ OneWriter
    /\ \A p \in Packer \cup Reader : pc'[p] = "idle"

MCInit ==
    /\ ListInit
    /\ workload \in {"transactions", "packing", "race", "listing"}
    /\ workload = "race" => \A r \in Ref : r # 1 => Cur(r) = None
    /\ workload = "listing" => loose[1] = None /\ loose[2] # None

MCNext ==
    /\ IF workload = "listing" THEN ListNext ELSE Next /\ UNCHANGED lvars
    /\ \/ workload = "transactions" /\ Transactions
       \/ workload = "packing" /\ Packing
       \/ workload = "race" /\ Race
       \/ workload = "listing" /\ Listing
    /\ UNCHANGED workload

MCSpec == MCInit /\ [][MCNext]_<<vars, lvars, workload>>

Symmetric == Permutations(Id) \cup Permutations(Writer)
===============================================================================
