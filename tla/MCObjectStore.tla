---------------------------- MODULE MCObjectStore ----------------------------
(* Small instances of ObjectStore for TLC. *)
EXTENDS ObjectStore

\* A base, an object that names it, and garbage.
Objects   == {1, 2, 3}
ObjLinks  == <<{}, {1}, {}>>

Prune   == [locked |-> TRUE, stages |-> <<"prune">>, mode |-> "plain", expire |-> TRUE,
            loose |-> FALSE, delete |-> FALSE, copies |-> TRUE]
PrunePacked == [Prune EXCEPT !.locked = FALSE, !.stages = <<"prune-packed">>]
Repack  == [Prune EXCEPT !.locked = FALSE, !.stages = <<"repack">>, !.loose = TRUE]
Cruft   == [Repack EXCEPT !.mode = "cruft", !.expire = FALSE]
Gc      == [Cruft EXCEPT !.locked = TRUE, !.stages = <<"repack", "prune">>, !.delete = TRUE]
GcExpire == [Gc EXCEPT !.expire = TRUE]

Both(kind)  == [kind |-> kind, new |-> {1, 2}, goal |-> 2]
OnTop(kind) == [kind |-> kind, new |-> {2}, goal |-> 2]

\* One run checks five workloads: a writer of loose objects, a writer of packs
\* and a reader, each beside maintenance that removes no packs; and a writer of
\* loose objects and one of kept packs, each beside gc.  The last workload is
\* that of another run: a pack received without .keep beside gc.
KeepingJobs == {Prune, PrunePacked, Repack, Cruft}
Load ==
    [adding    |-> [jobs |-> KeepingJobs,    works |-> {Both("loose")}],
     packing   |-> [jobs |-> KeepingJobs,    works |-> {OnTop("pack")}],
     reading   |-> [jobs |-> KeepingJobs,    works |-> {}],
     growing   |-> [jobs |-> {Gc, GcExpire}, works |-> {OnTop("loose")}],
     keeping   |-> [jobs |-> {Gc, GcExpire}, works |-> {Both("kept")}],
     receiving |-> [jobs |-> {Gc},           works |-> {Both("pack")}]]

AllJobs  == UNION {Load[l].jobs : l \in DOMAIN Load}
AllWorks == UNION {Load[l].works : l \in DOMAIN Load}

NoPacks    == {{}}
StartPacks == {{}, {{1, 3}}}

-------------------------------------------------------------------------------
CONSTANT Workloads
VARIABLE workload

WithGc == workload \in {"growing", "keeping", "receiving"}

\* The number of packs at a time: with gc, one from before and the two of a repack.
MaxPacks == IF WithGc THEN 3 ELSE 2

InLoad ==
    /\ \A m \in Maint : maint'[m] # Idle => maint'[m].job \in Load[workload].jobs
    /\ \A w \in Writer : work'[w] # NoTask =>
          \E t \in Load[workload].works : t.kind = work'[w].kind /\ t.new = work'[w].new
    /\ workload # "reading" => reading' = reading

\* A pack that is received while gc runs is not one that is there or is being
\* written.
NoClash == \A w \in Writer : work'[w] # NoTask => (work'[w].kind = "kept" =>
    /\ work'[w].phase = "pack" => work'[w].new \notin packs'
    /\ \A m \in Maint : maint'[m] # Idle => \A i \in DOMAIN maint'[m].news :
                                              maint'[m].news[i] # work'[w].new)

\* A gc that gives up leaves no table without its pack behind.
NoStrayTable == \A m \in Maint :
    maint[m].phase = "untable" => maint'[m].phase = "remove" \/ maint'[m] = maint[m]

\* Without gc one call runs at a time; it is First that makes it, and that makes
\* the first of two: calls are alike in whoever makes them.
First == CHOOSE m \in Maint : TRUE
Alone == \A m \in Maint \ {First} : maint'[m] # Idle => WithGc /\ maint'[First] # Idle

MCInit ==
    /\ Init
    /\ workload \in Workloads
    /\ kept = {} /\ tables = {} /\ 3 \notin roots
    /\ loose[1] # "fresh" /\ loose[2] # "fresh"
    /\ workload # "reading" => loose[2] = "none"
    /\ IF WithGc THEN loose[1] = "none" /\ loose[3] # "none"
                 ELSE loose[3] = "old" /\ \A p \in packs : dated[p] = {}

MCNext ==
    /\ Next /\ InLoad /\ Alone
    /\ Cardinality(packs') <= MaxPacks
    /\ workload = "keeping" => NoClash /\ NoStrayTable
    /\ workload = "growing" => NoStrayTable
    /\ UNCHANGED workload

MCSpec == MCInit /\ [][MCNext]_<<vars, workload>>
===============================================================================
