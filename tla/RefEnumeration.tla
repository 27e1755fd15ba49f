---------------------------- MODULE RefEnumeration ----------------------------
(***************************************************************************)
(* references(), the enumeration behind branches, for-each-ref, the        *)
(* advertisement of a push or a fetch and the roots of fsck and prune,     *)
(* while transactions and pack_refs run.  It takes no lock: it reads       *)
(* packed-refs, then lists the directory, then reads every child listed.   *)
(*                                                                         *)
(* Every reference of the instance is in one directory, and one caller     *)
(* enumerates: callers do not affect each other.                           *)
(***************************************************************************)
EXTENDS RefStore

VARIABLES phase,     \* where the caller is
          listing,   \* the values collected so far, None where there is none
          children,  \* the files of the directory that are still to be visited
          lasting,   \* the references that have existed since the call began
          had        \* the values each reference has had since

lvars == <<phase, listing, children, lasting, had>>

ListInit ==
    /\ Init
    /\ phase = "idle" /\ listing = NoEntries /\ children = {}
    /\ lasting = {} /\ had = [r \in Ref |-> {}]

\* packed_references_with_prefix_bounded
ListPacked ==
    /\ phase = "idle"
    /\ phase' = "directory"
    /\ listing' = packed
    /\ lasting' = {r \in Ref : Cur(r) # None}
    /\ had' = [r \in Ref |-> {Cur(r)}]
    /\ UNCHANGED <<vars, children>>

File(r) == <<r, "file">>
Lock(r) == <<r, "lock">>

\* Variant for the checks: a reference that is being written is left out.
ListUnlocked ==
    /\ phase = "directory"
    /\ phase' = "children"
    /\ children' = {File(r) : r \in {s \in Ref : loose[s] # None /\ owner[s] = None}}
    /\ UNCHANGED <<vars, listing, lasting, had>>

ListDirectory ==
    /\ phase = "directory"
    /\ phase' = "children"
    /\ children' = {File(r) : r \in {s \in Ref : loose[s] # None}}
                     \cup {Lock(r) : r \in {s \in Ref : owner[s] # None}}
    /\ UNCHANGED <<vars, listing, lasting, had>>

\* Variant for the checks: the packed value wins.
KeepPacked(r) == listing' = [listing EXCEPT ![r] = IF @ = None THEN loose[r] ELSE @]

\* A loose value replaces the packed one.
Override(r) == listing' = [listing EXCEPT ![r] = loose[r]]

\* Variant for the checks: what a lock file contains is taken for a value.
TakeLock(r) == listing' = [listing EXCEPT ![r] = owner[r]]

\* A lock file is not a reference.
SkipLock(r) == UNCHANGED listing

\* The next child.  A file that is gone by now, lock files included, makes the
\* call fail.
ListChild ==
    /\ phase = "children"
    /\ \E r \in Ref :
          \/ /\ File(r) \in children /\ children' = children \ {File(r)}
             /\ \/ loose[r] # None /\ Override(r) /\ UNCHANGED phase
                \/ loose[r] = None /\ phase' = "failed" /\ UNCHANGED listing
          \/ /\ Lock(r) \in children /\ children' = children \ {Lock(r)}
             /\ phase' = IF owner[r] # None THEN phase ELSE "failed"
             /\ SkipLock(r)
    /\ UNCHANGED <<vars, lasting, had>>

ListEnd ==
    /\ phase = "children" /\ children = {}
    /\ phase' = "listed"
    /\ UNCHANGED <<vars, listing, children, lasting, had>>

\* The caller has the result, or the error.
ListReset ==
    /\ phase \in {"listed", "failed"}
    /\ phase' = "idle" /\ listing' = NoEntries /\ children' = {}
    /\ lasting' = {} /\ had' = [r \in Ref |-> {}]
    /\ UNCHANGED vars

StoreStep ==
    /\ Next
    /\ lasting' = {r \in lasting : Current(loose', packed', r) # None}
    /\ had' = IF phase = "idle" THEN had
              ELSE [r \in Ref |-> had[r] \cup {Current(loose', packed', r)}]
    /\ UNCHANGED <<phase, listing, children>>

ListNext == \/ ListPacked \/ ListDirectory \/ ListChild \/ ListEnd \/ ListReset
            \/ StoreStep

ListSpec == ListInit /\ [][ListNext]_<<vars, lvars>>

-------------------------------------------------------------------------------
\* references: "List every loose and packed reference below `refs/`"
\* (refs.rs:301).  A reference that existed all through the call is listed.
NothingMissed ==
    phase = "listed" => \A r \in lasting : listing[r] # None

\* references: "Loose references override packed references with the same name"
\* (refs.rs:303).  A listed value is one the reference had during the call.
NothingInvented ==
    phase = "listed" => \A r \in Ref : listing[r] # None => listing[r] \in had[r]

\* Both together: beside writers that delete nothing a listing is what the
\* documentation of references promises.
ListingTrue == NothingMissed /\ NothingInvented
===============================================================================
