------------------------------ MODULE AtomicRefs ------------------------------
(***************************************************************************)
(* What the reference store promises, independently of loose files,        *)
(* packed-refs and lock files.                                             *)
(*                                                                         *)
(* A store maps every reference name to an object id, or to None.  A       *)
(* writer submits a request: a set of edits, at most one per reference,    *)
(* each with the compare-and-swap precondition the caller stated.  The     *)
(* request either has no effect and is reported as an error, or all its    *)
(* edits take effect and it is reported as successful.  The edits need not *)
(* take effect in one instant (the files backend publishes one reference   *)
(* at a time), but whenever one does, the preconditions of all the edits   *)
(* still outstanding hold.  A reader gets a value the reference had while  *)
(* it was being read.                                                      *)
(***************************************************************************)
CONSTANTS Ref,       \* reference names
          Id,        \* object ids
          None,      \* the value of a reference that does not exist
          AnyOld,    \* a precondition that any value satisfies
          Keep,      \* the new value of an edit that only verifies
          Writer,    \* clients that submit requests
          Reader,    \* clients that read one reference
          Requests   \* the requests a writer may submit

Value == Id \cup {None}

\* A request maps the references it edits to [prev, new].  new = None deletes.
Edit  == [prev : Value \cup {AnyOld}, new : Value \cup {Keep}]
Edits == UNION {[S -> Edit] : S \in SUBSET Ref}

NoEdits == [r \in {} |-> None]

\* The precondition of edit e on a reference whose value is v.  Deleting a
\* reference that does not exist is refused whatever the caller expected.
Permits(e, v) == /\ e.prev \in {AnyOld, v}
                 /\ e.new = None => v # None

\* The value that e gives to a reference whose value is v.
Result(e, v) == IF e.new = Keep THEN v ELSE e.new

VARIABLES value,     \* the value of every reference
          request,   \* what each writer is doing, NoEdits when nothing
          applied,   \* the references whose edit has taken effect
          outcome,   \* what the writer's last request reported
          reading,   \* the reference each reader is reading, or None
          window,    \* the values that reference has had meanwhile
          answer     \* what the reader's last read returned

avars == <<value, request, applied, outcome, reading, window, answer>>

ATypeOK ==
    /\ value \in [Ref -> Value]
    /\ request \in [Writer -> Requests \cup {NoEdits}]
    /\ \A w \in Writer : applied[w] \in SUBSET DOMAIN request[w]
    /\ outcome \in [Writer -> {"none", "ok", "error"}]
    /\ reading \in [Reader -> Ref \cup {None}]
    /\ window \in [Reader -> SUBSET Value]
    /\ answer \in [Reader -> Value]

AInit ==
    /\ value \in [Ref -> Value]
    /\ request = [w \in Writer |-> NoEdits]
    /\ applied = [w \in Writer |-> {}]
    /\ outcome = [w \in Writer |-> "none"]
    /\ reading = [q \in Reader |-> None]
    /\ window = [q \in Reader |-> {}]
    /\ answer = [q \in Reader |-> None]

ASubmit(w) ==
    /\ request[w] = NoEdits
    /\ \E e \in Requests : request' = [request EXCEPT ![w] = e]
    /\ outcome' = [outcome EXCEPT ![w] = "none"]
    /\ UNCHANGED <<value, applied, reading, window, answer>>

\* The edits of w to the references S take effect.
AApply(w, S) ==
    /\ S # {} /\ S \subseteq DOMAIN request[w] \ applied[w]
    /\ \A r \in DOMAIN request[w] \ applied[w] : Permits(request[w][r], value[r])
    /\ value' = [r \in Ref |-> IF r \in S THEN Result(request[w][r], value[r])
                                          ELSE value[r]]
    /\ applied' = [applied EXCEPT ![w] = @ \cup S]
    /\ window' = [q \in Reader |-> IF reading[q] = None THEN window[q]
                                   ELSE window[q] \cup {value'[reading[q]]}]
    /\ UNCHANGED <<request, outcome, reading, answer>>

ASucceed(w) ==
    /\ request[w] # NoEdits /\ applied[w] = DOMAIN request[w]
    /\ request' = [request EXCEPT ![w] = NoEdits]
    /\ applied' = [applied EXCEPT ![w] = {}]
    /\ outcome' = [outcome EXCEPT ![w] = "ok"]
    /\ UNCHANGED <<value, reading, window, answer>>

AFail(w) ==
    /\ request[w] # NoEdits /\ applied[w] = {}
    /\ request' = [request EXCEPT ![w] = NoEdits]
    /\ outcome' = [outcome EXCEPT ![w] = "error"]
    /\ UNCHANGED <<value, applied, reading, window, answer>>

AStartRead(q) ==
    /\ reading[q] = None
    /\ \E r \in Ref : /\ reading' = [reading EXCEPT ![q] = r]
                      /\ window' = [window EXCEPT ![q] = {value[r]}]
    /\ UNCHANGED <<value, request, applied, outcome, answer>>

\* A request that deletes r is taking effect: nothing can stop it any more.
BeingDeleted(r) ==
    \E w \in Writer : LET outstanding == DOMAIN request[w] \ applied[w] IN
        /\ r \in outstanding /\ request[w][r].new = None
        /\ \A s \in outstanding : Permits(request[w][s], value[s])

\* A reader may find a reference absent while its deletion is taking effect.
AEndRead(q) ==
    /\ reading[q] # None
    /\ \E v \in window[q] \cup (IF BeingDeleted(reading[q]) THEN {None} ELSE {}) :
          answer' = [answer EXCEPT ![q] = v]
    /\ reading' = [reading EXCEPT ![q] = None]
    /\ window' = [window EXCEPT ![q] = {}]
    /\ UNCHANGED <<value, request, applied, outcome>>

ANext ==
    \/ \E w \in Writer : \/ ASubmit(w) \/ ASucceed(w) \/ AFail(w)
                         \/ \E S \in SUBSET Ref : AApply(w, S)
    \/ \E q \in Reader : AStartRead(q) \/ AEndRead(q)

ASpec == AInit /\ [][ANext]_avars
===============================================================================
