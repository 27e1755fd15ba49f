----------------------------- MODULE ReceivePack -----------------------------
(***************************************************************************)
(* The receiving side of a push: receive_pack checks the commands of a     *)
(* request one after the other, publishes the pack, and then updates the   *)
(* references, one by one or as one transaction.  It holds no lock from    *)
(* the checks to the updates; others change references, switch HEAD and    *)
(* prune objects in between.                                               *)
(*                                                                         *)
(* An object id is a number, larger than the ids the object names.  A call *)
(* of the reference store takes effect at one instant or fails, and a      *)
(* transaction holds its references from its checks to its publications    *)
(* (RefStore).  Packs that reach the store are whole (ObjectStore).        *)
(***************************************************************************)
EXTENDS Naturals, Sequences, FiniteSets

CONSTANTS Object,       \* object ids
          Commit,       \* those of commits
          Links,        \* the ids an object names: tree, parents, entries, target
          Shallow,      \* the commits in the file "shallow" of the receiver
          Ref, None,
          Session,      \* calls of receive_pack
          DenyCurrent,  \* deny_current_branch, in a repository with a work tree
          Meddling      \* bound: steps that others take in the repository

Id == Object \cup {None}

ASSUME ReceivePackAssumption ==
    /\ Object \subseteq Nat \ {0} /\ Commit \subseteq Object /\ Shallow \subseteq Commit
    /\ Links \in [Object -> SUBSET Object]
    /\ \A o \in Object : \A p \in Links[o] : p < o
    /\ None \notin Object /\ None \notin Ref /\ None \notin Session
    /\ Meddling \in Nat /\ DenyCurrent \in BOOLEAN

VARIABLES objects,    \* what the store of the receiver holds
          value,      \* its references
          head,       \* the branch HEAD names, None if HEAD is detached
          held,       \* the transaction that holds the lock of a reference
          session,    \* the calls of receive_pack
          meddled,    \* how often others acted
          pruned,     \* history: what was pruned and not stored again since
          lost        \* history: of this, what a session had found there and needed

server == <<objects, value, head, held, session, meddled, pruned, lost>>

-------------------------------------------------------------------------------
\* Everything an object leads to.
Closure[o \in Object] == {o} \cup UNION {Closure[p] : p \in Links[o]}

\* What it leads to in this repository: the parents of a shallow commit do not
\* count.
LinksHere(o) == IF o \in Shallow THEN Links[o] \ Commit ELSE Links[o]
Below[o \in Object] == {o} \cup UNION {Below[p] : p \in LinksHere(o)}

Leads(v) == IF v = None THEN {} ELSE Below[v]

Command == [name: Ref, old: Id, new: Id]
Request == [commands: Seq(Command), atomic: BOOLEAN,
            sent: BOOLEAN,           \* whether bytes of a pack follow
            pack: SUBSET Object]

NewIds(q) == {q.commands[i].new : i \in DOMAIN q.commands} \ {None}

Verdicts == {"ok", "unpacker", "checked out", "stale", "missing", "atomic", "refused"}

NoSession == [stage |-> "none"]
Stages == {"unpack", "head", "check", "publish", "apply", "batch", "done", "error"}
ASession ==
    [stage:     Stages,
     request:   Request,
     denied:    Ref \cup {None},     \* the branch HEAD named when it was read
     verdicts:  Seq(Verdicts),       \* statuses
     connected: SUBSET Object,
     todo:      SUBSET Nat,          \* commands still to apply
     applied:   SUBSET Nat]          \* history: commands that took effect

Now(s) == session[s].stage
Set(s, f) == session' = [session EXCEPT ![s] = f]

\* The type of the state; a lock is held for a command of an atomic request that
\* is still to be applied (apply_reference_transaction).
ReceiveTypeOK ==
    /\ objects \subseteq Object /\ pruned \subseteq Object \ objects /\ lost \subseteq pruned
    /\ value \in [Ref -> Id] /\ head \in Ref \cup {None}
    /\ held \in [Ref -> Session \cup {None}]
    /\ session \in [Session -> ASession \cup {NoSession}]
    /\ meddled \in 0..Meddling
    /\ \A r \in Ref : held[r] # None =>
          /\ session[held[r]].request.atomic
          /\ \E i \in session[held[r]].todo : session[held[r]].request.commands[i].name = r

ReceiveInit ==
    /\ objects \in SUBSET Object /\ value \in [Ref -> Id]
    /\ \A o \in objects : Below[o] \subseteq objects
    /\ \A r \in Ref : Leads(value[r]) \subseteq objects
    /\ head \in Ref \cup {None}
    /\ held = [r \in Ref |-> None]
    /\ session = [s \in Session |-> NoSession]
    /\ meddled = 0 /\ pruned = {} /\ lost = {}

-------------------------------------------------------------------------------
(* Requests. *)

\* ReceivePackRequest::parse
WellFormed(q) ==
    /\ q.commands # <<>>
    /\ \A i \in DOMAIN q.commands :
          /\ q.commands[i].old # None \/ q.commands[i].new # None
          /\ \A j \in DOMAIN q.commands : q.commands[i].name = q.commands[j].name => i = j

\* A request arrives.
Begin(s, q) ==
    /\ session[s] = NoSession
    /\ Set(s, [stage |-> IF WellFormed(q) THEN "unpack" ELSE "error",
               request |-> q, denied |-> None, verdicts |-> <<>>,
               connected |-> {}, todo |-> {}, applied |-> {}])
    /\ UNCHANGED <<objects, value, head, held, meddled, pruned, lost>>

\* validate_incoming_pack.  The bytes may be corrupt, or over a limit.
Unpack(s) ==
    /\ Now(s) = "unpack"
    /\ LET q == session[s].request IN
       \/ Set(s, [session[s] EXCEPT !.stage = "head"])
       \/ /\ q.sent
          /\ Set(s, [session[s] EXCEPT !.stage = "done",
                                       !.verdicts = [i \in DOMAIN q.commands |-> "unpacker"]])
    /\ UNCHANGED <<objects, value, head, held, meddled, pruned, lost>>

ReadHead(s) ==
    /\ Now(s) = "head"
    /\ Set(s, [session[s] EXCEPT !.stage = "check",
                                 !.denied = IF DenyCurrent THEN head ELSE None])
    /\ UNCHANGED <<objects, value, head, held, meddled, pruned, lost>>

-------------------------------------------------------------------------------
(* Checks. *)

Available(s) == objects \cup session[s].request.pack

\* Variant for the checks: only the objects of the pack are looked at.
WalkIncoming(s, new) == Below[new] \cap session[s].request.pack

\* check_connectivity: what the walk from a new id visits.
Walk(s, new) == Below[new] \ session[s].connected

CurrentMatches(c) == value[c.name] = c.old

Verdict(s, c) ==
    IF session[s].denied = c.name THEN "checked out"
    ELSE IF ~CurrentMatches(c) THEN "stale"
    ELSE IF c.new # None /\ ~(Walk(s, c.new) \subseteq Available(s)) THEN "missing"
    ELSE "ok"

\* Variant for the checks: the commands of an atomic group are judged each alone.
Ungrouped(q, v) == v

\* reject_atomic_group
Grouped(q, v) ==
    IF q.atomic /\ \E i \in DOMAIN v : v[i] # "ok"
    THEN [i \in DOMAIN v |-> IF v[i] = "ok" THEN "atomic" ELSE v[i]]
    ELSE v

\* One turn of the loop over the commands; after the last, the group.
CheckNext(s) ==
    /\ Now(s) = "check"
    /\ LET q == session[s].request
           v == session[s].verdicts
           c == q.commands[Len(v) + 1]
           verdict == Verdict(s, c)
           all == Append(v, verdict)
           last == Len(all) = Len(q.commands)
       IN Set(s, [session[s] EXCEPT
                  !.verdicts  = IF last THEN Grouped(q, all) ELSE all,
                  !.connected = @ \cup (IF verdict = "ok" /\ c.new # None
                                        THEN Walk(s, c.new) ELSE {}),
                  !.stage     = IF last THEN "publish" ELSE @])
    /\ UNCHANGED <<objects, value, head, held, meddled, pruned, lost>>

-------------------------------------------------------------------------------
(* Publication and updates. *)

Accepted(s) == {i \in DOMAIN session[s].verdicts : session[s].verdicts[i] = "ok"}

PublishPack(s) ==
    LET new == session[s].request.pack IN
    /\ objects' = objects \cup new /\ pruned' = pruned \ new /\ lost' = lost \ new

\* Variants for the checks: every group is a transaction; none is.
Together(s) == TRUE
OneByOne(s) == FALSE

AsTransaction(s) == session[s].request.atomic

Publish(s) ==
    /\ Now(s) = "publish"
    /\ IF Accepted(s) # {} THEN PublishPack(s) ELSE UNCHANGED <<objects, pruned, lost>>
    /\ Set(s, [session[s] EXCEPT !.todo = Accepted(s), !.stage =
           IF Accepted(s) = {} \/ (AsTransaction(s) /\ Accepted(s) # DOMAIN session[s].verdicts)
           THEN "done"
           ELSE IF AsTransaction(s) THEN "batch" ELSE "apply"])
    /\ UNCHANGED <<value, head, held, meddled>>

\* The next command is dealt with: effect tells whether it changed its reference.
Applied(s, i, verdict, effect) ==
    LET rest == session[s].todo \ {i} IN
    Set(s, [session[s] EXCEPT
              !.todo = rest, !.verdicts[i] = verdict,
              !.applied = IF effect THEN @ \cup {i} ELSE @,
              !.stage = IF rest = {} THEN "done" ELSE @])

\* Variant for the checks: the value is not compared again under the lock.
Unconditional(c) == TRUE

\* command_edit: the precondition of the update or the deletion.
Precondition(c) == value[c.name] = c.old

\* update_reference or delete_reference on the next accepted command.
ApplyNext(s) ==
    /\ Now(s) = "apply"
    /\ \E i \in session[s].todo :
          LET c == session[s].request.commands[i] IN
          /\ \A j \in session[s].todo : i <= j
          /\ \/ /\ held[c.name] = None /\ Precondition(c)
                /\ value' = [value EXCEPT ![c.name] = c.new]
                /\ \/ Applied(s, i, "ok", TRUE)
                   \* The reference is gone, and its log could not be removed.
                   \/ c.new = None /\ Applied(s, i, "refused", TRUE)
             \/ Applied(s, i, "refused", FALSE) /\ UNCHANGED value
    /\ UNCHANGED <<objects, head, held, meddled, pruned, lost>>

Names(s) == {session[s].request.commands[i].name : i \in session[s].todo}

AllRefused(s) ==
    Set(s, [session[s] EXCEPT !.stage = "done",
              !.verdicts = [i \in DOMAIN session[s].verdicts |-> "refused"]])

\* apply_reference_transaction takes every lock and makes every check, or gives
\* up every lock.
Prepare(s) ==
    /\ Now(s) = "batch" /\ \A r \in Ref : held[r] # s
    /\ \/ /\ \A i \in session[s].todo :
                LET c == session[s].request.commands[i] IN
                held[c.name] = None /\ Precondition(c)
          /\ held' = [r \in Ref |-> IF r \in Names(s) THEN s ELSE held[r]]
          /\ UNCHANGED session
       \/ AllRefused(s) /\ UNCHANGED held
    /\ UNCHANGED <<objects, value, head, meddled, pruned, lost>>

\* The log of a deleted reference cannot be removed: the transaction breaks off,
\* with the locks of what it has not published.
LogRemains(s, i) ==
    /\ session[s].request.commands[i].new = None
    /\ Set(s, [session[s] EXCEPT
              !.stage = "done", !.todo = @ \ {i}, !.applied = @ \cup {i},
              !.verdicts = [j \in DOMAIN session[s].verdicts |-> "refused"]])

\* It publishes the references one after the other, each with its lock: in the
\* code in the order of names, packed deletions first, here in any order.
PublishNext(s) ==
    /\ Now(s) = "batch"
    /\ \E i \in session[s].todo :
          LET c == session[s].request.commands[i] IN
          /\ held[c.name] = s
          /\ value' = [value EXCEPT ![c.name] = c.new]
          /\ held' = [held EXCEPT ![c.name] = None]
          /\ Applied(s, i, "ok", TRUE) \/ LogRemains(s, i)
    /\ UNCHANGED <<objects, head, meddled, pruned, lost>>

\* A publication fails: what was not published stays locked.
BatchFails(s) ==
    /\ Now(s) = "batch" /\ \E r \in Ref : held[r] = s
    /\ AllRefused(s)
    /\ UNCHANGED <<objects, value, head, held, meddled, pruned, lost>>

\* The call returns an error before the updates, or the process stops anywhere.
Fail(s) ==
    /\ Now(s) \in {"unpack", "head", "check", "publish", "apply", "batch"}
    /\ Set(s, [session[s] EXCEPT !.stage = "error"])
    /\ UNCHANGED <<objects, value, head, held, meddled, pruned, lost>>

Receive(s) ==
    \/ Unpack(s) \/ ReadHead(s) \/ CheckNext(s) \/ Publish(s) \/ ApplyNext(s)
    \/ Prepare(s) \/ PublishNext(s) \/ BatchFails(s) \/ Fail(s)

-------------------------------------------------------------------------------
(* Others in the repository. *)

Meddle == meddled < Meddling /\ meddled' = meddled + 1

\* A reference is set to an object that is there, or deleted.
LocalUpdate(r, v) ==
    /\ Meddle /\ held[r] = None /\ value[r] # v /\ Leads(v) \subseteq objects
    /\ value' = [value EXCEPT ![r] = v]
    /\ UNCHANGED <<objects, head, held, session, pruned, lost>>

Switch(r) ==
    /\ Meddle /\ head # r /\ head' = r
    /\ UNCHANGED <<objects, value, held, session, pruned, lost>>

\* The objects a session has found, or is about to, since it began its checks.
Needed == UNION {UNION {Below[o] : o \in NewIds(session[s].request)} :
                    s \in {t \in Session : Now(t) \in {"check", "publish", "apply", "batch"}}}

\* Garbage is removed, whatever its age.
Prune(S) ==
    /\ Meddle
    /\ S # {} /\ S \subseteq objects \ UNION {Leads(value[r]) : r \in Ref}
    /\ objects' = objects \ S /\ pruned' = pruned \cup S
    /\ lost' = lost \cup (S \cap Needed)
    /\ UNCHANGED <<value, head, held, session>>

Others ==
    \/ \E r \in Ref : Switch(r) \/ \E v \in Id : LocalUpdate(r, v)
    \/ \E S \in SUBSET objects : Prune(S)

-------------------------------------------------------------------------------
(* Properties. *)

\* What a reference names can be read, unless it was pruned while a push that had
\* checked it was under way (check_connectivity, and the order of publication
\* and updates in receive_pack).
TipsConnected == \A r \in Ref : Leads(value[r]) \subseteq objects \cup lost

Ended(s) == Now(s) = "done"

Truthful(s) == Ended(s) =>
    LET q == session[s].request IN
    \A i \in DOMAIN q.commands :
        /\ session[s].verdicts[i] = "ok" => i \in session[s].applied
        /\ (i \in session[s].applied /\ session[s].verdicts[i] # "ok") =>
               \/ q.commands[i].new = None
               \/ /\ q.atomic
                  /\ \/ \E r \in Ref : held[r] = s
                     \/ \E j \in session[s].applied : q.commands[j].new = None

Whole(s) == Ended(s) /\ session[s].request.atomic /\ (\A r \in Ref : held[r] # s) =>
    session[s].applied \in {{}, DOMAIN session[s].request.commands}

\* The report of an ended call tells what took effect; only a deletion whose log
\* cannot be removed, and a transaction that breaks off at such a deletion or with
\* locks left, take effect and are reported as failed (receive_pack, report_status).
ReportTruthful == \A s \in Session : Truthful(s)

\* An atomic request that ends, and does not break off at the publication of its
\* references, has changed all of them or none (receive_pack with "atomic").
AllOrNothing == \A s \in Session : Whole(s)
===============================================================================
