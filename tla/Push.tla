--------------------------------- MODULE Push ---------------------------------
(***************************************************************************)
(* The pushing side, composed with the receivers of ReceivePack.  push     *)
(* reads the advertisement, checks that the updates are fast-forwards,     *)
(* packs what the advertised references do not lead to, and sends one      *)
(* request with the advertised ids as old ids.  The answer may be late or  *)
(* never come: the client gives up, and the receiver goes on.  A push that *)
(* is tried again is the push of another client.                           *)
(***************************************************************************)
EXTENDS ReceivePack

CONSTANTS Local,    \* what the pushing repository holds; it is complete
          Pushes,   \* the calls that may be made
          Branch    \* the references under refs/heads/

Client == Session   \* the call of receive_pack has the name of its client

Update == [name: Ref, new: Id, force: BOOLEAN]

ASSUME PushAssumption ==
    /\ Local \subseteq Object /\ \A o \in Local : Links[o] \subseteq Local
    /\ Pushes \subseteq [updates: Seq(Update), atomic: BOOLEAN]
    /\ Branch \subseteq Ref

VARIABLES push,       \* the call of each client
          phase,      \* where it is
          remote,     \* the references it has read of the advertisement
          answer      \* the statuses it returns

client == <<push, phase, remote, answer>>
vars   == <<server, client>>

NoPush == [updates |-> <<>>, atomic |-> FALSE]

\* The type of the state of clients and receivers.
TypeOK ==
    /\ ReceiveTypeOK
    /\ push \in [Client -> Pushes \cup {NoPush}]
    /\ phase \in [Client -> {"idle", "advertise", "plan", "sent", "done", "error"}]
    /\ \A c \in Client : DOMAIN remote[c] \subseteq Ref /\ \A r \in DOMAIN remote[c] : remote[c][r] \in Id
    /\ answer \in [Client -> Seq(Verdicts)]

Nothing == [r \in {} |-> None]

Init ==
    /\ ReceiveInit
    /\ push = [c \in Client |-> NoPush]
    /\ phase = [c \in Client |-> "idle"]
    /\ remote = [c \in Client |-> Nothing]
    /\ answer = [c \in Client |-> <<>>]

-------------------------------------------------------------------------------
\* Parents lead from commit to commit.
Ancestry[o \in Object] == {o} \cup UNION {Ancestry[p] : p \in Links[o] \cap Commit}

\* is_ancestor, which fails when the old commit is not there.
FastForward(old, new) == old \in Local \cap Ancestry[new]

\* validate_push_updates, after the refusal of duplicate destinations.
Valid(p, seen) ==
    /\ \A i, j \in DOMAIN p.updates : p.updates[i].name = p.updates[j].name => i = j
    /\ \A i \in DOMAIN p.updates :
          LET u == p.updates[i]
              old == seen[u.name]
          IN u.new # None /\ old # None /\ old # u.new /\ ~u.force =>
                u.name \in Branch /\ FastForward(old, u.new)

Tips(p) == {p.updates[i].new : i \in DOMAIN p.updates} \ {None}

\* Variant for the checks: only the tips are sent.
OnlyTips(p, seen) == Tips(p)

\* reachable_objects from the tips, without those from the advertised references;
\* of these, only what the pushing repository holds.
ToSend(p, seen) ==
    (UNION {Closure[o] : o \in Tips(p)})
        \ UNION {Closure[seen[r]] : r \in {x \in Ref : seen[x] \in Local}}

\* build_request
RequestOf(p, seen) ==
    [commands |-> [i \in DOMAIN p.updates |->
                     [name |-> p.updates[i].name, old |-> seen[p.updates[i].name],
                      new  |-> p.updates[i].new]],
     atomic   |-> p.atomic,
     sent     |-> Tips(p) # {},
     pack     |-> ToSend(p, seen)]

-------------------------------------------------------------------------------
GoTo(c, label) == phase' = [phase EXCEPT ![c] = label]

Start(c) ==
    /\ phase[c] = "idle"
    /\ \E p \in Pushes : push' = [push EXCEPT ![c] = p]
    /\ GoTo(c, "advertise")
    /\ UNCHANGED <<server, remote, answer>>

\* advertise_receive_pack reads the references at different times.
Advertise(c, r) ==
    /\ phase[c] = "advertise" /\ r \notin DOMAIN remote[c]
    /\ remote' = [remote EXCEPT ![c] = [x \in DOMAIN @ \cup {r} |->
                                          IF x = r THEN value[r] ELSE @[x]]]
    /\ IF DOMAIN remote'[c] = Ref THEN GoTo(c, "plan") ELSE UNCHANGED phase
    /\ UNCHANGED <<server, push, answer>>

\* The request is refused here, or sent.
Refuse(c) ==
    /\ phase[c] = "plan"
    /\ ~Valid(push[c], remote[c]) \/ ~(Tips(push[c]) \subseteq Local)
    /\ GoTo(c, "error")
    /\ UNCHANGED <<server, push, remote, answer>>

Send(c) ==
    /\ phase[c] = "plan"
    /\ Valid(push[c], remote[c]) /\ Tips(push[c]) \subseteq Local
    /\ Begin(c, RequestOf(push[c], remote[c]))
    /\ GoTo(c, "sent")
    /\ UNCHANGED <<push, remote, answer>>

\* parse_status: the answer to a pack that could not be unpacked is an error.
Answer(c) ==
    /\ phase[c] = "sent" /\ Ended(c)
    /\ IF \E i \in DOMAIN session[c].verdicts : session[c].verdicts[i] = "unpacker"
       THEN GoTo(c, "error") /\ UNCHANGED answer
       ELSE GoTo(c, "done") /\ answer' = [answer EXCEPT ![c] = session[c].verdicts]
    /\ UNCHANGED <<server, push, remote>>

\* The transport fails; or so does the receiver.  The request may have arrived.
NoAnswer(c) ==
    /\ phase[c] \in {"advertise", "sent"}
    /\ GoTo(c, "error")
    /\ UNCHANGED <<server, push, remote, answer>>

Next ==
    \/ \E c \in Client :
          \/ Start(c) \/ Refuse(c) \/ Send(c) \/ Answer(c) \/ NoAnswer(c)
          \/ \E r \in Ref : Advertise(c, r)
          \/ Receive(c) /\ UNCHANGED client
    \/ Others /\ UNCHANGED client

Spec == Init /\ [][Next]_vars

-------------------------------------------------------------------------------
Forced(c, r) == \E i \in DOMAIN push[c].updates :
    push[c].updates[i].name = r /\ (push[c].updates[i].force \/ push[c].updates[i].new = None)

MovesForward == \A c \in Client : session'[c] # session[c] =>
    \A r \in Branch : value'[r] # value[r] /\ value[r] # None /\ ~Forced(c, r) =>
        value[r] \in Ancestry[value'[r]]

\* A push moves a branch only forward, unless it is told to force or to delete,
\* whatever else changes the branch after the advertisement (push checks the
\* advertised id, receive_pack compares it under the lock).
FastForwardOnly == [][MovesForward]_vars

Misses(s, i) == i \in DOMAIN session[s].verdicts /\ session[s].verdicts[i] = "missing"

Behind == UNION {Closure[o] : o \in UNION {Links[x] \cap Commit : x \in Shallow}}

\* The pack that push builds, with what the advertised references lead to, is all
\* that the receiver needs: it misses nothing but objects pruned since, and
\* objects behind its shallow commits.
NothingMissing ==
    [][\A c \in Client : \A i \in DOMAIN push[c].updates :
          session'[c] # NoSession /\ session[c] # NoSession
          /\ ~Misses(c, i) /\ Misses(c, i)' =>
              Below[push[c].updates[i].new] \ Available(c)
                  \subseteq pruned \cup Behind]_vars

-------------------------------------------------------------------------------
(* An inductive invariant for the properties that rest on compare-and-swap. *)

Called(s) == session[s] # NoSession

CommandsOf(s) == session[s].request.commands

\* A session serves what its client planned, and the plan was found valid.
ServesPlan == \A c \in Client : Called(c) =>
    /\ phase[c] \in {"sent", "done", "error"}
    /\ push[c] \in Pushes /\ DOMAIN remote[c] = Ref
    /\ Valid(push[c], remote[c])
    /\ session[c].request = RequestOf(push[c], remote[c])

\* A client plans with a whole advertisement.
PlansAll == \A c \in Client :
    /\ phase[c] \in {"advertise", "plan"} => push[c] \in Pushes
    /\ phase[c] = "plan" => DOMAIN remote[c] = Ref

Holds(s, r) == held[r] = s

HoldsAny(s) == \E r \in Ref : Holds(s, r)

\* A transaction that holds a reference has seen the old value under the lock.
Matches(s, r) ==
    /\ Called(s) /\ session[s].stage \in {"batch", "done", "error"}
    /\ \E i \in session[s].todo : CommandsOf(s)[i].name = r /\ CommandsOf(s)[i].old = value[r]

HeldMatches == \A r \in Ref : \A s \in Session : Holds(s, r) => Matches(s, r)

Early == {"unpack", "head", "check", "publish"}

\* What is still to apply, what has been applied, and what is reported.
Progress(s) ==
    LET f == session[s] IN
    /\ f.todo \subseteq DOMAIN f.request.commands
    /\ f.applied \subseteq DOMAIN f.request.commands
    /\ f.stage \in Early => f.todo = {} /\ f.applied = {}
    /\ f.stage \in {"unpack", "head", "check"} =>
          f.verdicts \in Seq(Verdicts) /\ Len(f.verdicts) < Len(f.request.commands)
    /\ f.stage \in {"publish", "apply", "batch", "done"} =>
          DOMAIN f.verdicts = DOMAIN f.request.commands
    /\ f.stage = "publish" /\ f.request.atomic =>
          \A i, j \in DOMAIN f.verdicts : f.verdicts[i] = "ok" => f.verdicts[j] = "ok"
    /\ f.stage = "apply" =>
          /\ ~f.request.atomic
          /\ \A i \in DOMAIN f.verdicts :
                /\ f.verdicts[i] = "ok" => i \in f.applied \cup f.todo
                /\ i \in f.applied /\ f.verdicts[i] # "ok" => f.request.commands[i].new = None
                /\ i \in f.todo => f.verdicts[i] = "ok" /\ i \notin f.applied

\* A transaction holds all that it has still to publish, or has not begun.
Batch(s) ==
    LET f == session[s] IN
    f.stage = "batch" =>
          /\ f.request.atomic
          /\ \A i \in DOMAIN f.verdicts : f.verdicts[i] = "ok"
          /\ f.applied = DOMAIN f.verdicts \ f.todo
          /\ HoldsAny(s) => \A i \in f.todo : Holds(s, f.request.commands[i].name)
          /\ ~HoldsAny(s) => f.applied = {}

IInv ==
    /\ PlansAll /\ ServesPlan /\ HeldMatches
    /\ \A s \in Session : Called(s) => Progress(s) /\ Batch(s)
    /\ ReportTruthful /\ AllOrNothing
===============================================================================
