----------------------------- MODULE Push_proofs -----------------------------
(* Proofs about Push: what compare-and-swap gives to pushes that meet. *)
EXTENDS Push, FiniteSetTheorems, WellFoundedInduction, TLAPS

\* The variables are functions, and a session is a record with its fields.
Shaped(f) ==
    f = [stage |-> f.stage, request |-> f.request, denied |-> f.denied,
         verdicts |-> f.verdicts, connected |-> f.connected,
         todo |-> f.todo, applied |-> f.applied]

Shape ==
    /\ value = [r \in Ref |-> value[r]]
    /\ held = [r \in Ref |-> held[r]]
    /\ session = [s \in Session |-> session[s]]
    /\ \A s \in Session : session[s] = NoSession \/ Shaped(session[s])
    /\ \A r \in Ref : held[r] \in Session \cup {None}
    /\ push = [c \in Client |-> push[c]]
    /\ phase = [c \in Client |-> phase[c]]
    /\ remote = [c \in Client |-> remote[c]]

Inv == Shape /\ IInv

-------------------------------------------------------------------------------
\* What ServesPlan says of the commands of a session.
LEMMA Planned ==
    ASSUME Inv, NEW s \in Session, Called(s)
    PROVE  /\ DOMAIN CommandsOf(s) = DOMAIN push[s].updates
           /\ DOMAIN CommandsOf(s) = 1..Len(CommandsOf(s))
           /\ Len(CommandsOf(s)) \in Nat
           /\ \A i \in DOMAIN CommandsOf(s) :
                 /\ CommandsOf(s)[i].name = push[s].updates[i].name
                 /\ CommandsOf(s)[i].new = push[s].updates[i].new
                 /\ CommandsOf(s)[i].old = remote[s][CommandsOf(s)[i].name]
                 /\ CommandsOf(s)[i].name \in Ref
           /\ \A i, j \in DOMAIN CommandsOf(s) :
                 CommandsOf(s)[i].name = CommandsOf(s)[j].name => i = j
<1>1. /\ Valid(push[s], remote[s]) /\ push[s] \in Pushes
      /\ session[s].request = RequestOf(push[s], remote[s])
  BY DEF Inv, IInv, ServesPlan, Client
<1>2. CommandsOf(s) = [i \in DOMAIN push[s].updates |->
                         [name |-> push[s].updates[i].name,
                          old |-> remote[s][push[s].updates[i].name],
                          new |-> push[s].updates[i].new]]
  BY <1>1 DEF CommandsOf, RequestOf
<1>3. push[s].updates \in Seq(Update)
  BY <1>1, PushAssumption
<1>4. \A i \in DOMAIN push[s].updates : push[s].updates[i].name \in Ref
  <2>1. \A i \in DOMAIN push[s].updates : push[s].updates[i] \in Update
    BY <1>3
  <2> QED
    BY <2>1 DEF Update
<1>5. /\ DOMAIN push[s].updates = 1..Len(push[s].updates)
      /\ Len(push[s].updates) \in Nat
  BY <1>3
<1>6. \A i, j \in DOMAIN push[s].updates :
         push[s].updates[i].name = push[s].updates[j].name => i = j
  BY <1>1 DEF Valid
<1>7. DOMAIN CommandsOf(s) = DOMAIN push[s].updates
  BY <1>2
<1>8. ASSUME NEW i \in DOMAIN CommandsOf(s)
      PROVE  /\ CommandsOf(s)[i].name = push[s].updates[i].name
             /\ CommandsOf(s)[i].new = push[s].updates[i].new
             /\ CommandsOf(s)[i].old = remote[s][CommandsOf(s)[i].name]
             /\ CommandsOf(s)[i].name \in Ref
  <2>1. CommandsOf(s)[i] = [name |-> push[s].updates[i].name,
                            old |-> remote[s][push[s].updates[i].name],
                            new |-> push[s].updates[i].new]
    BY <1>2, <1>7, <1>8
  <2> QED
    BY <2>1, <1>4, <1>7, <1>8
<1>9. \A i, j \in DOMAIN CommandsOf(s) :
         CommandsOf(s)[i].name = CommandsOf(s)[j].name => i = j
  BY <1>6, <1>7, <1>8
<1>10. /\ DOMAIN CommandsOf(s) = 1..Len(CommandsOf(s))
       /\ Len(CommandsOf(s)) \in Nat
  <2> DEFINE S == {CommandsOf(s)[i] : i \in DOMAIN CommandsOf(s)}
             n == Len(push[s].updates)
  <2>1. CommandsOf(s) \in [1..n -> S]
    BY <1>2, <1>5, <1>7
  <2>2. CommandsOf(s) \in Seq(S)
    BY <2>1, <1>5
  <2> HIDE DEF S
  <2> QED
    BY <2>2
<1> QED
  BY <1>7, <1>8, <1>9, <1>10

\* A step of session s leaves the rest as it is, and so the invariant is a matter
\* of s alone.
LEMMA Frame ==
    ASSUME Inv, NEW s \in Session, Called(s), UNCHANGED client,
           NEW f, session' = [session EXCEPT ![s] = f],
           f.request = session[s].request, f # NoSession,
           \A t \in Session \ {s} : \A r \in Ref :
              /\ Holds(t, r)' <=> Holds(t, r)
              /\ Holds(t, r) => value'[r] = value[r],
           \A r \in Ref : Holds(s, r)' => Matches(s, r)',
           Progress(s)', Batch(s)', Truthful(s)', Whole(s)'
    PROVE  IInv'
<1>1. session'[s] = f /\ \A t \in Session \ {s} : session'[t] = session[t]
  BY DEF Inv, Shape
<1>2. \A t \in Session : Called(t)' <=> Called(t)
  BY <1>1 DEF Called
<1>3. ServesPlan'
  BY <1>1, <1>2 DEF Inv, IInv, ServesPlan, client, Client
<1>4. HeldMatches'
  <2> SUFFICES ASSUME NEW r \in Ref, NEW t \in Session, Holds(t, r)'
               PROVE  Matches(t, r)'
    BY DEF HeldMatches
  <2>1. CASE t = s
    BY <2>1
  <2>2. CASE t # s
    <3>1. Holds(t, r) /\ value'[r] = value[r] /\ session'[t] = session[t]
      BY <2>2, <1>1
    <3>2. Matches(t, r)
      BY <3>1 DEF Inv, IInv, HeldMatches
    <3> QED
      BY <3>1, <3>2 DEF Matches, Called, CommandsOf
  <2> QED
    BY <2>1, <2>2
<1>5. ASSUME NEW t \in Session, t # s
      PROVE  (Called(t)' => Progress(t)' /\ Batch(t)') /\ Truthful(t)' /\ Whole(t)'
  <2>1. session'[t] = session[t]
    BY <1>1, <1>5
  <2>2. \A r \in Ref : Holds(t, r)' <=> Holds(t, r)
    BY <1>5
  <2>3. HoldsAny(t)' <=> HoldsAny(t)
    BY <2>2 DEF HoldsAny
  <2>4. ASSUME Called(t)'
        PROVE  Progress(t)' /\ Batch(t)'
    <3>1. Called(t) /\ Progress(t) /\ Batch(t)
      BY <2>1, <2>4 DEF Inv, IInv, Called
    <3>2. Progress(t)'
      BY <2>1, <3>1 DEF Progress
    <3>3. \A i \in session[t].todo : CommandsOf(t)[i].name \in Ref
      BY <3>1, Planned DEF Progress, CommandsOf
    <3>4. Batch(t)'
      BY <2>1, <2>2, <2>3, <3>1, <3>3 DEF Batch, CommandsOf
    <3> QED
      BY <3>2, <3>4
  <2>5. Truthful(t) /\ Whole(t)
    BY DEF Inv, IInv, ReportTruthful, AllOrNothing
  <2>6. Truthful(t)'
    BY <2>1, <2>2, <2>5 DEF Truthful, Ended, Now, Holds
  <2>7. Whole(t)'
    BY <2>1, <2>2, <2>5 DEF Whole, Ended, Now, Holds
  <2> QED
    BY <2>4, <2>6, <2>7
<1>6. PlansAll'
  BY DEF Inv, IInv, PlansAll, client
<1> QED
  BY <1>1, <1>3, <1>4, <1>5, <1>6 DEF IInv, ReportTruthful, AllOrNothing

\* A session that takes a step keeps the shape of sessions.
LEMMA SessionShape ==
    ASSUME Inv, NEW s \in Session, NEW f, session' = [session EXCEPT ![s] = f], Shaped(f)
    PROVE  /\ session' = [t \in Session |-> session'[t]]
           /\ \A t \in Session : session'[t] = NoSession \/ Shaped(session'[t])
BY DEF Inv, Shape

\* A session that is not applying a transaction holds nothing.
LEMMA HoldsNothing ==
    ASSUME Inv, NEW s \in Session, Now(s) \notin {"batch", "done", "error"}
    PROVE  ~HoldsAny(s)
BY DEF Inv, IInv, HeldMatches, Matches, HoldsAny, Now

\* A step of such a session that changes no reference.
LEMMA Quiet ==
    ASSUME Inv, NEW s \in Session, Called(s),
           Now(s) \notin {"batch", "done", "error"},
           UNCHANGED <<client, value, held>>,
           NEW f, session' = [session EXCEPT ![s] = f],
           Shaped(f), f.request = session[s].request, f.stage # "none",
           Progress(s)', Batch(s)', Truthful(s)', Whole(s)'
    PROVE  Inv'
<1>1. Shape'
  BY DEF Inv, Shape, client
<1>2. f # NoSession
  BY DEF NoSession
<1>3. \A r \in Ref : ~Holds(s, r)
  BY HoldsNothing DEF HoldsAny
<1>4. \A r \in Ref : ~Holds(s, r)'
  BY <1>3 DEF Holds
<1>5. \A t \in Session \ {s} : \A r \in Ref :
         /\ Holds(t, r)' <=> Holds(t, r)
         /\ Holds(t, r) => value'[r] = value[r]
  BY DEF Holds
<1>6. UNCHANGED client
  OBVIOUS
<1>7. IInv'
  BY <1>2, <1>4, <1>5, <1>6, Frame
<1> QED
  BY <1>1, <1>7 DEF Inv

-------------------------------------------------------------------------------
\* What holds of a session before a step of its own.
LEMMA Before ==
    ASSUME Inv, NEW s \in Session, Now(s) # "none"
    PROVE  /\ Called(s) /\ Shaped(session[s])
           /\ Progress(s) /\ Batch(s) /\ Truthful(s) /\ Whole(s)
<1>1. Called(s)
  BY DEF Now, Called, NoSession
<1> QED
  BY <1>1 DEF Inv, IInv, Shape, ReportTruthful, AllOrNothing, Called

LEMMA UnpackStep ==
    ASSUME Inv, NEW s \in Session, Unpack(s), UNCHANGED client
    PROVE  Inv'
<1>1. /\ Called(s) /\ Shaped(session[s]) /\ Progress(s)
      /\ Now(s) = "unpack" /\ session[s].stage = "unpack"
  BY Before DEF Unpack, Now
<1>2. PICK f : /\ session' = [session EXCEPT ![s] = f]
               /\ \/ f = [session[s] EXCEPT !.stage = "head"]
                  \/ f = [session[s] EXCEPT !.stage = "done", !.verdicts =
                            [i \in DOMAIN session[s].request.commands |-> "unpacker"]]
  BY DEF Unpack, Set
<1>3. session'[s] = f
  BY <1>2 DEF Inv, Shape
<1>4. session[s].applied = {} /\ session[s].todo = {}
  BY <1>1 DEF Progress, Early
<1>5. /\ Shaped(f) /\ f.request = session[s].request
      /\ f.applied = {} /\ f.todo = {}
      /\ \/ f.stage = "head" /\ f.verdicts = session[s].verdicts
         \/ /\ f.stage = "done"
            /\ f.verdicts = [i \in DOMAIN session[s].request.commands |-> "unpacker"]
  BY <1>1, <1>2, <1>4 DEF Shaped
<1>6. Progress(s)'
  BY <1>1, <1>3, <1>5 DEF Progress, Early
<1>7. Batch(s)' /\ Truthful(s)' /\ Whole(s)'
  BY <1>3, <1>5 DEF Batch, Truthful, Whole, Ended, Now
<1> QED
  BY <1>1, <1>2, <1>5, <1>6, <1>7, Quiet DEF Unpack

LEMMA ReadHeadStep ==
    ASSUME Inv, NEW s \in Session, ReadHead(s), UNCHANGED client
    PROVE  Inv'
<1>1. /\ Called(s) /\ Shaped(session[s]) /\ Progress(s)
      /\ Now(s) = "head" /\ session[s].stage = "head"
  BY Before DEF ReadHead, Now
<1>2. PICK f : /\ session' = [session EXCEPT ![s] = f]
               /\ f = [session[s] EXCEPT !.stage = "check",
                                         !.denied = IF DenyCurrent THEN head ELSE None]
  BY DEF ReadHead, Set
<1>3. session'[s] = f
  BY <1>2 DEF Inv, Shape
<1>4. /\ Shaped(f) /\ f.request = session[s].request /\ f.stage = "check"
      /\ f.applied = session[s].applied /\ f.todo = session[s].todo
      /\ f.verdicts = session[s].verdicts
  BY <1>1, <1>2 DEF Shaped
<1>5. Progress(s)'
  BY <1>1, <1>3, <1>4 DEF Progress, Early
<1>6. Batch(s)' /\ Truthful(s)' /\ Whole(s)'
  BY <1>3, <1>4 DEF Batch, Truthful, Whole, Ended, Now
<1> QED
  BY <1>1, <1>2, <1>4, <1>5, <1>6, Quiet DEF ReadHead

\* A verdict is one of Verdicts.
LEMMA VerdictType ==
    ASSUME NEW s, NEW c
    PROVE  Verdict(s, c) \in Verdicts
BY DEF Verdict, Verdicts

LEMMA CheckNextStep ==
    ASSUME Inv, NEW s \in Session, CheckNext(s), UNCHANGED client
    PROVE  Inv'
<1>1. /\ Called(s) /\ Shaped(session[s]) /\ Progress(s)
      /\ Now(s) = "check" /\ session[s].stage = "check"
  BY Before DEF CheckNext, Now
<1> DEFINE q == session[s].request
           v == session[s].verdicts
<1>2. PICK all, connected, f :
         /\ session' = [session EXCEPT ![s] = f]
         /\ \E c : all = Append(v, Verdict(s, c))
         /\ f = [session[s] EXCEPT
                    !.verdicts  = IF Len(all) = Len(q.commands) THEN Grouped(q, all) ELSE all,
                    !.connected = connected,
                    !.stage     = IF Len(all) = Len(q.commands) THEN "publish"
                                  ELSE session[s].stage]
  BY DEF CheckNext, Set
<1>3. session'[s] = f
  BY <1>2 DEF Inv, Shape
<1>4. /\ v \in Seq(Verdicts) /\ Len(v) < Len(q.commands)
      /\ session[s].applied = {} /\ session[s].todo = {}
  BY <1>1 DEF Progress, Early
<1>5. all \in Seq(Verdicts) /\ Len(all) = Len(v) + 1
  BY <1>2, <1>4, VerdictType
<1>6. DOMAIN Grouped(q, all) = DOMAIN all
  BY DEF Grouped
<1>7. DOMAIN q.commands = 1..Len(q.commands) /\ Len(q.commands) \in Nat
  BY <1>1, Planned DEF CommandsOf
<1>9. /\ Shaped(f) /\ f.request = q /\ f.applied = {} /\ f.todo = {}
      /\ Len(all) = Len(q.commands) => f.stage = "publish" /\ f.verdicts = Grouped(q, all)
      /\ Len(all) # Len(q.commands) => f.stage = "check" /\ f.verdicts = all
  BY <1>1, <1>2, <1>4 DEF Shaped
<1>10. Progress(s)'
  <2>1. CASE Len(all) = Len(q.commands)
    <3>1. DOMAIN f.verdicts = DOMAIN q.commands
      BY <2>1, <1>5, <1>6, <1>7, <1>9
    <3>2. q.atomic => \A i, j \in DOMAIN f.verdicts :
                        f.verdicts[i] = "ok" => f.verdicts[j] = "ok"
      BY <2>1, <1>9 DEF Grouped
    <3> QED
      BY <2>1, <3>1, <3>2, <1>3, <1>9 DEF Progress, Early
  <2>2. CASE Len(all) # Len(q.commands)
    <3>1. Len(all) < Len(q.commands)
      BY <2>2, <1>4, <1>5, <1>7
    <3> QED
      BY <2>2, <3>1, <1>3, <1>5, <1>9 DEF Progress, Early
  <2> QED
    BY <2>1, <2>2
<1>11. f.stage \in {"publish", "check"}
  BY <1>9
<1>12. Batch(s)' /\ Truthful(s)' /\ Whole(s)'
  BY <1>3, <1>11 DEF Batch, Truthful, Whole, Ended, Now
<1>13. UNCHANGED <<value, held>>
  BY DEF CheckNext
<1> QED
  BY <1>1, <1>2, <1>9, <1>10, <1>11, <1>12, <1>13, Quiet

LEMMA PublishStep ==
    ASSUME Inv, NEW s \in Session, Publish(s), UNCHANGED client
    PROVE  Inv'
<1>1. /\ Called(s) /\ Shaped(session[s]) /\ Progress(s)
      /\ Now(s) = "publish" /\ session[s].stage = "publish"
  BY Before DEF Publish, Now
<1> DEFINE q == session[s].request
           v == session[s].verdicts
<1>2. PICK f, stage :
         /\ session' = [session EXCEPT ![s] = f]
         /\ f = [session[s] EXCEPT !.todo = Accepted(s), !.stage = stage]
         /\ stage = IF Accepted(s) = {} \/ (AsTransaction(s) /\ Accepted(s) # DOMAIN v)
                    THEN "done" ELSE IF AsTransaction(s) THEN "batch" ELSE "apply"
  BY DEF Publish, Set
<1>3. session'[s] = f
  BY <1>2 DEF Inv, Shape
<1>4. /\ DOMAIN v = DOMAIN q.commands /\ session[s].applied = {}
      /\ q.atomic => \A i, j \in DOMAIN v : v[i] = "ok" => v[j] = "ok"
  BY <1>1 DEF Progress, Early
<1>5. /\ Shaped(f) /\ f.request = q /\ f.applied = {} /\ f.verdicts = v
      /\ f.todo = Accepted(s) /\ f.stage = stage
  BY <1>1, <1>2, <1>4 DEF Shaped
<1>6. Accepted(s) = {i \in DOMAIN v : v[i] = "ok"}
  BY DEF Accepted
<1>7. \/ stage = "done" /\ Accepted(s) = {}
      \/ stage = "batch" /\ q.atomic /\ Accepted(s) = DOMAIN v
      \/ stage = "apply" /\ ~q.atomic
  BY <1>2, <1>4, <1>6 DEF AsTransaction
<1>8. UNCHANGED <<value, held>> /\ ~HoldsAny(s)
  BY <1>1, HoldsNothing DEF Publish
<1>9. ~HoldsAny(s)'
  BY <1>8 DEF HoldsAny, Holds
<1>10. Progress(s)'
  BY <1>3, <1>4, <1>5, <1>6, <1>7 DEF Progress, Early
<1>11. Batch(s)'
  BY <1>3, <1>4, <1>5, <1>6, <1>7, <1>9 DEF Batch
<1>12. Truthful(s)' /\ Whole(s)'
  BY <1>3, <1>4, <1>5, <1>6, <1>7 DEF Truthful, Whole, Ended, Now
<1> QED
  BY <1>1, <1>2, <1>5, <1>7, <1>8, <1>10, <1>11, <1>12, Quiet

\* The call ends early; a transaction keeps what it holds.
LEMMA FailStep ==
    ASSUME Inv, NEW s \in Session, Fail(s), UNCHANGED client
    PROVE  Inv'
<1>1. /\ Called(s) /\ Shaped(session[s]) /\ Progress(s)
  BY Before DEF Fail
<1>2. PICK f : /\ session' = [session EXCEPT ![s] = f]
               /\ f = [session[s] EXCEPT !.stage = "error"]
  BY DEF Fail, Set
<1>3. session'[s] = f
  BY <1>2 DEF Inv, Shape
<1>4. /\ Shaped(f) /\ f.request = session[s].request /\ f.stage = "error"
      /\ f.todo = session[s].todo /\ f.applied = session[s].applied
      /\ f.verdicts = session[s].verdicts
  BY <1>1, <1>2 DEF Shaped
<1>5. Progress(s)' /\ Batch(s)' /\ Truthful(s)' /\ Whole(s)'
  BY <1>1, <1>3, <1>4 DEF Progress, Early, Batch, Truthful, Whole, Ended, Now
<1>6. f # NoSession
  BY <1>4 DEF NoSession
<1>7. UNCHANGED <<client, value, held>>
  BY DEF Fail
<1>8. \A r \in Ref : Holds(s, r)' => Matches(s, r)'
  BY <1>3, <1>4, <1>6, <1>7 DEF Inv, IInv, HeldMatches, Holds, Matches, Called, CommandsOf
<1>9. \A t \in Session \ {s} : \A r \in Ref :
         /\ Holds(t, r)' <=> Holds(t, r)
         /\ Holds(t, r) => value'[r] = value[r]
  BY <1>7 DEF Holds
<1>10. IInv'
  BY <1>1, <1>2, <1>4, <1>5, <1>6, <1>7, <1>8, <1>9, Frame
<1>11. Shape'
  BY <1>2, <1>4, <1>7 DEF Inv, Shape, client
<1> QED
  BY <1>10, <1>11 DEF Inv

\* Every command is reported as refused, and what is held stays held.
LEMMA Refusal ==
    ASSUME Inv, NEW s \in Session, Now(s) = "batch", AllRefused(s),
           UNCHANGED <<client, value, held>>,
           HoldsAny(s) \/ session[s].applied = {}
    PROVE  Inv'
<1>1. /\ Called(s) /\ Shaped(session[s]) /\ Progress(s) /\ Batch(s)
      /\ session[s].stage = "batch"
  BY Before DEF Now
<1>2. PICK f : /\ session' = [session EXCEPT ![s] = f]
               /\ f = [session[s] EXCEPT !.stage = "done",
                         !.verdicts = [i \in DOMAIN session[s].verdicts |-> "refused"]]
  BY DEF AllRefused, Set
<1>3. session'[s] = f
  BY <1>2 DEF Inv, Shape
<1>4. /\ Shaped(f) /\ f.request = session[s].request /\ f.stage = "done"
      /\ f.todo = session[s].todo /\ f.applied = session[s].applied
      /\ f.verdicts = [i \in DOMAIN session[s].verdicts |-> "refused"]
  BY <1>1, <1>2 DEF Shaped
<1>5. HoldsAny(s)' <=> HoldsAny(s)
  BY DEF HoldsAny, Holds
<1>6. DOMAIN session[s].verdicts = DOMAIN session[s].request.commands
  BY <1>1 DEF Progress
<1>7. Progress(s)' /\ Batch(s)'
  BY <1>1, <1>3, <1>4, <1>6 DEF Progress, Early, Batch
<1>8. session[s].request.atomic
  BY <1>1 DEF Batch
<1>9. Truthful(s)'
  BY <1>3, <1>4, <1>5, <1>6, <1>8 DEF Truthful, HoldsAny, Holds
<1>10. Whole(s)'
  BY <1>3, <1>4, <1>5 DEF Whole, HoldsAny, Holds
<1>11. f # NoSession
  BY <1>4 DEF NoSession
<1>12. \A r \in Ref : Holds(s, r)' => Matches(s, r)'
  BY <1>3, <1>4, <1>11 DEF Inv, IInv, HeldMatches, Holds, Matches, Called, CommandsOf
<1>13. \A t \in Session \ {s} : \A r \in Ref :
         /\ Holds(t, r)' <=> Holds(t, r)
         /\ Holds(t, r) => value'[r] = value[r]
  BY DEF Holds
<1>14. UNCHANGED client
  OBVIOUS
<1>15. IInv'
  BY <1>1, <1>2, <1>4, <1>7, <1>9, <1>10, <1>11, <1>12, <1>13, <1>14, Frame
<1>16. Shape'
  BY <1>2, <1>4 DEF Inv, Shape, client
<1> QED
  BY <1>15, <1>16 DEF Inv

LEMMA BatchFailsStep ==
    ASSUME Inv, NEW s \in Session, BatchFails(s), UNCHANGED client
    PROVE  Inv'
BY Refusal DEF BatchFails, HoldsAny, Holds

LEMMA PrepareStep ==
    ASSUME Inv, NEW s \in Session, Prepare(s), UNCHANGED client
    PROVE  Inv'
<1>1. /\ Called(s) /\ Progress(s) /\ Batch(s)
      /\ Now(s) = "batch" /\ session[s].stage = "batch"
  BY Before DEF Prepare, Now
<1>2. ~HoldsAny(s) /\ session[s].applied = {}
  BY <1>1 DEF Prepare, HoldsAny, Holds, Batch
<1>3. CASE AllRefused(s) /\ UNCHANGED held
  BY <1>1, <1>2, <1>3, Refusal DEF Prepare
<1>4. CASE /\ \A i \in session[s].todo :
                /\ held[CommandsOf(s)[i].name] = None
                /\ CommandsOf(s)[i].old = value[CommandsOf(s)[i].name]
           /\ held' = [r \in Ref |-> IF r \in Names(s) THEN s ELSE held[r]]
           /\ UNCHANGED session
  <2>1. UNCHANGED value
    BY DEF Prepare
  <2>2. \A i \in session[s].todo : CommandsOf(s)[i].name \in Ref
    BY <1>1, Planned DEF Progress, CommandsOf
  <2>3. Names(s) = {CommandsOf(s)[i].name : i \in session[s].todo}
    BY DEF Names, CommandsOf
  <2>4. \A r \in Ref : Holds(s, r)' <=> r \in Names(s)
    BY <1>2, <1>4 DEF HoldsAny, Holds
  <2>5. \A r \in Names(s) : held[r] = None
    BY <1>4, <2>3
  <2>6. None \notin Session
    BY ReceivePackAssumption
  <2>7. \A t \in Session \ {s} : \A r \in Ref :
           /\ Holds(t, r)' <=> Holds(t, r)
           /\ Holds(t, r) => value'[r] = value[r]
    BY <1>4, <2>1, <2>5, <2>6 DEF Holds
  <2>8. \A r \in Ref : Holds(s, r)' => Matches(s, r)'
    <3> SUFFICES ASSUME NEW r \in Ref, Holds(s, r)'
                 PROVE  Matches(s, r)'
      OBVIOUS
    <3>1. PICK i \in session[s].todo : CommandsOf(s)[i].name = r
      BY <2>3, <2>4
    <3>2. CommandsOf(s)[i].old = value[r]
      BY <1>4, <3>1
    <3> QED
      BY <1>1, <1>4, <2>1, <3>1, <3>2 DEF Matches, Called, CommandsOf
  <2>9. Progress(s)'
    BY <1>1, <1>4 DEF Progress
  <2>10. \A i \in session[s].todo : held'[CommandsOf(s)[i].name] = s
    BY <1>4, <2>2, <2>3
  <2>11. Batch(s)'
    BY <1>1, <1>2, <1>4, <2>10 DEF Batch, CommandsOf, Holds
  <2>12. Truthful(s)' /\ Whole(s)'
    BY <1>1, <1>4 DEF Truthful, Whole, Ended, Now
  <2>13. session' = [session EXCEPT ![s] = session[s]]
    BY <1>4 DEF Inv, Shape
  <2>14. session[s] # NoSession
    BY <1>1 DEF Called
  <2>15. IInv'
    BY <1>1, <2>7, <2>8, <2>9, <2>11, <2>12, <2>13, <2>14, Frame
  <2>16. Shape'
    <3>1. held' = [r \in Ref |-> held'[r]] /\ \A r \in Ref : held'[r] \in Session \cup {None}
      BY <1>4 DEF Inv, Shape
    <3> QED
      BY <1>4, <2>1, <3>1 DEF Inv, Shape, client
  <2> QED
    BY <2>15, <2>16 DEF Inv
<1> QED
  BY <1>3, <1>4 DEF Prepare, CommandsOf, Precondition

LEMMA PublishNextStep ==
    ASSUME Inv, NEW s \in Session, PublishNext(s), UNCHANGED client
    PROVE  Inv'
<1>1. /\ Called(s) /\ Shaped(session[s]) /\ Progress(s) /\ Batch(s)
      /\ session[s].stage = "batch"
  BY Before DEF PublishNext, Now
<1>2. PICK i \in session[s].todo :
         /\ held[CommandsOf(s)[i].name] = s
         /\ value' = [value EXCEPT ![CommandsOf(s)[i].name] = CommandsOf(s)[i].new]
         /\ held' = [held EXCEPT ![CommandsOf(s)[i].name] = None]
         /\ Applied(s, i, "ok", TRUE) \/ LogRemains(s, i)
  BY DEF PublishNext, CommandsOf
<1>3. PICK n, rest, f :
         /\ n = CommandsOf(s)[i].name /\ rest = session[s].todo \ {i}
         /\ session' = [session EXCEPT ![s] = f]
         /\ \/ f = [session[s] EXCEPT
                       !.todo = rest, !.verdicts[i] = "ok",
                       !.applied = session[s].applied \cup {i},
                       !.stage = IF rest = {} THEN "done" ELSE session[s].stage]
            \/ /\ CommandsOf(s)[i].new = None
               /\ f = [session[s] EXCEPT
                         !.stage = "done", !.todo = rest,
                         !.applied = session[s].applied \cup {i},
                         !.verdicts = [j \in DOMAIN session[s].verdicts |-> "refused"]]
  <2>1. CASE Applied(s, i, "ok", TRUE)
    BY <2>1 DEF Applied, Set
  <2>2. CASE LogRemains(s, i)
    BY <2>2 DEF LogRemains, Set, CommandsOf
  <2> QED
    BY <1>2, <2>1, <2>2
<1>4. session'[s] = f
  BY <1>3 DEF Inv, Shape
<1>5. /\ Shaped(f) /\ f.request = session[s].request /\ f.todo = rest
      /\ f.applied = session[s].applied \cup {i}
      /\ \/ /\ f.verdicts = [session[s].verdicts EXCEPT ![i] = "ok"]
            /\ f.stage = IF rest = {} THEN "done" ELSE "batch"
         \/ /\ CommandsOf(s)[i].new = None /\ f.stage = "done"
            /\ f.verdicts = [j \in DOMAIN session[s].verdicts |-> "refused"]
  BY <1>1, <1>3 DEF Shaped
<1>6. /\ DOMAIN session[s].verdicts = DOMAIN CommandsOf(s)
      /\ session[s].todo \subseteq DOMAIN CommandsOf(s)
      /\ session[s].applied = DOMAIN session[s].verdicts \ session[s].todo
      /\ session[s].request.atomic
      /\ \A j \in DOMAIN session[s].verdicts : session[s].verdicts[j] = "ok"
  BY <1>1 DEF Progress, Batch, CommandsOf
<1>7. /\ n \in Ref
      /\ \A j \in rest : CommandsOf(s)[j].name \in Ref /\ CommandsOf(s)[j].name # n
  BY <1>1, <1>3, <1>6, Planned
<1>8. \A j \in rest : held[CommandsOf(s)[j].name] = s
  BY <1>1, <1>2, <1>3, <1>7 DEF Batch, HoldsAny, Holds, CommandsOf
<1>9. /\ held'[n] = None /\ \A r \in Ref \ {n} : held'[r] = held[r] /\ value'[r] = value[r]
  BY <1>2, <1>3, <1>7 DEF Inv, Shape
<1>10. None \notin Session
  BY ReceivePackAssumption
<1>11. \A t \in Session \ {s} : \A r \in Ref :
          /\ Holds(t, r)' <=> Holds(t, r)
          /\ Holds(t, r) => value'[r] = value[r]
  BY <1>2, <1>3, <1>9, <1>10 DEF Holds
<1>12. f # NoSession
  BY <1>5 DEF NoSession
<1>13. \A r \in Ref : Holds(s, r)' => Matches(s, r)'
  <2> SUFFICES ASSUME NEW r \in Ref, Holds(s, r)'
               PROVE  Matches(s, r)'
    OBVIOUS
  <2>1. r # n /\ held[r] = s /\ value'[r] = value[r]
    BY <1>9, <1>10 DEF Holds
  <2>2. PICK j \in session[s].todo : CommandsOf(s)[j].name = r /\ CommandsOf(s)[j].old = value[r]
    BY <2>1 DEF Inv, IInv, HeldMatches, Matches, Holds
  <2>3. j \in rest
    BY <1>3, <2>1, <2>2
  <2>4. f.request.commands[j].name = r /\ f.request.commands[j].old = value'[r]
    BY <1>5, <2>1, <2>2 DEF CommandsOf
  <2> QED
    BY <1>4, <1>5, <1>12, <2>3, <2>4 DEF Matches, Called, CommandsOf
<1>14. Progress(s)'
  <2>1. /\ f.todo \subseteq DOMAIN CommandsOf(s) /\ f.applied \subseteq DOMAIN CommandsOf(s)
        /\ DOMAIN f.verdicts = DOMAIN CommandsOf(s)
        /\ f.request.commands = CommandsOf(s) /\ f.stage \in {"done", "batch"}
    BY <1>3, <1>5, <1>6 DEF CommandsOf
  <2> QED
    BY <1>4, <2>1 DEF Progress, Early
<1>15. \A j \in rest : Holds(s, f.request.commands[j].name)'
  BY <1>5, <1>7, <1>8, <1>9, SMTT(40) DEF Holds, CommandsOf
<1>16. rest # {} => HoldsAny(s)'
  BY <1>5, <1>7, <1>15 DEF HoldsAny, CommandsOf
<1>17. Batch(s)'
  <2> SUFFICES ASSUME f.stage = "batch"
               PROVE  Batch(s)'
    BY <1>4 DEF Batch
  <2>1. rest # {} /\ f.verdicts = [session[s].verdicts EXCEPT ![i] = "ok"]
    BY <1>5
  <2>2. HoldsAny(s)'
    BY <1>16, <2>1
  <2>3. f.applied = DOMAIN f.verdicts \ f.todo
    BY <1>3, <1>5, <1>6, <2>1
  <2>4. \A j \in DOMAIN f.verdicts : f.verdicts[j] = "ok"
    BY <1>6, <2>1
  <2> QED
    BY <1>4, <1>5, <1>6, <1>15, <2>2, <2>3, <2>4 DEF Batch
<1>18. /\ DOMAIN f.verdicts = DOMAIN f.request.commands
       /\ f.request.commands = CommandsOf(s) /\ f.request.atomic
  BY <1>5, <1>6 DEF CommandsOf
<1>19. Truthful(s)'
  <2>1. CASE f.verdicts = [session[s].verdicts EXCEPT ![i] = "ok"] /\ f.stage # "done"
    BY <1>4, <2>1 DEF Truthful, Ended, Now
  <2>2. CASE f.verdicts = [session[s].verdicts EXCEPT ![i] = "ok"] /\ rest = {}
    <3>1. f.applied = DOMAIN CommandsOf(s) /\ \A j \in DOMAIN f.verdicts : f.verdicts[j] = "ok"
      BY <1>3, <1>5, <1>6, <2>2
    <3> QED
      BY <1>4, <1>18, <3>1 DEF Truthful
  <2>3. CASE CommandsOf(s)[i].new = None /\ f.verdicts = [j \in DOMAIN session[s].verdicts |-> "refused"]
    <3>1. \A j \in DOMAIN f.verdicts : f.verdicts[j] # "ok"
      BY <2>3
    <3>2. i \in f.applied /\ f.request.commands[i].new = None
      BY <1>5, <1>18, <2>3
    <3> QED
      BY <1>4, <1>18, <3>1, <3>2 DEF Truthful
  <2> QED
    BY <1>5, <2>1, <2>2, <2>3
<1>20. Whole(s)'
  <2>1. rest = {} => f.applied = DOMAIN CommandsOf(s)
    BY <1>3, <1>5, <1>6
  <2> QED
    BY <1>4, <1>16, <1>18, <2>1 DEF Whole, HoldsAny, Holds
<1>21. IInv'
  BY <1>1, <1>3, <1>5, <1>11, <1>12, <1>13, <1>14, <1>17, <1>19, <1>20, Frame
<1>22. Shape'
  <2>1. \A r \in Ref : held'[r] \in Session \cup {None}
    BY <1>9 DEF Inv, Shape
  <2>2. /\ value' = [r \in Ref |-> value'[r]]
        /\ held' = [r \in Ref |-> held'[r]]
    BY <1>2 DEF Inv, Shape
  <2>3. /\ session' = [t \in Session |-> session'[t]]
        /\ \A t \in Session : session'[t] = NoSession \/ Shaped(session'[t])
    BY <1>3, <1>5, SessionShape
  <2> QED
    BY <2>1, <2>2, <2>3 DEF Inv, Shape, client
<1> QED
  BY <1>21, <1>22 DEF Inv

LEMMA ApplyNextStep ==
    ASSUME Inv, NEW s \in Session, ApplyNext(s), UNCHANGED client
    PROVE  Inv'
<1>1. /\ Called(s) /\ Shaped(session[s]) /\ Progress(s)
      /\ session[s].stage = "apply" /\ Now(s) = "apply"
  BY Before DEF ApplyNext, Now
<1>2. PICK i \in session[s].todo, verdict \in {"ok", "refused"}, effect \in BOOLEAN :
         /\ Applied(s, i, verdict, effect)
         /\ \/ /\ effect /\ held[CommandsOf(s)[i].name] = None
               /\ value' = [value EXCEPT ![CommandsOf(s)[i].name] = CommandsOf(s)[i].new]
            \/ ~effect /\ UNCHANGED value
         /\ verdict = "ok" => effect
         /\ effect /\ verdict # "ok" => CommandsOf(s)[i].new = None
  BY DEF ApplyNext, CommandsOf
<1>3. PICK rest, f :
         /\ rest = session[s].todo \ {i}
         /\ session' = [session EXCEPT ![s] = f]
         /\ f = [session[s] EXCEPT
                    !.todo = rest, !.verdicts[i] = verdict,
                    !.applied = IF effect THEN session[s].applied \cup {i}
                                ELSE session[s].applied,
                    !.stage = IF rest = {} THEN "done" ELSE session[s].stage]
  BY <1>2 DEF Applied, Set
<1>4. session'[s] = f
  BY <1>3 DEF Inv, Shape
<1>5. /\ Shaped(f) /\ f.request = session[s].request /\ f.todo = rest
      /\ f.applied = IF effect THEN session[s].applied \cup {i} ELSE session[s].applied
      /\ f.verdicts = [session[s].verdicts EXCEPT ![i] = verdict]
      /\ f.stage = IF rest = {} THEN "done" ELSE "apply"
  BY <1>1, <1>3 DEF Shaped
<1>6. UNCHANGED held
  BY DEF ApplyNext
<1>7. \A r \in Ref : ~Holds(s, r)'
  BY <1>1, <1>6, HoldsNothing DEF HoldsAny, Holds
<1>8. None \notin Session
  BY ReceivePackAssumption
<1>9. \A t \in Session \ {s} : \A r \in Ref :
          /\ Holds(t, r)' <=> Holds(t, r)
          /\ Holds(t, r) => value'[r] = value[r]
  BY <1>2, <1>6, <1>8 DEF Holds, Inv, Shape
<1>10. \A j \in DOMAIN f.verdicts :
           /\ f.verdicts[j] = "ok" => j \in f.applied \cup f.todo
           /\ j \in f.applied /\ f.verdicts[j] # "ok" => CommandsOf(s)[j].new = None
           /\ j \in f.todo => f.verdicts[j] = "ok" /\ j \notin f.applied
  <2> SUFFICES ASSUME NEW j \in DOMAIN f.verdicts
               PROVE  /\ f.verdicts[j] = "ok" => j \in f.applied \cup f.todo
                      /\ j \in f.applied /\ f.verdicts[j] # "ok" => CommandsOf(s)[j].new = None
                      /\ j \in f.todo => f.verdicts[j] = "ok" /\ j \notin f.applied
    OBVIOUS
  <2>1. /\ session[s].verdicts[j] = "ok" => j \in session[s].applied \cup session[s].todo
        /\ j \in session[s].applied /\ session[s].verdicts[j] # "ok" => CommandsOf(s)[j].new = None
        /\ j \in session[s].todo => session[s].verdicts[j] = "ok" /\ j \notin session[s].applied
    BY <1>1, <1>5 DEF Progress, CommandsOf
  <2>2. CASE j = i
    <3>1. f.verdicts[j] = verdict /\ j \notin f.todo
      BY <1>3, <1>5, <2>2
    <3>2. effect <=> j \in f.applied
      BY <1>2, <1>5, <2>1, <2>2
    <3> QED
      BY <1>2, <2>2, <3>1, <3>2
  <2>3. CASE j # i
    <3>1. /\ f.verdicts[j] = session[s].verdicts[j]
          /\ j \in f.todo <=> j \in session[s].todo
          /\ j \in f.applied <=> j \in session[s].applied
      BY <1>3, <1>5, <2>3
    <3> QED
      BY <2>1, <3>1
  <2> QED
    BY <2>2, <2>3
<1>11. Progress(s)' /\ Truthful(s)' /\ Whole(s)'
  <2>1. /\ f.todo \subseteq DOMAIN CommandsOf(s) /\ f.applied \subseteq DOMAIN CommandsOf(s)
        /\ DOMAIN f.verdicts = DOMAIN CommandsOf(s) /\ ~session[s].request.atomic
    BY <1>1, <1>3, <1>5 DEF Progress, CommandsOf
  <2>2. f.stage = "done" => f.todo = {}
    BY <1>5
  <2>3. Progress(s)'
    BY <1>4, <1>5, <1>10, <2>1 DEF Progress, Early, CommandsOf
  <2>4. Truthful(s)' /\ Whole(s)'
    BY <1>4, <1>5, <1>10, <2>1, <2>2 DEF Truthful, Whole, Ended, Now, CommandsOf
  <2> QED
    BY <2>3, <2>4
<1>12. Batch(s)' /\ f # NoSession
  BY <1>4, <1>5 DEF Batch, NoSession
<1>13. IInv'
  BY <1>1, <1>3, <1>5, <1>7, <1>9, <1>11, <1>12, Frame
<1>14. Shape'
  <2>1. value' = [r \in Ref |-> value'[r]]
    BY <1>2 DEF Inv, Shape
  <2>2. /\ session' = [t \in Session |-> session'[t]]
        /\ \A t \in Session : session'[t] = NoSession \/ Shaped(session'[t])
    BY <1>3, <1>5, SessionShape
  <2> QED
    BY <1>6, <2>1, <2>2 DEF Inv, Shape, client
<1> QED
  BY <1>13, <1>14 DEF Inv

-------------------------------------------------------------------------------
\* A step that leaves sessions, locks and held references alone.
LEMMA Outside ==
    ASSUME Inv, UNCHANGED <<session, held>>, Shape', ServesPlan', PlansAll',
           \A r \in Ref : held[r] # None => value'[r] = value[r]
    PROVE  Inv'
<1>1. \A s \in Session : Called(s)' => Progress(s)' /\ Batch(s)'
  BY DEF Inv, IInv, Called, Progress, Batch, HoldsAny, Holds
<1>2. ReportTruthful' /\ AllOrNothing'
  BY DEF Inv, IInv, ReportTruthful, AllOrNothing, Truthful, Whole, Ended, Now
<1>3. HeldMatches'
  <2> SUFFICES ASSUME NEW r \in Ref, NEW s \in Session, Holds(s, r)'
               PROVE  Matches(s, r)'
    BY DEF HeldMatches
  <2>1. Holds(s, r) /\ held[r] # None
    BY ReceivePackAssumption DEF Holds
  <2>2. Matches(s, r) /\ value'[r] = value[r]
    BY <2>1 DEF Inv, IInv, HeldMatches
  <2> QED
    BY <2>2 DEF Matches, Called, CommandsOf
<1> QED
  BY <1>1, <1>2, <1>3 DEF Inv, IInv

\* Before it sends, a client has no session.
LEMMA NotYet ==
    ASSUME Inv, NEW c \in Client, phase[c] \in {"idle", "advertise", "plan"}
    PROVE  session[c] = NoSession
BY DEF Inv, IInv, ServesPlan, Called

LEMMA ClientStep ==
    ASSUME Inv, NEW c \in Client,
           Start(c) \/ Refuse(c) \/ Answer(c) \/ NoAnswer(c) \/ \E r \in Ref : Advertise(c, r)
    PROVE  Inv'
<1>1. UNCHANGED server
  BY DEF Start, Refuse, Answer, NoAnswer, Advertise
<1>2. Shape'
  BY <1>1 DEF Inv, Shape, server, Start, Refuse, Answer, NoAnswer, Advertise, GoTo
<1>3. /\ \A d \in Client \ {c} : push'[d] = push[d] /\ phase'[d] = phase[d] /\ remote'[d] = remote[d]
      /\ \/ phase[c] \in {"idle", "advertise", "plan"}
         \/ /\ phase[c] = "sent" /\ phase'[c] \in {"done", "error"}
            /\ push'[c] = push[c] /\ remote'[c] = remote[c]
  BY DEF Inv, Shape, Start, Refuse, Answer, NoAnswer, Advertise, GoTo
<1>4. ServesPlan'
  <2> SUFFICES ASSUME NEW d \in Client, Called(d)'
               PROVE  /\ phase'[d] \in {"sent", "done", "error"}
                      /\ push'[d] \in Pushes /\ DOMAIN remote'[d] = Ref
                      /\ Valid(push'[d], remote'[d])
                      /\ session'[d].request = RequestOf(push'[d], remote'[d])
    BY DEF ServesPlan
  <2>1. Called(d) /\ session'[d] = session[d]
    BY <1>1 DEF server, Called
  <2>2. push'[d] = push[d] /\ remote'[d] = remote[d] /\ phase'[d] \in {"sent", "done", "error"}
    BY <1>3, <2>1, NotYet DEF Called, Inv, IInv, ServesPlan
  <2> QED
    BY <2>1, <2>2 DEF Inv, IInv, ServesPlan
<1>5. PlansAll'
  <2> SUFFICES ASSUME NEW d \in Client
               PROVE  /\ phase'[d] \in {"advertise", "plan"} => push'[d] \in Pushes
                      /\ phase'[d] = "plan" => DOMAIN remote'[d] = Ref
    BY DEF PlansAll
  <2>1. CASE d # c
    BY <1>3, <2>1 DEF Inv, IInv, PlansAll
  <2>2. CASE d = c
    <3>1. CASE Start(c)
      BY <2>2, <3>1 DEF Start, GoTo, Inv, Shape
    <3>2. CASE Refuse(c) \/ Answer(c) \/ NoAnswer(c)
      BY <2>2, <3>2 DEF Refuse, Answer, NoAnswer, GoTo, Inv, Shape
    <3>3. ASSUME NEW r \in Ref, Advertise(c, r)
          PROVE  /\ push'[c] \in Pushes
                 /\ phase'[c] = "plan" => DOMAIN remote'[c] = Ref
      BY <3>3 DEF Advertise, GoTo, Inv, Shape, IInv, PlansAll
    <3> QED
      BY <2>2, <3>1, <3>2, <3>3
  <2> QED
    BY <2>1, <2>2
<1> QED
  BY <1>1, <1>2, <1>4, <1>5, Outside DEF server

LEMMA OthersStep ==
    ASSUME Inv, Others, UNCHANGED client
    PROVE  Inv'
<1>1. UNCHANGED <<session, held>>
  BY DEF Others, Switch, LocalUpdate, Prune
<1>2. \A r \in Ref : held[r] # None => value'[r] = value[r]
  BY DEF Others, Switch, LocalUpdate, Prune, Inv, Shape
<1>3. Shape'
  BY <1>1 DEF Others, Switch, LocalUpdate, Prune, Inv, Shape, client
<1>4. ServesPlan'
  BY <1>1 DEF Inv, IInv, ServesPlan, client, Called
<1>5. PlansAll'
  BY DEF Inv, IInv, PlansAll, client
<1> QED
  BY <1>1, <1>2, <1>3, <1>4, <1>5, Outside

\* A session begins with the request its client planned.
LEMMA SendStep ==
    ASSUME Inv, NEW c \in Client, Send(c)
    PROVE  Inv'
<1> c \in Session
  BY DEF Client
<1> DEFINE q == RequestOf(push[c], remote[c])
<1>1. PICK f : /\ session' = [session EXCEPT ![c] = f]
               /\ f = [stage |-> IF WellFormed(q) THEN "unpack" ELSE "error",
                       request |-> q, denied |-> None, verdicts |-> <<>>,
                       connected |-> {}, todo |-> {}, applied |-> {}]
  BY DEF Send, Begin, Set
<1>2. /\ session[c] = NoSession /\ UNCHANGED <<value, held, push, remote>>
      /\ phase[c] = "plan" /\ phase' = [phase EXCEPT ![c] = "sent"]
      /\ Valid(push[c], remote[c])
  BY DEF Send, Begin, GoTo
<1>3. /\ session'[c] = f /\ \A t \in Session \ {c} : session'[t] = session[t]
      /\ phase'[c] = "sent" /\ \A t \in Session \ {c} : phase'[t] = phase[t]
  BY <1>1, <1>2 DEF Inv, Shape, Client
<1>4. push[c] \in Pushes /\ DOMAIN remote[c] = Ref
  BY <1>2 DEF Inv, IInv, PlansAll
<1>5. /\ Shaped(f) /\ f # NoSession /\ f.request = q /\ f.todo = {} /\ f.applied = {}
      /\ f.verdicts = <<>> /\ f.stage \in {"unpack", "error"}
      /\ f.stage = "unpack" => q.commands # <<>>
  BY <1>1 DEF Shaped, NoSession, WellFormed
<1>6. Shape'
  <2>1. phase' = [d \in Client |-> phase'[d]]
    BY <1>2 DEF Inv, Shape
  <2> QED
    BY <1>1, <1>2, <1>5, <2>1, SessionShape DEF Inv, Shape
<1>7. PlansAll'
  BY <1>2, <1>3 DEF Inv, IInv, PlansAll, Client
<1>8. ServesPlan'
  <2> SUFFICES ASSUME NEW d \in Client, Called(d)'
               PROVE  /\ phase'[d] \in {"sent", "done", "error"}
                      /\ push[d] \in Pushes /\ DOMAIN remote[d] = Ref
                      /\ Valid(push[d], remote[d])
                      /\ session'[d].request = RequestOf(push[d], remote[d])
    BY <1>2 DEF ServesPlan
  <2>1. CASE d = c
    BY <2>1, <1>2, <1>3, <1>4, <1>5
  <2>2. CASE d # c
    BY <2>2, <1>3 DEF Inv, IInv, ServesPlan, Called, Client
  <2> QED
    BY <2>1, <2>2
<1>9. \A r \in Ref : ~Holds(c, r)
  BY <1>2 DEF Inv, IInv, HeldMatches, Matches, Called
<1>10. HeldMatches'
  <2> SUFFICES ASSUME NEW r \in Ref, NEW t \in Session, Holds(t, r)'
               PROVE  Matches(t, r)'
    BY DEF HeldMatches
  <2>1. Holds(t, r) /\ t # c
    BY <1>2, <1>9 DEF Holds
  <2> QED
    BY <2>1, <1>2, <1>3 DEF Inv, IInv, HeldMatches, Matches, Called, CommandsOf
<1>11. f.stage = "unpack" => Len(<<>>) < Len(q.commands)
  <2> DEFINE n == Len(push[c].updates)
             S == {q.commands[i] : i \in 1..n}
  <2>1. push[c].updates \in Seq(Update)
    BY <1>4, PushAssumption
  <2>2. n \in Nat /\ DOMAIN push[c].updates = 1..n
    BY <2>1
  <2>3. DOMAIN q.commands = 1..n /\ q.commands = [i \in 1..n |-> q.commands[i]]
    BY <2>2 DEF RequestOf
  <2>4. q.commands \in [1..n -> S]
    BY <2>3
  <2>5. q.commands \in Seq(S)
    BY <2>2, <2>4
  <2> HIDE DEF S, q
  <2> QED
    BY <1>5, <2>5
<1>12. Progress(c)' /\ Batch(c)' /\ Truthful(c)' /\ Whole(c)'
  BY <1>3, <1>5, <1>11 DEF Progress, Early, Batch, Truthful, Whole, Ended, Now
<1>13. ASSUME NEW t \in Session, t # c
       PROVE  (Called(t)' => Progress(t)' /\ Batch(t)') /\ Truthful(t)' /\ Whole(t)'
  <2>1. session'[t] = session[t] /\ UNCHANGED held
    BY <1>2, <1>3, <1>13
  <2>2. (Called(t) => Progress(t) /\ Batch(t)) /\ Truthful(t) /\ Whole(t)
    BY DEF Inv, IInv, ReportTruthful, AllOrNothing
  <2> QED
    BY <2>1, <2>2, SMTT(40) DEF Called, Progress, Batch, Truthful, Whole, Ended, Now, HoldsAny, Holds
<1> QED
  BY <1>6, <1>7, <1>8, <1>10, <1>12, <1>13 DEF Inv, IInv, ReportTruthful, AllOrNothing

-------------------------------------------------------------------------------
LEMMA Initially == Init => Inv
<1> SUFFICES ASSUME Init PROVE Inv
  OBVIOUS
<1>1. Shape
  BY DEF Init, ReceiveInit, Shape, Client
<1>2. /\ \A s \in Session : session[s] = NoSession /\ phase[s] = "idle"
      /\ \A r \in Ref : held[r] = None
  BY DEF Init, ReceiveInit, Client
<1>3. PlansAll /\ ServesPlan /\ \A s \in Session : ~Called(s)
  BY <1>2 DEF PlansAll, ServesPlan, Called, Client
<1>4. HeldMatches
  BY <1>2, ReceivePackAssumption DEF HeldMatches, Holds
<1>5. \A s \in Session : ~Ended(s)
  BY <1>2 DEF Ended, Now, NoSession
<1> QED
  BY <1>1, <1>3, <1>4, <1>5 DEF Inv, IInv, ReportTruthful, AllOrNothing, Truthful, Whole

LEMMA Inductive == Inv /\ [Next]_vars => Inv'
<1> SUFFICES ASSUME Inv, [Next]_vars PROVE Inv'
  OBVIOUS
<1>1. ASSUME NEW c \in Client, Receive(c), UNCHANGED client
      PROVE  Inv'
  BY <1>1, UnpackStep, ReadHeadStep, CheckNextStep, PublishStep, ApplyNextStep,
     PrepareStep, PublishNextStep, BatchFailsStep, FailStep DEF Receive, Client
<1>2. CASE UNCHANGED vars
  <2>1. Shape' /\ PlansAll' /\ ServesPlan'
    BY <1>2 DEF Inv, IInv, Shape, PlansAll, ServesPlan, Called, vars, server, client
  <2> QED
    BY <1>2, <2>1, Outside DEF vars, server
<1> QED
  BY <1>1, <1>2, ClientStep, SendStep, OthersStep DEF Next

\* The inductive invariant, for any references, objects, pushes and clients.
THEOREM Invariance == Spec => []Inv
BY Initially, Inductive, PTL DEF Spec

\* Reports are truthful, whatever the receivers of other pushes and other users
\* of the repository do meanwhile (receive_pack).
THEOREM Reports == Spec => []ReportTruthful
<1>1. Inv => ReportTruthful
  BY DEF Inv, IInv
<1> QED
  BY <1>1, Invariance, PTL

\* An atomic push that is not cut short changes all its references or none
\* (apply_receive_commands).
THEOREM Atomic == Spec => []AllOrNothing
<1>1. Inv => AllOrNothing
  BY DEF Inv, IInv
<1> QED
  BY <1>1, Invariance, PTL

-------------------------------------------------------------------------------
\* The step of a push that changes a reference makes one of its commands, from
\* the old id of the command.
LEMMA ChangesByCommand ==
    ASSUME Inv, [Next]_vars, NEW c \in Client, session'[c] # session[c],
           NEW r \in Ref, value'[r] # value[r]
    PROVE  /\ Called(c)
           /\ \E i \in DOMAIN CommandsOf(c) :
                 /\ CommandsOf(c)[i].name = r /\ CommandsOf(c)[i].old = value[r]
                 /\ CommandsOf(c)[i].new = value'[r]
<1>1. \/ \E s \in Session : ApplyNext(s) \/ PublishNext(s)
      \/ Others
  BY ZenonT(60) DEF Next, vars, server, Start, Refuse, Send, Answer, NoAnswer, Advertise, Begin,
         Receive, Unpack, ReadHead, CheckNext, Publish, Prepare, BatchFails, Fail, Client
<1>2. ~Others
  BY DEF Others, LocalUpdate, Switch, Prune
<1>3. PICK s \in Session : ApplyNext(s) \/ PublishNext(s)
  BY <1>1, <1>2
<1>4. PICK f : session' = [session EXCEPT ![s] = f]
  BY <1>3 DEF ApplyNext, PublishNext, Applied, LogRemains, Set
<1>5. s = c
  BY <1>4 DEF Inv, Shape
<1>6. Called(c) /\ Progress(c)
  BY <1>3, <1>5, Before DEF ApplyNext, PublishNext, Now
<1>7. /\ session[c].todo \subseteq DOMAIN CommandsOf(c)
      /\ \A i, j \in DOMAIN CommandsOf(c) :
            CommandsOf(c)[i].name = CommandsOf(c)[j].name => i = j
  BY <1>5, <1>6, Planned DEF Progress, CommandsOf
<1>8. CASE ApplyNext(c)
  <2>1. PICK i \in session[c].todo :
           /\ CommandsOf(c)[i].old = value[CommandsOf(c)[i].name]
           /\ value' = [value EXCEPT ![CommandsOf(c)[i].name] = CommandsOf(c)[i].new]
    BY <1>8 DEF ApplyNext, Precondition, CommandsOf
  <2>2. CommandsOf(c)[i].name = r /\ value'[r] = CommandsOf(c)[i].new
    BY <2>1 DEF Inv, Shape
  <2> QED
    BY <1>6, <1>7, <2>1, <2>2
<1>9. CASE PublishNext(c)
  <2>1. PICK i \in session[c].todo :
           /\ held[CommandsOf(c)[i].name] = c
           /\ value' = [value EXCEPT ![CommandsOf(c)[i].name] = CommandsOf(c)[i].new]
    BY <1>9 DEF PublishNext, CommandsOf
  <2>2. CommandsOf(c)[i].name = r /\ value'[r] = CommandsOf(c)[i].new
    BY <2>1 DEF Inv, Shape
  <2>3. Matches(c, r)
    BY <1>5, <2>1, <2>2 DEF Inv, IInv, HeldMatches, Holds
  <2>4. CommandsOf(c)[i].old = value[r]
    BY <1>7, <2>2, <2>3 DEF Matches
  <2> QED
    BY <1>6, <1>7, <2>2, <2>4
<1> QED
  BY <1>3, <1>5, <1>8, <1>9

\* A push moves a branch only forward, unless it is told otherwise: the check is
\* made far from the repository and long before, and still holds when the branch
\* is moved (validate_push_updates, command_edit).
THEOREM ForwardOnly == Spec => FastForwardOnly
<1>1. ASSUME Inv, [Next]_vars, NEW c \in Client, session'[c] # session[c],
             NEW r \in Branch, value'[r] # value[r], value[r] # None, ~Forced(c, r)
      PROVE  value[r] \in Ancestry[value'[r]]
  <2>1. r \in Ref /\ c \in Session
    BY PushAssumption DEF Client
  <2>2. Called(c)
    BY <1>1, <2>1, ChangesByCommand
  <2>3. PICK i \in DOMAIN CommandsOf(c) :
           /\ CommandsOf(c)[i].name = r /\ CommandsOf(c)[i].old = value[r]
           /\ CommandsOf(c)[i].new = value'[r]
    BY <1>1, <2>1, ChangesByCommand
  <2>4. /\ i \in DOMAIN push[c].updates /\ push[c].updates[i].name = r
        /\ push[c].updates[i].new = value'[r] /\ remote[c][r] = value[r]
    BY <1>1, <2>1, <2>2, <2>3, Planned
  <2>5. push[c].updates[i].new # None /\ ~push[c].updates[i].force
    BY <1>1, <2>4 DEF Forced
  <2>6. Valid(push[c], remote[c])
    BY <1>1, <2>2 DEF Inv, IInv, ServesPlan
  <2>7. FastForward(value[r], value'[r])
    BY <1>1, <2>4, <2>5, <2>6 DEF Valid
  <2> QED
    BY <2>7 DEF FastForward
<1>2. Inv /\ [Next]_vars => [MovesForward]_vars
  BY <1>1 DEF MovesForward
<1> QED
  BY <1>2, Invariance, PTL DEF Spec, FastForwardOnly

-------------------------------------------------------------------------------
(* What a session has found connected stays, or is counted as lost, until it   *)
(* sets its references.                                                        *)

Checking == {"check", "publish"}
Updating == {"apply", "batch"}

NeededBy(s) == UNION {Below[o] : o \in NewIds(session[s].request)}

\* What session s has found is there, or comes with its pack; what it found
\* connected, and what it is about to publish, lies within.
Found(s) ==
    LET f == session[s] IN
    /\ f.stage \in {"unpack", "head"} => f.connected = {} /\ f.verdicts = <<>>
    /\ f.stage \in Checking \cup Updating => f.connected \subseteq NeededBy(s)
    /\ f.stage \in Checking =>
          /\ f.connected \subseteq objects \cup lost \cup f.request.pack
          /\ \A i \in DOMAIN f.verdicts :
                f.verdicts[i] = "ok" => Leads(f.request.commands[i].new) \subseteq f.connected
    /\ f.stage \in Updating =>
          /\ f.connected \subseteq objects \cup lost
          /\ \A i \in f.todo : Leads(f.request.commands[i].new) \subseteq f.connected

Conn == TipsConnected /\ \A s \in Session : Called(s) => Found(s)

\* A step of session s that loses nothing and sets no reference to what it has not
\* found is a matter of what s has found.
LEMMA FoundFrame ==
    ASSUME Inv, Conn, NEW s \in Session,
           NEW f, session' = [session EXCEPT ![s] = f],
           objects \cup lost \subseteq objects' \cup lost',
           \A r \in Ref : value'[r] = value[r] \/ Leads(value'[r]) \subseteq objects \cup lost,
           Found(s)'
    PROVE  Conn'
<1>1. session'[s] = f /\ \A t \in Session \ {s} : session'[t] = session[t]
  BY DEF Inv, Shape
<1>2. TipsConnected'
  BY DEF Conn, TipsConnected
<1>3. ASSUME NEW t \in Session, t # s, Called(t)'
      PROVE  Found(t)'
  <2>1. session'[t] = session[t] /\ Found(t)
    BY <1>1, <1>3 DEF Conn, Called
  <2> QED
    BY <2>1 DEF Found, NeededBy
<1> QED
  BY <1>2, <1>3 DEF Conn

LEMMA FindsEarly ==
    ASSUME Inv, Conn, NEW s \in Session, Unpack(s) \/ ReadHead(s)
    PROVE  Conn'
<1>1. Called(s) /\ Shaped(session[s]) /\ Found(s) /\ session[s].stage \in {"unpack", "head"}
  BY Before DEF Unpack, ReadHead, Now, Conn
<1>2. PICK f : /\ session' = [session EXCEPT ![s] = f]
               /\ \/ f.stage = "done"
                  \/ /\ f.stage \in {"head", "check"}
                     /\ f.connected = session[s].connected /\ f.verdicts = session[s].verdicts
  <2>1. CASE Unpack(s)
    <3>1. PICK f : /\ session' = [session EXCEPT ![s] = f]
                   /\ \/ f = [session[s] EXCEPT !.stage = "head"]
                      \/ f = [session[s] EXCEPT !.stage = "done", !.verdicts =
                                [i \in DOMAIN session[s].request.commands |-> "unpacker"]]
      BY <2>1 DEF Unpack, Set
    <3>2. \/ f.stage = "done"
          \/ f.stage = "head" /\ f.connected = session[s].connected /\ f.verdicts = session[s].verdicts
      BY <1>1, <3>1 DEF Shaped
    <3> QED
      BY <3>1, <3>2
  <2>2. CASE ReadHead(s)
    <3>1. PICK f : /\ session' = [session EXCEPT ![s] = f]
                   /\ f = [session[s] EXCEPT !.stage = "check",
                                             !.denied = IF DenyCurrent THEN head ELSE None]
      BY <2>2 DEF ReadHead, Set
    <3>2. f.stage = "check" /\ f.connected = session[s].connected /\ f.verdicts = session[s].verdicts
      BY <1>1, <3>1 DEF Shaped
    <3> QED
      BY <3>1, <3>2
  <2> QED
    BY <2>1, <2>2
<1>3. session'[s] = f
  BY <1>2 DEF Inv, Shape
<1>4. Found(s)'
  BY <1>1, <1>2, <1>3 DEF Found, Checking, Updating
<1>5. UNCHANGED <<objects, value, lost>>
  BY DEF Unpack, ReadHead
<1> QED
  BY <1>2, <1>4, <1>5, FoundFrame

\* A command that is judged well leads to what is there, or was found before.
LEMMA FindsNext ==
    ASSUME Inv, Conn, NEW s \in Session, CheckNext(s)
    PROVE  Conn'
<1>1. /\ Called(s) /\ Shaped(session[s]) /\ Progress(s) /\ Found(s)
      /\ session[s].stage = "check"
  BY Before DEF CheckNext, Now, Conn
<1> DEFINE q == session[s].request
           v == session[s].verdicts
           c == q.commands[Len(v) + 1]
           verdict == Verdict(s, c)
           more == IF verdict = "ok" /\ c.new # None THEN Walk(s, c.new) ELSE {}
           all == Append(v, verdict)
           g == [session[s] EXCEPT
                    !.verdicts  = IF Len(all) = Len(q.commands) THEN Grouped(q, all) ELSE all,
                    !.connected = session[s].connected \cup more,
                    !.stage     = IF Len(all) = Len(q.commands) THEN "publish"
                                  ELSE session[s].stage]
<1>2. PICK f : f = g /\ session' = [session EXCEPT ![s] = f]
  <2>1. session' = [session EXCEPT ![s] = g]
    BY DEF CheckNext, Set
  <2> HIDE DEF g
  <2> QED
    BY <2>1
<1>3. session'[s] = f
  BY <1>2 DEF Inv, Shape
<1>4. /\ f.request = q /\ f.stage \in Checking /\ f.stage \notin {"unpack", "head"} \cup Updating
      /\ f.connected = session[s].connected \cup more
      /\ f.verdicts \in {Grouped(q, all), all}
  BY <1>1, <1>2 DEF Shaped, Checking, Updating
<1>5. v \in Seq(Verdicts) /\ Len(v) < Len(q.commands)
  BY <1>1 DEF Progress
<1>6. /\ DOMAIN q.commands = 1..Len(q.commands) /\ Len(q.commands) \in Nat
      /\ Len(v) + 1 \in DOMAIN q.commands
  BY <1>1, <1>5, Planned, SMTT(40) DEF CommandsOf
<1>7. verdict = "ok" /\ c.new # None =>
         /\ Walk(s, c.new) = Below[c.new] \ session[s].connected
         /\ Walk(s, c.new) \subseteq objects \cup q.pack
  BY DEF Verdict, Walk, Available
<1>8. more \subseteq objects \cup q.pack
  BY <1>7
<1>9. c.new # None => c.new \in NewIds(q)
  BY <1>6 DEF NewIds
<1>10. more \subseteq NeededBy(s)
  BY <1>7, <1>9 DEF NeededBy
<1>11. /\ DOMAIN all = 1..(Len(v) + 1)
       /\ \A i \in DOMAIN all : \/ i \in DOMAIN v /\ all[i] = v[i]
                                \/ i = Len(v) + 1 /\ all[i] = verdict
  <2>1. verdict \in Verdicts
    BY VerdictType
  <2> HIDE DEF verdict, v
  <2> QED
    BY <1>5, <2>1
<1>12. /\ DOMAIN f.verdicts = DOMAIN all
       /\ \A i \in DOMAIN f.verdicts : f.verdicts[i] = "ok" => all[i] = "ok"
  BY <1>4, SMTT(40) DEF Grouped
<1>13. ASSUME NEW i \in DOMAIN f.verdicts, f.verdicts[i] = "ok"
       PROVE  Leads(q.commands[i].new) \subseteq f.connected
  <2>1. CASE i \in DOMAIN v /\ v[i] = "ok"
    BY <1>1, <1>4, <2>1 DEF Found, Checking
  <2>2. CASE i = Len(v) + 1 /\ verdict = "ok"
    BY <1>4, <1>7, <2>2 DEF Leads
  <2> QED
    BY <1>11, <1>12, <1>13, <2>1, <2>2
<1>14. UNCHANGED <<objects, value, lost>>
  BY DEF CheckNext
<1>15. NeededBy(s)' = NeededBy(s)
  BY <1>3, <1>4 DEF NeededBy
<1>16. /\ session[s].connected \subseteq NeededBy(s)
       /\ session[s].connected \subseteq objects \cup lost \cup q.pack
  BY <1>1 DEF Found, Checking
<1> HIDE DEF more, verdict, c, all, g
<1>17. Found(s)'
  BY <1>3, <1>4, <1>8, <1>10, <1>13, <1>14, <1>15, <1>16 DEF Found
<1> QED
  BY <1>2, <1>14, <1>17, FoundFrame

\* The pack comes to the store before the references.
LEMMA FoundPublished ==
    ASSUME Inv, Conn, NEW s \in Session, Publish(s)
    PROVE  Conn'
<1>1. /\ Called(s) /\ Shaped(session[s]) /\ Found(s) /\ session[s].stage = "publish"
  BY Before DEF Publish, Now, Conn
<1> DEFINE q == session[s].request
<1>2. PICK f : /\ session' = [session EXCEPT ![s] = f]
               /\ f.request = q /\ f.connected = session[s].connected
               /\ f.todo = Accepted(s)
               /\ \/ f.stage = "done"
                  \/ f.stage \in Updating /\ Accepted(s) # {}
  <2>1. PICK f, stage :
           /\ session' = [session EXCEPT ![s] = f]
           /\ f = [session[s] EXCEPT !.todo = Accepted(s), !.stage = stage]
           /\ stage = IF \/ Accepted(s) = {}
                         \/ AsTransaction(s) /\ Accepted(s) # DOMAIN session[s].verdicts
                      THEN "done" ELSE IF AsTransaction(s) THEN "batch" ELSE "apply"
    BY DEF Publish, Set
  <2>2. /\ f.request = q /\ f.connected = session[s].connected
        /\ f.todo = Accepted(s) /\ f.stage = stage
    BY <1>1, <2>1 DEF Shaped
  <2>3. \/ stage = "done"
        \/ stage \in Updating /\ Accepted(s) # {}
    BY <2>1 DEF Updating
  <2> QED
    BY <2>1, <2>2, <2>3
<1>3. session'[s] = f
  BY <1>2 DEF Inv, Shape
<1>4. /\ UNCHANGED value
      /\ objects \cup lost \subseteq objects' \cup lost'
      /\ Accepted(s) # {} => q.pack \subseteq objects'
  BY DEF Publish, PublishPack
<1>5. \A i \in Accepted(s) : Leads(q.commands[i].new) \subseteq f.connected
  BY <1>1, <1>2 DEF Found, Checking, Accepted
<1>6. NeededBy(s)' = NeededBy(s)
  BY <1>2, <1>3 DEF NeededBy
<1>7. /\ f.connected \subseteq NeededBy(s)
      /\ f.connected \subseteq objects \cup lost \cup q.pack
  BY <1>1, <1>2 DEF Found, Checking
<1>8. Found(s)'
  BY <1>2, <1>3, <1>4, <1>5, <1>6, <1>7 DEF Found, Checking, Updating
<1> QED
  BY <1>2, <1>4, <1>8, FoundFrame

\* A reference is set to what the session has found.
LEMMA FoundSet ==
    ASSUME Inv, Conn, NEW s \in Session, ApplyNext(s) \/ PublishNext(s)
    PROVE  Conn'
<1>1. Called(s) /\ Shaped(session[s]) /\ Found(s) /\ session[s].stage \in Updating
  BY Before DEF ApplyNext, PublishNext, Now, Conn, Updating
<1> DEFINE q == session[s].request
<1>2. PICK i \in session[s].todo :
         /\ \/ value' = [value EXCEPT ![q.commands[i].name] = q.commands[i].new]
            \/ UNCHANGED value
         /\ \/ \E verdict \in {"ok", "refused"}, effect \in BOOLEAN : Applied(s, i, verdict, effect)
            \/ LogRemains(s, i)
  <2>1. CASE ApplyNext(s)
    BY <2>1 DEF ApplyNext
  <2>2. CASE PublishNext(s)
    BY <2>2 DEF PublishNext
  <2> QED
    BY <2>1, <2>2
<1>3. PICK f : /\ session' = [session EXCEPT ![s] = f]
               /\ f.request = q /\ f.connected = session[s].connected
               /\ f.todo \subseteq session[s].todo
               /\ f.stage = "done" \/ f.stage = session[s].stage
  <2>1. ASSUME NEW verdict \in {"ok", "refused"}, NEW effect \in BOOLEAN, Applied(s, i, verdict, effect)
        PROVE  \E f : /\ session' = [session EXCEPT ![s] = f]
                      /\ f.request = q /\ f.connected = session[s].connected
                      /\ f.todo \subseteq session[s].todo
                      /\ f.stage = "done" \/ f.stage = session[s].stage
    <3>1. PICK f, rest :
             /\ session' = [session EXCEPT ![s] = f]
             /\ rest = session[s].todo \ {i}
             /\ f = [session[s] EXCEPT
                        !.todo = rest, !.verdicts[i] = verdict,
                        !.applied = IF effect THEN session[s].applied \cup {i}
                                    ELSE session[s].applied,
                        !.stage = IF rest = {} THEN "done" ELSE session[s].stage]
      BY <2>1 DEF Applied, Set
    <3>2. /\ f.request = q /\ f.connected = session[s].connected
          /\ f.todo = rest
          /\ f.stage = "done" \/ f.stage = session[s].stage
      BY <1>1, <3>1 DEF Shaped
    <3> QED
      BY <3>1, <3>2
  <2>2. CASE LogRemains(s, i)
    <3>1. PICK f, rest :
             /\ session' = [session EXCEPT ![s] = f]
             /\ rest = session[s].todo \ {i}
             /\ f = [session[s] EXCEPT
                        !.stage = "done", !.todo = rest,
                        !.applied = session[s].applied \cup {i},
                        !.verdicts = [j \in DOMAIN session[s].verdicts |-> "refused"]]
      BY <2>2 DEF LogRemains, Set
    <3>2. /\ f.request = q /\ f.connected = session[s].connected
          /\ f.todo = rest /\ f.stage = "done"
      BY <1>1, <3>1 DEF Shaped
    <3> QED
      BY <3>1, <3>2
  <2> QED
    BY <1>2, <2>1, <2>2
<1>4. session'[s] = f
  BY <1>3 DEF Inv, Shape
<1>5. Leads(q.commands[i].new) \subseteq objects \cup lost
  BY <1>1, <1>2 DEF Found
<1>6. \A r \in Ref : value'[r] = value[r] \/ Leads(value'[r]) \subseteq objects \cup lost
  BY <1>2, <1>5 DEF Inv, Shape
<1>7. UNCHANGED <<objects, lost>>
  BY DEF ApplyNext, PublishNext
<1>8. NeededBy(s)' = NeededBy(s)
  BY <1>3, <1>4 DEF NeededBy
<1>9. Found(s)'
  BY <1>1, <1>3, <1>4, <1>7, <1>8 DEF Found, Checking, Updating
<1> QED
  BY <1>3, <1>6, <1>7, <1>9, FoundFrame

\* The other steps of a session set no reference and find nothing.
LEMMA FoundKept ==
    ASSUME Inv, Conn, NEW s \in Session, Prepare(s) \/ BatchFails(s) \/ Fail(s)
    PROVE  Conn'
<1>1. Called(s) /\ Shaped(session[s]) /\ Found(s)
  BY Before DEF Prepare, BatchFails, Fail, Now, Conn
<1>2. UNCHANGED <<objects, value, lost>>
  BY DEF Prepare, BatchFails, Fail
<1>3. PICK f : /\ session' = [session EXCEPT ![s] = f]
               /\ f.stage \in {"done", "error"} \/ f = session[s]
  <2>1. CASE UNCHANGED session
    <3>1. session' = [session EXCEPT ![s] = session[s]]
      BY <2>1 DEF Inv, Shape
    <3> QED
      BY <3>1
  <2>2. CASE AllRefused(s)
    <3>1. PICK f : /\ session' = [session EXCEPT ![s] = f]
                   /\ f = [session[s] EXCEPT !.stage = "done",
                             !.verdicts = [i \in DOMAIN session[s].verdicts |-> "refused"]]
      BY <2>2 DEF AllRefused, Set
    <3>2. f.stage = "done"
      BY <1>1, <3>1 DEF Shaped
    <3> QED
      BY <3>1, <3>2
  <2>3. CASE Fail(s)
    <3>1. PICK f : /\ session' = [session EXCEPT ![s] = f]
                   /\ f = [session[s] EXCEPT !.stage = "error"]
      BY <2>3 DEF Fail, Set
    <3>2. f.stage = "error"
      BY <1>1, <3>1 DEF Shaped
    <3> QED
      BY <3>1, <3>2
  <2> QED
    BY <2>1, <2>2, <2>3 DEF Prepare, BatchFails
<1>4. session'[s] = f
  BY <1>3 DEF Inv, Shape
<1>5. Found(s)'
  <2>1. CASE f.stage \in {"done", "error"}
    BY <1>4, <2>1 DEF Found, Checking, Updating
  <2>2. CASE f = session[s]
    BY <1>1, <1>2, <1>4, <2>2 DEF Found, NeededBy
  <2> QED
    BY <1>3, <2>1, <2>2
<1> QED
  BY <1>2, <1>3, <1>5, FoundFrame

\* Others remove what no reference leads to; what a session has found of it is lost.
LEMMA FoundBeside ==
    ASSUME Inv, Conn, Others
    PROVE  Conn'
<1>1. UNCHANGED session
  BY DEF Others, Switch, LocalUpdate, Prune
<1>2. ASSUME NEW S, Prune(S)
      PROVE  Conn'
  <2>1. /\ objects' = objects \ S /\ lost' = lost \cup (S \cap Needed) /\ UNCHANGED value
        /\ \A r \in Ref : S \cap Leads(value[r]) = {}
    BY <1>2 DEF Prune
  <2>2. TipsConnected'
    BY <2>1 DEF Conn, TipsConnected
  <2>3. ASSUME NEW s \in Session, Called(s)'
        PROVE  Found(s)'
    <3>1. Found(s) /\ session'[s] = session[s]
      BY <1>1, <2>3 DEF Conn, Called
    <3>2. session[s].stage \in Checking \cup Updating => NeededBy(s) \subseteq Needed
      BY DEF Needed, NeededBy, Now, Checking, Updating
    <3>3. session[s].stage \in Checking \cup Updating =>
             session[s].connected \cap (objects \cup lost) \subseteq objects' \cup lost'
      BY <2>1, <3>1, <3>2 DEF Found
    <3>4. NeededBy(s)' = NeededBy(s)
      BY <3>1 DEF NeededBy
    <3> QED
      BY <3>1, <3>3, <3>4 DEF Found
  <2> QED
    BY <2>2, <2>3 DEF Conn
<1>3. CASE /\ UNCHANGED <<objects, lost>>
           /\ \A r \in Ref : value'[r] = value[r] \/ Leads(value'[r]) \subseteq objects
  <2>1. TipsConnected'
    BY <1>3 DEF Conn, TipsConnected
  <2>2. \A s \in Session : Called(s)' => Found(s)'
    BY <1>1, <1>3 DEF Conn, Called, Found, NeededBy
  <2> QED
    BY <2>1, <2>2 DEF Conn
<1>4. ASSUME NEW r \in Ref, NEW v \in Id, LocalUpdate(r, v)
      PROVE  Conn'
  <2>1. value' = [value EXCEPT ![r] = v] /\ Leads(v) \subseteq objects
        /\ UNCHANGED <<objects, lost>>
    BY <1>4 DEF LocalUpdate
  <2> QED
    BY <1>3, <2>1 DEF Inv, Shape
<1>5. ASSUME NEW r \in Ref, Switch(r)
      PROVE  Conn'
  BY <1>3, <1>5 DEF Switch
<1> QED
  BY <1>2, <1>4, <1>5 DEF Others

\* A session has found nothing when its request arrives.
LEMMA FindsNothing ==
    ASSUME Inv, Conn, NEW c \in Client, Send(c)
    PROVE  Conn'
<1> c \in Session
  BY DEF Client
<1>1. PICK f : /\ session' = [session EXCEPT ![c] = f]
               /\ f.stage \in {"unpack", "error"} /\ f.connected = {} /\ f.verdicts = <<>>
  <2>1. PICK f, q :
           /\ session' = [session EXCEPT ![c] = f]
           /\ f = [stage |-> IF WellFormed(q) THEN "unpack" ELSE "error",
                   request |-> q, denied |-> None, verdicts |-> <<>>,
                   connected |-> {}, todo |-> {}, applied |-> {}]
    BY DEF Send, Begin, Set
  <2>2. f.stage \in {"unpack", "error"} /\ f.connected = {} /\ f.verdicts = <<>>
    BY <2>1
  <2> QED
    BY <2>1, <2>2
<1>2. session'[c] = f /\ UNCHANGED <<objects, value, lost>>
  BY <1>1 DEF Inv, Shape, Send, Begin
<1>3. Found(c)'
  BY <1>1, <1>2 DEF Found, Checking, Updating
<1> QED
  BY <1>1, <1>2, <1>3, FoundFrame

LEMMA Connects == Inv /\ Conn /\ [Next]_vars => Conn'
<1> SUFFICES ASSUME Inv, Conn, [Next]_vars PROVE Conn'
  OBVIOUS
<1>1. ASSUME NEW s \in Session, Receive(s)
      PROVE  Conn'
  BY <1>1, FindsEarly, FindsNext, FoundPublished, FoundSet, FoundKept DEF Receive
<1>2. ASSUME UNCHANGED server
      PROVE  Conn'
  BY <1>2 DEF server, Conn, TipsConnected, Called, Found, NeededBy
<1>3. ASSUME NEW c \in Client,
             Start(c) \/ Refuse(c) \/ Answer(c) \/ NoAnswer(c) \/ \E r \in Ref : Advertise(c, r)
      PROVE  Conn'
  BY <1>2, <1>3 DEF Start, Refuse, Answer, NoAnswer, Advertise
<1>4. UNCHANGED vars => UNCHANGED server
  BY DEF vars
<1> QED
  BY <1>1, <1>2, <1>3, <1>4, FindsNothing, FoundBeside DEF Next, Client

\* A reference leads only to what is there, or was pruned while a push that needs
\* it was under way, for any number of pushes, repositories and objects: the checks
\* are made before the pack is published and before the references are set, and
\* none is made again (check_connectivity, receive_pack).
THEOREM Connected == Spec => []TipsConnected
<1>1. Init => Conn
  <2> SUFFICES ASSUME Init PROVE Conn
    OBVIOUS
  <2>1. TipsConnected
    BY DEF Init, ReceiveInit, TipsConnected
  <2>2. \A s \in Session : ~Called(s)
    BY DEF Init, ReceiveInit, Called
  <2> QED
    BY <2>1, <2>2 DEF Conn
<1>2. Conn => TipsConnected
  BY DEF Conn
<1> QED
  BY <1>1, <1>2, Connects, Invariance, PTL DEF Spec

-------------------------------------------------------------------------------
(* What push leaves out of a pack, the receiver has.                           *)

\* An object leads only to smaller ones, so a set of objects has a first.
LEMMA First ==
    ASSUME NEW T \in SUBSET Object, T # {}
    PROVE  \E o \in T : \A p \in T : ~(p < o)
<1> DEFINE Upto == {0 .. o : o \in T}
<1>1. T \subseteq Nat
  BY ReceivePackAssumption
<1>2. Upto \subseteq FiniteSubsetsOf(Nat)
  <2> SUFFICES ASSUME NEW o \in T PROVE 0 .. o \in FiniteSubsetsOf(Nat)
    OBVIOUS
  <2>1. o \in Int /\ 0 \in Int /\ 0 .. o \in SUBSET Nat
    BY <1>1
  <2> QED
    BY <2>1, FS_Interval DEF FiniteSubsetsOf
<1>3. \E X \in Upto : \A Y \in Upto : ~ (<<Y, X>> \in StrictSubsetOrdering(Nat))
  <2>1. Upto # {}
    OBVIOUS
  <2> HIDE DEF Upto
  <2> QED
    BY <1>2, <2>1, WFMin, FS_StrictSubsetOrderingWellFounded
<1>4. PICK o \in T : \A p \in T : ~ (<<0 .. p, 0 .. o>> \in StrictSubsetOrdering(Nat))
  BY <1>3
<1>5. ASSUME NEW p \in T, p < o
      PROVE  FALSE
  <2>1. 0 .. p \subseteq 0 .. o /\ 0 .. p # 0 .. o
    BY <1>1, <1>5
  <2>2. 0 .. p \in SUBSET Nat /\ 0 .. o \in SUBSET Nat
    BY <1>1
  <2> QED
    BY <1>4, <2>1, <2>2 DEF StrictSubsetOrdering
<1> QED
  BY <1>5

\* What a walk along next visits from o: what is in every closed set with o.
Visited(next, o) == {x \in Object : \A S \in SUBSET Object :
                        o \in S /\ (\A p \in S : next[p] \subseteq S) => x \in S}

LEMMA VisitedUnfolds ==
    ASSUME NEW next \in [Object -> SUBSET Object], NEW o \in Object
    PROVE  Visited(next, o) = {o} \cup UNION {Visited(next, p) : p \in next[o]}
<1> DEFINE Shut(S) == \A p \in S : next[p] \subseteq S
           U == {o} \cup UNION {Visited(next, p) : p \in next[o]}
<1>1. \A p \in Object : p \in Visited(next, p) /\ Visited(next, p) \subseteq Object
  BY DEF Visited
<1>2. \A p \in Object : \A S \in SUBSET Object :
         p \in S /\ Shut(S) => Visited(next, p) \subseteq S
  BY DEF Visited
<1>3. \A p \in Object : Shut(Visited(next, p))
  <2> SUFFICES ASSUME NEW p \in Object, NEW q \in Visited(next, p), NEW r \in next[q]
               PROVE  r \in Visited(next, p)
    OBVIOUS
  <2>1. q \in Object /\ r \in Object
    BY <1>1
  <2> QED
    BY <2>1 DEF Visited
<1>4. U \subseteq Visited(next, o)
  <2>1. o \in Visited(next, o)
    BY <1>1
  <2>2. ASSUME NEW p \in next[o] PROVE Visited(next, p) \subseteq Visited(next, o)
    BY <1>1, <1>2, <1>3
  <2> QED
    BY <2>1, <2>2
<1>5. Visited(next, o) \subseteq U
  <2>1. U \subseteq Object /\ o \in U
    BY <1>1
  <2>2. ASSUME NEW q \in U, NEW r \in next[q] PROVE r \in U
    <3>1. CASE q = o
      BY <1>1, <2>2, <3>1
    <3>2. ASSUME NEW p \in next[o], q \in Visited(next, p) PROVE r \in U
      BY <1>3, <2>2, <3>2
    <3> QED
      BY <2>2, <3>1, <3>2
  <2> QED
    BY <1>2, <2>1, <2>2
<1> QED
  BY <1>4, <1>5

\* So the walks that Closure and Below stand for exist.
LEMMA WalksExist ==
    ASSUME NEW next \in [Object -> SUBSET Object]
    PROVE  \E g : g = [o \in Object |-> {o} \cup UNION {g[p] : p \in next[o]}]
<1> DEFINE g == [o \in Object |-> Visited(next, o)]
<1>1. ASSUME NEW o \in Object
      PROVE  g[o] = {o} \cup UNION {g[p] : p \in next[o]}
  <2>1. \A p \in next[o] : g[p] = Visited(next, p)
    OBVIOUS
  <2>2. {g[p] : p \in next[o]} = {Visited(next, p) : p \in next[o]}
    BY <2>1
  <2> QED
    BY <2>2, VisitedUnfolds
<1>2. g = [o \in Object |-> g[o]]
  OBVIOUS
<1> HIDE DEF g
<1>3. g = [o \in Object |-> {o} \cup UNION {g[p] : p \in next[o]}]
  BY <1>1, <1>2
<1> QED
  BY <1>3

LEMMA ClosureUnfolds ==
    \A o \in Object : Closure[o] = {o} \cup UNION {Closure[p] : p \in Links[o]}
<1>1. \E g : g = [o \in Object |-> {o} \cup UNION {g[p] : p \in Links[o]}]
  BY WalksExist, ReceivePackAssumption
<1>2. Closure = [o \in Object |-> {o} \cup UNION {Closure[p] : p \in Links[o]}]
  BY <1>1 DEF Closure
<1> QED
  BY <1>2

LEMMA BelowUnfolds ==
    \A o \in Object : Below[o] = {o} \cup UNION {Below[p] : p \in LinksHere(o)}
<1> DEFINE next == [o \in Object |-> LinksHere(o)]
<1>1. next \in [Object -> SUBSET Object]
  BY ReceivePackAssumption DEF LinksHere
<1>2. \A o \in Object : next[o] = LinksHere(o)
  OBVIOUS
<1> HIDE DEF next
<1>3. PICK g : g = [o \in Object |-> {o} \cup UNION {g[p] : p \in next[o]}]
  BY <1>1, WalksExist
<1>4. \A o \in Object : {g[p] : p \in next[o]} = {g[p] : p \in LinksHere(o)}
  BY <1>2
<1>5. g = [o \in Object |-> {o} \cup UNION {g[p] : p \in LinksHere(o)}]
  BY <1>3, <1>4
<1>6. Below = [o \in Object |-> {o} \cup UNION {Below[p] : p \in LinksHere(o)}]
  BY <1>5 DEF Below
<1> QED
  BY <1>6

\* In the shallow repository an object leads to no more than elsewhere, and to no
\* less but for what is behind the shallow commits.
LEMMA BelowClosure ==
    \A o \in Object : Below[o] \subseteq Closure[o] /\ Closure[o] \subseteq Below[o] \cup Behind
<1> DEFINE Fits(o) == Below[o] \subseteq Closure[o] /\ Closure[o] \subseteq Below[o] \cup Behind
           T == {o \in Object : ~Fits(o)}
<1> SUFFICES ASSUME T # {} PROVE FALSE
  OBVIOUS
<1>1. PICK o \in T : \A p \in T : ~(p < o)
  BY First
<1>2. o \in Object /\ ~Fits(o)
  OBVIOUS
<1>3. \A p \in Links[o] : p \in Object /\ p < o
  BY <1>2, ReceivePackAssumption
<1>4. \A p \in Links[o] : Fits(p)
  BY <1>1, <1>3
<1>5. LinksHere(o) \subseteq Links[o]
  BY DEF LinksHere
<1>6. Closure[o] = {o} \cup UNION {Closure[p] : p \in Links[o]}
  BY <1>2, ClosureUnfolds
<1>7. Below[o] = {o} \cup UNION {Below[p] : p \in LinksHere(o)}
  BY <1>2, BelowUnfolds
<1>8. Below[o] \subseteq Closure[o]
  BY <1>4, <1>5, <1>6, <1>7
<1>9. ASSUME NEW p \in Links[o]
      PROVE  Closure[p] \subseteq Below[o] \cup Behind
  <2>1. CASE p \in LinksHere(o)
    BY <1>4, <1>7, <2>1
  <2>2. CASE p \notin LinksHere(o)
    <3>1. o \in Shallow /\ p \in Links[o] \cap Commit
      BY <2>2 DEF LinksHere
    <3>2. Closure[p] \subseteq Behind
      BY <3>1 DEF Behind
    <3> QED
      BY <3>2
  <2> QED
    BY <2>1, <2>2
<1>10. o \in Below[o]
  BY <1>7
<1>11. Closure[o] \subseteq Below[o] \cup Behind
  BY <1>6, <1>9, <1>10
<1> QED
  BY <1>2, <1>8, <1>11

\* What an advertisement led to is there, or was pruned; what is lost was pruned.
Known ==
    /\ lost \subseteq pruned
    /\ \A c \in Client : \A r \in DOMAIN remote[c] : Leads(remote[c][r]) \subseteq objects \cup pruned

LEMMA KnownKept == Inv /\ Conn /\ Known /\ [Next]_vars => Known'
<1> SUFFICES ASSUME Inv, Conn, Known, [Next]_vars PROVE Known'
  OBVIOUS
<1>1. ASSUME lost' \subseteq pruned', objects \cup pruned \subseteq objects' \cup pruned',
             UNCHANGED remote
      PROVE  Known'
  BY <1>1 DEF Known
<1>2. ASSUME UNCHANGED <<objects, pruned, lost>>, UNCHANGED remote
      PROVE  Known'
  BY <1>1, <1>2 DEF Known
<1>3. ASSUME NEW s \in Session, Receive(s), UNCHANGED client
      PROVE  Known'
  <2>1. CASE Publish(s)
    BY <1>1, <1>3, <2>1 DEF Publish, PublishPack, client, Known
  <2>2. CASE ~Publish(s)
    BY <1>2, <1>3, <2>2 DEF Receive, Unpack, ReadHead, CheckNext, ApplyNext, Prepare,
           PublishNext, BatchFails, Fail, client
  <2> QED
    BY <2>1, <2>2
<1>4. ASSUME NEW c \in Client, Start(c) \/ Refuse(c) \/ Send(c) \/ Answer(c) \/ NoAnswer(c)
      PROVE  Known'
  BY <1>2, <1>4 DEF Start, Refuse, Send, Begin, Answer, NoAnswer, server
<1>5. ASSUME NEW c \in Client, NEW r \in Ref, Advertise(c, r)
      PROVE  Known'
  <2>1. /\ UNCHANGED <<objects, pruned, lost>>
        /\ remote' = [remote EXCEPT ![c] = [x \in DOMAIN remote[c] \cup {r} |->
                                               IF x = r THEN value[r] ELSE remote[c][x]]]
    BY <1>5 DEF Advertise, server
  <2>2. Leads(value[r]) \subseteq objects \cup pruned
    BY DEF Conn, TipsConnected, Known
  <2>3. ASSUME NEW d \in Client, NEW x \in DOMAIN remote'[d]
        PROVE  Leads(remote'[d][x]) \subseteq objects \cup pruned
    <3>1. CASE d = c
      <4>1. remote'[c] = [y \in DOMAIN remote[c] \cup {r} |->
                             IF y = r THEN value[r] ELSE remote[c][y]]
        BY <2>1 DEF Inv, Shape
      <4>2. x \in DOMAIN remote[c] \cup {r}
            /\ remote'[c][x] = IF x = r THEN value[r] ELSE remote[c][x]
        BY <3>1, <4>1, <2>3
      <4> QED
        BY <2>2, <3>1, <4>2 DEF Known
    <3>2. CASE d # c
      BY <2>1, <2>3, <3>2 DEF Inv, Shape, Known
    <3> QED
      BY <3>1, <3>2
  <2> QED
    BY <2>1, <2>3 DEF Known, Leads
<1>6. ASSUME Others, UNCHANGED client
      PROVE  Known'
  <2>1. ASSUME NEW S, Prune(S)
        PROVE  Known'
    BY <1>1, <1>6, <2>1 DEF Prune, client, Known
  <2>2. CASE UNCHANGED <<objects, pruned, lost>>
    BY <1>2, <1>6, <2>2 DEF client
  <2> QED
    BY <1>6, <2>1, <2>2 DEF Others, Switch, LocalUpdate
<1>7. CASE UNCHANGED vars
  BY <1>2, <1>7 DEF vars, server, client
<1> QED
  BY <1>3, <1>4, <1>5, <1>6, <1>7 DEF Next, Client

\* Only the check of a command finds that it misses something.
LEMMA MissingElsewhere ==
    ASSUME Inv, NEW s \in Session, Receive(s), ~CheckNext(s), NEW i, Misses(s, i)'
    PROVE  Misses(s, i)
<1>1. /\ Called(s) /\ Shaped(session[s])
  BY Before DEF Receive, Unpack, ReadHead, CheckNext, Publish, ApplyNext, Prepare, PublishNext,
         BatchFails, Fail, Now
<1> DEFINE v == session[s].verdicts
           New(f) == \A j \in DOMAIN f.verdicts :
                        \/ j \in DOMAIN v /\ f.verdicts[j] = v[j]
                        \/ f.verdicts[j] \in {"unpacker", "ok", "refused"}
<1>2. ASSUME NEW f, session' = [session EXCEPT ![s] = f], New(f)
      PROVE  Misses(s, i)
  <2>1. session'[s] = f
    BY <1>2 DEF Inv, Shape
  <2> QED
    BY <1>2, <2>1 DEF Misses
<1>3. CASE UNCHANGED session
  BY <1>3 DEF Misses
<1>4. ASSUME NEW f, session' = [session EXCEPT ![s] = f], f.verdicts = v
      PROVE  Misses(s, i)
  BY <1>2, <1>4
<1>5. ASSUME NEW f, session' = [session EXCEPT ![s] = f],
             \A j \in DOMAIN f.verdicts : f.verdicts[j] \in {"unpacker", "refused"}
      PROVE  Misses(s, i)
  BY <1>2, <1>5
<1>6. CASE AllRefused(s)
  <2>1. PICK f : /\ session' = [session EXCEPT ![s] = f]
                 /\ f = [session[s] EXCEPT !.stage = "done",
                             !.verdicts = [j \in DOMAIN session[s].verdicts |-> "refused"]]
    BY <1>6 DEF AllRefused, Set
  <2>2. f.verdicts = [j \in DOMAIN session[s].verdicts |-> "refused"]
    BY <1>1, <2>1 DEF Shaped
  <2>3. \A j \in DOMAIN f.verdicts : f.verdicts[j] = "refused"
    BY <2>2
  <2> QED
    BY <1>5, <2>1, <2>3
<1>7. ASSUME NEW n, NEW told, NEW effect, told = "ok" \/ told = "refused",
             Applied(s, n, told, effect)
      PROVE  Misses(s, i)
  <2> DEFINE rest == session[s].todo \ {n}
             g == [session[s] EXCEPT
                      !.todo = rest, !.verdicts[n] = told,
                      !.applied = IF effect THEN session[s].applied \cup {n} ELSE session[s].applied,
                      !.stage = IF rest = {} THEN "done" ELSE session[s].stage]
  <2>1. PICK f : session' = [session EXCEPT ![s] = f] /\ f = g
    <3>1. session' = [session EXCEPT ![s] = g]
      BY <1>7 DEF Applied, Set
    <3> HIDE DEF g
    <3> QED
      BY <3>1
  <2>2. f.verdicts = [v EXCEPT ![n] = told]
    BY <1>1, <2>1 DEF Shaped
  <2>3. New(f)
    BY <1>7, <2>2
  <2> QED
    BY <1>2, <2>1, <2>3
<1>8. ASSUME NEW n, LogRemains(s, n)
      PROVE  Misses(s, i)
  <2> DEFINE g == [session[s] EXCEPT
              !.stage = "done", !.todo = session[s].todo \ {n}, !.applied = session[s].applied \cup {n},
              !.verdicts = [j \in DOMAIN session[s].verdicts |-> "refused"]]
  <2>1. PICK f : session' = [session EXCEPT ![s] = f] /\ f = g
    <3>1. session' = [session EXCEPT ![s] = g]
      BY <1>8 DEF LogRemains, Set
    <3> HIDE DEF g
    <3> QED
      BY <3>1
  <2>2. f.verdicts = [j \in DOMAIN session[s].verdicts |-> "refused"]
    BY <1>1, <2>1 DEF Shaped
  <2>3. \A j \in DOMAIN f.verdicts : f.verdicts[j] = "refused"
    BY <2>2
  <2> QED
    BY <1>5, <2>1, <2>3
<1>9. CASE Unpack(s)
  <2>1. PICK f : /\ session' = [session EXCEPT ![s] = f]
                 /\ \/ f = [session[s] EXCEPT !.stage = "head"]
                    \/ f = [session[s] EXCEPT !.stage = "done", !.verdicts =
                              [j \in DOMAIN session[s].request.commands |-> "unpacker"]]
    BY <1>9 DEF Unpack, Set
  <2>2. \/ f.verdicts = v
        \/ f.verdicts = [j \in DOMAIN session[s].request.commands |-> "unpacker"]
    BY <1>1, <2>1 DEF Shaped
  <2>3. f.verdicts = v \/ \A j \in DOMAIN f.verdicts : f.verdicts[j] = "unpacker"
    BY <2>2
  <2> QED
    BY <1>4, <1>5, <2>1, <2>3
<1>10. ASSUME NEW f, session' = [session EXCEPT ![s] = f],
              \E a, b : \/ f = [session[s] EXCEPT !.stage = a, !.denied = b]
                        \/ f = [session[s] EXCEPT !.todo = b, !.stage = a]
                        \/ f = [session[s] EXCEPT !.stage = a]
       PROVE  Misses(s, i)
  <2>1. f.verdicts = v
    BY <1>1, <1>10 DEF Shaped
  <2> QED
    BY <1>4, <1>10, <2>1
<1>11. CASE ReadHead(s) \/ Publish(s) \/ Fail(s)
  <2>1. \E f : /\ session' = [session EXCEPT ![s] = f]
               /\ \E a, b : \/ f = [session[s] EXCEPT !.stage = a, !.denied = b]
                            \/ f = [session[s] EXCEPT !.todo = b, !.stage = a]
                            \/ f = [session[s] EXCEPT !.stage = a]
    <3>1. CASE ReadHead(s)
      BY <3>1, Zenon DEF ReadHead, Set
    <3>2. CASE Publish(s)
      BY <3>2, Zenon DEF Publish, Set
    <3>3. CASE Fail(s)
      BY <3>3, Zenon DEF Fail, Set
    <3> QED
      BY <1>11, <3>1, <3>2, <3>3
  <2> QED
    BY <1>10, <2>1
<1>12. CASE ApplyNext(s) \/ PublishNext(s)
  <2>1. \E n : \/ Applied(s, n, "ok", TRUE) \/ Applied(s, n, "refused", TRUE)
               \/ Applied(s, n, "refused", FALSE) \/ LogRemains(s, n)
    BY <1>12, Zenon DEF ApplyNext, PublishNext
  <2>2. PICK n : \/ Applied(s, n, "ok", TRUE) \/ Applied(s, n, "refused", TRUE)
                 \/ Applied(s, n, "refused", FALSE) \/ LogRemains(s, n)
    BY <2>1
  <2>3. CASE Applied(s, n, "ok", TRUE)
    BY <1>7, <2>3
  <2>4. CASE Applied(s, n, "refused", TRUE)
    BY <1>7, <2>4
  <2>5. CASE Applied(s, n, "refused", FALSE)
    BY <1>7, <2>5
  <2> QED
    BY <1>8, <2>2, <2>3, <2>4, <2>5
<1>13. CASE Prepare(s) \/ BatchFails(s)
  BY <1>3, <1>6, <1>13 DEF Prepare, BatchFails
<1> QED
  BY <1>9, <1>11, <1>12, <1>13 DEF Receive

LEMMA MissingFound ==
    ASSUME Inv, NEW s \in Session, CheckNext(s), NEW i, ~Misses(s, i), Misses(s, i)'
    PROVE  LET c == CommandsOf(s)[i] IN
           i \in DOMAIN CommandsOf(s) /\ c.new # None /\ ~(Walk(s, c.new) \subseteq Available(s))
<1>1. /\ Called(s) /\ Shaped(session[s]) /\ Progress(s) /\ session[s].stage = "check"
  BY Before DEF CheckNext, Now
<1> DEFINE q == session[s].request
           v == session[s].verdicts
           c == q.commands[Len(v) + 1]
           all == Append(v, Verdict(s, c))
           more == IF Verdict(s, c) = "ok" /\ c.new # None THEN Walk(s, c.new) ELSE {}
           g == [session[s] EXCEPT
                    !.verdicts  = IF Len(all) = Len(q.commands) THEN Grouped(q, all) ELSE all,
                    !.connected = session[s].connected \cup more,
                    !.stage     = IF Len(all) = Len(q.commands) THEN "publish"
                                  ELSE session[s].stage]
<1>2. PICK f : f = g /\ session' = [session EXCEPT ![s] = f]
  <2>1. session' = [session EXCEPT ![s] = g]
    BY DEF CheckNext, Set
  <2> HIDE DEF g
  <2> QED
    BY <2>1
<1>3. session'[s] = f /\ f.verdicts \in {Grouped(q, all), all}
  BY <1>1, <1>2 DEF Inv, Shape, Shaped
<1>4. v \in Seq(Verdicts) /\ Len(v) < Len(q.commands)
  BY <1>1 DEF Progress
<1>5. Len(v) + 1 \in DOMAIN q.commands
  BY <1>1, <1>4, Planned, SMTT(40) DEF CommandsOf
<1> HIDE DEF c, g, more
<1>6. Verdict(s, c) \in Verdicts
  BY VerdictType
<1>7. \A j \in DOMAIN all : \/ j \in DOMAIN v /\ all[j] = v[j]
                            \/ j = Len(v) + 1 /\ all[j] = Verdict(s, c)
  <2> HIDE DEF v
  <2> QED
    BY <1>4, <1>6
<1>8. i \in DOMAIN all /\ all[i] = "missing"
  BY <1>3 DEF Misses, Grouped
<1>9. i = Len(v) + 1 /\ Verdict(s, c) = "missing"
  BY <1>7, <1>8 DEF Misses
<1>10. c.new # None /\ ~(Walk(s, c.new) \subseteq Available(s))
  BY <1>9 DEF Verdict
<1> QED
  BY <1>5, <1>9, <1>10 DEF c, CommandsOf

\* Of what a planned object leads to, the receiver has what is not in the pack,
\* or had it.
LEMMA PackSuffices ==
    ASSUME Inv, Known, NEW c \in Client, Called(c),
           NEW i \in DOMAIN push[c].updates, push[c].updates[i].new # None
    PROVE  Below[push[c].updates[i].new] \ Available(c) \subseteq pruned \cup Behind
<1> DEFINE new == push[c].updates[i].new
<1>1. /\ push[c] \in Pushes /\ DOMAIN remote[c] = Ref
      /\ session[c].request = RequestOf(push[c], remote[c])
  BY DEF Inv, IInv, ServesPlan
<1>2. new \in Object /\ new \in Tips(push[c])
  <2>1. push[c].updates \in Seq(Update)
    BY <1>1, PushAssumption
  <2>2. push[c].updates[i] \in Update
    BY <2>1
  <2> QED
    BY <2>2 DEF Update, Id, Tips
<1>3. session[c].request.pack = ToSend(push[c], remote[c])
  BY <1>1 DEF RequestOf
<1> SUFFICES ASSUME NEW x \in Below[new], x \notin Available(c), x \notin Behind
             PROVE  x \in pruned
  OBVIOUS
<1>4. x \in Closure[new]
  BY <1>2, BelowClosure
<1>5. PICK r \in Ref : remote[c][r] \in Local /\ x \in Closure[remote[c][r]]
  BY <1>2, <1>3, <1>4 DEF ToSend, Available
<1>6. remote[c][r] \in Object /\ remote[c][r] # None
  BY <1>5, PushAssumption, ReceivePackAssumption
<1>7. x \in Leads(remote[c][r])
  BY <1>5, <1>6, BelowClosure DEF Leads
<1> QED
  BY <1>1, <1>7 DEF Known, Available

\* A push misses nothing but what was pruned since and what is behind the shallow
\* commits of the receiver, for every history, however the references change after
\* the advertisement: what is left out of the pack, the advertised references led
\* to when each was read (reachable_objects, check_connectivity).
THEOREM Complete == Spec => NothingMissing
<1>1. ASSUME Inv, Known, [Next]_vars, NEW c \in Client, NEW i \in DOMAIN push[c].updates,
             session'[c] # NoSession, session[c] # NoSession, ~Misses(c, i), Misses(c, i)'
      PROVE  Below[push[c].updates[i].new] \ Available(c) \subseteq pruned \cup Behind
  <2>1. c \in Session /\ Called(c) /\ session'[c] # session[c]
    BY <1>1 DEF Client, Called, Misses
  <2>2. PICK s \in Session : Receive(s)
    BY <1>1, <2>1, ZenonT(60) DEF Next, vars, server, Start, Refuse, Answer, NoAnswer, Advertise,
           Others, LocalUpdate, Switch, Prune, Send, Begin, Set, Called, Client, Inv, Shape
  <2>3. s = c
    <3>1. \A t \in Session \ {s} : session'[t] = session[t]
      BY <1>1, <2>2 DEF Receive, Unpack, ReadHead, CheckNext, Publish, ApplyNext, Applied, Prepare,
             AllRefused, PublishNext, LogRemains, BatchFails, Fail, Set, Inv, Shape
    <3> QED
      BY <2>1, <3>1
  <2>4. CheckNext(c)
    BY <1>1, <2>1, <2>2, <2>3, MissingElsewhere
  <2>5. CommandsOf(c)[i].new # None
    BY <1>1, <2>1, <2>4, MissingFound
  <2>6. push[c].updates[i].new # None
    BY <1>1, <2>1, <2>5, Planned
  <2> QED
    BY <1>1, <2>1, <2>6, PackSuffices
<1>2. Inv /\ Known /\ [Next]_vars =>
         [\A c \in Client : \A i \in DOMAIN push[c].updates :
             session'[c] # NoSession /\ session[c] # NoSession
             /\ ~Misses(c, i) /\ Misses(c, i)' =>
                 Below[push[c].updates[i].new] \ Available(c)
                     \subseteq pruned \cup Behind]_vars
  BY <1>1
<1>3. Init => Conn /\ Known
  BY DEF Init, ReceiveInit, Conn, TipsConnected, Called, Known, Nothing
<1> QED
  BY <1>2, <1>3, Connects, KnownKept, Invariance, PTL DEF Spec, NothingMissing
===============================================================================
