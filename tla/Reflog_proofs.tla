----------------------------- MODULE Reflog_proofs -----------------------------
(***************************************************************************)
(* The four invariants of Reflog, for every set of processes, ids, calls   *)
(* and every bound on the log.  Who holds which lock is the core of the    *)
(* inductive invariant: the reference lock has its maker as its user       *)
(* unless a rewrite moves the reference, and the log lock unless a rewrite *)
(* is made at all.  The other parts follow values that stay put while the  *)
(* lock that protects them is held.                                        *)
(***************************************************************************)
EXTENDS Reflog, TLAPS

-------------------------------------------------------------------------------
(* The inductive invariant. *)

Shape ==
    /\ calls \in Workloads
    /\ \A p \in Proc : req[p] \in calls \cup {Idle}
    /\ DOMAIN pc = Proc /\ DOMAIN req = Proc /\ DOMAIN seen = Proc
    /\ DOMAIN base = Proc /\ DOMAIN fresh = Proc
    /\ refLock = NoFile \/ refLock.by \in Proc
    /\ logLock = NoFile \/ logLock.by \in Proc

\* Where a process can be in each kind of call.
Place(q, label) ==
    \/ q.op = "none" /\ label = "idle"
    \/ q.op = "update" /\ label \in {"lockRef", "check", "writeRef", "publishRef", "dropRefLock"}
    \/ Logged(q) /\ label \in {"lockLog", "giveUp", "readLog", "writeLog", "publishLog", "dropLogLock"}
    \/ q.op = "delete" /\ label \in {"lockRef", "check", "removeRef", "unlockRef", "removeLog",
                                     "dropRefLock"}
    \/ q.op = "append" /\ label \in {"lockLog", "readLog", "writeLog", "publishLog", "dropLogLock"}
    \/ q.op = "drop" /\ label \in {"lockLog", "removeLog", "dropLogLock"}
    \/ q.op = "rewrite" /\ label \in {"lockRef", "check", "readLog", "lockLog", "writeLog",
                                      "publishLog", "dropRefLock", "dropLogLock"}
    \/ q.op = "rewrite" /\ q.move /\ label \in {"writeRef", "publishRef"}

Placed == \A p \in Proc : Place(req[p], pc[p])

RefLockHeld == ~MovesBack => \A p \in Proc : HoldsRefLock(p) <=> refLock.by = p

LogLockHeld == ~Some("rewrite") => \A p \in Proc : HoldsLogLock(p) <=> logLock.by = p

\* What the calls carry from one step to the next, where every call is a direct
\* update that keeps a log.
Newest == log[Len(log)]

Carried ==
    \A p \in Proc :
        /\ pc[p] \in {"readLog", "writeLog", "writeRef", "publishLog", "publishRef"}
              => seen[p] \in Id \cup {None}
        /\ pc[p] \in {"writeLog", "writeRef", "publishLog"}
              => \E e \in Entry : EntryFor(req[p], seen[p], e) /\ fresh[p] = Append(log, e)
        /\ pc[p] \in {"writeRef", "publishLog"} => logLock.holds = fresh[p]
        /\ pc[p] \in {"publishLog", "publishRef"} => refLock.holds = req[p].new
        /\ pc[p] = "publishRef" => log # <<>> /\ EntryFor(req[p], seen[p], Newest)

\* The log of a reference with a value that no update is about to publish.
Covered ==
    (\A p \in Proc : pc[p] # "publishRef") =>
        /\ ref \in Id => log # <<>> /\ Newest.new = ref
        /\ ref = None => log = <<>>

LogLinked == \A i \in 1..(Len(log) - 1) : log[i + 1].old = log[i].new

LogFollows ==
    OnlyLogged => /\ ref \in Old /\ log \in Seq(Entry)
                  /\ LogLinked /\ Carried /\ Covered

IInv == /\ Shape /\ Placed
        /\ RefLockHeld /\ LogLockHeld
        /\ NoUpdateLost /\ NoEntryLost
        /\ LogFollows

-------------------------------------------------------------------------------
(* Calls, and the steps seen by the others. *)

LEMMA CallKinds ==
  ASSUME calls \in Workloads, NEW q \in calls \cup {Idle}
  PROVE  /\ q.op \in {"none", "update", "delete", "append", "drop", "rewrite"}
         /\ q.op = "none" <=> q = Idle
         /\ q \in calls <=> q.op # "none"
         /\ q.op = "update" => q \in Updates
         /\ q.op = "append" => q \in Appends
         /\ q.op = "delete" => q \in Deletes
         /\ q.op = "rewrite" => q \in Rewrites
<1>1. CASE q \notin calls
  BY <1>1 DEF Idle
<1>2. CASE q \in calls
  <2>1. q \in Updates \cup Deletes \cup Appends \cup Drops \cup Rewrites
    BY <1>2, ReflogAssumption DEF ReflogAssumption
  <2>2. CASE q \in Updates
    BY <1>2, <2>2 DEF Updates, Idle
  <2>3. CASE q \in Deletes
    BY <1>2, <2>3 DEF Deletes, Idle
  <2>4. CASE q \in Appends
    BY <1>2, <2>4 DEF Appends, Idle
  <2>5. CASE q \in Drops
    BY <1>2, <2>5 DEF Drops, Idle
  <2>6. CASE q \in Rewrites
    BY <1>2, <2>6 DEF Rewrites, Idle
  <2> QED
    BY <2>1, <2>2, <2>3, <2>4, <2>5, <2>6
<1> QED
  BY <1>1, <1>2

\* No process is called like an absent file.
LEMMA Makers ==
  /\ NoFile.by \notin Proc
  /\ \A p \in Proc : \A x : [by |-> p, holds |-> x] # NoFile
BY ReflogAssumption DEF ReflogAssumption, NoFile

LEMMA FinishDoes ==
  ASSUME Shape, NEW p \in Proc, Finish(p)
  PROVE  /\ DOMAIN pc' = Proc /\ DOMAIN req' = Proc /\ DOMAIN seen' = Proc
         /\ DOMAIN base' = Proc /\ DOMAIN fresh' = Proc
         /\ pc'[p] = "idle" /\ req'[p] = Idle
         /\ \A q \in Proc \ {p} : /\ pc'[q] = pc[q] /\ req'[q] = req[q] /\ seen'[q] = seen[q]
                                  /\ base'[q] = base[q] /\ fresh'[q] = fresh[q]
BY DEF Finish, Goto, Shape

LEMMA GotoDoes ==
  ASSUME Shape, NEW p \in Proc, NEW label, Goto(p, label)
  PROVE  /\ DOMAIN pc' = Proc /\ pc'[p] = label
         /\ \A q \in Proc \ {p} : pc'[q] = pc[q]
BY DEF Goto, Shape

\* A step of one process leaves the others where they are.
LEMMA OthersStay ==
  ASSUME Shape, NEW p \in Proc, Step(p)
  PROVE  /\ DOMAIN pc' = Proc /\ DOMAIN req' = Proc /\ DOMAIN seen' = Proc
         /\ DOMAIN base' = Proc /\ DOMAIN fresh' = Proc
         /\ \A q \in Proc \ {p} : /\ pc'[q] = pc[q] /\ req'[q] = req[q] /\ seen'[q] = seen[q]
                                  /\ base'[q] = base[q] /\ fresh'[q] = fresh[q]
<1> USE DEF Shape
<1>1. CASE Begin(p)
  BY <1>1, GotoDoes DEF Begin
<1>2. CASE LockRef(p)
  BY <1>2, GotoDoes, FinishDoes DEF LockRef
<1>3. CASE LockLog(p)
  BY <1>3, GotoDoes, FinishDoes DEF LockLog
<1>4. CASE GiveUp(p)
  BY <1>4, FinishDoes DEF GiveUp
<1>5. CASE DropRefLock(p)
  BY <1>5, GotoDoes, FinishDoes DEF DropRefLock
<1>6. CASE DropLogLock(p)
  BY <1>6, FinishDoes DEF DropLogLock
<1>7. CASE Check(p)
  BY <1>7, GotoDoes DEF Check
<1>8. CASE ReadLog(p)
  BY <1>8, GotoDoes DEF ReadLog
<1>9. CASE Select(p)
  BY <1>9, GotoDoes DEF Select
<1>10. CASE WriteLog(p)
  BY <1>10, GotoDoes DEF WriteLog
<1>11. CASE WriteRef(p)
  BY <1>11, GotoDoes DEF WriteRef
<1>12. CASE PublishLog(p)
  BY <1>12, GotoDoes, FinishDoes DEF PublishLog
<1>13. CASE PublishRef(p)
  BY <1>13, GotoDoes, FinishDoes DEF PublishRef
<1>14. CASE RemoveRef(p)
  BY <1>14, GotoDoes DEF RemoveRef
<1>15. CASE UnlockRef(p)
  BY <1>15, GotoDoes DEF UnlockRef
<1>16. CASE RemoveLog(p)
  BY <1>16, GotoDoes, FinishDoes DEF RemoveLog
<1> QED
  BY <1>1, <1>2, <1>3, <1>4, <1>5, <1>6, <1>7, <1>8, <1>9, <1>10, <1>11, <1>12, <1>13, <1>14,
     <1>15, <1>16 DEF Step

-------------------------------------------------------------------------------
(* The parts of the invariant, one after the other. *)

LEMMA ShapeStep ==
  ASSUME Shape, NEW p \in Proc, Step(p), UNCHANGED calls
  PROVE  Shape'
<1>1. calls' \in Workloads
  BY DEF Shape
<1>2. req'[p] \in calls \cup {Idle}
  <2> USE DEF Shape
  <2>1. CASE \E q \in calls : req' = [req EXCEPT ![p] = q]
    BY <2>1
  <2>2. CASE req' = req
    BY <2>2
  <2>3. CASE Finish(p)
    BY <2>3, FinishDoes
  <2> QED
    BY <2>1, <2>2, <2>3
    DEF Step, Begin, LockRef, LockLog, GiveUp, DropRefLock, DropLogLock, Check, ReadLog, Select,
        WriteLog, WriteRef, PublishLog, PublishRef, RemoveRef, UnlockRef, RemoveLog
<1>3. \A q \in Proc : req'[q] \in calls' \cup {Idle}
  BY <1>2, OthersStay DEF Shape
<1>4. refLock' = NoFile \/ refLock'.by \in Proc
  BY DEF Shape, Step, Begin, LockRef, LockLog, GiveUp, DropRefLock, DropLogLock, Check, ReadLog,
         Select, WriteLog, WriteRef, PublishLog, PublishRef, RemoveRef, UnlockRef, RemoveLog
<1>5. logLock' = NoFile \/ logLock'.by \in Proc
  BY DEF Shape, Step, Begin, LockRef, LockLog, GiveUp, DropRefLock, DropLogLock, Check, ReadLog,
         Select, WriteLog, WriteRef, PublishLog, PublishRef, RemoveRef, UnlockRef, RemoveLog
<1> QED
  BY <1>1, <1>3, <1>4, <1>5, OthersStay DEF Shape

LEMMA PlacedStep ==
  ASSUME Shape, Placed, NEW p \in Proc, Step(p), UNCHANGED calls
  PROVE  Placed'
<1> SUFFICES Place(req'[p], pc'[p])
  BY OthersStay DEF Placed
<1>0. Place(req[p], pc[p])
  BY DEF Placed
<1>i. Place(Idle, "idle")
  BY DEF Place, Idle
<1>c. /\ calls \in Workloads /\ req[p] \in calls \cup {Idle} /\ DOMAIN req = Proc
      /\ req[p].op \in {"none", "update", "delete", "append", "drop", "rewrite"}
      /\ req[p].op = "update" => req[p].logged \in BOOLEAN
      /\ req[p].op = "rewrite" => req[p].move \in BOOLEAN
  BY CallKinds DEF Shape, Updates, Rewrites
<1> USE DEF Place, Logged
<1>1. CASE Begin(p)
  <2>1. PICK q \in calls : /\ req' = [req EXCEPT ![p] = q]
                           /\ Goto(p, IF q.op \in {"append", "drop"} THEN "lockLog" ELSE "lockRef")
    BY <1>1 DEF Begin
  <2>2. req'[p] = q
    BY <2>1, <1>c
  <2>3. q.op \in {"update", "delete", "append", "drop", "rewrite"}
    BY <1>c, CallKinds DEF Idle
  <2> QED
    BY <2>1, <2>2, <2>3, GotoDoes
<1>2. CASE LockRef(p)
  BY <1>0, <1>i, <1>c, <1>2, GotoDoes, FinishDoes DEF LockRef
<1>3. CASE LockLog(p)
  BY <1>0, <1>i, <1>c, <1>3, GotoDoes, FinishDoes DEF LockLog
<1>4. CASE GiveUp(p)
  BY <1>i, <1>4, FinishDoes DEF GiveUp
<1>5. CASE DropRefLock(p)
  BY <1>0, <1>i, <1>c, <1>5, GotoDoes, FinishDoes DEF DropRefLock
<1>6. CASE DropLogLock(p)
  BY <1>i, <1>6, FinishDoes DEF DropLogLock
<1>7. CASE Check(p)
  BY <1>0, <1>c, <1>7, GotoDoes DEF Check
<1>8. CASE ReadLog(p)
  BY <1>0, <1>c, <1>8, GotoDoes DEF ReadLog
<1>9. CASE Select(p)
  BY <1>0, <1>c, <1>9, GotoDoes DEF Select
<1>10. CASE WriteLog(p)
  BY <1>0, <1>c, <1>10, GotoDoes DEF WriteLog, Moves
<1>11. CASE WriteRef(p)
  BY <1>0, <1>c, <1>11, GotoDoes DEF WriteRef
<1>12. CASE PublishLog(p)
  BY <1>0, <1>i, <1>c, <1>12, GotoDoes, FinishDoes DEF PublishLog, Moves
<1>13. CASE PublishRef(p)
  BY <1>0, <1>i, <1>c, <1>13, GotoDoes, FinishDoes DEF PublishRef
<1>14. CASE RemoveRef(p)
  BY <1>0, <1>c, <1>14, GotoDoes DEF RemoveRef
<1>15. CASE UnlockRef(p)
  BY <1>0, <1>c, <1>15, GotoDoes DEF UnlockRef
<1>16. CASE RemoveLog(p)
  BY <1>0, <1>i, <1>c, <1>16, GotoDoes, FinishDoes DEF RemoveLog
<1> QED
  BY <1>1, <1>2, <1>3, <1>4, <1>5, <1>6, <1>7, <1>8, <1>9, <1>10, <1>11, <1>12, <1>13, <1>14,
     <1>15, <1>16 DEF Step

\* What the calls that are made exclude.
LEMMA CallsMade ==
  ASSUME Shape, NEW p \in Proc
  PROVE  /\ ~Some("rewrite") => req[p].op # "rewrite"
         /\ ~MovesBack => ~(req[p].op = "rewrite" /\ req[p].move)
         /\ ~Some("rewrite") => ~MovesBack
         /\ \A op \in {"delete", "append", "drop"} : ~Some(op) => req[p].op # op
BY DEF Shape, Some, MovesBack, Idle

\* A lock passes from nobody to p, stays with p, or passes from p to nobody.
LEMMA RefLockPasses ==
  ASSUME Shape, NEW p \in Proc, Step(p),
         \A q \in Proc : HoldsRefLock(q) <=> refLock.by = q,
         \/ refLock' = refLock /\ (HoldsRefLock(p)' <=> HoldsRefLock(p))
         \/ /\ refLock = NoFile \/ HoldsRefLock(p)
            /\ refLock'.by = p /\ HoldsRefLock(p)'
         \/ HoldsRefLock(p) /\ refLock' = NoFile /\ ~HoldsRefLock(p)'
  PROVE  \A q \in Proc : HoldsRefLock(q)' <=> refLock'.by = q
<1>1. \A q \in Proc \ {p} : HoldsRefLock(q)' <=> HoldsRefLock(q)
  BY OthersStay DEF HoldsRefLock
<1> QED
  BY <1>1, Makers

LEMMA RefLockStep ==
  ASSUME Shape, Placed, RefLockHeld, NEW p \in Proc, Step(p), UNCHANGED calls
  PROVE  RefLockHeld'
<1> SUFFICES ASSUME ~MovesBack
             PROVE  \A q \in Proc : HoldsRefLock(q)' <=> refLock'.by = q
  BY DEF RefLockHeld, MovesBack
<1>h. \A q \in Proc : HoldsRefLock(q) <=> refLock.by = q
  BY DEF RefLockHeld
<1>c. /\ Place(req[p], pc[p]) /\ ~(req[p].op = "rewrite" /\ req[p].move)
      /\ calls \in Workloads /\ DOMAIN req = Proc
  BY CallsMade DEF Shape, Placed
<1>n. Idle.op = "none"
  BY DEF Idle
<1>1. CASE Begin(p)
  <2>1. PICK q \in calls : /\ req' = [req EXCEPT ![p] = q]
                           /\ Goto(p, IF q.op \in {"append", "drop"} THEN "lockLog" ELSE "lockRef")
    BY <1>1 DEF Begin
  <2>2. ~HoldsRefLock(p)' /\ ~HoldsRefLock(p) /\ refLock' = refLock
    BY <1>1, <1>c, <2>1, GotoDoes DEF HoldsRefLock, Begin
  <2> QED
    BY <1>h, <2>2, RefLockPasses
<1>2. CASE LockRef(p)
  BY <1>h, <1>c, <1>n, <1>2, RefLockPasses, GotoDoes, FinishDoes
  DEF LockRef, HoldsRefLock, Place, Logged
<1>3. CASE LockLog(p)
  BY <1>h, <1>c, <1>n, <1>3, RefLockPasses, GotoDoes, FinishDoes
  DEF LockLog, HoldsRefLock, Place, Logged
<1>4. CASE GiveUp(p)
  BY <1>h, <1>c, <1>n, <1>4, RefLockPasses, FinishDoes DEF GiveUp, HoldsRefLock, Place, Logged
<1>5. CASE DropRefLock(p)
  BY <1>h, <1>c, <1>n, <1>5, RefLockPasses, GotoDoes, FinishDoes
  DEF DropRefLock, HoldsRefLock, Place, Logged
<1>6. CASE DropLogLock(p)
  BY <1>h, <1>c, <1>n, <1>6, RefLockPasses, FinishDoes DEF DropLogLock, HoldsRefLock
<1>7. CASE Check(p)
  BY <1>h, <1>c, <1>7, RefLockPasses, GotoDoes DEF Check, HoldsRefLock, Place, Logged
<1>8. CASE ReadLog(p)
  BY <1>h, <1>c, <1>8, RefLockPasses, GotoDoes DEF ReadLog, HoldsRefLock
<1>9. CASE Select(p)
  BY <1>h, <1>c, <1>9, RefLockPasses, GotoDoes DEF Select, HoldsRefLock
<1>10. CASE WriteLog(p)
  BY <1>h, <1>c, <1>10, RefLockPasses, GotoDoes DEF WriteLog, HoldsRefLock
<1>11. CASE WriteRef(p)
  BY <1>h, <1>c, <1>11, RefLockPasses, GotoDoes DEF WriteRef, HoldsRefLock, Place, Logged
<1>12. CASE PublishLog(p)
  BY <1>h, <1>c, <1>n, <1>12, RefLockPasses, GotoDoes, FinishDoes
  DEF PublishLog, HoldsRefLock, Place, Logged
<1>13. CASE PublishRef(p)
  BY <1>h, <1>c, <1>n, <1>13, RefLockPasses, GotoDoes, FinishDoes
  DEF PublishRef, HoldsRefLock, Place, Logged
<1>14. CASE RemoveRef(p)
  BY <1>h, <1>c, <1>14, RefLockPasses, GotoDoes DEF RemoveRef, HoldsRefLock
<1>15. CASE UnlockRef(p)
  BY <1>h, <1>c, <1>15, RefLockPasses, GotoDoes, Makers DEF UnlockRef, HoldsRefLock, Place, Logged
<1>16. CASE RemoveLog(p)
  BY <1>h, <1>c, <1>n, <1>16, RefLockPasses, GotoDoes, FinishDoes
  DEF RemoveLog, HoldsRefLock, Place, Logged
<1> QED
  BY <1>1, <1>2, <1>3, <1>4, <1>5, <1>6, <1>7, <1>8, <1>9, <1>10, <1>11, <1>12, <1>13, <1>14,
     <1>15, <1>16 DEF Step

LEMMA LogLockPasses ==
  ASSUME Shape, NEW p \in Proc, Step(p),
         \A q \in Proc : HoldsLogLock(q) <=> logLock.by = q,
         \/ logLock' = logLock /\ (HoldsLogLock(p)' <=> HoldsLogLock(p))
         \/ /\ logLock = NoFile \/ HoldsLogLock(p)
            /\ logLock'.by = p /\ HoldsLogLock(p)'
         \/ HoldsLogLock(p) /\ logLock' = NoFile /\ ~HoldsLogLock(p)'
  PROVE  \A q \in Proc : HoldsLogLock(q)' <=> logLock'.by = q
<1>1. \A q \in Proc \ {p} : HoldsLogLock(q)' <=> HoldsLogLock(q)
  BY OthersStay DEF HoldsLogLock
<1> QED
  BY <1>1, Makers

LEMMA LogLockStep ==
  ASSUME Shape, Placed, RefLockHeld, LogLockHeld, NEW p \in Proc, Step(p), UNCHANGED calls
  PROVE  LogLockHeld'
<1> SUFFICES ASSUME ~Some("rewrite")
             PROVE  \A q \in Proc : HoldsLogLock(q)' <=> logLock'.by = q
  BY DEF LogLockHeld, Some
<1>h. /\ \A q \in Proc : HoldsLogLock(q) <=> logLock.by = q
      /\ \A q \in Proc : HoldsRefLock(q) <=> refLock.by = q
  BY CallsMade DEF LogLockHeld, RefLockHeld
<1>c. Place(req[p], pc[p]) /\ req[p].op # "rewrite" /\ calls \in Workloads /\ DOMAIN req = Proc
  BY CallsMade DEF Shape, Placed
<1>n. Idle.op = "none"
  BY DEF Idle
<1>1. CASE Begin(p)
  <2>1. PICK q \in calls : /\ req' = [req EXCEPT ![p] = q]
                           /\ Goto(p, IF q.op \in {"append", "drop"} THEN "lockLog" ELSE "lockRef")
    BY <1>1 DEF Begin
  <2>2. ~HoldsLogLock(p)' /\ ~HoldsLogLock(p) /\ logLock' = logLock
    BY <1>1, <1>c, <2>1, GotoDoes DEF HoldsLogLock, Begin
  <2> QED
    BY <1>h, <2>2, LogLockPasses
<1>2. CASE LockRef(p)
  BY <1>h, <1>c, <1>n, <1>2, LogLockPasses, GotoDoes, FinishDoes
  DEF LockRef, HoldsLogLock, Place, Logged
<1>3. CASE LockLog(p)
  BY <1>h, <1>c, <1>n, <1>3, LogLockPasses, GotoDoes, FinishDoes
  DEF LockLog, HoldsLogLock, Place, Logged
<1>4. CASE GiveUp(p)
  BY <1>h, <1>c, <1>n, <1>4, LogLockPasses, FinishDoes DEF GiveUp, HoldsLogLock, Place, Logged
<1>5. CASE DropRefLock(p)
  BY <1>h, <1>c, <1>n, <1>5, LogLockPasses, GotoDoes, FinishDoes
  DEF DropRefLock, HoldsLogLock, Place, Logged
<1>6. CASE DropLogLock(p)
  BY <1>h, <1>c, <1>n, <1>6, LogLockPasses, FinishDoes DEF DropLogLock, HoldsLogLock, Logged
<1>7. CASE Check(p)
  BY <1>h, <1>c, <1>7, LogLockPasses, GotoDoes DEF Check, HoldsLogLock, Place, Logged
<1>8. CASE ReadLog(p)
  BY <1>h, <1>c, <1>8, LogLockPasses, GotoDoes DEF ReadLog, HoldsLogLock, Logged
<1>9. CASE Select(p)
  BY <1>c, <1>9 DEF Select
<1>10. CASE WriteLog(p)
  BY <1>h, <1>c, <1>10, LogLockPasses, GotoDoes DEF WriteLog, HoldsLogLock, Place, Logged, Moves
<1>11. CASE WriteRef(p)
  BY <1>h, <1>c, <1>11, LogLockPasses, GotoDoes DEF WriteRef, HoldsLogLock, Place, Logged
<1>12. CASE PublishLog(p)
  BY <1>h, <1>c, <1>n, <1>12, LogLockPasses, GotoDoes, FinishDoes, Makers
  DEF PublishLog, HoldsLogLock, Place, Logged, Moves
<1>13. CASE PublishRef(p)
  BY <1>h, <1>c, <1>n, <1>13, LogLockPasses, GotoDoes, FinishDoes, Makers
  DEF PublishRef, HoldsRefLock, HoldsLogLock, Place, Logged
<1>14. CASE RemoveRef(p)
  BY <1>h, <1>c, <1>14, LogLockPasses, GotoDoes DEF RemoveRef, HoldsLogLock, Place, Logged
<1>15. CASE UnlockRef(p)
  BY <1>h, <1>c, <1>15, LogLockPasses, GotoDoes DEF UnlockRef, HoldsLogLock, Place, Logged
<1>16. CASE RemoveLog(p)
  BY <1>h, <1>c, <1>n, <1>16, LogLockPasses, GotoDoes, FinishDoes
  DEF RemoveLog, HoldsLogLock, Place, Logged
<1> QED
  BY <1>1, <1>2, <1>3, <1>4, <1>5, <1>6, <1>7, <1>8, <1>9, <1>10, <1>11, <1>12, <1>13, <1>14,
     <1>15, <1>16 DEF Step

-------------------------------------------------------------------------------
(* What the locks protect. *)

\* The reference keeps its value while another process uses its lock.
LEMMA RefGuarded ==
  ASSUME Shape, Placed, RefLockHeld, ~MovesBack, NEW p \in Proc, Step(p),
         NEW q \in Proc \ {p}, HoldsRefLock(q)
  PROVE  ref' = ref
<1>1. ~HoldsRefLock(p)
  BY DEF RefLockHeld
<1>2. ~PublishRef(p) /\ ~RemoveRef(p)
  BY <1>1 DEF PublishRef, RemoveRef, HoldsRefLock, Placed, Place, Logged
<1> QED
  BY <1>2 DEF Step, Begin, LockRef, LockLog, GiveUp, DropRefLock, DropLogLock, Check, ReadLog,
              Select, WriteLog, WriteRef, PublishLog, UnlockRef, RemoveLog

NeedsRef(p) ==
    /\ req[p].op \in {"update", "delete", "rewrite"}
    /\ \/ pc[p] \in {"readLog", "writeLog", "writeRef", "publishLog", "publishRef", "removeRef"}
       \/ pc[p] = "lockLog" /\ req[p].op = "rewrite"

LEMMA RefCurrentStep ==
  ASSUME Shape, Placed, RefLockHeld, NoUpdateLost, NEW p \in Proc, Step(p), UNCHANGED calls
  PROVE  NoUpdateLost'
<1> SUFFICES ASSUME ~MovesBack, NEW q \in Proc, NeedsRef(q)' PROVE ref' = seen'[q]
  BY DEF NoUpdateLost, RefCurrent, NeedsRef, MovesBack
<1>1. NeedsRef(q) => ref = seen[q] /\ HoldsRefLock(q)
  BY DEF NoUpdateLost, RefCurrent, NeedsRef, HoldsRefLock
<1>2. CASE q # p
  BY <1>1, <1>2, OthersStay, RefGuarded DEF NeedsRef
<1>3. CASE q = p
  <2>c. Place(req[p], pc[p]) /\ p \in Proc /\ DOMAIN req = Proc /\ DOMAIN seen = Proc
    BY DEF Placed, Shape
  <2>i. Finish(p) => FALSE
    BY <1>3, FinishDoes DEF NeedsRef
  <2> USE <2>c, <1>1, <1>3, GotoDoes DEF NeedsRef
  <2>1. CASE Begin(p)
    BY <2>1 DEF Begin
  <2>2. CASE LockRef(p)
    BY <2>i, <2>2 DEF LockRef, Place, Logged
  <2>3. CASE LockLog(p)
    BY <2>i, <2>3 DEF LockLog, Place, Logged
  <2>4. CASE GiveUp(p)
    BY <2>i, <2>4 DEF GiveUp
  <2>5. CASE DropRefLock(p)
    BY <2>i, <2>5 DEF DropRefLock
  <2>6. CASE DropLogLock(p)
    BY <2>i, <2>6 DEF DropLogLock
  <2>7. CASE Check(p)
    BY <2>7 DEF Check
  <2>8. CASE ReadLog(p)
    BY <2>8 DEF ReadLog
  <2>9. CASE Select(p)
    BY <2>9 DEF Select
  <2>10. CASE WriteLog(p)
    BY <2>10 DEF WriteLog
  <2>11. CASE WriteRef(p)
    BY <2>11 DEF WriteRef
  <2>12. CASE PublishLog(p)
    BY <2>i, <2>12 DEF PublishLog
  <2>13. CASE PublishRef(p)
    BY <2>i, <2>13 DEF PublishRef
  <2>14. CASE RemoveRef(p)
    BY <2>14 DEF RemoveRef
  <2>15. CASE UnlockRef(p)
    BY <2>15 DEF UnlockRef
  <2>16. CASE RemoveLog(p)
    BY <2>i, <2>16 DEF RemoveLog
  <2> QED
    BY <2>1, <2>2, <2>3, <2>4, <2>5, <2>6, <2>7, <2>8, <2>9, <2>10, <2>11, <2>12, <2>13, <2>14,
       <2>15, <2>16 DEF Step
<1> QED
  BY <1>2, <1>3

NeedsLog(p) ==
    /\ Logged(req[p]) \/ req[p].op \in {"append", "rewrite"}
    /\ \/ pc[p] \in {"writeLog", "writeRef", "publishLog"}
       \/ pc[p] = "lockLog" /\ req[p].op = "rewrite"

\* The calls that take every entry with them.
KeepsEntries ==
    /\ ~Some("delete") /\ ~MovesBack
    /\ Some("rewrite") => ~Some("append") /\ ~Some("drop")

\* The log keeps its entries between a call's reading of it and its publication:
\* beside a rewrite the reference lock protects it, elsewhere its own lock.
LEMMA LogGuarded ==
  ASSUME Shape, Placed, RefLockHeld, LogLockHeld, KeepsEntries, NEW p \in Proc, Step(p),
         NEW q \in Proc \ {p}, NeedsLog(q)
  PROVE  log' = log
<1>1. ~PublishLog(p) /\ ~RemoveLog(p)
  <2>1. CASE ~Some("rewrite")
    <3>1. HoldsLogLock(q) /\ ~HoldsLogLock(p)
      BY <2>1, CallsMade DEF LogLockHeld, NeedsLog, HoldsLogLock, Placed, Place, Logged
    <3>2. req[p].op # "delete"
      BY CallsMade DEF KeepsEntries
    <3> QED
      BY <3>1, <3>2 DEF PublishLog, RemoveLog, HoldsLogLock, Placed, Place, Logged
  <2>2. CASE Some("rewrite")
    <3>1. req[p].op \notin {"append", "drop", "delete"} /\ req[q].op \notin {"append", "drop"}
      BY <2>2, CallsMade DEF KeepsEntries
    <3>2. HoldsRefLock(q) /\ ~HoldsRefLock(p)
      BY <3>1 DEF RefLockHeld, KeepsEntries, NeedsLog, HoldsRefLock, Logged
    <3> QED
      BY <3>1, <3>2 DEF PublishLog, RemoveLog, HoldsRefLock, Placed, Place, Logged
  <2> QED
    BY <2>1, <2>2
<1> QED
  BY <1>1 DEF Step, Begin, LockRef, LockLog, GiveUp, DropRefLock, DropLogLock, Check, ReadLog,
              Select, WriteLog, WriteRef, PublishRef, RemoveRef, UnlockRef

LEMMA LogCurrentStep ==
  ASSUME Shape, Placed, RefLockHeld, LogLockHeld, NoEntryLost,
         NEW p \in Proc, Step(p), UNCHANGED calls
  PROVE  NoEntryLost'
<1> SUFFICES ASSUME KeepsEntries, NEW q \in Proc, NeedsLog(q)' PROVE log' = base'[q]
  BY DEF NoEntryLost, LogCurrent, NeedsLog, KeepsEntries, MovesBack, Some
<1>1. NeedsLog(q) => log = base[q]
  BY DEF NoEntryLost, KeepsEntries, LogCurrent, NeedsLog
<1>2. CASE q # p
  BY <1>1, <1>2, OthersStay, LogGuarded DEF NeedsLog
<1>3. CASE q = p
  <2>c. Place(req[p], pc[p]) /\ p \in Proc /\ DOMAIN req = Proc /\ DOMAIN base = Proc
    BY DEF Placed, Shape
  <2>i. Finish(p) => FALSE
    BY <1>3, FinishDoes DEF NeedsLog
  <2> USE <2>c, <1>1, <1>3, GotoDoes DEF NeedsLog
  <2>1. CASE Begin(p)
    <3>1. PICK c \in calls : /\ req' = [req EXCEPT ![p] = c]
                             /\ Goto(p, IF c.op \in {"append", "drop"} THEN "lockLog" ELSE "lockRef")
      BY <2>1 DEF Begin
    <3> QED
      BY <3>1 DEF Logged
  <2>2. CASE LockRef(p)
    BY <2>i, <2>2 DEF LockRef, Place, Logged
  <2>3. CASE LockLog(p)
    BY <2>i, <2>3 DEF LockLog, Place, Logged
  <2>4. CASE GiveUp(p)
    BY <2>i, <2>4 DEF GiveUp
  <2>5. CASE DropRefLock(p)
    BY <2>i, <2>5 DEF DropRefLock
  <2>6. CASE DropLogLock(p)
    BY <2>i, <2>6 DEF DropLogLock
  <2>7. CASE Check(p)
    BY <2>7 DEF Check, Place, Logged
  <2>8. CASE ReadLog(p)
    BY <2>8 DEF ReadLog
  <2>9. CASE Select(p)
    BY <2>9 DEF Select
  <2>10. CASE WriteLog(p)
    BY <2>10 DEF WriteLog
  <2>11. CASE WriteRef(p)
    BY <2>11 DEF WriteRef
  <2>12. CASE PublishLog(p)
    BY <2>i, <2>12 DEF PublishLog
  <2>13. CASE PublishRef(p)
    BY <2>i, <2>13 DEF PublishRef
  <2>14. CASE RemoveRef(p)
    BY <2>14 DEF RemoveRef
  <2>15. CASE UnlockRef(p)
    BY <2>15 DEF UnlockRef
  <2>16. CASE RemoveLog(p)
    BY <2>i, <2>16 DEF RemoveLog
  <2> QED
    BY <2>1, <2>2, <2>3, <2>4, <2>5, <2>6, <2>7, <2>8, <2>9, <2>10, <2>11, <2>12, <2>13, <2>14,
       <2>15, <2>16 DEF Step
<1> QED
  BY <1>2, <1>3

-------------------------------------------------------------------------------
(* The log beside the reference, where every call is a direct update that    *)
(* keeps one.                                                                *)

LEMMA DirectCalls ==
  ASSUME Shape, OnlyLogged
  PROVE  /\ ~Some("rewrite") /\ ~MovesBack
         /\ \A p \in Proc : req[p] # Idle => Logged(req[p]) /\ req[p].new \in Id
         /\ \A p \in Proc : req[p].op \in {"none", "update"}
         /\ \A p \in Proc : req[p].op = "update" => req[p] # Idle
<1>1. \A q \in calls : q.op = "update" /\ q.logged /\ q.new \in Id
  BY DEF OnlyLogged, Logged
<1>2. Idle.op = "none"
  BY DEF Idle
<1> QED
  BY <1>1, <1>2 DEF Shape, Some, MovesBack, Logged

LEMMA DirectEntry ==
  ASSUME NEW q, q.op = "update", q.new \in Id, NEW v \in Id \cup {None}, NEW e, EntryFor(q, v, e)
  PROVE  /\ e.new = q.new
         /\ v \in Id => e.old = v
BY ReflogAssumption DEF ReflogAssumption, EntryFor, Resolved

LEMMA LockFilesGuarded ==
  ASSUME Shape, Placed, RefLockHeld, LogLockHeld, ~Some("rewrite"), NEW p \in Proc, Step(p),
         NEW q \in Proc \ {p}
  PROVE  /\ HoldsRefLock(q) => refLock' = refLock
         /\ HoldsLogLock(q) => logLock' = logLock
<1>h. /\ \A r \in Proc : HoldsRefLock(r) <=> refLock.by = r
      /\ \A r \in Proc : HoldsLogLock(r) <=> logLock.by = r
  BY CallsMade DEF RefLockHeld, LogLockHeld
<1>c. Place(req[p], pc[p]) /\ req[p].op # "rewrite"
  BY CallsMade DEF Placed
<1>1. HoldsRefLock(q) => refLock # NoFile /\ ~HoldsRefLock(p)
  BY <1>h, Makers
<1>2. HoldsLogLock(q) => logLock # NoFile /\ ~HoldsLogLock(p)
  BY <1>h, Makers
<1>3. refLock' = refLock \/ refLock = NoFile \/ HoldsRefLock(p)
  BY <1>c DEF HoldsRefLock, Place, Logged,
     Step, Begin, LockRef, LockLog, GiveUp, DropRefLock, DropLogLock, Check, ReadLog,
     Select, WriteLog, WriteRef, PublishLog, PublishRef, RemoveRef, UnlockRef, RemoveLog
<1>4. logLock' = logLock \/ logLock = NoFile \/ HoldsLogLock(p)
  BY <1>c DEF HoldsLogLock, Place, Logged,
     Step, Begin, LockRef, LockLog, GiveUp, DropRefLock, DropLogLock, Check, ReadLog,
     Select, WriteLog, WriteRef, PublishLog, PublishRef, RemoveRef, UnlockRef, RemoveLog
<1> QED
  BY <1>1, <1>2, <1>3, <1>4

\* What a process publishes, and when.
LEMMA Publications ==
  ASSUME IInv, OnlyLogged, NEW p \in Proc, Step(p), UNCHANGED calls
  PROVE  /\ pc[p] = "publishLog" =>
               /\ log' = fresh[p] /\ ref' = ref /\ refLock' = refLock
               /\ pc'[p] = "publishRef" /\ req'[p] = req[p] /\ seen'[p] = seen[p]
         /\ pc[p] = "publishRef" => ref' = req[p].new /\ log' = log /\ pc'[p] = "idle"
         /\ pc[p] # "publishLog" => log' = log /\ pc'[p] # "publishRef"
         /\ pc[p] # "publishRef" => ref' = ref
<1>d. req[p].op \in {"none", "update"} /\ (req[p].op = "update" => req[p].logged)
  BY DirectCalls DEF IInv, Logged
<1>c. Place(req[p], pc[p])
  BY DEF IInv, Placed
<1>h. /\ pc[p] = "publishLog" => logLock # NoFile /\ logLock.holds = fresh[p]
      /\ pc[p] = "publishRef" => refLock # NoFile /\ refLock.holds = req[p].new
  BY <1>c, <1>d, DirectCalls, Makers
  DEF IInv, RefLockHeld, LogLockHeld, HoldsRefLock, HoldsLogLock, LogFollows, Carried
<1>s. Shape
  BY DEF IInv
<1> USE GotoDoes, FinishDoes, <1>s
<1>1. CASE PublishLog(p)
  <2>1. pc[p] = "publishLog" /\ Moves(p) /\ req[p].op = "update"
    BY <1>1, <1>c, <1>d DEF PublishLog, Moves, Place, Logged
  <2>2. /\ log' = fresh[p] /\ Goto(p, "publishRef") /\ UNCHANGED <<req, seen>>
        /\ ref' = ref /\ refLock' = refLock
    BY <1>1, <1>h, <2>1 DEF PublishLog
  <2> QED
    BY <2>1, <2>2
<1>2. CASE PublishRef(p)
  BY <1>2, <1>c, <1>d, <1>h DEF PublishRef, Place, Logged
<1>3. CASE ~PublishLog(p) /\ ~PublishRef(p)
  <2>1. ~RemoveRef(p) /\ ~RemoveLog(p)
    BY <1>c, <1>d DEF RemoveRef, RemoveLog, Place, Logged
  <2>2. log' = log /\ ref' = ref
    BY <1>3, <2>1 DEF Step, Begin, LockRef, LockLog, GiveUp, DropRefLock, DropLogLock, Check,
       ReadLog, Select, WriteLog, WriteRef, UnlockRef
  <2>3. pc'[p] # "publishRef"
    BY <1>3, <1>c, <1>d, <2>1 DEF Step, Begin, LockRef, LockLog, GiveUp, DropRefLock, DropLogLock, Check,
       ReadLog, Select, WriteLog, WriteRef, UnlockRef, Place, Logged
  <2>4. pc[p] \notin {"publishLog", "publishRef"}
    BY <1>3, <1>c, <1>d, <2>1 DEF Step, Begin, LockRef, LockLog, GiveUp, DropRefLock, DropLogLock, Check,
       ReadLog, Select, WriteLog, WriteRef, UnlockRef
  <2> QED
    BY <2>2, <2>3, <2>4
<1> QED
  BY <1>1, <1>2, <1>3

LEMMA AppendLinks ==
  ASSUME NEW s \in Seq(Entry), NEW e \in Entry,
         \A i \in 1..(Len(s) - 1) : s[i + 1].old = s[i].new,
         s # <<>> => s[Len(s)].new = e.old
  PROVE  /\ Append(s, e) \in Seq(Entry) /\ Append(s, e) # <<>>
         /\ Append(s, e)[Len(Append(s, e))] = e
         /\ \A i \in 1..(Len(Append(s, e)) - 1) : Append(s, e)[i + 1].old = Append(s, e)[i].new
<1>1. Append(s, e) \in Seq(Entry) /\ Len(Append(s, e)) = Len(s) + 1
  OBVIOUS
<1>2. Append(s, e)[Len(s) + 1] = e /\ \A i \in 1..Len(s) : Append(s, e)[i] = s[i]
  OBVIOUS
<1>3. ASSUME NEW i \in 1..Len(s) PROVE Append(s, e)[i + 1].old = Append(s, e)[i].new
  <2>1. CASE i = Len(s)
    BY <1>2, <2>1
  <2>2. CASE i # Len(s)
    BY <1>2, <2>2
  <2> QED
    BY <2>1, <2>2
<1> QED
  BY <1>1, <1>2, <1>3

\* The entry that a call publishes starts where the log ends.
LEMMA PublishedEntry ==
  ASSUME IInv, OnlyLogged, NEW p \in Proc, pc[p] = "publishLog"
  PROVE  /\ seen[p] = ref /\ ref \in Id \cup {None} /\ req[p].op = "update" /\ req[p].new \in Id
         /\ fresh[p] \in Seq(Entry) /\ fresh[p] # <<>>
         /\ \A i \in 1..(Len(fresh[p]) - 1) : fresh[p][i + 1].old = fresh[p][i].new
         /\ EntryFor(req[p], seen[p], fresh[p][Len(fresh[p])])
<1>1. req[p].op = "update" /\ req[p].new \in Id /\ ~MovesBack
  BY DirectCalls DEF IInv, Placed, Place, Logged
<1>2. seen[p] = ref /\ seen[p] \in Id \cup {None}
  BY <1>1 DEF IInv, NoUpdateLost, RefCurrent, LogFollows, Carried
<1>3. \A q \in Proc : pc[q] # "publishRef"
  <2>1. HoldsRefLock(p)
    BY <1>1 DEF HoldsRefLock
  <2>2. \A q \in Proc \ {p} : ~HoldsRefLock(q)
    BY <1>1, <2>1 DEF IInv, RefLockHeld
  <2> QED
    BY <2>2 DEF HoldsRefLock, IInv, Placed, Place, Logged
<1>4. log \in Seq(Entry) /\ LogLinked
  BY DEF IInv, LogFollows
<1>5. PICK e \in Entry : EntryFor(req[p], seen[p], e) /\ fresh[p] = Append(log, e)
  BY DEF IInv, LogFollows, Carried
<1>6. log # <<>> => Newest.new = e.old
  <2>1. ref \in Id => Newest.new = ref /\ e.old = ref
    BY <1>1, <1>2, <1>3, <1>5, DirectEntry DEF IInv, LogFollows, Covered
  <2>2. ref = None => log = <<>>
    BY <1>3 DEF IInv, LogFollows, Covered
  <2> QED
    BY <1>2, <2>1, <2>2
<1> QED
  BY <1>1, <1>2, <1>4, <1>5, <1>6, AppendLinks DEF LogLinked, Newest

LEMMA LinkedStep ==
  ASSUME IInv, OnlyLogged, NEW p \in Proc, Step(p), UNCHANGED calls
  PROVE  ref' \in Old /\ log' \in Seq(Entry) /\ LogLinked'
<1>1. ref' \in Old
  <2>1. pc[p] = "publishRef" => req[p].new \in Id
    BY DirectCalls DEF IInv, Placed, Place
  <2> QED
    BY <2>1, Publications DEF IInv, LogFollows, Old
<1>2. log' \in Seq(Entry) /\ LogLinked'
  BY Publications, PublishedEntry DEF IInv, LogFollows, LogLinked
<1> QED
  BY <1>1, <1>2

LEMMA CarriedStep ==
  ASSUME IInv, OnlyLogged, NEW p \in Proc, Step(p), UNCHANGED calls
  PROVE  Carried'
<1>d. /\ \A q \in Proc : Place(req[q], pc[q]) /\ req[q].op \in {"none", "update"}
      /\ \A q \in Proc : req[q].op = "update" => req[q].logged /\ req[q].new \in Id
      /\ ~MovesBack /\ ~Some("rewrite") /\ Shape
  BY DirectCalls DEF IInv, Placed, Logged
<1>k. Carried
  BY DEF IInv, LogFollows
<1>1. ASSUME NEW q \in Proc, q # p
      PROVE  /\ pc'[q] \in {"readLog", "writeLog", "writeRef", "publishLog", "publishRef"}
                   => seen'[q] \in Id \cup {None}
             /\ pc'[q] \in {"writeLog", "writeRef", "publishLog"}
                   => \E e \in Entry : EntryFor(req'[q], seen'[q], e) /\ fresh'[q] = Append(log', e)
             /\ pc'[q] \in {"writeRef", "publishLog"} => logLock'.holds = fresh'[q]
             /\ pc'[q] \in {"publishLog", "publishRef"} => refLock'.holds = req'[q].new
             /\ pc'[q] = "publishRef" => log' # <<>> /\ EntryFor(req'[q], seen'[q], Newest')
  <2>1. /\ pc'[q] = pc[q] /\ req'[q] = req[q] /\ seen'[q] = seen[q]
        /\ base'[q] = base[q] /\ fresh'[q] = fresh[q]
    BY <1>1, <1>d, OthersStay
  <2>2. pc[q] \in {"readLog", "writeLog", "writeRef", "publishLog", "publishRef"} => HoldsRefLock(q)
    BY <1>d DEF Place, Logged, HoldsRefLock
  <2>3. HoldsRefLock(q) => refLock' = refLock /\ log' = log
    <3>1. HoldsRefLock(q) => ~HoldsRefLock(p)
      BY <1>1, <1>d DEF IInv, RefLockHeld
    <3>2. pc[p] = "publishLog" => HoldsRefLock(p)
      BY <1>d DEF Place, Logged, HoldsRefLock
    <3> QED
      BY <1>1, <1>d, <3>1, <3>2, Publications, LockFilesGuarded DEF IInv
  <2>4. pc[q] \in {"writeRef", "publishLog"} => logLock' = logLock
    <3>1. pc[q] \in {"writeRef", "publishLog"} => HoldsLogLock(q)
      BY <1>d DEF Place, Logged, HoldsLogLock
    <3> QED
      BY <1>1, <1>d, <3>1, LockFilesGuarded DEF IInv
  <2> QED
    BY <1>k, <2>1, <2>2, <2>3, <2>4 DEF Carried, Newest
<1>2. /\ pc'[p] \in {"readLog", "writeLog", "writeRef", "publishLog", "publishRef"}
            => seen'[p] \in Id \cup {None}
      /\ pc'[p] \in {"writeLog", "writeRef", "publishLog"}
            => \E e \in Entry : EntryFor(req'[p], seen'[p], e) /\ fresh'[p] = Append(log', e)
      /\ pc'[p] \in {"writeRef", "publishLog"} => logLock'.holds = fresh'[p]
      /\ pc'[p] \in {"publishLog", "publishRef"} => refLock'.holds = req'[p].new
      /\ pc'[p] = "publishRef" => log' # <<>> /\ EntryFor(req'[p], seen'[p], Newest')
  <2>s. DOMAIN req = Proc /\ DOMAIN seen = Proc /\ DOMAIN fresh = Proc /\ Shape
    BY <1>d DEF Shape
  <2>i. Finish(p) => pc'[p] = "idle"
    BY <2>s, FinishDoes
  <2> USE <2>s, GotoDoes
  <2>1. CASE Begin(p)
    BY <2>1 DEF Begin
  <2>2. CASE LockRef(p)
    BY <1>d, <2>i, <2>2 DEF LockRef, Place, Logged
  <2>3. CASE LockLog(p)
    BY <1>d, <2>i, <2>3 DEF LockLog, Place, Logged
  <2>4. CASE GiveUp(p)
    BY <2>i, <2>4 DEF GiveUp
  <2>5. CASE DropRefLock(p)
    BY <2>i, <2>5 DEF DropRefLock
  <2>6. CASE DropLogLock(p)
    BY <2>i, <2>6 DEF DropLogLock
  <2>7. CASE Check(p)
    <3>1. CASE pc'[p] = "readLog"
      <4>1. Accepts(req[p], ref) /\ seen'[p] = ref /\ req[p].op = "update"
        BY <1>d, <2>7, <3>1 DEF Check, Place, Logged
      <4>2. ref \in Old /\ ref # Symbolic
        BY <1>d, <4>1, ReflogAssumption DEF ReflogAssumption, Accepts, IInv, LogFollows
      <4> QED
        BY <3>1, <4>1, <4>2 DEF Old
    <3>2. CASE pc'[p] = "dropRefLock"
      BY <3>2
    <3> QED
      BY <1>d, <2>7, <3>1, <3>2 DEF Check, Place, Logged
  <2>8. CASE ReadLog(p)
    BY <1>k, <2>8 DEF ReadLog, Carried
  <2>9. CASE Select(p)
    BY <1>d, <2>9 DEF Select
  <2>10. CASE WriteLog(p)
    <3>1. req[p].op = "update" /\ pc'[p] = "writeRef"
      BY <1>d, <2>10 DEF WriteLog, Moves, Place, Logged
    <3> QED
      BY <1>k, <2>10, <3>1 DEF WriteLog, Carried
  <2>11. CASE WriteRef(p)
    <3>1. req[p].op = "update" /\ pc'[p] = "publishLog" /\ NewValue(p) = req[p].new
      BY <1>d, <2>11 DEF WriteRef, NewValue, Place, Logged
    <3> QED
      BY <1>k, <2>11, <3>1 DEF WriteRef, Carried
  <2>12. CASE PublishLog(p)
    <3>1. pc[p] = "publishLog"
      BY <2>12 DEF PublishLog
    <3> QED
      BY <1>k, <3>1, Publications, PublishedEntry DEF Carried, Newest
  <2>13. CASE PublishRef(p)
    <3>1. pc[p] = "publishRef"
      BY <2>13 DEF PublishRef
    <3> QED
      BY <3>1, Publications
  <2>14. CASE RemoveRef(p)
    BY <2>14 DEF RemoveRef
  <2>15. CASE UnlockRef(p)
    BY <2>15 DEF UnlockRef
  <2>16. CASE RemoveLog(p)
    BY <2>i, <2>16 DEF RemoveLog
  <2> QED
    BY <2>1, <2>2, <2>3, <2>4, <2>5, <2>6, <2>7, <2>8, <2>9, <2>10, <2>11, <2>12, <2>13, <2>14,
       <2>15, <2>16 DEF Step
<1> QED
  BY <1>1, <1>2 DEF Carried

LEMMA CoveredStep ==
  ASSUME IInv, OnlyLogged, NEW p \in Proc, Step(p), UNCHANGED calls
  PROVE  Covered'
<1> SUFFICES ASSUME \A q \in Proc : pc'[q] # "publishRef"
             PROVE  /\ ref' \in Id => log' # <<>> /\ Newest'.new = ref'
                    /\ ref' = None => log' = <<>>
  BY DEF Covered
<1>1. \A q \in Proc \ {p} : pc[q] # "publishRef"
  BY OthersStay DEF IInv
<1>2. CASE pc[p] = "publishRef"
  <2>1. ref' = req[p].new /\ log' = log
    BY <1>2, Publications
  <2>2. req[p].op = "update" /\ req[p].new \in Id
    BY <1>2, DirectCalls DEF IInv, Placed, Place, Logged
  <2>3. log # <<>> /\ EntryFor(req[p], seen[p], Newest) /\ seen[p] \in Id \cup {None}
    BY <1>2 DEF IInv, LogFollows, Carried
  <2>4. Newest.new = req[p].new
    BY <2>2, <2>3, DirectEntry
  <2> QED
    BY <2>1, <2>2, <2>3, <2>4, ReflogAssumption DEF ReflogAssumption, Newest
<1>3. CASE pc[p] # "publishRef"
  <2>1. ref' = ref /\ log' = log
    BY <1>3, Publications
  <2> QED
    BY <1>1, <1>3, <2>1 DEF IInv, LogFollows, Covered, Newest
<1> QED
  BY <1>2, <1>3

-------------------------------------------------------------------------------
(* The theorems. *)

LEMMA InitHolds == Init => IInv
<1> SUFFICES ASSUME Init PROVE IInv
  OBVIOUS
<1>i. Idle.op = "none"
  BY DEF Idle
<1>1. Shape
  BY DEF Init, Shape
<1>2. Placed
  BY <1>i DEF Init, Placed, Place
<1>3. RefLockHeld /\ LogLockHeld
  BY <1>i, Makers DEF Init, RefLockHeld, LogLockHeld, HoldsRefLock, HoldsLogLock, Logged
<1>4. NoUpdateLost /\ NoEntryLost
  BY <1>i DEF Init, NoUpdateLost, NoEntryLost, RefCurrent, LogCurrent, Logged
<1>5. LogFollows
  <2>1. Carried
    BY DEF Init, Carried
  <2>2. CASE ref \in Id
    <3>1. log = <<[old |-> Null, new |-> ref]>> /\ [old |-> Null, new |-> ref] \in Entry
      BY <2>2 DEF Init, Entry
    <3>2. log \in Seq(Entry) /\ Len(log) = 1 /\ log # <<>> /\ Newest.new = ref
      BY <3>1 DEF Newest
    <3>3. ref # None
      BY <2>2, ReflogAssumption DEF ReflogAssumption
    <3> QED
      BY <2>1, <3>2, <3>3 DEF Init, LogFollows, LogLinked, Covered
  <2>3. CASE ref \notin Id
    BY <2>1, <2>3 DEF Init, LogFollows, LogLinked, Covered
  <2> QED
    BY <2>2, <2>3
<1> QED
  BY <1>1, <1>2, <1>3, <1>4, <1>5 DEF IInv

LEMMA StepHolds == IInv /\ [Next]_vars => IInv'
<1> SUFFICES ASSUME IInv, [Next]_vars PROVE IInv'
  OBVIOUS
<1>1. ASSUME NEW p \in Proc, Step(p), UNCHANGED calls PROVE IInv'
  <2>1. Shape' /\ Placed' /\ RefLockHeld' /\ LogLockHeld'
    BY <1>1, ShapeStep, PlacedStep, RefLockStep, LogLockStep DEF IInv
  <2>2. NoUpdateLost' /\ NoEntryLost'
    BY <1>1, RefCurrentStep, LogCurrentStep DEF IInv
  <2>3. LogFollows'
    <3>1. OnlyLogged' => OnlyLogged
      BY <1>1 DEF OnlyLogged
    <3> QED
      BY <1>1, <3>1, LinkedStep, CarriedStep, CoveredStep DEF LogFollows
  <2> QED
    BY <2>1, <2>2, <2>3 DEF IInv
<1>2. CASE UNCHANGED vars
  <2>1. Shape' /\ Placed' /\ RefLockHeld' /\ LogLockHeld'
    BY <1>2 DEF vars, IInv, Shape, Placed, RefLockHeld, LogLockHeld, HoldsRefLock, HoldsLogLock,
                MovesBack, Some
  <2>2. NoUpdateLost' /\ NoEntryLost'
    BY <1>2 DEF vars, IInv, NoUpdateLost, NoEntryLost, RefCurrent, LogCurrent, MovesBack, Some
  <2>3. LogFollows'
    BY <1>2 DEF vars, IInv, LogFollows, OnlyLogged, LogLinked, Carried, Covered, Newest
  <2> QED
    BY <2>1, <2>2, <2>3 DEF IInv
<1> QED
  BY <1>1, <1>2 DEF Next

\* The inductive invariant holds in every state that the calls can reach.
THEOREM Invariance == Spec => []IInv
BY InitHolds, StepHolds, PTL DEF Spec

\* Where no log is rewritten, a call that relies on a lock made the file that
\* is there, and a file that is there was made by a call that relies on it.
THEOREM LockOwners == Spec => []LocksHeld
<1>1. IInv => LocksHeld
  <2> SUFFICES ASSUME IInv, ~Some("rewrite")
               PROVE  /\ \A p \in Proc : HoldsRefLock(p) => refLock # NoFile /\ refLock.by = p
                      /\ \A p \in Proc : HoldsLogLock(p) => logLock # NoFile /\ logLock.by = p
                      /\ refLock # NoFile => HoldsRefLock(refLock.by)
                      /\ logLock # NoFile => HoldsLogLock(logLock.by)
    BY DEF LocksHeld
  <2>1. ~MovesBack
    BY DEF Some, MovesBack
  <2> QED
    BY <2>1, Makers DEF IInv, Shape, RefLockHeld, LogLockHeld
<1> QED
  BY <1>1, Invariance, PTL

\* Unless a rewrite moves the reference, it has the value a call compared until
\* that call publishes its own, although the cleanup of a rewrite removes log
\* locks of others.
THEOREM UpdatesKept == Spec => []NoUpdateLost
<1>1. IInv => NoUpdateLost
  BY DEF IInv
<1> QED
  BY <1>1, Invariance, PTL

\* The log has the entries a call read until that call publishes the new ones:
\* the log's own lock sees to it where no log is rewritten, the reference lock
\* where every call that changes the log takes it.
THEOREM EntriesKept == Spec => []NoEntryLost
<1>1. IInv => NoEntryLost
  BY DEF IInv
<1> QED
  BY <1>1, Invariance, PTL

\* Beside direct updates that keep a log, the log is a chain that ends at the
\* reference's value, or at the value about to be published, after any crash.
THEOREM LogCovers == Spec => []LogCoversRef
<1>1. IInv => LogCoversRef
  <2> SUFFICES ASSUME IInv, OnlyLogged PROVE LogCoversRef
    BY DEF LogCoversRef
  <2>1. \A i \in 1..(Len(log) - 1) : log[i + 1].old = log[i].new
    BY DEF IInv, LogFollows, LogLinked
  <2>2. CASE \A p \in Proc : pc[p] # "publishRef"
    BY <2>1, <2>2 DEF IInv, LogFollows, Covered, Newest, LogCoversRef
  <2>3. ASSUME NEW p \in Proc, pc[p] = "publishRef" PROVE LogCoversRef
    <3>1. req[p].op = "update" /\ req[p].new \in Id /\ ~MovesBack
      BY <2>3, DirectCalls DEF IInv, Placed, Place, Logged
    <3>2. seen[p] = ref /\ seen[p] \in Id \cup {None}
      BY <2>3, <3>1 DEF IInv, NoUpdateLost, RefCurrent, LogFollows, Carried
    <3>3. log # <<>> /\ EntryFor(req[p], seen[p], Newest) /\ refLock.holds = req[p].new
      BY <2>3 DEF IInv, LogFollows, Carried
    <3>4. Newest.new = refLock.holds /\ (ref \in Id => Newest.old = ref)
      BY <3>1, <3>2, <3>3, DirectEntry
    <3> QED
      BY <2>1, <2>3, <3>3, <3>4 DEF Newest, LogCoversRef
  <2> QED
    BY <2>2, <2>3
<1> QED
  BY <1>1, Invariance, PTL
===============================================================================
