-------------------------------- MODULE Reflog --------------------------------
(***************************************************************************)
(* One reference and its reflog: the calls that change either, at the      *)
(* granularity of the file-system calls other processes can observe.       *)
(*                                                                         *)
(* An update takes <ref>.lock and then logs/<ref>.lock, and publishes the  *)
(* log before the reference.  append_reflog (HEAD's log, after the branch  *)
(* has moved) and drop_reflog take the log lock alone; a deletion takes    *)
(* the reference lock alone; a rewrite (delete and expire of entries)      *)
(* reads the log under the reference lock.  Lock files are files: what a   *)
(* call writes to, publishes or removes is whatever has that name by then. *)
(*                                                                         *)
(* The loose file stands for the reference (RefStore has packed-refs), and *)
(* a log that does not exist is one without entries.  A process may stop   *)
(* for ever between two steps, which leaves its lock files behind.         *)
(***************************************************************************)
EXTENDS Naturals, Sequences, FiniteSets

CONSTANTS Id,        \* object ids
          Null,      \* the null id
          None,      \* no reference, and no file
          Symbolic,  \* a symbolic reference, to a target not in this module
          Blank,     \* the contents of a reference file that is empty
          AnyOld,    \* a precondition that always holds
          Proc,
          Workloads, \* sets of calls that processes make beside each other
          MaxLog     \* bound: no call begins when the log has this many entries

Old   == Id \cup {None, Symbolic}
Entry == [old : Id \cup {Null}, new : Id \cup {Null}]

Updates  == [op : {"update"}, prev : Old \cup {AnyOld}, new : Id \cup {Symbolic},
             logged : BOOLEAN]
Deletes  == [op : {"delete"}, prev : Id \cup {Symbolic}]
Appends  == [op : {"append"}, entry : Entry]
Drops    == [op : {"drop"}]
Rewrites == [op : {"rewrite"}, dry : BOOLEAN, relink : BOOLEAN, move : BOOLEAN]

Idle == [op |-> "none"]

ASSUME ReflogAssumption ==
    /\ Null \notin Id /\ None \notin Id \cup {Null}
    /\ Symbolic \notin Id \cup {Null, None}
    /\ AnyOld \notin Old \cup {Null} /\ Blank \notin Old \cup {Null, AnyOld}
    /\ None \notin Proc
    /\ UNION Workloads \subseteq Updates \cup Deletes \cup Appends \cup Drops \cup Rewrites
    /\ MaxLog \in Nat

VARIABLES
    calls,      \* the calls that processes make, one of Workloads
    ref,        \* the value of the reference
    log,        \* its log, oldest entry first
    refLock,    \* <ref>.lock: who created it and what it contains
    logLock,    \* logs/<ref>.lock
    pc, req,    \* where each process is, and in which call
    seen,       \* the value of the reference when the call read it
    base,       \* the log when the call read it
    fresh       \* the entries the call is going to publish

vars == <<calls, ref, log, refLock, logLock, pc, req, seen, base, fresh>>

NoFile == [by |-> None]

-------------------------------------------------------------------------------
Goto(p, label) == pc' = [pc EXCEPT ![p] = label]

Finish(p) ==
    /\ Goto(p, "idle")
    /\ req' = [req EXCEPT ![p] = Idle]
    /\ seen' = [seen EXCEPT ![p] = None]
    /\ base' = [base EXCEPT ![p] = <<>>]
    /\ fresh' = [fresh EXCEPT ![p] = <<>>]

\* The ids a log entry can have for the value v.
Resolved(v) == CASE v = Symbolic -> Id \cup {Null}
                 [] v = None     -> {Null}
                 [] OTHER        -> {v}

\* Whether the call keeps a log: the cleanup of one that does removes both locks.
Logged(q) == q.op = "update" /\ q.logged

\* The k-th smallest element of S.
Nth(S, k) == CHOOSE i \in S : Cardinality({j \in S : j <= i}) = k

\* The entries at the positions S, in order; relinked, each starts where the
\* one before it ends.
Retained(entries, S, relink) ==
    LET kept == [k \in 1..Cardinality(S) |-> entries[Nth(S, k)]] IN
    IF ~relink THEN kept
    ELSE [k \in 1..Cardinality(S) |->
             [kept[k] EXCEPT !.old = IF k = 1 THEN Null ELSE kept[k - 1].new]]

Init ==
    /\ calls \in Workloads
    /\ ref \in Old
    /\ log = IF ref \in Id THEN <<[old |-> Null, new |-> ref]>> ELSE <<>>
    /\ refLock = NoFile /\ logLock = NoFile
    /\ pc = [p \in Proc |-> "idle"]
    /\ req = [p \in Proc |-> Idle]
    /\ seen = [p \in Proc |-> None]
    /\ base = [p \in Proc |-> <<>>]
    /\ fresh = [p \in Proc |-> <<>>]

Begin(p) ==
    /\ pc[p] = "idle" /\ Len(log) < MaxLog
    /\ \E q \in calls :
          /\ req' = [req EXCEPT ![p] = q]
          /\ Goto(p, IF q.op \in {"append", "drop"} THEN "lockLog" ELSE "lockRef")
    /\ UNCHANGED <<ref, log, refLock, logLock, seen, base, fresh>>

-------------------------------------------------------------------------------
(* The locks. *)

\* Variant for the checks: a lock in the way is not noticed.
ShareRefLock(p) ==
    /\ pc[p] = "lockRef"
    /\ refLock' = [by |-> p, holds |-> Blank]
    /\ Goto(p, IF Logged(req[p]) THEN "lockLog" ELSE "check")
    /\ UNCHANGED <<ref, log, logLock, req, seen, base, fresh>>

LockRef(p) ==
    /\ pc[p] = "lockRef"
    /\ \/ /\ refLock = NoFile
          /\ refLock' = [by |-> p, holds |-> Blank]
          /\ Goto(p, IF Logged(req[p]) THEN "lockLog" ELSE "check")
          /\ UNCHANGED <<req, seen, base, fresh>>
       \/ refLock # NoFile /\ Finish(p) /\ UNCHANGED refLock
    /\ UNCHANGED <<ref, log, logLock>>

\* A refused update removes the reference lock it has; a refused rewrite runs
\* its cleanup, which removes both.
LockLog(p) ==
    /\ pc[p] = "lockLog"
    /\ \/ /\ logLock = NoFile
          /\ logLock' = [by |-> p, holds |-> <<>>]
          /\ Goto(p, CASE req[p].op = "update"  -> "check"
                       [] req[p].op = "append"  -> "readLog"
                       [] req[p].op = "drop"    -> "removeLog"
                       [] req[p].op = "rewrite" -> "writeLog")
          /\ UNCHANGED <<req, seen, base, fresh>>
       \/ /\ logLock # NoFile /\ req[p].op \in {"append", "drop"}
          /\ Finish(p) /\ UNCHANGED logLock
       \/ /\ logLock # NoFile /\ req[p].op = "update"
          /\ Goto(p, "giveUp") /\ UNCHANGED <<logLock, req, seen, base, fresh>>
       \/ /\ logLock # NoFile /\ req[p].op = "rewrite"
          /\ Goto(p, "dropRefLock") /\ UNCHANGED <<logLock, req, seen, base, fresh>>
    /\ UNCHANGED <<ref, log, refLock>>

\* Variant for the checks: the lock that was refused is removed as well.
GiveUpBoth(p) ==
    /\ pc[p] = "giveUp"
    /\ refLock' = NoFile /\ logLock' = NoFile /\ Finish(p)
    /\ UNCHANGED <<ref, log>>

\* The log lock was refused: the reference lock alone is removed.
GiveUp(p) ==
    /\ pc[p] = "giveUp"
    /\ refLock' = NoFile /\ Finish(p)
    /\ UNCHANGED <<ref, log, logLock>>

\* Variant for the checks: the log lock is forgotten.
DropRefLockOnly(p) ==
    /\ pc[p] = "dropRefLock"
    /\ refLock' = NoFile /\ Finish(p)
    /\ UNCHANGED <<ref, log, logLock>>

\* The cleanup removes the files by name, whoever made them, and ignores one
\* that is not there.
DropRefLock(p) ==
    /\ pc[p] = "dropRefLock"
    /\ refLock' = NoFile
    /\ IF Logged(req[p]) \/ req[p].op = "rewrite"
       THEN Goto(p, "dropLogLock") /\ UNCHANGED <<req, seen, base, fresh>>
       ELSE Finish(p)
    /\ UNCHANGED <<ref, log, logLock>>

DropLogLock(p) ==
    /\ pc[p] = "dropLogLock"
    /\ logLock' = NoFile /\ Finish(p)
    /\ UNCHANGED <<ref, log, refLock>>

-------------------------------------------------------------------------------
(* Under the locks. *)

\* Whether the value v lets the call go on.  A direct update refuses a symbolic
\* reference, and a rewrite cannot move one.
Accepts(q, v) ==
    /\ v # Blank
    /\ CASE q.op = "update"  -> /\ q.prev \in {AnyOld, v}
                                /\ v = Symbolic => q.new = Symbolic
         [] q.op = "delete"  -> v = q.prev
         [] q.op = "rewrite" -> v # None /\ (q.move => v # Symbolic)

\* A deletion has packed-refs.lock to take before it reads the value, and gives
\* up when another call has it.
Check(p) ==
    /\ pc[p] = "check"
    /\ \/ /\ Accepts(req[p], ref)
          /\ seen' = [seen EXCEPT ![p] = ref]
          /\ Goto(p, CASE Logged(req[p]) \/ req[p].op = "rewrite" -> "readLog"
                       [] req[p].op = "delete" -> "removeRef"
                       [] OTHER -> "writeRef")
       \/ /\ ~Accepts(req[p], ref) \/ req[p] \in [op : {"delete"}, prev : Id]
          /\ Goto(p, "dropRefLock") /\ UNCHANGED seen
    /\ UNCHANGED <<ref, log, refLock, logLock, req, base, fresh>>

\* Variant for the checks: the old value is left out of the entry.
EntryFromNull(q, v, e) ==
    IF q.op = "append" THEN e = q.entry
    ELSE e.old = Null /\ e.new \in Resolved(q.new)

\* An update's entry goes from what the old value resolves to, to what the new
\* one does.
EntryFor(q, v, e) ==
    IF q.op = "append" THEN e = q.entry
    ELSE e.old \in Resolved(v) /\ e.new \in Resolved(q.new)

ReadLog(p) ==
    /\ pc[p] = "readLog" /\ req[p].op # "rewrite"
    /\ base' = [base EXCEPT ![p] = log]
    /\ \E e \in Entry : /\ EntryFor(req[p], seen[p], e)
                        /\ fresh' = [fresh EXCEPT ![p] = Append(log, e)]
    /\ Goto(p, "writeLog")
    /\ UNCHANGED <<ref, log, refLock, logLock, req, seen>>

\* The entries to keep may be any: selected by position, age or reachability.
\* A dry run, a selection that keeps everything and a selector out of range end
\* here.
Select(p) ==
    /\ pc[p] = "readLog" /\ req[p].op = "rewrite"
    /\ \/ /\ ~req[p].dry
          /\ base' = [base EXCEPT ![p] = log]
          /\ \E S \in SUBSET DOMAIN log :
                /\ S # DOMAIN log
                /\ fresh' = [fresh EXCEPT ![p] = Retained(log, S, req[p].relink)]
          /\ Goto(p, "lockLog")
       \/ Goto(p, "dropRefLock") /\ UNCHANGED <<base, fresh>>
    /\ UNCHANGED <<ref, log, refLock, logLock, req, seen>>

\* Whether the call is going to change the reference.
Moves(p) == \/ req[p].op = "update"
            \/ req[p].op = "rewrite" /\ req[p].move /\ fresh[p] # <<>>

\* write creates the file when it is not there.
WriteLog(p) ==
    /\ pc[p] = "writeLog"
    /\ logLock' = [by |-> p, holds |-> fresh[p]]
    /\ Goto(p, IF Moves(p) THEN "writeRef" ELSE "publishLog")
    /\ UNCHANGED <<ref, log, refLock, req, seen, base, fresh>>

\* Variant for the checks: the expected value is written.
OldValue(p) == IF req[p].op = "update" THEN req[p].prev ELSE fresh[p][Len(fresh[p])].new

NewValue(p) == IF req[p].op = "update" THEN req[p].new ELSE fresh[p][Len(fresh[p])].new

\* Variant for the checks: the log is written, and not published.
WriteRefOnly(p) ==
    /\ pc[p] = "writeRef"
    /\ refLock' = [by |-> p, holds |-> NewValue(p)]
    /\ Goto(p, "publishRef")
    /\ UNCHANGED <<ref, log, logLock, req, seen, base, fresh>>

WriteRef(p) ==
    /\ pc[p] = "writeRef"
    /\ refLock' = [by |-> p, holds |-> NewValue(p)]
    /\ Goto(p, IF req[p].op = "update" /\ ~req[p].logged THEN "publishRef" ELSE "publishLog")
    /\ UNCHANGED <<ref, log, logLock, req, seen, base, fresh>>

\* A publication moves the lock file over its destination, whatever it
\* contains, and fails when it is gone.
PublishLog(p) ==
    /\ pc[p] = "publishLog"
    /\ \/ /\ logLock # NoFile
          /\ log' = logLock.holds /\ logLock' = NoFile
          /\ CASE Moves(p) -> Goto(p, "publishRef") /\ UNCHANGED <<req, seen, base, fresh>>
               [] req[p].op = "append" -> Finish(p)
               [] OTHER -> Goto(p, "dropRefLock") /\ UNCHANGED <<req, seen, base, fresh>>
       \/ /\ logLock = NoFile
          /\ Goto(p, IF req[p].op = "append" THEN "dropLogLock" ELSE "dropRefLock")
          /\ UNCHANGED <<log, logLock, req, seen, base, fresh>>
    /\ UNCHANGED <<ref, refLock>>

\* The rewrite removes the locks that it has just published.
PublishRef(p) ==
    /\ pc[p] = "publishRef"
    /\ \/ /\ refLock # NoFile
          /\ ref' = refLock.holds /\ refLock' = NoFile
          /\ IF req[p].op = "update" THEN Finish(p)
             ELSE Goto(p, "dropRefLock") /\ UNCHANGED <<req, seen, base, fresh>>
       \/ /\ refLock = NoFile
          /\ Goto(p, "dropRefLock") /\ UNCHANGED <<ref, refLock, req, seen, base, fresh>>
    /\ UNCHANGED <<log, logLock>>

-------------------------------------------------------------------------------
(* Deletions. *)

RemoveRef(p) ==
    /\ pc[p] = "removeRef"
    /\ ref' = None
    /\ Goto(p, "unlockRef")
    /\ UNCHANGED <<log, refLock, logLock, req, seen, base, fresh>>

\* Variant for the checks: the lock outlives the deletion.
UnlockNot(p) ==
    /\ pc[p] = "unlockRef"
    /\ Goto(p, "removeLog")
    /\ UNCHANGED <<ref, log, refLock, logLock, req, seen, base, fresh>>

\* A reference lock that is not there any more is an error.
UnlockRef(p) ==
    /\ pc[p] = "unlockRef"
    /\ refLock' = NoFile
    /\ Goto(p, IF refLock # NoFile THEN "removeLog" ELSE "dropRefLock")
    /\ UNCHANGED <<ref, log, logLock, req, seen, base, fresh>>

\* A deletion removes the log after it has given up the reference lock, and
\* without the log lock; drop_reflog does it under the log lock.
RemoveLog(p) ==
    /\ pc[p] = "removeLog"
    /\ log' = <<>>
    /\ IF req[p].op = "drop"
       THEN Goto(p, "dropLogLock") /\ UNCHANGED <<req, seen, base, fresh>>
       ELSE Finish(p)
    /\ UNCHANGED <<ref, refLock, logLock>>

-------------------------------------------------------------------------------
Step(p) ==
    \/ Begin(p) \/ LockRef(p) \/ LockLog(p) \/ GiveUp(p) \/ DropRefLock(p)
    \/ DropLogLock(p) \/ Check(p) \/ ReadLog(p) \/ Select(p) \/ WriteLog(p)
    \/ WriteRef(p) \/ PublishLog(p) \/ PublishRef(p) \/ RemoveRef(p)
    \/ UnlockRef(p) \/ RemoveLog(p)

Next == (\E p \in Proc : Step(p)) /\ UNCHANGED calls

Spec == Init /\ [][Next]_vars

-------------------------------------------------------------------------------
\* Which calls are made at all.
Some(op) == \E q \in calls : q.op = op
MovesBack == \E q \in calls : q.op = "rewrite" /\ q.move
OnlyLogged == \A q \in calls : Logged(q) /\ q.new \in Id

\* What each call takes for granted about the locks, between taking them and
\* its cleanup or its publication.
HoldsRefLock(p) ==
    /\ req[p].op \notin {"append", "drop"}
    /\ pc[p] \in {"lockLog", "giveUp", "check", "readLog", "writeLog", "writeRef",
                  "publishLog", "publishRef", "removeRef", "unlockRef", "dropRefLock"}

HoldsLogLock(p) ==
    \/ pc[p] \in {"readLog", "writeLog", "publishLog", "dropLogLock"}
    \/ Logged(req[p]) /\ pc[p] \in {"check", "writeRef", "dropRefLock"}
    \/ req[p].op = "drop" /\ pc[p] = "removeLog"

\* docs/references.md:37 "Updates exclusively acquire `<ref>.lock`": where no log
\* is rewritten, a lock file exists exactly while the call that made it relies
\* on it.
LocksHeld ==
    ~Some("rewrite") =>
        /\ \A p \in Proc : HoldsRefLock(p) => refLock # NoFile /\ refLock.by = p
        /\ \A p \in Proc : HoldsLogLock(p) => logLock # NoFile /\ logLock.by = p
        /\ refLock # NoFile => HoldsRefLock(refLock.by)
        /\ logLock # NoFile => HoldsLogLock(logLock.by)

\* Between a call's comparison and its publication, the reference keeps the
\* value the call compared: no update is lost (refs.rs:548 "preventing lost
\* updates between concurrent writers").
RefCurrent ==
    \A p \in Proc :
        /\ req[p].op \in {"update", "delete", "rewrite"}
        /\ \/ pc[p] \in {"readLog", "writeLog", "writeRef", "publishLog", "publishRef", "removeRef"}
           \/ pc[p] = "lockLog" /\ req[p].op = "rewrite"
        => ref = seen[p]

\* Between a call's reading of the log and its publication of the new one, the
\* log stays what the call read: no entry is lost, and none comes back.
LogCurrent ==
    \A p \in Proc :
        /\ Logged(req[p]) \/ req[p].op \in {"append", "rewrite"}
        /\ \/ pc[p] \in {"writeLog", "writeRef", "publishLog"}
           \/ pc[p] = "lockLog" /\ req[p].op = "rewrite"
        => log = base[p]

\* The calls that keep these two, although the cleanup of a rewrite may remove
\* the lock files of others: every call that changes the reference, but for a
\* rewrite that moves it; and every call that changes the log, but for a
\* deletion, and for a rewrite beside the calls that take the log lock alone.
NoUpdateLost == ~MovesBack => RefCurrent

NoEntryLost ==
    /\ ~Some("delete") /\ ~MovesBack
    /\ Some("rewrite") => ~Some("append") /\ ~Some("drop")
    => LogCurrent

\* refs.rs:991 "Atomically update a direct reference and append its reflog": where
\* every call is a direct update that keeps a log, the newest entry of the log ends at
\* the reference's value, or starts there while the update that wrote it, under
\* way or crashed, has yet to publish the value; and each entry starts at the id where
\* the one before it ends.
LogCoversRef ==
    OnlyLogged =>
        /\ \A i \in 1..(Len(log) - 1) : log[i + 1].old = log[i].new
        /\ ref \in Id =>
              /\ log # <<>>
              /\ LET newest == log[Len(log)] IN
                    \/ newest.new = ref
                    \/ /\ newest.old = ref
                       /\ \E p \in Proc : pc[p] = "publishRef" /\ refLock.holds = newest.new
===============================================================================
