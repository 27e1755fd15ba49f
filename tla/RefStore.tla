------------------------------- MODULE RefStore -------------------------------
(***************************************************************************)
(* The files reference backend, at the granularity of the file-system      *)
(* calls other processes can observe: creating a lock file (write_new),    *)
(* reading a loose file, reading packed-refs, publishing a lock file over  *)
(* its destination, and removing a file.                                   *)
(*                                                                         *)
(* Writers run a reference transaction (update_reference,                  *)
(* delete_reference, apply_reference_transaction and                       *)
(* apply_mixed_reference_transaction differ in the edits they admit, not   *)
(* in the protocol), packers run pack_refs, readers run read_reference.    *)
(* Any process may stop for ever between two steps: a crash leaves its     *)
(* lock files behind.                                                      *)
(*                                                                         *)
(* Reference names are numbers, ordered as the code's bytewise order.  A   *)
(* packed-refs file that does not exist is one that packs nothing.         *)
(* Symbolic references and reflogs are not part of this module.            *)
(***************************************************************************)
EXTENDS Naturals, FiniteSets

CONSTANTS Ref, Id, None, AnyOld, Keep,
          Writer, Packer, Reader,
          Requests

Proc  == Writer \cup Packer \cup Reader
Value == Id \cup {None}
Edit  == [prev : Value \cup {AnyOld}, new : Value \cup {Keep}]
Edits == UNION {[S -> Edit] : S \in SUBSET Ref}

ASSUME RefStoreAssumption ==
    /\ Ref \subseteq Nat
    /\ None \notin Id /\ AnyOld \notin Value /\ Keep \notin Value
    /\ None \notin Ref /\ None \notin Proc
    /\ Requests \subseteq Edits
    /\ \A e \in Requests : DOMAIN e # {}
    /\ Writer \cap Packer = {} /\ Writer \cap Reader = {} /\ Packer \cap Reader = {}

VARIABLES
    loose,        \* the loose file of each reference, None if there is none
    packed,       \* the packed-refs entry of each reference, None if none
    owner,        \* who created <ref>.lock, None if there is no such file
    staged,       \* the contents of <ref>.lock, None when empty
    packedOwner,  \* who created packed-refs.lock, None if there is no such file
    packedStaged, \* the contents of packed-refs.lock
    pc,           \* where each process is
    todo,         \* the references its current loop has still to visit
    edits,        \* the edits of a writer's transaction
    items,        \* the loose references a packer collected, with their ids
    prune,        \* whether the packer removes what it packs
    outcome, reading, window, answer   \* see AtomicRefs

files   == <<loose, packed, owner, staged, packedOwner, packedStaged>>
clients == <<outcome, reading, window, answer>>
vars    == <<files, pc, todo, edits, items, prune, clients>>

-------------------------------------------------------------------------------
NoEdits == [r \in {} |-> None]

NoEntries == [r \in Ref |-> None]

Least(S) == CHOOSE r \in S : \A s \in S : r <= s

\* What read_reference finds when nothing intervenes: a loose file hides the
\* packed entry.
Current(l, p, r) == IF l[r] # None THEN l[r] ELSE p[r]
Cur(r) == Current(loose, packed, r)

\* Variant for the checks: the expected value is not compared.
PermitsAnything(e, v) == e.new = None => v # None

\* previous_matches, and the refusal to delete a missing reference.
Permits(e, v) == /\ e.prev \in {AnyOld, v}
                 /\ e.new = None => v # None

Deletes(e) == \E r \in DOMAIN e : e[r].new = None

\* Variant for the checks: the entry of a deleted reference stays.
StillWithDeleted(e, entries) == entries

\* remove_packed_reference for every deletion of the transaction.
WithoutDeleted(e, entries) ==
    [r \in Ref |-> IF r \in DOMAIN e /\ e[r].new = None THEN None ELSE entries[r]]

\* Variant for the checks: an entry already packed is not replaced.
KeptOver(found, entries) ==
    [r \in Ref |-> IF entries[r] = None /\ r \in DOMAIN found THEN found[r] ELSE entries[r]]

MergedWith(found, entries) ==
    [r \in Ref |-> IF r \in DOMAIN found THEN found[r] ELSE entries[r]]

\* Every reader under way witnesses the values after this step.
Observe ==
    window' = [q \in Reader |->
        IF reading[q] = None THEN window[q]
        ELSE window[q] \cup {Current(loose', packed', reading[q])}]

Goto(p, label) == pc' = [pc EXCEPT ![p] = label]
Visit(p, S)    == todo' = [todo EXCEPT ![p] = S]

\* The end of a loop's iteration: go on with the next reference, or, after the
\* last one, leave for label with the references S to visit there.
NextOr(p, S, label) ==
    LET rest == todo[p] \ {Least(todo[p])} IN
    IF rest = {} THEN Visit(p, S) /\ Goto(p, label)
                 ELSE Visit(p, rest) /\ UNCHANGED pc

-------------------------------------------------------------------------------
Init ==
    /\ loose \in [Ref -> Value]
    /\ packed \in [Ref -> Value]
    /\ owner = [r \in Ref |-> None]
    /\ staged = NoEntries
    /\ packedOwner = None
    /\ packedStaged = NoEntries
    /\ pc = [p \in Proc |-> "idle"]
    /\ todo = [p \in Proc |-> {}]
    /\ edits = [w \in Writer |-> NoEdits]
    /\ items = [p \in Packer |-> NoEdits]
    /\ prune = [p \in Packer |-> FALSE]
    /\ outcome = [w \in Writer |-> "none"]
    /\ reading = [q \in Reader |-> None]
    /\ window = [q \in Reader |-> {}]
    /\ answer = [q \in Reader |-> None]

-------------------------------------------------------------------------------
(* Creating and removing lock files, shared by transactions and packing. *)

\* write_new on the lock of the next reference of the loop over S, which
\* succeeds only when the file does not exist.
AcquireNext(p, S, label) ==
    LET r == Least(todo[p]) IN
    /\ owner[r] = None
    /\ owner' = [owner EXCEPT ![r] = p]
    /\ staged' = [staged EXCEPT ![r] = None]
    /\ NextOr(p, S, label)
    /\ UNCHANGED <<loose, packed, packedOwner, packedStaged>>

\* Variant for the checks: a lock in the way is waited for.
WaitForLock(p, S) == owner[Least(todo[p])] # None /\ UNCHANGED <<files, pc, todo>>

\* write_new found the lock of another process: release what was taken.
RefuseNext(p, S) ==
    /\ owner[Least(todo[p])] # None
    /\ Visit(p, S \ todo[p]) /\ Goto(p, "release")
    /\ UNCHANGED files

AcquirePacked(p, label) ==
    /\ packedOwner = None
    /\ packedOwner' = p
    /\ packedStaged' = NoEntries
    /\ Goto(p, label)
    /\ UNCHANGED <<loose, packed, owner, staged, todo>>

\* Variant for the checks: the cleanup removes packed-refs.lock as well.
ReleasePacked(p) ==
    /\ packedOwner # None
    /\ Goto(p, "releaseBoth")
    /\ UNCHANGED <<files, todo>>

RefusePacked(p) ==
    /\ packedOwner # None
    /\ Goto(p, "release")
    /\ UNCHANGED <<files, todo>>

\* remove_file on the lock of reference r, whoever created it.
DropLock(r) ==
    /\ owner' = [owner EXCEPT ![r] = None]
    /\ staged' = [staged EXCEPT ![r] = None]

-------------------------------------------------------------------------------
(* A reference transaction. *)

Submit(w) ==
    /\ pc[w] = "idle"
    /\ \E e \in Requests : /\ edits' = [edits EXCEPT ![w] = e]
                           /\ Visit(w, DOMAIN e)
    /\ Goto(w, "lock")
    /\ outcome' = [outcome EXCEPT ![w] = "none"]
    /\ UNCHANGED <<files, items, prune, reading, window, answer>>

LockNext(w) ==
    /\ pc[w] = "lock"
    /\ \/ AcquireNext(w, DOMAIN edits[w],
                      IF Deletes(edits[w]) THEN "lockPacked" ELSE "check")
       \/ RefuseNext(w, DOMAIN edits[w])
    /\ UNCHANGED <<edits, items, prune, clients>>

LockPacked(w) ==
    /\ pc[w] = "lockPacked"
    /\ AcquirePacked(w, "check") \/ RefusePacked(w)
    /\ UNCHANGED <<edits, items, prune, clients>>

\* read_reference returned v for the next reference.  When its precondition
\* holds, the new value goes into the lock file; when it does not, the
\* transaction gives up before it has published anything.
Decide(w, v) ==
    LET r == Least(todo[w])
        e == edits[w][r]
    IN  /\ \/ /\ Permits(e, v)
              /\ staged' = IF e.new \in Id THEN [staged EXCEPT ![r] = e.new] ELSE staged
              /\ IF todo[w] # {r}
                   THEN Visit(w, todo[w] \ {r}) /\ Goto(w, "check")
                   ELSE /\ Visit(w, DOMAIN edits[w])
                        /\ Goto(w, IF Deletes(edits[w]) THEN "filter" ELSE "commit")
           \/ /\ ~Permits(e, v)
              /\ Visit(w, DOMAIN edits[w])
              /\ Goto(w, IF Deletes(edits[w]) THEN "releaseBoth" ELSE "release")
              /\ UNCHANGED staged
        /\ UNCHANGED <<loose, packed, owner, packedOwner, packedStaged>>

CheckLoose(w) ==
    /\ pc[w] = "check"
    /\ LET l == loose[Least(todo[w])] IN
       \/ l # None /\ Decide(w, l)
       \/ l = None /\ Goto(w, "checkPacked") /\ UNCHANGED <<files, todo>>
    /\ UNCHANGED <<edits, items, prune, clients>>

CheckPacked(w) ==
    /\ pc[w] = "checkPacked"
    /\ Decide(w, packed[Least(todo[w])])
    /\ UNCHANGED <<edits, items, prune, clients>>

FilterPacked(w) ==
    /\ pc[w] = "filter"
    /\ packedStaged' = WithoutDeleted(edits[w], packed)
    /\ Goto(w, "publishPacked")
    /\ UNCHANGED <<loose, packed, owner, staged, packedOwner, todo, edits, items,
                   prune, clients>>

\* rename packed-refs.lock over packed-refs
PublishEntries ==
    /\ packed' = packedStaged
    /\ packedOwner' = None
    /\ packedStaged' = NoEntries
    /\ UNCHANGED <<loose, owner, staged>>
    /\ Observe

\* The deletions leave packed-refs before any loose file is touched.
PublishPacked(w) ==
    /\ pc[w] = "publishPacked"
    /\ PublishEntries
    /\ Goto(w, "commit")
    /\ UNCHANGED <<todo, edits, items, prune, outcome, reading, answer>>

\* Publish the lock file of the next reference, or remove the file of a
\* deleted reference.  A verified reference only gives its lock back.
CommitNext(w) ==
    LET r == Least(todo[w])
        e == edits[w][r]
    IN
    /\ pc[w] = "commit"
    /\ \/ /\ e.new \in Id
          /\ loose' = [loose EXCEPT ![r] = staged[r]]
          /\ DropLock(r)
          /\ NextOr(w, {}, "done")
       \/ /\ e.new = None
          /\ loose' = [loose EXCEPT ![r] = None]
          /\ Goto(w, "unlock")
          /\ UNCHANGED <<owner, staged, todo>>
       \/ /\ e.new = Keep
          /\ DropLock(r)
          /\ NextOr(w, {}, "done")
          /\ UNCHANGED loose
    /\ UNCHANGED <<packed, packedOwner, packedStaged>>
    /\ Observe
    /\ UNCHANGED <<edits, items, prune, outcome, reading, answer>>

\* The loose file is gone: remove its lock.
UnlockDeleted(w) ==
    LET rest == todo[w] \ {Least(todo[w])} IN
    /\ pc[w] = "unlock"
    /\ DropLock(Least(todo[w]))
    /\ Visit(w, rest) /\ Goto(w, IF rest = {} THEN "done" ELSE "commit")
    /\ UNCHANGED <<loose, packed, packedOwner, packedStaged, edits, items, prune,
                   clients>>

Return(w) ==
    /\ pc[w] = "done"
    /\ Goto(w, "idle")
    /\ edits' = [edits EXCEPT ![w] = NoEdits]
    /\ outcome' = [outcome EXCEPT ![w] = "ok"]
    /\ UNCHANGED <<files, todo, items, prune, reading, window, answer>>

-------------------------------------------------------------------------------
(* Giving up: a transaction or a packer removes the locks it believes it holds. *)

\* The end of the cleanup is the end of the call.
Abandon(p) ==
    /\ Goto(p, "idle")
    /\ edits' = [w \in Writer |-> IF w = p THEN NoEdits ELSE edits[w]]
    /\ items' = [q \in Packer |-> IF q = p THEN NoEdits ELSE items[q]]
    /\ prune' = [q \in Packer |-> IF q = p THEN FALSE ELSE prune[q]]
    /\ outcome' = [w \in Writer |-> IF w = p THEN "error" ELSE outcome[w]]

ReleaseNext(p) ==
    /\ pc[p] \in {"release", "releaseBoth"} /\ todo[p] # {}
    /\ DropLock(Least(todo[p]))
    /\ Visit(p, todo[p] \ {Least(todo[p])})
    /\ UNCHANGED <<loose, packed, packedOwner, packedStaged, pc, edits, items, prune,
                   clients>>

ReleaseEnd(p) ==
    /\ pc[p] \in {"release", "releaseBoth"} /\ todo[p] = {}
    /\ IF pc[p] = "releaseBoth"
         THEN packedOwner' = None /\ packedStaged' = NoEntries
         ELSE UNCHANGED <<packedOwner, packedStaged>>
    /\ Abandon(p)
    /\ UNCHANGED <<loose, packed, owner, staged, todo, reading, window, answer>>

-------------------------------------------------------------------------------
(* pack_refs *)

\* Collecting the loose references takes no lock.  The selected set stands for
\* the include and exclude patterns, for the objects that can be read, and for
\* what the directories listed when the walk read them.
StartPack(p) ==
    /\ pc[p] = "idle"
    /\ \E selected \in SUBSET {r \in Ref : loose[r] # None} :
          selected # {} /\ Visit(p, selected)
    /\ \E b \in BOOLEAN : prune' = [prune EXCEPT ![p] = b]
    /\ items' = [items EXCEPT ![p] = NoEdits]
    /\ Goto(p, "scan")
    /\ UNCHANGED <<files, edits, clients>>

\* One directory entry, in the order of read_dir: read_reference finds a value,
\* in packed-refs when the file has just disappeared, or the file is not there
\* any more and the call fails.
ScanNext(p) ==
    LET r == Least(todo[p])
        found == [s \in DOMAIN items[p] \cup {r} |->
                     IF s = r THEN Cur(r) ELSE items[p][s]]
    IN
    /\ pc[p] = "scan"
    /\ \/ /\ Cur(r) # None
          /\ items' = [items EXCEPT ![p] = found]
          /\ NextOr(p, DOMAIN found, "packLock")
          /\ UNCHANGED <<edits, prune, outcome>>
       \/ /\ loose[r] = None
          /\ Visit(p, {}) /\ Abandon(p)
    /\ UNCHANGED <<files, reading, window, answer>>

PackLockNext(p) ==
    /\ pc[p] = "packLock"
    /\ \/ AcquireNext(p, DOMAIN items[p], "packLockPacked")
       \/ RefuseNext(p, DOMAIN items[p])
    /\ UNCHANGED <<edits, items, prune, clients>>

PackLockPacked(p) ==
    /\ pc[p] = "packLockPacked"
    /\ AcquirePacked(p, "packMerge") \/ RefusePacked(p)
    /\ UNCHANGED <<edits, items, prune, clients>>

\* Variant for the checks: what was collected is not read again.
PackMergeUnchecked(p) ==
    /\ pc[p] = "packMerge"
    /\ packedStaged' = MergedWith(items[p], packed)
    /\ Goto(p, "packPublish")
    /\ UNCHANGED <<loose, packed, owner, staged, packedOwner, todo, edits, items,
                   prune, clients>>

\* Read packed-refs and every collected reference again, and refuse when one
\* has changed.  Nothing these reads return can change while all these locks
\* are held (LockDiscipline), so they are one step.
PackMerge(p) ==
    /\ pc[p] = "packMerge"
    /\ \/ /\ \A r \in DOMAIN items[p] : Cur(r) = items[p][r]
          /\ packedStaged' = MergedWith(items[p], packed)
          /\ Goto(p, "packPublish")
       \/ /\ \E r \in DOMAIN items[p] : Cur(r) # items[p][r]
          /\ Goto(p, "releaseBoth")
          /\ UNCHANGED packedStaged
    /\ UNCHANGED <<loose, packed, owner, staged, packedOwner, todo, edits, items,
                   prune, clients>>

PackPublish(p) ==
    /\ pc[p] = "packPublish"
    /\ PublishEntries
    /\ Goto(p, IF prune[p] THEN "packPrune" ELSE "packUnlock")
    /\ UNCHANGED <<todo, edits, items, prune, outcome, reading, answer>>

\* Remove the loose file of the next reference.  If it is not there the call
\* fails, and its cleanup removes every lock it once took.
PruneNext(p) ==
    LET r == Least(todo[p]) IN
    /\ pc[p] = "packPrune"
    /\ \/ /\ loose[r] # None
          /\ loose' = [loose EXCEPT ![r] = None]
          /\ Goto(p, "packUnlock")
          /\ UNCHANGED <<todo>>
       \/ /\ loose[r] = None
          /\ Visit(p, DOMAIN items[p]) /\ Goto(p, "releaseBoth")
          /\ UNCHANGED <<loose>>
    /\ UNCHANGED <<packed, owner, staged, packedOwner, packedStaged>>
    /\ Observe
    /\ UNCHANGED <<edits, items, prune, outcome, reading, answer>>

PackUnlockNext(p) ==
    LET rest == todo[p] \ {Least(todo[p])} IN
    /\ pc[p] = "packUnlock"
    /\ DropLock(Least(todo[p]))
    /\ Visit(p, rest)
    /\ Goto(p, IF rest = {} THEN "idle" ELSE IF prune[p] THEN "packPrune" ELSE "packUnlock")
    /\ IF rest = {} THEN /\ items' = [items EXCEPT ![p] = NoEdits]
                         /\ prune' = [prune EXCEPT ![p] = FALSE]
                    ELSE UNCHANGED <<items, prune>>
    /\ UNCHANGED <<loose, packed, packedOwner, packedStaged, edits, clients>>

-------------------------------------------------------------------------------
(* read_reference *)

StartRead(q) ==
    /\ pc[q] = "idle"
    /\ \E r \in Ref : /\ reading' = [reading EXCEPT ![q] = r]
                      /\ window' = [window EXCEPT ![q] = {Cur(r)}]
    /\ Goto(q, "readLoose")
    /\ UNCHANGED <<files, todo, edits, items, prune, outcome, answer>>

Answer(q, v) ==
    /\ answer' = [answer EXCEPT ![q] = v]
    /\ reading' = [reading EXCEPT ![q] = None]
    /\ window' = [window EXCEPT ![q] = {}]
    /\ Goto(q, "idle")

ReadLoose(q) ==
    /\ pc[q] = "readLoose"
    /\ LET l == loose[reading[q]] IN
       \/ l # None /\ Answer(q, l)
       \/ l = None /\ Goto(q, "readPacked") /\ UNCHANGED <<reading, window, answer>>
    /\ UNCHANGED <<files, todo, edits, items, prune, outcome>>

ReadPacked(q) ==
    /\ pc[q] = "readPacked"
    /\ Answer(q, packed[reading[q]])
    /\ UNCHANGED <<files, todo, edits, items, prune, outcome>>

-------------------------------------------------------------------------------
WriterStep(w) ==
    \/ Submit(w) \/ LockNext(w) \/ LockPacked(w) \/ CheckLoose(w) \/ CheckPacked(w)
    \/ FilterPacked(w) \/ PublishPacked(w) \/ CommitNext(w) \/ UnlockDeleted(w)
    \/ Return(w) \/ ReleaseNext(w) \/ ReleaseEnd(w)

PackerStep(p) ==
    \/ StartPack(p) \/ ScanNext(p) \/ PackLockNext(p) \/ PackLockPacked(p)
    \/ PackMerge(p) \/ PackPublish(p) \/ PruneNext(p) \/ PackUnlockNext(p)
    \/ ReleaseNext(p) \/ ReleaseEnd(p)

ReaderStep(q) == StartRead(q) \/ ReadLoose(q) \/ ReadPacked(q)

Next == \/ \E w \in Writer : WriterStep(w)
        \/ \E p \in Packer : PackerStep(p)
        \/ \E q \in Reader : ReaderStep(q)

Spec == Init /\ [][Next]_vars

\* A call that has begun is carried through: the code between two file-system
\* calls always runs to the next one.  New calls are not forced.
Fairness ==
    /\ \A w \in Writer : WF_vars(WriterStep(w) /\ pc[w] # "idle")
    /\ \A p \in Packer : WF_vars(PackerStep(p) /\ pc[p] # "idle")
    /\ \A q \in Reader : WF_vars(ReaderStep(q) /\ pc[q] # "idle")

FairSpec == Spec /\ Fairness
-------------------------------------------------------------------------------
(* Correctness *)

\* The references whose lock file p's own control state accounts for.
Holds(p) ==
    LET all == IF p \in Writer THEN DOMAIN edits[p]
               ELSE IF p \in Packer THEN DOMAIN items[p] ELSE {}
    IN  CASE pc[p] \in {"lock", "packLock"} -> all \ todo[p]
          [] pc[p] \in {"lockPacked", "check", "checkPacked", "filter", "publishPacked",
                        "packLockPacked", "packMerge", "packPublish"} -> all
          [] pc[p] \in {"commit", "unlock", "release", "releaseBoth",
                        "packPrune", "packUnlock"} -> todo[p]
          [] OTHER -> {}

HoldsPacked(p) ==
    \/ pc[p] \in {"filter", "publishPacked", "releaseBoth", "packMerge", "packPublish"}
    \/ p \in Writer /\ pc[p] \in {"check", "checkPacked"} /\ Deletes(edits[p])

Labels == {"idle", "lock", "lockPacked", "check", "checkPacked", "filter",
           "publishPacked", "commit", "unlock", "done", "release", "releaseBoth",
           "scan", "packLock", "packLockPacked", "packMerge", "packPublish",
           "packPrune", "packUnlock", "readLoose", "readPacked"}

TypeOK ==
    /\ loose \in [Ref -> Value] /\ packed \in [Ref -> Value]
    /\ staged \in [Ref -> Value] /\ packedStaged \in [Ref -> Value]
    /\ owner \in [Ref -> Proc \cup {None}] /\ packedOwner \in Proc \cup {None}
    /\ pc \in [Proc -> Labels]
    /\ todo \in [Proc -> SUBSET Ref]
    /\ edits \in [Writer -> Requests \cup {NoEdits}]
    /\ items \in [Packer -> UNION {[S -> Id] : S \in SUBSET Ref}]
    /\ prune \in [Packer -> BOOLEAN]
    /\ outcome \in [Writer -> {"none", "ok", "error"}]
    /\ reading \in [Reader -> Ref \cup {None}]
    /\ window \in [Reader -> SUBSET Value]
    /\ answer \in [Reader -> Value]

\* A lock file exists exactly while one call under way accounts for it: no two
\* calls believe they hold the same lock, no call works under a lock that
\* somebody else has removed or replaced, and no call ends leaving a lock
\* behind.  Every cleanup path of refs.rs and pack_refs.rs removes lock files
\* by name, without asking whose they are, so this rests on their bookkeeping.
LockDiscipline ==
    /\ \A r \in Ref, p \in Proc : owner[r] = p <=> r \in Holds(p)
    /\ \A p \in Proc : packedOwner = p <=> HoldsPacked(p)

\* The edits of w that have taken effect: those whose lock has been released
\* by the commit loop, and the deletions whose reference is already gone.
Applied(w) ==
    IF pc[w] \in {"commit", "unlock", "done"}
      THEN {r \in DOMAIN edits[w] : \/ r \notin todo[w]
                                    \/ edits[w][r].new = None /\ Cur(r) = None}
      ELSE {}

\* The store implements AtomicRefs: a transaction changes nothing or commits
\* under preconditions that still hold when it publishes (no lost update),
\* deletion never uncovers an older packed value, packing and pruning change no
\* value, and a reader gets a value the reference had meanwhile.
Abstract == INSTANCE AtomicRefs WITH
    value <- [r \in Ref |-> Cur(r)],
    request <- edits,
    applied <- [w \in Writer |-> Applied(w)]

ImplementsAtomicRefs == Abstract!ASpec

\* What packing may do to the files: at no step does a packer change what any
\* reference resolves to, and it touches only references whose lock it holds.
PackingIsInvisible ==
    [][\A p \in Packer : PackerStep(p) =>
          \A r \in Ref : /\ Cur(r)' = Cur(r)
                         /\ loose'[r] # loose[r] => owner[r] = p]_vars

\* A call that has begun returns: a lock in the way makes it fail, not wait,
\* and no cleanup loops.
EveryCallReturns == \A p \in Proc : pc[p] # "idle" ~> pc[p] = "idle"

\* delete_reference: "The loose ref and `packed-refs` locks are held while the
\* current value is checked" (refs.rs:564).
DeleteHoldsBothLocks ==
    \A w \in Writer : pc[w] \in {"check", "checkPacked"} /\ Deletes(edits[w]) =>
        /\ packedOwner = w
        /\ \A r \in DOMAIN edits[w] : owner[r] = w
===============================================================================
