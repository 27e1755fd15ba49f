--------------------------- MODULE RefStore_proofs ----------------------------
EXTENDS RefStoreInv, RefEnumeration, FiniteSetTheorems, WellFoundedInduction, TLAPS

USE RefStoreAssumption DEF RefStoreAssumption

\* A loop with something left to visit visits one of them.
LEMMA LeastIn ==
  ASSUME NEW S \in SUBSET Ref, S # {}
  PROVE  Least(S) \in S
<1> DEFINE Below == {0 .. r : r \in S}
<1>1. Below \subseteq FiniteSubsetsOf(Nat)
  <2> SUFFICES ASSUME NEW r \in S PROVE 0 .. r \in FiniteSubsetsOf(Nat)
    OBVIOUS
  <2>1. r \in Int /\ 0 \in Int /\ 0 .. r \in SUBSET Nat
    OBVIOUS
  <2>2. IsFiniteSet(0 .. r)
    BY <2>1, FS_Interval
  <2> QED
    BY <2>1, <2>2 DEF FiniteSubsetsOf
<1>2. \E X \in Below : \A Y \in Below : ~ (<<Y, X>> \in StrictSubsetOrdering(Nat))
  <2>1. Below # {}
    OBVIOUS
  <2> HIDE DEF Below
  <2> QED
    BY <1>1, <2>1, WFMin, FS_StrictSubsetOrderingWellFounded
<1>3. PICK m \in S : \A r \in S : ~ (<<0 .. r, 0 .. m>> \in StrictSubsetOrdering(Nat))
  BY <1>2
<1>4. \A r \in S : m <= r
  <2> SUFFICES ASSUME NEW r \in S, r < m PROVE FALSE
    OBVIOUS
  <2>1. 0 .. r \subseteq 0 .. m /\ 0 .. r # 0 .. m
    OBVIOUS
  <2>2. 0 .. r \in SUBSET Nat /\ 0 .. m \in SUBSET Nat
    OBVIOUS
  <2> QED
    BY <1>3, <2>1, <2>2 DEF StrictSubsetOrdering
<1> QED
  BY <1>4 DEF Least

LEMMA RequestDomain ==
  ASSUME NEW e \in Requests \cup {NoEdits}
  PROVE  /\ DOMAIN e \subseteq Ref
         /\ e = NoEdits <=> DOMAIN e = {}
         /\ \A r \in DOMAIN e : e[r] \in Edit
BY DEF Edits, NoEdits

LEMMA ItemsDomain ==
  ASSUME TypeOK, NEW p \in Packer
  PROVE  DOMAIN items[p] \in SUBSET Ref /\ \A r \in DOMAIN items[p] : items[p][r] \in Id
<1>1. PICK S \in SUBSET Ref : items[p] \in [S -> Id]
  BY DEF TypeOK
<1> QED
  BY <1>1

LEMMA NothingYet ==
  /\ NoEdits \in UNION {[S -> Id] : S \in SUBSET Ref}
  /\ NoEntries \in [Ref -> Value]
<1>1. NoEdits \in [{} -> Id] /\ {} \in SUBSET Ref
  BY DEF NoEdits
<1>2. NoEntries \in [Ref -> Value]
  BY DEF NoEntries, Value
<1> QED
  BY <1>1, <1>2

-------------------------------------------------------------------------------
(* What the helpers of the actions do to the types. *)

LEMMA ObserveType ==
  ASSUME TypeOK, Observe, loose' \in [Ref -> Value], packed' \in [Ref -> Value]
  PROVE  window' \in [Reader -> SUBSET Value]
<1> SUFFICES ASSUME NEW q \in Reader, reading[q] # None
             PROVE  Current(loose', packed', reading[q]) \in Value
  BY DEF Observe, TypeOK
<1>1. reading[q] \in Ref
  BY DEF TypeOK
<1> QED
  BY <1>1 DEF Current, Value

LEMMA NextOrType ==
  ASSUME TypeOK, NEW p \in Proc, NEW S \in SUBSET Ref, NEW label \in Labels,
         NextOr(p, S, label)
  PROVE  todo' \in [Proc -> SUBSET Ref] /\ pc' \in [Proc -> Labels]
<1> DEFINE rest == todo[p] \ {Least(todo[p])}
<1>1. rest \in SUBSET Ref
  BY DEF TypeOK
<1>2. CASE rest = {}
  <2>1. todo' = [todo EXCEPT ![p] = S] /\ pc' = [pc EXCEPT ![p] = label]
    BY <1>2 DEF NextOr, Visit, Goto
  <2> QED
    BY <2>1 DEF TypeOK
<1>3. CASE rest # {}
  <2>1. todo' = [todo EXCEPT ![p] = rest] /\ pc' = pc
    BY <1>3 DEF NextOr, Visit
  <2> QED
    BY <1>1, <2>1 DEF TypeOK
<1> QED
  BY <1>2, <1>3

LEMMA GotoType ==
  ASSUME TypeOK, NEW p \in Proc, NEW label \in Labels, Goto(p, label)
  PROVE  pc' \in [Proc -> Labels]
BY DEF Goto, TypeOK

LEMMA VisitType ==
  ASSUME TypeOK, NEW p \in Proc, NEW S \in SUBSET Ref, Visit(p, S)
  PROVE  todo' \in [Proc -> SUBSET Ref]
BY DEF Visit, TypeOK

LEMMA DropLockType ==
  ASSUME TypeOK, NEW r \in Ref, DropLock(r)
  PROVE  staged' \in [Ref -> Value] /\ owner' \in [Ref -> Proc \cup {None}]
BY DEF DropLock, TypeOK, Value

LEMMA PublishEntriesType ==
  ASSUME TypeOK, PublishEntries
  PROVE  /\ loose' \in [Ref -> Value] /\ packed' \in [Ref -> Value]
         /\ staged' \in [Ref -> Value] /\ packedStaged' \in [Ref -> Value]
         /\ owner' \in [Ref -> Proc \cup {None}] /\ packedOwner' \in Proc \cup {None}
         /\ window' \in [Reader -> SUBSET Value]
BY ObserveType, NothingYet DEF PublishEntries, TypeOK

LEMMA AcquireNextType ==
  ASSUME TypeOK, NEW p \in Proc, NEW S \in SUBSET Ref, NEW label \in Labels,
         AcquireNext(p, S, label)
  PROVE  /\ loose' \in [Ref -> Value] /\ packed' \in [Ref -> Value]
         /\ staged' \in [Ref -> Value] /\ packedStaged' \in [Ref -> Value]
         /\ owner' \in [Ref -> Proc \cup {None}] /\ packedOwner' \in Proc \cup {None}
         /\ todo' \in [Proc -> SUBSET Ref] /\ pc' \in [Proc -> Labels]
BY NextOrType DEF AcquireNext, TypeOK, Value

LEMMA AcquirePackedType ==
  ASSUME TypeOK, NEW p \in Proc, NEW label \in Labels, AcquirePacked(p, label)
  PROVE  /\ loose' \in [Ref -> Value] /\ packed' \in [Ref -> Value]
         /\ staged' \in [Ref -> Value] /\ packedStaged' \in [Ref -> Value]
         /\ owner' \in [Ref -> Proc \cup {None}] /\ packedOwner' \in Proc \cup {None}
         /\ todo' \in [Proc -> SUBSET Ref] /\ pc' \in [Proc -> Labels]
BY GotoType, NothingYet DEF AcquirePacked, TypeOK

LEMMA DecideType ==
  ASSUME TypeOK, NEW w \in Writer, NEW v \in Value, todo[w] # {}, Decide(w, v)
  PROVE  /\ loose' \in [Ref -> Value] /\ packed' \in [Ref -> Value]
         /\ staged' \in [Ref -> Value] /\ packedStaged' \in [Ref -> Value]
         /\ owner' \in [Ref -> Proc \cup {None}] /\ packedOwner' \in Proc \cup {None}
         /\ todo' \in [Proc -> SUBSET Ref] /\ pc' \in [Proc -> Labels]
<1>1. w \in Proc /\ DOMAIN edits[w] \in SUBSET Ref /\ todo[w] \in SUBSET Ref
  BY RequestDomain DEF Proc, TypeOK
<1>2. {"check", "filter", "commit", "release", "releaseBoth"} \subseteq Labels
  BY DEF Labels
<1>3. pc' \in [Proc -> Labels]
  BY <1>1, <1>2 DEF Decide, Goto, TypeOK
<1>4. todo' \in [Proc -> SUBSET Ref]
  BY <1>1 DEF Decide, Visit, TypeOK
<1>5. staged' \in [Ref -> Value]
  BY DEF Decide, TypeOK, Value
<1> QED
  BY <1>3, <1>4, <1>5 DEF Decide, TypeOK

-------------------------------------------------------------------------------
(* Type correctness. *)

LEMMA TypeInit == Init => TypeOK
<1> SUFFICES ASSUME Init PROVE TypeOK
  OBVIOUS
<1> USE NothingYet DEF Init
<1>1. /\ loose \in [Ref -> Value] /\ packed \in [Ref -> Value]
      /\ staged \in [Ref -> Value] /\ packedStaged \in [Ref -> Value]
      /\ owner \in [Ref -> Proc \cup {None}] /\ packedOwner \in Proc \cup {None}
      /\ todo \in [Proc -> SUBSET Ref]
  OBVIOUS
<1>p. pc \in [Proc -> Labels]
  BY DEF Labels
<1>2. /\ edits \in [Writer -> Requests \cup {NoEdits}]
      /\ items \in [Packer -> UNION {[S -> Id] : S \in SUBSET Ref}]
      /\ prune \in [Packer -> BOOLEAN]
      /\ outcome \in [Writer -> {"none", "ok", "error"}]
  OBVIOUS
<1>3. /\ reading \in [Reader -> Ref \cup {None}]
      /\ window \in [Reader -> SUBSET Value]
      /\ answer \in [Reader -> Value]
  BY DEF Value
<1> QED
  BY <1>1, <1>p, <1>2, <1>3 DEF TypeOK

LEMMA TypeWriter ==
  ASSUME TypeOK, NEW w \in Writer, WriterLoop(w), WriterStep(w)
  PROVE  TypeOK'
<1>0. /\ todo[w] # {} => Least(todo[w]) \in todo[w] /\ Least(todo[w]) \in Ref
      /\ DOMAIN edits[w] \in SUBSET Ref
      /\ w \in Proc
  BY LeastIn, RequestDomain DEF TypeOK, Proc
<1>l. WriterLabels \subseteq Labels
  BY DEF WriterLabels, Labels
<1> USE DEF TypeOK
<1>1. CASE Submit(w)
  <2>1. PICK e \in Requests : edits' = [edits EXCEPT ![w] = e] /\ Visit(w, DOMAIN e)
    BY <1>1 DEF Submit
  <2>2. DOMAIN e \in SUBSET Ref
    BY <2>1, RequestDomain
  <2>3. todo' \in [Proc -> SUBSET Ref] /\ edits' \in [Writer -> Requests \cup {NoEdits}]
    BY <1>0, <2>1, <2>2, VisitType
  <2>4. outcome' \in [Writer -> {"none", "ok", "error"}]
    BY <1>1 DEF Submit
  <2>5. pc' \in [Proc -> Labels]
    BY <1>0, <1>1, GotoType DEF Submit, Labels
  <2> QED
    BY <1>1, <2>3, <2>4, <2>5 DEF Submit, files
<1>2. CASE LockNext(w)
  <2>1. CASE RefuseNext(w, DOMAIN edits[w])
    <3>1. pc' \in [Proc -> Labels] /\ todo' \in [Proc -> SUBSET Ref]
      BY <1>0, <2>1, GotoType, VisitType DEF RefuseNext, Labels
    <3> QED
      BY <1>2, <2>1, <3>1 DEF LockNext, RefuseNext, files, clients
  <2>2. CASE AcquireNext(w, DOMAIN edits[w],
                         IF Deletes(edits[w]) THEN "lockPacked" ELSE "check")
    <3>1. (IF Deletes(edits[w]) THEN "lockPacked" ELSE "check") \in Labels
      BY DEF Labels
    <3> HIDE DEF TypeOK
    <3>2. /\ loose' \in [Ref -> Value] /\ packed' \in [Ref -> Value]
          /\ staged' \in [Ref -> Value] /\ packedStaged' \in [Ref -> Value]
          /\ owner' \in [Ref -> Proc \cup {None}] /\ packedOwner' \in Proc \cup {None}
          /\ todo' \in [Proc -> SUBSET Ref] /\ pc' \in [Proc -> Labels]
      BY <1>0, <2>2, <3>1, AcquireNextType
    <3> QED
      BY <1>2, <3>2 DEF LockNext, clients, TypeOK
  <2> QED
    BY <1>2, <2>1, <2>2 DEF LockNext
<1>3. CASE LockPacked(w)
  <2>1. CASE AcquirePacked(w, "check")
    BY <1>0, <1>3, <2>1, AcquirePackedType DEF LockPacked, clients, Labels
  <2>2. CASE RefusePacked(w)
    BY <1>0, <1>3, <2>2, GotoType DEF LockPacked, RefusePacked, files, clients, Labels
  <2> QED
    BY <1>3, <2>1, <2>2 DEF LockPacked
<1>4. CASE CheckLoose(w)
  <2>1. todo[w] # {} /\ loose[Least(todo[w])] \in Value
    BY <1>0, <1>4 DEF CheckLoose, WriterLoop
  <2>2. CASE Decide(w, loose[Least(todo[w])])
    BY <1>4, <2>1, <2>2, DecideType DEF CheckLoose, clients
  <2>3. CASE Goto(w, "checkPacked") /\ UNCHANGED <<files, todo>>
    BY <1>0, <1>4, <2>3, GotoType DEF CheckLoose, files, clients, Labels
  <2> QED
    BY <1>4, <2>2, <2>3 DEF CheckLoose
<1>5. CASE CheckPacked(w)
  <2>1. todo[w] # {} /\ packed[Least(todo[w])] \in Value
    BY <1>0, <1>5 DEF CheckPacked, WriterLoop
  <2> QED
    BY <1>5, <2>1, DecideType DEF CheckPacked, clients
<1>6. CASE FilterPacked(w)
  <2>1. packedStaged' \in [Ref -> Value]
    BY <1>6 DEF FilterPacked, WithoutDeleted, Value
  <2> QED
    BY <1>0, <1>6, <2>1, GotoType DEF FilterPacked, clients, Labels
<1>7. CASE PublishPacked(w)
  BY <1>0, <1>7, GotoType, PublishEntriesType DEF PublishPacked, Labels
<1>8. CASE CommitNext(w)
  <2>1. Least(todo[w]) \in Ref
    BY <1>0, <1>8 DEF CommitNext, WriterLoop
  <2>2. loose' \in [Ref -> Value]
    BY <1>8, <2>1 DEF CommitNext, Value
  <2>3. packed' \in [Ref -> Value] /\ window' \in [Reader -> SUBSET Value]
    BY <1>8, <2>2, ObserveType DEF CommitNext
  <2>4. staged' \in [Ref -> Value] /\ owner' \in [Ref -> Proc \cup {None}]
    BY <1>8, <2>1, DropLockType DEF CommitNext
  <2>5. pc' \in [Proc -> Labels] /\ todo' \in [Proc -> SUBSET Ref]
    BY <1>0, <1>8, NextOrType, GotoType DEF CommitNext, Labels
  <2> QED
    BY <1>8, <2>2, <2>3, <2>4, <2>5 DEF CommitNext
<1>9. CASE UnlockDeleted(w)
  <2>1. Least(todo[w]) \in Ref
    BY <1>0, <1>9 DEF UnlockDeleted, WriterLoop
  <2>2. pc' \in [Proc -> Labels] /\ todo' \in [Proc -> SUBSET Ref]
    BY <1>0, <1>9, GotoType, VisitType DEF UnlockDeleted, Labels
  <2> QED
    BY <1>9, <2>1, <2>2, DropLockType DEF UnlockDeleted, clients
<1>10. CASE Return(w)
  BY <1>0, <1>10, GotoType DEF Return, files, Labels
<1>11. CASE ReleaseNext(w)
  BY <1>0, <1>11, DropLockType, VisitType DEF ReleaseNext, clients
<1>12. CASE ReleaseEnd(w)
  <2>1. pc' \in [Proc -> Labels]
    BY <1>0, <1>12, GotoType DEF ReleaseEnd, Abandon, Labels
  <2> QED
    BY <1>0, <1>12, <2>1, NothingYet DEF ReleaseEnd, Abandon
<1> QED
  BY <1>1, <1>2, <1>3, <1>4, <1>5, <1>6, <1>7, <1>8, <1>9, <1>10, <1>11, <1>12
     DEF WriterStep

LEMMA TypePacker ==
  ASSUME TypeOK, NEW p \in Packer, PackerLoop(p), PackerStep(p)
  PROVE  TypeOK'
<1>0. /\ todo[p] # {} => Least(todo[p]) \in todo[p] /\ Least(todo[p]) \in Ref
      /\ DOMAIN items[p] \in SUBSET Ref
      /\ todo[p] \in SUBSET Ref
      /\ p \in Proc
  <2>1. p \in Proc /\ todo[p] \in SUBSET Ref
    BY DEF TypeOK, Proc
  <2> QED
    BY <2>1, LeastIn, ItemsDomain
<1> USE DEF TypeOK
<1>1. CASE StartPack(p)
  <2>1. prune' \in [Packer -> BOOLEAN]
    BY <1>1 DEF StartPack
  <2>2. items' \in [Packer -> UNION {[S -> Id] : S \in SUBSET Ref}]
    BY <1>1, NothingYet DEF StartPack
  <2>3. todo' \in [Proc -> SUBSET Ref]
    BY <1>0, <1>1, VisitType DEF StartPack
  <2> QED
    BY <1>0, <1>1, <2>1, <2>2, <2>3, GotoType DEF StartPack, files, clients, Labels
<1>2. CASE ScanNext(p)
  <2> DEFINE r == Least(todo[p])
             found == [s \in DOMAIN items[p] \cup {r} |->
                          IF s = r THEN Cur(r) ELSE items[p][s]]
  <2>1. r \in Ref
    BY <1>0, <1>2 DEF ScanNext, PackerLoop
  <2>2. CASE Cur(r) # None /\ items' = [items EXCEPT ![p] = found]
             /\ NextOr(p, DOMAIN found, "packLock") /\ UNCHANGED <<edits, prune, outcome>>
    <3>1. Cur(r) \in Id
      BY <2>1, <2>2 DEF Cur, Current, Value
    <3>2. PICK S \in SUBSET Ref : items[p] \in [S -> Id]
      OBVIOUS
    <3>3. found \in [S \cup {r} -> Id] /\ S \cup {r} \in SUBSET Ref /\ DOMAIN found \in SUBSET Ref
      BY <2>1, <3>1, <3>2
    <3>4. found \in UNION {[T -> Id] : T \in SUBSET Ref}
      <4>1. [S \cup {r} -> Id] \in {[T -> Id] : T \in SUBSET Ref}
        BY <3>3
      <4> HIDE DEF found
      <4> QED
        BY <3>3, <4>1
    <3>5. items' \in [Packer -> UNION {[T -> Id] : T \in SUBSET Ref}]
      BY <2>2, <3>4
    <3>6. pc' \in [Proc -> Labels] /\ todo' \in [Proc -> SUBSET Ref]
      BY <1>0, <2>2, <3>3, NextOrType DEF Labels
    <3> QED
      BY <1>2, <2>2, <3>5, <3>6 DEF ScanNext, files
  <2>3. CASE Visit(p, {}) /\ Abandon(p)
    <3>1. pc' \in [Proc -> Labels] /\ todo' \in [Proc -> SUBSET Ref]
      BY <1>0, <2>3, GotoType, VisitType DEF Abandon, Labels
    <3> QED
      BY <1>2, <2>3, <3>1, NothingYet DEF ScanNext, Abandon, files
  <2> QED
    BY <1>2, <2>2, <2>3 DEF ScanNext
<1>3. CASE PackLockNext(p)
  <2>1. CASE AcquireNext(p, DOMAIN items[p], "packLockPacked")
    <3>1. "packLockPacked" \in Labels
      BY DEF Labels
    <3> HIDE DEF TypeOK
    <3>2. /\ loose' \in [Ref -> Value] /\ packed' \in [Ref -> Value]
          /\ staged' \in [Ref -> Value] /\ packedStaged' \in [Ref -> Value]
          /\ owner' \in [Ref -> Proc \cup {None}] /\ packedOwner' \in Proc \cup {None}
          /\ todo' \in [Proc -> SUBSET Ref] /\ pc' \in [Proc -> Labels]
      BY <1>0, <2>1, <3>1, AcquireNextType
    <3> QED
      BY <1>3, <3>2 DEF PackLockNext, clients, TypeOK
  <2>2. CASE RefuseNext(p, DOMAIN items[p])
    <3>1. pc' \in [Proc -> Labels] /\ todo' \in [Proc -> SUBSET Ref]
      BY <1>0, <2>2, GotoType, VisitType DEF RefuseNext, Labels
    <3> QED
      BY <1>3, <2>2, <3>1 DEF PackLockNext, RefuseNext, files, clients
  <2> QED
    BY <1>3, <2>1, <2>2 DEF PackLockNext
<1>4. CASE PackLockPacked(p)
  <2>1. CASE AcquirePacked(p, "packMerge")
    BY <1>0, <1>4, <2>1, AcquirePackedType DEF PackLockPacked, clients, Labels
  <2>2. CASE RefusePacked(p)
    BY <1>0, <1>4, <2>2, GotoType DEF PackLockPacked, RefusePacked, files, clients, Labels
  <2> QED
    BY <1>4, <2>1, <2>2 DEF PackLockPacked
<1>5. CASE PackMerge(p)
  <2>1. PICK S \in SUBSET Ref : items[p] \in [S -> Id]
    OBVIOUS
  <2>2. MergedWith(items[p], packed) \in [Ref -> Value]
    BY <2>1 DEF MergedWith, Value
  <2>3. packedStaged' \in [Ref -> Value]
    BY <1>5, <2>2 DEF PackMerge
  <2>4. pc' \in [Proc -> Labels]
    BY <1>0, <1>5, GotoType DEF PackMerge, Labels
  <2> QED
    BY <1>5, <2>3, <2>4 DEF PackMerge, clients
<1>6. CASE PackPublish(p)
  <2>1. pc' \in [Proc -> Labels]
    BY <1>0, <1>6, GotoType DEF PackPublish, Labels
  <2> QED
    BY <1>6, <2>1, PublishEntriesType DEF PackPublish
<1>7. CASE PruneNext(p)
  <2>1. loose' \in [Ref -> Value]
    BY <1>7 DEF PruneNext, Value
  <2>2. packed' \in [Ref -> Value] /\ window' \in [Reader -> SUBSET Value]
    BY <1>7, <2>1, ObserveType DEF PruneNext
  <2>3. pc' \in [Proc -> Labels] /\ todo' \in [Proc -> SUBSET Ref]
    BY <1>0, <1>7, GotoType, VisitType DEF PruneNext, Labels
  <2> QED
    BY <1>7, <2>1, <2>2, <2>3 DEF PruneNext
<1>8. CASE PackUnlockNext(p)
  <2>1. Least(todo[p]) \in Ref
    BY <1>0, <1>8 DEF PackUnlockNext, PackerLoop
  <2>2. pc' \in [Proc -> Labels] /\ todo' \in [Proc -> SUBSET Ref]
    BY <1>0, <1>8, GotoType, VisitType DEF PackUnlockNext, Labels
  <2>3. items' \in [Packer -> UNION {[S -> Id] : S \in SUBSET Ref}]
    BY <1>8, NothingYet DEF PackUnlockNext
  <2>4. prune' \in [Packer -> BOOLEAN]
    BY <1>8 DEF PackUnlockNext
  <2> QED
    BY <1>8, <2>1, <2>2, <2>3, <2>4, DropLockType DEF PackUnlockNext, clients
<1>9. CASE ReleaseNext(p)
  BY <1>0, <1>9, DropLockType, VisitType DEF ReleaseNext, clients
<1>10. CASE ReleaseEnd(p)
  <2>1. pc' \in [Proc -> Labels]
    BY <1>0, <1>10, GotoType DEF ReleaseEnd, Abandon, Labels
  <2> QED
    BY <1>0, <1>10, <2>1, NothingYet DEF ReleaseEnd, Abandon
<1> QED
  BY <1>1, <1>2, <1>3, <1>4, <1>5, <1>6, <1>7, <1>8, <1>9, <1>10 DEF PackerStep

LEMMA TypeReader ==
  ASSUME TypeOK, NEW q \in Reader, ReaderView(q), ReaderStep(q)
  PROVE  TypeOK'
<1>0. q \in Proc
  BY DEF Proc
<1> USE DEF TypeOK
<1>1. CASE StartRead(q)
  <2>1. PICK r \in Ref : /\ reading' = [reading EXCEPT ![q] = r]
                         /\ window' = [window EXCEPT ![q] = {Cur(r)}]
    BY <1>1 DEF StartRead
  <2>2. Cur(r) \in Value
    BY <2>1 DEF Cur, Current
  <2> QED
    BY <1>0, <1>1, <2>1, <2>2, GotoType DEF StartRead, files, Labels
<1>2. CASE ReadLoose(q)
  <2>1. reading[q] \in Ref
    BY <1>2 DEF ReadLoose, ReaderView
  <2>2. CASE Answer(q, loose[reading[q]])
    BY <1>0, <1>2, <2>1, <2>2, GotoType DEF ReadLoose, Answer, files, Labels
  <2>3. CASE Goto(q, "readPacked") /\ UNCHANGED <<reading, window, answer>>
    BY <1>0, <1>2, <2>3, GotoType DEF ReadLoose, files, Labels
  <2> QED
    BY <1>2, <2>2, <2>3 DEF ReadLoose
<1>3. CASE ReadPacked(q)
  <2>1. reading[q] \in Ref
    BY <1>3 DEF ReadPacked, ReaderView
  <2> QED
    BY <1>0, <1>3, <2>1, GotoType DEF ReadPacked, Answer, files, Labels
<1> QED
  BY <1>1, <1>2, <1>3 DEF ReaderStep

-------------------------------------------------------------------------------
(* Lock discipline.  A step of p leaves every other process's locks alone, and *)
(* takes, gives back or keeps one lock of p's. *)

Others(p) == \A q \in Proc \ {p} : /\ Holds(q)' = Holds(q)
                                   /\ HoldsPacked(q)' <=> HoldsPacked(q)

OwnersAgree == \A r \in Ref, q \in Proc : owner[r] = q <=> r \in Holds(q)
PackedAgrees == \A q \in Proc : packedOwner = q <=> HoldsPacked(q)

LEMMA OwnersKept ==
  ASSUME OwnersAgree, NEW p \in Proc, Others(p), owner' = owner, Holds(p)' = Holds(p)
  PROVE  OwnersAgree'
BY DEF OwnersAgree, Others

LEMMA OwnersTaken ==
  ASSUME TypeOK, OwnersAgree, NEW p \in Proc, Others(p), NEW r \in Ref,
         owner[r] = None, owner' = [owner EXCEPT ![r] = p], Holds(p)' = Holds(p) \cup {r}
  PROVE  OwnersAgree'
BY DEF OwnersAgree, Others, TypeOK

LEMMA OwnersDropped ==
  ASSUME TypeOK, OwnersAgree, NEW p \in Proc, Others(p), NEW r \in Ref,
         r \in Holds(p), owner' = [owner EXCEPT ![r] = None], Holds(p)' = Holds(p) \ {r}
  PROVE  OwnersAgree'
BY DEF OwnersAgree, Others, TypeOK

LEMMA PackedKept ==
  ASSUME PackedAgrees, NEW p \in Proc, Others(p), packedOwner' = packedOwner,
         HoldsPacked(p)' <=> HoldsPacked(p)
  PROVE  PackedAgrees'
BY DEF PackedAgrees, Others

LEMMA PackedTaken ==
  ASSUME PackedAgrees, NEW p \in Proc, Others(p), packedOwner = None,
         packedOwner' = p, HoldsPacked(p)'
  PROVE  PackedAgrees'
BY DEF PackedAgrees, Others

LEMMA PackedDropped ==
  ASSUME PackedAgrees, NEW p \in Proc, Others(p), HoldsPacked(p),
         packedOwner' = None, ~HoldsPacked(p)'
  PROVE  PackedAgrees'
BY DEF PackedAgrees, Others

LEMMA HoldsFrame ==
  ASSUME NEW q \in Proc, pc'[q] = pc[q], todo'[q] = todo[q],
         q \in Writer => edits'[q] = edits[q], q \in Packer => items'[q] = items[q]
  PROVE  /\ Holds(q)' = Holds(q)
         /\ HoldsPacked(q)' <=> HoldsPacked(q)
BY DEF Holds, HoldsPacked, Deletes

\* A step of p changes the control state of no other process.
Untouched(q) == /\ pc'[q] = pc[q] /\ todo'[q] = todo[q]
                /\ q \in Writer => edits'[q] = edits[q]
                /\ q \in Packer => items'[q] = items[q] /\ prune'[q] = prune[q]

LEMMA ControlFrame ==
  ASSUME TypeOK, NEW p \in Proc, NEW q \in Proc \ {p}
  PROVE  \A label, S : /\ Goto(p, label) => pc'[q] = pc[q]
                       /\ Visit(p, S) => todo'[q] = todo[q]
                       /\ NextOr(p, S, label) => pc'[q] = pc[q] /\ todo'[q] = todo[q]
BY DEF TypeOK, Goto, Visit, NextOr

LEMMA WriterFrame ==
  ASSUME TypeOK, NEW w \in Writer, WriterStep(w), NEW q \in Proc \ {w}
  PROVE  Untouched(q)
<1>1. \A label, S : /\ Goto(w, label) => pc'[q] = pc[q]
                    /\ Visit(w, S) => todo'[q] = todo[q]
                    /\ NextOr(w, S, label) => pc'[q] = pc[q] /\ todo'[q] = todo[q]
  BY ControlFrame DEF Proc
<1> USE DEF Untouched, TypeOK
<1>2. CASE Submit(w)
  BY <1>1, <1>2 DEF Submit
<1>3. CASE LockNext(w) \/ LockPacked(w)
  BY <1>1, <1>3 DEF LockNext, LockPacked, AcquireNext, RefuseNext, AcquirePacked, RefusePacked
<1>4. CASE CheckLoose(w) \/ CheckPacked(w)
  BY <1>1, <1>4 DEF CheckLoose, CheckPacked, Decide
<1>5. CASE FilterPacked(w) \/ PublishPacked(w) \/ CommitNext(w) \/ UnlockDeleted(w)
  BY <1>1, <1>5 DEF FilterPacked, PublishPacked, CommitNext, UnlockDeleted
<1>6. CASE Return(w) \/ ReleaseNext(w)
  BY <1>1, <1>6 DEF Return, ReleaseNext
<1>7. CASE ReleaseEnd(w)
  BY <1>1, <1>7 DEF ReleaseEnd, Abandon
<1> QED
  BY <1>2, <1>3, <1>4, <1>5, <1>6, <1>7 DEF WriterStep

LEMMA PackerFrame ==
  ASSUME TypeOK, NEW p \in Packer, PackerStep(p), NEW q \in Proc \ {p}
  PROVE  Untouched(q)
<1>1. \A label, S : /\ Goto(p, label) => pc'[q] = pc[q]
                    /\ Visit(p, S) => todo'[q] = todo[q]
                    /\ NextOr(p, S, label) => pc'[q] = pc[q] /\ todo'[q] = todo[q]
  BY ControlFrame DEF Proc
<1> USE DEF Untouched, TypeOK
<1>2. CASE StartPack(p)
  BY <1>1, <1>2 DEF StartPack
<1>3. CASE ScanNext(p)
  BY <1>1, <1>3, ZenonT(60) DEF ScanNext, Abandon
<1>4. CASE PackLockNext(p) \/ PackLockPacked(p)
  BY <1>1, <1>4 DEF PackLockNext, PackLockPacked, AcquireNext, RefuseNext, AcquirePacked, RefusePacked
<1>5. CASE PackMerge(p) \/ PackPublish(p) \/ PruneNext(p) \/ PackUnlockNext(p)
  BY <1>1, <1>5, ZenonT(60) DEF PackMerge, PackPublish, PruneNext, PackUnlockNext
<1>6. CASE ReleaseNext(p)
  BY <1>1, <1>6 DEF ReleaseNext
<1>7. CASE ReleaseEnd(p)
  BY <1>1, <1>7 DEF ReleaseEnd, Abandon
<1> QED
  BY <1>2, <1>3, <1>4, <1>5, <1>6, <1>7 DEF PackerStep

LEMMA ReaderFrame ==
  ASSUME TypeOK, NEW q \in Reader, ReaderStep(q), NEW p \in Proc \ {q}
  PROVE  Untouched(p)
<1>1. \A label : Goto(q, label) => pc'[p] = pc[p]
  BY ControlFrame DEF Proc
<1> QED
  BY <1>1 DEF Untouched, ReaderStep, StartRead, ReadLoose, ReadPacked, Answer

LEMMA ReleaseNextLocks ==
  ASSUME TypeOK, LockDiscipline, NEW p \in Writer \cup Packer, ReleaseNext(p), Others(p)
  PROVE  LockDiscipline'
<1> DEFINE r == Least(todo[p])
<1>0. p \in Proc /\ r \in todo[p] /\ r \in Ref
  BY LeastIn DEF ReleaseNext, TypeOK, Proc
<1>1. /\ pc' = pc /\ todo'[p] = todo[p] \ {r} /\ DropLock(r)
      /\ packedOwner' = packedOwner /\ edits' = edits
      /\ pc[p] \in {"release", "releaseBoth"}
  BY <1>0 DEF ReleaseNext, Visit, TypeOK
<1>2. Holds(p) = todo[p] /\ Holds(p)' = todo[p] \ {r}
  BY <1>0, <1>1 DEF Holds
<1>3. HoldsPacked(p)' <=> HoldsPacked(p)
  BY <1>1 DEF HoldsPacked
<1>4. OwnersAgree /\ PackedAgrees
  BY DEF LockDiscipline, OwnersAgree, PackedAgrees
<1>5. OwnersAgree'
  BY <1>0, <1>1, <1>2, <1>4, OwnersDropped DEF DropLock
<1>6. PackedAgrees'
  BY <1>0, <1>1, <1>3, <1>4, PackedKept
<1> QED
  BY <1>5, <1>6 DEF LockDiscipline, OwnersAgree, PackedAgrees

LEMMA ReleaseEndLocks ==
  ASSUME TypeOK, LockDiscipline, NEW p \in Writer \cup Packer, ReleaseEnd(p), Others(p)
  PROVE  LockDiscipline'
<1>0. p \in Proc
  BY DEF Proc
<1>1. /\ pc'[p] = "idle" /\ todo[p] = {} /\ owner' = owner
      /\ pc[p] \in {"release", "releaseBoth"}
      /\ packedOwner' = IF pc[p] = "releaseBoth" THEN None ELSE packedOwner
  BY <1>0 DEF ReleaseEnd, Abandon, Goto, TypeOK
<1>2. Holds(p) = {} /\ Holds(p)' = {}
  BY <1>0, <1>1 DEF Holds
<1>3. (HoldsPacked(p) <=> pc[p] = "releaseBoth") /\ ~HoldsPacked(p)'
  BY <1>1 DEF HoldsPacked
<1>4. OwnersAgree /\ PackedAgrees
  BY DEF LockDiscipline, OwnersAgree, PackedAgrees
<1>5. OwnersAgree'
  BY <1>0, <1>1, <1>2, <1>4, OwnersKept
<1>6. PackedAgrees'
  BY <1>0, <1>1, <1>3, <1>4, PackedKept, PackedDropped
<1> QED
  BY <1>5, <1>6 DEF LockDiscipline, OwnersAgree, PackedAgrees

\* A writer's step.
LEMMA WriterLocks ==
  ASSUME TypeOK, LockDiscipline, NEW w \in Writer, WriterLoop(w), WriterStep(w)
  PROVE  LockDiscipline'
<1>0. /\ todo[w] # {} => Least(todo[w]) \in todo[w] /\ Least(todo[w]) \in Ref
      /\ DOMAIN edits[w] \in SUBSET Ref
      /\ w \in Proc /\ w \notin Packer
  BY LeastIn, RequestDomain DEF TypeOK, Proc
<1>o. Others(w)
  BY <1>0, WriterFrame, HoldsFrame DEF Others, Untouched
<1> DEFINE r == Least(todo[w])
<1>h. /\ OwnersAgree /\ PackedAgrees
      /\ OwnersAgree' /\ PackedAgrees' => LockDiscipline'
  BY DEF LockDiscipline, OwnersAgree, PackedAgrees
<1>1. CASE Submit(w)
  <2>1. Holds(w) = {} /\ Holds(w)' = {} /\ ~HoldsPacked(w) /\ ~HoldsPacked(w)'
    BY <1>0, <1>1 DEF Submit, Goto, Visit, Holds, HoldsPacked, TypeOK
  <2>2. owner' = owner /\ packedOwner' = packedOwner
    BY <1>1 DEF Submit, files
  <2> QED
    BY <1>0, <1>o, <1>h, <2>1, <2>2, OwnersKept, PackedKept
<1>2. CASE LockNext(w)
  <2>0. pc[w] = "lock" /\ r \in todo[w] /\ r \in Ref /\ edits' = edits
        /\ todo[w] \subseteq DOMAIN edits[w]
    BY <1>0, <1>2 DEF LockNext, WriterLoop
  <2>1. Holds(w) = DOMAIN edits[w] \ todo[w] /\ ~HoldsPacked(w)
    BY <1>0, <2>0 DEF Holds, HoldsPacked
  <2>2. CASE RefuseNext(w, DOMAIN edits[w])
    <3>1. pc'[w] = "release" /\ todo'[w] = DOMAIN edits[w] \ todo[w]
      BY <1>0, <2>2 DEF RefuseNext, Goto, Visit, TypeOK
    <3>2. Holds(w)' = Holds(w) /\ ~HoldsPacked(w)'
      BY <1>0, <2>1, <3>1 DEF Holds, HoldsPacked
    <3>3. owner' = owner /\ packedOwner' = packedOwner
      BY <2>2 DEF RefuseNext, files
    <3> QED
      BY <1>0, <1>o, <1>h, <2>1, <3>2, <3>3, OwnersKept, PackedKept
  <2>3. CASE AcquireNext(w, DOMAIN edits[w],
                         IF Deletes(edits[w]) THEN "lockPacked" ELSE "check")
    <3>1. owner[r] = None /\ owner' = [owner EXCEPT ![r] = w] /\ packedOwner' = packedOwner
      BY <2>3 DEF AcquireNext
    <3>2. CASE todo[w] \ {r} = {}
      <4>1. /\ pc'[w] = IF Deletes(edits[w]) THEN "lockPacked" ELSE "check"
            /\ todo'[w] = DOMAIN edits[w]
        BY <1>0, <2>3, <3>2 DEF AcquireNext, NextOr, Goto, Visit, TypeOK
      <4>2. Holds(w)' = DOMAIN edits[w]
        BY <1>0, <2>0, <4>1 DEF Holds
      <4>3. ~HoldsPacked(w)'
        BY <1>0, <2>0, <4>1 DEF HoldsPacked
      <4>4. Holds(w)' = Holds(w) \cup {r}
        BY <2>0, <2>1, <3>2, <4>2
      <4> QED
        BY <1>0, <1>o, <1>h, <2>0, <2>1, <3>1, <4>3, <4>4, OwnersTaken, PackedKept
    <3>3. CASE todo[w] \ {r} # {}
      <4>1. pc' = pc /\ todo'[w] = todo[w] \ {r}
        BY <1>0, <2>3, <3>3 DEF AcquireNext, NextOr, Visit, TypeOK
      <4>2. Holds(w)' = DOMAIN edits[w] \ (todo[w] \ {r}) /\ ~HoldsPacked(w)'
        BY <1>0, <2>0, <4>1 DEF Holds, HoldsPacked
      <4>3. Holds(w)' = Holds(w) \cup {r}
        BY <2>0, <2>1, <4>2
      <4> QED
        BY <1>0, <1>o, <1>h, <2>0, <2>1, <3>1, <4>2, <4>3, OwnersTaken, PackedKept
    <3> QED
      BY <3>2, <3>3
  <2> QED
    BY <1>2, <2>2, <2>3 DEF LockNext
<1>3. CASE LockPacked(w)
  <2>0. pc[w] = "lockPacked" /\ todo[w] = DOMAIN edits[w] /\ edits' = edits
    BY <1>3 DEF LockPacked, WriterLoop
  <2>1. Holds(w) = DOMAIN edits[w] /\ ~HoldsPacked(w)
    BY <1>0, <2>0 DEF Holds, HoldsPacked
  <2>d. Deletes(edits[w])
    BY <1>3 DEF LockPacked, WriterLoop
  <2>2. CASE AcquirePacked(w, "check")
    <3>1. pc'[w] = "check" /\ packedOwner = None /\ packedOwner' = w /\ owner' = owner
      BY <1>0, <2>2 DEF AcquirePacked, Goto, TypeOK
    <3>2. Holds(w)' = Holds(w) /\ HoldsPacked(w)'
      BY <1>0, <2>0, <2>1, <2>d, <3>1 DEF Holds, HoldsPacked, Deletes
    <3> QED
      BY <1>0, <1>o, <1>h, <3>1, <3>2, OwnersKept, PackedTaken
  <2>3. CASE RefusePacked(w)
    <3>1. pc'[w] = "release" /\ todo' = todo /\ packedOwner' = packedOwner /\ owner' = owner
      BY <1>0, <2>3 DEF RefusePacked, Goto, TypeOK, files
    <3>2. Holds(w)' = Holds(w) /\ ~HoldsPacked(w)'
      BY <1>0, <2>0, <2>1, <3>1 DEF Holds, HoldsPacked
    <3> QED
      BY <1>0, <1>o, <1>h, <2>1, <3>1, <3>2, OwnersKept, PackedKept
  <2> QED
    BY <1>3, <2>2, <2>3 DEF LockPacked
<1>4. ASSUME NEW v, Decide(w, v), pc[w] \in {"check", "checkPacked"}, edits' = edits
      PROVE  LockDiscipline'
  <2>1. Holds(w) = DOMAIN edits[w] /\ (HoldsPacked(w) <=> Deletes(edits[w]))
    BY <1>0, <1>4 DEF Holds, HoldsPacked
  <2>2. owner' = owner /\ packedOwner' = packedOwner
    BY <1>4 DEF Decide
  <2>3. \/ pc'[w] = "check"
        \/ /\ pc'[w] = IF Deletes(edits[w]) THEN "filter" ELSE "commit"
           /\ todo'[w] = DOMAIN edits[w]
        \/ /\ pc'[w] = IF Deletes(edits[w]) THEN "releaseBoth" ELSE "release"
           /\ todo'[w] = DOMAIN edits[w]
    BY <1>0, <1>4 DEF Decide, Goto, Visit, TypeOK
  <2>4. Holds(w)' = DOMAIN edits[w]
    BY <1>0, <1>4, <2>3 DEF Holds
  <2>5. HoldsPacked(w)' <=> Deletes(edits[w])
    BY <1>0, <1>4, <2>3 DEF HoldsPacked, Deletes
  <2> QED
    BY <1>0, <1>o, <1>h, <2>1, <2>2, <2>4, <2>5, OwnersKept, PackedKept
<1>5. CASE CheckLoose(w)
  <2>1. CASE Decide(w, loose[r])
    BY <1>4, <1>5, <2>1 DEF CheckLoose
  <2>2. CASE Goto(w, "checkPacked") /\ UNCHANGED <<files, todo>>
    <3>1. pc[w] = "check" /\ pc'[w] = "checkPacked" /\ edits' = edits
          /\ owner' = owner /\ packedOwner' = packedOwner
      BY <1>0, <1>5, <2>2 DEF CheckLoose, Goto, TypeOK, files
    <3>2. Holds(w)' = Holds(w) /\ (HoldsPacked(w)' <=> HoldsPacked(w))
      BY <1>0, <3>1 DEF Holds, HoldsPacked, Deletes
    <3> QED
      BY <1>0, <1>o, <1>h, <3>1, <3>2, OwnersKept, PackedKept
  <2> QED
    BY <1>5, <2>1, <2>2 DEF CheckLoose
<1>6. CASE CheckPacked(w)
  BY <1>4, <1>6 DEF CheckPacked
<1>7. CASE FilterPacked(w)
  <2>1. pc[w] = "filter" /\ pc'[w] = "publishPacked" /\ edits' = edits /\ owner' = owner
        /\ packedOwner' = packedOwner
    BY <1>0, <1>7 DEF FilterPacked, Goto, TypeOK
  <2>2. Holds(w)' = Holds(w) /\ HoldsPacked(w) /\ HoldsPacked(w)'
    BY <1>0, <2>1 DEF Holds, HoldsPacked
  <2> QED
    BY <1>0, <1>o, <1>h, <2>1, <2>2, OwnersKept, PackedKept
<1>8. CASE PublishPacked(w)
  <2>1. pc[w] = "publishPacked" /\ pc'[w] = "commit" /\ edits' = edits /\ owner' = owner
        /\ packedOwner' = None /\ todo' = todo /\ todo[w] = DOMAIN edits[w]
    BY <1>0, <1>8 DEF PublishPacked, PublishEntries, Goto, TypeOK, WriterLoop
  <2>2. Holds(w)' = Holds(w) /\ HoldsPacked(w) /\ ~HoldsPacked(w)'
    BY <1>0, <2>1 DEF Holds, HoldsPacked
  <2> QED
    BY <1>0, <1>o, <1>h, <2>1, <2>2, OwnersKept, PackedDropped
<1>9. CASE CommitNext(w)
  <2>0. pc[w] = "commit" /\ r \in todo[w] /\ r \in Ref /\ edits' = edits
        /\ packedOwner' = packedOwner
    BY <1>0, <1>9 DEF CommitNext, WriterLoop
  <2>1. Holds(w) = todo[w] /\ ~HoldsPacked(w)
    BY <1>0, <2>0 DEF Holds, HoldsPacked
  <2>2. CASE DropLock(r) /\ NextOr(w, {}, "done")
    <3>1. todo'[w] = todo[w] \ {r} /\ (pc'[w] = IF todo[w] \ {r} = {} THEN "done" ELSE "commit")
      BY <1>0, <2>0, <2>2 DEF NextOr, Goto, Visit, TypeOK
    <3>2. Holds(w)' = Holds(w) \ {r} /\ ~HoldsPacked(w)'
      BY <1>0, <2>1, <3>1 DEF Holds, HoldsPacked
    <3> QED
      BY <1>0, <1>o, <1>h, <2>0, <2>1, <2>2, <3>2, OwnersDropped, PackedKept DEF DropLock
  <2>3. CASE Goto(w, "unlock") /\ UNCHANGED <<owner, staged, todo>>
    <3>1. pc'[w] = "unlock" /\ todo' = todo /\ owner' = owner
      BY <1>0, <2>3 DEF Goto, TypeOK
    <3>2. Holds(w)' = Holds(w) /\ ~HoldsPacked(w)'
      BY <1>0, <2>1, <3>1 DEF Holds, HoldsPacked
    <3> QED
      BY <1>0, <1>o, <1>h, <2>0, <2>1, <3>1, <3>2, OwnersKept, PackedKept
  <2> QED
    BY <1>9, <2>2, <2>3 DEF CommitNext
<1>10. CASE UnlockDeleted(w)
  <2>0. pc[w] = "unlock" /\ r \in todo[w] /\ r \in Ref /\ edits' = edits
        /\ packedOwner' = packedOwner /\ DropLock(r)
    BY <1>0, <1>10 DEF UnlockDeleted, WriterLoop
  <2>1. Holds(w) = todo[w] /\ ~HoldsPacked(w)
    BY <1>0, <2>0 DEF Holds, HoldsPacked
  <2>2. todo'[w] = todo[w] \ {r} /\ (pc'[w] = IF todo[w] \ {r} = {} THEN "done" ELSE "commit")
    BY <1>0, <1>10 DEF UnlockDeleted, Goto, Visit, TypeOK
  <2>3. Holds(w)' = Holds(w) \ {r} /\ ~HoldsPacked(w)'
    BY <1>0, <2>1, <2>2 DEF Holds, HoldsPacked
  <2> QED
    BY <1>0, <1>o, <1>h, <2>0, <2>1, <2>3, OwnersDropped, PackedKept DEF DropLock
<1>11. CASE Return(w)
  <2>1. pc[w] = "done" /\ pc'[w] = "idle" /\ owner' = owner /\ packedOwner' = packedOwner
    BY <1>0, <1>11 DEF Return, Goto, TypeOK, files
  <2>2. Holds(w) = {} /\ Holds(w)' = {} /\ ~HoldsPacked(w) /\ ~HoldsPacked(w)'
    BY <1>0, <2>1 DEF Holds, HoldsPacked
  <2> QED
    BY <1>0, <1>o, <1>h, <2>1, <2>2, OwnersKept, PackedKept
<1>12. CASE ReleaseNext(w)
  BY <1>0, <1>12, <1>o, ReleaseNextLocks
<1>13. CASE ReleaseEnd(w)
  BY <1>0, <1>13, <1>o, ReleaseEndLocks
<1> QED
  BY <1>1, <1>2, <1>3, <1>5, <1>6, <1>7, <1>8, <1>9, <1>10, <1>11, <1>12, <1>13
     DEF WriterStep

\* A packer's step.  Its cleanup after publication, which would remove locks it
\* has given back, is never reached: the file it prunes is there (PackerView).
LEMMA PackerLocks ==
  ASSUME TypeOK, LockDiscipline, NEW p \in Packer, PackerLoop(p), PackerView(p),
         PackerStep(p)
  PROVE  LockDiscipline'
<1>0. /\ todo[p] # {} => Least(todo[p]) \in todo[p] /\ Least(todo[p]) \in Ref
      /\ p \in Proc /\ p \notin Writer
  BY LeastIn DEF TypeOK, Proc
<1>i. DOMAIN items[p] \in SUBSET Ref /\ \A r \in DOMAIN items[p] : items[p][r] \in Id
  BY ItemsDomain
<1>o. Others(p)
  BY <1>0, PackerFrame, HoldsFrame DEF Others, Untouched
<1> DEFINE r == Least(todo[p])
<1>h. /\ OwnersAgree /\ PackedAgrees
      /\ OwnersAgree' /\ PackedAgrees' => LockDiscipline'
  BY DEF LockDiscipline, OwnersAgree, PackedAgrees
<1>n. ASSUME pc[p] \in {"idle", "scan"}, owner' = owner, packedOwner' = packedOwner,
             \/ pc'[p] \in {"idle", "scan"}
             \/ pc'[p] = "packLock" /\ todo'[p] = DOMAIN items'[p]
      PROVE  LockDiscipline'
  <2>1. Holds(p) = {} /\ Holds(p)' = {} /\ ~HoldsPacked(p) /\ ~HoldsPacked(p)'
    BY <1>0, <1>n DEF Holds, HoldsPacked
  <2> QED
    BY <1>0, <1>n, <1>o, <1>h, <2>1, OwnersKept, PackedKept
<1>1. CASE StartPack(p)
  <2>1. pc[p] = "idle" /\ pc'[p] = "scan"
    BY <1>0, <1>1 DEF StartPack, Goto, TypeOK
  <2> QED
    BY <1>n, <1>1, <2>1 DEF StartPack, files
<1>2. CASE ScanNext(p)
  <2> DEFINE found == [s \in DOMAIN items[p] \cup {r} |->
                          IF s = r THEN Cur(r) ELSE items[p][s]]
  <2>1. CASE items' = [items EXCEPT ![p] = found] /\ NextOr(p, DOMAIN found, "packLock")
    <3>1. items'[p] = found
      BY <2>1 DEF TypeOK
    <3>2. \/ pc'[p] = "packLock" /\ todo'[p] = DOMAIN found
          \/ pc' = pc
      BY <1>0, <2>1 DEF NextOr, Goto, Visit, TypeOK
    <3>3. pc[p] = "scan"
      BY <1>2 DEF ScanNext
    <3> QED
      BY <1>n, <1>2, <3>1, <3>2, <3>3 DEF ScanNext, files
  <2>2. CASE Visit(p, {}) /\ Abandon(p)
    <3>1. pc[p] = "scan" /\ pc'[p] = "idle"
      BY <1>0, <1>2, <2>2 DEF ScanNext, Abandon, Goto, TypeOK
    <3> QED
      BY <1>n, <1>2, <3>1 DEF ScanNext, files
  <2> QED
    BY <1>2, <2>1, <2>2 DEF ScanNext
<1>3. CASE PackLockNext(p)
  <2>0. pc[p] = "packLock" /\ r \in todo[p] /\ r \in Ref /\ items' = items
        /\ todo[p] \subseteq DOMAIN items[p]
    BY <1>0, <1>3 DEF PackLockNext, PackerLoop
  <2>1. Holds(p) = DOMAIN items[p] \ todo[p] /\ ~HoldsPacked(p)
    BY <1>0, <2>0 DEF Holds, HoldsPacked
  <2>2. CASE RefuseNext(p, DOMAIN items[p])
    <3>1. pc'[p] = "release" /\ todo'[p] = DOMAIN items[p] \ todo[p]
      BY <1>0, <2>2 DEF RefuseNext, Goto, Visit, TypeOK
    <3>2. Holds(p)' = Holds(p) /\ ~HoldsPacked(p)'
      BY <1>0, <2>1, <3>1 DEF Holds, HoldsPacked
    <3>3. owner' = owner /\ packedOwner' = packedOwner
      BY <2>2 DEF RefuseNext, files
    <3> QED
      BY <1>0, <1>o, <1>h, <2>1, <3>2, <3>3, OwnersKept, PackedKept
  <2>3. CASE AcquireNext(p, DOMAIN items[p], "packLockPacked")
    <3>1. owner[r] = None /\ owner' = [owner EXCEPT ![r] = p] /\ packedOwner' = packedOwner
      BY <2>3 DEF AcquireNext
    <3>2. CASE todo[p] \ {r} = {}
      <4>1. pc'[p] = "packLockPacked" /\ todo'[p] = DOMAIN items[p]
        BY <1>0, <2>3, <3>2 DEF AcquireNext, NextOr, Goto, Visit, TypeOK
      <4>2. Holds(p)' = DOMAIN items[p] /\ ~HoldsPacked(p)'
        BY <1>0, <2>0, <4>1 DEF Holds, HoldsPacked
      <4>3. Holds(p)' = Holds(p) \cup {r}
        BY <2>0, <2>1, <3>2, <4>2
      <4> QED
        BY <1>0, <1>o, <1>h, <2>0, <2>1, <3>1, <4>2, <4>3, OwnersTaken, PackedKept
    <3>3. CASE todo[p] \ {r} # {}
      <4>1. pc' = pc /\ todo'[p] = todo[p] \ {r}
        BY <1>0, <2>3, <3>3 DEF AcquireNext, NextOr, Visit, TypeOK
      <4>2. Holds(p)' = DOMAIN items[p] \ (todo[p] \ {r}) /\ ~HoldsPacked(p)'
        BY <1>0, <2>0, <4>1 DEF Holds, HoldsPacked
      <4>3. Holds(p)' = Holds(p) \cup {r}
        BY <2>0, <2>1, <4>2
      <4> QED
        BY <1>0, <1>o, <1>h, <2>0, <2>1, <3>1, <4>2, <4>3, OwnersTaken, PackedKept
    <3> QED
      BY <3>2, <3>3
  <2> QED
    BY <1>3, <2>2, <2>3 DEF PackLockNext
<1>4. CASE PackLockPacked(p)
  <2>0. pc[p] = "packLockPacked" /\ todo[p] = DOMAIN items[p] /\ items' = items
    BY <1>4 DEF PackLockPacked, PackerLoop
  <2>1. Holds(p) = DOMAIN items[p] /\ ~HoldsPacked(p)
    BY <1>0, <2>0 DEF Holds, HoldsPacked
  <2>2. CASE AcquirePacked(p, "packMerge")
    <3>1. pc'[p] = "packMerge" /\ packedOwner = None /\ packedOwner' = p /\ owner' = owner
      BY <1>0, <2>2 DEF AcquirePacked, Goto, TypeOK
    <3>2. Holds(p)' = Holds(p) /\ HoldsPacked(p)'
      BY <1>0, <2>0, <2>1, <3>1 DEF Holds, HoldsPacked
    <3> QED
      BY <1>0, <1>o, <1>h, <3>1, <3>2, OwnersKept, PackedTaken
  <2>3. CASE RefusePacked(p)
    <3>1. pc'[p] = "release" /\ todo' = todo /\ packedOwner' = packedOwner /\ owner' = owner
      BY <1>0, <2>3 DEF RefusePacked, Goto, TypeOK, files
    <3>2. Holds(p)' = Holds(p) /\ ~HoldsPacked(p)'
      BY <1>0, <2>0, <2>1, <3>1 DEF Holds, HoldsPacked
    <3> QED
      BY <1>0, <1>o, <1>h, <2>1, <3>1, <3>2, OwnersKept, PackedKept
  <2> QED
    BY <1>4, <2>2, <2>3 DEF PackLockPacked
<1>5. CASE PackMerge(p)
  <2>1. /\ pc[p] = "packMerge" /\ pc'[p] \in {"packPublish", "releaseBoth"}
        /\ todo[p] = DOMAIN items[p] /\ todo' = todo /\ items' = items
        /\ owner' = owner /\ packedOwner' = packedOwner
    BY <1>0, <1>5 DEF PackMerge, Goto, TypeOK, PackerLoop
  <2>2. Holds(p)' = Holds(p) /\ HoldsPacked(p) /\ HoldsPacked(p)'
    BY <1>0, <2>1 DEF Holds, HoldsPacked
  <2> QED
    BY <1>0, <1>o, <1>h, <2>1, <2>2, OwnersKept, PackedKept
<1>6. CASE PackPublish(p)
  <2>1. /\ pc[p] = "packPublish" /\ pc'[p] \in {"packPrune", "packUnlock"}
        /\ todo[p] = DOMAIN items[p] /\ todo' = todo /\ items' = items
        /\ owner' = owner /\ packedOwner' = None
    BY <1>0, <1>6 DEF PackPublish, PublishEntries, Goto, TypeOK, PackerLoop
  <2>2. Holds(p)' = Holds(p) /\ HoldsPacked(p) /\ ~HoldsPacked(p)'
    BY <1>0, <2>1 DEF Holds, HoldsPacked
  <2> QED
    BY <1>0, <1>o, <1>h, <2>1, <2>2, OwnersKept, PackedDropped
<1>7. CASE PruneNext(p)
  <2>1. pc[p] = "packPrune" /\ r \in todo[p] /\ r \in DOMAIN items[p]
    BY <1>0, <1>7 DEF PruneNext, PackerLoop
  <2>2. loose[r] # None
    BY <1>i, <2>1 DEF PackerView
  <2>3. pc'[p] = "packUnlock" /\ todo' = todo /\ owner' = owner /\ packedOwner' = packedOwner
    BY <1>0, <1>7, <2>2 DEF PruneNext, Goto, TypeOK
  <2>4. Holds(p)' = Holds(p) /\ ~HoldsPacked(p) /\ ~HoldsPacked(p)'
    BY <1>0, <2>1, <2>3 DEF Holds, HoldsPacked
  <2> QED
    BY <1>0, <1>o, <1>h, <2>3, <2>4, OwnersKept, PackedKept
<1>8. CASE PackUnlockNext(p)
  <2>0. pc[p] = "packUnlock" /\ r \in todo[p] /\ r \in Ref
        /\ packedOwner' = packedOwner /\ DropLock(r)
    BY <1>0, <1>8 DEF PackUnlockNext, PackerLoop
  <2>1. Holds(p) = todo[p] /\ ~HoldsPacked(p)
    BY <1>0, <2>0 DEF Holds, HoldsPacked
  <2>2. /\ todo'[p] = todo[p] \ {r}
        /\ pc'[p] \in {"packPrune", "packUnlock"} \/ (pc'[p] = "idle" /\ todo[p] \ {r} = {})
    BY <1>0, <1>8 DEF PackUnlockNext, Goto, Visit, TypeOK
  <2>3. Holds(p)' = Holds(p) \ {r} /\ ~HoldsPacked(p)'
    BY <1>0, <2>1, <2>2 DEF Holds, HoldsPacked
  <2> QED
    BY <1>0, <1>o, <1>h, <2>0, <2>1, <2>3, OwnersDropped, PackedKept DEF DropLock
<1>9. CASE ReleaseNext(p)
  BY <1>0, <1>9, <1>o, ReleaseNextLocks
<1>10. CASE ReleaseEnd(p)
  BY <1>0, <1>10, <1>o, ReleaseEndLocks
<1> QED
  BY <1>1, <1>2, <1>3, <1>4, <1>5, <1>6, <1>7, <1>8, <1>9, <1>10 DEF PackerStep

LEMMA ReaderLocks ==
  ASSUME TypeOK, LockDiscipline, NEW q \in Reader, ReaderView(q), ReaderStep(q)
  PROVE  LockDiscipline'
<1>0. q \in Proc /\ q \notin Writer /\ q \notin Packer
  BY DEF Proc
<1>1. Others(q)
  BY <1>0, ReaderFrame, HoldsFrame DEF Others, Untouched
<1>2. owner' = owner /\ packedOwner' = packedOwner
  BY DEF ReaderStep, StartRead, ReadLoose, ReadPacked, files
<1>3. pc[q] \in ReaderLabels /\ pc'[q] \in ReaderLabels
  BY <1>0 DEF ReaderView, ReaderStep, StartRead, ReadLoose, ReadPacked, Answer, Goto, TypeOK,
              ReaderLabels
<1>4. Holds(q) = {} /\ Holds(q)' = {} /\ ~HoldsPacked(q) /\ ~HoldsPacked(q)'
  BY <1>0, <1>3 DEF Holds, HoldsPacked, ReaderLabels
<1>5. OwnersAgree /\ PackedAgrees
  BY DEF LockDiscipline, OwnersAgree, PackedAgrees
<1>6. OwnersAgree' /\ PackedAgrees'
  BY <1>0, <1>1, <1>2, <1>4, <1>5, OwnersKept, PackedKept
<1> QED
  BY <1>6 DEF LockDiscipline, OwnersAgree, PackedAgrees

-------------------------------------------------------------------------------
(* Control: loops stop when they have nothing to visit. *)

LEMMA WriterLoopFrame ==
  ASSUME NEW w \in Writer, Untouched(w), WriterLoop(w)
  PROVE  WriterLoop(w)'
BY DEF Untouched, WriterLoop, Deletes

LEMMA PackerLoopFrame ==
  ASSUME NEW p \in Packer, Untouched(p), PackerLoop(p)
  PROVE  PackerLoop(p)'
BY DEF Untouched, PackerLoop

LEMMA WriterLoopStep ==
  ASSUME TypeOK, NEW w \in Writer, WriterLoop(w), WriterStep(w)
  PROVE  WriterLoop(w)'
<1>0. /\ todo[w] # {} => Least(todo[w]) \in todo[w]
      /\ w \in Proc /\ w \notin Packer
  BY LeastIn DEF TypeOK, Proc
<1>e. DOMAIN edits[w] = {} <=> edits[w] = NoEdits
  BY RequestDomain DEF TypeOK
<1> DEFINE D == DOMAIN edits[w]
<1>1. CASE Submit(w)
  <2>1. PICK e \in Requests : edits'[w] = e /\ todo'[w] = DOMAIN e
    BY <1>0, <1>1 DEF Submit, Visit, TypeOK
  <2>2. DOMAIN e # {} /\ e # NoEdits
    BY <2>1, RequestDomain
  <2>3. pc'[w] = "lock"
    BY <1>0, <1>1 DEF Submit, Goto, TypeOK
  <2> QED
    BY <2>1, <2>2, <2>3 DEF WriterLoop, WriterLabels
\* A step that goes on with the same transaction.
<1>k. ASSUME edits' = edits, pc[w] # "idle", todo'[w] \subseteq D, pc'[w] \in WriterLabels \ {"idle"},
             pc'[w] \in {"lock", "check", "checkPacked", "commit", "unlock"} => todo'[w] # {},
             pc'[w] \in {"lockPacked", "filter", "publishPacked"} => todo'[w] = D,
             pc'[w] = "done" => todo'[w] = {},
             pc'[w] = "lockPacked" => Deletes(edits[w])
      PROVE  WriterLoop(w)'
  BY <1>k DEF WriterLoop, Deletes
\* NextOr leaves for label, or stays.
<1>x. ASSUME NEW S, NEW label, NextOr(w, S, label)
      PROVE  \/ todo'[w] = S /\ pc'[w] = label
             \/ /\ todo'[w] # {} /\ todo'[w] \subseteq todo[w]
                /\ pc'[w] = pc[w]
  BY <1>0, <1>x DEF NextOr, Goto, Visit, TypeOK
<1>d. edits[w] # NoEdits => D # {}
  BY <1>e
<1> USE DEF WriterLabels
<1>2. CASE LockNext(w)
  <2>0. pc[w] = "lock" /\ edits' = edits /\ todo[w] \subseteq D /\ D # {}
    BY <1>2, <1>d DEF LockNext, WriterLoop
  <2>1. CASE RefuseNext(w, DOMAIN edits[w])
    <3>1. pc'[w] = "release" /\ todo'[w] \subseteq D
      BY <1>0, <2>1 DEF RefuseNext, Goto, Visit, TypeOK
    <3> QED
      BY <1>k, <2>0, <3>1
  <2>2. CASE NextOr(w, D, IF Deletes(edits[w]) THEN "lockPacked" ELSE "check")
    BY <1>k, <1>x, <2>0, <2>2
  <2> QED
    BY <1>2, <2>1, <2>2 DEF LockNext, AcquireNext
<1>3. CASE LockPacked(w)
  <2>1. /\ pc[w] = "lockPacked" /\ edits' = edits /\ todo[w] = D /\ D # {} /\ todo' = todo
        /\ pc'[w] \in {"check", "release"}
    BY <1>0, <1>3, <1>d DEF LockPacked, AcquirePacked, RefusePacked, Goto, WriterLoop, TypeOK
  <2> QED
    BY <1>k, <2>1
<1>4. ASSUME NEW v, Decide(w, v), pc[w] \in {"check", "checkPacked"}, edits' = edits
      PROVE  WriterLoop(w)'
  <2>0. todo[w] \subseteq D /\ D # {} /\ todo[w] # {}
    BY <1>4, <1>d DEF WriterLoop
  <2>1. \/ /\ pc'[w] = "check" /\ todo'[w] = todo[w] \ {Least(todo[w])}
           /\ todo[w] # {Least(todo[w])}
        \/ pc'[w] \in {"filter", "commit", "releaseBoth", "release"} /\ todo'[w] = D
    BY <1>0, <1>4 DEF Decide, Goto, Visit, TypeOK
  <2> QED
    BY <1>0, <1>k, <1>4, <2>0, <2>1
<1>5. CASE CheckLoose(w)
  <2>1. CASE Decide(w, loose[Least(todo[w])])
    BY <1>4, <1>5, <2>1 DEF CheckLoose
  <2>2. CASE Goto(w, "checkPacked") /\ UNCHANGED <<files, todo>>
    <3>1. pc[w] = "check" /\ pc'[w] = "checkPacked" /\ edits' = edits /\ todo' = todo
          /\ todo[w] # {} /\ todo[w] \subseteq D
      BY <1>0, <1>5, <2>2 DEF CheckLoose, Goto, TypeOK, WriterLoop
    <3> QED
      BY <1>k, <3>1
  <2> QED
    BY <1>5, <2>1, <2>2 DEF CheckLoose
<1>6. CASE CheckPacked(w)
  BY <1>4, <1>6 DEF CheckPacked
<1>7. CASE FilterPacked(w) \/ PublishPacked(w)
  <2>1. /\ pc[w] \in {"filter", "publishPacked"} /\ edits' = edits /\ todo' = todo
        /\ todo[w] = D /\ D # {} /\ pc'[w] \in {"publishPacked", "commit"}
    BY <1>0, <1>7, <1>d DEF FilterPacked, PublishPacked, Goto, TypeOK, WriterLoop
  <2> QED
    BY <1>k, <2>1
<1>8. CASE CommitNext(w)
  <2>0. pc[w] = "commit" /\ edits' = edits /\ todo[w] \subseteq D /\ todo[w] # {}
    BY <1>8 DEF CommitNext, WriterLoop
  <2>1. CASE NextOr(w, {}, "done")
    BY <1>k, <1>x, <2>0, <2>1
  <2>2. CASE Goto(w, "unlock") /\ UNCHANGED <<owner, staged, todo>>
    <3>1. pc'[w] = "unlock" /\ todo' = todo
      BY <1>0, <2>2 DEF Goto, TypeOK
    <3> QED
      BY <1>k, <2>0, <3>1
  <2> QED
    BY <1>8, <2>1, <2>2 DEF CommitNext
<1>9. CASE UnlockDeleted(w)
  <2>1. /\ pc[w] = "unlock" /\ edits' = edits /\ todo[w] \subseteq D
        /\ todo'[w] = todo[w] \ {Least(todo[w])}
        /\ pc'[w] = IF todo'[w] = {} THEN "done" ELSE "commit"
    BY <1>0, <1>9 DEF UnlockDeleted, Goto, Visit, TypeOK, WriterLoop
  <2> QED
    BY <1>k, <2>1
<1>10. CASE Return(w)
  <2>1. pc'[w] = "idle" /\ edits'[w] = NoEdits /\ todo'[w] = {}
    BY <1>0, <1>10 DEF Return, Goto, TypeOK, WriterLoop
  <2> QED
    BY <2>1 DEF WriterLoop
<1>11. CASE ReleaseNext(w)
  <2>1. /\ pc[w] \in {"release", "releaseBoth"} /\ edits' = edits /\ pc' = pc
        /\ todo'[w] \subseteq D
    BY <1>0, <1>11 DEF ReleaseNext, Visit, TypeOK, WriterLoop
  <2> QED
    BY <1>k, <2>1
<1>12. CASE ReleaseEnd(w)
  <2>1. pc'[w] = "idle" /\ edits'[w] = NoEdits /\ todo'[w] = {}
    BY <1>0, <1>12 DEF ReleaseEnd, Abandon, Goto, TypeOK
  <2> QED
    BY <2>1 DEF WriterLoop
<1> QED
  BY <1>1, <1>2, <1>3, <1>5, <1>6, <1>7, <1>8, <1>9, <1>10, <1>11, <1>12 DEF WriterStep

LEMMA PackerLoopStep ==
  ASSUME TypeOK, NEW p \in Packer, PackerLoop(p), PackerView(p), PackerStep(p)
  PROVE  PackerLoop(p)'
<1>0. /\ todo[p] # {} => Least(todo[p]) \in todo[p]
      /\ p \in Proc /\ p \notin Writer
  BY LeastIn DEF TypeOK, Proc
<1> DEFINE r == Least(todo[p])
           D == DOMAIN items[p]
\* A step that goes on with the collected references.
<1>k. ASSUME items'[p] = items[p], pc'[p] \in PackerLabels \ {"idle", "scan"}, todo'[p] \subseteq D,
             pc'[p] \in {"packLock", "packPrune", "packUnlock"} => todo'[p] # {},
             pc'[p] \in {"packLockPacked", "packMerge", "packPublish"} => todo'[p] = D,
             pc'[p] = "packPrune" => prune'[p],
             pc'[p] \in {"packLockPacked", "packMerge", "packPublish"} => D # {}
      PROVE  PackerLoop(p)'
  BY <1>k DEF PackerLoop
<1>x. ASSUME NEW S, NEW label, NextOr(p, S, label)
      PROVE  \/ todo'[p] = S /\ pc'[p] = label
             \/ /\ todo'[p] # {} /\ todo'[p] \subseteq todo[p]
                /\ pc'[p] = pc[p]
  BY <1>0, <1>x DEF NextOr, Goto, Visit, TypeOK
<1> USE DEF PackerLabels
<1>1. CASE StartPack(p)
  <2>1. pc'[p] = "scan" /\ todo'[p] # {}
    BY <1>0, <1>1 DEF StartPack, Goto, Visit, TypeOK
  <2> QED
    BY <2>1 DEF PackerLoop
<1>2. CASE ScanNext(p)
  <2> DEFINE found == [s \in DOMAIN items[p] \cup {r} |->
                          IF s = r THEN Cur(r) ELSE items[p][s]]
  <2>0. pc[p] = "scan" /\ todo[p] # {}
    BY <1>2 DEF ScanNext, PackerLoop
  <2>1. CASE items' = [items EXCEPT ![p] = found] /\ NextOr(p, DOMAIN found, "packLock")
    <3>1. items'[p] = found /\ DOMAIN found # {}
      BY <2>1 DEF TypeOK
    <3>2. \/ todo'[p] = DOMAIN found /\ pc'[p] = "packLock"
          \/ todo'[p] # {} /\ pc'[p] = "scan"
      BY <1>x, <2>0, <2>1
    <3> HIDE DEF found
    <3> QED
      BY <3>1, <3>2 DEF PackerLoop
  <2>2. CASE Visit(p, {}) /\ Abandon(p)
    <3>1. pc'[p] = "idle"
      BY <1>0, <2>2 DEF Abandon, Goto, TypeOK
    <3> QED
      BY <3>1 DEF PackerLoop
  <2> QED
    BY <1>2, <2>1, <2>2 DEF ScanNext
<1>3. CASE PackLockNext(p)
  <2>0. pc[p] = "packLock" /\ items' = items /\ todo[p] \subseteq D /\ todo[p] # {}
    BY <1>3 DEF PackLockNext, PackerLoop
  <2>1. CASE RefuseNext(p, D)
    <3>1. pc'[p] = "release" /\ todo'[p] \subseteq D
      BY <1>0, <2>1 DEF RefuseNext, Goto, Visit, TypeOK
    <3> QED
      BY <1>k, <2>0, <3>1
  <2>2. CASE NextOr(p, D, "packLockPacked")
    BY <1>k, <1>x, <2>0, <2>2
  <2> QED
    BY <1>3, <2>1, <2>2 DEF PackLockNext, AcquireNext
<1>4. CASE PackLockPacked(p)
  <2>1. /\ pc[p] = "packLockPacked" /\ items' = items /\ todo[p] = D /\ todo' = todo
        /\ pc'[p] \in {"packMerge", "release"} /\ D # {}
    BY <1>0, <1>4 DEF PackLockPacked, AcquirePacked, RefusePacked, Goto, PackerLoop, TypeOK, files
  <2> QED
    BY <1>k, <2>1
<1>5. CASE PackMerge(p)
  <2>1. /\ pc[p] = "packMerge" /\ items' = items /\ todo[p] = D /\ todo' = todo
        /\ pc'[p] \in {"packPublish", "releaseBoth"} /\ D # {}
    BY <1>0, <1>5 DEF PackMerge, Goto, PackerLoop, TypeOK
  <2> QED
    BY <1>k, <2>1
<1>6. CASE PackPublish(p)
  <2>1. /\ pc[p] = "packPublish" /\ items' = items /\ todo[p] = D /\ todo' = todo /\ D # {}
        /\ prune' = prune /\ pc'[p] = IF prune[p] THEN "packPrune" ELSE "packUnlock"
    BY <1>0, <1>6 DEF PackPublish, Goto, PackerLoop, TypeOK
  <2> QED
    BY <1>k, <2>1
<1>7. CASE PruneNext(p)
  <2>1. /\ pc[p] = "packPrune" /\ items' = items /\ todo[p] \subseteq D /\ todo[p] # {}
        /\ (todo' = todo /\ pc'[p] = "packUnlock") \/ (todo'[p] = D /\ pc'[p] = "releaseBoth")
    BY <1>0, <1>7 DEF PruneNext, Goto, Visit, PackerLoop, TypeOK
  <2> QED
    BY <1>k, <2>1
<1>8. CASE PackUnlockNext(p)
  <2>1. /\ pc[p] = "packUnlock" /\ todo[p] \subseteq D /\ todo'[p] = todo[p] \ {r}
        /\ pc'[p] = IF todo'[p] = {} THEN "idle"
                    ELSE IF prune[p] THEN "packPrune" ELSE "packUnlock"
        /\ todo'[p] # {} => items' = items /\ prune' = prune
    BY <1>0, <1>8 DEF PackUnlockNext, Goto, Visit, PackerLoop, TypeOK
  <2>2. CASE todo'[p] = {}
    BY <2>1, <2>2 DEF PackerLoop
  <2>3. CASE todo'[p] # {}
    BY <1>k, <2>1, <2>3
  <2> QED
    BY <2>2, <2>3
<1>9. CASE ReleaseNext(p)
  <2>1. /\ pc[p] \in {"release", "releaseBoth"} /\ items' = items /\ pc' = pc
        /\ todo'[p] \subseteq D
    BY <1>0, <1>9 DEF ReleaseNext, Visit, TypeOK, PackerLoop
  <2> QED
    BY <1>k, <2>1
<1>10. CASE ReleaseEnd(p)
  <2>1. pc'[p] = "idle"
    BY <1>0, <1>10 DEF ReleaseEnd, Abandon, Goto, TypeOK
  <2> QED
    BY <2>1 DEF PackerLoop
<1> QED
  BY <1>1, <1>2, <1>3, <1>4, <1>5, <1>6, <1>7, <1>8, <1>9, <1>10 DEF PackerStep

-------------------------------------------------------------------------------
(* What a step may do to the files: nothing to a reference whose lock the      *)
(* process does not hold, and nothing to packed-refs without its lock.         *)

FilesFrame(p) ==
    /\ \A r \in Ref : r \notin Holds(p) =>
          /\ loose'[r] = loose[r] /\ packed'[r] = packed[r]
          /\ owner[r] # None => staged'[r] = staged[r]
    /\ ~HoldsPacked(p) =>
          /\ packed' = packed
          /\ packedOwner # None => packedStaged' = packedStaged

LEMMA ReleaseFilesFrame ==
  ASSUME TypeOK, NEW p \in Writer \cup Packer, ReleaseNext(p) \/ ReleaseEnd(p)
  PROVE  FilesFrame(p)
<1> DEFINE r == Least(todo[p])
<1>1. CASE ReleaseNext(p)
  <2>1. r \in Holds(p)
    BY <1>1, LeastIn DEF ReleaseNext, Holds, TypeOK, Proc
  <2>2. \A x \in Ref : x # r => staged'[x] = staged[x]
    BY <1>1 DEF ReleaseNext, DropLock, TypeOK
  <2> QED
    BY <1>1, <2>1, <2>2 DEF ReleaseNext, FilesFrame
<1>2. CASE ReleaseEnd(p)
  BY <1>2 DEF ReleaseEnd, FilesFrame, HoldsPacked
<1> QED
  BY <1>1, <1>2

LEMMA WriterFilesFrame ==
  ASSUME TypeOK, NEW w \in Writer, WriterLoop(w), WriterView(w), WriterStep(w)
  PROVE  FilesFrame(w)
<1>0. /\ todo[w] # {} => Least(todo[w]) \in todo[w] /\ Least(todo[w]) \in Ref
      /\ w \in Proc /\ w \notin Packer
  BY LeastIn DEF TypeOK, Proc
<1> DEFINE r == Least(todo[w])
<1>1. CASE Submit(w) \/ Return(w)
  BY <1>1 DEF Submit, Return, files, FilesFrame
<1>2. CASE LockNext(w)
  <2>1. loose' = loose /\ packed' = packed /\ packedStaged' = packedStaged
    BY <1>2 DEF LockNext, AcquireNext, RefuseNext, files
  <2>2. staged' = staged \/ (owner[r] = None /\ staged' = [staged EXCEPT ![r] = None])
    BY <1>2 DEF LockNext, AcquireNext, RefuseNext, files
  <2> QED
    BY <2>1, <2>2 DEF FilesFrame, TypeOK
<1>3. CASE LockPacked(w)
  BY <1>3 DEF LockPacked, AcquirePacked, RefusePacked, files, FilesFrame
<1>4. ASSUME NEW v, Decide(w, v), pc[w] \in {"check", "checkPacked"}
      PROVE  FilesFrame(w)
  <2>1. loose' = loose /\ packed' = packed /\ packedStaged' = packedStaged
    BY <1>4 DEF Decide
  <2>2. staged' = staged \/ \E x : staged' = [staged EXCEPT ![r] = x]
    BY <1>4 DEF Decide
  <2>3. r \in Holds(w)
    BY <1>0, <1>4 DEF Holds, WriterLoop
  <2> QED
    BY <2>1, <2>2, <2>3 DEF FilesFrame, TypeOK
<1>5. CASE CheckLoose(w)
  <2>1. CASE Decide(w, loose[r])
    BY <1>4, <1>5, <2>1 DEF CheckLoose
  <2>2. CASE UNCHANGED <<files, todo>>
    BY <2>2 DEF files, FilesFrame
  <2> QED
    BY <1>5, <2>1, <2>2 DEF CheckLoose
<1>6. CASE CheckPacked(w)
  BY <1>4, <1>6 DEF CheckPacked
<1>7. CASE FilterPacked(w)
  <2>1. HoldsPacked(w)
    BY <1>7 DEF FilterPacked, HoldsPacked
  <2> QED
    BY <1>7, <2>1 DEF FilterPacked, FilesFrame
<1>8. CASE PublishPacked(w)
  <2>1. /\ pc[w] = "publishPacked" /\ HoldsPacked(w) /\ Holds(w) = DOMAIN edits[w]
    BY <1>0, <1>8 DEF PublishPacked, HoldsPacked, Holds
  <2>2. packed' = WithoutDeleted(edits[w], packed)
    BY <1>8, <2>1 DEF PublishPacked, PublishEntries, WriterView
  <2>3. \A x \in Ref : x \notin Holds(w) => packed'[x] = packed[x]
    BY <2>1, <2>2 DEF WithoutDeleted
  <2> QED
    BY <1>8, <2>1, <2>3 DEF PublishPacked, PublishEntries, FilesFrame
<1>9. CASE CommitNext(w)
  <2>1. pc[w] = "commit" /\ r \in todo[w]
    BY <1>0, <1>9 DEF CommitNext, WriterLoop
  <2>2. r \in Holds(w)
    BY <1>0, <2>1 DEF Holds
  <2>3. \A x \in Ref : x # r => loose'[x] = loose[x] /\ staged'[x] = staged[x]
    BY <1>9 DEF CommitNext, DropLock, TypeOK
  <2> QED
    BY <1>9, <2>2, <2>3 DEF CommitNext, FilesFrame
<1>10. CASE UnlockDeleted(w)
  <2>1. pc[w] = "unlock" /\ r \in todo[w]
    BY <1>0, <1>10 DEF UnlockDeleted, WriterLoop
  <2>2. r \in Holds(w)
    BY <1>0, <2>1 DEF Holds
  <2>3. \A x \in Ref : x # r => staged'[x] = staged[x]
    BY <1>10 DEF UnlockDeleted, DropLock, TypeOK
  <2> QED
    BY <1>10, <2>2, <2>3 DEF UnlockDeleted, FilesFrame
<1>11. CASE ReleaseNext(w)
  BY <1>0, <1>11, ReleaseFilesFrame
<1>12. CASE ReleaseEnd(w)
  BY <1>0, <1>12, ReleaseFilesFrame
<1> QED
  BY <1>1, <1>2, <1>3, <1>5, <1>6, <1>7, <1>8, <1>9, <1>10, <1>11, <1>12 DEF WriterStep

LEMMA PackerFilesFrame ==
  ASSUME TypeOK, NEW p \in Packer, PackerLoop(p), PackerView(p), PackerStep(p)
  PROVE  FilesFrame(p)
<1>0. /\ todo[p] # {} => Least(todo[p]) \in todo[p] /\ Least(todo[p]) \in Ref
      /\ p \in Proc /\ p \notin Writer
  BY LeastIn DEF TypeOK, Proc
<1> DEFINE r == Least(todo[p])
<1>1. CASE StartPack(p) \/ ScanNext(p)
  BY <1>1 DEF StartPack, ScanNext, files, FilesFrame
<1>2. CASE PackLockNext(p)
  <2>1. loose' = loose /\ packed' = packed /\ packedStaged' = packedStaged
    BY <1>2 DEF PackLockNext, AcquireNext, RefuseNext, files
  <2>2. staged' = staged \/ (owner[r] = None /\ staged' = [staged EXCEPT ![r] = None])
    BY <1>2 DEF PackLockNext, AcquireNext, RefuseNext, files
  <2> QED
    BY <2>1, <2>2 DEF FilesFrame, TypeOK
<1>3. CASE PackLockPacked(p)
  BY <1>3 DEF PackLockPacked, AcquirePacked, RefusePacked, files, FilesFrame
<1>4. CASE PackMerge(p)
  BY <1>4 DEF PackMerge, FilesFrame, HoldsPacked
<1>5. CASE PackPublish(p)
  <2>1. pc[p] = "packPublish" /\ HoldsPacked(p) /\ Holds(p) = DOMAIN items[p]
    BY <1>0, <1>5 DEF PackPublish, HoldsPacked, Holds
  <2>2. packed' = MergedWith(items[p], packed)
    BY <1>5, <2>1 DEF PackPublish, PublishEntries, PackerView
  <2>3. \A x \in Ref : x \notin Holds(p) => packed'[x] = packed[x]
    BY <2>1, <2>2 DEF MergedWith
  <2> QED
    BY <1>5, <2>1, <2>3 DEF PackPublish, PublishEntries, FilesFrame
<1>6. CASE PruneNext(p)
  <2>1. pc[p] = "packPrune" /\ r \in todo[p]
    BY <1>0, <1>6 DEF PruneNext, PackerLoop
  <2>2. r \in Holds(p)
    BY <1>0, <2>1 DEF Holds
  <2>3. \A x \in Ref : x # r => loose'[x] = loose[x]
    BY <1>6 DEF PruneNext, TypeOK
  <2> QED
    BY <1>6, <2>2, <2>3 DEF PruneNext, FilesFrame
<1>7. CASE PackUnlockNext(p)
  <2>1. pc[p] = "packUnlock" /\ r \in todo[p]
    BY <1>0, <1>7 DEF PackUnlockNext, PackerLoop
  <2>2. r \in Holds(p)
    BY <1>0, <2>1 DEF Holds
  <2>3. \A x \in Ref : x # r => staged'[x] = staged[x]
    BY <1>7 DEF PackUnlockNext, DropLock, TypeOK
  <2> QED
    BY <1>7, <2>2, <2>3 DEF PackUnlockNext, FilesFrame
<1>8. CASE ReleaseNext(p) \/ ReleaseEnd(p)
  BY <1>8, ReleaseFilesFrame
<1> QED
  BY <1>1, <1>2, <1>3, <1>4, <1>5, <1>6, <1>7, <1>8 DEF PackerStep

LEMMA ReaderFilesFrame ==
  ASSUME NEW q \in Reader, ReaderStep(q)
  PROVE  files' = files /\ FilesFrame(q)
BY DEF ReaderStep, StartRead, ReadLoose, ReadPacked, files, FilesFrame

\* A lock keeps what it protects from changing under its holder.
LEMMA HeldStable ==
  ASSUME TypeOK, LockDiscipline, NEW p \in Proc, NEW q \in Proc \ {p}, FilesFrame(p)
  PROVE  /\ \A r \in Ref : r \in Holds(q) =>
               loose'[r] = loose[r] /\ packed'[r] = packed[r] /\ staged'[r] = staged[r]
         /\ HoldsPacked(q) => packed' = packed /\ packedStaged' = packedStaged
<1>1. \A r \in Ref : r \in Holds(q) => owner[r] = q /\ r \notin Holds(p)
  BY DEF LockDiscipline
<1>2. HoldsPacked(q) => packedOwner = q /\ ~HoldsPacked(p)
  BY DEF LockDiscipline
<1> QED
  BY <1>1, <1>2 DEF FilesFrame

-------------------------------------------------------------------------------
(* What a writer has checked. *)

LEMMA WriterViewFrame ==
  ASSUME TypeOK, LockDiscipline, NEW w \in Writer, NEW p \in Proc \ {w},
         WriterLoop(w), WriterView(w), Untouched(w), FilesFrame(p)
  PROVE  WriterView(w)'
<1>0. w \in Proc /\ DOMAIN edits[w] \subseteq Ref
  BY RequestDomain DEF TypeOK, Proc
<1>1. /\ \A r \in Ref : r \in Holds(w) =>
               loose'[r] = loose[r] /\ packed'[r] = packed[r] /\ staged'[r] = staged[r]
      /\ HoldsPacked(w) => packed' = packed /\ packedStaged' = packedStaged
  BY <1>0, HeldStable
<1>2. \A r \in Ref : r \in Holds(w) => (Checked(w, r) => Checked(w, r)')
  BY <1>1 DEF Checked, Cur, Current, Permits, Untouched
<1>u. pc'[w] = pc[w] /\ todo'[w] = todo[w] /\ edits'[w] = edits[w]
  BY DEF Untouched
<1>l. todo[w] # {} => Least(todo[w]) \in todo[w]
  BY <1>0, LeastIn DEF TypeOK
<1>3. CASE pc[w] \in {"check", "checkPacked"}
  <2>1. Holds(w) = DOMAIN edits[w]
    BY <1>0, <1>3 DEF Holds
  <2>2. \A r \in DOMAIN edits[w] \ todo[w] : Checked(w, r)'
    BY <1>0, <1>2, <1>3, <2>1 DEF WriterView
  <2>3. todo[w] # {} /\ Least(todo[w]) \in DOMAIN edits[w]
    BY <1>3, <1>l DEF WriterLoop
  <2>4. pc[w] = "checkPacked" => loose'[Least(todo[w])] = None
    BY <1>0, <1>1, <2>1, <2>3 DEF WriterView
  <2> QED
    BY <1>3, <1>u, <2>2, <2>4 DEF WriterView
<1>4. CASE pc[w] \in {"filter", "publishPacked"}
  <2>1. Holds(w) = DOMAIN edits[w] /\ HoldsPacked(w)
    BY <1>0, <1>4 DEF Holds, HoldsPacked
  <2>2. \A r \in DOMAIN edits[w] : Checked(w, r)'
    BY <1>0, <1>2, <1>4, <2>1 DEF WriterView
  <2>3. pc[w] = "publishPacked" => packedStaged' = WithoutDeleted(edits[w], packed)'
    BY <1>1, <1>u, <2>1 DEF WriterView, WithoutDeleted
  <2> QED
    BY <1>4, <1>u, <2>2, <2>3 DEF WriterView, WithoutDeleted
<1>5. CASE pc[w] \in {"commit", "unlock"}
  <2>1. Holds(w) = todo[w] /\ todo[w] \subseteq DOMAIN edits[w] /\ todo[w] # {}
    BY <1>0, <1>5 DEF Holds, WriterLoop
  <2>2. \A r \in todo[w] : IF edits[w][r].new = None
            THEN packed'[r] = None /\ (loose'[r] # None => Checked(w, r)')
            ELSE Checked(w, r)'
    BY <1>0, <1>1, <1>2, <1>5, <2>1 DEF WriterView
  <2>3. pc[w] = "unlock" => LET r == Least(todo[w]) IN
           edits[w][r].new = None /\ loose'[r] = None
    BY <1>0, <1>1, <1>l, <2>1 DEF WriterView
  <2> QED
    BY <1>5, <1>u, <2>2, <2>3 DEF WriterView
<1>6. CASE pc[w] \in WriterLabels \ {"check", "checkPacked", "filter", "publishPacked",
                                     "commit", "unlock"}
  BY <1>6, <1>u DEF WriterView
<1> QED
  BY <1>3, <1>4, <1>5, <1>6 DEF WriterLoop

LEMMA WriterViewStep ==
  ASSUME TypeOK, NEW w \in Writer, WriterLoop(w), WriterView(w), WriterStep(w)
  PROVE  WriterView(w)'
<1>0. /\ todo[w] # {} => Least(todo[w]) \in todo[w] /\ Least(todo[w]) \in Ref
      /\ DOMAIN edits[w] \subseteq Ref /\ todo[w] \subseteq DOMAIN edits[w]
      /\ \A x \in DOMAIN edits[w] : edits[w][x] \in Edit
      /\ w \in Proc
  BY LeastIn, RequestDomain DEF TypeOK, Proc, WriterLoop
<1> DEFINE r == Least(todo[w])
           e == edits[w][r]
           D == DOMAIN edits[w]
\* Labels at which the view claims nothing.
<1>n. ASSUME pc'[w] \notin {"check", "checkPacked", "filter", "publishPacked", "commit", "unlock"}
      PROVE  WriterView(w)'
  BY <1>n DEF WriterView
\* A reference whose files do not change stays checked.
<1>c. ASSUME NEW x \in Ref, Checked(w, x), edits' = edits, staged'[x] = staged[x],
             Current(loose', packed', x) = Cur(x)
      PROVE  Checked(w, x)'
  BY <1>c DEF Checked, Cur, Current, Permits
<1>1. CASE Submit(w)
  <2>1. pc'[w] = "lock"
    BY <1>0, <1>1 DEF Submit, Goto, TypeOK
  <2> QED
    BY <1>n, <2>1
<1>2. CASE LockNext(w)
  <2>1. CASE pc'[w] = "check"
    <3>1. todo'[w] = D
      BY <1>0, <1>2, <2>1 DEF LockNext, AcquireNext, RefuseNext, NextOr, Goto, Visit, TypeOK
    <3>2. edits' = edits
      BY <1>2 DEF LockNext
    <3> QED
      BY <2>1, <3>1, <3>2 DEF WriterView
  <2>2. CASE pc'[w] # "check"
    <3>1. pc'[w] \in {"lock", "lockPacked", "release"}
      BY <1>0, <1>2, <2>2 DEF LockNext, AcquireNext, RefuseNext, NextOr, Goto, Visit, TypeOK
    <3> QED
      BY <1>n, <3>1
  <2> QED
    BY <2>1, <2>2
<1>3. CASE LockPacked(w)
  <2>1. /\ pc'[w] \in {"check", "release"} /\ todo'[w] = D /\ edits' = edits
    BY <1>0, <1>3 DEF LockPacked, AcquirePacked, RefusePacked, Goto, TypeOK, WriterLoop, files
  <2> QED
    BY <2>1 DEF WriterView
<1>4. ASSUME Decide(w, Cur(r)), pc[w] \in {"check", "checkPacked"}, edits' = edits
      PROVE  WriterView(w)'
  <2>0. r \in todo[w] /\ r \in Ref /\ r \in D
    BY <1>0, <1>4 DEF WriterLoop
  <2>1. CASE ~Permits(e, Cur(r))
    <3>1. pc'[w] \in {"release", "releaseBoth"}
      BY <1>0, <1>4, <2>1 DEF Decide, Goto, TypeOK
    <3> QED
      BY <1>n, <3>1
  <2>2. CASE Permits(e, Cur(r))
    <3>1. /\ staged' = IF e.new \in Id THEN [staged EXCEPT ![r] = e.new] ELSE staged
          /\ loose' = loose /\ packed' = packed
          /\ IF todo[w] # {r}
               THEN todo'[w] = todo[w] \ {r} /\ pc'[w] = "check"
               ELSE todo'[w] = D /\ pc'[w] = IF Deletes(edits[w]) THEN "filter" ELSE "commit"
      BY <1>0, <1>4, <2>2 DEF Decide, Goto, Visit, TypeOK
    <3>2. \A x \in D \ todo[w] : Checked(w, x)'
      <4> SUFFICES ASSUME NEW x \in D \ todo[w] PROVE Checked(w, x)'
        OBVIOUS
      <4>1. Checked(w, x) /\ x \in Ref /\ x # r
        BY <1>0, <1>4, <2>0 DEF WriterView
      <4>2. staged'[x] = staged[x]
        BY <3>1, <4>1 DEF TypeOK
      <4>3. Current(loose', packed', x) = Cur(x)
        BY <3>1 DEF Cur, Current
      <4> QED
        BY <1>c, <1>4, <4>1, <4>2, <4>3
    <3>3. ASSUME NEW x \in Ref, x = r PROVE Checked(w, x)'
      <4>1. edits[w][x].new \in Id => staged'[x] = edits[w][x].new
        BY <2>0, <3>1, <3>3 DEF TypeOK
      <4>2. Permits(edits[w][x], Current(loose', packed', x))
        BY <2>2, <3>1, <3>3 DEF Cur, Current
      <4> QED
        BY <1>4, <4>1, <4>2 DEF Checked, Cur, Permits
    <3>4. CASE todo[w] # {r}
      <4>1. \A x \in D \ todo'[w] : Checked(w, x)'
        BY <1>0, <3>1, <3>2, <3>3, <3>4
      <4> QED
        BY <1>4, <3>1, <3>4, <4>1 DEF WriterView
    <3>5. CASE todo[w] = {r}
      <4>1. \A x \in D : Checked(w, x)'
        BY <1>0, <3>2, <3>3, <3>5
      <4>2. CASE Deletes(edits[w])
        BY <1>4, <3>1, <3>5, <4>1, <4>2 DEF WriterView
      <4>3. CASE ~Deletes(edits[w])
        <5>1. \A x \in D : edits[w][x].new # None
          BY <4>3 DEF Deletes
        <5> QED
          BY <1>4, <3>1, <3>5, <4>1, <4>3, <5>1 DEF WriterView
      <4> QED
        BY <4>2, <4>3
    <3> QED
      BY <3>4, <3>5
  <2> QED
    BY <2>1, <2>2
<1>5. CASE CheckLoose(w)
  <2>1. CASE loose[r] # None /\ Decide(w, loose[r])
    <3>1. loose[r] = Cur(r)
      BY <2>1 DEF Cur, Current
    <3> QED
      BY <1>4, <1>5, <2>1, <3>1 DEF CheckLoose
  <2>2. CASE loose[r] = None /\ Goto(w, "checkPacked") /\ UNCHANGED <<files, todo>>
    <3>1. pc[w] = "check" /\ pc'[w] = "checkPacked" /\ edits' = edits /\ todo' = todo
          /\ loose' = loose /\ packed' = packed /\ staged' = staged
      BY <1>0, <1>5, <2>2 DEF CheckLoose, Goto, TypeOK, files
    <3>2. \A x \in D \ todo[w] : Checked(w, x)'
      BY <1>0, <3>1 DEF WriterView, Checked, Cur, Current, Permits
    <3> QED
      BY <2>2, <3>1, <3>2 DEF WriterView
  <2> QED
    BY <1>5, <2>1, <2>2 DEF CheckLoose
<1>6. CASE CheckPacked(w)
  <2>1. packed[r] = Cur(r)
    BY <1>6 DEF CheckPacked, WriterView, Cur, Current
  <2> QED
    BY <1>4, <1>6, <2>1 DEF CheckPacked
<1>7. CASE FilterPacked(w)
  <2>1. /\ pc[w] = "filter" /\ pc'[w] = "publishPacked" /\ edits' = edits
        /\ loose' = loose /\ packed' = packed /\ staged' = staged
        /\ packedStaged' = WithoutDeleted(edits[w], packed)
    BY <1>0, <1>7 DEF FilterPacked, Goto, TypeOK
  <2>2. \A x \in D : Checked(w, x)'
    BY <1>0, <2>1 DEF WriterView, Checked, Cur, Current, Permits
  <2>3. packedStaged' = WithoutDeleted(edits[w], packed)'
    BY <2>1 DEF WithoutDeleted
  <2> QED
    BY <2>1, <2>2, <2>3 DEF WriterView
<1>8. CASE PublishPacked(w)
  <2>1. /\ pc[w] = "publishPacked" /\ pc'[w] = "commit" /\ edits' = edits
        /\ loose' = loose /\ staged' = staged /\ todo' = todo
        /\ packed' = WithoutDeleted(edits[w], packed)
    BY <1>0, <1>8 DEF PublishPacked, PublishEntries, Goto, TypeOK, WriterView
  <2>2. \A x \in D : Checked(w, x)
    BY <2>1 DEF WriterView
  <2>3. ASSUME NEW x \in D, edits[w][x].new = None
        PROVE  packed'[x] = None /\ (loose'[x] # None => Checked(w, x)')
    <3>1. packed'[x] = None
      BY <1>0, <2>1, <2>3 DEF WithoutDeleted
    <3>2. loose[x] # None => Current(loose', packed', x) = Cur(x)
      BY <2>1 DEF Cur, Current
    <3> QED
      BY <1>0, <1>c, <2>1, <2>2, <2>3, <3>1, <3>2
  <2>4. ASSUME NEW x \in D, edits[w][x].new # None
        PROVE  Checked(w, x)'
    <3>1. packed'[x] = packed[x]
      BY <1>0, <2>1, <2>4 DEF WithoutDeleted
    <3>2. Current(loose', packed', x) = Cur(x)
      BY <2>1, <3>1 DEF Cur, Current
    <3> QED
      BY <1>0, <1>c, <2>1, <2>2, <2>4, <3>2
  <2> QED
    BY <1>0, <2>1, <2>3, <2>4 DEF WriterView
<1>9. CASE CommitNext(w) \/ UnlockDeleted(w)
  <2>0. /\ pc[w] \in {"commit", "unlock"} /\ edits' = edits /\ packed' = packed
        /\ r \in todo[w] /\ r \in Ref /\ r \in D
    BY <1>0, <1>9 DEF CommitNext, UnlockDeleted, WriterLoop
  <2>1. \A x \in Ref : x # r => loose'[x] = loose[x] /\ staged'[x] = staged[x]
    BY <1>9 DEF CommitNext, UnlockDeleted, DropLock, TypeOK
  <2>2. ASSUME NEW x \in todo[w] \ {r}
        PROVE  IF edits[w][x].new = None
                 THEN packed'[x] = None /\ (loose'[x] # None => Checked(w, x)')
                 ELSE Checked(w, x)'
    <3>1. x \in Ref /\ x # r /\ loose'[x] = loose[x] /\ staged'[x] = staged[x]
      BY <1>0, <2>1, <2>2
    <3>2. Checked(w, x) => Checked(w, x)'
      BY <1>c, <2>0, <3>1 DEF Cur, Current
    <3>3. IF edits[w][x].new = None
            THEN packed[x] = None /\ (loose[x] # None => Checked(w, x))
            ELSE Checked(w, x)
      BY <2>0, <2>2 DEF WriterView
    <3> QED
      BY <2>0, <3>1, <3>2, <3>3
  <2>3. CASE todo'[w] = todo[w] \ {r} /\ pc'[w] \in {"commit", "done"}
    BY <2>0, <2>2, <2>3 DEF WriterView
  <2>4. CASE CommitNext(w) /\ e.new = None /\ pc'[w] = "unlock" /\ todo' = todo
    <3>1. loose'[r] = None
      BY <2>0, <2>4 DEF CommitNext, TypeOK, Edit, Value
    <3>2. packed'[r] = None
      BY <2>0, <2>4 DEF WriterView
    <3>3. \A x \in todo'[w] : IF edits[w][x].new = None
                 THEN packed'[x] = None /\ (loose'[x] # None => Checked(w, x)')
                 ELSE Checked(w, x)'
      BY <2>0, <2>2, <2>4, <3>1, <3>2
    <3> QED
      BY <2>0, <2>4, <3>1, <3>3 DEF WriterView
  <2>5. \/ todo'[w] = todo[w] \ {r} /\ pc'[w] \in {"commit", "done"}
        \/ CommitNext(w) /\ e.new = None /\ pc'[w] = "unlock" /\ todo' = todo
    BY <1>0, <1>9 DEF CommitNext, UnlockDeleted, NextOr, Goto, Visit, TypeOK
  <2> QED
    BY <2>3, <2>4, <2>5
<1>10. CASE Return(w) \/ ReleaseEnd(w)
  <2>1. pc'[w] = "idle"
    BY <1>0, <1>10 DEF Return, ReleaseEnd, Abandon, Goto, TypeOK
  <2> QED
    BY <1>n, <2>1
<1>11. CASE ReleaseNext(w)
  <2>1. pc'[w] \in {"release", "releaseBoth"}
    BY <1>11 DEF ReleaseNext
  <2> QED
    BY <1>n, <2>1
<1> QED
  BY <1>1, <1>2, <1>3, <1>5, <1>6, <1>7, <1>8, <1>9, <1>10, <1>11 DEF WriterStep

-------------------------------------------------------------------------------
(* What a packer has collected. *)

Covered(r) == loose[r] # None \/ packed[r] = None

\* No step of a transaction uncovers a packed value.
LEMMA WriterCovers ==
  ASSUME TypeOK, NEW w \in Writer, WriterLoop(w), WriterView(w), WriterStep(w),
         NEW x \in Ref, Covered(x)
  PROVE  Covered(x)'
<1>1. CASE loose' = loose /\ packed' = packed
  BY <1>1 DEF Covered
<1>2. CASE PublishPacked(w)
  <2>1. loose' = loose /\ packed' = WithoutDeleted(edits[w], packed)
    BY <1>2 DEF PublishPacked, PublishEntries, WriterView
  <2>2. packed'[x] \in {packed[x], None}
    BY <2>1 DEF WithoutDeleted
  <2> QED
    BY <2>1, <2>2 DEF Covered
<1>3. CASE CommitNext(w)
  <2> DEFINE r == Least(todo[w])
  <2>1. r \in todo[w] /\ r \in Ref /\ pc[w] = "commit" /\ packed' = packed
    BY <1>3, LeastIn DEF CommitNext, WriterLoop, TypeOK, Proc
  <2>2. CASE x # r
    <3>1. loose'[x] = loose[x]
      BY <1>3, <2>2 DEF CommitNext, TypeOK
    <3> QED
      BY <2>1, <3>1 DEF Covered
  <2>3. CASE x = r /\ edits[w][r].new = None
    BY <2>1, <2>3 DEF Covered, WriterView
  <2>4. CASE x = r /\ edits[w][r].new \in Id
    <3>1. staged[r] = edits[w][r].new
      BY <2>1, <2>4 DEF WriterView, Checked
    <3>2. loose'[x] = staged[r]
      BY <1>3, <2>1, <2>4 DEF CommitNext, TypeOK, Value
    <3> QED
      BY <2>4, <3>1, <3>2 DEF Covered
  <2>5. CASE x = r /\ edits[w][r].new = Keep
    <3>1. loose' = loose
      BY <1>3, <2>5 DEF CommitNext, Value
    <3> QED
      BY <2>1, <3>1 DEF Covered
  <2> QED
    BY <1>3, <2>2, <2>3, <2>4, <2>5 DEF CommitNext
<1>4. CASE LockNext(w) \/ LockPacked(w) \/ Submit(w) \/ Return(w)
  BY <1>1, <1>4 DEF LockNext, LockPacked, AcquireNext, RefuseNext, AcquirePacked, RefusePacked,
                    Submit, Return, files
<1>5. CASE CheckLoose(w) \/ CheckPacked(w) \/ FilterPacked(w) \/ UnlockDeleted(w)
  BY <1>1, <1>5 DEF CheckLoose, CheckPacked, Decide, FilterPacked, UnlockDeleted, files
<1>6. CASE ReleaseNext(w) \/ ReleaseEnd(w)
  BY <1>1, <1>6 DEF ReleaseNext, ReleaseEnd
<1> QED
  BY <1>2, <1>3, <1>4, <1>5, <1>6 DEF WriterStep

LEMMA PackerViewFrame ==
  ASSUME TypeOK, LockDiscipline, NEW p \in Packer, NEW q \in Proc \ {p},
         PackerLoop(p), PackerView(p), Untouched(p), FilesFrame(q),
         \A x \in Ref : Covered(x) => Covered(x)'
  PROVE  PackerView(p)'
<1>0. p \in Proc /\ p \notin Writer /\ DOMAIN items[p] \subseteq Ref
  BY ItemsDomain DEF Proc
<1>1. /\ \A x \in Ref : x \in Holds(p) => loose'[x] = loose[x] /\ packed'[x] = packed[x]
      /\ HoldsPacked(p) => packed' = packed /\ packedStaged' = packedStaged
  BY <1>0, HeldStable
<1>u. pc'[p] = pc[p] /\ todo'[p] = todo[p] /\ items'[p] = items[p] /\ prune'[p] = prune[p]
  BY DEF Untouched
<1>2. CASE pc[p] \in {"scan", "packLock", "packLockPacked", "packMerge"}
  <2>1. todo[p] \subseteq Ref
    BY <1>0 DEF TypeOK
  <2> QED
    BY <1>0, <1>2, <1>u, <2>1 DEF PackerView, Covered
<1>3. CASE pc[p] = "packPublish"
  <2>1. Holds(p) = DOMAIN items[p] /\ HoldsPacked(p)
    BY <1>0, <1>3 DEF Holds, HoldsPacked
  <2>2. \A x \in DOMAIN items[p] : Cur(x)' = items[p][x]
    BY <1>0, <1>1, <1>3, <2>1 DEF PackerView, Cur, Current
  <2>3. packedStaged' = MergedWith(items[p], packed')
    BY <1>1, <1>3, <2>1 DEF PackerView, MergedWith
  <2>4. \A x \in DOMAIN items[p] : loose'[x] # None \/ packed'[x] = None
    BY <1>0, <1>1, <1>3, <2>1 DEF PackerView
  <2> QED
    BY <1>3, <1>u, <2>2, <2>3, <2>4 DEF PackerView, MergedWith
<1>4. CASE pc[p] \in {"packPrune", "packUnlock"}
  <2>1. Holds(p) = todo[p] /\ todo[p] \subseteq DOMAIN items[p]
    BY <1>0, <1>4 DEF Holds, PackerLoop
  <2>2. \A x \in todo[p] : loose'[x] = loose[x] /\ packed'[x] = packed[x]
    BY <1>0, <1>1, <2>1
  <2>3. CASE pc[p] = "packPrune"
    BY <1>u, <2>2, <2>3 DEF PackerView
  <2>4. CASE pc[p] = "packUnlock"
    BY <1>u, <2>2, <2>4 DEF PackerView
  <2> QED
    BY <1>4, <2>3, <2>4
<1>5. CASE pc[p] \in {"idle", "release", "releaseBoth"}
  BY <1>5, <1>u DEF PackerView
<1> QED
  BY <1>2, <1>3, <1>4, <1>5 DEF PackerLoop, PackerLabels

LEMMA PackerViewStep ==
  ASSUME TypeOK, NEW p \in Packer, PackerLoop(p), PackerView(p), PackerStep(p)
  PROVE  PackerView(p)'
<1>0. /\ todo[p] # {} => Least(todo[p]) \in todo[p] /\ Least(todo[p]) \in Ref
      /\ DOMAIN items[p] \subseteq Ref /\ \A x \in DOMAIN items[p] : items[p][x] \in Id
      /\ p \in Proc
  <2>1. todo[p] \in SUBSET Ref /\ p \in Proc
    BY DEF TypeOK, Proc
  <2> QED
    BY <2>1, LeastIn, ItemsDomain
<1> DEFINE r == Least(todo[p])
           D == DOMAIN items[p]
\* Labels at which the view claims nothing.
<1>n. ASSUME pc'[p] \in {"idle", "release", "releaseBoth"}
      PROVE  PackerView(p)'
  BY <1>n DEF PackerView
\* Until it publishes, a packer changes no file it collects.
<1>k. ASSUME pc[p] \in {"packLock", "packLockPacked", "packMerge"},
             pc'[p] \in {"packLock", "packLockPacked", "packMerge"},
             items' = items, loose' = loose, packed' = packed
      PROVE  PackerView(p)'
  BY <1>k DEF PackerView
<1>1. CASE StartPack(p)
  <2>1. /\ pc'[p] = "scan" /\ DOMAIN items'[p] = {}
        /\ \A x \in todo'[p] : loose'[x] # None
    BY <1>0, <1>1 DEF StartPack, Visit, Goto, TypeOK, NoEdits, files
  <2> QED
    BY <2>1 DEF PackerView
<1>2. CASE ScanNext(p)
  <2> DEFINE found == [s \in DOMAIN items[p] \cup {r} |->
                          IF s = r THEN Cur(r) ELSE items[p][s]]
  <2>0. pc[p] = "scan" /\ loose' = loose /\ packed' = packed
    BY <1>2 DEF ScanNext, files
  <2>1. CASE Cur(r) # None /\ items' = [items EXCEPT ![p] = found]
             /\ NextOr(p, DOMAIN found, "packLock")
    <3>1. items'[p] = found /\ DOMAIN found = D \cup {r}
      BY <2>1 DEF TypeOK
    <3>2. pc'[p] = "packLock" \/ (pc'[p] = "scan" /\ todo'[p] \subseteq todo[p])
      BY <1>0, <2>0, <2>1 DEF NextOr, Visit, Goto, TypeOK
    <3>4. r \in todo[p]
      BY <1>0, <2>0 DEF PackerLoop
    <3>3. \A x \in D \cup todo[p] : loose'[x] # None \/ packed'[x] = None
      BY <2>0 DEF PackerView
    <3> HIDE DEF found
    <3> QED
      BY <3>1, <3>2, <3>3, <3>4 DEF PackerView
  <2>2. CASE Abandon(p)
    <3>1. pc'[p] = "idle"
      BY <1>0, <2>2 DEF Abandon, Goto, TypeOK
    <3> QED
      BY <1>n, <3>1
  <2> QED
    BY <1>2, <2>1, <2>2 DEF ScanNext
<1>3. CASE PackLockNext(p)
  <2>1. /\ pc[p] = "packLock" /\ pc'[p] \in {"packLock", "packLockPacked", "release"}
        /\ items' = items /\ loose' = loose /\ packed' = packed
    BY <1>0, <1>3 DEF PackLockNext, AcquireNext, RefuseNext, NextOr, Goto, files, TypeOK
  <2> QED
    BY <1>k, <1>n, <2>1
<1>4. CASE PackLockPacked(p)
  <2>1. /\ pc[p] = "packLockPacked" /\ pc'[p] \in {"packMerge", "release"}
        /\ items' = items /\ loose' = loose /\ packed' = packed
    BY <1>0, <1>4 DEF PackLockPacked, AcquirePacked, RefusePacked, Goto, files, TypeOK
  <2> QED
    BY <1>k, <1>n, <2>1
<1>5. CASE PackMerge(p)
  <2>1. /\ pc[p] = "packMerge" /\ items' = items /\ loose' = loose /\ packed' = packed
    BY <1>5 DEF PackMerge
  <2>2. CASE /\ \A x \in D : Cur(x) = items[p][x]
             /\ packedStaged' = MergedWith(items[p], packed)
             /\ Goto(p, "packPublish")
    <3>1. pc'[p] = "packPublish"
      BY <1>0, <2>2 DEF Goto, TypeOK
    <3>2. \A x \in D : Cur(x)' = items[p][x] /\ (loose'[x] # None \/ packed'[x] = None)
      BY <2>1, <2>2 DEF Cur, PackerView
    <3> QED
      BY <2>1, <2>2, <3>1, <3>2 DEF PackerView, MergedWith
  <2>3. CASE Goto(p, "releaseBoth")
    <3>1. pc'[p] = "releaseBoth"
      BY <1>0, <2>3 DEF Goto, TypeOK
    <3> QED
      BY <1>n, <3>1
  <2> QED
    BY <1>5, <2>2, <2>3 DEF PackMerge
<1>6. CASE PackPublish(p)
  <2>1. /\ pc[p] = "packPublish" /\ items' = items /\ loose' = loose /\ todo' = todo
        /\ todo[p] = D /\ prune' = prune
        /\ packed' = MergedWith(items[p], packed)
        /\ pc'[p] = IF prune[p] THEN "packPrune" ELSE "packUnlock"
    BY <1>0, <1>6 DEF PackPublish, PublishEntries, Goto, TypeOK, PackerView, PackerLoop
  <2>2. \A x \in D : packed'[x] = items[p][x]
    BY <1>0, <2>1 DEF MergedWith
  <2>3. \A x \in D : loose[x] = items[p][x]
    BY <1>0, <2>1 DEF PackerView, Cur, Current
  <2> QED
    BY <2>1, <2>2, <2>3 DEF PackerView
<1>7. CASE PruneNext(p)
  <2>1. /\ pc[p] = "packPrune" /\ items' = items /\ packed' = packed
        /\ \/ pc'[p] = "releaseBoth"
           \/ /\ pc'[p] = "packUnlock" /\ todo' = todo
              /\ loose' = [loose EXCEPT ![r] = None]
    BY <1>0, <1>7 DEF PruneNext, Goto, TypeOK
  <2>2. CASE pc'[p] = "packUnlock" /\ todo' = todo /\ loose' = [loose EXCEPT ![r] = None]
    <3>1. \A x \in todo[p] \ {r} : x \in Ref /\ x # r
      BY <1>0, <2>1 DEF PackerLoop
    <3>2. \A x \in todo[p] \ {r} : loose'[x] = loose[x] /\ packed'[x] = packed[x]
      BY <2>1, <2>2, <3>1 DEF TypeOK
    <3>3. \A x \in todo[p] \ {r} : loose'[x] = items[p][x] /\ packed'[x] = items[p][x]
      BY <2>1, <3>2 DEF PackerView
    <3> QED
      BY <2>1, <2>2, <3>3 DEF PackerView
  <2> QED
    BY <1>n, <2>1, <2>2
<1>8. CASE PackUnlockNext(p)
  <2>1. /\ pc[p] = "packUnlock" /\ loose' = loose /\ packed' = packed
        /\ todo'[p] = todo[p] \ {r}
        /\ \/ pc'[p] = "idle"
           \/ /\ items' = items /\ prune' = prune
              /\ pc'[p] = IF prune[p] THEN "packPrune" ELSE "packUnlock"
    BY <1>0, <1>8 DEF PackUnlockNext, Goto, Visit, TypeOK
  <2> QED
    BY <1>n, <2>1 DEF PackerView
<1>9. CASE ReleaseNext(p) \/ ReleaseEnd(p)
  <2>1. pc'[p] \in {"idle", "release", "releaseBoth"}
    BY <1>0, <1>9 DEF ReleaseNext, ReleaseEnd, Abandon, Goto, TypeOK
  <2> QED
    BY <1>n, <2>1
<1> QED
  BY <1>1, <1>2, <1>3, <1>4, <1>5, <1>6, <1>7, <1>8, <1>9 DEF PackerStep
-------------------------------------------------------------------------------
(* What a reader may rely on. *)

\* Every step that changes a file is witnessed by the readers under way.
Witnessed == /\ reading' = reading
             /\ Observe \/ (loose' = loose /\ packed' = packed /\ window' = window)

LEMMA WriterWitnessed ==
  ASSUME NEW w \in Writer, WriterStep(w)
  PROVE  Witnessed
<1>1. CASE Submit(w) \/ Return(w) \/ ReleaseNext(w) \/ ReleaseEnd(w)
  BY <1>1 DEF Submit, Return, ReleaseNext, ReleaseEnd, Witnessed, files, clients
<1>2. CASE LockNext(w) \/ LockPacked(w)
  BY <1>2 DEF LockNext, LockPacked, AcquireNext, RefuseNext, AcquirePacked, RefusePacked,
              Witnessed, files, clients
<1>3. CASE CheckLoose(w) \/ CheckPacked(w) \/ FilterPacked(w) \/ UnlockDeleted(w)
  BY <1>3 DEF CheckLoose, CheckPacked, Decide, FilterPacked, UnlockDeleted, Witnessed,
              files, clients
<1>4. CASE PublishPacked(w) \/ CommitNext(w)
  BY <1>4 DEF PublishPacked, PublishEntries, CommitNext, Witnessed
<1> QED
  BY <1>1, <1>2, <1>3, <1>4 DEF WriterStep

LEMMA PackerWitnessed ==
  ASSUME NEW p \in Packer, PackerStep(p)
  PROVE  Witnessed
<1>1. CASE StartPack(p) \/ ScanNext(p) \/ ReleaseNext(p) \/ ReleaseEnd(p)
  BY <1>1 DEF StartPack, ScanNext, ReleaseNext, ReleaseEnd, Witnessed, files, clients
<1>2. CASE PackLockNext(p) \/ PackLockPacked(p)
  BY <1>2 DEF PackLockNext, PackLockPacked, AcquireNext, RefuseNext, AcquirePacked,
              RefusePacked, Witnessed, files, clients
<1>3. CASE PackMerge(p) \/ PackUnlockNext(p)
  BY <1>3 DEF PackMerge, PackUnlockNext, Witnessed, clients
<1>4. CASE PackPublish(p) \/ PruneNext(p)
  BY <1>4 DEF PackPublish, PublishEntries, PruneNext, Witnessed
<1> QED
  BY <1>1, <1>2, <1>3, <1>4 DEF PackerStep

\* A packed entry changes to what the reference already resolves to, or
\* disappears under a deletion.
Explained == \A r \in Ref : \/ packed'[r] \in {packed[r], Cur(r)}
                            \/ packed'[r] = None /\ DeletionUnderWay(r)'

LEMMA WriterExplained ==
  ASSUME TypeOK, NEW w \in Writer, WriterLoop(w), WriterView(w), WriterStep(w)
  PROVE  Explained
<1>1. CASE packed' = packed
  BY <1>1 DEF Explained
<1>2. CASE PublishPacked(w)
  <2>1. /\ packed' = WithoutDeleted(edits[w], packed)
        /\ pc'[w] = "commit" /\ todo' = todo /\ edits' = edits /\ todo[w] = DOMAIN edits[w]
    BY <1>2 DEF PublishPacked, PublishEntries, WriterView, WriterLoop, Goto, TypeOK, Proc
  <2> SUFFICES ASSUME NEW r \in Ref, packed'[r] # packed[r]
               PROVE  packed'[r] = None /\ DeletionUnderWay(r)'
    BY DEF Explained
  <2>2. r \in DOMAIN edits[w] /\ edits[w][r].new = None /\ packed'[r] = None
    BY <2>1 DEF WithoutDeleted
  <2> QED
    BY <2>1, <2>2 DEF DeletionUnderWay
<1>3. CASE Submit(w) \/ Return(w) \/ ReleaseNext(w) \/ ReleaseEnd(w) \/ LockNext(w) \/ LockPacked(w)
  BY <1>1, <1>3 DEF Submit, Return, ReleaseNext, ReleaseEnd, LockNext, LockPacked, AcquireNext,
                    RefuseNext, AcquirePacked, RefusePacked, files
<1>4. CASE CheckLoose(w) \/ CheckPacked(w) \/ FilterPacked(w) \/ UnlockDeleted(w) \/ CommitNext(w)
  BY <1>1, <1>4 DEF CheckLoose, CheckPacked, Decide, FilterPacked, UnlockDeleted, CommitNext, files
<1> QED
  BY <1>2, <1>3, <1>4 DEF WriterStep

LEMMA PackerExplained ==
  ASSUME TypeOK, NEW p \in Packer, PackerLoop(p), PackerView(p), PackerStep(p)
  PROVE  Explained
<1>1. CASE packed' = packed
  BY <1>1 DEF Explained
<1>2. CASE PackPublish(p)
  <2>1. /\ packed' = MergedWith(items[p], packed)
        /\ \A r \in DOMAIN items[p] : Cur(r) = items[p][r]
    BY <1>2 DEF PackPublish, PublishEntries, PackerView
  <2> QED
    BY <2>1 DEF Explained, MergedWith
<1>3. CASE StartPack(p) \/ ScanNext(p) \/ PackLockNext(p) \/ PackLockPacked(p)
  BY <1>1, <1>3 DEF StartPack, ScanNext, PackLockNext, PackLockPacked, AcquireNext, RefuseNext,
                    AcquirePacked, RefusePacked, files
<1>4. CASE PackMerge(p) \/ PruneNext(p) \/ PackUnlockNext(p) \/ ReleaseNext(p) \/ ReleaseEnd(p)
  BY <1>1, <1>4 DEF PackMerge, PruneNext, PackUnlockNext, ReleaseNext, ReleaseEnd
<1> QED
  BY <1>2, <1>3, <1>4 DEF PackerStep

\* A deletion is under way until the reference is gone.
DeletionsFinish == \A r \in Ref : DeletionUnderWay(r) => DeletionUnderWay(r)' \/ Cur(r) = None

LEMMA DeletionsUntouched ==
  ASSUME \A w \in Writer : Untouched(w)
  PROVE  DeletionsFinish
BY DEF DeletionsFinish, DeletionUnderWay, Untouched

LEMMA WriterFinishes ==
  ASSUME TypeOK, NEW w \in Writer, WriterLoop(w), WriterView(w), WriterStep(w)
  PROVE  DeletionsFinish
<1> SUFFICES ASSUME NEW x \in Ref, NEW v \in Writer, pc[v] \in {"commit", "unlock"},
                    x \in todo[v], edits[v][x].new = None
             PROVE  DeletionUnderWay(x)' \/ Cur(x) = None
  BY DEF DeletionsFinish, DeletionUnderWay
<1>1. CASE v # w
  <2>1. Untouched(v)
    BY <1>1, WriterFrame DEF Proc
  <2> QED
    BY <2>1 DEF Untouched, DeletionUnderWay
<1>2. CASE v = w
  <2> DEFINE r == Least(todo[w])
  <2>1. CommitNext(w) \/ UnlockDeleted(w)
    BY <1>2 DEF WriterStep, Submit, LockNext, LockPacked, CheckLoose, CheckPacked, FilterPacked,
                PublishPacked, Return, ReleaseNext, ReleaseEnd
  <2>2. edits' = edits /\ w \in Proc /\ r \in todo[w]
    BY <2>1, <1>2, LeastIn DEF CommitNext, UnlockDeleted, TypeOK, Proc
  <2>3. \/ pc'[w] = "unlock" /\ todo' = todo
        \/ todo'[w] = todo[w] \ {r}
           /\ (todo[w] \ {r} # {} => pc'[w] = "commit")
           /\ (pc[w] = "unlock" \/ edits[w][r].new # None)
    BY <2>1, <2>2 DEF CommitNext, UnlockDeleted, NextOr, Goto, Visit, TypeOK, Value
  <2>4. CASE x = r /\ todo'[w] = todo[w] \ {r} /\ pc[w] = "unlock"
    BY <2>4, <2>2 DEF WriterView, Cur, Current
  <2>5. CASE x # r \/ (pc'[w] = "unlock" /\ todo' = todo)
    BY <1>2, <2>2, <2>3, <2>5 DEF DeletionUnderWay
  <2> QED
    BY <1>2, <2>3, <2>4, <2>5
<1> QED
  BY <1>1, <1>2

LEMMA ReaderViewFrame ==
  ASSUME TypeOK, NEW q \in Reader, ReaderView(q), Untouched(q),
         Witnessed, Explained, DeletionsFinish
  PROVE  ReaderView(q)'
<1>0. pc'[q] = pc[q] /\ reading' = reading
  BY DEF Untouched, Witnessed
<1>1. CASE pc[q] = "idle"
  BY <1>0, <1>1 DEF ReaderView
<1>2. CASE pc[q] # "idle"
  <2>0. PICK r \in Ref : r = reading[q]
    BY <1>2 DEF ReaderView, TypeOK
  <2>1. Cur(r) \in window[q]
    BY <1>2, <2>0 DEF ReaderView
  <2>2. window[q] \subseteq window'[q] /\ Current(loose', packed', r) \in window'[q]
    BY <2>0, <2>1 DEF Witnessed, Observe, Cur
  <2>3. Cur(reading[q])' \in window'[q]
    BY <1>0, <2>0, <2>2 DEF Cur
  <2>4. ASSUME pc[q] = "readPacked"
        PROVE  packed'[r] \in window'[q] \/ (packed'[r] = None /\ DeletionUnderWay(r)')
    <3>1. packed[r] \in window[q] \/ (packed[r] = None /\ DeletionUnderWay(r))
      BY <2>0, <2>4 DEF ReaderView
    <3>2. \/ packed'[r] \in {packed[r], Cur(r)}
          \/ packed'[r] = None /\ DeletionUnderWay(r)'
      BY DEF Explained
    <3>3. DeletionUnderWay(r) => DeletionUnderWay(r)' \/ Cur(r) = None
      BY DEF DeletionsFinish
    <3> QED
      BY <2>1, <2>2, <3>1, <3>2, <3>3
  <2> QED
    BY <1>0, <1>2, <2>0, <2>3, <2>4 DEF ReaderView
<1> QED
  BY <1>1, <1>2

LEMMA ReaderViewStep ==
  ASSUME TypeOK, NEW q \in Reader, ReaderView(q), ReaderStep(q)
  PROVE  ReaderView(q)'
<1>0. q \in Proc /\ loose' = loose /\ packed' = packed
  BY ReaderFilesFrame DEF Proc, files
<1>1. CASE StartRead(q)
  <2>1. PICK r \in Ref : reading' = [reading EXCEPT ![q] = r] /\ window' = [window EXCEPT ![q] = {Cur(r)}]
    BY <1>1 DEF StartRead
  <2>2. pc'[q] = "readLoose" /\ reading'[q] = r /\ window'[q] = {Cur(r)}
    BY <1>0, <1>1, <2>1 DEF StartRead, Goto, TypeOK
  <2> QED
    BY <1>0, <2>2 DEF ReaderView, ReaderLabels, Cur
<1>2. ASSUME NEW v, Answer(q, v)
      PROVE  ReaderView(q)'
  <2>1. pc'[q] = "idle" /\ reading'[q] = None
    BY <1>0, <1>2 DEF Answer, Goto, TypeOK
  <2> QED
    BY <2>1 DEF ReaderView, ReaderLabels
<1>3. CASE ReadLoose(q) /\ loose[reading[q]] = None
  <2>1. /\ pc[q] = "readLoose" /\ pc'[q] = "readPacked"
        /\ reading' = reading /\ window' = window
    BY <1>0, <1>3 DEF ReadLoose, Goto, TypeOK
  <2>2. packed[reading[q]] = Cur(reading[q]) /\ Cur(reading[q]) \in window[q] /\ reading[q] # None
    BY <1>3, <2>1 DEF Cur, Current, ReaderView
  <2> QED
    BY <1>0, <2>1, <2>2 DEF ReaderView, ReaderLabels, Cur
<1> QED
  BY <1>1, <1>2, <1>3 DEF ReaderStep, ReadLoose, ReadPacked

LEMMA ReaderViewOther ==
  ASSUME TypeOK, NEW p \in Reader, NEW q \in Reader \ {p}, ReaderView(q), ReaderStep(p)
  PROVE  ReaderView(q)'
<1>1. /\ loose' = loose /\ packed' = packed
      /\ \A v \in Proc \ {p} : Untouched(v)
  BY ReaderFilesFrame, ReaderFrame DEF files
<1>2. reading'[q] = reading[q] /\ window'[q] = window[q]
  BY DEF ReaderStep, StartRead, ReadLoose, ReadPacked, Answer, TypeOK
<1>3. \A v \in Writer : Untouched(v)
  BY <1>1 DEF Proc
<1>4. \A r : DeletionUnderWay(r) => DeletionUnderWay(r)'
  BY <1>3 DEF DeletionUnderWay, Untouched
<1>5. pc'[q] = pc[q]
  BY <1>1 DEF Proc, Untouched
<1> QED
  BY <1>1, <1>2, <1>4, <1>5 DEF ReaderView, Cur
-------------------------------------------------------------------------------
(* The invariant. *)

LEMMA IInvInit == Init => IInv
<1> SUFFICES ASSUME Init PROVE IInv
  OBVIOUS
<1>1. TypeOK
  BY TypeInit
<1>2. \A p \in Proc : pc[p] = "idle" /\ todo[p] = {}
  BY DEF Init
<1>3. LockDiscipline
  BY <1>2 DEF Init, LockDiscipline, Holds, HoldsPacked
<1>4. ASSUME NEW w \in Writer PROVE WriterLoop(w) /\ WriterView(w)
  BY <1>2 DEF Init, WriterLoop, WriterView, WriterLabels, Proc
<1>5. ASSUME NEW p \in Packer PROVE PackerLoop(p) /\ PackerView(p)
  BY <1>2 DEF Init, PackerLoop, PackerView, PackerLabels, Proc
<1>6. ASSUME NEW q \in Reader PROVE ReaderView(q)
  BY <1>2 DEF Init, ReaderView, ReaderLabels, Proc
<1> QED
  BY <1>1, <1>3, <1>4, <1>5, <1>6 DEF IInv

LEMMA IInvWriter ==
  ASSUME IInv, NEW w \in Writer, WriterStep(w)
  PROVE  IInv'
<1>0. /\ TypeOK /\ LockDiscipline /\ WriterLoop(w) /\ WriterView(w) /\ w \in Proc
      /\ \A v \in Writer : WriterLoop(v) /\ WriterView(v)
      /\ \A p \in Packer : PackerLoop(p) /\ PackerView(p)
      /\ \A q \in Reader : ReaderView(q)
  BY DEF IInv, Proc
<1>f. FilesFrame(w) /\ \A q \in Proc \ {w} : Untouched(q)
  BY <1>0, WriterFrame, WriterFilesFrame
<1>1. TypeOK' /\ LockDiscipline'
  BY <1>0, TypeWriter, WriterLocks
<1>2. ASSUME NEW v \in Writer PROVE WriterLoop(v)' /\ WriterView(v)'
  <2>1. CASE v = w
    BY <1>0, <2>1, WriterLoopStep, WriterViewStep
  <2>2. CASE v # w
    <3>1. Untouched(v) /\ WriterLoop(v) /\ WriterView(v) /\ w \in Proc \ {v}
      BY <1>0, <1>f, <2>2 DEF Proc
    <3> QED
      BY <1>0, <1>f, <3>1, WriterLoopFrame, WriterViewFrame
  <2> QED
    BY <2>1, <2>2
<1>3. ASSUME NEW p \in Packer PROVE PackerLoop(p)' /\ PackerView(p)'
  <2>1. Untouched(p) /\ PackerLoop(p) /\ PackerView(p) /\ w \in Proc \ {p}
    BY <1>0, <1>f DEF Proc
  <2>2. \A x \in Ref : Covered(x) => Covered(x)'
    BY <1>0, WriterCovers
  <2> QED
    BY <1>0, <1>f, <2>1, <2>2, PackerLoopFrame, PackerViewFrame
<1>4. ASSUME NEW q \in Reader PROVE ReaderView(q)'
  <2>1. Untouched(q) /\ ReaderView(q)
    BY <1>0, <1>f DEF Proc
  <2> QED
    BY <1>0, <2>1, WriterWitnessed, WriterExplained, WriterFinishes, ReaderViewFrame
<1> QED
  BY <1>1, <1>2, <1>3, <1>4 DEF IInv

LEMMA IInvPacker ==
  ASSUME IInv, SinglePacker, NEW p \in Packer, PackerStep(p)
  PROVE  IInv'
<1>0. /\ TypeOK /\ LockDiscipline /\ PackerLoop(p) /\ PackerView(p) /\ p \in Proc
      /\ \A v \in Writer : WriterLoop(v) /\ WriterView(v)
      /\ \A q \in Reader : ReaderView(q)
  BY DEF IInv, Proc
<1>f. FilesFrame(p) /\ \A q \in Proc \ {p} : Untouched(q)
  BY <1>0, PackerFrame, PackerFilesFrame
<1>1. TypeOK' /\ LockDiscipline'
  BY <1>0, TypePacker, PackerLocks
<1>2. ASSUME NEW v \in Writer PROVE WriterLoop(v)' /\ WriterView(v)'
  <2>1. Untouched(v) /\ WriterLoop(v) /\ WriterView(v) /\ p \in Proc \ {v}
    BY <1>0, <1>f DEF Proc
  <2> QED
    BY <1>0, <1>f, <2>1, WriterLoopFrame, WriterViewFrame
<1>3. ASSUME NEW v \in Packer PROVE PackerLoop(v)' /\ PackerView(v)'
  <2>1. v = p
    BY DEF SinglePacker
  <2> QED
    BY <1>0, <2>1, PackerLoopStep, PackerViewStep
<1>4. ASSUME NEW q \in Reader PROVE ReaderView(q)'
  <2>1. Untouched(q) /\ ReaderView(q) /\ \A v \in Writer : Untouched(v)
    BY <1>0, <1>f DEF Proc
  <2> QED
    BY <1>0, <2>1, PackerWitnessed, PackerExplained, DeletionsUntouched, ReaderViewFrame
<1> QED
  BY <1>1, <1>2, <1>3, <1>4 DEF IInv

LEMMA IInvReader ==
  ASSUME IInv, NEW q \in Reader, ReaderStep(q)
  PROVE  IInv'
<1>0. /\ TypeOK /\ LockDiscipline /\ ReaderView(q) /\ q \in Proc
      /\ \A w \in Writer : WriterLoop(w) /\ WriterView(w)
      /\ \A p \in Packer : PackerLoop(p) /\ PackerView(p)
      /\ \A p \in Reader : ReaderView(p)
  BY DEF IInv, Proc
<1>f. FilesFrame(q) /\ files' = files /\ \A p \in Proc \ {q} : Untouched(p)
  BY <1>0, ReaderFrame, ReaderFilesFrame
<1>1. TypeOK' /\ LockDiscipline'
  BY <1>0, TypeReader, ReaderLocks
<1>2. ASSUME NEW w \in Writer PROVE WriterLoop(w)' /\ WriterView(w)'
  <2>1. Untouched(w) /\ WriterLoop(w) /\ WriterView(w) /\ q \in Proc \ {w}
    BY <1>0, <1>f DEF Proc
  <2> QED
    BY <1>0, <1>f, <2>1, WriterLoopFrame, WriterViewFrame
<1>3. ASSUME NEW p \in Packer PROVE PackerLoop(p)' /\ PackerView(p)'
  <2>1. Untouched(p) /\ PackerLoop(p) /\ PackerView(p) /\ q \in Proc \ {p}
    BY <1>0, <1>f DEF Proc
  <2>2. \A x \in Ref : Covered(x) => Covered(x)'
    BY <1>f DEF Covered, files
  <2> QED
    BY <1>0, <1>f, <2>1, <2>2, PackerLoopFrame, PackerViewFrame
<1>4. ASSUME NEW p \in Reader PROVE ReaderView(p)'
  BY <1>0, ReaderViewStep, ReaderViewOther
<1> QED
  BY <1>1, <1>2, <1>3, <1>4 DEF IInv

LEMMA IInvStutter == IInv /\ UNCHANGED vars => IInv'
<1> SUFFICES ASSUME IInv, UNCHANGED vars PROVE IInv'
  OBVIOUS
<1> USE DEF vars, files, clients
<1>1. TypeOK'
  BY DEF IInv, TypeOK
<1>2. \A p \in Proc : /\ pc'[p] = pc[p] /\ todo'[p] = todo[p]
                      /\ Holds(p)' = Holds(p) /\ HoldsPacked(p)' = HoldsPacked(p)
  BY DEF Holds, HoldsPacked, Deletes
<1>3. LockDiscipline'
  BY <1>2 DEF IInv, LockDiscipline
<1>4. \A w \in Writer : WriterLoop(w)' /\ WriterView(w)'
  BY DEF IInv, WriterLoop, WriterView, Checked, Cur, Current, Deletes, WithoutDeleted, Permits
<1>5. \A p \in Packer : PackerLoop(p)' /\ PackerView(p)'
  BY DEF IInv, PackerLoop, PackerView, Cur, Current, MergedWith
<1>6. \A q \in Reader : ReaderView(q)'
  BY DEF IInv, ReaderView, Cur, Current, DeletionUnderWay
<1> QED
  BY <1>1, <1>3, <1>4, <1>5, <1>6 DEF IInv

\* With one packer, every reachable state of the store satisfies IInv: each
\* call in refs.rs and pack_refs.rs may rely, at every point, on the locks it
\* took and on what it read under them.
THEOREM Invariance == SinglePacker => (Spec => []IInv)
<1> SUFFICES ASSUME SinglePacker PROVE Spec => []IInv
  OBVIOUS
<1>1. IInv /\ [Next]_vars => IInv'
  BY IInvWriter, IInvPacker, IInvReader, IInvStutter DEF Next
<1> QED
  BY IInvInit, <1>1, PTL DEF Spec

\* Type correctness, for any numbers of references, ids, writers and readers.
THEOREM TypeCorrect == SinglePacker => (Spec => []TypeOK)
<1>1. IInv => TypeOK
  BY DEF IInv
<1> QED
  BY <1>1, Invariance, PTL

\* The lock files on disk are exactly those that the calls under way account
\* for, so the cleanup paths that remove locks by name never remove another
\* call's lock.
THEOREM LocksHeld == SinglePacker => (Spec => []LockDiscipline)
<1>1. IInv => LockDiscipline
  BY DEF IInv
<1> QED
  BY <1>1, Invariance, PTL

\* The locks that delete_reference's comment promises are held while the
\* current value is checked, as long as there is a single packer.
THEOREM DeleteLocksHeld == SinglePacker => (Spec => []DeleteHoldsBothLocks)
<1>1. IInv => DeleteHoldsBothLocks
  <2> SUFFICES ASSUME IInv, NEW w \in Writer, pc[w] \in {"check", "checkPacked"},
                      Deletes(edits[w])
               PROVE  packedOwner = w /\ \A r \in DOMAIN edits[w] : owner[r] = w
    BY DEF DeleteHoldsBothLocks
  <2>1. w \in Proc /\ DOMAIN edits[w] \subseteq Ref
    BY RequestDomain DEF IInv, TypeOK, Proc
  <2>2. Holds(w) = DOMAIN edits[w] /\ HoldsPacked(w)
    BY DEF Holds, HoldsPacked
  <2> QED
    BY <2>1, <2>2 DEF IInv, LockDiscipline
<1> QED
  BY <1>1, Invariance, PTL
-------------------------------------------------------------------------------
(* Refinement: what each step looks like to a client of the store. *)

CurKept == \A r \in Ref : Cur(r)' = Cur(r)

\* The edits another transaction has applied stay the same, since it still
\* holds the lock of every reference it has not finished with.
LEMMA AppliedFrame ==
  ASSUME TypeOK, LockDiscipline, NEW v \in Writer, NEW p \in Proc \ {v},
         WriterLoop(v), Untouched(v), FilesFrame(p)
  PROVE  Applied(v)' = Applied(v)
<1>0. v \in Proc /\ DOMAIN edits[v] \subseteq Ref
  BY RequestDomain DEF TypeOK, Proc
<1>1. pc'[v] = pc[v] /\ todo'[v] = todo[v] /\ edits'[v] = edits[v]
  BY DEF Untouched
<1>2. CASE pc[v] \in {"commit", "unlock"}
  <2>1. todo[v] = Holds(v)
    BY <1>0, <1>2 DEF Holds
  <2>5. \A r \in Ref : r \in Holds(v) => loose'[r] = loose[r] /\ packed'[r] = packed[r]
    BY <1>0, HeldStable
  <2>2. \A r \in DOMAIN edits[v] : r \in todo[v] => Cur(r)' = Cur(r)
    BY <1>0, <2>1, <2>5 DEF Cur, Current
  <2>3. \A r \in DOMAIN edits[v] :
           (r \notin todo'[v] \/ (edits'[v][r].new = None /\ Cur(r)' = None))
           <=> (r \notin todo[v] \/ (edits[v][r].new = None /\ Cur(r) = None))
    BY <1>1, <2>2
  <2>4. Applied(v)' = {r \in DOMAIN edits[v] :
                          r \notin todo[v] \/ (edits[v][r].new = None /\ Cur(r) = None)}
    BY <1>1, <1>2, <2>3 DEF Applied
  <2> QED
    BY <1>2, <2>4 DEF Applied
<1>3. CASE pc[v] = "done"
  <2>1. todo[v] = {} /\ todo'[v] = {}
    BY <1>1, <1>3 DEF WriterLoop
  <2>2. Applied(v) = DOMAIN edits[v] /\ Applied(v)' = DOMAIN edits[v]
    BY <1>1, <1>3, <2>1 DEF Applied
  <2> QED
    BY <2>2
<1>4. CASE pc[v] \notin {"commit", "unlock", "done"}
  BY <1>1, <1>4 DEF Applied
<1> QED
  BY <1>2, <1>3, <1>4
\* A step that changes no value and no progress is invisible.
LEMMA Invisible ==
  ASSUME TypeOK, TypeOK', CurKept, \A v \in Writer : Applied(v)' = Applied(v),
         edits' = edits, outcome' = outcome, answer' = answer, Witnessed,
         \A q \in Reader : ReaderView(q)
  PROVE  UNCHANGED Abstract!avars
<1>1. reading' = reading
  BY DEF Witnessed
<1>2. [r \in Ref |-> Cur(r)]' = [r \in Ref |-> Cur(r)]
  BY DEF CurKept
<1>3. [w \in Writer |-> Applied(w)]' = [w \in Writer |-> Applied(w)]
  OBVIOUS
<1>4. ASSUME Observe PROVE window' = window
  <2> SUFFICES ASSUME NEW q \in Reader PROVE window'[q] = window[q]
    BY DEF TypeOK
  <2>1. CASE reading[q] = None
    BY <1>4, <2>1 DEF Observe
  <2>2. CASE reading[q] # None
    <3>1. PICK r \in Ref : r = reading[q]
      BY <2>2 DEF TypeOK
    <3>2. Cur(r) \in window[q]
      BY <2>2, <3>1 DEF ReaderView
    <3>3. Current(loose', packed', r) = Cur(r)
      BY DEF CurKept, Cur
    <3>4. window'[q] = window[q] \cup {Current(loose', packed', r)}
      BY <1>4, <2>2, <3>1 DEF Observe
    <3> QED
      BY <3>2, <3>3, <3>4
  <2> QED
    BY <2>1, <2>2
<1>5. window' = window
  BY <1>4 DEF Witnessed
<1> QED
  BY <1>1, <1>2, <1>3, <1>5 DEF Abstract!avars

\* A step in which the edits of w to the references S take effect.
LEMMA Applies ==
  ASSUME TypeOK, NEW w \in Writer, NEW S \in SUBSET Ref, S # {},
         S \subseteq DOMAIN edits[w] \ Applied(w),
         \A r \in DOMAIN edits[w] \ Applied(w) : Permits(edits[w][r], Cur(r)),
         \A r \in Ref : Cur(r)' = IF r \in S THEN Abstract!Result(edits[w][r], Cur(r))
                                             ELSE Cur(r),
         Applied(w)' = Applied(w) \cup S,
         \A v \in Writer \ {w} : Applied(v)' = Applied(v),
         edits' = edits, outcome' = outcome, answer' = answer, reading' = reading, Observe
  PROVE  Abstract!AApply(w, S)
<1> DEFINE val == [r \in Ref |-> Cur(r)]
           app == [v \in Writer |-> Applied(v)]
<1>1. \A r \in Ref : val[r] = Cur(r)
  OBVIOUS
<1>2. app[w] = Applied(w)
  OBVIOUS
<1>3. DOMAIN edits[w] \subseteq Ref
  BY RequestDomain DEF TypeOK
<1>4. \A r \in DOMAIN edits[w] \ app[w] : Abstract!Permits(edits[w][r], val[r])
  BY <1>1, <1>2, <1>3 DEF Permits, Abstract!Permits
<1>5. val' = [r \in Ref |-> IF r \in S THEN Abstract!Result(edits[w][r], val[r]) ELSE val[r]]
  OBVIOUS
<1>6. app' = [app EXCEPT ![w] = @ \cup S]
  OBVIOUS
<1>7. window' = [q \in Reader |-> IF reading[q] = None THEN window[q]
                                  ELSE window[q] \cup {val'[reading[q]]}]
  <2>1. \A q \in Reader : reading[q] # None =>
           val'[reading[q]] = Current(loose', packed', reading[q])
    BY DEF TypeOK, Cur
  <2> HIDE DEF val
  <2> QED
    BY <2>1 DEF Observe
<1> QED
  BY <1>2, <1>4, <1>5, <1>6, <1>7 DEF Abstract!AApply
\* Outside commit, unlock and done a transaction has applied nothing.
LEMMA NothingApplied ==
  ASSUME NEW w \in Writer, pc[w] \notin {"commit", "unlock", "done"}
  PROVE  Applied(w) = {}
BY DEF Applied

\* Where a commit starts, the edits that already show are the deletions of
\* references with no loose file.
LEMMA AppliedAtCommit ==
  ASSUME NEW w \in Writer, pc[w] = "commit", todo[w] = DOMAIN edits[w]
  PROVE  Applied(w) = {r \in DOMAIN edits[w] : edits[w][r].new = None /\ Cur(r) = None}
BY DEF Applied

LEMMA WriterQuiet ==
  ASSUME IInv, IInv', NEW w \in Writer, \A v \in Writer \ {w} : Applied(v)' = Applied(v),
         \/ LockNext(w) \/ LockPacked(w) \/ CheckLoose(w) \/ CheckPacked(w)
         \/ FilterPacked(w) \/ ReleaseNext(w)
  PROVE  UNCHANGED Abstract!avars
<1>0. TypeOK /\ TypeOK' /\ w \in Proc /\ WriterLoop(w) /\ \A q \in Reader : ReaderView(q)
  BY DEF IInv, Proc
<1>1. loose' = loose /\ packed' = packed /\ edits' = edits /\ outcome' = outcome /\ answer' = answer
  BY DEF LockNext, LockPacked, CheckLoose, CheckPacked, Decide, FilterPacked, ReleaseNext,
         AcquireNext, RefuseNext, AcquirePacked, RefusePacked, files, clients
<1>2. CurKept
  BY <1>1 DEF CurKept, Cur
<1>3. Witnessed
  BY WriterWitnessed DEF WriterStep
<1>4. pc[w] \notin {"commit", "unlock", "done"}
  BY DEF LockNext, LockPacked, CheckLoose, CheckPacked, FilterPacked, ReleaseNext
<1>5. \/ pc'[w] \notin {"commit", "unlock", "done"}
      \/ pc'[w] = "commit" /\ todo'[w] = DOMAIN edits[w] /\ ~Deletes(edits[w])
  <2>1. CASE LockNext(w) \/ LockPacked(w)
    BY <1>0, <1>4, <2>1 DEF LockNext, LockPacked, AcquireNext, RefuseNext, AcquirePacked,
                            RefusePacked, NextOr, Goto, TypeOK
  <2>2. ASSUME NEW v, Decide(w, v), pc[w] \in {"check", "checkPacked"}
        PROVE  \/ pc'[w] \notin {"commit", "unlock", "done"}
               \/ pc'[w] = "commit" /\ todo'[w] = DOMAIN edits[w] /\ ~Deletes(edits[w])
    BY <1>0, <2>2 DEF Decide, Goto, Visit, TypeOK
  <2>3. CASE CheckLoose(w) \/ CheckPacked(w)
    BY <1>0, <1>4, <2>2, <2>3 DEF CheckLoose, CheckPacked, Goto, TypeOK
  <2>4. CASE FilterPacked(w) \/ ReleaseNext(w)
    BY <1>0, <1>4, <2>4 DEF FilterPacked, ReleaseNext, Goto, TypeOK
  <2> QED
    BY <2>1, <2>3, <2>4
<1>6. Applied(w)' = Applied(w)
  <2>1. Applied(w) = {}
    BY <1>4, NothingApplied
  <2>2. CASE pc'[w] \notin {"commit", "unlock", "done"}
    BY <2>1, <2>2 DEF Applied
  <2>3. CASE pc'[w] = "commit" /\ todo'[w] = DOMAIN edits[w] /\ ~Deletes(edits[w])
    BY <1>1, <2>1, <2>3 DEF Applied, Deletes
  <2> QED
    BY <1>5, <2>2, <2>3
<1> QED
  BY <1>0, <1>1, <1>2, <1>3, <1>6, Invisible

LEMMA SubmitRefines ==
  ASSUME IInv, IInv', NEW w \in Writer, \A v \in Writer \ {w} : Applied(v)' = Applied(v),
         Submit(w)
  PROVE  Abstract!ASubmit(w)
<1>0. TypeOK /\ WriterLoop(w) /\ w \in Proc
  BY DEF IInv, Proc
<1>1. edits[w] = NoEdits /\ pc'[w] = "lock" /\ pc[w] = "idle"
  BY <1>0 DEF Submit, WriterLoop, Goto, TypeOK
<1>2. Applied(w) = {} /\ Applied(w)' = {}
  BY <1>1 DEF Applied
<1>3. [v \in Writer |-> Applied(v)]' = [v \in Writer |-> Applied(v)]
  BY <1>2
<1>4. [r \in Ref |-> Cur(r)]' = [r \in Ref |-> Cur(r)]
  BY DEF Submit, files, Cur
<1> QED
  BY <1>1, <1>3, <1>4 DEF Submit, Abstract!ASubmit, Abstract!NoEdits, NoEdits

LEMMA ReturnRefines ==
  ASSUME IInv, IInv', NEW w \in Writer, \A v \in Writer \ {w} : Applied(v)' = Applied(v),
         Return(w)
  PROVE  Abstract!ASucceed(w)
<1>0. TypeOK /\ WriterLoop(w) /\ w \in Proc
  BY DEF IInv, Proc
<1>1. edits[w] # NoEdits /\ pc'[w] = "idle" /\ pc[w] = "done" /\ todo[w] = {}
  BY <1>0 DEF Return, WriterLoop, Goto, TypeOK
<1>2. Applied(w) = DOMAIN edits[w] /\ Applied(w)' = {}
  BY <1>1 DEF Applied
<1> DEFINE app == [v \in Writer |-> Applied(v)]
<1>3. app' = [app EXCEPT ![w] = {}] /\ app[w] = DOMAIN edits[w]
  BY <1>2
<1>4. [r \in Ref |-> Cur(r)]' = [r \in Ref |-> Cur(r)]
  BY DEF Return, files, Cur
<1> QED
  BY <1>1, <1>3, <1>4 DEF Return, Abstract!ASucceed, Abstract!NoEdits, NoEdits

LEMMA ReleaseEndRefines ==
  ASSUME IInv, IInv', NEW w \in Writer, \A v \in Writer \ {w} : Applied(v)' = Applied(v),
         ReleaseEnd(w)
  PROVE  Abstract!AFail(w)
<1>0. TypeOK /\ WriterLoop(w) /\ w \in Proc
  BY DEF IInv, Proc
<1>1. edits[w] # NoEdits /\ pc'[w] = "idle" /\ pc[w] \in {"release", "releaseBoth"}
  BY <1>0 DEF ReleaseEnd, Abandon, WriterLoop, Goto, TypeOK
<1>2. Applied(w) = {} /\ Applied(w)' = {}
  BY <1>1 DEF Applied
<1>3. [v \in Writer |-> Applied(v)]' = [v \in Writer |-> Applied(v)]
  BY <1>2
<1>4. [r \in Ref |-> Cur(r)]' = [r \in Ref |-> Cur(r)]
  BY DEF ReleaseEnd, Cur
<1>5. edits' = [edits EXCEPT ![w] = NoEdits] /\ outcome' = [outcome EXCEPT ![w] = "error"]
  BY <1>0 DEF ReleaseEnd, Abandon, TypeOK
<1>6. [v \in Writer |-> Applied(v)][w] = {}
  BY <1>2
<1> QED
  BY <1>1, <1>3, <1>4, <1>5, <1>6 DEF ReleaseEnd, Abstract!AFail, Abstract!NoEdits, NoEdits
LEMMA PublishPackedRefines ==
  ASSUME IInv, IInv', NEW w \in Writer, \A v \in Writer \ {w} : Applied(v)' = Applied(v),
         PublishPacked(w)
  PROVE  (\E S \in SUBSET Ref : Abstract!AApply(w, S)) \/ UNCHANGED Abstract!avars
<1>0. /\ TypeOK /\ TypeOK' /\ WriterLoop(w) /\ WriterView(w) /\ w \in Proc
      /\ \A q \in Reader : ReaderView(q)
      /\ DOMAIN edits[w] \subseteq Ref /\ \A r \in DOMAIN edits[w] : edits[w][r] \in Edit
  BY RequestDomain DEF IInv, Proc, TypeOK
<1>1. /\ pc[w] = "publishPacked" /\ pc'[w] = "commit" /\ todo' = todo /\ todo[w] = DOMAIN edits[w]
      /\ packed' = WithoutDeleted(edits[w], packed) /\ loose' = loose
      /\ edits' = edits /\ outcome' = outcome /\ answer' = answer /\ reading' = reading
      /\ Observe
  BY <1>0 DEF PublishPacked, PublishEntries, WriterLoop, WriterView, Goto, TypeOK
<1> DEFINE S == {r \in DOMAIN edits[w] : edits[w][r].new = None /\ loose[r] = None}
<1>2. S \in SUBSET Ref
  BY <1>0
<1>3. Applied(w) = {}
  BY <1>1, NothingApplied
<1>4. \A r \in DOMAIN edits[w] : edits[w][r].new = None => Cur(r)' = loose[r]
  BY <1>0, <1>1 DEF Cur, Current, WithoutDeleted, TypeOK
<1>5. Applied(w)' = S
  <2>1. Applied(w)' = {r \in DOMAIN edits[w] : edits[w][r].new = None /\ Cur(r)' = None}
    BY <1>1 DEF Applied
  <2> QED
    BY <1>4, <2>1
<1>6. ASSUME NEW r \in Ref
      PROVE  Cur(r)' = IF r \in S THEN Abstract!Result(edits[w][r], Cur(r)) ELSE Cur(r)
  <2>1. CASE r \in S
    <3>1. Abstract!Result(edits[w][r], Cur(r)) = None
      BY <2>1 DEF Abstract!Result, Value
    <3>2. Cur(r)' = None
      BY <1>4, <2>1
    <3> QED
      BY <2>1, <3>1, <3>2
  <2>2. CASE r \in DOMAIN edits[w] /\ edits[w][r].new = None /\ loose[r] # None
    <3>1. Cur(r)' = loose[r] /\ Cur(r) = loose[r]
      BY <1>4, <2>2 DEF Cur, Current
    <3> QED
      BY <2>2, <3>1
  <2>3. CASE ~(r \in DOMAIN edits[w] /\ edits[w][r].new = None)
    <3>1. packed'[r] = packed[r]
      BY <1>1, <2>3 DEF WithoutDeleted
    <3> QED
      BY <1>1, <2>3, <3>1 DEF Cur, Current
  <2> QED
    BY <2>1, <2>2, <2>3
<1>7. \A r \in DOMAIN edits[w] : Permits(edits[w][r], Cur(r))
  BY <1>1 DEF IInv, WriterView, Checked
<1>8. CASE S = {}
  <2>1. CurKept
    BY <1>6, <1>8 DEF CurKept
  <2>2. \A v \in Writer : Applied(v)' = Applied(v)
    BY <1>3, <1>5, <1>8
  <2>3. Witnessed
    BY <1>1 DEF Witnessed
  <2> QED
    BY <1>0, <1>1, <2>1, <2>2, <2>3, Invisible
<1>9. CASE S # {}
  <2>1. S \subseteq DOMAIN edits[w] \ Applied(w) /\ Applied(w)' = Applied(w) \cup S
    BY <1>3, <1>5
  <2> HIDE DEF S
  <2>2. Abstract!AApply(w, S)
    BY <1>0, <1>1, <1>2, <1>6, <1>7, <1>9, <2>1, Applies
  <2> QED
    BY <1>2, <2>2
<1> QED
  BY <1>8, <1>9

\* While a transaction commits, the preconditions of all the edits still
\* outstanding hold.
LEMMA Outstanding ==
  ASSUME NEW w \in Writer, WriterView(w), pc[w] \in {"commit", "unlock"}
  PROVE  \A x \in DOMAIN edits[w] \ Applied(w) : Permits(edits[w][x], Cur(x))
<1>1. \A x \in todo[w] : IF edits[w][x].new = None
                           THEN packed[x] = None /\ (loose[x] # None => Checked(w, x))
                           ELSE Checked(w, x)
  BY DEF WriterView
<1> QED
  BY <1>1 DEF Applied, Cur, Current, Checked

LEMMA CommitNextRefines ==
  ASSUME IInv, IInv', NEW w \in Writer, \A v \in Writer \ {w} : Applied(v)' = Applied(v),
         CommitNext(w)
  PROVE  (\E S \in SUBSET Ref : Abstract!AApply(w, S)) \/ UNCHANGED Abstract!avars
<1>0. /\ TypeOK /\ TypeOK' /\ WriterLoop(w) /\ WriterView(w) /\ w \in Proc
      /\ \A q \in Reader : ReaderView(q)
      /\ DOMAIN edits[w] \subseteq Ref /\ \A x \in DOMAIN edits[w] : edits[w][x] \in Edit
  BY RequestDomain DEF IInv, Proc, TypeOK
<1>1. PICK r \in Ref : r = Least(todo[w]) /\ r \in todo[w] /\ r \in DOMAIN edits[w]
  BY <1>0, LeastIn DEF CommitNext, WriterLoop, TypeOK
<1> DEFINE e == edits[w][r]
           D == DOMAIN edits[w]
<1>2. /\ pc[w] = "commit" /\ packed' = packed /\ edits' = edits /\ outcome' = outcome
      /\ answer' = answer /\ reading' = reading /\ Observe
      /\ \A x \in Ref : x # r => loose'[x] = loose[x]
  BY <1>0, <1>1 DEF CommitNext, TypeOK
<1>3. \A x \in Ref : x # r => Cur(x)' = Cur(x)
  BY <1>2 DEF Cur, Current
<1>4. \A x \in todo[w] : IF edits[w][x].new = None
                           THEN packed[x] = None /\ (loose[x] # None => Checked(w, x))
                           ELSE Checked(w, x)
  BY <1>2, <1>0 DEF WriterView
<1>5. \A x \in D \ Applied(w) : Permits(edits[w][x], Cur(x))
  BY <1>0, <1>2, Outstanding
<1>6. /\ pc'[w] \in {"commit", "unlock", "done"}
      /\ \/ todo'[w] = todo[w] \ {r} /\ e.new # None
         \/ todo'[w] = todo[w] /\ e.new = None
  BY <1>0, <1>1, <1>2 DEF CommitNext, NextOr, Goto, Visit, TypeOK, Value
<1>7. Cur(r)' = Abstract!Result(e, Cur(r))
  <2>1. CASE e.new \in Id
    <3>1. loose'[r] = staged[r]
      BY <1>0, <1>1, <2>1 DEF CommitNext, TypeOK, Value
    <3>2. staged[r] = e.new
      BY <1>1, <1>4, <2>1 DEF Checked
    <3>3. Abstract!Result(e, Cur(r)) = e.new
      BY <2>1 DEF Abstract!Result, Value
    <3> QED
      BY <2>1, <3>1, <3>2, <3>3 DEF Cur, Current
  <2>2. CASE e.new = None
    <3>1. loose'[r] = None
      BY <1>0, <1>1, <2>2 DEF CommitNext, TypeOK, Value
    <3>2. packed'[r] = None
      BY <1>1, <1>2, <1>4, <2>2
    <3>3. Abstract!Result(e, Cur(r)) = None
      BY <2>2 DEF Abstract!Result, Value
    <3> QED
      BY <3>1, <3>2, <3>3 DEF Cur, Current
  <2>3. CASE e.new = Keep
    <3>1. loose' = loose
      BY <1>1, <2>3 DEF CommitNext, Value
    <3>2. Abstract!Result(e, Cur(r)) = Cur(r)
      BY <2>3 DEF Abstract!Result
    <3> QED
      BY <1>2, <3>1, <3>2 DEF Cur
  <2> QED
    BY <1>1, <2>1, <2>2, <2>3 DEF CommitNext
<1>8. Applied(w)' = Applied(w) \cup {r}
  <2>1. Applied(w) = {x \in D : x \notin todo[w] \/ (edits[w][x].new = None /\ Cur(x) = None)}
    BY <1>2 DEF Applied
  <2>2. Applied(w)' = {x \in D : x \notin todo'[w] \/ (edits[w][x].new = None /\ Cur(x)' = None)}
    BY <1>2, <1>6 DEF Applied
  <2>3. e.new = None => Cur(r)' = None
    BY <1>7 DEF Abstract!Result, Value
  <2>4. r \in Applied(w)'
    BY <1>1, <1>6, <2>2, <2>3
  <2>5. ASSUME NEW x \in D, x # r
        PROVE  x \in Applied(w)' <=> x \in Applied(w)
    <3>1. Cur(x)' = Cur(x) /\ (x \in todo'[w] <=> x \in todo[w])
      BY <1>0, <1>3, <1>6, <2>5
    <3> QED
      BY <2>1, <2>2, <3>1
  <2> QED
    BY <1>1, <2>1, <2>2, <2>4, <2>5
<1>9. CASE r \in Applied(w)
  <2>1. e.new = None /\ Cur(r) = None
    BY <1>1, <1>2, <1>9 DEF Applied
  <2>2. CurKept
    BY <1>3, <1>7, <2>1 DEF CurKept, Abstract!Result, Value
  <2>3. \A v \in Writer : Applied(v)' = Applied(v)
    BY <1>8, <1>9
  <2>4. Witnessed
    BY <1>2 DEF Witnessed
  <2> QED
    BY <1>0, <1>2, <2>2, <2>3, <2>4, Invisible
<1>10. CASE r \notin Applied(w)
  <2>1. {r} \in SUBSET Ref /\ {r} # {} /\ {r} \subseteq D \ Applied(w)
    BY <1>1, <1>10
  <2>2. \A x \in Ref : Cur(x)' = IF x \in {r} THEN Abstract!Result(edits[w][x], Cur(x)) ELSE Cur(x)
    BY <1>3, <1>7
  <2>3. Abstract!AApply(w, {r})
    BY <1>0, <1>2, <1>5, <1>8, <2>1, <2>2, Applies
  <2> QED
    BY <2>1, <2>3
<1> QED
  BY <1>9, <1>10

LEMMA UnlockDeletedRefines ==
  ASSUME IInv, IInv', NEW w \in Writer, \A v \in Writer \ {w} : Applied(v)' = Applied(v),
         UnlockDeleted(w)
  PROVE  UNCHANGED Abstract!avars
<1>0. /\ TypeOK /\ TypeOK' /\ WriterLoop(w) /\ WriterView(w) /\ w \in Proc
      /\ \A q \in Reader : ReaderView(q)
  BY DEF IInv, Proc
<1>1. PICK r \in Ref : r = Least(todo[w]) /\ r \in todo[w] /\ r \in DOMAIN edits[w]
  BY <1>0, LeastIn DEF UnlockDeleted, WriterLoop, TypeOK
<1>2. /\ pc[w] = "unlock" /\ pc'[w] \in {"commit", "done"} /\ todo'[w] = todo[w] \ {r}
      /\ loose' = loose /\ packed' = packed
      /\ edits' = edits /\ outcome' = outcome /\ answer' = answer
  BY <1>0, <1>1 DEF UnlockDeleted, Goto, Visit, TypeOK, clients
<1>3. CurKept
  BY <1>2 DEF CurKept, Cur
<1>4. edits[w][r].new = None /\ Cur(r) = None
  BY <1>0, <1>1, <1>2 DEF WriterView, Cur, Current
<1>5. Applied(w)' = Applied(w)
  <2>1. \A x \in DOMAIN edits[w] :
           (x \notin todo'[w] \/ (edits[w][x].new = None /\ Cur(x)' = None))
           <=> (x \notin todo[w] \/ (edits[w][x].new = None /\ Cur(x) = None))
    BY <1>2, <1>4 DEF Cur
  <2> QED
    BY <1>2, <2>1 DEF Applied
<1>6. Witnessed
  BY WriterWitnessed DEF WriterStep
<1> QED
  BY <1>0, <1>2, <1>3, <1>5, <1>6, Invisible
\* A packer changes no value: what it publishes is what the references already
\* resolve to, and it removes a loose file only where packed-refs has the same id.
LEMMA PackerKeeps ==
  ASSUME TypeOK, NEW p \in Packer, PackerLoop(p), PackerView(p), PackerStep(p)
  PROVE  CurKept /\ \A r \in Ref : loose'[r] # loose[r] => r \in Holds(p)
<1>0. p \in Proc /\ p \notin Writer
  BY DEF Proc
<1>1. CASE loose' = loose /\ packed' = packed
  BY <1>1 DEF CurKept, Cur
<1>2. CASE PackPublish(p)
  <2>1. /\ packed' = MergedWith(items[p], packed) /\ loose' = loose
        /\ \A r \in DOMAIN items[p] : Cur(r) = items[p][r]
    BY <1>2 DEF PackPublish, PublishEntries, PackerView
  <2> SUFFICES ASSUME NEW r \in Ref PROVE Cur(r)' = Cur(r)
    BY <2>1 DEF CurKept
  <2>2. CASE r \in DOMAIN items[p]
    <3>1. packed'[r] = Cur(r)
      BY <2>1, <2>2 DEF MergedWith
    <3> QED
      BY <2>1, <3>1 DEF Cur, Current
  <2>3. CASE r \notin DOMAIN items[p]
    <3>1. packed'[r] = packed[r]
      BY <2>1, <2>3 DEF MergedWith
    <3> QED
      BY <2>1, <3>1 DEF Cur, Current
  <2> QED
    BY <2>2, <2>3
<1>3. CASE PruneNext(p)
  <2>1. PICK r \in Ref : r = Least(todo[p]) /\ r \in todo[p] /\ r \in Holds(p)
    BY <1>0, <1>3, LeastIn DEF PruneNext, PackerLoop, Holds, TypeOK
  <2>2. /\ loose[r] = items[p][r] /\ packed[r] = items[p][r] /\ packed' = packed
        /\ loose' = loose \/ loose' = [loose EXCEPT ![r] = None]
    BY <1>3, <2>1 DEF PruneNext, PackerView
  <2>3. \A x \in Ref : x # r => loose'[x] = loose[x]
    BY <2>2 DEF TypeOK
  <2>4. \A x \in Ref : Current(loose', packed', x) = Current(loose, packed, x)
    BY <2>1, <2>2, <2>3 DEF Current, TypeOK
  <2> QED
    BY <2>1, <2>3, <2>4 DEF CurKept, Cur
<1>4. CASE StartPack(p) \/ ScanNext(p) \/ PackLockNext(p) \/ PackLockPacked(p)
  BY <1>1, <1>4 DEF StartPack, ScanNext, PackLockNext, PackLockPacked, AcquireNext, RefuseNext,
                    AcquirePacked, RefusePacked, files
<1>5. CASE PackMerge(p) \/ PackUnlockNext(p) \/ ReleaseNext(p) \/ ReleaseEnd(p)
  BY <1>1, <1>5 DEF PackMerge, PackUnlockNext, ReleaseNext, ReleaseEnd
<1> QED
  BY <1>2, <1>3, <1>4, <1>5 DEF PackerStep

LEMMA PackerRefines ==
  ASSUME IInv, IInv', NEW p \in Packer, PackerStep(p)
  PROVE  UNCHANGED Abstract!avars
<1>0. /\ TypeOK /\ TypeOK' /\ PackerLoop(p) /\ PackerView(p) /\ p \in Proc /\ p \notin Writer
      /\ \A q \in Reader : ReaderView(q)
  BY DEF IInv, Proc
<1>1. ASSUME NEW v \in Writer PROVE Applied(v)' = Applied(v)
  <2>1. v \in Proc \ {p} /\ p \in Proc \ {v} /\ LockDiscipline /\ WriterLoop(v)
    BY <1>0 DEF IInv, Proc
  <2>2. Untouched(v) /\ FilesFrame(p)
    BY <1>0, <2>1, PackerFrame, PackerFilesFrame
  <2> QED
    BY <1>0, <2>1, <2>2, AppliedFrame
<1>2. edits' = edits /\ outcome' = outcome /\ answer' = answer
  <2>1. Abandon(p) => edits' = edits /\ outcome' = outcome
    BY <1>0 DEF Abandon, TypeOK
  <2>2. CASE StartPack(p) \/ ScanNext(p) \/ PackLockNext(p) \/ PackLockPacked(p)
    BY <2>1, <2>2 DEF StartPack, ScanNext, PackLockNext, PackLockPacked, clients
  <2>3. CASE PackMerge(p) \/ PackPublish(p) \/ PruneNext(p) \/ PackUnlockNext(p)
    BY <2>3 DEF PackMerge, PackPublish, PruneNext, PackUnlockNext, clients
  <2>4. CASE ReleaseNext(p) \/ ReleaseEnd(p)
    BY <2>1, <2>4 DEF ReleaseNext, ReleaseEnd, clients
  <2> QED
    BY <2>2, <2>3, <2>4 DEF PackerStep
<1> QED
  BY <1>0, <1>1, <1>2, PackerKeeps, PackerWitnessed, Invisible

LEMMA WriterRefines ==
  ASSUME IInv, IInv', NEW w \in Writer, WriterStep(w)
  PROVE  Abstract!ANext \/ UNCHANGED Abstract!avars
<1>1. ASSUME NEW v \in Writer \ {w} PROVE Applied(v)' = Applied(v)
  <2>1. /\ v \in Proc \ {w} /\ w \in Proc \ {v} /\ LockDiscipline /\ TypeOK
        /\ WriterLoop(v) /\ WriterLoop(w) /\ WriterView(w)
    BY DEF IInv, Proc
  <2>2. Untouched(v) /\ FilesFrame(w)
    BY <2>1, WriterFrame, WriterFilesFrame
  <2> QED
    BY <2>1, <2>2, AppliedFrame
<1>2. CASE Submit(w)
  BY <1>1, <1>2, SubmitRefines DEF Abstract!ANext
<1>3. CASE LockNext(w) \/ LockPacked(w) \/ CheckLoose(w) \/ CheckPacked(w) \/ FilterPacked(w)
           \/ ReleaseNext(w)
  BY <1>1, <1>3, WriterQuiet
<1>4. CASE PublishPacked(w)
  BY <1>1, <1>4, PublishPackedRefines DEF Abstract!ANext
<1>5. CASE CommitNext(w)
  BY <1>1, <1>5, CommitNextRefines DEF Abstract!ANext
<1>6. CASE UnlockDeleted(w)
  BY <1>1, <1>6, UnlockDeletedRefines
<1>7. CASE Return(w)
  BY <1>1, <1>7, ReturnRefines DEF Abstract!ANext
<1>8. CASE ReleaseEnd(w)
  BY <1>1, <1>8, ReleaseEndRefines DEF Abstract!ANext
<1> QED
  BY <1>2, <1>3, <1>4, <1>5, <1>6, <1>7, <1>8 DEF WriterStep

LEMMA ReaderRefines ==
  ASSUME IInv, IInv', NEW q \in Reader, ReaderStep(q)
  PROVE  Abstract!ANext \/ UNCHANGED Abstract!avars
<1>0. TypeOK /\ ReaderView(q) /\ q \in Proc
  BY DEF IInv, Proc
<1>1. loose' = loose /\ packed' = packed /\ files' = files
  BY ReaderFilesFrame DEF files
<1>2. [r \in Ref |-> Cur(r)]' = [r \in Ref |-> Cur(r)]
  BY <1>1 DEF Cur
<1>3. ASSUME NEW v \in Writer PROVE Applied(v)' = Applied(v)
  <2>1. v \in Proc \ {q} /\ q \in Proc \ {v} /\ LockDiscipline /\ TypeOK /\ WriterLoop(v)
    BY DEF IInv, Proc
  <2> QED
    BY <2>1, ReaderFrame, ReaderFilesFrame, AppliedFrame
<1>4. [v \in Writer |-> Applied(v)]' = [v \in Writer |-> Applied(v)]
  BY <1>3
<1>5. edits' = edits /\ outcome' = outcome
  BY DEF ReaderStep, StartRead, ReadLoose, ReadPacked
<1>6. CASE StartRead(q)
  <2>1. reading[q] = None
    BY <1>0, <1>6 DEF StartRead, ReaderView
  <2>2. Abstract!AStartRead(q)
    BY <1>2, <1>4, <1>5, <1>6, <2>1 DEF StartRead, Abstract!AStartRead
  <2> QED
    BY <2>2 DEF Abstract!ANext
<1>7. ASSUME NEW v, Answer(q, v), reading[q] # None,
             v \in window[q] \/ (v = None /\ DeletionUnderWay(reading[q]))
      PROVE  Abstract!ANext
  <2>1. v \in window[q] \/ (v = None /\ Abstract!BeingDeleted(reading[q]))
    <3> SUFFICES ASSUME v = None, DeletionUnderWay(reading[q]), None \notin window[q]
                 PROVE  Abstract!BeingDeleted(reading[q])
      BY <1>7
    <3>1. PICK r \in Ref : r = reading[q]
      BY <1>0, <1>7 DEF TypeOK
    <3>2. PICK w \in Writer : /\ pc[w] \in {"commit", "unlock"}
                              /\ r \in todo[w] /\ edits[w][r].new = None
      BY <3>1 DEF DeletionUnderWay
    <3>3. WriterView(w) /\ r \in DOMAIN edits[w]
      BY <3>2 DEF IInv, WriterLoop
    <3>4. Cur(r) # None
      BY <1>0, <1>7, <3>1 DEF ReaderView
    <3>5. r \notin Applied(w)
      BY <3>2, <3>4 DEF Applied
    <3> DEFINE val == [x \in Ref |-> Cur(x)]
               app == [x \in Writer |-> Applied(x)]
    <3>6. DOMAIN edits[w] \subseteq Ref
      BY <1>0, RequestDomain DEF TypeOK
    <3>7. \A x \in DOMAIN edits[w] \ app[w] : Abstract!Permits(edits[w][x], val[x])
      BY <3>2, <3>3, <3>6, Outstanding DEF Permits, Abstract!Permits
    <3>8. r \in DOMAIN edits[w] \ app[w]
      BY <3>3, <3>5
    <3> QED
      BY <3>1, <3>2, <3>7, <3>8 DEF Abstract!BeingDeleted
  <2>2. v \in window[q] \cup (IF Abstract!BeingDeleted(reading[q]) THEN {None} ELSE {})
    BY <1>7, <2>1
  <2>3. Abstract!AEndRead(q)
    BY <1>2, <1>4, <1>5, <1>7, <2>2 DEF Answer, Abstract!AEndRead
  <2> QED
    BY <2>3 DEF Abstract!ANext
<1>8. CASE ReadLoose(q)
  <2>1. CASE loose[reading[q]] # None /\ Answer(q, loose[reading[q]])
    <3>1. reading[q] # None /\ loose[reading[q]] \in window[q]
      BY <1>0, <1>8, <2>1 DEF ReadLoose, ReaderView, Cur, Current
    <3> QED
      BY <1>7, <2>1, <3>1
  <2>2. CASE UNCHANGED <<reading, window, answer>>
    BY <1>2, <1>4, <1>5, <2>2 DEF Abstract!avars
  <2> QED
    BY <1>8, <2>1, <2>2 DEF ReadLoose
<1>9. CASE ReadPacked(q)
  <2>1. /\ reading[q] # None /\ Answer(q, packed[reading[q]])
        /\ \/ packed[reading[q]] \in window[q]
           \/ packed[reading[q]] = None /\ DeletionUnderWay(reading[q])
    BY <1>0, <1>9 DEF ReadPacked, ReaderView
  <2> QED
    BY <1>7, <2>1
<1> QED
  BY <1>6, <1>8, <1>9 DEF ReaderStep

LEMMA InitRefines == Init => Abstract!AInit
<1> SUFFICES ASSUME Init PROVE Abstract!AInit
  OBVIOUS
<1>1. [r \in Ref |-> Cur(r)] \in [Ref -> Value]
  BY DEF Init, Cur, Current
<1>2. [w \in Writer |-> Applied(w)] = [w \in Writer |-> {}]
  BY DEF Init, Applied, Proc
<1> QED
  BY <1>1, <1>2 DEF Init, Abstract!AInit, Abstract!Value, Value, Abstract!NoEdits, NoEdits

LEMMA StutterRefines == UNCHANGED vars => UNCHANGED Abstract!avars
BY DEF vars, files, clients, Abstract!avars, Cur, Applied

\* With one packer, the files backend implements the abstract store: whatever
\* the interleaving of transactions, packing and reads, and wherever a process
\* stops for ever, a transaction changes nothing or commits under preconditions
\* that still hold when it publishes, and packing and pruning change no value.
THEOREM Refinement == SinglePacker => (Spec => ImplementsAtomicRefs)
<1> SUFFICES ASSUME SinglePacker PROVE Spec => ImplementsAtomicRefs
  OBVIOUS
<1>1. IInv /\ IInv' /\ [Next]_vars => [Abstract!ANext]_Abstract!avars
  BY WriterRefines, PackerRefines, ReaderRefines, StutterRefines DEF Next
<1>2. Spec => []IInv
  BY Invariance
<1> QED
  BY <1>1, <1>2, InitRefines, PTL DEF Spec, ImplementsAtomicRefs, Abstract!ASpec

\* With one packer, no step of pack_refs changes what any reference resolves to,
\* and none touches the loose file of a reference whose lock it does not hold.
THEOREM PackingInvisible == SinglePacker => (Spec => PackingIsInvisible)
<1> SUFFICES ASSUME SinglePacker PROVE Spec => PackingIsInvisible
  OBVIOUS
<1>1. IInv /\ [Next]_vars =>
        [\A p \in Packer : PackerStep(p) =>
            \A r \in Ref : /\ Cur(r)' = Cur(r)
                           /\ loose'[r] # loose[r] => owner[r] = p]_vars
  <2> SUFFICES ASSUME IInv, NEW p \in Packer, PackerStep(p), NEW r \in Ref
               PROVE  Cur(r)' = Cur(r) /\ (loose'[r] # loose[r] => owner[r] = p)
    OBVIOUS
  <2>1. TypeOK /\ PackerLoop(p) /\ PackerView(p) /\ p \in Proc
    BY DEF IInv, Proc
  <2>2. r \in Holds(p) => owner[r] = p
    BY <2>1 DEF IInv, LockDiscipline
  <2> QED
    BY <2>1, <2>2, PackerKeeps DEF CurKept
<1>2. Spec => []IInv
  BY Invariance
<1> QED
  BY <1>1, <1>2, PTL DEF Spec, PackingIsInvisible

-------------------------------------------------------------------------------
(***************************************************************************)
(* What a listing of references contains, for any numbers of references,   *)
(* writers and readers, beside one packer that does not prune.             *)
(***************************************************************************)

\* No transaction deletes a reference.
NoDeletions == \A e \in Requests : ~ Deletes(e)

\* pack_refs removes no loose files: what moves from a loose file into packed-refs
\* while a listing is between the two is missed.
NoPruning == \A p \in Packer : ~ prune[p]

-------------------------------------------------------------------------------
(* The files under a listing. *)

\* A reference that is loose stays loose.
LEMMA LooseStays ==
  ASSUME NoDeletions, NoPruning, IInv, Next, NEW r \in Ref, loose[r] # None
  PROVE  loose'[r] # None
<1>0. /\ TypeOK /\ loose \in [Ref -> Value]
      /\ \A w \in Writer : WriterLoop(w) /\ WriterView(w)
      /\ \A p \in Packer : PackerLoop(p)
  BY DEF IInv, TypeOK
<1>1. ASSUME NEW w \in Writer, WriterStep(w) PROVE loose'[r] # None
  <2>1. CASE CommitNext(w)
    <3> DEFINE s == Least(todo[w])
               e == edits[w][s]
    <3>1. pc[w] = "commit" /\ todo[w] # {} /\ todo[w] \subseteq DOMAIN edits[w]
      BY <1>0, <2>1 DEF CommitNext, WriterLoop
    <3>2. s \in todo[w] /\ s \in DOMAIN edits[w]
      BY <1>0, <3>1, LeastIn, RequestDomain DEF TypeOK, Proc
    <3>3. e.new # None
      <4>1. edits[w] \in Requests
        BY <1>0, <3>2 DEF TypeOK, NoEdits
      <4> QED
        BY <3>2, <4>1 DEF NoDeletions, Deletes
    <3>4. e.new \in Id => staged[s] = e.new
      BY <1>0, <3>1, <3>2, <3>3 DEF WriterView, Checked
    <3>5. \/ e.new \in Id /\ loose' = [loose EXCEPT ![s] = staged[s]]
          \/ loose' = loose
      BY <2>1, <3>3 DEF CommitNext
    <3> QED
      BY <1>0, <3>4, <3>5, RefStoreAssumption
  <2>2. CASE ~ CommitNext(w)
    <3>1. loose' = loose
      BY <1>1, <2>2 DEF WriterStep, Submit, LockNext, LockPacked, CheckLoose, CheckPacked,
         FilterPacked, PublishPacked, PublishEntries, UnlockDeleted, Return, ReleaseNext,
         ReleaseEnd, AcquireNext, RefuseNext, AcquirePacked, RefusePacked, Decide, files
    <3> QED
      BY <3>1
  <2> QED
    BY <2>1, <2>2
<1>2. ASSUME NEW p \in Packer, PackerStep(p) PROVE loose' = loose
  <2>1. ~ PruneNext(p)
    BY <1>0 DEF NoPruning, PruneNext, PackerLoop
  <2> QED
    BY <1>2, <2>1 DEF PackerStep, StartPack, ScanNext, PackLockNext, PackLockPacked, PackMerge,
       PackPublish, PublishEntries, PackUnlockNext, ReleaseNext, ReleaseEnd, AcquireNext,
       RefuseNext, AcquirePacked, RefusePacked, files
<1>3. ASSUME NEW q \in Reader, ReaderStep(q) PROVE loose' = loose
  BY <1>3, ReaderFilesFrame DEF files
<1> QED
  BY <1>1, <1>2, <1>3 DEF Next

-------------------------------------------------------------------------------
(* The inductive invariant. *)

\* A loose file that the listing has not read yet.
ToVisit(r) == loose[r] # None /\ (phase = "directory" \/ File(r) \in children)

ListInv ==
    /\ phase \in {"idle", "directory", "children", "listed", "failed"}
    /\ listing \in [Ref -> Value] /\ lasting \subseteq Ref
    /\ phase # "idle" => \A r \in Ref : Cur(r) \in had[r]
    /\ phase = "listed" => children = {}
    /\ phase \in {"directory", "children", "listed"} => \A r \in Ref :
          /\ listing[r] # None => listing[r] \in had[r] \/ ToVisit(r)
          /\ r \in lasting => listing[r] # None \/ ToVisit(r)

LEMMA CallerStep ==
  ASSUME TypeOK, ListInv, UNCHANGED vars,
         ListPacked \/ ListDirectory \/ ListChild \/ ListEnd \/ ListReset
  PROVE  ListInv'
<1>0. /\ loose' = loose /\ packed' = packed
      /\ loose \in [Ref -> Value] /\ packed \in [Ref -> Value]
      /\ \A r : Cur(r)' = Cur(r)
  BY DEF vars, files, TypeOK, Cur
<1>1. CASE ListPacked
  <2>1. \A r \in Ref : packed[r] # None => packed[r] = Cur(r) \/ loose[r] # None
    BY DEF Cur, Current
  <2>2. \A r \in Ref : Cur(r) # None => packed[r] # None \/ loose[r] # None
    BY DEF Cur, Current
  <2> QED
    BY <1>0, <1>1, <2>1, <2>2 DEF ListPacked, ListInv, ToVisit
<1>2. CASE ListDirectory
  <2>1. \A r \in Ref : loose[r] # None => File(r) \in children'
    BY <1>2 DEF ListDirectory
  <2> QED
    BY <1>0, <1>2, <2>1 DEF ListDirectory, ListInv, ToVisit
<1>3. CASE ListChild
  <2>1. \A r, s : (File(r) = File(s) => r = s) /\ File(r) # Lock(s)
    BY DEF File, Lock
  <2>2. PICK r \in Ref :
          \/ /\ children' = children \ {File(r)}
             /\ \/ loose[r] # None /\ Override(r) /\ UNCHANGED phase
                \/ loose[r] = None /\ phase' = "failed" /\ UNCHANGED listing
          \/ /\ children' = children \ {Lock(r)}
             /\ phase' = IF owner[r] # None THEN phase ELSE "failed"
             /\ SkipLock(r)
    BY <1>3 DEF ListChild
  <2>3. phase = "children" /\ lasting' = lasting /\ had' = had
    BY <1>3 DEF ListChild
  <2>4. CASE phase' = "failed"
    BY <1>0, <2>2, <2>3, <2>4 DEF ListInv, SkipLock, Override
  <2>5. CASE /\ children' = children \ {File(r)}
             /\ loose[r] # None /\ Override(r) /\ UNCHANGED phase
    <3>1. listing' = [listing EXCEPT ![r] = loose[r]] /\ loose[r] \in had[r]
      BY <2>3, <2>5 DEF Override, ListInv, Cur, Current
    <3>2. \A s \in Ref : s # r => (ToVisit(s)' <=> ToVisit(s)) /\ listing'[s] = listing[s]
      BY <1>0, <2>1, <2>3, <2>5, <3>1 DEF ToVisit, ListInv
    <3>3. listing'[r] = loose[r] /\ listing' \in [Ref -> Value]
      BY <1>0, <3>1 DEF ListInv
    <3> QED
      BY <1>0, <2>3, <2>5, <3>1, <3>2, <3>3 DEF ListInv
  <2>6. CASE children' = children \ {Lock(r)} /\ phase' = phase /\ SkipLock(r)
    <3>1. \A s \in Ref : ToVisit(s)' <=> ToVisit(s)
      BY <1>0, <2>1, <2>6 DEF ToVisit
    <3> QED
      BY <1>0, <2>3, <2>6, <3>1 DEF ListInv, SkipLock
  <2> QED
    BY <2>2, <2>4, <2>5, <2>6
<1>4. CASE ListEnd
  BY <1>0, <1>4 DEF ListEnd, ListInv, ToVisit
<1>5. CASE ListReset
  <2>1. NoEntries \in [Ref -> Value]
    BY DEF NoEntries, Value
  <2> QED
    BY <1>0, <1>5, <2>1 DEF ListReset, ListInv
<1> QED
  BY <1>1, <1>2, <1>3, <1>4, <1>5

LEMMA StoreStepKeeps ==
  ASSUME NoDeletions, NoPruning, IInv, ListInv, StoreStep
  PROVE  ListInv'
<1>1. /\ phase' = phase /\ listing' = listing /\ children' = children
      /\ lasting' \subseteq lasting
  BY DEF StoreStep
<1>2. phase # "idle" => \A r \in Ref : had'[r] = had[r] \cup {Cur(r)'}
  BY DEF StoreStep, Cur
<1>3. \A r \in Ref : ToVisit(r) => ToVisit(r)'
  BY <1>1, LooseStays DEF StoreStep, ToVisit
<1> QED
  BY <1>1, <1>2, <1>3 DEF ListInv

LEMMA ListInvStep ==
  ASSUME SinglePacker, NoDeletions, NoPruning, IInv, ListInv, [ListNext]_<<vars, lvars>>
  PROVE  IInv' /\ ListInv'
<1>0. TypeOK
  BY DEF IInv
<1>1. CASE StoreStep
  BY <1>1, StoreStepKeeps, IInvWriter, IInvPacker, IInvReader DEF StoreStep, Next
<1>2. CASE ListPacked \/ ListDirectory \/ ListChild \/ ListEnd \/ ListReset
  <2>1. UNCHANGED vars
    BY <1>2 DEF ListPacked, ListDirectory, ListChild, ListEnd, ListReset
  <2> QED
    BY <1>0, <1>2, <2>1, CallerStep, IInvStutter
<1>3. CASE UNCHANGED <<vars, lvars>>
  <2>1. IInv'
    BY <1>3, IInvStutter
  <2>2. ListInv'
    BY <1>3 DEF ListInv, ToVisit, Cur, vars, files, lvars
  <2> QED
    BY <2>1, <2>2
<1> QED
  BY <1>1, <1>2, <1>3 DEF ListNext

\* Beside transactions that create and update, and a pack_refs that keeps the loose
\* files, references lists every reference that exists all through the call, and
\* each with a value it had meanwhile, although it takes no lock and reads
\* packed-refs, the directory and the files one after the other.
THEOREM ListingHolds ==
  ASSUME SinglePacker, NoDeletions
  PROVE  ListSpec /\ []NoPruning => []ListingTrue
<1>1. ListInit => IInv /\ ListInv
  <2> SUFFICES ASSUME ListInit PROVE IInv /\ ListInv
    OBVIOUS
  <2>1. IInv
    BY IInvInit DEF ListInit
  <2>2. NoEntries \in [Ref -> Value]
    BY DEF NoEntries, Value
  <2> QED
    BY <2>1, <2>2 DEF ListInit, ListInv
<1>2. NoPruning /\ IInv /\ ListInv /\ [ListNext]_<<vars, lvars>> => IInv' /\ ListInv'
  BY ListInvStep
<1>3. ListInv => ListingTrue
  BY DEF ListInv, ListingTrue, NothingMissed, NothingInvented, ToVisit
<1> QED
  BY <1>1, <1>2, <1>3, PTL DEF ListSpec
===============================================================================
