-------------------------- MODULE ObjectStore_proofs ---------------------------
(***************************************************************************)
(* The invariants of ObjectStore for every object graph, every number of   *)
(* processes and every sequence of stages.                                 *)
(***************************************************************************)
EXTENDS ObjectStore, SequenceTheorems, TLAPS

USE LinksAssumption, StartAssumption, JobsAssumption, WorksAssumption

-------------------------------------------------------------------------------
(* What a set of objects reaches. *)

LEMMA ReachLeast ==
  ASSUME NEW S \in SUBSET Obj
  PROVE  /\ Reach[S] \in SUBSET Obj /\ S \subseteq Reach[S]
         /\ Closed(Reach[S])
         /\ \A T \in SUBSET Obj : S \subseteq T /\ Closed(T) => Reach[S] \subseteq T
<1>1. Reach[S] = {o \in Obj : \A T \in SUBSET Obj : S \subseteq T /\ Closed(T) => o \in T}
  BY DEF Reach
<1>2. Closed(Reach[S])
  <2> SUFFICES ASSUME NEW o \in Reach[S], NEW t \in Links[o] PROVE t \in Reach[S]
    BY DEF Closed
  <2>1. o \in Obj /\ t \in Obj
    BY <1>1
  <2>2. ASSUME NEW T \in SUBSET Obj, S \subseteq T, Closed(T) PROVE t \in T
    BY <1>1, <2>2 DEF Closed
  <2> QED
    BY <1>1, <2>1, <2>2
<1> QED
  BY <1>1, <1>2

LEMMA ReachGrows ==
  ASSUME NEW S \in SUBSET Obj, NEW T \in SUBSET Obj, S \subseteq T
  PROVE  Reach[S] \subseteq Reach[T]
BY ReachLeast

\* A new root adds no more than the new objects, when all they name otherwise is
\* reached already.
LEMMA ReachNew ==
  ASSUME NEW S \in SUBSET Obj, NEW N \in SUBSET Obj, NEW g \in N,
         \A o \in N : Links[o] \subseteq N \cup Reach[S]
  PROVE  Reach[S \cup {g}] \subseteq Reach[S] \cup N
<1>1. Closed(Reach[S] \cup N)
  BY ReachLeast DEF Closed
<1>2. S \cup {g} \subseteq Reach[S] \cup N /\ Reach[S] \cup N \in SUBSET Obj
  BY ReachLeast
<1> QED
  BY <1>1, <1>2, ReachLeast

-------------------------------------------------------------------------------
(* Type correctness. *)

LEMMA NotIdle ==
  /\ \A c \in Call : c # Idle /\ c.phase # "idle"
  /\ \A t \in Task : t # NoTask
  /\ \A r \in Read : r # NoRead
  /\ Idle.phase = "idle" /\ NoRead.phase = "none"
BY DEF Call, Phases, Idle, Task, NoTask, Read, NoRead

\* A process in a phase of a call is in a call.
LEMMA InCall ==
  ASSUME TypeOK, NEW m \in Maint, NEW phase \in Phases, In(m, phase)
  PROVE  maint[m] \in Call /\ maint[m] # Idle
BY NotIdle DEF TypeOK, In, Phases, Idle

LEMMA EndOfStageType ==
  ASSUME NEW c \in Call
  PROVE  EndOfStage(c) \in Call /\ EndOfStage(c).job = c.job
<1>1. CASE Len(c.stages) > 1
  <2>1. Tail(c.stages) \in Seq(Stages)
    BY <1>1 DEF Call
  <2>2. Entry(c.stages[2]) \in Phases
    BY DEF Entry, Phases
  <2> QED
    BY <1>1, <2>1, <2>2 DEF EndOfStage, Call
<1>2. CASE ~ (Len(c.stages) > 1)
  BY <1>2 DEF EndOfStage, Call, Phases
<1> QED
  BY <1>1, <1>2

LEMMA NewCallType ==
  ASSUME NEW j \in Jobs
  PROVE  NewCall(j) \in Call
<1>1. Entry(j.stages[1]) \in Phases /\ j.stages \in Seq(Stages)
  BY DEF Entry, Phases
<1> QED
  BY <1>1 DEF NewCall, Call, Pack

MaintType ==
    /\ gcpid \in Maint \cup {None}
    /\ maint \in [Maint -> Call \cup {Idle}]
    /\ \A m \in Maint : gcpid = m <=> maint[m] # Idle /\ maint[m].job.locked

StoreType ==
    /\ loose \in [Obj -> {"none", "old", "fresh"}]
    /\ packs \subseteq Pack /\ indexes \subseteq Pack
    /\ tables \subseteq Pack /\ kept \subseteq Pack
    /\ dated \in [Pack -> Pack] /\ \A p \in Pack : dated[p] \subseteq p

\* A call goes on.
LEMMA CallGoesOn ==
  ASSUME TypeOK, NEW m \in Maint, maint[m] # Idle, NEW c \in Call, c.job = maint[m].job,
         maint' = [maint EXCEPT ![m] = c], gcpid' = gcpid
  PROVE  MaintType'
BY NotIdle DEF TypeOK, MaintType

LEMMA CallEnds ==
  ASSUME TypeOK, NEW m \in Maint, maint[m] # Idle,
         maint' = [maint EXCEPT ![m] = Idle], Unlocked(m)
  PROVE  MaintType'
BY NotIdle DEF TypeOK, MaintType, Unlocked

LEMMA PublishPackType ==
  ASSUME TypeOK, NEW p \in Pack, PublishPack(p)
  PROVE  /\ packs' \subseteq Pack
         /\ dated' \in [Pack -> Pack] /\ \A q \in Pack : dated'[q] \subseteq q
BY DEF TypeOK, PublishPack, Pack

LEMMA UnlinkType ==
  ASSUME TypeOK, NEW o \in Obj, Unlink(o)
  PROVE  loose' \in [Obj -> {"none", "old", "fresh"}]
BY DEF TypeOK, Unlink

LEMMA AvailableType ==
  ASSUME TypeOK
  PROVE  /\ Loose \in SUBSET Obj /\ Packed \in SUBSET Obj /\ Available \in SUBSET Obj
         /\ Reach[roots] \in SUBSET Obj
BY ReachLeast DEF TypeOK, Loose, Packed, Available, Pack

\* The packs that repack writes.
NewsOf(ids, cruft) ==
    (IF ids = {} THEN <<>> ELSE <<ids>>) \o (IF cruft = {} THEN <<>> ELSE <<cruft>>)

LEMMA SomePacks ==
  ASSUME NEW p \in SUBSET Obj, NEW q \in SUBSET Obj
  PROVE  NewsOf(p, q) \in Seq(Pack)
<1>1. p \in Pack /\ q \in Pack
  BY DEF Pack
<1>2. (IF p = {} THEN <<>> ELSE <<p>>) \in Seq(Pack)
  BY <1>1
<1>3. (IF q = {} THEN <<>> ELSE <<q>>) \in Seq(Pack)
  BY <1>1
<1> QED
  BY <1>2, <1>3 DEF NewsOf

\* What is to be packed is in the packs that are to be written.
LEMMA NewsHold ==
  ASSUME NEW ids \in SUBSET Obj, NEW cruft \in SUBSET Obj,
         NEW o \in ids \cup cruft
  PROVE  \E i \in DOMAIN NewsOf(ids, cruft) : o \in NewsOf(ids, cruft)[i]
<1> DEFINE news == NewsOf(ids, cruft)
           a == IF ids = {} THEN <<>> ELSE <<ids>>
           b == IF cruft = {} THEN <<>> ELSE <<cruft>>
<1>t. ids \in Pack /\ cruft \in Pack
  BY DEF Pack
<1>e. <<>> \in Seq(Pack) /\ <<cruft>> \in Seq(Pack) /\ <<ids>> \in Seq(Pack)
  BY <1>t
<1>f. 1 \in DOMAIN <<cruft>> /\ <<cruft>>[1] = cruft
  BY <1>e
<1>n. news = a \o b
  BY DEF NewsOf
<1> HIDE DEF news
<1> SUFFICES \E i \in DOMAIN news : o \in news[i]
  BY DEF news
<1>1. CASE o \in ids
  <2>1. a = <<ids>> /\ b \in Seq(Pack)
    BY <1>1, <1>e
  <2>2. 1 \in DOMAIN (<<ids>> \o b) /\ (<<ids>> \o b)[1] = ids
    <3> HIDE DEF b
    <3> QED
      BY <1>t, <1>e, <2>1
  <2>3. news = <<ids>> \o b
    BY <1>n, <2>1
  <2> HIDE DEF a, b
  <2> QED
    BY <1>1, <2>2, <2>3
<1>2. CASE o \in cruft /\ o \notin ids
  <2>1. b = <<cruft>>
    BY <1>2
  <2>2. CASE ids = {}
    <3>1. news = <<>> \o <<cruft>>
      BY <1>n, <2>1, <2>2
    <3>2. news = <<cruft>>
      BY <1>e, <3>1, ConcatEmptySeq
    <3>3. 1 \in DOMAIN news /\ news[1] = cruft
      BY <1>f, <3>2, Zenon
    <3> QED
      BY <1>2, <3>3
  <2>3. CASE ids # {}
    <3>1. news = <<ids>> \o <<cruft>>
      BY <1>n, <2>1, <2>3
    <3>2. 2 \in DOMAIN news /\ news[2] = cruft
      BY <1>t, <1>e, <3>1
    <3> QED
      BY <1>2, <3>2
  <2> QED
    BY <2>2, <2>3
<1> QED
  BY <1>1, <1>2

\* What Select decides on: what goes into the packs, and the call from then on.
Selected(m, ids, cruft, ages, news) ==
    [maint[m] EXCEPT !.phase = "pack", !.news = news, !.cruft = cruft,
                     !.ages = ages, !.doomed = ids \cup cruft,
                     !.seen = {}, !.packed = {}, !.reach = {}]

Selects(m, ids, cruft, ages, news) ==
    LET next == Selected(m, ids, cruft, ages, news)
    IN  /\ ages \subseteq cruft
        /\ news = NewsOf(ids, cruft)
        /\ next \in Call /\ next.job = maint[m].job
        /\ maint' = [maint EXCEPT ![m] = IF news = <<>> THEN EndOfStage(next) ELSE next]
        /\ \A o \in maint[m].seen :
              \/ o \in ids \cup cruft \/ maint[m].job.mode = "plain"
              \/ maint[m].job.expire /\ o \notin maint[m].reach /\ Expired(m, o)
        /\ \A o \in ages : o \in maint[m].seen /\ Expired(m, o)

LEMMA SelectDoes ==
  ASSUME TypeOK, NEW m \in Maint, Select(m)
  PROVE  \E ids, cruft, ages \in SUBSET Obj, news \in Seq(Pack) :
            Selects(m, ids, cruft, ages, news)
<1>c. maint[m] \in Call
  BY InCall DEF Select, Phases
<1> DEFINE c     == maint[m]
           ids   == IF c.job.mode = "all" THEN c.seen ELSE c.reach
           lost  == {o \in c.seen \ c.reach : Expired(m, o)}
           cruft == IF c.job.mode = "cruft"
                      THEN (c.seen \ c.reach) \ (IF c.job.expire THEN lost ELSE {})
                      ELSE {}
           news  == NewsOf(ids, cruft)
           next  == [c EXCEPT !.phase = "pack", !.news = news, !.cruft = cruft,
                              !.ages = lost \cap cruft, !.doomed = ids \cup cruft,
                              !.seen = {}, !.packed = {}, !.reach = {}]
<1>1. maint' = [maint EXCEPT ![m] = IF news = <<>> THEN EndOfStage(next) ELSE next]
  BY DEF Select, NewsOf
<1>2. c.seen \in SUBSET Obj /\ c.reach \in SUBSET Obj
  BY <1>c DEF Call
<1>3. ids \in SUBSET Obj /\ cruft \in SUBSET Obj /\ lost \cap cruft \in SUBSET Obj
  BY <1>2
<1>4. news \in Seq(Pack)
  <2> HIDE DEF ids, cruft
  <2> QED
    BY <1>3, SomePacks
<1>5. next \in Call /\ next.job = maint[m].job
  <2> HIDE DEF ids, cruft, news, lost
  <2> QED
    BY <1>c, <1>3, <1>4 DEF Call, Phases
<1>6. lost \cap cruft \subseteq cruft
  OBVIOUS
<1>8. \A o \in c.seen : \/ o \in ids \cup cruft \/ c.job.mode = "plain"
                        \/ c.job.expire /\ o \notin c.reach /\ Expired(m, o)
  <2>1. c.job.mode \in Modes
    BY <1>c DEF Call
  <2>2. ASSUME NEW o \in c.seen, o \notin ids \cup cruft, c.job.mode # "plain"
        PROVE  c.job.expire /\ o \notin c.reach /\ Expired(m, o)
    <3>1. c.job.mode = "cruft" /\ o \notin c.reach
      BY <2>1, <2>2 DEF Modes
    <3>2. c.job.expire /\ o \in lost
      BY <2>2, <3>1
    <3> QED
      BY <3>1, <3>2
  <2> QED
    BY <2>2
<1>9. \A o \in lost \cap cruft : o \in c.seen /\ Expired(m, o)
  <2> SUFFICES ASSUME NEW o \in lost \cap cruft PROVE o \in c.seen /\ Expired(m, o)
    OBVIOUS
  <2> QED
    OBVIOUS
<1>7. Selects(m, ids, cruft, lost \cap cruft, news)
  <2>1. news = NewsOf(ids, cruft)
    OBVIOUS
  <2> HIDE DEF ids, cruft, lost, news
  <2> QED
    BY <1>1, <1>5, <1>6, <1>8, <1>9, <2>1 DEF Selects, Selected
<1> HIDE DEF ids, cruft, lost, news, c, next
<1> QED
  BY <1>3, <1>4, <1>7

LEMMA MaintTypeStep ==
  ASSUME TypeOK, NEW m \in Maint, MaintNext(m)
  PROVE  MaintType'
<1>0. maint[m] \in Call \cup {Idle} /\ maint \in [Maint -> Call \cup {Idle}]
  BY DEF TypeOK
<1>a. Loose \in SUBSET Obj /\ Packed \in SUBSET Obj /\ Reach[roots] \in SUBSET Obj
  BY AvailableType
<1>p. ASSUME NEW phase \in Phases, In(m, phase) PROVE maint[m] \in Call /\ maint[m] # Idle
  BY <1>p, InCall
<1>g. ASSUME NEW phase \in Phases, NEW next \in Phases, In(m, phase), Goto(m, next), gcpid' = gcpid
      PROVE  MaintType'
  <2>1. [maint[m] EXCEPT !.phase = next] \in Call
    BY <1>p, <1>g DEF Call
  <2>2. maint' = [maint EXCEPT ![m] = [maint[m] EXCEPT !.phase = next]]
    BY <1>g DEF Goto
  <2>3. [maint[m] EXCEPT !.phase = next].job = maint[m].job
    BY <1>p, <1>g DEF Call
  <2> QED
    BY <1>p, <1>g, <2>1, <2>2, <2>3, CallGoesOn
<1>1. CASE StartCall(m)
  <2>1. PICK j \in Jobs : /\ j.locked => gcpid = None
                          /\ gcpid' = IF j.locked THEN m ELSE gcpid
                          /\ maint' = [maint EXCEPT ![m] = NewCall(j)]
    BY <1>1 DEF StartCall
  <2>2. NewCall(j) \in Call /\ NewCall(j).job = j /\ NewCall(j) # Idle
    BY NewCallType, NotIdle DEF NewCall
  <2>3. maint[m] = Idle
    BY <1>1 DEF StartCall
  <2> QED
    BY <2>1, <2>2, <2>3 DEF TypeOK, MaintType
<1>2. CASE EndCall(m)
  BY <1>2, <1>p, CallEnds DEF EndCall, Phases
<1>3. CASE GiveUp(m)
  BY <1>3, CallEnds, NotIdle DEF GiveUp, In
<1>4. CASE FsckLoose(m)
  <2>1. maint[m] \in Call /\ maint[m] # Idle
    BY <1>4, <1>p DEF FsckLoose, Phases
  <2> DEFINE c == [maint[m] EXCEPT !.phase = "packs", !.seen = Loose]
  <2>2. c \in Call /\ c.job = maint[m].job
    BY <2>1, <1>a DEF Call, Phases
  <2>3. maint' = [maint EXCEPT ![m] = c]
    BY <1>4 DEF FsckLoose
  <2> QED
    BY <1>4, <2>1, <2>2, <2>3, CallGoesOn DEF FsckLoose
<1>5. CASE FsckPacks(m)
  <2>1. maint[m] \in Call /\ maint[m] # Idle
    BY <1>5, <1>p DEF FsckPacks, Phases
  <2> DEFINE c == [maint[m] EXCEPT !.phase = "objects", !.seen = @ \cup Packed, !.packed = Packed]
  <2>2. c \in Call /\ c.job = maint[m].job
    BY <2>1, <1>a DEF Call, Phases
  <2>3. maint' = [maint EXCEPT ![m] = c]
    BY <1>5 DEF FsckPacks
  <2> QED
    BY <1>5, <2>1, <2>2, <2>3, CallGoesOn DEF FsckPacks
<1>6. CASE FsckObjects(m)
  BY <1>6, <1>g DEF FsckObjects, Phases
<1>7. CASE FsckRoots(m)
  <2>1. maint[m] \in Call /\ maint[m] # Idle
    BY <1>7, <1>p DEF FsckRoots, Phases
  <2> DEFINE next == IF Head(maint[m].stages) = "repack" THEN "list" ELSE "discover"
             c == [maint[m] EXCEPT !.reach = Reach[roots], !.phase = next]
  <2>2. c \in Call /\ c.job = maint[m].job
    <3>1. next \in Phases
      BY DEF Phases
    <3> HIDE DEF next
    <3> QED
      BY <2>1, <3>1, <1>a DEF Call
  <2>3. maint' = [maint EXCEPT ![m] = c]
    BY <1>7 DEF FsckRoots
  <2> HIDE DEF c
  <2> QED
    BY <1>7, <2>1, <2>2, <2>3, CallGoesOn DEF FsckRoots
<1>8. CASE ListPacks(m)
  <2>1. maint[m] \in Call /\ maint[m] # Idle
    BY <1>8, <1>p DEF ListPacks, Phases
  <2> DEFINE c == [maint[m] EXCEPT !.phase = "select", !.old = indexes \cap packs]
  <2>2. c \in Call /\ c.job = maint[m].job
    BY <2>1 DEF Call, Phases, TypeOK
  <2>3. maint' = [maint EXCEPT ![m] = c]
    BY <1>8 DEF ListPacks
  <2> QED
    BY <1>8, <2>1, <2>2, <2>3, CallGoesOn DEF ListPacks
<1>9. CASE Select(m)
  <2>1. maint[m] \in Call /\ maint[m] # Idle /\ gcpid' = gcpid
    BY <1>9, <1>p DEF Select, Phases
  <2>2. PICK ids, cruft, ages \in SUBSET Obj, news \in Seq(Pack) :
                Selects(m, ids, cruft, ages, news)
    BY <1>9, SelectDoes
  <2> DEFINE next == Selected(m, ids, cruft, ages, news)
             c == IF news = <<>> THEN EndOfStage(next) ELSE next
  <2>3. next \in Call /\ next.job = maint[m].job /\ maint' = [maint EXCEPT ![m] = c]
    BY <2>2 DEF Selects
  <2>4. c \in Call /\ c.job = maint[m].job
    BY <2>3, EndOfStageType
  <2> HIDE DEF c
  <2> QED
    BY <2>1, <2>3, <2>4, CallGoesOn
<1>10. CASE WritePack(m)
  BY <1>10, <1>g DEF WritePack, Phases
<1>11. CASE WriteIndex(m)
  BY <1>11, <1>g DEF WriteIndex, Phases
<1>12. CASE VerifyPack(m)
  <2>1. maint[m] \in Call /\ maint[m] # Idle
    BY <1>12, <1>p DEF VerifyPack, Phases
  <2> DEFINE p == Head(maint[m].news)
             c == [maint[m] EXCEPT !.phase = "pack", !.news = Tail(@), !.old = @ \ {p}]
             d == [maint[m] EXCEPT !.phase = "unloose", !.news = <<>>, !.old = @ \ {p}]
  <2>2. \/ Len(maint[m].news) > 1 /\ maint' = [maint EXCEPT ![m] = c]
        \/ maint' = [maint EXCEPT ![m] = d]
    BY <1>12 DEF VerifyPack
  <2>3. Len(maint[m].news) > 1 => Tail(maint[m].news) \in Seq(Pack)
    BY <2>1 DEF Call
  <2>4. Len(maint[m].news) > 1 => c \in Call /\ c.job = maint[m].job
    BY <2>1, <2>3 DEF Call, Phases
  <2>5. d \in Call /\ d.job = maint[m].job
    <3>1. <<>> \in Seq(Pack)
      OBVIOUS
    <3> QED
      BY <2>1, <3>1 DEF Call, Phases
  <2> HIDE DEF c, d
  <2> QED
    BY <1>12, <2>1, <2>2, <2>4, <2>5, CallGoesOn DEF VerifyPack
<1>13. CASE PruneLoose(m)
  <2>1. maint[m] \in Call /\ maint[m] # Idle
    BY <1>13, <1>p DEF PruneLoose, Phases
  <2>2. PICK o \in maint[m].doomed : maint' = [maint EXCEPT ![m].doomed = @ \ {o}]
    BY <1>13 DEF PruneLoose
  <2> DEFINE c == [maint[m] EXCEPT !.doomed = @ \ {o}]
  <2>3. c \in Call /\ c.job = maint[m].job
    BY <2>1 DEF Call
  <2>4. maint' = [maint EXCEPT ![m] = c]
    BY <2>2
  <2> QED
    BY <1>13, <2>1, <2>3, <2>4, CallGoesOn DEF PruneLoose
<1>14. CASE PruneLooseEnd(m)
  <2>1. maint[m] \in Call /\ maint[m] # Idle
    BY <1>14, <1>p DEF PruneLooseEnd, Phases
  <2> DEFINE b == [maint[m] EXCEPT !.doomed = {}, !.cruft = {}, !.ages = {}]
             d == [b EXCEPT !.phase = "remove"]
             e == [b EXCEPT !.old = {}]
             c == IF b.job.delete THEN d ELSE EndOfStage(e)
  <2>2. b \in Call /\ b.job = maint[m].job
    BY <2>1 DEF Call
  <2>3. d \in Call /\ e \in Call /\ d.job = b.job /\ e.job = b.job
    <3> HIDE DEF b
    <3> QED
      BY <2>2 DEF Call, Phases
  <2>4. c \in Call /\ c.job = maint[m].job
    <3> HIDE DEF b, d, e
    <3> QED
      BY <2>2, <2>3, EndOfStageType
  <2>5. maint' = [maint EXCEPT ![m] = c]
    BY <1>14 DEF PruneLooseEnd
  <2> HIDE DEF c
  <2> QED
    BY <1>14, <2>1, <2>4, <2>5, CallGoesOn DEF PruneLooseEnd
<1>15. CASE RemoveIndex(m)
  <2>1. maint[m] \in Call /\ maint[m] # Idle
    BY <1>15, <1>p DEF RemoveIndex, Phases
  <2>2. PICK p \in maint[m].old :
           \/ maint' = [maint EXCEPT ![m].old = @ \ {p}]
           \/ maint' = [maint EXCEPT ![m].old = @ \ {p}, ![m].at = p, ![m].phase = "unpack"]
    BY <1>15 DEF RemoveIndex
  <2> DEFINE c == [maint[m] EXCEPT !.old = @ \ {p}]
             d == [maint[m] EXCEPT !.old = @ \ {p}, !.at = p, !.phase = "unpack"]
  <2>3. c \in Call /\ c.job = maint[m].job /\ d \in Call /\ d.job = maint[m].job
    BY <2>1 DEF Call, Phases
  <2>4. maint' = [maint EXCEPT ![m] = c] \/ maint' = [maint EXCEPT ![m] = d]
    BY <2>2
  <2> HIDE DEF c, d
  <2> QED
    BY <1>15, <2>1, <2>3, <2>4, CallGoesOn DEF RemoveIndex
<1>16. CASE RemovePack(m)
  BY <1>16, <1>g DEF RemovePack, Phases
<1>17. CASE RemoveTable(m)
  <2>1. maint[m] \in Call /\ maint[m] # Idle
    BY <1>17, <1>p DEF RemoveTable, Phases
  <2> DEFINE c == [maint[m] EXCEPT !.phase = "remove", !.at = {}]
  <2>2. c \in Call /\ c.job = maint[m].job
    BY <2>1 DEF Call, Phases, Pack
  <2>3. maint' = [maint EXCEPT ![m] = c]
    BY <1>17 DEF RemoveTable
  <2> QED
    BY <1>17, <2>1, <2>2, <2>3, CallGoesOn DEF RemoveTable
<1>18. CASE RemoveEnd(m) \/ DeleteEnd(m)
  <2>1. maint[m] \in Call /\ maint[m] # Idle
    BY <1>18, <1>p DEF RemoveEnd, DeleteEnd, Phases
  <2>2. maint' = [maint EXCEPT ![m] = EndOfStage(maint[m])] /\ gcpid' = gcpid
    BY <1>18, <1>0 DEF RemoveEnd, DeleteEnd
  <2> QED
    BY <2>1, <2>2, EndOfStageType, CallGoesOn
<1>19. CASE Discover(m)
  <2>1. maint[m] \in Call /\ maint[m] # Idle
    BY <1>19, <1>p DEF Discover, Phases
  <2>2. PICK D \in SUBSET Obj :
           maint' = [maint EXCEPT ![m] = [maint[m] EXCEPT !.phase = "delete", !.doomed = D,
                                                 !.seen = {}, !.packed = {}, !.reach = {}]]
    BY <1>19, <1>a DEF Discover
  <2> DEFINE c == [maint[m] EXCEPT !.phase = "delete", !.doomed = D,
                                   !.seen = {}, !.packed = {}, !.reach = {}]
  <2>3. c \in Call /\ c.job = maint[m].job
    BY <2>1 DEF Call, Phases
  <2> HIDE DEF c
  <2> QED
    BY <1>19, <2>1, <2>2, <2>3, CallGoesOn DEF Discover, c
<1>20. CASE PackedIds(m)
  <2>1. maint[m] \in Call /\ maint[m] # Idle
    BY <1>20, <1>p DEF PackedIds, Phases
  <2> DEFINE c == [maint[m] EXCEPT !.phase = "scan", !.packed = Packed]
  <2>2. c \in Call /\ c.job = maint[m].job
    BY <2>1, <1>a DEF Call, Phases
  <2>3. maint' = [maint EXCEPT ![m] = c]
    BY <1>20 DEF PackedIds
  <2> QED
    BY <1>20, <2>1, <2>2, <2>3, CallGoesOn DEF PackedIds
<1>21. CASE ScanLoose(m)
  <2>1. maint[m] \in Call /\ maint[m] # Idle
    BY <1>21, <1>p DEF ScanLoose, Phases
  <2> DEFINE c == [maint[m] EXCEPT !.phase = "delete", !.packed = {},
                                   !.doomed = maint[m].packed \cap Loose]
  <2>2. c \in Call /\ c.job = maint[m].job
    BY <2>1, <1>a DEF Call, Phases
  <2>3. maint' = [maint EXCEPT ![m] = c]
    BY <1>21 DEF ScanLoose
  <2> QED
    BY <1>21, <2>1, <2>2, <2>3, CallGoesOn DEF ScanLoose
<1>22. CASE DeleteLoose(m)
  <2>1. maint[m] \in Call /\ maint[m] # Idle
    BY <1>22, <1>p DEF DeleteLoose, Phases
  <2>2. PICK o \in maint[m].doomed : maint' = [maint EXCEPT ![m].doomed = @ \ {o}]
    BY <1>22 DEF DeleteLoose
  <2> DEFINE c == [maint[m] EXCEPT !.doomed = @ \ {o}]
  <2>3. c \in Call /\ c.job = maint[m].job
    BY <2>1 DEF Call
  <2>4. maint' = [maint EXCEPT ![m] = c]
    BY <2>2
  <2> QED
    BY <1>22, <2>1, <2>3, <2>4, CallGoesOn DEF DeleteLoose
<1> QED
  BY <1>1, <1>2, <1>3, <1>4, <1>5, <1>6, <1>7, <1>8, <1>9, <1>10, <1>11, <1>12, <1>13, <1>14,
     <1>15, <1>16, <1>17, <1>18, <1>19, <1>20, <1>21, <1>22 DEF MaintNext

\* A repack that writes packs has one to write, and what is old in its cruft pack
\* is in that pack.
NewsFit(c) == /\ c.phase \in {"pack", "index", "verify"} => c.news # <<>>
              /\ c.ages \subseteq c.cruft

CallsFit == \A m \in Maint : maint[m] # Idle => NewsFit(maint[m])

LEMMA EndOfStageFits ==
  ASSUME NEW c \in Call, c.ages \subseteq c.cruft
  PROVE  NewsFit(EndOfStage(c))
<1>1. EndOfStage(c).phase \in {"loose", "packed", "done"}
  BY DEF EndOfStage, Entry, Call
<1>2. EndOfStage(c).ages = c.ages /\ EndOfStage(c).cruft = c.cruft
  BY DEF EndOfStage, Call
<1> QED
  BY <1>1, <1>2 DEF NewsFit

LEMMA StoreTypeStep ==
  ASSUME TypeOK, CallsFit, NEW m \in Maint, MaintNext(m)
  PROVE  StoreType'
<1>0. StoreType
  BY DEF TypeOK, StoreType
<1>u. ASSUME UNCHANGED store PROVE StoreType'
  BY <1>0, <1>u DEF StoreType, store
<1>n. \A phase \in Phases : In(m, phase) => maint[m] \in Call
  BY InCall
<1>1. CASE WritePack(m)
  <2>1. Head(maint[m].news) \in Pack
    BY <1>1, AvailableType DEF WritePack, Pack
  <2> QED
    BY <1>0, <1>1, <2>1, PublishPackType DEF WritePack, StoreType
<1>2. CASE WriteIndex(m)
  <2>1. Head(maint[m].news) \in Pack
    BY <1>2, <1>n, NotIdle DEF WriteIndex, Call, In, CallsFit, NewsFit, Phases
  <2> QED
    BY <1>0, <1>2, <2>1 DEF WriteIndex, StoreType
<1>3. CASE VerifyPack(m)
  <2>1. /\ Head(maint[m].news) \in Pack /\ maint[m].ages \in Pack
        /\ maint[m].ages \subseteq maint[m].cruft
    BY <1>3, <1>n, NotIdle DEF VerifyPack, Call, In, CallsFit, NewsFit, Phases, Pack
  <2> QED
    BY <1>0, <1>3, <2>1 DEF VerifyPack, StoreType
<1>4. CASE PruneLoose(m) \/ DeleteLoose(m)
  <2>1. PICK o \in maint[m].doomed : Unlink(o)
    BY <1>4 DEF PruneLoose, DeleteLoose
  <2>2. o \in Obj
    BY <1>4, <1>n DEF PruneLoose, DeleteLoose, Call, Phases
  <2> QED
    BY <1>0, <1>4, <2>1, <2>2, UnlinkType DEF PruneLoose, DeleteLoose, StoreType
<1>5. CASE RemoveIndex(m)
  <2>1. indexes' \subseteq indexes
    BY <1>5 DEF RemoveIndex
  <2> QED
    BY <1>0, <1>5, <2>1 DEF RemoveIndex, StoreType
<1>6. CASE RemovePack(m)
  <2>1. maint[m].at \in Pack
    BY <1>6, <1>n DEF RemovePack, Call, Phases
  <2>2. dated' \in [Pack -> Pack] /\ \A p \in Pack : dated'[p] \subseteq p
    BY <1>0, <1>6, <2>1 DEF RemovePack, StoreType, Pack
  <2> QED
    BY <1>0, <1>6, <2>2 DEF RemovePack, StoreType
<1>7. CASE RemoveTable(m)
  <2>1. maint[m].at \in Pack
    BY <1>7, <1>n DEF RemoveTable, Call, Phases
  <2>2. dated' \in [Pack -> Pack] /\ \A p \in Pack : dated'[p] \subseteq p
    BY <1>0, <1>7, <2>1 DEF RemoveTable, StoreType, Pack
  <2> QED
    BY <1>0, <1>7, <2>2 DEF RemoveTable, StoreType
<1>8. CASE \/ StartCall(m) \/ EndCall(m) \/ GiveUp(m) \/ FsckLoose(m) \/ FsckPacks(m)
           \/ FsckObjects(m) \/ FsckRoots(m) \/ ListPacks(m) \/ Select(m) \/ PruneLooseEnd(m)
           \/ RemoveEnd(m) \/ Discover(m) \/ PackedIds(m) \/ ScanLoose(m) \/ DeleteEnd(m)
  <2>1. UNCHANGED store
    BY <1>8 DEF StartCall, EndCall, GiveUp, FsckLoose, FsckPacks, FsckObjects, FsckRoots,
       ListPacks, Select, PruneLooseEnd, RemoveEnd, Discover, PackedIds, ScanLoose, DeleteEnd
  <2> QED
    BY <1>u, <2>1
<1> QED
  BY <1>1, <1>2, <1>3, <1>4, <1>5, <1>6, <1>7, <1>8 DEF MaintNext

LEMMA WriterTypeStep ==
  ASSUME TypeOK, NEW w \in Writer, WriterNext(w)
  PROVE  StoreType' /\ roots' \subseteq Obj /\ work' \in [Writer -> Task \cup {NoTask}]
<1>0. StoreType /\ roots \subseteq Obj /\ work \in [Writer -> Task \cup {NoTask}]
  BY DEF TypeOK, StoreType
<1>n. work[w] # NoTask => work[w] \in Task
  BY DEF TypeOK
<1>t. ASSUME NEW c \in Task \cup {NoTask}, work' = [work EXCEPT ![w] = c]
      PROVE  work' \in [Writer -> Task \cup {NoTask}]
  BY <1>0, <1>t
<1>1. CASE StartTask(w)
  <2>1. PICK t \in Works :
           work' = [work EXCEPT ![w] =
                [kind |-> t.kind, new |-> t.new, goal |-> t.goal, todo |-> t.new,
                 phase |-> IF t.kind = "loose" THEN "store" ELSE "pack"]]
    BY <1>1 DEF StartTask
  <2>2. [kind |-> t.kind, new |-> t.new, goal |-> t.goal, todo |-> t.new,
         phase |-> IF t.kind = "loose" THEN "store" ELSE "pack"] \in Task
    BY DEF Task
  <2> QED
    BY <1>0, <1>1, <2>1, <2>2, <1>t DEF StartTask, store, StoreType
<1>2. CASE StoreObject(w)
  <2>1. PICK o \in work[w].todo :
           /\ loose' = [loose EXCEPT ![o] = IF @ = "none" THEN "fresh" ELSE @]
           /\ work' = [work EXCEPT ![w].todo = @ \ {o},
                                   ![w].phase = IF work[w].todo = {o} THEN "root" ELSE "store"]
    BY <1>2 DEF StoreObject
  <2> DEFINE c == [work[w] EXCEPT !.todo = @ \ {o},
                                  !.phase = IF work[w].todo = {o} THEN "root" ELSE "store"]
  <2>2. c \in Task /\ o \in Obj
    BY <1>2, <1>n DEF StoreObject, Task
  <2>3. work' = [work EXCEPT ![w] = c]
    BY <2>1
  <2>4. loose' \in [Obj -> {"none", "old", "fresh"}]
    BY <1>0, <2>1, <2>2 DEF StoreType
  <2> HIDE DEF c
  <2> QED
    BY <1>0, <1>2, <2>2, <2>3, <2>4, <1>t DEF StoreObject, StoreType
<1>3. CASE ReceivePack(w)
  <2>1. work[w].new \in Pack
    BY <1>3, <1>n DEF ReceivePack, Task, Pack
  <2> DEFINE c == [work[w] EXCEPT !.phase = IF work[w].kind = "kept" THEN "keep" ELSE "index"]
  <2>2. c \in Task
    BY <1>3, <1>n DEF ReceivePack, Task
  <2>3. work' = [work EXCEPT ![w] = c]
    BY <1>3 DEF ReceivePack
  <2> HIDE DEF c
  <2> QED
    BY <1>0, <1>3, <2>1, <2>2, <2>3, <1>t, PublishPackType DEF ReceivePack, StoreType
<1>4. CASE ReceiveKeep(w)
  <2>1. work[w].new \in Pack
    BY <1>4, <1>n DEF ReceiveKeep, Task, Pack
  <2> DEFINE c == [work[w] EXCEPT !.phase = "index"]
  <2>2. c \in Task
    BY <1>4, <1>n DEF ReceiveKeep, Task
  <2>3. work' = [work EXCEPT ![w] = c]
    BY <1>4 DEF ReceiveKeep
  <2> HIDE DEF c
  <2> QED
    BY <1>0, <1>4, <2>1, <2>2, <2>3, <1>t DEF ReceiveKeep, StoreType
<1>5. CASE ReceiveIndex(w)
  <2>1. work[w].new \in Pack
    BY <1>5, <1>n DEF ReceiveIndex, Task, Pack
  <2> DEFINE c == [work[w] EXCEPT !.phase = "root", !.todo = {}]
  <2>2. c \in Task
    BY <1>5, <1>n DEF ReceiveIndex, Task
  <2>3. work' = [work EXCEPT ![w] = c]
    BY <1>5 DEF ReceiveIndex
  <2> HIDE DEF c
  <2> QED
    BY <1>0, <1>5, <2>1, <2>2, <2>3, <1>t DEF ReceiveIndex, StoreType
<1>6. CASE SetRoot(w)
  <2>1. work[w].goal \in Obj
    BY <1>6, <1>n DEF SetRoot, Task
  <2> QED
    BY <1>0, <1>6, <2>1, <1>t DEF SetRoot, store, StoreType
<1>7. CASE Abandon(w)
  BY <1>0, <1>7, <1>t DEF Abandon, store, StoreType
<1> QED
  BY <1>1, <1>2, <1>3, <1>4, <1>5, <1>6, <1>7 DEF WriterNext

LEMMA ReaderTypeStep ==
  ASSUME TypeOK, NEW q \in Reader, ReaderNext(q)
  PROVE  reading' \in [Reader -> Read \cup {NoRead}]
<1>0. reading \in [Reader -> Read \cup {NoRead}]
  BY DEF TypeOK
<1>n. reading[q].phase # "none" => reading[q] \in Read
  BY DEF TypeOK, NoRead
<1>t. ASSUME NEW c \in Read \cup {NoRead}, reading' = [reading EXCEPT ![q] = c]
      PROVE  reading' \in [Reader -> Read \cup {NoRead}]
  BY <1>0, <1>t
<1>a. ASSUME NEW a \in {"list", "found", "missing"}, reading[q] \in Read, Answer(q, a)
      PROVE  reading' \in [Reader -> Read \cup {NoRead}]
  <2> DEFINE c == [reading[q] EXCEPT !.phase = a, !.packs = {}]
  <2>1. c \in Read
    BY <1>a DEF Read
  <2>2. reading' = [reading EXCEPT ![q] = c]
    BY <1>a DEF Answer
  <2> HIDE DEF c
  <2> QED
    BY <1>t, <2>1, <2>2
<1>1. CASE StartRead(q)
  <2>1. PICK o \in Reach[roots] :
           reading' = [reading EXCEPT ![q] = [phase |-> "loose", obj |-> o, packs |-> {}]]
    BY <1>1 DEF StartRead
  <2>2. [phase |-> "loose", obj |-> o, packs |-> {}] \in Read
    BY AvailableType DEF Read
  <2> QED
    BY <2>1, <2>2, <1>t
<1>2. CASE ReadLoose(q)
  BY <1>2, <1>n, <1>a DEF ReadLoose
<1>3. CASE ReadDirectory(q)
  <2> DEFINE c == [reading[q] EXCEPT !.phase = "packs", !.packs = indexes]
  <2>1. c \in Read
    BY <1>3, <1>n DEF ReadDirectory, Read, TypeOK
  <2>2. reading' = [reading EXCEPT ![q] = c]
    BY <1>3 DEF ReadDirectory
  <2> HIDE DEF c
  <2> QED
    BY <1>t, <2>1, <2>2
<1>4. CASE ReadPack(q)
  <2>1. reading[q] \in Read
    BY <1>4, <1>n DEF ReadPack
  <2>2. CASE \E a \in {"found", "missing"} : Answer(q, a)
    BY <2>1, <2>2, <1>a
  <2>3. CASE \E p : reading' = [reading EXCEPT ![q].packs = @ \ {p}]
    <3>1. PICK p : reading' = [reading EXCEPT ![q].packs = @ \ {p}]
      BY <2>3
    <3> DEFINE c == [reading[q] EXCEPT !.packs = @ \ {p}]
    <3>2. c \in Read
      BY <2>1 DEF Read
    <3>3. reading' = [reading EXCEPT ![q] = c]
      BY <3>1
    <3> HIDE DEF c
    <3> QED
      BY <1>t, <3>2, <3>3
  <2> QED
    BY <1>4, <2>2, <2>3 DEF ReadPack
<1>5. CASE EndRead(q)
  BY <1>5, <1>t DEF EndRead
<1> QED
  BY <1>1, <1>2, <1>3, <1>4, <1>5 DEF ReaderNext

LEMMA OtherCalls ==
  ASSUME TypeOK, NEW m \in Maint, MaintNext(m), NEW n \in Maint \ {m}
  PROVE  maint'[n] = maint[n]
<1>1. DOMAIN maint = Maint
  BY DEF TypeOK
<1> QED
  BY <1>1 DEF MaintNext, StartCall, EndCall, GiveUp, FsckLoose, FsckPacks, FsckObjects, FsckRoots,
     ListPacks, Select, WritePack, WriteIndex, VerifyPack, PruneLoose, PruneLooseEnd, RemoveIndex,
     RemovePack, RemoveTable, RemoveEnd, Discover, PackedIds, ScanLoose, DeleteLoose, DeleteEnd, Goto

LEMMA TailLeft ==
  ASSUME NEW S, NEW s \in Seq(S), Len(s) > 1
  PROVE  Tail(s) # <<>>
<1> SUFFICES ASSUME Tail(s) = <<>> PROVE FALSE
  OBVIOUS
<1>1. Len(Tail(s)) > 0
  OBVIOUS
<1>2. Len(<<>>) = 0 /\ ~ (0 > 0)
  OBVIOUS
<1>3. Len(Tail(s)) = 0
  BY <1>2, Zenon
<1> QED
  BY <1>1, <1>2, <1>3, Zenon

LEMMA CallsFitStep ==
  ASSUME TypeOK, CallsFit, NEW m \in Maint, MaintNext(m)
  PROVE  CallsFit'
<1> SUFFICES ASSUME maint'[m] # Idle PROVE NewsFit(maint'[m])
  BY OtherCalls DEF CallsFit
<1>0. maint \in [Maint -> Call \cup {Idle}]
  BY DEF TypeOK
<1>n. \A phase \in Phases : In(m, phase) => maint[m] \in Call /\ NewsFit(maint[m])
  BY InCall DEF CallsFit
<1>1. CASE StartCall(m)
  <2>1. PICK j \in Jobs : maint' = [maint EXCEPT ![m] = NewCall(j)]
    BY <1>1 DEF StartCall
  <2>2. NewCall(j).phase \in {"loose", "packed"} /\ NewCall(j).ages = {}
    BY DEF NewCall, Entry
  <2> QED
    BY <1>0, <2>1, <2>2 DEF NewsFit
<1>2. CASE EndCall(m) \/ GiveUp(m)
  BY <1>0, <1>2 DEF EndCall, GiveUp
<1>3. CASE FsckLoose(m)
  BY <1>0, <1>n, <1>3 DEF FsckLoose, Phases, Call, NewsFit
<1>4. CASE FsckPacks(m)
  BY <1>0, <1>n, <1>4 DEF FsckPacks, Phases, Call, NewsFit
<1>5. CASE FsckObjects(m)
  BY <1>0, <1>n, <1>5 DEF FsckObjects, Goto, Phases, Call, NewsFit
<1>6. CASE FsckRoots(m)
  BY <1>0, <1>n, <1>6 DEF FsckRoots, Phases, Call, NewsFit
<1>7. CASE ListPacks(m)
  BY <1>0, <1>n, <1>7 DEF ListPacks, Phases, Call, NewsFit
<1>8. CASE Select(m)
  <2>1. PICK ids, cruft, ages \in SUBSET Obj, news \in Seq(Pack) :
                Selects(m, ids, cruft, ages, news)
    BY <1>8, SelectDoes
  <2> DEFINE next == Selected(m, ids, cruft, ages, news)
  <2>2. /\ next \in Call
        /\ maint' = [maint EXCEPT ![m] = IF news = <<>> THEN EndOfStage(next) ELSE next]
        /\ ages \subseteq cruft
    BY <2>1 DEF Selects
  <2>3. next.news = news /\ next.ages = ages /\ next.cruft = cruft
    BY <1>8, <1>n DEF Select, Phases, Call, Selected
  <2> HIDE DEF next
  <2> QED
    BY <1>0, <2>2, <2>3, EndOfStageFits DEF NewsFit
<1>9. CASE WritePack(m)
  BY <1>0, <1>n, <1>9 DEF WritePack, Goto, In, Phases, Call, NewsFit
<1>10. CASE WriteIndex(m)
  BY <1>0, <1>n, <1>10 DEF WriteIndex, Goto, In, Phases, Call, NewsFit
<1>11. CASE VerifyPack(m)
  <2>1. maint[m] \in Call /\ NewsFit(maint[m])
    BY <1>11, <1>n DEF VerifyPack, Phases
  <2>2. \A s \in Seq(Pack) : Len(s) > 1 => Tail(s) # <<>>
    BY TailLeft
  <2> DEFINE p == Head(maint[m].news)
             t == Tail(maint[m].news)
             c == [maint[m] EXCEPT !.phase = "pack", !.news = t, !.old = @ \ {p}]
             d == [maint[m] EXCEPT !.phase = "unloose", !.news = <<>>, !.old = @ \ {p}]
  <2>3. \/ t # <<>> /\ maint' = [maint EXCEPT ![m] = c]
        \/ maint' = [maint EXCEPT ![m] = d]
    <3>1. maint[m].news \in Seq(Pack)
      BY <2>1 DEF Call
    <3> QED
      BY <1>11, <2>2, <3>1 DEF VerifyPack
  <2>4. /\ c.news = t /\ c.ages = maint[m].ages /\ c.cruft = maint[m].cruft
        /\ d.phase = "unloose" /\ d.ages = maint[m].ages /\ d.cruft = maint[m].cruft
    BY <2>1 DEF Call
  <2> HIDE DEF c, d, t
  <2> QED
    BY <1>0, <2>1, <2>3, <2>4 DEF NewsFit
<1>12. CASE PruneLoose(m)
  BY <1>0, <1>n, <1>12 DEF PruneLoose, Phases, Call, NewsFit
<1>13. CASE PruneLooseEnd(m)
  <2>1. maint[m] \in Call
    BY <1>13, <1>n DEF PruneLooseEnd, Phases
  <2> DEFINE b == [maint[m] EXCEPT !.doomed = {}, !.cruft = {}, !.ages = {}]
             d == [b EXCEPT !.phase = "remove"]
             e == [b EXCEPT !.old = {}]
  <2>2. b \in Call /\ b.ages = {}
    BY <2>1 DEF Call
  <2>3. /\ d.phase = "remove" /\ d.ages = {}
        /\ e \in Call /\ e.ages = {}
    <3> HIDE DEF b
    <3> QED
      BY <2>2 DEF Call
  <2>4. maint' = [maint EXCEPT ![m] = IF b.job.delete THEN d ELSE EndOfStage(e)]
    BY <1>13 DEF PruneLooseEnd
  <2> HIDE DEF b, d, e
  <2> QED
    BY <1>0, <2>3, <2>4, EndOfStageFits DEF NewsFit
<1>14. CASE RemoveIndex(m)
  <2>1. maint[m] \in Call /\ NewsFit(maint[m]) /\ maint[m].phase = "remove"
    BY <1>14, <1>n DEF RemoveIndex, In, Phases
  <2>2. PICK p \in maint[m].old :
           \/ maint' = [maint EXCEPT ![m].old = @ \ {p}]
           \/ maint' = [maint EXCEPT ![m].old = @ \ {p}, ![m].at = p, ![m].phase = "unpack"]
    BY <1>14 DEF RemoveIndex
  <2> DEFINE c == [maint[m] EXCEPT !.old = @ \ {p}]
             d == [maint[m] EXCEPT !.old = @ \ {p}, !.at = p, !.phase = "unpack"]
  <2>3. /\ c.phase = "remove" /\ c.ages = maint[m].ages /\ c.cruft = maint[m].cruft
        /\ d.phase = "unpack" /\ d.ages = maint[m].ages /\ d.cruft = maint[m].cruft
    BY <2>1 DEF Call
  <2>4. maint' = [maint EXCEPT ![m] = c] \/ maint' = [maint EXCEPT ![m] = d]
    BY <2>2
  <2> HIDE DEF c, d
  <2> QED
    BY <1>0, <2>1, <2>3, <2>4 DEF NewsFit
<1>15. CASE RemovePack(m)
  BY <1>0, <1>n, <1>15 DEF RemovePack, Goto, Phases, Call, NewsFit
<1>16. CASE RemoveTable(m)
  BY <1>0, <1>n, <1>16 DEF RemoveTable, Phases, Call, NewsFit
<1>17. CASE RemoveEnd(m) \/ DeleteEnd(m)
  BY <1>0, <1>n, <1>17, EndOfStageFits DEF RemoveEnd, DeleteEnd, Phases, NewsFit
<1>18. CASE Discover(m)
  BY <1>0, <1>n, <1>18 DEF Discover, Phases, Call, NewsFit
<1>19. CASE PackedIds(m)
  BY <1>0, <1>n, <1>19 DEF PackedIds, Phases, Call, NewsFit
<1>20. CASE ScanLoose(m)
  BY <1>0, <1>n, <1>20 DEF ScanLoose, Phases, Call, NewsFit
<1>21. CASE DeleteLoose(m)
  BY <1>0, <1>n, <1>21 DEF DeleteLoose, In, Phases, Call, NewsFit
<1> QED
  BY <1>1, <1>2, <1>3, <1>4, <1>5, <1>6, <1>7, <1>8, <1>9, <1>10, <1>11, <1>12, <1>13, <1>14,
     <1>15, <1>16, <1>17, <1>18, <1>19, <1>20, <1>21 DEF MaintNext

LEMMA TypeInit == Init => TypeOK /\ CallsFit
<1> SUFFICES ASSUME Init PROVE TypeOK /\ CallsFit
  OBVIOUS
<1>1. packs \subseteq Pack /\ indexes \subseteq Pack /\ tables \subseteq Pack /\ kept \subseteq Pack
  BY DEF Init, Pack
<1>2. dated \in [Pack -> Pack] /\ \A p \in Pack : dated[p] \subseteq p
  <2>1. PICK d \in [packs -> Pack] :
           /\ \A p \in packs : d[p] \in SUBSET p
           /\ dated = [p \in Pack |-> IF p \in packs THEN d[p] ELSE {}]
    BY DEF Init
  <2> QED
    BY <1>1, <2>1 DEF Pack
<1> QED
  BY <1>1, <1>2 DEF Init, TypeOK, CallsFit

LEMMA TypeStep ==
  ASSUME TypeOK, CallsFit, [Next]_vars
  PROVE  TypeOK' /\ CallsFit'
<1>1. ASSUME NEW m \in Maint, MaintNext(m) PROVE TypeOK' /\ CallsFit'
  <2>1. UNCHANGED <<roots, work, reading>>
    BY <1>1 DEF MaintNext, StartCall, EndCall, GiveUp, FsckLoose, FsckPacks, FsckObjects,
       FsckRoots, ListPacks, Select, WritePack, WriteIndex, VerifyPack, PruneLoose, PruneLooseEnd,
       RemoveIndex, RemovePack, RemoveTable, RemoveEnd, Discover, PackedIds, ScanLoose,
       DeleteLoose, DeleteEnd
  <2> QED
    BY <1>1, <2>1, MaintTypeStep, StoreTypeStep, CallsFitStep DEF TypeOK, MaintType, StoreType
<1>2. ASSUME NEW w \in Writer, WriterNext(w) PROVE TypeOK' /\ CallsFit'
  <2>1. UNCHANGED <<gcpid, maint, reading>>
    BY <1>2 DEF WriterNext, StartTask, StoreObject, ReceivePack, ReceiveKeep, ReceiveIndex,
       SetRoot, Abandon
  <2> QED
    BY <1>2, <2>1, WriterTypeStep DEF TypeOK, StoreType, CallsFit
<1>3. ASSUME NEW q \in Reader, ReaderNext(q) PROVE TypeOK' /\ CallsFit'
  <2>1. UNCHANGED <<store, roots, gcpid, maint, work>>
    BY <1>3 DEF ReaderNext, StartRead, ReadLoose, ReadDirectory, ReadPack, EndRead
  <2> QED
    BY <1>3, <2>1, ReaderTypeStep DEF TypeOK, CallsFit, store
<1>4. CASE DropRoot
  BY <1>4 DEF DropRoot, TypeOK, CallsFit, store
<1>5. CASE UNCHANGED vars
  BY <1>5 DEF vars, TypeOK, CallsFit, store
<1> QED
  BY <1>1, <1>2, <1>3, <1>4, <1>5 DEF Next

\* The state keeps its type, and gc.pid is there just while a call that takes it
\* is under way, whatever calls are made.
THEOREM TypeCorrect == Spec => []TypeOK
<1>1. Init => TypeOK /\ CallsFit
  BY TypeInit
<1>2. (TypeOK /\ CallsFit) /\ [Next]_vars => (TypeOK /\ CallsFit)'
  BY TypeStep
<1> QED
  BY <1>1, <1>2, PTL DEF Spec

-------------------------------------------------------------------------------
(* What the calls that add objects build on, and what has to stay: the       *)
(* objects that are reached, and those a call has stored.                     *)

Calls == {m \in Maint : maint[m] # Idle}
Tasks == {w \in Writer : work[w] # NoTask}
Reads == {q \in Reader : reading[q] # NoRead}

PacksThere ==
    /\ indexes \subseteq packs
    /\ \A m \in Calls : maint[m].phase = "index" => Head(maint[m].news) \in packs
    /\ \A w \in Tasks : work[w].phase \in {"keep", "index"} => work[w].new \in packs

\* A call builds on what is reached, and sets its reference when it has stored
\* everything.
TasksReach ==
    \A w \in Tasks :
        /\ Outside(work[w]) \subseteq Reach[roots]
        /\ work[w].goal \in work[w].new /\ work[w].todo \subseteq work[w].new
        /\ work[w].phase = "root" => work[w].todo = {}

Protected(o) ==
    \/ o \in Reach[roots]
    \/ \E w \in Tasks : o \in work[w].new /\ o \notin work[w].todo

LEMMA MaintLeaves ==
  ASSUME NEW m \in Maint, MaintNext(m)
  PROVE  UNCHANGED <<roots, work, reading>>
BY DEF MaintNext, StartCall, EndCall, GiveUp, FsckLoose, FsckPacks, FsckObjects, FsckRoots,
   ListPacks, Select, WritePack, WriteIndex, VerifyPack, PruneLoose, PruneLooseEnd, RemoveIndex,
   RemovePack, RemoveTable, RemoveEnd, Discover, PackedIds, ScanLoose, DeleteLoose, DeleteEnd

LEMMA WriterLeaves ==
  ASSUME NEW w \in Writer, WriterNext(w)
  PROVE  UNCHANGED <<gcpid, maint, reading>>
BY DEF WriterNext, StartTask, StoreObject, ReceivePack, ReceiveKeep, ReceiveIndex, SetRoot, Abandon

LEMMA ReaderLeaves ==
  ASSUME NEW q \in Reader, ReaderNext(q)
  PROVE  UNCHANGED <<loose, packs, indexes, tables, dated, kept, roots, gcpid, maint, work>>
BY DEF ReaderNext, StartRead, ReadLoose, ReadDirectory, ReadPack, EndRead, store

LEMMA OutsideHas ==
  ASSUME NEW T, NEW o \in T.new, NEW t \in Links[o], t \notin T.new
  PROVE  t \in Outside(T)
<1>1. Links[o] \in {Links[x] : x \in T.new}
  OBVIOUS
<1>2. t \in UNION {Links[x] : x \in T.new}
  BY <1>1
<1> QED
  BY <1>2 DEF Outside

LEMMA NeededIs ==
  ASSUME NEW o \in Needed
  PROVE  \/ \E w \in Tasks : o \in Outside(work[w])
         \/ \E q \in Reads : o = reading[q].obj
<1> DEFINE F(w) == IF work[w] = NoTask THEN {} ELSE Outside(work[w])
           G == {reading[q].obj : q \in {r \in Reader : reading[r] # NoRead}}
<1>1. o \in UNION {F(w) : w \in Writer} \/ o \in G
  BY Zenon DEF Needed
<1>2. ASSUME o \in UNION {F(w) : w \in Writer} PROVE \E w \in Tasks : o \in Outside(work[w])
  <2> HIDE DEF F
  <2>1. PICK w \in Writer : o \in F(w)
    BY <1>2
  <2> QED
    BY <2>1 DEF F, Tasks
<1>3. ASSUME o \in G PROVE \E q \in Reads : o = reading[q].obj
  BY <1>3 DEF Reads
<1> QED
  BY <1>1, <1>2, <1>3

\* What is reached: less, or the new objects of a task as well.
LEMMA RootsMove ==
  ASSUME TypeOK, TasksReach, [Next]_vars
  PROVE  /\ \A o \in Reach[roots'] : Protected(o)
         /\ Needed \cap Reach[roots] \subseteq Reach[roots']
         /\ roots' \in SUBSET Obj
<1>0. roots \in SUBSET Obj
  BY DEF TypeOK
<1>1. ASSUME NEW w \in Writer, SetRoot(w)
      PROVE  /\ \A o \in Reach[roots'] : Protected(o)
             /\ Needed \cap Reach[roots] \subseteq Reach[roots']
             /\ roots' \in SUBSET Obj
  <2>1. w \in Tasks /\ work[w] \in Task
    BY <1>1 DEF SetRoot, Tasks, TypeOK
  <2> DEFINE N == work[w].new
             g == work[w].goal
  <2>2. N \in SUBSET Obj /\ g \in N
    BY <2>1 DEF Task, TasksReach
  <2>3. \A o \in N : Links[o] \subseteq N \cup Reach[roots]
    <3> SUFFICES ASSUME NEW o \in N, NEW t \in Links[o], t \notin N PROVE t \in Reach[roots]
      OBVIOUS
    <3>1. t \in Outside(work[w])
      BY OutsideHas
    <3> QED
      BY <2>1, <3>1 DEF TasksReach
  <2>4. roots' = roots \cup {g}
    BY <1>1 DEF SetRoot
  <2>5. Reach[roots'] \subseteq Reach[roots] \cup N
    BY <1>0, <2>2, <2>3, <2>4, ReachNew
  <2>6. \A o \in N : Protected(o)
    BY <1>1, <2>1 DEF SetRoot, TasksReach, Protected
  <2>7. Reach[roots] \subseteq Reach[roots']
    BY <1>0, <2>2, <2>4, ReachGrows
  <2>8. \A o \in Reach[roots] : Protected(o)
    BY DEF Protected
  <2>9. \A o \in Reach[roots'] : Protected(o)
    BY <2>5, <2>6, <2>8
  <2>10. roots' \in SUBSET Obj
    BY <1>0, <2>2, <2>4
  <2> QED
    BY <2>7, <2>9, <2>10
<1>2. CASE DropRoot
  <2>1. PICK x \in roots : /\ Needed \subseteq Reach[roots \ {x}]
                           /\ roots' = roots \ {x}
    BY <1>2 DEF DropRoot
  <2>2. Reach[roots \ {x}] \subseteq Reach[roots]
    BY <1>0, ReachGrows
  <2> QED
    BY <1>0, <2>1, <2>2 DEF Protected
<1>3. CASE roots' = roots
  BY <1>0, <1>3 DEF Protected
<1> QED
  <2>1. ASSUME NEW w \in Writer, WriterNext(w) PROVE roots' = roots \/ SetRoot(w)
    BY <2>1 DEF WriterNext, StartTask, StoreObject, ReceivePack, ReceiveKeep, ReceiveIndex, Abandon
  <2> QED
    BY <1>1, <1>2, <1>3, <2>1, MaintLeaves, ReaderLeaves DEF Next, vars

\* A step of a call that adds objects, or the others' steps beside it.
LEMMA OtherTasks ==
  ASSUME TypeOK, [Next]_vars, NEW w \in Writer
  PROVE  WriterNext(w) \/ work'[w] = work[w]
<1>1. work \in [Writer -> Task \cup {NoTask}]
  BY DEF TypeOK
<1>2. ASSUME NEW v \in Writer, WriterNext(v), v # w PROVE work'[w] = work[w]
  BY <1>1, <1>2 DEF WriterNext, StartTask, StoreObject, ReceivePack, ReceiveKeep, ReceiveIndex,
     SetRoot, Abandon
<1> QED
  BY <1>2, MaintLeaves, ReaderLeaves DEF Next, DropRoot, vars

LEMMA TasksReachStep ==
  ASSUME TypeOK, TasksReach, [Next]_vars
  PROVE  TasksReach'
<1> SUFFICES ASSUME NEW w \in Writer, work'[w] # NoTask
             PROVE  /\ Outside(work'[w]) \subseteq Reach[roots']
                    /\ work'[w].goal \in work'[w].new /\ work'[w].todo \subseteq work'[w].new
                    /\ work'[w].phase = "root" => work'[w].todo = {}
  BY DEF TasksReach, Tasks, Outside
<1>0. work \in [Writer -> Task \cup {NoTask}]
  BY DEF TypeOK
<1>2. ASSUME work[w] # NoTask
      PROVE  /\ work[w] \in Task
             /\ Outside(work[w]) \subseteq Reach[roots']
             /\ work[w].goal \in work[w].new /\ work[w].todo \subseteq work[w].new
             /\ work[w].phase = "root" => work[w].todo = {}
  <2>1. work[w] \in Task /\ w \in Tasks
    BY <1>0, <1>2 DEF Tasks
  <2>2. Outside(work[w]) \subseteq Needed
    <3> DEFINE F(v) == IF work[v] = NoTask THEN {} ELSE Outside(work[v])
    <3>1. F(w) \subseteq UNION {F(v) : v \in Writer}
      OBVIOUS
    <3> QED
      BY <1>2, <3>1 DEF Needed
  <2>3. /\ Outside(work[w]) \subseteq Reach[roots]
        /\ work[w].goal \in work[w].new /\ work[w].todo \subseteq work[w].new
        /\ work[w].phase = "root" => work[w].todo = {}
    BY <2>1 DEF TasksReach
  <2> QED
    BY <2>1, <2>2, <2>3, RootsMove
<1>3. CASE work'[w] = work[w]
  BY <1>2, <1>3
<1>4. CASE StartTask(w)
  <2>1. PICK t \in Works :
          /\ Outside(t) \subseteq Reach[roots]
          /\ work' = [work EXCEPT ![w] =
                [kind |-> t.kind, new |-> t.new, goal |-> t.goal, todo |-> t.new,
                 phase |-> IF t.kind = "loose" THEN "store" ELSE "pack"]]
    BY <1>4 DEF StartTask
  <2>2. t.goal \in t.new
    BY WorksAssumption
  <2>3. roots' = roots
    BY <1>4 DEF StartTask
  <2>4. /\ work'[w].new = t.new /\ work'[w].goal = t.goal /\ work'[w].todo = t.new
        /\ work'[w].phase # "root"
    BY <1>0, <2>1
  <2>5. Outside(work'[w]) = Outside(t)
    BY <2>4 DEF Outside
  <2> QED
    BY <2>1, <2>2, <2>3, <2>4, <2>5
<1>5. CASE StoreObject(w) \/ ReceivePack(w) \/ ReceiveKeep(w) \/ ReceiveIndex(w)
  <2>1. work[w] \in Task /\ work[w] # NoTask
    BY <1>0, <1>5 DEF StoreObject, ReceivePack, ReceiveKeep, ReceiveIndex
  <2>2. /\ work'[w].new = work[w].new /\ work'[w].goal = work[w].goal
        /\ work'[w].todo \subseteq work[w].todo
        /\ work'[w].phase = "root" => work'[w].todo = {}
    <3>1. CASE StoreObject(w)
      BY <1>0, <2>1, <3>1 DEF StoreObject, Task
    <3>2. CASE ReceivePack(w) \/ ReceiveKeep(w) \/ ReceiveIndex(w)
      BY <1>0, <2>1, <3>2 DEF ReceivePack, ReceiveKeep, ReceiveIndex, Task
    <3> QED
      BY <1>5, <3>1, <3>2
  <2>3. Outside(work'[w]) = Outside(work[w])
    BY <2>2 DEF Outside
  <2> QED
    BY <1>2, <2>1, <2>2, <2>3
<1>6. CASE SetRoot(w) \/ Abandon(w)
  BY <1>0, <1>6 DEF SetRoot, Abandon
<1> QED
  BY <1>3, <1>4, <1>5, <1>6, OtherTasks DEF WriterNext

\* A step that keeps what is protected keeps the two promises of the store.
LEMMA PromisesStep ==
  ASSUME TypeOK, TasksReach, PacksThere, RootsAvailable, StoredStays, [Next]_vars,
         \A o \in Available : Protected(o) => o \in Available'
  PROVE  RootsAvailable' /\ StoredStays'
<1>p. \A o : Protected(o) => o \in Available'
  BY DEF Protected, RootsAvailable, StoredStays, Tasks
<1>r. RootsAvailable'
  BY <1>p, RootsMove DEF RootsAvailable
<1> SUFFICES ASSUME NEW w \in Writer, work'[w] # NoTask,
                    NEW o \in work'[w].new, o \notin work'[w].todo
             PROVE  o \in Available'
  BY <1>r DEF StoredStays
<1>0. work \in [Writer -> Task \cup {NoTask}]
  BY DEF TypeOK
<1>1. ASSUME work[w] # NoTask, o \in work[w].new, o \notin work[w].todo PROVE o \in Available'
  BY <1>1, <1>p DEF Protected, Tasks
<1>2. CASE work'[w] = work[w]
  BY <1>1, <1>2
<1>3. CASE StartTask(w)
  BY <1>0, <1>3 DEF StartTask
<1>4. CASE StoreObject(w)
  <2>1. work[w] \in Task /\ work[w] # NoTask
    BY <1>0, <1>4 DEF StoreObject
  <2>2. PICK x \in work[w].todo :
           /\ loose' = [loose EXCEPT ![x] = IF @ = "none" THEN "fresh" ELSE @]
           /\ work' = [work EXCEPT ![w].todo = @ \ {x},
                                   ![w].phase = IF work[w].todo = {x} THEN "root" ELSE "store"]
    BY <1>4 DEF StoreObject
  <2>3. work'[w].new = work[w].new /\ work'[w].todo = work[w].todo \ {x}
    BY <1>0, <2>1, <2>2 DEF Task
  <2>4. CASE o = x
    <3>1. o \in Obj
      BY <2>1, <2>2, <2>4 DEF Task
    <3>2. loose'[o] # "none"
      BY <2>2, <2>4, <3>1 DEF TypeOK
    <3> QED
      BY <3>1, <3>2 DEF Available, Loose
  <2> QED
    BY <1>1, <2>1, <2>3, <2>4
<1>5. CASE ReceivePack(w) \/ ReceiveKeep(w)
  <2>1. work[w] \in Task /\ work[w] # NoTask
    BY <1>0, <1>5 DEF ReceivePack, ReceiveKeep
  <2>2. work'[w].new = work[w].new /\ work'[w].todo = work[w].todo
    BY <1>0, <1>5, <2>1 DEF ReceivePack, ReceiveKeep, Task
  <2> QED
    BY <1>1, <2>1, <2>2
<1>6. CASE ReceiveIndex(w)
  <2>1. work[w] \in Task /\ work[w] # NoTask
    BY <1>0, <1>6 DEF ReceiveIndex
  <2>2. work'[w].new = work[w].new
    BY <1>0, <1>6, <2>1 DEF ReceiveIndex, Task
  <2>3. work[w].new \in packs
    BY <1>6, <2>1 DEF ReceiveIndex, PacksThere, Tasks
  <2>4. work[w].new \in indexes' \cap packs'
    BY <1>6, <2>3 DEF ReceiveIndex
  <2>5. o \in Packed'
    BY <2>2, <2>4 DEF Packed
  <2> QED
    BY <2>5 DEF Available
<1>7. CASE SetRoot(w) \/ Abandon(w)
  BY <1>0, <1>7 DEF SetRoot, Abandon
<1> QED
  BY <1>2, <1>3, <1>4, <1>5, <1>6, <1>7, OtherTasks DEF WriterNext

-------------------------------------------------------------------------------
(* Maintenance that removes no packs, by any number of processes at a time, *)
(* beside any writers and readers.  An object can go only as a loose file:  *)
(* the inductive invariant says that the file is redundant, its object      *)
(* being in an indexed pack, or that it is old, nothing reaches it, nobody  *)
(* is writing it, and the one process that has gc.pid is the one to expire  *)
(* it.                                                                      *)

\* No job removes packs, and an object with an old loose copy is not written again.
KeepsPacks == "loose" \notin Rewrites /\ \A j \in Jobs : ~ j.delete

\* What maint[m] satisfies while m is in a call that removes no packs.
Fits(c) ==
    /\ c.phase \notin {"remove", "unpack", "untable"}
    /\ c.stages # <<>>
    /\ \A i \in DOMAIN c.stages : c.stages[i] = "prune" => c.job.locked
    /\ c.phase \in {"loose", "packs", "objects", "roots"} => Head(c.stages) # "prune-packed"
    /\ c.phase = "discover" => c.job.locked

\* What repack and prune_packed remove is in packs.
Redundant(c) ==
    /\ c.packed \subseteq Packed
    /\ c.phase \in {"pack", "index", "verify"} => \A o \in c.doomed :
          o \in Packed \/ \E i \in DOMAIN c.news : o \in c.news[i]
    /\ c.phase = "unloose" => c.doomed \subseteq Packed

\* What prune expires.
Garbage(o) == loose[o] = "old" /\ o \notin Reach[roots]

Condemned(c) ==
    /\ c.phase = "discover" => \A o \in Obj :
          loose[o] = "old" /\ o \notin c.reach => Garbage(o)
    /\ c.phase = "delete" => \A o \in c.doomed :
          o \in Packed \/ (c.job.locked /\ Garbage(o))

CallsKeep == \A m \in Calls : Fits(maint[m]) /\ Redundant(maint[m]) /\ Condemned(maint[m])

\* The new objects of a call are not old loose ones.
NewFresh == \A w \in Tasks : \A o \in work[w].new : loose[o] # "old"

ReadsFit ==
    \A q \in Reads :
        /\ reading[q].obj \in Reach[roots]
        /\ reading[q].phase = "list" => reading[q].obj \in Packed
        /\ reading[q].phase = "packs" => /\ reading[q].packs \subseteq indexes
                                         /\ \E p \in reading[q].packs : reading[q].obj \in p
        /\ reading[q].phase # "missing"

KInv == /\ TypeOK /\ CallsFit
        /\ CallsKeep /\ PacksThere
        /\ TasksReach /\ NewFresh /\ StoredStays /\ RootsAvailable
        /\ ReadsFit

\* The packs and their indexes: they are only added to.
LEMMA PacksGrow ==
  ASSUME KInv, [Next]_vars
  PROVE  packs \subseteq packs' /\ indexes \subseteq indexes' /\ Packed \subseteq Packed'
<1>1. packs \subseteq packs' /\ indexes \subseteq indexes'
  <2>1. ASSUME NEW m \in Maint, MaintNext(m)
        PROVE  packs \subseteq packs' /\ indexes \subseteq indexes'
    <3>1. ~ RemoveIndex(m) /\ ~ RemovePack(m)
      BY InCall DEF KInv, CallsKeep, Fits, Calls, RemoveIndex, RemovePack, In, Phases
    <3> QED
      BY <2>1, <3>1 DEF MaintNext, store, StartCall, EndCall, GiveUp, FsckLoose, FsckPacks,
         FsckObjects, FsckRoots, ListPacks, Select, WritePack, WriteIndex, VerifyPack, PruneLoose,
         PruneLooseEnd, RemoveTable, RemoveEnd, Discover, PackedIds, ScanLoose, DeleteLoose,
         DeleteEnd, PublishPack
  <2>2. ASSUME NEW w \in Writer, WriterNext(w)
        PROVE  packs \subseteq packs' /\ indexes \subseteq indexes'
    BY <2>2 DEF WriterNext, store, StartTask, StoreObject, ReceivePack, ReceiveKeep, ReceiveIndex,
       SetRoot, Abandon, PublishPack
  <2>3. ASSUME NEW q \in Reader, ReaderNext(q)
        PROVE  packs \subseteq packs' /\ indexes \subseteq indexes'
    BY <2>3, ReaderLeaves
  <2> QED
    BY <2>1, <2>2, <2>3 DEF Next, DropRoot, vars, store
<1> QED
  BY <1>1 DEF Packed

\* Loose files: written fresh, or removed where they are redundant or garbage.
LEMMA LooseMoves ==
  ASSUME KInv, [Next]_vars, NEW o \in Obj
  PROVE  \/ loose'[o] = loose[o]
         \/ loose[o] = "none" /\ loose'[o] = "fresh"
         \/ /\ loose[o] # "none" /\ loose'[o] = "none" /\ roots' = roots
            /\ o \in Packed \/ Garbage(o)
<1>0. loose \in [Obj -> {"none", "old", "fresh"}]
  BY DEF KInv, TypeOK
<1>1. ASSUME NEW m \in Maint, MaintNext(m)
      PROVE  \/ loose' = loose
             \/ \E x \in maint[m].doomed : /\ loose' = [loose EXCEPT ![x] = "none"]
                                           /\ roots' = roots
                                           /\ x \in Packed \/ Garbage(x)
  <2>1. CASE PruneLoose(m)
    <3>1. m \in Calls
      BY <2>1, InCall DEF PruneLoose, Phases, Calls, KInv
    <3> QED
      BY <2>1, <3>1 DEF PruneLoose, Unlink, In, KInv, CallsKeep, Redundant
  <2>2. CASE DeleteLoose(m)
    <3>1. m \in Calls
      BY <2>2, InCall DEF DeleteLoose, Phases, Calls, KInv
    <3> QED
      BY <2>2, <3>1 DEF DeleteLoose, Unlink, In, KInv, CallsKeep, Condemned
  <2>3. CASE ~ PruneLoose(m) /\ ~ DeleteLoose(m)
    BY <1>1, <2>3 DEF MaintNext, store, StartCall, EndCall, GiveUp, FsckLoose, FsckPacks,
       FsckObjects, FsckRoots, ListPacks, Select, WritePack, WriteIndex, VerifyPack, PruneLooseEnd,
       RemoveIndex, RemovePack, RemoveTable, RemoveEnd, Discover, PackedIds, ScanLoose, DeleteEnd
  <2> QED
    BY <2>1, <2>2, <2>3
<1>2. ASSUME NEW w \in Writer, WriterNext(w)
      PROVE  \/ loose' = loose
             \/ \E x : loose' = [loose EXCEPT ![x] = IF @ = "none" THEN "fresh" ELSE @]
  BY <1>2 DEF WriterNext, store, StartTask, StoreObject, ReceivePack, ReceiveKeep, ReceiveIndex,
     SetRoot, Abandon
<1>3. ASSUME NEW q \in Reader, ReaderNext(q) PROVE loose' = loose
  BY <1>3, ReaderLeaves
<1>4. CASE \E m \in Maint : MaintNext(m)
  <2>1. PICK m \in Maint : MaintNext(m)
    BY <1>4
  <2>2. CASE loose' = loose
    BY <2>2
  <2>3. CASE \E x \in maint[m].doomed : /\ loose' = [loose EXCEPT ![x] = "none"]
                                        /\ roots' = roots
                                        /\ x \in Packed \/ Garbage(x)
    BY <1>0, <2>3
  <2> QED
    BY <1>1, <2>1, <2>2, <2>3
<1>5. CASE \E w \in Writer : WriterNext(w)
  BY <1>0, <1>2, <1>5
<1> QED
  BY <1>3, <1>4, <1>5 DEF Next, DropRoot, vars, store

\* What is in the store stays, if it is in a pack, fresh or reached.
LEMMA AvailableStays ==
  ASSUME KInv, [Next]_vars, NEW o \in Available, loose[o] # "old" \/ Protected(o)
  PROVE  o \in Available'
<1>1. o \in Obj
  BY AvailableType DEF KInv
<1>2. CASE o \in Packed
  BY <1>2, PacksGrow DEF Available
<1>3. CASE o \notin Packed
  <2>1. loose[o] # "none"
    BY <1>3 DEF Available, Loose
  <2>2. loose'[o] = loose[o]
    BY <1>1, <1>3, <2>1, LooseMoves DEF Garbage, Protected, KInv, NewFresh
  <2> QED
    BY <1>1, <2>1, <2>2 DEF Available, Loose
<1> QED
  BY <1>2, <1>3

\* Garbage stays garbage until its file is removed.
LEMMA GarbageStays ==
  ASSUME KInv, [Next]_vars, NEW o \in Obj, loose[o] = "old", o \notin Reach[roots],
         loose'[o] # "none"
  PROVE  Garbage(o)'
<1>1. loose'[o] = "old"
  BY LooseMoves
<1>2. o \notin Reach[roots']
  BY RootsMove DEF Protected, KInv, NewFresh
<1> QED
  BY <1>1, <1>2 DEF Garbage

LEMMA NewFreshStep ==
  ASSUME KeepsPacks, KInv, [Next]_vars
  PROVE  NewFresh'
<1> SUFFICES ASSUME NEW w \in Writer, work'[w] # NoTask, NEW o \in work'[w].new
             PROVE  loose'[o] # "old"
  BY DEF NewFresh, Tasks
<1>0. work \in [Writer -> Task \cup {NoTask}]
  BY DEF KInv, TypeOK
<1>1. o \in Obj
  BY TypeStep DEF KInv, TypeOK, Task
<1>2. loose[o] # "old"
  <2>1. CASE work[w] # NoTask /\ work'[w].new = work[w].new
    BY <2>1 DEF KInv, NewFresh, Tasks
  <2>2. CASE StartTask(w)
    <3>1. PICK t \in Works :
            /\ \A x \in t.new : OldCopies(x) \subseteq Rewrites
            /\ work' = [work EXCEPT ![w] =
                  [kind |-> t.kind, new |-> t.new, goal |-> t.goal, todo |-> t.new,
                   phase |-> IF t.kind = "loose" THEN "store" ELSE "pack"]]
      BY <2>2 DEF StartTask
    <3>2. o \in t.new
      BY <1>0, <3>1
    <3>3. loose[o] = "old" => "loose" \in OldCopies(o)
      BY DEF OldCopies
    <3> QED
      BY <3>1, <3>2, <3>3 DEF KeepsPacks
  <2>3. CASE StoreObject(w) \/ ReceivePack(w) \/ ReceiveKeep(w) \/ ReceiveIndex(w)
    <3>1. work[w] \in Task /\ work[w] # NoTask
      BY <1>0, <2>3 DEF StoreObject, ReceivePack, ReceiveKeep, ReceiveIndex
    <3>2. work'[w].new = work[w].new
      <4>1. CASE StoreObject(w)
        BY <1>0, <3>1, <4>1 DEF StoreObject, Task
      <4>2. CASE ReceivePack(w) \/ ReceiveKeep(w) \/ ReceiveIndex(w)
        BY <1>0, <3>1, <4>2 DEF ReceivePack, ReceiveKeep, ReceiveIndex, Task
      <4> QED
        BY <2>3, <4>1, <4>2
    <3> QED
      BY <2>1, <3>1, <3>2
  <2>4. CASE SetRoot(w) \/ Abandon(w)
    BY <1>0, <2>4 DEF SetRoot, Abandon
  <2> QED
    BY <2>1, <2>2, <2>3, <2>4, OtherTasks DEF WriterNext, KInv
<1> QED
  BY <1>1, <1>2, LooseMoves

-------------------------------------------------------------------------------
(* The calls. *)

\* The phase a step leads to, where repack writes packs and where it and prune
\* remove loose files.
LEMMA NextPhase ==
  ASSUME TypeOK, NEW m \in Maint, MaintNext(m), maint'[m] # Idle
  PROVE  /\ maint'[m].phase = "pack" => Select(m) \/ VerifyPack(m)
         /\ maint'[m].phase = "index" => WritePack(m)
         /\ maint'[m].phase = "verify" => WriteIndex(m)
         /\ maint'[m].phase = "unloose" => VerifyPack(m) \/ PruneLoose(m)
         /\ maint'[m].phase = "discover" => FsckRoots(m)
         /\ maint'[m].phase = "delete" => Discover(m) \/ ScanLoose(m) \/ DeleteLoose(m)
<1>0. maint \in [Maint -> Call \cup {Idle}]
  BY DEF TypeOK
<1>n. \A phase \in Phases : In(m, phase) => maint[m] \in Call
  BY InCall
<1>e. \A c \in Call : EndOfStage(c).phase \in {"loose", "packed", "done"}
  BY DEF EndOfStage, Entry, Call
<1>1. CASE StartCall(m)
  <2>1. PICK j \in Jobs : maint' = [maint EXCEPT ![m] = NewCall(j)]
    BY <1>1 DEF StartCall
  <2>2. NewCall(j).phase \in {"loose", "packed"}
    BY DEF NewCall, Entry
  <2> QED
    BY <1>0, <2>1, <2>2
<1>2. CASE EndCall(m) \/ GiveUp(m)
  BY <1>0, <1>2 DEF EndCall, GiveUp
<1>3. CASE FsckLoose(m) \/ FsckPacks(m) \/ FsckObjects(m) \/ ListPacks(m) \/ PackedIds(m)
  BY <1>0, <1>n, <1>3 DEF FsckLoose, FsckPacks, FsckObjects, ListPacks, PackedIds, Goto, Phases, Call
<1>4. CASE FsckRoots(m)
  BY <1>0, <1>n, <1>4 DEF FsckRoots, Phases, Call
<1>5. CASE Select(m)
  <2>1. PICK ids, cruft, ages \in SUBSET Obj, news \in Seq(Pack) :
                Selects(m, ids, cruft, ages, news)
    BY <1>5, SelectDoes
  <2> DEFINE next == Selected(m, ids, cruft, ages, news)
  <2>2. /\ next \in Call
        /\ maint' = [maint EXCEPT ![m] = IF news = <<>> THEN EndOfStage(next) ELSE next]
    BY <2>1 DEF Selects
  <2>3. next.phase = "pack"
    BY <1>5, <1>n DEF Select, Phases, Call, Selected
  <2> HIDE DEF next
  <2> QED
    BY <1>0, <1>5, <1>e, <2>2, <2>3
<1>6. CASE WritePack(m) \/ WriteIndex(m)
  BY <1>0, <1>n, <1>6 DEF WritePack, WriteIndex, Goto, Phases, Call
<1>7. CASE VerifyPack(m)
  BY <1>0, <1>n, <1>7 DEF VerifyPack, Phases, Call
<1>8. CASE PruneLoose(m)
  BY <1>0, <1>n, <1>8, ZenonT(60) DEF PruneLoose, In, Phases, Call
<1>9. CASE PruneLooseEnd(m)
  <2>1. maint[m] \in Call
    BY <1>9, <1>n DEF PruneLooseEnd, Phases
  <2> DEFINE b == [maint[m] EXCEPT !.doomed = {}, !.cruft = {}, !.ages = {}]
             d == [b EXCEPT !.phase = "remove"]
             e == [b EXCEPT !.old = {}]
  <2>2. b \in Call
    BY <2>1 DEF Call
  <2>3. d.phase = "remove" /\ e \in Call
    <3> HIDE DEF b
    <3> QED
      BY <2>2 DEF Call
  <2>4. maint' = [maint EXCEPT ![m] = IF b.job.delete THEN d ELSE EndOfStage(e)]
    BY <1>9 DEF PruneLooseEnd
  <2> HIDE DEF b, d, e
  <2> QED
    BY <1>0, <1>e, <2>3, <2>4
<1>10. CASE RemoveIndex(m)
  <2>1. maint[m] \in Call /\ maint[m].phase = "remove"
    BY <1>10, <1>n DEF RemoveIndex, In, Phases
  <2>2. PICK p \in maint[m].old :
           \/ maint' = [maint EXCEPT ![m].old = @ \ {p}]
           \/ maint' = [maint EXCEPT ![m].old = @ \ {p}, ![m].at = p, ![m].phase = "unpack"]
    BY <1>10 DEF RemoveIndex
  <2> DEFINE c == [maint[m] EXCEPT !.old = @ \ {p}]
             d == [maint[m] EXCEPT !.old = @ \ {p}, !.at = p, !.phase = "unpack"]
  <2>3. c.phase = "remove" /\ d.phase = "unpack"
    BY <2>1 DEF Call
  <2>4. maint' = [maint EXCEPT ![m] = c] \/ maint' = [maint EXCEPT ![m] = d]
    BY <2>2
  <2> HIDE DEF c, d
  <2> QED
    BY <1>0, <2>3, <2>4
<1>11. CASE RemovePack(m) \/ RemoveTable(m)
  BY <1>0, <1>n, <1>11 DEF RemovePack, RemoveTable, Goto, Phases, Call
<1>12. CASE RemoveEnd(m) \/ DeleteEnd(m)
  BY <1>0, <1>n, <1>e, <1>12 DEF RemoveEnd, DeleteEnd, Phases
<1>13. CASE Discover(m)
  <2>1. maint[m] \in Call
    BY <1>13, <1>n DEF Discover, Phases
  <2>2. maint'[m].phase = "delete"
    BY <1>0, <1>13, <2>1 DEF Discover, Call
  <2> QED
    BY <1>13, <2>2
<1>14. CASE ScanLoose(m) \/ DeleteLoose(m)
  <2>1. maint[m] \in Call
    BY <1>14, <1>n DEF ScanLoose, DeleteLoose, Phases
  <2>2. maint'[m].phase = "delete"
    BY <1>0, <1>14, <2>1 DEF ScanLoose, DeleteLoose, In, Call
  <2> QED
    BY <1>14, <2>2
<1> QED
  BY <1>1, <1>2, <1>3, <1>4, <1>5, <1>6, <1>7, <1>8, <1>9, <1>10, <1>11, <1>12, <1>13,
     <1>14
     DEF MaintNext

-------------------------------------------------------------------------------
(* The pairs of packs and indexes, and the readers. *)

LEMMA PacksThereStep ==
  ASSUME KInv, [Next]_vars
  PROVE  PacksThere'
<1>0. /\ maint \in [Maint -> Call \cup {Idle}] /\ work \in [Writer -> Task \cup {NoTask}]
      /\ packs \subseteq packs'
  BY PacksGrow DEF KInv, TypeOK
<1>1. indexes' \subseteq packs'
  <2>1. ASSUME NEW m \in Maint, MaintNext(m) PROVE indexes' \subseteq packs'
    <3>1. CASE WriteIndex(m)
      <4>1. m \in Calls
        BY <3>1, InCall DEF WriteIndex, Phases, Calls, KInv
      <4> QED
        BY <3>1, <4>1 DEF WriteIndex, In, KInv, PacksThere
    <3>2. CASE ~ WriteIndex(m)
      <4>1. indexes' \subseteq indexes
        BY <2>1, <3>2 DEF MaintNext, store, StartCall, EndCall, GiveUp, FsckLoose, FsckPacks,
           FsckObjects, FsckRoots, ListPacks, Select, WritePack, VerifyPack, PruneLoose,
           PruneLooseEnd, RemoveIndex, RemovePack, RemoveTable, RemoveEnd, Discover, PackedIds,
           ScanLoose, DeleteLoose, DeleteEnd
      <4> QED
        BY <1>0, <4>1 DEF KInv, PacksThere
    <3> QED
      BY <3>1, <3>2
  <2>2. ASSUME NEW w \in Writer, WriterNext(w) PROVE indexes' \subseteq packs'
    <3>1. CASE ReceiveIndex(w)
      BY <1>0, <3>1 DEF ReceiveIndex, KInv, PacksThere, Tasks
    <3>2. CASE ~ ReceiveIndex(w)
      <4>1. indexes' = indexes
        BY <2>2, <3>2 DEF WriterNext, store, StartTask, StoreObject, ReceivePack, ReceiveKeep,
           SetRoot, Abandon
      <4> QED
        BY <1>0, <4>1 DEF KInv, PacksThere
    <3> QED
      BY <3>1, <3>2
  <2> QED
    BY <2>1, <2>2, ReaderLeaves DEF Next, DropRoot, vars, store, KInv, PacksThere
<1>2. ASSUME NEW m \in Maint, maint'[m] # Idle, maint'[m].phase = "index"
      PROVE  Head(maint'[m].news) \in packs'
  <2>1. CASE maint'[m] = maint[m]
    BY <1>0, <1>2, <2>1 DEF KInv, PacksThere, Calls
  <2>2. CASE maint'[m] # maint[m]
    <3>1. MaintNext(m)
      BY <2>2, OtherCalls, WriterLeaves, ReaderLeaves DEF Next, DropRoot, vars, KInv
    <3>2. CASE WritePack(m)
      <4>1. maint[m] \in Call
        BY <3>2, InCall DEF WritePack, Phases, KInv
      <4>2. maint'[m].news = maint[m].news
        BY <1>0, <3>2, <4>1 DEF WritePack, Goto, Call
      <4> QED
        BY <3>2, <4>2 DEF WritePack, PublishPack
    <3>3. CASE ~ WritePack(m)
      BY <1>2, <3>1, <3>3, NextPhase DEF KInv
    <3> QED
      BY <3>2, <3>3
  <2> QED
    BY <2>1, <2>2
<1>3. ASSUME NEW w \in Writer, work'[w] # NoTask, work'[w].phase \in {"keep", "index"}
      PROVE  work'[w].new \in packs'
  <2>1. CASE work'[w] = work[w]
    BY <1>0, <1>3, <2>1 DEF KInv, PacksThere, Tasks
  <2>2. CASE StartTask(w)
    BY <1>0, <1>3, <2>2 DEF StartTask
  <2>3. CASE StoreObject(w)
    <3>1. work[w] \in Task
      BY <1>0, <2>3 DEF StoreObject
    <3> QED
      BY <1>0, <1>3, <2>3, <3>1 DEF StoreObject, Task
  <2>4. CASE ReceivePack(w)
    <3>1. work[w] \in Task
      BY <1>0, <2>4 DEF ReceivePack
    <3>2. work'[w].new = work[w].new
      BY <1>0, <2>4, <3>1 DEF ReceivePack, Task
    <3> QED
      BY <2>4, <3>2 DEF ReceivePack, PublishPack
  <2>5. CASE ReceiveKeep(w)
    <3>1. work[w] \in Task /\ w \in Tasks
      BY <1>0, <2>5 DEF ReceiveKeep, Tasks
    <3>2. work'[w].new = work[w].new
      BY <1>0, <2>5, <3>1 DEF ReceiveKeep, Task
    <3> QED
      BY <1>0, <2>5, <3>1, <3>2 DEF ReceiveKeep, KInv, PacksThere
  <2>6. CASE ReceiveIndex(w)
    <3>1. work[w] \in Task
      BY <1>0, <2>6 DEF ReceiveIndex
    <3> QED
      BY <1>0, <1>3, <2>6, <3>1 DEF ReceiveIndex, Task
  <2>7. CASE SetRoot(w) \/ Abandon(w)
    BY <1>0, <1>3, <2>7 DEF SetRoot, Abandon
  <2> QED
    BY <2>1, <2>2, <2>3, <2>4, <2>5, <2>6, <2>7, OtherTasks DEF WriterNext, KInv
<1> QED
  BY <1>1, <1>2, <1>3 DEF PacksThere, Calls, Tasks

LEMMA ReadsFitStep ==
  ASSUME KInv, [Next]_vars
  PROVE  ReadsFit'
<1> SUFFICES ASSUME NEW q \in Reader, reading'[q] # NoRead
             PROVE  /\ reading'[q].obj \in Reach[roots']
                    /\ reading'[q].phase = "list" => reading'[q].obj \in Packed'
                    /\ reading'[q].phase = "packs" =>
                          /\ reading'[q].packs \subseteq indexes'
                          /\ \E p \in reading'[q].packs : reading'[q].obj \in p
                    /\ reading'[q].phase # "missing"
  BY DEF ReadsFit, Reads
<1>0. reading \in [Reader -> Read \cup {NoRead}]
  BY DEF KInv, TypeOK
<1>1. ASSUME reading[q] # NoRead PROVE reading[q].obj \in Reach[roots']
  <2>1. reading[q].obj \in Needed
    BY <1>1 DEF Needed
  <2> QED
    BY <1>1, <2>1, RootsMove DEF KInv, ReadsFit, Reads
<1>2. CASE reading'[q] = reading[q]
  BY <1>1, <1>2, PacksGrow DEF KInv, ReadsFit, Reads
<1>3. ASSUME ReaderNext(q), reading[q] # NoRead
      PROVE  /\ reading[q] \in Read /\ q \in Reads
             /\ roots' = roots /\ indexes' = indexes /\ Packed' = Packed
  BY <1>0, <1>3, ReaderLeaves DEF Reads, Packed
<1>4. CASE StartRead(q)
  <2>1. PICK o \in Reach[roots] :
           reading' = [reading EXCEPT ![q] = [phase |-> "loose", obj |-> o, packs |-> {}]]
    BY <1>4 DEF StartRead
  <2>2. roots' = roots
    BY <1>4 DEF StartRead
  <2> QED
    BY <1>0, <2>1, <2>2
<1>5. CASE ReadLoose(q)
  <2>1. reading[q] # NoRead /\ ReaderNext(q)
    BY <1>5, NotIdle DEF ReadLoose, ReaderNext
  <2>2. reading[q].obj \in Available
    BY <1>3, <2>1 DEF KInv, ReadsFit, RootsAvailable
  <2>3. loose[reading[q].obj] = "none" => reading[q].obj \in Packed
    BY <2>2 DEF Available, Loose
  <2> QED
    BY <1>0, <1>1, <1>3, <1>5, <2>1, <2>3 DEF ReadLoose, Answer, Read
<1>6. CASE ReadDirectory(q)
  <2>1. reading[q] # NoRead /\ ReaderNext(q)
    BY <1>6, NotIdle DEF ReadDirectory, ReaderNext
  <2>2. reading[q].obj \in Packed
    BY <1>3, <1>6, <2>1 DEF ReadDirectory, KInv, ReadsFit
  <2>3. \E p \in indexes : reading[q].obj \in p
    BY <2>2 DEF Packed
  <2> QED
    BY <1>0, <1>1, <1>3, <1>6, <2>1, <2>3 DEF ReadDirectory, Read
<1>7. CASE ReadPack(q)
  <2>1. reading[q] # NoRead /\ ReaderNext(q)
    BY <1>7, NotIdle DEF ReadPack, ReaderNext
  <2>2. PICK s \in reading[q].packs : reading[q].obj \in s
    BY <1>3, <1>7, <2>1 DEF ReadPack, KInv, ReadsFit
  <2>3. \A p \in reading[q].packs : p \in indexes /\ p \in packs
    BY <1>3, <1>7, <2>1 DEF ReadPack, KInv, ReadsFit, PacksThere
  <2>4. \/ Answer(q, "found")
        \/ \E p \in reading[q].packs \ {s} : reading' = [reading EXCEPT ![q].packs = @ \ {p}]
    BY <1>7, <2>2, <2>3 DEF ReadPack
  <2>5. CASE Answer(q, "found")
    BY <1>0, <1>1, <1>3, <2>1, <2>5 DEF Answer, Read
  <2>6. CASE \E p \in reading[q].packs \ {s} : reading' = [reading EXCEPT ![q].packs = @ \ {p}]
    <3>1. PICK p \in reading[q].packs \ {s} : reading' = [reading EXCEPT ![q].packs = @ \ {p}]
      BY <2>6
    <3>2. /\ reading'[q].obj = reading[q].obj /\ reading'[q].phase = "packs"
          /\ reading'[q].packs = reading[q].packs \ {p}
      BY <1>0, <1>3, <1>7, <2>1, <3>1 DEF Read, ReadPack
    <3> QED
      BY <1>1, <1>3, <2>1, <2>2, <2>3, <3>1, <3>2
  <2> QED
    BY <2>4, <2>5, <2>6
<1>8. CASE EndRead(q)
  BY <1>0, <1>8 DEF EndRead
<1> QED
  <2>1. ASSUME NEW r \in Reader, ReaderNext(r), r # q PROVE reading'[q] = reading[q]
    BY <1>0, <2>1 DEF ReaderNext, StartRead, ReadLoose, ReadDirectory, ReadPack, EndRead, Answer
  <2> QED
    BY <1>2, <1>4, <1>5, <1>6, <1>7, <1>8, <2>1, MaintLeaves, WriterLeaves
       DEF Next, DropRoot, vars, ReaderNext

-------------------------------------------------------------------------------
(* The calls that remove no packs. *)

LEMMA EndOfStageKeeps ==
  ASSUME NEW c \in Call, c.stages # <<>>,
         \A i \in DOMAIN c.stages : c.stages[i] = "prune" => c.job.locked
  PROVE  Fits(EndOfStage(c))
<1>0. c.stages \in Seq(Stages)
  BY DEF Call
<1>1. CASE Len(c.stages) > 1
  <2> DEFINE t == Tail(c.stages)
             e == EndOfStage(c)
  <2>1. t # <<>>
    BY <1>0, <1>1, TailLeft
  <2>2. t \in Seq(Stages) /\ Head(t) = c.stages[2] /\ \A i \in DOMAIN t : t[i] = c.stages[i + 1]
    BY <1>0, <1>1
  <2>3. \A i \in DOMAIN t : i + 1 \in DOMAIN c.stages
    BY <1>0, <1>1
  <2>4. e.stages = t /\ e.job = c.job /\ e.phase = Entry(c.stages[2])
    BY <1>1 DEF EndOfStage, Call
  <2>5. \A i \in DOMAIN t : t[i] = "prune" => c.job.locked
    BY <2>2, <2>3
  <2> HIDE DEF t, e
  <2>6. Fits(e)
    BY <2>1, <2>2, <2>4, <2>5 DEF Fits, Entry
  <2> QED
    BY <2>6 DEF e
<1>2. CASE ~ (Len(c.stages) > 1)
  <2> DEFINE e == EndOfStage(c)
  <2>1. e.stages = c.stages /\ e.job = c.job /\ e.phase = "done"
    BY <1>2 DEF EndOfStage, Call
  <2> HIDE DEF e
  <2>2. Fits(e)
    BY <2>1 DEF Fits
  <2> QED
    BY <2>2 DEF e
<1> QED
  BY <1>1, <1>2

LEMMA FitsStep ==
  ASSUME KeepsPacks, KInv, NEW m \in Maint, MaintNext(m), maint'[m] # Idle
  PROVE  Fits(maint'[m])
<1>0. TypeOK /\ maint \in [Maint -> Call \cup {Idle}]
  BY DEF KInv, TypeOK
<1>n. \A phase \in Phases : In(m, phase) => maint[m] \in Call /\ Fits(maint[m])
  BY <1>0, InCall DEF KInv, CallsKeep, Calls
<1>1. CASE StartCall(m)
  <2>1. PICK j \in Jobs : maint' = [maint EXCEPT ![m] = NewCall(j)]
    BY <1>1 DEF StartCall
  <2>2. /\ NewCall(j).phase = Entry(j.stages[1])
        /\ NewCall(j).stages = j.stages /\ NewCall(j).job = j
    BY DEF NewCall
  <2>3. /\ j.stages \in Seq(Stages) /\ j.stages # <<>>
        /\ \A i \in DOMAIN j.stages : j.stages[i] = "prune" => j.locked
    BY JobsAssumption
  <2>4. Head(j.stages) = j.stages[1]
    BY <2>3
  <2>5. Fits(NewCall(j))
    BY <2>2, <2>3, <2>4 DEF Fits, Entry
  <2> QED
    BY <1>0, <2>1, <2>5
<1>2. CASE EndCall(m) \/ GiveUp(m)
  BY <1>0, <1>2 DEF EndCall, GiveUp
<1>3. CASE FsckLoose(m) \/ FsckPacks(m) \/ FsckObjects(m) \/ ListPacks(m) \/ PackedIds(m)
  <2>1. maint[m] \in Call /\ Fits(maint[m])
    BY <1>3, <1>n DEF FsckLoose, FsckPacks, FsckObjects, ListPacks, PackedIds, Phases
  <2>2. maint'[m].stages = maint[m].stages /\ maint'[m].job = maint[m].job
    BY <1>0, <1>3, <2>1 DEF FsckLoose, FsckPacks, FsckObjects, ListPacks, PackedIds, Goto, Call
  <2>3. \/ /\ maint[m].phase \in {"loose", "packs", "objects"}
           /\ maint'[m].phase \in {"packs", "objects", "roots"}
        \/ maint'[m].phase \in {"select", "scan"}
    BY <1>0, <1>3, <2>1 DEF FsckLoose, FsckPacks, FsckObjects, ListPacks, PackedIds, Goto, In, Call
  <2> QED
    BY <2>1, <2>2, <2>3 DEF Fits
<1>4. CASE FsckRoots(m)
  <2>1. maint[m] \in Call /\ Fits(maint[m])
    BY <1>4, <1>n DEF FsckRoots, Phases
  <2>2. /\ maint'[m].stages = maint[m].stages /\ maint'[m].job = maint[m].job
        /\ maint'[m].phase = IF Head(maint[m].stages) = "repack" THEN "list" ELSE "discover"
    BY <1>0, <1>4, <2>1 DEF FsckRoots, Call
  <2>3. Head(maint[m].stages) \in Stages /\ Head(maint[m].stages) # "prune-packed"
        /\ (Head(maint[m].stages) = "prune" => maint[m].job.locked)
    <3>1. maint[m].stages \in Seq(Stages) /\ maint[m].stages # <<>>
      BY <2>1 DEF Call, Fits
    <3>2. 1 \in DOMAIN maint[m].stages /\ Head(maint[m].stages) = maint[m].stages[1]
      BY <3>1
    <3> QED
      BY <1>4, <2>1, <3>1, <3>2 DEF Fits, FsckRoots, In
  <2> QED
    BY <2>1, <2>2, <2>3 DEF Fits, Stages
<1>5. CASE Select(m)
  <2>1. PICK ids, cruft, ages \in SUBSET Obj, news \in Seq(Pack) :
                Selects(m, ids, cruft, ages, news)
    BY <1>0, <1>5, SelectDoes
  <2> DEFINE next == Selected(m, ids, cruft, ages, news)
  <2>2. /\ next \in Call
        /\ maint' = [maint EXCEPT ![m] = IF news = <<>> THEN EndOfStage(next) ELSE next]
    BY <2>1 DEF Selects
  <2>3. maint[m] \in Call /\ Fits(maint[m])
    BY <1>5, <1>n DEF Select, Phases
  <2>4. next.phase = "pack" /\ next.stages = maint[m].stages /\ next.job = maint[m].job
    BY <2>3 DEF Call, Selected
  <2> HIDE DEF next
  <2>5. Fits(next)
    BY <2>3, <2>4 DEF Fits
  <2>6. Fits(EndOfStage(next))
    BY <2>2, <2>5, EndOfStageKeeps DEF Fits
  <2> QED
    BY <1>0, <2>2, <2>5, <2>6
<1>6. CASE WritePack(m) \/ WriteIndex(m) \/ VerifyPack(m) \/ PruneLoose(m)
  <2>1. maint[m] \in Call /\ Fits(maint[m])
    BY <1>6, <1>n DEF WritePack, WriteIndex, VerifyPack, PruneLoose, Phases
  <2>2. /\ maint'[m].stages = maint[m].stages /\ maint'[m].job = maint[m].job
        /\ maint'[m].phase \in {"index", "verify", "pack", "unloose"}
    <3>1. CASE WritePack(m) \/ WriteIndex(m)
      BY <1>0, <2>1, <3>1 DEF WritePack, WriteIndex, Goto, Call
    <3>2. CASE VerifyPack(m)
      BY <1>0, <2>1, <3>2 DEF VerifyPack, Call
    <3>3. CASE PruneLoose(m)
      BY <1>0, <2>1, <3>3 DEF PruneLoose, In, Call
    <3> QED
      BY <1>6, <3>1, <3>2, <3>3
  <2> QED
    BY <2>1, <2>2 DEF Fits
<1>7. CASE PruneLooseEnd(m)
  <2>1. maint[m] \in Call /\ Fits(maint[m])
    BY <1>7, <1>n DEF PruneLooseEnd, Phases
  <2> DEFINE b == [maint[m] EXCEPT !.doomed = {}, !.cruft = {}, !.ages = {}]
             d == [b EXCEPT !.phase = "remove"]
             e == [b EXCEPT !.old = {}]
  <2>2. b \in Call /\ b.job = maint[m].job /\ b.stages = maint[m].stages
    BY <2>1 DEF Call
  <2>3. e \in Call /\ e.job = maint[m].job /\ e.stages = maint[m].stages
    <3> HIDE DEF b
    <3> QED
      BY <2>2 DEF Call
  <2>4. maint' = [maint EXCEPT ![m] = IF b.job.delete THEN d ELSE EndOfStage(e)]
    BY <1>7 DEF PruneLooseEnd
  <2>5. ~ b.job.delete
    BY <2>1, <2>2 DEF KeepsPacks, Call
  <2> HIDE DEF b, d, e
  <2>6. Fits(EndOfStage(e))
    BY <2>1, <2>3, EndOfStageKeeps DEF Fits
  <2> QED
    BY <1>0, <2>4, <2>5, <2>6
<1>8. CASE RemoveIndex(m) \/ RemovePack(m) \/ RemoveTable(m) \/ RemoveEnd(m)
  <2>1. Fits(maint[m]) /\ maint[m].phase \in {"remove", "unpack", "untable"}
    BY <1>8, <1>n DEF RemoveIndex, RemovePack, RemoveTable, RemoveEnd, In, Phases
  <2> QED
    BY <2>1 DEF Fits
<1>9. CASE DeleteEnd(m)
  <2>1. maint[m] \in Call /\ Fits(maint[m])
    BY <1>9, <1>n DEF DeleteEnd, Phases
  <2>2. Fits(EndOfStage(maint[m]))
    BY <2>1, EndOfStageKeeps DEF Fits
  <2> QED
    BY <1>0, <1>9, <2>2 DEF DeleteEnd
<1>10. CASE Discover(m) \/ ScanLoose(m) \/ DeleteLoose(m)
  <2>1. maint[m] \in Call /\ Fits(maint[m])
    BY <1>10, <1>n DEF Discover, ScanLoose, DeleteLoose, Phases
  <2>2. /\ maint'[m].stages = maint[m].stages /\ maint'[m].job = maint[m].job
        /\ maint'[m].phase = "delete"
    <3>1. CASE Discover(m)
      BY <1>0, <2>1, <3>1 DEF Discover, Call
    <3>2. CASE ScanLoose(m) \/ DeleteLoose(m)
      BY <1>0, <2>1, <3>2 DEF ScanLoose, DeleteLoose, In, Call
    <3> QED
      BY <1>10, <3>1, <3>2
  <2> QED
    BY <2>1, <2>2 DEF Fits
<1> QED
  BY <1>1, <1>2, <1>3, <1>4, <1>5, <1>6, <1>7, <1>8, <1>9, <1>10 DEF MaintNext

\* A loose file that maintenance removes is in a pack, unless the call has gc.pid.
LEMMA RemovalIs ==
  ASSUME KInv, NEW m \in Maint, MaintNext(m), NEW o \in Obj, loose'[o] # loose[o]
  PROVE  maint[m] # Idle /\ (o \in Packed \/ maint[m].job.locked)
<1>0. loose \in [Obj -> {"none", "old", "fresh"}]
  BY DEF KInv, TypeOK
<1>1. CASE PruneLoose(m)
  <2>1. m \in Calls
    BY <1>1, InCall DEF PruneLoose, Phases, Calls, KInv
  <2>2. maint[m].doomed \subseteq Packed
    BY <1>1, <2>1 DEF PruneLoose, In, KInv, CallsKeep, Redundant
  <2>3. o \in maint[m].doomed
    BY <1>0, <1>1 DEF PruneLoose, Unlink
  <2> QED
    BY <2>1, <2>2, <2>3 DEF Calls
<1>2. CASE DeleteLoose(m)
  <2>1. m \in Calls
    BY <1>2, InCall DEF DeleteLoose, Phases, Calls, KInv
  <2>2. \A x \in maint[m].doomed : x \in Packed \/ maint[m].job.locked
    BY <1>2, <2>1 DEF DeleteLoose, In, KInv, CallsKeep, Condemned
  <2>3. o \in maint[m].doomed
    BY <1>0, <1>2 DEF DeleteLoose, Unlink
  <2> QED
    BY <2>1, <2>2, <2>3 DEF Calls
<1>3. CASE ~ PruneLoose(m) /\ ~ DeleteLoose(m)
  <2>1. loose' = loose
    BY <1>3 DEF MaintNext, store, StartCall, EndCall, GiveUp, FsckLoose, FsckPacks,
       FsckObjects, FsckRoots, ListPacks, Select, WritePack, WriteIndex, VerifyPack, PruneLooseEnd,
       RemoveIndex, RemovePack, RemoveTable, RemoveEnd, Discover, PackedIds, ScanLoose, DeleteEnd
  <2> QED
    BY <2>1
<1> QED
  BY <1>1, <1>2, <1>3

LEMMA WriterLoose ==
  ASSUME TypeOK, NEW w \in Writer, WriterNext(w), NEW o \in Obj, loose[o] # "none"
  PROVE  loose'[o] = loose[o]
<1>1. CASE StoreObject(w)
  BY <1>1 DEF TypeOK, StoreObject
<1>2. CASE ~ StoreObject(w)
  BY <1>2 DEF WriterNext, store, StartTask, ReceivePack, ReceiveKeep, ReceiveIndex, SetRoot, Abandon
<1> QED
  BY <1>1, <1>2

\* A call is not disturbed by the steps of others.
LEMMA CallBeside ==
  ASSUME KInv, [Next]_vars, NEW m \in Maint, ~ MaintNext(m)
  PROVE  maint'[m] = maint[m]
BY OtherCalls, WriterLeaves, ReaderLeaves DEF Next, DropRoot, vars, KInv

LEMMA RedundantBeside ==
  ASSUME KInv, [Next]_vars, NEW m \in Calls, ~ MaintNext(m)
  PROVE  Redundant(maint[m])'
<1>1. m \in Maint /\ maint'[m] = maint[m]
  BY CallBeside DEF Calls
<1>2. Redundant(maint[m]) /\ Packed \subseteq Packed'
  BY PacksGrow DEF KInv, CallsKeep
<1> QED
  BY <1>1, <1>2 DEF Redundant

LEMMA CondemnedBeside ==
  ASSUME KInv, [Next]_vars, NEW m \in Calls, ~ MaintNext(m)
  PROVE  Condemned(maint[m])'
<1>0. maint'[m] = maint[m]
  BY CallBeside DEF Calls
<1>1. maint[m] \in Call /\ Condemned(maint[m])
  BY DEF KInv, TypeOK, Calls, CallsKeep
<1>2. ASSUME maint[m].phase = "discover", NEW o \in Obj, loose'[o] = "old", o \notin maint[m].reach
      PROVE  Garbage(o)'
  <2>1. loose[o] = "old"
    BY <1>2, LooseMoves
  <2>2. o \notin Reach[roots]
    BY <1>1, <1>2, <2>1 DEF Condemned, Garbage
  <2> QED
    BY <1>2, <2>1, <2>2, GarbageStays
<1>3. ASSUME maint[m].phase = "delete", NEW o \in maint[m].doomed
      PROVE  o \in Packed' \/ (maint[m].job.locked /\ Garbage(o)')
  <2>1. o \in Obj
    BY <1>1, <1>3 DEF Call
  <2>2. CASE o \in Packed
    BY <2>2, PacksGrow
  <2>3. CASE o \notin Packed
    <3>1. maint[m].job.locked /\ loose[o] = "old" /\ o \notin Reach[roots]
      BY <1>1, <1>3, <2>3 DEF Condemned, Garbage
    <3>2. loose'[o] # "none"
      <4> SUFFICES ASSUME loose'[o] = "none" PROVE FALSE
        OBVIOUS
      <4>1. ASSUME NEW n \in Maint, MaintNext(n), n # m PROVE FALSE
        <5>1. maint[n].job.locked /\ maint[n] # Idle
          BY <2>1, <2>3, <3>1, <4>1, RemovalIs
        <5> QED
          BY <3>1, <4>1, <5>1 DEF KInv, TypeOK, Calls
      <4>2. ASSUME NEW w \in Writer, WriterNext(w) PROVE FALSE
        BY <2>1, <3>1, <4>2, WriterLoose DEF KInv
      <4> QED
        BY <3>1, <4>1, <4>2, ReaderLeaves DEF Next, DropRoot, vars, store
    <3> QED
      BY <2>1, <3>1, <3>2, GarbageStays
  <2> QED
    BY <2>2, <2>3
<1> QED
  BY <1>0, <1>2, <1>3, Zenon DEF Condemned

\* The packed ids a call has: none, those it had, or what is in packs now.
LEMMA PackedMoves ==
  ASSUME TypeOK, NEW m \in Maint, MaintNext(m), maint'[m] # Idle
  PROVE  \/ maint'[m].packed = {} \/ maint'[m].packed = Packed
         \/ maint[m] # Idle /\ maint'[m].packed = maint[m].packed
<1>0. maint \in [Maint -> Call \cup {Idle}]
  BY DEF TypeOK
<1>n. \A phase \in Phases : In(m, phase) => maint[m] \in Call /\ maint[m] # Idle
  BY InCall
<1>e. \A c \in Call : EndOfStage(c).packed = c.packed
  BY DEF EndOfStage, Call
<1>1. CASE StartCall(m)
  <2>1. PICK j \in Jobs : maint' = [maint EXCEPT ![m] = NewCall(j)]
    BY <1>1 DEF StartCall
  <2>2. NewCall(j).packed = {}
    BY DEF NewCall
  <2> QED
    BY <1>0, <2>1, <2>2
<1>2. CASE EndCall(m) \/ GiveUp(m)
  BY <1>0, <1>2 DEF EndCall, GiveUp
<1>3. CASE FsckLoose(m) \/ FsckObjects(m) \/ FsckRoots(m) \/ ListPacks(m)
  BY <1>0, <1>n, <1>3 DEF FsckLoose, FsckObjects, FsckRoots, ListPacks, Goto, Phases, Call
<1>4. CASE FsckPacks(m) \/ PackedIds(m) \/ ScanLoose(m)
  BY <1>0, <1>n, <1>4 DEF FsckPacks, PackedIds, ScanLoose, Phases, Call
<1>5. CASE Select(m)
  <2>1. PICK ids, cruft, ages \in SUBSET Obj, news \in Seq(Pack) :
                Selects(m, ids, cruft, ages, news)
    BY <1>5, SelectDoes
  <2> DEFINE next == Selected(m, ids, cruft, ages, news)
  <2>2. /\ next \in Call
        /\ maint' = [maint EXCEPT ![m] = IF news = <<>> THEN EndOfStage(next) ELSE next]
    BY <2>1 DEF Selects
  <2>3. next.packed = {}
    BY <1>5, <1>n DEF Select, Phases, Call, Selected
  <2> HIDE DEF next
  <2> QED
    BY <1>0, <1>e, <2>2, <2>3
<1>6. CASE WritePack(m) \/ WriteIndex(m)
  BY <1>0, <1>n, <1>6 DEF WritePack, WriteIndex, Goto, Phases, Call
<1>7. CASE VerifyPack(m)
  BY <1>0, <1>n, <1>7 DEF VerifyPack, Phases, Call
<1>8. CASE PruneLoose(m) \/ DeleteLoose(m)
  BY <1>0, <1>n, <1>8 DEF PruneLoose, DeleteLoose, Phases, Call
<1>9. CASE PruneLooseEnd(m)
  <2>1. maint[m] \in Call /\ maint[m] # Idle
    BY <1>9, <1>n DEF PruneLooseEnd, Phases
  <2> DEFINE b == [maint[m] EXCEPT !.doomed = {}, !.cruft = {}, !.ages = {}]
             d == [b EXCEPT !.phase = "remove"]
             e == [b EXCEPT !.old = {}]
  <2>2. b \in Call /\ b.packed = maint[m].packed
    BY <2>1 DEF Call
  <2>3. d.packed = maint[m].packed /\ e \in Call /\ e.packed = maint[m].packed
    <3> HIDE DEF b
    <3> QED
      BY <2>2 DEF Call
  <2>4. maint' = [maint EXCEPT ![m] = IF b.job.delete THEN d ELSE EndOfStage(e)]
    BY <1>9 DEF PruneLooseEnd
  <2> HIDE DEF b, d, e
  <2> QED
    BY <1>0, <1>e, <2>1, <2>3, <2>4
<1>10. CASE RemoveIndex(m)
  <2>1. maint[m] \in Call /\ maint[m] # Idle
    BY <1>10, <1>n DEF RemoveIndex, Phases
  <2>2. PICK p \in maint[m].old :
           \/ maint' = [maint EXCEPT ![m].old = @ \ {p}]
           \/ maint' = [maint EXCEPT ![m].old = @ \ {p}, ![m].at = p, ![m].phase = "unpack"]
    BY <1>10 DEF RemoveIndex
  <2> DEFINE c == [maint[m] EXCEPT !.old = @ \ {p}]
             d == [maint[m] EXCEPT !.old = @ \ {p}, !.at = p, !.phase = "unpack"]
  <2>3. c.packed = maint[m].packed /\ d.packed = maint[m].packed
    BY <2>1 DEF Call
  <2>4. maint' = [maint EXCEPT ![m] = c] \/ maint' = [maint EXCEPT ![m] = d]
    BY <2>2
  <2> HIDE DEF c, d
  <2> QED
    BY <1>0, <2>1, <2>3, <2>4
<1>11. CASE RemovePack(m) \/ RemoveTable(m)
  BY <1>0, <1>n, <1>11 DEF RemovePack, RemoveTable, Goto, Phases, Call
<1>12. CASE RemoveEnd(m) \/ DeleteEnd(m)
  BY <1>0, <1>n, <1>e, <1>12 DEF RemoveEnd, DeleteEnd, Phases
<1>13. CASE Discover(m)
  <2>1. maint[m] \in Call
    BY <1>13, <1>n DEF Discover, Phases
  <2>2. maint'[m].packed = {}
    BY <1>0, <1>13, <2>1 DEF Discover, Call
  <2> QED
    BY <2>2
<1> QED
  BY <1>1, <1>2, <1>3, <1>4, <1>5, <1>6, <1>7, <1>8, <1>9, <1>10, <1>11, <1>12, <1>13
     DEF MaintNext

LEMMA RedundantStep ==
  ASSUME KInv, [Next]_vars, NEW m \in Maint, MaintNext(m), maint'[m] # Idle
  PROVE  Redundant(maint[m])'
<1>0. TypeOK /\ CallsFit /\ maint \in [Maint -> Call \cup {Idle}] /\ Packed \subseteq Packed'
  BY PacksGrow DEF KInv, TypeOK
<1>n. \A phase \in Phases : In(m, phase) =>
         maint[m] \in Call /\ NewsFit(maint[m]) /\ Redundant(maint[m])
  BY <1>0, InCall DEF KInv, CallsKeep, Calls, CallsFit
<1>1. maint'[m].packed \subseteq Packed'
  <2>1. maint[m] # Idle => maint[m].packed \subseteq Packed
    BY DEF KInv, CallsKeep, Calls, Redundant
  <2> QED
    BY <1>0, <2>1, PackedMoves
<1>2. CASE Select(m)
  <2>1. PICK ids, cruft, ages \in SUBSET Obj, news \in Seq(Pack) :
                Selects(m, ids, cruft, ages, news)
    BY <1>0, <1>2, SelectDoes
  <2> DEFINE next == Selected(m, ids, cruft, ages, news)
  <2>2. /\ next \in Call
        /\ maint' = [maint EXCEPT ![m] = IF news = <<>> THEN EndOfStage(next) ELSE next]
        /\ news = NewsOf(ids, cruft)
    BY <2>1 DEF Selects
  <2>3. next.phase = "pack" /\ next.news = news /\ next.doomed = ids \cup cruft
    BY <1>2, <1>n DEF Select, Phases, Call, Selected
  <2>4. \A o \in ids \cup cruft : \E i \in DOMAIN news : o \in news[i]
    BY <2>2, NewsHold
  <2> HIDE DEF next
  <2>5. EndOfStage(next).phase \in {"loose", "packed", "done"}
    BY <2>2 DEF EndOfStage, Entry, Call
  <2> QED
    BY <1>0, <1>1, <2>2, <2>3, <2>4, <2>5 DEF Redundant
<1>3. CASE WritePack(m) \/ WriteIndex(m)
  <2>1. maint[m] \in Call /\ Redundant(maint[m]) /\ maint[m].phase \in {"pack", "index"}
    BY <1>3, <1>n DEF WritePack, WriteIndex, In, Phases
  <2>2. /\ maint'[m].news = maint[m].news /\ maint'[m].doomed = maint[m].doomed
        /\ maint'[m].phase # "unloose"
    BY <1>0, <1>3, <2>1 DEF WritePack, WriteIndex, Goto, Call
  <2> QED
    BY <1>0, <1>1, <2>1, <2>2 DEF Redundant
<1>4. CASE VerifyPack(m)
  <2>1. /\ maint[m] \in Call /\ Redundant(maint[m]) /\ maint[m].phase = "verify"
        /\ maint[m].news \in Seq(Pack) /\ maint[m].news # <<>>
    BY <1>4, <1>n DEF VerifyPack, In, Phases, Call, NewsFit
  <2> DEFINE s == maint[m].news
  <2>2. Head(s) \subseteq Packed /\ Head(s) = s[1]
    <3>1. Head(s) \in indexes \cap packs
      BY <1>4 DEF VerifyPack
    <3> QED
      BY <2>1, <3>1 DEF Packed
  <2>3. \A o \in maint[m].doomed : o \in Packed \/ \E i \in DOMAIN s : o \in s[i]
    BY <2>1 DEF Redundant
  <2>4. CASE Len(s) > 1
    <3>1. /\ maint'[m].news = Tail(s) /\ maint'[m].doomed = maint[m].doomed
          /\ maint'[m].phase = "pack"
      BY <1>0, <1>4, <2>1, <2>4 DEF VerifyPack, Call
    <3>2. \A i \in DOMAIN s : i # 1 => i - 1 \in DOMAIN Tail(s) /\ Tail(s)[i - 1] = s[i]
      BY <2>1, <2>4, SMTT(40)
    <3>3. \A o \in maint[m].doomed : o \in Packed \/ \E i \in DOMAIN Tail(s) : o \in Tail(s)[i]
      <4> SUFFICES ASSUME NEW o \in maint[m].doomed, o \notin Packed
                   PROVE  \E i \in DOMAIN Tail(s) : o \in Tail(s)[i]
        OBVIOUS
      <4>1. PICK i \in DOMAIN s : o \in s[i]
        BY <2>3
      <4>2. i # 1
        BY <2>2, <4>1
      <4> QED
        BY <3>2, <4>1, <4>2
    <3> QED
      BY <1>0, <1>1, <3>1, <3>3 DEF Redundant
  <2>5. CASE ~ (Len(s) > 1)
    <3>1. maint'[m].doomed = maint[m].doomed /\ maint'[m].phase = "unloose"
      BY <1>0, <1>4, <2>1, <2>5 DEF VerifyPack, Call
    <3>2. \A i \in DOMAIN s : i = 1
      BY <2>1, <2>5
    <3> QED
      BY <1>0, <1>1, <2>2, <2>3, <3>1, <3>2 DEF Redundant
  <2> QED
    BY <2>4, <2>5
<1>5. CASE PruneLoose(m)
  <2>1. maint[m] \in Call /\ Redundant(maint[m]) /\ maint[m].phase = "unloose"
    BY <1>5, <1>n DEF PruneLoose, In, Phases
  <2>2. maint'[m].doomed \subseteq maint[m].doomed /\ maint'[m].phase = "unloose"
    BY <1>0, <1>5, <2>1 DEF PruneLoose, Call
  <2> QED
    BY <1>0, <1>1, <2>1, <2>2 DEF Redundant
<1> QED
  BY <1>0, <1>1, <1>2, <1>3, <1>4, <1>5, NextPhase DEF Redundant

LEMMA CondemnedStep ==
  ASSUME KInv, [Next]_vars, NEW m \in Maint, MaintNext(m), maint'[m] # Idle
  PROVE  Condemned(maint[m])'
<1>0. TypeOK /\ maint \in [Maint -> Call \cup {Idle}] /\ Packed \subseteq Packed'
  BY PacksGrow DEF KInv, TypeOK
<1>n. \A phase \in Phases : In(m, phase) =>
         /\ maint[m] \in Call
         /\ Fits(maint[m]) /\ Redundant(maint[m]) /\ Condemned(maint[m])
  BY <1>0, InCall DEF KInv, CallsKeep, Calls
<1>1. CASE FsckRoots(m)
  <2>1. maint[m] \in Call
    BY <1>1, <1>n DEF FsckRoots, Phases
  <2>2. maint'[m].reach = Reach[roots] /\ maint'[m].phase # "delete" /\ roots' = roots
    BY <1>0, <1>1, <2>1 DEF FsckRoots, Call
  <2> QED
    BY <2>2 DEF Condemned, Garbage
<1>2. CASE Discover(m)
  <2>1. /\ maint[m] \in Call /\ maint[m].phase = "discover"
        /\ Fits(maint[m]) /\ Redundant(maint[m]) /\ Condemned(maint[m])
    BY <1>2, <1>n DEF Discover, In, Phases
  <2> DEFINE c == maint[m]
             doomed == {o \in Loose : \/ c.job.copies /\ o \in c.packed
                                      \/ o \in c.seen \ c.reach /\ loose[o] = "old"}
  <2>2. /\ maint'[m].doomed = doomed /\ maint'[m].phase = "delete"
        /\ maint'[m].job = maint[m].job
    BY <1>0, <1>2, <2>1 DEF Discover, Call
  <2>3. loose' = loose /\ roots' = roots
    BY <1>2 DEF Discover, store
  <2>4. \A o \in doomed : \/ o \in Packed
                          \/ c.job.locked /\ loose[o] = "old" /\ o \notin Reach[roots]
    BY <1>0, <2>1, AvailableType DEF Fits, Redundant, Condemned, Garbage
  <2> HIDE DEF doomed
  <2> QED
    BY <1>0, <2>2, <2>3, <2>4 DEF Condemned, Garbage
<1>3. CASE ScanLoose(m)
  <2>1. maint[m] \in Call /\ Redundant(maint[m])
    BY <1>3, <1>n DEF ScanLoose, Phases
  <2>2. maint'[m].doomed \subseteq maint[m].packed /\ maint'[m].phase = "delete"
    BY <1>0, <1>3, <2>1 DEF ScanLoose, Call
  <2> QED
    BY <1>0, <2>1, <2>2 DEF Condemned, Redundant
<1>4. CASE DeleteLoose(m)
  <2>1. maint[m] \in Call /\ maint[m].phase = "delete" /\ Condemned(maint[m])
    BY <1>4, <1>n DEF DeleteLoose, In, Phases
  <2>2. PICK x \in maint[m].doomed : /\ loose' = [loose EXCEPT ![x] = "none"]
                                     /\ maint' = [maint EXCEPT ![m].doomed = @ \ {x}]
    BY <1>4 DEF DeleteLoose, Unlink
  <2>3. /\ maint'[m].doomed = maint[m].doomed \ {x} /\ maint'[m].phase = "delete"
        /\ maint'[m].job = maint[m].job /\ roots' = roots
    BY <1>0, <1>4, <2>1, <2>2 DEF Call, DeleteLoose
  <2>4. \A o \in maint[m].doomed \ {x} : loose'[o] = loose[o]
    BY <1>0, <2>1, <2>2 DEF TypeOK, Call
  <2> QED
    BY <1>0, <2>1, <2>3, <2>4 DEF Condemned, Garbage
<1> QED
  BY <1>0, <1>1, <1>2, <1>3, <1>4, NextPhase DEF Condemned

LEMMA KInvInit == Init => KInv
<1> SUFFICES ASSUME Init PROVE KInv
  OBVIOUS
<1>1. TypeOK /\ CallsFit
  BY TypeInit
<1>2. Calls = {} /\ Tasks = {} /\ Reads = {}
  BY DEF Init, Calls, Tasks, Reads
<1>3. StoredStays
  BY DEF Init, StoredStays
<1>4. RootsAvailable
  <2>1. roots \in SUBSET Obj /\ roots \subseteq Available /\ Closed(Available)
    BY DEF Init
  <2> QED
    BY <1>1, <2>1, AvailableType, ReachLeast DEF RootsAvailable
<1> QED
  BY <1>1, <1>2, <1>3, <1>4 DEF KInv, CallsKeep, PacksThere, TasksReach, NewFresh, ReadsFit, Init

LEMMA KInvStep ==
  ASSUME KeepsPacks, KInv, [Next]_vars
  PROVE  KInv'
<1>1. TypeOK' /\ CallsFit'
  BY TypeStep DEF KInv
<1>2. CallsKeep'
  <2> SUFFICES ASSUME NEW m \in Maint, maint'[m] # Idle
               PROVE  Fits(maint'[m]) /\ Redundant(maint[m])' /\ Condemned(maint[m])'
    BY DEF CallsKeep, Calls
  <2>1. CASE MaintNext(m)
    BY <2>1, FitsStep, RedundantStep, CondemnedStep
  <2>2. CASE ~ MaintNext(m)
    <3>1. maint'[m] = maint[m] /\ m \in Calls
      BY <2>2, CallBeside DEF Calls
    <3>2. Fits(maint'[m])
      BY <3>1 DEF KInv, CallsKeep
    <3> QED
      BY <2>2, <3>1, <3>2, RedundantBeside, CondemnedBeside
  <2> QED
    BY <2>1, <2>2
<1>3. TasksReach'
  BY TasksReachStep DEF KInv
<1>4. RootsAvailable' /\ StoredStays'
  BY AvailableStays, PromisesStep DEF KInv
<1> QED
  BY <1>1, <1>2, <1>3, <1>4, PacksThereStep, NewFreshStep, ReadsFitStep DEF KInv

LEMMA KeepsPacksInvariance ==
  ASSUME KeepsPacks
  PROVE  Spec => []KInv
<1>1. Init => KInv
  BY KInvInit
<1>2. KInv /\ [Next]_vars => KInv'
  BY KInvStep
<1> QED
  BY <1>1, <1>2, PTL DEF Spec

\* While no job removes packs, everything the references, the logs and the index
\* reach stays in the store: fsck's roots protect it from every repack, prune and
\* prune_packed, of any number of processes at a time, whatever is written or
\* given up beside them (repack_prune_loose, prune_delete).
THEOREM PackedRootsAvailable ==
  ASSUME KeepsPacks
  PROVE  Spec => []RootsAvailable
<1>1. KInv => RootsAvailable
  BY DEF KInv
<1> QED
  BY <1>1, KeepsPacksInvariance, PTL

\* While no job removes packs, what a call has stored stays available until it has
\* set its reference.
THEOREM PackedStoredStays ==
  ASSUME KeepsPacks
  PROVE  Spec => []StoredStays
<1>1. KInv => StoredStays
  BY DEF KInv
<1> QED
  BY <1>1, KeepsPacksInvariance, PTL

\* While no job removes packs, the index of a pack is there only with its pack,
\* wherever a call that publishes them stops.
THEOREM PackedPairsWhole ==
  ASSUME KeepsPacks
  PROVE  Spec => []PairsWhole
<1>1. KInv => PairsWhole
  BY DEF KInv, PacksThere, PairsWhole
<1> QED
  BY <1>1, KeepsPacksInvariance, PTL

\* While no job removes packs, no read of an object that stays reachable ends
\* without it, wherever repack and prune have moved it in the meantime.
THEOREM PackedReadsFind ==
  ASSUME KeepsPacks
  PROVE  Spec => []ReadsFind
<1>1. KInv => ReadsFind
  BY NotIdle DEF KInv, ReadsFit, ReadsFind, Reads
<1> QED
  BY <1>1, KeepsPacksInvariance, PTL

\* While no job removes packs, an object goes only if nothing reaches it and every
\* copy is old.
THEOREM PackedOnlyExpiredLost ==
  ASSUME KeepsPacks
  PROVE  Spec => OnlyExpiredLost
<1> DEFINE Expires(o) == /\ o \notin Reach[roots]
                         /\ loose[o] # "fresh"
                         /\ \A p \in indexes \cap packs : o \in p => o \in dated[p]
<1>1. ASSUME KInv, [Next]_vars PROVE \A o \in Available \ Available' : Expires(o)
  <2> SUFFICES ASSUME NEW o \in Available, o \notin Available' PROVE Expires(o)
    OBVIOUS
  <2>1. o \notin Packed /\ o \in Obj
    BY <1>1, PacksGrow, AvailableType DEF Available, KInv
  <2>2. o \notin Reach[roots] /\ loose[o] = "old"
    BY <1>1, AvailableStays DEF Protected
  <2>3. \A p \in indexes \cap packs : o \notin p
    BY <2>1 DEF Packed
  <2> QED
    BY <2>2, <2>3
<1>2. KInv /\ [Next]_vars => [\A o \in Available \ Available' : Expires(o)]_vars
  BY <1>1
<1> QED
  BY <1>2, KeepsPacksInvariance, PTL DEF Spec, OnlyExpiredLost

-------------------------------------------------------------------------------
(* Where packs are removed: gc, with gc.pid, in any number of processes,   *)
(* beside any number of calls that write loose objects.                    *)

\* A gc may drop old objects instead of putting them into the cruft pack.
Expiring == \E j \in Jobs : j.expire

\* Whoever maintains the store takes gc.pid, the others write loose objects, and
\* an object that may be about to expire is not written again: one with an old
\* loose copy, and with gc to drop old objects any with an old copy.
GcAlone ==
    /\ \A j \in Jobs : j.locked
    /\ \A t \in Works : t.kind = "loose"
    /\ "loose" \notin Rewrites
    /\ Expiring => Rewrites = {}

\* No gc stops between the removal of a pack and that of its table: the table
\* would date a later pack of the same name.
NoStrayTable ==
    \A m \in Maint : maint[m].phase = "untable" =>
        maint'[m].phase = "remove" \/ maint'[m] = maint[m]

-------------------------------------------------------------------------------
(* The inductive invariant. *)

\* No copy of o is old, where the age of a copy counts.
Unaged(o) ==
    /\ loose[o] # "old"
    /\ Expiring => \A p \in packs : o \notin dated[p]

\* The new objects of a call that writes loose ones.
NewUnaged ==
    \A w \in Tasks : /\ work[w].phase \in {"store", "root"}
                     /\ \A o \in work[w].new : Unaged(o)

\* A table that has lost its pack is about to be removed.
TablesFit ==
    Expiring => \A p \in tables \ packs :
                   \E m \in Calls : maint[m].phase = "untable" /\ maint[m].at = p

\* fsck: nothing goes between the survey and what follows from it, and what is
\* reached since then is new.
Surveyed(c) ==
    /\ c.phase \in {"packs", "objects", "roots", "list", "select", "discover"} =>
          c.seen \subseteq Available
    /\ c.phase \in {"objects", "roots", "list", "select", "discover"} =>
          c.packed = Packed /\ Packed \subseteq c.seen
    /\ c.phase = "scan" => c.packed = Packed
    /\ c.phase \in {"list", "select", "discover"} =>
          \A o \in Reach[roots] \ c.reach : Unaged(o)
    /\ c.phase = "select" => c.old = indexes \cap packs

Writing  == {"pack", "index", "verify"}
Removing == {"remove", "unpack", "untable"}

\* o is in a pack that repack has yet to write, or in one that it will not remove.
Held(c, o) ==
    \/ \E i \in DOMAIN c.news : o \in c.news[i]
    \/ \E p \in indexes \cap packs : o \in p /\ p \notin c.old

\* Nothing reaches o, and its packed copies are old.
Expirable(o) ==
    /\ Expiring /\ o \notin Reach[roots]
    /\ \A p \in indexes \cap packs : o \in p => o \in dated[p]

\* repack: what it removes is held, or may expire.
Replaced(c) ==
    /\ c.phase \in Writing \cup {"unloose"} => \A o \in c.doomed : Held(c, o)
    /\ c.phase \in Writing \cup {"unloose"} \cup Removing /\ c.job.delete =>
          \A o \in Packed : Held(c, o) \/ Expirable(o)
    /\ c.phase \in Writing /\ Expiring => \A o \in c.ages : ~ Unaged(o)
    /\ c.phase \in {"unloose"} \cup Removing => c.news = <<>>
    /\ c.phase = "index" => Head(c.news) \in packs
    /\ c.phase \in Removing => c.job.delete
    /\ c.phase \in {"unpack", "untable"} => c.at \notin indexes
    /\ c.phase = "untable" => c.at \notin packs

\* prune and prune_packed: what they remove is in packs, or garbage.
Sentenced(c) ==
    c.phase = "delete" => \A o \in c.doomed : o \in Packed \/ Garbage(o)

GcCall(c) == Surveyed(c) /\ Replaced(c) /\ Sentenced(c)

GInv == /\ TypeOK /\ CallsFit
        /\ TasksReach /\ NewUnaged /\ StoredStays /\ RootsAvailable
        /\ PairsWhole /\ TablesFit
        /\ \A m \in Calls : GcCall(maint[m])

-------------------------------------------------------------------------------
(* One call at a time. *)

LEMMA OneCall ==
  ASSUME GcAlone, TypeOK, NEW m \in Calls, NEW n \in Calls
  PROVE  m = n
BY DEF GcAlone, TypeOK, Calls, Call

\* The phase a step leads to.
LEMMA ComesFrom ==
  ASSUME TypeOK, NEW m \in Maint, MaintNext(m), maint'[m] # Idle
  PROVE  /\ maint'[m].phase = "packs" => FsckLoose(m)
         /\ maint'[m].phase = "objects" => FsckPacks(m)
         /\ maint'[m].phase = "roots" => FsckObjects(m)
         /\ maint'[m].phase = "list" => FsckRoots(m)
         /\ maint'[m].phase = "select" => ListPacks(m)
         /\ maint'[m].phase = "scan" => PackedIds(m)
         /\ maint'[m].phase = "remove" => PruneLooseEnd(m) \/ RemoveIndex(m) \/ RemoveTable(m)
         /\ maint'[m].phase = "unpack" => RemoveIndex(m)
         /\ maint'[m].phase = "untable" => RemovePack(m)
<1>0. maint \in [Maint -> Call \cup {Idle}]
  BY DEF TypeOK
<1>n. \A phase \in Phases : In(m, phase) => maint[m] \in Call
  BY InCall
<1>e. \A c \in Call : EndOfStage(c).phase \in {"loose", "packed", "done"}
  BY DEF EndOfStage, Entry, Call
<1>1. CASE StartCall(m)
  <2>1. PICK j \in Jobs : maint' = [maint EXCEPT ![m] = NewCall(j)]
    BY <1>1 DEF StartCall
  <2>2. NewCall(j).phase \in {"loose", "packed"}
    BY DEF NewCall, Entry
  <2> QED
    BY <1>0, <2>1, <2>2
<1>2. CASE EndCall(m) \/ GiveUp(m)
  BY <1>0, <1>2 DEF EndCall, GiveUp
<1>3. CASE FsckLoose(m) \/ FsckPacks(m) \/ FsckObjects(m)
  BY <1>0, <1>n, <1>3 DEF FsckLoose, FsckPacks, FsckObjects, Goto, Phases, Call
<1>4. CASE FsckRoots(m) \/ ListPacks(m) \/ PackedIds(m) \/ ScanLoose(m)
  BY <1>0, <1>n, <1>4 DEF FsckRoots, ListPacks, PackedIds, ScanLoose, Phases, Call
<1>5. CASE Select(m)
  <2>1. PICK ids, cruft, ages \in SUBSET Obj, news \in Seq(Pack) :
                Selects(m, ids, cruft, ages, news)
    BY <1>5, SelectDoes
  <2> DEFINE next == Selected(m, ids, cruft, ages, news)
  <2>2. /\ next \in Call
        /\ maint' = [maint EXCEPT ![m] = IF news = <<>> THEN EndOfStage(next) ELSE next]
    BY <2>1 DEF Selects
  <2>3. next.phase = "pack"
    BY <1>5, <1>n DEF Select, Phases, Call, Selected
  <2> HIDE DEF next
  <2> QED
    BY <1>0, <1>e, <2>2, <2>3
<1>6. CASE WritePack(m) \/ WriteIndex(m)
  BY <1>0, <1>n, <1>6 DEF WritePack, WriteIndex, Goto, Phases, Call
<1>7. CASE VerifyPack(m)
  BY <1>0, <1>n, <1>7 DEF VerifyPack, Phases, Call
<1>8. CASE PruneLoose(m) \/ DeleteLoose(m)
  BY <1>0, <1>n, <1>8 DEF PruneLoose, DeleteLoose, In, Phases, Call
<1>9. CASE PruneLooseEnd(m)
  <2>1. maint[m] \in Call
    BY <1>9, <1>n DEF PruneLooseEnd, Phases
  <2> DEFINE b == [maint[m] EXCEPT !.doomed = {}, !.cruft = {}, !.ages = {}]
             d == [b EXCEPT !.phase = "remove"]
             e == [b EXCEPT !.old = {}]
  <2>2. b \in Call
    BY <2>1 DEF Call
  <2>3. d.phase = "remove" /\ e \in Call
    <3> HIDE DEF b
    <3> QED
      BY <2>2 DEF Call
  <2>4. maint' = [maint EXCEPT ![m] = IF b.job.delete THEN d ELSE EndOfStage(e)]
    BY <1>9 DEF PruneLooseEnd
  <2> HIDE DEF b, d, e
  <2> QED
    BY <1>0, <1>9, <1>e, <2>3, <2>4
<1>10. CASE RemoveIndex(m)
  <2>1. maint[m] \in Call /\ maint[m].phase = "remove"
    BY <1>10, <1>n DEF RemoveIndex, In, Phases
  <2>2. PICK p \in maint[m].old :
           \/ maint' = [maint EXCEPT ![m].old = @ \ {p}]
           \/ maint' = [maint EXCEPT ![m].old = @ \ {p}, ![m].at = p, ![m].phase = "unpack"]
    BY <1>10 DEF RemoveIndex
  <2> DEFINE c == [maint[m] EXCEPT !.old = @ \ {p}]
             d == [maint[m] EXCEPT !.old = @ \ {p}, !.at = p, !.phase = "unpack"]
  <2>3. c.phase = "remove" /\ d.phase = "unpack"
    BY <2>1 DEF Call
  <2>4. maint' = [maint EXCEPT ![m] = c] \/ maint' = [maint EXCEPT ![m] = d]
    BY <2>2
  <2> HIDE DEF c, d
  <2> QED
    BY <1>0, <1>10, <2>3, <2>4
<1>11. CASE RemovePack(m) \/ RemoveTable(m)
  BY <1>0, <1>n, <1>11 DEF RemovePack, RemoveTable, Goto, Phases, Call
<1>12. CASE RemoveEnd(m) \/ DeleteEnd(m)
  BY <1>0, <1>n, <1>e, <1>12 DEF RemoveEnd, DeleteEnd, Phases
<1>13. CASE Discover(m)
  <2>1. maint[m] \in Call
    BY <1>13, <1>n DEF Discover, Phases
  <2>2. maint'[m].phase = "delete"
    BY <1>0, <1>13, <2>1 DEF Discover, Call
  <2> QED
    BY <2>2
<1> QED
  BY <1>1, <1>2, <1>3, <1>4, <1>5, <1>6, <1>7, <1>8, <1>9, <1>10, <1>11, <1>12, <1>13
     DEF MaintNext

\* Beside a call, the packs stay and loose objects are only added.
Quiet ==
    /\ UNCHANGED <<packs, indexes, tables, dated, kept>>
    /\ \A o \in Obj : loose'[o] = loose[o] \/ (loose[o] = "none" /\ loose'[o] = "fresh")

LEMMA WritersQuiet ==
  ASSUME GInv, NEW w \in Writer, WriterNext(w)
  PROVE  Quiet
<1>0. loose \in [Obj -> {"none", "old", "fresh"}]
  BY DEF GInv, TypeOK
<1>1. CASE StoreObject(w)
  BY <1>0, <1>1 DEF StoreObject, Quiet
<1>2. CASE StartTask(w) \/ SetRoot(w) \/ Abandon(w)
  BY <1>2 DEF StartTask, SetRoot, Abandon, store, Quiet
<1>3. CASE ReceivePack(w) \/ ReceiveKeep(w) \/ ReceiveIndex(w)
  BY <1>3 DEF ReceivePack, ReceiveKeep, ReceiveIndex, GInv, NewUnaged, Tasks
<1> QED
  BY <1>1, <1>2, <1>3 DEF WriterNext

LEMMA OthersWait ==
  ASSUME GcAlone, GInv, [Next]_vars, \A m \in Calls : ~ MaintNext(m)
  PROVE  Quiet
<1>1. ASSUME NEW m \in Maint, MaintNext(m) PROVE Quiet
  <2>1. maint[m] = Idle
    BY <1>1 DEF Calls
  <2>2. StartCall(m)
    BY <1>1, <2>1, NotIdle DEF MaintNext, EndCall, GiveUp, FsckLoose, FsckPacks, FsckObjects,
       FsckRoots, ListPacks, Select, WritePack, WriteIndex, VerifyPack, PruneLoose, PruneLooseEnd,
       RemoveIndex, RemovePack, RemoveTable, RemoveEnd, Discover, PackedIds, ScanLoose,
       DeleteLoose, DeleteEnd, In
  <2> QED
    BY <2>2 DEF StartCall, store, Quiet
<1>2. ASSUME NEW w \in Writer, WriterNext(w) PROVE Quiet
  BY <1>2, WritersQuiet
<1> QED
  BY <1>1, <1>2, ReaderLeaves DEF Next, DropRoot, vars, store, Quiet

\* While a call is under way no other begins.
LEMMA CallAlone ==
  ASSUME GcAlone, GInv, [Next]_vars, NEW m \in Calls, ~ MaintNext(m)
  PROVE  maint'[m] = maint[m] /\ Quiet
<1>1. ASSUME NEW n \in Maint, MaintNext(n) PROVE n \in Calls => n = m
  BY OneCall DEF GInv
<1>2. \A n \in Calls : ~ MaintNext(n)
  BY <1>1 DEF Calls
<1>3. maint'[m] = maint[m]
  BY OtherCalls, WriterLeaves, ReaderLeaves DEF Next, DropRoot, vars, GInv, Calls
<1> QED
  BY <1>2, <1>3, OthersWait

-------------------------------------------------------------------------------
(* What a step does to the packs and to the ages. *)

\* A pack that is published takes no age from a table that was left behind.
LEMMA TablesThere ==
  ASSUME GcAlone, GInv, Expiring, NEW m \in Calls, maint[m].phase # "untable"
  PROVE  tables \subseteq packs
<1> SUFFICES ASSUME NEW p \in tables \ packs PROVE FALSE
  OBVIOUS
<1>1. PICK n \in Calls : maint[n].phase = "untable"
  BY DEF GInv, TablesFit
<1> QED
  BY <1>1, OneCall DEF GInv

LEMMA UnagedStays ==
  ASSUME GcAlone, GInv, [Next]_vars, NEW o \in Obj, Unaged(o)
  PROVE  Unaged(o)'
<1>0. /\ loose \in [Obj -> {"none", "old", "fresh"}]
      /\ dated \in [Pack -> Pack] /\ packs \subseteq Pack
  BY DEF GInv, TypeOK
<1>1. CASE \A m \in Calls : ~ MaintNext(m)
  <2>1. Quiet
    BY <1>1, OthersWait
  <2> QED
    BY <2>1 DEF Quiet, Unaged
<1>2. ASSUME NEW m \in Calls, MaintNext(m) PROVE Unaged(o)'
  <2>0. m \in Maint /\ maint[m] \in Call /\ GcCall(maint[m]) /\ NewsFit(maint[m])
    BY DEF Calls, GInv, TypeOK, CallsFit
  <2>1. loose'[o] # "old"
    <3>1. CASE PruneLoose(m)
      BY <1>0, <3>1 DEF PruneLoose, Unlink, Unaged
    <3>2. CASE DeleteLoose(m)
      BY <1>0, <3>2 DEF DeleteLoose, Unlink, Unaged
    <3>3. CASE ~ PruneLoose(m) /\ ~ DeleteLoose(m)
      <4>1. loose' = loose
        BY <1>2, <3>3 DEF MaintNext, store, StartCall, EndCall, GiveUp, FsckLoose, FsckPacks,
           FsckObjects, FsckRoots, ListPacks, Select, WritePack, WriteIndex, VerifyPack,
           PruneLooseEnd, RemoveIndex, RemovePack, RemoveTable, RemoveEnd, Discover, PackedIds,
           ScanLoose, DeleteEnd
      <4> QED
        BY <4>1 DEF Unaged
    <3> QED
      BY <3>1, <3>2, <3>3
  <2>2. ASSUME Expiring, NEW p \in packs' PROVE o \notin dated'[p]
    <3>u. \A q \in packs : o \notin dated[q]
      BY <2>2 DEF Unaged
    <3>1. CASE WritePack(m)
      <4> DEFINE h == Head(maint[m].news)
      <4>1. h \in Pack /\ tables \subseteq packs
        <5>1. maint[m].phase = "pack"
          BY <3>1 DEF WritePack, In
        <5>2. maint[m].news \in Seq(Pack) /\ maint[m].news # <<>>
          BY <2>0, <5>1 DEF Call, NewsFit
        <5>3. tables \subseteq packs
          BY <2>2, <5>1, TablesThere
        <5> QED
          BY <5>2, <5>3
      <4>2. /\ packs' = packs \cup {h}
            /\ dated' = IF h \in packs \cup tables THEN dated ELSE [dated EXCEPT ![h] = {}]
        BY <3>1 DEF WritePack, PublishPack
      <4> HIDE DEF h
      <4> QED
        BY <1>0, <2>2, <3>u, <4>1, <4>2
    <3>2. CASE VerifyPack(m)
      <4> DEFINE h == Head(maint[m].news)
      <4>1. packs' = packs /\ (dated' = dated \/ dated' = [dated EXCEPT ![h] = maint[m].ages])
        BY <3>2 DEF VerifyPack
      <4>2. o \notin maint[m].ages
        BY <2>0, <2>2, <3>2 DEF VerifyPack, In, GcCall, Replaced, Writing
      <4> HIDE DEF h
      <4> QED
        BY <1>0, <2>2, <3>u, <4>1, <4>2
    <3>3. CASE RemovePack(m) \/ RemoveTable(m)
      BY <1>0, <2>2, <3>3, <3>u DEF RemovePack, RemoveTable
    <3>4. CASE ~ WritePack(m) /\ ~ VerifyPack(m) /\ ~ RemovePack(m) /\ ~ RemoveTable(m)
      <4>1. packs' = packs /\ dated' = dated
        BY <1>2, <3>4 DEF MaintNext, store, StartCall, EndCall, GiveUp, FsckLoose, FsckPacks,
           FsckObjects, FsckRoots, ListPacks, Select, WriteIndex, PruneLoose, PruneLooseEnd,
           RemoveIndex, RemoveEnd, Discover, PackedIds, ScanLoose, DeleteLoose, DeleteEnd
      <4> QED
        BY <2>2, <3>u, <4>1
    <3> QED
      BY <3>1, <3>2, <3>3, <3>4
  <2> QED
    BY <2>1, <2>2 DEF Unaged
<1> QED
  BY <1>1, <1>2

\* What is new among the reached objects has no old copy.
LEMMA ReachedUnaged ==
  ASSUME GInv, [Next]_vars, NEW o \in Reach[roots'], o \notin Reach[roots]
  PROVE  Unaged(o)
BY RootsMove DEF GInv, Protected, NewUnaged

LEMMA TablesFitStep ==
  ASSUME GcAlone, GInv, [Next]_vars, Expiring => NoStrayTable
  PROVE  TablesFit'
<1> SUFFICES ASSUME Expiring, NEW p \in tables', p \notin packs'
             PROVE  \E m \in Maint : /\ maint'[m] # Idle
                                     /\ maint'[m].phase = "untable" /\ maint'[m].at = p
  BY DEF TablesFit, Calls
<1>0. maint \in [Maint -> Call \cup {Idle}]
  BY DEF GInv, TypeOK
<1>1. CASE p \in tables /\ p \notin packs
  <2>1. PICK m \in Calls : maint[m].phase = "untable" /\ maint[m].at = p
    BY <1>1 DEF GInv, TablesFit
  <2>2. CASE ~ MaintNext(m)
    BY <2>1, <2>2, CallAlone DEF Calls
  <2>3. CASE MaintNext(m)
    <3>1. RemoveTable(m) \/ GiveUp(m)
      BY <2>1, <2>3, NotIdle DEF MaintNext, StartCall, EndCall, FsckLoose, FsckPacks, FsckObjects,
         FsckRoots, ListPacks, Select, WritePack, WriteIndex, VerifyPack, PruneLoose,
         PruneLooseEnd, RemoveIndex, RemovePack, RemoveEnd, Discover, PackedIds, ScanLoose,
         DeleteLoose, DeleteEnd, In, Calls
    <3>2. ~ GiveUp(m)
      BY <1>0, <2>1, NotIdle DEF NoStrayTable, GiveUp, Calls
    <3> QED
      BY <2>1, <3>1, <3>2 DEF RemoveTable
  <2> QED
    BY <2>2, <2>3
<1>2. CASE p \notin tables \/ p \in packs
  <2>1. PICK m \in Calls : MaintNext(m)
    BY <1>2, OthersWait DEF Quiet
  <2>2. m \in Maint /\ maint[m] \in Call
    BY <1>0, <2>1 DEF Calls
  <2>3. CASE RemovePack(m)
    BY <1>0, <1>2, <2>2, <2>3, NotIdle DEF RemovePack, Goto, Call
  <2>4. CASE VerifyPack(m)
    BY <1>2, <2>4 DEF VerifyPack
  <2>5. CASE ~ RemovePack(m) /\ ~ VerifyPack(m)
    <3>1. packs \subseteq packs' /\ tables' \subseteq tables
      BY <2>1, <2>5 DEF MaintNext, store, StartCall, EndCall, GiveUp, FsckLoose, FsckPacks,
         FsckObjects, FsckRoots, ListPacks, Select, WritePack, PublishPack, WriteIndex, PruneLoose,
         PruneLooseEnd, RemoveIndex, RemoveTable, RemoveEnd, Discover, PackedIds, ScanLoose,
         DeleteLoose, DeleteEnd
    <3> QED
      BY <1>2, <3>1
  <2> QED
    BY <2>3, <2>4, <2>5
<1> QED
  BY <1>1, <1>2

LEMMA PairsWholeStep ==
  ASSUME GcAlone, GInv, [Next]_vars
  PROVE  PairsWhole'
<1>0. indexes \subseteq packs
  BY DEF GInv, PairsWhole
<1>1. CASE \A m \in Calls : ~ MaintNext(m)
  BY <1>0, <1>1, OthersWait DEF Quiet, PairsWhole
<1>2. ASSUME NEW m \in Calls, MaintNext(m) PROVE PairsWhole'
  <2>0. GcCall(maint[m])
    BY DEF GInv
  <2>1. CASE WriteIndex(m)
    BY <1>0, <2>0, <2>1 DEF WriteIndex, In, GcCall, Replaced, PairsWhole
  <2>2. CASE RemovePack(m)
    BY <1>0, <2>0, <2>2 DEF RemovePack, In, GcCall, Replaced, PairsWhole
  <2>3. CASE ~ WriteIndex(m) /\ ~ RemovePack(m)
    <3>1. packs \subseteq packs' /\ indexes' \subseteq indexes
      BY <1>2, <2>3 DEF MaintNext, store, StartCall, EndCall, GiveUp, FsckLoose, FsckPacks,
         FsckObjects, FsckRoots, ListPacks, Select, WritePack, PublishPack, VerifyPack, PruneLoose,
         PruneLooseEnd, RemoveIndex, RemoveTable, RemoveEnd, Discover, PackedIds, ScanLoose,
         DeleteLoose, DeleteEnd
    <3> QED
      BY <1>0, <3>1 DEF PairsWhole
  <2> QED
    BY <2>1, <2>2, <2>3
<1> QED
  BY <1>1, <1>2

\* The calls that write loose objects.
LEMMA NewUnagedStep ==
  ASSUME GcAlone, GInv, [Next]_vars
  PROVE  NewUnaged'
<1> SUFFICES ASSUME NEW w \in Writer, work'[w] # NoTask
             PROVE  /\ work'[w].phase \in {"store", "root"}
                    /\ \A o \in work'[w].new : Unaged(o)'
  BY DEF NewUnaged, Tasks
<1>0. work \in [Writer -> Task \cup {NoTask}] /\ work'[w] \in Task
  BY TypeStep DEF GInv, TypeOK
<1>1. ASSUME work[w] # NoTask
      PROVE  /\ work[w] \in Task /\ work[w].phase \in {"store", "root"}
             /\ \A o \in work[w].new : Unaged(o)'
  <2>1. /\ work[w] \in Task /\ work[w].phase \in {"store", "root"}
        /\ \A o \in work[w].new : Unaged(o)
    BY <1>0, <1>1 DEF GInv, NewUnaged, Tasks
  <2> QED
    BY <2>1, UnagedStays DEF Task
<1>2. CASE work'[w] = work[w]
  BY <1>1, <1>2
<1>3. CASE StartTask(w)
  <2>1. PICK t \in Works :
          /\ \A o \in t.new : OldCopies(o) \subseteq Rewrites
          /\ work' = [work EXCEPT ![w] =
                [kind |-> t.kind, new |-> t.new, goal |-> t.goal, todo |-> t.new,
                 phase |-> IF t.kind = "loose" THEN "store" ELSE "pack"]]
    BY <1>3 DEF StartTask
  <2>2. t.new \in SUBSET Obj /\ t.kind = "loose"
    BY WorksAssumption DEF GcAlone
  <2>3. \A o \in t.new : Unaged(o)
    <3> SUFFICES ASSUME NEW o \in t.new PROVE Unaged(o)
      OBVIOUS
    <3>1. loose[o] # "old"
      <4>1. loose[o] = "old" => "loose" \in OldCopies(o)
        BY DEF OldCopies
      <4> QED
        BY <2>1, <4>1 DEF GcAlone
    <3>2. ASSUME Expiring, NEW p \in packs, o \in dated[p] PROVE FALSE
      <4>1. p \in {q \in packs : o \in dated[q]}
        BY <3>2
      <4>2. "packed" \in OldCopies(o)
        BY <4>1 DEF OldCopies
      <4> QED
        BY <2>1, <3>2, <4>2 DEF GcAlone
    <3> QED
      BY <3>1, <3>2 DEF Unaged
  <2>4. work'[w].new = t.new /\ work'[w].phase = "store"
    BY <1>0, <2>1, <2>2
  <2> QED
    BY <2>2, <2>3, <2>4, UnagedStays
<1>4. CASE StoreObject(w)
  <2>1. work[w] \in Task /\ work[w] # NoTask
    BY <1>0, <1>4 DEF StoreObject
  <2>2. PICK x : work' = [work EXCEPT ![w].todo = @ \ {x},
                                     ![w].phase = IF work[w].todo = {x} THEN "root" ELSE "store"]
    BY <1>4 DEF StoreObject
  <2>3. work'[w].new = work[w].new /\ work'[w].phase \in {"store", "root"}
    BY <1>0, <2>1, <2>2 DEF Task
  <2> QED
    BY <1>1, <2>1, <2>3
<1>5. CASE ReceivePack(w) \/ ReceiveKeep(w) \/ ReceiveIndex(w)
  BY <1>1, <1>5 DEF ReceivePack, ReceiveKeep, ReceiveIndex
<1>6. CASE SetRoot(w) \/ Abandon(w)
  BY <1>0, <1>6 DEF SetRoot, Abandon
<1> QED
  BY <1>2, <1>3, <1>4, <1>5, <1>6, OtherTasks DEF WriterNext, GInv

-------------------------------------------------------------------------------
(* What is lost. *)

LEMMA LostIs ==
  ASSUME GcAlone, GInv, [Next]_vars, NEW o \in Available, o \notin Available'
  PROVE  /\ o \notin Reach[roots] /\ ~ Unaged(o)
         /\ loose[o] # "fresh"
         /\ \A p \in indexes \cap packs : o \in p => o \in dated[p]
<1>0. o \in Obj /\ loose \in [Obj -> {"none", "old", "fresh"}]
  BY AvailableType DEF GInv, TypeOK
<1>a. loose'[o] = "none" /\ o \notin Packed'
  BY <1>0 DEF Available, Loose
<1>1. CASE \A m \in Calls : ~ MaintNext(m)
  <2>1. Quiet
    BY <1>1, OthersWait
  <2>2. Packed' = Packed /\ loose[o] = "none"
    BY <1>0, <1>a, <2>1 DEF Quiet, Packed
  <2> QED
    BY <1>a, <2>2 DEF Available, Loose
<1>2. ASSUME NEW m \in Calls, MaintNext(m)
      PROVE  /\ o \notin Reach[roots] /\ ~ Unaged(o)
             /\ loose[o] # "fresh"
             /\ \A p \in indexes \cap packs : o \in p => o \in dated[p]
  <2>0. /\ m \in Maint /\ maint[m] \in Call
        /\ Replaced(maint[m]) /\ Sentenced(maint[m])
    BY DEF Calls, GInv, TypeOK, GcCall
  <2>1. CASE DeleteLoose(m)
    <3>1. o \notin Packed
      BY <1>a, <2>1 DEF DeleteLoose, Packed
    <3>2. loose[o] # "none"
      BY <3>1 DEF Available, Loose
    <3>3. o \in maint[m].doomed
      BY <1>0, <1>a, <2>1, <3>2 DEF DeleteLoose, Unlink
    <3>4. loose[o] = "old" /\ o \notin Reach[roots]
      BY <2>0, <2>1, <3>1, <3>3 DEF DeleteLoose, In, Sentenced, Garbage
    <3>5. \A p \in indexes \cap packs : o \notin p
      BY <3>1 DEF Packed
    <3> QED
      BY <3>4, <3>5 DEF Unaged
  <2>2. CASE PruneLoose(m)
    <3>1. o \notin Packed
      BY <1>a, <2>2 DEF PruneLoose, Packed
    <3>2. loose[o] # "none"
      BY <3>1 DEF Available, Loose
    <3>3. o \in maint[m].doomed
      BY <1>0, <1>a, <2>2, <3>2 DEF PruneLoose, Unlink
    <3>4. Held(maint[m], o) /\ maint[m].news = <<>>
      BY <2>0, <2>2, <3>3 DEF PruneLoose, In, Replaced
    <3>5. o \in Packed
      BY <3>4 DEF Held, Packed
    <3> QED
      BY <3>1, <3>5
  <2>3. CASE RemoveIndex(m)
    <3>1. loose' = loose /\ packs' = packs
      BY <2>3 DEF RemoveIndex
    <3>2. loose[o] = "none" /\ o \in Packed
      BY <1>a, <3>1 DEF Available, Loose
    <3>3. PICK p \in maint[m].old : indexes' = indexes \/ indexes' = indexes \ {p}
      BY <2>3 DEF RemoveIndex
    <3>4. maint[m].news = <<>> /\ (Held(maint[m], o) \/ Expirable(o))
      BY <2>0, <2>3, <3>2 DEF RemoveIndex, In, Replaced, Removing
    <3>5. ~ Held(maint[m], o)
      <4> SUFFICES ASSUME Held(maint[m], o) PROVE FALSE
        OBVIOUS
      <4>1. PICK q \in indexes \cap packs : o \in q /\ q \notin maint[m].old
        BY <3>4 DEF Held
      <4>2. q \in indexes' \cap packs'
        BY <3>1, <3>3, <4>1
      <4> QED
        BY <1>a, <4>1, <4>2 DEF Packed
    <3>6. PICK q \in indexes \cap packs : o \in q
      BY <3>2 DEF Packed
    <3> QED
      BY <3>2, <3>4, <3>5, <3>6 DEF Expirable, Unaged
  <2>4. CASE RemovePack(m)
    <3>1. loose' = loose /\ indexes' = indexes /\ packs' = packs \ {maint[m].at}
      BY <2>4 DEF RemovePack
    <3>2. maint[m].at \notin indexes
      BY <2>0, <2>4 DEF RemovePack, In, Replaced
    <3>3. Packed' = Packed
      BY <3>1, <3>2 DEF Packed
    <3> QED
      BY <1>a, <3>1, <3>3 DEF Available, Loose
  <2>5. CASE ~ DeleteLoose(m) /\ ~ PruneLoose(m) /\ ~ RemoveIndex(m) /\ ~ RemovePack(m)
    <3>1. loose' = loose /\ packs \subseteq packs' /\ indexes \subseteq indexes'
      BY <1>2, <2>5 DEF MaintNext, store, StartCall, EndCall, GiveUp, FsckLoose, FsckPacks,
         FsckObjects, FsckRoots, ListPacks, Select, WritePack, PublishPack, WriteIndex, VerifyPack,
         PruneLooseEnd, RemoveTable, RemoveEnd, Discover, PackedIds, ScanLoose, DeleteEnd
    <3>2. Packed \subseteq Packed'
      BY <3>1 DEF Packed
    <3> QED
      BY <1>a, <3>1, <3>2 DEF Available, Loose
  <2> QED
    BY <2>1, <2>2, <2>3, <2>4, <2>5
<1> QED
  BY <1>1, <1>2

LEMMA ProtectedStays ==
  ASSUME GcAlone, GInv, [Next]_vars
  PROVE  \A o \in Available : Protected(o) => o \in Available'
BY LostIs DEF Protected, GInv, NewUnaged

-------------------------------------------------------------------------------
(* A call beside the steps of others. *)

LEMMA GcCallBeside ==
  ASSUME GcAlone, GInv, [Next]_vars, NEW m \in Calls, ~ MaintNext(m)
  PROVE  GcCall(maint[m])'
<1>0. /\ maint'[m] = maint[m] /\ maint[m] \in Call /\ m \in Maint
      /\ packs' = packs /\ indexes' = indexes /\ dated' = dated
      /\ \A o \in Obj : loose'[o] = loose[o] \/ (loose[o] = "none" /\ loose'[o] = "fresh")
  BY CallAlone DEF Quiet, GInv, TypeOK, Calls
<1>c. Surveyed(maint[m]) /\ Replaced(maint[m]) /\ Sentenced(maint[m])
  BY DEF GInv, GcCall
<1>p. Packed' = Packed /\ Packed \subseteq Obj
  BY <1>0, AvailableType DEF Packed, GInv
<1>a. Available \subseteq Available'
  BY <1>0, <1>p DEF Available, Loose
<1>u. \A o \in Obj : Unaged(o)' <=> Unaged(o)
  BY <1>0 DEF Unaged
<1>r. \A o \in Reach[roots'] : o \notin Reach[roots] => Unaged(o) /\ o \in Obj
  <2>1. Reach[roots'] \subseteq Obj
    BY RootsMove, ReachLeast DEF GInv
  <2> QED
    BY <2>1, ReachedUnaged
<1>1. Surveyed(maint[m])'
  <2>1. maint[m].phase \in {"list", "select", "discover"} =>
            \A o \in Reach[roots'] \ maint[m].reach : Unaged(o)'
    <3> SUFFICES ASSUME maint[m].phase \in {"list", "select", "discover"},
                        NEW o \in Reach[roots'] \ maint[m].reach
                 PROVE  Unaged(o)'
      OBVIOUS
    <3>1. CASE o \in Reach[roots]
      <4>1. Unaged(o) /\ o \in Obj
        BY <1>c, <3>1, AvailableType DEF Surveyed, GInv
      <4> QED
        BY <1>u, <4>1
    <3>2. CASE o \notin Reach[roots]
      BY <1>r, <1>u, <3>2
    <3> QED
      BY <3>1, <3>2
  <2> QED
    BY <1>0, <1>a, <1>c, <1>p, <2>1 DEF Surveyed
<1>2. Replaced(maint[m])'
  <2>1. \A o : Held(maint[m], o)' <=> Held(maint[m], o)
    BY <1>0 DEF Held
  <2>2. \A o \in Packed : Expirable(o) => Expirable(o)'
    <3> SUFFICES ASSUME NEW o \in Packed, Expirable(o) PROVE Expirable(o)'
      OBVIOUS
    <3>1. PICK p \in indexes \cap packs : o \in p
      BY DEF Packed
    <3>2. ~ Unaged(o)
      BY <3>1 DEF Expirable, Unaged
    <3>3. o \notin Reach[roots']
      BY <1>r, <3>2 DEF Expirable
    <3> QED
      BY <1>0, <3>3 DEF Expirable
  <2>3. maint[m].ages \subseteq Obj
    BY <1>0 DEF Call
  <2> QED
    BY <1>0, <1>c, <1>p, <1>u, <2>1, <2>2, <2>3 DEF Replaced
<1>3. Sentenced(maint[m])'
  <2>1. \A o \in Obj : Garbage(o) => Garbage(o)'
    BY <1>0, <1>r DEF Garbage, Unaged
  <2>2. maint[m].doomed \subseteq Obj
    BY <1>0 DEF Call
  <2> QED
    BY <1>0, <1>c, <1>p, <2>1, <2>2 DEF Sentenced
<1> QED
  BY <1>1, <1>2, <1>3 DEF GcCall

-------------------------------------------------------------------------------
(* A call's own steps. *)

LEMMA SurveyedStep ==
  ASSUME GcAlone, GInv, [Next]_vars, NEW m \in Maint, MaintNext(m), maint'[m] # Idle
  PROVE  Surveyed(maint[m])'
<1>0. TypeOK /\ maint \in [Maint -> Call \cup {Idle}]
  BY DEF GInv, TypeOK
<1>n. \A phase \in Phases : In(m, phase) => maint[m] \in Call /\ Surveyed(maint[m])
  BY <1>0, InCall DEF GInv, GcCall, Calls
<1>l. Loose \subseteq Available /\ Packed \subseteq Available
  BY DEF Available
<1>s. ASSUME UNCHANGED <<store, roots>>
      PROVE  /\ Packed' = Packed /\ Available' = Available /\ Reach[roots'] = Reach[roots]
             /\ indexes' = indexes /\ packs' = packs
             /\ \A o : Unaged(o)' <=> Unaged(o)
  BY <1>s DEF store, Packed, Available, Loose, Unaged
<1>1. CASE maint'[m].phase = "packs"
  <2>1. FsckLoose(m)
    BY <1>0, <1>1, ComesFrom
  <2>2. maint'[m].seen = Loose
    BY <1>0, <1>n, <2>1 DEF FsckLoose, Phases, Call
  <2> QED
    BY <1>1, <1>l, <1>s, <2>1, <2>2 DEF FsckLoose, Surveyed
<1>2. CASE maint'[m].phase = "objects"
  <2>1. FsckPacks(m)
    BY <1>0, <1>2, ComesFrom
  <2>2. /\ maint'[m].seen = maint[m].seen \cup Packed /\ maint'[m].packed = Packed
        /\ maint[m].seen \subseteq Available
    BY <1>0, <1>n, <2>1 DEF FsckPacks, Phases, Call, Surveyed, In
  <2> QED
    BY <1>2, <1>l, <1>s, <2>1, <2>2 DEF FsckPacks, Surveyed
<1>3. CASE maint'[m].phase = "roots"
  <2>1. FsckObjects(m)
    BY <1>0, <1>3, ComesFrom
  <2>2. /\ maint'[m].seen = maint[m].seen /\ maint'[m].packed = maint[m].packed
        /\ maint[m].seen \subseteq Available
        /\ maint[m].packed = Packed /\ Packed \subseteq maint[m].seen
    BY <1>0, <1>n, <2>1 DEF FsckObjects, Goto, Phases, Call, Surveyed, In
  <2> QED
    BY <1>3, <1>s, <2>1, <2>2 DEF FsckObjects, Surveyed
<1>4. CASE maint'[m].phase \in {"list", "discover"}
  <2>1. FsckRoots(m)
    BY <1>0, <1>4, ComesFrom, NextPhase
  <2>2. /\ maint'[m].seen = maint[m].seen /\ maint'[m].packed = maint[m].packed
        /\ maint'[m].reach = Reach[roots]
        /\ maint[m].seen \subseteq Available
        /\ maint[m].packed = Packed /\ Packed \subseteq maint[m].seen
    BY <1>0, <1>n, <2>1 DEF FsckRoots, Phases, Call, Surveyed, In
  <2> QED
    BY <1>4, <1>s, <2>1, <2>2 DEF FsckRoots, Surveyed
<1>5. CASE maint'[m].phase = "select"
  <2>1. ListPacks(m)
    BY <1>0, <1>5, ComesFrom
  <2>2. /\ maint'[m].seen = maint[m].seen /\ maint'[m].packed = maint[m].packed
        /\ maint'[m].reach = maint[m].reach /\ maint'[m].old = indexes \cap packs
        /\ maint[m].seen \subseteq Available
        /\ maint[m].packed = Packed /\ Packed \subseteq maint[m].seen
        /\ \A o \in Reach[roots] \ maint[m].reach : Unaged(o)
    BY <1>0, <1>n, <2>1 DEF ListPacks, Phases, Call, Surveyed, In
  <2> QED
    BY <1>5, <1>s, <2>1, <2>2 DEF ListPacks, Surveyed
<1>6. CASE maint'[m].phase = "scan"
  <2>1. PackedIds(m)
    BY <1>0, <1>6, ComesFrom
  <2>2. maint'[m].packed = Packed
    BY <1>0, <1>n, <2>1 DEF PackedIds, Phases, Call
  <2> QED
    BY <1>6, <1>s, <2>1, <2>2 DEF PackedIds, Surveyed
<1>7. CASE maint'[m].phase \notin {"packs", "objects", "roots", "list", "select", "discover", "scan"}
  BY <1>7 DEF Surveyed
<1> QED
  BY <1>1, <1>2, <1>3, <1>4, <1>5, <1>6, <1>7

LEMMA SentencedStep ==
  ASSUME GcAlone, GInv, [Next]_vars, NEW m \in Maint, MaintNext(m), maint'[m] # Idle
  PROVE  Sentenced(maint[m])'
<1> SUFFICES ASSUME maint'[m].phase = "delete", NEW o \in maint'[m].doomed
             PROVE  o \in Packed' \/ Garbage(o)'
  BY DEF Sentenced
<1>0. /\ TypeOK /\ maint \in [Maint -> Call \cup {Idle}]
      /\ loose \in [Obj -> {"none", "old", "fresh"}]
  BY DEF GInv, TypeOK
<1>n. \A phase \in Phases :
         In(m, phase) => maint[m] \in Call /\ Surveyed(maint[m]) /\ Sentenced(maint[m])
  BY <1>0, InCall DEF GInv, GcCall, Calls
<1>1. CASE Discover(m)
  <2>1. maint[m] \in Call /\ Surveyed(maint[m]) /\ maint[m].phase = "discover"
    BY <1>1, <1>n DEF Discover, Phases, In
  <2>2. /\ o \in Loose
        /\ o \in maint[m].packed \/ (o \in maint[m].seen \ maint[m].reach /\ loose[o] = "old")
    <3> DEFINE c == maint[m]
               doomed == {x \in Loose : \/ c.job.copies /\ x \in c.packed
                                        \/ x \in c.seen \ c.reach /\ loose[x] = "old"}
               next == [c EXCEPT !.phase = "delete", !.doomed = doomed,
                                 !.seen = {}, !.packed = {}, !.reach = {}]
    <3>1. maint' = [maint EXCEPT ![m] = next]
      BY <1>1 DEF Discover
    <3>2. next.doomed = doomed
      <4> HIDE DEF doomed
      <4> QED
        BY <2>1 DEF Call
    <3>3. maint'[m].doomed = doomed
      <4> HIDE DEF doomed, next
      <4> QED
        BY <1>0, <3>1, <3>2
    <3> QED
      BY <3>3
  <2>3. ASSUME loose[o] = "old", o \notin maint[m].reach PROVE Garbage(o)
    BY <2>1, <2>3 DEF Surveyed, Unaged, Garbage
  <2>4. Packed' = Packed /\ (Garbage(o)' <=> Garbage(o))
    BY <1>1 DEF Discover, store, Packed, Garbage
  <2> QED
    BY <2>1, <2>2, <2>3, <2>4 DEF Surveyed
<1>2. CASE ScanLoose(m)
  <2>1. maint[m] \in Call /\ Surveyed(maint[m]) /\ maint[m].phase = "scan"
    BY <1>2, <1>n DEF ScanLoose, Phases, In
  <2>2. maint'[m].doomed = maint[m].packed \cap Loose
    BY <1>0, <1>2, <2>1 DEF ScanLoose, Call
  <2> QED
    BY <1>2, <2>1, <2>2 DEF ScanLoose, store, Packed, Surveyed
<1>3. CASE DeleteLoose(m)
  <2>1. maint[m] \in Call /\ Sentenced(maint[m]) /\ maint[m].phase = "delete"
    BY <1>3, <1>n DEF DeleteLoose, Phases, In
  <2>2. PICK x \in maint[m].doomed :
           /\ loose' = [loose EXCEPT ![x] = "none"]
           /\ maint' = [maint EXCEPT ![m].doomed = @ \ {x}]
    BY <1>3 DEF DeleteLoose, Unlink
  <2>3. maint'[m].doomed = maint[m].doomed \ {x} /\ maint[m].doomed \subseteq Obj
    BY <1>0, <2>1, <2>2 DEF Call
  <2>4. o \in maint[m].doomed /\ loose'[o] = loose[o]
    BY <1>0, <2>2, <2>3
  <2>5. Packed' = Packed /\ (Garbage(o)' <=> Garbage(o))
    BY <1>3, <2>4 DEF DeleteLoose, Packed, Garbage
  <2> QED
    BY <2>1, <2>4, <2>5 DEF Sentenced
<1> QED
  BY <1>0, <1>1, <1>2, <1>3, NextPhase

\* Every object in a pack is to be packed anew, unless it may expire.
LEMMA SelectReplaces ==
  ASSUME GcAlone, GInv, NEW m \in Maint, Select(m)
  PROVE  Replaced(maint[m])'
<1>0. TypeOK /\ maint \in [Maint -> Call \cup {Idle}]
  BY DEF GInv, TypeOK
<1>c. maint[m] \in Call /\ Surveyed(maint[m]) /\ maint[m].phase = "select" /\ maint[m].job \in Jobs
  BY <1>0, InCall DEF Select, Phases, GInv, GcCall, Calls, In, Call
<1>1. PICK ids, cruft, ages \in SUBSET Obj, news \in Seq(Pack) :
              Selects(m, ids, cruft, ages, news)
  BY <1>0, SelectDoes
<1> DEFINE next == Selected(m, ids, cruft, ages, news)
<1>2. /\ next \in Call /\ news = NewsOf(ids, cruft)
      /\ maint' = [maint EXCEPT ![m] = IF news = <<>> THEN EndOfStage(next) ELSE next]
      /\ \A o \in maint[m].seen :
              \/ o \in ids \cup cruft \/ maint[m].job.mode = "plain"
              \/ maint[m].job.expire /\ o \notin maint[m].reach /\ Expired(m, o)
      /\ \A o \in ages : o \in maint[m].seen /\ Expired(m, o)
  BY <1>1 DEF Selects
<1>3. /\ next.phase = "pack" /\ next.news = news /\ next.doomed = ids \cup cruft
      /\ next.ages = ages /\ next.job = maint[m].job
  BY <1>c DEF Phases, Call, Selected
<1> HIDE DEF next
<1>e. EndOfStage(next).phase \in {"loose", "packed", "done"}
  BY <1>2 DEF EndOfStage, Entry, Call
<1>s. UNCHANGED <<store, roots>>
  BY DEF Select
<1>u. /\ Packed' = Packed /\ \A o : Unaged(o)' <=> Unaged(o)
      /\ \A o : Expirable(o)' <=> Expirable(o)
  BY <1>s DEF store, Packed, Unaged, Expirable
<1>x. ASSUME NEW o \in Packed PROVE \E p \in maint[m].old : o \in p /\ p \in indexes \cap packs
  BY <1>c DEF Surveyed, Packed
<1>y. \A p \in indexes \cap packs : p \in maint[m].old
  BY <1>c DEF Surveyed
<1>4. CASE news # <<>>
  <2>1. maint'[m] = next
    BY <1>0, <1>2, <1>4
  <2>2. \A o \in ids \cup cruft : Held(maint[m], o)'
    <3>1. \A o \in ids \cup cruft : \E i \in DOMAIN news : o \in news[i]
      BY <1>2, NewsHold
    <3> QED
      BY <1>3, <2>1, <3>1 DEF Held
  <2>3. ASSUME maint[m].job.delete, NEW o \in Packed, o \notin ids \cup cruft
        PROVE  Expirable(o)
    <3>1. maint[m].job.mode # "plain"
      BY <1>c, <2>3, JobsAssumption
    <3>2. o \in maint[m].seen
      BY <1>c, <2>3 DEF Surveyed
    <3>3. maint[m].job.expire /\ o \notin maint[m].reach /\ Expired(m, o)
      BY <1>2, <2>3, <3>1, <3>2
    <3>4. Expiring
      BY <1>c, <3>3 DEF Expiring
    <3>5. \A p \in indexes \cap packs : o \in p => o \in dated[p]
      BY <1>y, <3>3 DEF Expired
    <3>6. ~ Unaged(o)
      BY <1>x, <2>3, <3>4, <3>5 DEF Unaged
    <3>7. o \notin Reach[roots]
      BY <1>c, <3>3, <3>6 DEF Surveyed
    <3> QED
      BY <3>4, <3>5, <3>7 DEF Expirable
  <2>4. ASSUME Expiring, NEW o \in ages PROVE ~ Unaged(o)
    <3>1. o \in Available /\ Expired(m, o) /\ o \in Obj
      BY <1>c, <1>2, <2>4 DEF Surveyed
    <3>2. CASE o \in Packed
      <4>1. PICK p \in maint[m].old : o \in p /\ p \in packs
        BY <1>x, <3>2
      <4> QED
        BY <2>4, <3>1, <4>1 DEF Expired, Unaged
    <3>3. CASE o \in Loose
      <4>1. loose[o] \in {"none", "old", "fresh"}
        BY <1>0, <3>1 DEF TypeOK
      <4> QED
        BY <3>1, <3>3, <4>1 DEF Expired, Unaged, Loose
    <3> QED
      BY <3>1, <3>2, <3>3 DEF Available
  <2>5. \A o \in Packed' : maint[m].job.delete =>
            Held(maint[m], o)' \/ Expirable(o)'
    BY <1>u, <2>2, <2>3
  <2>6. Expiring => \A o \in ages : ~ Unaged(o)'
    BY <1>u, <2>4
  <2> QED
    BY <1>3, <2>1, <2>2, <2>5, <2>6 DEF Replaced, Removing
<1>5. CASE news = <<>>
  <2>1. maint'[m].phase \in {"loose", "packed", "done"}
    BY <1>0, <1>2, <1>5, <1>e
  <2> QED
    BY <2>1 DEF Replaced, Writing, Removing
<1> QED
  BY <1>4, <1>5

LEMMA WritePackReplaces ==
  ASSUME GcAlone, GInv, NEW m \in Maint, WritePack(m)
  PROVE  Replaced(maint[m])'
<1>0. /\ TypeOK /\ maint \in [Maint -> Call \cup {Idle}]
      /\ dated \in [Pack -> Pack] /\ packs \subseteq Pack /\ indexes \subseteq packs
  BY DEF GInv, TypeOK, PairsWhole
<1>c. maint[m] \in Call /\ Replaced(maint[m]) /\ maint[m].phase = "pack"
  BY <1>0, InCall DEF WritePack, Phases, GInv, GcCall, Calls, In
<1> DEFINE c == maint[m]
           h == Head(c.news)
<1>1. /\ packs' = packs \cup {h} /\ indexes' = indexes /\ loose' = loose /\ roots' = roots
      /\ dated' = IF h \in packs \cup tables THEN dated ELSE [dated EXCEPT ![h] = {}]
  BY DEF WritePack, PublishPack
<1>2. /\ maint'[m].phase = "index" /\ maint'[m].news = c.news /\ maint'[m].old = c.old
      /\ maint'[m].doomed = c.doomed /\ maint'[m].ages = c.ages /\ maint'[m].job = c.job
  BY <1>0, <1>c DEF WritePack, Goto, Call, Phases
<1>3. \A p \in packs : dated'[p] = dated[p]
  BY <1>0, <1>1
<1> HIDE DEF c, h
<1>4. indexes' \cap packs' = indexes \cap packs
  BY <1>0, <1>1
<1>5. \A o : Held(maint[m], o)' <=> Held(c, o)
  BY <1>2, <1>4 DEF Held, c
<1>6. \A o : Expirable(o) => Expirable(o)'
  BY <1>1, <1>3, <1>4 DEF Expirable
<1>7. Packed' = Packed
  BY <1>4 DEF Packed
<1>8. \A o : ~ Unaged(o) => ~ Unaged(o)'
  BY <1>1, <1>3 DEF Unaged
<1>9. Head(maint'[m].news) \in packs'
  BY <1>1, <1>2 DEF h
<1> QED
  BY <1>c, <1>2, <1>5, <1>6, <1>7, <1>8, <1>9 DEF Replaced, Writing, Removing, c

LEMMA WriteIndexReplaces ==
  ASSUME GcAlone, GInv, NEW m \in Maint, WriteIndex(m)
  PROVE  Replaced(maint[m])'
<1>0. TypeOK /\ maint \in [Maint -> Call \cup {Idle}]
  BY DEF GInv, TypeOK
<1>c. maint[m] \in Call /\ Replaced(maint[m]) /\ NewsFit(maint[m]) /\ maint[m].phase = "index"
  BY <1>0, InCall DEF WriteIndex, Phases, GInv, GcCall, Calls, CallsFit, In
<1> DEFINE c == maint[m]
           h == Head(c.news)
<1>1. /\ indexes' = indexes \cup {h} /\ packs' = packs /\ loose' = loose /\ roots' = roots
      /\ dated' = dated
  BY DEF WriteIndex
<1>2. /\ maint'[m].phase = "verify" /\ maint'[m].news = c.news /\ maint'[m].old = c.old
      /\ maint'[m].doomed = c.doomed /\ maint'[m].ages = c.ages /\ maint'[m].job = c.job
  BY <1>0, <1>c DEF WriteIndex, Goto, Call, Phases
<1>3. 1 \in DOMAIN c.news /\ c.news[1] = h
  BY <1>c DEF Call, NewsFit
<1> HIDE DEF c, h
<1>4. \A o : Held(c, o) => Held(maint[m], o)'
  BY <1>1, <1>2 DEF Held, c
<1>5. \A o \in h : Held(maint[m], o)'
  BY <1>2, <1>3 DEF Held, c
<1>6. \A o : Expirable(o) /\ o \notin h => Expirable(o)'
  BY <1>1 DEF Expirable
<1>7. \A o \in Packed' : o \in Packed \/ o \in h
  BY <1>1 DEF Packed
<1>8. \A o : Unaged(o)' <=> Unaged(o)
  BY <1>1 DEF Unaged
<1>9. maint'[m].job.delete => \A o \in Packed' : Held(maint[m], o)' \/ Expirable(o)'
  BY <1>c, <1>2, <1>4, <1>5, <1>6, <1>7 DEF Replaced, Writing, c
<1> QED
  BY <1>c, <1>2, <1>4, <1>8, <1>9 DEF Replaced, Writing, Removing, c

\* A pack that is verified holds its objects from then on, and is not removed.
LEMMA VerifyReplaces ==
  ASSUME GcAlone, GInv, NEW m \in Maint, VerifyPack(m)
  PROVE  Replaced(maint[m])'
<1>0. /\ TypeOK /\ maint \in [Maint -> Call \cup {Idle}]
      /\ dated \in [Pack -> Pack] /\ packs \subseteq Pack
  BY DEF GInv, TypeOK
<1>c. maint[m] \in Call /\ Replaced(maint[m]) /\ NewsFit(maint[m]) /\ maint[m].phase = "verify"
  BY <1>0, InCall DEF VerifyPack, Phases, GInv, GcCall, Calls, CallsFit, In
<1> DEFINE c == maint[m]
           h == Head(c.news)
           t == Tail(c.news)
           d == [c EXCEPT !.phase = "pack", !.news = t, !.old = @ \ {h}]
           e == [c EXCEPT !.phase = "unloose", !.news = <<>>, !.old = @ \ {h}]
<1>1. /\ indexes' = indexes /\ packs' = packs /\ loose' = loose /\ roots' = roots
      /\ h \in indexes \cap packs
      /\ dated' = dated \/ dated' = [dated EXCEPT ![h] = c.ages]
  BY DEF VerifyPack
<1>2. \/ Len(c.news) > 1 /\ maint' = [maint EXCEPT ![m] = d]
      \/ ~ (Len(c.news) > 1) /\ maint' = [maint EXCEPT ![m] = e]
  BY DEF VerifyPack
<1>3. /\ d.phase = "pack" /\ d.news = t /\ d.old = c.old \ {h} /\ d.doomed = c.doomed
      /\ d.ages = c.ages /\ d.job = c.job
      /\ e.phase = "unloose" /\ e.news = <<>> /\ e.old = c.old \ {h} /\ e.doomed = c.doomed
      /\ e.ages = c.ages /\ e.job = c.job
  <2> HIDE DEF h, t
  <2> QED
    BY <1>c DEF Call
<1>4. \A i \in DOMAIN c.news :
         c.news[i] = h \/ (Len(c.news) > 1 /\ \E k \in DOMAIN t : t[k] = c.news[i])
  <2>1. c.news \in Seq(Pack) /\ c.news # <<>>
    BY <1>c DEF Call, NewsFit
  <2> SUFFICES ASSUME NEW i \in DOMAIN c.news, i # 1
               PROVE  Len(c.news) > 1 /\ \E k \in DOMAIN t : t[k] = c.news[i]
    BY <2>1
  <2>2. i \in 2..Len(c.news)
    BY <2>1
  <2>3. i - 1 \in DOMAIN t /\ t[i - 1] = c.news[i] /\ Len(c.news) > 1
    BY <2>1, <2>2
  <2> QED
    BY <2>3
<1>5. /\ maint'[m].old = c.old \ {h} /\ maint'[m].doomed = c.doomed
      /\ maint'[m].ages = c.ages /\ maint'[m].job = c.job
      /\ \/ Len(c.news) > 1 /\ maint'[m].phase = "pack" /\ maint'[m].news = t
         \/ ~ (Len(c.news) > 1) /\ maint'[m].phase = "unloose" /\ maint'[m].news = <<>>
  <2> HIDE DEF d, e, h, t
  <2> QED
    BY <1>0, <1>2, <1>3
<1> HIDE DEF c, h, t, d, e
<1>6. \A o \in h : Held(maint[m], o)'
  BY <1>1, <1>5 DEF Held
<1>7. ASSUME NEW o, Held(c, o) PROVE Held(maint[m], o)'
  <2>1. CASE \E p \in indexes \cap packs : o \in p /\ p \notin c.old
    BY <1>1, <1>5, <2>1 DEF Held
  <2>2. CASE \E i \in DOMAIN c.news : o \in c.news[i]
    BY <1>4, <1>5, <1>6, <2>2 DEF Held
  <2> QED
    BY <1>7, <2>1, <2>2 DEF Held
<1>8. \A o : Expirable(o) /\ o \notin h => Expirable(o)'
  <2>1. \A p \in packs : p # h => dated'[p] = dated[p]
    BY <1>0, <1>1
  <2> QED
    BY <1>1, <2>1 DEF Expirable
<1>9. Packed' = Packed
  BY <1>1 DEF Packed
<1>10. c.job.delete => \A o \in Packed' : Held(maint[m], o)' \/ Expirable(o)'
  BY <1>c, <1>6, <1>7, <1>8, <1>9 DEF Replaced, Writing, c
<1>11. ASSUME Expiring, NEW o \in c.ages PROVE ~ Unaged(o)'
  <2>1. ~ Unaged(o)
    BY <1>c, <1>11 DEF Replaced, Writing, c
  <2>2. CASE dated' = dated
    BY <1>1, <2>1, <2>2 DEF Unaged
  <2>3. CASE dated' = [dated EXCEPT ![h] = c.ages]
    <3>1. o \in dated'[h] /\ h \in packs'
      BY <1>0, <1>1, <1>11, <2>3
    <3> QED
      BY <1>11, <3>1 DEF Unaged
  <2> QED
    BY <1>1, <2>2, <2>3
<1>12. \A o \in c.doomed : Held(maint[m], o)'
  BY <1>c, <1>7 DEF Replaced, Writing, c
<1> QED
  BY <1>5, <1>10, <1>11, <1>12 DEF Replaced, Writing, Removing

LEMMA PruneReplaces ==
  ASSUME GcAlone, GInv, NEW m \in Maint, PruneLoose(m) \/ PruneLooseEnd(m), maint'[m] # Idle
  PROVE  Replaced(maint[m])'
<1>0. TypeOK /\ maint \in [Maint -> Call \cup {Idle}]
  BY DEF GInv, TypeOK
<1>c. maint[m] \in Call /\ Replaced(maint[m]) /\ maint[m].phase = "unloose"
  BY <1>0, InCall DEF PruneLoose, PruneLooseEnd, Phases, GInv, GcCall, Calls, In
<1>1. UNCHANGED <<packs, indexes, tables, dated, kept, roots>>
  BY DEF PruneLoose, PruneLooseEnd, store
<1>2. Packed' = Packed /\ \A o : Expirable(o)' <=> Expirable(o)
  BY <1>1 DEF Packed, Expirable
<1>3. CASE PruneLoose(m)
  <2>1. /\ maint'[m].phase = "unloose" /\ maint'[m].news = maint[m].news
        /\ maint'[m].old = maint[m].old /\ maint'[m].doomed \subseteq maint[m].doomed
        /\ maint'[m].job = maint[m].job
    BY <1>0, <1>3, <1>c DEF PruneLoose, Call
  <2>2. \A o : Held(maint[m], o)' <=> Held(maint[m], o)
    BY <1>1, <2>1 DEF Held
  <2> QED
    BY <1>c, <1>2, <2>1, <2>2 DEF Replaced, Writing, Removing
<1>4. CASE PruneLooseEnd(m)
  <2> DEFINE b == [maint[m] EXCEPT !.doomed = {}, !.cruft = {}, !.ages = {}]
             d == [b EXCEPT !.phase = "remove"]
             e == [b EXCEPT !.old = {}]
  <2>1. /\ b \in Call /\ b.job = maint[m].job /\ b.news = maint[m].news
        /\ b.old = maint[m].old
    BY <1>c DEF Call
  <2>2. maint' = [maint EXCEPT ![m] = IF b.job.delete THEN d ELSE EndOfStage(e)]
    BY <1>4 DEF PruneLooseEnd
  <2> HIDE DEF b
  <2>3. /\ d.phase = "remove" /\ d.job = b.job /\ d.news = b.news /\ d.old = b.old
        /\ e \in Call
    BY <2>1 DEF Call
  <2> HIDE DEF d, e
  <2>4. EndOfStage(e).phase \in {"loose", "packed", "done"}
    BY <2>3 DEF EndOfStage, Entry, Call
  <2>5. CASE b.job.delete
    <3>1. maint'[m] = d
      BY <1>0, <2>2, <2>5
    <3>2. \A o : Held(maint[m], o)' <=> Held(maint[m], o)
      BY <1>1, <2>1, <2>3, <3>1 DEF Held
    <3> QED
      BY <1>c, <1>2, <2>1, <2>3, <2>5, <3>1, <3>2 DEF Replaced, Writing, Removing
  <2>6. CASE ~ b.job.delete
    <3>1. maint'[m].phase \in {"loose", "packed", "done"}
      BY <1>0, <2>2, <2>4, <2>6
    <3> QED
      BY <3>1 DEF Replaced, Writing, Removing
  <2> QED
    BY <2>5, <2>6
<1> QED
  BY <1>3, <1>4

LEMMA RemoveReplaces ==
  ASSUME GcAlone, GInv, NEW m \in Maint, RemoveIndex(m) \/ RemovePack(m) \/ RemoveTable(m)
  PROVE  Replaced(maint[m])'
<1>0. /\ TypeOK /\ maint \in [Maint -> Call \cup {Idle}]
      /\ dated \in [Pack -> Pack] /\ packs \subseteq Pack
  BY DEF GInv, TypeOK
<1>c. maint[m] \in Call /\ Replaced(maint[m]) /\ maint[m].phase \in Removing
  BY <1>0, InCall DEF RemoveIndex, RemovePack, RemoveTable, Phases, GInv, GcCall, Calls, In, Removing
<1>d. maint[m].job.delete /\ maint[m].news = <<>>
  BY <1>c DEF Replaced
<1>e. \A o \in Packed : Held(maint[m], o) \/ Expirable(o)
  BY <1>c, <1>d DEF Replaced
<1>r. loose' = loose /\ roots' = roots
  BY DEF RemoveIndex, RemovePack, RemoveTable
<1>h. \A o : Held(maint[m], o) => \E p \in indexes \cap packs : o \in p /\ p \notin maint[m].old
  BY <1>d DEF Held
<1>1. CASE RemoveIndex(m)
  <2>1. PICK p \in maint[m].old :
           \/ indexes' = indexes /\ maint' = [maint EXCEPT ![m].old = @ \ {p}]
           \/ /\ indexes' = indexes \ {p}
              /\ maint' = [maint EXCEPT ![m].old = @ \ {p}, ![m].at = p, ![m].phase = "unpack"]
    BY <1>1 DEF RemoveIndex
  <2> DEFINE c == [maint[m] EXCEPT !.old = @ \ {p}]
             d == [maint[m] EXCEPT !.old = @ \ {p}, !.at = p, !.phase = "unpack"]
  <2>2. maint[m].phase = "remove"
    BY <1>1 DEF RemoveIndex, In
  <2>3. /\ c.phase = "remove" /\ c.news = maint[m].news /\ c.old = maint[m].old \ {p}
        /\ c.job = maint[m].job
        /\ d.phase = "unpack" /\ d.news = maint[m].news /\ d.old = maint[m].old \ {p}
        /\ d.job = maint[m].job /\ d.at = p
    BY <1>c, <2>2 DEF Call
  <2>4. \/ indexes' = indexes /\ maint' = [maint EXCEPT ![m] = c]
        \/ indexes' = indexes \ {p} /\ maint' = [maint EXCEPT ![m] = d]
    BY <2>1
  <2> HIDE DEF c, d
  <2>5. /\ maint'[m].news = <<>> /\ maint'[m].old = maint[m].old \ {p} /\ maint'[m].job.delete
        /\ \/ indexes' = indexes /\ maint'[m].phase = "remove"
           \/ indexes' = indexes \ {p} /\ maint'[m].phase = "unpack" /\ maint'[m].at = p
    BY <1>0, <1>d, <2>3, <2>4
  <2>6. packs' = packs /\ dated' = dated
    BY <1>1 DEF RemoveIndex
  <2>7. \A o : Held(maint[m], o) => Held(maint[m], o)'
    BY <1>h, <2>5, <2>6 DEF Held
  <2>8. Packed' \subseteq Packed /\ \A o : Expirable(o) => Expirable(o)'
    BY <1>r, <2>5, <2>6 DEF Packed, Expirable
  <2>9. \A o \in Packed' : Held(maint[m], o)' \/ Expirable(o)'
    BY <1>e, <2>7, <2>8
  <2> QED
    BY <2>5, <2>9 DEF Replaced, Writing, Removing
<1>2. CASE RemovePack(m)
  <2>1. maint[m].phase = "unpack" /\ maint[m].at \notin indexes
    BY <1>2, <1>c DEF RemovePack, In, Replaced
  <2>2. /\ maint'[m].phase = "untable" /\ maint'[m].news = <<>> /\ maint'[m].job.delete
        /\ maint'[m].old = maint[m].old /\ maint'[m].at = maint[m].at
    BY <1>0, <1>2, <1>c, <1>d DEF RemovePack, Goto, Call
  <2>3. /\ packs' = packs \ {maint[m].at} /\ indexes' = indexes
        /\ dated' = dated \/ dated' = [dated EXCEPT ![maint[m].at] = {}]
    BY <1>2 DEF RemovePack
  <2>4. indexes' \cap packs' = indexes \cap packs
    BY <2>1, <2>3
  <2>5. \A p \in indexes \cap packs : dated'[p] = dated[p]
    BY <1>0, <2>1, <2>3
  <2>6. Packed' = Packed /\ \A o : Expirable(o) => Expirable(o)'
    BY <1>r, <2>4, <2>5 DEF Packed, Expirable
  <2>7. \A o : Held(maint[m], o) => Held(maint[m], o)'
    BY <1>h, <2>2, <2>4 DEF Held
  <2>8. \A o \in Packed' : Held(maint[m], o)' \/ Expirable(o)'
    BY <1>e, <2>6, <2>7
  <2> QED
    BY <2>1, <2>2, <2>3, <2>8 DEF Replaced, Writing, Removing
<1>3. CASE RemoveTable(m)
  <2>1. maint[m].phase = "untable" /\ maint[m].at \notin packs
    BY <1>3, <1>c DEF RemoveTable, In, Replaced
  <2>2. /\ maint'[m].phase = "remove" /\ maint'[m].news = <<>> /\ maint'[m].job.delete
        /\ maint'[m].old = maint[m].old
    BY <1>0, <1>3, <1>c, <1>d DEF RemoveTable, Call
  <2>3. packs' = packs /\ indexes' = indexes /\ dated' = [dated EXCEPT ![maint[m].at] = {}]
    BY <1>3 DEF RemoveTable
  <2>4. \A p \in packs : dated'[p] = dated[p]
    BY <1>0, <2>1, <2>3
  <2>5. Packed' = Packed /\ \A o : Expirable(o) => Expirable(o)'
    BY <1>r, <2>3, <2>4 DEF Packed, Expirable
  <2>6. \A o : Held(maint[m], o) => Held(maint[m], o)'
    BY <1>h, <2>2, <2>3 DEF Held
  <2>7. \A o \in Packed' : Held(maint[m], o)' \/ Expirable(o)'
    BY <1>e, <2>5, <2>6
  <2> QED
    BY <2>2, <2>7 DEF Replaced, Writing, Removing
<1> QED
  BY <1>1, <1>2, <1>3

LEMMA ReplacedStep ==
  ASSUME GcAlone, GInv, NEW m \in Maint, MaintNext(m), maint'[m] # Idle
  PROVE  Replaced(maint[m])'
<1>0. TypeOK
  BY DEF GInv
<1>1. CASE maint'[m].phase = "pack"
  BY <1>0, <1>1, NextPhase, SelectReplaces, VerifyReplaces
<1>2. CASE maint'[m].phase = "index"
  BY <1>0, <1>2, NextPhase, WritePackReplaces
<1>3. CASE maint'[m].phase = "verify"
  BY <1>0, <1>3, NextPhase, WriteIndexReplaces
<1>4. CASE maint'[m].phase = "unloose"
  BY <1>0, <1>4, NextPhase, VerifyReplaces, PruneReplaces
<1>5. CASE maint'[m].phase \in Removing
  BY <1>0, <1>5, ComesFrom, PruneReplaces, RemoveReplaces DEF Removing
<1>6. CASE maint'[m].phase \notin Writing \cup {"unloose"} \cup Removing
  BY <1>6 DEF Replaced, Writing, Removing
<1> QED
  BY <1>1, <1>2, <1>3, <1>4, <1>5, <1>6 DEF Writing

-------------------------------------------------------------------------------
(* The invariant, and what follows from it. *)

LEMMA GInvInit == Init => GInv
<1> SUFFICES ASSUME Init PROVE GInv
  OBVIOUS
<1>1. TypeOK /\ CallsFit
  BY TypeInit
<1>2. Calls = {} /\ Tasks = {}
  BY DEF Init, Calls, Tasks
<1>3. StoredStays /\ TasksReach /\ NewUnaged /\ \A m \in Calls : GcCall(maint[m])
  BY <1>2 DEF Init, StoredStays, TasksReach, NewUnaged
<1>4. RootsAvailable
  <2>1. roots \in SUBSET Obj /\ roots \subseteq Available /\ Closed(Available)
    BY DEF Init
  <2> QED
    BY <1>1, <2>1, AvailableType, ReachLeast DEF RootsAvailable
<1>5. PairsWhole /\ TablesFit
  BY DEF Init, PairsWhole, TablesFit
<1> QED
  BY <1>1, <1>3, <1>4, <1>5 DEF GInv

LEMMA GInvStep ==
  ASSUME GcAlone, GInv, [Next]_vars, Expiring => NoStrayTable
  PROVE  GInv'
<1>1. TypeOK' /\ CallsFit'
  BY TypeStep DEF GInv
<1>2. \A m \in Calls' : GcCall(maint[m])'
  <2> SUFFICES ASSUME NEW m \in Maint, maint'[m] # Idle PROVE GcCall(maint[m])'
    BY DEF Calls
  <2>1. CASE MaintNext(m)
    BY <2>1, SurveyedStep, ReplacedStep, SentencedStep DEF GcCall
  <2>2. CASE ~ MaintNext(m)
    <3>1. maint'[m] = maint[m]
      BY <2>2, OtherCalls, WriterLeaves, ReaderLeaves DEF Next, DropRoot, vars, GInv
    <3> QED
      BY <2>2, <3>1, GcCallBeside DEF Calls
  <2> QED
    BY <2>1, <2>2
<1>3. TasksReach'
  BY TasksReachStep DEF GInv
<1>4. PacksThere
  BY DEF PacksThere, GInv, PairsWhole, GcCall, Replaced, NewUnaged
<1>5. RootsAvailable' /\ StoredStays'
  BY <1>4, ProtectedStays, PromisesStep DEF GInv
<1> QED
  BY <1>1, <1>2, <1>3, <1>5, NewUnagedStep, PairsWholeStep, TablesFitStep DEF GInv

\* The inductive invariant holds while no gc that drops old objects leaves a table
\* behind.
LEMMA GcInvariance ==
  ASSUME GcAlone
  PROVE  Spec /\ [][Expiring => NoStrayTable]_vars => []GInv
<1>1. Init => GInv
  BY GInvInit
<1>2. GInv /\ [Next]_vars /\ [Expiring => NoStrayTable]_vars => GInv'
  <2> SUFFICES ASSUME GInv, [Next]_vars, [Expiring => NoStrayTable]_vars PROVE GInv'
    OBVIOUS
  <2>1. UNCHANGED vars => NoStrayTable
    BY DEF vars, NoStrayTable
  <2> QED
    BY <2>1, GInvStep
<1> QED
  BY <1>1, <1>2, PTL DEF Spec

\* Under gc.pid everything the references, the logs and the index reach stays in
\* the store, while repack writes it into new packs, removes the loose copies and
\* then the old packs, in every order in which other calls store objects, set and
\* drop references and are given up (repack.rs, gc.rs).
THEOREM GcRootsAvailable ==
  ASSUME GcAlone
  PROVE  Spec /\ [][Expiring => NoStrayTable]_vars => []RootsAvailable
<1>1. GInv => RootsAvailable
  BY DEF GInv
<1> QED
  BY <1>1, GcInvariance, PTL

\* What a call has stored beside a gc stays available until it has set its
\* reference: the survey of fsck has not seen it, or its age spares it.
THEOREM GcStoredStays ==
  ASSUME GcAlone
  PROVE  Spec /\ [][Expiring => NoStrayTable]_vars => []StoredStays
<1>1. GInv => StoredStays
  BY DEF GInv
<1> QED
  BY <1>1, GcInvariance, PTL

\* An index is there only with its pack, whenever a gc is given up between the
\* files it publishes or removes (publish_bundle, repack_remove_old_packs).
THEOREM GcPairsWhole ==
  ASSUME GcAlone
  PROVE  Spec /\ [][Expiring => NoStrayTable]_vars => []PairsWhole
<1>1. GInv => PairsWhole
  BY DEF GInv
<1> QED
  BY <1>1, GcInvariance, PTL

\* A gc makes an object unavailable only if nothing reaches it and every copy is
\* old: what repack_object_mtimes and prune_discover decide on is still so when
\* the last copy goes.
THEOREM GcOnlyExpiredLost ==
  ASSUME GcAlone
  PROVE  Spec /\ [][Expiring => NoStrayTable]_vars => OnlyExpiredLost
<1> DEFINE Expires(o) == /\ o \notin Reach[roots]
                         /\ loose[o] # "fresh"
                         /\ \A p \in indexes \cap packs : o \in p => o \in dated[p]
<1>1. ASSUME GInv, [Next]_vars PROVE \A o \in Available \ Available' : Expires(o)
  BY <1>1, LostIs
<1>2. GInv /\ [Next]_vars => [\A o \in Available \ Available' : Expires(o)]_vars
  BY <1>1
<1> QED
  BY <1>2, GcInvariance, PTL DEF Spec, OnlyExpiredLost

\* Without a gc that drops old objects nothing more is needed: wherever a gc is
\* given up, all four hold.
THEOREM GcKeeps ==
  ASSUME GcAlone, ~ Expiring
  PROVE  Spec => []RootsAvailable /\ []StoredStays /\ []PairsWhole /\ OnlyExpiredLost
<1>1. [Next]_vars => [Expiring => NoStrayTable]_vars
  OBVIOUS
<1> QED
  BY <1>1, GcRootsAvailable, GcStoredStays, GcPairsWhole, GcOnlyExpiredLost, PTL DEF Spec
===============================================================================
