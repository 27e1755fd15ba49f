----------------------------- MODULE ObjectStore -----------------------------
(***************************************************************************)
(* The object store: loose objects and packs, the calls that add to it,    *)
(* and the maintenance calls that remove from it: repack, prune,           *)
(* prune_packed and gc.                                                    *)
(*                                                                         *)
(* A pack is named by its content, so it is the set of its objects.  Ages  *)
(* are "old", at or before the cutoff that expiring calls are given, and   *)
(* "fresh": the cutoff lies further back than any call takes, so what a    *)
(* call writes stays fresh.  Every error of the storage, and every check   *)
(* of the code that fails, makes a call return early: GiveUp and Abandon.  *)
(***************************************************************************)
EXTENDS Naturals, Sequences, FiniteSets

CONSTANTS Obj,       \* object ids
          Links,     \* the ids an object names: tree, parents, entries, target
          Start,     \* the sets of packs a store may begin with
          None,      \* no process
          Maint,     \* processes that maintain the store
          Jobs,      \* the calls they make
          Writer,    \* processes that add objects and set a reference
          Works,     \* the calls they make
          Rewrites,  \* kinds of old copies whose objects may be written again
          Reader     \* processes that read one object

Stages == {"repack", "prune", "prune-packed"}
Modes  == {"plain", "all", "cruft"}

ASSUME LinksAssumption == Links \in [Obj -> SUBSET Obj] /\ None \notin Maint
ASSUME StartAssumption == Start \subseteq SUBSET (SUBSET Obj)
ASSUME JobsAssumption ==
    /\ Jobs \subseteq [locked: BOOLEAN,      \* takes gc.pid
                       stages: Seq(Stages),
                       mode:   Modes,        \* include_unreachable, cruft
                       expire: BOOLEAN,      \* cruft_expire_before
                       loose:  BOOLEAN,      \* prune_loose
                       delete: BOOLEAN,      \* delete_redundant_packs
                       copies: BOOLEAN]      \* prune_packed_copies
    /\ \A j \in Jobs :
          /\ j.stages # <<>>
          /\ j.delete => j.mode # "plain"     \* validate_repack_options
          /\ (\E i \in DOMAIN j.stages : j.stages[i] = "prune") => j.locked
ASSUME WorksAssumption ==
    /\ Works \subseteq [kind: {"loose", "pack", "kept"}, new: SUBSET Obj, goal: Obj]
    /\ \A t \in Works : t.goal \in t.new

VARIABLES loose,    \* loose objects, with their ages
          packs,    \* the .pack files
          indexes,  \* the .idx files
          tables,   \* the .mtimes files
          dated,    \* the objects each pack holds that are old
          kept,     \* the .keep files
          roots,    \* what references, logs and index name
          gcpid,    \* the process that created gc.pid
          maint, work, reading  \* the calls under way

store == <<loose, packs, indexes, tables, dated, kept>>
vars  == <<store, roots, gcpid, maint, work, reading>>

Pack == SUBSET Obj

Closed(S) == \A o \in S : Links[o] \subseteq S

\* What S reaches: the least closed set that holds it.
Reach == [S \in SUBSET Obj |->
             {o \in Obj : \A T \in SUBSET Obj : S \subseteq T /\ Closed(T) => o \in T}]

Loose     == {o \in Obj : loose[o] # "none"}
Packed    == UNION (indexes \cap packs)
Available == Loose \cup Packed

OldCopies(o) ==
    {"loose" : x \in {y \in {o} : loose[y] = "old"}}
        \cup {"packed" : p \in {q \in packs : o \in dated[q]}}

-------------------------------------------------------------------------------
Idle == [phase |-> "idle"]

Phases == {"loose", "packs", "objects", "roots", "list", "select", "pack", "index",
           "verify", "unloose", "remove", "unpack", "untable", "discover", "packed",
           "scan", "delete", "done"}

Call == [phase:   Phases,
         job:     Jobs,
         stages:  Seq(Stages),   \* this one and those to come
         seen:    SUBSET Obj,    \* fsck: the ids it has listed
         packed:  SUBSET Obj,    \* fsck: those in packs
         reach:   SUBSET Obj,    \* fsck: those the roots reach
         old:     SUBSET Pack,   \* repack: packs to remove
         news:    Seq(Pack),     \* repack: the packs to publish
         cruft:   SUBSET Obj,    \* repack: what the cruft pack holds,
         ages:    SUBSET Obj,    \*   and what its table says is old
         at:      Pack,          \* repack: the pack that is being removed
         doomed:  SUBSET Obj]    \* loose objects to remove

NoTask == [kind |-> "none"]
Task   == [kind: {"loose", "pack", "kept"}, new: SUBSET Obj, goal: Obj,
           todo: SUBSET Obj, phase: {"store", "pack", "keep", "index", "root"}]

NoRead == [phase |-> "none"]
Read   == [phase: {"loose", "list", "packs", "found", "missing"}, obj: Obj,
           packs: SUBSET Pack]

\* The type of the state; and gc.pid is there just while a call that takes it is
\* under way (gc.rs, prune.rs).
TypeOK ==
    /\ loose \in [Obj -> {"none", "old", "fresh"}]
    /\ packs \subseteq Pack /\ indexes \subseteq Pack
    /\ tables \subseteq Pack /\ kept \subseteq Pack
    /\ dated \in [Pack -> Pack] /\ \A p \in Pack : dated[p] \subseteq p
    /\ roots \subseteq Obj
    /\ gcpid \in Maint \cup {None}
    /\ maint \in [Maint -> Call \cup {Idle}]
    /\ work \in [Writer -> Task \cup {NoTask}]
    /\ reading \in [Reader -> Read \cup {NoRead}]
    /\ \A m \in Maint : gcpid = m <=> maint[m] # Idle /\ maint[m].job.locked

\* A store that fsck finds sound, at rest.  Without a table, the objects of a
\* pack are as old as its file.
Init ==
    /\ loose \in [Obj -> {"none", "old", "fresh"}]
    /\ packs \in Start /\ indexes = packs
    /\ tables \in SUBSET packs /\ kept \in SUBSET packs
    /\ \E d \in [packs -> Pack] :
          /\ \A p \in packs : d[p] \in SUBSET p /\ (p \notin tables => d[p] \in {{}, p})
          /\ dated = [p \in Pack |-> IF p \in packs THEN d[p] ELSE {}]
    /\ roots \in SUBSET Obj
    /\ Closed(Available) /\ roots \subseteq Available
    /\ gcpid = None
    /\ maint = [m \in Maint |-> Idle]
    /\ work = [w \in Writer |-> NoTask]
    /\ reading = [q \in Reader |-> NoRead]

-------------------------------------------------------------------------------
\* Files.  A published name that is there already is left untouched: the bytes
\* are the same.
PublishPack(p) ==
    /\ packs' = packs \cup {p}
    /\ dated' = IF p \in packs \cup tables THEN dated ELSE [dated EXCEPT ![p] = {}]

Unlink(o) == loose' = [loose EXCEPT ![o] = "none"]

-------------------------------------------------------------------------------
\* Calls that add objects.

\* What the calls under way rely on: objects their new ones name, and objects
\* being read.
Outside(t) == (UNION {Links[o] : o \in t.new}) \ t.new
Needed ==
    (UNION {IF work[w] = NoTask THEN {} ELSE Outside(work[w]) : w \in Writer})
        \cup {reading[q].obj : q \in {r \in Reader : reading[r] # NoRead}}

\* A caller builds on what its references reach, and the bytes of a pack are
\* accepted if everything the goal reaches is in it or in the store.
StartTask(w) ==
    /\ work[w] = NoTask
    /\ \E t \in Works :
          /\ Outside(t) \subseteq Reach[roots]
          /\ \A o \in t.new : OldCopies(o) \subseteq Rewrites
          /\ work' = [work EXCEPT ![w] =
                [kind |-> t.kind, new |-> t.new, goal |-> t.goal, todo |-> t.new,
                 phase |-> IF t.kind = "loose" THEN "store" ELSE "pack"]]
    /\ UNCHANGED <<store, roots, gcpid, maint, reading>>

\* write_object: what an object names is written before it.
StoreObject(w) ==
    /\ work[w] # NoTask /\ work[w].phase = "store"
    /\ \E o \in work[w].todo :
          /\ Links[o] \cap work[w].todo \subseteq {o}
          /\ loose' = [loose EXCEPT ![o] = IF @ = "none" THEN "fresh" ELSE @]
          /\ work' = [work EXCEPT ![w].todo = @ \ {o},
                                  ![w].phase = IF work[w].todo = {o} THEN "root" ELSE "store"]
    /\ UNCHANGED <<packs, indexes, tables, dated, kept, roots, gcpid, maint, reading>>

ReceivePack(w) ==
    /\ work[w] # NoTask /\ work[w].phase = "pack"
    /\ PublishPack(work[w].new)
    /\ work' = [work EXCEPT ![w].phase = IF work[w].kind = "kept" THEN "keep" ELSE "index"]
    /\ UNCHANGED <<loose, indexes, tables, kept, roots, gcpid, maint, reading>>

ReceiveKeep(w) ==
    /\ work[w] # NoTask /\ work[w].phase = "keep"
    /\ kept' = kept \cup {work[w].new}
    /\ work' = [work EXCEPT ![w].phase = "index"]
    /\ UNCHANGED <<loose, packs, indexes, tables, dated, roots, gcpid, maint, reading>>

ReceiveIndex(w) ==
    /\ work[w] # NoTask /\ work[w].phase = "index"
    /\ indexes' = indexes \cup {work[w].new}
    /\ work' = [work EXCEPT ![w].phase = "root", ![w].todo = {}]
    /\ UNCHANGED <<loose, packs, tables, dated, kept, roots, gcpid, maint, reading>>

SetRoot(w) ==
    /\ work[w] # NoTask /\ work[w].phase = "root"
    /\ roots' = roots \cup {work[w].goal}
    /\ work' = [work EXCEPT ![w] = NoTask]
    /\ UNCHANGED <<store, gcpid, maint, reading>>

Abandon(w) ==
    /\ work[w] # NoTask
    /\ work' = [work EXCEPT ![w] = NoTask]
    /\ UNCHANGED <<store, roots, gcpid, maint, reading>>

\* A reference is moved or deleted, or a log expires.
DropRoot ==
    /\ \E o \in roots : /\ Needed \subseteq Reach[roots \ {o}]
                        /\ roots' = roots \ {o}
    /\ UNCHANGED <<store, gcpid, maint, work, reading>>

-------------------------------------------------------------------------------
\* Maintenance.  Each step of a call is taken in the phase it is named for.
In(m, phase) == maint[m].phase = phase
Goto(m, phase) == maint' = [maint EXCEPT ![m].phase = phase]

\* Where a stage begins, and where a call goes when a stage ends.
Entry(stage) == IF stage = "prune-packed" THEN "packed" ELSE "loose"
EndOfStage(c) ==
    IF Len(c.stages) > 1
      THEN [c EXCEPT !.stages = Tail(@), !.phase = Entry(c.stages[2])]
      ELSE [c EXCEPT !.phase = "done"]

NewCall(j) ==
    [phase |-> Entry(j.stages[1]), job |-> j, stages |-> j.stages,
     seen |-> {}, packed |-> {}, reach |-> {}, old |-> {}, news |-> <<>>,
     cruft |-> {}, ages |-> {}, at |-> {}, doomed |-> {}]

\* Variant for the checks: gc.pid is not looked at before it is written.
StartCallAnyway(m) ==
    /\ maint[m] = Idle
    /\ \E j \in Jobs :
          /\ gcpid' = IF j.locked THEN m ELSE gcpid
          /\ maint' = [maint EXCEPT ![m] = NewCall(j)]
    /\ UNCHANGED <<store, roots, work, reading>>

StartCall(m) ==
    /\ maint[m] = Idle
    /\ \E j \in Jobs :
          /\ j.locked => gcpid = None
          /\ gcpid' = IF j.locked THEN m ELSE gcpid
          /\ maint' = [maint EXCEPT ![m] = NewCall(j)]
    /\ UNCHANGED <<store, roots, work, reading>>

Unlocked(m) == gcpid' = IF maint[m].job.locked THEN None ELSE gcpid

EndCall(m) ==
    /\ In(m, "done")
    /\ maint' = [maint EXCEPT ![m] = Idle]
    /\ Unlocked(m)
    /\ UNCHANGED <<store, roots, work, reading>>

GiveUp(m) ==
    /\ ~ In(m, "idle")
    /\ maint' = [maint EXCEPT ![m] = Idle]
    /\ Unlocked(m)
    /\ UNCHANGED <<store, roots, work, reading>>

\* fsck: the loose ids, the ids of the indexed packs, the objects themselves,
\* and then the roots.
FsckLoose(m) ==
    /\ In(m, "loose")
    /\ maint' = [maint EXCEPT ![m].phase = "packs", ![m].seen = Loose]
    /\ UNCHANGED <<store, roots, gcpid, work, reading>>

FsckPacks(m) ==
    /\ In(m, "packs")
    /\ indexes \subseteq packs
    /\ maint' = [maint EXCEPT ![m].phase = "objects", ![m].seen = @ \cup Packed,
                              ![m].packed = Packed]
    /\ UNCHANGED <<store, roots, gcpid, work, reading>>

FsckObjects(m) ==
    /\ In(m, "objects")
    /\ maint[m].seen \subseteq Available /\ Closed(maint[m].seen)
    /\ Goto(m, "roots")
    /\ UNCHANGED <<store, roots, gcpid, work, reading>>

\* Variant for the checks: the links of the roots are not followed.
FsckRootsOnly(m) ==
    /\ In(m, "roots")
    /\ roots \subseteq maint[m].seen
    /\ maint' = [maint EXCEPT ![m].reach = roots,
          ![m].phase = IF Head(maint[m].stages) = "repack" THEN "list" ELSE "discover"]
    /\ UNCHANGED <<store, roots, gcpid, work, reading>>

FsckRoots(m) ==
    /\ In(m, "roots")
    /\ roots \subseteq maint[m].seen
    /\ maint' = [maint EXCEPT ![m].reach = Reach[roots],
          ![m].phase = IF Head(maint[m].stages) = "repack" THEN "list" ELSE "discover"]
    /\ UNCHANGED <<store, roots, gcpid, work, reading>>

-------------------------------------------------------------------------------
\* repack

\* repack_existing_packs
ListPacks(m) ==
    /\ In(m, "list")
    /\ maint' = [maint EXCEPT ![m].phase = "select", ![m].old = indexes \cap packs]
    /\ UNCHANGED <<store, roots, gcpid, work, reading>>

\* Variant for the checks: the oldest copy counts.
ExpiredOldest(m, o) ==
    loose[o] = "old" \/ \E p \in maint[m].old : o \in p /\ o \in dated[p]

\* repack_object_mtimes: the newest copy counts, a loose one or one in a pack
\* that was listed.
Expired(m, o) ==
    loose[o] # "fresh" /\ \A p \in maint[m].old : o \in p => o \in dated[p]

Select(m) ==
    /\ In(m, "select")
    /\ LET c     == maint[m]
           ids   == IF c.job.mode = "all" THEN c.seen ELSE c.reach
           lost  == {o \in c.seen \ c.reach : Expired(m, o)}
           cruft == IF c.job.mode = "cruft"
                      THEN (c.seen \ c.reach) \ (IF c.job.expire THEN lost ELSE {})
                      ELSE {}
           news  == (IF ids = {} THEN <<>> ELSE <<ids>>)
                       \o (IF cruft = {} THEN <<>> ELSE <<cruft>>)
           next  == [c EXCEPT !.phase = "pack", !.news = news, !.cruft = cruft,
                              !.ages = lost \cap cruft, !.doomed = ids \cup cruft,
                              !.seen = {}, !.packed = {}, !.reach = {}]
       IN  /\ c.job.mode = "cruft" => c.old \subseteq indexes \cap packs
           /\ maint' = [maint EXCEPT ![m] = IF news = <<>> THEN EndOfStage(next) ELSE next]
    /\ UNCHANGED <<store, roots, gcpid, work, reading>>

\* write_pack reads every object it packs.
WritePack(m) ==
    /\ In(m, "pack")
    /\ Head(maint[m].news) \subseteq Available
    /\ PublishPack(Head(maint[m].news))
    /\ Goto(m, "index")
    /\ UNCHANGED <<loose, indexes, tables, kept, roots, gcpid, work, reading>>

WriteIndex(m) ==
    /\ In(m, "index")
    /\ indexes' = indexes \cup {Head(maint[m].news)}
    /\ Goto(m, "verify")
    /\ UNCHANGED <<loose, packs, tables, dated, kept, roots, gcpid, work, reading>>

\* verify_repack_count, and publish_cruft_mtimes for the cruft pack.
VerifyPack(m) ==
    /\ In(m, "verify")
    /\ LET c == maint[m]
           p == Head(c.news)
       IN  /\ p \in indexes \cap packs
           /\ IF p = c.cruft
                THEN /\ p \in tables => dated[p] = c.ages
                     /\ tables' = tables \cup {p}
                     /\ dated' = [dated EXCEPT ![p] = c.ages]
                ELSE UNCHANGED <<tables, dated>>
           /\ IF Len(c.news) > 1
                THEN maint' = [maint EXCEPT ![m].phase = "pack", ![m].news = Tail(@),
                                            ![m].old = @ \ {p}]
                ELSE maint' = [maint EXCEPT ![m].phase = "unloose", ![m].news = <<>>,
                                            ![m].old = @ \ {p}]
    /\ UNCHANGED <<loose, packs, indexes, kept, roots, gcpid, work, reading>>

\* repack_prune_loose
PruneLoose(m) ==
    /\ In(m, "unloose")
    /\ maint[m].job.loose
    /\ \E o \in maint[m].doomed :
          /\ Unlink(o)
          /\ maint' = [maint EXCEPT ![m].doomed = @ \ {o}]
    /\ UNCHANGED <<packs, indexes, tables, dated, kept, roots, gcpid, work, reading>>

PruneLooseEnd(m) ==
    /\ In(m, "unloose")
    /\ ~ maint[m].job.loose \/ maint[m].doomed = {}
    /\ maint' = [maint EXCEPT ![m] =
          LET c == [@ EXCEPT !.doomed = {}, !.cruft = {}, !.ages = {}]
          IN  IF c.job.delete THEN [c EXCEPT !.phase = "remove"]
                              ELSE EndOfStage([c EXCEPT !.old = {}])]
    /\ UNCHANGED <<store, roots, gcpid, work, reading>>

\* Variant for the checks: the pack goes before its index.
RemoveIndexLater(m) ==
    /\ In(m, "remove")
    /\ \E p \in maint[m].old :
          maint' = [maint EXCEPT ![m].old = @ \ {p}, ![m].at = p, ![m].phase = "unpack"]
    /\ UNCHANGED <<store, roots, gcpid, work, reading>>

\* repack_remove_old_packs: packs with a .keep file stay, and so do those whose
\* index is gone.
RemoveIndex(m) ==
    /\ In(m, "remove")
    /\ \E p \in maint[m].old :
          IF p \in kept \/ p \notin indexes
            THEN /\ maint' = [maint EXCEPT ![m].old = @ \ {p}]
                 /\ UNCHANGED indexes
            ELSE /\ indexes' = indexes \ {p}
                 /\ maint' = [maint EXCEPT ![m].old = @ \ {p}, ![m].at = p,
                                           ![m].phase = "unpack"]
    /\ UNCHANGED <<loose, packs, tables, dated, kept, roots, gcpid, work, reading>>

RemovePack(m) ==
    /\ In(m, "unpack")
    /\ LET p == maint[m].at
       IN  /\ packs' = packs \ {p}
           /\ dated' = IF p \in tables THEN dated ELSE [dated EXCEPT ![p] = {}]
    /\ Goto(m, "untable")
    /\ UNCHANGED <<loose, indexes, tables, kept, roots, gcpid, work, reading>>

RemoveTable(m) ==
    /\ In(m, "untable")
    /\ LET p == maint[m].at
       IN  /\ tables' = tables \ {p}
           /\ dated' = [dated EXCEPT ![p] = {}]
    /\ maint' = [maint EXCEPT ![m].phase = "remove", ![m].at = {}]
    /\ UNCHANGED <<loose, packs, indexes, kept, roots, gcpid, work, reading>>

RemoveEnd(m) ==
    /\ In(m, "remove")
    /\ maint[m].old = {}
    /\ maint' = [maint EXCEPT ![m] = EndOfStage(@)]
    /\ UNCHANGED <<store, roots, gcpid, work, reading>>

-------------------------------------------------------------------------------
\* prune and prune_packed

\* Variant for the checks: the age of a loose object does not count.
DiscoverAnyAge(m) ==
    /\ In(m, "discover")
    /\ maint' = [maint EXCEPT
          ![m].phase = "delete", ![m].seen = {}, ![m].packed = {}, ![m].reach = {},
          ![m].doomed = Loose \cap (maint[m].packed \cup (maint[m].seen \ maint[m].reach))]
    /\ UNCHANGED <<store, roots, gcpid, work, reading>>

\* prune_discover: a packed copy makes a loose one redundant whatever its age.
Discover(m) ==
    /\ In(m, "discover")
    /\ LET c      == maint[m]
           doomed == {o \in Loose : \/ c.job.copies /\ o \in c.packed
                                    \/ o \in c.seen \ c.reach /\ loose[o] = "old"}
           next   == [c EXCEPT !.phase = "delete", !.doomed = doomed,
                               !.seen = {}, !.packed = {}, !.reach = {}]
       IN  maint' = [maint EXCEPT ![m] = next]
    /\ UNCHANGED <<store, roots, gcpid, work, reading>>

\* Variant for the checks: a pack counts before it has an index.
PackedIdsOfPacks(m) ==
    /\ In(m, "packed")
    /\ maint' = [maint EXCEPT ![m].phase = "scan", ![m].packed = UNION packs]
    /\ UNCHANGED <<store, roots, gcpid, work, reading>>

\* prune_packed_ids
PackedIds(m) ==
    /\ In(m, "packed")
    /\ indexes \subseteq packs
    /\ maint' = [maint EXCEPT ![m].phase = "scan", ![m].packed = Packed]
    /\ UNCHANGED <<store, roots, gcpid, work, reading>>

ScanLoose(m) ==
    /\ In(m, "scan")
    /\ maint' = [maint EXCEPT ![m].phase = "delete", ![m].packed = {},
                              ![m].doomed = maint[m].packed \cap Loose]
    /\ UNCHANGED <<store, roots, gcpid, work, reading>>

DeleteLoose(m) ==
    /\ In(m, "delete")
    /\ \E o \in maint[m].doomed :
          /\ loose[o] # "none"
          /\ Unlink(o)
          /\ maint' = [maint EXCEPT ![m].doomed = @ \ {o}]
    /\ UNCHANGED <<packs, indexes, tables, dated, kept, roots, gcpid, work, reading>>

DeleteEnd(m) ==
    /\ In(m, "delete")
    /\ maint[m].doomed = {}
    /\ maint' = [maint EXCEPT ![m] = EndOfStage(@)]
    /\ UNCHANGED <<store, roots, gcpid, work, reading>>

-------------------------------------------------------------------------------

\* read_object_raw reads the loose file, then the packs in the order of the
\* directory.
StartRead(q) ==
    /\ reading[q] = NoRead
    /\ \E o \in Reach[roots] :
          reading' = [reading EXCEPT ![q] = [phase |-> "loose", obj |-> o, packs |-> {}]]
    /\ UNCHANGED <<store, roots, gcpid, maint, work>>

Answer(q, a) == reading' = [reading EXCEPT ![q].phase = a, ![q].packs = {}]

ReadLoose(q) ==
    /\ reading[q].phase = "loose"
    /\ Answer(q, IF loose[reading[q].obj] # "none" THEN "found" ELSE "list")
    /\ UNCHANGED <<store, roots, gcpid, maint, work>>

ReadDirectory(q) ==
    /\ reading[q].phase = "list"
    /\ reading' = [reading EXCEPT ![q].phase = "packs", ![q].packs = indexes]
    /\ UNCHANGED <<store, roots, gcpid, maint, work>>

\* An index that is gone or a pack that is gone end the search, unless the
\* repository holds it in its cache.
ReadPack(q) ==
    /\ reading[q].phase = "packs"
    /\ LET r == reading[q]
       IN  \/ r.packs = {} /\ Answer(q, "missing")
           \/ \E p \in r.packs :
                 \/ p \notin indexes /\ Answer(q, "missing")
                 \/ r.obj \in p /\ p \notin packs /\ Answer(q, "missing")
                 \/ r.obj \in p /\ Answer(q, "found")
                 \/ r.obj \notin p /\ reading' = [reading EXCEPT ![q].packs = @ \ {p}]
    /\ UNCHANGED <<store, roots, gcpid, maint, work>>

EndRead(q) ==
    /\ reading[q].phase \in {"found", "missing"}
    /\ reading' = [reading EXCEPT ![q] = NoRead]
    /\ UNCHANGED <<store, roots, gcpid, maint, work>>

-------------------------------------------------------------------------------
MaintNext(m) ==
    \/ StartCall(m) \/ EndCall(m) \/ GiveUp(m)
    \/ FsckLoose(m) \/ FsckPacks(m) \/ FsckObjects(m) \/ FsckRoots(m)
    \/ ListPacks(m) \/ Select(m) \/ WritePack(m) \/ WriteIndex(m) \/ VerifyPack(m)
    \/ PruneLoose(m) \/ PruneLooseEnd(m)
    \/ RemoveIndex(m) \/ RemovePack(m) \/ RemoveTable(m) \/ RemoveEnd(m)
    \/ Discover(m) \/ PackedIds(m) \/ ScanLoose(m) \/ DeleteLoose(m) \/ DeleteEnd(m)

WriterNext(w) ==
    \/ StartTask(w) \/ StoreObject(w) \/ ReceivePack(w) \/ ReceiveKeep(w)
    \/ ReceiveIndex(w) \/ SetRoot(w) \/ Abandon(w)

ReaderNext(q) ==
    StartRead(q) \/ ReadLoose(q) \/ ReadDirectory(q) \/ ReadPack(q) \/ EndRead(q)

Next ==
    \/ \E m \in Maint : MaintNext(m)
    \/ \E w \in Writer : WriterNext(w)
    \/ \E q \in Reader : ReaderNext(q)
    \/ DropRoot

Spec == Init /\ [][Next]_vars

-------------------------------------------------------------------------------
\* Everything the references, the logs and the index reach is in the store:
\* fsck's roots protect it from every repack, prune and gc, whatever is written
\* or given up beside them.
RootsAvailable == Reach[roots] \subseteq Available

\* What a call has stored stays available until it has set its reference,
\* although nothing reaches it yet: the expiry of prune and repack spares it.
StoredStays == \A w \in Writer : work[w] # NoTask => work[w].new \ work[w].todo \subseteq Available

\* The index of a pack is there only with its pack: published after it and
\* removed before it (publish_bundle, repack_remove_old_packs), also when a call
\* stops in between.
PairsWhole == indexes \subseteq packs

\* read_object_raw finds an object that stays reachable while repack and prune
\* move it from the loose store to a pack (jobs that remove packs are another
\* matter: a reader that has listed a pack does not look again).
ReadsFind == \A q \in Reader : reading[q].phase # "missing"

\* A step of maintenance makes an object unavailable only if nothing reaches it
\* and every copy is old (cruft_expire_before and expire_before).
OnlyExpiredLost ==
    [][\A o \in Available \ Available' :
          /\ o \notin Reach[roots]
          /\ loose[o] # "fresh"
          /\ \A p \in indexes \cap packs : o \in p => o \in dated[p]]_vars
===============================================================================
