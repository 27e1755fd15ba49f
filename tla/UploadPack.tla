----------------------------- MODULE UploadPack -----------------------------
(***************************************************************************)
(* The sending side of a fetch: which objects upload-pack puts in a pack    *)
(* for a request, and the shallow boundaries it tells the client.           *)
(*                                                                         *)
(* A repository is a record: objects, what its store holds; refs, a         *)
(* function from names to ids; shallow, the commits in its file "shallow". *)
(* A traversal that meets an object the store does not hold fails.         *)
(***************************************************************************)
EXTENDS Naturals, Sequences, FiniteSets, SequencesExt

CONSTANTS Content,   \* what each object id stands for: [kind, entries, tree, parents, target]
          None

\* Ids are hashes, so links have no cycles; numbers make that plain.
Object == DOMAIN Content

\* f, and g where f says nothing.
Override(f, g) == [k \in DOMAIN f \cup DOMAIN g |-> IF k \in DOMAIN f THEN f[k] ELSE g[k]]

Of(kind, os) == {o \in os : Content[o].kind = kind}
Commits      == Of("commit", Object)
Trees        == Of("tree", Object)
Parents(c)   == ToSet(Content[c].parents)
Targets(o) ==
    CASE Content[o].kind = "commit" -> Parents(o) \cup {Content[o].tree}
      [] Content[o].kind = "tree"   -> {Content[o].entries[n] : n \in DOMAIN Content[o].entries}
      [] Content[o].kind = "tag"    -> {Content[o].target}
      [] Content[o].kind = "blob"   -> {}
Links        == [o \in Object |-> Targets(o)]

\* Every reader insists on the kinds: a commit has a tree and commits for parents, a tree
\* holds trees and blobs.
ASSUME UploadPackAssumption ==
    /\ Len(Content) \in Nat /\ Object = 1 .. Len(Content)
    /\ \A o \in Object : Targets(o) \subseteq 1 .. o - 1
    /\ \A o \in Object :
          CASE Content[o].kind = "commit" -> /\ Parents(o) \subseteq Commits
                                             /\ Content[o].tree \in Trees
            [] Content[o].kind = "tree"   -> Targets(o) \subseteq Trees \cup Of("blob", Object)
            [] OTHER                      -> Content[o].kind \in {"tag", "blob"}
    /\ None \notin Object
-----------------------------------------------------------------------------
(* What lies behind an object. *)

\* Where walks lead that begin in os; next gives where each place leads to.
Walk(next) ==
    LET walk[v \in DOMAIN next] == {v} \cup UNION {walk[u] : u \in next[v]} IN walk
Reach(os, next) == UNION {Walk(next)[v] : v \in os}

\* Everything os lead to where walks go past no commit in stop.
Below(os, stop) ==
    Reach(os, [o \in Object |-> IF o \in stop THEN Links[o] \ Commits ELSE Links[o]])

\* The tags of tags of ... that os are, and the objects which these name in the end.
Named(os)  == Reach(os, [o \in Object |-> IF Content[o].kind = "tag" THEN Links[o] ELSE {}])
TagsOf(os) == Of("tag", Named(os))
Peeled(os) == Named(os) \ TagsOf(os)

\* Commits that come after first, each with how many generations may follow it; the walk
\* goes on from those in open.
Counted(first, n, open) ==
    Reach(first \X {n}, [v \in Commits \X (0 .. n) |->
        IF v[1] \in open /\ v[2] > 0 THEN Parents(v[1]) \X {v[2] - 1} ELSE {}])

\* advertised_tip_ids
Tips(s) == {s.refs[r] : r \in DOMAIN s.refs}
-----------------------------------------------------------------------------
(* Negotiation. *)

\* Mutant: the boundaries do not stop the walk.
PastTheBoundary(s, haves, stop) ==
    LET known == haves \cap s.objects
    IN  [commits |-> Reach(known, [o \in Object |-> IF o \in Commits THEN Parents(o) \cap s.objects
                                                   ELSE {}]),
         trees   |-> {Content[c].tree : c \in known \cap Commits}]

\* The ids that the client is taken to hold: what its haves lead to, commit by commit,
\* down to its shallow boundary or that of the server.  Ids that are not known here are
\* passed over.
ReachableCommits(s, haves, stop) ==
    LET known == haves \cap s.objects
        next  == [o \in Object |-> IF o \in Commits \ stop THEN Parents(o) \cap s.objects ELSE {}]
    IN  [commits |-> Reach(known, next),
         trees   |-> {Content[c].tree : c \in known \cap Commits}]
-----------------------------------------------------------------------------
(* A pack without depth. *)

\* The trees and blobs that wanted trees need beside the ones had, compared name by name;
\* a blob had under any name of a directory is not sent for another name of it.
EntriesAt(ts, n) == {Content[t].entries[n] : t \in {u \in ts : n \in DOMAIN Content[u].entries}}
NamesIn(ts)      == UNION {DOMAIN Content[t].entries : t \in ts}
EntriesOf(ts)    == UNION {Targets(t) : t \in ts}
SubtreesAt(ts, n) == Of("tree", EntriesAt(ts, n))

\* What is compared, wanted trees with trees had: the roots, then the subtrees.
Beside(p) ==
    {<<SubtreesAt(p[1] \ p[2], n), SubtreesAt(p[2], n)>> :
        n \in {m \in NamesIn(p[1] \ p[2]) : SubtreesAt(p[1] \ p[2], m) # {}}}
Compared(wanted, had) ==
    LET walk[p \in (SUBSET Trees) \X (SUBSET Trees)] == {p} \cup UNION {walk[q] : q \in Beside(p)}
    IN  walk[<<wanted, had>>]

CollectChangedTrees(wanted, had) ==
    UNION {(p[1] \ p[2]) \cup (Of("blob", EntriesOf(p[1] \ p[2])) \ EntriesOf(p[2]))
           : p \in Compared(wanted, had)}

\* Commits and tags from the wants down to what the client holds, and the trees that
\* differ from those of the commits where the walk stopped.
SelectUploadObjects(s, wants, common) ==
    LET seen  == Reach(wants, [o \in Object |->       \* past the boundary of s, too
                    IF o \in common.commits THEN {}
                    ELSE IF o \in Commits THEN Parents(o)
                    ELSE IF Content[o].kind = "tag" THEN {Content[o].target} ELSE {}])
        sent  == seen \ common.commits
        trees == Of("tree", sent) \cup {Content[c].tree : c \in sent \cap Commits}
        had   == common.trees \cup {Content[c].tree : c \in seen \cap common.commits \cap Commits}
    IN  [fails   |-> ~(seen \subseteq s.objects),
         objects |-> (sent \ Of("tree", sent)) \cup CollectChangedTrees(trees, had)]
-----------------------------------------------------------------------------
(* A pack of limited depth. *)

\* Mutant: one generation more.
OneGenerationMore(s, first, depth) ==
    LET walk    == Counted(first, depth, s.objects \ s.shallow)
        commits == {v[1] : v \in walk}
        last    == commits \ {v[1] : v \in {w \in walk : w[2] > 0}}
    IN  [commits    |-> commits,
         boundaries |-> (commits \cap s.shallow) \cup {c \in last : Parents(c) # {}}]

\* Breadth first, so a commit counts as near as it can be; the boundary of the repository
\* is not passed.
Generations(s, first, depth) ==
    LET walk    == Counted(first, depth - 1, s.objects \ s.shallow)
        commits == {v[1] : v \in walk}
        last    == commits \ {v[1] : v \in {w \in walk : w[2] > 0}}
    IN  [commits    |-> commits,
         boundaries |-> (commits \cap s.shallow) \cup {c \in last : Parents(c) # {}}]

\* collect_non_commit_closure for the trees of commits: objects that have been taken
\* before are not expanded again.
TreesOf(commits, taken) ==
    Reach({Content[c].tree : c \in commits},
          [o \in Object |-> IF o \in taken THEN {} ELSE Links[o]])

\* reachable_objects_at_depth.  A tree that a want names itself is taken before its
\* closure is collected, which is then empty.
ObjectsAtDepth(s, wants, depth) ==
    LET roots == Peeled(wants)
        bare  == roots \ Commits
        g     == Generations(s, roots \cap Commits, depth)
    IN  [fails      |-> ~((g.commits \cup roots) \subseteq s.objects),
         objects    |-> TagsOf(wants) \cup bare
                        \cup g.commits \cup TreesOf(g.commits, bare),
         boundaries |-> g.boundaries]

\* reachable_objects_deepen_relative: n generations more below each boundary of the
\* client that the wants reach.
DeepenRelative(s, wants, clientShallow, n) ==
    LET near    == Below(wants, clientShallow)
        reached == clientShallow \cap near
        opened  == reached \ s.shallow
        g       == Generations(s, UNION {Parents(c) : c \in opened}, n)
    IN  [fails      |-> ~((near \cup g.commits) \subseteq s.objects),
         objects    |-> near \cup g.commits \cup TreesOf(g.commits, {}),
         boundaries |-> (reached \cap s.shallow) \cup g.boundaries,
         unshallow  |-> opened]

\* include_reachable_tags
ReachableTags(s, objects) ==
    TagsOf({s.refs[r] : r \in {t \in DOMAIN s.refs :
                                  t[1] = "tags" /\ Peeled({s.refs[t]}) \subseteq objects}})
-----------------------------------------------------------------------------
(* A request is answered: [version, wants, haves, shallow, depth, relative, tags]. *)

Refused == [ok |-> FALSE]

\* respond_upload_pack wants advertised tips, respond_fetch_v2 objects that exist.
Admits(s, q) == IF q.version = 0 THEN q.wants \subseteq Tips(s) ELSE q.wants \subseteq s.objects

\* What the depth of the request selects.
Selected(s, q, common) ==
    CASE q.depth = None -> Override(SelectUploadObjects(s, q.wants, common),
                                      [boundaries |-> {}, unshallow |-> {}])
      [] q.depth # None /\ q.relative -> DeepenRelative(s, q.wants, q.shallow, q.depth)
      [] OTHER -> LET level == ObjectsAtDepth(s, q.wants, q.depth)
                  IN  Override(level,
                          [unshallow |-> (q.shallow \ level.boundaries) \cap level.objects])

Respond(s, q) ==
    LET common == ReachableCommits(s, q.haves, q.shallow \cup s.shallow)
        r      == Selected(s, q, common)
        tags   == IF q.tags THEN ReachableTags(s, r.objects) ELSE {}
    IN  IF ~Admits(s, q) \/ r.fails THEN Refused
        ELSE [ok |-> TRUE, pack |-> (r.objects \cup tags) \ common.commits,
              shallow |-> r.boundaries, unshallow |-> r.unshallow]
=============================================================================
