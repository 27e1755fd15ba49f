-------------------------------- MODULE Linked --------------------------------
(***************************************************************************)
(* Linked worktrees (linked_worktree.rs) and the branches they have checked *)
(* out (branch.rs): directories, each with a file .git that names a          *)
(* registration, and registrations, each with a file gitdir that names a    *)
(* directory.  A call changes one file after the other and may break off    *)
(* after any of them.                                                      *)
(*                                                                         *)
(* A directory is a sequence of numbers.  A .git file leads up from where   *)
(* it lies, so it names a registration only at the depth it was written     *)
(* for; gitdir leads up from the registration, which stays where it is.     *)
(* Symbolic branches, submodules and the main working tree are left out;     *)
(* gitdir and HEAD are well formed where they exist.                        *)
(***************************************************************************)
EXTENDS Integers, SequencesExt, FiniteSets

CONSTANTS Name,        \* of registrations, numbers, ordered as the names are
          Place,       \* directories a worktree may have
          Branch,      \* numbers, ordered as the names are
          Change       \* commits, numbers: each is an ancestor of the larger ones

ASSUME LinkedAssumption ==
    /\ Name \subseteq Nat \ {0} /\ IsFiniteSet(Name)
    /\ Branch \subseteq Nat /\ Change \subseteq Nat \ {0}
    /\ Place \subseteq Seq(Nat) \ {<<>>}
    /\ \A p \in Place : Len(p) > 1 => Front(p) \in Place

VARIABLES repo,        \* the repository and the directories, as one record
          did          \* the call that has just ended or broken off

linkedVars == <<repo, did>>

-------------------------------------------------------------------------------
(* repo.head, and head of a registration; repo.tip, log, config of a branch. *)

NoHead     == <<"none", 0>>
On(b)      == <<"branch", b>>
Detached(c) == <<"commit", c>>

NoTip == 0
NoLog == {}
NoConfig == 0

\* A registration, as far as it has been written: gitdir, commondir, HEAD, the age of
\* its index, the file locked, and gitdir.lock.
NoAdmin    == [there |-> FALSE]
EmptyAdmin == [there |-> TRUE, gitdir |-> <<>>, common |-> FALSE, head |-> NoHead,
               index |-> "none", locked |-> FALSE, lock |-> FALSE]

\* A directory: its .git file, whether what else is in it is as in the index, and
\* .git.lock.
NoGit    == [name |-> 0, depth |-> 0]
EmptyDir == [git |-> NoGit, work |-> "empty", lock |-> FALSE]

GitFile(n, p) == [name |-> n, depth |-> Len(p)]

There(d, n)  == d.admin[n].there
Exists(d, p) == p \in DOMAIN d.tree
Inside(p, q) == IsPrefix(p, q)
Names(d)     == {n \in Name : There(d, n)}

\* The .git file of p leads to the registration n.
Leads(d, p, n) == Exists(d, p) /\ d.tree[p].git = GitFile(n, p)

-------------------------------------------------------------------------------
(* A call leads the repository through a sequence of states; done tells       *)
(* whether it returns without an error.                                       *)

Through(ways) == [ways |-> ways, done |-> TRUE]
Failed(ways)  == [ways |-> ways, done |-> FALSE]
Unchanged(d)  == Through(<<d>>)
Rejected(d)   == Failed(<<d>>)

\* The directory p has new contents.
Having(t, p, dir) == [q \in DOMAIN t |-> IF q = p THEN dir ELSE t[q]]

WithGit(t, p, g)  == Having(t, p, [t[p] EXCEPT !.git = g])
WithWork(t, p, w) == Having(t, p, [t[p] EXCEPT !.work = w])
WithLock(t, p, l) == Having(t, p, [t[p] EXCEPT !.lock = l])

\* remove_tree: .git is the first of the files in a directory, HEAD of those in a
\* registration.
Removed(t, p) == [q \in {q \in DOMAIN t : ~Inside(p, q)} |-> t[q]]

RemoveDir(ways, p) ==
    LET d == Last(ways)
    IN  ways \o <<[d EXCEPT !.tree = WithGit(@, p, NoGit)], [d EXCEPT !.tree = Removed(@, p)]>>

\* How a registration goes: HEAD, commondir, gitdir with its lock, the index, the rest.
Removing(a) ==
    LET a1 == [a EXCEPT !.head = NoHead]
        a2 == [a1 EXCEPT !.common = FALSE]
        a3 == [a2 EXCEPT !.gitdir = <<>>, !.lock = FALSE]
        a4 == [a3 EXCEPT !.index = "none"]
    IN  <<a1, a2, a3, a4, NoAdmin>>

\* The registrations of ns go one after the other, by name.
Smaller(n, ns) == Cardinality({m \in ns : m < n})

RemoveAdmins(ways, ns) ==
    LET d == Last(ways)
        After(i, n) == LET k == i - 5 * Smaller(n, ns)
                       IN  IF n \notin ns \/ k < 1 THEN d.admin[n]
                           ELSE IF k > 5 THEN NoAdmin ELSE Removing(d.admin[n])[k]
    IN  ways \o [i \in 1 .. 5 * Cardinality(ns) |->
                    [d EXCEPT !.admin = [n \in Name |-> After(i, n)]]]

RemoveAdmin(ways, n) == RemoveAdmins(ways, {n})

-------------------------------------------------------------------------------
\* linked_worktrees, which fails at a registration without gitdir or HEAD.
Listable(d) == \A n \in Names(d) : d.admin[n].gitdir # <<>> /\ d.admin[n].head # NoHead

\* Variant for the checks: the main working tree is not asked.
LinkedOnly(d, b) == Listable(d) /\ \A n \in Names(d) : d.admin[n].head # On(b)

\* ensure_branch_available
Available(d, b) ==
    /\ d.head # On(b)
    /\ Listable(d)
    /\ \A n \in Names(d) : d.admin[n].head # On(b)

-------------------------------------------------------------------------------
\* add_worktree.  Only that the directory is not there is asked, not whether another
\* registration names it.
MayAdd(d, p, n, h) ==
    /\ ~Exists(d, p) /\ ~There(d, n)
    /\ h[1] = "branch" => Available(d, h[2]) /\ d.tip[h[2]] # NoTip

WithDir(t, p) ==
    [q \in DOMAIN t \cup {SubSeq(p, 1, i) : i \in 1..Len(p)} |->
        IF q \in DOMAIN t THEN t[q] ELSE EmptyDir]

AddWorktree(d, p, n, h, checkout) ==
    LET r  == [d EXCEPT !.relative = TRUE]
        d1 == [r EXCEPT !.admin[n] = EmptyAdmin]
        d2 == [d1 EXCEPT !.tree = WithDir(@, p)]
        d3 == [d2 EXCEPT !.tree = WithGit(@, p, GitFile(n, p))]
        d4 == [d3 EXCEPT !.admin[n].gitdir = p]
        d5 == [d4 EXCEPT !.admin[n].common = TRUE]
        d6 == [d5 EXCEPT !.admin[n].head = h]
        d7 == [d6 EXCEPT !.tree = WithWork(@, p, "dirty")]
        d8 == [d7 EXCEPT !.tree = WithWork(@, p, "clean"), !.admin[n].index = "fresh"]
    IN  IF ~MayAdd(d, p, n, h) THEN Rejected(d)
        ELSE Through(<<r, d1, d2, d3, d4, d5, d6>> \o IF checkout THEN <<d7, d8>> ELSE <<>>)

\* lock_worktree, unlock_worktree
LockWorktree(d, n) ==
    IF ~There(d, n) \/ d.admin[n].locked THEN Rejected(d)
    ELSE Through(<<[d EXCEPT !.admin[n].locked = TRUE]>>)

UnlockWorktree(d, n) ==
    IF ~There(d, n) \/ ~d.admin[n].locked THEN Rejected(d)
    ELSE Through(<<[d EXCEPT !.admin[n].locked = FALSE]>>)

-------------------------------------------------------------------------------
\* What the repository in p, opened through its .git file, says: whether there is
\* anything that HEAD and index do not have.  Directories below p count by their files.
HeadKnown(d, h) == h[1] = "commit" \/ (h[1] = "branch" /\ d.tip[h[2]] # NoTip)

CleanAt(d, p) ==
    \E n \in Names(d) :
        /\ Leads(d, p, n)
        /\ HeadKnown(d, d.admin[n].head) /\ d.admin[n].common /\ d.admin[n].index # "none"
        /\ d.tree[p].work = "clean" /\ ~d.tree[p].lock
        /\ \A q \in DOMAIN d.tree : Inside(p, q) /\ q # p => d.tree[q] = EmptyDir

\* Variant for the checks: what is forced also removes what is locked.
EitherForce(d, n, force, override) ==
    /\ There(d, n) /\ d.admin[n].gitdir # <<>>
    /\ d.admin[n].locked => override \/ force
    /\ Exists(d, d.admin[n].gitdir) => force \/ CleanAt(d, d.admin[n].gitdir)

\* remove_worktree_with_options.  The directory is taken from gitdir; whose its .git
\* file is, is not asked.
MayRemove(d, n, force, override) ==
    /\ There(d, n) /\ d.admin[n].gitdir # <<>>
    /\ d.admin[n].locked => override
    /\ Exists(d, d.admin[n].gitdir) => force \/ CleanAt(d, d.admin[n].gitdir)

RemoveWorktree(d, n, force, override) ==
    IF ~MayRemove(d, n, force, override) THEN Rejected(d)
    ELSE LET p == d.admin[n].gitdir
         IN  Through(RemoveAdmin(IF Exists(d, p) THEN RemoveDir(<<d>>, p) ELSE <<d>>, n))

-------------------------------------------------------------------------------
\* publish_linking_files, under the lock files of both; the lock of the .git file
\* moves with the directory.
Publish(ways, n, p) ==
    LET d  == Last(ways)
        d1 == [d EXCEPT !.admin[n].lock = TRUE]
        d2 == [d1 EXCEPT !.tree = WithLock(@, p, TRUE)]
        d3 == [d2 EXCEPT !.admin[n].gitdir = p, !.admin[n].lock = FALSE]
        d4 == [d3 EXCEPT !.tree = WithLock(WithGit(@, p, GitFile(n, p)), p, FALSE)]
    IN  IF d.admin[n].lock THEN Failed(ways)
        ELSE IF d.tree[p].lock THEN Failed(ways \o <<d1, d>>)
        ELSE Through(ways \o <<d1, d2, d3, d4>>)

\* Variant for the checks: one of the two links is enough.
EitherLink(d, n, p) == Leads(d, p, n) \/ d.admin[n].gitdir = p

Linking(d, n, p) == Leads(d, p, n) /\ d.admin[n].gitdir = p

\* repair_worktree, from the last of the ways on
RepairFrom(ways, n, p) ==
    LET d == Last(ways)
    IN  IF ~There(d, n) \/ ~Exists(d, p) THEN Failed(ways)
        ELSE IF Linking(d, n, p) THEN Through(ways)
        ELSE Publish(Append(ways, [d EXCEPT !.relative = TRUE]), n, p)

RepairWorktree(d, n, p) == RepairFrom(<<d>>, n, p)

-------------------------------------------------------------------------------
\* remove_registered_move_destination: the other registrations of the destination go
\* one after the other, until one may not.
InTheWay(d, n, q) == {m \in Names(d) \ {n} : d.admin[m].gitdir = q}
MayVacate(d, m, forceRegistered, override) ==
    forceRegistered /\ (d.admin[m].locked => override)

Vacated(d, n, q, forceRegistered, override) ==
    LET others == InTheWay(d, n, q)
        kept   == {m \in others : ~MayVacate(d, m, forceRegistered, override)}
    IN  [ways |-> RemoveAdmins(<<d>>, {m \in others : \A k \in kept : m < k}), done |-> kept = {}]

Renamed(t, p, q) ==
    LET there == {q \o SubSeq(x, Len(p) + 1, Len(x)) : x \in {x \in DOMAIN t : Inside(p, x)}}
    IN  [x \in there \cup DOMAIN Removed(t, p) |->
            IF x \in there THEN t[p \o SubSeq(x, Len(q) + 1, Len(x))] ELSE t[x]]

\* The directory is renamed and the links repaired, or else renamed back.
Arrive(ways, n, p, q) ==
    LET d == Last(ways)
        Settled(r) == IF r.done THEN r
                      ELSE Failed(Append(r.ways,
                                         [Last(r.ways) EXCEPT !.tree = Renamed(Last(r.ways).tree, q, p)]))
    IN  IF Len(q) > 1 /\ ~Exists(d, Front(q)) THEN Failed(ways)
        ELSE Settled(RepairFrom(Append(ways, [d EXCEPT !.tree = Renamed(d.tree, p, q)]), n, q))

\* move_worktree.  A destination that is a directory is where the worktree goes into.
Destination(d, p, q) == IF Exists(d, q) THEN Append(q, Last(p)) ELSE q

MayMove(d, n, q, override) ==
    /\ There(d, n) /\ d.admin[n].gitdir # <<>>
    /\ d.admin[n].locked => override
    /\ Leads(d, d.admin[n].gitdir, n)
    /\ LET to == Destination(d, d.admin[n].gitdir, q)
       IN  ~Inside(d.admin[n].gitdir, to) /\ ~Exists(d, to)

MoveWorktree(d, n, q, forceRegistered, override) ==
    LET To(p, to) ==
            LET r == Vacated(d, n, to, forceRegistered, override)
            IN  IF r.done THEN Arrive(r.ways, n, p, to) ELSE r
    IN  IF ~MayMove(d, n, q, override) THEN Rejected(d)
        ELSE To(d.admin[n].gitdir, Destination(d, d.admin[n].gitdir, q))

-------------------------------------------------------------------------------
\* prune_worktrees: what has no gitdir, what names a place without a .git file once
\* its index is old enough, and of those that name one place all but the first.
Alive(d, n) == /\ There(d, n) /\ ~d.admin[n].locked /\ d.admin[n].gitdir # <<>>
               /\ Exists(d, d.admin[n].gitdir) /\ d.tree[d.admin[n].gitdir].git # NoGit

\* Variant for the checks: the file locked does not protect.
StaleAnyway(d, n, all) ==
    /\ There(d, n) /\ ~Alive(d, n)
    /\ d.admin[n].gitdir = <<>> \/ all \/ d.admin[n].index # "fresh"

\* Variant for the checks: what has no gitdir is left.
StaleLinked(d, n, all) ==
    /\ There(d, n) /\ ~d.admin[n].locked /\ ~Alive(d, n) /\ d.admin[n].gitdir # <<>>
    /\ all \/ d.admin[n].index # "fresh"

Stale(d, n, all) ==
    /\ There(d, n) /\ ~d.admin[n].locked /\ ~Alive(d, n)
    /\ d.admin[n].gitdir = <<>> \/ all \/ d.admin[n].index # "fresh"

Duplicate(d, n) ==
    Alive(d, n) /\ \E m \in Names(d) : Alive(d, m) /\ m < n /\ d.admin[m].gitdir = d.admin[n].gitdir

PruneWorktrees(d, all) ==
    LET gone == {n \in Name : Stale(d, n, all) \/ Duplicate(d, n)}
    IN  Through(RemoveAdmins(<<d>>, gone))

-------------------------------------------------------------------------------
\* delete_branch: the reference, its log, its section of the configuration.
MayDelete(d, b, force) ==
    /\ Available(d, b) /\ d.tip[b] # NoTip
    /\ force \/ (d.head[1] = "commit" /\ d.tip[b] <= d.head[2])
             \/ (HeadKnown(d, d.head) /\ d.head[1] = "branch" /\ d.tip[b] <= d.tip[d.head[2]])

DeleteBranch(d, b, force) ==
    LET d1 == [d EXCEPT !.tip[b] = NoTip]
        d2 == [d1 EXCEPT !.log[b] = NoLog]
    IN  IF ~MayDelete(d, b, force) THEN Rejected(d)
        ELSE Through(<<d1, d2, [d2 EXCEPT !.config[b] = NoConfig]>>)

\* The transaction of a rename publishes in the order of the names.
Swapped(d, old, new) ==
    LET Gone(e)  == [e EXCEPT !.tip[old] = NoTip]
        NoLogOf(e) == [e EXCEPT !.log[old] = NoLog]
        There2(e) == [e EXCEPT !.tip[new] = d.tip[old]]
    IN  IF new < old THEN <<There2(d), Gone(There2(d)), NoLogOf(Gone(There2(d)))>>
        ELSE <<Gone(d), NoLogOf(Gone(d)), There2(NoLogOf(Gone(d)))>>

\* branch_head_locations, 0 for the main working tree; it fails at a registration
\* without HEAD.
HeadsOn(d, b) == {n \in Names(d) : d.admin[n].head = On(b)} \cup IF d.head = On(b) THEN {0} ELSE {}

\* Variant for the checks: the first HEAD that is found.
FirstHead(ways, heads, new) ==
    IF heads = {} THEN ways
    ELSE LET d == Last(ways)
         IN  Append(ways, IF 0 \in heads THEN [d EXCEPT !.head = On(new)]
                          ELSE [d EXCEPT !.admin[Min(heads)].head = On(new)])

\* One HEAD after the other names the new branch.
Retargeted(d, heads, new) ==
    [d EXCEPT !.head = IF 0 \in heads THEN On(new) ELSE d.head,
              !.admin = [n \in Name |-> IF n \in heads THEN [d.admin[n] EXCEPT !.head = On(new)]
                                        ELSE d.admin[n]]]

Retarget(ways, heads, new) ==
    ways \o [i \in 1 .. Cardinality(heads) |->
                Retargeted(Last(ways), {n \in heads : Smaller(n, heads) < i}, new)]

\* The section of the old name must find no section of the new one.
Configured(ways, old, new, force) ==
    LET d == Last(ways)
    IN  IF d.config[new] # NoConfig /\ ~force THEN Failed(ways)
        ELSE Through(Append(ways, [d EXCEPT !.config[new] = d.config[old], !.config[old] = NoConfig]))

MayRename(d, old, new, force) ==
    /\ d.tip[old] # NoTip
    /\ d.tip[new] # NoTip => force /\ Available(d, new)
    /\ \A n \in Names(d) : d.admin[n].head # NoHead

RenameBranch(d, old, new, force) ==
    LET Logged(ways) == Append(ways, [Last(ways) EXCEPT !.log[new] = d.log[old]])
    IN  IF old = new THEN IF d.tip[old] # NoTip THEN Unchanged(d) ELSE Rejected(d)
        ELSE IF ~MayRename(d, old, new, force) THEN Rejected(d)
        ELSE Configured(Retarget(Logged(Swapped(d, old, new)), HeadsOn(d, old), new),
                        old, new, force)

\* switch_branch and switch_detached, in the main working tree (<<>>) or in a linked
\* one, as far as they concern the others: which branches those have is not asked.
\* What was changed in the directory stays as it is.
SwitchTo(d, p, h) ==
    LET n == d.tree[p].git.name
        checked == WithWork(d.tree, p, IF d.tree[p].work = "empty" THEN "clean" ELSE d.tree[p].work)
    IN  IF ~HeadKnown(d, h) THEN Rejected(d)
        ELSE IF p = <<>> THEN Through(<<[d EXCEPT !.head = h]>>)
        ELSE IF \E m \in Names(d) : Leads(d, p, m) /\ d.admin[m].head # NoHead /\ d.admin[m].common
        THEN Through(<<[d EXCEPT !.tree = checked, !.admin[n].index = "fresh"],
                       [d EXCEPT !.tree = checked, !.admin[n].index = "fresh",
                                 !.admin[n].head = h]>>)
        ELSE Rejected(d)

-------------------------------------------------------------------------------
(* The actions.  A call may break off after any of its changes; about is the  *)
(* registration or the branch, to the new name of a branch.                   *)

NoCall == [op |-> "none", about |-> 0, to |-> 0, force |-> FALSE, broken |-> FALSE, done |-> FALSE]

Ends(op, about, to, force, r) ==
    \E k \in DOMAIN r.ways :
        /\ repo' = r.ways[k]
        /\ did' = [op |-> op, about |-> about, to |-> to, force |-> force,
                   broken |-> k < Len(r.ways), done |-> k = Len(r.ways) /\ r.done]

AddCall(p, n, h, checkout) == Ends("add", n, 0, FALSE, AddWorktree(repo, p, n, h, checkout))

LockCall(n)   == Ends("lock", n, 0, FALSE, LockWorktree(repo, n))
UnlockCall(n) == Ends("unlock", n, 0, FALSE, UnlockWorktree(repo, n))

RemoveCall(n, force, override) ==
    Ends(IF override THEN "evict" ELSE "remove", n, 0, force, RemoveWorktree(repo, n, force, override))

RepairCall(n, p) == Ends("repair", n, 0, FALSE, RepairWorktree(repo, n, p))

MoveCall(n, q, forceRegistered, override) ==
    Ends("move", n, 0, override, MoveWorktree(repo, n, q, forceRegistered, override))

PruneCall(all) == Ends("prune", 0, 0, all, PruneWorktrees(repo, all))

DeleteCall(b, force) == Ends("delete", b, 0, force, DeleteBranch(repo, b, force))

RenameCall(old, new, force) == Ends("rename", old, new, force, RenameBranch(repo, old, new, force))

SwitchCall(p, h) == Ends("switch", 0, 0, FALSE, SwitchTo(repo, p, h))

\* What others do to the directories and to what calls have left behind: work in one,
\* make, move or delete one, remove the lock files, let time pass.
Else(d) == repo' = d /\ did' = NoCall

WorkIn(p) ==
    /\ \E n \in Names(repo) : Leads(repo, p, n) /\ repo.admin[n].head # NoHead
    /\ Else([repo EXCEPT !.tree = WithWork(@, p, "dirty")])

Elsewhere ==
    \/ \E p \in Place : ~Exists(repo, p) /\ Else([repo EXCEPT !.tree = WithDir(@, p)])
    \/ \E p \in DOMAIN repo.tree : Else([repo EXCEPT !.tree = Removed(@, p)])
    \/ \E p \in DOMAIN repo.tree, q \in Place :
          /\ ~Exists(repo, q) /\ ~Inside(p, q) /\ (Len(q) > 1 => Exists(repo, Front(q)))
          /\ Else([repo EXCEPT !.tree = Renamed(repo.tree, p, q)])

NoLocks(d) ==
    [d EXCEPT !.admin = [n \in Name |-> IF There(d, n) THEN [d.admin[n] EXCEPT !.lock = FALSE]
                                        ELSE NoAdmin],
              !.tree = [p \in DOMAIN d.tree |-> [d.tree[p] EXCEPT !.lock = FALSE]]]

Unlocking == Else(NoLocks(repo))

Ageing == \E n \in Names(repo) : repo.admin[n].index = "fresh"
                                 /\ Else([repo EXCEPT !.admin[n].index = "old"])

\* The HEADs there are, and a repository without linked worktrees.
HeadValues == {On(b) : b \in Branch} \cup {Detached(c) : c \in Change}

LinkedInit ==
    /\ repo \in [head: HeadValues, tip: [Branch -> Change \cup {NoTip}],
                 log: [Branch -> SUBSET Branch], config: [Branch -> Branch \cup {NoConfig}],
                 relative: BOOLEAN, admin: [Name -> {NoAdmin}], tree: {<<>>}]
    /\ did = NoCall

LinkedNext ==
    \/ \E n \in Name :
          \/ LockCall(n) \/ UnlockCall(n)
          \/ \E force, override \in BOOLEAN : RemoveCall(n, force, override)
          \/ \E p \in Place :
                \/ RepairCall(n, p)
                \/ \E h \in HeadValues, checkout \in BOOLEAN : AddCall(p, n, h, checkout)
                \/ \E force, override \in BOOLEAN : MoveCall(n, p, force, override)
    \/ \E all \in BOOLEAN : PruneCall(all)
    \/ \E b \in Branch, force \in BOOLEAN :
          DeleteCall(b, force) \/ \E c \in Branch : RenameCall(b, c, force)
    \/ \E p \in DOMAIN repo.tree \cup {<<>>}, h \in HeadValues : SwitchCall(p, h)
    \/ \E p \in DOMAIN repo.tree : WorkIn(p)
    \/ Elsewhere \/ Unlocking \/ Ageing

LinkedSpec == LinkedInit /\ [][LinkedNext]_linkedVars

-------------------------------------------------------------------------------
Dirty(d) == {p \in DOMAIN d.tree : d.tree[p].work = "dirty"}

\* Two registrations name one directory, a registration names a directory that names
\* another one, or two directories lead to one registration.
Contested(d) ==
    \/ \E n, m \in Names(d) : n # m /\ d.admin[n].gitdir = d.admin[m].gitdir /\ d.admin[n].gitdir # <<>>
    \/ \E n \in Names(d) : LET p == d.admin[n].gitdir
                           IN  Exists(d, p) /\ d.tree[p].git.name \notin {0, n}
    \/ \E n \in Names(d), p, q \in DOMAIN d.tree : p # q /\ Leads(d, p, n) /\ Leads(d, q, n)

\* A repository can be opened through the registration n; it is listed as well.
Opens(d, n) == There(d, n) /\ d.admin[n].head # NoHead /\ d.admin[n].common
Whole(d, n) == Opens(d, n) /\ d.admin[n].gitdir # <<>>

\* A directory lies in that of a registration that cannot be opened.
Enclosing(d) == \E n \in Names(d), p \in DOMAIN d.tree :
    ~Opens(d, n) /\ d.admin[n].gitdir # p /\ Inside(d.admin[n].gitdir, p) /\ d.admin[n].gitdir # <<>>

\* A registration and the directory it names lead to each other.
Agree(d, n) == There(d, n) /\ Leads(d, d.admin[n].gitdir, n)
Live(d, n)  == Whole(d, n) /\ Agree(d, n)

WorkKept ==
    LET here == repo.admin[did'.about].gitdir
        going == did'.op \in {"remove", "evict"}
    IN  /\ IF did'.op = "move" THEN Cardinality(Dirty(repo')) = Cardinality(Dirty(repo))
           ELSE \A p \in Dirty(repo) \ Dirty(repo') : going /\ did'.force /\ Inside(here, p)
        /\ \A n \in Name : Live(repo, n) /\ ~Contested(repo) /\ ~Whole(repo', n) =>
               going /\ did'.about = n
        /\ \A n \in Names(repo) : repo.admin[n].locked /\ ~There(repo', n) =>
               \/ did'.op = "evict" /\ did'.about = n
               \/ did'.op = "move" /\ did'.force

LinksAgree ==
    LET n == did'.about
    IN  /\ did'.op \in {"add", "move", "repair"} /\ did'.done => Agree(repo', n)
        /\ did'.op = "move" /\ did'.done =>
              repo'.tree[repo'.admin[n].gitdir].work = repo.tree[repo.admin[n].gitdir].work
        /\ did'.op = "move" /\ ~did'.done /\ ~did'.broken =>
              repo'.tree = repo.tree /\ repo'.admin[n] = repo.admin[n]

\* What was changed in a worktree goes only with a forced removal of it or of what it
\* lies in; a registration that its directory leads to goes only with a call about it; a
\* locked one only with authority over locks (linked_worktree.rs:250 "automatic pruning
\* and ordinary removal retain its registration").  A worktree that was added, moved or
\* repaired and its registration lead to each other, and what was in a moved one has
\* moved; a move that returns an error leaves both as they were.
TreesKept == [][did'.op # "none" => WorkKept /\ LinksAgree]_linkedVars

\* What an administrator does after a call broke off: remove the lock files, repair the
\* worktrees that can be opened, unlock, prune, and remove what cannot be opened.
Repaired(d) ==
    LET Step(e, p) == IF \E n \in Names(e) : Leads(e, p, n) /\ Opens(e, n)
                      THEN Last(RepairWorktree(e, e.tree[p].git.name, p).ways) ELSE e
    IN  FoldSet(LAMBDA p, e : Step(e, p), d, DOMAIN d.tree)

Unlocked(d) == FoldSet(LAMBDA n, e : Last(UnlockWorktree(e, n).ways), d, Name)

Cleared(d) ==
    FoldSet(LAMBDA n, e : IF There(e, n) /\ ~Whole(e, n)
                          THEN Last(RemoveWorktree(e, n, TRUE, FALSE).ways) ELSE e, d, Name)

Mended(d) == Cleared(Last(PruneWorktrees(Unlocked(Repaired(NoLocks(d))), TRUE).ways))

\* Whatever broke off, that makes the list readable again, keeps what was changed in the
\* worktrees that were complete, and joins those with their registrations again; but for
\* directories that two registrations claim, and those inside a half made worktree.
Mendable ==
    Names(repo) # {} /\ ~Contested(repo) /\ ~Enclosing(repo) =>
        LET m == Mended(repo)
        IN  /\ Listable(m)
            /\ \A p \in Dirty(repo) \ Dirty(m) : \E n \in Names(repo) :
                   repo.tree[p].git.name = n /\ ~Opens(repo, n)
            /\ \A n \in Names(repo), p \in DOMAIN repo.tree :
                   Leads(repo, p, n) /\ Opens(repo, n) => Live(m, n)

HeadsFollow ==
    LET b == did'.about
        c == did'.to
        Section(d, x) == <<d.tip[x], d.log[x], d.config[x]>>
        Missing(d, x) == HeadsOn(d, x) # {} /\ d.tip[x] = NoTip
    IN  /\ did'.op = "add" => \A x \in Branch :
              HeadsOn(repo, x) # {} => HeadsOn(repo', x) = HeadsOn(repo, x)
        /\ did'.broken \/ \A x \in Branch : Missing(repo', x) => Missing(repo, x)
        /\ did'.op = "rename" /\ did'.done /\ b # c =>
              /\ HeadsOn(repo, b) \subseteq HeadsOn(repo', c) /\ HeadsOn(repo', b) = {}
              /\ repo.tip[c] # NoTip => HeadsOn(repo, b) = HeadsOn(repo', c)
              /\ Section(repo', c) = Section(repo, b)
              /\ Section(repo', b) = <<NoTip, NoLog, NoConfig>>

\* No branch that a HEAD names is added to a second one or vanishes under it; a rename
\* takes every HEAD, the tip, the log and the section along, or nothing is changed.
BranchesFollow == [][did'.op # "none" => HeadsFollow]_linkedVars
===============================================================================
