---------------------------- MODULE MCOperations ----------------------------
EXTENDS Operations

CONSTANTS Loads,      \* which mixes of calls
          Touches     \* bound: how often the user changes files or index, by load

VARIABLES load, history, touches

mcVars == <<opVars, load, history, touches>>

TwoPaths     == {<<1>>, <<2>>}
NoneIgnored  == {}

\* Contents: of path 1 from 1 to 3, of path 2 from 4 to 6, of both 7 and 8.
Root(t)       == NewCommit(t, <<>>, 0)
One           == <<1>> :> 1
Both(a, b)    == (<<1>> :> a) @@ (<<2>> :> b)
Child(c, t, n) == NewCommit(t, <<c>>, n)

\* A history: the tips of main and topic.
Textual ==      \* both sides change path 1
    LET a == Root(One) c == Child(a, <<1>> :> 3, 1)
    IN  [main |-> Child(a, <<1>> :> 2, 9), topic |-> Child(c, Both(3, 4), 2)]
Deleted ==      \* path 1 goes on one side
    LET a == Root(Both(1, 4)) c == Child(a, Both(3, 4), 1)
    IN  [main |-> Child(a, <<2>> :> 4, 9), topic |-> Child(c, Both(3, 5), 2)]
Repeated ==     \* main has what the first change of topic brings
    LET a == Root(One) c == Child(a, <<1>> :> 3, 1)
    IN  [main |-> Child(a, <<1>> :> 3, 9), topic |-> Child(c, Both(3, 4), 2)]
Behind ==       \* topic is ahead of main
    LET a == Root(One) c == Child(a, <<1>> :> 3, 1)
    IN  [main |-> a, topic |-> Child(c, Both(3, 4), 2)]

TouchBounds == [merge |-> 2, pick |-> 2, rebase |-> 4, am |-> 4, stash |-> 2]
Histories == {Textual, Deleted, Repeated, Behind}

Start(h, b) ==
    [on |-> b, at |-> h[b], branches |-> h, files |-> h[b].tree,
     index |-> W(0)!FromTree(h[b].tree), stashes |-> <<>>, stash |-> NoStash] @@ Idle

Main  == history.main
Topic == history.topic

Merging ==
    \/ \E ff \in {"allow", "never", "only"}, noCommit \in BOOLEAN :
           Call("merge", Merge(disk, Topic.parents[1], ff, noCommit))
    \/ Call("continue_merge", ContinueMerge(disk))
    \/ Call("abort_merge", AbortMerge(disk))
    \/ \E amend \in BOOLEAN : Call("commit", Commit(disk, 7, amend, amend, FALSE))
    \/ \E mode \in {"soft", "mixed", "hard"} : Call("reset", Reset(disk, Main, mode))

Picking ==
    \/ \E c \in {Topic, Topic.parents[1]} : Call("replay", Replay(disk, c, "pick", FALSE, FALSE))
    \/ Call("replay", Replay(disk, Topic, "pick", FALSE, TRUE))
    \/ Call("replay", Replay(disk, Topic.parents[1], "revert", TRUE, FALSE))
    \/ Call("continue_replay", ContinueReplay(disk))
    \/ Call("abort_replay", AbortReplay(disk))
    \/ Call("commit", Commit(disk, 7, FALSE, FALSE, FALSE))

Rebasing ==
    \/ Call("rebase", Rebase(disk, Main, Main, keep))
    \/ Call("continue_rebase", ContinueRebase(disk, keep))
    \/ Call("skip_rebase", SkipRebase(disk, keep))
    \/ Call("abort_rebase", AbortRebase(disk))
    \/ Call("abort_replay", AbortReplay(disk))

Mailing ==
    \/ disk.on = "main" /\ Call("am", Am(disk, <<MailOf(Topic.parents[1]), MailOf(Topic)>>))
    \/ Call("continue_am", ContinueAm(disk))
    \/ Call("skip_am", SkipAm(disk))
    \/ Call("abort_am", AbortAm(disk))
    \/ Call("detach", SwitchDetached(disk, Main, TRUE))
    \/ Call("switch", Switch(disk, "main", TRUE))

Stashing ==
    \/ \E all \in BOOLEAN : Call("stash_push", StashPush(disk, all))
    \/ \E i \in 1 .. MaxStashes, reinstate \in BOOLEAN :
         /\ i \in DOMAIN disk.stashes
         /\ \/ Call("stash_apply", StashApply(disk, i, reinstate))
            \/ Call("stash_pop", StashPop(disk, i, reinstate))
            \/ Call("stash_drop", StashDrop(disk, i))
    \/ \E b \in Branch : Call("switch", Switch(disk, b, FALSE))

\* What the user does between calls.
Touching ==
    /\ \/ \E p \in Path : p \in DOMAIN disk.files /\ Stage(p)
       \/ Edit(<<1>>, <<1>> :> 2) \/ Edit(<<1>>, <<>>)
       \/ load = "stash" /\ (Edit(<<1>>, <<1>> :> 3) \/ Edit(<<2>>, <<2>> :> 5))
    /\ disk' # disk
    /\ touches < Touches[load]
    /\ touches' = touches + 1

MCInit ==
    /\ load \in Loads
    /\ keep \in BOOLEAN /\ (keep => load = "rebase")
    /\ history \in Histories
    /\ load \in {"pick", "stash"} => history \in {Textual, Deleted}
    /\ disk = Start(history, IF load = "rebase" THEN "topic" ELSE "main")
    /\ touches = 0
    /\ answer = NoAnswer /\ began = Nothing /\ stops = 0

MCNext ==
    /\ UNCHANGED <<load, history>>
    /\ \/ Touching
       \/ /\ UNCHANGED touches
          /\ \/ Return
             \/ load = "merge"  /\ Merging
             \/ load = "pick"   /\ Picking
             \/ load = "rebase" /\ Rebasing
             \/ load = "am"     /\ Mailing
             \/ load = "stash"  /\ Stashing

MCSpec == MCInit /\ [][MCNext]_mcVars
===============================================================================
