------------------------------ MODULE MCFetch -------------------------------
EXTENDS Fetch

CONSTANTS Loads,     \* which mixes of calls
          MaxCalls,  \* bound: how many calls begin, by load
          MaxMoves   \* bound: how often others change references or objects, by load

VARIABLES load, calls, moves

mcVars == <<fetchVars, load, calls, moves>>

Blob(n)       == [kind |-> "blob"]
Tree(es)      == [kind |-> "tree", entries |-> es]
Commit(t, ps) == [kind |-> "commit", tree |-> t, parents |-> ps]
Tag(o)        == [kind |-> "tag", target |-> o]

\* 9, 10, 11 follow one another, 12 stands beside them, 13 merges; 14 is a commit of the
\* client; 16 is a tag of a tree.  Blobs and subtrees stay, change, and change names.
Universe ==
    <<Blob(1), Blob(2), Blob(3),
      Tree(<<1>>), Tree(<<1, 3>>), Tree(<<2, 4>>), Tree(<<1, 5>>), Tree(<<4, 2>>),
      Commit(6, <<>>), Commit(7, <<9>>), Commit(8, <<10>>), Commit(5, <<9>>),
      Commit(6, <<11, 12>>), Commit(8, <<10>>), Tag(10), Tag(7)>>
Local == 14

Side == <<"heads", "side">>
Ver  == <<"tags", "v">>
Refs(main, side, tag) ==
    [r \in ({Main} \ {x \in {Main} : main = None}) \cup ({Side} \ {x \in {Side} : side = None})
           \cup ({Ver} \ {x \in {Ver} : tag = None}) |->
        CASE r = Main -> main [] r = Side -> side [] r = Ver -> tag]

\* What the server may have; the tag of a tree only where no depth is asked for.
Served ==
    {Refs(11, 12, None), Refs(13, 12, 15), Refs(10, None, 11)} \cup
    IF load = "whole" THEN {Refs(10, None, 15), Refs(None, 10, None), Refs(11, 9, 16)}
    ELSE {}

Spec1(neg, force, from, to) == [negative |-> neg, force |-> force, from |-> from, to |-> to]
Configured == {Spec1(FALSE, TRUE, <<"heads">>, <<"remotes">>)}
Unforced   == {Spec1(FALSE, FALSE, <<"heads">>, <<"remotes">>), Spec1(TRUE, FALSE, Side, Side)}
OneBranch  == {Spec1(FALSE, TRUE, Main, <<"remotes", "side">>)}

CallBounds == [whole |-> 2, depth |-> 3]
MoveBounds == [whole |-> 2, depth |-> 1]

Asked(op, version, depth, relative, specs) ==
    [op |-> op, version |-> version, depth |-> depth, relative |-> relative, specs |-> specs,
     tags |-> version = 2, bare |-> FALSE]

Wholly ==
    {Asked("fetch", version, None, FALSE, None) : version \in {0, 2}}
    \cup {Asked("fetch", 0, None, FALSE, specs) : specs \in {Configured, Unforced, OneBranch}}
    \cup {Asked("pull", 0, None, FALSE, specs) : specs \in {Configured, OneBranch}}
    \cup {[Asked("clone", 0, None, FALSE, None) EXCEPT !.bare = bare] : bare \in BOOLEAN}

Shallowly ==
    {Asked("fetch", 0, depth, FALSE, None) : depth \in {None, 1, 2}}
    \cup {Asked("fetch", 0, n, TRUE, None) : n \in {1, 2}}
    \cup {Asked("fetch", 2, 2, FALSE, None), Asked("clone", 2, 1, FALSE, None),
          Asked("pull", 0, None, FALSE, Configured)}

AllCalls == Wholly \cup Shallowly

Held(refs, shallow) == Below({refs[r] : r \in DOMAIN refs}, shallow)

\* The server has all objects, or is shallow at 10 with nothing behind it.
MCInit ==
    /\ load \in Loads
    /\ \E s \in {{}, {10}} :
          server = [refs |-> Refs(11, None, None), shallow |-> s,
                    objects |-> IF s = {} THEN Object \ {Local} ELSE Below({11}, s)]
    /\ client = [objects |-> {}, refs |-> <<>>, shallow |-> {}]
    /\ call = NoCall /\ calls = 0 /\ moves = 0

MCNext ==
    /\ UNCHANGED load
    /\ \/ /\ \E c \in IF load = "whole" THEN Wholly ELSE Shallowly : Begin(c)
          /\ calls < MaxCalls[load] /\ calls' = calls + 1 /\ UNCHANGED moves
       \/ Handle /\ UNCHANGED <<calls, moves>>
       \/ /\ moves < MaxMoves[load] /\ moves' = moves + 1 /\ UNCHANGED calls
          /\ \/ /\ call.stage \in Ended \cup {"request"}
                /\ \E refs \in Served :
                      Held(refs, server.shallow) \subseteq server.objects /\ ServerMoves(refs)
             \/ /\ call.stage \in Ended \cup {"request", "apply", "fetched"}
                /\ \/ CommitLocally(Local) \/ CommitLocally(9)
                   \/ \E r \in DOMAIN client.refs : DeleteReference(r)
             \/ Collect

MCSpec == MCInit /\ [][MCNext]_mcVars
=============================================================================
