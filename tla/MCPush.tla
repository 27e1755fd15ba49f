-------------------------------- MODULE MCPush --------------------------------
(* A small instance of Push for TLC. *)
EXTENDS Push

\* A tree, the commit 2 with it, 3 on top of 2, and 4 and 5 side by side on 3; the
\* receiver may be a shallow repository that begins at 3.
Objects  == 1..5
Commits  == 2..5
ObjLinks == <<{}, {1}, {1, 2}, {1, 3}, {1, 3}>>

To(r, o)    == [name |-> r, new |-> o, force |-> FALSE]
Force(r, o) == [To(r, o) EXCEPT !.force = TRUE]
One(u)      == [updates |-> <<u>>, atomic |-> FALSE]
Two(u, v)   == [updates |-> <<u, v>>, atomic |-> FALSE]
All(u, v)   == [updates |-> <<u, v>>, atomic |-> TRUE]

Forward  == One(To("main", 4))
Replace  == One(Force("main", 5))
BothOrNone == All(To("main", 5), To("dev", 4))
Swap     == All(To("main", 4), To("dev", None))
Drop     == One(To("dev", None))
Calls    == {Forward, Drop, Replace, BothOrNone, Swap, Two(To("main", 5), To("dev", 4))}

-------------------------------------------------------------------------------
CONSTANT Second   \* a client that makes two of the calls, and waits

\* What others do: they set main back, delete dev, switch to dev, and prune all
\* that is garbage.
MCOthers ==
    \/ LocalUpdate("main", 3) \/ LocalUpdate("dev", None) \/ Switch("dev")
    \/ Prune(objects \ UNION {Leads(value[r]) : r \in Ref})

MCInit ==
    /\ Init
    /\ value["main"] \in {None, 3} /\ value["dev"] \in {None, 3}
    /\ head \in {None, "main"}
    /\ objects \in {{}, {1, 3}, {1, 2, 3, 4}}

MCNext ==
    /\ Next
    /\ meddled' # meddled => MCOthers
    /\ push'[Second] \in {NoPush, Replace, Drop}
    /\ phase'[Second] = "error" => phase[Second] # "sent" \/ Ended(Second)
    /\ \A c \in Client : "dev" \in DOMAIN remote'[c] => "main" \in DOMAIN remote'[c]

MCSpec == MCInit /\ [][MCNext]_vars
===============================================================================
