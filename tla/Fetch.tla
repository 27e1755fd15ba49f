------------------------------- MODULE Fetch --------------------------------
(***************************************************************************)
(* A client fetches, clones and pulls from a repository that goes on        *)
(* changing its references.  The client reads the advertisement, sends one *)
(* request, and then publishes the pack, the shallow boundary and the      *)
(* references one after the other; between any two of these the call may   *)
(* break off, and its user commits and deletes references.                 *)
(*                                                                         *)
(* A reference is a pair of a name space and a name; HEAD of both sides    *)
(* names Main.                                                             *)
(***************************************************************************)
EXTENDS UploadPack

CONSTANTS Names,     \* names of branches and tags
          Spaces,    \* "heads", "tags", "remotes"
          Calls      \* the calls that the user makes

VARIABLES server, client,
          call       \* the fetch, clone or pull under way, or the last one

fetchVars == <<server, client, call>>

Reference  == Spaces \X Names
References == UNION {[R -> Object] : R \in SUBSET Reference}

\* from is a name space or one reference, to a name space or a reference.
RefSpec ==
    LET Pattern == {<<space>> : space \in Spaces} \cup Reference
    IN  [negative : BOOLEAN, force : BOOLEAN, from : Pattern, to : Pattern]

\* specs = None is the mapping without a configured remote.
ASSUME CallsAssumption ==
    Calls \subseteq [op : {"fetch", "clone", "pull"}, version : {0, 2}, depth : (Nat \ {0}) \cup {None},
                    relative : BOOLEAN, tags : BOOLEAN, bare : BOOLEAN,
                    specs : {None} \cup SUBSET RefSpec]

Main    == <<"heads", "main">>
NoCall  == [stage |-> "none"]
Ended   == {"none", "done", "failed"}

HeadOf(s) == IF Main \in DOMAIN s.refs THEN s.refs[Main] ELSE None
Set(fields) == call' = Override(fields, call)
End(stage)  == Set([stage |-> stage])
Fail        == call' = [stage |-> "failed"]

\* As a call goes on it also has what was advertised, the request q, the response, the edits.
-----------------------------------------------------------------------------
(* Which references are fetched, and where to. *)

Whole(side) == Len(side) = 1
Matches(spec, r) == IF Whole(spec.from) THEN spec.from[1] = r[1] ELSE spec.from = r
Mapped(spec, r)  == IF Whole(spec.from) THEN <<spec.to[1], r[2]>> ELSE spec.to

IsTag(r) == r[1] = "tags"
ByRule(specs, r) == {p \in specs : ~p.negative /\ Matches(p, r)}
Chosen(specs, r) ==
    \/ IsTag(r)
    \/ IF specs = None THEN r[1] = "heads"
       ELSE /\ ByRule(specs, r) # {}
            /\ ~\E p \in specs : p.negative /\ Matches(p, r)

\* The destinations of a reference, with leave to overwrite.
Destinations(c, r) ==
    IF c.specs = None
    THEN {[of |-> r, by |-> None, force |-> ~IsTag(r),
           to |-> IF r[1] = "heads" /\ ~c.bare THEN <<"remotes", r[2]>> ELSE r]}
    ELSE IF ByRule(c.specs, r) = {} THEN {[of |-> r, by |-> None, force |-> FALSE, to |-> r]}
    ELSE {[of |-> r, by |-> p, force |-> p.force, to |-> Mapped(p, r)] : p \in ByRule(c.specs, r)}
-----------------------------------------------------------------------------
(* The boundary of the client. *)

\* shallow_commits and write_shallow_commits read every commit they name.
Readable(ids) == ids \subseteq client.objects

IsAncestor(a, d) == a \in Below({d}, client.shallow)     \* is_ancestor

\* fetch_update_is_fast_forward
FastForward(old, new) == /\ Content[old].kind = "commit" /\ Content[new].kind = "commit"
                         /\ IsAncestor(old, new)
-----------------------------------------------------------------------------
(* The steps of a call. *)

\* The advertisement is read.  A clone begins in an empty repository.
Start(c) ==
    /\ call.stage \in Ended
    /\ c.op = "clone" => client.refs = <<>> /\ client.objects = {} /\ c.specs = None
    /\ LET chosen == [r \in {n \in DOMAIN server.refs : Chosen(c.specs, n)} |-> server.refs[r]]
           track  == IF c.specs = None THEN {} ELSE {Mapped(p, Main) : p \in ByRule(c.specs, Main)}
           begun  == Override(c, [advertised |-> chosen, default |-> HeadOf(server), track |-> track,
                                  original |-> HeadOf(client)])
           fails  == \/ c.op = "pull" /\ Cardinality(track) # 1
                     \/ chosen = <<>> /\ ~Readable(client.shallow)
       IN  call' = Override([stage |-> IF fails THEN "failed"
                                       ELSE IF chosen = <<>> THEN "fetched" ELSE "request"], begun)
    /\ UNCHANGED <<server, client>>

\* The pack is valid, its boundary not contradictory.
Receive(q, a) ==
    IF Readable(client.shallow) /\ a.ok /\ a.shallow \cap a.unshallow = {}
    THEN Set([stage |-> "pack", q |-> q, response |-> a])
    ELSE Fail

\* build_fetch_request and the answer.
Exchange ==
    /\ call.stage = "request"
    /\ LET q == [version |-> call.version, wants |-> {call.advertised[r] : r \in DOMAIN call.advertised},
                 haves |-> Tips(client), shallow |-> client.shallow,
                 depth |-> call.depth, relative |-> call.relative, tags |-> call.tags]
       IN  Receive(q, Respond(server, q))
    /\ UNCHANGED <<server, client>>

\* publish_validated_pack
PublishPack ==
    /\ call.stage = "pack"
    /\ client' = [client EXCEPT !.objects = @ \cup call.response.pack]
    /\ End("shallow")
    /\ UNCHANGED server

\* shallow_commits, then write_shallow_commits.  Both read the commits they name: those of
\* the file were read for the request, and the new ones came with the pack or were there.
WriteShallow ==
    /\ call.stage = "shallow"
    /\ LET new == (client.shallow \ call.response.unshallow) \cup call.response.shallow
       IN  Readable(new) /\ client' = [client EXCEPT !.shallow = new]
    /\ End("refs")
    /\ UNCHANGED server

\* fetch_ref_edits
PrepareRefs ==
    /\ call.stage = "refs"
    /\ LET wishes == UNION {{Override([new |-> call.advertised[r]], d) : d \in Destinations(call, r)}
                            : r \in DOMAIN call.advertised}
           old(d) == IF d.to \in DOMAIN client.refs THEN client.refs[d.to] ELSE None
           clash  == \E d, e \in wishes : d # e /\ d.to = e.to
           refuse == \E d \in wishes : old(d) \notin {None, d.new} /\ ~d.force
                                       /\ ~FastForward(old(d), d.new)
           edits  == {[to |-> d.to, old |-> old(d), new |-> d.new]
                         : d \in {w \in wishes : old(w) # w.new}}
       IN  IF clash \/ refuse THEN Fail
           ELSE Set([stage |-> "apply", edits |-> edits])
    /\ UNCHANGED <<server, client>>

\* apply_reference_transaction; a transaction that breaks off has published some edits.
Publish(es) ==
    client' = [client EXCEPT !.refs =
        Override([t \in {e.to : e \in es} |-> (CHOOSE e \in es : e.to = t).new], @)]

ApplyRefs ==
    /\ call.stage = "apply"
    /\ LET holds == \A e \in call.edits :
                       e.old = IF e.to \in DOMAIN client.refs THEN client.refs[e.to] ELSE None
       IN  \/ /\ holds /\ Publish(call.edits) /\ End("fetched")
           \/ /\ holds /\ Fail
              /\ \E es \in SUBSET call.edits : es # call.edits /\ Publish(es)
           \/ ~holds /\ UNCHANGED client /\ Fail
    /\ UNCHANGED server

\* What follows a fetch.  A clone creates the branch that HEAD of the server names; a
\* pull takes the branch of the client to the upstream, which must be what was
\* advertised (FastForwardOnly; an unborn branch is created).
Move(to) == client' = [client EXCEPT !.refs = Override([r \in {Main} |-> to], @)]

Finish ==
    /\ call.stage = "fetched"
    /\ CASE call.op = "fetch" -> End("done") /\ UNCHANGED client
         [] call.op = "clone" ->
              \/ /\ call.bare \/ call.default = None
                 /\ End("done") /\ UNCHANGED client
              \/ /\ ~call.bare /\ call.default # None
                 /\ IF HeadOf(client) = None THEN Move(call.default) /\ End("done")
                    ELSE UNCHANGED client /\ Fail
         [] call.op = "pull" ->
              LET track == CHOOSE t \in call.track : TRUE
                  up    == IF track \in DOMAIN client.refs THEN client.refs[track] ELSE None
                  head  == HeadOf(client)
                  fits  == up # None /\ Main \in DOMAIN call.advertised /\ call.advertised[Main] = up
              IN  \/ ~fits /\ Fail /\ UNCHANGED client
                  \/ /\ fits
                     /\ IF call.original = None
                        THEN IF head = None THEN Move(up) /\ End("done")
                             ELSE UNCHANGED client /\ Fail
                        ELSE IF head # None /\ IsAncestor(up, head)
                             THEN UNCHANGED client /\ End("done")
                             ELSE IF head # None /\ IsAncestor(head, up)
                                  THEN Move(up) /\ End("done")
                                  ELSE UNCHANGED client /\ Fail
    /\ UNCHANGED server

\* The process stops, or the transport fails.
BreakOff ==
    /\ call.stage \notin Ended
    /\ Fail
    /\ UNCHANGED <<server, client>>
-----------------------------------------------------------------------------
(* Others. *)

\* A push to the server, or a change there.
ServerMoves(refs) ==
    /\ server' = [server EXCEPT !.refs = refs]
    /\ UNCHANGED <<client, call>>

\* The user commits on the branch of HEAD.
CommitLocally(c) ==
    /\ Parents(c) = {HeadOf(client)} \ {None}
    /\ client' = [client EXCEPT !.objects = @ \cup {c} \cup Below({Content[c].tree}, {}),
                                !.refs = Override([r \in {Main} |-> c], @)]
    /\ UNCHANGED <<server, call>>

DeleteReference(r) ==
    /\ r \in DOMAIN client.refs
    /\ client' = [client EXCEPT !.refs = [n \in DOMAIN @ \ {r} |-> @[n]]]
    /\ UNCHANGED <<server, call>>

\* gc removes what no reference reaches, as fsck sees it; no call is under way.
Collect ==
    /\ call.stage \in Ended /\ Readable(client.shallow)
    /\ client' = [client EXCEPT !.objects = @ \cap Below(Tips(client), client.shallow)]
    /\ UNCHANGED <<server, call>>

Handle == \/ Exchange \/ PublishPack \/ WriteShallow \/ PrepareRefs \/ ApplyRefs \/ Finish
          \/ BreakOff

\* The server has any objects and references; the client has what its references lead to.
Init ==
    /\ server \in [refs : References, shallow : SUBSET Commits, objects : SUBSET Object]
    /\ client \in [refs : References, shallow : SUBSET Commits, objects : SUBSET Object]
    /\ Below(Tips(client), client.shallow) \subseteq client.objects
    /\ call = NoCall

\* A depth is asked for where no reference names a tree (README, section 7).
Begin(c) == Start(c) /\ (c.depth # None /\ ~c.relative => Of("tree", Peeled(Tips(server))) = {})

Next ==
    \/ \E c \in Calls : Begin(c)
    \/ Handle
    \/ \E refs \in References : ServerMoves(refs)
    \/ \E c \in Commits : CommitLocally(c)
    \/ \E r \in DOMAIN client.refs : DeleteReference(r)
    \/ Collect

Spec == Init /\ [][Next]_fetchVars
-----------------------------------------------------------------------------
(* Properties. *)

\* At every moment, also where a call broke off between pack, boundary and references:
\* what a reference of the client leads to, down to its shallow boundary, is there.
ClientWhole ==
    Below(Tips(client), client.shallow) \subseteq client.objects

\* What keeps it so.  The records have their fields; from the answer on, what the wants lead
\* to and what is behind the boundaries that go, down to the boundary to come, is in the pack
\* or there; from the new boundary on it is there, and only this is published.
Repository(s) == /\ s = [refs |-> s.refs, shallow |-> s.shallow, objects |-> s.objects]
                 /\ Tips(s) \subseteq Object /\ s.shallow \subseteq Commits /\ s.objects \subseteq Object

Wants    == {call.advertised[r] : r \in DOMAIN call.advertised}
Boundary == (client.shallow \ call.response.unshallow) \cup call.response.shallow
Needed   == Below(Wants \cup UNION {Parents(c) : c \in client.shallow \ Boundary}, Boundary)

CallFits ==
    call.stage \notin {"none", "failed"} =>
        /\ {"op", "version", "depth", "relative", "tags", "bare", "specs", "advertised", "default",
            "track", "original"} \subseteq DOMAIN call
        /\ Wants \subseteq Object /\ call.op \in {"fetch", "clone", "pull"}
        /\ call.op = "clone" /\ call.default # None => call.default \in Wants
        /\ call.depth # None => call.depth \in Nat \ {0}
        /\ call.depth # None /\ ~call.relative => Of("tree", Peeled(Wants)) = {}

Promised ==
    call.stage \in {"pack", "shallow"} =>
        /\ "response" \in DOMAIN call
        /\ call.response.pack \subseteq Object /\ Boundary \subseteq Commits
        /\ Needed \subseteq client.objects \cup IF call.stage = "pack" THEN call.response.pack ELSE {}

Delivered ==
    /\ call.stage \in {"refs", "apply", "fetched"} =>
          Below(Wants, client.shallow) \subseteq client.objects
    /\ call.stage = "apply" => "edits" \in DOMAIN call /\ {e.new : e \in call.edits} \subseteq Wants

IInv == Repository(server) /\ Repository(client) /\ CallFits /\ Promised /\ Delivered /\ ClientWhole

\* The commits that are up to n parents away.
Within(cs, n, stop) ==
    LET near[k \in 0 .. n] ==
            IF k = 0 THEN cs
            ELSE near[k - 1] \cup UNION {Parents(c) : c \in near[k - 1] \ stop}
    IN  near[n]

\* After a fetch to depth d, the client sees of each reference it fetched the commits that
\* are fewer than d parents away, all of them and no others.  After one that deepens by n,
\* nothing new is farther than n parents behind a boundary, and everything up to there is
\* visible, unless one boundary of the client lies behind another: the walk from the wants
\* ends at the nearer one, and the farther one stays (upload_pack.rs:850-923), although
\* docs/shallow.md:28 says "extend every shallow frontier by that many generations".
Tipped(q)      == Peeled(q.wants) \cap Commits
Seen(q, stop)  == Below(Tipped(q), stop) \cap Commits
Opened(q, end) == Within(Seen(q, q.shallow) \cap q.shallow, q.depth, end)
Apart(cs)      == \A c, d \in cs : c \in Below({d}, {}) => c = d

\* A request of a server with the boundary end, once the boundary of the client is stop.
Met(q, end, stop) ==
    IF q.relative
    THEN /\ Seen(q, stop) \subseteq Seen(q, q.shallow) \cup Opened(q, end)
         /\ Apart(q.shallow) => Opened(q, end) \subseteq Seen(q, stop)
    ELSE Seen(q, stop) = Within(Tipped(q), q.depth - 1, end)

DepthMet ==
    call.stage = "done" /\ DOMAIN call.advertised # {} /\ call.depth # None =>
        Met(call.q, server.shallow, client.shallow)

\* What keeps it so: with the answer this is decided, and only the boundary has to be written.
DepthKept ==
    /\ call.stage \in {"pack", "shallow"} =>
          /\ {"q", "response"} \subseteq DOMAIN call
          /\ call.depth # None => Met(call.q, server.shallow, Boundary)
    /\ call.stage \in {"refs", "apply", "fetched", "done"} /\ DOMAIN call.advertised # {} =>
          /\ "q" \in DOMAIN call
          /\ call.depth # None => Met(call.q, server.shallow, client.shallow)
=============================================================================
