----------------------------- MODULE MCWorkTree -----------------------------
EXTENDS Sparse, ReadTree, Linked

CONSTANTS Loads,       \* which mixes of calls
          MaxCalls     \* on linked worktrees; one that breaks off counts twice

VARIABLES load, calls

oneTree == <<wtVars, cones>>
mcVars == <<oneTree, linkedVars, load, calls>>

AllPaths     == {<<1>>, <<2>>, <<2, 1>>}
IgnoredPaths == {<<1>>}

\* The trees that HEAD may name, and fewer for calls with many forms.
Few     == {t \in Trees : DOMAIN t \in {{}, {<<2, 1>>}, {<<1>>, <<2>>}}}

Some    == {t \in Few : DOMAIN t = {<<2, 1>>} \/ (DOMAIN t # {} /\ t[<<1>>] = 1 /\ t[<<2>>] = 2)}

Near == {Without(files, {p}) : p \in DOMAIN files} \cup
        {(p :> b) @@ Without(files, {q \in Path : Collide(p, q)}) : p \in Path, b \in Blob}

Plainly ==
    \/ \E p \in Path \cup {<<>>}, force \in BOOLEAN : Add(p, force)
    \/ \E ps \in {{<<>>}, {<<1>>, <<2>>}},
          wish \in {"none", "force", "update", "keep"} : AddPaths(ps, wish)
    \/ \E p \in Path, cached, force \in BOOLEAN : RemovePaths(p, p = <<2>>, cached, force)
    \/ \E from, to \in Path, force \in BOOLEAN : MovePath(from, to, force)
    \/ \E t \in Few, force \in BOOLEAN : Switch(t, force)
    \/ \E t \in Some, mode \in {"soft", "mixed", "hard"} : Reset(t, mode)
    \/ Commit
    \/ \E p \in {<<>>, <<2>>}, target \in {"worktree", "index", "both"}, force \in BOOLEAN :
           Restore(p, IF target = "worktree" THEN index ELSE FromTree(head), target, force)
    \/ \E ps \in {{}, {<<2>>}}, mode \in {"respect", "include", "only"}, d \in BOOLEAN :
           Clean(ps, mode, d)
    \/ \E p \in Path, allow \in {{}, {"add"}, {"add", "remove", "replace"}} : UpdatePath(p, allow)

Merging ==
    \/ \E mode \in {"reset", "merge", "prefix", "plain"}, update \in BOOLEAN, t \in Some :
           /\ mode = "prefix" => DOMAIN t \subseteq {<<1>>}
           /\ ReadTree(<<t>>, mode, update /\ mode # "plain")
    \/ ReadTree(<<>>, "plain", FALSE)
    \/ \E t \in Some, mode \in {"reset", "merge"}, update \in BOOLEAN :
           ReadTree(<<head, t>>, mode, update)
    \/ \E t, u \in Some, update \in BOOLEAN : ReadTree(<<t, head, u>>, "merge", update)
    \/ \E stage \in 0 .. 3, force \in BOOLEAN : CheckoutIndex({}, TRUE, stage, force)
    \/ \E p \in Path : CheckoutIndex({p}, FALSE, 2, FALSE)
    \/ CacheInfo([Entry(<<2>>, Empty) EXCEPT !.stage = 2], {"replace"})
    \/ Add(<<2>>, FALSE)
    \/ \E t \in Some : Reset(t, "hard")
    \/ Commit

Sparsely ==
    \/ \E force \in BOOLEAN :
         \/ SetSparse({}, force) \/ SetSparse({<<2>>}, force) \/ AddSparse({<<2>>}, force)
         \/ Reapply(force) \/ DisableSparse(force)
    \/ /\ UNCHANGED cones
       /\ \/ \E t \in Few : Switch(t, FALSE)
          \/ AddPaths({<<>>}, "none") \/ AddPaths({<<1>>}, "intent")
          \/ \E p \in Path, value \in BOOLEAN : SetFlag(p, "skip", value)
          \/ SetFlag(<<1>>, "intent", FALSE)
          \/ RemovePaths(<<2, 1>>, FALSE, FALSE, FALSE)
          \/ UpdatePath(<<2, 1>>, {"remove"})

-------------------------------------------------------------------------------
(* Linked worktrees: "links" changes places and registrations, "branches" the *)
(* branches of two worktrees that stay where they are.                        *)

AllPlaces == {<<1>>, <<2>>, <<2, 1>>}

NewRepo == [head |-> On(1), tip |-> [b \in Branch |-> IF b < 3 THEN b ELSE NoTip],
            log |-> [b \in Branch |-> IF b < 3 THEN {b} ELSE NoLog],
            config |-> [b \in Branch |-> b], relative |-> FALSE,
            admin |-> [n \in Name |-> NoAdmin], tree |-> <<>>]

Links ==
    \/ \E p \in Place, n \in Name, checkout \in BOOLEAN : AddCall(p, n, Detached(1), checkout)
    \/ \E n \in Name : LockCall(n) \/ UnlockCall(n)
    \/ \E n \in Name, force, override \in BOOLEAN : RemoveCall(n, force, override)
    \/ \E n \in Name, p \in Place : RepairCall(n, p)
    \/ \E n \in Name, q \in Place, force, override \in BOOLEAN : MoveCall(n, q, force, override)
    \/ \E all \in BOOLEAN : PruneCall(all)
    \/ \E p \in DOMAIN repo.tree : WorkIn(p)
    \/ Elsewhere \/ Unlocking \/ Ageing

Branches ==
    \/ \E n \in Name, b \in Branch : AddCall(<<n>>, n, On(b), FALSE)
    \/ \E n \in Name : RemoveCall(n, TRUE, FALSE)
    \/ \E b \in Branch, force \in BOOLEAN : DeleteCall(b, force)
    \/ \E b, c \in Branch, force \in BOOLEAN : RenameCall(b, c, force)
    \/ \E p \in DOMAIN repo.tree \cup {<<>>}, h \in {On(b) : b \in Branch} \cup {Detached(1)} :
           SwitchCall(p, h)

\* The repositories the calls start from: as new, with one worktree, with two of which
\* one may lie in the other.
Placed(d, n, p, h) == Last(AddWorktree(d, p, n, h, TRUE).ways)

Starts ==
    IF load = "links"
    THEN {NewRepo} \cup {Placed(NewRepo, 1, <<2>>, Detached(1))}
         \cup {Placed(Placed(NewRepo, 1, <<2>>, Detached(1)), 2, p, Detached(2)) : p \in {<<1>>, <<2, 1>>}}
    ELSE {[Placed(Placed(NewRepo, 1, <<1>>, g), 2, <<2>>, h) EXCEPT !.head = main] :
             g \in {On(1), On(2)}, h \in {On(2), Detached(1)}, main \in {On(1), Detached(2)}}

Init == /\ load \in Loads
        /\ host \in BOOLEAN
        /\ files = <<>> /\ index = {} /\ head = <<>> /\ last = None /\ cones = Full
        /\ did = NoCall /\ calls = 0
        /\ IF load \in {"links", "branches"} THEN host /\ repo \in Starts ELSE repo = NewRepo

InOneTree ==
    /\ load \in {"plain", "merge", "sparse"}
    /\ \/ Return /\ UNCHANGED cones
       \/ last = None /\ \/ load = "plain" /\ Plainly /\ UNCHANGED cones
                         \/ load = "merge" /\ Merging /\ UNCHANGED cones
                         \/ load = "sparse" /\ Sparsely
                         \/ UNCHANGED cones /\ \E w \in Near : Edit(w)
    /\ head' \in Few
    /\ UNCHANGED <<linkedVars, calls>>

AmongTrees ==
    /\ calls < MaxCalls
    /\ \/ load = "links" /\ Links
       \/ load = "branches" /\ Branches
    /\ DOMAIN repo'.tree \subseteq Place
    /\ calls' = calls + IF did'.broken THEN 2 ELSE 1
    /\ UNCHANGED oneTree

Next == UNCHANGED load /\ (InOneTree \/ AmongTrees)

Spec == Init /\ [][Next]_mcVars
===============================================================================
