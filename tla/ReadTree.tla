------------------------------ MODULE ReadTree ------------------------------
(***************************************************************************)
(* read-tree: one, two or three trees are merged into the index, path by     *)
(* path, and the working tree may be brought along.                          *)
(***************************************************************************)
EXTENDS WorkTree

\* What a tree or an index has at a path: nothing, or one blob.
At(t, p) == IF p \in DOMAIN t THEN {t[p]} ELSE {}

Staged(p, n, found) == {[Entry(p, b) EXCEPT !.stage = n] : b \in found}

\* The index follows the step from one tree to another; what is staged is kept
\* where the trees agree or where it is there already.
TwoWayFits(old, new, cur, p) ==
    \/ At(cur, p) \in {At(old, p), At(new, p)}
    \/ At(old, p) = At(new, p)

TwoWay(old, new, cur) ==
    LET Next2(p) == IF \/ At(cur, p) = At(old, p)
                       \/ DOMAIN cur = {} /\ At(old, p) = At(new, p)
                    THEN At(new, p) ELSE At(cur, p)
    IN  UNION {Staged(p, 0, Next2(p)) : p \in DOMAIN old \cup DOMAIN new \cup DOMAIN cur}

\* Both sides alike, or one of them as the base was; a path that this would take
\* away is left to the user, unless the merge is aggressive.
Resolves(b, o, t, aggressive) ==
    \/ o = t /\ (o # {} \/ aggressive)
    \/ o # t /\ o = b /\ (t # {} \/ aggressive)
    \/ o # t /\ o # b /\ t = b /\ (o # {} \/ aggressive)

ThreeWayAt(p, b, o, t, aggressive) ==
    IF Resolves(b, o, t, aggressive)
    THEN Staged(p, 0, IF o = b THEN t ELSE o)
    ELSE Staged(p, 1, b) \cup Staged(p, 2, o) \cup Staged(p, 3, t)

ThreeWay(base, ours, theirs, aggressive) ==
    UNION {ThreeWayAt(p, At(base, p), At(ours, p), At(theirs, p), aggressive) :
               p \in DOMAIN base \cup DOMAIN ours \cup DOMAIN theirs}

\* A tree below a prefix: paths it must not meet in the index.
Shifted(t, prefix) ==
    [q \in {prefix \o p : p \in DOMAIN t} |-> t[SubSeq(q, Len(prefix) + 1, Len(q))]]

-------------------------------------------------------------------------------
\* The working tree follows from the index as it is to the entries next.  Paths
\* left with a conflict keep their file.  Nothing prevents a merge of a file with
\* what another tree has below its path: "clash" names such a call.
Follow(call0, next, update) ==
    LET clash    == \E e, f \in next : e.path # f.path /\ Covers(e.path, f.path)
        call     == [call0 EXCEPT !.op = IF clash THEN "clash" ELSE @]
        cur      == Plain(index)
        new      == Plain({e \in next : e.stage = 0})
        changing == {p \in DOMAIN new : p \in DOMAIN cur => cur[p].blob # new[p].blob}
        removals == DOMAIN cur \ PathsOf(next)
        touched  == changing \cup removals
        over     == (UNION {Above(p) : p \in changing}) \ removals
        swept    == {f \in DOMAIN files : \E p \in touched : f # p /\ Covers(p, f)}
        refused  ==
            \/ Reported(files, UNION {Above(p) : p \in changing}) # {}
            \/ /\ ~call.force
               /\ \/ \E p \in touched \cap DOMAIN cur :
                         Look(files, p) # "nothing" /\ ~Matches(files, cur[p])
                  \/ \E p \in changing \ DOMAIN cur : Look(files, p) # "nothing"
                  \/ over \cap DOMAIN files # {}
    IN  IF ~update THEN Answer(call, "done", files, next, head)
        ELSE IF refused THEN Refuse(call)
        ELSE Apply(call, removals \cup over \cup swept, Astray(files, removals),
                   [p \in changing |-> new[p].blob], next, head)

\* read-tree [-m | --reset | --prefix], with -u or not; plain, it only replaces.
ReadTree(trees, mode, update) ==
    LET call == [op |-> "read-tree", force |-> mode = "reset"]
        cur  == [p \in DOMAIN Plain(index) |-> Plain(index)[p].blob]
        bound == FromTree(Shifted(trees[1], <<2>>))
    IN  IF mode \in {"merge", "prefix"} /\ \E e \in index : e.stage # 0
        THEN Refuse(call)
        ELSE IF mode = "prefix"
        THEN IF \E e \in index, f \in bound : Collide(e.path, f.path)
             THEN Refuse(call) ELSE Follow(call, index \cup bound, update)
        ELSE CASE trees = <<>> -> Answer(call, "done", files, {}, head)
               [] Len(trees) = 1 -> Follow(call, FromTree(trees[1]), update)
               [] Len(trees) = 2 /\ mode = "reset" -> Follow(call, FromTree(trees[2]), update)
               [] Len(trees) = 2 /\ mode = "merge" ->
                      IF \E p \in Path : ~TwoWayFits(trees[1], trees[2], cur, p)
                      THEN Refuse(call)
                      ELSE Follow(call, TwoWay(trees[1], trees[2], cur), update)
               [] Len(trees) = 3 ->
                      Follow(call, ThreeWay(trees[1], trees[2], trees[3], FALSE), update)
===============================================================================
