------------------------------- MODULE Restore ------------------------------
(***************************************************************************)
(* Calls that write chosen paths of the index or of a tree into the working  *)
(* tree, or take untracked files out of it: restore, checkout-index, clean;  *)
(* and update-index, which changes single entries.                           *)
(***************************************************************************)
EXTENDS WorkTree

\* Restore from the entries src.  What is tracked under p goes first, whatever lies
\* there by now; what src has takes its place.
RestorePaths(call, ps, src, target) ==
    LET paths    == PathsOf(index) \cup PathsOf(src)
        selected == {q \in paths : \E p \in ps : Covers(p, q)}
        tracked  == PathsOf(index) \cap selected
        desired  == Only(Plain(src), selected)
        inTree   == target \in {"worktree", "both"}
        above    == UNION {Above(q) : q \in DOMAIN desired}
        swept    == {f \in DOMAIN files : \E q \in tracked \cup DOMAIN desired : Covers(q, f)}
        refused  ==
            \/ \E p \in ps : ~\E q \in paths : Covers(p, q)
            \/ /\ inTree
               /\ \/ \E e \in src : e.path \in selected /\ e.stage # 0
                  \/ Reported(files, above \cup DOMAIN desired) # {}
                  \/ /\ ~call.force
                     /\ \/ (above \ selected) \cap DOMAIN files # {}
                        \/ \E q \in DOMAIN desired :
                               \/ Look(files, q) = "directory"
                               \/ q \in DOMAIN files \ PathsOf(index)
        next     == IF target = "worktree" THEN index
                    ELSE {e \in index : e.path \notin selected}
                         \cup {desired[q] : q \in DOMAIN desired}
    IN  IF refused THEN Refuse(call)
        ELSE IF ~inTree THEN Answer(call, "done", files, next, head)
        ELSE Apply(call, swept \cup (IF call.force THEN above ELSE {}),
                   Astray(files, tracked),
                   [q \in DOMAIN desired \ (IF call.force THEN above ELSE {}) |->
                        desired[q].blob], next, head)

Restore(p, src, target, force) ==
    RestorePaths([op |-> "restore", force |-> force], {p}, src, target)

-------------------------------------------------------------------------------
\* Entries of one stage are copied out; the index stays.
CheckoutIndex(ps, all, stage, force) ==
    LET call   == [op |-> "checkout-index", force |-> force]
        chosen == {e \in index : /\ all \/ e.path \in ps
                                 /\ e.stage = stage /\ ~e.skip}
        paths  == PathsOf(chosen)
    IN  IF \/ ~all /\ ~ps \subseteq paths
           \/ \E p, q \in paths : p # q /\ Covers(p, q)
           \/ (UNION {Above(p) : p \in paths}) \cap DOMAIN files # {}
           \/ \E p \in paths : \/ Look(files, p) \in {"error", "directory"}
                               \/ Look(files, p) = "file" /\ ~force
        THEN Refuse(call)
        ELSE Apply(call, {}, {}, [p \in paths |-> (CHOOSE e \in chosen : e.path = p).blob],
                   index, head)

-------------------------------------------------------------------------------
\* What a clean of these paths removes (of all paths, if none is named).  It enters
\* a directory with tracked files, or one that it may remove; an untracked directory
\* goes as a whole when nothing in it stays.
CleanMatches(mode, p) == CASE mode = "respect" -> ~IsIgnored(p)
                           [] mode = "include" -> TRUE
                           [] mode = "only"    -> IsIgnored(p)

Cleaned(ps, mode, directories) ==
    LET Selected(p) == ps = {} \/ \E q \in ps : Covers(q, p)
        Leads(p)    == \E q \in ps : p # q /\ Covers(p, q)
        Enters(d)   ==
            \/ \E q \in PathsOf(index) : d # q /\ Covers(d, q)
            \/ directories /\ Selected(d) /\ ~Leads(d) /\ CleanMatches(mode, d)
            \/ (Selected(d) \/ Leads(d)) /\ (Leads(d) \/ (mode = "only" /\ ~IsIgnored(d)))
    IN  {f \in DOMAIN files : /\ \A d \in Above(f) : Enters(d)
                              /\ Selected(f) /\ f \notin PathsOf(index)
                              /\ CleanMatches(mode, f)}

Clean(ps, mode, directories) ==
    Apply([op |-> "clean", force |-> TRUE], Cleaned(ps, mode, directories), {}, <<>>, index, head)

-------------------------------------------------------------------------------
\* update-index: a path that meets others takes their place only where that is
\* allowed.
Clash(p) == {e \in index : e.path # p /\ Collide(e.path, p)}

Put(call, e, allow, gone) ==
    IF Clash(e.path) # {} /\ "replace" \notin allow
    THEN Refuse(call)
    ELSE Answer(call, "done", files, (index \ (Clash(e.path) \cup gone)) \cup {e}, head)

CacheInfo(e, allow) ==
    Put([op |-> "cacheinfo", force |-> FALSE], e, allow,
        {f \in index : f.path = e.path /\ f.stage = e.stage})

UpdatePath(p, allow) ==
    LET call  == [op |-> "update-index", force |-> FALSE]
        exact == {e \in index : e.path = p}
        drop  == Answer(call, "done", files, index \ exact, head)
        there == Look(files, p)
    IN  CASE \E e \in exact : e.skip ->
                 IF "remove" \in allow THEN drop ELSE Answer(call, "done", files, index, head)
          [] there = "file" /\ (exact # {} \/ "add" \in allow) /\ ~\E e \in exact : e.skip ->
                 Put(call, Entry(p, files[p]), allow, exact)
          [] there \in {"nothing", "directory"} /\ "remove" \in allow /\ exact # {}
                 /\ ~\E e \in exact : e.skip -> drop
          [] OTHER -> Refuse(call)

\* Flags of an entry: outside the sparse selection, or content to come.
SetFlag(p, flag, value) ==
    LET call == [op |-> "flag", force |-> FALSE]
        zero == {e \in index : e.path = p /\ e.stage = 0}
        Flagged(e) == IF flag = "skip" THEN [e EXCEPT !.skip = value]
                                       ELSE [e EXCEPT !.intent = value]
    IN  IF zero = {} THEN Refuse(call)
        ELSE Answer(call, "done", files, (index \ zero) \cup {Flagged(e) : e \in zero}, head)
===============================================================================
