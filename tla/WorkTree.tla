------------------------------ MODULE WorkTree ------------------------------
(***************************************************************************)
(* The files of a working tree, the index, the tree of HEAD, and the calls  *)
(* that move content between them: add, remove, move, checkout, reset and   *)
(* switch.  Each call checks first, then changes files one by one, then      *)
(* publishes a new index; it may stop after any of the changes.              *)
(*                                                                         *)
(* A path is a sequence of names, a blob stands for content and mode.        *)
(* Directories are there while a file is; gitlinks, links and stat data are  *)
(* left out.  Two adapters differ where a path leads through a file.         *)
(***************************************************************************)
EXTENDS Naturals, FiniteSets, SequencesExt

CONSTANTS Path,       \* what may be tracked or lie in the working tree
          Blob,       \* contents
          Empty,      \* of these, that of an empty file
          Ignored     \* the paths that the ignore patterns name

ASSUME WorkTreeAssumption ==
    /\ Path \subseteq Seq(Nat) \ {<<>>}
    /\ Empty \in Blob
    /\ Ignored \subseteq Path

VARIABLES host,       \* a path below a file is an error, not an absent file
          files,      \* the blob of each file in the working tree
          index,      \* the entries of the index
          head,       \* the tree of the commit of HEAD
          last        \* the call that has just ended

wtVars == <<host, files, index, head, last>>

-------------------------------------------------------------------------------
Covers(q, p)  == IsPrefix(q, p)
Collide(p, q) == Covers(p, q) \/ Covers(q, p)
Above(p)      == {SubSeq(p, 1, n) : n \in 1 .. Len(p) - 1}

\* A tree and a working tree alike: no file lies below another.
Trees == {t \in UNION {[D -> Blob] : D \in SUBSET Path} :
              \A p, q \in DOMAIN t : p # q => ~Covers(p, q)}

Only(w, ps)    == [p \in DOMAIN w \cap ps |-> w[p]]
Without(w, ps) == [p \in DOMAIN w \ ps |-> w[p]]
Over(put, w)   == [p \in DOMAIN put \cup DOMAIN w |-> IF p \in DOMAIN put THEN put[p] ELSE w[p]]

\* What the file system answers about a path in the working tree w.
Look(w, p) ==
    IF p \in DOMAIN w THEN "file"
    ELSE IF p = <<>> THEN "directory"
    ELSE IF \E q \in DOMAIN w : Covers(p, q) THEN "directory"
    ELSE IF host /\ Above(p) \cap DOMAIN w # {} THEN "error"
    ELSE "nothing"

-------------------------------------------------------------------------------
Entry(p, b) == [path |-> p, stage |-> 0, blob |-> b, skip |-> FALSE, intent |-> FALSE]

PathsOf(ix)  == {e.path : e \in ix}
Under(ix, p) == {e \in ix : Covers(p, e.path)}

\* The entries of stage zero, by path.
Plain(ix) ==
    LET zero == {e \in ix : e.stage = 0}
    IN  [p \in PathsOf(zero) |-> CHOOSE e \in zero : e.path = p]

FromTree(t) == {Entry(p, t[p]) : p \in DOMAIN t}

\* The tree of an index, where there is one.
Writable(ix) ==
    /\ \A e \in ix : e.stage = 0 /\ ~e.intent
    /\ \A e, f \in ix : e # f => ~Covers(e.path, f.path)
TreeOf(ix) == [p \in PathsOf(ix) |-> Plain(ix)[p].blob]

Matches(w, e) == e.path \in DOMAIN w /\ w[e.path] = e.blob

-------------------------------------------------------------------------------
\* How a call ends.
Answer(call, outcome, w, ix, h) ==
    /\ files' = w
    /\ index' = ix
    /\ head'  = h
    /\ last'  = [call |-> call, outcome |-> outcome]
    /\ UNCHANGED host

Refuse(call) == Answer(call, "refused", files, index, head)

\* Writing to p fails below a file and where a directory is not empty.
Blocked(w, p) == Above(p) \cap DOMAIN w # {} \/ Look(w, p) = "directory"

\* The paths that lead through a file, and those the adapter reports for it.
Astray(w, ps)   == {p \in ps : Above(p) \cap DOMAIN w # {}}
Reported(w, ps) == {p \in ps : Look(w, p) = "error"}

\* Files are removed, then written (an old file goes first), then the index is
\* published, then HEAD.  The removal of a path in "stuck" fails; an obstacle ends
\* the call where it is met, a crash anywhere.
Apply(call, gone, stuck, put, ix, h) ==
    LET cleared  == Without(files, gone)
        obstacle == {p \in DOMAIN put : Blocked(cleared, p)} \cup Astray(put, DOMAIN put)
        early    == IF stuck \cup obstacle = {} THEN "stopped" ELSE "failed"
    IN  \/ \E some \in SUBSET (gone \cap DOMAIN files) :
               Answer(call, early, Without(files, some), index, head)
        \/ /\ stuck = {}
           /\ \E some \in SUBSET (DOMAIN put \ obstacle) :
               \E torn \in {{}} \cup {{p} : p \in DOMAIN put \ some} :
                   Answer(call, early, Without(Over(Only(put, some), cleared), torn), index, head)
        \/ /\ early = "stopped"
           /\ \/ Answer(call, "done", Over(put, cleared), ix, h)
              \/ h # head /\ Answer(call, "stopped", Over(put, cleared), ix, head)

-------------------------------------------------------------------------------
\* What an add finds at and below p: not the untracked files that are ignored.
IsIgnored(p) == \E q \in Ignored : Covers(q, p)

Found(p, force) ==
    {f \in DOMAIN files : /\ Covers(p, f)
                          /\ force \/ f \in PathsOf(index) \/ ~IsIgnored(f)}

Add(p, force) ==
    LET call  == [op |-> "add", force |-> force]
        found == Found(p, force)
        kept  == index \ Under(index, p)
    IN  IF Look(files, p) = "error" \/ p \in DOMAIN files \ found
        THEN Refuse(call)
        ELSE Answer(call, "done", files, kept \cup FromTree(Only(files, found)), head)

\* Several paths, or with other wishes: only what is tracked, removals left
\* alone, new paths announced without their content.
AddPaths(ps, wish) ==
    LET call    == [op |-> "add_paths", force |-> wish = "force"]
        tracked == PathsOf(index)
        found   == {f \in UNION {Found(p, wish = "force") : p \in ps} :
                        wish = "update" => f \in tracked}
        removed == {p \in tracked \ found : /\ wish # "keep"
                                            /\ \E q \in ps : Covers(q, p)}
        new     == IF wish = "intent" THEN found \ tracked ELSE {}
        staged  == {IF f \in new THEN [Entry(f, Empty) EXCEPT !.intent = TRUE]
                                 ELSE Entry(f, files[f]) : f \in found}
        unknown(p) == Look(files, p) = "nothing" /\ Under(index, p) = {}
        refuses(p) == /\ wish # "force" /\ IsIgnored(p)
                      /\ \/ p \in DOMAIN files \ tracked /\ wish # "update"
                         \/ Look(files, p) = "directory" /\ Under(index, p) = {}
    IN  IF \E p \in ps : Look(files, p) = "error" \/ unknown(p) \/ refuses(p)
        THEN Refuse(call)
        ELSE Answer(call, "done", files,
                    {e \in index : e.path \notin found \cup removed} \cup staged, head)

-------------------------------------------------------------------------------
\* A removal is unsafe when HEAD or the index does not have what would be lost.
UnsafeRemoval(p, cached) ==
    LET entry  == CHOOSE e \in index : e.path = p
        staged == ~(p \in DOMAIN head /\ head[p] = entry.blob)
        local  == ~Matches(files, entry)
    IN  /\ \A e \in index : e.path = p => e.stage = 0
        /\ p \in DOMAIN files
        /\ IF cached THEN local /\ staged /\ ~entry.intent ELSE local \/ staged

\* A path below a file ends the loop, but the entries are taken out all the same,
\* unless it is the first and the adapter reports it.
RemovePaths(p, recursive, cached, force) ==
    LET call     == [op |-> IF cached THEN "remove_cached" ELSE "remove", force |-> force]
        selected == Under(index, p)
        paths    == PathsOf(selected)
        unseen   == Reported(files, paths)
        rest     == index \ selected
    IN  IF \/ selected = {}
           \/ ~recursive /\ paths # {p}
           \/ \E e \in selected : e.skip
           \/ ~force /\ \E q \in paths : q \in unseen \/ UnsafeRemoval(q, cached)
        THEN Refuse(call)
        ELSE IF cached \/ Astray(files, paths) = {}
        THEN Apply(call, IF cached THEN {} ELSE paths, {}, <<>>, rest, head)
        ELSE \E some \in SUBSET (paths \cap DOMAIN files) :
                 \/ /\ unseen # {} /\ some = {}
                    /\ Answer(call, "failed", files, index, head)
                 \/ /\ unseen # {} => paths # unseen
                    /\ Answer(call, "failed", Without(files, some), rest, head)

-------------------------------------------------------------------------------
MovePath(from, to, force) ==
    LET call     == [op |-> "move", force |-> force]
        New(p)   == to \o SubSeq(p, Len(from) + 1, Len(p))
        selected == Under(index, from)
        others   == index \ selected
        isDir    == Look(files, from) = "directory"
        there    == Look(files, to)
        parent   == SubSeq(to, 1, Len(to) - 1)
        over     == {e \in others : ~isDir /\ force /\ e.path = to}
        carried  == {f \in DOMAIN files : Covers(from, f)}
        Moved(fs) == Over([q \in {New(f) : f \in fs} |-> files[CHOOSE f \in fs : New(f) = q]],
                          Without(files, fs))
        refused  ==
            \/ from = to \/ selected = {}
            \/ \E e \in selected : e.stage # 0 \/ e.skip
            \/ Look(files, from) \in {"nothing", "error"}
            \/ isDir /\ (from \in PathsOf(selected) \/ Covers(from, to))
            \/ ~isDir /\ PathsOf(selected) # {from}
            \/ there = "error" \/ (isDir /\ there # "nothing")
            \/ ~isDir /\ (there = "directory" \/ (there = "file" /\ ~force))
            \/ Look(files, parent) # "directory"
            \/ \E e \in over : e.stage # 0
            \/ \E e \in others \ over, f \in selected : Collide(e.path, New(f.path))
    IN  /\ {New(f) : f \in carried \cup PathsOf(selected)} \subseteq Path
        /\ IF refused THEN Refuse(call)
           ELSE \/ Answer(call, "done", Moved(carried),
                          (others \ over) \cup {[e EXCEPT !.path = New(e.path)] : e \in selected},
                          head)
                \/ \E some \in SUBSET carried :
                       Answer(call, "stopped", Moved(some), index, head)

-------------------------------------------------------------------------------
\* What stands in the way of a checkout of tree t.
SameName(t, cur, p) == p \in DOMAIN t \cap DOMAIN cur
Same(t, cur, p) == p \in DOMAIN t \cap DOMAIN cur /\ t[p] = cur[p].blob

NoUntrackedCheck(t) ==
    LET cur == Plain(index)
    IN  \E p \in DOMAIN cur :
            /\ ~Same(t, cur, p)
            /\ Look(files, p) # "nothing" /\ ~Matches(files, cur[p])

NoParentCheck(t) ==
    LET cur == Plain(index)
    IN  \/ \E p \in DOMAIN cur :
               /\ ~Same(t, cur, p)
               /\ Look(files, p) # "nothing" /\ ~Matches(files, cur[p])
        \/ \E p \in DOMAIN t \ DOMAIN cur : Look(files, p) # "nothing"

CheckoutConflict(t) ==
    LET cur == Plain(index)
    IN  \/ \E p \in DOMAIN cur :
               /\ ~Same(t, cur, p)
               /\ Look(files, p) # "nothing" /\ ~Matches(files, cur[p])
        \/ \E p \in DOMAIN t :
               \/ \E q \in Above(p) : \/ Look(files, q) = "error"
                                      \/ q \in DOMAIN files /\ q \notin DOMAIN cur \ DOMAIN t
               \/ p \notin DOMAIN cur /\ Look(files, p) # "nothing"

\* Materialise tree t; HEAD names the tree h afterwards.
CheckoutTree(call, t, h) ==
    LET cur  == Plain(index)
        same == IF call.force THEN {} ELSE {p \in DOMAIN t : Same(t, cur, p)}
    IN  IF ~call.force /\ CheckoutConflict(t)
        THEN Refuse(call)
        ELSE Apply(call, DOMAIN cur \ DOMAIN t, Reported(files, DOMAIN cur \ DOMAIN t),
                   Without(t, same),
                   {cur[p] : p \in same} \cup FromTree(Without(t, same)), h)

Switch(t, force) == CheckoutTree([op |-> "switch", force |-> force], t, t)

Reset(t, mode) ==
    LET call == [op |-> mode, force |-> TRUE]
    IN  CASE mode = "soft"  -> Answer(call, "done", files, index, t)
          [] mode = "mixed" -> Apply(call, {}, {}, <<>>, FromTree(t), t)
          [] mode = "hard"  -> CheckoutTree(call, t, t)

\* A commit of what is staged.
Commit ==
    LET call == [op |-> "commit", force |-> FALSE]
    IN  IF Writable(index) THEN Answer(call, "done", files, index, TreeOf(index))
                           ELSE Refuse(call)

-------------------------------------------------------------------------------
None == [call |-> [op |-> "none", force |-> TRUE], outcome |-> "done"]

\* The caller has its answer; the user changes a file.
Return == last # None /\ last' = None /\ UNCHANGED <<host, files, index, head>>

Edit(w) == files' = w /\ UNCHANGED <<host, index, head, last>>

\* What an unforced call takes away from the working tree is in the index as it was,
\* or, after a move, under another name: whatever is in the way, wherever it stops.
\* A restore gives up the changes of tracked files, and what lies in a directory that
\* took the place of one; a clean takes away untracked files only.
Recorded(p) == \E e \in index : e.path = p /\ (e.blob = files[p] \/ e.stage # 0)

MayLose(call, p) ==
    CASE call.op = "move"    -> \E q \in DOMAIN files' : files'[q] = files[p]
      [] call.op = "restore" -> \E q \in PathsOf(index) : Covers(q, p)
      [] call.op = "clean"   -> p \notin PathsOf(index)
      [] OTHER               -> Recorded(p)

NothingLost ==
    [][last' # last /\ (~last'.call.force \/ last'.call.op = "clean") =>
         \A p \in DOMAIN files : \/ p \in DOMAIN files' /\ files'[p] = files[p]
                                 \/ MayLose(last'.call, p)]_wtVars

\* An unforced call that has passed its checks fails on the way only where a tracked
\* path leads through a file, or through another one, or where merged trees do not
\* fit in one.
Tangled == \E p \in PathsOf(index) : Above(p) \cap (DOMAIN files \cup PathsOf(index)) # {}

ChecksSuffice ==
    [][last' # last /\ last'.outcome = "failed" =>
         last'.call.force \/ last'.call.op = "clash" \/ Tangled]_wtVars

===============================================================================
