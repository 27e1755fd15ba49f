------------------------------- MODULE Sparse -------------------------------
(***************************************************************************)
(* Sparse checkout: directories are selected, the tracked files outside are  *)
(* taken out of the working tree and marked in the index.  And status, which *)
(* passes over what is marked.                                               *)
(***************************************************************************)
EXTENDS Restore

VARIABLE cones      \* the selected directories; {<<>>} where the checkout is full

Full == {<<>>}

\* Files in the root, in a directory on the way to a selected one, and all below.
ConeIncludes(p, cs) ==
    LET parent == SubSeq(p, 1, Len(p) - 1)
    IN  \/ parent = <<>>
        \/ \E c \in cs : p # c /\ Covers(c, p)
        \/ \E c \in cs : c # parent /\ Covers(parent, c)

\* Of directories one in the other the outer one counts.
Normal(cs) == {c \in cs : ~\E d \in cs : c # d /\ Covers(d, c)}

\* Missing files that are selected are restored, clean ones outside are removed;
\* the index tells, and only then the selection itself is stored.
Select(op, cs, mark, force) ==
    LET call     == [op |-> op, force |-> force]
        inside   == {e \in index : e.stage # 0 \/ ConeIncludes(e.path, cs)}
        outside  == index \ inside
        missing  == PathsOf({e \in inside : e.stage = 0 /\ Look(files, e.path) = "nothing"})
        Leaves(e) == \/ Look(files, e.path) = "nothing"
                     \/ Look(files, e.path) = "file" /\ (force \/ Matches(files, e))
        removed  == {e.path : e \in {o \in outside : Leaves(o)}} \cap DOMAIN files
        marked   == {[e EXCEPT !.skip = e \in outside /\ Leaves(e) /\ mark] : e \in index}
        restored == {e \in index : \E p \in missing : Covers(p, e.path)}
        put      == [p \in PathsOf(restored) |-> Plain(index)[p].blob]
    IN  IF \/ Reported(files, PathsOf(index)) # {}
           \/ Astray(files, missing) # {}
           \/ \E e \in restored : e.stage # 0
        THEN Refuse(call) /\ UNCHANGED cones
        ELSE \/ /\ Apply(call, removed, {}, put, marked, head)
                /\ cones' = IF last'.outcome = "done" THEN cs ELSE cones
             \/ /\ Astray(put, DOMAIN put) = {}
                /\ Answer(call, "stopped", Over(put, Without(files, removed)), marked, head)
                /\ UNCHANGED cones

SetSparse(cs, force) == Select("sparse", Normal(cs), TRUE, force)
AddSparse(cs, force) ==
    cones # Full /\ Select("sparse", Normal(cones \cup cs), TRUE, force)
Reapply(force)       == cones # Full /\ Select("sparse", cones, TRUE, force)
UnmarkOnly(force)    == cones # Full /\ Select("disable", cones, FALSE, force)
DisableSparse(force) == cones # Full /\ Select("disable", Full, FALSE, force)

-------------------------------------------------------------------------------
\* What status reports: HEAD against index, index against files, untracked files.
\* (Where an adapter reports a path below a file, status fails instead.)
Unmerged == PathsOf({e \in index : e.stage # 0})

StagedChanges ==
    LET cur == Plain(index)
    IN  Unmerged \cup {p \in DOMAIN head \cup DOMAIN cur :
            ~(p \in DOMAIN head \cap DOMAIN cur /\ head[p] = cur[p].blob)}

LocalChanges == PathsOf({e \in index : e.stage = 0 /\ ~e.skip /\ ~Matches(files, e)})
Untracked    == {f \in DOMAIN files : f \notin PathsOf(index) /\ ~IsIgnored(f)}
-------------------------------------------------------------------------------
\* A switch that is not forced takes local changes and untracked files along and adds
\* none; after a switch and after reset --hard nothing is staged.
SwitchCarries ==
    [][last' # last /\ last'.outcome = "done" /\ last'.call.op \in {"switch", "hard"} =>
         /\ StagedChanges' = {}
         /\ last'.call.force => LocalChanges' = {}
         /\ ~last'.call.force => /\ LocalChanges' \subseteq LocalChanges
                                 /\ Untracked \subseteq Untracked']_wtVars

\* A change of the sparse selection shows in status only where a path that was marked
\* is there after all, with other content; what is marked is not there, and what is
\* selected is there (or was a directory, where tracked paths lead through another one).
SparseQuiet ==
    [][last' # last /\ last'.outcome = "done" /\ last'.call.op \in {"sparse", "disable"} =>
         /\ \A p \in LocalChanges' \ LocalChanges :
                p \in PathsOf({e \in index : e.skip}) /\ Look(files, p) # "nothing"
         /\ \A e \in index' : e.skip =>
                Look(files', e.path) = "nothing" /\ ~ConeIncludes(e.path, cones')
         /\ \A e \in index' : e.stage = 0 /\ ConeIncludes(e.path, cones') =>
                Look(files', e.path) # "nothing" \/ Tangled]_<<wtVars, cones>>
===============================================================================
