----------------------------- MODULE RefStoreInv ------------------------------
(***************************************************************************)
(* The inductive invariant behind the theorems about RefStore: what each   *)
(* process may rely on at every point of its call.                         *)
(***************************************************************************)
EXTENDS RefStore

WriterLabels == {"idle", "lock", "lockPacked", "check", "checkPacked", "filter",
                 "publishPacked", "commit", "unlock", "done", "release", "releaseBoth"}
PackerLabels == {"idle", "scan", "packLock", "packLockPacked", "packMerge",
                 "packPublish", "packPrune", "packUnlock", "release", "releaseBoth"}
ReaderLabels == {"idle", "readLoose", "readPacked"}

\* A loop is left as soon as it has nothing to visit, and visits only
\* references of the call.
WriterLoop(w) ==
    /\ pc[w] \in WriterLabels
    /\ todo[w] \subseteq DOMAIN edits[w]
    /\ edits[w] = NoEdits <=> pc[w] = "idle"
    /\ pc[w] \in {"lock", "check", "checkPacked", "commit", "unlock"} => todo[w] # {}
    /\ pc[w] \in {"lockPacked", "filter", "publishPacked"} => todo[w] = DOMAIN edits[w]
    /\ pc[w] = "done" => todo[w] = {}
    /\ pc[w] = "lockPacked" => Deletes(edits[w])

PackerLoop(p) ==
    /\ pc[p] \in PackerLabels
    /\ pc[p] \notin {"scan", "idle"} => todo[p] \subseteq DOMAIN items[p]
    /\ pc[p] \in {"scan", "packLock", "packLockPacked", "packMerge", "packPublish",
                  "packPrune", "packUnlock"} => todo[p] # {}
    /\ pc[p] \in {"packLockPacked", "packMerge", "packPublish"} => todo[p] = DOMAIN items[p]
    /\ pc[p] = "packPrune" => prune[p]

\* The precondition of w's edit of r holds now, and the lock file of r has the
\* value it is about to publish.
Checked(w, r) ==
    /\ Permits(edits[w][r], Cur(r))
    /\ edits[w][r].new \in Id => staged[r] = edits[w][r].new

\* What a transaction has checked stays true until it has published it.
WriterView(w) ==
    /\ pc[w] \in {"check", "checkPacked"} => \A r \in DOMAIN edits[w] \ todo[w] : Checked(w, r)
    /\ pc[w] = "checkPacked" => loose[Least(todo[w])] = None
    /\ pc[w] \in {"filter", "publishPacked"} => \A r \in DOMAIN edits[w] : Checked(w, r)
    /\ pc[w] = "publishPacked" => packedStaged = WithoutDeleted(edits[w], packed)
    /\ pc[w] \in {"commit", "unlock"} => \A r \in todo[w] :
          IF edits[w][r].new = None
            THEN packed[r] = None /\ (loose[r] # None => Checked(w, r))
            ELSE Checked(w, r)
    /\ pc[w] = "unlock" => LET r == Least(todo[w]) IN
          edits[w][r].new = None /\ loose[r] = None

\* No packed value shows through under a collected reference (only a packer
\* could bring that about), so one that still has the id it was collected
\* with is still loose; and no loose file that packing removes is newer than
\* what has been packed.
PackerView(p) ==
    /\ pc[p] = "scan" => \A r \in todo[p] : loose[r] # None \/ packed[r] = None
    /\ pc[p] \in {"scan", "packLock", "packLockPacked", "packMerge", "packPublish"} =>
          \A r \in DOMAIN items[p] : loose[r] # None \/ packed[r] = None
    /\ pc[p] = "packPublish" =>
          /\ \A r \in DOMAIN items[p] : Cur(r) = items[p][r]
          /\ packedStaged = MergedWith(items[p], packed)
    /\ pc[p] = "packPrune" => \A r \in todo[p] :
          loose[r] = items[p][r] /\ packed[r] = items[p][r]
    /\ pc[p] = "packUnlock" /\ prune[p] => \A r \in todo[p] \ {Least(todo[p])} :
          loose[r] = items[p][r] /\ packed[r] = items[p][r]

\* Some transaction is past the point where it published packed-refs without r,
\* and has yet to finish with r.
DeletionUnderWay(r) ==
    \E w \in Writer : /\ pc[w] \in {"commit", "unlock"}
                      /\ r \in todo[w] /\ edits[w][r].new = None

\* A reader that missed the loose file finds in packed-refs a value it may return.
ReaderView(q) ==
    /\ pc[q] \in ReaderLabels
    /\ reading[q] = None <=> pc[q] = "idle"
    /\ pc[q] # "idle" => Cur(reading[q]) \in window[q]
    /\ pc[q] = "readPacked" =>
          \/ packed[reading[q]] \in window[q]
          \/ packed[reading[q]] = None /\ DeletionUnderWay(reading[q])

IInv == /\ TypeOK
        /\ LockDiscipline
        /\ \A w \in Writer : WriterLoop(w) /\ WriterView(w)
        /\ \A p \in Packer : PackerLoop(p) /\ PackerView(p)
        /\ \A q \in Reader : ReaderView(q)

\* Two packers defeat the bookkeeping (README, section 7).
SinglePacker == \A p, q \in Packer : p = q
===============================================================================
