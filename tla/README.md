# Verification of git-rs

git-rs reimplements Git in safe Rust over an abstract `FileSystem` (a memory, a
host, or an object-store adapter). There is no server and no thread inside the
library: concurrency is several processes, or several tasks sharing one
`FileSystem`, calling into the same repository. The only primitives they
coordinate with are the file-system calls themselves: `write_new` (create a
file, or fail because it exists), `publish` (rename a lock file over its
destination), `read`, `write`, `remove_file`, `read_dir`. So the correctness of
the library under concurrency is the correctness of its lock-file protocols,
and its correctness otherwise is that of its algorithms over objects, graphs
and trees.

## 1. Inventory

| part | source | state | operations | what is hard |
|---|---|---|---|---|
| reference store | `refs.rs` | loose files `refs/**`, `packed-refs`, `<ref>.lock`, `packed-refs.lock` | `update_reference`, `delete_reference`, `apply_reference_transaction`, `apply_mixed_reference_transaction`, `read_reference`, `references` | interleaving of transactions, reads that take no lock, two places where a value may live, cleanup of locks by name |
| packing | `pack_refs.rs` | the same files | `pack_refs` (collect, lock, re-check, publish, prune, unlock) | moves values between the two places under the readers and writers |
| reflogs | `refs.rs` (second half) | `logs/**`, `logs/<ref>.lock` | `update_reference_with_reflog`, `append_reflog`, `drop_reflog`, `rewrite_reflog` (delete, expire, prune stale) | two locks per call, order of log and reference publication |
| object store | `repository.rs`, `object.rs`, `pack.rs`, `multi_pack_index.rs`, `commit_graph.rs` | loose objects, packs with `.idx`, `.keep`, `.mtimes` | `write_object`, `read_object`, pack publication | readers while packs are replaced, a cached list of packs |
| maintenance | `gc.rs`, `repack.rs`, `prune.rs`, `prune_packed.rs`, `fsck.rs`, `maintenance.rs` | `gc.pid`, `objects/maintenance.lock` | `gc`, `repack`, `prune`, `prune_packed`, `run_maintenance` | deleting objects while others write and read them |
| transfer | `receive_pack.rs`, `upload_pack.rs`, `upload_pack_v2.rs`, `push.rs`, `fetch.rs`, `pull.rs`, `refspec.rs`, `shallow.rs`, `bundle.rs` | advertised references, the file `shallow` on both sides | commands of a push (atomic or not), fetch, clone, pull, choice of objects, depth and deepening | the window between the check of a command and its application, between advertisement and request, and between pack, boundary and references; what the other side is taken to hold |
| history | `revision.rs`, `revparse.rs`, `rev_list.rs`, `name_rev.rs`, `describe.rs`, `bisect.rs` | the commit graph with replace references, `shallow` and the commit-graph file; the files and references of a bisection | walk, ancestry, merge bases, naming, bisection | algorithms with subtle invariants; a saved graph that is older than the repository; sessions over many calls |
| sequencing | `commit_operation.rs`, `operations.rs`, `rebase.rs`, `am.rs`, `stash.rs`, `branch.rs` | `HEAD`, sequencer files, index | commit, reset, switch, merge, cherry-pick, revert, rebase, am, stash | several files updated one after the other, stop and resume |
| index and worktree | `index.rs`, `worktree.rs`, `read_tree.rs`, `merge.rs`, `restore.rs`, `clean.rs`, `checkout_index.rs`, `sparse_checkout.rs` | `index`, `index.lock`, worktree files, the sparse patterns | add, remove, move, switch, restore, clean, read-tree, sparse selection | checks that must cover all that is written; a change that stops half way; paths one below another |
| linked worktrees and branches | `linked_worktree.rs`, `branch.rs` | `worktrees/<name>/` with `gitdir`, `commondir`, `HEAD`, `index`, `locked`; the `.git` file of each directory; branches with log and configuration | add, lock, unlock, remove, move, repair, prune; delete and rename a branch | two places that name each other, written one after the other and moved by others; a HEAD in each worktree |
| algorithms on texts | `diff.rs`, `apply.rs`, `merge_file.rs`, `range_diff.rs` | none | edit script, patch, reversal, three-way merge, pairing of two series | bounds at every edge, assertions on the way, results that are valid but not the best |
| pure codecs | `attributes.rs`, `ignore.rs`, `config.rs`, `archive.rs`, `fast_import.rs`, `fast_export.rs`, ... | none | parse, format, match | data, not control |

What makes each part correct, and where the question is settled, is in section 4
for the parts that have modules and in section 8 for the others.

How the parts interact: every call that adds objects (a commit, a fetch, a
push that is received) writes loose objects or publishes a pack, and then
changes references through `refs.rs`; `fsck` takes its roots from `refs.rs`,
the reflogs and the index, and `repack`, `prune` and `gc` delete what `fsck`
does not reach; `pack_refs` and the reflog calls share lock files with the
transactions of `refs.rs`. All of them meet in the files of the repository
and nowhere else, but for the caches a `Repository` value keeps of pack
indexes, pack bytes, the list of packs, and replacements.

## 2. Modules

| module | models | its state | its actions |
|---|---|---|---|
| `AtomicRefs` | what the reference store promises | the value of each reference; per client the request, what has taken effect, the outcome; per reader the values its reference had since it began | submit, one edit takes effect, succeed, fail, read |
| `RefStore` | `refs.rs` transactions and `read_reference`, `pack_refs.rs` | `loose`, `packed`: the two places of a value; `owner`, `staged`, `packedOwner`, `packedStaged`: the lock files; `pc`, `todo`, `edits`, `items`: where each call is | one action per file-system call that others can observe: lock the next reference, lock packed-refs, check the loose file, check packed-refs, publish, remove, release |
| `RefStoreInv` | | | the inductive invariant `IInv` |
| `RefStore_proofs`, `Reflog_proofs`, `ObjectStore_proofs`, `Fetch_proofs`, `WorkTree_proofs`, `Linked_proofs`, `History_proofs` | | | theorems on the modules they are named after (`RefStore_proofs` on `RefEnumeration` too): section 6 |
| `RefEnumeration` | `references` beside all of `RefStore` | the listing, the directory entries still to read | read packed-refs, read the directory, read a child, end |
| `Reflog` | one reference and its log: `update_reference_inner`, `append_reflog`, `drop_reflog`, `delete_reference`, `rewrite_reflog` | `ref`, `log`, the two lock files with their contents, and per call what it has read (`seen`, `base`) and prepared (`fresh`) | the steps of each call, and its cleanup |
| `ObjectStore` | `write_object`, publication of packs, `read_object_raw`, `fsck`, `repack`, `prune`, `prune_packed`, the object stages of `gc` | `loose` with ages; `packs`, `indexes`, `tables` (`.mtimes`), `kept` (`.keep`); `roots`; `gc.pid`; the calls under way | one action per step that others can observe; `GiveUp` and `Abandon` end a call early anywhere |
| `ReceivePack` | `receive_pack`: what the server does with a request, and the others in its repository | `objects`, `value`, `head`; `held`, the locks of a transaction; per call its stage, verdicts, what is left to apply | unpack, read HEAD, check the next command, publish the pack, apply the next command; prepare a transaction, publish its next reference, break off; stop; switch, update and prune by others |
| `Push` | `push`, composed with `ReceivePack` | per client the call, the advertisement as far as read, the answer | start, read one reference of the advertisement, refuse, send, take the answer, give up |
| `Push_proofs` | | | the theorems on pushes in section 6 |
| `UploadPack` | the sending side of a fetch: `upload_pack.rs`, `upload_pack_v2.rs` | none: the answer to a request is a function of the repository that serves it | |
| `Fetch` | `fetch`, `clone_from`, `pull` with `refspec.rs` and `shallow.rs`, composed with `UploadPack` | `server`, `client`: objects, references, boundary; `call`: the call under way, its advertisement, request, response and edits | start, exchange, publish the pack, write the boundary, prepare and apply the references, finish a clone or a pull, break off; others move references, commit, delete, collect |
| `Revisions` | `revision.rs`, `rev_list.rs`, the look-ups of `commit_graph.rs`, `replace.rs` | `parents`, `date`, `replaced`, `shallow`, `saved` (the commit-graph file) | write a commit, a replacement, a boundary, a commit-graph |
| `Naming` | `name_rev.rs`, `describe.rs` | `refs` | set a reference |
| `History` | the questions to both | `answer` | one per question |
| `Bisect` | `bisect.rs` | branches, HEAD, the files and references of the session | start, mark, next, reset, each with the states it may stop in |
| `WorkTree` | `worktree.rs`, `index.rs`: add, remove, move, checkout, reset, switch, commit | `files`, `index`, `head`; `host`: the adapter; `last`: the call that just ended | one per call, ending in any state it leads through |
| `ReadTree`, `Restore`, `Sparse` | `read_tree.rs`; `restore.rs`, `checkout_index.rs`, `clean.rs`, `update_index.rs`; `sparse_checkout.rs`, `status.rs` | `cones` (in `Sparse`) | one per call |
| `Linked` | `linked_worktree.rs`, `branch.rs`, the switches of several worktrees | `repo`: the registrations, the directories with their `.git` files, every HEAD, and tip, log and section of each branch, as one record; `did`: the call that just ended | one per call, ending in any state it leads through; work in a directory, its removal or move by others, removal of lock files, passing of time |
| `Sequencer` | `commit_operation.rs`, `merge.rs`, `operations.rs`: commit, reset, switch, merge, cherry-pick, revert | `disk`: HEAD, branches, index, files, MERGE_HEAD, CHERRY_PICK_HEAD and the states of series, as one record; `began`, `answer` | a procedure gives the sequence of records a call leads through |
| `Rebase`, `Stash` | `rebase.rs` and `am.rs`; `stash.rs` | parts of `disk` | start, continue, skip, abort; push, apply, pop, drop |
| `Operations` | the calls of these one after the other | `stops`, `keep` | a call ends or breaks off, the user edits and stages |
| `LineDiff`, `Patch` | `diff.rs`: `myers`, `compact_patch_edits`, `line_changes`, hunks; `apply.rs`: `apply_hunks`, `reverse_patch` | none: operators, recursive where the code loops | |
| `TextMerge` | `merge_text_configured` in `diff.rs`, which `merge_file`, tree merges and replayed commits share | none | |
| `RangeDiff` | `range_diff.rs`: equal patches, cost matrix, `minimum_assignment`, the order of the rows | none | |
| `Texts` | the calls to these four, and reference definitions of what they promise | `call`: the call made last | one per call |
| `MCRequests`, `MCRefStore`, `MCReflog`, `MCObjectStore`, `MCPush`, `MCFetch`, `MCHistory`, `MCWorkTree`, `MCOperations`, `MCTexts` | | | the instances TLC checks |

`RefStore` implements `AtomicRefs`: its definition `Abstract` is the refinement
mapping (the value of a reference is its loose file, or else its entry in
packed-refs). `RefEnumeration` extends `RefStore`; the two share one state, and
`MCRefStore` checks both.
`Push` extends `ReceivePack`: a client and the call that serves it have one name,
and a repeated push is that of another client. What `ReceivePack` takes from the
layers below it is what they are shown to promise: a single update is atomic and
conditional, a transaction holds its references from its checks to its
publications (`RefStore`), and a pack appears whole (`ObjectStore`).

`Fetch` extends `UploadPack`, `Operations` extends `Rebase` and `Stash` and these
`Sequencer`, which takes what it needs to know of files and index from an instance of
`WorkTree` over its record (`W(d)`): so a merge, a rebase or a stash checks and writes
the working tree as a checkout does. `History` and `Bisect` read one graph
(`Revisions`); `MCHistory` has both. `ReadTree` and `Sparse` (over `Restore`) extend
`WorkTree` and share its state in `MCWorkTree`, which also has `Linked`: there a directory is
clean, dirty or empty, and what a call does to its files is left to `WorkTree`.

How to read a step. The library runs between two file-system calls without
being observed, so an action is one such call together with the computation up
to the next. Where several calls read what only the process itself can have
changed (a lock file it has just created) they are one action. An error of the
storage is not an action of its own in `RefStore` and `Reflog`: a call that
fails there stops like a crashed one, its lock files left behind, or takes the
cleanup path the code has, where a check or a lock fails. In `ObjectStore`,
where nothing is cleaned up but `gc.pid`, `GiveUp` is both. In `WorkTree`, `Linked`, `Bisect` and
`Operations` one process is at work, as in a working tree it should be: what counts is where
a call may stop, so a call is one step to its end or to any of the states in between,
in the order in which the code writes its files. In `Fetch` the steps are the
publications of the client.

Abstractions. Object ids and values are model values; a reference name is a
number, ordered as the code orders names; a pack is the set of its objects,
because its name is a hash of its content; an age is "old" or "fresh" with
respect to the one cutoff that calls are given. A path is a sequence of numbers, a blob
stands for content and mode; a commit of `Sequencer` is what its object says, with the
number of its change for a message. In the push, fetch and history modules an object is
a number and names smaller ones only, which is how its links are kept acyclic; a history has
finitely many commits. Wording, dates and encodings
are left out: no property is about them.

## 3. Plan

The order is that of what is lost when the code is wrong: references first,
then logs, then the objects themselves, then the calls built on top.

1. `AtomicRefs`, `RefStore`, `RefEnumeration`: done. Proved: section 6.
2. `Reflog`: done. Proved: section 6.
3. `ObjectStore`: done for loose objects, packs and maintenance. Proved: section 6. Left: gc
   beside packs that are received or kept, in a proof; stale multi-pack-index, the upload path and its cache, the lock of `run_maintenance`.
4. `ReceivePack` and `Push`: done for one server, its clients and others in the
   repository; `UploadPack` and `Fetch`: done for one client and one server. Proved:
   section 6. Left: several rounds of negotiation (this client sends one), bundles.
5. `Revisions`, `Naming`, `History`, `Bisect`: done. Proved: ancestry, merge bases, lists of
   commits and names, section 6. Left: revision syntax, logs, blame.
6. `Sequencer`, `Rebase`, `Stash`, `Operations`: done for one process. Left: two processes
   over HEAD and its log, notes.
7. `WorkTree`, `ReadTree`, `Restore`, `Sparse`, `Linked`: done for one process. Proved, but for
   `Mendable`: section 6. Left: submodules.
8. `LineDiff`, `Patch`, `TextMerge`, `RangeDiff`, `Texts`: done. Left: ignore patterns and
   attributes, rename detection, blame, delta encodings with their limits.

Each has an MC module and its configuration, mutants, and, where a proof is
within reach, a module `..._proofs`; recursion in those is written as recursive functions.
The modules on texts and on replaying commits have RECURSIVE operators and are for TLC alone. Instances stay small: two references or
objects that matter plus one that does not, two or three processes, and a
variable that selects the workload, so that one run asks one question of
several mixes of calls instead of their product.

## 4. Runs

| run | configuration | shows |
|---|---|---|
| `store` | `MCRefStore_store` | transactions, `pack_refs` and readers implement `AtomicRefs`; packing changes no value at any step; the inductive invariant, of which type correctness and the account of every lock file are parts; beside writers that delete nothing, an enumeration misses no reference and lists no value the reference did not have |
| `live` | `MCRequests_live` | every call that has begun returns, whatever locks it meets |
| `reflog` | `MCReflog_log` | no update and no entry is lost, log and reference agree - in each workload where the code keeps that promise |
| `objects` | `MCObjectStore_store` | nothing reachable, nothing just stored and nothing unexpired is lost; pairs are whole; raw reads find what is reachable |
| `push` | `MCPush_push` | pushes move branches forward only; a report tells what took effect; atomic requests are whole; a pack leaves out nothing that is needed; what references name can be read |
| `history` | `MCHistory_history` | ancestry, merge bases, lists and names agree with reachability whatever replacements, boundaries and saved graphs there are; a bisection finds the culprit, asks only what can tell, and restores HEAD |
| `worktree` | `MCWorkTree_worktree` | a call without force takes nothing from the user that is not in the index or HEAD; what a call has checked, it can do; a switch carries local changes along; a sparse checkout hides no change; calls on linked worktrees keep what was changed in them, leave directory and registration naming each other, can be mended after they break off; branches take every HEAD along |
| `operations` | `MCOperations_operations` | an abort restores what was there; a rebase or a series of mails has each change once and in order; a merge under way is not forgotten; a stash loses nothing |
| `fetch` | `MCFetch_fetch` | what the references of the client lead to is always there, wherever a call breaks off; depth and deepening reach exactly as far as asked |
| `texts` | `MCTexts_texts` | edit scripts, also compacted ones, are shortest and no assertion on the way fails; a patch applies to what it was made from and can be taken back from whatever it applies to; a merge that returns loses no change and marks overlaps only; no pairing of two series costs less |
| `touching` | `MCTexts_touching` | violation: a merge panics where the other side inserts just before a line that ours replaces or deletes |
| `lostpack` | `MCObjectStore_lost` | violation: a pack received while `repack` runs is deleted as an old one |

The two violations are behaviours of the code that a line of its documentation
rules out; PROJECT.json, "findings", quotes the line of each.

### Bounds

`store`. Two references, two ids, two writers, one packer, one reader, in four
workloads: two writers with transactions that mix an update, a verification and
a deletion, and single edits that interfere; a packer beside one writer with
edits of every shape; packer, reader and two writers on one reference, the
packer beside two of the other three. Two references are the least for lock
order, for a transaction that has one lock and is refused the other, and for
packing that finishes one and not the other. Two ids tell an old value from a
new one; ids and writers are symmetric. One packer, because with two the
properties fail (section 7). The fourth workload is an enumeration beside one writer
that creates and updates: one reference packed or missing, one loose and
perhaps packed as well; nothing is deleted or packed (section 7).

`live`. Two transactions over the same two references, beside packer and reader,
one id: what the value is does not matter to whether a call returns. No
symmetry, which TLC's liveness checking does not allow.

`reflog`. Three processes and one reference in five workloads: logged updates; a
log like that of HEAD, to which others append and which they drop; expiry;
deletions; rewrites that move the reference (two calls at a time). No call
begins when the log has two entries, so that it may grow to four; entries
beyond the newest two are only carried along. Every promise states the workload
in which the code can keep it; section 7 tells why the others are left out.

`objects`. Three objects: a base, one that names it, and garbage that nothing
names: the least with a link to follow and something to lose and to keep. One
writer, one reader, two maintenance processes; at most three packs, the one from
before and the two that a repack writes (two where nothing is removed). Five
workloads, see `Load` in `MCObjectStore`. Where gc is not in play one maintenance
call runs at a time; with gc, the second may begin only beside the first, which
is how the lock file gets its test. The store begins with no tables (an earlier
gc makes them) and no `.keep` files. Three restrictions leave out interleavings
under which the code does lose objects; section 7 tells them: `Rewrites` is
empty, `NoClash`, `NoStrayTable`.

`push`. A tree, two commits on it and two more side by side on these: the least
with a fast-forward, a replacement that is none, and a common part to leave out of
a pack. The receiver is shallow at the middle commit or, since the objects behind
it may be there as well, in effect complete. Two branches, so that a request can
half fail, and two clients: the first makes any of six calls (forward, forced,
deletion, two updates one by one, two together, an update and a deletion
together); the second forces or deletes, and waits for its answer. One step of
others (`Meddling = 1`): main set back, dev deleted, HEAD switched, or all
garbage pruned. The advertisement reads main before dev. DenyCurrent is on and
HEAD may be detached.

`history`. Every graph of four commits with up to two parents each, and of five for
merge bases, where a criss-cross with something below it needs five; one
load per kind of question, since an answer reads the graph and changes nothing. Two
references for names, of every kind; two dates, which matter for the order of a list and
for what `name_revs` passes by. Replacements and boundaries come and go before and after
a commit-graph is written. Bisection: two histories (a merge of two branches; a merge that
leads to an old commit both ways), HEAD on a branch or detached, sessions with and without
checkout, every truthful user, every skip.

`worktree`. Three paths, one of them below another, and two contents: the least for a
file in the place of a directory, a directory in the place of a file, and a
neighbour that must not be touched. Both adapters (`host`). Three loads - plain calls,
merges of trees, sparse checkouts - of any length: the state space is finite. Trees are
from `Few`, which has each shape and mixed contents. Two loads for linked worktrees: two names
and three places, one inside another, for all calls on places; two worktrees that stay where they
are and three branches for the calls on branches. They begin with none, one or two worktrees,
so that three calls (`MaxCalls`; one that breaks off counts twice) have each pair of calls
after every stop; four calls, with stops anywhere, found nothing more.

`operations`. Two paths with three contents each, four histories: both sides change a
path, one side deletes it, a change that upstream has already, upstream behind. Two changes
to replay are the least for an order and for a conflict at the first and the second.
Five loads; at most four commits behind HEAD, two stashes, one call that breaks off
(`MaxStops`), two or four touches of the user by load (`Touches`): a conflict at each of two
changes takes an edit and a staging each.

`fetch`. Five commits in a line, with a side branch and a merge, trees that share, swap
and keep subtrees, tags of a commit and of a tree; a server that is complete or shallow.
Load `whole`: two calls of any kind without depth, by rule, by configured refspecs
(forced, unforced with a negative one, two into one), and two moves of others. Load `depth`:
three calls with depth 1 or 2, deepening by 1 or 2, or neither, and one move. Two
fetches and a deepening are the least for a boundary behind another.

`texts`. Every line ends with a newline; the limits on lines, cells and output are left
out. Scripts and patches with context 1: every two texts of up to five lines of two kinds, which
has each way a group of changes slides, meets another and is aligned. Patches without
context, where nothing but position and removed lines hold them: texts of up to three lines,
on every third text. Merges: all triples of texts of up to two lines of three kinds and up to
three of two, and five alternating lines against sides of four or five: the least with
regions that grow from both sides. Series of up to two patches each with costs of 1, 2 and
4 against 1 and 2 for a patch without a partner, so that each choice can be the cheapest. `touching`
has the same inputs.

CHECK_DEADLOCK FALSE stands in the configurations of `Reflog`, where no call
begins once the log has reached its bound, and of `ObjectStore`, where the bound
on packs may leave a call without a step, of `Push`, whose clients push once, of `MCFetch` and `MCOperations`,
where the bounds on calls end a behaviour, of `MCHistory`, where a finished session is not
followed by another, and of `MCWorkTree`, where `Few` limits what may be committed. `RefStore` never stops: a call can
always be submitted.

## 5. Fairness

Safety needs none. `live` assumes weak fairness of the steps of each call that
has begun (`Fairness` in `RefStore`): the code between two file-system calls is
straight-line, it never waits for a lock (`write_new` fails when the file
exists, and the call then cleans up and returns), so a process that is scheduled
takes its next step. A new call is never forced, and nothing is assumed of a
process that is idle. A crashed process is one that takes no more steps; `live`
says nothing about it, the safety runs include it.

## 6. Proofs

`RefStore_proofs`, checked by TLAPS for any sets of references, ids, writers and
readers, and any requests:

* `Invariance`: `IInv` is an invariant. `TypeCorrect` and `LocksHeld` are its first
  two conjuncts.
* `DeleteLocksHeld`: the promise in the comment of `delete_reference` holds with one packer
  (with two it does not: section 7).
* `Refinement`: the specification implements `AtomicRefs`.
* `PackingInvisible`: no step of `pack_refs` changes what a reference resolves to.

All of them assume `SinglePacker`: at most one process runs `pack_refs`. That is
needed: two packers may prune the same file, the second
fails, and its cleanup then removes lock files that belong to others by then.

Why an invariant stronger than the properties: that a deletion cannot uncover an
older packed value depends on what the transaction has already checked
(`WriterView`), on what packing knows of the files it will remove (`PackerView`:
the loose file, the packed entry and the id that was collected agree), and on
what a reader that missed the loose file may find (`ReaderView`); and these
depend on who holds which lock (`LockDiscipline`) and on which references are
still to be visited in each loop (`WriterLoop`, `PackerLoop`). The proof has one
lemma per action and conjunct. The refinement is then a step by step mapping:
under `IInv`, publishing or removing a file of a writer is one abstract edit
taking effect, a step of the packer is a stutter, and the two reads of a reader
return a value from its window.

`Push_proofs`, for any number of clients and commands, any graph of objects and any
number of steps of others:

* `Invariance`: `Inv`, which is `IInv` of `Push` with the shape of the state.
* `Reports`: the report of an ended call tells what took effect.
* `Atomic`: an atomic request that ends and holds no lock changed all or nothing.
* `ForwardOnly`: a push that neither forces nor deletes moves a branch to a
  descendant of the value it has at that moment.
* `Connected`: what references lead to can be read, but for what others pruned while
  a session needed it (`TipsConnected`).
* `Complete`: a push misses nothing but what was pruned since and what is behind the
  shallow commits of the receiver (`NothingMissing`).

`ForwardOnly` is the one a reader may doubt, since the client decides from an
advertisement that may be long out of date. The argument: a session never leaves
the request its client planned (`ServesPlan`), the plan was valid against the
advertised ids, and a reference changes only while its value is the old id of the
command: compared in the very step for a single update, and for a transaction
compared under the lock and kept until its publication (`HeldMatches`). So the
value that is replaced is the one the client compared. `Reports` and `Atomic` rest
on `Progress` and `Batch`, which relate what is still to apply, what has been
applied and what is reported, at each stage. A deletion whose log cannot be
removed has taken effect and is reported as failed; with it a transaction reports
all of its commands as failed. These are the exceptions in `Truthful`.

`Connected` rests on what a session has checked about each command it may still apply: the
closure of its new id lies in the objects there are, in those of the pack that it publishes
before the first update, or in `lost`. A pruning in between adds to `lost` what a session needs,
which is what `TipsConnected` exempts and no more.

`Complete` needs the walks themselves. `Closure` and `Below` are recursive functions; that such
functions exist is proved with the least closed set (`Visited`), and facts about them by taking the
smallest object for which they fail (`First`: links lead to smaller ids, as hashes can form no
cycle): a walk in the shallow repository visits what the walk in a full one does, but for what is
behind shallow commits (`BelowClosure`). With it: what `ToSend` leaves out is behind a reference as it was
advertised, was there then by `TipsConnected`, and is there still unless pruned (`Known`).

The last part of `RefStore_proofs`, on `RefEnumeration`:

* `ListingHolds`: a listing misses no reference that is there all the time and lists values
  the references had while it ran. Assumed, beside `SinglePacker`: no transaction deletes
  (`NoDeletions`), and pack_refs removes no loose files (`NoPruning`); section 7 has what
  happens otherwise. Transactions, failures and packing without pruning
  go on beside the listing. The invariant is `IInv` and what the listing has read in each of its stages: where
  packed-refs was read and the directory not, a reference without a loose file is in
  what was read or was created since.

`Reflog_proofs`, for any processes and ids, and any mix of the calls:

* `Invariance`, and from it `LockOwners`, `UpdatesKept`, `EntriesKept`, `LogCovers`: the four
  properties of the run `reflog`.

A lock file says who made it, so the core is which stages of a call rely on which file
(`RefLockHeld`, `LogLockHeld`) and what a call knows while it does: the reference has the value
compared (`RefCurrent`), the log is what was read, or what was read and the entry just
published (`LogFollows`). The cleanup that removes the lock of another call is kept in the
model, so each part names the mixes of calls that it covers, as the properties do. The
attempt to prove `LogCoversRef` showed that it was stated for one mix too many: the entry of an
update that makes the reference symbolic ends at an id of the target, and the next starts
anywhere. `OnlyLogged` now asks for direct updates, which the comment of the function is about.

`ObjectStore_proofs`, for any object graph, any writers, readers and maintainers at once, and any
sequence of stages:

* `TypeCorrect`: with the stage of each call, since the code of a stage reads what an
  earlier one has collected.
* `PackedRootsAvailable`, `PackedStoredStays`, `PackedPairsWhole`, `PackedReadsFind`,
  `PackedOnlyExpiredLost`: the five properties where no job removes packs (`KeepsPacks`: repack
  without `-d`, prune and prune_packed, with or without gc.pid, beside loose writes,
  received packs and kept packs). No process waits for another here. Invariant (`KInv`):
  objects go only as loose files, and each call that removes one has found it in a pack
  (`Redundant`) or unreached and old at a survey that cannot become untrue for it
  (`Condemned`): what was garbage and old then is reached later only by a call that
  writes it anew, and `write_object` leaves an old loose copy alone, hence the assumption
  `"loose" \notin Rewrites`.

The second part of `ObjectStore_proofs`, where packs are removed (`GcAlone`: every job takes gc.pid, any
number of processes try; others write loose objects at the same time; an object of which an
old copy may expire is not written again, which is section 7's `Rewrites`):

* `GcRootsAvailable`, `GcStoredStays`, `GcPairsWhole`, `GcOnlyExpiredLost`. Assumed of a
  behaviour that expires objects: `NoStrayTable`, no gc stops between removing a pack and its `.mtimes`
  (section 7). `GcKeeps` does without it where no job expires.

The invariant follows one gc through its stages. What the survey saw is still there and what
is reached since is new (`Surveyed`); every object that has to stay is in a pack yet to be
written or in one that is not removed (written and verified before the first removal); what
is to be removed was listed before the new packs were chosen. It needs the lock: of two
repacks each may count on a pack that the other removes.

`Fetch_proofs`, for any objects, any repository that serves (shallow ones included), any sequence of
fetches, clones and pulls with any refspecs, each broken off anywhere, while others move the references
of the server, commit at the client, delete references and collect what none reaches:

* `WholeAlways`: `ClientWhole`, what the references of the client lead to is there.
* `DepthAlways`: `DepthMet`, what is visible is as deep as was asked for.

The invariant `IInv` says what a call may count on at each stage. From the answer on, what the wants lead
to and what is behind the boundaries that go, down to the boundary to come, is in the pack or there
(`Promised`); from the new boundary on it is there, and only this is published (`Delivered`). A call that
stops in between leaves objects that no reference leads to, and a boundary behind which nothing is
missing. `DepthKept` does the same for the depth: with the answer it is decided, and has only to be written.

The work is in the answer. That `SelectUploadObjects` leaves out only what the client has needs both
boundaries: the walk from the haves stops at that of the client and at that of the server, and so stays within
what the client has. Trees are compared name by name, so that a subtree is left out only if the trees had
contain it, at any depth (`Compared`). For the depth, a walk that counts generations gives, for each
commit, a path as short as `Within` has it, and the other way round; the recursive functions
exist, and are the only ones, by the least place where they would fail. `Apart` is what the proof of a
deepening cannot do without: otherwise a new boundary may lie before an old one, and hide what the
old one still should show (section 7). The boundary of a shallow server does not hurt: it is told as a boundary
or the fetch is refused.

`WorkTree_proofs`, for any set of paths, however deep, any contents and ignored paths, and both adapters.
`TreeSpec` has every call of `WorkTree`, `Restore`, `ReadTree` and `Sparse` with any arguments, edits
of the user in between, and each end a call may have:

* `TreesFit`: files and HEAD stay trees; no path has two entries of stage zero.
* `WorkKept`, `ChecksHold`, `ChangesCarried`, `SelectionQuiet`: `NothingLost`, `ChecksSuffice`,
  `SwitchCarries`, `SparseQuiet`.

Each call has one lemma that shows the four at once (`Shown`), through one lemma on `Apply` (what it
may leave behind when removals and writes are cut short) and facts on paths (of two directories of
a path one lies in the other; below a directory that leads to a selected one, every
directory on the way is included: `ConeUpward`). The induction is light, the case analysis is
not: that a conflict was looked for wherever a write or removal may take something. Without
the single entry of stage zero `SparseQuiet` would not hold, since the last of two would be
compared. Three things in the model were put right on the way. A selection that is applied
restores, with a missing path, what the index has below it; the stop in between is met only where the
files can be written. `SparseQuiet` did not say that a selected path may be a directory
where tracked paths lead through one another. And `read_tree` had cases that
overlapped; they now follow the order of the code.

`Linked_proofs`, for any names, places, branches and commits. `LinkedSpec` has every call of `Linked`
with any arguments, each end it may have, and whatever others do to the directories; it begins with
any HEAD, references, logs and sections, and no worktrees:

* `ReposFit`: the parts of a repository fit together (`Repos`): a registration has its fields,
  however far it was written, and what a directory lies in is a directory.
* `DirectoriesKept`, `BranchesFollowed`: `TreesKept`, `BranchesFollow`.

A call is a sequence of states, so each has one lemma (`Shown`) with the same three parts: a set that
all of its states are in, described by what they may differ in from the first (`Removes`, `Adds`,
`Repairs`, `Moves`, `Heads`); what the last one is, if the call comes so far; and the properties from
those two. The lemmas below are about registrations that go one after the other, field by field
(`RemoveAdminsIs`: whichever are gone, each of the others is as it was), and about paths: a directory
that is renamed keeps what is in it, in a tree again, and renamed back all is as before
(`RenamedIs`, `RenamedBack`), which is why a move that returns an error leaves nothing behind. A move that
is done has its work at the destination since links are published only where the directory is.

`History_proofs`, for any finite set of commits with any dates, parents in any order, any references,
replacements, boundaries and saved histories. `HistorySpec` has every change and every question, with any
arguments:

* `AncestryAlways`: `AncestryTrue`, the answers of `is_ancestor`, `merge_bases`,
  `merge_bases_octopus`, `walk_revisions` and the lists of `left...right` are what reachability says. As in the
  run, merge bases and `left...right` are exempt while a boundary is set (section 7);
* `NamesAlways`: `NamesTrue`, a name that `name_revs` gives leads to the commit it names, every commit that
  some reference leads to by commits young enough has one, from a tag if a tag leads there; and
  `describe`, with as many candidates as there are references, answers with a name that leaves out as few commits as any;
* `FitsAlways`: `HistoryFits`, the invariant beside both. Commits lead to smaller ids that are there,
  as written and as read (`GraphFits`); a saved history is whole; references name commits that are there
  (`RefsFit`).

`HistoryFits` is inductive by itself, and an answer is judged by the graph and the references, which stay while
it is there. The rest is that the loops of the code compute what the definitions say. A loop is a recursive function on its state: it exists (`LoopExists`,
`CountExists`) and ends, since each step leaves less of a finite set (`LoopEnds`) or a counter
climbs (`Climb`). The searches stop early, and each proof is about why they may:

* in the commit-graph file, a walk passes by whatever has no larger generation than the commit it is looking for; it
  finds it nevertheless, since generations, as they were saved, fall along parents (`SearchEnds`,
  `WalkFileIs`);
* `best_commits` marks what is behind a common commit as it comes to it, in an order in which no commit comes
  before one that leads to it: when its turn comes, a common commit is marked exactly if another leads
  to it (`StaleIs`, `BestIs`);
* a merge base with several commits is taken one by one, which loses nothing since the bases
  of two commits cover all that both lead to (`CoversBest`, `OctopusIs`);
* a list that leaves out what hidden commits lead to is in order although the order was made
  of the visible commits only: nothing visible lies behind something hidden, so a path from one to another is visible (`OrderedAlong`);
* the two sides of `left...right` never lead to each other, so each may be listed by itself
  (`PartsInOrder`, `SidesAreExact`);
* a name of `name_revs` may be replaced many times, and again after it has been passed on, so neither
  the commits nor the stack get fewer. The loop ends since distances stay below a bound (`BoundExists`: a step
  adds at most 65535 and leads to a smaller id, so a distance with 65535 times the id does not grow), and each
  replacement leaves fewer pairs of a tip and a distance that would still improve the name of its commit (`Open`,
  `ImproveOn`); when nothing is replaced, the stack gets shorter (`LoopEndsBoth`);
* what names then say is two invariants of that loop: a name leads where it should (`Sound`: the way from a commit to its
  k-th parent is that of the commit and one step, `ParentNameLeads`), and what has a name has passed it on or is
  still queued (`Spreads`). With nothing queued, the named commits are closed under parents, and so are
  those that are named from a tag, and reachability is the least such set (`NamesAreExact`);
* `describe` keeps one reference per commit, none of a greater priority being passed over
  (`BestNames`), so its candidates are at most as many as references and none is cut off (`CandidatesAre`), and the
  nearest of them exists and is the nearest of all (`NearestIs`, `DescribesExactly`).

What the proofs assume of constants is in the `ASSUME` of each module: for `ObjectStore`, that a
job has a stage, that packs are removed only in a mode `validate_repack_options` lets pass, that
`prune` takes gc.pid, alone or as a stage of gc (`prune.rs:94`, `gc.rs:86`), and that a call which
writes objects for a reference writes the one it names; for `UploadPack`, that objects link to smaller
ones and to objects of the kinds that belong there, which every reader insists on; for `Fetch`, that
calls have their fields and a depth is at least one; for `Revisions`, that ids of commits are
finitely many numbers, none of them zero, and dates are numbers; for `Naming`, that names of references and the slop
are numbers; for `Linked`, that names, branches and
commits are numbers, which stand for their order, and that a place lies in places.

Model-checked only:

* liveness (`EveryCallReturns`), which the prover cannot treat with ENABLED and fairness;
* `Mendable`, which folds calls over sets of names and directories: what a whole series of repairs
  comes to is an induction over data;
* gc that removes packs beside packs that are received or kept, and reads beside it, where the code
  gives no promise (section 7) or one that needs `NoClash`;
* bisection in `history`: its weights are sums over folds of the library, so that what they come to is
  an induction over data;
* `operations`, `texts`: their modules have RECURSIVE operators, over series of commits and
  texts, which the prover's SMT backend refuses;
* whatever concerns more than one packer.

## 7. What the runs leave out because the code does not hold it

Behaviours found while modelling, each possible in the code, for which there is no
run of its own. The properties say which of them they exempt.

References, logs, objects, pushes:

* Of two calls of `pack_refs` the second fails at a file the first has pruned, after it has
  published packed-refs and given up its locks one by one; its cleanup removes
  `packed-refs.lock` and lock files by name (`pack_refs.rs:121`), among them one that a
  deletion holds by then, although `delete_reference` says it keeps the lock to the end. The
  runs have one packer, the theorems assume one.
* An enumeration that has read packed-refs and not yet the directory lists the
  packed value of a reference whose newer loose value hid it and that is deleted
  in between (`refs.rs:320`): a value from before the call. `ListingTrue` is checked without deletions.
* `delete_reference` removes the log after it has given up the reference's lock and
  without taking the log's (`refs.rs:614`): it removes the first entry of a
  reference created again meanwhile, and an `append_reflog` that read the log
  before publishes the deleted entries again. `NoEntryLost` excludes deletions.
* A receiver publishes a pack of the very content of one that `repack` removes:
  it finds the `.pack` there, writes the index that has just been removed, and the
  `.pack` goes (`pack.rs:962`, `repack.rs:424`): an index without its pack, also with
  `.keep`. `NoClash` excludes it.
* A gc that stops between removing a pack and its `.mtimes` leaves the table; a
  pack of the same content received later is dated by it, and its objects expire
  at once (`repack.rs:436`, `repack.rs:503`). `NoStrayTable` excludes it.
* `write_object` leaves an old loose copy as old as it is (`object.rs:167`), and a
  prune under way removes it; likewise, `prune` and `prune_packed` remove a fresh
  loose copy of an object that has an old packed one, which a later
  `gc` with an expiry removes. `Rewrites = {}` excludes both.
* A reader that has listed a pack which a repack then removes fails and does not
  look again; `read_object_for_upload` looks in the packs first, so it also misses
  an object that moves from a loose file to a pack in between, and its list of
  packs is a cache that other processes do not invalidate (`pack.rs:1130`).
  `ReadsFind` is checked where no pack is removed.
* A push reads HEAD once, before its checks (`receive_pack.rs:254`): a switch to the
  branch before the update lets the push change the branch that is checked out,
  which `deny_current_branch` is there to prevent. `push` has the switch; no
  property forbids the outcome.
* `receive_pack` takes no lock against `prune` or `gc`: an object it found may be
  pruned before the reference names it (`receive_pack.rs:271`). `TipsConnected`
  allows for exactly the objects that were pruned while a session needed them
  (`lost`), and for nothing else.
* A transaction whose publication fails half way leaves lock files and a part of
  its effect (`refs.rs:728`); its report says that all failed. `AllOrNothing` and
  `ReportTruthful` name this case.
* `repack` and `prune_packed` called on their own do not take `gc.pid`, and
  `run_maintenance` takes another lock (`maintenance.rs:125`).
* An enumeration that has read packed-refs misses a reference that `pack_refs` packs and
  prunes in between (`refs.rs:320`), although `refs.rs:301` says that all are
  enumerated. `ListingTrue` is checked without a packer.
* `rewrite_reflog` ends with an unconditional removal of `<ref>.lock` (`refs.rs:1590`): a
  rewrite that moves the reference, refused because the lock is there, removes the lock of the
  call that holds it, and two updates may then be at work at once. It also reads the log
  before it takes the log's lock (`refs.rs:1531`) and so drops an entry that
  `append_reflog` adds in between. `NoUpdateLost` and `NoEntryLost` name the workloads without.

Fetches:

* A deepening walks from the wants to the nearest boundary (`upload_pack.rs:850`): a
  boundary behind another one stays, and may hide history although
  `docs/shallow.md:28` has every frontier extended. Where the new boundary is the
  old one behind it, the answer names it as shallow and unshallow at once, and the client rejects
  it, each time. `DepthMet` speaks of boundaries that lie apart (`Apart`).
* A depth-limited fetch of a tag that names a tree leaves out what is in the tree, and with it
  the trees that commits share with it (`upload_pack.rs:796`): the root is entered before its
  closure is collected. `Begin` asks for a depth only where no reference names a tree.
* `reachable_objects_at_depth` reads through replace references, while the pack holds the
  originals, whose trees it then misses.
* A server that is shallow cannot serve a fetch without depth whose walk reaches its boundary:
  `select_upload_objects` goes on to the missing parents. `fetch` has it as a refusal.
* The file `shallow` is read, changed and written without a lock (`fetch.rs:633`): of two
  fetches at once one may lose its boundary. `Fetch` has one call at a time.
* A boundary that no reference reaches is no root of `fsck`; once gc removes the commit, every
  `shallow_commits`, and so every fetch and gc, fails. `Exchange` has the failure.

Texts:

* A merge whose theirs inserts just before a line that ours replaces or deletes panics (run
  `touching`). `MergeSound` is about merges that return.

History and bisection:

* With a shallow boundary `best_commits` follows parents of shallow commits and
  drops merge bases; `name_revs` does not read `shallow`. `BasesBest` and `SidesExact` are
  about complete histories. `rev_list_symmetric` with first parents may mark a common
  commit as left.
* A bisection started on a detached HEAD cannot be reset in checkout mode
  (`bisect.rs:360` takes the id for the name of a branch), although `docs/bisect.md:38`
  promises it; one that mixes `no_checkout` between calls is reset without HEAD
  being restored. `SessionTrue` is about the other sessions.
* `mark_bisect` accepts a bad commit outside of the interval that is left. When all candidates but
  the bad one are skipped it proposes the bad one, again and again.
* A stop between the transaction on references and `BISECT_START`, or inside the
  cleanup, leaves a session that can be neither started nor reset.

Working tree (`NothingLost` and `ChecksSuffice` name what they exempt):

* Without force, checkout and switch compare the working tree with the index, never with
  HEAD: staged changes are overwritten.
* `restore` without force deletes untracked files in a directory that took the place of a
  tracked path absent from the source (`restore.rs:268`). Also forced, it fails half way
  when a tracked path leads through a file.
* `add` of `d/x` beside an index entry `d` gives an index no tree can be written
  from (`Tangled`); merges of two and three trees can do so, too, and `read_tree -u` then fails
  half way. `merge_three` passes over staged changes.
* `read_tree -u` and a forced checkout fail half way where a path to remove lies
  below what is a file by now, or a non-empty directory is in the way.
* On the host adapter a path below a file is an error other than NotFound, so that an
  unforced switch from a file to a directory is always refused, and `status` fails.
* `add .` takes skipped entries (sparse) for deletions; reset, checkout and two-way
  merges forget the skip bits. A stop while a selection is applied leaves files
  deleted without a skip bit, or bits of a selection that is not stored.
* The index is read, changed and written with `index.lock` held for the publication only
  (`index.rs:428`): of two calls at once one loses its changes. Nor is anything held
  between the checks of a checkout and its writes. `WorkTree` has one process.

Linked worktrees and branches (`TreesKept` and `Mendable` leave out what is `Contested` or
`Enclosing`):

* A switch never asks whether another worktree has the branch (`operations.rs:127`), although
  `docs/worktree.md:152` says "Each branch may be active in only one worktree":
  only `add_worktree` and the calls on branches do. `BranchesFollow` asks it of them.
* `add_worktree` and `repair_worktree` do not ask whether another registration names the
  place. Of two that do, `prune_worktrees` removes the second by name, though it be the one
  that the directory leads to (`linked_worktree.rs:356`).
* `remove_worktree` takes the directory from `gitdir` and does not look whose `.git` file is
  there (`linked_worktree.rs:535`): forced, it removes the directory of another worktree.
* A stopped addition or removal leaves a registration without HEAD, at which
  `linked_worktrees`, and with it every addition, deletion and forced rename of a branch, fails
  until it is pruned or removed by force - which takes with it the worktrees that lie inside its place.
* `rename_branch` publishes the two references in the order of their names: a stop in between leaves
  neither or both (`branch.rs:116`); one that comes later loses the log or leaves HEADs
  naming a branch that is gone. Without force it fails at an existing section of the
  new name (`config.rs:235`) when all else is done.

Sequencing (`AbortRestores`, `SeriesComplete`, `NothingForgotten`, `StashKeeps` name
what they exempt):

* An abort leaves a conflicted path that HEAD does not have as an untracked file, in spite
  of `docs/merge.md`, and a repeated merge is then refused. `AbortRestores` is about
  tracked files.
* A rebase that stops elsewhere than at a conflict can only be aborted; one that stops while
  its state is written or removed leaves a state that can be neither continued, aborted
  nor begun anew, and so does am.
* A stop between the commit and the state of am makes `continue_am` refuse, or commit
  later changes under the same mail; `SeriesComplete` is about series without stops.
* A stop between the move of a merge and the removal of its state makes `continue_merge`
  say that HEAD moved; one between CHERRY_PICK_HEAD and MERGE_MSG makes `continue` fail or take
  an old message; one between the files of a pick and CHERRY_PICK_HEAD leaves
  conflicts with nothing to abort.
* `reset` clears neither MERGE_HEAD nor CHERRY_PICK_HEAD; a merge does not look for a pick
  under way, a fast-forward not for changes; a rebase does not look for am;
  `abort_rebase` resets the branch that HEAD names by then.
* `stash_push` overwrites a file that was taken out of the index only; ignored
  files in the way of `stash_apply` are overwritten; `stash_pop` finds its entry by position again
  and may drop that of another process; log and `refs/stash` are published one after the other.
* Lock files that a stopped call leaves behind (`HEAD.lock`, `index.lock`) block later calls; but
  for those of `.git` and `gitdir` in `Linked`, the models take them as removed.

## 8. Not modelled

What was left out, and why (PROJECT.json, "components", has it per part):

* Formats: packs with their deltas and checksums, multi-pack-index, the encodings of index,
  config, attributes, mailmap, diffs, archives, packet lines. They are data without state, read
  byte by byte; a model would repeat them.
* Rename detection, blame, texts whose last line has no newline, ignore and attribute
  patterns: pure functions over text. `WorkTree` and `Sequencer` have the outcome of a
  content merge (clean, conflict) for the contents they use, not `TextMerge`.
* Fast import and export, archives: streams in and out.
* Submodules, remotes, tags, notes, rerere, maintenance tasks, bundles: calls of their own
  over the same files; nothing stands in the way of modelling them.
* Several rounds of negotiation of protocol version 2: the client of this library sends one.
* Two processes over one index or one HEAD: the code does not keep their changes apart
  (section 7), so that there is no promise to check.
* Limits on the number or size of objects, commits, files: a call fails at them.
* Links, gitlinks, stat data and assume-valid bits in the working tree.
