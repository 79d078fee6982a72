# A TLA+ model of amq-squad

`amq-squad` runs a squad of coding agents ("seats") on one repository. A lead
adds tasks to a durable store; a scheduler gives them to seats as leases; a
harness checks, commits and pushes what a seat reports done, and binds it to a
pull request; a merge train lands the pull requests; the owner answers gates.
Everything lives in files under one session directory, which several processes
(the scheduler, the lead's commands, the hooks of the seats) read and rewrite
concurrently, and any of which may be killed.

This directory holds TLA+ modules translated from the Go sources, TLC
configurations that check them on small instances, and TLAPS proofs of the
properties that matter most. `PROJECT.json` maps every definition to the lines
it stands for, and lists the runs, the mutants that show that each property can
fail, the hazards of the code, the findings and the theorems.

## Inventory

| Component | State it keeps | Operations | Modelled |
|---|---|---|---|
| Task store (`internal/task`) | one file per task: state, lease, attempts, report, block, verdict, pull request; unclean markers of seats | add, grant, claim, renew, done, complete, refuse, fail, block, release, reset, widen, escalate, set, cancel, wait, expire, snapshot, verdict, bind, merge, reserve and release a seat | `TaskStore`, `LeaseBoard` |
| Journal and snapshot (`task/transaction.go`, `task/task.go`) | `.transaction.json`, task files, `.generation`, the store lock | commit, replay, lock-free snapshot | `TaskJournal`, `AtomicStore` |
| Sealed files (`sealchain`, `seatcommit/ledger.go`, `atomicfile`) | a sealed ledger, its signed head, the session seed | read and check, write, roll back | `SealChain` |
| Scheduler (`scheduler`, `schedproc`) | seats, seat requests, exits queue and its file, commit steps | the tick, a restart with adoption, relaunch, a commit step's end | `Scheduler` (squads with a roster) |
| Seat commit (`seatcommit`, `schedproc/prepare.go`) | commit ledger, worktree, branches, pull requests | the commit step, cleaning a seat, starting a task, archiving an attempt | `SeatCommit` |
| Gate store, gate verification (`gatestore`, `gateverify`) | write-once questions, re-asks, answers, marks | ask, take an answer, re-ask, recover | `GateStore` |
| Merge train (`mergetrain`) | an audit log; the bindings in the task store; the forge | plan, rebase, re-bind, merge, reconcile | `MergeTrain` |
| Release store (`compoundrelease`) | records, pointer and claims of a release, a lock | create, reconcile, publish, claim, adopt, activate | `ReleaseStore` |
| Release flow (`releaseflow`) | markers, intent and draft record; the forge | prepare, publish, recover | `ReleaseFlow` |
| Routing log (`routing/chain.go`) | outcome and decision logs with a signed head | append, load, clear | no |
| Operator relay (`buzz`) | events seen | deliver the owner's answers | no (its deliveries are `HandleEvent` of `GateStore`) |
| Worktree plans | git worktrees and a plan file | prepare, apply, remove | no |
| Router, grants, status, launch, agent runtimes, command line | configuration, none, or processes | pure functions, display, process and socket I/O | no |

How they interact. The scheduler's tick and every `amq-squad task` command call
the task store; each call is one transaction under the store's file lock, which
first replays a journal that a killed process left. Commit steps run in
goroutines of the scheduler process and hold the ledger lock of their seat;
their results come back at a later tick. The cleaner of a seat takes the store
lock twice, to reserve and to release the seat, and works in between under the
ledger lock. Hooks of the seats renew leases without waiting. `status` and
`context` read the store without any lock. The merge train reads and writes the
pull request bindings of the store; the commit step writes them too. Refusals of
the train, widenings beyond a grant and the children of a release raise gates;
the gate store takes the owner's answers, and who raised a gate reads its
decision without the lock.

What is hard here:

- several processes rewrite the same files: every property of the store is one
  of all interleavings of its operations, and the timestamps they carry were
  taken before they waited for the lock;
- work is done between two takes of a lock (cleaning, verifying, committing),
  on state that may have changed at the second;
- a process dies, a write fails or the machine loses power between two renames;
- readers take no lock;
- calls to the forge may be lost, answered late, or overtaken by what people do
  there: a push, a merge by hand, an edited draft, a moved tag;
- leases expire while a seat, or the commit step of its report, still works.

## Modules

### `TaskStore`: the task store

One record `task[t]` per task file, with the fields of the Go `Task` and its
lease that any decision reads. Every operation of the store is one transaction
under the lock, so it is one action; its `at` is the caller's timestamp, taken
up to `Lag` before the present. Guards are the early returns, in the store's
terms: `Grantable` is `grant`, `Settled` and `Conflicts` are the two halves of
`Blocker`, `HeldBy` is the function of that name with its case of a refused
report, `Accepted` is `complete` with the verifier gate, `EndAttempt` appends the
attempt row. `WidenGated` has one disjunct for each of the three things a
widening does. A class a program verifies is in `Mechanical`; `gate` is what the
owner's configuration says at that moment (no verifier, a granted command, a
gate without a command, or unreadable) and changes at any time.

What is abstracted: which of several claimable tasks a pull takes (any of them);
`createdBy` and the callers `ResetBy` refuses (its steps are steps of `Reset`);
priorities, wording and the route of a block; the list of refused paths, kept as
a Boolean; the seal of a verdict, assumed not forged; the matching of path
patterns, an overlap of sets of paths.

`LeaseBoard` is what the rest of the squad relies on: a board of seats and files
held by open tasks. `TaskStore` implements it under the refinement mapping
`Board` (`hold` is the lease's holder, or the reporter of a refused diff).

### `TaskJournal`: transactions on files

A process under the lock goes through `commit`, `apply` and, when it finds a
journal, `recoverJournal`, one rename or directory fsync per action. `dir` is
the directory as processes see it; `disk` the directories since the last fsync,
of which a power loss leaves one (`Ordered`) or a mix (not `Ordered`). The
contents of a file are fsynced before its rename, so only names can be lost; the
generation file is not fsynced and may come back empty. A reader takes the steps
of `Snapshot`. `AtomicStore` is the abstract store, a value and the values a
crash may leave; the mapping is the overlay of the journal on the files.
Windows, where fsync of a directory does nothing and locks do not exist, is
left out.

### `SealChain`: a sealed file and its head

A link is (seq, previous tag, tag). Writers take the ledger lock, read and check
the file, then write the seed, a genesis head, the file and its head in the
order of `sealchain.Write`; a kill or a failed durable write (which restores the
old content, or fails to) stops them anywhere. `Peek` and `Judge` are the two
reads of a process without the lock, as `PrepareSeat` is. Only the harness
writes: tampering is what the seal is for, and is left out.

### `Scheduler`: the process that runs a squad with a roster

The tick is cut into actions where another process, or a commit step, can come
between: `ApplyEvents`, `Expire`, `Exits` (the first `List`, `loadExits`,
`scanAttempts`, `runExits`), `Sweep`, for each report `CallCommit` and one of
the four answers, `CommitsDone` (the second `List`), `Hold` (`closeAdopted`),
the roster's step (`DrainWaits`, `Drain`, `LaunchWaits`, `Launch`,
`LaunchFails`, `RosterSettled`), `Grant` and `Stick`, `CloseIdle`. `list` and
`holding` are what the tick read and still believes. `jobs` are the commit
steps, keyed by task as the committer keys them; `StepEnds` ends one at any
time. A lead's relaunch of a seat comes at any time too and is taken at the next
tick (`TakeRelaunch`). `queue` is the exits queue with the commit steps' entries, `file` what of
it is on disk, `unsaved` says that `saveExits` failed. `Lose` is what a death of
the process takes away, `Start` the adoption of the seats that live. The tasks
are those of `TaskStore` reduced to holder, attempt and what waits: seats and
the lead change them at any time. `checked` is history.

What is abstracted or left out: squads without a roster, whose seat requests and
slots a roster launch ignores (and with them `Reserve`, `SeatGone` and the `gone`
mark of an entry); pools, the lease cap and the usage limit; the doorbell; a
liveness answer "unknown" (the seat died after the check); the exit check of one
gone attempt twice; the archive of a widen request; launchers that confirm a
close later; whether a seat accepts a lease (its preparation may fail, so a
possible grant may not happen); several saves within one action, of which the
last counts. Which live seat is adopted and which is closed is any choice.
Time is left out: any lease without a report may be due. The count of deferrals
stops at its limit, which decides the step either way.

### `SeatCommit`: the commit step and the seat's worktree

The worktree is the content of each path: who wrote it in which attempt, or the
base. `head` is the branch checked out, `ledger` the commit ledger (commits with
parent and tree, the lease with its start, the stopped trees of discarded work),
`remote` and `prs` the forge, `task` the reduced store. `run[r]` is a commit
step at one of the places between two writes: the check for foreign pull
requests, the verifier, the commit object with its ledger entry, the push, its
mark, the pull request, its binding, the return to rest, the end of the lease.
`tick` is the scheduler's dispatch of the seat: reserve, clean (evidence kept in
the ledger, then the worktree, then the lease), release, grant, start of the task
(ledger first, then files, then the branch), ring. A return to rest (`toRest`,
in the step and in the clean) is three git processes and as many actions:
`read-tree -u --reset` moves the files that either tree has, `clean` removes the
untracked ones, and last HEAD goes to the resting branch. A kill or a deferral
may come between any two actions. `New` are the paths at which the base has no
file: where one is untracked it survives `read-tree`, so a clean has work. The
seat edits while it has a lease and, of task `t`, in the paths `Late[t]` after
its report. Strangers open pull requests on its branch.

Left out: the path policy, which is the declared set of the task; pulled claims,
which the code does not precede with a clean (`commit.go:466`); several seats,
which share nothing; the retention of evidence refs; a closed pull request; a
relaunch of the seat. The verifier passes or fails at will. The base tip that a
start fetches is any known one.

### `MergeTrain`: landing pull requests

`heads` are the commits ever pushed, with the work they carry (equal works have
equal patch ids), the base they are on, and one verdict that stands for CI and
the limits of the grant. `run[r]` walks through `Train.Run`: bindings, pending
re-binds, the reconciliation of intents and merges, the plan, then for each pull
request the rebase, its journal entry, the proof, the re-bind, the check, the
intent, the merge, the record, the journal. `inflight` holds the merges the
server was asked for: it may carry one out after the run gave up. Anybody pushes,
the commit step binds, the owner merges by hand and lifts refusals.

Left out: dry runs, manual mode, drafts, the batch digest, drift alerts; the
limit "strict" is on, and the owner's lift of it is not offered.

### `GateStore`: questions and the owner's answers

`shown` is what processes read, `kept` what a power loss leaves. A write under
the lock is two actions, the rename and the fsync of the directory. The question
and the one re-ask are reserved under the lock and published outside; an answer
goes through recovery, the reads without the lock (`Verify`), the history of
deletions, and the commit: the decision file, the mark of the gate, the mark of
the event. A decision without its marks is given them by whoever comes next.
The code fsyncs what it writes and not what it finds: a file that a process
linked before it was killed is used by the next one as it is. `unsynced` holds
the files left so, and while a file is in it the properties claim nothing that
rests on it; what they would claim is false, as told under "Seen while modelling".

### `ReleaseStore` and `ReleaseFlow`: releasing

`ReleaseStore` is the record of a release (`compoundrelease`): a locked
operation `op` stages and renames one file per action, so that a kill leaves any
prefix. Prepares create, reconcile, publish, claim the child sends, adopt and
activate. `ReleaseFlow` extends it with the publish that follows: the tag, then
the release, each with its marker, over an intent with a nonce, a record of the
draft, and a forge where drafts are edited and tags moved. A draft is as prepared,
or its body was edited, or it names another tag or commit: the last is not
adopted, and a new one is made in the same run. `pub.late` remembers what changed
after its last read, which the code cannot see. A deletion of a duplicate that
fails, which the code ignores, is left out.

### What each run checks

| Run | Instance | Shows |
|---|---|---|
| `task_store_locks` | 2 tasks, 2 seats, 2 paths, 3 attempts in all, no clock | seat and file exclusion, lifecycle, attempts and widen requests, final history, refinement of `LeaseBoard` |
| `task_store_rules` | 1 mechanical task, 2 seats, 3 instants, timestamps 1 late, 2 trees, 3 gate settings | unclean seats stay idle, reports do not expire, leases move forward, verdicts and the completion gate |
| `task_store_prs` | 2 tasks, 2 pull requests with 2 heads and 2 merges | bindings, merge proofs, dependencies |
| `task_journal` | 2 tasks, 2 writers, 1 reader, 2 transactions, 2 faults | atomicity, durability, snapshots, refinement of `AtomicStore` |
| `seal_chain` | 2 writers, 1 reader, 4 versions, 3 faults | the harness never rejects its own file, the head never forks |
| `seal_chain_peek` | 1 writer, 1 reader without the lock | finding 1 |
| `scheduler` | 1 seat, 1 task of 2 attempts, a limit of 2 deferrals, 2 of: a death, a fault, a relaunch | running steps have their entry; no lease before the exit checks; reports are decided and exit checks made |
| `scheduler_stale_result` | 1 seat, 2 attempts, no fault | finding 2 |
| `seat_commit` | 2 tasks of one seat, 3 attempts, 2 paths, 2 edits, 1 pull request, 1 fault | the ledger knows the head, no task commits work of another (what a kill on the way to rest may add is named), commits are one declared line, bindings are pushed, finished work is kept |
| `release_flow` | 2 prepares, 2 claims, 2 releases, 2 kills, 1 touch of the forge | records before pointers, activation is whole, claims stay, records match the forge, what is published was approved |
| `merge_train` | 1 pull request, 3 heads, 1 other merge, 1 kill or lost response, 1 lift | only reviewed work lands, records are true, every merge is recorded |
| `gate_store` | 2 processes, 2 answers, 1 deletion, 2 kills or power losses | answered once, the accepted approval stays checkable, one question and one re-ask, no mark without its answer, each as far as the files it rests on were fsynced |

Why the bounds are enough. Two tasks and two seats are needed for every conflict
the store decides, which are all between two tasks; three attempts allow a
second attempt of a task while another runs; a path more than one tells a
widening from a whole claim. One task suffices for the clock and the gate, whose
guards look at one task; three instants let a lease of length 2 run out, be
renewed and be claimed with a late timestamp; two seats let a marker be on the
seat the task leaves or goes to. Two transactions and two faults let a killed
transaction be replayed by another process that fails in turn. Four versions and
three faults let the file be ahead of its head twice. For the scheduler, a
second attempt lets a result, a check or a seat of the first be mistaken for the
second's, and two troubles let one interrupt the recovery from another (a fault
is a failed read, write, close, store call or launch; a failed launch also ends
the process); two deferrals are needed for a count that is kept over ticks and
restarts before it decides. For the seat, a second task meets what the first left in the
worktree and the ledger, and a second attempt what its first committed; every
property breaks, when it does, within one fault. The train needs three heads for
a rebase and a push beside it. For the gate, two answers and two processes give
every race for the lock, and two kills one in the recovery from the other. Two
prepares and two kills do the same for the release.

`MaxAttempts`, `MaxDeps`, `MaxTime`, `MaxTxns`, `MaxWrites`, `MaxFaults`, `Lag`,
`MaxEach`, `MaxTroubles`, `MaxEdits`, `MaxPRs`, `MaxHeads`,
`MaxOthers`, `MaxKills`, `MaxLifts`, `MaxAnswers`, `MaxDeletions`, `MaxClaims`,
`MaxReleases` and `MaxTouches` bound the models, not the code. `Retries` is 2
where the code has 20; `MaxDeferrals` is the code's limit made small: at 2 a
deferral may be the last or not.

Deadlock is checked for the journal and the scheduler. The other runs may stop:
all tasks closed, all bounds spent.

Liveness is stated for the scheduler and the train. The scheduler's `Fairness`
has two parts. The tick's steps and the start are weakly fair: `Run` ticks in a
loop, retries after an error, and is assumed to be run again after it ended. A
commit step ends: its work is bounded by the verifier's timeout. Nothing is
assumed of seats, of the lead, or of the outcome of a step, and faults and deaths
are finite. A report or an ended attempt may wait through them but not for ever.
One hypothesis is built in: an exit check defers only while the seat's commit
step has the ledger. The train is a command: `FairSpec` assumes that a run that
started goes on, unless killed, and that somebody runs it again. Nothing is
assumed of the forge: a merge it never carries out need not be recorded.

### Findings

Each is a run that TLC ends with a counterexample.

1. `PrepareSeat` (`schedproc/prepare.go:39`) reads the ledger of a seat without
   its lock and may report an untouched ledger as tampered.
2. A commit step's result can decide another attempt (`committer.go:63`): a
   report that is taken back, claimed again and reported again between two
   listings of the tick meets the job of the first attempt, whose result then
   completes or refuses the second.

### Seen while modelling

Behaviours of the models that no run states, because another property of the
same run would not hold beside them or they need rarer faults. They were each
seen in a counterexample of TLC, on the modules as they are, against the
property the sentence implies, unless said otherwise.

- A journal whose rename was never fsynced can be replayed: `recoverJournal`
  (`transaction.go:91`) applies it at once. If the machine then loses power and
  the file system does not keep the order of renames (`Ordered = FALSE`), half of
  the transaction may survive. On ordered file systems it cannot.
- `commit` returns a plain error when the directory fsync after the journal's
  rename fails (`transaction.go:79-81`), although the transaction is visible and
  will be replayed.
- A commit step that dies between opening its pull request and binding it leaves
  a pull request that every re-run refuses as somebody else's
  (`pr_bound_elsewhere`), although `openPR`'s comment says that a re-run after a
  crash finds it bound.
- A publish that dies after the release is public and its record removed, before
  the intent is removed or the marker written, makes the next one create a second
  draft (`releaseflow.go:593`), although the package comment says that a done
  marker keeps a retry from running it twice.
- A prepare killed between the record and the pointer leaves a store that
  `Create` refuses ever after (`compoundrelease/store.go:164`); by reading, a
  torn `writeOnce` (`releaseflow.go:674`) makes a file unreadable for ever, and a
  kill during a claim's write leaves a temporary file that the next operation
  refuses.
- A kill on the way to rest, while the report still waits: `settle`
  (`seatcommit/commit.go:412-441`) of a report without changes moves the files to
  rest before HEAD and before the task completes. A kill after `read-tree`
  (`commit.go:670`), or after the reset of the clean, makes the re-run compare
  the resting tree with the start of the lease and commit, in the task's name,
  the reverse of what the base branch changed since the last rest.
  `commit_test.go:503` says of a crash before `task.Complete` that the re-run
  makes no second commit, which holds where the first run had one to record.
  `OwnWorkOnly` therefore lets a commit of a task hold, besides its own work,
  the resting content of a path; without this it is violated with one kill.
- `writeOnce` says that a created file is durable before anyone acts on it
  (`gatestore/store.go:676`), and `PostQuestion` that a crash never produces a
  second question (`store.go:176-179`). Both hold of the process that writes the
  file. One that finds it, in `reserveQuestion` (`store.go:217`) or
  `recoverLocked` (`store.go:455`), does not fsync it: if the writer was killed
  between the link and the fsync, and the machine loses power after the second
  process acted, the file is gone. A second question is then signed and
  published, a mark outlives its answer, and an approval whose sender was told
  "accepted" can no longer be checked. Without their clauses on `unsynced`,
  `OnePost`, `EvidenceFirst` and `AcceptedIsUsable` are violated with one kill
  and one power loss; `AnsweredOnce` takes two kills and a power loss, one fault
  more than its run has.
- Two trains at once: the re-bind of a slow one replaces a newer binding and
  clears the merge recorded with it (`train.go:617`). Nothing keeps two apart, so
  `EveryMergeRecorded` is claimed of one train only; what is proved of any number
  survives this.
- A rebase whose response is lost leaves a force push that the journal does not
  know, and the head is refused until the owner lifts it.
- By reading: `inbound.go` marks an event seen after any verified outcome, so an
  answer refused for a passing reason is not taken when it is sent again; a plain
  re-ask uses up the one re-ask, so that a later deletion locks the gate until it
  expires; the gate's window is read before the commit, so an approval may land
  just after it.
- In `Scheduler`: a restart between an expiry and the close it orders adopts the
  seat as up, because the closing reason is only in memory (`scheduler.go:384`);
  an exit check refused in the first tick after a restart makes the roster owe a
  launch while the refused seat still runs (`roster.go:314`), which AMQ refuses
  and which ends the process; the drain of a relaunch closes seats by a listing
  read before the closes (`roster.go:458`).

## Proofs

`TaskStoreProofs` proves for all values of the constants that the store's types
hold, that lifecycles are consistent, that seats and files are exclusive, that
unclean seats are idle, and that the store implements `LeaseBoard`. The
invariants are not inductive alone. `IInv` adds that a task is in progress
exactly when it is leased, that a report belongs to its holder, and that a kept
report is from the last attempt: without these, a re-armed commit
(`WidenGated`) may lease a seat that already runs something else. Most actions
only rewrite one record: `StepRewrites` reduces a step to a rewrite that keeps,
gives up or takes a hold, `PutIInv` shows that the invariant survives each kind,
and `PutBoard` that each kind is a step of the board or a stutter. The two
actions that take a seat (`Grant` and its like, and the re-armed commit) are where
exclusion is decided: the grant reads `HeldBy`, the re-arm takes a seat whose
refused report already kept it.

The second half of `TaskStoreProofs` proves the rest of what the store's runs check: attempts,
verdicts, bindings, dependencies, the final history, the gate, the lease times.
Its invariant `HInv` is that every record has a sound `History` (its rows, its
verdicts and its merge agree), and that a pull request is bound once
(`PROneTask`). Every action rewrites one record, so the work is one lemma per
action that the new record is an `Advance` of the old one: the history stays sound
and `Final`, the lease is `Honoured`, the verdict's pool is kept, the gate is
`Passed`. Three lemmas carry most of them: a record changes quietly, ends an
attempt, or starts one. What relates two records is shown once, from `Linked`: a
binding is free when it is taken, dependencies are settled when an attempt
starts, a completed dependency stays completed, and a merge goes only with its
pull request or head.

`TaskJournalProofs` proves the journal's properties for any number of tasks,
writers, readers, transactions and faults. `CoreInv` needs nothing of the file
system. `PhaseInv`: where the holder of the lock is in `commit` or
`recoverJournal` tells what the directory holds. `ReaderInv`: what a reader has
read is what is there, but for files of the journal, as long as the generation it
started from stands. Two facts carry `SnapshotsAreStates`. A generation that a
writer bumps never comes back to what a scan began with. And while the journal is
being removed the generation was bumped and the files are already those of the
transaction, so that a scan that overlaps the removal reads either the overlay or
the files it stands for. Whether renames become durable in order plays no part
in it. In what a power loss leaves it does: `DiskInv` and `ToldInv` say of every directory
that may be left that its value is of whole transactions, that all of them have
one value unless a journal is being committed or replayed, and that what a caller was
told is in each. They hold on file systems that keep the order of renames
(`Ordered`) and are false on others (see above), so `TransactionsAreWhole`,
`ToldTransactionsSurvive` and `JournalImplementsAtomicStore` have that hypothesis. In
the refinement the rename of the journal is the write of the abstract store, an
fsync hardens it, a power loss is the abstract one, and all else stutters.

`SealChainProofs` proves the properties of `SealChain` for any number of
processes, versions and faults. `IInv` adds `Progress`, what a writer's place
says is already in place, and `Chained`, that the tag of the file is older than
the next version's. `FileFollowsHead` is what the lock, the roll back and the
check make of these together.

`SchedulerProofs` proves `TypeOK`, `StepHasEntry` and `NoLeaseBeforeCheck` for
any squad, finite as a roster is (`FiniteSquad`), and any number of deaths,
faults and relaunches. Both properties rest on the queue: what entered it leaves
it only through the exit checks, which never take a commit entry, and through the
end of the step an entry stands for. `QueueHasEntry` and `FileKnown` give the
first (the file is the queue, or the scheduler knows that a save failed, or it
has not loaded the file and so queued nothing). `SeenQueued` gives the second:
an ended attempt the tick has seen is checked or its check is queued, so a seat
that is not busy has none open; `GrantIsFree` shows that a grant finds it so, and
`OnlyGrantGrants` that no other step grants. `DownIsEmpty` carries both through
deaths. The queue's lists (`Pick`, `Fresh`, the entries put behind) have their lemmas first.

`SeatCommitProofs` proves all properties of the commit step, for any number of
tasks, paths, runners and faults: what the ledger says of the branch checked out,
of whose work a commit holds, of the line of a task's commits, of bindings, and
that finished work is kept. Each action has a lemma that says what it does
(`...Is`), so that the parts of the invariant are each gone through once. `Control`
is inductive on its own: types, who is within the ledger lock, HEAD leaving a
branch before the lease does and coming to it after, one task at a time on the seat. On it
stands `TreeInv`, what the worktree is at each place of a clean and a start, and
that on a branch a file that differs from the start of the lease is its task's own
or as it is at rest. Then
`StepInv`: the snapshot a step took is within the declared files and, but for
resting contents, the own work of its task, or a later commit already stands on its parent, in which case
`Follows` refuses it. `Following` is `OneLine` without the remote. For the remote
the recursive `Ancestry` is shown equal to a closed form (`Line`, the least set
closed under the parent), from which reachability is transitive and survives new
commits; `RemoteInv` then follows a commit from its push to its mark, its pull
request and its binding. Last, what is kept before it is removed. `AskedInv`: the
task a step was asked for is not leased again under the attempt it reported.
`SettleInv`: the files are those of the snapshot while the report still waits,
and from its commit on the ledger has them. `EndedInv`: a stopped tree is
recorded for an attempt that is over, so the attempt that just left the seat has none;
which is why `DiscardInv` may take the record of the attempt that ended last for
the worktree as it is, and why a clean that finds this record may skip the copy.

`GateStoreProofs` proves the four properties of `GateStore`, for any number of
processes, answers, deletions, kills and power losses, and with no hypothesis on
what the disk does to names that were not fsynced: the properties speak of the
files outside `unsynced` (see above). The invariant has five parts beside the
types. `LockHeld`: a process is at a place inside the lock exactly when it has
the lock. `Nearly`: the disk differs from what processes see at most in the file
the holder of the lock is about to fsync and in those of `unsynced`. `Posts`: what
the relay shows was kept before it was published, and is the question or the
re-ask of the store. `Decisions`: at most one decision file, and a mark only
where no other decision is. `Knows`: what each place of a process implies about
the files it has read or written. What was once kept is `Sure`: a power
loss does not take it, unless its file is in `unsynced`.

`MergeTrainProofs` proves that the merge train lands reviewed work only and that
the records of merges are true, for any number of trains, pull requests, heads
and kills, where the run has one train. `RunOK` says what a run knows at each of
its places (the head it will merge is cleared, the re-bind it journaled is
reviewed, the commit it will record was merged), `Reviews` that bindings, pending
re-binds and intents are of reviewed or lifted heads. `Grows` is what no step of
anybody takes back: heads, reviews, lifts and intents are only added and a pull
request is merged once; so what the other runs know stays true, and each action
has only its own run to show. The step that could go wrong is the rebase: the run
checked its head long before, and only the server's comparison with that head,
with the order of pushes (`run.head <= run.bound <= head`), makes the work it
rebases the work that was bound.

The first half of `ReleaseProofs` proves the three properties of `ReleaseStore` for any number
of prepares, claims and kills. A kill anywhere leaves a prefix of an operation's
writes and perhaps a temp file, which the next process to write the same bytes
renames; so the invariant is about what is still to be written. `Operation`: the
writes left of the operation under the lock are one of five lists (`Due`), each of
which the store may take where it is. `Staged`: so may the temp file, whoever left
it. `Follows` says when a record may be written: it is sound (its published
children have their gates), and follows from the record that is there
(`Forward`). `Knows`: what each place of a prepare outside the lock remembers,
which no other prepare undoes (`GatesKept`).

Its second half proves the two properties of `ReleaseFlow` for any number of
GitHub releases, kills, edits and moved tags. `Recorded` strengthens
`NoOrphanDraft`: a recorded draft has an intent and is the only live draft with
its nonce (`Sole`), which is why the record may be dropped before the intent once
it is public. `Here` says what the files are at each place of the run, `Marks`
which answers and which tag a marker or a place stands for, and `Fresh` that what
changed after the last read of the draft or of the tag is in `pub.late`.

Assumed: the named ASSUMEs of the constants (an absent value is none of the
values, the lead is not a seat, bounds are numbers), each evaluated by TLC in a
run.

Every invariant and every action property of a passing run, and both refinements, are
proved. Only model-checked: the liveness of the scheduler (`EveryReportDecided`,
`EveryAttemptChecked`) and of the train (`EveryMergeRecorded`), since liveness under
fairness and ENABLED are out of the prover's reach. No module declares a RECURSIVE
operator; recursive functions are used through equations that the proofs
establish. What is proved holds of the models: that they are faithful to the code
rests on reading, and the bounds (attempts, faults, edits) are parameters of any
value.

## Not modelled

- The routing chain: its seal rule is the one of `SealChain`; its append-only
  file adds truncation after a torn append, in one process.
- The operator relay: what it delivers, late, twice or out of order, is what
  `HandleEvent` of `GateStore` takes at any time; its set of seen events only
  suppresses deliveries.
- Worktree plans: git surgery by one command, which an operator repeats by hand.
- The router, the parsing of grants, signatures and plans: pure functions of
  their input, which unit tests reach.
- Seat launch, seat execution, the agent runtimes: processes and sockets. The
  scheduler sees a launch that works or fails and a seat that is alive or not.
- Status, message state, the command line: they display what is stored, or call
  the operations above.

In the modelled components: squads without a roster (their slots are a hazard no
property covers), several gates and several repositories of a release, power
losses under the seal chain's seed, and Windows. The hazards
without a property in `PROJECT.json` say why for each: a behaviour the code does
have, so that the property would fail, or one of these parts.

`TypeOK` of `TaskJournal`, `SealChain` and `Scheduler` is no invariant of their
runs, which spend their properties on more; it is proved instead, as a theorem or as
a part of the inductive invariant.

## Plan

Done, in this order: the store with its board and proofs, the journal, the sealed
file, the scheduler, the seat's worktree and commit step, the merge train, the
gate store, the release; then the proofs about the train, the gate store, the
release, the scheduler, the journal and the commit step.

Left, most useful first: the slots of squads without a roster; the operator relay
composed with the gate store, with its seen set; power losses under the seal
chain.
