----------------------------- MODULE SeatCommit -----------------------------
(* The harness-side commit step of one seat (internal/seatcommit/commit.go):*)
(* the step a done report starts, the seat cleaning before a lease, the     *)
(* start of a task on its own branch and the archive of a stopped attempt,  *)
(* over the seat's sealed commit ledger, its worktree, the remote branches, *)
(* the pull requests and the part of the task store they read and write.    *)
(* Each write of the code, a git process for one, is an action, so the      *)
(* process may die, or the call fail and be deferred, between any two of    *)
(* them (Abandon, TickDies).                                                *)
(* A tree is a content for each path; a content names the attempt that      *)
(* wrote it.  A commit is its position in the ledger, after the base tips.  *)
(* Left out: the verifier's run (TaskStore has its verdict; here it passes  *)
(* or refuses), the seal (SealChain), evidence retention, a relaunch with   *)
(* another worktree, a launch that records no push URL or repository.       *)
EXTENDS Integers, Sequences, SequencesExt, FiniteSets

CONSTANTS
    Tasks,        \* the tasks of the seat
    Paths,        \* the paths of the repository
    Upstream,     \* the paths the base branch changes while the seat works
    New,          \* the paths at which the base has no file
    Declared,     \* Declared[t]: the declared_files of t
    Asking,       \* the tasks whose seat may file a widen request
    Late,         \* Late[t]: the paths the seat may write after t's done report
    MaxAttempts,  \* MaxAttempts[t]: bound on the attempts of t
    MaxPRs,       \* bound on the pull requests opened
    MaxFaults,    \* bound on the deferrals, errors and kills
    MaxEdits,     \* bound on the files the seat writes
    Strangers,    \* the tasks on whose branch someone else may open a PR
    Runners,      \* who runs the commit step: the scheduler's job, a lead
    None          \* a model value: no task, no process

ASSUME SeatCommitAssumption ==
    /\ Upstream \subseteq Paths /\ New \subseteq Paths /\ Asking \subseteq Tasks
    /\ Strangers \subseteq Tasks
    /\ Declared \in [Tasks -> SUBSET Paths] /\ Late \in [Tasks -> SUBSET Paths]
    /\ MaxAttempts \in [Tasks -> Nat]
    /\ MaxPRs \in Nat /\ MaxFaults \in Nat /\ MaxEdits \in Nat
    /\ None \notin Tasks \cup Runners

VARIABLES
    task,      \* task[t]: the store's record of t
    marker,    \* the seat's unclean marker
    ended,     \* the seat's attempt that ended last
    ledger,    \* the seat's commit ledger: lease, commits, discarded
    files,     \* the worktree: a content for each path
    head,      \* the branch checked out: None (the resting branch) or a task's
    remote,    \* remote[t]: the commit t's remote branch is at, 0 if none
    prs,       \* the open PRs: branch, binding in the store, head gh shows
    run,       \* run[r]: the commit step of runner r
    tick,      \* the scheduler's thread: clean, grant, start
    lock,      \* who holds the ledger lock
    used       \* the faults and the edits so far (the two bounds)

store == <<task, marker, ended>>
tree  == <<files, head>>
forge == <<remote, prs>>
vars  == <<store, ledger, tree, forge, run, tick, lock, used>>

----------------------------------------------------------------------------
(* Trees and commits *)

Bases  == 1..2       \* the tip the launch recorded, a later tip
Rest   == 1          \* restTarget: the resting commit between leases
Nobody == [by |-> None, n |-> 0, late |-> FALSE]

BaseTree(b) == [p \in Paths |-> IF b = 2 /\ p \in Upstream THEN [Nobody EXCEPT !.n = 1]
                                                          ELSE Nobody]
Id(i)      == i + 2
IsCommit(c) == c > 2
TreeOf(c)  == IF c \in Bases THEN BaseTree(c) ELSE ledger.commits[c - 2].tree
Changed(a, b) == {p \in Paths : a[p] # b[p]}

\* read-tree -u --reset, from an index of a tree to a tree: the files of both
\* are written or removed, a file neither has stays (it is untracked).
Lacks(w, p) == p \in New /\ w[p] = Nobody
Moved(from, to) == [p \in Paths |-> IF Lacks(from, p) /\ Lacks(to, p) THEN files[p] ELSE to[p]]
\* clean -fdq at the resting commit: the untracked files go.
Swept == [p \in Paths |-> IF Lacks(TreeOf(Rest), p) THEN Nobody ELSE files[p]]

NoLease == [task |-> None, start |-> 0]
Leased  == ledger.lease # NoLease
Parent  == IF Leased THEN ledger.lease.start ELSE Rest

\* The last index of the ledger's commits that satisfies P, 0 if none.
TaskCommitAt(t) == SelectLastInSeq(ledger.commits, LAMBDA c : c.task = t)
RecordedAt(p, w) == SelectLastInSeq(ledger.commits, LAMBDA c : c.parent = p /\ c.tree = w)

----------------------------------------------------------------------------
(* The task store, as far as the seat is concerned *)

Held     == {"leased", "reported", "refused"}
Holding  == {t \in Tasks : task[t].state \in Held}
SeatFree == Holding = {}
Active(t) == task[t].state \notin {"pending", "completed", "cancelled"}
Allowed(t) == Declared[t] \cup (IF task[t].widened THEN Paths ELSE {})

Grantable(t) ==
    /\ task[t].state = "pending" /\ task[t].attempt < MaxAttempts[t]
    /\ SeatFree /\ ~marker
    /\ \A o \in Tasks \ {t} : Active(o) => Allowed(o) \cap Allowed(t) = {}

Set(t, s) == task' = [task EXCEPT ![t].state = s]
Take(t) == task' = [task EXCEPT ![t].state = "leased", ![t].attempt = @ + 1]
End(t, s) == Set(t, s) /\ ended' = <<t, task[t].attempt>>

\* The seat works on a lease once it is rung, or once it reads it in the
\* task list after the scheduler that granted it is gone.
Starting == tick.at \in {"start", "move", "branch"}
Works(t) == task[t].state = "leased" /\ ~Starting

\* The seat writes a file.  It may still write after its done report.
Edit(t, p) ==
    /\ Works(t) \/ (task[t].state = "reported" /\ p \in Late[t])
    /\ files' = [files EXCEPT ![p] = [by |-> t, n |-> task[t].attempt,
                                      late |-> task[t].state = "reported"]]
    /\ files' # files
    /\ used.edits < MaxEdits /\ used' = [used EXCEPT !.edits = @ + 1]
    /\ UNCHANGED <<store, ledger, head, forge, run, tick, lock>>

Done(t) ==
    /\ Works(t)
    /\ Set(t, "reported")
    /\ UNCHANGED <<marker, ended, ledger, tree, forge, run, tick, lock, used>>

\* The attempt ends without a commit: failed, expired or released by the
\* lead, with or without a done report; or a widen request.
Fail(t) ==
    /\ task[t].state \in {"leased", "reported"} /\ ~Starting
    /\ End(t, "pending")
    /\ UNCHANGED <<marker, ledger, tree, forge, run, tick, lock, used>>

AskWiden(t) ==
    /\ Works(t) /\ t \in Asking
    /\ End(t, "asking")
    /\ UNCHANGED <<marker, ledger, tree, forge, run, tick, lock, used>>

\* The lead widens: a refused report is armed again under a new attempt, a
\* widen request goes back to the pool.
Widen(t) ==
    /\ \/ /\ task[t].state = "refused" /\ task[t].attempt < MaxAttempts[t]
          /\ \A o \in Tasks \ {t} : ~Active(o)
          /\ task' = [task EXCEPT ![t].state = "reported", ![t].attempt = @ + 1,
                                  ![t].widened = TRUE]
       \/ /\ task[t].state = "asking"
          /\ \A o \in Tasks \ {t} : ~Active(o)
          /\ task' = [task EXCEPT ![t].state = "pending", ![t].widened = TRUE]
    /\ UNCHANGED <<marker, ended, ledger, tree, forge, run, tick, lock, used>>

Reset(t) ==
    /\ task[t].state \in {"refused", "asking", "blocked"}
    /\ Set(t, "pending")
    /\ UNCHANGED <<marker, ended, ledger, tree, forge, run, tick, lock, used>>

\* A task the seat does not hold may be cancelled too: it is then as one
\* that is never granted.
Cancel(t) ==
    /\ task[t].state \in Held
    /\ IF task[t].state # "refused" THEN End(t, "cancelled")
       ELSE Set(t, "cancelled") /\ UNCHANGED ended
    /\ UNCHANGED <<marker, ledger, tree, forge, run, tick, lock, used>>

----------------------------------------------------------------------------
(* The remote *)

NewPR(t) == [branch |-> t, task |-> None, head |-> remote[t]]

StrangerOpensPR(t) ==
    /\ t \in Strangers /\ remote[t] # 0 /\ Len(prs) < MaxPRs
    /\ prs' = Append(prs, NewPR(t))
    /\ UNCHANGED <<store, ledger, tree, remote, run, tick, lock, used>>

\* The forge shows a pushed head a while after the push.
ForgeCatchesUp(i) ==
    /\ prs[i].head # remote[prs[i].branch]
    /\ prs' = [prs EXCEPT ![i].head = remote[prs[i].branch]]
    /\ UNCHANGED <<store, ledger, tree, remote, run, tick, lock, used>>

----------------------------------------------------------------------------
(* The commit step *)

Idle == [at |-> "idle", task |-> None, attempt |-> 0, own |-> FALSE, parent |-> 0, tree |-> BaseTree(1),
         commit |-> 0, pr |-> 0, ok |-> FALSE]

To(r, at) == run' = [run EXCEPT ![r].at = at]

\* The step ends with a result; the caller applies it after the lock is gone.
Decide(r, ok) ==
    /\ run' = [run EXCEPT ![r] = [Idle EXCEPT !.at = "decided", !.ok = ok,
                                       !.task = run[r].task, !.commit = run[r].commit,
                                       !.pr = run[r].pr]]
    /\ lock' = None
Refuse(r) == Decide(r, FALSE)

\* The caller reads the reported task, then waits for the ledger lock.
Ask(r, t) ==
    /\ run[r].at = "idle" /\ task[t].state = "reported"
    /\ run' = [run EXCEPT ![r] = [Idle EXCEPT !.at = "lock", !.task = t,
                                                  !.attempt = task[t].attempt]]
    /\ UNCHANGED <<store, ledger, tree, forge, tick, lock, used>>

\* taskStart and checkWorktree: the lease recorded is this task's, or none.
StartsTask(t) == (Leased => ledger.lease.task = t) /\ head \in {None, t}

\* The recorded commit with nothing new on it: the step works on its diff.
Again(t, w) ==
    LET i == TaskCommitAt(t)
    IN  /\ i # 0 /\ (~Leased \/ Id(i) = Parent)
        /\ w = TreeOf(Parent)

Snapshot(r) ==
    LET t == run[r].task
        i == TaskCommitAt(t)
        again == Again(t, files)
        from == IF again THEN ledger.commits[i].parent ELSE Parent
        snap == IF again THEN ledger.commits[i].tree ELSE files
        took == [run[r] EXCEPT !.parent = from, !.tree = snap, !.own = head = t]
    IN  /\ run[r].at = "lock" /\ lock = None
        /\ IF StartsTask(t) /\ Changed(TreeOf(from), snap) \subseteq Allowed(t)
           THEN lock' = r /\ run' = [run EXCEPT ![r] = [took EXCEPT !.at = "prcheck"]]
           ELSE Refuse(r)
        /\ UNCHANGED <<store, ledger, tree, forge, tick, used>>

\* branchPR: the open PRs of the branch that this task does not hold.
OnBranch(t) == {i \in DOMAIN prs : prs[i].branch = t}
Foreign(t)  == {i \in OnBranch(t) : prs[i].task # t}

PRCheck(r) ==
    /\ run[r].at = "prcheck"
    /\ IF Foreign(run[r].task) # {} THEN Refuse(r) ELSE To(r, "verify") /\ UNCHANGED lock
    /\ UNCHANGED <<store, ledger, tree, forge, tick, used>>

\* The verifier passes or refuses the snapshot.
Verify(r) ==
    /\ run[r].at = "verify"
    /\ Refuse(r) \/ (To(r, "commit") /\ UNCHANGED lock)
    /\ UNCHANGED <<store, ledger, tree, forge, tick, used>>

\* Mutant: the worktree as it is now is committed, not the snapshot.
NewCommitOfWorktree(r) ==
    [task |-> run[r].task, parent |-> run[r].parent, tree |-> files,
     pushed |-> FALSE, own |-> run[r].own]
NewCommit(r) == [task |-> run[r].task, parent |-> run[r].parent, tree |-> run[r].tree,
                 pushed |-> FALSE, own |-> run[r].own]

\* The ledger's commit of this exact diff, if it is this task's; 0 otherwise.
Recorded(r) ==
    LET i == RecordedAt(run[r].parent, run[r].tree)
    IN  IF i # 0 /\ ledger.commits[i].task = run[r].task THEN i ELSE 0

Empty(r) == run[r].tree = TreeOf(run[r].parent)
\* A later attempt appends to the branch from the task's last commit only.
Follows(r) == LET i == TaskCommitAt(run[r].task) IN i # 0 => Id(i) = run[r].parent

CommitAgain(r) ==
    LET i == Recorded(r)
    IN  /\ i # 0
        /\ run' = [run EXCEPT ![r].commit = Id(i), ![r].own = FALSE, ![r].parent = 0,
                              ![r].at = IF ledger.commits[i].pushed THEN "openpr" ELSE "push"]
        /\ UNCHANGED <<ledger, lock>>

CommitElsewhere(r) ==
    /\ Recorded(r) = 0 /\ ~Follows(r) /\ ~Empty(r)
    /\ Refuse(r) /\ UNCHANGED ledger

CommitNothing(r) ==
    /\ Recorded(r) = 0 /\ Empty(r)
    /\ To(r, "rest") /\ UNCHANGED <<ledger, lock>>

CommitNew(r) ==
    /\ Recorded(r) = 0 /\ Follows(r) /\ ~Empty(r)
    /\ ledger' = [ledger EXCEPT !.commits = Append(@, NewCommit(r))]
    /\ run' = [run EXCEPT ![r].commit = Id(Len(ledger.commits) + 1), ![r].own = FALSE,
                          ![r].parent = 0, ![r].at = "push"]
    /\ UNCHANGED lock

Commit(r) ==
    /\ run[r].at = "commit"
    /\ CommitAgain(r) \/ CommitElsewhere(r) \/ CommitNothing(r) \/ CommitNew(r)
    /\ UNCHANGED <<store, tree, forge, tick, used>>

\* The commits a ledger commit is built on, itself included.
Ancestry ==
    LET back[i \in DOMAIN ledger.commits] ==
            LET p == ledger.commits[i].parent
            IN  {Id(i)} \cup (IF IsCommit(p) THEN back[p - 2] ELSE {})
    IN  back

\* Mutant: a push that did not reach the remote is taken for done.
PushUnanswered(r) ==
    /\ run[r].at = "push"
    /\ To(r, "mark")
    /\ UNCHANGED <<store, ledger, tree, forge, tick, lock, used>>

\* Never a force push: the remote takes a fast-forward only.
Push(r) ==
    LET t == run[r].task  c == run[r].commit
    IN  /\ run[r].at = "push"
        /\ IF remote[t] \in Ancestry[c - 2] \cup {0}
           THEN remote' = [remote EXCEPT ![t] = c] /\ To(r, "mark") /\ UNCHANGED lock
           ELSE Refuse(r) /\ UNCHANGED remote
        /\ UNCHANGED <<store, ledger, tree, prs, tick, used>>

MarkPushed(r) ==
    /\ run[r].at = "mark"
    /\ ledger' = [ledger EXCEPT !.commits[run[r].commit - 2].pushed = TRUE]
    /\ To(r, "openpr")
    /\ UNCHANGED <<store, tree, forge, tick, lock, used>>

OpenPR(r) ==
    LET t == run[r].task  own == OnBranch(t) \ Foreign(t)
    IN  /\ run[r].at = "openpr"
        /\ \/ Foreign(t) # {} /\ Refuse(r) /\ UNCHANGED prs
           \/ /\ Foreign(t) = {}
              /\ \E i \in own : /\ prs[i].head = run[r].commit
                                 /\ run' = [run EXCEPT ![r].at = "bind", ![r].pr = i]
              /\ UNCHANGED <<prs, lock, used>>
           \/ /\ OnBranch(t) = {} /\ Len(prs) < MaxPRs
              /\ prs' = Append(prs, NewPR(t))
              /\ run' = [run EXCEPT ![r].at = "bind", ![r].pr = Len(prs')]
              /\ UNCHANGED lock
        /\ UNCHANGED <<store, ledger, tree, remote, tick, used>>

Bound(t, i, c) == task' = [task EXCEPT ![t].pr = i, ![t].head = c]

BindPR(r) ==
    LET t == run[r].task  i == run[r].pr
    IN  /\ run[r].at = "bind"
        /\ prs' = [prs EXCEPT ![i].task = t]
        /\ Bound(t, i, run[r].commit)
        /\ To(r, "rest")
        /\ UNCHANGED <<marker, ended, ledger, tree, remote, tick, lock, used>>

\* settle: the files return to rest, then HEAD, each by a git process of its
\* own; then the lease's start is cleared.
ResetFiles(r) ==
    /\ run[r].at = "rest"
    /\ files' = Moved(run[r].tree, TreeOf(Rest))
    /\ To(r, "sweep")
    /\ UNCHANGED <<store, ledger, head, forge, tick, lock, used>>

SweepFiles(r) ==
    /\ run[r].at = "sweep"
    /\ files' = Swept
    /\ To(r, "head")
    /\ UNCHANGED <<store, ledger, head, forge, tick, lock, used>>

RestHead(r) ==
    /\ run[r].at = "head"
    /\ head' = None
    /\ To(r, "forget")
    /\ UNCHANGED <<store, ledger, files, forge, tick, lock, used>>

\* A failure of one of them is a note: the result stands.
SettleStops(r) ==
    /\ run[r].at \in {"rest", "sweep", "head"}
    /\ Decide(r, TRUE)
    /\ UNCHANGED <<store, ledger, tree, forge, tick, used>>

ForgetLease(r) ==
    /\ run[r].at = "forget"
    /\ ledger' \in {[ledger EXCEPT !.lease = NoLease], ledger}
    /\ Decide(r, TRUE)
    /\ UNCHANGED <<store, tree, forge, tick, used>>

Fault == used.faults < MaxFaults /\ used' = [used EXCEPT !.faults = @ + 1]

\* A deferral, an error, a kill: nothing is recorded, the lock is released.
Abandon(r) ==
    /\ run[r].at # "idle"
    /\ run' = [run EXCEPT ![r] = Idle]
    /\ lock' = IF lock = r THEN None ELSE lock
    /\ Fault
    /\ UNCHANGED <<store, ledger, tree, forge, tick>>

\* The report the step was asked for still waits for it.
Answers(r) == LET t == run[r].task
              IN  task[t].state = "reported" /\ task[t].attempt = run[r].attempt

\* CompleteBound or RefuseCommit, on the task as it is by then.
Apply(r) ==
    LET t == run[r].task
        bound == run[r].ok /\ run[r].pr # 0
    IN  /\ run[r].at = "decided"
        /\ run' = [run EXCEPT ![r] = Idle]
        /\ IF task[t].state = "reported"
           THEN /\ task' = [task EXCEPT
                      ![t].state = IF run[r].ok THEN "completed" ELSE "refused",
                      ![t].pr = IF bound THEN run[r].pr ELSE @,
                      ![t].head = IF bound THEN run[r].commit ELSE @]
                /\ ended' = <<t, task[t].attempt>>
           ELSE UNCHANGED <<task, ended>>
        /\ UNCHANGED <<marker, ledger, tree, forge, tick, lock, used>>

Step(r) ==
    \/ Snapshot(r) \/ PRCheck(r) \/ Verify(r) \/ Commit(r) \/ Push(r)
    \/ MarkPushed(r) \/ OpenPR(r) \/ BindPR(r)
    \/ ResetFiles(r) \/ SweepFiles(r) \/ RestHead(r) \/ SettleStops(r) \/ ForgetLease(r)

----------------------------------------------------------------------------
(* The scheduler's thread: clean an idle seat, grant, start the task *)

Resting == [at |-> "idle", task |-> None, tree |-> BaseTree(1)]
Thread  == "thread"
ASSUME ThreadAssumption == Thread \notin Runners \cup {None}
TickTo(at) == tick' = [tick EXCEPT !.at = at]

\* CleanSeat, for a task to dispatch: the ledger lock is only tried; the seat is reserved in the store.
ReserveSeat ==
    /\ tick.at = "idle" /\ lock = None /\ SeatFree
    /\ \E t \in Tasks : task[t].state = "pending" /\ task[t].attempt < MaxAttempts[t]
    /\ lock' = Thread /\ marker' = TRUE
    /\ tick' = [tick EXCEPT !.at = "clean", !.tree = files]
    /\ UNCHANGED <<task, ended, ledger, tree, forge, run, used>>

KnownBranch == head # None => ledger.lease.task = head

\* Mutant: one record a task is enough.
DiscardedOnce(t, n) == \E d \in ledger.discarded : d.task = t
DiscardedOf(t, n) == \E d \in ledger.discarded : d.task = t /\ d.attempt = n

Discard(t, n, w) == [ledger EXCEPT !.discarded =
                        @ \cup {[task |-> t, attempt |-> n, tree |-> w]}]

\* The leftover of an attempt that did not commit is kept before it is removed.
KeepLeftover ==
    LET w == tick.tree
        discarded == w # TreeOf(Parent) /\ RecordedAt(Parent, w) = 0
    IN  /\ tick.at = "clean" /\ KnownBranch
        /\ ledger' = IF discarded /\ ~DiscardedOf(ended[1], ended[2])
                     THEN Discard(ended[1], ended[2], w) ELSE ledger
        /\ tick' = IF Leased \/ head # None \/ w # TreeOf(Rest)
                   THEN [tick EXCEPT !.at = "reset"] ELSE [Resting EXCEPT !.at = "release"]
        /\ UNCHANGED <<store, tree, forge, run, lock, used>>

\* toRest again: the files, the untracked ones, HEAD.
ResetSeat ==
    /\ tick.at = "reset"
    /\ files' = Moved(tick.tree, TreeOf(Rest))
    /\ tick' = [Resting EXCEPT !.at = "sweep"]
    /\ UNCHANGED <<store, ledger, head, forge, run, lock, used>>

SweepSeat ==
    /\ tick.at = "sweep"
    /\ files' = Swept
    /\ TickTo("head")
    /\ UNCHANGED <<store, ledger, head, forge, run, lock, used>>

\* Mutant: HEAD stays on the last task's branch.
RestSeatHeadKept ==
    /\ tick.at = "head"
    /\ TickTo("unlease")
    /\ UNCHANGED <<store, ledger, tree, forge, run, lock, used>>

RestSeatHead ==
    /\ tick.at = "head"
    /\ head' = None
    /\ TickTo("unlease")
    /\ UNCHANGED <<store, ledger, files, forge, run, lock, used>>

ClearLease ==
    /\ tick.at = "unlease"
    /\ ledger' = [ledger EXCEPT !.lease = NoLease]
    /\ TickTo("release")
    /\ UNCHANGED <<store, tree, forge, run, lock, used>>

ReleaseSeat ==
    /\ tick.at = "release"
    /\ marker' = FALSE /\ lock' = None
    /\ tick' = [Resting EXCEPT !.at = "clean_seat"]
    /\ UNCHANGED <<task, ended, ledger, tree, forge, run, used>>

\* Mutant: an idle seat is granted as it is.
GrantAsItIs(t) ==
    /\ tick.at \in {"idle", "clean_seat"}
    /\ Grantable(t)
    /\ Take(t)
    /\ tick' = [Resting EXCEPT !.at = "start", !.task = t]
    /\ UNCHANGED <<marker, ended, ledger, tree, forge, run, lock, used>>

Grant(t) ==
    /\ tick.at = "clean_seat"
    /\ Grantable(t)
    /\ Take(t)
    /\ tick' = [Resting EXCEPT !.at = "start", !.task = t]
    /\ UNCHANGED <<marker, ended, ledger, tree, forge, run, lock, used>>

\* StartTask: the lease's start is recorded first, then the files move, then
\* the branch.
StartOf(t, base) == LET i == TaskCommitAt(t) IN IF i # 0 THEN Id(i) ELSE base

StartTask(base) ==
    LET t == tick.task
    IN  /\ tick.at = "start" /\ lock = None
        /\ StartsTask(t)
        /\ ledger' = IF Leased THEN ledger
                     ELSE [ledger EXCEPT !.lease = [task |-> t, start |-> StartOf(t, base)]]
        /\ lock' = Thread /\ TickTo("move")
        /\ UNCHANGED <<store, tree, forge, run, used>>

MoveFiles ==
    /\ tick.at = "move"
    /\ files' = IF ledger.lease.start = Rest THEN files
                ELSE Moved(TreeOf(Rest), TreeOf(ledger.lease.start))
    /\ TickTo("branch")
    /\ UNCHANGED <<store, ledger, head, forge, run, lock, used>>

Ring ==
    LET t == tick.task
    IN  /\ tick.at = "branch"
        /\ head' = t
        /\ tick' = Resting /\ lock' = None
        /\ UNCHANGED <<store, ledger, files, forge, run, used>>

\* StartTask failed: the lease goes back and the task blocks for the lead.
Unprepared ==
    LET t == tick.task
    IN  /\ Starting
        /\ tick' = Resting
        /\ lock' = IF lock = Thread THEN None ELSE lock
        /\ IF task[t].state = "leased" THEN End(t, "blocked")
           ELSE UNCHANGED <<task, ended>>
        /\ Fault
        /\ UNCHANGED <<marker, ledger, tree, forge, run>>

\* Killed, or an error of the clean: the marker stays for the next clean.
TickDies ==
    /\ tick.at # "idle"
    /\ tick' = Resting
    /\ lock' = IF lock = Thread THEN None ELSE lock
    /\ Fault
    /\ UNCHANGED <<store, ledger, tree, forge, run>>

\* The stopped tree of a widen request, kept once for each attempt.
ArchiveAttempt(t) ==
    /\ tick.at = "idle" /\ lock = None
    /\ task[t].state = "asking" /\ ~DiscardedOf(t, task[t].attempt)
    /\ ledger' = Discard(t, task[t].attempt, files)
    /\ UNCHANGED <<store, tree, forge, run, tick, lock, used>>

----------------------------------------------------------------------------

Init ==
    /\ task = [t \in Tasks |-> [state |-> "pending", attempt |-> 0, widened |-> FALSE,
                                pr |-> 0, head |-> 0]]
    /\ marker = FALSE /\ ended = <<None, 0>>
    /\ ledger = [lease |-> NoLease, commits |-> <<>>, discarded |-> {}]
    /\ files = BaseTree(Rest) /\ head = None
    /\ remote = [t \in Tasks |-> 0] /\ prs = <<>>
    /\ run = [r \in Runners |-> Idle]
    /\ tick = Resting /\ lock = None
    /\ used = [faults |-> 0, edits |-> 0]

SeatStep(t) ==
    (\E p \in Paths : Edit(t, p)) \/ Done(t) \/ Fail(t) \/ AskWiden(t)
LeadStep(t) == Widen(t) \/ Reset(t) \/ Cancel(t)
RunnerStep(r) == (\E t \in Tasks : Ask(r, t)) \/ Step(r) \/ Abandon(r) \/ Apply(r)
Clean == ReserveSeat \/ KeepLeftover \/ ResetSeat \/ SweepSeat \/ RestSeatHead \/ ClearLease
         \/ ReleaseSeat
ThreadStep ==
    \/ Clean
    \/ \E t \in Tasks : Grant(t) \/ ArchiveAttempt(t)
    \/ (\E base \in Bases : StartTask(base)) \/ MoveFiles \/ Ring \/ Unprepared \/ TickDies
Outside == (\E t \in Tasks : StrangerOpensPR(t))
           \/ \E i \in DOMAIN prs : ForgeCatchesUp(i)

Next ==
    \/ \E t \in Tasks : SeatStep(t) \/ LeadStep(t)
    \/ \E r \in Runners : RunnerStep(r)
    \/ ThreadStep
    \/ Outside

Spec == Init /\ [][Next]_vars

----------------------------------------------------------------------------
(* Properties *)

\* Whatever dies between two writes, a worktree on a task's branch is on the
\* branch of the lease the ledger records, so a clean never refuses it.
HeadKnown == KnownBranch

\* The harness commits a task's own work, for a task the scheduler put on its
\* branch: every path a commit changes against its start holds what an
\* attempt of that task wrote, or what the resting commit has there, and
\* never the leftover of another task.  (The resting commit's content comes
\* in when a settle is killed after it moved the files and its report still
\* waits: the step that answers it finds them as a change of the lease's
\* start.)
OwnOrRest(t, w, p) == w[p].by = t \/ w[p] = BaseTree(Rest)[p]
OwnWorkOnly ==
    \A i \in DOMAIN ledger.commits :
        LET c == ledger.commits[i]
        IN  c.own => \A p \in Changed(TreeOf(c.parent), c.tree) : OwnOrRest(c.task, c.tree, p)

\* The commits of one task follow each other on its branch, across attempts,
\* refusals and crashes, and the remote is at one of them.
OneLine ==
    \A t \in Tasks :
        /\ remote[t] # 0 => IsCommit(remote[t]) /\ ledger.commits[remote[t] - 2].task = t
        /\ \A i, j \in DOMAIN ledger.commits :
              /\ i < j /\ ledger.commits[i].task = t /\ ledger.commits[j].task = t
              /\ \A k \in (i + 1)..(j - 1) : ledger.commits[k].task # t
              => ledger.commits[j].parent = Id(i)

\* The policy checked the tree that is committed, whatever the seat writes
\* meanwhile: no commit leaves the declared files of its task.
CommitsStayDeclared ==
    \A i \in DOMAIN ledger.commits :
        LET c == ledger.commits[i]
        IN  Changed(TreeOf(c.parent), c.tree) \subseteq Allowed(c.task)

\* The task's commits are one line from its base, and hold declared files only.
CommitsSound == OneLine /\ CommitsStayDeclared

\* A binding names a pushed commit of the task's own branch.
BoundIsPushed ==
    \A t \in Tasks : task[t].pr # 0 =>
        /\ prs[task[t].pr].branch = t
        /\ remote[t] # 0 /\ task[t].head \in Ancestry[remote[t] - 2]

\* Work the seat finished is never removed before the ledger has it, by a
\* clean, a start or the settle of a step whose report still waits.
Kept(p) == \/ \E i \in DOMAIN ledger.commits : ledger.commits[i].tree[p] = files[p]
           \/ \E d \in ledger.discarded : d.tree[p] = files[p]
Settled(r) == run[r].at \in {"rest", "sweep"} /\ ~Answers(r)
KeptWork ==
    [][\A p \in Paths :
          files'[p] # files[p] /\ files[p].by # None /\ ~files[p].late
          => \/ Kept(p)
             \/ \E t \in Tasks : Edit(t, p)
             \/ \E r \in Runners : Settled(r)]_vars


=============================================================================
