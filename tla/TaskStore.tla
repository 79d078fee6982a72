----------------------------- MODULE TaskStore -----------------------------
(***************************************************************************)
(* The durable task store of one squad (internal/task): tasks, the leases  *)
(* that give a task to a seat, the file locks, the completion gate, the    *)
(* binding of tasks to pull requests and the unclean markers of the seats. *)
(*                                                                         *)
(* Every operation of the store is one transaction under the store lock,   *)
(* so it is one action.  Its timestamp is the caller's, taken before the   *)
(* caller waited for the lock: an action runs with any "at" that is at     *)
(* most Lag older than the present.                                        *)
(***************************************************************************)
EXTENDS Integers, Sequences, FiniteSets

CONSTANTS
    TaskIds,       \* every task id the lead may ever add
    Seats,         \* seat handles
    Lead,          \* an actor that is not a seat
    None,          \* an absent optional value
    Classes,       \* task classes
    Mechanical,    \* those a program verifies
    Gates,         \* the verifier configurations the owner may set
    Paths,         \* repository paths; declared files are sets of them
    Pools,         \* runtime:model:effort keys
    WaitReasons,   \* wait_reason values the scheduler writes
    Trees,         \* git trees the verifier runs on
    Commands,      \* digests of verifier commands
    PRs,           \* pull requests (repository and number)
    Heads,         \* head commits of pull requests
    MergeCommits,  \* merge commits
    Nonces,        \* nonces of the unclean markers
    LeaseLen,      \* length of a lease
    RenewEvery,    \* minimum interval between two renewals
    MarkerTTL,     \* SeatReservationTTL
    Lag,           \* bound on the age of a caller's timestamp
    MaxTime,       \* bound on the clock
    MaxAttempts,   \* bound on the attempts of all tasks together
    MaxDeps        \* bound on the dependencies of one task

ASSUME NoneAssumption ==
    None \notin Seats \cup Classes \cup Pools \cup WaitReasons \cup Trees \cup Commands
                \cup PRs \cup Heads \cup MergeCommits \cup Nonces
ASSUME LeadAssumption == Lead \notin Seats
ASSUME GatesAssumption ==
    Gates \subseteq {"none", "configured", "unconfigured", "unreadable"}
ASSUME TimeAssumption ==
    /\ LeaseLen \in Nat \ {0} /\ RenewEvery \in Nat /\ MarkerTTL \in Nat
    /\ Lag \in Nat /\ MaxTime \in Nat /\ MaxAttempts \in Nat /\ MaxDeps \in Nat

VARIABLES
    task,     \* task[t]: the task file of t ("absent" before task add)
    marker,   \* marker[s]: the unclean marker of seat s
    gate,     \* the verifier configuration of the mechanical classes: "none",
              \* "configured" (a granted command), "unconfigured" (gated, with
              \* no command) or "unreadable"
    now       \* the clock

vars == <<task, marker, gate, now>>

----------------------------------------------------------------------------
(* Data *)

Never == -1
States == {"absent", "pending", "in_progress", "blocked", "completed", "cancelled"}
Outcomes == {"completed", "unclaimed", "expired", "failed", "released",
             "blocked", "cancelled", "commit_refused"}
Reasons == {"widen_requested", "growth_gate_required", "verdict_missing",
            "verdict_failed", "commit_refused", "decision"}

Verdict == [attempt : Nat, tree : Trees \cup {None}, command : Commands \cup {None},
            result : {"none", "pass", "fail", "invalid"}]
NoVerdict == [attempt |-> 0, tree |-> None, command |-> None, result |-> "none"]

Lease == [holder : Seats \cup {None}, expiresAt : Nat, claimed : BOOLEAN,
          renewedAt : Nat \cup {Never}, snapshot : Trees \cup {None},
          command : Commands \cup {None}, verdict : Verdict]
NoLease == [holder |-> None, expiresAt |-> 0, claimed |-> FALSE, renewedAt |-> Never,
            snapshot |-> None, command |-> None, verdict |-> NoVerdict]

Attempt == [n : Nat, holder : Seats, outcome : Outcomes, verdict : Verdict]

Task == [state : States, class : Classes \cup {None}, deps : SUBSET TaskIds,
         files : SUBSET Paths, pool : Pools \cup {None}, lease : Lease,
         attempt : Nat, attempts : Seq(Attempt), wait : WaitReasons \cup {None},
         reason : Reasons \cup {None}, refused : BOOLEAN, blockAttempt : Nat,
         report : Seats \cup {None},
         pr : PRs \cup {None}, head : Heads \cup {None},
         mergeHead : Heads \cup {None}, mergeCommit : MergeCommits \cup {None}]

AbsentTask ==
    [state |-> "absent", class |-> None, deps |-> {}, files |-> {},
     pool |-> None, lease |-> NoLease, attempt |-> 0, attempts |-> <<>>,
     wait |-> None, reason |-> None, refused |-> FALSE,
     blockAttempt |-> 0, report |-> None, pr |-> None, head |-> None,
     mergeHead |-> None, mergeCommit |-> None]

Marker == [nonce : Nonces \cup {None}, at : Nat]
NoMarker == [nonce |-> None, at |-> 0]

----------------------------------------------------------------------------
(* Reading the store *)

Stamps == {at \in 0 .. now : at >= now - Lag}
Later(x, y) == IF x >= y THEN x ELSE y
OrElse(x, y) == IF x = None THEN y ELSE x

Exists(t) == task[t].state # "absent"
Terminal(t) == task[t].state \in {"completed", "cancelled"}
Active(t) == task[t].state \in {"in_progress", "blocked"}
Overlap(a, b) == a \cap b # {}

Leased(t) == task[t].lease.holder # None
LiveHolder(t, s, at) ==
    /\ task[t].state = "in_progress"
    /\ task[t].lease.holder = s
    /\ at < task[t].lease.expiresAt

\* Mutant: a completed dependency counts, bound and unmerged too.
SettledWhenCompleted(d) == task[d].state = "completed" \/ task[d].mergeCommit # None

\* A bound dependency is settled by the merge of its bound head, any other
\* one by its completion.
Settled(d) ==
    IF task[d].pr # None
    THEN task[d].mergeCommit # None /\ task[d].mergeHead \in {None, task[d].head}
    ELSE task[d].state = "completed"

\* Mutant: a blocked task locks no files.
RunningConflicts(t, files) ==
    {o \in TaskIds \ {t} : task[o].state = "in_progress" /\ Overlap(files, task[o].files)}

Conflicts(t, files) ==
    {o \in TaskIds \ {t} : Active(o) /\ Overlap(files, task[o].files)}

Unblocked(t) ==
    /\ \A d \in task[t].deps : Settled(d)
    /\ Conflicts(t, task[t].files) = {}

\* The bound on attempts: not in the code.
MayStart ==
    Cardinality(UNION {{t} \X (1 .. task[t].attempt) : t \in TaskIds}) < MaxAttempts

\* A refused done report keeps its seat: the worktree diff waits.
Kept(r) == r.state = "blocked" /\ r.report # None
Reserved(t) == Kept(task[t])
\* Mutant: a refused done report does not keep its seat.
LeasedBy(s) == {t \in TaskIds : task[t].lease.holder = s}

HeldBy(s) ==
    {t \in TaskIds : task[t].lease.holder = s \/ (Reserved(t) /\ task[t].report = s)}

Dispatchable(t) == ~(task[t].class \in Mechanical /\ gate = "unconfigured")
\* Mutant: only a configured command is required, so the gate fails open.
VerifierConfigured(r) == r.class \in Mechanical /\ gate = "configured"

VerifierRequired(r) == r.class \in Mechanical /\ gate # "none"

\* Mutant: a lease never looks at the seat's unclean marker.
GrantableUnclean(t, s) ==
    /\ task[t].state = "pending" /\ Unblocked(t) /\ Dispatchable(t)
    /\ HeldBy(s) = {}
    /\ MayStart

Grantable(t, s) ==
    /\ task[t].state = "pending" /\ Unblocked(t) /\ Dispatchable(t)
    /\ HeldBy(s) = {} /\ marker[s] = NoMarker
    /\ MayStart

----------------------------------------------------------------------------
(* Rewriting one task file.  Each operator returns the new record of the   *)
(* task whose old record is r.                                             *)

NewLease(s, at) == [NoLease EXCEPT !.holder = s, !.expiresAt = at + LeaseLen]

Granted(r, s, p, at) ==
    [r EXCEPT !.state = "in_progress", !.wait = None, !.attempt = @ + 1,
              !.pool = OrElse(p, @), !.lease = NewLease(s, at)]

\* Mutant: the caller's timestamp is written as it is.
ExtendedAsOf(l, at) ==
    [l EXCEPT !.claimed = TRUE, !.renewedAt = at, !.expiresAt = at + LeaseLen]

\* claim: an older timestamp never moves a lease back.
Extended(l, at) ==
    [l EXCEPT !.claimed = TRUE, !.renewedAt = Later(@, at),
              !.expiresAt = Later(@, at + LeaseLen)]

Claimed(r, at) == [r EXCEPT !.lease = Extended(@, at)]

HasVerdict(r) == r.lease.verdict.result # "none"
\* The seal covers the attempt, and the verdict must name the snapshot.
VerdictInvalid(r) ==
    \/ r.lease.verdict.attempt # r.attempt
    \/ r.lease.verdict.tree = None
    \/ r.lease.verdict.tree # r.lease.snapshot
SoundVerdict(r) == HasVerdict(r) /\ ~VerdictInvalid(r)

\* The lease without a verdict that is not the harness's own.
OnlySound(r) ==
    IF SoundVerdict(r) THEN r.lease ELSE [r.lease EXCEPT !.verdict = NoVerdict]

AttemptRow(r, outcome) ==
    [n |-> r.attempt, holder |-> r.lease.holder, outcome |-> outcome,
     verdict |-> IF HasVerdict(r) /\ VerdictInvalid(r)
                 THEN [r.lease.verdict EXCEPT !.result = "invalid"]
                 ELSE r.lease.verdict]
\* Mutant: a row is appended also when there was no lease.
EndAnyAttempt(r, outcome) ==
    [r EXCEPT !.attempts = Append(@, AttemptRow(r, outcome)), !.lease = NoLease]

EndAttempt(r, outcome) ==
    IF r.lease.holder = None THEN r
    ELSE [r EXCEPT !.attempts = Append(@, AttemptRow(r, outcome)), !.lease = NoLease]

Stopped(r, reason) ==
    [r EXCEPT !.state = "blocked", !.wait = None, !.reason = reason,
              !.refused = FALSE, !.blockAttempt = 0]

Unstopped(r) == [r EXCEPT !.reason = None, !.refused = FALSE, !.blockAttempt = 0]

\* complete: the gate of a done report.  The refusals keep the report.
Accepted(r) ==
    LET q == [r EXCEPT !.lease = OnlySound(r)]
    IN  IF VerifierRequired(r) /\ ~SoundVerdict(r)
        THEN Stopped(EndAttempt(q, "blocked"), "verdict_missing")
        ELSE IF SoundVerdict(r) /\ r.lease.verdict.result # "pass"
        THEN Stopped(EndAttempt(q, "blocked"), "verdict_failed")
        ELSE [Unstopped(EndAttempt(q, "completed")) EXCEPT !.state = "completed"]

\* Mutant: a new binding keeps the old merge proof.
BoundKeepingMerge(r, p, h) == [r EXCEPT !.pr = p, !.head = h]

Bound(r, p, h) ==
    IF r.pr = p /\ r.head = h THEN r
    ELSE [r EXCEPT !.pr = p, !.head = h, !.mergeHead = None, !.mergeCommit = None]

PRFree(t, p) == \A o \in TaskIds \ {t} : task[o].pr # p

----------------------------------------------------------------------------
(* The operations *)

Put(t, r) ==
    /\ task' = [task EXCEPT ![t] = r]
    /\ UNCHANGED <<marker, gate, now>>

Add(t) ==
    /\ ~Exists(t)
    /\ \E class \in Classes, deps \in SUBSET {d \in TaskIds : Exists(d)},
          files \in SUBSET Paths, p \in Pools \cup {None} :
          /\ Cardinality(deps) <= MaxDeps
          /\ Put(t, [AbsentTask EXCEPT !.state = "pending", !.class = class,
                                       !.deps = deps, !.files = files, !.pool = p])

Grant(t, s, p, at) ==
    /\ Grantable(t, s)
    /\ Put(t, Granted(task[t], s, p, at))

\* Claim of a pending task: by id, or a pull that matches the pool.
ClaimPending(t, s, p, at) ==
    /\ Grantable(t, s)
    /\ Put(t, Claimed(Granted(task[t], s, p, at), at))

ClaimHeld(t, s, at) ==
    /\ LiveHolder(t, s, at)
    /\ Put(t, Claimed(task[t], at))

Renew(t, s, at) ==
    /\ LiveHolder(t, s, at)
    /\ task[t].lease.claimed
    /\ \/ task[t].lease.renewedAt = Never
       \/ at - task[t].lease.renewedAt >= RenewEvery
    /\ Put(t, Claimed(task[t], at))

Done(t, s, at) ==
    /\ LiveHolder(t, s, at)
    /\ task[t].report = None
    /\ LET r == [task[t] EXCEPT !.lease = [@ EXCEPT !.claimed = TRUE], !.report = s]
       IN  Put(t, IF r.files = {} THEN Accepted(r) ELSE r)

AwaitsCommit(t) == task[t].state = "in_progress" /\ task[t].report # None

Complete(t) ==
    /\ AwaitsCommit(t)
    /\ Put(t, Accepted(task[t]))

CompleteBound(t, p, h) ==
    /\ AwaitsCommit(t)
    /\ PRFree(t, p)
    /\ Put(t, Accepted(Bound(task[t], p, h)))

RefuseCommit(t, refused) ==
    /\ AwaitsCommit(t)
    /\ Put(t, [Stopped(EndAttempt(task[t], "commit_refused"), "commit_refused")
                 EXCEPT !.refused = refused])

Fail(t, s, at) ==
    /\ LiveHolder(t, s, at)
    /\ Put(t, [EndAttempt(task[t], "failed") EXCEPT !.state = "pending", !.report = None])

BlockHeld(t, s, reason, at) ==
    /\ LiveHolder(t, s, at)
    /\ LET r == Stopped([EndAttempt(task[t], "blocked") EXCEPT !.report = None], reason)
       IN  Put(t, IF reason = "widen_requested"
                  THEN [r EXCEPT !.refused = TRUE, !.blockAttempt = r.attempt]
                  ELSE r)

BlockPending(t) ==
    /\ task[t].state = "pending"
    /\ Put(t, Stopped(task[t], "decision"))

\* Mutant: the report stays with the released task.
ReleaseKeepingReport(t) ==
    /\ task[t].state = "in_progress" /\ Leased(t)
    /\ Put(t, [EndAttempt(task[t], "released") EXCEPT !.state = "pending"])

Release(t) ==
    /\ task[t].state = "in_progress" /\ Leased(t)
    /\ Put(t, [EndAttempt(task[t], "released") EXCEPT !.state = "pending", !.report = None])

\* Reset, and ResetBy, which refuses some callers: its steps are steps of Reset.
Reset(t, p) ==
    /\ task[t].state = "blocked"
    /\ Put(t, [Unstopped(task[t]) EXCEPT !.state = "pending", !.report = None,
                                         !.pool = OrElse(p, @)])

SetPool(t, p) ==
    /\ Exists(t) /\ ~Terminal(t)
    /\ task[t].attempt = 0
    /\ Put(t, [task[t] EXCEPT !.pool = p])

\* Mutant: a completed task may still be cancelled.
CancelAny(t) ==
    /\ Exists(t) /\ task[t].state # "cancelled"
    /\ Put(t, [EndAttempt(task[t], "cancelled") EXCEPT !.state = "cancelled",
                                                       !.report = None, !.wait = None])

Cancel(t) ==
    /\ Exists(t) /\ ~Terminal(t)
    /\ Put(t, [EndAttempt(task[t], "cancelled") EXCEPT !.state = "cancelled",
                                                       !.report = None, !.wait = None])

SetWait(t, w) ==
    /\ task[t].state = "pending" /\ task[t].wait # w
    /\ Put(t, [task[t] EXCEPT !.wait = w])

Due(t, at) ==
    /\ task[t].state = "in_progress" /\ Leased(t)
    /\ task[t].report = None
    /\ at >= task[t].lease.expiresAt

ExpireDue(at) ==
    /\ \E t \in TaskIds : Due(t, at)
    /\ task' = [t \in TaskIds |->
                  IF Due(t, at)
                  THEN [EndAttempt(task[t], IF task[t].lease.claimed THEN "expired"
                                            ELSE "unclaimed")
                          EXCEPT !.state = "pending"]
                  ELSE task[t]]
    /\ UNCHANGED <<marker, gate, now>>

----------------------------------------------------------------------------
(* Scope: a lead widens declared_files; a refused commit is re-armed.      *)

TypedRequest(t) ==
    /\ task[t].state = "blocked" /\ task[t].report = None /\ task[t].refused
    /\ task[t].reason \in {"widen_requested", "growth_gate_required"}

\* Mutant: only the grant checks the file locks.
CanWidenAnything(t, actor, added) ==
    /\ Exists(t) /\ ~Terminal(t)
    /\ added # {}
    /\ actor \notin {task[t].lease.holder, task[t].report}

CanWiden(t, actor, added) ==
    /\ Exists(t) /\ ~Terminal(t)
    /\ added # {}
    /\ actor \notin {task[t].lease.holder, task[t].report}
    /\ Active(t) => Conflicts(t, task[t].files \cup added) = {}

Widened(t, added) == [task[t] EXCEPT !.files = @ \cup added]

\* Mutant: a re-armed commit runs under the attempt that was refused.
ReArmedSameAttempt(r, at) ==
    [Unstopped(r) EXCEPT !.state = "in_progress",
                         !.lease = Extended(NewLease(r.report, at), at)]

ReArmed(r, at) ==
    [Unstopped(r) EXCEPT !.state = "in_progress", !.attempt = @ + 1,
                         !.lease = Extended(NewLease(r.report, at), at)]

WidenGated(t, actor, added, at) ==
    /\ CanWiden(t, actor, added)
    /\ \/ /\ Reserved(t)
          /\ MayStart
          /\ Put(t, ReArmed(Widened(t, added), at))
       \/ /\ TypedRequest(t)
          /\ Put(t, [Unstopped(Widened(t, added)) EXCEPT !.state = "pending", !.wait = None])
       \/ /\ ~Reserved(t) /\ ~TypedRequest(t)
          /\ Put(t, Widened(t, added))

Escalate(t) ==
    /\ task[t].state = "blocked"
    /\ LET r == Stopped(task[t], "growth_gate_required")
       IN  Put(t, IF task[t].report = None /\ task[t].refused
                  THEN [r EXCEPT !.refused = TRUE,
                                 !.blockAttempt = task[t].blockAttempt]
                  ELSE r)

----------------------------------------------------------------------------
(* The harness: verifier snapshots and verdicts, PR bindings, merges *)

\* Mutant: a snapshot moves under a recorded verdict.
SnapshotAnyTree(t, tree, command) ==
    /\ task[t].state = "in_progress" /\ Leased(t)
    /\ Put(t, [task[t] EXCEPT !.lease = [@ EXCEPT !.snapshot = tree, !.command = command]])

RecordSnapshot(t, tree, command) ==
    /\ task[t].state = "in_progress" /\ Leased(t)
    /\ SoundVerdict(task[t]) => task[t].lease.verdict.tree = tree
    /\ Put(t, [task[t] EXCEPT
                 !.lease = [OnlySound(task[t]) EXCEPT !.snapshot = tree, !.command = command]])

RecordVerdict(t, result) ==
    /\ task[t].class \in Mechanical
    /\ task[t].state = "in_progress" /\ Leased(t)
    /\ task[t].lease.snapshot # None
    /\ SoundVerdict(task[t]) => task[t].lease.verdict.command # task[t].lease.command
    /\ Put(t, [task[t] EXCEPT !.lease = [@ EXCEPT !.verdict =
                 [attempt |-> task[t].attempt, tree |-> task[t].lease.snapshot,
                  command |-> task[t].lease.command, result |-> result]]])

BindPR(t, p, h) ==
    /\ Exists(t)
    /\ PRFree(t, p)
    /\ Put(t, Bound(task[t], p, h))

RecordPRMerge(t, p, h, c) ==
    /\ Exists(t)
    /\ task[t].pr = p /\ task[t].head = h
    /\ task[t].mergeCommit \in {None, c}
    /\ task[t].mergeHead \in {None, h}
    /\ Put(t, [task[t] EXCEPT !.mergeHead = h, !.mergeCommit = c])

----------------------------------------------------------------------------
(* Unclean markers: CleanSeat's two takes of the store lock *)

ReserveSeat(s, nonce, at) ==
    /\ HeldBy(s) = {}
    /\ \/ marker[s] = NoMarker
       \/ at - marker[s].at >= MarkerTTL
       \/ marker[s].at > at + MarkerTTL
    /\ marker' = [marker EXCEPT ![s] = [nonce |-> nonce, at |-> at]]
    /\ UNCHANGED <<task, gate, now>>

ReleaseSeat(s, nonce) ==
    /\ marker[s].nonce = nonce
    /\ marker' = [marker EXCEPT ![s] = NoMarker]
    /\ UNCHANGED <<task, gate, now>>

----------------------------------------------------------------------------
(* The environment: the owner edits the verifier grant; time passes *)

ChangeGate(g) ==
    /\ g # gate
    /\ gate' = g
    /\ UNCHANGED <<task, marker, now>>

Tick ==
    /\ now < MaxTime
    /\ now' = now + 1
    /\ UNCHANGED <<task, marker, gate>>

----------------------------------------------------------------------------

Init ==
    /\ task = [t \in TaskIds |-> AbsentTask]
    /\ marker = [s \in Seats |-> NoMarker]
    /\ gate \in Gates
    /\ now = 0

SeatStep(t, s, at) ==
    \/ \E p \in Pools \cup {None} : Grant(t, s, p, at) \/ ClaimPending(t, s, p, at)
    \/ ClaimHeld(t, s, at)
    \/ Renew(t, s, at)
    \/ Done(t, s, at)
    \/ Fail(t, s, at)
    \/ \E reason \in {"widen_requested", "decision"} :
          BlockHeld(t, s, reason, at)

LeadStep(t, at) ==
    \/ Add(t)
    \/ BlockPending(t)
    \/ Release(t)
    \/ \E p \in Pools \cup {None} : Reset(t, p)
    \/ \E p \in Pools : SetPool(t, p)
    \/ Cancel(t)
    \/ \E w \in WaitReasons \cup {None} : SetWait(t, w)
    \/ \E actor \in Seats \cup {Lead}, added \in SUBSET Paths : WidenGated(t, actor, added, at)
    \/ Escalate(t)

HarnessStep(t) ==
    \/ Complete(t)
    \/ \E p \in PRs, h \in Heads : CompleteBound(t, p, h) \/ BindPR(t, p, h)
    \/ \E p \in PRs, h \in Heads, c \in MergeCommits : RecordPRMerge(t, p, h, c)
    \/ \E refused \in BOOLEAN : RefuseCommit(t, refused)
    \/ \E tree \in Trees, command \in Commands : RecordSnapshot(t, tree, command)
    \/ \E result \in {"pass", "fail"} : RecordVerdict(t, result)

Next ==
    \/ \E t \in TaskIds, s \in Seats, at \in Stamps : SeatStep(t, s, at)
    \/ \E t \in TaskIds, at \in Stamps : LeadStep(t, at)
    \/ \E t \in TaskIds : HarnessStep(t)
    \/ \E at \in Stamps : ExpireDue(at)
    \/ \E s \in Seats, nonce \in Nonces, at \in Stamps : ReserveSeat(s, nonce, at)
    \/ \E s \in Seats, nonce \in Nonces : ReleaseSeat(s, nonce)
    \/ \E g \in Gates : ChangeGate(g)
    \/ Tick

Spec == Init /\ [][Next]_vars

----------------------------------------------------------------------------
(* Invariants *)

\* Every variable has its type.
TypeOK ==
    /\ task \in [TaskIds -> Task]
    /\ marker \in [Seats -> Marker]
    /\ gate \in Gates
    /\ now \in Nat

\* The seat a task keeps busy: its lease's holder, or, after a refused done
\* report, the reporting seat.
Holder(r) ==
    IF r.lease.holder # None THEN r.lease.holder
    ELSE IF Kept(r) THEN r.report
    ELSE None
HolderOf(t) == Holder(task[t])

\* "A task never has two holders and a seat never holds two leases": through
\* grants, pulls, refusals, re-armed commits and expiries, a seat is kept busy
\* by at most one task.
OneHoldPerSeat ==
    \A t, u \in TaskIds : t # u /\ HolderOf(t) # None => HolderOf(t) # HolderOf(u)

\* File locks: two tasks that hold a seat never declare overlapping files,
\* whatever is widened while they run or while a refused diff waits.
FileLockExclusion ==
    \A t, u \in TaskIds :
        t # u /\ HolderOf(t) # None /\ HolderOf(u) # None
            => ~Overlap(task[t].files, task[u].files)

LastRow(r) == r.attempts[Len(r.attempts)]

Consistent(r) ==
    /\ r.state = "in_progress" <=> r.lease.holder # None
    /\ r.lease.holder # None => r.report \in {None, r.lease.holder}
    /\ r.report # None =>
         \/ r.state = "in_progress"
         \/ /\ r.state \in {"blocked", "completed"}
            /\ Len(r.attempts) > 0
            /\ LastRow(r).holder = r.report
    /\ r.wait # None => r.state = "pending"

\* The state, the lease, the report and the wait reason of a task agree: only
\* a task in progress has a lease, a report is its holder's, and outlives the
\* lease only in the attempt that filed it.
LifecycleConsistent == \A t \in TaskIds : Consistent(task[t])

Accounted(r) ==
    /\ r.attempt = Len(r.attempts) + (IF r.lease.holder # None THEN 1 ELSE 0)
    /\ \A i \in 1 .. Len(r.attempts) : r.attempts[i].n = i

\* Every granted attempt is accounted for once: the ended ones are numbered
\* in order, and only the last may still be running.
AttemptsAccounted == \A t \in TaskIds : Accounted(task[t])

\* A seat whose worktree is not known clean keeps no task busy, although
\* claims of held leases and re-armed commits never look at the marker.
UncleanSeatIdle ==
    \A s \in Seats : marker[s] # NoMarker => HeldBy(s) = {}

\* A typed widen request stays bound to the attempt that made it, through the
\* escalation to the owner, and to no other block.
WidenRequestBound ==
    \A t \in TaskIds :
        task[t].blockAttempt # 0 =>
            /\ task[t].state \in {"blocked", "cancelled"}
            /\ task[t].refused
            /\ task[t].report = None
            /\ task[t].blockAttempt = task[t].attempt
            /\ LastRow(task[t]).outcome = "blocked"

\* The attempts of a task are numbered and ended once each, and a typed request
\* belongs to the attempt that made it, through every path that ends one.
AttemptsSound == AttemptsAccounted /\ WidenRequestBound

\* No attempt completes on a fail verdict, nor on the verdict of another one.
CompletedOnOwnVerdict ==
    \A t \in TaskIds : \A i \in 1 .. Len(task[t].attempts) :
        LET row == task[t].attempts[i]
        IN  row.outcome = "completed" /\ row.verdict.result # "none" =>
                row.verdict.result = "pass" /\ row.verdict.attempt = row.n

\* A verdict the harness recorded never goes stale under its own attempt: it
\* stays on the tree of the lease's snapshot.
VerdictOnSnapshot ==
    \A t \in TaskIds : HasVerdict(task[t]) => ~VerdictInvalid(task[t])

\* What the verifier said, off the lock, counts for the attempt and the tree it
\* was said of and for no other.
VerdictsSound == CompletedOnOwnVerdict /\ VerdictOnSnapshot

\* A pull request is never bound to two tasks.
PROneTask ==
    \A t, u \in TaskIds : t # u /\ task[t].pr # None => task[t].pr # task[u].pr

\* A recorded merge proves the head the task is bound to now, never one it
\* was bound to before.
MergeOfBoundHead ==
    \A t \in TaskIds :
        task[t].mergeCommit # None => task[t].pr # None /\ task[t].mergeHead = task[t].head

\* Lead, commit step and merge train bind and record merges in any order: one
\* task per pull request, and the merge proof is of the head bound now.
BindingsSound == PROneTask /\ MergeOfBoundHead

----------------------------------------------------------------------------
(* Action properties *)

\* The work of d is there: merged at the head it is bound to (a cancelled
\* task's merge counts), or completed when no pull request is bound.
Delivered(d) ==
    IF task[d].pr # None
    THEN task[d].mergeCommit # None /\ task[d].mergeHead = task[d].head
    ELSE task[d].state = "completed"

\* No first attempt, and no attempt of a pending task, starts before all its
\* dependencies are delivered: a bound one that is completed or cancelled but
\* not merged holds it back.  Only a new pull request or head takes a delivery
\* back.  (A growth answer re-arms a running task's attempt without the check.)
DependenciesFirst ==
    [][/\ \A t \in TaskIds :
             /\ task'[t].attempt # task[t].attempt
             /\ task[t].attempt = 0 \/ task[t].state = "pending"
             => \A d \in task[t].deps : Delivered(d)
       /\ \A d \in TaskIds :
             Delivered(d) => \/ Delivered(d)'
                             \/ task'[d].pr # task[d].pr \/ task'[d].head # task[d].head]_vars

\* A lease whose done report waits for the commit step does not expire.
ReportNeverExpires ==
    [][\A t \in TaskIds :
          task[t].report # None /\ Len(task'[t].attempts) > Len(task[t].attempts)
            => LastRow(task[t])'.outcome \notin {"expired", "unclaimed"}]_vars

\* renewed_at and expires_at of one attempt only move forward, although the
\* writers' timestamps are applied out of order.
LeaseMovesForward ==
    [][\A t \in TaskIds :
          Leased(t) /\ Leased(t)' /\ task[t].attempt = task'[t].attempt =>
            /\ task'[t].lease.holder = task[t].lease.holder
            /\ task'[t].lease.expiresAt >= task[t].lease.expiresAt
            /\ task'[t].lease.renewedAt >= task[t].lease.renewedAt]_vars

\* Completed and cancelled are final, and no attempt row is ever rewritten.
HistoryIsFinal ==
    [][\A t \in TaskIds :
          /\ Terminal(t) => task'[t].state = task[t].state /\ task'[t].attempts = task[t].attempts
          /\ Len(task'[t].attempts) >= Len(task[t].attempts)
          /\ \A i \in 1 .. Len(task[t].attempts) :
                task'[t].attempts[i] = task[t].attempts[i]]_vars

\* A gated class completes only on a pass verdict recorded in the attempt that
\* completes, also when the configuration cannot be read or lost its command.
GateHolds ==
    [][\A t \in TaskIds :
          /\ ~Terminal(t) /\ task'[t].state = "completed"
          /\ task[t].class \in Mechanical /\ gate # "none"
          => /\ LastRow(task[t])'.verdict.result = "pass"
             /\ LastRow(task[t])'.verdict.attempt = task[t].attempt
             /\ LastRow(task[t])'.verdict.tree = task[t].lease.snapshot]_vars

\* The pool of a task that was granted changes only with a new grant or the
\* reset of a block.
PoolPinned ==
    [][\A t \in TaskIds :
          task[t].attempt > 0 /\ task'[t].pool # task[t].pool =>
            <<task[t].state, task'[t].state>> \in
                {<<"pending", "in_progress">>, <<"blocked", "pending">>}]_vars

\* A lease only moves forward under late writers, a done report keeps it, and
\* the pool it was granted from stays.
LeasesHonoured == ReportNeverExpires /\ LeaseMovesForward /\ PoolPinned

----------------------------------------------------------------------------
(* The store implements the lease board. *)

Board == INSTANCE LeaseBoard WITH
            hold <- [t \in TaskIds |-> HolderOf(t)],
            files <- [t \in TaskIds |-> task[t].files],
            closed <- {t \in TaskIds : Terminal(t)}

\* Every behaviour of the store is one of the lease board: the seats and the
\* files of running tasks are exclusive, and closed tasks stay closed.
ImplementsBoard == Board!BoardSpec
=============================================================================
