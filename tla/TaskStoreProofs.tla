-------------------------- MODULE TaskStoreProofs --------------------------
(***************************************************************************)
(* The task store, for every set of tasks, seats and files.  First the     *)
(* leases: seats and files are exclusive, by an inductive invariant, and   *)
(* the store refines the lease board.  Then the history of every task:     *)
(* attempts, typed requests, verdicts, bindings, dependencies, and what a  *)
(* step may never do to a lease, a row or a closed task.  Each step        *)
(* advances one record, or those whose lease is due.                       *)
(***************************************************************************)
EXTENDS TaskStore, TLAPS

----------------------------------------------------------------------------
(* What the operators on one task record return *)

LEMMA NoLeaseType == NoLease \in Lease /\ NoLease.holder = None
BY DEF NoLease, Lease, NoVerdict, Verdict, Never

LEMMA AbsentTaskType == AbsentTask \in Task
<1>1. <<>> \in Seq(Attempt)
  OBVIOUS
<1> QED
  BY <1>1, NoLeaseType DEF AbsentTask, Task, States

LEMMA StatesType ==
    /\ {"pending", "in_progress", "blocked", "completed", "cancelled"} \subseteq States
    /\ "pending" \in States /\ "cancelled" \in States
    /\ TRUE \in BOOLEAN
    /\ None \in Seats \cup {None} /\ None \in WaitReasons \cup {None}
BY DEF States

\* A record whose state, report and wait, or pool, are replaced is a record.
LEMMA ReplacedType ==
    ASSUME NEW r \in Task, NEW state \in States, NEW report \in Seats \cup {None},
           NEW wait \in WaitReasons \cup {None}, NEW pool \in Pools \cup {None}
    PROVE  /\ [r EXCEPT !.state = state, !.report = report] \in Task
           /\ [r EXCEPT !.state = state, !.report = report, !.wait = wait] \in Task
           /\ [r EXCEPT !.state = state, !.report = report, !.pool = pool] \in Task
<1>1. [r EXCEPT !.state = state, !.report = report] \in Task
  BY Zenon DEF Task
<1>2. [r EXCEPT !.state = state, !.report = report, !.wait = wait] \in Task
  BY Zenon DEF Task
<1>3. [r EXCEPT !.state = state, !.report = report, !.pool = pool] \in Task
  BY Zenon DEF Task
<1> QED
  BY <1>1, <1>2, <1>3

LEMMA PendingType ==
    ASSUME NEW r \in Task
    PROVE  [r EXCEPT !.state = "pending", !.wait = None] \in Task
<1>1. "pending" \in States /\ None \in WaitReasons \cup {None}
  BY StatesType
<1>2. \A state \in States, wait \in WaitReasons \cup {None} :
         [r EXCEPT !.state = state, !.wait = wait] \in Task
  BY Zenon DEF Task
<1> QED
  BY <1>1, <1>2

LEMMA TypedRequestType ==
    ASSUME NEW r \in Task, NEW refused \in BOOLEAN, NEW n \in Nat
    PROVE  [r EXCEPT !.refused = refused, !.blockAttempt = n] \in Task
BY Zenon DEF Task

LEMMA NewLeaseType ==
    ASSUME NEW s \in Seats, NEW at \in Nat
    PROVE  NewLease(s, at) \in Lease /\ NewLease(s, at).holder = s
<1>1. at + LeaseLen \in Nat
  BY TimeAssumption
<1> QED
  BY NoLeaseType, <1>1 DEF NewLease, Lease

LEMMA OrElseType ==
    ASSUME NEW p \in Pools \cup {None}, NEW q \in Pools \cup {None}
    PROVE  OrElse(p, q) \in Pools \cup {None}
BY DEF OrElse

LEMMA GrantedType ==
    ASSUME NEW r \in Task, NEW s \in Seats, NEW p \in Pools \cup {None}, NEW at \in Nat
    PROVE  LET g == Granted(r, s, p, at)
           IN  /\ g \in Task
               /\ g.state = "in_progress" /\ g.wait = None /\ g.lease.holder = s
               /\ g.report = r.report /\ g.files = r.files
<1>1. r.attempt + 1 \in Nat /\ OrElse(p, r.pool) \in Pools \cup {None}
  BY OrElseType DEF Task
<1>2. Granted(r, s, p, at) \in Task
  BY <1>1, NewLeaseType DEF Granted, Task, States
<1>3. Granted(r, s, p, at).lease = NewLease(s, at)
  BY DEF Granted, Task
<1> QED
  BY <1>2, <1>3, NewLeaseType DEF Granted, Task

LEMMA ExtendedType ==
    ASSUME NEW l \in Lease, NEW at \in Nat
    PROVE  Extended(l, at) \in Lease /\ Extended(l, at).holder = l.holder
<1>1. Later(l.renewedAt, at) \in Nat \cup {Never} /\ Later(l.expiresAt, at + LeaseLen) \in Nat
  BY TimeAssumption DEF Later, Lease, Never
<1> QED
  BY <1>1 DEF Extended, Lease

LEMMA ClaimedType ==
    ASSUME NEW r \in Task, NEW at \in Nat
    PROVE  LET c == Claimed(r, at)
           IN  /\ c \in Task
               /\ c.lease.holder = r.lease.holder /\ c.state = r.state /\ c.wait = r.wait
               /\ c.report = r.report /\ c.files = r.files /\ c.attempts = r.attempts
<1>1. r.lease \in Lease
  BY DEF Task
<1>2. Extended(r.lease, at) \in Lease /\ Extended(r.lease, at).holder = r.lease.holder
  BY <1>1, ExtendedType
<1> QED
  BY <1>2 DEF Claimed, Task

LEMMA AttemptRowType ==
    ASSUME NEW r \in Task, NEW o \in Outcomes, r.lease.holder # None
    PROVE  AttemptRow(r, o) \in Attempt /\ AttemptRow(r, o).holder = r.lease.holder
<1> DEFINE v == IF HasVerdict(r) /\ VerdictInvalid(r)
                THEN [r.lease.verdict EXCEPT !.result = "invalid"] ELSE r.lease.verdict
<1>1. r.lease.verdict \in Verdict /\ r.lease.holder \in Seats /\ r.attempt \in Nat
  BY DEF Task, Lease
<1>2. [r.lease.verdict EXCEPT !.result = "invalid"] \in Verdict
  BY <1>1 DEF Verdict
<1>3. v \in Verdict
  BY <1>1, <1>2
<1> QED
  BY <1>1, <1>3 DEF AttemptRow, Attempt

LEMMA EndAttemptType ==
    ASSUME NEW r \in Task, NEW o \in Outcomes
    PROVE  LET e == EndAttempt(r, o)
           IN  /\ e \in Task
               /\ e.lease.holder = None /\ e.state = r.state /\ e.wait = r.wait
               /\ e.report = r.report /\ e.files = r.files
               /\ r.lease.holder = None => e.attempts = r.attempts
               /\ r.lease.holder # None =>
                     Len(e.attempts) > 0 /\ LastRow(e).holder = r.lease.holder
<1>1. CASE r.lease.holder = None
  BY <1>1 DEF EndAttempt
<1>2. CASE r.lease.holder # None
  <2> DEFINE q == Append(r.attempts, AttemptRow(r, o))
  <2>1. r.attempts \in Seq(Attempt) /\ AttemptRow(r, o) \in Attempt
        /\ AttemptRow(r, o).holder = r.lease.holder
    BY <1>2, AttemptRowType DEF Task
  <2>2. q \in Seq(Attempt)
    BY <2>1
  <2>3. Len(q) > 0 /\ q[Len(q)].holder = r.lease.holder
    BY <2>1
  <2> DEFINE e == [r EXCEPT !.attempts = q, !.lease = NoLease]
  <2>4. EndAttempt(r, o) = e
    BY <1>2 DEF EndAttempt
  <2> HIDE DEF q
  <2>5. e \in Task
    <3>1. NoLease \in Lease
      BY NoLeaseType
    <3> QED
      BY <2>2, <3>1, Zenon DEF Task
  <2>6. e.attempts = q /\ e.lease.holder = None
    BY NoLeaseType DEF Task
  <2>7. e.state = r.state /\ e.wait = r.wait /\ e.report = r.report /\ e.files = r.files
    BY DEF Task
  <2> HIDE DEF e
  <2>8. Len(e.attempts) > 0 /\ LastRow(e).holder = r.lease.holder
    BY <2>3, <2>6 DEF LastRow
  <2> QED
    BY <1>2, <2>4, <2>5, <2>6, <2>7, <2>8
<1> QED
  BY <1>1, <1>2

LEMMA StoppedType ==
    ASSUME NEW r \in Task, NEW reason \in Reasons
    PROVE  LET b == Stopped(r, reason)
           IN  /\ b \in Task
               /\ b.state = "blocked" /\ b.wait = None /\ b.report = r.report
               /\ b.files = r.files /\ b.lease = r.lease /\ b.attempts = r.attempts
<1>1. Stopped(r, reason) \in Task
  BY DEF Stopped, Task, States
<1>2. Stopped(r, reason).state = "blocked" /\ Stopped(r, reason).wait = None
  BY DEF Stopped, Task
<1>3. Stopped(r, reason).report = r.report /\ Stopped(r, reason).files = r.files
      /\ Stopped(r, reason).lease = r.lease /\ Stopped(r, reason).attempts = r.attempts
  BY DEF Stopped, Task
<1> QED
  BY <1>1, <1>2, <1>3

LEMMA UnstoppedType ==
    ASSUME NEW r \in Task
    PROVE  LET u == Unstopped(r)
           IN  /\ u \in Task
               /\ u.state = r.state /\ u.wait = r.wait /\ u.report = r.report
               /\ u.files = r.files /\ u.lease = r.lease /\ u.attempts = r.attempts
               /\ u.attempt = r.attempt
<1>1. Unstopped(r) \in Task
  BY DEF Unstopped, Task
<1>2. Unstopped(r).state = r.state /\ Unstopped(r).wait = r.wait
      /\ Unstopped(r).report = r.report /\ Unstopped(r).files = r.files
      /\ Unstopped(r).lease = r.lease /\ Unstopped(r).attempts = r.attempts
      /\ Unstopped(r).attempt = r.attempt
  BY DEF Unstopped, Task
<1> QED
  BY <1>1, <1>2

LEMMA OnlySoundType ==
    ASSUME NEW r \in Task
    PROVE  OnlySound(r) \in Lease /\ OnlySound(r).holder = r.lease.holder
<1>1. r.lease \in Lease /\ NoVerdict \in Verdict
  BY DEF Task, NoVerdict, Verdict
<1> QED
  BY <1>1 DEF OnlySound, Lease

LEMMA BoundType ==
    ASSUME NEW r \in Task, NEW p \in PRs, NEW h \in Heads
    PROVE  LET b == Bound(r, p, h)
           IN  /\ b \in Task
               /\ b.state = r.state /\ b.wait = r.wait /\ b.report = r.report
               /\ b.files = r.files /\ b.lease = r.lease /\ b.attempts = r.attempts
BY DEF Bound, Task

----------------------------------------------------------------------------
(* The inductive invariant, and what one rewritten task record may do to it *)

IInv ==
    /\ TypeOK
    /\ LifecycleConsistent
    /\ OneHoldPerSeat
    /\ FileLockExclusion
    /\ UncleanSeatIdle

Closed(r) == r.state \in {"completed", "cancelled"}

Keeps(t, r) ==
    Holder(r) = HolderOf(t) /\ r.files = task[t].files /\ (Closed(r) <=> Terminal(t))
Drops(t, r) ==
    Holder(r) = None /\ r.files = task[t].files /\ (Closed(r) <=> Terminal(t))
Closes(t, r) ==
    Holder(r) = None /\ r.files = task[t].files /\ Closed(r) /\ ~Terminal(t)
Takes(t, r) ==
    /\ Holder(r) \in Seats /\ HolderOf(t) = None
    /\ HeldBy(Holder(r)) = {} /\ marker[Holder(r)] = NoMarker
    /\ r.files = task[t].files /\ Conflicts(t, r.files) = {}
    /\ ~Closed(r) /\ ~Terminal(t)
Scopes(t, r) ==
    /\ Holder(r) = HolderOf(t)
    /\ HolderOf(t) # None => task[t].files \subseteq r.files
    /\ Active(t) => Conflicts(t, r.files) = {}
    /\ ~Closed(r) /\ ~Terminal(t)

Moves(t, r) == Keeps(t, r) \/ Drops(t, r) \/ Closes(t, r) \/ Takes(t, r) \/ Scopes(t, r)

LEMMA HolderType ==
    ASSUME NEW r \in Task
    PROVE  Holder(r) \in Seats \cup {None}
BY DEF Holder, Task, Lease

\* A task that keeps a seat busy is active, and is the seat's in HeldBy.
LEMMA HolderMeaning ==
    ASSUME NEW r \in Task, Consistent(r)
    PROVE  /\ Holder(r) # None => r.state \in {"in_progress", "blocked"}
           /\ \A s \in Seats : Holder(r) = s <=>
                 r.lease.holder = s \/ (Kept(r) /\ r.report = s)
BY NoneAssumption DEF Holder, Kept, Consistent, Task, Lease

LEMMA HeldByHolder ==
    ASSUME TypeOK, LifecycleConsistent, NEW s \in Seats
    PROVE  HeldBy(s) = {t \in TaskIds : HolderOf(t) = s}
<1>1. \A t \in TaskIds : task[t] \in Task /\ Consistent(task[t])
  BY DEF TypeOK, LifecycleConsistent
<1> QED
  BY <1>1, HolderMeaning DEF HeldBy, HolderOf, Reserved

LEMMA PutIInv ==
    ASSUME IInv, NEW t \in TaskIds, NEW r \in Task, Consistent(r), Moves(t, r), Put(t, r)
    PROVE  IInv'
<1> USE DEF IInv
<1>1. /\ task \in [TaskIds -> Task] /\ task' = [task EXCEPT ![t] = r]
      /\ UNCHANGED <<marker, gate, now>>
  BY DEF TypeOK, Put
<1>2. /\ \A u \in TaskIds : task'[u] = IF u = t THEN r ELSE task[u]
      /\ task' \in [TaskIds -> Task]
  BY <1>1
<1>3. \A u \in TaskIds : HolderOf(u)' = IF u = t THEN Holder(r) ELSE HolderOf(u)
  BY <1>2 DEF HolderOf
<1>4. TypeOK'
  BY <1>1, <1>2 DEF TypeOK
<1>5. LifecycleConsistent'
  BY <1>2 DEF LifecycleConsistent
<1>6. \A u \in TaskIds : HolderOf(u) # None => Active(u)
  BY <1>1, HolderMeaning DEF HolderOf, Active, LifecycleConsistent
<1>7. \A s \in Seats : HeldBy(s) = {u \in TaskIds : HolderOf(u) = s}
  BY HeldByHolder
<1>8. \A s \in Seats : HeldBy(s)' = {u \in TaskIds : HolderOf(u)' = s}
  BY <1>2, <1>5, HolderMeaning DEF HeldBy, HolderOf, Reserved, LifecycleConsistent
<1>9. Holder(r) # HolderOf(t) /\ Holder(r) # None => Takes(t, r)
  BY DEF Moves, Keeps, Drops, Closes, Scopes
<1>10. OneHoldPerSeat'
  <2> SUFFICES ASSUME NEW u \in TaskIds, NEW w \in TaskIds, u # w, HolderOf(u)' # None
               PROVE  HolderOf(u)' # HolderOf(w)'
    BY DEF OneHoldPerSeat
  <2>1. CASE Takes(t, r)
    <3>1. \A o \in TaskIds : HolderOf(o) # Holder(r)
      BY <2>1, <1>7 DEF Takes
    <3> QED
      BY <3>1, <1>3 DEF OneHoldPerSeat
  <2>2. CASE ~Takes(t, r)
    BY <2>2, <1>3, <1>9 DEF OneHoldPerSeat
  <2> QED
    BY <2>1, <2>2
<1>11. FileLockExclusion'
  <2> SUFFICES ASSUME NEW u \in TaskIds, NEW w \in TaskIds, u # w,
                      HolderOf(u)' # None, HolderOf(w)' # None
               PROVE  task'[u].files \cap task'[w].files = {}
    BY DEF FileLockExclusion, Overlap
  <2>1. \A o \in TaskIds \ {t} : HolderOf(o) # None /\ Holder(r) # None
           => r.files \cap task[o].files = {}
    <3> SUFFICES ASSUME NEW o \in TaskIds \ {t}, HolderOf(o) # None, Holder(r) # None
                 PROVE  r.files \cap task[o].files = {}
      OBVIOUS
    <3>1. Active(o)
      BY <1>6
    <3>2. CASE Takes(t, r) \/ Scopes(t, r)
      BY <3>1, <3>2, <1>6 DEF Takes, Scopes, Conflicts, Overlap
    <3>3. CASE ~Takes(t, r) /\ ~Scopes(t, r)
      <4>1. Keeps(t, r)
        BY <3>3 DEF Moves, Drops, Closes
      <4> QED
        BY <4>1 DEF Keeps, FileLockExclusion, Overlap
    <3> QED
      BY <3>2, <3>3
  <2> QED
    BY <2>1, <1>2, <1>3 DEF FileLockExclusion, Overlap
<1>12. UncleanSeatIdle'
  <2> SUFFICES ASSUME NEW s \in Seats, marker[s] # NoMarker, NEW u \in TaskIds, HolderOf(u)' = s
               PROVE  FALSE
    BY <1>1, <1>8 DEF UncleanSeatIdle
  <2>1. HolderOf(u) # s
    BY <1>7 DEF UncleanSeatIdle
  <2>2. u = t /\ Holder(r) = s
    BY <2>1, <1>3
  <2>3. Takes(t, r)
    BY <2>1, <2>2, <1>9, NoneAssumption
  <2> QED
    BY <2>2, <2>3 DEF Takes
<1> QED
  BY <1>4, <1>5, <1>10, <1>11, <1>12

----------------------------------------------------------------------------
(* Every operation on one task rewrites its record in one of those ways. *)

Rewrites(t) == \E r \in Task : Consistent(r) /\ Moves(t, r) /\ Put(t, r)

LEMMA TaskFacts ==
    ASSUME IInv, NEW t \in TaskIds
    PROVE  task[t] \in Task /\ Consistent(task[t])
BY DEF IInv, TypeOK, LifecycleConsistent

LEMMA AddRewrites ==
    ASSUME IInv, NEW t \in TaskIds, Add(t)
    PROVE  Rewrites(t)
<1>1. PICK class \in Classes, deps \in SUBSET {d \in TaskIds : Exists(d)},
           files \in SUBSET Paths, p \in Pools \cup {None} :
           Put(t, [AbsentTask EXCEPT !.state = "pending", !.class = class,
                                     !.deps = deps, !.files = files, !.pool = p])
  BY DEF Add
<1> DEFINE r == [AbsentTask EXCEPT !.state = "pending", !.class = class,
                                   !.deps = deps, !.files = files, !.pool = p]
<1>2. r \in Task
  BY AbsentTaskType DEF Task, States
<1>3. r.state = "pending" /\ r.lease = NoLease /\ r.report = None /\ r.wait = None
      /\ r.files = files
  BY AbsentTaskType DEF AbsentTask, Task
<1>4. Consistent(r) /\ Holder(r) = None
  BY <1>3, NoLeaseType DEF Consistent, Holder, Kept
<1>5. task[t].state = "absent"
  BY DEF Add, Exists
<1>6. HolderOf(t) = None /\ ~Active(t) /\ ~Terminal(t)
  BY <1>5, TaskFacts DEF HolderOf, Holder, Kept, Consistent, Active, Terminal
<1>7. Moves(t, r)
  BY <1>3, <1>4, <1>6 DEF Moves, Scopes, Closed
<1> QED
  BY <1>1, <1>2, <1>4, <1>7 DEF Rewrites

LEMMA TakeMoves ==
    ASSUME IInv, NEW t \in TaskIds, NEW s \in Seats, Grantable(t, s), NEW r \in Task,
           r.state = "in_progress", r.wait = None, r.lease.holder = s,
           r.report = task[t].report, r.files = task[t].files
    PROVE  Consistent(r) /\ Moves(t, r)
<1>1. task[t].state = "pending" /\ Consistent(task[t])
  BY TaskFacts DEF Grantable
<1>2. r.report = None
  BY <1>1 DEF Consistent
<1>3. Consistent(r) /\ Holder(r) = s
  BY <1>2, NoneAssumption DEF Consistent, Holder
<1>4. HolderOf(t) = None
  BY <1>1 DEF HolderOf, Holder, Kept, Consistent
<1>5. Takes(t, r)
  BY <1>1, <1>3, <1>4 DEF Takes, Grantable, Unblocked, Closed, Terminal
<1> QED
  BY <1>3, <1>5 DEF Moves

LEMMA GrantRewrites ==
    ASSUME IInv, NEW t \in TaskIds, NEW s \in Seats, NEW p \in Pools \cup {None},
           NEW at \in Nat, Grant(t, s, p, at) \/ ClaimPending(t, s, p, at)
    PROVE  Rewrites(t)
<1> DEFINE g == Granted(task[t], s, p, at)
           c == Claimed(g, at)
<1>1. task[t] \in Task /\ Grantable(t, s)
  BY TaskFacts DEF Grant, ClaimPending
<1>2. /\ g \in Task /\ g.state = "in_progress" /\ g.wait = None /\ g.lease.holder = s
      /\ g.report = task[t].report /\ g.files = task[t].files
  BY <1>1, GrantedType
<1>3. /\ c \in Task /\ c.state = "in_progress" /\ c.wait = None /\ c.lease.holder = s
      /\ c.report = task[t].report /\ c.files = task[t].files
  BY <1>2, ClaimedType
<1>4. Put(t, g) \/ Put(t, c)
  BY DEF Grant, ClaimPending
<1> HIDE DEF g, c
<1> QED
  BY <1>1, <1>2, <1>3, <1>4, TakeMoves DEF Rewrites

\* A record that differs from r only where nobody's seat or files are concerned.
SameHold(r, q) ==
    /\ q.lease.holder = r.lease.holder /\ q.state = r.state /\ q.wait = r.wait
    /\ q.report = r.report /\ q.files = r.files /\ q.attempts = r.attempts

LEMMA SameHoldRewrites ==
    ASSUME IInv, NEW t \in TaskIds, NEW q \in Task, SameHold(task[t], q), Put(t, q)
    PROVE  Rewrites(t)
<1>1. Consistent(q)
  BY TaskFacts DEF SameHold, Consistent, LastRow
<1>2. Keeps(t, q)
  BY DEF Keeps, SameHold, HolderOf, Holder, Kept, Closed, Terminal
<1> QED
  BY <1>1, <1>2 DEF Rewrites, Moves

LEMMA ClaimHeldRewrites ==
    ASSUME IInv, NEW t \in TaskIds, NEW s \in Seats, NEW at \in Nat,
           ClaimHeld(t, s, at) \/ Renew(t, s, at)
    PROVE  Rewrites(t)
<1>1. Put(t, Claimed(task[t], at))
  BY DEF ClaimHeld, Renew
<1>2. Claimed(task[t], at) \in Task /\ SameHold(task[t], Claimed(task[t], at))
  BY TaskFacts, ClaimedType DEF SameHold
<1> QED
  BY <1>1, <1>2, SameHoldRewrites

\* The gate of a done report completes the task, or keeps the reporting seat.
LEMMA AcceptedType ==
    ASSUME NEW r \in Task, Consistent(r), r.state = "in_progress", r.report # None
    PROVE  LET a == Accepted(r)
           IN  /\ a \in Task /\ Consistent(a) /\ a.files = r.files
               /\ \/ a.state = "completed" /\ Holder(a) = None
                  \/ a.state = "blocked" /\ Holder(a) = Holder(r)
<1> DEFINE q == [r EXCEPT !.lease = OnlySound(r)]
           b == EndAttempt(q, "blocked")
           e == EndAttempt(q, "completed")
<1>1. q \in Task
  BY OnlySoundType DEF Task
<1>2. /\ q.lease.holder = r.lease.holder /\ q.report = r.report /\ q.files = r.files
      /\ q.state = "in_progress" /\ q.wait = r.wait
  BY OnlySoundType DEF Task
<1>3. r.lease.holder # None /\ r.report = r.lease.holder /\ r.wait = None
      /\ Holder(r) = r.lease.holder
  BY DEF Consistent, Holder
<1> HIDE DEF q
<1>4. /\ b \in Task /\ b.lease.holder = None /\ b.report = r.report /\ b.files = r.files
      /\ Len(b.attempts) > 0 /\ LastRow(b).holder = r.report
  BY <1>1, <1>2, <1>3, EndAttemptType DEF Outcomes
<1>5. /\ e \in Task /\ e.lease.holder = None /\ e.report = r.report /\ e.files = r.files
      /\ Len(e.attempts) > 0 /\ LastRow(e).holder = r.report /\ e.wait = None
  BY <1>1, <1>2, <1>3, EndAttemptType DEF Outcomes
<1> HIDE DEF b, e
<1>6. ASSUME NEW reason \in Reasons
      PROVE  LET x == Stopped(b, reason)
             IN  x \in Task /\ Consistent(x) /\ x.files = r.files
                 /\ x.state = "blocked" /\ Holder(x) = Holder(r)
  <2> DEFINE x == Stopped(b, reason)
  <2>1. /\ x \in Task /\ x.state = "blocked" /\ x.wait = None /\ x.report = r.report
        /\ x.files = r.files /\ x.lease.holder = None /\ x.attempts = b.attempts
    BY <1>4, StoppedType
  <2> HIDE DEF x
  <2>2. Consistent(x)
    BY <1>4, <2>1 DEF Consistent, LastRow
  <2>3. Holder(x) = Holder(r)
    BY <1>3, <2>1 DEF Holder, Kept
  <2> QED
    BY <2>1, <2>2, <2>3 DEF x
<1> DEFINE u == Unstopped(e)
           c == [u EXCEPT !.state = "completed"]
<1>7. /\ u \in Task /\ u.lease.holder = None /\ u.report = r.report /\ u.files = r.files
      /\ u.attempts = e.attempts /\ u.wait = None
  BY <1>5, UnstoppedType
<1> HIDE DEF u
<1>8. c \in Task
  BY <1>7 DEF Task, States
<1>9. /\ c.state = "completed" /\ c.lease.holder = None /\ c.report = r.report
      /\ c.files = r.files /\ c.attempts = e.attempts /\ c.wait = None
  BY <1>7 DEF Task
<1> HIDE DEF c
<1>10. Consistent(c) /\ Holder(c) = None
  BY <1>5, <1>9 DEF Consistent, LastRow, Holder, Kept
<1>11. Accepted(r) \in {Stopped(b, "verdict_missing"), Stopped(b, "verdict_failed"), c}
  BY DEF Accepted, q, b, e, u, c
<1>12. "verdict_missing" \in Reasons /\ "verdict_failed" \in Reasons
  BY DEF Reasons
<1> QED
  BY <1>6, <1>8, <1>9, <1>10, <1>11, <1>12

\* Done files a report and, for a task that declares no files, runs the gate;
\* Complete and CompleteBound run it for the commit step.
LEMMA AcceptedRewrites ==
    ASSUME IInv, NEW t \in TaskIds, task[t].state = "in_progress",
           NEW r \in Task, r.state = "in_progress", r.wait = task[t].wait,
           r.lease.holder = task[t].lease.holder, r.report = r.lease.holder,
           r.files = task[t].files, Put(t, Accepted(r))
    PROVE  Rewrites(t)
<1>1. Consistent(task[t]) /\ task[t].lease.holder # None
  BY TaskFacts DEF Consistent
<1>2. Consistent(r) /\ Holder(r) = HolderOf(t) /\ r.report # None
  BY <1>1 DEF Consistent, Holder, HolderOf
<1> DEFINE a == Accepted(r)
<1>3. /\ a \in Task /\ Consistent(a) /\ a.files = r.files
      /\ \/ a.state = "completed" /\ Holder(a) = None
         \/ a.state = "blocked" /\ Holder(a) = Holder(r)
  BY <1>2, AcceptedType
<1>4. Put(t, a)
  OBVIOUS
<1> HIDE DEF a
<1>5. ~Terminal(t)
  BY DEF Terminal
<1>6. Moves(t, a)
  BY <1>2, <1>3, <1>5 DEF Moves, Closes, Keeps, Closed
<1> QED
  BY <1>3, <1>4, <1>6 DEF Rewrites

LEMMA DoneRewrites ==
    ASSUME IInv, NEW t \in TaskIds, NEW s \in Seats, NEW at \in Nat, Done(t, s, at)
    PROVE  Rewrites(t)
<1> DEFINE r == [task[t] EXCEPT !.lease = [@ EXCEPT !.claimed = TRUE], !.report = s]
<1>1. task[t] \in Task /\ Consistent(task[t]) /\ LiveHolder(t, s, at)
  BY TaskFacts DEF Done
<1>2. [task[t].lease EXCEPT !.claimed = TRUE] \in Lease
  BY <1>1 DEF Task, Lease
<1>3. r \in Task
  BY <1>1, <1>2 DEF Task
<1>4. /\ r.state = task[t].state /\ r.wait = task[t].wait /\ r.files = task[t].files
      /\ r.report = s /\ r.attempts = task[t].attempts
  BY <1>1 DEF Task
<1>5. r.lease.holder = task[t].lease.holder
  BY <1>1 DEF Task, Lease
<1>6. task[t].state = "in_progress" /\ task[t].lease.holder = s
  BY <1>1 DEF LiveHolder
<1>7. Put(t, Accepted(r)) \/ Put(t, r)
  BY DEF Done
<1> HIDE DEF r
<1>8. CASE Put(t, Accepted(r))
  BY <1>3, <1>4, <1>5, <1>6, <1>8, AcceptedRewrites
<1>9. CASE Put(t, r)
  <2>1. Consistent(r) /\ Holder(r) = HolderOf(t)
    BY <1>1, <1>4, <1>5, <1>6, NoneAssumption DEF Consistent, Holder, HolderOf
  <2>2. Keeps(t, r)
    BY <2>1, <1>4 DEF Keeps, Closed, Terminal
  <2> QED
    BY <1>3, <1>9, <2>1, <2>2 DEF Rewrites, Moves
<1> QED
  BY <1>7, <1>8, <1>9

LEMMA CompleteRewrites ==
    ASSUME IInv, NEW t \in TaskIds, Complete(t)
    PROVE  Rewrites(t)
<1>1. task[t] \in Task /\ Consistent(task[t]) /\ AwaitsCommit(t) /\ Put(t, Accepted(task[t]))
  BY TaskFacts DEF Complete
<1>2. task[t].report = task[t].lease.holder /\ task[t].state = "in_progress"
  BY <1>1 DEF AwaitsCommit, Consistent
<1> QED
  BY <1>1, <1>2, AcceptedRewrites

LEMMA CompleteBoundRewrites ==
    ASSUME IInv, NEW t \in TaskIds, NEW p \in PRs, NEW h \in Heads, CompleteBound(t, p, h)
    PROVE  Rewrites(t)
<1> DEFINE b == Bound(task[t], p, h)
<1>1. task[t] \in Task /\ Consistent(task[t]) /\ AwaitsCommit(t) /\ Put(t, Accepted(b))
  BY TaskFacts DEF CompleteBound
<1>2. task[t].report = task[t].lease.holder /\ task[t].state = "in_progress"
  BY <1>1 DEF AwaitsCommit, Consistent
<1>3. /\ b \in Task
      /\ b.state = task[t].state /\ b.wait = task[t].wait /\ b.report = task[t].report
      /\ b.files = task[t].files /\ b.lease = task[t].lease
  BY <1>1, BoundType
<1> HIDE DEF b
<1> QED
  BY <1>1, <1>2, <1>3, AcceptedRewrites

\* A refused commit keeps the reporting seat, now without a lease.
LEMMA RefuseCommitRewrites ==
    ASSUME IInv, NEW t \in TaskIds, NEW refused \in BOOLEAN, RefuseCommit(t, refused)
    PROVE  Rewrites(t)
<1> DEFINE e == EndAttempt(task[t], "commit_refused")
           b == Stopped(e, "commit_refused")
           q == [b EXCEPT !.refused = refused]
<1>1. task[t] \in Task /\ Consistent(task[t]) /\ AwaitsCommit(t) /\ Put(t, q)
  BY TaskFacts DEF RefuseCommit
<1>2. /\ task[t].report = task[t].lease.holder /\ task[t].report # None
      /\ HolderOf(t) = task[t].report /\ ~Terminal(t)
  BY <1>1 DEF AwaitsCommit, Consistent, HolderOf, Holder, Terminal
<1>3. /\ e \in Task /\ e.lease.holder = None /\ e.report = task[t].report
      /\ e.files = task[t].files /\ Len(e.attempts) > 0 /\ LastRow(e).holder = task[t].report
  BY <1>1, <1>2, EndAttemptType DEF Outcomes
<1> HIDE DEF e
<1>4. /\ b \in Task /\ b.state = "blocked" /\ b.wait = None /\ b.report = task[t].report
      /\ b.files = task[t].files /\ b.lease = e.lease /\ b.attempts = e.attempts
  BY <1>3, StoppedType DEF Reasons
<1> HIDE DEF b
<1>5. /\ q \in Task /\ q.state = "blocked" /\ q.wait = None /\ q.report = task[t].report
      /\ q.files = task[t].files /\ q.lease.holder = None /\ q.attempts = e.attempts
  BY <1>3, <1>4 DEF Task
<1> HIDE DEF q
<1>6. Consistent(q) /\ Holder(q) = HolderOf(t)
  BY <1>2, <1>3, <1>5 DEF Consistent, LastRow, Holder, Kept
<1>7. Moves(t, q)
  BY <1>2, <1>5, <1>6 DEF Moves, Keeps, Closed
<1> QED
  BY <1>1, <1>5, <1>6, <1>7 DEF Rewrites

\* A record without lease and report gives its seat back, or never had one.
LEMMA IdleRewrites ==
    ASSUME IInv, NEW t \in TaskIds, ~Terminal(t), NEW q \in Task,
           q.lease.holder = None, q.report = None, q.files = task[t].files,
           q.wait = None \/ q.state = "pending",
           q.state \in {"pending", "blocked", "cancelled"}, Put(t, q)
    PROVE  Rewrites(t)
<1>1. Consistent(q) /\ Holder(q) = None
  BY DEF Consistent, Holder, Kept
<1>2. Drops(t, q) \/ Closes(t, q)
  BY <1>1 DEF Drops, Closes, Closed
<1> QED
  BY <1>1, <1>2 DEF Rewrites, Moves

LEMMA FailRewrites ==
    ASSUME IInv, NEW t \in TaskIds, NEW s \in Seats, NEW at \in Nat,
           Fail(t, s, at) \/ Release(t)
    PROVE  Rewrites(t)
<1>1. PICK o \in {"failed", "released"} :
        Put(t, [EndAttempt(task[t], o) EXCEPT !.state = "pending", !.report = None])
  BY DEF Fail, Release
<1>2. task[t].state = "in_progress"
  BY DEF Fail, Release, LiveHolder
<1> DEFINE e == EndAttempt(task[t], o)
           q == [e EXCEPT !.state = "pending", !.report = None]
<1>3. e \in Task /\ e.lease.holder = None /\ e.files = task[t].files
  BY TaskFacts, EndAttemptType DEF Outcomes
<1>4. Put(t, q)
  BY <1>1
<1> HIDE DEF e
<1>5. q \in Task
  BY <1>3, StatesType, ReplacedType
<1>6. /\ q.lease.holder = None /\ q.report = None
      /\ q.files = task[t].files /\ q.state = "pending"
  BY <1>3 DEF Task
<1> HIDE DEF q
<1>7. ~Terminal(t)
  BY <1>2 DEF Terminal
<1> QED
  BY <1>4, <1>5, <1>6, <1>7, IdleRewrites

LEMMA CancelRewrites ==
    ASSUME IInv, NEW t \in TaskIds, Cancel(t)
    PROVE  Rewrites(t)
<1> DEFINE e == EndAttempt(task[t], "cancelled")
           q == [e EXCEPT !.state = "cancelled", !.report = None, !.wait = None]
<1>1. ~Terminal(t) /\ Put(t, q)
  BY DEF Cancel
<1>2. e \in Task /\ e.lease.holder = None /\ e.files = task[t].files
  BY TaskFacts, EndAttemptType DEF Outcomes
<1> HIDE DEF e
<1>3. q \in Task
  BY <1>2, StatesType, ReplacedType
<1>4. /\ q.lease.holder = None /\ q.report = None /\ q.wait = None
      /\ q.files = task[t].files /\ q.state = "cancelled"
  BY <1>2 DEF Task
<1> HIDE DEF q
<1> QED
  BY <1>1, <1>3, <1>4, IdleRewrites

LEMMA BlockHeldRewrites ==
    ASSUME IInv, NEW t \in TaskIds, NEW s \in Seats, NEW at \in Nat,
           NEW reason \in {"widen_requested", "decision"}, BlockHeld(t, s, reason, at)
    PROVE  Rewrites(t)
<1> DEFINE e == EndAttempt(task[t], "blocked")
           c == [e EXCEPT !.report = None]
           b == Stopped(c, reason)
           w == [b EXCEPT !.refused = TRUE, !.blockAttempt = b.attempt]
<1>1. e \in Task /\ e.lease.holder = None /\ e.files = task[t].files
  BY TaskFacts, EndAttemptType DEF Outcomes
<1>2. ~Terminal(t) /\ (Put(t, b) \/ Put(t, w))
  BY DEF BlockHeld, LiveHolder, Terminal
<1> HIDE DEF e
<1>3. c \in Task
  BY <1>1 DEF Task
<1>4. c.lease.holder = None /\ c.files = task[t].files /\ c.report = None
  BY <1>1 DEF Task
<1> HIDE DEF c
<1>5. /\ b \in Task /\ b.state = "blocked" /\ b.wait = None /\ b.report = None
      /\ b.files = task[t].files /\ b.lease.holder = None
  BY <1>3, <1>4, StoppedType DEF Reasons
<1> HIDE DEF b
<1>6. w \in Task
  BY <1>5 DEF Task
<1>7. /\ w.state = "blocked" /\ w.wait = None /\ w.report = None
      /\ w.files = task[t].files /\ w.lease.holder = None
  BY <1>5 DEF Task
<1> HIDE DEF w
<1> QED
  BY <1>2, <1>5, <1>6, <1>7, IdleRewrites

LEMMA BlockPendingRewrites ==
    ASSUME IInv, NEW t \in TaskIds, BlockPending(t)
    PROVE  Rewrites(t)
<1> DEFINE b == Stopped(task[t], "decision")
<1>1. task[t] \in Task /\ task[t].lease.holder = None /\ task[t].report = None /\ ~Terminal(t)
  BY TaskFacts DEF BlockPending, Consistent, Terminal
<1>2. /\ b \in Task /\ b.state = "blocked" /\ b.wait = None /\ b.report = None
      /\ b.files = task[t].files /\ b.lease.holder = None
  BY <1>1, StoppedType DEF Reasons
<1>3. Put(t, b)
  BY DEF BlockPending
<1> HIDE DEF b
<1> QED
  BY <1>1, <1>2, <1>3, IdleRewrites

LEMMA ResetRewrites ==
    ASSUME IInv, NEW t \in TaskIds, NEW p \in Pools \cup {None}, Reset(t, p)
    PROVE  Rewrites(t)
<1> DEFINE u == Unstopped(task[t])
           pool == OrElse(p, u.pool)
           q == [u EXCEPT !.state = "pending", !.report = None, !.pool = pool]
<1>1. task[t] \in Task /\ task[t].lease.holder = None /\ ~Terminal(t)
  BY TaskFacts DEF Reset, Consistent, Terminal
<1>2. u \in Task /\ u.files = task[t].files /\ u.lease.holder = None
  BY <1>1, UnstoppedType
<1>3. Put(t, q)
  BY DEF Reset
<1> HIDE DEF u
<1>4. pool \in Pools \cup {None}
  BY <1>2, OrElseType DEF Task
<1> HIDE DEF pool
<1>5. q \in Task
  BY <1>2, <1>4, StatesType, ReplacedType
<1>6. /\ q.lease.holder = None /\ q.report = None
      /\ q.files = task[t].files /\ q.state = "pending"
  BY <1>2 DEF Task
<1> HIDE DEF q
<1> QED
  BY <1>1, <1>3, <1>5, <1>6, IdleRewrites

LEMMA SetPoolRewrites ==
    ASSUME IInv, NEW t \in TaskIds, NEW p \in Pools, SetPool(t, p)
    PROVE  Rewrites(t)
<1> DEFINE q == [task[t] EXCEPT !.pool = p]
<1>1. task[t] \in Task /\ Put(t, q)
  BY TaskFacts DEF SetPool
<1>2. q \in Task
  BY <1>1 DEF Task
<1>3. SameHold(task[t], q)
  BY <1>1 DEF Task, SameHold
<1> QED
  BY <1>1, <1>2, <1>3, SameHoldRewrites

LEMMA SetWaitRewrites ==
    ASSUME IInv, NEW t \in TaskIds, NEW w \in WaitReasons \cup {None}, SetWait(t, w)
    PROVE  Rewrites(t)
<1> DEFINE q == [task[t] EXCEPT !.wait = w]
<1>1. /\ task[t] \in Task /\ task[t].state = "pending" /\ task[t].lease.holder = None
      /\ task[t].report = None /\ ~Terminal(t) /\ Put(t, q)
  BY TaskFacts DEF SetWait, Consistent, Terminal
<1>2. q \in Task
  BY <1>1 DEF Task
<1>3. /\ q.lease.holder = None /\ q.report = None
      /\ q.files = task[t].files /\ q.state = "pending"
  BY <1>1 DEF Task
<1> HIDE DEF q
<1> QED
  BY <1>1, <1>2, <1>3, IdleRewrites

LEMMA EscalateRewrites ==
    ASSUME IInv, NEW t \in TaskIds, Escalate(t)
    PROVE  Rewrites(t)
<1> DEFINE b == Stopped(task[t], "growth_gate_required")
           w == [b EXCEPT !.refused = TRUE, !.blockAttempt = task[t].blockAttempt]
<1>1. task[t] \in Task /\ task[t].state = "blocked" /\ task[t].wait = None
  BY TaskFacts DEF Escalate, Consistent
<1>2. Put(t, b) \/ Put(t, w)
  BY DEF Escalate
<1>3. /\ b \in Task /\ b.state = "blocked" /\ b.wait = None /\ b.report = task[t].report
      /\ b.files = task[t].files /\ b.lease = task[t].lease /\ b.attempts = task[t].attempts
  BY <1>1, StoppedType DEF Reasons
<1> HIDE DEF b
<1>4. task[t].blockAttempt \in Nat
  BY <1>1 DEF Task
<1>5. w \in Task
  BY <1>3, <1>4, StatesType, TypedRequestType
<1>6. SameHold(b, w)
  BY <1>3 DEF Task, SameHold
<1>7. SameHold(task[t], b)
  BY <1>1, <1>3 DEF SameHold
<1> HIDE DEF w
<1>8. SameHold(task[t], w)
  BY <1>6, <1>7 DEF SameHold
<1> QED
  BY <1>2, <1>3, <1>5, <1>7, <1>8, SameHoldRewrites

LEMMA SnapshotRewrites ==
    ASSUME IInv, NEW t \in TaskIds, NEW tree \in Trees, NEW command \in Commands,
           RecordSnapshot(t, tree, command)
    PROVE  Rewrites(t)
<1> DEFINE o == OnlySound(task[t])
           l == [o EXCEPT !.snapshot = tree, !.command = command]
           q == [task[t] EXCEPT !.lease = l]
<1>1. task[t] \in Task /\ Put(t, q)
  BY TaskFacts DEF RecordSnapshot
<1>2. o \in Lease /\ o.holder = task[t].lease.holder
  BY <1>1, OnlySoundType
<1> HIDE DEF o
<1>3. l \in Lease /\ l.holder = task[t].lease.holder
  BY <1>2 DEF Lease
<1> HIDE DEF l
<1>4. q \in Task
  BY <1>1, <1>3 DEF Task
<1>5. SameHold(task[t], q)
  BY <1>1, <1>3 DEF Task, SameHold
<1> QED
  BY <1>1, <1>4, <1>5, SameHoldRewrites

LEMMA VerdictRewrites ==
    ASSUME IInv, NEW t \in TaskIds, NEW result \in {"pass", "fail"}, RecordVerdict(t, result)
    PROVE  Rewrites(t)
<1> DEFINE v == [attempt |-> task[t].attempt, tree |-> task[t].lease.snapshot,
                 command |-> task[t].lease.command, result |-> result]
           l == [task[t].lease EXCEPT !.verdict = v]
           q == [task[t] EXCEPT !.lease = l]
<1>1. task[t] \in Task /\ Put(t, q)
  BY TaskFacts DEF RecordVerdict
<1>2. task[t].lease \in Lease /\ task[t].attempt \in Nat
  BY <1>1 DEF Task
<1>3. v \in Verdict
  BY <1>2 DEF Lease, Verdict
<1> HIDE DEF v
<1>4. l \in Lease /\ l.holder = task[t].lease.holder
  BY <1>2, <1>3 DEF Lease
<1> HIDE DEF l
<1>5. q \in Task
  BY <1>1, <1>4 DEF Task
<1>6. SameHold(task[t], q)
  BY <1>1, <1>4 DEF Task, SameHold
<1> QED
  BY <1>1, <1>5, <1>6, SameHoldRewrites

LEMMA BindPRRewrites ==
    ASSUME IInv, NEW t \in TaskIds, NEW p \in PRs, NEW h \in Heads, BindPR(t, p, h)
    PROVE  Rewrites(t)
<1> DEFINE b == Bound(task[t], p, h)
<1>1. task[t] \in Task /\ Put(t, b)
  BY TaskFacts DEF BindPR
<1>2. b \in Task /\ SameHold(task[t], b)
  BY <1>1, BoundType DEF SameHold
<1> QED
  BY <1>1, <1>2, SameHoldRewrites

LEMMA RecordPRMergeRewrites ==
    ASSUME IInv, NEW t \in TaskIds, NEW p \in PRs, NEW h \in Heads, NEW c \in MergeCommits,
           RecordPRMerge(t, p, h, c)
    PROVE  Rewrites(t)
<1> DEFINE q == [task[t] EXCEPT !.mergeHead = h, !.mergeCommit = c]
<1>1. task[t] \in Task /\ Put(t, q)
  BY TaskFacts DEF RecordPRMerge
<1>2. q \in Task
  BY <1>1 DEF Task
<1>3. SameHold(task[t], q)
  BY <1>1 DEF Task, SameHold
<1> QED
  BY <1>1, <1>2, <1>3, SameHoldRewrites

\* A task that is idle, or keeps its seat while files are added to it.
LEMMA ScopeRewrites ==
    ASSUME IInv, NEW t \in TaskIds, NEW actor, NEW added \in SUBSET Paths,
           CanWiden(t, actor, added), NEW q \in Task, Consistent(q),
           Holder(q) = HolderOf(t), q.files = task[t].files \cup added,
           ~Closed(q), Put(t, q)
    PROVE  Rewrites(t)
<1>1. Scopes(t, q)
  BY DEF CanWiden, Scopes
<1> QED
  BY <1>1 DEF Moves, Rewrites

LEMMA WidenedType ==
    ASSUME NEW r \in Task, NEW added \in SUBSET Paths
    PROVE  LET w == [r EXCEPT !.files = @ \cup added]
           IN  /\ w \in Task /\ w.files = r.files \cup added
               /\ w.state = r.state /\ w.wait = r.wait /\ w.report = r.report
               /\ w.lease = r.lease /\ w.attempts = r.attempts /\ w.attempt = r.attempt
<1>1. r.files \cup added \in SUBSET Paths
  BY DEF Task
<1>2. [r EXCEPT !.files = @ \cup added] \in Task
  BY <1>1 DEF Task
<1> QED
  BY <1>2 DEF Task

LEMMA ReArmedType ==
    ASSUME NEW r \in Task, r.report \in Seats, NEW at \in Nat
    PROVE  LET a == ReArmed(r, at)
           IN  /\ a \in Task /\ a.state = "in_progress" /\ a.lease.holder = r.report
               /\ a.report = r.report /\ a.wait = r.wait /\ a.files = r.files
<1> DEFINE u == Unstopped(r)
           n == u.attempt + 1
           l == Extended(NewLease(r.report, at), at)
           q == [u EXCEPT !.state = "in_progress", !.attempt = n, !.lease = l]
<1>1. /\ u \in Task /\ u.report = r.report /\ u.wait = r.wait /\ u.files = r.files
  BY UnstoppedType
<1>2. ReArmed(r, at) = q
  BY DEF ReArmed
<1>3. l \in Lease /\ l.holder = r.report
  BY NewLeaseType, ExtendedType
<1>4. n \in Nat
  BY <1>1 DEF Task
<1> HIDE DEF u, n, l
<1>5. q \in Task
  <2>1. \A state \in States : [u EXCEPT !.state = state, !.attempt = n, !.lease = l] \in Task
    BY <1>1, <1>3, <1>4, Zenon DEF Task
  <2> QED
    BY <2>1, StatesType
<1>6. /\ q.state = "in_progress" /\ q.lease = l
      /\ q.report = u.report /\ q.wait = u.wait /\ q.files = u.files
  BY <1>1 DEF Task
<1> HIDE DEF q
<1> QED
  BY <1>1, <1>2, <1>3, <1>5, <1>6

LEMMA WidenGatedRewrites ==
    ASSUME IInv, NEW t \in TaskIds, NEW actor, NEW added \in SUBSET Paths, NEW at \in Nat,
           WidenGated(t, actor, added, at)
    PROVE  Rewrites(t)
<1> DEFINE w == Widened(t, added)
           a == ReArmed(w, at)
           u == Unstopped(w)
           p == [u EXCEPT !.state = "pending", !.wait = None]
<1>1. task[t] \in Task /\ Consistent(task[t]) /\ CanWiden(t, actor, added)
  BY TaskFacts DEF WidenGated
<1>2. /\ w \in Task /\ w.files = task[t].files \cup added
      /\ w.state = task[t].state /\ w.wait = task[t].wait /\ w.report = task[t].report
      /\ w.lease = task[t].lease /\ w.attempts = task[t].attempts
  BY <1>1, WidenedType DEF Widened
<1>3. \/ Reserved(t) /\ Put(t, a)
      \/ TypedRequest(t) /\ Put(t, p)
      \/ Put(t, w)
  BY DEF WidenGated
<1> HIDE DEF w
<1>4. CASE Reserved(t) /\ Put(t, a)
  <2>1. /\ task[t].state = "blocked" /\ task[t].report \in Seats
        /\ task[t].lease.holder = None /\ task[t].wait = None
        /\ HolderOf(t) = task[t].report
    BY <1>1, <1>4 DEF Reserved, Kept, Consistent, HolderOf, Holder, Task
  <2>2. /\ a \in Task /\ a.state = "in_progress" /\ a.lease.holder = task[t].report
        /\ a.report = task[t].report /\ a.wait = None
        /\ a.files = task[t].files \cup added
    BY <1>2, <2>1, ReArmedType
  <2> HIDE DEF a
  <2>3. Consistent(a) /\ Holder(a) = HolderOf(t) /\ ~Closed(a)
    BY <2>1, <2>2, NoneAssumption DEF Consistent, Holder, Closed
  <2> QED
    BY <1>1, <1>4, <2>2, <2>3, ScopeRewrites
<1>5. CASE TypedRequest(t) /\ Put(t, p)
  <2>1. /\ task[t].state = "blocked" /\ task[t].report = None
        /\ task[t].lease.holder = None /\ HolderOf(t) = None
    BY <1>1, <1>5 DEF TypedRequest, Kept, Consistent, HolderOf, Holder
  <2>2. /\ u \in Task /\ u.files = task[t].files \cup added
        /\ u.report = None /\ u.lease.holder = None
    BY <1>2, <2>1, UnstoppedType
  <2> HIDE DEF u
  <2>3. p \in Task
    BY <2>2, PendingType
  <2>4. /\ p.files = task[t].files \cup added
        /\ p.report = None /\ p.lease.holder = None /\ p.state = "pending"
    BY <2>2 DEF Task
  <2> HIDE DEF p
  <2>5. Consistent(p) /\ Holder(p) = HolderOf(t) /\ ~Closed(p)
    BY <2>1, <2>4 DEF Consistent, Holder, Kept, Closed
  <2> QED
    BY <1>1, <1>5, <2>3, <2>4, <2>5, ScopeRewrites
<1>6. CASE Put(t, w)
  <2>1. Consistent(w) /\ Holder(w) = HolderOf(t)
    BY <1>1, <1>2 DEF Consistent, LastRow, Holder, HolderOf, Kept
  <2>2. ~Closed(w)
    BY <1>1, <1>2 DEF CanWiden, Terminal, Closed
  <2> QED
    BY <1>1, <1>2, <1>6, <2>1, <2>2, ScopeRewrites
<1> QED
  BY <1>3, <1>4, <1>5, <1>6

----------------------------------------------------------------------------
(* The steps that rewrite no task, or several *)

\* Expired leases only give seats back.
LEMMA ExpireDueFacts ==
    ASSUME IInv, NEW at \in Nat, ExpireDue(at)
    PROVE  /\ task' \in [TaskIds -> Task] /\ UNCHANGED <<marker, gate, now>>
           /\ \A t \in TaskIds :
                 /\ Consistent(task'[t]) /\ task'[t].files = task[t].files
                 /\ Closed(task'[t]) <=> Terminal(t)
                 /\ HolderOf(t)' = IF Due(t, at) THEN None ELSE HolderOf(t)
<1> DEFINE o(t) == IF task[t].lease.claimed THEN "expired" ELSE "unclaimed"
           e(t) == EndAttempt(task[t], o(t))
           q(t) == [e(t) EXCEPT !.state = "pending"]
<1>1. /\ task' = [t \in TaskIds |-> IF Due(t, at) THEN q(t) ELSE task[t]]
      /\ UNCHANGED <<marker, gate, now>>
  BY DEF ExpireDue
<1>2. ASSUME NEW t \in TaskIds, Due(t, at)
      PROVE  /\ q(t) \in Task /\ Consistent(q(t)) /\ q(t).files = task[t].files
             /\ q(t).state = "pending" /\ Holder(q(t)) = None
  <2>1. task[t] \in Task /\ task[t].report = None
    BY <1>2, TaskFacts DEF Due
  <2>2. o(t) \in Outcomes
    BY DEF Outcomes
  <2> HIDE DEF o
  <2>3. /\ e(t) \in Task /\ e(t).lease.holder = None /\ e(t).report = None
        /\ e(t).files = task[t].files
    BY <2>1, <2>2, EndAttemptType
  <2> HIDE DEF e
  <2>4. q(t) \in Task
    BY <2>3 DEF Task, States
  <2>5. /\ q(t).state = "pending" /\ q(t).lease.holder = None /\ q(t).report = None
        /\ q(t).files = task[t].files
    BY <2>3 DEF Task
  <2> HIDE DEF q
  <2>6. Consistent(q(t)) /\ Holder(q(t)) = None
    BY <2>5 DEF Consistent, Holder, Kept
  <2> QED
    BY <2>4, <2>5, <2>6
<1> HIDE DEF q
<1>3. \A t \in TaskIds : task[t] \in Task /\ Consistent(task[t])
  BY TaskFacts
<1>4. \A t \in TaskIds : task'[t] = IF Due(t, at) THEN q(t) ELSE task[t]
  BY <1>1
<1>5. task' \in [TaskIds -> Task]
  BY <1>1, <1>2, <1>3
<1>6. ASSUME NEW t \in TaskIds
      PROVE  /\ Consistent(task'[t]) /\ task'[t].files = task[t].files
             /\ Closed(task'[t]) <=> Terminal(t)
             /\ Holder(task'[t]) = IF Due(t, at) THEN None ELSE HolderOf(t)
  <2>1. CASE Due(t, at)
    <3>1. ~Terminal(t)
      BY <2>1 DEF Due, Terminal
    <3> QED
      BY <2>1, <3>1, <1>2, <1>4 DEF Closed
  <2>2. CASE ~Due(t, at)
    BY <2>2, <1>3, <1>4 DEF Closed, Terminal, HolderOf
  <2> QED
    BY <2>1, <2>2
<1>7. \A t \in TaskIds : HolderOf(t)' = Holder(task'[t])
  BY DEF HolderOf
<1> QED
  BY <1>1, <1>5, <1>6, <1>7

LEMMA ExpireDueIInv ==
    ASSUME IInv, NEW at \in Nat, ExpireDue(at)
    PROVE  IInv'
<1>1. /\ task' \in [TaskIds -> Task] /\ UNCHANGED <<marker, gate, now>>
      /\ \A t \in TaskIds :
            /\ Consistent(task'[t]) /\ task'[t].files = task[t].files
            /\ HolderOf(t)' = IF Due(t, at) THEN None ELSE HolderOf(t)
  BY ExpireDueFacts
<1>2. TypeOK' /\ LifecycleConsistent'
  BY <1>1 DEF IInv, TypeOK, LifecycleConsistent
<1>3. OneHoldPerSeat'
  BY <1>1 DEF IInv, OneHoldPerSeat
<1>4. FileLockExclusion'
  BY <1>1 DEF IInv, FileLockExclusion, Overlap
<1>5. \A s \in Seats : HeldBy(s) = {t \in TaskIds : HolderOf(t) = s}
  BY HeldByHolder DEF IInv
<1>6. \A s \in Seats : HeldBy(s)' = {t \in TaskIds : HolderOf(t)' = s}
  BY <1>1, <1>2, HolderMeaning DEF HeldBy, HolderOf, Reserved
<1>7. UncleanSeatIdle'
  BY <1>1, <1>5, <1>6, NoneAssumption DEF IInv, UncleanSeatIdle
<1> QED
  BY <1>2, <1>3, <1>4, <1>7 DEF IInv

\* A marker is only ever put on a seat that keeps no task busy.
LEMMA MarkerIInv ==
    ASSUME IInv, NEW s \in Seats, NEW nonce \in Nonces, NEW at \in Nat,
           ReserveSeat(s, nonce, at) \/ ReleaseSeat(s, nonce)
    PROVE  IInv'
<1>1. UNCHANGED <<task, gate, now>>
  BY DEF ReserveSeat, ReleaseSeat
<1>2. \A w \in Seats : HeldBy(w)' = HeldBy(w)
  BY <1>1 DEF HeldBy, Reserved
<1>3. marker' \in [Seats -> Marker]
  BY DEF IInv, TypeOK, ReserveSeat, ReleaseSeat, Marker, NoMarker
<1>4. \A w \in Seats : marker'[w] # NoMarker => HeldBy(w) = {}
  BY DEF IInv, TypeOK, UncleanSeatIdle, ReserveSeat, ReleaseSeat
<1> QED
  BY <1>1, <1>2, <1>3, <1>4
     DEF IInv, TypeOK, LifecycleConsistent, OneHoldPerSeat, FileLockExclusion, UncleanSeatIdle,
         HolderOf

LEMMA OtherIInv ==
    ASSUME IInv, Tick \/ (\E g \in Gates : ChangeGate(g))
    PROVE  IInv'
<1>1. UNCHANGED <<task, marker>>
  BY DEF Tick, ChangeGate
<1>2. gate' \in Gates /\ now' \in Nat
  BY DEF IInv, TypeOK, Tick, ChangeGate
<1> QED
  BY <1>1, <1>2
     DEF IInv, TypeOK, LifecycleConsistent, OneHoldPerSeat, FileLockExclusion, UncleanSeatIdle,
         HolderOf, HeldBy, Reserved

----------------------------------------------------------------------------
(* The inductive invariant *)

\* Every step of a seat, the lead or the harness rewrites one task.
LEMMA StepRewrites ==
    ASSUME IInv, NEW t \in TaskIds,
           \/ \E s \in Seats, at \in Stamps : SeatStep(t, s, at)
           \/ \E at \in Stamps : LeadStep(t, at)
           \/ HarnessStep(t)
    PROVE  Rewrites(t)
<1>1. Stamps \subseteq Nat
  BY DEF IInv, TypeOK, Stamps
<1>2. ASSUME NEW s \in Seats, NEW at \in Stamps, SeatStep(t, s, at)
      PROVE  Rewrites(t)
  <2>1. at \in Nat
    BY <1>1
  <2>2. ASSUME NEW p \in Pools \cup {None}, Grant(t, s, p, at) \/ ClaimPending(t, s, p, at)
        PROVE  Rewrites(t)
    BY <2>1, <2>2, GrantRewrites
  <2>3. ASSUME ClaimHeld(t, s, at) \/ Renew(t, s, at)  PROVE Rewrites(t)
    BY <2>1, <2>3, ClaimHeldRewrites
  <2>4. ASSUME Done(t, s, at)  PROVE Rewrites(t)
    BY <2>1, <2>4, DoneRewrites
  <2>5. ASSUME Fail(t, s, at)  PROVE Rewrites(t)
    BY <2>1, <2>5, FailRewrites
  <2>6. ASSUME NEW reason \in {"widen_requested", "decision"}, BlockHeld(t, s, reason, at)
        PROVE  Rewrites(t)
    BY <2>1, <2>6, BlockHeldRewrites
  <2> QED
    BY <1>2, <2>2, <2>3, <2>4, <2>5, <2>6 DEF SeatStep
<1>3. ASSUME NEW at \in Stamps, LeadStep(t, at)
      PROVE  Rewrites(t)
  <2>1. at \in Nat
    BY <1>1
  <2>2. ASSUME Add(t)  PROVE Rewrites(t)
    BY <2>2, AddRewrites
  <2>3. ASSUME BlockPending(t)  PROVE Rewrites(t)
    BY <2>3, BlockPendingRewrites
  <2>4. ASSUME Release(t)  PROVE Rewrites(t)
    <3> SUFFICES ASSUME NEW s \in Seats PROVE Rewrites(t)
      <4>1. task[t].lease.holder \in Seats
        BY <2>4, TaskFacts DEF Release, Leased, Task, Lease
      <4> QED
        BY <4>1
    <3> QED
      BY <2>1, <2>4, FailRewrites
  <2>5. ASSUME NEW p \in Pools \cup {None}, Reset(t, p)  PROVE Rewrites(t)
    BY <2>5, ResetRewrites
  <2>6. ASSUME NEW p \in Pools, SetPool(t, p)  PROVE Rewrites(t)
    BY <2>6, SetPoolRewrites
  <2>7. ASSUME Cancel(t)  PROVE Rewrites(t)
    BY <2>7, CancelRewrites
  <2>8. ASSUME NEW w \in WaitReasons \cup {None}, SetWait(t, w)  PROVE Rewrites(t)
    BY <2>8, SetWaitRewrites
  <2>9. ASSUME NEW actor \in Seats \cup {Lead}, NEW added \in SUBSET Paths,
               WidenGated(t, actor, added, at)
        PROVE  Rewrites(t)
    BY <2>1, <2>9, WidenGatedRewrites
  <2>10. ASSUME Escalate(t)  PROVE Rewrites(t)
    BY <2>10, EscalateRewrites
  <2> QED
    BY <1>3, <2>2, <2>3, <2>4, <2>5, <2>6, <2>7, <2>8, <2>9, <2>10 DEF LeadStep
<1>4. ASSUME HarnessStep(t)
      PROVE  Rewrites(t)
  <2>1. ASSUME Complete(t)  PROVE Rewrites(t)
    BY <2>1, CompleteRewrites
  <2>2. ASSUME NEW p \in PRs, NEW h \in Heads, CompleteBound(t, p, h)  PROVE Rewrites(t)
    BY <2>2, CompleteBoundRewrites
  <2>3. ASSUME NEW p \in PRs, NEW h \in Heads, BindPR(t, p, h)  PROVE Rewrites(t)
    BY <2>3, BindPRRewrites
  <2>4. ASSUME NEW p \in PRs, NEW h \in Heads, NEW c \in MergeCommits,
               RecordPRMerge(t, p, h, c)
        PROVE  Rewrites(t)
    BY <2>4, RecordPRMergeRewrites
  <2>5. ASSUME NEW refused \in BOOLEAN, RefuseCommit(t, refused)  PROVE Rewrites(t)
    BY <2>5, RefuseCommitRewrites
  <2>6. ASSUME NEW tree \in Trees, NEW command \in Commands, RecordSnapshot(t, tree, command)
        PROVE  Rewrites(t)
    BY <2>6, SnapshotRewrites
  <2>7. ASSUME NEW result \in {"pass", "fail"}, RecordVerdict(t, result)  PROVE Rewrites(t)
    BY <2>7, VerdictRewrites
  <2> QED
    BY <1>4, <2>1, <2>2, <2>3, <2>4, <2>5, <2>6, <2>7 DEF HarnessStep
<1> QED
  BY <1>2, <1>3, <1>4

LEMMA InitIInv == Init => IInv
<1> SUFFICES ASSUME Init PROVE IInv
  OBVIOUS
<1>1. \A t \in TaskIds : task[t] = AbsentTask
  BY DEF Init
<1>2. NoMarker \in Marker
  BY DEF NoMarker, Marker
<1>3. TypeOK
  BY <1>2, AbsentTaskType DEF Init, TypeOK
<1>4. /\ AbsentTask.state = "absent" /\ AbsentTask.lease = NoLease
      /\ AbsentTask.report = None /\ AbsentTask.wait = None
  BY DEF AbsentTask
<1>5. Consistent(AbsentTask) /\ Holder(AbsentTask) = None
  BY <1>4, NoLeaseType DEF Consistent, Holder, Kept
<1>6. LifecycleConsistent /\ \A t \in TaskIds : HolderOf(t) = None
  BY <1>1, <1>5 DEF LifecycleConsistent, HolderOf
<1>7. OneHoldPerSeat /\ FileLockExclusion
  BY <1>6 DEF OneHoldPerSeat, FileLockExclusion
<1>8. UncleanSeatIdle
  BY DEF Init, UncleanSeatIdle
<1> QED
  BY <1>3, <1>6, <1>7, <1>8 DEF IInv

LEMMA NextIInv == IInv /\ [Next]_vars => IInv'
<1> SUFFICES ASSUME IInv, [Next]_vars PROVE IInv'
  OBVIOUS
<1>1. ASSUME NEW t \in TaskIds, Rewrites(t)  PROVE IInv'
  BY <1>1, PutIInv DEF Rewrites
<1>2. Stamps \subseteq Nat
  BY DEF IInv, TypeOK, Stamps
<1>3. ASSUME NEW t \in TaskIds, NEW s \in Seats, NEW at \in Stamps, SeatStep(t, s, at)
      PROVE  IInv'
  BY <1>1, <1>3, StepRewrites
<1>4. ASSUME NEW t \in TaskIds, NEW at \in Stamps, LeadStep(t, at)  PROVE IInv'
  BY <1>1, <1>4, StepRewrites
<1>5. ASSUME NEW t \in TaskIds, HarnessStep(t)  PROVE IInv'
  BY <1>1, <1>5, StepRewrites
<1>6. ASSUME NEW at \in Stamps, ExpireDue(at)  PROVE IInv'
  BY <1>2, <1>6, ExpireDueIInv
<1>7. ASSUME NEW s \in Seats, NEW nonce \in Nonces, NEW at \in Stamps,
             ReserveSeat(s, nonce, at)
      PROVE  IInv'
  BY <1>2, <1>7, MarkerIInv
<1>8. ASSUME NEW s \in Seats, NEW nonce \in Nonces, ReleaseSeat(s, nonce)  PROVE IInv'
  <2>1. 0 \in Nat
    OBVIOUS
  <2> QED
    BY <1>8, <2>1, MarkerIInv
<1>9. ASSUME NEW g \in Gates, ChangeGate(g)  PROVE IInv'
  BY <1>9, OtherIInv
<1>10. ASSUME Tick  PROVE IInv'
  BY <1>10, OtherIInv
<1>11. CASE UNCHANGED vars
  BY <1>11
     DEF vars, IInv, TypeOK, LifecycleConsistent, OneHoldPerSeat, FileLockExclusion,
         UncleanSeatIdle, HolderOf, HeldBy, Reserved
<1> QED
  BY <1>3, <1>4, <1>5, <1>6, <1>7, <1>8, <1>9, <1>10, <1>11 DEF Next

\* The conjunction holds in every state of every behaviour of the store.
THEOREM Invariance == Spec => []IInv
BY InitIInv, NextIInv, PTL DEF Spec

\* Every variable of the store keeps its type.
THEOREM TypeCorrect == Spec => []TypeOK
<1>1. IInv => TypeOK
  BY DEF IInv
<1> QED
  BY <1>1, Invariance, PTL

\* The state, lease, report and wait reason of every task agree.
THEOREM Lifecycle == Spec => []LifecycleConsistent
<1>1. IInv => LifecycleConsistent
  BY DEF IInv
<1> QED
  BY <1>1, Invariance, PTL

\* No seat is ever kept busy by two tasks.
THEOREM SeatExclusion == Spec => []OneHoldPerSeat
<1>1. IInv => OneHoldPerSeat
  BY DEF IInv
<1> QED
  BY <1>1, Invariance, PTL

\* Two tasks that hold seats never declare overlapping files.
THEOREM FileExclusion == Spec => []FileLockExclusion
<1>1. IInv => FileLockExclusion
  BY DEF IInv
<1> QED
  BY <1>1, Invariance, PTL

\* A seat whose worktree is not known clean keeps no task busy.
THEOREM UncleanSeatsIdle == Spec => []UncleanSeatIdle
<1>1. IInv => UncleanSeatIdle
  BY DEF IInv
<1> QED
  BY <1>1, Invariance, PTL

----------------------------------------------------------------------------
(* The refinement of the lease board *)

LEMMA BoardInitial == Init => Board!BoardInit
<1> SUFFICES ASSUME Init PROVE Board!BoardInit
  OBVIOUS
<1>1. /\ AbsentTask.state = "absent" /\ AbsentTask.lease = NoLease /\ AbsentTask.files = {}
  BY DEF AbsentTask
<1>2. Holder(AbsentTask) = None
  BY <1>1, NoLeaseType DEF Holder, Kept
<1>3. \A t \in TaskIds : HolderOf(t) = None /\ task[t].files = {} /\ ~Terminal(t)
  BY <1>1, <1>2 DEF Init, HolderOf, Terminal
<1> QED
  BY <1>3 DEF Board!BoardInit

LEMMA PutBoard ==
    ASSUME IInv, NEW t \in TaskIds, NEW r \in Task, Consistent(r), Moves(t, r), Put(t, r)
    PROVE  [Board!BoardNext]_Board!boardVars
<1> DEFINE hold == [u \in TaskIds |-> HolderOf(u)]
           files == [u \in TaskIds |-> task[u].files]
           closed == {u \in TaskIds : Terminal(u)}
<1>1. task \in [TaskIds -> Task] /\ task' = [task EXCEPT ![t] = r]
  BY DEF IInv, TypeOK, Put
<1>2. \A u \in TaskIds : task'[u] = IF u = t THEN r ELSE task[u]
  BY <1>1
<1>3. /\ hold' = [hold EXCEPT ![t] = Holder(r)]
      /\ files' = [files EXCEPT ![t] = r.files]
      /\ closed' = {u \in TaskIds : IF u = t THEN Closed(r) ELSE Terminal(u)}
  BY <1>2 DEF HolderOf, Terminal, Closed
<1>4. \A o \in TaskIds : HolderOf(o) # None => Active(o)
  BY HolderMeaning DEF IInv, TypeOK, LifecycleConsistent, HolderOf, Active
<1>5. \A fs : Conflicts(t, fs) = {} => ~Board!Clash(t, fs)
  BY <1>4 DEF Conflicts, Overlap, Board!Clash
<1>6. CASE Keeps(t, r)
  <2>1. hold' = hold /\ files' = files /\ closed' = closed
    BY <1>3, <1>6 DEF Keeps
  <2> QED
    BY <2>1 DEF Board!boardVars
<1>7. CASE Drops(t, r)
  <2>1. hold' = [u \in TaskIds |-> IF u \in {t} THEN None ELSE hold[u]]
        /\ files' = files /\ closed' = closed
    BY <1>3, <1>7 DEF Drops
  <2>2. Board!Drop({t})
    BY <2>1 DEF Board!Drop
  <2> QED
    BY <2>2 DEF Board!BoardNext
<1>8. CASE Closes(t, r)
  <2>1. hold' = [hold EXCEPT ![t] = None] /\ files' = files /\ closed' = closed \cup {t}
        /\ t \notin closed
    BY <1>3, <1>8 DEF Closes
  <2>2. Board!Close(t)
    BY <2>1 DEF Board!Close
  <2> QED
    BY <2>2 DEF Board!BoardNext
<1>9. CASE Takes(t, r)
  <2>1. hold' = [hold EXCEPT ![t] = Holder(r)] /\ files' = files /\ closed' = closed
        /\ t \notin closed /\ hold[t] = None /\ Holder(r) \in Seats
    BY <1>3, <1>9 DEF Takes
  <2>2. \A o \in TaskIds : hold[o] # Holder(r)
    BY <1>9, HeldByHolder DEF Takes, IInv
  <2>3. ~Board!Clash(t, files[t])
    BY <1>5, <1>9 DEF Takes
  <2>4. Board!Take(t, Holder(r))
    BY <2>1, <2>2, <2>3 DEF Board!Take
  <2> QED
    BY <2>1, <2>4 DEF Board!BoardNext
<1>10. CASE Scopes(t, r)
  <2>1. hold' = hold /\ files' = [files EXCEPT ![t] = r.files] /\ closed' = closed
        /\ t \notin closed
    BY <1>3, <1>10 DEF Scopes
  <2>2. hold[t] # None => files[t] \subseteq r.files /\ ~Board!Clash(t, r.files)
    BY <1>4, <1>5, <1>10 DEF Scopes
  <2>3. Board!Scope(t, r.files)
    BY <2>1, <2>2 DEF Board!Scope
  <2>4. r.files \in SUBSET Paths
    BY DEF Task
  <2> QED
    BY <2>3, <2>4 DEF Board!BoardNext
<1> QED
  BY <1>6, <1>7, <1>8, <1>9, <1>10 DEF Moves

LEMMA ExpireDueBoard ==
    ASSUME IInv, NEW at \in Nat, ExpireDue(at)
    PROVE  [Board!BoardNext]_Board!boardVars
<1> DEFINE ts == {t \in TaskIds : Due(t, at)}
<1>1. \A t \in TaskIds :
         /\ task'[t].files = task[t].files
         /\ Terminal(t)' <=> Terminal(t)
         /\ HolderOf(t)' = IF t \in ts THEN None ELSE HolderOf(t)
  BY ExpireDueFacts DEF Terminal, Closed
<1>2. Board!Drop(ts)
  BY <1>1 DEF Board!Drop
<1>3. ts \in SUBSET TaskIds
  OBVIOUS
<1> QED
  BY <1>2, <1>3 DEF Board!BoardNext

LEMMA SameTasksBoard ==
    ASSUME UNCHANGED task
    PROVE  [Board!BoardNext]_Board!boardVars
BY DEF Board!boardVars, HolderOf, Terminal

LEMMA BoardStep == IInv /\ [Next]_vars => [Board!BoardNext]_Board!boardVars
<1> SUFFICES ASSUME IInv, [Next]_vars PROVE [Board!BoardNext]_Board!boardVars
  OBVIOUS
<1>1. ASSUME NEW t \in TaskIds, Rewrites(t)  PROVE [Board!BoardNext]_Board!boardVars
  BY <1>1, PutBoard DEF Rewrites
<1>2. Stamps \subseteq Nat
  BY DEF IInv, TypeOK, Stamps
<1>3. ASSUME NEW t \in TaskIds,
             \/ \E s \in Seats, at \in Stamps : SeatStep(t, s, at)
             \/ \E at \in Stamps : LeadStep(t, at)
             \/ HarnessStep(t)
      PROVE  [Board!BoardNext]_Board!boardVars
  BY <1>1, <1>3, StepRewrites
<1>4. ASSUME NEW at \in Stamps, ExpireDue(at)  PROVE [Board!BoardNext]_Board!boardVars
  BY <1>2, <1>4, ExpireDueBoard
<1>5. CASE \/ \E s \in Seats, nonce \in Nonces, at \in Stamps : ReserveSeat(s, nonce, at)
           \/ \E s \in Seats, nonce \in Nonces : ReleaseSeat(s, nonce)
           \/ \E g \in Gates : ChangeGate(g)
           \/ Tick
           \/ UNCHANGED vars
  <2>1. UNCHANGED task
    BY <1>5 DEF ReserveSeat, ReleaseSeat, ChangeGate, Tick, vars
  <2> QED
    BY <2>1, SameTasksBoard
<1> QED
  BY <1>3, <1>4, <1>5 DEF Next

\* The task store implements the lease board: every grant, claim, report,
\* refusal, widening, expiry and cancellation is a take, a growth into free
\* files, a drop or a close of the board, or invisible to it.
THEOREM StoreImplementsBoard == Spec => ImplementsBoard
BY BoardInitial, BoardStep, Invariance, PTL DEF Spec, ImplementsBoard, Board!BoardSpec

----------------------------------------------------------------------------
(* What the record of one task satisfies, and what one step may do to it *)

Requested(r) ==
    r.blockAttempt # 0 =>
        /\ r.state \in {"blocked", "cancelled"}
        /\ r.refused
        /\ r.report = None
        /\ r.blockAttempt = r.attempt
        /\ LastRow(r).outcome = "blocked"

Sealed(r) == HasVerdict(r) => ~VerdictInvalid(r)

SoundRow(row) ==
    row.outcome = "completed" /\ row.verdict.result # "none" =>
        row.verdict.result = "pass" /\ row.verdict.attempt = row.n

SoundRows(r) == \A i \in 1 .. Len(r.attempts) : SoundRow(r.attempts[i])

Proven(r) == r.mergeCommit # None => r.pr # None /\ r.mergeHead = r.head

Fresh(r) == r.state = "absent" => r.attempt = 0 /\ r.attempts = <<>> /\ r.pr = None

History(r) ==
    Accounted(r) /\ Requested(r) /\ Sealed(r) /\ SoundRows(r) /\ Proven(r) /\ Fresh(r)

\* The rows only grow, and a closed record keeps them and its state.
Final(q, r) ==
    /\ Closed(q) => r.state = q.state /\ r.attempts = q.attempts
    /\ Len(r.attempts) >= Len(q.attempts)
    /\ \A i \in 1 .. Len(q.attempts) : r.attempts[i] = q.attempts[i]

\* A reported lease does not expire, and times of one attempt move forward.
Honoured(q, r) ==
    /\ q.report # None /\ Len(r.attempts) > Len(q.attempts) =>
          LastRow(r).outcome \notin {"expired", "unclaimed"}
    /\ q.lease.holder # None /\ r.lease.holder # None /\ q.attempt = r.attempt =>
          /\ r.lease.holder = q.lease.holder
          /\ r.lease.expiresAt >= q.lease.expiresAt
          /\ r.lease.renewedAt >= q.lease.renewedAt

PoolKept(q, r) ==
    q.attempt > 0 /\ r.pool # q.pool =>
        <<q.state, r.state>> \in {<<"pending", "in_progress">>, <<"blocked", "pending">>}

\* A record completes through the gate.
Passed(q, r) ==
    ~Closed(q) /\ r.state = "completed" /\ VerifierRequired(q) =>
        /\ LastRow(r).verdict.result = "pass"
        /\ LastRow(r).verdict.attempt = q.attempt
        /\ LastRow(r).verdict.tree = q.lease.snapshot

\* A recorded merge stays with the head it is of.
MergeKept(q, r) ==
    q.mergeCommit # None /\ r.pr = q.pr /\ r.head = q.head => r.mergeCommit # None

\* What the other tasks see of it: its pull request, merge, dependencies and
\* starts.
Linked(t, r) ==
    /\ MergeKept(task[t], r)
    /\ r.pr # task[t].pr => PRFree(t, r.pr)
    /\ task[t].pr # None => r.pr # None
    /\ task[t].state = "completed" => r.state = "completed"
    /\ r.attempt > 0 => r.deps = task[t].deps
    /\ r.attempt # task[t].attempt /\ (task[t].attempt = 0 \/ task[t].state = "pending") =>
           Unblocked(t)

Advance(t, r) ==
    /\ History(r)
    /\ Final(task[t], r) /\ Honoured(task[t], r)
    /\ PoolKept(task[t], r) /\ Passed(task[t], r)
    /\ Linked(t, r)

Advances(t) == \E r \in Task : Advance(t, r) /\ Put(t, r)

HInv ==
    /\ \A t \in TaskIds : History(task[t])
    /\ PROneTask

----------------------------------------------------------------------------
(* The fields that the operators on a record leave alone *)

\* The fields outside the lifecycle.
Aside(q, r) ==
    /\ r.class = q.class /\ r.deps = q.deps /\ r.pool = q.pool /\ r.pr = q.pr
    /\ r.head = q.head /\ r.mergeHead = q.mergeHead /\ r.mergeCommit = q.mergeCommit

LEMMA AsideChain ==
    ASSUME NEW p, NEW q, NEW r, Aside(p, q), Aside(q, r)
    PROVE  Aside(p, r)
BY DEF Aside

LEMMA EndedFields ==
    ASSUME NEW r \in Task, NEW o \in Outcomes, r.lease.holder # None
    PROVE  LET e == EndAttempt(r, o)
           IN  /\ e.attempts = Append(r.attempts, AttemptRow(r, o)) /\ e.lease = NoLease
               /\ e.attempt = r.attempt /\ e.refused = r.refused
               /\ e.blockAttempt = r.blockAttempt
               /\ Aside(r, e)
<1> DEFINE row == Append(r.attempts, AttemptRow(r, o))
           e == [r EXCEPT !.attempts = row, !.lease = NoLease]
<1>1. EndAttempt(r, o) = e
  BY DEF EndAttempt
<1> HIDE DEF row
<1>2. e.attempts = row /\ e.lease = NoLease
  BY DEF Task
<1>3. e.attempt = r.attempt /\ e.refused = r.refused /\ e.blockAttempt = r.blockAttempt
  BY DEF Task
<1>4. Aside(r, e)
  BY DEF Task, Aside
<1> QED
  BY <1>1, <1>2, <1>3, <1>4 DEF row

LEMMA StoppedFields ==
    ASSUME NEW r \in Task, NEW reason
    PROVE  LET b == Stopped(r, reason)
           IN  /\ b.attempt = r.attempt /\ b.refused = FALSE /\ b.blockAttempt = 0
               /\ Aside(r, b)
<1>1. /\ Stopped(r, reason).attempt = r.attempt /\ Stopped(r, reason).refused = FALSE
      /\ Stopped(r, reason).blockAttempt = 0
  BY DEF Stopped, Task
<1>2. Aside(r, Stopped(r, reason))
  BY DEF Stopped, Task, Aside
<1> QED
  BY <1>1, <1>2

LEMMA UnstoppedFields ==
    ASSUME NEW r \in Task
    PROVE  LET u == Unstopped(r)
           IN  u.refused = FALSE /\ u.blockAttempt = 0 /\ Aside(r, u)
<1>1. Unstopped(r).refused = FALSE /\ Unstopped(r).blockAttempt = 0
  BY DEF Unstopped, Task
<1>2. Aside(r, Unstopped(r))
  BY DEF Unstopped, Task, Aside
<1> QED
  BY <1>1, <1>2

\* The row of a sealed lease carries its verdict.
LEMMA RowFields ==
    ASSUME NEW r \in Task, NEW o \in Outcomes, Sealed(r)
    PROVE  LET row == AttemptRow(r, o)
           IN  row.n = r.attempt /\ row.outcome = o /\ row.verdict = r.lease.verdict
BY DEF AttemptRow, Sealed

LEMMA ExtendedFields ==
    ASSUME NEW l \in Lease, NEW at \in Nat
    PROVE  LET x == Extended(l, at)
           IN  /\ x.expiresAt >= l.expiresAt /\ x.renewedAt >= l.renewedAt
               /\ x.verdict = l.verdict /\ x.snapshot = l.snapshot
<1>1. l.expiresAt \in Int /\ l.renewedAt \in Int /\ at + LeaseLen \in Int
  BY TimeAssumption DEF Lease, Never
<1>2. Later(l.renewedAt, at) >= l.renewedAt /\ Later(l.expiresAt, at + LeaseLen) >= l.expiresAt
  BY <1>1 DEF Later
<1> QED
  BY <1>2 DEF Extended, Lease

LEMMA NewLeaseFields ==
    ASSUME NEW s, NEW at
    PROVE  NewLease(s, at).verdict.result = "none"
BY DEF NewLease, NoLease, NoVerdict

----------------------------------------------------------------------------
(* Three ways to advance a record: quietly, by ending an attempt, and by   *)
(* starting one                                                            *)

LEMMA Appended ==
    ASSUME NEW S, NEW s \in Seq(S), NEW x \in S
    PROVE  /\ Len(Append(s, x)) = Len(s) + 1 /\ Append(s, x)[Len(s) + 1] = x
           /\ \A i \in 1 .. Len(s) : Append(s, x)[i] = s[i]
           /\ Len(s) \in Nat
OBVIOUS

\* The attempt goes on, or there is none: nothing is appended.
LEMMA QuietAdvance ==
    ASSUME IInv, HInv, NEW t \in TaskIds, NEW r \in Task,
           r.attempt = task[t].attempt, r.attempts = task[t].attempts,
           r.lease.holder = task[t].lease.holder,
           r.lease.expiresAt >= task[t].lease.expiresAt,
           r.lease.renewedAt >= task[t].lease.renewedAt,
           Closed(task[t]) => r.state = task[t].state,
           r.state = "completed" => task[t].state = "completed",
           r.state # "absent", task[t].state # "absent",
           Requested(r), Sealed(r), Proven(r), PoolKept(task[t], r),
           r.deps = task[t].deps, MergeKept(task[t], r),
           task[t].pr # None => r.pr # None,
           r.pr # task[t].pr => PRFree(t, r.pr)
    PROVE  Advance(t, r)
<1>1. task[t] \in Task /\ History(task[t])
  BY TaskFacts DEF HInv
<1>2. Accounted(r)
  BY <1>1 DEF History, Accounted
<1>3. SoundRows(r)
  BY <1>1 DEF History, SoundRows
<1>4. Fresh(r)
  BY DEF Fresh
<1>5. History(r)
  BY <1>2, <1>3, <1>4 DEF History
<1>6. Len(task[t].attempts) \in Nat
  BY <1>1 DEF Task
<1>7. Final(task[t], r)
  BY <1>6 DEF Final
<1>8. Honoured(task[t], r)
  BY <1>6 DEF Honoured
<1>9. Passed(task[t], r)
  BY DEF Passed, Closed
<1>10. Linked(t, r)
  BY DEF Linked, Closed
<1> QED
  BY <1>5, <1>7, <1>8, <1>9, <1>10 DEF Advance

\* Nothing that other tasks see, and no lease, changes.
LEMMA LocalAdvance ==
    ASSUME IInv, HInv, NEW t \in TaskIds, NEW r \in Task,
           r.attempt = task[t].attempt, r.attempts = task[t].attempts,
           r.lease = task[t].lease, Aside(task[t], r),
           ~Closed(task[t]), r.state # "completed",
           r.state # "absent", task[t].state # "absent", Requested(r)
    PROVE  Advance(t, r)
<1>1. task[t] \in Task /\ History(task[t])
  BY TaskFacts DEF HInv
<1>2. task[t].lease.expiresAt \in Int /\ task[t].lease.renewedAt \in Int
  BY <1>1 DEF Task, Lease, Never
<1>3. Sealed(r)
  BY <1>1 DEF History, Sealed, HasVerdict, VerdictInvalid
<1>4. Proven(r) /\ PoolKept(task[t], r)
  BY <1>1 DEF History, Proven, PoolKept, Aside
<1>5. r.deps = task[t].deps /\ r.pr = task[t].pr /\ MergeKept(task[t], r)
  BY DEF Aside, MergeKept
<1>6. /\ r.lease.expiresAt >= task[t].lease.expiresAt
      /\ r.lease.renewedAt >= task[t].lease.renewedAt
  BY <1>2
<1> QED
  BY <1>3, <1>4, <1>5, <1>6, QuietAdvance

\* A leased attempt ends in a row; only the binding may change beside it.
LEMMA EndAdvance ==
    ASSUME IInv, HInv, NEW t \in TaskIds, NEW r \in Task, NEW row \in Attempt,
           task[t].lease.holder # None, ~Closed(task[t]),
           r.attempts = Append(task[t].attempts, row), row.n = task[t].attempt,
           r.attempt = task[t].attempt, r.lease = NoLease, r.state # "absent",
           SoundRow(row), Requested(r), Proven(r),
           task[t].report # None => row.outcome \notin {"expired", "unclaimed"},
           r.state = "completed" /\ VerifierRequired(task[t]) =>
               /\ row.verdict.result = "pass" /\ row.verdict.attempt = task[t].attempt
               /\ row.verdict.tree = task[t].lease.snapshot,
           r.pool = task[t].pool, r.deps = task[t].deps, MergeKept(task[t], r),
           task[t].pr # None => r.pr # None,
           r.pr # task[t].pr => PRFree(t, r.pr)
    PROVE  Advance(t, r)
<1> DEFINE s == task[t].attempts
<1>1. task[t] \in Task /\ History(task[t])
  BY TaskFacts DEF HInv
<1>2. /\ s \in Seq(Attempt) /\ task[t].attempt \in Nat
  BY <1>1 DEF Task
<1>3. /\ Len(r.attempts) = Len(s) + 1 /\ r.attempts[Len(s) + 1] = row
      /\ \A i \in 1 .. Len(s) : r.attempts[i] = s[i]
      /\ Len(s) \in Nat
  BY <1>2, Appended
<1>4. task[t].attempt = Len(s) + 1 /\ \A i \in 1 .. Len(s) : s[i].n = i
  BY <1>1 DEF History, Accounted
<1>5. r.lease.holder = None /\ ~HasVerdict(r)
  BY NoLeaseType DEF HasVerdict, NoLease, NoVerdict
<1> HIDE DEF s
<1>6. \A i \in 1 .. Len(r.attempts) : i \in 1 .. Len(s) \/ i = Len(s) + 1
  BY <1>3
<1>7. Accounted(r)
  BY <1>3, <1>4, <1>5, <1>6 DEF Accounted
<1>8. \A i \in 1 .. Len(s) : SoundRow(s[i])
  BY <1>1 DEF History, SoundRows, s
<1>9. SoundRows(r)
  BY <1>3, <1>6, <1>8 DEF SoundRows
<1>10. History(r)
  BY <1>5, <1>7, <1>9 DEF History, Sealed, Fresh
<1>11. LastRow(r) = row
  BY <1>3 DEF LastRow
<1>12. Final(task[t], r)
  BY <1>3 DEF Final, s
<1>13. Honoured(task[t], r)
  BY <1>5, <1>11 DEF Honoured
<1>14. Passed(task[t], r) /\ PoolKept(task[t], r)
  BY <1>11 DEF Passed, PoolKept
<1>15. Linked(t, r)
  BY <1>4, <1>2, <1>3 DEF Linked, Closed
<1> QED
  BY <1>10, <1>12, <1>13, <1>14, <1>15 DEF Advance

\* An attempt starts under a new lease.
LEMMA StartAdvance ==
    ASSUME IInv, HInv, NEW t \in TaskIds, NEW r \in Task,
           task[t].lease.holder = None, ~Closed(task[t]), task[t].state # "absent",
           r.lease.holder # None, r.lease.verdict.result = "none",
           r.attempt = task[t].attempt + 1, r.attempts = task[t].attempts,
           r.state = "in_progress", r.blockAttempt = 0,
           PoolKept(task[t], r),
           r.deps = task[t].deps, r.pr = task[t].pr, r.head = task[t].head,
           r.mergeHead = task[t].mergeHead, r.mergeCommit = task[t].mergeCommit,
           task[t].attempt = 0 \/ task[t].state = "pending" => Unblocked(t)
    PROVE  Advance(t, r)
<1>1. task[t] \in Task /\ History(task[t])
  BY TaskFacts DEF HInv
<1>2. task[t].attempt \in Nat /\ Len(task[t].attempts) \in Nat
  BY <1>1 DEF Task
<1>3. Accounted(r)
  BY <1>1, <1>2 DEF History, Accounted
<1>4. SoundRows(r) /\ Proven(r)
  BY <1>1 DEF History, SoundRows, Proven
<1>5. Requested(r) /\ Sealed(r) /\ Fresh(r)
  BY DEF Requested, Sealed, HasVerdict, Fresh
<1>6. History(r)
  BY <1>3, <1>4, <1>5 DEF History
<1>7. Final(task[t], r) /\ Honoured(task[t], r)
  BY <1>2 DEF Final, Honoured
<1>8. Passed(task[t], r)
  BY DEF Passed
<1>9. Linked(t, r)
  BY DEF Linked, MergeKept, Closed
<1> QED
  BY <1>6, <1>7, <1>8, <1>9 DEF Advance

----------------------------------------------------------------------------
(* The steps of a seat *)

LEMMA HistoryFacts ==
    ASSUME IInv, HInv, NEW t \in TaskIds
    PROVE  /\ task[t] \in Task /\ Consistent(task[t]) /\ History(task[t])
           /\ Accounted(task[t]) /\ Requested(task[t]) /\ Sealed(task[t])
           /\ Proven(task[t])
           /\ task[t].lease \in Lease
           /\ task[t].lease.expiresAt \in Int /\ task[t].lease.renewedAt \in Int
<1>1. task[t] \in Task /\ Consistent(task[t]) /\ History(task[t])
  BY TaskFacts DEF HInv
<1>2. task[t].lease \in Lease
  BY <1>1 DEF Task
<1>3. task[t].lease.expiresAt \in Int /\ task[t].lease.renewedAt \in Int
  BY <1>2 DEF Lease, Never
<1> QED
  BY <1>1, <1>2, <1>3 DEF History

\* A record without a typed request of its own has none.
LEMMA UnasksType ==
    ASSUME NEW r, r.blockAttempt = 0
    PROVE  Requested(r)
BY DEF Requested

\* Only a block has a typed request.
LEMMA NotAsked ==
    ASSUME NEW r, Requested(r), r.state \notin {"blocked", "cancelled"}
    PROVE  r.blockAttempt = 0
BY DEF Requested

LEMMA GrantedFields ==
    ASSUME NEW r \in Task, NEW s \in Seats, NEW p \in Pools \cup {None}, NEW at \in Nat
    PROVE  LET g == Granted(r, s, p, at)
           IN  /\ g.attempt = r.attempt + 1 /\ g.attempts = r.attempts
               /\ g.blockAttempt = r.blockAttempt /\ g.lease.verdict.result = "none"
               /\ g.deps = r.deps /\ g.pr = r.pr /\ g.head = r.head
               /\ g.mergeHead = r.mergeHead /\ g.mergeCommit = r.mergeCommit
<1>1. Granted(r, s, p, at).lease = NewLease(s, at)
  BY DEF Granted, Task
<1> QED
  BY <1>1, NewLeaseFields DEF Granted, Task

LEMMA ClaimedFields ==
    ASSUME NEW r \in Task, NEW at \in Nat
    PROVE  LET c == Claimed(r, at)
           IN  /\ c.attempt = r.attempt /\ c.blockAttempt = r.blockAttempt
               /\ c.refused = r.refused /\ Aside(r, c)
               /\ c.lease.verdict = r.lease.verdict /\ c.lease.snapshot = r.lease.snapshot
               /\ c.lease.expiresAt >= r.lease.expiresAt
               /\ c.lease.renewedAt >= r.lease.renewedAt
<1>1. r.lease \in Lease
  BY DEF Task
<1>2. Claimed(r, at).lease = Extended(r.lease, at)
  BY DEF Claimed, Task
<1>3. Aside(r, Claimed(r, at))
  BY DEF Claimed, Task, Aside
<1>4. /\ Claimed(r, at).attempt = r.attempt /\ Claimed(r, at).blockAttempt = r.blockAttempt
      /\ Claimed(r, at).refused = r.refused
  BY DEF Claimed, Task
<1> QED
  BY <1>1, <1>2, <1>3, <1>4, ExtendedFields

LEMMA GrantAdvances ==
    ASSUME IInv, HInv, NEW t \in TaskIds, NEW s \in Seats, NEW p \in Pools \cup {None},
           NEW at \in Nat, Grant(t, s, p, at) \/ ClaimPending(t, s, p, at)
    PROVE  Advances(t)
<1> DEFINE g == Granted(task[t], s, p, at)
           c == Claimed(g, at)
<1>1. Grantable(t, s) /\ (Put(t, g) \/ Put(t, c))
  BY DEF Grant, ClaimPending
<1>2. task[t].state = "pending" /\ Unblocked(t)
  BY <1>1 DEF Grantable
<1>3. task[t] \in Task /\ task[t].lease.holder = None /\ task[t].blockAttempt = 0
      /\ ~Closed(task[t]) /\ task[t].state # "absent"
  BY <1>2, HistoryFacts, NotAsked DEF Consistent, Closed
<1>4. /\ g \in Task /\ g.state = "in_progress" /\ g.lease.holder = s
      /\ g.attempt = task[t].attempt + 1 /\ g.attempts = task[t].attempts
      /\ g.blockAttempt = 0 /\ g.lease.verdict.result = "none"
      /\ g.deps = task[t].deps /\ g.pr = task[t].pr /\ g.head = task[t].head
      /\ g.mergeHead = task[t].mergeHead /\ g.mergeCommit = task[t].mergeCommit
  BY <1>3, GrantedType, GrantedFields
<1> HIDE DEF g
<1>5. /\ c \in Task /\ c.state = "in_progress" /\ c.lease.holder = s
      /\ c.attempt = g.attempt /\ c.attempts = g.attempts
      /\ c.blockAttempt = g.blockAttempt /\ c.lease.verdict = g.lease.verdict /\ Aside(g, c)
  BY <1>4, ClaimedType, ClaimedFields
<1> HIDE DEF c
<1>6. s # None
  BY NoneAssumption
<1>7. PoolKept(task[t], g) /\ PoolKept(task[t], c)
  BY <1>2, <1>4, <1>5 DEF PoolKept
<1>8. Advance(t, g)
  BY <1>2, <1>3, <1>4, <1>6, <1>7, StartAdvance
<1>9. /\ c.deps = task[t].deps /\ c.pr = task[t].pr /\ c.head = task[t].head
      /\ c.mergeHead = task[t].mergeHead /\ c.mergeCommit = task[t].mergeCommit
  BY <1>4, <1>5 DEF Aside
<1>10. Advance(t, c)
  BY <1>2, <1>3, <1>4, <1>5, <1>6, <1>7, <1>9, StartAdvance
<1> QED
  BY <1>1, <1>4, <1>5, <1>8, <1>10 DEF Advances

LEMMA ClaimHeldAdvances ==
    ASSUME IInv, HInv, NEW t \in TaskIds, NEW s \in Seats, NEW at \in Nat,
           ClaimHeld(t, s, at) \/ Renew(t, s, at)
    PROVE  Advances(t)
<1> DEFINE c == Claimed(task[t], at)
<1>1. Put(t, c) /\ task[t].state = "in_progress"
  BY DEF ClaimHeld, Renew, LiveHolder
<1>2. task[t] \in Task /\ History(task[t]) /\ task[t].blockAttempt = 0
  BY <1>1, HistoryFacts, NotAsked
<1>3. /\ c \in Task /\ c.state = task[t].state /\ c.attempts = task[t].attempts
      /\ c.lease.holder = task[t].lease.holder
      /\ c.attempt = task[t].attempt /\ c.blockAttempt = 0 /\ Aside(task[t], c)
      /\ c.lease.verdict = task[t].lease.verdict /\ c.lease.snapshot = task[t].lease.snapshot
      /\ c.lease.expiresAt >= task[t].lease.expiresAt
      /\ c.lease.renewedAt >= task[t].lease.renewedAt
  BY <1>2, ClaimedType, ClaimedFields
<1> HIDE DEF c
<1>4. Sealed(c)
  BY <1>2, <1>3 DEF History, Sealed, HasVerdict, VerdictInvalid
<1>5. /\ Proven(c) /\ PoolKept(task[t], c) /\ MergeKept(task[t], c)
      /\ c.deps = task[t].deps /\ c.pr = task[t].pr
  BY <1>2, <1>3 DEF History, Proven, PoolKept, MergeKept, Aside
<1>6. Requested(c)
  BY <1>3, UnasksType
<1>7. Advance(t, c)
  BY <1>1, <1>3, <1>4, <1>5, <1>6, QuietAdvance DEF Closed
<1> QED
  BY <1>1, <1>3, <1>7 DEF Advances

\* What an ended attempt's record carries on, once its state is set.
LEMMA EndedAttempt ==
    ASSUME NEW r \in Task, Sealed(r), NEW o \in Outcomes, r.lease.holder # None
    PROVE  LET row == AttemptRow(r, o)
               e == EndAttempt(r, o)
           IN  /\ row \in Attempt /\ row.n = r.attempt /\ row.outcome = o
               /\ row.verdict = r.lease.verdict
               /\ e \in Task /\ e.attempts = Append(r.attempts, row) /\ e.lease = NoLease
               /\ e.attempt = r.attempt /\ e.state = r.state /\ e.report = r.report
               /\ e.refused = r.refused /\ e.blockAttempt = r.blockAttempt
               /\ Aside(r, e)
BY AttemptRowType, RowFields, EndAttemptType, EndedFields

LEMMA AcceptedFields ==
    ASSUME NEW r \in Task, Sealed(r), r.lease.holder # None
    PROVE  LET a == Accepted(r)
           IN  /\ a \in Task /\ a.state \in {"blocked", "completed"}
               /\ a.lease = NoLease /\ a.attempt = r.attempt /\ a.blockAttempt = 0
               /\ Aside(r, a)
               /\ \E row \in Attempt :
                     /\ a.attempts = Append(r.attempts, row) /\ row.n = r.attempt
                     /\ SoundRow(row) /\ row.outcome \in {"blocked", "completed"}
                     /\ a.state = "completed" /\ VerifierRequired(r) =>
                           /\ row.verdict.result = "pass"
                           /\ row.verdict.attempt = r.attempt
                           /\ row.verdict.tree = r.lease.snapshot
<1> DEFINE q == [r EXCEPT !.lease = OnlySound(r)]
           b == EndAttempt(q, "blocked")
           e == EndAttempt(q, "completed")
           x == Stopped(b, "verdict_missing")
           y == Stopped(b, "verdict_failed")
           u == Unstopped(e)
           c == [u EXCEPT !.state = "completed"]
           rowB == AttemptRow(q, "blocked")
           rowC == AttemptRow(q, "completed")
<1>1. q \in Task /\ q.attempt = r.attempt /\ q.attempts = r.attempts /\ q.lease = OnlySound(r)
  <2>1. q \in Task
    BY OnlySoundType DEF Task
  <2>2. q.attempt = r.attempt /\ q.attempts = r.attempts
    BY DEF Task
  <2>3. q.lease = OnlySound(r)
    BY DEF Task
  <2> QED
    BY <2>1, <2>2, <2>3
<1>2. q.lease.holder # None
  BY <1>1, OnlySoundType
<1>3. Aside(r, q)
  BY DEF Aside, Task
<1>4. /\ OnlySound(r).snapshot = r.lease.snapshot
      /\ OnlySound(r).verdict = IF SoundVerdict(r) THEN r.lease.verdict ELSE NoVerdict
  BY DEF OnlySound, Task, Lease
<1>5. SoundVerdict(r) => /\ r.lease.verdict.attempt = r.attempt
                         /\ r.lease.verdict.tree = r.lease.snapshot
  BY DEF SoundVerdict, VerdictInvalid
<1>6. NoVerdict.result = "none"
  BY DEF NoVerdict
<1>7. Sealed(q)
  BY <1>1, <1>4, <1>6 DEF Sealed, SoundVerdict, HasVerdict, VerdictInvalid
<1>8. Accepted(r) = IF VerifierRequired(r) /\ ~SoundVerdict(r) THEN x
                    ELSE IF SoundVerdict(r) /\ r.lease.verdict.result # "pass" THEN y
                    ELSE c
  BY DEF Accepted
<1> HIDE DEF q
<1>9. /\ rowB \in Attempt /\ rowB.n = r.attempt /\ rowB.outcome = "blocked"
      /\ b \in Task /\ b.attempts = Append(r.attempts, rowB) /\ b.lease = NoLease
      /\ b.attempt = r.attempt /\ Aside(q, b)
  BY <1>1, <1>2, <1>7, EndedAttempt DEF Outcomes
<1>10. /\ rowC \in Attempt /\ rowC.n = r.attempt /\ rowC.outcome = "completed"
       /\ rowC.verdict = OnlySound(r).verdict
       /\ e \in Task /\ e.attempts = Append(r.attempts, rowC) /\ e.lease = NoLease
       /\ e.attempt = r.attempt /\ Aside(q, e)
  BY <1>1, <1>2, <1>7, EndedAttempt DEF Outcomes
<1> HIDE DEF b, e, rowB, rowC
<1>11. ASSUME NEW reason \in {"verdict_missing", "verdict_failed"}
       PROVE  LET z == Stopped(b, reason)
              IN  /\ z \in Task /\ z.state = "blocked" /\ z.lease = NoLease
                  /\ z.attempt = r.attempt /\ z.blockAttempt = 0
                  /\ z.attempts = Append(r.attempts, rowB) /\ Aside(b, z)
  <2>1. reason \in Reasons
    BY DEF Reasons
  <2> QED
    BY <2>1, <1>9, StoppedType, StoppedFields
<1>12. /\ u \in Task /\ u.lease = NoLease /\ u.attempts = Append(r.attempts, rowC)
       /\ u.attempt = r.attempt /\ u.blockAttempt = 0 /\ Aside(e, u)
  BY <1>10, UnstoppedType, UnstoppedFields
<1> HIDE DEF u
<1>13. c \in Task
  BY <1>12 DEF Task, States
<1>14. /\ c.state = "completed" /\ c.lease = NoLease /\ c.attempts = Append(r.attempts, rowC)
       /\ c.attempt = r.attempt /\ c.blockAttempt = 0
  BY <1>12 DEF Task
<1>15. Aside(u, c)
  BY <1>12 DEF Task, Aside
<1> HIDE DEF c
<1>16. Aside(r, c)
  BY <1>3, <1>10, <1>12, <1>15, AsideChain
<1>17. Aside(r, x) /\ Aside(r, y)
  BY <1>3, <1>9, <1>11, AsideChain
<1>18. SoundRow(rowB)
  BY <1>9 DEF SoundRow
<1> DEFINE missing == VerifierRequired(r) /\ ~SoundVerdict(r)
           failed == SoundVerdict(r) /\ r.lease.verdict.result # "pass"
<1>19. CASE missing \/ failed
  <2>1. Accepted(r) \in {x, y}
    BY <1>8, <1>19
  <2>2. \A z \in {x, y} : /\ z \in Task /\ z.state = "blocked" /\ z.lease = NoLease
                          /\ z.attempt = r.attempt /\ z.blockAttempt = 0
                          /\ z.attempts = Append(r.attempts, rowB) /\ Aside(r, z)
    BY <1>11, <1>17
  <2> HIDE DEF x, y
  <2> QED
    BY <2>1, <2>2, <1>9, <1>18
<1>20. CASE ~missing /\ ~failed
  <2>1. Accepted(r) = c
    BY <1>8, <1>20
  <2>2. SoundVerdict(r) =>
          /\ rowC.verdict.result = "pass" /\ rowC.verdict.attempt = r.attempt
          /\ rowC.verdict.tree = r.lease.snapshot
    BY <1>4, <1>5, <1>10, <1>20
  <2>3. ~SoundVerdict(r) => rowC.verdict.result = "none"
    BY <1>4, <1>6, <1>10
  <2>4. SoundRow(rowC)
    BY <2>2, <2>3, <1>10 DEF SoundRow
  <2> QED
    BY <2>1, <2>2, <2>4, <1>10, <1>13, <1>14, <1>16, <1>20
<1> QED
  BY <1>19, <1>20

LEMMA BoundFields ==
    ASSUME NEW r \in Task, NEW p \in PRs, NEW h \in Heads, Proven(r)
    PROVE  LET b == Bound(r, p, h)
           IN  /\ b \in Task /\ b.attempt = r.attempt /\ b.attempts = r.attempts
               /\ b.lease = r.lease /\ b.state = r.state /\ b.report = r.report
               /\ b.refused = r.refused /\ b.blockAttempt = r.blockAttempt
               /\ b.class = r.class /\ b.pool = r.pool /\ b.deps = r.deps
               /\ b.pr = p /\ b.head = h /\ Proven(b) /\ MergeKept(r, b)
<1>1. CASE r.pr = p /\ r.head = h
  BY <1>1 DEF Bound, MergeKept
<1>2. CASE ~(r.pr = p /\ r.head = h)
  <2> DEFINE b == [r EXCEPT !.pr = p, !.head = h, !.mergeHead = None, !.mergeCommit = None]
  <2>1. Bound(r, p, h) = b
    BY <1>2 DEF Bound
  <2>2. b \in Task
    BY <2>1, BoundType
  <2>3. /\ b.attempt = r.attempt /\ b.attempts = r.attempts
        /\ b.lease = r.lease /\ b.state = r.state /\ b.report = r.report
        /\ b.refused = r.refused /\ b.blockAttempt = r.blockAttempt
        /\ b.class = r.class /\ b.pool = r.pool /\ b.deps = r.deps
    BY DEF Task
  <2>4. b.pr = p /\ b.head = h /\ b.mergeCommit = None
    BY DEF Task
  <2> HIDE DEF b
  <2> QED
    BY <1>2, <2>1, <2>2, <2>3, <2>4 DEF Proven, MergeKept
<1> QED
  BY <1>1, <1>2

\* A done report that the gate decides, for the record it is decided on.
LEMMA AcceptedAdvances ==
    ASSUME IInv, HInv, NEW t \in TaskIds, task[t].state = "in_progress",
           NEW r \in Task, r.attempt = task[t].attempt, r.attempts = task[t].attempts,
           r.lease.holder = task[t].lease.holder,
           r.lease.verdict = task[t].lease.verdict,
           r.lease.snapshot = task[t].lease.snapshot,
           r.class = task[t].class, r.pool = task[t].pool, r.deps = task[t].deps,
           Proven(r), MergeKept(task[t], r),
           r.pr # task[t].pr => r.pr # None /\ PRFree(t, r.pr), Put(t, Accepted(r))
    PROVE  Advances(t)
<1> DEFINE a == Accepted(r)
<1>1. task[t].lease.holder # None /\ Sealed(task[t])
  BY HistoryFacts DEF Consistent
<1>2. Sealed(r)
  BY <1>1 DEF Sealed, HasVerdict, VerdictInvalid
<1>3. VerifierRequired(r) <=> VerifierRequired(task[t])
  BY DEF VerifierRequired
<1>4. PICK row \in Attempt :
         /\ a.attempts = Append(r.attempts, row) /\ row.n = r.attempt
         /\ SoundRow(row) /\ row.outcome \in {"blocked", "completed"}
         /\ a.state = "completed" /\ VerifierRequired(r) =>
               /\ row.verdict.result = "pass" /\ row.verdict.attempt = r.attempt
               /\ row.verdict.tree = r.lease.snapshot
  BY <1>1, <1>2, AcceptedFields
<1>5. /\ a \in Task /\ a.state \in {"blocked", "completed"}
      /\ a.lease = NoLease /\ a.attempt = r.attempt /\ a.blockAttempt = 0
      /\ Aside(r, a)
  BY <1>1, <1>2, AcceptedFields
<1>6. Put(t, a)
  OBVIOUS
<1> HIDE DEF a
<1>7. Requested(a) /\ Proven(a)
  BY <1>5, UnasksType DEF Aside, Proven
<1>8. /\ a.pool = task[t].pool /\ a.deps = task[t].deps /\ a.pr = r.pr
      /\ MergeKept(task[t], a)
  BY <1>5 DEF Aside, MergeKept
<1>9. Advance(t, a)
  BY <1>1, <1>3, <1>4, <1>5, <1>7, <1>8, EndAdvance DEF Closed
<1> QED
  BY <1>5, <1>6, <1>9 DEF Advances

LEMMA DoneAdvances ==
    ASSUME IInv, HInv, NEW t \in TaskIds, NEW s \in Seats, NEW at \in Nat, Done(t, s, at)
    PROVE  Advances(t)
<1> DEFINE l == [task[t].lease EXCEPT !.claimed = TRUE]
           r == [task[t] EXCEPT !.lease = l, !.report = s]
<1>1. task[t] \in Task /\ History(task[t]) /\ task[t].state = "in_progress"
      /\ task[t].blockAttempt = 0 /\ task[t].lease \in Lease
      /\ task[t].lease.expiresAt \in Int /\ task[t].lease.renewedAt \in Int
  BY HistoryFacts, NotAsked DEF Done, LiveHolder
<1>2. /\ l \in Lease /\ l.holder = task[t].lease.holder
      /\ l.verdict = task[t].lease.verdict /\ l.snapshot = task[t].lease.snapshot
      /\ l.expiresAt = task[t].lease.expiresAt /\ l.renewedAt = task[t].lease.renewedAt
  BY <1>1 DEF Lease
<1>3. Put(t, Accepted(r)) \/ Put(t, r)
  BY DEF Done
<1> HIDE DEF l
<1>4. r \in Task
  BY <1>1, <1>2 DEF Task
<1>5. /\ r.state = "in_progress" /\ r.attempt = task[t].attempt
      /\ r.attempts = task[t].attempts /\ r.lease = l /\ r.blockAttempt = 0
  BY <1>1 DEF Task
<1>6. Aside(task[t], r)
  BY <1>1 DEF Task, Aside
<1> HIDE DEF r
<1>7. /\ r.class = task[t].class /\ r.pool = task[t].pool /\ r.deps = task[t].deps
      /\ r.pr = task[t].pr /\ Proven(r) /\ PoolKept(task[t], r) /\ MergeKept(task[t], r)
  BY <1>1, <1>6 DEF Aside, History, Proven, PoolKept, MergeKept
<1>8. CASE Put(t, Accepted(r))
  BY <1>1, <1>2, <1>4, <1>5, <1>7, <1>8, AcceptedAdvances
<1>9. CASE Put(t, r)
  <2>1. Sealed(r)
    BY <1>1, <1>2, <1>5 DEF History, Sealed, HasVerdict, VerdictInvalid
  <2>2. Requested(r)
    BY <1>5, UnasksType
  <2>3. /\ r.lease.expiresAt >= task[t].lease.expiresAt
        /\ r.lease.renewedAt >= task[t].lease.renewedAt
    BY <1>1, <1>2, <1>5
  <2>4. Advance(t, r)
    BY <1>1, <1>2, <1>4, <1>5, <1>7, <2>1, <2>2, <2>3, QuietAdvance DEF Closed
  <2> QED
    BY <1>4, <1>9, <2>4 DEF Advances
<1> QED
  BY <1>3, <1>8, <1>9

LEMMA CompleteAdvances ==
    ASSUME IInv, HInv, NEW t \in TaskIds, Complete(t)
    PROVE  Advances(t)
<1>1. task[t] \in Task /\ Proven(task[t]) /\ task[t].state = "in_progress"
      /\ Put(t, Accepted(task[t])) /\ MergeKept(task[t], task[t])
  BY HistoryFacts DEF Complete, AwaitsCommit, MergeKept
<1> QED
  BY <1>1, AcceptedAdvances

LEMMA CompleteBoundAdvances ==
    ASSUME IInv, HInv, NEW t \in TaskIds, NEW p \in PRs, NEW h \in Heads, CompleteBound(t, p, h)
    PROVE  Advances(t)
<1> DEFINE b == Bound(task[t], p, h)
<1>1. task[t] \in Task /\ Proven(task[t]) /\ task[t].state = "in_progress"
      /\ PRFree(t, p) /\ p # None /\ Put(t, Accepted(b))
  BY HistoryFacts, NoneAssumption DEF CompleteBound, AwaitsCommit
<1>2. /\ b \in Task /\ b.attempt = task[t].attempt /\ b.attempts = task[t].attempts
      /\ b.lease = task[t].lease /\ b.class = task[t].class /\ b.pool = task[t].pool
      /\ b.deps = task[t].deps /\ b.pr = p /\ Proven(b) /\ MergeKept(task[t], b)
  BY <1>1, BoundFields
<1> HIDE DEF b
<1> QED
  BY <1>1, <1>2, AcceptedAdvances

\* The other ends of an attempt: o is the outcome, the record r stays open.
LEMMA EndsAdvance ==
    ASSUME IInv, HInv, NEW t \in TaskIds, NEW o \in Outcomes, task[t].lease.holder # None,
           o # "completed", task[t].report # None => o \notin {"expired", "unclaimed"},
           NEW r \in Task, r.attempts = EndAttempt(task[t], o).attempts,
           r.attempt = task[t].attempt, r.lease = NoLease, Aside(task[t], r),
           r.state \notin {"absent", "completed"}, Requested(r)
    PROVE  Advance(t, r)
<1> DEFINE row == AttemptRow(task[t], o)
<1>1. task[t] \in Task /\ Sealed(task[t]) /\ Proven(task[t]) /\ Consistent(task[t])
  BY HistoryFacts
<1>2. /\ row \in Attempt /\ row.n = task[t].attempt /\ row.outcome = o
      /\ r.attempts = Append(task[t].attempts, row)
  BY <1>1, EndedAttempt
<1> HIDE DEF row
<1>3. SoundRow(row)
  BY <1>2 DEF SoundRow
<1>4. ~Closed(task[t])
  BY <1>1 DEF Consistent, Closed
<1>5. /\ Proven(r) /\ r.pool = task[t].pool /\ r.deps = task[t].deps /\ r.pr = task[t].pr
      /\ MergeKept(task[t], r)
  BY <1>1 DEF Aside, Proven, MergeKept
<1> QED
  BY <1>2, <1>3, <1>4, <1>5, EndAdvance

LEMMA RefuseCommitAdvances ==
    ASSUME IInv, HInv, NEW t \in TaskIds, NEW refused \in BOOLEAN, RefuseCommit(t, refused)
    PROVE  Advances(t)
<1> DEFINE e == EndAttempt(task[t], "commit_refused")
           b == Stopped(e, "commit_refused")
           q == [b EXCEPT !.refused = refused]
<1>1. task[t] \in Task /\ Sealed(task[t]) /\ Put(t, q)
  BY HistoryFacts DEF RefuseCommit
<1>2. task[t].lease.holder # None
  BY HistoryFacts DEF RefuseCommit, AwaitsCommit, Consistent
<1>3. "commit_refused" \in Outcomes /\ "commit_refused" \in Reasons
  BY DEF Outcomes, Reasons
<1>4. /\ e \in Task /\ e.lease = NoLease /\ e.attempt = task[t].attempt /\ Aside(task[t], e)
  BY <1>1, <1>2, <1>3, EndedAttempt
<1> HIDE DEF e
<1>5. /\ b \in Task /\ b.state = "blocked" /\ b.lease = NoLease /\ b.attempts = e.attempts
      /\ b.attempt = task[t].attempt /\ b.blockAttempt = 0 /\ Aside(e, b)
  BY <1>3, <1>4, StoppedType, StoppedFields
<1> HIDE DEF b
<1>6. q \in Task
  BY <1>5 DEF Task
<1>7. /\ q.state = "blocked" /\ q.lease = NoLease /\ q.attempts = e.attempts
      /\ q.attempt = task[t].attempt /\ q.blockAttempt = 0
  BY <1>5 DEF Task
<1>8. Aside(b, q)
  BY <1>5 DEF Task, Aside
<1> HIDE DEF q
<1>9. Aside(task[t], q) /\ Requested(q)
  BY <1>4, <1>5, <1>7, <1>8, AsideChain, UnasksType
<1>10. Advance(t, q)
  BY <1>2, <1>3, <1>6, <1>7, <1>9, EndsAdvance DEF e
<1> QED
  BY <1>1, <1>6, <1>10 DEF Advances

LEMMA FailAdvances ==
    ASSUME IInv, HInv, NEW t \in TaskIds,
           (\E s \in Seats, at \in Nat : Fail(t, s, at)) \/ Release(t)
    PROVE  Advances(t)
<1>1. PICK o \in {"failed", "released"} :
        Put(t, [EndAttempt(task[t], o) EXCEPT !.state = "pending", !.report = None])
  BY DEF Fail, Release
<1> DEFINE e == EndAttempt(task[t], o)
           q == [e EXCEPT !.state = "pending", !.report = None]
<1>2. task[t].state = "in_progress"
  BY DEF Fail, Release, LiveHolder
<1>3. task[t] \in Task /\ Sealed(task[t]) /\ task[t].lease.holder # None
      /\ task[t].blockAttempt = 0 /\ o \in Outcomes
  BY <1>2, HistoryFacts, NotAsked DEF Consistent, Outcomes
<1>4. /\ e \in Task /\ e.lease = NoLease /\ e.attempt = task[t].attempt /\ Aside(task[t], e)
      /\ e.blockAttempt = 0
  BY <1>3, EndedAttempt
<1>5. Put(t, q)
  BY <1>1
<1> HIDE DEF e
<1>6. q \in Task
  BY <1>4, StatesType, ReplacedType
<1>7. /\ q.state = "pending" /\ q.lease = NoLease /\ q.attempts = e.attempts
      /\ q.attempt = task[t].attempt /\ q.blockAttempt = 0
  BY <1>4 DEF Task
<1>8. Aside(e, q)
  BY <1>4 DEF Task, Aside
<1> HIDE DEF q
<1>9. Aside(task[t], q) /\ Requested(q)
  BY <1>4, <1>7, <1>8, AsideChain, UnasksType
<1>10. Advance(t, q)
  BY <1>3, <1>6, <1>7, <1>9, EndsAdvance DEF e
<1> QED
  BY <1>5, <1>6, <1>10 DEF Advances

\* A seat's block, with a typed request of the attempt it ends or without.
LEMMA BlockHeldAdvances ==
    ASSUME IInv, HInv, NEW t \in TaskIds, NEW s \in Seats, NEW at \in Nat,
           NEW reason \in {"widen_requested", "decision"}, BlockHeld(t, s, reason, at)
    PROVE  Advances(t)
<1> DEFINE e == EndAttempt(task[t], "blocked")
           c == [e EXCEPT !.report = None]
           b == Stopped(c, reason)
           w == [b EXCEPT !.refused = TRUE, !.blockAttempt = b.attempt]
           row == AttemptRow(task[t], "blocked")
<1>1. task[t] \in Task /\ Sealed(task[t]) /\ task[t].lease.holder # None
      /\ "blocked" \in Outcomes /\ reason \in Reasons /\ task[t].attempts \in Seq(Attempt)
  BY HistoryFacts DEF BlockHeld, LiveHolder, Consistent, Outcomes, Reasons, Task
<1>2. Put(t, b) \/ Put(t, w)
  BY DEF BlockHeld
<1>3. /\ e \in Task /\ e.lease = NoLease /\ e.attempt = task[t].attempt /\ Aside(task[t], e)
      /\ row \in Attempt /\ row.outcome = "blocked"
      /\ e.attempts = Append(task[t].attempts, row)
  BY <1>1, EndedAttempt
<1> HIDE DEF e, row
<1>4. c \in Task
  BY <1>3 DEF Task
<1>5. c.lease = NoLease /\ c.attempts = e.attempts /\ c.attempt = task[t].attempt
      /\ c.report = None
  BY <1>3 DEF Task
<1>6. Aside(e, c)
  BY <1>3 DEF Task, Aside
<1> HIDE DEF c
<1>7. /\ b \in Task /\ b.state = "blocked" /\ b.lease = NoLease /\ b.attempts = e.attempts
      /\ b.attempt = task[t].attempt /\ b.blockAttempt = 0 /\ b.report = None /\ Aside(c, b)
  BY <1>1, <1>4, <1>5, StoppedType, StoppedFields
<1> HIDE DEF b
<1>8. w \in Task
  <2>1. b.attempt \in Nat
    BY <1>7 DEF Task
  <2> QED
    BY <2>1, <1>7, StatesType, TypedRequestType
<1>9. /\ w.state = "blocked" /\ w.lease = NoLease /\ w.attempts = e.attempts
      /\ w.attempt = task[t].attempt /\ w.blockAttempt = task[t].attempt
      /\ w.refused = TRUE /\ w.report = None
  BY <1>7 DEF Task
<1>10. Aside(b, w)
  BY <1>7 DEF Task, Aside
<1> HIDE DEF w
<1>11. Aside(task[t], b) /\ Aside(task[t], w)
  BY <1>3, <1>6, <1>7, <1>10, AsideChain
<1>12. Requested(b)
  BY <1>7, UnasksType
<1>13. Requested(w)
  <2>1. LastRow(w) = row
    BY <1>1, <1>3, <1>9, Appended DEF LastRow
  <2> QED
    BY <2>1, <1>3, <1>9 DEF Requested
<1>14. Advance(t, b) /\ Advance(t, w)
  BY <1>1, <1>7, <1>8, <1>9, <1>11, <1>12, <1>13, EndsAdvance DEF e
<1> QED
  BY <1>2, <1>7, <1>8, <1>14 DEF Advances

----------------------------------------------------------------------------
(* The steps of the lead *)

LEMMA CancelAdvances ==
    ASSUME IInv, HInv, NEW t \in TaskIds, Cancel(t)
    PROVE  Advances(t)
<1> DEFINE e == EndAttempt(task[t], "cancelled")
           q == [e EXCEPT !.state = "cancelled", !.report = None, !.wait = None]
<1>1. task[t] \in Task /\ Sealed(task[t]) /\ Requested(task[t]) /\ Consistent(task[t])
      /\ Put(t, q) /\ ~Closed(task[t]) /\ task[t].state # "absent"
      /\ "cancelled" \in Outcomes
  BY HistoryFacts DEF Cancel, Closed, Terminal, Exists, Outcomes
<1>2. CASE task[t].lease.holder = None
  <2>1. e = task[t]
    BY <1>2 DEF EndAttempt
  <2> HIDE DEF e
  <2>2. q \in Task
    BY <1>1, <2>1, StatesType, ReplacedType
  <2>3. /\ q.state = "cancelled" /\ q.lease = task[t].lease
        /\ q.attempts = task[t].attempts /\ q.attempt = task[t].attempt
        /\ q.blockAttempt = task[t].blockAttempt /\ q.refused = task[t].refused
        /\ q.report = None
    BY <1>1, <2>1 DEF Task
  <2>4. Aside(task[t], q)
    BY <1>1, <2>1 DEF Task, Aside
  <2> HIDE DEF q
  <2>5. Requested(q)
    BY <1>1, <2>3 DEF Requested, LastRow
  <2>6. Advance(t, q)
    BY <1>1, <2>2, <2>3, <2>4, <2>5, LocalAdvance
  <2> QED
    BY <1>1, <2>2, <2>6 DEF Advances
<1>3. CASE task[t].lease.holder # None
  <2>1. task[t].blockAttempt = 0
    BY <1>1, <1>3, NotAsked DEF Consistent
  <2>2. /\ e \in Task /\ e.lease = NoLease /\ e.attempt = task[t].attempt
        /\ Aside(task[t], e) /\ e.blockAttempt = 0
    BY <1>1, <1>3, <2>1, EndedAttempt
  <2> HIDE DEF e
  <2>3. q \in Task
    BY <2>2, StatesType, ReplacedType
  <2>4. /\ q.state = "cancelled" /\ q.lease = NoLease /\ q.attempts = e.attempts
        /\ q.attempt = task[t].attempt /\ q.blockAttempt = 0
    BY <2>2 DEF Task
  <2>5. Aside(e, q)
    BY <2>2 DEF Task, Aside
  <2> HIDE DEF q
  <2>6. Aside(task[t], q) /\ Requested(q)
    BY <2>2, <2>4, <2>5, AsideChain, UnasksType
  <2>7. Advance(t, q)
    BY <1>1, <1>3, <2>3, <2>4, <2>6, EndsAdvance DEF e
  <2> QED
    BY <1>1, <2>3, <2>7 DEF Advances
<1> QED
  BY <1>2, <1>3

LEMMA AddAdvances ==
    ASSUME IInv, HInv, NEW t \in TaskIds, Add(t)
    PROVE  Advances(t)
<1>1. PICK class \in Classes, deps \in SUBSET {d \in TaskIds : Exists(d)},
           files \in SUBSET Paths, p \in Pools \cup {None} :
           Put(t, [AbsentTask EXCEPT !.state = "pending", !.class = class,
                                     !.deps = deps, !.files = files, !.pool = p])
  BY DEF Add
<1> DEFINE r == [AbsentTask EXCEPT !.state = "pending", !.class = class,
                                   !.deps = deps, !.files = files, !.pool = p]
<1>2. r \in Task
  BY AbsentTaskType DEF Task, States
<1>3. r.state = "pending" /\ r.lease = NoLease /\ r.attempt = 0 /\ r.attempts = <<>>
      /\ r.blockAttempt = 0 /\ r.pr = None /\ r.mergeCommit = None
  BY AbsentTaskType DEF AbsentTask, Task
<1>4. Put(t, r)
  BY <1>1
<1> HIDE DEF r
<1>5. /\ History(task[t]) /\ task[t] \in Task /\ task[t].state = "absent"
  BY HistoryFacts DEF Add, Exists
<1>6. task[t].attempt = 0 /\ task[t].attempts = <<>> /\ task[t].pr = None
  BY <1>5 DEF History, Fresh
<1>7. r.lease.holder = None /\ ~HasVerdict(r)
  BY <1>3, NoLeaseType DEF HasVerdict, NoLease, NoVerdict
<1>8. Len(r.attempts) = 0
  BY <1>3
<1>9. Accounted(r) /\ SoundRows(r)
  BY <1>3, <1>7, <1>8 DEF Accounted, SoundRows
<1>10. History(r)
  BY <1>3, <1>7, <1>9 DEF History, Requested, Sealed, Proven, Fresh
<1>11. Final(task[t], r) /\ Honoured(task[t], r)
  BY <1>3, <1>5, <1>6, <1>7, <1>8 DEF Final, Honoured, Closed
<1>12. PoolKept(task[t], r) /\ Passed(task[t], r) /\ Linked(t, r)
  BY <1>3, <1>5, <1>6 DEF PoolKept, Passed, Linked, MergeKept, History, Proven
<1>13. Advance(t, r)
  BY <1>10, <1>11, <1>12 DEF Advance
<1> QED
  BY <1>2, <1>4, <1>13 DEF Advances

LEMMA BlockPendingAdvances ==
    ASSUME IInv, HInv, NEW t \in TaskIds, BlockPending(t)
    PROVE  Advances(t)
<1> DEFINE b == Stopped(task[t], "decision")
<1>1. task[t] \in Task /\ ~Closed(task[t]) /\ task[t].state # "absent" /\ Put(t, b)
      /\ "decision" \in Reasons
  BY HistoryFacts DEF BlockPending, Closed, Reasons
<1>2. /\ b \in Task /\ b.state = "blocked" /\ b.lease = task[t].lease
      /\ b.attempts = task[t].attempts /\ b.attempt = task[t].attempt
      /\ b.blockAttempt = 0 /\ Aside(task[t], b)
  BY <1>1, StoppedType, StoppedFields
<1> HIDE DEF b
<1>3. Advance(t, b)
  BY <1>1, <1>2, UnasksType, LocalAdvance
<1> QED
  BY <1>1, <1>2, <1>3 DEF Advances

LEMMA SetWaitAdvances ==
    ASSUME IInv, HInv, NEW t \in TaskIds, NEW w \in WaitReasons \cup {None}, SetWait(t, w)
    PROVE  Advances(t)
<1> DEFINE q == [task[t] EXCEPT !.wait = w]
<1>1. /\ task[t] \in Task /\ task[t].state = "pending" /\ ~Closed(task[t])
      /\ task[t].blockAttempt = 0 /\ Put(t, q)
  BY HistoryFacts, NotAsked DEF SetWait, Closed
<1>2. q \in Task
  BY <1>1 DEF Task
<1>3. /\ q.state = "pending" /\ q.lease = task[t].lease /\ q.attempts = task[t].attempts
      /\ q.attempt = task[t].attempt /\ q.blockAttempt = 0
  BY <1>1 DEF Task
<1>4. Aside(task[t], q)
  BY <1>1 DEF Task, Aside
<1> HIDE DEF q
<1>5. Advance(t, q)
  BY <1>1, <1>2, <1>3, <1>4, UnasksType, LocalAdvance
<1> QED
  BY <1>1, <1>2, <1>5 DEF Advances

\* Only a pool changes beside what LocalAdvance allows.
LEMMA PoolAdvance ==
    ASSUME IInv, HInv, NEW t \in TaskIds, NEW r \in Task,
           r.attempt = task[t].attempt, r.attempts = task[t].attempts,
           r.lease = task[t].lease, ~Closed(task[t]), r.state # "completed",
           r.state # "absent", task[t].state # "absent", Requested(r),
           PoolKept(task[t], r), r.deps = task[t].deps, r.pr = task[t].pr,
           r.head = task[t].head, r.mergeHead = task[t].mergeHead,
           r.mergeCommit = task[t].mergeCommit
    PROVE  Advance(t, r)
<1>1. /\ History(task[t])
      /\ task[t].lease.expiresAt \in Int /\ task[t].lease.renewedAt \in Int
  BY HistoryFacts
<1>2. Sealed(r) /\ Proven(r) /\ MergeKept(task[t], r)
  BY <1>1 DEF History, Sealed, Proven, HasVerdict, VerdictInvalid, MergeKept
<1>3. /\ r.lease.expiresAt >= task[t].lease.expiresAt
      /\ r.lease.renewedAt >= task[t].lease.renewedAt
  BY <1>1
<1> QED
  BY <1>2, <1>3, QuietAdvance

LEMMA ResetAdvances ==
    ASSUME IInv, HInv, NEW t \in TaskIds, NEW p \in Pools \cup {None}, Reset(t, p)
    PROVE  Advances(t)
<1> DEFINE u == Unstopped(task[t])
           pool == OrElse(p, u.pool)
           q == [u EXCEPT !.state = "pending", !.report = None, !.pool = pool]
<1>1. task[t] \in Task /\ task[t].state = "blocked" /\ ~Closed(task[t]) /\ Put(t, q)
  BY HistoryFacts DEF Reset, Closed
<1>2. /\ u \in Task /\ u.lease = task[t].lease /\ u.attempts = task[t].attempts
      /\ u.attempt = task[t].attempt /\ u.blockAttempt = 0 /\ Aside(task[t], u)
  BY <1>1, UnstoppedType, UnstoppedFields
<1> HIDE DEF u
<1>3. pool \in Pools \cup {None}
  BY <1>2, OrElseType DEF Task
<1> HIDE DEF pool
<1>4. q \in Task
  BY <1>2, <1>3, StatesType, ReplacedType
<1>5. /\ q.state = "pending" /\ q.lease = u.lease /\ q.attempts = u.attempts
      /\ q.attempt = u.attempt /\ q.blockAttempt = u.blockAttempt
  BY <1>2 DEF Task
<1>6. /\ q.deps = u.deps /\ q.pr = u.pr /\ q.head = u.head
      /\ q.mergeHead = u.mergeHead /\ q.mergeCommit = u.mergeCommit
  BY <1>2 DEF Task
<1> HIDE DEF q
<1>7. /\ q.deps = task[t].deps /\ q.pr = task[t].pr /\ q.head = task[t].head
      /\ q.mergeHead = task[t].mergeHead /\ q.mergeCommit = task[t].mergeCommit
  BY <1>2, <1>6 DEF Aside
<1>8. PoolKept(task[t], q)
  BY <1>1, <1>5 DEF PoolKept
<1>9. Requested(q)
  BY <1>2, <1>5, UnasksType
<1>10. Advance(t, q)
  BY <1>1, <1>2, <1>4, <1>5, <1>7, <1>8, <1>9, PoolAdvance
<1> QED
  BY <1>1, <1>4, <1>10 DEF Advances

LEMMA SetPoolAdvances ==
    ASSUME IInv, HInv, NEW t \in TaskIds, NEW p \in Pools, SetPool(t, p)
    PROVE  Advances(t)
<1> DEFINE q == [task[t] EXCEPT !.pool = p]
<1>1. /\ task[t] \in Task /\ Requested(task[t]) /\ task[t].attempt = 0 /\ ~Closed(task[t])
      /\ task[t].state # "absent" /\ Put(t, q)
  BY HistoryFacts DEF SetPool, Closed, Terminal, Exists
<1>2. q \in Task
  BY <1>1 DEF Task
<1>3. /\ q.state = task[t].state /\ q.lease = task[t].lease
      /\ q.attempts = task[t].attempts /\ q.attempt = task[t].attempt
      /\ q.blockAttempt = task[t].blockAttempt /\ q.refused = task[t].refused
      /\ q.report = task[t].report
  BY <1>1 DEF Task
<1>4. /\ q.deps = task[t].deps /\ q.pr = task[t].pr /\ q.head = task[t].head
      /\ q.mergeHead = task[t].mergeHead /\ q.mergeCommit = task[t].mergeCommit
  BY <1>1 DEF Task
<1> HIDE DEF q
<1>5. Requested(q) /\ PoolKept(task[t], q)
  BY <1>1, <1>3 DEF Requested, LastRow, PoolKept
<1>6. q.state # "completed"
  BY <1>1, <1>3 DEF Closed
<1>7. Advance(t, q)
  BY <1>1, <1>2, <1>3, <1>4, <1>5, <1>6, PoolAdvance
<1> QED
  BY <1>1, <1>2, <1>7 DEF Advances

LEMMA EscalateAdvances ==
    ASSUME IInv, HInv, NEW t \in TaskIds, Escalate(t)
    PROVE  Advances(t)
<1> DEFINE b == Stopped(task[t], "growth_gate_required")
           w == [b EXCEPT !.refused = TRUE, !.blockAttempt = task[t].blockAttempt]
<1>1. /\ task[t] \in Task /\ Requested(task[t]) /\ task[t].state = "blocked"
      /\ ~Closed(task[t]) /\ task[t].blockAttempt \in Nat
      /\ "growth_gate_required" \in Reasons
  BY HistoryFacts DEF Escalate, Closed, Task, Reasons
<1>2. Put(t, b) \/ (Put(t, w) /\ task[t].report = None)
  BY DEF Escalate
<1>3. /\ b \in Task /\ b.state = "blocked" /\ b.lease = task[t].lease
      /\ b.attempts = task[t].attempts /\ b.attempt = task[t].attempt
      /\ b.blockAttempt = 0 /\ b.report = task[t].report /\ Aside(task[t], b)
  BY <1>1, StoppedType, StoppedFields
<1> HIDE DEF b
<1>4. w \in Task
  BY <1>1, <1>3, StatesType, TypedRequestType
<1>5. /\ w.state = "blocked" /\ w.lease = task[t].lease /\ w.attempts = task[t].attempts
      /\ w.attempt = task[t].attempt /\ w.blockAttempt = task[t].blockAttempt
      /\ w.refused = TRUE /\ w.report = task[t].report
  BY <1>1, <1>3 DEF Task
<1>6. Aside(b, w)
  BY <1>3 DEF Task, Aside
<1> HIDE DEF w
<1>7. Aside(task[t], w)
  BY <1>3, <1>6, AsideChain
<1>8. Requested(b)
  BY <1>3, UnasksType
<1>9. task[t].report = None => Requested(w)
  BY <1>1, <1>5 DEF Requested, LastRow
<1>10. Advance(t, b) /\ (task[t].report = None => Advance(t, w))
  BY <1>1, <1>3, <1>4, <1>5, <1>7, <1>8, <1>9, LocalAdvance
<1> QED
  BY <1>2, <1>3, <1>4, <1>10 DEF Advances

LEMMA WidenedFields ==
    ASSUME NEW r \in Task, NEW added \in SUBSET Paths
    PROVE  LET w == [r EXCEPT !.files = @ \cup added]
           IN  w.refused = r.refused /\ w.blockAttempt = r.blockAttempt /\ Aside(r, w)
<1>1. /\ [r EXCEPT !.files = @ \cup added].refused = r.refused
      /\ [r EXCEPT !.files = @ \cup added].blockAttempt = r.blockAttempt
  BY DEF Task
<1>2. Aside(r, [r EXCEPT !.files = @ \cup added])
  BY DEF Task, Aside
<1> QED
  BY <1>1, <1>2

LEMMA ReArmedFields ==
    ASSUME NEW r \in Task, r.report \in Seats, NEW at \in Nat
    PROVE  LET a == ReArmed(r, at)
           IN  /\ a.attempt = r.attempt + 1 /\ a.attempts = r.attempts
               /\ a.blockAttempt = 0 /\ a.lease.verdict.result = "none" /\ Aside(r, a)
<1> DEFINE u == Unstopped(r)
           n == u.attempt + 1
           l == Extended(NewLease(r.report, at), at)
           q == [u EXCEPT !.state = "in_progress", !.attempt = n, !.lease = l]
<1>1. /\ u \in Task /\ u.attempt = r.attempt /\ u.attempts = r.attempts
      /\ u.blockAttempt = 0 /\ Aside(r, u)
  BY UnstoppedType, UnstoppedFields
<1>2. ReArmed(r, at) = q
  BY DEF ReArmed
<1>3. l.verdict.result = "none"
  BY NewLeaseType, NewLeaseFields, ExtendedFields
<1>4. n = r.attempt + 1
  BY <1>1
<1> HIDE DEF u, n, l
<1>5. /\ q.attempt = n /\ q.attempts = u.attempts /\ q.lease = l
      /\ q.blockAttempt = u.blockAttempt
  BY <1>1 DEF Task
<1>6. Aside(u, q)
  BY <1>1 DEF Task, Aside
<1> HIDE DEF q
<1> QED
  BY <1>1, <1>2, <1>3, <1>4, <1>5, <1>6, AsideChain

LEMMA WidenGatedAdvances ==
    ASSUME IInv, HInv, NEW t \in TaskIds, NEW actor, NEW added \in SUBSET Paths, NEW at \in Nat,
           WidenGated(t, actor, added, at)
    PROVE  Advances(t)
<1> DEFINE w == Widened(t, added)
           a == ReArmed(w, at)
           u == Unstopped(w)
           p == [u EXCEPT !.state = "pending", !.wait = None]
<1>1. task[t] \in Task /\ Consistent(task[t]) /\ Requested(task[t]) /\ Accounted(task[t])
      /\ ~Closed(task[t]) /\ task[t].state # "absent"
  BY HistoryFacts DEF WidenGated, CanWiden, Exists, Terminal, Closed
<1>2. /\ w \in Task /\ w.state = task[t].state /\ w.report = task[t].report
      /\ w.lease = task[t].lease /\ w.attempts = task[t].attempts
      /\ w.attempt = task[t].attempt /\ w.refused = task[t].refused
      /\ w.blockAttempt = task[t].blockAttempt /\ Aside(task[t], w)
  BY <1>1, WidenedType, WidenedFields DEF Widened
<1>3. \/ Reserved(t) /\ Put(t, a)
      \/ TypedRequest(t) /\ Put(t, p)
      \/ Put(t, w)
  BY DEF WidenGated
<1> HIDE DEF w
<1>4. CASE Reserved(t) /\ Put(t, a)
  <2>1. /\ task[t].state = "blocked" /\ task[t].report \in Seats
        /\ task[t].lease.holder = None
    BY <1>1, <1>4 DEF Reserved, Kept, Consistent, Task
  <2>2. task[t].attempt > 0
    BY <1>1, <2>1, NoneAssumption DEF Consistent, Accounted, Task
  <2>3. /\ a \in Task /\ a.state = "in_progress" /\ a.lease.holder = task[t].report
        /\ a.attempt = task[t].attempt + 1 /\ a.attempts = task[t].attempts
        /\ a.blockAttempt = 0 /\ a.lease.verdict.result = "none" /\ Aside(w, a)
    BY <1>2, <2>1, ReArmedType, ReArmedFields
  <2> HIDE DEF a
  <2>4. Aside(task[t], a)
    BY <1>2, <2>3, AsideChain
  <2>5. /\ a.deps = task[t].deps /\ a.pr = task[t].pr /\ a.head = task[t].head
        /\ a.mergeHead = task[t].mergeHead /\ a.mergeCommit = task[t].mergeCommit
        /\ PoolKept(task[t], a)
    BY <2>4 DEF Aside, PoolKept
  <2>6. a.lease.holder # None
    BY <2>1, <2>3, NoneAssumption
  <2>7. Advance(t, a)
    BY <1>1, <2>1, <2>2, <2>3, <2>5, <2>6, StartAdvance
  <2> QED
    BY <1>4, <2>3, <2>7 DEF Advances
<1>5. CASE TypedRequest(t) /\ Put(t, p)
  <2>1. /\ u \in Task /\ u.lease = task[t].lease /\ u.attempts = task[t].attempts
        /\ u.attempt = task[t].attempt /\ u.blockAttempt = 0 /\ Aside(w, u)
    BY <1>2, UnstoppedType, UnstoppedFields
  <2> HIDE DEF u
  <2>2. p \in Task
    BY <2>1, PendingType
  <2>3. /\ p.state = "pending" /\ p.lease = task[t].lease /\ p.attempts = task[t].attempts
        /\ p.attempt = task[t].attempt /\ p.blockAttempt = 0
    BY <2>1 DEF Task
  <2>4. Aside(u, p)
    BY <2>1 DEF Task, Aside
  <2> HIDE DEF p
  <2>5. Aside(task[t], p) /\ Requested(p)
    BY <1>2, <2>1, <2>3, <2>4, AsideChain, UnasksType
  <2>6. Advance(t, p)
    BY <1>1, <2>2, <2>3, <2>5, LocalAdvance
  <2> QED
    BY <1>5, <2>2, <2>6 DEF Advances
<1>6. CASE Put(t, w)
  <2>1. Requested(w)
    BY <1>1, <1>2 DEF Requested, LastRow
  <2>2. w.state # "completed"
    BY <1>1, <1>2 DEF Closed
  <2>3. Advance(t, w)
    BY <1>1, <1>2, <2>1, <2>2, LocalAdvance
  <2> QED
    BY <1>2, <1>6, <2>3 DEF Advances
<1> QED
  BY <1>3, <1>4, <1>5, <1>6

----------------------------------------------------------------------------
(* The steps of the harness, and expiry *)

\* Only the lease's snapshot, command and verdict change.
LEMMA SealAdvances ==
    ASSUME IInv, HInv, NEW t \in TaskIds, task[t].state = "in_progress", NEW l \in Lease,
           l.holder = task[t].lease.holder, l.expiresAt = task[t].lease.expiresAt,
           l.renewedAt = task[t].lease.renewedAt,
           \/ l.verdict.result = "none"
           \/ /\ l.verdict.attempt = task[t].attempt
              /\ l.verdict.tree = l.snapshot /\ l.snapshot # None,
           Put(t, [task[t] EXCEPT !.lease = l])
    PROVE  Advances(t)
<1> DEFINE q == [task[t] EXCEPT !.lease = l]
<1>1. /\ task[t] \in Task /\ Proven(task[t]) /\ task[t].blockAttempt = 0
      /\ task[t].lease.expiresAt \in Int /\ task[t].lease.renewedAt \in Int
  BY HistoryFacts, NotAsked
<1>2. q \in Task
  BY <1>1 DEF Task
<1>3. /\ q.state = "in_progress" /\ q.lease = l /\ q.attempts = task[t].attempts
      /\ q.attempt = task[t].attempt /\ q.blockAttempt = 0
  BY <1>1 DEF Task
<1>4. Aside(task[t], q)
  BY <1>1 DEF Task, Aside
<1>5. Put(t, q)
  OBVIOUS
<1> HIDE DEF q
<1>6. Sealed(q)
  BY <1>3 DEF Sealed, HasVerdict, VerdictInvalid
<1>7. /\ Proven(q) /\ PoolKept(task[t], q) /\ MergeKept(task[t], q)
      /\ q.deps = task[t].deps /\ q.pr = task[t].pr
  BY <1>1, <1>4 DEF Aside, Proven, PoolKept, MergeKept
<1>8. /\ q.lease.expiresAt >= task[t].lease.expiresAt
      /\ q.lease.renewedAt >= task[t].lease.renewedAt
  BY <1>1, <1>3
<1>9. Advance(t, q)
  BY <1>2, <1>3, <1>6, <1>7, <1>8, UnasksType, QuietAdvance DEF Closed
<1> QED
  BY <1>2, <1>5, <1>9 DEF Advances

LEMMA SnapshotAdvances ==
    ASSUME IInv, HInv, NEW t \in TaskIds, NEW tree \in Trees, NEW command \in Commands,
           RecordSnapshot(t, tree, command)
    PROVE  Advances(t)
<1> DEFINE o == OnlySound(task[t])
           l == [o EXCEPT !.snapshot = tree, !.command = command]
<1>1. /\ task[t] \in Task /\ task[t].lease \in Lease /\ task[t].state = "in_progress"
      /\ Put(t, [task[t] EXCEPT !.lease = l])
      /\ SoundVerdict(task[t]) => task[t].lease.verdict.tree = tree
  BY HistoryFacts DEF RecordSnapshot
<1>2. o \in Lease
  BY <1>1, OnlySoundType
<1>3. /\ o.holder = task[t].lease.holder /\ o.expiresAt = task[t].lease.expiresAt
      /\ o.renewedAt = task[t].lease.renewedAt
      /\ o.verdict = IF SoundVerdict(task[t]) THEN task[t].lease.verdict ELSE NoVerdict
  BY <1>1 DEF OnlySound, Lease
<1> HIDE DEF o
<1>4. /\ l \in Lease /\ l.holder = o.holder /\ l.expiresAt = o.expiresAt
      /\ l.renewedAt = o.renewedAt /\ l.verdict = o.verdict /\ l.snapshot = tree
  BY <1>2 DEF Lease
<1> HIDE DEF l
<1>5. SoundVerdict(task[t]) => task[t].lease.verdict.attempt = task[t].attempt
  BY DEF SoundVerdict, VerdictInvalid
<1>6. NoVerdict.result = "none" /\ tree # None
  BY NoneAssumption DEF NoVerdict
<1>7. \/ l.verdict.result = "none"
      \/ /\ l.verdict.attempt = task[t].attempt
         /\ l.verdict.tree = l.snapshot /\ l.snapshot # None
  BY <1>1, <1>3, <1>4, <1>5, <1>6
<1>8. /\ l \in Lease /\ l.holder = task[t].lease.holder
      /\ l.expiresAt = task[t].lease.expiresAt /\ l.renewedAt = task[t].lease.renewedAt
  BY <1>3, <1>4
<1> QED
  BY <1>1, <1>7, <1>8, SealAdvances

LEMMA VerdictAdvances ==
    ASSUME IInv, HInv, NEW t \in TaskIds, NEW result \in {"pass", "fail"}, RecordVerdict(t, result)
    PROVE  Advances(t)
<1> DEFINE v == [attempt |-> task[t].attempt, tree |-> task[t].lease.snapshot,
                 command |-> task[t].lease.command, result |-> result]
           l == [task[t].lease EXCEPT !.verdict = v]
<1>1. /\ task[t] \in Task /\ task[t].lease \in Lease /\ task[t].state = "in_progress"
      /\ task[t].lease.snapshot # None /\ Put(t, [task[t] EXCEPT !.lease = l])
      /\ task[t].attempt \in Nat
  BY HistoryFacts DEF RecordVerdict, Task
<1>2. v \in Verdict /\ v.attempt = task[t].attempt /\ v.tree = task[t].lease.snapshot
  BY <1>1 DEF Lease, Verdict
<1> HIDE DEF v
<1>3. /\ l \in Lease /\ l.holder = task[t].lease.holder
      /\ l.expiresAt = task[t].lease.expiresAt /\ l.renewedAt = task[t].lease.renewedAt
      /\ l.verdict = v /\ l.snapshot = task[t].lease.snapshot
  BY <1>1, <1>2 DEF Lease
<1> HIDE DEF l
<1> QED
  BY <1>1, <1>2, <1>3, SealAdvances

\* Only the binding or its merge changes.
LEMMA BindingAdvances ==
    ASSUME IInv, HInv, NEW t \in TaskIds, task[t].state # "absent", NEW b \in Task,
           b.attempt = task[t].attempt, b.attempts = task[t].attempts,
           b.lease = task[t].lease, b.state = task[t].state, b.report = task[t].report,
           b.refused = task[t].refused, b.blockAttempt = task[t].blockAttempt,
           b.pool = task[t].pool, b.deps = task[t].deps, Proven(b), b.pr # None,
           MergeKept(task[t], b),
           b.pr # task[t].pr => PRFree(t, b.pr), Put(t, b)
    PROVE  Advances(t)
<1>1. /\ Requested(task[t]) /\ Sealed(task[t])
      /\ task[t].lease.expiresAt \in Int /\ task[t].lease.renewedAt \in Int
  BY HistoryFacts
<1>2. Requested(b)
  BY <1>1 DEF Requested, LastRow
<1>3. Sealed(b) /\ PoolKept(task[t], b)
  BY <1>1 DEF Sealed, HasVerdict, VerdictInvalid, PoolKept
<1>4. /\ b.lease.expiresAt >= task[t].lease.expiresAt
      /\ b.lease.renewedAt >= task[t].lease.renewedAt
  BY <1>1
<1>5. Advance(t, b)
  BY <1>2, <1>3, <1>4, QuietAdvance
<1> QED
  BY <1>5 DEF Advances

LEMMA BindPRAdvances ==
    ASSUME IInv, HInv, NEW t \in TaskIds, NEW p \in PRs, NEW h \in Heads, BindPR(t, p, h)
    PROVE  Advances(t)
<1> DEFINE b == Bound(task[t], p, h)
<1>1. task[t] \in Task /\ Proven(task[t]) /\ task[t].state # "absent"
      /\ PRFree(t, p) /\ p # None /\ Put(t, b)
  BY HistoryFacts, NoneAssumption DEF BindPR, Exists
<1>2. /\ b \in Task /\ b.attempt = task[t].attempt /\ b.attempts = task[t].attempts
      /\ b.lease = task[t].lease /\ b.state = task[t].state /\ b.report = task[t].report
      /\ b.refused = task[t].refused /\ b.blockAttempt = task[t].blockAttempt
      /\ b.pool = task[t].pool /\ b.deps = task[t].deps /\ b.pr = p /\ Proven(b)
      /\ MergeKept(task[t], b)
  BY <1>1, BoundFields
<1> HIDE DEF b
<1> QED
  BY <1>1, <1>2, BindingAdvances

LEMMA RecordPRMergeAdvances ==
    ASSUME IInv, HInv, NEW t \in TaskIds, NEW p \in PRs, NEW h \in Heads, NEW c \in MergeCommits,
           RecordPRMerge(t, p, h, c)
    PROVE  Advances(t)
<1> DEFINE q == [task[t] EXCEPT !.mergeHead = h, !.mergeCommit = c]
<1>1. task[t] \in Task /\ task[t].state # "absent" /\ Put(t, q)
      /\ task[t].pr = p /\ task[t].head = h /\ p # None
  BY HistoryFacts, NoneAssumption DEF RecordPRMerge, Exists
<1>2. q \in Task
  BY <1>1 DEF Task
<1>3. /\ q.attempt = task[t].attempt /\ q.attempts = task[t].attempts
      /\ q.lease = task[t].lease /\ q.state = task[t].state /\ q.report = task[t].report
      /\ q.refused = task[t].refused /\ q.blockAttempt = task[t].blockAttempt
      /\ q.pool = task[t].pool /\ q.deps = task[t].deps
  BY <1>1 DEF Task
<1>4. /\ q.pr = task[t].pr /\ q.head = task[t].head
      /\ q.mergeHead = h /\ q.mergeCommit = c
  BY <1>1 DEF Task
<1> HIDE DEF q
<1>5. Proven(q) /\ MergeKept(task[t], q)
  BY <1>1, <1>4, NoneAssumption DEF Proven, MergeKept
<1> QED
  BY <1>1, <1>2, <1>3, <1>4, <1>5, BindingAdvances

\* A task that is due ends its attempt; the others stay.
LEMMA SameAdvance ==
    ASSUME IInv, HInv, NEW t \in TaskIds
    PROVE  Advance(t, task[t])
<1>1. /\ History(task[t]) /\ task[t].attempts \in Seq(Attempt)
      /\ task[t].lease.expiresAt \in Int /\ task[t].lease.renewedAt \in Int
  BY HistoryFacts DEF Task
<1>2. Final(task[t], task[t]) /\ Honoured(task[t], task[t])
  BY <1>1 DEF Final, Honoured
<1>3. PoolKept(task[t], task[t]) /\ Passed(task[t], task[t]) /\ Linked(t, task[t])
  BY DEF PoolKept, Passed, Linked, MergeKept, Closed
<1> QED
  BY <1>1, <1>2, <1>3 DEF Advance

LEMMA ExpireDueAdvances ==
    ASSUME IInv, HInv, NEW at \in Nat, ExpireDue(at), NEW t \in TaskIds
    PROVE  Advance(t, task'[t]) /\ task'[t].pr = task[t].pr
<1> DEFINE o == IF task[t].lease.claimed THEN "expired" ELSE "unclaimed"
           e == EndAttempt(task[t], o)
           q == [e EXCEPT !.state = "pending"]
<1>1. task'[t] = IF Due(t, at) THEN q ELSE task[t]
  BY DEF ExpireDue
<1>2. CASE ~Due(t, at)
  BY <1>1, <1>2, SameAdvance
<1>3. CASE Due(t, at)
  <2>1. /\ task[t] \in Task /\ Sealed(task[t]) /\ task[t].lease.holder # None
        /\ task[t].report = None /\ task[t].blockAttempt = 0
    BY <1>3, HistoryFacts, NotAsked DEF Due, Leased
  <2>2. o \in Outcomes /\ o # "completed"
    BY DEF Outcomes
  <2> HIDE DEF o
  <2>3. /\ e \in Task /\ e.lease = NoLease /\ e.attempt = task[t].attempt
        /\ Aside(task[t], e) /\ e.blockAttempt = 0
    BY <2>1, <2>2, EndedAttempt
  <2> HIDE DEF e
  <2>4. q \in Task
    BY <2>3 DEF Task, States
  <2>5. /\ q.state = "pending" /\ q.lease = NoLease /\ q.attempts = e.attempts
        /\ q.attempt = task[t].attempt /\ q.blockAttempt = 0
    BY <2>3 DEF Task
  <2>6. Aside(e, q)
    BY <2>3 DEF Task, Aside
  <2>7. task'[t] = q
    BY <1>1, <1>3
  <2> HIDE DEF q
  <2>8. Aside(task[t], q) /\ Requested(q)
    BY <2>3, <2>5, <2>6, AsideChain, UnasksType
  <2>9. Advance(t, q)
    BY <2>1, <2>2, <2>4, <2>5, <2>8, EndsAdvance DEF e
  <2> QED
    BY <2>7, <2>8, <2>9 DEF Aside
<1> QED
  BY <1>2, <1>3

----------------------------------------------------------------------------
(* Every step advances every task. *)

\* What holds of a step: at most one task changes its pull request.
Progresses ==
    /\ \A t \in TaskIds : Advance(t, task'[t])
    /\ \E t \in TaskIds : \A u \in TaskIds \ {t} : task'[u].pr = task[u].pr

LEMMA StepAdvances ==
    ASSUME IInv, HInv, NEW t \in TaskIds,
           \/ \E s \in Seats, at \in Stamps : SeatStep(t, s, at)
           \/ \E at \in Stamps : LeadStep(t, at)
           \/ HarnessStep(t)
    PROVE  Advances(t)
<1>1. Stamps \subseteq Nat
  BY DEF IInv, TypeOK, Stamps
<1>2. ASSUME NEW s \in Seats, NEW at \in Stamps, SeatStep(t, s, at)
      PROVE  Advances(t)
  <2>1. at \in Nat
    BY <1>1
  <2>2. ASSUME NEW p \in Pools \cup {None}, Grant(t, s, p, at) \/ ClaimPending(t, s, p, at)
        PROVE  Advances(t)
    BY <2>1, <2>2, GrantAdvances
  <2>3. ASSUME ClaimHeld(t, s, at) \/ Renew(t, s, at)  PROVE Advances(t)
    BY <2>1, <2>3, ClaimHeldAdvances
  <2>4. ASSUME Done(t, s, at)  PROVE Advances(t)
    BY <2>1, <2>4, DoneAdvances
  <2>5. ASSUME Fail(t, s, at)  PROVE Advances(t)
    BY <2>1, <2>5, FailAdvances
  <2>6. ASSUME NEW reason \in {"widen_requested", "decision"}, BlockHeld(t, s, reason, at)
        PROVE  Advances(t)
    BY <2>1, <2>6, BlockHeldAdvances
  <2> QED
    BY <1>2, <2>2, <2>3, <2>4, <2>5, <2>6 DEF SeatStep
<1>3. ASSUME NEW at \in Stamps, LeadStep(t, at)
      PROVE  Advances(t)
  <2>1. at \in Nat
    BY <1>1
  <2>2. ASSUME Add(t)  PROVE Advances(t)
    BY <2>2, AddAdvances
  <2>3. ASSUME BlockPending(t)  PROVE Advances(t)
    BY <2>3, BlockPendingAdvances
  <2>4. ASSUME Release(t)  PROVE Advances(t)
    BY <2>4, FailAdvances
  <2>5. ASSUME NEW p \in Pools \cup {None}, Reset(t, p)  PROVE Advances(t)
    BY <2>5, ResetAdvances
  <2>6. ASSUME NEW p \in Pools, SetPool(t, p)  PROVE Advances(t)
    BY <2>6, SetPoolAdvances
  <2>7. ASSUME Cancel(t)  PROVE Advances(t)
    BY <2>7, CancelAdvances
  <2>8. ASSUME NEW w \in WaitReasons \cup {None}, SetWait(t, w)  PROVE Advances(t)
    BY <2>8, SetWaitAdvances
  <2>9. ASSUME NEW actor \in Seats \cup {Lead}, NEW added \in SUBSET Paths,
               WidenGated(t, actor, added, at)
        PROVE  Advances(t)
    BY <2>1, <2>9, WidenGatedAdvances
  <2>10. ASSUME Escalate(t)  PROVE Advances(t)
    BY <2>10, EscalateAdvances
  <2> QED
    BY <1>3, <2>2, <2>3, <2>4, <2>5, <2>6, <2>7, <2>8, <2>9, <2>10 DEF LeadStep
<1>4. ASSUME HarnessStep(t)
      PROVE  Advances(t)
  <2>1. ASSUME Complete(t)  PROVE Advances(t)
    BY <2>1, CompleteAdvances
  <2>2. ASSUME NEW p \in PRs, NEW h \in Heads, CompleteBound(t, p, h)  PROVE Advances(t)
    BY <2>2, CompleteBoundAdvances
  <2>3. ASSUME NEW p \in PRs, NEW h \in Heads, BindPR(t, p, h)  PROVE Advances(t)
    BY <2>3, BindPRAdvances
  <2>4. ASSUME NEW p \in PRs, NEW h \in Heads, NEW c \in MergeCommits,
               RecordPRMerge(t, p, h, c)
        PROVE  Advances(t)
    BY <2>4, RecordPRMergeAdvances
  <2>5. ASSUME NEW refused \in BOOLEAN, RefuseCommit(t, refused)  PROVE Advances(t)
    BY <2>5, RefuseCommitAdvances
  <2>6. ASSUME NEW tree \in Trees, NEW command \in Commands, RecordSnapshot(t, tree, command)
        PROVE  Advances(t)
    BY <2>6, SnapshotAdvances
  <2>7. ASSUME NEW result \in {"pass", "fail"}, RecordVerdict(t, result)  PROVE Advances(t)
    BY <2>7, VerdictAdvances
  <2> QED
    BY <1>4, <2>1, <2>2, <2>3, <2>4, <2>5, <2>6, <2>7 DEF HarnessStep
<1> QED
  BY <1>2, <1>3, <1>4

LEMMA AdvancesProgresses ==
    ASSUME IInv, HInv, NEW t \in TaskIds, Advances(t)
    PROVE  Progresses
<1>1. PICK r \in Task : Advance(t, r) /\ Put(t, r)
  BY DEF Advances
<1>2. \A u \in TaskIds : task'[u] = IF u = t THEN r ELSE task[u]
  BY <1>1 DEF Put, IInv, TypeOK
<1>3. \A u \in TaskIds : Advance(u, task[u])
  BY SameAdvance
<1> QED
  BY <1>1, <1>2, <1>3 DEF Progresses

LEMMA NextProgresses ==
    ASSUME IInv, HInv, [Next]_vars, NEW o \in TaskIds
    PROVE  Progresses
<1>1. ASSUME NEW t \in TaskIds, Advances(t)  PROVE Progresses
  BY <1>1, AdvancesProgresses
<1>2. Stamps \subseteq Nat
  BY DEF IInv, TypeOK, Stamps
<1>3. ASSUME NEW t \in TaskIds, NEW s \in Seats, NEW at \in Stamps, SeatStep(t, s, at)
      PROVE  Progresses
  BY <1>1, <1>3, StepAdvances
<1>4. ASSUME NEW t \in TaskIds, NEW at \in Stamps, LeadStep(t, at)  PROVE Progresses
  BY <1>1, <1>4, StepAdvances
<1>5. ASSUME NEW t \in TaskIds, HarnessStep(t)  PROVE Progresses
  BY <1>1, <1>5, StepAdvances
<1>6. ASSUME NEW at \in Stamps, ExpireDue(at)  PROVE Progresses
  BY <1>2, <1>6, ExpireDueAdvances DEF Progresses
<1>7. ASSUME task' = task  PROVE Progresses
  BY <1>7, SameAdvance DEF Progresses
<1> QED
  BY <1>3, <1>4, <1>5, <1>6, <1>7 DEF Next, vars, ReserveSeat, ReleaseSeat, ChangeGate, Tick

----------------------------------------------------------------------------
(* The inductive invariant, and the properties *)

LEMMA InitHInv == Init => HInv
<1> SUFFICES ASSUME Init PROVE HInv
  OBVIOUS
<1>1. \A t \in TaskIds : task[t] = AbsentTask
  BY DEF Init
<1>2. /\ AbsentTask.state = "absent" /\ AbsentTask.lease = NoLease
      /\ AbsentTask.attempt = 0 /\ AbsentTask.attempts = <<>>
      /\ AbsentTask.blockAttempt = 0 /\ AbsentTask.pr = None
      /\ AbsentTask.mergeCommit = None
  BY DEF AbsentTask
<1>3. ~HasVerdict(AbsentTask) /\ AbsentTask.lease.holder = None
  BY <1>2, NoLeaseType DEF HasVerdict, NoLease, NoVerdict
<1>4. Len(AbsentTask.attempts) = 0
  BY <1>2
<1>5. History(AbsentTask)
  BY <1>2, <1>3, <1>4
     DEF History, Accounted, Requested, Sealed, SoundRows, Proven, Fresh
<1> QED
  BY <1>1, <1>2, <1>5 DEF HInv, PROneTask

LEMMA NextHInv == IInv /\ HInv /\ [Next]_vars => HInv'
<1> SUFFICES ASSUME IInv, HInv, [Next]_vars PROVE HInv'
  OBVIOUS
<1>1. \A t \in TaskIds : Progresses
  BY NextProgresses
<1>2. \A t \in TaskIds : Advance(t, task'[t]) /\ Linked(t, task'[t]) /\ History(task'[t])
  BY <1>1 DEF Progresses, Advance
<1>3. PROneTask'
  <2> SUFFICES ASSUME NEW t \in TaskIds, NEW u \in TaskIds, t # u, task'[t].pr # None
               PROVE  task'[t].pr # task'[u].pr
    BY DEF PROneTask
  <2>1. task'[t].pr = task[t].pr \/ task'[u].pr = task[u].pr
    BY <1>1 DEF Progresses
  <2>2. CASE task'[t].pr = task[t].pr /\ task'[u].pr = task[u].pr
    BY <2>2 DEF HInv, PROneTask
  <2>3. CASE task'[t].pr # task[t].pr
    <3>1. PRFree(t, task'[t].pr) /\ task'[u].pr = task[u].pr
      BY <2>1, <2>3, <1>2 DEF Linked
    <3> QED
      BY <3>1 DEF PRFree
  <2>4. CASE task'[u].pr # task[u].pr
    <3>1. PRFree(u, task'[u].pr) /\ task'[t].pr = task[t].pr
      BY <2>1, <2>4, <1>2 DEF Linked
    <3> QED
      BY <3>1 DEF PRFree
  <2> QED
    BY <2>2, <2>3, <2>4
<1> QED
  BY <1>2, <1>3 DEF HInv

LEMMA HistoryInvariance == Spec => [](IInv /\ HInv)
<1>1. Init => IInv /\ HInv
  BY InitIInv, InitHInv
<1>2. IInv /\ HInv /\ [Next]_vars => (IInv /\ HInv)'
  BY NextIInv, NextHInv
<1> QED
  BY <1>1, <1>2, PTL DEF Spec

\* Every attempt of every task is numbered, ended once and accounted for, and
\* a typed request belongs to the attempt that made it.
THEOREM Attempts == Spec => []AttemptsSound
<1>1. HInv => AttemptsSound
  BY DEF HInv, History, Requested, AttemptsSound, AttemptsAccounted, WidenRequestBound
<1> QED
  BY <1>1, HistoryInvariance, PTL

\* A verdict counts for the attempt and the tree it was said of.
THEOREM Verdicts == Spec => []VerdictsSound
<1>1. HInv => VerdictsSound
  BY DEF HInv, History, Sealed, SoundRows, SoundRow,
         VerdictsSound, CompletedOnOwnVerdict, VerdictOnSnapshot
<1> QED
  BY <1>1, HistoryInvariance, PTL

\* One task per pull request, and a recorded merge is of the head bound now.
THEOREM Bindings == Spec => []BindingsSound
<1>1. HInv => BindingsSound
  BY DEF HInv, History, Proven, BindingsSound, MergeOfBoundHead
<1> QED
  BY <1>1, HistoryInvariance, PTL

\* No attempt of a pending task, and no first one, starts before its
\* dependencies are merged or, when unbound, completed; only a new pull request
\* or head takes that back.
THEOREM Dependencies == Spec => DependenciesFirst
<1> DEFINE step ==
        /\ \A t \in TaskIds :
              /\ task'[t].attempt # task[t].attempt
              /\ task[t].attempt = 0 \/ task[t].state = "pending"
              => \A d \in task[t].deps : Delivered(d)
        /\ \A d \in TaskIds :
              Delivered(d) => \/ Delivered(d)'
                              \/ task'[d].pr # task[d].pr \/ task'[d].head # task[d].head
<1>1. ASSUME IInv, HInv, [Next]_vars  PROVE step
  <2>1. \A t \in TaskIds : Progresses
    BY <1>1, NextProgresses
  <2>2. \A t \in TaskIds :
           /\ Linked(t, task'[t]) /\ Proven(task[t]) /\ Proven(task'[t])
           /\ task[t].deps \subseteq TaskIds
    BY <1>1, <2>1, HistoryFacts DEF Progresses, Advance, History, Task
  <2>3. ASSUME NEW t \in TaskIds, task'[t].attempt # task[t].attempt,
               task[t].attempt = 0 \/ task[t].state = "pending", NEW d \in task[t].deps
        PROVE  Delivered(d)
    <3>1. Settled(d) /\ Proven(task[d])
      BY <2>2, <2>3 DEF Linked, Unblocked
    <3> QED
      BY <3>1 DEF Settled, Delivered, Proven
  <2>4. ASSUME NEW d \in TaskIds, Delivered(d), task'[d].pr = task[d].pr,
               task'[d].head = task[d].head
        PROVE  Delivered(d)'
    <3>1. /\ MergeKept(task[d], task'[d]) /\ Proven(task'[d])
          /\ task[d].state = "completed" => task'[d].state = "completed"
      BY <2>2 DEF Linked
    <3> QED
      BY <2>4, <3>1 DEF Delivered, MergeKept, Proven
  <2> QED
    BY <2>3, <2>4
<1>2. IInv /\ HInv /\ [Next]_vars => [step]_vars
  BY <1>1
<1> QED
  BY <1>2, HistoryInvariance, PTL DEF DependenciesFirst, Spec

\* Completed and cancelled are final, and no row is ever rewritten.
THEOREM FinalHistory == Spec => HistoryIsFinal
<1> DEFINE step == \A t \in TaskIds :
          /\ Terminal(t) => task'[t].state = task[t].state /\ task'[t].attempts = task[t].attempts
          /\ Len(task'[t].attempts) >= Len(task[t].attempts)
          /\ \A i \in 1 .. Len(task[t].attempts) :
                task'[t].attempts[i] = task[t].attempts[i]
<1>1. IInv /\ HInv /\ [Next]_vars => step
  BY NextProgresses DEF Progresses, Advance, Final, Closed, Terminal
<1>2. IInv /\ HInv /\ [Next]_vars => [step]_vars
  BY <1>1
<1> QED
  BY <1>2, HistoryInvariance, PTL DEF HistoryIsFinal, Spec

\* A gated class completes only on the pass of its own attempt and snapshot.
THEOREM Gate == Spec => GateHolds
<1> DEFINE step == \A t \in TaskIds :
          /\ ~Terminal(t) /\ task'[t].state = "completed"
          /\ task[t].class \in Mechanical /\ gate # "none"
          => /\ LastRow(task[t])'.verdict.result = "pass"
             /\ LastRow(task[t])'.verdict.attempt = task[t].attempt
             /\ LastRow(task[t])'.verdict.tree = task[t].lease.snapshot
<1>1. IInv /\ HInv /\ [Next]_vars => step
  BY NextProgresses DEF Progresses, Advance, Passed, Closed, Terminal, VerifierRequired, LastRow
<1>2. IInv /\ HInv /\ [Next]_vars => [step]_vars
  BY <1>1
<1> QED
  BY <1>2, HistoryInvariance, PTL DEF GateHolds, Spec

\* A reported lease does not expire, the times of an attempt move forward, and
\* the pool a task was granted from stays.
THEOREM Leases == Spec => LeasesHonoured
<1> DEFINE kept == \A t \in TaskIds :
              task[t].report # None /\ Len(task'[t].attempts) > Len(task[t].attempts)
                => LastRow(task[t])'.outcome \notin {"expired", "unclaimed"}
           forward == \A t \in TaskIds :
              Leased(t) /\ Leased(t)' /\ task[t].attempt = task'[t].attempt =>
                /\ task'[t].lease.holder = task[t].lease.holder
                /\ task'[t].lease.expiresAt >= task[t].lease.expiresAt
                /\ task'[t].lease.renewedAt >= task[t].lease.renewedAt
           pinned == \A t \in TaskIds :
              task[t].attempt > 0 /\ task'[t].pool # task[t].pool =>
                <<task[t].state, task'[t].state>> \in
                    {<<"pending", "in_progress">>, <<"blocked", "pending">>}
<1>1. IInv /\ HInv /\ [Next]_vars => kept
  BY NextProgresses DEF Progresses, Advance, Honoured, LastRow
<1>2. IInv /\ HInv /\ [Next]_vars => forward
  BY NextProgresses DEF Progresses, Advance, Honoured, Leased
<1>3. IInv /\ HInv /\ [Next]_vars => pinned
  BY NextProgresses DEF Progresses, Advance, PoolKept
<1>4. IInv /\ HInv /\ [Next]_vars => [kept]_vars /\ [forward]_vars /\ [pinned]_vars
  BY <1>1, <1>2, <1>3
<1> QED
  BY <1>4, HistoryInvariance, PTL
     DEF LeasesHonoured, ReportNeverExpires, LeaseMovesForward, PoolPinned, Spec
=============================================================================
