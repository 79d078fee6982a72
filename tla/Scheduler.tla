----------------------------- MODULE Scheduler -----------------------------
(* The scheduler process of a squad with a roster (internal/scheduler and  *)
(* internal/schedproc): its tick, the commit steps it runs beside the      *)
(* tick, its queue of exit checks and the file that carries the queue      *)
(* across restarts, and the seats it launches, closes and adopts.          *)
(*                                                                         *)
(* A tick is cut where another process can step in: at each read of the    *)
(* task store, at each call that waits, at each result applied.  The tasks *)
(* are those of TaskStore, reduced to what the scheduler reads: who holds  *)
(* a task, and whether its done report waits.                              *)
EXTENDS Naturals, Sequences, FiniteSets, SequencesExt

CONSTANTS
    Seats,           \* handles of the roster's seats
    Tasks,           \* task ids
    None,            \* no seat, no task, no report
    MaxAttempts,     \* bound: leases of one task
    MaxDeferrals,    \* deferrals of a commit step before the lead decides
    MaxEach,         \* bound: deaths, faults and relaunches, of each kind
    MaxTroubles      \* bound: deaths, faults and relaunches together

ASSUME NoneIsNobody == None \notin Seats \cup Tasks
ASSUME DeferralLimit == MaxDeferrals \in Nat \ {0}
ASSUME AttemptBound == MaxAttempts \in Nat
ASSUME TroubleBound == MaxEach \in Nat /\ MaxTroubles \in Nat
ASSUME FiniteSquad == IsFiniteSet(Seats) /\ IsFiniteSet(Tasks)

VARIABLES
    task,        \* the store: [state, by, n] of each task
    ended,       \* the store: attempts that ended failed, expired, unclaimed
    alive,       \* seats whose process runs
    pc,          \* where the tick is, or "down"
    list,        \* the waiting reports the tick listed: [by, n] or NoReport
    cur,         \* the task whose commit step the tick is asking about
    holding,     \* what each seat holds in the tick's last listing
    seats,       \* Scheduler.seats: how the scheduler sees each seat
    queue,       \* Scheduler.exitQueue
    seen,        \* Scheduler.exitSeen
    loaded,      \* Scheduler.exitsLoaded
    unsaved,     \* Scheduler.exitsErr # nil
    roster,      \* "new" (not decided), "owed" a launch, "settled"
    draining,    \* Scheduler.relaunching
    jobs,        \* Committer.jobs: [by, n, result] or NoJob
    file,        \* exits.json
    checked,     \* history: attempts whose exit check was decided
    troubles     \* how often each kind of trouble happened

world == <<task, ended, alive>>
tick == <<pc, list, cur, holding>>
memory == <<seats, queue, seen, loaded, unsaved, roster, draining>>
vars == <<world, tick, memory, jobs, file, checked, troubles>>

----------------------------------------------------------------------------
(* Values *)

Usable == {"up", "mute"}     \* mute: unresponsive, let a lease lapse unclaimed
Closing == {"expired", "refused", "restart", "relaunch", "idle"}

TaskRecord ==
    [state : {"pending", "granted", "leased", "reported", "blocked", "stuck",
              "completed", "cancelled"},
     by : Seats \cup {None}, n : 0..MaxAttempts]
EndedAttempt ==
    [task : Tasks, n : 1..MaxAttempts, by : Seats,
     how : {"failed", "expired", "unclaimed"}]
Report == [by : Seats, n : 1..MaxAttempts]
NoReport == [by |-> None, n |-> 0]
NoReports == [t \in Tasks |-> NoReport]
Job == [by : Seats, n : 1..MaxAttempts,
        result : {"running", "ok", "refused", "deferred"}]
NoJob == [by |-> None, n |-> 0, result |-> "none"]
Item ==
    [seat : Seats, task : Tasks \cup {None},
     why : {"commit", "failed", "expired", "unclaimed", "gone", "restart"},
     deferrals : 0..MaxDeferrals]

Leased(t) == task[t].state \in {"granted", "leased", "reported"}
HeldBy(h) == {t \in Tasks : task[t].by = h}

\* A lease, or a refused report that waits for the lead.
Holding ==
    [h \in Seats |-> IF \E t \in HeldBy(h) : Leased(t) THEN "lease"
                     ELSE IF HeldBy(h) # {} THEN "report" ELSE "nothing"]
Nothing == [h \in Seats |-> "nothing"]

Running(t) == jobs[t].result = "running"
Busy(h) == \E t \in Tasks : Running(t) /\ jobs[t].by = h

----------------------------------------------------------------------------
(* The exits queue *)

Check(h, t, why) == [seat |-> h, task |-> t, why |-> why, deferrals |-> 0]
Same(a, b) == a.seat = b.seat /\ a.task = b.task /\ a.why = b.why
In(q, it) == \E i \in DOMAIN q : Same(q[i], it)
CommitOf(q, t) == {i \in DOMAIN q : q[i].why = "commit" /\ q[i].task = t}

\* commitPending; as a mutant of Pending: an exit check reserves no seat.
CommitPending(q, h) == \E i \in DOMAIN q : q[i].why = "commit" /\ q[i].seat = h

Pending(q, h) == \E i \in DOMAIN q : q[i].seat = h

\* The entries of q at the places in keep, in their order.
NthOf(keep, n) == CHOOSE i \in keep : Cardinality({j \in keep : j <= i}) = n
Pick(q, keep) ==
    IF keep = DOMAIN q THEN q ELSE [n \in 1 .. Cardinality(keep) |-> q[NthOf(keep, n)]]

WithoutCommit(q, t) == Pick(q, DOMAIN q \ CommitOf(q, t))
Fresh(q, items) == q \o SetToSeq({it \in items : ~In(q, it)})

\* The bounds: a death of the process, a fault (a failed write, store call,
\* close or launch) and a relaunch, each MaxEach times, MaxTroubles in all.
Kinds == {"death", "fault", "relaunch"}
Happened == troubles["death"] + troubles["fault"] + troubles["relaunch"]
Spend(kind) ==
    /\ troubles[kind] < MaxEach /\ Happened < MaxTroubles
    /\ troubles' = IF Happened + 1 < MaxTroubles THEN [troubles EXCEPT ![kind] = @ + 1]
                   ELSE [k \in Kinds |-> MaxEach]
Fault == Spend("fault")

\* writeExits: a queue that was not loaded is never written over.
Save(q) ==
    /\ queue' = q
    /\ \/ loaded' /\ file' = q /\ unsaved' = FALSE /\ UNCHANGED troubles
       \/ ~loaded' /\ unsaved' = TRUE /\ UNCHANGED <<file, troubles>>
       \/ loaded' /\ Fault /\ file' \in {file, q} /\ unsaved' = TRUE

\* Mutant: the queue changes, its file does not.
SaveNothing(q) ==
    queue' = q /\ UNCHANGED <<loaded, file, unsaved, troubles>>

SaveIfChanged(q) ==
    /\ UNCHANGED loaded
    /\ IF q = queue THEN UNCHANGED <<queue, file, unsaved, troubles>> ELSE Save(q)

\* loadExits: what the previous incarnation left comes behind what is queued.
LoadedQueue ==
    IF loaded THEN queue
    ELSE queue \o Pick(file, {i \in DOMAIN file : ~In(queue, file[i])})

----------------------------------------------------------------------------
(* Seats, the lead and commit steps: everything outside the tick *)

Retask(t, state, by, n) == task' = [task EXCEPT ![t] = [state |-> state, by |-> by, n |-> n]]

\* A seat takes a pending task itself, or confirms the one it was granted.
Claim(t, h) ==
    /\ h \in alive
    /\ \/ task[t].state = "pending" /\ HeldBy(h) = {} /\ task[t].n < MaxAttempts
          /\ Retask(t, "leased", h, task[t].n + 1)
       \/ task[t].state = "granted" /\ task[t].by = h
          /\ Retask(t, "leased", h, task[t].n)
    /\ UNCHANGED <<ended, alive, tick, memory, jobs, file, checked, troubles>>

Done(t) ==
    /\ task[t].state \in {"granted", "leased"} /\ task[t].by \in alive
    /\ Retask(t, "reported", task[t].by, task[t].n)
    /\ UNCHANGED <<ended, alive, tick, memory, jobs, file, checked, troubles>>

EndedAs(t, how) == [task |-> t, n |-> task[t].n, by |-> task[t].by, how |-> how]

Fail(t) ==
    /\ Leased(t) /\ task[t].by \in alive
    /\ Retask(t, "pending", None, task[t].n)
    /\ ended' = ended \cup {EndedAs(t, "failed")}
    /\ UNCHANGED <<alive, tick, memory, jobs, file, checked, troubles>>

\* The lead takes a task back, resets a blocked one, or cancels one.
Return(t) ==
    /\ Leased(t) \/ task[t].state \in {"blocked", "stuck"}
    /\ Retask(t, "pending", None, task[t].n)
    /\ UNCHANGED <<ended, alive, tick, memory, jobs, file, checked, troubles>>

Cancel(t) ==
    /\ task[t].state \notin {"completed", "cancelled"}
    /\ Retask(t, "cancelled", None, task[t].n)
    /\ UNCHANGED <<ended, alive, tick, memory, jobs, file, checked, troubles>>

Die(h) ==
    /\ h \in alive
    /\ alive' = alive \ {h}
    /\ UNCHANGED <<task, ended, tick, memory, jobs, file, checked, troubles>>

\* The goroutine of a commit step ends, whatever was asked of it meanwhile.
StepEnds(t) ==
    /\ Running(t)
    /\ \E r \in {"ok", "refused", "deferred"} : jobs' = [jobs EXCEPT ![t].result = r]
    /\ UNCHANGED <<world, tick, memory, file, checked, troubles>>

----------------------------------------------------------------------------
(* The process *)

\* A crash, a stop, or the end of the process that a failed launch is.
Lose ==
    /\ pc' = "down"
    /\ list' = NoReports /\ cur' = None /\ holding' = Nothing
    /\ seats' = [h \in Seats |-> "absent"]
    /\ queue' = <<>> /\ seen' = {} /\ loaded' = FALSE /\ unsaved' = FALSE
    /\ roster' = "new" /\ draining' = FALSE
    /\ jobs' = [t \in Tasks |-> NoJob]

Crash ==
    /\ pc # "down" /\ Spend("death")
    /\ Lose
    /\ UNCHANGED <<world, file, checked>>

\* Run up to its first tick.  adoptLive takes each live seat as up when its
\* proof, record, pool and worktree are the roster's, else it is closed.  The
\* queue is loaded before a seat is adopted, so a seat to close is queued.
Start ==
    /\ pc = "down" /\ pc' = "idle"
    /\ \E misfit \in SUBSET alive :
          /\ seats' = [h \in Seats |-> IF h \in misfit THEN "restart"
                                       ELSE IF h \in alive THEN "up" ELSE "absent"]
          /\ LET restarts == {Check(h, None, "restart") : h \in misfit}
             IN  IF alive = {}
                 THEN UNCHANGED <<queue, file, loaded, unsaved, troubles>>
                 ELSE \/ loaded' = TRUE /\ Save(LoadedQueue \o SetToSeq(restarts))
                      \/ /\ Fault /\ UNCHANGED <<loaded, file>>
                         /\ queue' = SetToSeq(restarts) /\ unsaved' = TRUE
    /\ UNCHANGED <<world, list, cur, holding, seen, roster, draining, jobs,
                   checked>>

\* A store call of the tick fails; the next tick starts over.
TickError ==
    /\ pc \in {"expire", "exits", "commit", "dispatch"}
    /\ Fault
    /\ pc' = "idle" /\ list' = NoReports /\ holding' = Nothing
    /\ UNCHANGED <<world, cur, memory, jobs, file, checked>>

----------------------------------------------------------------------------
(* The tick *)

\* The socket that takes a relaunch opens once the start-up barrier is passed.
DecisionsOpen == loaded /\ \A h \in Seats : seats[h] # "restart"

\* applyEvents takes the relaunch that the lead asked for: it starts to drain.
TakeRelaunch ==
    /\ pc = "idle" /\ DecisionsOpen /\ Spend("relaunch")
    /\ draining' = TRUE
    /\ UNCHANGED <<world, tick, seats, queue, seen, loaded, unsaved, roster, jobs, file, checked>>

\* The seats checkLiveness finds gone are forgotten and their exit checks
\* queued, and a mute seat that stirs is up again.
ApplyEvents ==
    /\ pc = "idle" /\ pc' = "expire"
    /\ LET gone == {h \in Seats \ alive : seats[h] \in Usable}
           held(h) == IF HeldBy(h) = {} THEN None ELSE CHOOSE t \in HeldBy(h) : TRUE
           checks == SetToSeq({Check(h, held(h), "gone") : h \in gone})
       IN  /\ SaveIfChanged(queue \o checks)
           /\ \E stirs \in SUBSET {h \in alive : seats[h] = "mute"} :
                 seats' = [h \in Seats |-> IF h \in gone THEN "absent"
                                          ELSE IF h \in stirs THEN "up" ELSE seats[h]]
    /\ UNCHANGED <<world, list, cur, holding, seen, roster, draining, jobs, checked>>

\* ExpireDue, and what it means for the holders.  Time is left out: any lease
\* without a done report may be due.
Expire ==
    /\ pc = "expire" /\ pc' = "exits"
    /\ \E due \in SUBSET {t \in Tasks : task[t].state \in {"granted", "leased"}} :
          LET outcome(t) == IF task[t].state = "leased" THEN "expired" ELSE "unclaimed"
              holders(how) == {task[t].by : t \in {u \in due : outcome(u) = how}}
          IN  /\ task' = [t \in Tasks |->
                     IF t \in due THEN [task[t] EXCEPT !.state = "pending", !.by = None]
                     ELSE task[t]]
              /\ ended' = ended \cup {EndedAs(t, outcome(t)) : t \in due}
              /\ seats' = [h \in Seats |->
                     IF seats[h] \in Usable /\ h \in holders("expired") THEN "expired"
                     ELSE IF seats[h] = "up" /\ h \in holders("unclaimed") THEN "mute"
                     ELSE seats[h]]
    /\ UNCHANGED <<alive, list, cur, holding, queue, seen, loaded, unsaved, roster,
                   draining, jobs, file, checked, troubles>>

\* scanAttempts on the attempts not seen by this incarnation.
Scanned(q) == Fresh(q, {Check(a.by, a.task, a.how) : a \in ended \ seen})

\* The checks of the queue that run: not a commit step, nor behind one of the
\* same seat, nor of a seat being closed, nor while its step has the ledger.
Checkable(q, i) ==
    /\ q[i].why # "commit"
    /\ ~\E j \in 1 .. i : q[j].why = "commit" /\ q[j].seat = q[i].seat
    /\ seats[q[i].seat] \notin Closing
    /\ ~Busy(q[i].seat)

\* runExits: a refused check closes its seat, so what follows of it waits.
RunExits(q) ==
    \E refused \in SUBSET {i \in DOMAIN q : Checkable(q, i)} :
        LET closed == {q[i].seat : i \in refused} \cap {h \in Seats : seats[h] \in Usable}
            behind(i) == q[i].seat \in closed /\ \E j \in refused : j < i /\ q[j].seat = q[i].seat
            decided == {i \in DOMAIN q : Checkable(q, i) /\ ~behind(i)}
        IN  /\ Save(Pick(q, DOMAIN q \ decided))
            /\ seats' = [h \in Seats |-> IF h \in closed THEN "refused" ELSE seats[h]]
            /\ checked' = checked \cup
                   {a \in ended : \E i \in decided :
                        q[i].seat = a.by /\ q[i].task = a.task /\ q[i].why = a.how}

\* The first List of the tick, and the exit checks on it.
Exits ==
    /\ pc = "exits" /\ pc' = "sweep"
    /\ list' = [t \in Tasks |-> IF task[t].state = "reported"
                                THEN [by |-> task[t].by, n |-> task[t].n] ELSE NoReport]
    /\ \/ loaded' = TRUE /\ seen' = ended /\ RunExits(Scanned(LoadedQueue))
       \/ /\ ~loaded /\ Fault /\ unsaved' = TRUE
          /\ UNCHANGED <<loaded, seen, queue, file, seats, checked>>
    /\ UNCHANGED <<world, cur, holding, roster, draining, jobs>>

\* sweepCommits: the entry of a report that no longer waits goes once its
\* step ended; a running one is told to stop, and its entry stays.
Sweep ==
    /\ pc = "sweep" /\ pc' = "commit"
    /\ LET stale == {t \in Tasks : list[t] = NoReport /\ CommitOf(queue, t) # {}
                                   /\ ~Running(t)}
       IN  /\ jobs' = [t \in Tasks |-> IF t \in stale THEN NoJob ELSE jobs[t]]
           /\ SaveIfChanged(Pick(queue, DOMAIN queue \ UNION {CommitOf(queue, t) : t \in stale}))
    /\ UNCHANGED <<world, list, cur, holding, seats, seen, roster, draining, checked>>

----------------------------------------------------------------------------
(* The commit step of one report *)

\* The entry is written, then the step starts, unless one of the task is there.
CallCommit(t) ==
    /\ pc = "commit" /\ list[t] # NoReport
    /\ pc' = "answer" /\ cur' = t
    /\ LET entry == Check(list[t].by, t, "commit")
       IN  SaveIfChanged(IF In(queue, entry) THEN queue ELSE Append(queue, entry))
    /\ jobs' = IF jobs[t] # NoJob THEN jobs
               ELSE [jobs EXCEPT ![t] = [by |-> list[t].by, n |-> list[t].n, result |-> "running"]]
    /\ UNCHANGED <<world, list, holding, seats, seen, roster, draining, checked>>

NextReport ==
    /\ pc' = "commit" /\ cur' = None
    /\ list' = [list EXCEPT ![cur] = NoReport]

AnswerRunning ==
    /\ pc = "answer" /\ Running(cur)
    /\ NextReport
    /\ UNCHANGED <<world, holding, memory, jobs, file, checked, troubles>>

\* Mutant: the count starts over at every tick.
DeferredAfresh(it) == [it EXCEPT !.deferrals = 0]

LastDeferral(it) == it.deferrals + 1 >= MaxDeferrals
Deferred(it) ==
    [it EXCEPT !.deferrals = IF it.deferrals = MaxDeferrals THEN MaxDeferrals
                             ELSE it.deferrals + 1]

\* One more deferral of the step's entry; at the limit the step is refused.
AnswerDeferred ==
    /\ pc = "answer" /\ jobs[cur].result = "deferred"
    /\ UNCHANGED loaded
    /\ \E i \in CommitOf(queue, cur) :
          /\ \A j \in CommitOf(queue, cur) : i <= j
          /\ Save([queue EXCEPT ![i] = Deferred(queue[i])])
          /\ \/ /\ LastDeferral(queue[i])
                /\ jobs' = [jobs EXCEPT ![cur].result = "refused"]
                /\ UNCHANGED <<pc, list, cur>>
             \/ /\ ~LastDeferral(queue[i])
                /\ jobs' = [jobs EXCEPT ![cur] = NoJob]
                /\ NextReport
    /\ UNCHANGED <<world, holding, seats, seen, roster, draining, checked>>

\* The store takes the result while a done report waits, whoever filed it;
\* then the step is forgotten.
ApplyResult ==
    /\ pc = "answer" /\ jobs[cur].result \in {"ok", "refused"}
    /\ task[cur].state = "reported"
    /\ IF jobs[cur].result = "ok" THEN Retask(cur, "completed", None, task[cur].n)
       ELSE Retask(cur, "blocked", task[cur].by, task[cur].n)
    /\ jobs' = [jobs EXCEPT ![cur] = NoJob]
    /\ SaveIfChanged(WithoutCommit(queue, cur))
    /\ NextReport
    /\ UNCHANGED <<ended, alive, holding, seats, seen, roster, draining, checked>>

\* Otherwise the tick ends with the store's error, the step's result kept.
ApplyFails ==
    /\ pc = "answer" /\ jobs[cur].result \in {"ok", "refused"}
    /\ \/ task[cur].state # "reported" /\ UNCHANGED troubles
       \/ Fault
    /\ pc' = "idle" /\ cur' = None /\ list' = NoReports
    /\ UNCHANGED <<world, holding, memory, jobs, file, checked>>

----------------------------------------------------------------------------
(* Closing, launching, dispatching *)

CommitsDone ==
    /\ pc = "commit" /\ list = NoReports
    /\ pc' = IF unsaved THEN "close" ELSE "hold"
    /\ holding' = Holding
    /\ UNCHANGED <<world, list, cur, memory, jobs, file, checked, troubles>>

\* CloseSeat confirms that the process is gone, or fails.
Close(closing, failed) ==
    /\ failed \subseteq closing
    /\ alive' = alive \ (closing \ failed)
    /\ IF failed = {} THEN UNCHANGED troubles ELSE Fault

\* closeAdopted, before the first dispatch.
Hold ==
    /\ pc = "hold"
    /\ LET restarts == {h \in Seats : seats[h] = "restart"}
       IN  \E failed \in SUBSET restarts :
              /\ Close(restarts, failed)
              /\ seats' = [h \in Seats |-> IF h \in restarts \ failed THEN "absent"
                                           ELSE seats[h]]
              /\ pc' = IF failed = {} THEN "roster" ELSE "close"
    /\ UNCHANGED <<task, ended, list, cur, holding, queue, seen, loaded, unsaved, roster,
                   draining, jobs, file, checked>>

\* What the roster owes after the first tick's verdict on the adopted seats.
Verdict ==
    IF roster # "new" THEN roster
    ELSE IF \A h \in Seats : seats[h] \notin Usable THEN "owed" ELSE "settled"

Drained ==
    \A h \in Seats : /\ holding[h] # "lease"
                     /\ seats[h] # "absent" => holding[h] = "nothing" /\ ~CommitPending(queue, h)

\* drainForRelaunch: nobody is closed while anybody holds anything.
DrainWaits ==
    /\ pc = "roster" /\ draining /\ ~Drained
    /\ pc' = "close" /\ roster' = Verdict
    /\ UNCHANGED <<world, list, cur, holding, seats, queue, seen, loaded, unsaved, draining,
                   jobs, file, checked, troubles>>

Drain ==
    /\ pc = "roster" /\ draining /\ Drained
    /\ LET open == {h \in Seats : seats[h] \in Usable}
       IN  \E failed \in SUBSET open :
              /\ Close(open, failed)
              /\ seats' = [h \in Seats |-> IF h \in failed THEN "relaunch"
                                           ELSE IF h \in open THEN "absent" ELSE seats[h]]
    /\ IF \A h \in Seats : seats'[h] = "absent"
       THEN draining' = FALSE /\ roster' = "owed" /\ UNCHANGED pc
       ELSE roster' = Verdict /\ UNCHANGED draining /\ pc' = "close"
    /\ UNCHANGED <<task, ended, list, cur, holding, queue, seen, loaded, unsaved, jobs, file,
                   checked>>

\* The launch waits for every exit check and commit step of its seats.
LaunchDue == pc = "roster" /\ ~draining /\ Verdict = "owed"
LaunchReady == LaunchDue /\ \A h \in Seats : ~Pending(queue, h)

LaunchWaits ==
    /\ LaunchDue /\ \E h \in Seats : Pending(queue, h)
    /\ pc' = "close" /\ roster' = "owed"
    /\ UNCHANGED <<world, list, cur, holding, seats, queue, seen, loaded, unsaved, draining,
                   jobs, file, checked, troubles>>

\* AMQ starts the roster only into an empty session.
Launch ==
    /\ LaunchReady /\ alive = {}
    /\ pc' = "dispatch" /\ roster' = "settled"
    /\ \E started \in SUBSET Seats :
          /\ alive' = started
          /\ seats' = [h \in Seats |-> IF h \in started /\ seats[h] = "absent" THEN "up"
                                       ELSE seats[h]]
    /\ task' = [t \in Tasks |-> IF task[t].state = "stuck"
                                THEN [task[t] EXCEPT !.state = "pending"] ELSE task[t]]
    /\ UNCHANGED <<ended, list, cur, holding, queue, seen, loaded, unsaved, draining, jobs,
                   file, checked, troubles>>

\* The process ends with the launch error; a refused apply may leave seats.
LaunchFails ==
    /\ LaunchReady
    /\ \/ alive # {} /\ UNCHANGED <<alive, troubles>>
       \/ alive = {} /\ Fault /\ alive' \in SUBSET Seats
    /\ Lose
    /\ UNCHANGED <<task, ended, file, checked>>

RosterSettled ==
    /\ pc = "roster" /\ ~draining /\ Verdict = "settled"
    /\ pc' = "dispatch" /\ roster' = "settled"
    /\ UNCHANGED <<world, list, cur, holding, seats, queue, seen, loaded, unsaved, draining,
                   jobs, file, checked, troubles>>

Lapsed(t, h) == \E a \in ended : a.task = t /\ a.by = h /\ a.how # "failed"

Grant(t, h) ==
    /\ pc = "dispatch" /\ task[t].state = "pending" /\ task[t].n < MaxAttempts
    /\ seats[h] = "up" /\ HeldBy(h) = {} /\ ~Pending(queue, h) /\ ~Lapsed(t, h)
    /\ Retask(t, "granted", h, task[t].n + 1)
    /\ UNCHANGED <<ended, alive, tick, memory, jobs, file, checked, troubles>>

\* A task with no live seat waits for the lead's relaunch.
Stick(t) ==
    /\ pc = "dispatch" /\ task[t].state = "pending"
    /\ \A h \in Seats : seats[h] \notin Usable
    /\ Retask(t, "stuck", None, task[t].n)
    /\ UNCHANGED <<ended, alive, tick, memory, jobs, file, checked, troubles>>

\* Preparing a seat may fail, so what could be granted need not be.
DispatchDone ==
    /\ pc = "dispatch" /\ pc' = "close"
    /\ holding' = Holding
    /\ UNCHANGED <<world, list, cur, memory, jobs, file, checked, troubles>>

\* Mutant: a seat that ran past its lease is left running.
OwedButExpired == {h \in Seats : seats[h] \in Closing \ {"expired"}}

ClosesOwed == {h \in Seats : seats[h] \in Closing}

\* closeIdle: the closes owed, and the mute seats idle for long.
CloseIdle ==
    /\ pc = "close" /\ pc' = "idle" /\ holding' = Nothing
    /\ \E idle \in SUBSET {h \in Seats : seats[h] = "mute" /\ holding[h] = "nothing"} :
          LET closing == ClosesOwed \cup idle
          IN  \E failed \in SUBSET closing :
                /\ Close(closing, failed)
                /\ seats' = [h \in Seats |-> IF h \in idle \cap failed THEN "idle"
                                             ELSE IF h \in closing \ failed THEN "absent"
                                             ELSE seats[h]]
    /\ UNCHANGED <<task, ended, list, cur, queue, seen, loaded, unsaved, roster, draining,
                   jobs, file, checked>>

TickStep ==
    \/ ApplyEvents \/ Expire \/ Exits \/ Sweep \/ CommitsDone \/ Hold
    \/ \E t \in Tasks : CallCommit(t)
    \/ AnswerRunning \/ AnswerDeferred \/ ApplyResult \/ ApplyFails
    \/ DrainWaits \/ Drain \/ LaunchWaits \/ Launch \/ LaunchFails \/ RosterSettled
    \/ DispatchDone \/ CloseIdle

Init ==
    /\ task = [t \in Tasks |-> [state |-> "pending", by |-> None, n |-> 0]]
    /\ ended = {} /\ alive = {}
    /\ pc = "down" /\ list = NoReports /\ cur = None /\ holding = Nothing
    /\ seats = [h \in Seats |-> "absent"]
    /\ queue = <<>> /\ seen = {} /\ loaded = FALSE /\ unsaved = FALSE
    /\ roster = "new" /\ draining = FALSE
    /\ jobs = [t \in Tasks |-> NoJob]
    /\ file = <<>>
    /\ checked = {}
    /\ troubles = [k \in Kinds |-> 0]

Next ==
    \/ Start \/ TickStep \/ TickError \/ TakeRelaunch \/ Crash
    \/ \E t \in Tasks : \/ Done(t) \/ Fail(t) \/ Return(t) \/ Cancel(t) \/ StepEnds(t)
                         \/ Stick(t)
                         \/ \E h \in Seats : Claim(t, h) \/ Grant(t, h)
    \/ \E h \in Seats : Die(h)

\* The process is restarted and keeps ticking; a commit step ends.
Fairness ==
    /\ WF_vars(Start \/ TickStep)
    /\ \A t \in Tasks : WF_vars(StepEnds(t))

Spec == Init /\ [][Next]_vars /\ Fairness

----------------------------------------------------------------------------
(* Properties *)

\* The types of the variables of the scheduler, its committer and its file.
TypeOK ==
    /\ task \in [Tasks -> TaskRecord] /\ ended \subseteq EndedAttempt /\ alive \subseteq Seats
    /\ pc \in {"down", "idle", "expire", "exits", "sweep", "commit", "answer", "hold", "roster",
               "dispatch", "close"}
    /\ list \in [Tasks -> Report \cup {NoReport}] /\ cur \in Tasks \cup {None}
    /\ holding \in [Seats -> {"lease", "report", "nothing"}]
    /\ seats \in [Seats -> {"absent"} \cup Usable \cup Closing]
    /\ queue \in Seq(Item) /\ file \in Seq(Item)
    /\ seen \subseteq ended /\ checked \subseteq ended
    /\ loaded \in BOOLEAN /\ unsaved \in BOOLEAN /\ draining \in BOOLEAN
    /\ roster \in {"new", "owed", "settled"}
    /\ jobs \in [Tasks -> Job \cup {NoJob}]

\* Every commit step that runs beside the tick has its entry in the queue, and
\* in the file unless the scheduler knows the file is behind (and dispatches
\* nothing): a seat whose step runs is reserved, and a restart finds the step.
StepHasEntry ==
    \A t \in Tasks : Running(t) =>
        LET entry == Check(jobs[t].by, t, "commit")
        IN  In(queue, entry) /\ (unsaved \/ In(file, entry))

Granting(t, h) == task[t].state = "pending" /\ task'[t].state = "granted" /\ task'[t].by = h

\* The scheduler grants no task to a seat whose commit step runs, nor to one
\* with an ended attempt it knows of whose exit check is not decided: through
\* deferrals, closes that fail, relaunches and restarts of the process.
NoLeaseBeforeCheck ==
    [][\A t \in Tasks, h \in Seats : Granting(t, h) =>
          /\ ~Busy(h)
          /\ \A a \in seen : a.by = h => a \in checked]_vars

\* The result of a commit step decides only the attempt the step ran for
\* (CancelCommit: the result of a step whose task no longer waits for it is
\* discarded).
ResultOfOwnAttempt ==
    [][\A t \in Tasks :
          /\ task[t].state = "reported"
          /\ task'[t].state \in {"completed", "blocked"}
          => jobs[t].n = task[t].n]_vars

\* No done report waits for ever: its step is started, asked again, retried
\* after a deferral up to the limit, and decided, unless the report is taken
\* back first.
EveryReportDecided == \A t \in Tasks : []<>(task[t].state # "reported")

\* The exit check of every attempt that failed, expired or was never claimed
\* is decided at last, whatever closes, deferrals and restarts come between.
EveryAttemptChecked == []<>(ended \subseteq checked)
=============================================================================
