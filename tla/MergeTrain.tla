----------------------------- MODULE MergeTrain -----------------------------
(* The merge train (internal/mergetrain, Train.Run) against GitHub, the     *)
(* journal and the task store.  A run reads the bindings, finishes what an  *)
(* earlier run journaled, checks each pull request and lands them in order: *)
(* rebase, proof, re-bind, check, intent, merge, record, journal.  Nothing  *)
(* keeps two runs apart, a run may be killed between any two calls, and a   *)
(* merge the server was asked for may land after the run gave up on it.  A  *)
(* lost response is a kill after the call, a failed call the kill before.   *)
(* The commit step of the seat pushes and binds beside the runs.            *)
(* Left out: dry runs and manual mode, drafts, the batch digest, drift      *)
(* alerts, the reading of CI; protection is met and strict.  The limits of  *)
(* the grant and the CI of a head are one verdict of it; the owner's lift of *)
(* the strict rule itself is not offered.                                   *)
EXTENDS Naturals, Sequences, FiniteSets

CONSTANTS
    Runs,       \* the train processes
    NumPRs,     \* the request is the pull requests 1..NumPRs, one task each
    MaxHeads,   \* bound on the heads ever pushed
    MaxOthers,  \* bound on the merges of other pull requests
    MaxKills,   \* bound on kills and failed calls
    MaxLifts    \* bound on the refusals the owner lifts

ASSUME MergeTrainAssumption ==
    /\ NumPRs \in Nat \ {0} /\ MaxHeads \in Nat /\ MaxOthers \in Nat
    /\ MaxKills \in Nat /\ MaxLifts \in Nat

PRs == 1..NumPRs

VARIABLES
    heads,      \* every head ever pushed: its work, its base, its verdict
    server,     \* server[p]: the head, the head it was merged at or 0, rebased heads
    base,       \* the base branch: the merges into it so far, those of others
    inflight,   \* the merge requests the server has not answered
    bound,      \* bound[p]: the head the task of p is bound to
    fact,       \* fact[p]: the head the task records as merged, or 0
    journal,    \* the audit log, as far as a run reads it back
    lifted,     \* the refusals the owner lifted: a head and its rules
    run,        \* run[r]: what run r does and what it read
    reviewed,   \* history: the works the commit step bound
    kills       \* the kills so far

forge == <<heads, server, base, inflight>>
store == <<bound, fact>>
vars  == <<forge, store, journal, lifted, run, reviewed, kills>>

HeadOf(p)     == server[p].head
Open(p)     == server[p].merged = 0
MergedAt(p, h) == server[p].merged = h
Behind(h)   == heads[h].base < base.now
Work(h)     == heads[h].work

Start == [at |-> "idle", pr |-> 0, head |-> [p \in PRs |-> 0], bound |-> [p \in PRs |-> 0],
          new |-> 0, commit |-> 0, done |-> {}]

Here(r, at)  == run[r].at = at
P(r)         == run[r].pr
Set(r, new)  == run' = [run EXCEPT ![r] = new]
Go(r, at)    == Set(r, [run[r] EXCEPT !.at = at])
Stop(r)      == Set(r, Start)

\* The next pull request of the loop `at`, or the first one of the loop after.
NextPR(r, at, then) ==
    IF P(r) < NumPRs THEN [run[r] EXCEPT !.at = at, !.pr = @ + 1]
    ELSE IF then = "idle" THEN Start ELSE [run[r] EXCEPT !.at = then, !.pr = 1]

----------------------------------------------------------------------------
(* The forge and the seat's commit step *)

NewHead(work, verdict) ==
    heads' = Append(heads, [work |-> work, base |-> base.now, verdict |-> verdict])

\* A push to the branch: by the commit step, or by anybody.
Push(p) ==
    /\ Open(p) /\ Len(heads) < MaxHeads
    /\ \E verdict \in {"ok", "red", "limits"} : NewHead(Len(heads) + 1, verdict)
    /\ server' = [server EXCEPT ![p].head = Len(heads')]
    /\ UNCHANGED <<base, inflight, store, journal, lifted, run, reviewed, kills>>

\* BindPR of the task store: another binding takes the merge fact with it.
BindPR(p, h) ==
    /\ bound' = [bound EXCEPT ![p] = h]
    /\ fact' = IF bound[p] = h THEN fact ELSE [fact EXCEPT ![p] = 0]

\* The commit step binds the head it pushed.
CommitBinds(p) ==
    /\ HeadOf(p) \notin server[p].rebased /\ bound[p] # HeadOf(p)
    /\ BindPR(p, HeadOf(p))
    /\ reviewed' = reviewed \cup {Work(HeadOf(p))}
    /\ UNCHANGED <<forge, journal, lifted, run, kills>>

\* The server merges what it was asked for, at the head it was asked for.
Land(p, h) ==
    /\ server' = [server EXCEPT ![p].merged = h]
    /\ base' = [base EXCEPT !.now = @ + 1]

Merges(request) ==
    /\ request \in inflight
    /\ inflight' = inflight \ {request}
    /\ IF Open(request.pr) /\ HeadOf(request.pr) = request.head
       THEN Land(request.pr, request.head)
       ELSE UNCHANGED <<server, base>>
    /\ UNCHANGED <<heads, store, journal, lifted, run, reviewed, kills>>

\* The owner merges a pull request outside the train.
OwnerMerges(p) ==
    /\ Open(p)
    /\ Land(p, HeadOf(p))
    /\ UNCHANGED <<heads, inflight, store, journal, lifted, run, reviewed, kills>>

\* Another pull request lands.
BaseMoves ==
    /\ base.others < MaxOthers
    /\ base' = [now |-> base.now + 1, others |-> base.others + 1]
    /\ UNCHANGED <<heads, server, inflight, store, journal, lifted, run, reviewed, kills>>

----------------------------------------------------------------------------
(* The checks *)

TrainHeads == journal.rebased

\* Mutant: the head is not compared with the binding.
RulesUnbound(p, b) ==
    (IF Open(p) THEN {} ELSE {"state"}) \cup ({heads[HeadOf(p)].verdict} \ {"ok"})
Rules(p, b) ==
    (IF Open(p) THEN {} ELSE {"state"})
    \cup ({heads[HeadOf(p)].verdict} \ {"ok"})
    \cup (IF server[p].rebased \subseteq TrainHeads THEN {} ELSE {"force_push"})
    \cup (IF HeadOf(p) = b THEN {} ELSE {"head_moved"})

Lifts(h, rules) == [head |-> h, rules |-> rules]
Passes(h, rules) == rules = {} \/ Lifts(h, rules) \in lifted

\* The owner answers the gate of a refusal, for that head and those rules.
OwnerLifts(p) ==
    /\ Cardinality(lifted) < MaxLifts
    /\ Rules(p, bound[p]) # {} /\ ~Passes(HeadOf(p), Rules(p, bound[p]))
    /\ lifted' = lifted \cup {Lifts(HeadOf(p), Rules(p, bound[p]))}
    /\ UNCHANGED <<forge, store, journal, run, reviewed, kills>>

----------------------------------------------------------------------------
(* A run: what earlier runs left *)

BindTasks(r) ==
    /\ Here(r, "idle")
    /\ Set(r, [Start EXCEPT !.at = "rebinds", !.pr = 1, !.bound = bound])
    /\ UNCHANGED <<forge, store, journal, lifted, reviewed, kills>>

\* A journaled re-bind whose new head the server still has is finished.
Pending(r) ==
    {e \in journal.rebinds : e.old = run[r].bound[P(r)] /\ e.new = HeadOf(P(r))}

ReconcileRebinds(r) ==
    /\ Here(r, "rebinds")
    /\ IF Pending(r) = {}
       THEN Set(r, NextPR(r, "rebinds", "merges"))
       ELSE \E e \in Pending(r) : Set(r, [run[r] EXCEPT !.at = "finish_rebind", !.new = e.new])
    /\ UNCHANGED <<forge, store, journal, lifted, reviewed, kills>>

FinishRebind(r) ==
    /\ Here(r, "finish_rebind")
    /\ BindPR(P(r), run[r].new)
    /\ Set(r, [NextPR(r, "rebinds", "merges") EXCEPT !.bound[P(r)] = run[r].new])
    /\ UNCHANGED <<forge, journal, lifted, reviewed, kills>>

\* Mutant: an intent that was never answered is not looked up at the server.
LandedJournaled(p) ==
    IF journal.last[p].kind = "merge" THEN journal.last[p].head
    ELSE IF journal.last[p].kind = "none" THEN server[p].merged ELSE 0
\* Mutant: a journaled intent is taken for a merge.
LandedAsIntended(p) == journal.last[p].head
\* The head p was merged at, from the journal or else from the server.
Landed(p) ==
    LET e == journal.last[p]
    IN  IF e.kind = "merge" \/ (e.kind = "intent" /\ MergedAt(p, e.head)) THEN e.head
        ELSE IF e.kind = "none" THEN server[p].merged ELSE 0

\* It is recorded only for the head its task is bound to.
ReconcileMerges(r) ==
    LET h == Landed(P(r))
    IN  /\ Here(r, "merges")
        /\ IF h # 0 /\ bound[P(r)] = h
           THEN Set(r, [run[r] EXCEPT !.at = "record_again", !.commit = h])
           ELSE Set(r, NextPR(r, "merges", "plan"))
        /\ UNCHANGED <<forge, store, journal, lifted, reviewed, kills>>

RecordPRMerge(p, h) == fact' = [fact EXCEPT ![p] = h] /\ UNCHANGED bound

\* A binding that moved on since is skipped.
RecordAgain(r) ==
    /\ Here(r, "record_again")
    /\ IF bound[P(r)] = run[r].commit
       THEN RecordPRMerge(P(r), run[r].commit) /\ Go(r, "journal_again")
       ELSE UNCHANGED store /\ Set(r, NextPR(r, "merges", "plan"))
    /\ UNCHANGED <<forge, journal, lifted, reviewed, kills>>

Journal(p, kind, h) == [journal EXCEPT !.last[p] = [kind |-> kind, head |-> h]]

JournalAgain(r) ==
    LET p == P(r)  landed == [run[r] EXCEPT !.done = @ \cup {p}]
    IN  /\ Here(r, "journal_again")
        /\ journal' = Journal(p, "merge", run[r].commit)
        /\ Set(r, [NextPR(r, "merges", "plan") EXCEPT !.done = landed.done])
        /\ UNCHANGED <<forge, store, lifted, reviewed, kills>>

----------------------------------------------------------------------------
(* A run: the plan and the landing *)

\* Every pull request is checked before the first one lands; a strict rule
\* lets one that is behind wait for its rebase.
Plan(r) ==
    LET p == P(r)
        later == IF Behind(HeadOf(p)) THEN {"red"} ELSE {}
        may == Passes(HeadOf(p), Rules(p, run[r].bound[p]) \ later)
    IN  /\ Here(r, "plan")
        /\ Set(r, [NextPR(r, "plan", "land") EXCEPT
                       !.head[p] = IF p \in run[r].done \/ ~may THEN 0 ELSE HeadOf(p)])
        /\ UNCHANGED <<forge, store, journal, lifted, reviewed, kills>>

\* A head that is behind and off its binding cannot be brought up to date.
LandPR(r) ==
    LET p == P(r)
    IN  /\ Here(r, "land")
        /\ IF run[r].head[p] = 0 \/ (Behind(HeadOf(p)) /\ HeadOf(p) # run[r].bound[p])
           THEN Set(r, NextPR(r, "land", "idle"))
           ELSE Go(r, IF Behind(HeadOf(p)) THEN "rebase" ELSE "check")
        /\ UNCHANGED <<forge, store, journal, lifted, reviewed, kills>>

\* The server rebases the head the run checked; the patch may come out changed.
Rebase(r) ==
    LET p == P(r)  h == run[r].head[p]
    IN  /\ Here(r, "rebase")
        /\ IF Open(p) /\ HeadOf(p) = h
           THEN /\ Len(heads) < MaxHeads
                /\ \E work \in {Work(h), Len(heads) + 1}, ci \in {"ok", "red"} :
                       NewHead(work, IF heads[h].verdict = "limits" THEN "limits" ELSE ci)
                /\ server' = [server EXCEPT ![p].head = Len(heads'),
                                            ![p].rebased = @ \cup {Len(heads')}]
                /\ Set(r, [run[r] EXCEPT !.at = "journal_rebase", !.new = Len(heads')])
           ELSE Stop(r) /\ UNCHANGED <<heads, server>>
        /\ UNCHANGED <<base, inflight, store, journal, lifted, reviewed, kills>>

JournalRebase(r) ==
    /\ Here(r, "journal_rebase")
    /\ journal' = [journal EXCEPT !.rebased = @ \cup {run[r].new}]
    /\ Go(r, "prove")
    /\ UNCHANGED <<forge, store, lifted, reviewed, kills>>

PatchUnchanged(r) == Work(run[r].new) = Work(run[r].head[P(r)])

Prove(r) ==
    /\ Here(r, "prove")
    /\ IF PatchUnchanged(r) THEN Go(r, "journal_rebind") ELSE Set(r, NextPR(r, "land", "idle"))
    /\ UNCHANGED <<forge, store, journal, lifted, reviewed, kills>>

JournalRebind(r) ==
    /\ Here(r, "journal_rebind")
    /\ journal' = [journal EXCEPT !.rebinds =
           {e \in @ : e.old # run[r].bound[P(r)]}
               \cup {[old |-> run[r].bound[P(r)], new |-> run[r].new]}]
    /\ Go(r, "rebind")
    /\ UNCHANGED <<forge, store, lifted, reviewed, kills>>

Rebind(r) ==
    /\ Here(r, "rebind")
    /\ BindPR(P(r), run[r].new)
    /\ Go(r, "check")
    /\ UNCHANGED <<forge, journal, lifted, reviewed, kills>>

\* The binding is read again, then the pull request at its head of now.
CheckPR(r) ==
    LET p == P(r)
    IN  /\ Here(r, "check")
        /\ IF Passes(HeadOf(p), Rules(p, bound[p]))
           THEN Set(r, [run[r] EXCEPT !.at = "intent", !.head[p] = HeadOf(p)])
           ELSE Set(r, NextPR(r, "land", "idle"))
        /\ UNCHANGED <<forge, store, journal, lifted, reviewed, kills>>

JournalIntent(r) ==
    LET p == P(r)
    IN  /\ Here(r, "intent")
        /\ journal' = [Journal(p, "intent", run[r].head[p]) EXCEPT !.intents = @ \cup {run[r].head[p]}]
        /\ Go(r, "merge")
        /\ UNCHANGED <<forge, store, lifted, reviewed, kills>>

Request(r) == [pr |-> P(r), head |-> run[r].head[P(r)]]

Merge(r) ==
    /\ Here(r, "merge")
    /\ inflight' = inflight \cup {Request(r)}
    /\ Go(r, "wait")
    /\ UNCHANGED <<heads, server, base, store, journal, lifted, reviewed, kills>>

\* The answer, or after a failed call the pull request read back.
Answered(r) ==
    LET p == P(r)  h == run[r].head[p]
    IN  /\ Here(r, "wait")
        /\ IF MergedAt(p, h) THEN Set(r, [run[r] EXCEPT !.at = "record", !.commit = h])
           ELSE (Request(r) \in inflight => kills < MaxKills) /\ Stop(r)
        /\ kills' = IF ~MergedAt(p, h) /\ Request(r) \in inflight THEN kills + 1 ELSE kills
        /\ UNCHANGED <<forge, store, journal, lifted, reviewed>>

RecordTaskMerge(r) ==
    /\ Here(r, "record")
    /\ IF bound[P(r)] = run[r].commit
       THEN RecordPRMerge(P(r), run[r].commit) /\ Go(r, "journal_merge")
       ELSE UNCHANGED store /\ Stop(r)
    /\ UNCHANGED <<forge, journal, lifted, reviewed, kills>>

JournalMerge(r) ==
    /\ Here(r, "journal_merge")
    /\ journal' = Journal(P(r), "merge", run[r].commit)
    /\ Set(r, NextPR(r, "land", "idle"))
    /\ UNCHANGED <<forge, store, lifted, reviewed, kills>>

Kill(r) ==
    /\ ~Here(r, "idle") /\ kills < MaxKills
    /\ Stop(r) /\ kills' = kills + 1
    /\ UNCHANGED <<forge, store, journal, lifted, reviewed>>

----------------------------------------------------------------------------

Init ==
    /\ heads = [p \in PRs |-> [work |-> p, base |-> 0, verdict |-> "ok"]]
    /\ server = [p \in PRs |-> [head |-> p, merged |-> 0, rebased |-> {}]]
    /\ base = [now |-> 0, others |-> 0] /\ inflight = {}
    /\ bound = [p \in PRs |-> p] /\ fact = [p \in PRs |-> 0]
    /\ journal = [last |-> [p \in PRs |-> [kind |-> "none", head |-> 0]],
                  intents |-> {}, rebased |-> {}, rebinds |-> {}]
    /\ lifted = {} /\ run = [r \in Runs |-> Start] /\ reviewed = PRs /\ kills = 0

Works(r) ==
    \/ BindTasks(r) \/ ReconcileRebinds(r) \/ FinishRebind(r)
    \/ ReconcileMerges(r) \/ RecordAgain(r) \/ JournalAgain(r)
    \/ Plan(r) \/ LandPR(r) \/ Rebase(r) \/ JournalRebase(r) \/ Prove(r)
    \/ JournalRebind(r) \/ Rebind(r) \/ CheckPR(r) \/ JournalIntent(r) \/ Merge(r)
    \/ Answered(r) \/ RecordTaskMerge(r) \/ JournalMerge(r)

Next ==
    \/ \E r \in Runs : Works(r) \/ Kill(r)
    \/ \E p \in PRs : Push(p) \/ CommitBinds(p) \/ OwnerMerges(p) \/ OwnerLifts(p)
    \/ \E request \in inflight : Merges(request)
    \/ BaseMoves

Spec == Init /\ [][Next]_vars

\* A run that started goes on, and the lead runs the train again.
FairSpec == Spec /\ \A r \in Runs : WF_vars(Works(r))

----------------------------------------------------------------------------
(* Properties *)

\* No head is merged by the train that the harness did not bind, or the owner
\* let through: whatever was pushed, rebased or re-bound meanwhile, the work
\* that lands is work that the commit step checked.
OnlyReviewedWork ==
    \A p \in PRs :
        LET h == server[p].merged
        IN  h \in journal.intents => Work(h) \in reviewed \/ \E g \in lifted : g.head = h

\* A task that records a merge is bound to the head that the server merged.
FactIsTrue ==
    \A p \in PRs : fact[p] # 0 => fact[p] = server[p].merged /\ fact[p] = bound[p]

\* The journal says "merge" only of what the server merged, and every merge
\* the server was asked for was journaled before it was asked.
JournalIsTrue ==
    /\ \A p \in PRs : journal.last[p].kind = "merge" => MergedAt(p, journal.last[p].head)
    /\ \A request \in inflight : request.head \in journal.intents

\* What the task store and the journal say of merges is true of the server,
\* whichever responses were lost and wherever the runs died.
RecordsTrue == FactIsTrue /\ JournalIsTrue

\* A merge the train asked for is recorded in its task, whichever response was
\* lost and wherever the runs died, as long as the train is run again.
EveryMergeRecorded ==
    \A p \in PRs :
        server[p].merged \in journal.intents /\ server[p].merged = bound[p]
            ~> fact[p] # 0 \/ server[p].merged # bound[p]

=============================================================================
