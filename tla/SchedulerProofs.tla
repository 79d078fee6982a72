-------------------------- MODULE SchedulerProofs --------------------------
(***************************************************************************)
(* For every roster, every set of tasks and any number of crashes, faults  *)
(* and relaunches: a commit step that runs has its entry in the queue and, *)
(* unless the scheduler knows better, in its file; and no seat is granted  *)
(* a task before its commit step ended and its exit checks were decided.   *)
(*                                                                         *)
(* Both rest on the queue: what enters it leaves it only through the exit  *)
(* checks, which never take a commit entry, and through the end of the     *)
(* step an entry stands for.  The first part is about the lists the queue  *)
(* is made of, the second defines the inductive invariant, the third goes  *)
(* through the steps.                                                      *)
(***************************************************************************)
EXTENDS Scheduler, FiniteSetTheorems, SequenceTheorems, TLAPS

----------------------------------------------------------------------------
(* Places, lists and sets *)

\* The places of a sequence are finitely many.
LEMMA FinitePlaces ==
    ASSUME NEW S, NEW q \in Seq(S), NEW keep \in SUBSET DOMAIN q
    PROVE  /\ IsFiniteSet(keep) /\ Cardinality(keep) \in Nat
           /\ keep \subseteq Nat /\ DOMAIN q = 1 .. Len(q)
<1>1. DOMAIN q = 1 .. Len(q) /\ Len(q) \in Nat
  OBVIOUS
<1>2. IsFiniteSet(1 .. Len(q))
  BY <1>1, FS_Interval
<1>3. IsFiniteSet(keep)
  BY <1>1, <1>2, FS_Subset
<1>4. QED
  BY <1>1, <1>3, FS_CardinalityType

\* The rank of a place among the kept ones tells it apart.
LEMMA RankOneToOne ==
    ASSUME NEW keep, keep \subseteq Nat, IsFiniteSet(keep), NEW i \in keep, NEW k \in keep,
           Cardinality({j \in keep : j <= i}) = Cardinality({j \in keep : j <= k})
    PROVE  i = k
<1> DEFINE upto(m) == {j \in keep : j <= m}
<1>1. ASSUME NEW a \in keep, NEW b \in keep, Cardinality(upto(a)) = Cardinality(upto(b)), a < b
      PROVE  FALSE
  <2>1. upto(b) \in SUBSET keep /\ upto(a) \in SUBSET upto(b)
    <3>1. a \in Nat /\ b \in Nat /\ \A j \in keep : j \in Nat
      OBVIOUS
    <3>2. \A j \in keep : j <= a => j <= b
      BY <1>1, <3>1
    <3>3. QED
      BY <3>2
  <2>4. IsFiniteSet(upto(b))
    <3> HIDE DEF upto
    <3>1. QED BY <2>1, FS_Subset
  <2>2. upto(b) = upto(a)
    <3> HIDE DEF upto
    <3>1. QED BY <1>1, <2>1, <2>4, FS_Subset
  <2>3. b \in upto(b) /\ b \notin upto(a)
    BY <1>1
  <2>5. QED
    BY <2>2, <2>3
<1>2. i \in Nat /\ k \in Nat
  OBVIOUS
<1>3. QED
  BY <1>1, <1>2

\* A place is the one of its rank.
LEMMA NthOfRank ==
    ASSUME NEW keep, keep \subseteq Nat, IsFiniteSet(keep), NEW i \in keep
    PROVE  /\ Cardinality({j \in keep : j <= i}) \in 1 .. Cardinality(keep)
           /\ NthOf(keep, Cardinality({j \in keep : j <= i})) = i
<1> DEFINE upto(m) == {j \in keep : j <= m}
<1>1. IsFiniteSet(upto(i)) /\ Cardinality(upto(i)) <= Cardinality(keep)
  BY FS_Subset
<1>2. Cardinality(upto(i)) \in Nat /\ Cardinality(upto(i)) # 0
  <2>1. i \in upto(i)
    OBVIOUS
  <2>2. QED
    BY <1>1, <2>1, FS_EmptySet, FS_CardinalityType
<1>3. Cardinality(keep) \in Nat
  BY FS_CardinalityType
<1>4. \A k \in keep : Cardinality(upto(k)) = Cardinality(upto(i)) => k = i
  BY RankOneToOne
<1>5. NthOf(keep, Cardinality(upto(i))) = i
  BY <1>4 DEF NthOf
<1>6. QED
  BY <1>1, <1>2, <1>3, <1>5

\* Every rank has its place.
LEMMA NthOfKept ==
    ASSUME NEW keep, keep \subseteq Nat, IsFiniteSet(keep), NEW n \in 1 .. Cardinality(keep)
    PROVE  NthOf(keep, n) \in keep
<1> DEFINE rank == [i \in keep |-> Cardinality({j \in keep : j <= i})]
           N == Cardinality(keep)
<1>1. N \in Nat
  BY FS_CardinalityType
<1>2. rank \in [keep -> 1 .. N]
  BY NthOfRank
<1>3. rank \in Injection(keep, 1 .. N)
  <2>1. IsInjective(rank)
    BY RankOneToOne DEF IsInjective
  <2>2. QED
    BY <1>2, <2>1 DEF Injection
<1>4. IsFiniteSet(1 .. N) /\ Cardinality(1 .. N) = N
  BY <1>1, FS_Interval
<1>5. rank \in Surjection(keep, 1 .. N)
  <2> HIDE DEF rank, N
  <2>1. Cardinality(keep) = Cardinality(1 .. N)
    BY <1>4 DEF N
  <2>2. QED
    BY <1>3, <1>4, <2>1, FS_Injection
<1>6. PICK k \in keep : rank[k] = n
  BY <1>5 DEF Surjection
<1>7. \E i \in keep : Cardinality({j \in keep : j <= i}) = n
  BY <1>6
<1>8. QED
  BY <1>7 DEF NthOf

\* Pick returns a sequence of the items of q at the places kept, and of no
\* other.
LEMMA PickItems ==
    ASSUME NEW S, NEW q \in Seq(S), NEW keep \in SUBSET DOMAIN q
    PROVE  /\ Pick(q, keep) \in Seq(S)
           /\ \A i \in keep : \E n \in DOMAIN Pick(q, keep) : Pick(q, keep)[n] = q[i]
           /\ \A n \in DOMAIN Pick(q, keep) : \E i \in keep : Pick(q, keep)[n] = q[i]
<1>1. CASE keep = DOMAIN q
  BY <1>1 DEF Pick
<1>2. CASE keep # DOMAIN q
  <2> DEFINE N == Cardinality(keep)
  <2>1. /\ IsFiniteSet(keep) /\ N \in Nat /\ keep \subseteq Nat
    BY FinitePlaces
  <2>2. Pick(q, keep) = [n \in 1 .. N |-> q[NthOf(keep, n)]]
    BY <1>2 DEF Pick
  <2>3. \A n \in 1 .. N : NthOf(keep, n) \in keep
    BY <2>1, NthOfKept
  <2>4. \A i \in keep : \E n \in 1 .. N : NthOf(keep, n) = i
    BY <2>1, NthOfRank
  <2> HIDE DEF N
  <2>5. \A n \in 1 .. N : q[NthOf(keep, n)] \in S
    BY <2>3
  <2>6. Pick(q, keep) \in [1 .. N -> S]
    BY <2>2, <2>5
  <2>7. Pick(q, keep) \in Seq(S)
    BY <2>1, <2>6
  <2>8. DOMAIN Pick(q, keep) = 1 .. N
    BY <2>2
  <2>9. QED
    BY <2>2, <2>3, <2>4, <2>7, <2>8
<1>3. QED
  BY <1>1, <1>2

\* SetToSeq lists the members of a finite set, each and no other.
LEMMA SetToSeqItems ==
    ASSUME NEW S, NEW T, T \subseteq S, IsFiniteSet(T)
    PROVE  /\ SetToSeq(T) \in Seq(S)
           /\ \A x \in T : \E n \in DOMAIN SetToSeq(T) : SetToSeq(T)[n] = x
           /\ \A n \in DOMAIN SetToSeq(T) : SetToSeq(T)[n] \in T
<1> DEFINE N == Cardinality(T)
           s == SetToSeq(T)
<1>1. N \in Nat /\ \E f : f \in Bijection(1 .. N, T)
  BY FS_CardinalityType DEF ExistsBijection
<1>2. \E f \in [1 .. N -> T] : IsInjective(f)
  BY <1>1 DEF Bijection, Injection
<1>3. s \in [1 .. N -> T] /\ IsInjective(s)
  BY <1>2 DEF SetToSeq
<1> HIDE DEF s
<1>4. s \in Injection(1 .. N, T)
  BY <1>3 DEF Injection
<1>5. IsFiniteSet(1 .. N) /\ Cardinality(1 .. N) = N
  BY <1>1, FS_Interval
<1>6. s \in Surjection(1 .. N, T)
  <2> HIDE DEF N
  <2>1. Cardinality(1 .. N) = Cardinality(T)
    BY <1>5 DEF N
  <2>2. QED
    BY <1>4, <2>1, FS_Injection
<1>7. \A x \in T : \E n \in 1 .. N : s[n] = x
  BY <1>6 DEF Surjection
<1>8. s \in Seq(S)
  <2> HIDE DEF N
  <2>1. s \in [1 .. N -> S]
    BY <1>3
  <2>2. QED
    BY <1>1, <2>1
<1>9. QED
  BY <1>3, <1>7, <1>8 DEF s

----------------------------------------------------------------------------
(* The inductive invariant *)

\* A leased task is held by a seat under a numbered attempt.
HolderIsASeat ==
    \A t \in Tasks : Leased(t) => task[t].by \in Seats /\ task[t].n \in 1 .. MaxAttempts

\* An answer is awaited for a task.
AnswerForATask == pc = "answer" => cur \in Tasks

\* Nothing of a dead process is left.
DownIsEmpty == pc = "down" => queue = <<>> /\ seen = {} /\ \A t \in Tasks : ~Running(t)

\* Unless it knows of a failed write, the scheduler that loaded the queue has
\* it in the file, and one that did not has queued nothing.
FileKnown == ~unsaved => IF loaded THEN file = queue ELSE queue = <<>>

\* A step that runs has its entry.
QueueHasEntry ==
    \A t \in Tasks : Running(t) => In(queue, Check(jobs[t].by, t, "commit"))

\* An ended attempt the scheduler has seen is checked or its check is queued.
SeenQueued == \A a \in seen : a \in checked \/ In(queue, Check(a.by, a.task, a.how))

\* The invariant, part by part: the store, the tick, the seats, the queue with
\* the commit steps, and the history.
WorldInv ==
    /\ task \in [Tasks -> TaskRecord] /\ ended \subseteq EndedAttempt /\ alive \subseteq Seats
    /\ IsFiniteSet(ended)
    /\ HolderIsASeat
TickInv ==
    /\ pc \in {"down", "idle", "expire", "exits", "sweep", "commit", "answer", "hold", "roster",
               "dispatch", "close"}
    /\ list \in [Tasks -> Report \cup {NoReport}] /\ cur \in Tasks \cup {None}
    /\ holding \in [Seats -> {"lease", "report", "nothing"}]
    /\ AnswerForATask /\ DownIsEmpty
MemoryInv ==
    /\ seats \in [Seats -> {"absent"} \cup Usable \cup Closing]
    /\ roster \in {"new", "owed", "settled"} /\ draining \in BOOLEAN
QueueInv ==
    /\ queue \in Seq(Item) /\ file \in Seq(Item)
    /\ loaded \in BOOLEAN /\ unsaved \in BOOLEAN
    /\ jobs \in [Tasks -> Job \cup {NoJob}]
    /\ FileKnown
    /\ QueueHasEntry
SeenInv == seen \subseteq ended /\ checked \subseteq ended /\ SeenQueued


IInv == WorldInv /\ TickInv /\ MemoryInv /\ QueueInv /\ SeenInv

\* An entry made by Check is one of the queue's entries.
LEMMA CheckIsAnItem ==
    ASSUME NEW h \in Seats, NEW t \in Tasks \cup {None},
           NEW why \in {"commit", "failed", "expired", "unclaimed", "gone", "restart"}
    PROVE  Check(h, t, why) \in Item
<1>1. 0 \in 0 .. MaxDeferrals
  BY DeferralLimit
<1>2. QED
  BY <1>1 DEF Check, Item

\* What is queued stays queued when more is put behind it.
LEMMA InFront ==
    ASSUME NEW S, NEW q \in Seq(S), NEW r \in Seq(S), NEW it, In(q, it)
    PROVE  In(q \o r, it)
<1>1. PICK i \in DOMAIN q : Same(q[i], it)
  BY DEF In
<1>2. i \in DOMAIN (q \o r) /\ (q \o r)[i] = q[i]
  OBVIOUS
<1>3. QED
  BY <1>1, <1>2 DEF In

\* What is put behind is queued.
LEMMA InBehind ==
    ASSUME NEW S, NEW q \in Seq(S), NEW r \in Seq(S), NEW it, In(r, it)
    PROVE  In(q \o r, it)
<1>1. PICK i \in DOMAIN r : Same(r[i], it)
  BY DEF In
<1>2. Len(q) + i \in DOMAIN (q \o r) /\ (q \o r)[Len(q) + i] = r[i]
  OBVIOUS
<1>3. QED
  BY <1>1, <1>2 DEF In

\* An entry at a place that is kept stays queued.
LEMMA InPicked ==
    ASSUME NEW S, NEW q \in Seq(S), NEW keep \in SUBSET DOMAIN q, NEW it, NEW i \in keep,
           Same(q[i], it)
    PROVE  In(Pick(q, keep), it)
<1>1. PICK n \in DOMAIN Pick(q, keep) : Pick(q, keep)[n] = q[i]
  BY PickItems
<1>2. QED
  BY <1>1 DEF In

\* An entry is the same as itself.
LEMMA SameAsItself == ASSUME NEW it PROVE Same(it, it)
  BY DEF Same

\* Two lists of entries make one.
LEMMA ConcatItems ==
    ASSUME NEW S, NEW q \in Seq(S), NEW r \in Seq(S)
    PROVE  q \o r \in Seq(S)
  OBVIOUS

\* Fresh adds what is not queued yet and loses nothing.
LEMMA FreshItems ==
    ASSUME NEW q \in Seq(Item), NEW items, items \subseteq Item, IsFiniteSet(items)
    PROVE  /\ Fresh(q, items) \in Seq(Item)
           /\ \A it \in items : In(Fresh(q, items), it)
           /\ \A it : In(q, it) => In(Fresh(q, items), it)
<1> DEFINE new == {it \in items : ~In(q, it)}
           s == SetToSeq(new)
<1>1. IsFiniteSet(new) /\ new \subseteq Item
  BY FS_Subset
<1>2. s \in Seq(Item) /\ \A x \in new : \E n \in DOMAIN s : s[n] = x
  <2> HIDE DEF new
  <2>1. QED BY <1>1, SetToSeqItems
<1>3. Fresh(q, items) = q \o s
  BY DEF Fresh
<1> HIDE DEF s
<1>4. \A it : In(q, it) => In(q \o s, it)
  BY <1>2, InFront
<1>5. ASSUME NEW it \in items
      PROVE  In(q \o s, it)
  <2>1. CASE In(q, it)
    BY <2>1, <1>4
  <2>2. CASE ~In(q, it)
    <3>1. In(s, it)
      BY <2>2, <1>2, SameAsItself DEF In
    <3>2. QED
      BY <3>1, <1>2, InBehind
  <2>3. QED
    BY <2>1, <2>2
<1>6. QED
  BY <1>2, <1>3, <1>4, <1>5

\* Save changes the queue, and the file follows or is known to be behind.
LEMMA SaveQueue ==
    ASSUME NEW q \in Seq(Item), file \in Seq(Item), loaded' \in BOOLEAN, Save(q)
    PROVE  /\ queue' = q /\ file' \in Seq(Item) /\ unsaved' \in BOOLEAN /\ FileKnown'
  BY DEF Save, FileKnown

\* So does SaveIfChanged.
LEMMA SaveIfChangedQueue ==
    ASSUME NEW q \in Seq(Item), QueueInv, SaveIfChanged(q)
    PROVE  /\ queue' = q /\ file' \in Seq(Item) /\ unsaved' \in BOOLEAN /\ FileKnown'
           /\ loaded' = loaded
<1>1. loaded' = loaded /\ loaded' \in BOOLEAN /\ file \in Seq(Item)
  BY DEF SaveIfChanged, QueueInv
<1>2. CASE q = queue
  BY <1>1, <1>2 DEF SaveIfChanged, QueueInv, FileKnown
<1>3. CASE q # queue
  <2>1. Save(q)
    BY <1>3 DEF SaveIfChanged
  <2>2. QED
    BY <1>1, <2>1, SaveQueue
<1>4. QED
  BY <1>2, <1>3

\* The entry of a running step is in the file when the file is not behind.
LEMMA StepHasEntryFromParts == QueueInv => StepHasEntry
<1> SUFFICES ASSUME QueueInv, NEW t \in Tasks, Running(t)
             PROVE  LET entry == Check(jobs[t].by, t, "commit")
                    IN  In(queue, entry) /\ (unsaved \/ In(file, entry))
  BY DEF StepHasEntry
<1> DEFINE entry == Check(jobs[t].by, t, "commit")
<1>1. In(queue, entry)
  BY DEF QueueInv, QueueHasEntry
<1>2. ~unsaved => loaded
  BY <1>1 DEF QueueInv, FileKnown, In
<1>3. ~unsaved => In(file, entry)
  BY <1>1, <1>2 DEF QueueInv, FileKnown
<1>4. QED
  BY <1>1, <1>3

\* The invariant has the types in it.
LEMMA TypeOKFromParts == IInv => TypeOK
  BY DEF IInv, WorldInv, TickInv, MemoryInv, QueueInv, SeenInv, TypeOK

----------------------------------------------------------------------------
(* Steps of the seats, the lead and the commit steps *)

\* A step outside the scheduler leaves all of its state as it is.
LEMMA OnlyTheWorld ==
    ASSUME IInv, UNCHANGED <<tick, memory, jobs, file, checked>>, ended \subseteq ended'
    PROVE  TickInv' /\ MemoryInv' /\ QueueInv' /\ SeenInv'
<1>1. TickInv'
  BY DEF IInv, TickInv, AnswerForATask, DownIsEmpty, Running, tick, memory
<1>2. MemoryInv'
  BY DEF IInv, MemoryInv, memory
<1>3. QueueInv'
  BY DEF IInv, QueueInv, memory, FileKnown, QueueHasEntry, Running, In, Check
<1>4. SeenInv'
  BY DEF IInv, SeenInv, memory, SeenQueued, In, Check
<1>5. QED
  BY <1>1, <1>2, <1>3, <1>4

\* The attempt that ends with a lease is a proper one.
LEMMA LeasedIsNumbered ==
    ASSUME WorldInv, NEW t \in Tasks, Leased(t)
    PROVE  /\ task[t].by \in Seats /\ task[t].n \in 1 .. MaxAttempts
           /\ \A how \in {"failed", "expired", "unclaimed"} : EndedAs(t, how) \in EndedAttempt
  BY DEF WorldInv, HolderIsASeat, EndedAs, EndedAttempt

\* A task written with a seat and an attempt where its state needs them.
LEMMA Retasked ==
    ASSUME WorldInv, NEW t \in Tasks, NEW state, NEW by, NEW n,
           [state |-> state, by |-> by, n |-> n] \in TaskRecord,
           state \in {"granted", "leased", "reported"} => by \in Seats /\ n # 0,
           Retask(t, state, by, n)
    PROVE  task' \in [Tasks -> TaskRecord] /\ HolderIsASeat'
<1>1. task' \in [Tasks -> TaskRecord]
  BY DEF WorldInv, Retask
<1>2. ASSUME NEW u \in Tasks, Leased(u)'
      PROVE  task'[u].by \in Seats /\ task'[u].n \in 1 .. MaxAttempts
  <2>1. CASE u = t
    <3>1. task'[u] = [state |-> state, by |-> by, n |-> n]
      BY <2>1 DEF WorldInv, Retask
    <3>2. n \in 0 .. MaxAttempts /\ n # 0 /\ by \in Seats
      BY <3>1, <1>2 DEF TaskRecord, Leased
    <3>3. QED
      BY <3>1, <3>2, AttemptBound
  <2>2. CASE u # t
    <3>1. task'[u] = task[u]
      BY <2>2 DEF WorldInv, Retask
    <3>2. QED
      BY <3>1, <1>2 DEF WorldInv, HolderIsASeat, Leased
  <2>3. QED
    BY <2>1, <2>2
<1>3. QED
  BY <1>1, <1>2 DEF HolderIsASeat

\* A seat claims a task.
LEMMA ClaimKeeps ==
    ASSUME IInv, NEW t \in Tasks, NEW h \in Seats, Claim(t, h)
    PROVE  IInv'
<1>1. WorldInv /\ task[t] \in TaskRecord
  BY DEF IInv, WorldInv
<1>2. UNCHANGED <<ended, alive, tick, memory, jobs, file, checked>>
  BY DEF Claim
<1>3. task' \in [Tasks -> TaskRecord] /\ HolderIsASeat'
  <2>1. CASE task[t].n < MaxAttempts /\ Retask(t, "leased", h, task[t].n + 1)
    <3>1. task[t].n + 1 \in 0 .. MaxAttempts /\ task[t].n + 1 # 0
      BY <1>1, <2>1, AttemptBound DEF TaskRecord
    <3>2. [state |-> "leased", by |-> h, n |-> task[t].n + 1] \in TaskRecord
      BY <3>1 DEF TaskRecord
    <3>3. QED
      BY <1>1, <2>1, <3>1, <3>2, Retasked
  <2>2. CASE task[t].state = "granted" /\ Retask(t, "leased", h, task[t].n)
    <3>1. task[t].n \in 1 .. MaxAttempts
      BY <1>1, <2>2, LeasedIsNumbered DEF Leased
    <3>2. [state |-> "leased", by |-> h, n |-> task[t].n] \in TaskRecord
      BY <1>1 DEF TaskRecord
    <3>3. QED
      BY <1>1, <2>2, <3>1, <3>2, Retasked
  <2>3. QED
    BY <2>1, <2>2 DEF Claim
<1>4. WorldInv'
  BY <1>1, <1>2, <1>3 DEF WorldInv
<1>5. QED
  BY <1>2, <1>4, OnlyTheWorld DEF IInv

\* A seat reports.
LEMMA DoneKeeps ==
    ASSUME IInv, NEW t \in Tasks, Done(t)
    PROVE  IInv'
<1>1. WorldInv /\ task[t] \in TaskRecord
  BY DEF IInv, WorldInv
<1>2. UNCHANGED <<ended, alive, tick, memory, jobs, file, checked>>
  BY DEF Done
<1>3. task[t].n \in 1 .. MaxAttempts /\ task[t].by \in Seats
  BY <1>1, LeasedIsNumbered DEF Leased, Done
<1>4. [state |-> "reported", by |-> task[t].by, n |-> task[t].n] \in TaskRecord
  BY <1>1 DEF TaskRecord
<1>5. task' \in [Tasks -> TaskRecord] /\ HolderIsASeat'
  BY <1>1, <1>3, <1>4, Retasked DEF Done
<1>6. WorldInv'
  BY <1>1, <1>2, <1>5 DEF WorldInv
<1>7. QED
  BY <1>2, <1>6, OnlyTheWorld DEF IInv

\* A task that nobody holds any more.
LEMMA Freed ==
    ASSUME WorldInv, NEW t \in Tasks, NEW state \in {"pending", "stuck", "cancelled", "completed"},
           Retask(t, state, None, task[t].n)
    PROVE  task' \in [Tasks -> TaskRecord] /\ HolderIsASeat'
<1>1. task[t] \in TaskRecord
  BY DEF WorldInv
<1>2. [state |-> state, by |-> None, n |-> task[t].n] \in TaskRecord
  BY <1>1 DEF TaskRecord
<1>3. QED
  BY <1>2, Retasked

\* A seat gives up: one more ended attempt.
LEMMA FailKeeps ==
    ASSUME IInv, NEW t \in Tasks, Fail(t)
    PROVE  IInv'
<1>1. WorldInv
  BY DEF IInv
<1>2. UNCHANGED <<alive, tick, memory, jobs, file, checked>>
  BY DEF Fail
<1>3. task' \in [Tasks -> TaskRecord] /\ HolderIsASeat'
  BY <1>1, Freed DEF Fail
<1>4. EndedAs(t, "failed") \in EndedAttempt
  BY <1>1, LeasedIsNumbered DEF Fail
<1>5. ended' = ended \cup {EndedAs(t, "failed")}
  BY DEF Fail
<1>6. IsFiniteSet(ended')
  BY <1>1, <1>5, FS_AddElement DEF WorldInv
<1>7. WorldInv'
  BY <1>1, <1>2, <1>3, <1>4, <1>5, <1>6 DEF WorldInv
<1>8. QED
  BY <1>2, <1>5, <1>7, OnlyTheWorld DEF IInv

\* The lead takes back or cancels, or the scheduler finds no seat.
LEMMA ReturnKeeps ==
    ASSUME IInv, NEW t \in Tasks, Return(t) \/ Cancel(t) \/ Stick(t)
    PROVE  IInv'
<1>1. WorldInv
  BY DEF IInv
<1>2. UNCHANGED <<ended, alive, tick, memory, jobs, file, checked>>
  BY DEF Return, Cancel, Stick
<1>3. task' \in [Tasks -> TaskRecord] /\ HolderIsASeat'
  BY <1>1, Freed DEF Return, Cancel, Stick
<1>4. WorldInv'
  BY <1>1, <1>2, <1>3 DEF WorldInv
<1>5. QED
  BY <1>2, <1>4, OnlyTheWorld DEF IInv

\* The scheduler grants a task.
LEMMA GrantKeeps ==
    ASSUME IInv, NEW t \in Tasks, NEW h \in Seats, Grant(t, h)
    PROVE  IInv'
<1>1. WorldInv /\ task[t] \in TaskRecord
  BY DEF IInv, WorldInv
<1>2. UNCHANGED <<ended, alive, tick, memory, jobs, file, checked>>
  BY DEF Grant
<1>3. task[t].n + 1 \in 0 .. MaxAttempts /\ task[t].n + 1 # 0
  BY <1>1, AttemptBound DEF TaskRecord, Grant
<1>4. [state |-> "granted", by |-> h, n |-> task[t].n + 1] \in TaskRecord
  BY <1>3 DEF TaskRecord
<1>5. task' \in [Tasks -> TaskRecord] /\ HolderIsASeat'
  BY <1>1, <1>3, <1>4, Retasked DEF Grant
<1>6. WorldInv'
  BY <1>1, <1>2, <1>5 DEF WorldInv
<1>7. QED
  BY <1>2, <1>6, OnlyTheWorld DEF IInv

\* A seat dies.
LEMMA DieKeeps ==
    ASSUME IInv, NEW h \in Seats, Die(h)
    PROVE  IInv'
<1>1. UNCHANGED <<task, ended, tick, memory, jobs, file, checked>> /\ alive' \subseteq alive
  BY DEF Die
<1>2. WorldInv'
  BY <1>1 DEF IInv, WorldInv, HolderIsASeat, Leased
<1>3. QED
  BY <1>1, <1>2, OnlyTheWorld DEF IInv

\* A commit step ends: one step less runs.
LEMMA StepEndsKeeps ==
    ASSUME IInv, NEW t \in Tasks, StepEnds(t)
    PROVE  IInv'
<1>1. UNCHANGED <<world, tick, memory, file, checked>>
  BY DEF StepEnds
<1>2. jobs \in [Tasks -> Job \cup {NoJob}] /\ Running(t)
  BY DEF StepEnds, IInv, QueueInv
<1>3. PICK r \in {"ok", "refused", "deferred"} : jobs' = [jobs EXCEPT ![t].result = r]
  BY DEF StepEnds
<1>4. jobs[t] \in Job
  BY <1>2 DEF Running, NoJob
<1>5. jobs' \in [Tasks -> Job \cup {NoJob}]
  BY <1>2, <1>3, <1>4 DEF Job
<1>6. \A u \in Tasks : Running(u)' => Running(u) /\ jobs'[u].by = jobs[u].by
  BY <1>2, <1>3 DEF Running
<1>7. DownIsEmpty'
  BY <1>1, <1>2, <1>6 DEF IInv, TickInv, DownIsEmpty, tick, memory
<1>8. WorldInv' /\ TickInv' /\ MemoryInv' /\ SeenInv'
  BY <1>1, <1>7 DEF IInv, WorldInv, HolderIsASeat, Leased, TickInv, AnswerForATask, MemoryInv,
         SeenInv, SeenQueued, In, Check, world, tick, memory
<1>9. QueueHasEntry'
  BY <1>1, <1>6 DEF IInv, QueueInv, QueueHasEntry, In, Check, memory
<1>10. QueueInv'
  BY <1>1, <1>5, <1>9 DEF IInv, QueueInv, FileKnown, memory
<1>11. QED
  BY <1>8, <1>10 DEF IInv

----------------------------------------------------------------------------
(* Steps of the process *)

\* The queue after a load holds what was queued before it.
LEMMA LoadedItems ==
    ASSUME QueueInv
    PROVE  LoadedQueue \in Seq(Item) /\ \A it : In(queue, it) => In(LoadedQueue, it)
<1>1. queue \in Seq(Item) /\ file \in Seq(Item)
  BY DEF QueueInv
<1>2. Pick(file, {i \in DOMAIN file : ~In(queue, file[i])}) \in Seq(Item)
  BY <1>1, PickItems
<1>3. CASE loaded
  BY <1>1, <1>3 DEF LoadedQueue
<1>4. CASE ~loaded
  <2>1. LoadedQueue = queue \o Pick(file, {i \in DOMAIN file : ~In(queue, file[i])})
    BY <1>4 DEF LoadedQueue
  <2>2. QED
    BY <1>1, <1>2, <2>1, InFront, ConcatItems
<1>5. QED
  BY <1>3, <1>4

\* The entries of the seats a restart is to close.
LEMMA RestartChecks ==
    ASSUME NEW misfit, misfit \subseteq Seats
    PROVE  SetToSeq({Check(h, None, "restart") : h \in misfit}) \in Seq(Item)
<1> DEFINE checks == {Check(h, None, "restart") : h \in misfit}
           f == [h \in misfit |-> Check(h, None, "restart")]
<1>1. IsFiniteSet(misfit)
  BY FiniteSquad, FS_Subset
<1>2. f \in Surjection(misfit, checks)
  BY DEF Surjection
<1>3. IsFiniteSet(checks)
  BY <1>1, <1>2, FS_Surjection
<1>4. checks \subseteq Item
  BY CheckIsAnItem
<1>5. QED
  BY <1>3, <1>4, SetToSeqItems

\* A process that ends forgets its queue together with its steps.
LEMMA LoseKeeps ==
    ASSUME IInv, Lose, UNCHANGED <<file, checked>>
    PROVE  TickInv' /\ MemoryInv' /\ QueueInv' /\ (ended \subseteq ended' => SeenInv')
<1>1. TickInv'
  <2>1. /\ list' \in [Tasks -> Report \cup {NoReport}]
        /\ holding' \in [Seats -> {"lease", "report", "nothing"}]
    BY DEF Lose, NoReports, Nothing
  <2>2. DownIsEmpty' /\ AnswerForATask'
    BY DEF Lose, DownIsEmpty, AnswerForATask, Running, NoJob
  <2>3. QED
    <3>1. pc' = "down" /\ cur' = None
      BY DEF Lose
    <3>2. QED
      BY <2>1, <2>2, <3>1 DEF TickInv
<1>2. MemoryInv'
  BY DEF Lose, MemoryInv
<1>3. QueueInv'
  <2>1. queue' = <<>> /\ loaded' = FALSE /\ unsaved' = FALSE /\ file' = file /\ file \in Seq(Item)
    BY DEF Lose, IInv, QueueInv
  <2>2. jobs' = [t \in Tasks |-> NoJob]
    BY DEF Lose
  <2>3. QueueHasEntry'
    BY <2>2 DEF QueueHasEntry, Running, NoJob
  <2>4. FileKnown'
    BY <2>1 DEF FileKnown
  <2>5. jobs' \in [Tasks -> Job \cup {NoJob}]
    BY <2>2
  <2>6. queue' \in Seq(Item)
    BY <2>1
  <2>7. QED
    BY <2>1, <2>3, <2>4, <2>5, <2>6 DEF QueueInv
<1>4. ended \subseteq ended' => SeenInv'
  <2>1. seen' = {} /\ checked' = checked /\ checked \subseteq ended
    BY DEF Lose, IInv, SeenInv
  <2>2. SeenQueued'
    BY <2>1 DEF SeenQueued
  <2>3. QED
    BY <2>1, <2>2 DEF SeenInv
<1>5. QED
  BY <1>1, <1>2, <1>3, <1>4

\* The process dies.
LEMMA CrashKeeps ==
    ASSUME IInv, Crash
    PROVE  IInv'
<1>1. Lose /\ UNCHANGED <<task, ended, alive, file, checked>>
  BY DEF Crash, world
<1>2. WorldInv'
  BY <1>1 DEF IInv, WorldInv, HolderIsASeat, Leased
<1>3. QED
  BY <1>1, <1>2, LoseKeeps DEF IInv

\* The process ends with the error of a launch.
LEMMA LaunchFailsKeeps ==
    ASSUME IInv, LaunchFails
    PROVE  IInv'
<1>1. /\ Lose /\ UNCHANGED <<task, ended, file, checked>>
      /\ alive' = alive \/ alive' \in SUBSET Seats
  BY DEF LaunchFails
<1>2. WorldInv'
  BY <1>1 DEF IInv, WorldInv, HolderIsASeat, Leased
<1>3. QED
  BY <1>1, <1>2, LoseKeeps DEF IInv

\* A new process adopts the live seats and loads the queue, or fails to.
LEMMA StartKeeps ==
    ASSUME IInv, Start
    PROVE  IInv'
<1>1. /\ UNCHANGED <<task, ended, alive, list, cur, holding, seen, roster, draining, jobs, checked>>
      /\ pc = "down" /\ pc' = "idle"
  BY DEF Start, world
<1>2. QueueInv /\ loaded \in BOOLEAN /\ file \in Seq(Item)
  BY DEF IInv, QueueInv
<1>3. seen = {} /\ \A t \in Tasks : ~Running(t)
  BY <1>1 DEF IInv, TickInv, DownIsEmpty
<1>4. PICK misfit \in SUBSET alive :
          /\ seats' = [h \in Seats |-> IF h \in misfit THEN "restart"
                                       ELSE IF h \in alive THEN "up" ELSE "absent"]
          /\ LET restarts == {Check(h, None, "restart") : h \in misfit}
             IN  IF alive = {}
                 THEN UNCHANGED <<queue, file, loaded, unsaved, troubles>>
                 ELSE \/ loaded' = TRUE /\ Save(LoadedQueue \o SetToSeq(restarts))
                      \/ /\ Fault /\ UNCHANGED <<loaded, file>>
                         /\ queue' = SetToSeq(restarts) /\ unsaved' = TRUE
  BY DEF Start
<1> DEFINE s == SetToSeq({Check(h, None, "restart") : h \in misfit})
<1>5. s \in Seq(Item)
  BY RestartChecks DEF IInv, WorldInv
<1> HIDE DEF s
<1>6. LoadedQueue \o s \in Seq(Item)
  BY <1>2, <1>5, LoadedItems, ConcatItems
<1>7. /\ queue' \in Seq(Item) /\ file' \in Seq(Item) /\ loaded' \in BOOLEAN /\ unsaved' \in BOOLEAN
      /\ FileKnown'
  <2>1. CASE UNCHANGED <<queue, file, loaded, unsaved>>
    BY <2>1 DEF IInv, QueueInv, FileKnown
  <2>2. CASE loaded' = TRUE /\ Save(LoadedQueue \o s)
    BY <2>2, <1>2, <1>6, SaveQueue
  <2>3. CASE UNCHANGED <<loaded, file>> /\ queue' = s /\ unsaved' = TRUE
    BY <2>3, <1>2, <1>5 DEF FileKnown
  <2>4. QED
    BY <1>4, <2>1, <2>2, <2>3 DEF s
<1>8. QueueInv'
  <2>1. QueueHasEntry'
    BY <1>1, <1>3 DEF QueueHasEntry, Running
  <2>2. QED
    BY <1>1, <1>2, <1>7, <2>1 DEF QueueInv
<1>9. WorldInv' /\ TickInv'
  BY <1>1 DEF IInv, WorldInv, HolderIsASeat, Leased, TickInv, AnswerForATask, DownIsEmpty
<1>10. MemoryInv'
  <2>1. seats' \in [Seats -> {"absent"} \cup Usable \cup Closing]
    BY <1>4 DEF Usable, Closing
  <2>2. QED
    BY <1>1, <2>1 DEF IInv, MemoryInv
<1>11. SeenInv'
  BY <1>1, <1>3 DEF IInv, SeenInv, SeenQueued
<1>12. QED
  BY <1>8, <1>9, <1>10, <1>11 DEF IInv

\* No report listed is a list of reports.
LEMMA NoReportsTyped == NoReports \in [Tasks -> Report \cup {NoReport}]
  BY DEF NoReports

\* What the seats hold, as the tick lists it.
LEMMA HoldingTyped ==
    /\ Holding \in [Seats -> {"lease", "report", "nothing"}]
    /\ Nothing \in [Seats -> {"lease", "report", "nothing"}]
  BY DEF Holding, Nothing

\* The steps that leave the queue, the steps and the history alone.
LEMMA QueueAlone ==
    ASSUME IInv, UNCHANGED <<queue, file, loaded, unsaved, jobs, seen, ended, checked>>
    PROVE  QueueInv' /\ SeenInv'
<1>1. QueueInv'
  BY DEF IInv, QueueInv, FileKnown, QueueHasEntry, Running, In, Check
<1>2. SeenInv'
  BY DEF IInv, SeenInv, SeenQueued, In, Check
<1>3. QED
  BY <1>1, <1>2

\* The tick starts over.
LEMMA TickErrorKeeps ==
    ASSUME IInv, TickError
    PROVE  IInv'
<1>1. /\ UNCHANGED <<task, ended, alive, cur, memory, jobs, file, checked>>
      /\ pc' = "idle" /\ list' = NoReports /\ holding' = Nothing
  BY DEF TickError, world
<1>2. WorldInv' /\ MemoryInv'
  BY <1>1 DEF IInv, WorldInv, HolderIsASeat, Leased, MemoryInv, memory
<1>3. TickInv'
  BY <1>1, NoReportsTyped, HoldingTyped DEF IInv, TickInv, AnswerForATask, DownIsEmpty
<1>4. QED
  BY <1>1, <1>2, <1>3, QueueAlone DEF IInv, memory

\* What a function takes on a finite set is finite.
LEMMA FiniteImage ==
    ASSUME NEW D, IsFiniteSet(D), NEW f, DOMAIN f = D
    PROVE  IsFiniteSet({f[x] : x \in D})
<1> DEFINE T == {f[x] : x \in D}
           g == [x \in D |-> f[x]]
<1>1. g \in Surjection(D, T)
  BY DEF Surjection
<1>2. QED
  BY <1>1, FS_Surjection

\* The steps that save a queue in which nothing queued before is missing.
LEMMA QueueGrows ==
    ASSUME IInv, UNCHANGED <<jobs, seen, checked>>, ended \subseteq ended',
           queue' \in Seq(Item), file' \in Seq(Item), loaded' \in BOOLEAN, unsaved' \in BOOLEAN,
           FileKnown', \A it : In(queue, it) => In(queue', it)
    PROVE  QueueInv' /\ SeenInv'
<1>1. QueueHasEntry'
  BY DEF IInv, QueueInv, QueueHasEntry, Running, Check
<1>2. SeenQueued'
  BY DEF IInv, SeenInv, SeenQueued, Check
<1>3. QED
  BY <1>1, <1>2 DEF IInv, QueueInv, SeenInv

----------------------------------------------------------------------------
(* Steps of the tick *)

\* The lead's relaunch is taken.
LEMMA TakeRelaunchKeeps ==
    ASSUME IInv, TakeRelaunch
    PROVE  IInv'
<1>1. /\ UNCHANGED <<task, ended, alive, tick, seats, queue, seen, loaded, unsaved, roster, jobs,
                     file, checked>>
      /\ draining' = TRUE
  BY DEF TakeRelaunch, world
<1>2. WorldInv' /\ MemoryInv'
  BY <1>1 DEF IInv, WorldInv, HolderIsASeat, Leased, MemoryInv
<1>3. TickInv'
  BY <1>1 DEF IInv, TickInv, AnswerForATask, DownIsEmpty, Running, tick
<1>4. QED
  BY <1>1, <1>2, <1>3, QueueAlone DEF IInv

\* The checks of the seats found gone are queued.
LEMMA ApplyEventsKeeps ==
    ASSUME IInv, ApplyEvents
    PROVE  IInv'
<1> DEFINE gone == {h \in Seats \ alive : seats[h] \in Usable}
           held(h) == IF HeldBy(h) = {} THEN None ELSE CHOOSE t \in HeldBy(h) : TRUE
           items == {Check(h, held(h), "gone") : h \in gone}
           f == [h \in gone |-> Check(h, held(h), "gone")]
<1>1. /\ UNCHANGED <<task, ended, alive, list, cur, holding, seen, roster, draining, jobs,
                     checked>>
      /\ pc' = "expire"
      /\ SaveIfChanged(queue \o SetToSeq(items))
      /\ \E stirs \in SUBSET {h \in alive : seats[h] = "mute"} :
            seats' = [h \in Seats |-> IF h \in gone THEN "absent"
                                      ELSE IF h \in stirs THEN "up" ELSE seats[h]]
  BY DEF ApplyEvents, world
<1>2. \A h \in gone : Check(h, held(h), "gone") \in Item
  <2> SUFFICES ASSUME NEW h \in gone
               PROVE  Check(h, held(h), "gone") \in Item
    OBVIOUS
  <2>1. held(h) \in Tasks \cup {None}
    BY DEF HeldBy
  <2> HIDE DEF held
  <2>2. QED
    BY <2>1, CheckIsAnItem
<1>3. IsFiniteSet(items)
  <2>1. IsFiniteSet(gone)
    BY FiniteSquad, FS_Subset
  <2>2. DOMAIN f = gone
    OBVIOUS
  <2>3. items = {f[h] : h \in gone}
    OBVIOUS
  <2> HIDE DEF gone, f, items
  <2>4. QED
    BY <2>1, <2>2, <2>3, FiniteImage
<1>4. items \subseteq Item
  BY <1>2
<1> HIDE DEF items
<1>5. SetToSeq(items) \in Seq(Item)
  BY <1>3, <1>4, SetToSeqItems
<1>6. PICK s : s = SetToSeq(items)
  OBVIOUS
<1>7. QueueInv /\ queue \in Seq(Item)
  BY DEF IInv, QueueInv
<1>8. queue \o s \in Seq(Item) /\ \A it : In(queue, it) => In(queue \o s, it)
  BY <1>5, <1>6, <1>7, ConcatItems, InFront
<1>9. /\ queue' = queue \o s /\ file' \in Seq(Item) /\ unsaved' \in BOOLEAN /\ FileKnown'
      /\ loaded' = loaded
  BY <1>1, <1>6, <1>7, <1>8, SaveIfChangedQueue
<1>10. QueueInv' /\ SeenInv'
  BY <1>1, <1>7, <1>8, <1>9, QueueGrows DEF QueueInv
<1>11. WorldInv' /\ TickInv'
  BY <1>1 DEF IInv, WorldInv, HolderIsASeat, Leased, TickInv, AnswerForATask, DownIsEmpty
<1>12. MemoryInv'
  BY <1>1 DEF IInv, MemoryInv, Usable
<1>13. QED
  BY <1>10, <1>11, <1>12 DEF IInv

\* Leases expire: each is one more ended attempt, not seen yet.
LEMMA ExpireKeeps ==
    ASSUME IInv, Expire
    PROVE  IInv'
<1>1. /\ UNCHANGED <<alive, list, cur, holding, queue, seen, loaded, unsaved, roster, draining,
                     jobs, file, checked>>
      /\ pc' = "exits"
  BY DEF Expire
<1> DEFINE outcome(t) == IF task[t].state = "leased" THEN "expired" ELSE "unclaimed"
<1>2. PICK due \in SUBSET {t \in Tasks : task[t].state \in {"granted", "leased"}} :
          LET holders(how) == {task[t].by : t \in {u \in due : outcome(u) = how}}
          IN  /\ task' = [t \in Tasks |->
                     IF t \in due THEN [task[t] EXCEPT !.state = "pending", !.by = None]
                     ELSE task[t]]
              /\ ended' = ended \cup {EndedAs(t, outcome(t)) : t \in due}
              /\ seats' = [h \in Seats |->
                     IF seats[h] \in Usable /\ h \in holders("expired") THEN "expired"
                     ELSE IF seats[h] = "up" /\ h \in holders("unclaimed") THEN "mute"
                     ELSE seats[h]]
  BY DEF Expire
<1> DEFINE over == {EndedAs(t, outcome(t)) : t \in due}
           f == [t \in due |-> EndedAs(t, outcome(t))]
<1>3. WorldInv /\ task \in [Tasks -> TaskRecord] /\ due \subseteq Tasks
  BY DEF IInv, WorldInv
<1>4. over \subseteq EndedAttempt
  <2> SUFFICES ASSUME NEW t \in due
               PROVE  EndedAs(t, outcome(t)) \in EndedAttempt
    OBVIOUS
  <2>1. Leased(t) /\ t \in Tasks
    BY DEF Leased
  <2>2. outcome(t) \in {"failed", "expired", "unclaimed"}
    OBVIOUS
  <2> HIDE DEF outcome
  <2>3. QED
    BY <1>3, <2>1, <2>2, LeasedIsNumbered
<1>5. IsFiniteSet(over)
  <2>1. IsFiniteSet(due)
    BY FiniteSquad, FS_Subset
  <2>2. DOMAIN f = due /\ over = {f[t] : t \in due}
    OBVIOUS
  <2> HIDE DEF f, over
  <2>3. QED
    BY <2>1, <2>2, FiniteImage
<1>6. task' \in [Tasks -> TaskRecord] /\ HolderIsASeat'
  <2>1. \A t \in Tasks :
            /\ t \in due => task'[t] = [task[t] EXCEPT !.state = "pending", !.by = None]
            /\ t \notin due => task'[t] = task[t]
    BY <1>2
  <2>2. ASSUME NEW t \in Tasks
        PROVE  /\ task'[t] \in TaskRecord
               /\ t \in due => task'[t].state = "pending"
    <3>1. task[t] \in TaskRecord
      BY <1>3
    <3>2. CASE t \in due
      <4>1. task'[t] = [task[t] EXCEPT !.state = "pending", !.by = None]
        BY <2>1, <3>2
      <4>2. QED
        BY <3>1, <4>1 DEF TaskRecord
    <3>3. QED
      BY <2>1, <3>1, <3>2
  <2>3. task' \in [Tasks -> TaskRecord]
    BY <1>2, <2>2
  <2>5. HolderIsASeat'
    <3>1. \A t \in Tasks : Leased(t)' => task'[t] = task[t]
      BY <2>1, <2>2 DEF Leased
    <3>2. QED
      BY <1>3, <3>1 DEF WorldInv, HolderIsASeat, Leased
  <2>6. QED
    BY <2>3, <2>5
<1>7. ended' = ended \cup over
  BY <1>2
<1> HIDE DEF over
<1>8. WorldInv'
  BY <1>1, <1>3, <1>4, <1>5, <1>6, <1>7, FS_Union DEF WorldInv
<1>9. MemoryInv'
  <2>1. seats' \in [Seats -> {"absent"} \cup Usable \cup Closing]
    BY <1>2 DEF IInv, MemoryInv, Usable, Closing
  <2>2. QED
    BY <1>1, <2>1 DEF IInv, MemoryInv
<1>10. TickInv'
  BY <1>1 DEF IInv, TickInv, AnswerForATask, DownIsEmpty
<1>11. QueueInv' /\ SeenInv'
  BY <1>1, <1>7, QueueGrows DEF IInv, QueueInv, FileKnown
<1>12. QED
  BY <1>8, <1>9, <1>10, <1>11 DEF IInv

\* A scan queues the check of every attempt not seen before.
LEMMA ScannedItems ==
    ASSUME WorldInv, NEW q \in Seq(Item)
    PROVE  /\ Scanned(q) \in Seq(Item)
           /\ \A it : In(q, it) => In(Scanned(q), it)
           /\ \A a \in ended \ seen : In(Scanned(q), Check(a.by, a.task, a.how))
<1> DEFINE D == ended \ seen
           items == {Check(a.by, a.task, a.how) : a \in D}
           f == [a \in D |-> Check(a.by, a.task, a.how)]
<1>1. \A a \in D : Check(a.by, a.task, a.how) \in Item
  <2> SUFFICES ASSUME NEW a \in D
               PROVE  Check(a.by, a.task, a.how) \in Item
    OBVIOUS
  <2>1. a.by \in Seats /\ a.task \in Tasks /\ a.how \in {"failed", "expired", "unclaimed"}
    BY DEF WorldInv, EndedAttempt
  <2>2. QED
    BY <2>1, CheckIsAnItem
<1>2. IsFiniteSet(items)
  <2>1. IsFiniteSet(D)
    BY FS_Subset DEF WorldInv
  <2>2. DOMAIN f = D /\ items = {f[a] : a \in D}
    OBVIOUS
  <2> HIDE DEF f, items, D
  <2>3. QED
    BY <2>1, <2>2, FiniteImage
<1>3. items \subseteq Item
  BY <1>1
<1>4. \A a \in D : Check(a.by, a.task, a.how) \in items
  OBVIOUS
<1>5. Scanned(q) = Fresh(q, items)
  BY DEF Scanned
<1> HIDE DEF items
<1>6. QED
  BY <1>2, <1>3, <1>4, <1>5, FreshItems

\* The exit checks: a decided one goes with its entry into the history, and no
\* commit entry is decided.
LEMMA ExitsKeeps ==
    ASSUME IInv, Exits
    PROVE  IInv'
<1>1. /\ UNCHANGED <<task, ended, alive, cur, holding, roster, draining, jobs>>
      /\ pc' = "sweep"
      /\ list' = [t \in Tasks |-> IF task[t].state = "reported"
                                  THEN [by |-> task[t].by, n |-> task[t].n] ELSE NoReport]
  BY DEF Exits, world
<1>2. WorldInv' /\ WorldInv
  BY <1>1 DEF IInv, WorldInv, HolderIsASeat, Leased
<1>3. TickInv'
  <2>1. ASSUME NEW t \in Tasks, task[t].state = "reported"
        PROVE  [by |-> task[t].by, n |-> task[t].n] \in Report
    <3>1. task[t].by \in Seats /\ task[t].n \in 1 .. MaxAttempts
      BY <1>2, <2>1, LeasedIsNumbered DEF Leased
    <3>2. QED
      BY <3>1 DEF Report
  <2>2. list' \in [Tasks -> Report \cup {NoReport}]
    BY <1>1, <2>1
  <2>3. QED
    BY <1>1, <2>2 DEF IInv, TickInv, AnswerForATask, DownIsEmpty
<1>4. ASSUME loaded' = TRUE, seen' = ended, RunExits(Scanned(LoadedQueue))
      PROVE  MemoryInv' /\ QueueInv' /\ SeenInv'
  <2>1. PICK q : q = Scanned(LoadedQueue)
    OBVIOUS
  <2>2. /\ q \in Seq(Item)
        /\ \A it : In(queue, it) => In(q, it)
        /\ \A a \in ended \ seen : In(q, Check(a.by, a.task, a.how))
    BY <1>2, <2>1, LoadedItems, ScannedItems DEF IInv
  <2>3. PICK refused \in SUBSET {i \in DOMAIN q : Checkable(q, i)} :
        LET closed == {q[i].seat : i \in refused} \cap {h \in Seats : seats[h] \in Usable}
            behind(i) == q[i].seat \in closed /\ \E j \in refused : j < i /\ q[j].seat = q[i].seat
            decided == {i \in DOMAIN q : Checkable(q, i) /\ ~behind(i)}
        IN  /\ Save(Pick(q, DOMAIN q \ decided))
            /\ seats' = [h \in Seats |-> IF h \in closed THEN "refused" ELSE seats[h]]
            /\ checked' = checked \cup
                   {a \in ended : \E i \in decided :
                        q[i].seat = a.by /\ q[i].task = a.task /\ q[i].why = a.how}
    <3>1. RunExits(q)
      BY <1>4, <2>1
    <3>2. QED
      BY <3>1 DEF RunExits
  <2> DEFINE closed == {q[i].seat : i \in refused} \cap {h \in Seats : seats[h] \in Usable}
             behind(i) == q[i].seat \in closed /\ \E j \in refused : j < i /\ q[j].seat = q[i].seat
             decided == {i \in DOMAIN q : Checkable(q, i) /\ ~behind(i)}
             keep == DOMAIN q \ decided
  <2>4. \A i \in DOMAIN q : q[i].why = "commit" => i \in keep
    <3> HIDE DEF behind
    <3>1. \A i \in DOMAIN q : q[i].why = "commit" => ~Checkable(q, i)
      BY DEF Checkable
    <3>2. QED
      BY <3>1
  <2>5. /\ Save(Pick(q, keep))
        /\ seats' = [h \in Seats |-> IF h \in closed THEN "refused" ELSE seats[h]]
        /\ checked' = checked \cup
               {a \in ended : \E i \in decided :
                    q[i].seat = a.by /\ q[i].task = a.task /\ q[i].why = a.how}
    BY <2>3
  <2>6. MemoryInv'
    <3> HIDE DEF closed
    <3>1. seats' \in [Seats -> {"absent"} \cup Usable \cup Closing]
      BY <2>5 DEF IInv, MemoryInv, Usable, Closing
    <3>2. QED
      BY <1>1, <3>1 DEF IInv, MemoryInv
  <2> HIDE DEF closed, behind, decided
  <2>7. Pick(q, keep) \in Seq(Item)
    BY <2>2, PickItems
  <2>8. /\ queue' = Pick(q, keep) /\ file' \in Seq(Item) /\ unsaved' \in BOOLEAN /\ FileKnown'
        /\ loaded' \in BOOLEAN
    BY <1>4, <2>5, <2>7, SaveQueue DEF IInv, QueueInv
  <2>9. QueueHasEntry'
    <3> SUFFICES ASSUME NEW t \in Tasks, Running(t)
                 PROVE  In(queue', Check(jobs[t].by, t, "commit"))
      BY <1>1 DEF QueueHasEntry, Running, Check
    <3>1. In(q, Check(jobs[t].by, t, "commit"))
      BY <2>2 DEF IInv, QueueInv, QueueHasEntry
    <3>2. PICK i \in DOMAIN q : Same(q[i], Check(jobs[t].by, t, "commit"))
      BY <3>1 DEF In
    <3>3. i \in keep
      BY <2>4, <3>2 DEF Same, Check
    <3>4. QED
      BY <2>2, <2>8, <3>2, <3>3, InPicked
  <2>10. SeenQueued'
    <3> SUFFICES ASSUME NEW a \in ended, a \notin checked'
                 PROVE  In(queue', Check(a.by, a.task, a.how))
      BY <1>4 DEF SeenQueued, Check
    <3>1. a \notin checked
      BY <2>5
    <3>2. In(q, Check(a.by, a.task, a.how))
      BY <2>2, <3>1 DEF IInv, SeenInv, SeenQueued
    <3>3. PICK i \in DOMAIN q : Same(q[i], Check(a.by, a.task, a.how))
      BY <3>2 DEF In
    <3>4. q[i].seat = a.by /\ q[i].task = a.task /\ q[i].why = a.how
      BY <3>3 DEF Same, Check
    <3>5. i \in keep
      BY <2>5, <3>4
    <3>6. QED
      BY <2>2, <2>8, <3>3, <3>5, InPicked
  <2>11. QueueInv'
    BY <1>1, <2>7, <2>8, <2>9 DEF IInv, QueueInv
  <2>12. checked' \subseteq ended
    BY <2>5 DEF IInv, SeenInv
  <2>13. QED
    BY <1>1, <1>4, <2>6, <2>10, <2>11, <2>12 DEF SeenInv
<1>5. ASSUME unsaved' = TRUE, UNCHANGED <<loaded, seen, queue, file, seats, checked>>
      PROVE  MemoryInv' /\ QueueInv' /\ SeenInv'
  <2>1. MemoryInv'
    BY <1>1, <1>5 DEF IInv, MemoryInv
  <2>2. QueueInv' /\ SeenInv'
    BY <1>1, <1>5, QueueGrows DEF IInv, QueueInv, FileKnown
  <2>3. QED
    BY <2>1, <2>2
<1>6. QED
  BY <1>2, <1>3, <1>4, <1>5 DEF IInv, Exits

\* A queue that loses entries of reports whose step does not run.
LEMMA EntriesGo ==
    ASSUME QueueInv, NEW gone, gone \subseteq DOMAIN queue,
           \A i \in gone : queue[i].why = "commit"
    PROVE  /\ Pick(queue, DOMAIN queue \ gone) \in Seq(Item)
           /\ \A it : In(queue, it) /\ it.why # "commit"
                      => In(Pick(queue, DOMAIN queue \ gone), it)
           /\ \A it : In(queue, it) /\ (\A i \in gone : queue[i].task # it.task)
                      => In(Pick(queue, DOMAIN queue \ gone), it)
<1>1. queue \in Seq(Item)
  BY DEF QueueInv
<1>2. Pick(queue, DOMAIN queue \ gone) \in Seq(Item)
  BY <1>1, PickItems
<1>3. ASSUME NEW it, In(queue, it), it.why # "commit" \/ \A i \in gone : queue[i].task # it.task
      PROVE  In(Pick(queue, DOMAIN queue \ gone), it)
  <2>1. PICK i \in DOMAIN queue : Same(queue[i], it)
    BY <1>3 DEF In
  <2>2. i \in DOMAIN queue \ gone
    BY <1>3, <2>1 DEF Same
  <2>3. QED
    BY <1>1, <2>1, <2>2, InPicked
<1>4. QED
  BY <1>2, <1>3

\* The check of an ended attempt is no commit entry.
LEMMA EndedWhy ==
    ASSUME IInv, NEW a \in seen
    PROVE  Check(a.by, a.task, a.how).why # "commit"
  BY DEF IInv, WorldInv, SeenInv, EndedAttempt, Check

\* The sweep drops entries of steps that do not run.
LEMMA SweepKeeps ==
    ASSUME IInv, Sweep
    PROVE  IInv'
<1> DEFINE stale == {t \in Tasks : list[t] = NoReport /\ CommitOf(queue, t) # {} /\ ~Running(t)}
           gone == UNION {CommitOf(queue, t) : t \in stale}
           q == Pick(queue, DOMAIN queue \ gone)
<1>1. /\ UNCHANGED <<task, ended, alive, list, cur, holding, seats, seen, roster, draining,
                     checked>>
      /\ pc' = "commit"
      /\ jobs' = [t \in Tasks |-> IF t \in stale THEN NoJob ELSE jobs[t]]
      /\ SaveIfChanged(q)
  BY DEF Sweep, world
<1>2. /\ gone \subseteq DOMAIN queue
      /\ \A i \in gone : queue[i].why = "commit" /\ queue[i].task \in stale
  BY DEF CommitOf
<1>3. \A t \in Tasks : Running(t)' => Running(t) /\ t \notin stale /\ jobs'[t] = jobs[t]
  BY <1>1 DEF Running, NoJob
<1>4. jobs' \in [Tasks -> Job \cup {NoJob}]
  BY <1>1 DEF IInv, QueueInv
<1>5. QueueInv
  BY DEF IInv
<1> HIDE DEF gone
<1>6. /\ q \in Seq(Item)
      /\ \A it : In(queue, it) /\ it.why # "commit" => In(q, it)
      /\ \A it : In(queue, it) /\ (\A i \in gone : queue[i].task # it.task) => In(q, it)
  BY <1>2, <1>5, EntriesGo
<1>7. PICK r : r = q
  OBVIOUS
<1>8. /\ queue' = r /\ file' \in Seq(Item) /\ unsaved' \in BOOLEAN /\ FileKnown'
      /\ loaded' = loaded
  BY <1>1, <1>5, <1>6, <1>7, SaveIfChangedQueue
<1> HIDE DEF q, stale
<1>9. QueueHasEntry'
  <2> SUFFICES ASSUME NEW t \in Tasks, Running(t)'
               PROVE  In(queue', Check(jobs'[t].by, t, "commit"))
    BY DEF QueueHasEntry, Check
  <2>1. In(queue, Check(jobs[t].by, t, "commit"))
    BY <1>3 DEF IInv, QueueInv, QueueHasEntry
  <2>2. Check(jobs[t].by, t, "commit").task = t
    BY DEF Check
  <2>3. \A i \in gone : queue[i].task # t
    BY <1>2, <1>3
  <2>4. QED
    BY <1>3, <1>6, <1>7, <1>8, <2>1, <2>2, <2>3
<1>10. QueueInv'
  BY <1>4, <1>5, <1>6, <1>7, <1>8, <1>9 DEF QueueInv
<1>11. SeenQueued'
  <2> SUFFICES ASSUME NEW a \in seen, a \notin checked
               PROVE  In(queue', Check(a.by, a.task, a.how))
    BY <1>1 DEF SeenQueued, Check
  <2>1. In(queue, Check(a.by, a.task, a.how))
    BY DEF IInv, SeenInv, SeenQueued
  <2>2. QED
    BY <1>6, <1>7, <1>8, <2>1, EndedWhy
<1>12. WorldInv' /\ TickInv' /\ MemoryInv' /\ SeenInv'
  BY <1>1, <1>11 DEF IInv, WorldInv, HolderIsASeat, Leased, TickInv, AnswerForATask, DownIsEmpty,
       MemoryInv, SeenInv
<1>13. QED
  BY <1>10, <1>12 DEF IInv

\* The entry is queued by the very step that starts the commit step.
LEMMA CallCommitKeeps ==
    ASSUME IInv, NEW t \in Tasks, CallCommit(t)
    PROVE  IInv'
<1> DEFINE entry == Check(list[t].by, t, "commit")
           q == IF In(queue, entry) THEN queue ELSE Append(queue, entry)
<1>1. /\ UNCHANGED <<task, ended, alive, list, holding, seats, seen, roster, draining, checked>>
      /\ pc' = "answer" /\ cur' = t /\ list[t] # NoReport
      /\ SaveIfChanged(q)
      /\ jobs' = IF jobs[t] # NoJob THEN jobs
                 ELSE [jobs EXCEPT ![t] =
                          [by |-> list[t].by, n |-> list[t].n, result |-> "running"]]
  BY DEF CallCommit, world
<1>2. list[t] \in Report
  BY <1>1 DEF IInv, TickInv
<1>3. entry \in Item
  BY <1>2, CheckIsAnItem DEF Report
<1>4. QueueInv /\ queue \in Seq(Item) /\ jobs \in [Tasks -> Job \cup {NoJob}]
  BY DEF IInv, QueueInv
<1>5. PICK e : e = entry
  OBVIOUS
<1> HIDE DEF entry
<1>6. q \in Seq(Item) /\ In(q, e) /\ \A it : In(queue, it) => In(q, it)
  <2>1. CASE In(queue, e)
    BY <1>4, <1>5, <2>1
  <2>2. CASE ~In(queue, e)
    <3>1. q = Append(queue, e) /\ q \in Seq(Item)
      BY <1>3, <1>4, <1>5, <2>2
    <3>2. DOMAIN q = 1 .. Len(queue) + 1 /\ q[Len(queue) + 1] = e
      BY <1>4, <3>1
    <3>3. \A i \in DOMAIN queue : i \in DOMAIN q /\ q[i] = queue[i]
      BY <1>4, <3>1
    <3>4. Len(queue) + 1 \in DOMAIN q
      BY <1>4, <3>2
    <3> HIDE DEF q
    <3>5. In(q, e)
      BY <3>2, <3>4, SameAsItself DEF In
    <3>6. \A it : In(queue, it) => In(q, it)
      BY <3>3 DEF In
    <3>7. QED
      BY <3>1, <3>5, <3>6
  <2>3. QED
    BY <2>1, <2>2
<1>7. PICK r : r = q
  OBVIOUS
<1>8. /\ queue' = r /\ file' \in Seq(Item) /\ unsaved' \in BOOLEAN /\ FileKnown'
      /\ loaded' = loaded
  BY <1>1, <1>4, <1>6, <1>7, SaveIfChangedQueue
<1>9. jobs' \in [Tasks -> Job \cup {NoJob}]
  BY <1>1, <1>2, <1>4 DEF Report, Job
<1>10. QueueHasEntry'
  <2> SUFFICES ASSUME NEW u \in Tasks, Running(u)'
               PROVE  In(queue', Check(jobs'[u].by, u, "commit"))
    BY DEF QueueHasEntry, Check
  <2>1. CASE jobs'[u] = jobs[u]
    <3>1. In(queue, Check(jobs[u].by, u, "commit"))
      BY <2>1 DEF IInv, QueueInv, QueueHasEntry, Running
    <3>2. QED
      BY <1>6, <1>7, <1>8, <2>1, <3>1
  <2>2. CASE u = t /\ jobs'[u].by = list[t].by
    BY <1>5, <1>6, <1>7, <1>8, <2>2 DEF entry
  <2>3. QED
    BY <1>1, <1>4, <2>1, <2>2
<1>11. QueueInv'
  BY <1>4, <1>6, <1>7, <1>8, <1>9, <1>10 DEF QueueInv
<1>12. SeenQueued'
  <2> SUFFICES ASSUME NEW a \in seen, a \notin checked
               PROVE  In(queue', Check(a.by, a.task, a.how))
    BY <1>1 DEF SeenQueued, Check
  <2>1. QED
    BY <1>6, <1>7, <1>8 DEF IInv, SeenInv, SeenQueued
<1>13. WorldInv' /\ TickInv' /\ MemoryInv' /\ SeenInv'
  BY <1>1, <1>12 DEF IInv, WorldInv, HolderIsASeat, Leased, TickInv, AnswerForATask, DownIsEmpty,
       MemoryInv, SeenInv
<1>14. QED
  BY <1>11, <1>13 DEF IInv

\* The tick goes on to the next report.
LEMMA NextReportTyped ==
    ASSUME TickInv, NextReport, UNCHANGED holding
    PROVE  TickInv'
<1>1. list' \in [Tasks -> Report \cup {NoReport}]
  BY DEF TickInv, NextReport
<1>2. QED
  BY <1>1 DEF TickInv, NextReport, AnswerForATask, DownIsEmpty

\* The step still runs.
LEMMA AnswerRunningKeeps ==
    ASSUME IInv, AnswerRunning
    PROVE  IInv'
<1>1. /\ UNCHANGED <<task, ended, alive, holding, memory, jobs, file, checked>> /\ NextReport
  BY DEF AnswerRunning, world
<1>2. TickInv'
  BY <1>1, NextReportTyped DEF IInv
<1>3. WorldInv' /\ MemoryInv'
  BY <1>1 DEF IInv, WorldInv, HolderIsASeat, Leased, MemoryInv, memory
<1>4. QED
  BY <1>1, <1>2, <1>3, QueueAlone DEF IInv, memory

\* The step deferred: its entry counts one more.
LEMMA AnswerDeferredKeeps ==
    ASSUME IInv, AnswerDeferred
    PROVE  IInv'
<1>1. /\ UNCHANGED <<task, ended, alive, holding, seats, seen, roster, draining, checked, loaded>>
      /\ pc = "answer"
  BY DEF AnswerDeferred, world
<1>2. PICK i \in CommitOf(queue, cur) :
          /\ Save([queue EXCEPT ![i] = Deferred(queue[i])])
          /\ \/ jobs' = [jobs EXCEPT ![cur].result = "refused"] /\ UNCHANGED <<pc, list, cur>>
             \/ jobs' = [jobs EXCEPT ![cur] = NoJob] /\ NextReport
  BY DEF AnswerDeferred
<1>3. QueueInv /\ queue \in Seq(Item) /\ jobs \in [Tasks -> Job \cup {NoJob}]
  BY DEF IInv, QueueInv
<1>4. cur \in Tasks /\ jobs[cur].result = "deferred"
  BY <1>1 DEF IInv, TickInv, AnswerForATask, AnswerDeferred
<1>5. i \in DOMAIN queue /\ queue[i] \in Item
  BY <1>2, <1>3 DEF CommitOf
<1>6. Deferred(queue[i]) \in Item /\ \A it : Same(queue[i], it) => Same(Deferred(queue[i]), it)
  <2>1. queue[i].deferrals \in 0 .. MaxDeferrals
    BY <1>5 DEF Item
  <2>2. PICK d : d = IF queue[i].deferrals = MaxDeferrals THEN MaxDeferrals
                     ELSE queue[i].deferrals + 1
    OBVIOUS
  <2>3. d \in 0 .. MaxDeferrals
    BY <2>1, <2>2, DeferralLimit
  <2>4. Deferred(queue[i]) = [queue[i] EXCEPT !.deferrals = d]
    BY <2>2 DEF Deferred
  <2>5. QED
    BY <1>5, <2>3, <2>4 DEF Item, Same
<1> DEFINE q == [queue EXCEPT ![i] = Deferred(queue[i])]
<1>7. q \in Seq(Item) /\ \A it : In(queue, it) => In(q, it)
  <2>1. q \in Seq(Item)
    BY <1>3, <1>5, <1>6
  <2>2. DOMAIN q = DOMAIN queue /\ \A j \in DOMAIN queue : j # i => q[j] = queue[j]
    OBVIOUS
  <2>3. q[i] = Deferred(queue[i])
    BY <1>5
  <2> HIDE DEF q
  <2>4. \A it : In(queue, it) => In(q, it)
    BY <1>6, <2>2, <2>3 DEF In
  <2>5. QED
    BY <2>1, <2>4
<1>8. PICK r : r = q
  OBVIOUS
<1>9. Save(r) /\ r \in Seq(Item)
  BY <1>2, <1>7, <1>8
<1>10. /\ queue' = r /\ file' \in Seq(Item) /\ unsaved' \in BOOLEAN /\ FileKnown'
       /\ loaded' \in BOOLEAN
  BY <1>1, <1>3, <1>9, SaveQueue DEF QueueInv
<1> HIDE DEF q
<1>11. jobs' \in [Tasks -> Job \cup {NoJob}]
  <2>1. jobs[cur] \in Job
    BY <1>3, <1>4 DEF NoJob
  <2>2. [jobs[cur] EXCEPT !.result = "refused"] \in Job
    BY <2>1 DEF Job
  <2>3. CASE jobs' = [jobs EXCEPT ![cur].result = "refused"]
    BY <1>3, <2>2, <2>3
  <2>4. QED
    BY <1>2, <1>3, <2>3
<1>12. \A u \in Tasks : Running(u)' => Running(u) /\ jobs'[u] = jobs[u]
  <2>1. jobs'[cur].result # "running" /\ \A u \in Tasks : u # cur => jobs'[u] = jobs[u]
    <3>1. CASE jobs' = [jobs EXCEPT ![cur].result = "refused"]
      <4>1. jobs[cur] \in Job
        BY <1>3, <1>4 DEF NoJob
      <4>2. jobs'[cur] = [jobs[cur] EXCEPT !.result = "refused"]
        BY <1>3, <1>4, <3>1
      <4>3. jobs'[cur].result = "refused"
        BY <4>1, <4>2 DEF Job
      <4>4. QED
        BY <1>3, <3>1, <4>3
    <3>2. CASE jobs' = [jobs EXCEPT ![cur] = NoJob]
      BY <1>3, <1>4, <3>2 DEF NoJob
    <3>3. QED
      BY <1>2, <3>1, <3>2
  <2>2. QED
    BY <2>1 DEF Running
<1>13. QueueHasEntry'
  <2> SUFFICES ASSUME NEW u \in Tasks, Running(u)'
               PROVE  In(queue', Check(jobs'[u].by, u, "commit"))
    BY DEF QueueHasEntry, Check
  <2>1. QED
    BY <1>7, <1>8, <1>10, <1>12 DEF IInv, QueueInv, QueueHasEntry
<1>14. QueueInv'
  BY <1>9, <1>10, <1>11, <1>13 DEF QueueInv
<1>15. SeenQueued'
  <2> SUFFICES ASSUME NEW a \in seen, a \notin checked
               PROVE  In(queue', Check(a.by, a.task, a.how))
    BY <1>1 DEF SeenQueued, Check
  <2>1. QED
    BY <1>7, <1>8, <1>10 DEF IInv, SeenInv, SeenQueued
<1>16. TickInv'
  <2>1. CASE UNCHANGED <<pc, list, cur>>
    BY <1>1, <2>1 DEF IInv, TickInv, AnswerForATask, DownIsEmpty
  <2>2. CASE NextReport
    BY <1>1, <2>2, NextReportTyped DEF IInv
  <2>3. QED
    BY <1>2, <2>1, <2>2
<1>17. WorldInv' /\ MemoryInv' /\ SeenInv'
  BY <1>1, <1>15 DEF IInv, WorldInv, HolderIsASeat, Leased, MemoryInv, SeenInv
<1>18. QED
  BY <1>14, <1>16, <1>17 DEF IInv

\* The result is in the store: the entry goes together with the step.
LEMMA ApplyResultKeeps ==
    ASSUME IInv, ApplyResult
    PROVE  IInv'
<1>1. /\ UNCHANGED <<ended, alive, holding, seats, seen, roster, draining, checked>>
      /\ pc = "answer" /\ task[cur].state = "reported" /\ NextReport
      /\ jobs' = [jobs EXCEPT ![cur] = NoJob]
      /\ SaveIfChanged(WithoutCommit(queue, cur))
  BY DEF ApplyResult
<1>2. cur \in Tasks /\ WorldInv /\ QueueInv /\ jobs \in [Tasks -> Job \cup {NoJob}]
  BY <1>1 DEF IInv, TickInv, AnswerForATask, QueueInv
<1>3. task' \in [Tasks -> TaskRecord] /\ HolderIsASeat'
  <2>1. CASE Retask(cur, "completed", None, task[cur].n)
    BY <1>2, <2>1, Freed
  <2>2. CASE Retask(cur, "blocked", task[cur].by, task[cur].n)
    <3>1. [state |-> "blocked", by |-> task[cur].by, n |-> task[cur].n] \in TaskRecord
      BY <1>2 DEF WorldInv, TaskRecord
    <3>2. QED
      BY <1>2, <2>2, <3>1, Retasked
  <2>3. QED
    BY <2>1, <2>2 DEF ApplyResult
<1>4. PICK t : t = cur
  OBVIOUS
<1> DEFINE gone == CommitOf(queue, t)
<1>5. gone \subseteq DOMAIN queue /\ \A i \in gone : queue[i].why = "commit" /\ queue[i].task = t
  BY DEF CommitOf
<1>6. PICK r : r = Pick(queue, DOMAIN queue \ gone)
  OBVIOUS
<1>7. WithoutCommit(queue, cur) = r
  BY <1>4, <1>6 DEF WithoutCommit
<1> HIDE DEF gone
<1>8. /\ r \in Seq(Item)
      /\ \A it : In(queue, it) /\ it.why # "commit" => In(r, it)
      /\ \A it : In(queue, it) /\ it.task # t => In(r, it)
  BY <1>2, <1>5, <1>6, EntriesGo
<1>9. /\ queue' = r /\ file' \in Seq(Item) /\ unsaved' \in BOOLEAN /\ FileKnown'
      /\ loaded' = loaded
  BY <1>1, <1>2, <1>7, <1>8, SaveIfChangedQueue
<1>10. jobs' \in [Tasks -> Job \cup {NoJob}]
  BY <1>1, <1>2
<1>11. \A u \in Tasks : Running(u)' => Running(u) /\ jobs'[u] = jobs[u] /\ u # t
  BY <1>1, <1>2, <1>4 DEF Running, NoJob
<1>12. QueueHasEntry'
  <2> SUFFICES ASSUME NEW u \in Tasks, Running(u)'
               PROVE  In(queue', Check(jobs'[u].by, u, "commit"))
    BY DEF QueueHasEntry, Check
  <2>1. In(queue, Check(jobs[u].by, u, "commit"))
    BY <1>11 DEF IInv, QueueInv, QueueHasEntry
  <2>2. Check(jobs[u].by, u, "commit").task # t
    BY <1>11 DEF Check
  <2>3. QED
    BY <1>8, <1>9, <1>11, <2>1, <2>2
<1>13. QueueInv'
  BY <1>2, <1>8, <1>9, <1>10, <1>12 DEF QueueInv
<1>14. SeenQueued'
  <2> SUFFICES ASSUME NEW a \in seen, a \notin checked
               PROVE  In(queue', Check(a.by, a.task, a.how))
    BY <1>1 DEF SeenQueued, Check
  <2>1. In(queue, Check(a.by, a.task, a.how))
    BY DEF IInv, SeenInv, SeenQueued
  <2>2. QED
    BY <1>8, <1>9, <2>1, EndedWhy
<1>15. WorldInv' /\ MemoryInv' /\ SeenInv'
  BY <1>1, <1>3, <1>14 DEF IInv, WorldInv, MemoryInv, SeenInv
<1>16. TickInv'
  BY <1>1, NextReportTyped DEF IInv
<1>17. QED
  BY <1>13, <1>15, <1>16 DEF IInv

\* The store refused the result: entry and step stay.
LEMMA ApplyFailsKeeps ==
    ASSUME IInv, ApplyFails
    PROVE  IInv'
<1>1. /\ UNCHANGED <<task, ended, alive, holding, memory, jobs, file, checked>>
      /\ pc' = "idle" /\ cur' = None /\ list' = NoReports
  BY DEF ApplyFails, world
<1>2. WorldInv' /\ MemoryInv'
  BY <1>1 DEF IInv, WorldInv, HolderIsASeat, Leased, MemoryInv, memory
<1>3. TickInv'
  BY <1>1, NoReportsTyped DEF IInv, TickInv, AnswerForATask, DownIsEmpty
<1>4. QED
  BY <1>1, <1>2, <1>3, QueueAlone DEF IInv, memory

\* The tick lists what the seats hold.
LEMMA CommitsDoneKeeps ==
    ASSUME IInv, CommitsDone \/ DispatchDone
    PROVE  IInv'
<1>1. /\ UNCHANGED <<task, ended, alive, list, cur, memory, jobs, file, checked>>
      /\ pc' \in {"close", "hold"} /\ holding' = Holding
  BY DEF CommitsDone, DispatchDone, world
<1>2. WorldInv' /\ MemoryInv'
  BY <1>1 DEF IInv, WorldInv, HolderIsASeat, Leased, MemoryInv, memory
<1>3. TickInv'
  BY <1>1, HoldingTyped DEF IInv, TickInv, AnswerForATask, DownIsEmpty
<1>4. QED
  BY <1>1, <1>2, <1>3, QueueAlone DEF IInv, memory

\* Closes, launches and verdicts leave the queue alone.
LEMMA RosterKeeps ==
    ASSUME IInv, UNCHANGED <<ended, list, cur, queue, seen, loaded, unsaved, jobs, file, checked>>,
           pc' \in {"idle", "close", "roster", "dispatch"}, alive' \subseteq Seats,
           holding' \in {holding, Nothing},
           seats' \in [Seats -> {"absent"} \cup Usable \cup Closing],
           roster' \in {"new", "owed", "settled"}, draining' \in BOOLEAN,
           task' \in [Tasks -> TaskRecord] /\ HolderIsASeat'
    PROVE  IInv'
<1>1. WorldInv' /\ MemoryInv'
  BY DEF IInv, WorldInv, MemoryInv
<1>2. TickInv'
  BY HoldingTyped DEF IInv, TickInv, AnswerForATask, DownIsEmpty
<1>3. QED
  BY <1>1, <1>2, QueueAlone DEF IInv

\* Tasks not touched stay proper.
LEMMA SameTasks ==
    ASSUME IInv, UNCHANGED task
    PROVE  task' \in [Tasks -> TaskRecord] /\ HolderIsASeat'
  BY DEF IInv, WorldInv, HolderIsASeat, Leased

\* A verdict on the roster is one of its three states.
LEMMA VerdictTyped == MemoryInv => Verdict \in {"new", "owed", "settled"}
  BY DEF Verdict, MemoryInv

\* Seats of an earlier process are closed.
LEMMA HoldKeeps ==
    ASSUME IInv, Hold
    PROVE  IInv'
<1> DEFINE restarts == {h \in Seats : seats[h] = "restart"}
<1>1. UNCHANGED <<task, ended, list, cur, holding, queue, seen, loaded, unsaved, roster, draining,
                  jobs, file, checked>>
  BY DEF Hold
<1>2. PICK failed \in SUBSET restarts :
              /\ Close(restarts, failed)
              /\ seats' = [h \in Seats |-> IF h \in restarts \ failed THEN "absent" ELSE seats[h]]
              /\ pc' = IF failed = {} THEN "roster" ELSE "close"
  BY DEF Hold
<1>3. alive' \subseteq Seats
  BY <1>2 DEF Close, IInv, WorldInv
<1>4. seats' \in [Seats -> {"absent"} \cup Usable \cup Closing]
  BY <1>2 DEF IInv, MemoryInv
<1>5. pc' \in {"roster", "close"}
  BY <1>2
<1>6. roster' \in {"new", "owed", "settled"} /\ draining' \in BOOLEAN
  BY <1>1 DEF IInv, MemoryInv
<1>7. QED
  BY <1>1, <1>3, <1>4, <1>5, <1>6, SameTasks, RosterKeeps

\* A drain or a launch waits, or neither is due.
LEMMA WaitsKeep ==
    ASSUME IInv, DrainWaits \/ LaunchWaits \/ RosterSettled
    PROVE  IInv'
<1>1. UNCHANGED <<task, ended, alive, list, cur, holding, seats, queue, seen, loaded, unsaved,
                  draining, jobs, file, checked>>
  BY DEF DrainWaits, LaunchWaits, RosterSettled, world
<1>2. pc' \in {"close", "dispatch"} /\ roster' \in {"new", "owed", "settled"}
  BY VerdictTyped DEF DrainWaits, LaunchWaits, RosterSettled, IInv
<1>3. /\ seats' \in [Seats -> {"absent"} \cup Usable \cup Closing] /\ alive' \subseteq Seats
      /\ draining' \in BOOLEAN
  BY <1>1 DEF IInv, MemoryInv, WorldInv
<1>4. QED
  BY <1>1, <1>2, <1>3, SameTasks, RosterKeeps

\* The roster is closed for a relaunch.
LEMMA DrainKeeps ==
    ASSUME IInv, Drain
    PROVE  IInv'
<1> DEFINE open == {h \in Seats : seats[h] \in Usable}
<1>1. /\ UNCHANGED <<task, ended, list, cur, holding, queue, seen, loaded, unsaved, jobs, file,
                     checked>>
      /\ pc = "roster"
  BY DEF Drain
<1>2. PICK failed \in SUBSET open :
              /\ Close(open, failed)
              /\ seats' = [h \in Seats |-> IF h \in failed THEN "relaunch"
                                           ELSE IF h \in open THEN "absent" ELSE seats[h]]
  BY DEF Drain
<1>3. alive' \subseteq Seats
  BY <1>2 DEF Close, IInv, WorldInv
<1>4. seats' \in [Seats -> {"absent"} \cup Usable \cup Closing]
  BY <1>2 DEF IInv, MemoryInv, Closing
<1>5. /\ pc' \in {"roster", "close"} /\ roster' \in {"new", "owed", "settled"}
      /\ draining' \in BOOLEAN
  BY <1>1, VerdictTyped DEF Drain, IInv, MemoryInv
<1>6. QED
  BY <1>1, <1>3, <1>4, <1>5, SameTasks, RosterKeeps

\* The roster is launched.
LEMMA LaunchKeeps ==
    ASSUME IInv, Launch
    PROVE  IInv'
<1>1. /\ UNCHANGED <<ended, list, cur, holding, queue, seen, loaded, unsaved, draining, jobs, file,
                     checked>>
      /\ pc' = "dispatch" /\ roster' = "settled"
      /\ task' = [t \in Tasks |-> IF task[t].state = "stuck"
                                  THEN [task[t] EXCEPT !.state = "pending"] ELSE task[t]]
  BY DEF Launch
<1>2. PICK started \in SUBSET Seats :
          /\ alive' = started
          /\ seats' = [h \in Seats |-> IF h \in started /\ seats[h] = "absent" THEN "up"
                                       ELSE seats[h]]
  BY DEF Launch
<1>3. seats' \in [Seats -> {"absent"} \cup Usable \cup Closing] /\ draining' \in BOOLEAN
  BY <1>1, <1>2 DEF IInv, MemoryInv, Usable
<1>4. ASSUME NEW t \in Tasks
      PROVE  /\ task'[t] \in TaskRecord
             /\ Leased(t)' => task'[t] = task[t]
  <2>1. task[t] \in TaskRecord
    BY DEF IInv, WorldInv
  <2>2. CASE task[t].state = "stuck"
    <3>1. task'[t] = [task[t] EXCEPT !.state = "pending"]
      BY <1>1, <2>2
    <3>2. task'[t] \in TaskRecord /\ task'[t].state = "pending"
      BY <2>1, <3>1 DEF TaskRecord
    <3>3. QED
      BY <3>2 DEF Leased
  <2>3. CASE task[t].state # "stuck"
    BY <1>1, <2>1, <2>3
  <2>4. QED
    BY <2>2, <2>3
<1>5. task' \in [Tasks -> TaskRecord]
  BY <1>1, <1>4
<1>6. HolderIsASeat'
  BY <1>4 DEF HolderIsASeat, Leased, IInv, WorldInv
<1>7. QED
  BY <1>1, <1>2, <1>3, <1>5, <1>6, RosterKeeps

\* The closes that are owed, and the idle seats.
LEMMA CloseIdleKeeps ==
    ASSUME IInv, CloseIdle
    PROVE  IInv'
<1>1. /\ UNCHANGED <<task, ended, list, cur, queue, seen, loaded, unsaved, roster, draining, jobs,
                     file, checked>>
      /\ pc' = "idle" /\ holding' = Nothing
  BY DEF CloseIdle
<1>2. PICK idle \in SUBSET {h \in Seats : seats[h] = "mute" /\ holding[h] = "nothing"} :
          \E failed \in SUBSET (ClosesOwed \cup idle) :
              /\ Close(ClosesOwed \cup idle, failed)
              /\ seats' = [h \in Seats |->
                     IF h \in idle \cap failed THEN "idle"
                     ELSE IF h \in (ClosesOwed \cup idle) \ failed THEN "absent"
                     ELSE seats[h]]
  BY DEF CloseIdle
<1>3. alive' \subseteq Seats
  BY <1>2 DEF Close, IInv, WorldInv
<1>4. seats' \in [Seats -> {"absent"} \cup Usable \cup Closing]
  BY <1>2 DEF IInv, MemoryInv, Closing
<1>5. roster' \in {"new", "owed", "settled"} /\ draining' \in BOOLEAN
  BY <1>1 DEF IInv, MemoryInv
<1>6. QED
  BY <1>1, <1>3, <1>4, <1>5, SameTasks, RosterKeeps

----------------------------------------------------------------------------
(* The theorems *)

\* The invariant holds at first.
LEMMA InitHolds == Init => IInv
<1> SUFFICES ASSUME Init
             PROVE  IInv
  OBVIOUS
<1>1. WorldInv
  <2>1. \A t \in Tasks : task[t] = [state |-> "pending", by |-> None, n |-> 0]
    BY DEF Init
  <2>2. [state |-> "pending", by |-> None, n |-> 0] \in TaskRecord
    BY AttemptBound DEF TaskRecord
  <2>3. task \in [Tasks -> TaskRecord]
    BY <2>2 DEF Init
  <2>4. HolderIsASeat
    BY <2>1 DEF HolderIsASeat, Leased
  <2>5. QED
    BY <2>3, <2>4, FS_EmptySet DEF Init, WorldInv
<1>2. TickInv
  <2>1. DownIsEmpty
    BY DEF Init, DownIsEmpty, Running, NoJob
  <2>2. QED
    BY <2>1, NoReportsTyped, HoldingTyped DEF Init, TickInv, AnswerForATask
<1>3. MemoryInv
  BY DEF Init, MemoryInv
<1>4. QueueInv
  <2>1. queue \in Seq(Item) /\ file \in Seq(Item)
    BY DEF Init
  <2>2. FileKnown /\ QueueHasEntry
    BY DEF Init, FileKnown, QueueHasEntry, Running, NoJob
  <2>3. QED
    BY <2>1, <2>2 DEF Init, QueueInv
<1>5. SeenInv
  BY DEF Init, SeenInv, SeenQueued
<1>6. QED
  BY <1>1, <1>2, <1>3, <1>4, <1>5 DEF IInv

\* Every step keeps the invariant.
LEMMA StepHolds == IInv /\ [Next]_vars => IInv'
<1> SUFFICES ASSUME IInv, [Next]_vars
             PROVE  IInv'
  OBVIOUS
<1>1. CASE Start
  BY <1>1, StartKeeps
<1>2. CASE TickStep
  <2>1. ASSUME NEW t \in Tasks, CallCommit(t)
        PROVE  IInv'
    BY <2>1, CallCommitKeeps
  <2>2. QED
    BY <1>2, <2>1, ApplyEventsKeeps, ExpireKeeps, ExitsKeeps, SweepKeeps, CommitsDoneKeeps,
       HoldKeeps, AnswerRunningKeeps, AnswerDeferredKeeps, ApplyResultKeeps, ApplyFailsKeeps,
       WaitsKeep, DrainKeeps, LaunchKeeps, LaunchFailsKeeps, CloseIdleKeeps DEF TickStep
<1>3. CASE TickError \/ TakeRelaunch
  BY <1>3, TickErrorKeeps, TakeRelaunchKeeps
<1>4. CASE Crash
  BY <1>4, CrashKeeps
<1>5. ASSUME NEW t \in Tasks,
             \/ Done(t) \/ Fail(t) \/ Return(t) \/ Cancel(t) \/ StepEnds(t) \/ Stick(t)
             \/ \E h \in Seats : Claim(t, h) \/ Grant(t, h)
      PROVE  IInv'
  BY <1>5, DoneKeeps, FailKeeps, ReturnKeeps, StepEndsKeeps, ClaimKeeps, GrantKeeps
<1>6. ASSUME NEW h \in Seats, Die(h)
      PROVE  IInv'
  BY <1>6, DieKeeps
<1>7. CASE UNCHANGED vars
  <2>1. WorldInv'
    BY <1>7 DEF vars, world, IInv, WorldInv, HolderIsASeat, Leased
  <2>2. UNCHANGED <<tick, memory, jobs, file, checked>> /\ ended' = ended
    BY <1>7 DEF vars, world
  <2>3. QED
    BY <2>1, <2>2, OnlyTheWorld DEF IInv
<1>8. QED
  <2>1. CASE Next
    BY <2>1, <1>1, <1>2, <1>3, <1>4, <1>5, <1>6 DEF Next
  <2>2. QED
    BY <2>1, <1>7

\* The invariant of the proofs holds in every reachable state of the scheduler.
THEOREM Invariance == Spec => []IInv
<1>1. Init /\ [][Next]_vars => []IInv
  BY InitHolds, StepHolds, PTL
<1>2. QED
  BY <1>1 DEF Spec

\* Type correctness: the task records, the tick of Scheduler.Tick, its queue,
\* its seats and the jobs of the committer stay within their types.
THEOREM TypeCorrect == Spec => []TypeOK
  BY Invariance, TypeOKFromParts, PTL

\* Every commit step started by commitEntry and Committer.Commit has its entry
\* in the queue while it runs, and in exits.json unless saveExits is known to
\* have failed.
THEOREM StepsHaveEntries == Spec => []StepHasEntry
<1>1. IInv => StepHasEntry
  BY StepHasEntryFromParts DEF IInv
<1>2. QED
  BY <1>1, Invariance, PTL

\* A grant needs a seat with nothing queued, so none of its steps runs and
\* every attempt of it is checked.
LEMMA GrantIsFree ==
    ASSUME IInv, NEW t \in Tasks, NEW h \in Seats, Grant(t, h)
    PROVE  ~Busy(h) /\ \A a \in seen : a.by = h => a \in checked
<1>1. \A it : In(queue, it) => it.seat # h
  BY DEF Grant, Pending, In, Same
<1>2. \A t2, g, why : Check(g, t2, why).seat = g
  BY DEF Check
<1>3. ASSUME NEW u \in Tasks, Running(u)
      PROVE  jobs[u].by # h
  <2>1. In(queue, Check(jobs[u].by, u, "commit"))
    BY <1>3 DEF IInv, QueueInv, QueueHasEntry
  <2>2. QED
    BY <1>1, <1>2, <2>1
<1>4. ASSUME NEW a \in seen, a.by = h
      PROVE  a \in checked
  <2>1. a \in checked \/ In(queue, Check(a.by, a.task, a.how))
    BY DEF IInv, SeenInv, SeenQueued
  <2>2. QED
    BY <1>1, <1>4, <1>2, <2>1
<1>5. QED
  BY <1>3, <1>4 DEF Busy

\* A task written by Retask is the one it names, with the state it names.
LEMMA RetaskOne ==
    ASSUME WorldInv, NEW u \in Tasks, NEW state, NEW by, NEW n, Retask(u, state, by, n),
           NEW t \in Tasks, task'[t] # task[t]
    PROVE  t = u /\ task'[t].state = state /\ task'[t].by = by
<1>1. t = u
  BY DEF Retask, WorldInv
<1>2. task'[t] = [state |-> state, by |-> by, n |-> n]
  BY <1>1 DEF Retask, WorldInv
<1>3. QED
  BY <1>1, <1>2

\* No other step turns a pending task into a granted one.
LEMMA OnlyGrantGrants ==
    ASSUME IInv, [Next]_vars, NEW t \in Tasks, NEW h \in Seats, Granting(t, h)
    PROVE  Grant(t, h)
<1> SUFFICES ASSUME ~Grant(t, h)
             PROVE  FALSE
  OBVIOUS
<1>1. WorldInv /\ task'[t] # task[t] /\ task'[t].state = "granted" /\ task'[t].by = h
  BY DEF IInv, Granting
<1>2. task' # task
  BY <1>1
<1>3. Next
  BY <1>2 DEF vars, world
<1>4. ~Start /\ ~TickError /\ ~TakeRelaunch /\ ~Crash /\ \A g \in Seats : ~Die(g)
  BY <1>2 DEF Start, TickError, TakeRelaunch, Crash, Die, world
<1>5. \A u \in Tasks : ~CallCommit(u) /\ ~StepEnds(u)
  BY <1>2 DEF CallCommit, StepEnds, world
<1>6. ~ApplyEvents /\ ~Exits /\ ~Sweep /\ ~CommitsDone /\ ~Hold
  BY <1>2 DEF ApplyEvents, Exits, Sweep, CommitsDone, Hold, world
<1>7. ~AnswerRunning /\ ~AnswerDeferred /\ ~ApplyFails
  BY <1>2 DEF AnswerRunning, AnswerDeferred, ApplyFails, world
<1>8. ~DrainWaits /\ ~Drain /\ ~LaunchWaits /\ ~LaunchFails /\ ~RosterSettled
  BY <1>2 DEF DrainWaits, Drain, LaunchWaits, LaunchFails, RosterSettled, world
<1>9. ~DispatchDone /\ ~CloseIdle
  BY <1>2 DEF DispatchDone, CloseIdle, world
<1>10. ~Expire
  <2> SUFFICES ASSUME Expire
               PROVE  FALSE
    OBVIOUS
  <2>1. PICK due \in SUBSET Tasks :
            task' = [u \in Tasks |->
                        IF u \in due THEN [task[u] EXCEPT !.state = "pending", !.by = None]
                        ELSE task[u]]
    BY DEF Expire
  <2>2. task'[t] = [task[t] EXCEPT !.state = "pending", !.by = None]
    BY <1>1, <2>1
  <2>3. task[t] \in TaskRecord
    BY <1>1 DEF WorldInv
  <2>4. QED
    BY <1>1, <2>2, <2>3 DEF TaskRecord
<1>11. ~Launch
  <2> SUFFICES ASSUME Launch
               PROVE  FALSE
    OBVIOUS
  <2>1. task'[t] = [task[t] EXCEPT !.state = "pending"]
    BY <1>1 DEF Launch
  <2>2. task[t] \in TaskRecord
    BY <1>1 DEF WorldInv
  <2>3. QED
    BY <1>1, <2>1, <2>2 DEF TaskRecord
<1>12. ~ApplyResult
  <2> SUFFICES ASSUME ApplyResult
               PROVE  FALSE
    OBVIOUS
  <2>1. cur \in Tasks
    BY DEF IInv, TickInv, AnswerForATask, ApplyResult
  <2>2. \/ Retask(cur, "completed", None, task[cur].n)
        \/ Retask(cur, "blocked", task[cur].by, task[cur].n)
    BY DEF ApplyResult
  <2>3. QED
    BY <1>1, <2>1, <2>2, RetaskOne
<1>13. ~TickStep
  BY <1>5, <1>6, <1>7, <1>8, <1>9, <1>10, <1>11, <1>12 DEF TickStep
<1>14. ASSUME NEW u \in Tasks
       PROVE  ~Done(u) /\ ~Fail(u) /\ ~Return(u) /\ ~Cancel(u) /\ ~Stick(u)
  BY <1>1, RetaskOne DEF Done, Fail, Return, Cancel, Stick
<1>15. ASSUME NEW u \in Tasks, NEW g \in Seats
       PROVE  ~Claim(u, g) /\ ~Grant(u, g)
  <2>1. ~Claim(u, g)
    BY <1>1, RetaskOne DEF Claim
  <2>2. ~Grant(u, g)
    <3> SUFFICES ASSUME Grant(u, g)
                 PROVE  FALSE
      OBVIOUS
    <3>1. Retask(u, "granted", g, task[u].n + 1)
      BY DEF Grant
    <3>2. t = u /\ h = g
      BY <1>1, <3>1, RetaskOne
    <3>3. QED
      BY <3>2
  <2>3. QED
    BY <2>1, <2>2
<1>16. QED
  BY <1>3, <1>4, <1>5, <1>13, <1>14, <1>15 DEF Next

\* Dispatch grants a task only to a seat whose commit step has ended and whose
\* ended attempts, as far as scanAttempts has seen them, were all decided by
\* runExits, whatever crashes, deferrals and relaunches came between.
THEOREM LeasesWaitForChecks == Spec => NoLeaseBeforeCheck
<1>1. ASSUME IInv, [Next]_vars
      PROVE  [\A t \in Tasks, h \in Seats : Granting(t, h) =>
                 /\ ~Busy(h)
                 /\ \A a \in seen : a.by = h => a \in checked]_vars
  BY <1>1, OnlyGrantGrants, GrantIsFree
<1>2. Spec => [][Next]_vars
  BY PTL DEF Spec
<1>3. QED
  BY <1>1, <1>2, Invariance, PTL DEF NoLeaseBeforeCheck
=============================================================================
