---------------------------- MODULE TaskJournal ----------------------------
(***************************************************************************)
(* The journal under the task store (internal/task/transaction.go) and its *)
(* lock-free reader (Snapshot in internal/task/task.go): processes that    *)
(* commit transactions under the store lock, replay what another process   *)
(* left, are killed, meet I/O errors or lose power; readers that scan the  *)
(* directory at the same time.                                             *)
(*                                                                         *)
(* A task file is the number of the transaction that wrote it last, 0 when *)
(* there is no file.  The contents of every file are fsynced before its    *)
(* rename, so only the directory can be behind: "disk" holds the           *)
(* directories a power loss may leave.                                     *)
(***************************************************************************)
EXTENDS Integers, Sequences, FiniteSets

CONSTANTS
    Tasks,       \* numbers of the task ids
    Writers,     \* processes that mutate the store
    Readers,     \* processes that call Snapshot
    None,        \* no journal, no process
    Ordered,     \* TRUE: renames become durable in the order they were made
    Faults,      \* the faults that happen: "kill", "power", "io"
    Retries,     \* snapshotRetries
    MaxTxns,     \* bound on the transactions
    MaxFaults    \* bound on the faults

ASSUME TasksAssumption == Tasks \subseteq Nat /\ IsFiniteSet(Tasks)
ASSUME ProcessesAssumption == None \notin Writers
ASSUME OrderedAssumption == Ordered \in BOOLEAN
ASSUME FaultsAssumption == Faults \subseteq {"kill", "power", "io"}
ASSUME BoundsAssumption ==
    Retries \in Nat \ {0} /\ MaxTxns \in Nat /\ MaxFaults \in Nat

VARIABLES
    dir,      \* the store directory as every process sees it
    disk,     \* the directories since the last directory fsync, dir among them
    lock,     \* the process that holds the store lock
    writer,   \* writer[w]: where process w is in its locked operation
    log,      \* log[n]: the tasks of transaction n and what its caller was told
    reader,   \* reader[r]: where Snapshot is
    seen,     \* seen[r]: the values of the store since r's scan started
    faults    \* the faults so far

vars == <<dir, disk, lock, writer, log, reader, seen, faults>>

----------------------------------------------------------------------------
(* Data *)

Versions == 0 .. MaxTxns
Files == [Tasks -> Versions]
Journal == [n : 1 .. MaxTxns, tasks : SUBSET Tasks]
NoJournal == [n |-> 0, tasks |-> {}]
Dir == [files : Files, journal : Journal \cup {NoJournal}, gen : Nat]

Writer == [pc : {"idle", "locked", "publish", "sync", "apply", "bump", "remove", "finish"},
           txn : Journal \cup {NoJournal}, left : SUBSET Tasks, replay : BOOLEAN]
IdleWriter == [pc |-> "idle", txn |-> NoJournal, left |-> {}, replay |-> FALSE]

Reader == [pc : {"idle", "start", "list", "scan", "check", "done", "busy"}, gen : Nat,
           todo : SUBSET Tasks, list : Files, tries : 0 .. Retries]
NoFiles == [t \in Tasks |-> 0]
IdleReader == [pc |-> "idle", gen |-> 0, todo |-> {}, list |-> NoFiles, tries |-> 0]

Least(s) == CHOOSE x \in s : \A y \in s : x <= y

\* The after-images of a journal over the task files.
Overlay(files, j) == [t \in Tasks |-> IF t \in j.tasks THEN j.n ELSE files[t]]
ValueOf(d) == Overlay(d.files, d.journal)
Value == ValueOf(dir)

\* The directories a power loss may leave: one of those since the last fsync,
\* or, where renames are not ordered, each entry from one of them.
Survivors ==
    IF Ordered THEN disk
    ELSE {[files |-> f, journal |-> j, gen |-> dir.gen] :
             f \in {g \in Files : \A t \in Tasks : \E d \in disk : g[t] = d.files[t]},
             j \in {d.journal : d \in disk}}

----------------------------------------------------------------------------
(* A process under the store lock *)

At(w, pc) == writer[w].pc = pc
Goto(w, pc) == writer' = [writer EXCEPT ![w].pc = pc]

Unlock(w) ==
    /\ lock' = None
    /\ writer' = [writer EXCEPT ![w] = IdleWriter]

Rename(d) == dir' = d /\ disk' = disk \cup {d}
SyncDir == disk' = {dir} /\ UNCHANGED dir

\* The caller of the transaction w runs, if it is one, is told the outcome.
Tell(w, outcome) ==
    log' = IF writer[w].replay \/ writer[w].txn = NoJournal THEN log
           ELSE [log EXCEPT ![writer[w].txn.n].outcome = outcome]

\* Mutant: a process starts on the task files and leaves the journal alone.
LockWithoutReplay(w) ==
    /\ At(w, "idle") /\ lock = None
    /\ lock' = w
    /\ writer' = [writer EXCEPT ![w] = [IdleWriter EXCEPT !.pc = "locked"]]
    /\ UNCHANGED <<dir, disk, log, reader, faults>>

\* The lock is taken, and a journal that is there is replayed first.
Lock(w) ==
    /\ At(w, "idle") /\ lock = None
    /\ lock' = w
    /\ writer' = [writer EXCEPT ![w] =
         IF dir.journal = NoJournal THEN [IdleWriter EXCEPT !.pc = "locked"]
         ELSE [pc |-> "apply", txn |-> dir.journal, left |-> dir.journal.tasks,
               replay |-> TRUE]]
    /\ UNCHANGED <<dir, disk, log, reader, faults>>

\* A locked read, a refused mutation, or one that changed nothing.
Leave(w) ==
    /\ At(w, "locked")
    /\ Unlock(w)
    /\ UNCHANGED <<dir, disk, log, reader, faults>>

\* The working set is read and changed, the journal's temp file written.
Begin(w, tasks) ==
    /\ At(w, "locked") /\ Len(log) < MaxTxns /\ tasks # {}
    /\ log' = Append(log, [tasks |-> tasks, outcome |-> "none"])
    /\ writer' = [writer EXCEPT ![w] =
         [pc |-> "publish", txn |-> [n |-> Len(log) + 1, tasks |-> tasks],
          left |-> tasks, replay |-> FALSE]]
    /\ UNCHANGED <<dir, disk, lock, reader, faults>>

Publish(w) ==
    /\ At(w, "publish")
    /\ Rename([dir EXCEPT !.journal = writer[w].txn])
    /\ Goto(w, "sync")
    /\ UNCHANGED <<lock, log, reader, faults>>

\* Mutant: the caller hears of the commit before the directory is synced.
CommitTellsEarly(w) ==
    /\ At(w, "sync")
    /\ Tell(w, "ok")
    /\ Goto(w, "apply")
    /\ UNCHANGED <<dir, disk, lock, reader, faults>>

\* The commit point.
Commit(w) ==
    /\ At(w, "sync")
    /\ SyncDir
    /\ Goto(w, "apply")
    /\ UNCHANGED <<lock, log, reader, faults>>

ApplyOne(w) ==
    /\ At(w, "apply") /\ writer[w].left # {}
    /\ LET t == Least(writer[w].left)
       IN  /\ Rename([dir EXCEPT !.files[t] = writer[w].txn.n])
           /\ writer' = [writer EXCEPT ![w].left = @ \ {t}]
    /\ UNCHANGED <<lock, log, reader, faults>>

SyncFiles(w) ==
    /\ At(w, "apply") /\ writer[w].left = {}
    /\ SyncDir
    /\ Goto(w, "bump")
    /\ UNCHANGED <<lock, log, reader, faults>>

\* Mutant: the generation does not move.
KeepGeneration(w) ==
    /\ At(w, "bump")
    /\ Goto(w, "remove")
    /\ UNCHANGED <<dir, disk, lock, log, reader, faults>>

BumpGeneration(w) ==
    /\ At(w, "bump")
    /\ Rename([dir EXCEPT !.gen = @ + 1])
    /\ Goto(w, "remove")
    /\ UNCHANGED <<lock, log, reader, faults>>

Remove(w) ==
    /\ At(w, "remove")
    /\ Rename([dir EXCEPT !.journal = NoJournal])
    /\ Goto(w, "finish")
    /\ UNCHANGED <<lock, log, reader, faults>>

\* A replay goes on with its own operation; a transaction is told "ok".
Finish(w) ==
    /\ At(w, "finish")
    /\ SyncDir
    /\ Tell(w, "ok")
    /\ IF writer[w].replay
       THEN /\ writer' = [writer EXCEPT ![w] = [IdleWriter EXCEPT !.pc = "locked"]]
            /\ UNCHANGED lock
       ELSE Unlock(w)
    /\ UNCHANGED <<reader, faults>>

----------------------------------------------------------------------------
(* Faults *)

Fault(f) ==
    /\ f \in Faults /\ faults < MaxFaults
    /\ faults' = faults + 1

\* A failed write, rename or fsync up to the commit point is a plain error, a
\* later one a CommittedError.
IOError(w) ==
    /\ Fault("io")
    /\ \/ writer[w].pc \in {"publish", "sync"} /\ Tell(w, "error")
       \/ writer[w].pc \in {"apply", "bump", "remove", "finish"} /\ Tell(w, "committed")
    /\ Unlock(w)
    /\ UNCHANGED <<dir, disk, reader>>

\* The system releases the lock of a killed process.
Kill(w) ==
    /\ Fault("kill")
    /\ lock = w
    /\ Unlock(w)
    /\ UNCHANGED <<dir, disk, log, reader>>

\* The generation file is not fsynced: it may come back empty, which reads 0.
PowerLoss ==
    /\ Fault("power")
    /\ \E d \in Survivors, torn \in BOOLEAN :
          dir' = IF torn THEN [d EXCEPT !.gen = 0] ELSE d
    /\ disk' = {dir'}
    /\ lock' = None
    /\ writer' = [w \in Writers |-> IdleWriter]
    /\ reader' = [r \in Readers |-> IdleReader]
    /\ UNCHANGED log

----------------------------------------------------------------------------
(* Snapshot: a reader without the lock *)

ReadGeneration(r) ==
    /\ reader[r].pc \in {"idle", "start"}
    /\ reader' = [reader EXCEPT ![r].pc = "list", ![r].gen = dir.gen]
    /\ UNCHANGED <<dir, disk, lock, writer, log, faults>>

ListDir(r) ==
    /\ reader[r].pc = "list"
    /\ reader' = [reader EXCEPT ![r].pc = "scan", ![r].list = NoFiles,
                                ![r].todo = {t \in Tasks : dir.files[t] # 0}]
    /\ UNCHANGED <<dir, disk, lock, writer, log, faults>>

ReadFile(r) ==
    /\ reader[r].pc = "scan" /\ reader[r].todo # {}
    /\ LET t == Least(reader[r].todo)
       IN  reader' = [reader EXCEPT ![r].todo = @ \ {t}, ![r].list[t] = dir.files[t]]
    /\ UNCHANGED <<dir, disk, lock, writer, log, faults>>

ReadJournal(r) ==
    /\ reader[r].pc = "scan" /\ reader[r].todo = {}
    /\ reader' = [reader EXCEPT ![r].pc = "check",
                                ![r].list = Overlay(@, dir.journal)]
    /\ UNCHANGED <<dir, disk, lock, writer, log, faults>>

CheckGeneration(r) ==
    /\ reader[r].pc = "check"
    /\ reader' = [reader EXCEPT ![r].tries = @ + 1, ![r].pc =
         IF dir.gen = reader[r].gen THEN "done"
         ELSE IF reader[r].tries + 1 < Retries THEN "start" ELSE "busy"]
    /\ UNCHANGED <<dir, disk, lock, writer, log, faults>>

Return(r) ==
    /\ reader[r].pc \in {"done", "busy"}
    /\ reader' = [reader EXCEPT ![r] = IdleReader]
    /\ UNCHANGED <<dir, disk, lock, writer, log, faults>>

----------------------------------------------------------------------------

Init ==
    /\ dir = [files |-> NoFiles, journal |-> NoJournal, gen |-> 0]
    /\ disk = {dir}
    /\ lock = None
    /\ writer = [w \in Writers |-> IdleWriter]
    /\ log = <<>>
    /\ reader = [r \in Readers |-> IdleReader]
    /\ seen = [r \in Readers |-> {NoFiles}]
    /\ faults = 0

WriterStep(w) ==
    \/ Lock(w) \/ Leave(w) \/ Publish(w) \/ Commit(w) \/ ApplyOne(w) \/ SyncFiles(w)
    \/ BumpGeneration(w) \/ Remove(w) \/ Finish(w) \/ IOError(w) \/ Kill(w)
    \/ \E tasks \in SUBSET Tasks : Begin(w, tasks)

ReaderStep(r) ==
    \/ ReadGeneration(r) \/ ListDir(r) \/ ReadFile(r) \/ ReadJournal(r)
    \/ CheckGeneration(r) \/ Return(r)

\* History: a reader outside a scan has seen the present value only.
Observe ==
    seen' = [r \in Readers |->
               (IF reader'[r].pc \in {"idle", "start"} THEN {} ELSE seen[r]) \cup {Value'}]

Next ==
    /\ \/ \E w \in Writers : WriterStep(w)
       \/ \E r \in Readers : ReaderStep(r)
       \/ PowerLoss
    /\ Observe

Spec == Init /\ [][Next]_vars

----------------------------------------------------------------------------
(* Properties *)

\* Every variable has its type, and the store lock is held exactly by the one
\* process inside its locked operation.
TypeOK ==
    /\ dir \in Dir
    /\ disk \subseteq Dir /\ dir \in disk
    /\ lock \in Writers \cup {None}
    /\ writer \in [Writers -> Writer]
    /\ \A w \in Writers : lock = w <=> ~At(w, "idle")
    /\ Len(log) <= MaxTxns
    /\ \A n \in 1 .. Len(log) :
          log[n] \in [tasks : SUBSET Tasks, outcome : {"none", "ok", "error", "committed"}]
    /\ reader \in [Readers -> Reader]
    /\ \A r \in Readers : seen[r] \subseteq Files
    /\ faults \in 0 .. MaxFaults

\* Snapshot returns a state the store was in during that scan, never part of
\* one transaction and part of the next, whatever commits, fails, replays or
\* is killed while it reads.
SnapshotIsAState ==
    \A r \in Readers : reader[r].pc = "done" => reader[r].list \in seen[r]

\* A transaction is whole or absent, now and in whatever a power loss leaves.
NoTornTransaction ==
    \A v \in {ValueOf(d) : d \in Survivors \cup {dir}} :
        \A n \in 1 .. Len(log) : \A t, u \in log[n].tasks : v[t] = n => v[u] >= n

\* A transaction is seen whole or not at all, by a lock-free reader and by the
\* next process after a kill or a power loss.
TransactionsWhole == SnapshotIsAState /\ NoTornTransaction

\* A transaction whose caller was told ok, or that it committed, is in what
\* any later crash leaves.
ToldSurvives ==
    \A n \in 1 .. Len(log) : log[n].outcome \in {"ok", "committed"} =>
        \A d \in Survivors : \A t \in log[n].tasks : ValueOf(d)[t] >= n

Atomic == INSTANCE AtomicStore WITH
            Numbers <- 1 .. MaxTxns,
            value <- Value,
            possible <- {ValueOf(d) : d \in Survivors}

\* The store of files and journal is an atomic store: its value changes only
\* when a journal is published, to that transaction's after-images, and a
\* power loss leaves the value with or without the last transaction.
ImplementsAtomicStore == Atomic!StoreSpec
=============================================================================
