--------------------------- MODULE TaskJournalProofs ---------------------------
(***************************************************************************)
(* Proofs about TaskJournal, for every set of tasks, writers and readers.  *)
(*                                                                         *)
(* CoreInv needs nothing of the file system: where the holder of the lock  *)
(* is tells what the directory holds, and what a reader has read agrees    *)
(* with it as long as the generation stands.  With renames that become     *)
(* durable in order, DiskInv and ToldInv say the same of every directory a *)
(* power loss may leave.                                                   *)
(***************************************************************************)
EXTENDS TaskJournal, WellFoundedInduction, TLAPS

--------------------------------------------------------------------------------
(* The inductive invariant *)

\* The tasks and the outcome of a transaction.
Transaction == [tasks : SUBSET Tasks, outcome : {"none", "ok", "error", "committed"}]

\* Types, and the lock with its holder.
TypeInv ==
    /\ dir \in Dir /\ disk \subseteq Dir /\ dir \in disk
    /\ lock \in Writers \cup {None}
    /\ writer \in [Writers -> Writer]
    /\ \A w \in Writers : lock = w <=> ~At(w, "idle")
    /\ log \in Seq(Transaction) /\ Len(log) <= MaxTxns
    /\ faults \in 0 .. MaxFaults

\* Where a process is in its locked operation tells what the directory holds.
PhaseOf(w) ==
    LET j == writer[w].txn
    IN  /\ writer[w].pc \in {"locked", "publish", "finish"} => dir.journal = NoJournal
        /\ writer[w].pc \in {"publish", "sync", "apply", "bump", "remove", "finish"} =>
              j \in Journal
        /\ writer[w].pc \in {"sync", "apply", "bump", "remove"} => dir.journal = j
        /\ writer[w].pc \in {"publish", "sync"} => writer[w].left = j.tasks /\ ~writer[w].replay
        /\ writer[w].left \subseteq j.tasks
        /\ writer[w].pc = "apply" => \A t \in j.tasks \ writer[w].left : dir.files[t] = j.n
        /\ writer[w].pc \in {"bump", "remove", "finish"} => \A t \in j.tasks : dir.files[t] = j.n
PhaseInv == \A w \in Writers : PhaseOf(w)

\* A process removes the journal.
Removing == \E w \in Writers : At(w, "remove")

\* What a reader has read is what is there, but for files of the journal.
ReaderOf(r) ==
    LET R == reader[r]
        same == R.gen = dir.gen
    IN  /\ R.pc = "idle" => R.tries = 0
        /\ R.pc \in {"start", "list", "scan", "check"} => R.tries < Retries
        /\ R.pc \in {"list", "scan", "check"} => R.gen <= dir.gen
        /\ R.pc = "scan" /\ same =>
              \A t \in Tasks \ R.todo : R.list[t] = dir.files[t] \/ t \in dir.journal.tasks
        /\ R.pc = "scan" /\ same /\ Removing =>
              \A t \in Tasks \ R.todo : R.list[t] = dir.files[t]
        /\ R.pc = "check" /\ same => R.list \in seen[r]
        /\ R.pc = "done" => R.list \in seen[r]
        /\ Value \in seen[r]
ReaderInv ==
    /\ reader \in [Readers -> Reader] /\ seen \in [Readers -> SUBSET Files]
    /\ \A r \in Readers : ReaderOf(r)

\* What a power loss may leave when renames are ordered: whole transactions,
\* none newer than the log, and all one value unless a journal is being
\* committed or replayed.
Whole(v) == \A n \in 1 .. Len(log) : \A t, u \in log[n].tasks : v[t] = n => v[u] >= n
Below(v) == \A t \in Tasks : v[t] <= Len(log)
Logged(j) == j.n <= Len(log) /\ j.tasks = log[j.n].tasks
Durable == \E w \in Writers : \/ At(w, "apply") /\ ~writer[w].replay
                              \/ writer[w].pc \in {"bump", "remove", "finish"}
Agree == \A d \in disk : ValueOf(d) = Value
TxnOf(w) == /\ writer[w].pc \notin {"idle", "locked"} => Logged(writer[w].txn)
            /\ At(w, "publish") => writer[w].txn.n = Len(log)
DiskInv ==
    /\ \A d \in disk : /\ Whole(ValueOf(d)) /\ Below(ValueOf(d))
                       /\ d.journal # NoJournal => Logged(d.journal)
    /\ dir.journal = NoJournal \/ Durable => Agree
    /\ \A w \in Writers : TxnOf(w)

\* A transaction whose caller was told that it committed is in all of them.
HasAll(n) == \A d \in disk : \A t \in log[n].tasks : ValueOf(d)[t] >= n
ToldInv ==
    \A n \in 1 .. Len(log) : log[n].outcome \in {"ok", "committed"} => HasAll(n)

CoreInv == TypeInv /\ PhaseInv /\ ReaderInv
--------------------------------------------------------------------------------
(* Values and the lock *)

\* The least of a set of task numbers, which apply and a scan take next, is there.
LEMMA LeastOf ==
    ASSUME NEW s, s \subseteq Nat, s # {}
    PROVE  Least(s) \in s
<1> DEFINE R == OpToRel(<, Nat)
<1>1. IsWellFoundedOn(R, Nat)
  BY NatLessThanWellFounded, Zenon
<1> HIDE DEF R
<1>2. PICK x \in s : \A y \in s : ~ (<<y, x>> \in R)
  BY <1>1, WFMin
<1> USE DEF R
<1>3. \A y \in s : ~(y < x)
  BY <1>2 DEF OpToRel
<1>4. \A y \in s : x <= y
  BY <1>3
<1>5. QED
  BY <1>4 DEF Least

\* The value of a directory is its files under the after-images of its journal.
LEMMA ValueTyped ==
    ASSUME NEW d \in Dir
    PROVE  /\ ValueOf(d) \in Files
           /\ \A t \in Tasks : ValueOf(d)[t] = IF t \in d.journal.tasks THEN d.journal.n
                                                ELSE d.files[t]
<1>1. d.files \in Files /\ d.journal \in Journal \cup {NoJournal}
  BY DEF Dir
<1>2. d.journal.n \in Versions /\ d.journal.tasks \subseteq Tasks
  BY <1>1, BoundsAssumption DEF Journal, NoJournal, Versions
<1>3. \A t \in Tasks : d.files[t] \in Versions
  BY <1>1 DEF Files
<1>4. QED
  BY <1>2, <1>3 DEF ValueOf, Overlay, Files

\* Two directories with the same tasks in the same versions have one value.
LEMMA SameValue ==
    ASSUME NEW d \in Dir, NEW e \in Dir, \A t \in Tasks : ValueOf(d)[t] = ValueOf(e)[t]
    PROVE  ValueOf(d) = ValueOf(e)
  BY ValueTyped DEF Files

\* The value of the store gives every task a version.
LEMMA ValueIsAFile == TypeInv => Value \in Files
  BY ValueTyped DEF TypeInv, Value

\* A journal is not the absence of one, and its number is not 0.
LEMMA JournalIsSome ==
    ASSUME NEW j \in Journal
    PROVE  j # NoJournal /\ j.n \in Nat /\ j.n # 0 /\ j.tasks \subseteq Tasks
  BY BoundsAssumption DEF Journal, NoJournal

\* The process inside its operation holds the lock and is the only one there.
LEMMA Alone ==
    ASSUME TypeInv, NEW w \in Writers, ~At(w, "idle")
    PROVE  lock = w /\ \A v \in Writers : v # w => At(v, "idle")
  BY DEF TypeInv

\* The history of a reader in its scan only grows, and has the present value.
LEMMA SeenGrows ==
    ASSUME ReaderInv, Observe, dir' \in Dir
    PROVE  /\ seen' \in [Readers -> SUBSET Files]
           /\ \A r \in Readers : /\ Value' \in seen'[r]
                                 /\ reader'[r].pc \notin {"idle", "start"} =>
                                      seen[r] \subseteq seen'[r]
<1>1. Value' \in Files
  BY ValueTyped DEF Value
<1>2. QED
  BY <1>1 DEF Observe, ReaderInv

--------------------------------------------------------------------------------
(* Readers and the holder of the lock, one step at a time *)

\* Readers through a step that keeps the generation.
LEMMA ReadersKept ==
    ASSUME ReaderInv, Observe, dir \in Dir, dir' \in Dir, reader' = reader, dir'.gen = dir.gen,
           \/ Removing /\ dir'.files = dir.files
           \/ /\ \A t \in Tasks : dir'.files[t] = dir.files[t] \/ t \in dir'.journal.tasks
              /\ dir.journal.tasks \subseteq dir'.journal.tasks,
           Removing' => Removing /\ dir'.files = dir.files
    PROVE  ReaderInv'
<1>1. /\ seen' \in [Readers -> SUBSET Files]
      /\ \A r \in Readers : /\ Value' \in seen'[r]
                            /\ reader[r].pc \notin {"idle", "start"} => seen[r] \subseteq seen'[r]
  BY SeenGrows
<1>2. ASSUME NEW r \in Readers
      PROVE  ReaderOf(r)'
  <2>1. ReaderOf(r)
    BY DEF ReaderInv
  <2>2. ASSUME reader[r].pc = "scan", reader[r].gen = dir.gen, NEW t \in Tasks \ reader[r].todo
        PROVE  /\ reader[r].list[t] = dir'.files[t] \/ t \in dir'.journal.tasks
               /\ Removing' => reader[r].list[t] = dir'.files[t]
    BY <2>1, <2>2 DEF ReaderOf
  <2>3. reader[r].pc \in {"check", "done"} => seen[r] \subseteq seen'[r]
    BY <1>1
  <2>4. QED
    BY <1>1, <2>1, <2>2, <2>3 DEF ReaderOf
<1>3. QED
  BY <1>1, <1>2 DEF ReaderInv

\* Readers through a step that moves it: no scan under way can end well.
LEMMA ReadersOutrun ==
    ASSUME ReaderInv, Observe, dir \in Dir, dir' \in Dir, reader' = reader, dir'.gen = dir.gen + 1
    PROVE  ReaderInv'
<1>1. /\ seen' \in [Readers -> SUBSET Files]
      /\ \A r \in Readers : /\ Value' \in seen'[r]
                            /\ reader[r].pc \notin {"idle", "start"} => seen[r] \subseteq seen'[r]
  BY SeenGrows
<1>2. dir.gen \in Nat
  BY DEF Dir
<1>3. ASSUME NEW r \in Readers
      PROVE  ReaderOf(r)'
  <2>1. ReaderOf(r) /\ reader[r].gen \in Nat
    BY DEF ReaderInv, Reader
  <2>2. reader[r].pc \in {"list", "scan", "check"} =>
            reader[r].gen <= dir'.gen /\ reader[r].gen # dir'.gen
    BY <1>2, <2>1 DEF ReaderOf
  <2>3. reader[r].pc = "done" => seen[r] \subseteq seen'[r]
    BY <1>1
  <2>4. QED
    BY <1>1, <2>1, <2>2, <2>3 DEF ReaderOf
<1>4. QED
  BY <1>1, <1>3 DEF ReaderInv

\* The holder of the lock moves and keeps the lock.
LEMMA HolderMoves ==
    ASSUME TypeInv, PhaseInv, NEW w \in Writers, ~At(w, "idle") \/ lock = None, NEW W \in Writer,
           W.pc # "idle", lock' = w, writer' = [writer EXCEPT ![w] = W],
           (writer'[w] = W /\ \A v \in Writers : v # w => writer'[v].pc = "idle") => PhaseOf(w)'
    PROVE  /\ lock' \in Writers \cup {None} /\ writer' \in [Writers -> Writer]
           /\ \A v \in Writers : lock' = v <=> ~At(v, "idle")'
           /\ PhaseInv' /\ writer'[w] = W
           /\ \A v \in Writers : v # w => writer'[v].pc = "idle"
<1>1. \A v \in Writers : v # w => At(v, "idle")
  BY Alone, ProcessesAssumption DEF TypeInv
<1>2. /\ writer' \in [Writers -> Writer] /\ writer'[w] = W
      /\ \A v \in Writers : v # w => writer'[v] = writer[v]
  BY DEF TypeInv
<1>3. \A v \in Writers : v # w => writer'[v].pc = "idle"
  BY <1>1, <1>2 DEF At
<1>4. \A v \in Writers : lock' = v <=> ~At(v, "idle")'
  BY <1>2, <1>3 DEF At
<1>5. PhaseInv'
  <2> SUFFICES ASSUME NEW v \in Writers
               PROVE  PhaseOf(v)'
    BY DEF PhaseInv
  <2>1. CASE v = w
    BY <2>1, <1>2, <1>3
  <2>2. CASE v # w
    <3>1. writer'[v] = writer[v] /\ writer[v].pc = "idle" /\ PhaseOf(v)
      BY <2>2, <1>1, <1>2 DEF At, PhaseInv
    <3>2. QED
      BY <3>1 DEF PhaseOf
  <2>3. QED
    BY <2>1, <2>2
<1>6. QED
  BY <1>2, <1>3, <1>4, <1>5

\* A process outside its operation has its type.
LEMMA IdleWriterTyped == IdleWriter \in Writer /\ IdleWriter.pc = "idle"
  BY DEF IdleWriter, Writer

\* The lock is given up.
LEMMA HolderLeaves ==
    ASSUME TypeInv, PhaseInv, NEW w \in Writers, ~At(w, "idle"), Unlock(w)
    PROVE  /\ lock' \in Writers \cup {None} /\ writer' \in [Writers -> Writer]
           /\ \A v \in Writers : lock' = v <=> ~At(v, "idle")'
           /\ PhaseInv' /\ \A v \in Writers : writer'[v].pc = "idle"
<1>1. \A v \in Writers : v # w => At(v, "idle")
  BY Alone
<1>2. /\ writer' \in [Writers -> Writer] /\ writer'[w] = IdleWriter
      /\ \A v \in Writers : v # w => writer'[v] = writer[v]
  BY IdleWriterTyped DEF TypeInv, Unlock
<1>3. \A v \in Writers : writer'[v].pc = "idle"
  BY <1>1, <1>2, IdleWriterTyped DEF At
<1>4. \A v \in Writers : lock' = v <=> ~At(v, "idle")'
  BY <1>3, ProcessesAssumption DEF At, Unlock
<1>5. PhaseInv'
  <2> SUFFICES ASSUME NEW v \in Writers
               PROVE  PhaseOf(v)'
    BY DEF PhaseInv
  <2>1. writer'[v].left \subseteq writer'[v].txn.tasks
    BY <1>2 DEF IdleWriter, NoJournal, PhaseInv, PhaseOf
  <2>2. QED
    BY <1>3, <2>1 DEF PhaseOf
<1>6. QED
  BY <1>2, <1>3, <1>4, <1>5 DEF Unlock

\* A step of the lock's holder that leaves the directory alone.
LEMMA DirKept ==
    ASSUME ReaderInv, Observe, dir \in Dir, dir' = dir, reader' = reader, ~Removing'
    PROVE  ReaderInv'
<1>1. dir'.gen = dir.gen /\ dir' \in Dir
  BY DEF Dir
<1>2. \A t \in Tasks : dir'.files[t] = dir.files[t] \/ t \in dir'.journal.tasks
  OBVIOUS
<1>3. dir.journal.tasks \subseteq dir'.journal.tasks
  OBVIOUS
<1>4. QED
  BY <1>1, <1>2, <1>3, ReadersKept

\* With the holder of the lock elsewhere nobody removes a journal.
LEMMA NotRemoving ==
    ASSUME NEW w \in Writers, writer'[w].pc # "remove",
           \A v \in Writers : v # w => writer'[v].pc = "idle"
    PROVE  ~Removing'
  BY DEF Removing, At

--------------------------------------------------------------------------------
(* Every step keeps CoreInv *)

\* Taking the lock starts the replay exactly when a journal is there.
LEMMA LockCore ==
    ASSUME CoreInv, NEW w \in Writers, Lock(w), Observe
    PROVE  CoreInv'
<1> USE DEF CoreInv
<1>1. dir.journal \in Journal \cup {NoJournal} /\ dir \in Dir
  BY DEF TypeInv, Dir
<1> DEFINE W == IF dir.journal = NoJournal THEN [IdleWriter EXCEPT !.pc = "locked"]
                ELSE [pc |-> "apply", txn |-> dir.journal, left |-> dir.journal.tasks,
                      replay |-> TRUE]
<1>2. /\ W \in Writer /\ W.pc # "idle" /\ W.pc # "remove"
      /\ W.left \subseteq W.txn.tasks
      /\ \/ W.pc = "locked" /\ dir.journal = NoJournal
         \/ /\ W.pc = "apply" /\ W.txn = dir.journal /\ W.left = dir.journal.tasks
            /\ dir.journal \in Journal
  <2>1. CASE dir.journal = NoJournal
    BY <2>1 DEF IdleWriter, Writer, NoJournal
  <2>2. CASE dir.journal # NoJournal
    <3>1. dir.journal \in Journal
      BY <2>2, <1>1
    <3>2. dir.journal.tasks \subseteq Tasks
      BY <3>1, JournalIsSome
    <3>3. QED
      BY <2>2, <3>1, <3>2 DEF Writer
  <2>3. QED
    BY <2>1, <2>2
<1>3. /\ writer' = [writer EXCEPT ![w] = W] /\ lock' = w /\ lock = None
      /\ UNCHANGED <<dir, disk, log, reader, faults>>
  BY DEF Lock
<1> HIDE DEF W
<1>4. writer'[w] = W => PhaseOf(w)'
  BY <1>2, <1>3 DEF PhaseOf
<1>5. /\ lock' \in Writers \cup {None} /\ writer' \in [Writers -> Writer]
      /\ \A v \in Writers : lock' = v <=> ~At(v, "idle")'
      /\ PhaseInv' /\ writer'[w] = W
      /\ \A v \in Writers : v # w => writer'[v].pc = "idle"
  BY <1>2, <1>3, <1>4, HolderMoves
<1>6. ReaderInv'
  BY <1>1, <1>2, <1>3, <1>5, NotRemoving, DirKept
<1>7. QED
  BY <1>3, <1>5, <1>6 DEF TypeInv

\* A process that gives the lock up leaves the directory as it is.
LEMMA LeaveCore ==
    ASSUME CoreInv, NEW w \in Writers, ~At(w, "idle"), Unlock(w), Observe,
           UNCHANGED <<dir, disk, reader>>,
           log' \in Seq(Transaction) /\ Len(log') <= MaxTxns, faults' \in 0 .. MaxFaults
    PROVE  CoreInv'
<1> USE DEF CoreInv
<1>1. /\ lock' \in Writers \cup {None} /\ writer' \in [Writers -> Writer]
      /\ \A v \in Writers : lock' = v <=> ~At(v, "idle")'
      /\ PhaseInv' /\ \A v \in Writers : writer'[v].pc = "idle"
  BY HolderLeaves
<1>2. ~Removing'
  BY <1>1 DEF Removing, At
<1>3. ReaderInv'
  BY <1>2, DirKept DEF TypeInv
<1>4. QED
  BY <1>1, <1>3 DEF TypeInv

\* The journal written aside is that of the transaction just logged.
LEMMA BeginCore ==
    ASSUME CoreInv, NEW w \in Writers, NEW tasks \in SUBSET Tasks, Begin(w, tasks), Observe
    PROVE  CoreInv'
<1> USE DEF CoreInv
<1> DEFINE j == [n |-> Len(log) + 1, tasks |-> tasks]
           W == [pc |-> "publish", txn |-> j, left |-> tasks, replay |-> FALSE]
           x == [tasks |-> tasks, outcome |-> "none"]
<1>1. /\ At(w, "locked") /\ Len(log) < MaxTxns /\ dir \in Dir
      /\ log' = Append(log, x) /\ writer' = [writer EXCEPT ![w] = W]
      /\ UNCHANGED <<dir, disk, lock, reader, faults>>
  BY DEF Begin, TypeInv
<1>2. Len(log) \in Nat /\ log \in Seq(Transaction)
  BY DEF TypeInv
<1>3. j \in Journal /\ j.tasks = tasks
  BY <1>1, <1>2, BoundsAssumption DEF Journal
<1>4. W \in Writer /\ W.pc = "publish" /\ W.txn = j /\ W.left = j.tasks /\ ~W.replay
  BY <1>3 DEF Writer
<1>5. log' \in Seq(Transaction) /\ Len(log') <= MaxTxns
  <2>1. x \in Transaction
    BY DEF Transaction
  <2>2. QED
    BY <1>1, <1>2, <2>1, BoundsAssumption
<1>6. dir.journal = NoJournal /\ ~At(w, "idle") /\ lock = w
  BY <1>1, Alone DEF PhaseInv, PhaseOf, At
<1> HIDE DEF W, j, x
<1>7. writer'[w] = W => PhaseOf(w)'
  BY <1>1, <1>3, <1>4, <1>6 DEF PhaseOf
<1>8. /\ lock' \in Writers \cup {None} /\ writer' \in [Writers -> Writer]
      /\ \A v \in Writers : lock' = v <=> ~At(v, "idle")'
      /\ PhaseInv' /\ writer'[w] = W
      /\ \A v \in Writers : v # w => writer'[v].pc = "idle"
  BY <1>1, <1>4, <1>6, <1>7, HolderMoves
<1>9. ReaderInv'
  BY <1>1, <1>4, <1>8, NotRemoving, DirKept
<1>10. QED
  BY <1>1, <1>5, <1>8, <1>9 DEF TypeInv

\* Goto keeps all but the program counter.
LEMMA Going ==
    ASSUME TypeInv, NEW w \in Writers,
           NEW pc \in {"locked", "publish", "sync", "apply", "bump", "remove", "finish"},
           Goto(w, pc)
    PROVE  LET W == [writer[w] EXCEPT !.pc = pc]
           IN  /\ W \in Writer /\ W.pc = pc /\ W.txn = writer[w].txn
               /\ W.left = writer[w].left /\ W.replay = writer[w].replay
               /\ writer' = [writer EXCEPT ![w] = W]
<1>1. writer[w] \in Writer
  BY DEF TypeInv
<1>2. QED
  BY <1>1 DEF Goto, Writer

\* The journal appears in a directory that had none: no file has changed yet.
LEMMA PublishCore ==
    ASSUME CoreInv, NEW w \in Writers, Publish(w), Observe
    PROVE  CoreInv'
<1> USE DEF CoreInv
<1> DEFINE j == writer[w].txn
           W == [writer[w] EXCEPT !.pc = "sync"]
<1>1. /\ writer[w].pc = "publish" /\ dir \in Dir /\ ~At(w, "idle")
      /\ dir' = [dir EXCEPT !.journal = j] /\ disk' = disk \cup {dir'}
      /\ UNCHANGED <<lock, log, reader, faults>>
  BY DEF Publish, At, Rename, TypeInv
<1>2. /\ W \in Writer /\ W.pc = "sync" /\ W.txn = j /\ W.left = writer[w].left
      /\ W.replay = writer[w].replay /\ writer' = [writer EXCEPT ![w] = W]
  BY Going DEF Publish
<1>3. /\ dir.journal = NoJournal /\ j \in Journal /\ writer[w].left = j.tasks
      /\ ~writer[w].replay
  BY <1>1 DEF PhaseInv, PhaseOf
<1>4. /\ dir' \in Dir /\ dir'.journal = j /\ dir'.files = dir.files /\ dir'.gen = dir.gen
  BY <1>1, <1>3 DEF Dir
<1> HIDE DEF W, j
<1>5. writer'[w] = W => PhaseOf(w)'
  BY <1>2, <1>3, <1>4 DEF PhaseOf
<1>6. /\ lock' \in Writers \cup {None} /\ writer' \in [Writers -> Writer]
      /\ \A v \in Writers : lock' = v <=> ~At(v, "idle")'
      /\ PhaseInv' /\ writer'[w] = W
      /\ \A v \in Writers : v # w => writer'[v].pc = "idle"
  BY <1>1, <1>2, <1>5, HolderMoves, Alone
<1>7. ReaderInv'
  <2>1. dir.journal.tasks = {}
    BY <1>3 DEF NoJournal
  <2>2. ~Removing'
    BY <1>2, <1>6, NotRemoving
  <2>3. QED
    BY <1>1, <1>4, <2>1, <2>2, ReadersKept
<1>8. QED
  BY <1>1, <1>4, <1>6, <1>7 DEF TypeInv

\* The commit point leaves everything but the phase.
LEMMA CommitCore ==
    ASSUME CoreInv, NEW w \in Writers, Commit(w), Observe
    PROVE  CoreInv'
<1> USE DEF CoreInv
<1> DEFINE W == [writer[w] EXCEPT !.pc = "apply"]
<1>1. /\ writer[w].pc = "sync" /\ dir \in Dir /\ ~At(w, "idle")
      /\ dir' = dir /\ disk' = {dir}
      /\ UNCHANGED <<lock, log, reader, faults>>
  BY DEF Commit, At, SyncDir, TypeInv
<1>2. /\ W \in Writer /\ W.pc = "apply" /\ W.txn = writer[w].txn /\ W.left = writer[w].left
      /\ W.replay = writer[w].replay /\ writer' = [writer EXCEPT ![w] = W]
  BY Going DEF Commit
<1>3. /\ dir.journal = writer[w].txn /\ writer[w].txn \in Journal
      /\ writer[w].left = writer[w].txn.tasks
  BY <1>1 DEF PhaseInv, PhaseOf
<1> HIDE DEF W
<1>5. writer'[w] = W => PhaseOf(w)'
  BY <1>1, <1>2, <1>3 DEF PhaseOf
<1>6. /\ lock' \in Writers \cup {None} /\ writer' \in [Writers -> Writer]
      /\ \A v \in Writers : lock' = v <=> ~At(v, "idle")'
      /\ PhaseInv' /\ writer'[w] = W
      /\ \A v \in Writers : v # w => writer'[v].pc = "idle"
  BY <1>1, <1>2, <1>5, HolderMoves, Alone
<1>7. ReaderInv'
  BY <1>1, <1>2, <1>6, NotRemoving, DirKept
<1>8. QED
  BY <1>1, <1>6, <1>7 DEF TypeInv

\* Applying a file of the journal makes it the after-image readers lay over it.
LEMMA ApplyCore ==
    ASSUME CoreInv, NEW w \in Writers, ApplyOne(w), Observe
    PROVE  CoreInv'
<1> USE DEF CoreInv
<1> DEFINE j == writer[w].txn
           t == Least(writer[w].left)
           W == [writer[w] EXCEPT !.left = @ \ {t}]
<1>1. /\ writer[w].pc = "apply" /\ writer[w].left # {} /\ dir \in Dir /\ ~At(w, "idle")
      /\ dir' = [dir EXCEPT !.files[t] = j.n] /\ disk' = disk \cup {dir'}
      /\ UNCHANGED <<lock, log, reader, faults>>
  BY DEF ApplyOne, At, Rename, TypeInv
<1>2. /\ dir.journal = j /\ j \in Journal /\ writer[w].left \subseteq j.tasks
      /\ \A u \in j.tasks \ writer[w].left : dir.files[u] = j.n
  BY <1>1 DEF PhaseInv, PhaseOf
<1>3. t \in writer[w].left /\ t \in Tasks /\ j.n \in Versions
  <2>1. writer[w].left \subseteq Tasks /\ j.tasks \subseteq Tasks /\ j.n \in Versions
    BY <1>2, JournalIsSome, BoundsAssumption DEF Journal, Versions
  <2>2. QED
    BY <1>1, <1>2, <2>1, LeastOf, TasksAssumption
<1>4. /\ W \in Writer /\ W.pc = "apply" /\ W.txn = j /\ W.left = writer[w].left \ {t}
      /\ W.replay = writer[w].replay /\ writer' = [writer EXCEPT ![w] = W]
  <2>1. writer[w] \in Writer
    BY DEF TypeInv
  <2>2. QED
    BY <2>1, <1>1 DEF ApplyOne, Writer
<1> HIDE DEF W, j, t
<1>5. /\ dir' \in Dir /\ dir'.journal = dir.journal /\ dir'.gen = dir.gen
      /\ dir'.files = [dir.files EXCEPT ![t] = j.n]
  BY <1>1, <1>3 DEF Dir, Files
<1>6. dir'.files[t] = j.n /\ \A u \in Tasks : u # t => dir'.files[u] = dir.files[u]
  BY <1>1, <1>3, <1>5 DEF Dir, Files
<1>7. writer'[w] = W => PhaseOf(w)'
  <2>1. \A u \in j.tasks \ (writer[w].left \ {t}) : dir'.files[u] = j.n
    BY <1>2, <1>6, JournalIsSome
  <2>2. QED
    BY <1>2, <1>4, <1>5, <2>1 DEF PhaseOf
<1>8. /\ lock' \in Writers \cup {None} /\ writer' \in [Writers -> Writer]
      /\ \A v \in Writers : lock' = v <=> ~At(v, "idle")'
      /\ PhaseInv' /\ writer'[w] = W
      /\ \A v \in Writers : v # w => writer'[v].pc = "idle"
  BY <1>1, <1>4, <1>7, HolderMoves, Alone
<1>9. ReaderInv'
  <2>1. \A u \in Tasks : dir'.files[u] = dir.files[u] \/ u \in dir'.journal.tasks
    BY <1>2, <1>3, <1>5, <1>6
  <2>2. dir.journal.tasks \subseteq dir'.journal.tasks
    BY <1>5
  <2>3. ~Removing'
    BY <1>4, <1>8, NotRemoving
  <2>4. QED
    BY <1>1, <1>5, <2>1, <2>2, <2>3, ReadersKept
<1>10. QED
  BY <1>1, <1>5, <1>8, <1>9 DEF TypeInv

\* All files of the journal are applied when the directory is synced.
LEMMA SyncFilesCore ==
    ASSUME CoreInv, NEW w \in Writers, SyncFiles(w), Observe
    PROVE  CoreInv'
<1> USE DEF CoreInv
<1> DEFINE W == [writer[w] EXCEPT !.pc = "bump"]
<1>1. /\ writer[w].pc = "apply" /\ writer[w].left = {} /\ dir \in Dir /\ ~At(w, "idle")
      /\ dir' = dir /\ disk' = {dir}
      /\ UNCHANGED <<lock, log, reader, faults>>
  BY DEF SyncFiles, At, SyncDir, TypeInv
<1>2. /\ W \in Writer /\ W.pc = "bump" /\ W.txn = writer[w].txn /\ W.left = writer[w].left
      /\ W.replay = writer[w].replay /\ writer' = [writer EXCEPT ![w] = W]
  BY Going DEF SyncFiles
<1>3. /\ dir.journal = writer[w].txn /\ writer[w].txn \in Journal
      /\ \A u \in writer[w].txn.tasks : dir.files[u] = writer[w].txn.n
  BY <1>1 DEF PhaseInv, PhaseOf
<1> HIDE DEF W
<1>5. writer'[w] = W => PhaseOf(w)'
  BY <1>1, <1>2, <1>3 DEF PhaseOf
<1>6. /\ lock' \in Writers \cup {None} /\ writer' \in [Writers -> Writer]
      /\ \A v \in Writers : lock' = v <=> ~At(v, "idle")'
      /\ PhaseInv' /\ writer'[w] = W
      /\ \A v \in Writers : v # w => writer'[v].pc = "idle"
  BY <1>1, <1>2, <1>5, HolderMoves, Alone
<1>7. ReaderInv'
  BY <1>1, <1>2, <1>6, NotRemoving, DirKept
<1>8. QED
  BY <1>1, <1>6, <1>7 DEF TypeInv

\* The generation moves past every scan under way.
LEMMA BumpCore ==
    ASSUME CoreInv, NEW w \in Writers, BumpGeneration(w), Observe
    PROVE  CoreInv'
<1> USE DEF CoreInv
<1> DEFINE W == [writer[w] EXCEPT !.pc = "remove"]
<1>1. /\ writer[w].pc = "bump" /\ dir \in Dir /\ ~At(w, "idle")
      /\ dir' = [dir EXCEPT !.gen = @ + 1] /\ disk' = disk \cup {dir'}
      /\ UNCHANGED <<lock, log, reader, faults>>
  BY DEF BumpGeneration, At, Rename, TypeInv
<1>2. /\ W \in Writer /\ W.pc = "remove" /\ W.txn = writer[w].txn /\ W.left = writer[w].left
      /\ W.replay = writer[w].replay /\ writer' = [writer EXCEPT ![w] = W]
  BY Going DEF BumpGeneration
<1>3. /\ dir.journal = writer[w].txn /\ writer[w].txn \in Journal
      /\ writer[w].left \subseteq writer[w].txn.tasks
      /\ \A u \in writer[w].txn.tasks : dir.files[u] = writer[w].txn.n
  BY <1>1 DEF PhaseInv, PhaseOf
<1> HIDE DEF W
<1>4. /\ dir' \in Dir /\ dir'.journal = dir.journal /\ dir'.files = dir.files
      /\ dir'.gen = dir.gen + 1
  BY <1>1 DEF Dir
<1>5. writer'[w] = W => PhaseOf(w)'
  BY <1>2, <1>3, <1>4 DEF PhaseOf
<1>6. /\ lock' \in Writers \cup {None} /\ writer' \in [Writers -> Writer]
      /\ \A v \in Writers : lock' = v <=> ~At(v, "idle")'
      /\ PhaseInv' /\ writer'[w] = W
      /\ \A v \in Writers : v # w => writer'[v].pc = "idle"
  BY <1>1, <1>2, <1>5, HolderMoves, Alone
<1>7. ReaderInv'
  BY <1>1, <1>4, ReadersOutrun
<1>8. QED
  BY <1>1, <1>4, <1>6, <1>7 DEF TypeInv

\* The journal goes after its files are there and every older scan is lost.
LEMMA RemoveCore ==
    ASSUME CoreInv, NEW w \in Writers, Remove(w), Observe
    PROVE  CoreInv'
<1> USE DEF CoreInv
<1> DEFINE W == [writer[w] EXCEPT !.pc = "finish"]
<1>1. /\ writer[w].pc = "remove" /\ dir \in Dir /\ ~At(w, "idle") /\ Removing
      /\ dir' = [dir EXCEPT !.journal = NoJournal] /\ disk' = disk \cup {dir'}
      /\ UNCHANGED <<lock, log, reader, faults>>
  BY DEF Remove, At, Rename, TypeInv, Removing
<1>2. /\ W \in Writer /\ W.pc = "finish" /\ W.txn = writer[w].txn /\ W.left = writer[w].left
      /\ W.replay = writer[w].replay /\ writer' = [writer EXCEPT ![w] = W]
  BY Going DEF Remove
<1>3. /\ writer[w].txn \in Journal
      /\ writer[w].left \subseteq writer[w].txn.tasks
      /\ \A u \in writer[w].txn.tasks : dir.files[u] = writer[w].txn.n
  BY <1>1 DEF PhaseInv, PhaseOf
<1> HIDE DEF W
<1>4. /\ dir' \in Dir /\ dir'.journal = NoJournal /\ dir'.files = dir.files
      /\ dir'.gen = dir.gen
  BY <1>1 DEF Dir
<1>5. writer'[w] = W => PhaseOf(w)'
  BY <1>2, <1>3, <1>4 DEF PhaseOf
<1>6. /\ lock' \in Writers \cup {None} /\ writer' \in [Writers -> Writer]
      /\ \A v \in Writers : lock' = v <=> ~At(v, "idle")'
      /\ PhaseInv' /\ writer'[w] = W
      /\ \A v \in Writers : v # w => writer'[v].pc = "idle"
  BY <1>1, <1>2, <1>5, HolderMoves, Alone
<1>7. ReaderInv'
  <2>1. ~Removing'
    BY <1>2, <1>6, NotRemoving
  <2>2. QED
    BY <1>1, <1>4, <2>1, ReadersKept
<1>8. QED
  BY <1>1, <1>4, <1>6, <1>7 DEF TypeInv

\* Telling a caller keeps the log's type and its tasks.
LEMMA Telling ==
    ASSUME TypeInv, NEW w \in Writers, NEW o \in {"ok", "error", "committed"}, Tell(w, o)
    PROVE  /\ log' \in Seq(Transaction) /\ Len(log') = Len(log)
           /\ \A n \in 1 .. Len(log) :
                 /\ log'[n].tasks = log[n].tasks
                 /\ log'[n].outcome # log[n].outcome =>
                       n = writer[w].txn.n /\ ~writer[w].replay /\ log'[n].outcome = o
<1>1. log \in Seq(Transaction) /\ Len(log) \in Nat
  BY DEF TypeInv
<1>2. CASE log' = log
  BY <1>1, <1>2
<1>3. CASE log' # log
  <2> DEFINE k == writer[w].txn.n
             x == [log[k] EXCEPT !.outcome = o]
  <2>1. log' = [log EXCEPT ![k].outcome = o] /\ ~writer[w].replay
    BY <1>3 DEF Tell
  <2>2. k \in 1 .. Len(log)
    <3>1. CASE k \notin DOMAIN log
      BY <1>1, <1>3, <2>1, <3>1
    <3>2. CASE k \in DOMAIN log
      BY <1>1, <3>2
    <3>3. QED
      BY <3>1, <3>2
  <2>3. log[k] \in Transaction
    BY <1>1, <2>2
  <2>4. x \in Transaction /\ x.tasks = log[k].tasks /\ x.outcome = o
    BY <2>3 DEF Transaction
  <2>5. log' = [log EXCEPT ![k] = x]
    BY <2>1
  <2> HIDE DEF x, k
  <2>6. QED
    BY <1>1, <2>1, <2>2, <2>4, <2>5 DEF k
<1>4. QED
  BY <1>2, <1>3

\* A transaction ends by giving the lock up, a replay by going on under it.
LEMMA FinishCore ==
    ASSUME CoreInv, NEW w \in Writers, Finish(w), Observe
    PROVE  CoreInv'
<1> USE DEF CoreInv
<1>1. /\ writer[w].pc = "finish" /\ dir \in Dir /\ ~At(w, "idle") /\ dir' = dir /\ disk' = {dir}
      /\ Tell(w, "ok") /\ UNCHANGED <<reader, faults>>
  BY DEF Finish, At, SyncDir, TypeInv
<1>2. log' \in Seq(Transaction) /\ Len(log') <= MaxTxns
  BY <1>1, Telling DEF TypeInv
<1>3. /\ lock' \in Writers \cup {None} /\ writer' \in [Writers -> Writer]
      /\ \A v \in Writers : lock' = v <=> ~At(v, "idle")'
      /\ PhaseInv' /\ ~Removing'
  <2>1. CASE ~writer[w].replay
    <3>1. Unlock(w)
      BY <2>1 DEF Finish
    <3>2. /\ lock' \in Writers \cup {None} /\ writer' \in [Writers -> Writer]
          /\ \A v \in Writers : lock' = v <=> ~At(v, "idle")'
          /\ PhaseInv' /\ \A v \in Writers : writer'[v].pc = "idle"
      BY <1>1, <3>1, HolderLeaves
    <3>3. QED
      BY <3>2 DEF Removing, At
  <2>2. CASE writer[w].replay
    <3> DEFINE W == [IdleWriter EXCEPT !.pc = "locked"]
    <3>1. writer' = [writer EXCEPT ![w] = W] /\ lock' = lock
      BY <2>2 DEF Finish
    <3>2. W \in Writer /\ W.pc = "locked" /\ W.left = {}
      BY DEF IdleWriter, Writer
    <3>3. dir.journal = NoJournal
      BY <1>1 DEF PhaseInv, PhaseOf
    <3> HIDE DEF W
    <3>4. writer'[w] = W => PhaseOf(w)'
      BY <1>1, <3>2, <3>3 DEF PhaseOf
    <3>5. /\ lock' \in Writers \cup {None} /\ writer' \in [Writers -> Writer]
          /\ \A v \in Writers : lock' = v <=> ~At(v, "idle")'
          /\ PhaseInv' /\ writer'[w] = W
          /\ \A v \in Writers : v # w => writer'[v].pc = "idle"
      BY <1>1, <3>1, <3>2, <3>4, HolderMoves, Alone
    <3>6. QED
      BY <3>2, <3>5, NotRemoving
  <2>3. QED
    BY <2>1, <2>2
<1>4. ReaderInv'
  BY <1>1, <1>3, DirKept
<1>5. QED
  BY <1>1, <1>2, <1>3, <1>4 DEF TypeInv

\* A failed write gives the lock up and leaves the journal to the next process.
LEMMA IOErrorCore ==
    ASSUME CoreInv, NEW w \in Writers, IOError(w), Observe
    PROVE  CoreInv'
<1> USE DEF CoreInv
<1>1. /\ ~At(w, "idle") /\ Unlock(w) /\ UNCHANGED <<dir, disk, reader>>
      /\ Tell(w, "error") \/ Tell(w, "committed")
  BY DEF IOError, At
<1>2. log' \in Seq(Transaction) /\ Len(log') <= MaxTxns
  BY <1>1, Telling DEF TypeInv
<1>3. faults' \in 0 .. MaxFaults
  BY BoundsAssumption DEF IOError, Fault, TypeInv
<1>4. QED
  BY <1>1, <1>2, <1>3, LeaveCore

\* The lock of a killed process falls free.
LEMMA KillCore ==
    ASSUME CoreInv, NEW w \in Writers, Kill(w), Observe
    PROVE  CoreInv'
<1> USE DEF CoreInv
<1>1. /\ ~At(w, "idle") /\ Unlock(w) /\ UNCHANGED <<dir, disk, reader, log>>
  BY DEF Kill, TypeInv
<1>2. log' \in Seq(Transaction) /\ Len(log') <= MaxTxns
  BY <1>1 DEF TypeInv
<1>3. faults' \in 0 .. MaxFaults
  BY BoundsAssumption DEF Kill, Fault, TypeInv
<1>4. QED
  BY <1>1, <1>2, <1>3, LeaveCore

\* What a power loss leaves is a store directory.
LEMMA SurvivorTyped ==
    ASSUME TypeInv, NEW d \in Survivors
    PROVE  d \in Dir
<1>1. CASE Ordered
  BY <1>1 DEF Survivors, TypeInv
<1>2. CASE ~Ordered
  <2>1. dir.gen \in Nat /\ \A e \in disk : e.journal \in Journal \cup {NoJournal}
    BY DEF TypeInv, Dir
  <2>2. d \in {[files |-> f, journal |-> j, gen |-> dir.gen] :
                 f \in {g \in Files : \A t \in Tasks : \E e \in disk : g[t] = e.files[t]},
                 j \in {e.journal : e \in disk}}
    BY <1>2 DEF Survivors
  <2>3. PICK f \in Files, j \in {e.journal : e \in disk} :
               d = [files |-> f, journal |-> j, gen |-> dir.gen]
    BY <2>2
  <2>4. QED
    BY <2>1, <2>3 DEF Dir
<1>3. QED
  BY <1>1, <1>2, OrderedAssumption

\* A reader outside Snapshot has its type.
LEMMA IdleReaderTyped ==
    IdleReader \in Reader /\ IdleReader.pc = "idle" /\ IdleReader.tries = 0
<1>1. NoFiles \in Files
  BY BoundsAssumption DEF NoFiles, Files, Versions
<1>2. QED
  BY <1>1, BoundsAssumption DEF IdleReader, Reader

\* After a power loss nobody is inside an operation or a scan.
LEMMA PowerLossCore ==
    ASSUME CoreInv, PowerLoss, Observe
    PROVE  CoreInv'
<1> USE DEF CoreInv
<1>1. /\ disk' = {dir'} /\ lock' = None /\ writer' = [w \in Writers |-> IdleWriter]
      /\ reader' = [r \in Readers |-> IdleReader] /\ log' = log
      /\ faults < MaxFaults /\ faults' = faults + 1
  BY DEF PowerLoss, Fault
<1>2. PICK d \in Survivors, torn \in BOOLEAN : dir' = IF torn THEN [d EXCEPT !.gen = 0] ELSE d
  BY DEF PowerLoss
<1>3. d \in Dir
  BY SurvivorTyped
<1>4. dir' \in Dir
  BY <1>2, <1>3 DEF Dir
<1>5. writer' \in [Writers -> Writer] /\ \A w \in Writers : writer'[w] = IdleWriter
  BY <1>1, IdleWriterTyped
<1>6. \A w \in Writers : lock' = w <=> ~At(w, "idle")'
  BY <1>1, <1>5, IdleWriterTyped, ProcessesAssumption DEF At
<1>7. TypeInv'
  BY <1>1, <1>4, <1>5, <1>6, BoundsAssumption DEF TypeInv
<1>8. PhaseInv'
  <2> SUFFICES ASSUME NEW w \in Writers
               PROVE  PhaseOf(w)'
    BY DEF PhaseInv
  <2>1. writer'[w].left \subseteq writer'[w].txn.tasks
    BY <1>5 DEF IdleWriter
  <2>2. QED
    BY <1>5, <2>1, IdleWriterTyped DEF PhaseOf
<1>9. ReaderInv'
  <2>1. /\ seen' \in [Readers -> SUBSET Files]
        /\ \A r \in Readers : Value' \in seen'[r]
    BY <1>4, SeenGrows
  <2>2. reader' \in [Readers -> Reader]
        /\ \A r \in Readers : reader'[r].pc = "idle" /\ reader'[r].tries = 0
    BY <1>1, IdleReaderTyped
  <2>3. QED
    BY <2>1, <2>2 DEF ReaderInv, ReaderOf
<1>10. QED
  BY <1>7, <1>8, <1>9

\* A step of one reader.
LEMMA OneReader ==
    ASSUME CoreInv, Observe, UNCHANGED <<dir, disk, lock, writer, log, faults>>,
           NEW r \in Readers, NEW R \in Reader, reader' = [reader EXCEPT ![r] = R],
           /\ reader'[r] = R
           /\ Value' \in seen'[r]
           /\ R.pc \notin {"idle", "start"} => seen[r] \cup {Value} \subseteq seen'[r]
           => ReaderOf(r)'
    PROVE  CoreInv'
<1> USE DEF CoreInv
<1>1. TypeInv'
  BY DEF TypeInv, At
<1>2. PhaseInv'
  BY DEF PhaseInv, PhaseOf
<1>3. /\ reader' \in [Readers -> Reader] /\ reader'[r] = R
      /\ \A q \in Readers : q # r => reader'[q] = reader[q]
  BY DEF ReaderInv
<1>4. /\ seen' \in [Readers -> SUBSET Files]
      /\ \A q \in Readers : /\ Value' \in seen'[q]
                            /\ reader'[q].pc \notin {"idle", "start"} => seen[q] \subseteq seen'[q]
  BY <1>1, SeenGrows DEF TypeInv
<1>5. Value' = Value /\ (Removing' <=> Removing)
  BY DEF Value, Removing, At
<1>6. ASSUME NEW q \in Readers
      PROVE  ReaderOf(q)'
  <2>1. CASE q = r
    BY <2>1, <1>3, <1>4, <1>5
  <2>2. CASE q # r
    <3>1. ReaderOf(q) /\ reader'[q] = reader[q]
      BY <2>2, <1>3 DEF ReaderInv
    <3>2. reader[q].pc \in {"check", "done"} => seen[q] \subseteq seen'[q]
      BY <3>1, <1>4
    <3>3. QED
      BY <3>1, <3>2, <1>4, <1>5 DEF ReaderOf
  <2>3. QED
    BY <2>1, <2>2
<1>7. QED
  BY <1>1, <1>2, <1>3, <1>4, <1>6 DEF ReaderInv

\* Each step of Snapshot: the scan that keeps its generation reads the value.
LEMMA ReaderStepCore ==
    ASSUME CoreInv, NEW r \in Readers, ReaderStep(r), Observe
    PROVE  CoreInv'
<1> USE DEF CoreInv
<1>1. /\ reader[r] \in Reader /\ ReaderOf(r) /\ dir \in Dir /\ dir.gen \in Nat
      /\ dir.files \in Files /\ seen[r] \subseteq Files
  BY DEF ReaderInv, TypeInv, Dir
<1>2. reader \in [Readers -> Reader]
  BY DEF ReaderInv
<1>3. CASE ReadGeneration(r)
  <2> DEFINE R == [reader[r] EXCEPT !.pc = "list", !.gen = dir.gen]
  <2>1. R \in Reader /\ R.pc = "list" /\ R.gen = dir.gen /\ R.tries = reader[r].tries
    BY <1>1 DEF Reader
  <2>2. /\ reader' = [reader EXCEPT ![r] = R] /\ reader[r].pc \in {"idle", "start"}
        /\ UNCHANGED <<dir, disk, lock, writer, log, faults>>
    BY <1>2, <1>3 DEF ReadGeneration
  <2>3. reader[r].tries < Retries
    BY <1>1, <2>2, BoundsAssumption DEF ReaderOf
  <2> HIDE DEF R
  <2>4. reader'[r] = R /\ Value' \in seen'[r] => ReaderOf(r)'
    BY <1>1, <2>1, <2>2, <2>3 DEF ReaderOf
  <2>5. QED
    BY <2>1, <2>2, <2>4, OneReader
<1>4. CASE ListDir(r)
  <2> DEFINE R == [reader[r] EXCEPT !.pc = "scan", !.list = NoFiles,
                                    !.todo = {t \in Tasks : dir.files[t] # 0}]
  <2>1. /\ R \in Reader /\ R.pc = "scan" /\ R.gen = reader[r].gen /\ R.tries = reader[r].tries
        /\ R.list = NoFiles /\ R.todo = {t \in Tasks : dir.files[t] # 0}
    <3>1. NoFiles \in Files
      BY BoundsAssumption DEF NoFiles, Files, Versions
    <3>2. QED
      BY <1>1, <3>1 DEF Reader
  <2>2. /\ reader' = [reader EXCEPT ![r] = R] /\ reader[r].pc = "list"
        /\ UNCHANGED <<dir, disk, lock, writer, log, faults>>
    BY <1>2, <1>4 DEF ListDir
  <2> HIDE DEF R
  <2>3. \A t \in Tasks \ R.todo : R.list[t] = dir.files[t]
    BY <2>1 DEF NoFiles
  <2>4. reader'[r] = R /\ Value' \in seen'[r] => ReaderOf(r)'
    BY <1>1, <2>1, <2>2, <2>3 DEF ReaderOf
  <2>5. QED
    BY <2>1, <2>2, <2>4, OneReader
<1>5. CASE ReadFile(r)
  <2> DEFINE u == Least(reader[r].todo)
             R == [reader[r] EXCEPT !.todo = @ \ {u}, !.list = [@ EXCEPT ![u] = dir.files[u]]]
  <2>1. u \in reader[r].todo /\ u \in Tasks
    <3>1. reader[r].todo \subseteq Tasks /\ reader[r].todo # {}
      BY <1>1, <1>5 DEF Reader, ReadFile
    <3>2. QED
      BY <3>1, LeastOf, TasksAssumption
  <2>2. /\ R \in Reader /\ R.pc = reader[r].pc /\ R.gen = reader[r].gen
        /\ R.tries = reader[r].tries /\ R.todo = reader[r].todo \ {u}
        /\ R.list = [reader[r].list EXCEPT ![u] = dir.files[u]]
    BY <1>1, <2>1 DEF Reader, Files
  <2>3. /\ reader' = [reader EXCEPT ![r] = R] /\ reader[r].pc = "scan"
        /\ UNCHANGED <<dir, disk, lock, writer, log, faults>>
    BY <1>2, <1>5 DEF ReadFile
  <2> HIDE DEF R, u
  <2>4. /\ R.list[u] = dir.files[u]
        /\ \A t \in Tasks \ R.todo :
              t # u => t \in Tasks \ reader[r].todo /\ R.list[t] = reader[r].list[t]
    BY <1>1, <2>1, <2>2 DEF Reader, Files
  <2>5. Removing' <=> Removing
    BY <2>3 DEF Removing, At
  <2>6. ReaderOf(r)
    BY <1>1
  <2>7. R.gen = dir.gen => \A t \in Tasks \ R.todo :
                              R.list[t] = dir.files[t] \/ t \in dir.journal.tasks
    BY <2>2, <2>3, <2>4, <2>6 DEF ReaderOf
  <2>8. R.gen = dir.gen /\ Removing => \A t \in Tasks \ R.todo : R.list[t] = dir.files[t]
    BY <2>2, <2>3, <2>4, <2>6 DEF ReaderOf
  <2>9. R.tries < Retries /\ R.gen <= dir.gen
    BY <2>2, <2>3, <2>6 DEF ReaderOf
  <2>10. reader'[r] = R /\ Value' \in seen'[r] => ReaderOf(r)'
    BY <2>2, <2>3, <2>5, <2>7, <2>8, <2>9 DEF ReaderOf
  <2>11. QED
    BY <2>2, <2>3, <2>10, OneReader
<1>6. CASE ReadJournal(r)
  <2> DEFINE R == [reader[r] EXCEPT !.pc = "check", !.list = Overlay(@, dir.journal)]
  <2>1. /\ reader' = [reader EXCEPT ![r] = R] /\ reader[r].pc = "scan" /\ reader[r].todo = {}
        /\ UNCHANGED <<dir, disk, lock, writer, log, faults>>
    BY <1>2, <1>6 DEF ReadJournal
  <2>2. Overlay(reader[r].list, dir.journal) \in Files
    <3>1. dir.journal \in Journal \cup {NoJournal} /\ dir.journal.n \in Versions
      BY <1>1, BoundsAssumption DEF Dir, Journal, NoJournal, Versions
    <3>2. QED
      BY <1>1, <3>1 DEF Overlay, Files, Reader
  <2>3. /\ R \in Reader /\ R.pc = "check" /\ R.gen = reader[r].gen /\ R.tries = reader[r].tries
        /\ R.list = Overlay(reader[r].list, dir.journal)
    BY <1>1, <2>2 DEF Reader
  <2>4. ASSUME reader[r].gen = dir.gen
        PROVE  R.list = Value
    <3>1. \A t \in Tasks : reader[r].list[t] = dir.files[t] \/ t \in dir.journal.tasks
      BY <1>1, <2>1, <2>4 DEF ReaderOf
    <3>2. QED
      BY <2>3, <3>1 DEF Overlay, Value, ValueOf
  <2> HIDE DEF R
  <2>5. reader'[r] = R /\ Value' \in seen'[r] /\ seen[r] \cup {Value} \subseteq seen'[r]
          => ReaderOf(r)'
    BY <1>1, <2>1, <2>3, <2>4 DEF ReaderOf
  <2>6. QED
    BY <2>1, <2>3, <2>5, OneReader
<1>7. CASE CheckGeneration(r)
  <2> DEFINE pc == IF dir.gen = reader[r].gen THEN "done"
                   ELSE IF reader[r].tries + 1 < Retries THEN "start" ELSE "busy"
             R == [reader[r] EXCEPT !.tries = @ + 1, !.pc = pc]
  <2>1. /\ reader' = [reader EXCEPT ![r] = R] /\ reader[r].pc = "check"
        /\ UNCHANGED <<dir, disk, lock, writer, log, faults>>
    BY <1>2, <1>7 DEF CheckGeneration
  <2>2. reader[r].tries < Retries /\ reader[r].tries \in Nat
    BY <1>1, <2>1 DEF ReaderOf, Reader
  <2>3. /\ pc \in {"done", "start", "busy"}
        /\ pc = "done" => dir.gen = reader[r].gen
        /\ pc = "start" => reader[r].tries + 1 < Retries
    <3>1. CASE dir.gen = reader[r].gen
      BY <3>1
    <3>2. CASE dir.gen # reader[r].gen /\ reader[r].tries + 1 < Retries
      BY <3>2
    <3>3. CASE dir.gen # reader[r].gen /\ ~(reader[r].tries + 1 < Retries)
      BY <3>3
    <3>4. QED
      BY <3>1, <3>2, <3>3
  <2> HIDE DEF pc
  <2>4. R \in Reader /\ R.pc = pc /\ R.tries = reader[r].tries + 1 /\ R.list = reader[r].list
    <3>1. reader[r].tries + 1 \in 0 .. Retries
      BY <2>2, BoundsAssumption
    <3>2. pc \in {"idle", "start", "list", "scan", "check", "done", "busy"}
      BY <2>3
    <3>3. QED
      BY <1>1, <3>1, <3>2 DEF Reader
  <2> HIDE DEF R
  <2>5. pc = "done" => reader[r].list \in seen[r]
    BY <1>1, <2>1, <2>3 DEF ReaderOf
  <2>6. /\ reader'[r] = R /\ Value' \in seen'[r]
        /\ R.pc \notin {"idle", "start"} => seen[r] \cup {Value} \subseteq seen'[r]
        => ReaderOf(r)'
    BY <2>3, <2>4, <2>5 DEF ReaderOf
  <2>7. QED
    BY <2>1, <2>4, <2>6, OneReader
<1>8. CASE Return(r)
  <2>1. /\ reader' = [reader EXCEPT ![r] = IdleReader]
        /\ UNCHANGED <<dir, disk, lock, writer, log, faults>>
    BY <1>8 DEF Return
  <2>2. reader'[r] = IdleReader /\ Value' \in seen'[r] => ReaderOf(r)'
    BY IdleReaderTyped DEF ReaderOf
  <2>3. QED
    BY <2>1, <2>2, IdleReaderTyped, OneReader
<1>9. QED
  BY <1>3, <1>4, <1>5, <1>6, <1>7, <1>8 DEF ReaderStep

\* The empty store.
LEMMA CoreInit == Init => CoreInv
<1> SUFFICES ASSUME Init PROVE CoreInv
  OBVIOUS
<1>1. NoFiles \in Files /\ NoJournal = [n |-> 0, tasks |-> {}]
  BY BoundsAssumption DEF NoFiles, Files, Versions, NoJournal
<1>2. dir \in Dir /\ dir.files = NoFiles /\ dir.journal = NoJournal
  BY <1>1 DEF Init, Dir
<1>3. \A w \in Writers : writer[w] = IdleWriter /\ lock # w
  BY ProcessesAssumption DEF Init
<1>4. TypeInv
  <2>1. writer \in [Writers -> Writer]
    BY IdleWriterTyped DEF Init
  <2>2. \A w \in Writers : lock = w <=> ~At(w, "idle")
    BY <1>3, IdleWriterTyped DEF At
  <2>3. log \in Seq(Transaction) /\ Len(log) <= MaxTxns
    BY BoundsAssumption DEF Init
  <2>4. QED
    BY <1>2, <2>1, <2>2, <2>3, BoundsAssumption DEF TypeInv, Init
<1>5. PhaseInv
  BY <1>3, IdleWriterTyped DEF PhaseInv, PhaseOf, IdleWriter
<1>6. ReaderInv
  <2>1. Value = NoFiles
    <3>1. ValueOf(dir) = [t \in Tasks |-> IF t \in {} THEN 0 ELSE NoFiles[t]]
      BY <1>1, <1>2 DEF ValueOf, Overlay
    <3>2. ValueOf(dir) = [t \in Tasks |-> 0]
      BY <3>1 DEF NoFiles
    <3>3. QED
      BY <3>2 DEF Value, NoFiles
  <2>2. reader \in [Readers -> Reader]
    BY IdleReaderTyped DEF Init
  <2>3. seen \in [Readers -> SUBSET Files]
    BY <1>1 DEF Init
  <2>4. \A r \in Readers : reader[r] = IdleReader /\ Value \in seen[r]
    BY <2>1 DEF Init
  <2>5. QED
    BY <2>2, <2>3, <2>4, IdleReaderTyped DEF ReaderInv, ReaderOf
<1>7. QED
  BY <1>4, <1>5, <1>6 DEF CoreInv

\* A step that changes nothing.
LEMMA CoreStutter == CoreInv /\ UNCHANGED vars => CoreInv'
<1> SUFFICES ASSUME CoreInv, UNCHANGED vars PROVE CoreInv'
  OBVIOUS
<1>1. UNCHANGED <<dir, disk, lock, writer, log, reader, seen, faults>>
  BY DEF vars
<1>2. TypeInv'
  BY <1>1 DEF CoreInv, TypeInv, At
<1>3. PhaseInv'
  BY <1>1 DEF CoreInv, PhaseInv, PhaseOf
<1>4. ReaderInv'
  BY <1>1 DEF CoreInv, ReaderInv, ReaderOf, Removing, At, Value
<1>5. QED
  BY <1>2, <1>3, <1>4 DEF CoreInv

\* Every step keeps the part of the invariant that no file system can break.
LEMMA CoreNext == CoreInv /\ [Next]_vars => CoreInv'
<1> SUFFICES ASSUME CoreInv, [Next]_vars PROVE CoreInv'
  OBVIOUS
<1>1. CASE Next
  <2>0. Observe
    BY <1>1 DEF Next
  <2>1. CASE \E w \in Writers : WriterStep(w)
    <3>1. PICK w \in Writers : WriterStep(w)
      BY <2>1
    <3>2. CASE Lock(w)
      BY <2>0, <3>2, LockCore
    <3>3. CASE Leave(w)
      <4>1. /\ ~At(w, "idle") /\ Unlock(w) /\ UNCHANGED <<dir, disk, log, reader, faults>>
        BY <3>3 DEF Leave, At
      <4>2. /\ log' \in Seq(Transaction) /\ Len(log') <= MaxTxns /\ faults' \in 0 .. MaxFaults
        BY <4>1 DEF CoreInv, TypeInv
      <4>3. QED
        BY <2>0, <4>1, <4>2, LeaveCore
    <3>4. CASE Publish(w)
      BY <2>0, <3>4, PublishCore
    <3>5. CASE Commit(w)
      BY <2>0, <3>5, CommitCore
    <3>6. CASE ApplyOne(w)
      BY <2>0, <3>6, ApplyCore
    <3>7. CASE SyncFiles(w)
      BY <2>0, <3>7, SyncFilesCore
    <3>8. CASE BumpGeneration(w)
      BY <2>0, <3>8, BumpCore
    <3>9. CASE Remove(w)
      BY <2>0, <3>9, RemoveCore
    <3>10. CASE Finish(w)
      BY <2>0, <3>10, FinishCore
    <3>11. CASE IOError(w)
      BY <2>0, <3>11, IOErrorCore
    <3>12. CASE Kill(w)
      BY <2>0, <3>12, KillCore
    <3>13. CASE \E tasks \in SUBSET Tasks : Begin(w, tasks)
      BY <2>0, <3>13, BeginCore
    <3>14. QED
      BY <3>1, <3>2, <3>3, <3>4, <3>5, <3>6, <3>7, <3>8, <3>9, <3>10, <3>11, <3>12, <3>13
         DEF WriterStep
  <2>2. CASE \E r \in Readers : ReaderStep(r)
    BY <2>0, <2>2, ReaderStepCore
  <2>3. CASE PowerLoss
    BY <2>0, <2>3, PowerLossCore
  <2>4. QED
    BY <1>1, <2>1, <2>2, <2>3 DEF Next
<1>2. CASE UNCHANGED vars
  BY <1>2, CoreStutter
<1>3. QED
  BY <1>1, <1>2

--------------------------------------------------------------------------------
(* What a power loss may leave *)

\* The log keeps its transactions; what callers are told may change.
SameTxns == Len(log') = Len(log) /\ \A n \in 1 .. Len(log) : log'[n].tasks = log[n].tasks

\* The transactions of the log are sets of tasks.
LEMMA LogTyped ==
    ASSUME TypeInv
    PROVE  /\ Len(log) \in Nat
           /\ \A n \in 1 .. Len(log) : log[n] \in Transaction /\ log[n].tasks \subseteq Tasks
<1>1. log \in Seq(Transaction)
  BY DEF TypeInv
<1>2. Len(log) \in Nat /\ \A n \in 1 .. Len(log) : log[n] \in Transaction
  BY <1>1
<1>3. QED
  BY <1>2 DEF Transaction

\* A journal in the log stays the journal of that transaction.
LEMMA LoggedKept ==
    ASSUME TypeInv, SameTxns, NEW j \in Journal
    PROVE  (j.n <= Len(log') /\ j.tasks = log'[j.n].tasks) <=> Logged(j)
<1>1. j.n \in Nat /\ j.n # 0 /\ Len(log) \in Nat
  BY JournalIsSome, LogTyped
<1>2. j.n <= Len(log) => j.n \in 1 .. Len(log)
  BY <1>1
<1>3. QED
  BY <1>2 DEF Logged, SameTxns

\* A step that adds no transaction and no value.
LEMMA DiskStep ==
    ASSUME TypeInv, TypeInv', DiskInv, SameTxns,
           \A d \in disk' : \E e \in disk : /\ ValueOf(d) = ValueOf(e)
                                            /\ d.journal \in {e.journal, NoJournal},
           dir'.journal = NoJournal \/ Durable' => Agree',
           \A w \in Writers : TxnOf(w)'
    PROVE  DiskInv'
<1>1. ASSUME NEW d \in disk'
      PROVE  /\ Whole(ValueOf(d))' /\ Below(ValueOf(d))'
             /\ d.journal # NoJournal => Logged(d.journal)'
  <2>1. PICK e \in disk : ValueOf(d) = ValueOf(e) /\ d.journal \in {e.journal, NoJournal}
    OBVIOUS
  <2>2. /\ Whole(ValueOf(d)) /\ Below(ValueOf(d))
        /\ d.journal # NoJournal => Logged(d.journal)
    BY <2>1 DEF DiskInv
  <2>3. Whole(ValueOf(d))' /\ Below(ValueOf(d))'
    BY <2>2 DEF Whole, Below, SameTxns
  <2>4. d \in Dir
    BY DEF TypeInv
  <2>5. d.journal # NoJournal => d.journal \in Journal
    BY <2>4 DEF Dir
  <2>6. QED
    BY <2>2, <2>3, <2>5, LoggedKept DEF Logged
<1>2. QED
  BY <1>1 DEF DiskInv

\* A step that adds no value and tells a caller only of what is everywhere.
LEMMA ToldStep ==
    ASSUME ToldInv, SameTxns,
           \A d \in disk' : \E e \in disk : ValueOf(d) = ValueOf(e),
           \A n \in 1 .. Len(log) : log'[n].outcome \in {"ok", "committed"} =>
               \/ log[n].outcome \in {"ok", "committed"}
               \/ \A d \in disk' : \A t \in log[n].tasks : ValueOf(d)[t] >= n
    PROVE  ToldInv'
<1>1. ASSUME NEW n \in 1 .. Len(log), log'[n].outcome \in {"ok", "committed"},
             NEW d \in disk', NEW t \in log[n].tasks
      PROVE  ValueOf(d)[t] >= n
  <2>1. CASE log[n].outcome \in {"ok", "committed"}
    <3>1. PICK e \in disk : ValueOf(d) = ValueOf(e)
      OBVIOUS
    <3>2. QED
      BY <2>1, <3>1 DEF ToldInv, HasAll
  <2>2. CASE log[n].outcome \notin {"ok", "committed"}
    BY <1>1, <2>2
  <2>3. QED
    BY <2>1, <2>2
<1>2. QED
  BY <1>1 DEF ToldInv, HasAll, SameTxns

\* The holder of the lock keeps its transaction, or has none any more.
LEMMA TxnKept ==
    ASSUME CoreInv, DiskInv, SameTxns, NEW w \in Writers,
           \A v \in Writers : v # w => writer'[v].pc = "idle",
           \/ writer'[w].pc \in {"idle", "locked"}
           \/ /\ writer'[w].pc # "publish" /\ writer'[w].txn = writer[w].txn
              /\ writer[w].pc \notin {"idle", "locked"}
    PROVE  \A v \in Writers : TxnOf(v)'
<1> SUFFICES ASSUME NEW v \in Writers
             PROVE  TxnOf(v)'
  OBVIOUS
<1>1. CASE writer'[v].pc \in {"idle", "locked"}
  BY <1>1 DEF TxnOf, At
<1>2. CASE writer'[v].pc \notin {"idle", "locked"}
  <2>1. /\ v = w /\ writer'[w].pc # "publish" /\ writer'[w].txn = writer[w].txn
        /\ writer[w].pc \notin {"idle", "locked"}
    BY <1>2
  <2>2. Logged(writer[w].txn)
    BY <2>1 DEF DiskInv, TxnOf
  <2>3. writer[w].txn \in Journal
    <3>1. writer[w].pc \in {"publish", "sync", "apply", "bump", "remove", "finish"}
      BY <2>1 DEF CoreInv, TypeInv, Writer
    <3>2. QED
      BY <3>1 DEF CoreInv, PhaseInv, PhaseOf
  <2>4. QED
    BY <2>1, <2>2, <2>3, LoggedKept DEF CoreInv, TxnOf, Logged, At
<1>3. QED
  BY <1>1, <1>2

\* Goto, and where it leaves the other processes.
LEMMA Gone ==
    ASSUME TypeInv, NEW w \in Writers, ~At(w, "idle"),
           NEW pc \in {"locked", "publish", "sync", "apply", "bump", "remove", "finish"},
           Goto(w, pc)
    PROVE  /\ writer'[w].pc = pc /\ writer'[w].txn = writer[w].txn
           /\ writer'[w].replay = writer[w].replay
           /\ \A v \in Writers : v # w => writer'[v].pc = "idle"
<1>1. \A v \in Writers : v # w => writer[v].pc = "idle"
  BY Alone DEF At
<1>2. writer' = [writer EXCEPT ![w] = [writer[w] EXCEPT !.pc = pc]] /\ writer[w] \in Writer
  BY DEF Goto, TypeInv
<1>3. [writer[w] EXCEPT !.pc = pc].pc = pc
  BY <1>2 DEF Writer
<1>4. QED
  BY <1>1, <1>2, <1>3 DEF TypeInv, Writer

\* What the holder of the lock has written, once its journal is published.
LEMMA HolderWrote ==
    ASSUME CoreInv, NEW w \in Writers,
           writer[w].pc \in {"apply", "bump", "remove", "finish"}
    PROVE  /\ writer[w].txn \in Journal
           /\ \A t \in writer[w].txn.tasks : Value[t] = writer[w].txn.n
<1> DEFINE j == writer[w].txn
<1>1. j \in Journal /\ dir \in Dir
  BY DEF CoreInv, TypeInv, PhaseInv, PhaseOf
<1>2. j.tasks \subseteq Tasks
  BY <1>1, JournalIsSome
<1>3. CASE writer[w].pc \in {"apply", "bump", "remove"}
  <2>1. dir.journal = j
    BY <1>3 DEF CoreInv, PhaseInv, PhaseOf
  <2>2. QED
    BY <1>1, <1>2, <2>1, ValueTyped DEF Value
<1>4. CASE writer[w].pc = "finish"
  <2>1. dir.journal = NoJournal /\ \A t \in j.tasks : dir.files[t] = j.n
    BY <1>4 DEF CoreInv, PhaseInv, PhaseOf
  <2>2. dir.journal.tasks = {}
    BY <2>1 DEF NoJournal
  <2>3. QED
    BY <1>1, <1>2, <2>1, <2>2, ValueTyped DEF Value
<1>5. QED
  BY <1>3, <1>4

FullInv == CoreInv /\ DiskInv /\ ToldInv

\* A step that leaves the directory and the log alone.
LEMMA NothingWritten ==
    ASSUME FullInv, CoreInv', UNCHANGED <<dir, disk>>, SameTxns,
           \A n \in 1 .. Len(log) : log'[n].outcome \in {"ok", "committed"} =>
               log[n].outcome \in {"ok", "committed"} \/ HasAll(n),
           Durable' => Durable \/ Agree,
           \A w \in Writers : TxnOf(w)'
    PROVE  DiskInv' /\ ToldInv'
<1> USE DEF FullInv, CoreInv
<1>1. \A d \in disk' : \E e \in disk :
           ValueOf(d) = ValueOf(e) /\ d.journal \in {e.journal, NoJournal}
  OBVIOUS
<1>2. dir'.journal = NoJournal \/ Durable' => Agree'
  <2>1. Agree => Agree'
    BY DEF Agree, Value
  <2>2. QED
    BY <2>1 DEF DiskInv
<1>3. DiskInv'
  BY <1>1, <1>2, DiskStep
<1>4. ToldInv'
  BY <1>1, ToldStep DEF HasAll
<1>5. QED
  BY <1>3, <1>4

\* A replay starts from a journal of the log.
LEMMA LockDisk ==
    ASSUME FullInv, CoreInv', NEW w \in Writers, Lock(w)
    PROVE  DiskInv' /\ ToldInv'
<1> USE DEF FullInv, CoreInv
<1>1. /\ At(w, "idle") /\ lock = None /\ lock' = w /\ UNCHANGED <<dir, disk, log>>
      /\ dir \in disk
  BY DEF Lock, TypeInv
<1>2. \A v \in Writers : v # w => writer'[v].pc = "idle"
  BY <1>1 DEF TypeInv, At
<1>3. \/ writer'[w].pc = "locked"
      \/ /\ writer'[w].pc = "apply" /\ writer'[w].replay /\ writer'[w].txn = dir.journal
         /\ dir.journal # NoJournal
  <2>1. CASE dir.journal = NoJournal
    BY <2>1 DEF Lock, TypeInv, IdleWriter
  <2>2. CASE dir.journal # NoJournal
    BY <2>2 DEF Lock, TypeInv
  <2>3. QED
    BY <2>1, <2>2
<1>4. ~Durable'
  BY <1>2, <1>3 DEF Durable, At
<1>5. \A v \in Writers : TxnOf(v)'
  <2>1. dir.journal # NoJournal => Logged(dir.journal)
    BY <1>1 DEF DiskInv
  <2>2. QED
    BY <1>1, <1>2, <1>3, <2>1 DEF TxnOf, At, Logged
<1>6. SameTxns
  BY <1>1 DEF SameTxns
<1>7. QED
  BY <1>1, <1>4, <1>5, <1>6, NothingWritten

\* The lock given up, with the caller told or not.
LEMMA LeaveDisk ==
    ASSUME FullInv, CoreInv', NEW w \in Writers, ~At(w, "idle"), Unlock(w),
           UNCHANGED <<dir, disk>>, SameTxns,
           \A n \in 1 .. Len(log) : log'[n].outcome \in {"ok", "committed"} =>
               log[n].outcome \in {"ok", "committed"} \/ HasAll(n)
    PROVE  DiskInv' /\ ToldInv'
<1> USE DEF FullInv, CoreInv
<1>1. \A v \in Writers : writer'[v].pc = "idle"
  BY HolderLeaves
<1>2. ~Durable'
  BY <1>1 DEF Durable, At
<1>3. \A v \in Writers : TxnOf(v)'
  BY <1>1 DEF TxnOf, At
<1>4. QED
  BY <1>2, <1>3, NothingWritten

\* No value has the number of the transaction that begins.
LEMMA BeginDisk ==
    ASSUME FullInv, CoreInv', NEW w \in Writers, NEW tasks \in SUBSET Tasks, Begin(w, tasks)
    PROVE  DiskInv' /\ ToldInv'
<1> USE DEF FullInv, CoreInv
<1> DEFINE x == [tasks |-> tasks, outcome |-> "none"]
           N == Len(log)
<1>1. /\ log' = Append(log, x) /\ UNCHANGED <<dir, disk>> /\ At(w, "locked")
      /\ writer' = [writer EXCEPT ![w] = [pc |-> "publish",
                      txn |-> [n |-> N + 1, tasks |-> tasks], left |-> tasks, replay |-> FALSE]]
  BY DEF Begin
<1>2. /\ N \in Nat /\ log \in Seq(Transaction) /\ x \in Transaction
  BY LogTyped DEF TypeInv, Transaction
<1>3. /\ Len(log') = N + 1 /\ log'[N + 1] = x
      /\ \A n \in 1 .. N : log'[n] = log[n]
  BY <1>1, <1>2
<1> HIDE DEF x, N
<1>4. ASSUME NEW d \in disk
      PROVE  /\ Whole(ValueOf(d))' /\ Below(ValueOf(d))'
             /\ d.journal # NoJournal => Logged(d.journal)'
  <2>1. /\ Whole(ValueOf(d)) /\ Below(ValueOf(d)) /\ d \in Dir
        /\ d.journal # NoJournal => Logged(d.journal)
    BY DEF DiskInv, TypeInv
  <2>2. ValueOf(d) \in Files /\ \A t \in Tasks : ValueOf(d)[t] \in Nat
    BY <2>1, ValueTyped, BoundsAssumption DEF Files, Versions
  <2>3. \A t \in Tasks : ValueOf(d)[t] <= N
    BY <2>1 DEF Below, N
  <2>4. Below(ValueOf(d))'
    BY <1>2, <1>3, <2>2, <2>3 DEF Below
  <2>5. ASSUME NEW n \in 1 .. N + 1, NEW t \in log'[n].tasks, NEW u \in log'[n].tasks,
               ValueOf(d)[t] = n
        PROVE  ValueOf(d)[u] >= n
    <3>1. CASE n \in 1 .. N
      BY <1>3, <2>1, <2>5, <3>1 DEF Whole, N
    <3>2. CASE n = N + 1
      <4>1. t \in Tasks
        BY <1>3, <3>2 DEF x
      <4>2. QED
        BY <1>2, <2>2, <2>3, <2>5, <3>2, <4>1
    <3>3. QED
      BY <1>2, <3>1, <3>2
  <2>6. Whole(ValueOf(d))'
    BY <1>3, <2>5 DEF Whole
  <2>7. d.journal # NoJournal => Logged(d.journal)'
    <3>1. d.journal # NoJournal => d.journal.n \in Nat /\ d.journal.n # 0
      BY <2>1, JournalIsSome DEF Dir
    <3>2. d.journal # NoJournal => d.journal.n \in 1 .. N
      BY <1>2, <2>1, <3>1 DEF Logged, N
    <3>3. QED
      BY <1>2, <1>3, <2>1, <3>2 DEF Logged
  <2>8. QED
    BY <2>4, <2>6, <2>7
<1>5. Agree'
  <2>1. dir.journal = NoJournal
    BY <1>1 DEF PhaseInv, PhaseOf, At
  <2>2. Agree
    BY <2>1 DEF DiskInv
  <2>3. QED
    BY <1>1, <2>2 DEF Agree, Value
<1>6. \A v \in Writers : TxnOf(v)'
  <2>1. \A v \in Writers : v # w => writer'[v].pc = "idle"
    BY <1>1, Alone DEF At
  <2>2. writer'[w].pc = "publish" /\ writer'[w].txn = [n |-> N + 1, tasks |-> tasks]
    BY <1>1 DEF TypeInv
  <2>3. writer'[w].txn.n = N + 1 /\ writer'[w].txn.tasks = tasks
    BY <2>2
  <2>4. x.tasks = tasks
    BY DEF x
  <2>5. QED
    BY <1>2, <1>3, <2>1, <2>2, <2>3, <2>4 DEF TxnOf, Logged, At
<1>7. DiskInv'
  BY <1>1, <1>4, <1>5, <1>6 DEF DiskInv
<1>8. ToldInv'
  <2>1. ASSUME NEW n \in 1 .. N + 1, log'[n].outcome \in {"ok", "committed"}
        PROVE  n \in 1 .. N
    BY <1>2, <1>3, <2>1 DEF x
  <2>2. QED
    BY <1>1, <1>3, <2>1 DEF ToldInv, HasAll, N
<1>9. QED
  BY <1>7, <1>8

\* Publishing the journal of transaction n writes n to its tasks.
LEMMA PublishedValue ==
    ASSUME FullInv, CoreInv', NEW w \in Writers, Publish(w)
    PROVE  LET j == writer[w].txn
           IN  /\ j \in Journal /\ j.n = Len(log) /\ Logged(j) /\ dir'.journal = j
               /\ Agree /\ log' = log /\ disk' = disk \cup {dir'} /\ dir' \in Dir
               /\ \A t \in Tasks : Value'[t] = IF t \in j.tasks THEN j.n ELSE Value[t]
<1> USE DEF FullInv, CoreInv
<1> DEFINE j == writer[w].txn
<1>1. /\ writer[w].pc = "publish" /\ dir \in Dir /\ dir' \in Dir
      /\ dir' = [dir EXCEPT !.journal = j] /\ disk' = disk \cup {dir'} /\ log' = log
  BY DEF Publish, At, Rename, TypeInv
<1>2. /\ dir.journal = NoJournal /\ j \in Journal
  BY <1>1 DEF PhaseInv, PhaseOf
<1>3. j.n = Len(log) /\ Logged(j) /\ Agree
  BY <1>1, <1>2 DEF DiskInv, TxnOf, At
<1>4. dir'.journal = j /\ dir'.files = dir.files
  BY <1>1 DEF Dir
<1>5. \A t \in Tasks : Value[t] = dir.files[t]
  BY <1>1, <1>2, ValueTyped DEF Value, NoJournal
<1>6. \A t \in Tasks : Value'[t] = IF t \in j.tasks THEN j.n ELSE dir.files[t]
  BY <1>1, <1>4, ValueTyped DEF Value
<1>7. QED
  BY <1>1, <1>2, <1>3, <1>4, <1>5, <1>6

\* Published values keep the transactions whole, since its number is the newest.
LEMMA PublishDisk ==
    ASSUME FullInv, CoreInv', NEW w \in Writers, Publish(w)
    PROVE  DiskInv' /\ ToldInv'
<1> USE DEF FullInv, CoreInv
<1> DEFINE j == writer[w].txn
<1>1. /\ j \in Journal /\ j.n = Len(log) /\ Logged(j) /\ dir'.journal = j
      /\ Agree /\ log' = log /\ disk' = disk \cup {dir'} /\ dir' \in Dir
      /\ \A t \in Tasks : Value'[t] = IF t \in j.tasks THEN j.n ELSE Value[t]
  BY PublishedValue
<1>2. /\ writer'[w].pc = "sync" /\ writer'[w].txn = j /\ writer'[w].replay = writer[w].replay
      /\ \A v \in Writers : v # w => writer'[v].pc = "idle"
      /\ writer[w].pc = "publish"
  BY Gone DEF Publish, At
<1> HIDE DEF j
<1>3. /\ j # NoJournal /\ j.n \in Nat /\ j.n # 0 /\ Len(log) \in Nat
      /\ j.tasks = log[j.n].tasks /\ j.tasks \subseteq Tasks
  BY <1>1, JournalIsSome, LogTyped DEF Logged
<1>4. Whole(Value) /\ Below(Value) /\ \A t \in Tasks : Value[t] \in Nat
  <2>1. dir \in disk /\ dir \in Dir
    BY DEF TypeInv
  <2>2. QED
    BY <2>1, ValueTyped, BoundsAssumption DEF DiskInv, Value, Files, Versions
<1>5. Below(Value') /\ \A t \in Tasks : Value'[t] >= Value[t]
  BY <1>1, <1>3, <1>4 DEF Below
<1>6. Whole(Value')
  <2> SUFFICES ASSUME NEW n \in 1 .. Len(log), NEW t \in log[n].tasks, NEW u \in log[n].tasks,
                      Value'[t] = n
               PROVE  Value'[u] >= n
    BY DEF Whole
  <2>1. t \in Tasks /\ u \in Tasks
    BY LogTyped
  <2>2. CASE n = j.n
    BY <1>1, <1>3, <2>1, <2>2
  <2>3. CASE n # j.n
    <3>1. t \notin j.tasks /\ Value[t] = n
      BY <1>1, <2>1, <2>3
    <3>2. Value[u] >= n
      BY <1>4, <3>1 DEF Whole
    <3>3. QED
      BY <1>4, <1>5, <2>1, <3>2, <1>1, <1>3
  <2>4. QED
    BY <2>2, <2>3
<1>7. ASSUME NEW d \in disk'
      PROVE  /\ Whole(ValueOf(d))' /\ Below(ValueOf(d))'
             /\ d.journal # NoJournal => Logged(d.journal)'
  <2>1. CASE d \in disk
    BY <1>1, <2>1 DEF DiskInv, Whole, Below, Logged
  <2>2. CASE d = dir'
    BY <1>1, <1>5, <1>6, <2>2 DEF Value, Whole, Below, Logged
  <2>3. QED
    BY <1>1, <2>1, <2>2
<1>8. ~Durable' /\ dir'.journal # NoJournal
  BY <1>1, <1>2, <1>3 DEF Durable, At
<1>9. \A v \in Writers : TxnOf(v)'
  BY <1>1, <1>2 DEF TxnOf, Logged, At
<1>10. DiskInv'
  BY <1>7, <1>8, <1>9 DEF DiskInv
<1>11. ToldInv'
  <2> SUFFICES ASSUME NEW n \in 1 .. Len(log), log[n].outcome \in {"ok", "committed"},
                      NEW d \in disk', NEW t \in log[n].tasks
               PROVE  ValueOf(d)[t] >= n
    BY <1>1 DEF ToldInv, HasAll
  <2>1. CASE d \in disk
    BY <2>1 DEF ToldInv, HasAll
  <2>2. CASE d = dir'
    <3>1. dir \in disk /\ t \in Tasks
      BY LogTyped DEF TypeInv
    <3>2. Value[t] >= n
      BY <3>1 DEF ToldInv, HasAll, Value
    <3>3. Value'[t] \in Nat
      BY <1>1, <1>3, <1>4, <3>1
    <3>4. Value'[t] >= n
      BY <1>4, <1>5, <3>1, <3>2, <3>3
    <3>5. QED
      BY <2>2, <3>4 DEF Value
  <2>3. QED
    BY <1>1, <2>1, <2>2
<1>12. QED
  BY <1>10, <1>11

\* Applying a file, the generation and the journal's removal keep the value.
LEMMA RenameKeepsValue ==
    ASSUME CoreInv, CoreInv', NEW w \in Writers,
           ApplyOne(w) \/ BumpGeneration(w) \/ Remove(w)
    PROVE  /\ Value' = Value /\ disk' = disk \cup {dir'} /\ log' = log
           /\ dir'.journal \in {dir.journal, NoJournal}
<1> USE DEF CoreInv
<1>1. dir \in Dir /\ dir' \in Dir
  BY DEF TypeInv
<1> DEFINE j == writer[w].txn
<1>2. CASE ApplyOne(w)
  <2> DEFINE t == Least(writer[w].left)
  <2>1. /\ writer[w].pc = "apply" /\ writer[w].left # {} /\ disk' = disk \cup {dir'}
        /\ dir' = [dir EXCEPT !.files[t] = j.n] /\ log' = log
    BY <1>2 DEF ApplyOne, At, Rename
  <2>2. dir.journal = j /\ j \in Journal /\ writer[w].left \subseteq j.tasks
    BY <2>1 DEF PhaseInv, PhaseOf
  <2>3. t \in j.tasks
    <3>1. writer[w].left \subseteq Nat
      BY <2>2, JournalIsSome, TasksAssumption
    <3>2. QED
      BY <2>1, <2>2, <3>1, LeastOf
  <2> HIDE DEF t
  <2>4. dir'.journal = dir.journal /\ \A u \in Tasks : u # t => dir'.files[u] = dir.files[u]
    BY <1>1, <2>1 DEF Dir, Files
  <2>5. \A u \in Tasks : ValueOf(dir')[u] = ValueOf(dir)[u]
    BY <1>1, <2>2, <2>3, <2>4, ValueTyped
  <2>6. QED
    BY <1>1, <2>1, <2>4, <2>5, SameValue DEF Value
<1>3. CASE BumpGeneration(w)
  <2>1. /\ disk' = disk \cup {dir'} /\ dir' = [dir EXCEPT !.gen = @ + 1] /\ log' = log
    BY <1>3 DEF BumpGeneration, Rename
  <2>2. dir'.journal = dir.journal /\ dir'.files = dir.files
    BY <1>1, <2>1 DEF Dir
  <2>3. QED
    BY <2>1, <2>2 DEF Value, ValueOf, Overlay
<1>4. CASE Remove(w)
  <2>1. /\ writer[w].pc = "remove" /\ disk' = disk \cup {dir'} /\ log' = log
        /\ dir' = [dir EXCEPT !.journal = NoJournal]
    BY <1>4 DEF Remove, At, Rename
  <2>2. dir.journal = j /\ j \in Journal /\ \A t \in j.tasks : dir.files[t] = j.n
    BY <2>1 DEF PhaseInv, PhaseOf
  <2>3. dir'.journal = NoJournal /\ dir'.files = dir.files
    BY <1>1, <2>1 DEF Dir
  <2>4. \A u \in Tasks : ValueOf(dir')[u] = ValueOf(dir)[u]
    BY <1>1, <2>2, <2>3, ValueTyped DEF NoJournal
  <2>5. QED
    BY <1>1, <2>1, <2>3, <2>4, SameValue DEF Value
<1>5. QED
  BY <1>2, <1>3, <1>4

\* Renames after the commit point add a directory with the same value.
LEMMA RenameDisk ==
    ASSUME FullInv, CoreInv', NEW w \in Writers,
           ApplyOne(w) \/ BumpGeneration(w) \/ Remove(w)
    PROVE  DiskInv' /\ ToldInv'
<1> USE DEF FullInv, CoreInv
<1>1. /\ Value' = Value /\ disk' = disk \cup {dir'} /\ log' = log
      /\ dir'.journal \in {dir.journal, NoJournal}
  BY RenameKeepsValue
<1>2. dir \in disk
  BY DEF TypeInv
<1>3. \A d \in disk' : \E e \in disk :
           ValueOf(d) = ValueOf(e) /\ d.journal \in {e.journal, NoJournal}
  <2> SUFFICES ASSUME NEW d \in disk'
               PROVE  \E e \in disk :
                        ValueOf(d) = ValueOf(e) /\ d.journal \in {e.journal, NoJournal}
    OBVIOUS
  <2>1. CASE d \in disk
    BY <2>1
  <2>2. CASE d = dir'
    BY <1>1, <1>2, <2>2 DEF Value
  <2>3. QED
    BY <1>1, <2>1, <2>2
<1>4. SameTxns
  BY <1>1 DEF SameTxns
<1>5. /\ writer'[w].pc # "publish" /\ writer'[w].txn = writer[w].txn
      /\ writer'[w].replay = writer[w].replay
      /\ \A v \in Writers : v # w => writer'[v].pc = "idle"
      /\ \/ writer[w].pc = "apply" /\ writer'[w].pc = "apply" /\ dir'.journal = dir.journal
            /\ dir.journal # NoJournal
         \/ writer[w].pc \in {"bump", "remove"}
  <2>1. CASE ApplyOne(w)
    <3>1. /\ writer[w].pc = "apply" /\ writer[w] \in Writer /\ dir \in Dir
          /\ writer' = [writer EXCEPT ![w].left = @ \ {Least(writer[w].left)}]
          /\ dir' = [dir EXCEPT !.files[Least(writer[w].left)] = writer[w].txn.n]
      BY <2>1 DEF ApplyOne, At, Rename, TypeInv
    <3>2. /\ writer'[w].pc = writer[w].pc /\ writer'[w].txn = writer[w].txn
          /\ writer'[w].replay = writer[w].replay
          /\ \A v \in Writers : v # w => writer'[v] = writer[v]
      BY <3>1 DEF TypeInv, Writer
    <3>3. \A v \in Writers : v # w => writer[v].pc = "idle"
      BY <3>1, Alone DEF At
    <3>4. dir'.journal = dir.journal /\ dir.journal # NoJournal
      BY <3>1, JournalIsSome DEF Dir, PhaseInv, PhaseOf
    <3>5. QED
      BY <3>1, <3>2, <3>3, <3>4
  <2>2. CASE BumpGeneration(w)
    BY <2>2, Gone DEF BumpGeneration, At
  <2>3. CASE Remove(w)
    BY <2>3, Gone DEF Remove, At
  <2>4. QED
    BY <2>1, <2>2, <2>3
<1>6. dir'.journal = NoJournal \/ Durable' => Agree'
  <2>1. dir'.journal = NoJournal \/ Durable' => Durable
    BY <1>5 DEF Durable, At
  <2>2. Agree => Agree'
    BY <1>1 DEF Agree, Value
  <2>3. QED
    BY <2>1, <2>2 DEF DiskInv
<1>7. \A v \in Writers : TxnOf(v)'
  BY <1>4, <1>5, TxnKept
<1>8. DiskInv'
  BY <1>3, <1>4, <1>6, <1>7, DiskStep
<1>9. ToldInv'
  BY <1>1, <1>3, <1>4, ToldStep
<1>10. QED
  BY <1>8, <1>9

\* A directory fsync leaves one directory.
LEMMA SyncDisk ==
    ASSUME FullInv, CoreInv', SyncDir, SameTxns,
           \A n \in 1 .. Len(log) : log'[n].outcome \in {"ok", "committed"} =>
               log[n].outcome \in {"ok", "committed"} \/ HasAll(n),
           \A w \in Writers : TxnOf(w)'
    PROVE  DiskInv' /\ ToldInv'
<1> USE DEF FullInv, CoreInv
<1>1. dir' = dir /\ disk' = {dir} /\ dir \in disk
  BY DEF SyncDir, TypeInv
<1>2. \A d \in disk' : \E e \in disk :
           ValueOf(d) = ValueOf(e) /\ d.journal \in {e.journal, NoJournal}
  BY <1>1
<1>3. Agree'
  BY <1>1 DEF Agree, Value
<1>4. DiskInv'
  BY <1>2, <1>3, DiskStep
<1>5. ToldInv'
  BY <1>1, <1>2, ToldStep DEF HasAll
<1>6. QED
  BY <1>4, <1>5

\* What a caller may be told once the transaction is durable.
LEMMA TellDurable ==
    ASSUME FullInv, NEW w \in Writers, NEW o \in {"ok", "error", "committed"}, Tell(w, o),
           o # "error" => Durable /\ writer[w].pc \in {"apply", "bump", "remove", "finish"},
           writer[w].pc \in {"publish", "sync", "apply", "bump", "remove", "finish"}
    PROVE  /\ SameTxns
           /\ \A n \in 1 .. Len(log) : log'[n].outcome \in {"ok", "committed"} =>
                 log[n].outcome \in {"ok", "committed"} \/ HasAll(n)
<1> USE DEF FullInv, CoreInv
<1>1. /\ SameTxns
      /\ \A n \in 1 .. Len(log) : log'[n].outcome # log[n].outcome =>
            n = writer[w].txn.n /\ ~writer[w].replay /\ log'[n].outcome = o
  BY Telling DEF SameTxns
<1>2. ASSUME NEW n \in 1 .. Len(log), log'[n].outcome \in {"ok", "committed"},
             log[n].outcome \notin {"ok", "committed"}
      PROVE  HasAll(n)
  <2>1. n = writer[w].txn.n /\ log'[n].outcome = o /\ o # "error"
    BY <1>1, <1>2
  <2>2. Agree
    BY <2>1 DEF DiskInv
  <2>3. /\ writer[w].txn \in Journal
        /\ \A t \in writer[w].txn.tasks : Value[t] = writer[w].txn.n
    BY <2>1, HolderWrote
  <2>4. Logged(writer[w].txn)
    BY DEF DiskInv, TxnOf
  <2>5. n \in Nat /\ log[n].tasks = writer[w].txn.tasks
    BY <2>1, <2>4 DEF Logged
  <2>6. QED
    BY <2>1, <2>2, <2>3, <2>5 DEF HasAll, Agree
<1>3. QED
  BY <1>1, <1>2

\* Commit and SyncFiles keep the transaction.
LEMMA GotoTxn ==
    ASSUME FullInv, NEW w \in Writers, UNCHANGED log,
           NEW pc \in {"apply", "bump"}, writer[w].pc \in {"sync", "apply"}, Goto(w, pc)
    PROVE  SameTxns /\ \A v \in Writers : TxnOf(v)'
<1> USE DEF FullInv, CoreInv
<1>1. SameTxns
  BY DEF SameTxns
<1>2. /\ writer'[w].pc = pc /\ writer'[w].txn = writer[w].txn
      /\ \A v \in Writers : v # w => writer'[v].pc = "idle"
  BY Gone DEF At
<1>3. QED
  BY <1>1, <1>2, TxnKept

\* The caller is told ok with the files there and the directory synced.
LEMMA FinishDisk ==
    ASSUME FullInv, CoreInv', NEW w \in Writers, Finish(w)
    PROVE  DiskInv' /\ ToldInv'
<1> USE DEF FullInv, CoreInv
<1>1. writer[w].pc = "finish" /\ SyncDir /\ Tell(w, "ok") /\ ~At(w, "idle")
  BY DEF Finish, At
<1>2. Durable
  BY <1>1 DEF Durable
<1>3. /\ SameTxns
      /\ \A n \in 1 .. Len(log) : log'[n].outcome \in {"ok", "committed"} =>
            log[n].outcome \in {"ok", "committed"} \/ HasAll(n)
  BY <1>1, <1>2, TellDurable
<1>4. /\ writer'[w].pc \in {"idle", "locked"}
      /\ \A v \in Writers : v # w => writer'[v].pc = "idle"
  <2>1. \A v \in Writers : v # w => writer[v].pc = "idle"
    BY <1>1, Alone DEF At
  <2>2. CASE writer[w].replay
    BY <2>1, <2>2 DEF Finish, TypeInv, IdleWriter
  <2>3. CASE ~writer[w].replay
    BY <2>1, <2>3 DEF Finish, Unlock, TypeInv, IdleWriter
  <2>4. QED
    BY <2>2, <2>3
<1>5. \A v \in Writers : TxnOf(v)'
  BY <1>3, <1>4, TxnKept
<1>6. QED
  BY <1>1, <1>3, <1>5, SyncDisk

\* After the commit point the caller hears that it committed, and it has.
LEMMA IOErrorDisk ==
    ASSUME FullInv, CoreInv', NEW w \in Writers, IOError(w)
    PROVE  DiskInv' /\ ToldInv'
<1> USE DEF FullInv, CoreInv
<1>1. ~At(w, "idle") /\ Unlock(w) /\ UNCHANGED <<dir, disk>>
  BY DEF IOError, At
<1>2. /\ SameTxns
      /\ \A n \in 1 .. Len(log) : log'[n].outcome \in {"ok", "committed"} =>
            log[n].outcome \in {"ok", "committed"} \/ HasAll(n)
  <2>1. CASE writer[w].pc \in {"publish", "sync"} /\ Tell(w, "error")
    BY <2>1, TellDurable
  <2>2. CASE writer[w].pc \in {"apply", "bump", "remove", "finish"} /\ Tell(w, "committed")
    <3>1. CASE writer[w].pc = "apply" /\ writer[w].replay
      <4>1. log' = log
        BY <2>2, <3>1 DEF Tell
      <4>2. QED
        BY <4>1 DEF SameTxns
    <3>2. CASE writer[w].pc # "apply" \/ ~writer[w].replay
      <4>1. Durable
        BY <2>2, <3>2 DEF Durable, At
      <4>2. QED
        BY <2>2, <4>1, TellDurable
    <3>3. QED
      BY <3>1, <3>2
  <2>3. QED
    BY <2>1, <2>2 DEF IOError
<1>3. QED
  BY <1>1, <1>2, LeaveDisk

\* Where renames are ordered, a power loss leaves one of the directories.
LEMMA PowerLossValue ==
    ASSUME Ordered, CoreInv, PowerLoss
    PROVE  \E d \in disk : /\ Value' = ValueOf(d) /\ dir'.journal = d.journal
                           /\ disk' = {dir'}
<1> USE DEF CoreInv
<1>1. PICK d \in disk, torn \in BOOLEAN : dir' = IF torn THEN [d EXCEPT !.gen = 0] ELSE d
  BY DEF PowerLoss, Survivors
<1>2. d \in Dir
  BY DEF TypeInv
<1>3. dir'.files = d.files /\ dir'.journal = d.journal
  BY <1>1, <1>2 DEF Dir
<1>4. QED
  BY <1>3 DEF Value, ValueOf, Overlay, PowerLoss

\* What a power loss leaves was one of the directories.
LEMMA PowerLossDisk ==
    ASSUME Ordered, FullInv, CoreInv', PowerLoss
    PROVE  DiskInv' /\ ToldInv'
<1> USE DEF FullInv, CoreInv
<1>1. PICK d \in disk : Value' = ValueOf(d) /\ dir'.journal = d.journal /\ disk' = {dir'}
  BY PowerLossValue
<1>2. \A e \in disk' : \E f \in disk :
           ValueOf(e) = ValueOf(f) /\ e.journal \in {f.journal, NoJournal}
  BY <1>1 DEF Value
<1>3. log' = log /\ writer' = [w \in Writers |-> IdleWriter]
  BY DEF PowerLoss
<1>4. SameTxns
  BY <1>3 DEF SameTxns
<1>5. Agree'
  BY <1>1 DEF Agree, Value
<1>6. \A v \in Writers : TxnOf(v)'
  BY <1>3, IdleWriterTyped DEF TxnOf, At
<1>7. DiskInv'
  BY <1>2, <1>4, <1>5, <1>6, DiskStep
<1>8. ToldInv'
  BY <1>2, <1>3, <1>4, ToldStep
<1>9. QED
  BY <1>7, <1>8

--------------------------------------------------------------------------------
(* What holds for any file system *)

\* The types, the phases of the lock holder and what the readers have read, for
\* any file system.
THEOREM CoreInvariance == Spec => []CoreInv
BY CoreInit, CoreNext, PTL DEF Spec

\* TypeOK for every set of tasks, processes and readers: the store lock of
\* transaction.go is held by the one process inside its operation.
THEOREM TypeCorrect == Spec => []TypeOK
<1>1. CoreInv => TypeOK
  <2> SUFFICES ASSUME CoreInv PROVE TypeOK
    OBVIOUS
  <2>1. \A n \in 1 .. Len(log) : log[n] \in Transaction
    BY LogTyped DEF CoreInv
  <2>2. QED
    BY <2>1 DEF CoreInv, TypeInv, ReaderInv, TypeOK, Transaction
<1>2. QED
  BY <1>1, CoreInvariance, PTL

\* What Snapshot of task.go returns is a value the store had during the scan,
\* whatever the file system does to the order of renames.
THEOREM SnapshotsAreStates == Spec => []SnapshotIsAState
<1>1. CoreInv => SnapshotIsAState
  BY DEF CoreInv, ReaderInv, ReaderOf, SnapshotIsAState
<1>2. QED
  BY <1>1, CoreInvariance, PTL

--------------------------------------------------------------------------------
(* What holds when renames are ordered *)

\* The empty store, with one directory.
LEMMA FullInit == Init => FullInv
<1> SUFFICES ASSUME Init PROVE FullInv
  OBVIOUS
<1>1. CoreInv
  BY CoreInit
<1>2. /\ disk = {dir} /\ dir.journal = NoJournal /\ Len(log) = 0 /\ dir.files = NoFiles
      /\ \A w \in Writers : writer[w].pc = "idle"
  BY DEF Init, IdleWriter
<1>3. \A t \in Tasks : ValueOf(dir)[t] = 0
  BY <1>1, <1>2, ValueTyped DEF CoreInv, TypeInv, NoJournal, NoFiles
<1>4. DiskInv
  <2>1. Whole(ValueOf(dir)) /\ Below(ValueOf(dir))
    BY <1>2, <1>3 DEF Whole, Below
  <2>2. Agree
    BY <1>2 DEF Agree, Value
  <2>3. QED
    BY <1>2, <2>1, <2>2 DEF DiskInv, TxnOf, At
<1>5. ToldInv
  BY <1>2 DEF ToldInv
<1>6. QED
  BY <1>1, <1>4, <1>5 DEF FullInv

\* Every step keeps the invariant when renames are ordered.
LEMMA FullStep ==
    ASSUME Ordered, FullInv, Next
    PROVE  FullInv'
<1> USE DEF FullInv, CoreInv
<1>0. CoreInv'
  BY CoreNext
<1>1. CASE \E w \in Writers : WriterStep(w)
  <2>1. PICK w \in Writers : WriterStep(w)
    BY <1>1
  <2>2. CASE Lock(w)
    BY <1>0, <2>2, LockDisk
  <2>3. CASE Leave(w) \/ Kill(w)
    <3>1. ~At(w, "idle") /\ Unlock(w) /\ UNCHANGED <<dir, disk, log>>
      BY <2>3 DEF Leave, Kill, At, TypeInv
    <3>2. SameTxns
      BY <3>1 DEF SameTxns
    <3>3. QED
      BY <1>0, <3>1, <3>2, LeaveDisk
  <2>4. CASE Publish(w)
    BY <1>0, <2>4, PublishDisk
  <2>5. CASE Commit(w) \/ SyncFiles(w)
    <3>1. /\ SyncDir /\ log' = log /\ writer[w].pc \in {"sync", "apply"}
          /\ Goto(w, "apply") \/ Goto(w, "bump")
      BY <2>5 DEF Commit, SyncFiles, At
    <3>2. SameTxns /\ \A v \in Writers : TxnOf(v)'
      BY <3>1, GotoTxn
    <3>3. QED
      BY <1>0, <3>1, <3>2, SyncDisk
  <2>6. CASE ApplyOne(w) \/ BumpGeneration(w) \/ Remove(w)
    BY <1>0, <2>6, RenameDisk
  <2>7. CASE Finish(w)
    BY <1>0, <2>7, FinishDisk
  <2>8. CASE IOError(w)
    BY <1>0, <2>8, IOErrorDisk
  <2>9. CASE \E tasks \in SUBSET Tasks : Begin(w, tasks)
    BY <1>0, <2>9, BeginDisk
  <2>10. QED
    BY <2>1, <2>2, <2>3, <2>4, <2>5, <2>6, <2>7, <2>8, <2>9 DEF WriterStep
<1>2. CASE \E r \in Readers : ReaderStep(r)
  <2>1. PICK r \in Readers : ReaderStep(r)
    BY <1>2
  <2>2. UNCHANGED <<dir, disk, log, writer>>
    BY <2>1 DEF ReaderStep, ReadGeneration, ListDir, ReadFile, ReadJournal, CheckGeneration,
                Return
  <2>3. SameTxns /\ (Durable' <=> Durable)
    BY <2>2 DEF SameTxns, Durable, At
  <2>4. \A v \in Writers : TxnOf(v)'
    BY <2>2 DEF DiskInv, TxnOf, Logged, At
  <2>5. QED
    BY <1>0, <2>2, <2>3, <2>4, NothingWritten
<1>3. CASE PowerLoss
  BY <1>0, <1>3, PowerLossDisk
<1>4. QED
  BY <1>1, <1>2, <1>3 DEF Next

\* A step that changes nothing.
LEMMA FullStutter == FullInv /\ UNCHANGED vars => FullInv'
<1> SUFFICES ASSUME FullInv, UNCHANGED vars PROVE FullInv'
  OBVIOUS
<1>1. UNCHANGED <<dir, disk, lock, writer, log, reader, seen, faults>>
  BY DEF vars
<1>2. CoreInv'
  BY CoreStutter DEF FullInv
<1>3. (Durable' <=> Durable) /\ (Agree' <=> Agree)
  BY <1>1 DEF Durable, Agree, Value, At
<1>4. DiskInv'
  BY <1>1, <1>3 DEF FullInv, DiskInv, Whole, Below, Logged, TxnOf, At
<1>5. ToldInv'
  BY <1>1 DEF FullInv, ToldInv, HasAll
<1>6. QED
  BY <1>2, <1>4, <1>5 DEF FullInv

\* The invariant with the durable directories is inductive.
LEMMA FullNext ==
    ASSUME Ordered
    PROVE  FullInv /\ [Next]_vars => FullInv'
<1> SUFFICES ASSUME FullInv, [Next]_vars PROVE FullInv'
  OBVIOUS
<1>1. CASE Next
  BY <1>1, FullStep
<1>2. CASE UNCHANGED vars
  BY <1>2, FullStutter
<1>3. QED
  BY <1>1, <1>2

\* The whole invariant, where renames become durable in the order they were made.
THEOREM Invariance ==
    ASSUME Ordered
    PROVE  Spec => []FullInv
BY FullInit, FullNext, PTL DEF Spec

\* With ordered renames a power loss leaves one of the directories since the fsync.
LEMMA OrderedSurvivors ==
    ASSUME Ordered
    PROVE  Survivors = disk
  BY DEF Survivors

\* TransactionsWhole: readers and crashes see a transaction of applyTransaction
\* whole or not at all.
THEOREM TransactionsAreWhole ==
    ASSUME Ordered
    PROVE  Spec => []TransactionsWhole
<1>1. FullInv => TransactionsWhole
  <2> SUFFICES ASSUME FullInv PROVE TransactionsWhole
    OBVIOUS
  <2>1. SnapshotIsAState
    BY DEF FullInv, CoreInv, ReaderInv, ReaderOf, SnapshotIsAState
  <2>2. Survivors \cup {dir} = disk
    BY OrderedSurvivors DEF FullInv, CoreInv, TypeInv
  <2>3. \A d \in disk : Whole(ValueOf(d))
    BY DEF FullInv, DiskInv
  <2>4. NoTornTransaction
    BY <2>2, <2>3 DEF NoTornTransaction, Whole
  <2>5. QED
    BY <2>1, <2>4 DEF TransactionsWhole
<1>2. QED
  BY <1>1, Invariance, PTL

\* ToldSurvives: a caller that mutate told ok, or CommittedError, finds its
\* transaction after every later crash.
THEOREM ToldTransactionsSurvive ==
    ASSUME Ordered
    PROVE  Spec => []ToldSurvives
<1>1. FullInv => ToldSurvives
  BY OrderedSurvivors DEF FullInv, ToldInv, HasAll, ToldSurvives
<1>2. QED
  BY <1>1, Invariance, PTL

--------------------------------------------------------------------------------
(* The refinement *)

\* The empty store is the empty atomic store.
LEMMA StoreInitial ==
    ASSUME Ordered
    PROVE  Init => Atomic!StoreInit
<1> SUFFICES ASSUME Init PROVE Atomic!StoreInit
  OBVIOUS
<1>1. dir \in Dir /\ dir.files = NoFiles /\ dir.journal = NoJournal /\ disk = {dir}
  BY CoreInit DEF CoreInv, TypeInv, Init
<1>2. Value \in Files /\ \A t \in Tasks : Value[t] = 0
  BY <1>1, ValueTyped DEF Value, NoFiles, NoJournal
<1>3. Value = [t \in Tasks |-> 0]
  BY <1>2 DEF Files
<1>4. {ValueOf(d) : d \in Survivors} = {Value}
  BY <1>1, OrderedSurvivors DEF Value
<1>5. QED
  BY <1>3, <1>4 DEF Atomic!StoreInit

\* Publish is the write, a directory fsync hardens, all else but a power loss stutters.
LEMMA StoreStep ==
    ASSUME Ordered
    PROVE  FullInv /\ [Next]_vars => [Atomic!StoreNext]_Atomic!storeVars
<1> SUFFICES ASSUME FullInv, [Next]_vars PROVE [Atomic!StoreNext]_Atomic!storeVars
  OBVIOUS
<1> USE DEF FullInv, CoreInv
<1> DEFINE Possible == {ValueOf(d) : d \in disk}
<1>0. CoreInv' /\ {ValueOf(d) : d \in Survivors} = Possible
      /\ {ValueOf(d) : d \in Survivors}' = Possible'
  BY CoreNext DEF Survivors
<1>1. ASSUME UNCHANGED <<dir, disk>>
      PROVE  [Atomic!StoreNext]_Atomic!storeVars
  <2>1. Value' = Value /\ Possible' = Possible
    BY <1>1 DEF Value
  <2>2. QED
    BY <1>0, <2>1 DEF Atomic!storeVars
<1>2. ASSUME SyncDir
      PROVE  [Atomic!StoreNext]_Atomic!storeVars
  <2>1. Value' = Value /\ Possible' = {Value}
    BY <1>2 DEF SyncDir, Value
  <2>2. QED
    BY <1>0, <2>1 DEF Atomic!StoreNext, Atomic!Harden
<1>3. ASSUME NEW w \in Writers, ApplyOne(w) \/ BumpGeneration(w) \/ Remove(w)
      PROVE  [Atomic!StoreNext]_Atomic!storeVars
  <2>1. Value' = Value /\ disk' = disk \cup {dir'} /\ dir \in disk
    BY <1>0, <1>3, RenameKeepsValue DEF TypeInv
  <2>2. Possible' = Possible
    BY <2>1 DEF Value
  <2>3. QED
    BY <1>0, <2>1, <2>2 DEF Atomic!storeVars
<1>4. ASSUME NEW w \in Writers, Publish(w)
      PROVE  [Atomic!StoreNext]_Atomic!storeVars
  <2> DEFINE j == writer[w].txn
  <2>1. /\ j \in Journal /\ disk' = disk \cup {dir'} /\ dir' \in Dir /\ Agree
        /\ \A t \in Tasks : Value'[t] = IF t \in j.tasks THEN j.n ELSE Value[t]
    BY <1>0, <1>4, PublishedValue
  <2>2. Value' \in Files
    BY <2>1, ValueTyped DEF Value
  <2>3. Value' = [t \in Tasks |-> IF t \in j.tasks THEN j.n ELSE Value[t]]
    BY <2>1, <2>2 DEF Files
  <2>4. dir \in disk /\ Possible = {Value}
    BY <2>1 DEF Agree, TypeInv, Value
  <2>5. Possible' = {Value, Value'}
    BY <2>1, <2>4 DEF Agree, Value
  <2>6. j.n \in 1 .. MaxTxns /\ j.tasks \in SUBSET Tasks
    BY <2>1 DEF Journal
  <2> HIDE DEF j, Possible
  <2>7. Atomic!Write(j.n, j.tasks)
    BY <1>0, <2>3, <2>4, <2>5 DEF Atomic!Write
  <2>8. QED
    BY <2>6, <2>7 DEF Atomic!StoreNext
<1>5. ASSUME PowerLoss
      PROVE  [Atomic!StoreNext]_Atomic!storeVars
  <2>1. PICK d \in disk : Value' = ValueOf(d) /\ disk' = {dir'}
    BY <1>5, PowerLossValue
  <2>2. Value' \in Possible /\ Possible' = {Value'}
    BY <2>1 DEF Value
  <2>3. QED
    BY <1>0, <2>2 DEF Atomic!StoreNext, Atomic!PowerFails
<1>6. CASE Next
  <2>1. ASSUME NEW w \in Writers, WriterStep(w)
        PROVE  [Atomic!StoreNext]_Atomic!storeVars
    <3>1. \/ UNCHANGED <<dir, disk>> \/ SyncDir \/ Publish(w)
          \/ ApplyOne(w) \/ BumpGeneration(w) \/ Remove(w)
      BY <2>1 DEF WriterStep, Lock, Leave, Commit, SyncFiles, Finish, IOError, Kill, Begin
    <3>2. QED
      BY <1>1, <1>2, <1>3, <1>4, <3>1
  <2>2. ASSUME NEW r \in Readers, ReaderStep(r)
        PROVE  [Atomic!StoreNext]_Atomic!storeVars
    <3>1. UNCHANGED <<dir, disk>>
      BY <2>2 DEF ReaderStep, ReadGeneration, ListDir, ReadFile, ReadJournal, CheckGeneration,
                  Return
    <3>2. QED
      BY <1>1, <3>1
  <2>3. QED
    BY <1>5, <1>6, <2>1, <2>2 DEF Next
<1>7. CASE UNCHANGED vars
  BY <1>1, <1>7 DEF vars
<1>8. QED
  BY <1>6, <1>7

\* The store of files, journal and generation implements the atomic store: the
\* rename of the journal is the write, everything else is invisible, and a power
\* loss leaves the value with or without the last transaction.
THEOREM JournalImplementsAtomicStore ==
    ASSUME Ordered
    PROVE  Spec => ImplementsAtomicStore
BY StoreInitial, StoreStep, Invariance, PTL DEF Spec, ImplementsAtomicStore, Atomic!StoreSpec
================================================================================
