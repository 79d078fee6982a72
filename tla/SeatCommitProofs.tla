-------------------------- MODULE SeatCommitProofs --------------------------
(***************************************************************************)
(* For every set of tasks, paths and runners, and any number of faults: no *)
(* work the seat finished is removed before the ledger has it, a commit    *)
(* holds its own task's work, or paths at rest, within the declared files, *)
(* the commits of a task are one line that the remote follows, a binding   *)
(* is of a pushed commit, and a clean never meets a branch it does not     *)
(* know.                                                                   *)
(*                                                                         *)
(* The control part of the invariant (types, lock, lease, HEAD, the task   *)
(* the seat holds) is inductive on its own.  On it stand, each using those *)
(* before it: what is in the worktree, the snapshot of a step, the commits *)
(* made of it, what reached the remote, and what is kept of the files      *)
(* before they are removed.  Every action has a lemma that says what it    *)
(* does (named ...Is); the parts go through the actions by these.          *)
(***************************************************************************)
EXTENDS SeatCommit, WellFoundedInduction, TLAPS

----------------------------------------------------------------------------
(* The inductive invariant *)

\* Types.
Content == [by : Tasks \cup {None}, n : Nat, late : BOOLEAN]
Tree == [Paths -> Content]
CommitRecord == [task : Tasks, parent : Nat, tree : Tree, pushed : BOOLEAN, own : BOOLEAN]
Stopped == [task : Tasks \cup {None}, attempt : Nat, tree : Tree]
Lease == [task : Tasks, start : Nat]
Ledger == [lease : Lease \cup {NoLease}, commits : Seq(CommitRecord), discarded : SUBSET Stopped]
TaskRecord == [state : {"pending", "leased", "reported", "refused", "asking", "blocked",
                        "completed", "cancelled"},
               attempt : Nat, widened : BOOLEAN, pr : Nat, head : Nat]
PullRequest == [branch : Tasks, task : Tasks \cup {None}, head : Nat]
Stepping == {"prcheck", "verify", "commit", "push", "mark", "openpr", "bind", "rest", "sweep",
             "head", "forget"}
Running == [at : {"idle", "lock", "decided"} \cup Stepping, task : Tasks \cup {None},
            attempt : Nat, own : BOOLEAN, parent : Nat, tree : Tree, commit : Nat, pr : Nat,
            ok : BOOLEAN]
Cleaning == {"clean", "reset", "sweep", "head", "unlease", "release"}
Ticking == [at : {"idle", "clean_seat", "start", "move", "branch"} \cup Cleaning,
            task : Tasks \cup {None}, tree : Tree]

TypeInv ==
    /\ task \in [Tasks -> TaskRecord] /\ ended \in (Tasks \cup {None}) \X Nat
    /\ ledger \in Ledger
    /\ files \in Tree /\ head \in Tasks \cup {None}
    /\ remote \in [Tasks -> Nat] /\ prs \in Seq(PullRequest)
    /\ run \in [Runners -> Running] /\ tick \in Ticking
    /\ \A r \in Runners : run[r].at # "idle" => run[r].task \in Tasks
    /\ Starting => tick.task \in Tasks

\* The ledger lock.
LockInv ==
    /\ \A r \in Runners : run[r].at \in Stepping => lock = r
    /\ tick.at \in Cleaning \cup {"move", "branch"} => lock = Thread

\* A commit is built on a base or on an earlier commit.
Known(c) == c \in 1 .. Len(ledger.commits) + 2
CommitOf(t, c) == c - 2 \in DOMAIN ledger.commits /\ ledger.commits[c - 2].task = t
LedgerInv ==
    /\ \A i \in DOMAIN ledger.commits : ledger.commits[i].parent \in 1 .. i + 1
    /\ Leased => Known(ledger.lease.start)
    /\ \A r \in Runners :
          /\ run[r].at \in {"prcheck", "verify", "commit"} => Known(run[r].parent)
          /\ run[r].at \in {"push", "mark", "openpr", "bind"}
                => CommitOf(run[r].task, run[r].commit)

\* HEAD, the lease in the ledger and the thread between the two.
HeadInv ==
    /\ HeadKnown
    /\ \A r \in Runners : run[r].at = "forget" => head = None
    /\ tick.at \in {"unlease", "release", "clean_seat", "start", "move", "branch"} => head = None
    /\ tick.at \in {"move", "branch"} => Leased /\ ledger.lease.task = tick.task

\* The seat has one task at most; nobody writes while it is cleaned or started.
HoldInv ==
    /\ \A t, u \in Holding : t = u
    /\ \A t \in Holding : head \in {None, t}
    /\ tick.at \in Cleaning \cup {"clean_seat"} => SeatFree
    /\ Starting => /\ Holding \subseteq {tick.task}
                   /\ task[tick.task].state \in {"leased", "cancelled"}

\* What is in the worktree.
TreeInv ==
    /\ tick.at \in {"clean", "reset"} => files = tick.tree
    /\ tick.at \in {"sweep", "head", "unlease", "release", "clean_seat", "start", "move"}
          => files = TreeOf(Rest)
    /\ tick.at = "branch" => files = TreeOf(ledger.lease.start)
    /\ head # None =>
          \A p \in Changed(TreeOf(ledger.lease.start), files) : OwnOrRest(head, files, p)

\* The snapshot a step has taken, and the commit it works on.
Diff(R) == Changed(TreeOf(R.parent), R.tree)
SnapshotOf(R) ==
    /\ Diff(R) \subseteq Allowed(R.task)
    /\ R.own => \/ \A p \in Diff(R) : OwnOrRest(R.task, R.tree, p)
                \/ \E i \in DOMAIN ledger.commits :
                      ledger.commits[i].task = R.task /\ R.parent < Id(i)
StepInv ==
    \A r \in Runners :
        run[r].at \in {"prcheck", "verify", "commit"} => SnapshotOf(run[r])

\* The commits of a task, each on the one before it.
Following == \A i, j \in DOMAIN ledger.commits :
                /\ i < j /\ ledger.commits[i].task = ledger.commits[j].task
                /\ \A k \in (i + 1)..(j - 1) : ledger.commits[k].task # ledger.commits[j].task
                => ledger.commits[j].parent = Id(i)
OnBranches == \A t \in Tasks : remote[t] # 0 => CommitOf(t, remote[t])

\* What reached the remote.
Reached(t, c) == remote[t] # 0 /\ c \in Ancestry[remote[t] - 2]
BoundTo(t, i, c) == i # 0 => i \in DOMAIN prs /\ prs[i].branch = t /\ Reached(t, c)
Carries(R) ==
    /\ R.at \in {"mark", "openpr", "bind"} => Reached(R.task, R.commit)
    /\ R.at \in {"lock", "prcheck", "verify", "commit"} => R.pr = 0
    /\ BoundTo(R.task, R.pr, R.commit)
RemoteInv ==
    /\ OnBranches
    /\ \A i \in DOMAIN ledger.commits :
          ledger.commits[i].pushed => Reached(ledger.commits[i].task, Id(i))
    /\ \A r \in Runners : run[r].at # "idle" => Carries(run[r])
    /\ \A t \in Tasks : BoundTo(t, task[t].pr, task[t].head)

\* What is kept before it is removed.
Precious(p) == files[p].by # None /\ ~files[p].late
AllKept == \A p \in Paths : Precious(p) => Kept(p)
AskedInv ==
    \A r \in Runners : run[r].at \notin {"idle", "decided"} =>
        LET t == run[r].task
        IN  /\ task[t].attempt >= run[r].attempt
            /\ task[t].attempt = run[r].attempt => task[t].state # "leased"
\* What the settle removes is what the step has snapshot, and then committed.
AfterCommit == {"push", "mark", "openpr", "bind", "rest", "sweep", "head"}
Snapped(r) == \A p \in Paths : Precious(p) => files[p] = run[r].tree[p]
InLedger(r) == \A p \in Paths : run[r].tree[p].by # None =>
                  \E i \in DOMAIN ledger.commits : ledger.commits[i].tree[p] = run[r].tree[p]
SettleInv ==
    \A r \in Runners :
        /\ run[r].at \in Stepping \ {"forget"} /\ Answers(r) => Snapped(r)
        /\ run[r].at \in AfterCommit => InLedger(r)
EndedInv ==
    /\ \A t \in Tasks : task[t].state = "refused" => ended = <<t, task[t].attempt>>
    /\ \A t \in Tasks : ended[1] = t => ended[2] <= task[t].attempt
    /\ \A d \in ledger.discarded, t \in Tasks : d.task = t =>
          /\ d.attempt <= task[t].attempt
          /\ d.attempt = task[t].attempt => task[t].state \notin Held
DiscardInv ==
    /\ SeatFree /\ DiscardedOf(ended[1], ended[2]) => AllKept
    /\ tick.at = "reset" => AllKept

\* The whole: the control part, and the parts that stand on it.
Control == TypeInv /\ LockInv /\ LedgerInv /\ HeadInv /\ HoldInv
IInv == /\ Control /\ TreeInv /\ StepInv
        /\ OwnWorkOnly /\ Following /\ CommitsStayDeclared /\ RemoteInv
        /\ AskedInv /\ SettleInv /\ EndedInv /\ DiscardInv

----------------------------------------------------------------------------
(* Lists, trees and who is within the lock *)

\* A set of places of a list has a last one.
LEMMA LastPlace ==
    ASSUME NEW n \in Nat, NEW I, I \subseteq 1 .. n, I # {}
    PROVE  Max(I) \in I /\ \A i \in I : i <= Max(I)
<1> DEFINE R == OpToRel(<, Nat)
           T == {n - i : i \in I}
<1>1. IsWellFoundedOn(R, Nat)
  BY NatLessThanWellFounded, Zenon
<1> HIDE DEF R
<1>2. T \subseteq Nat /\ T # {}
  <2>1. \A i \in I : i \in 1 .. n
    OBVIOUS
  <2>2. \A i \in I : n - i \in Nat
    BY <2>1
  <2>3. PICK i \in I : TRUE
    OBVIOUS
  <2>4. n - i \in T
    BY <2>3
  <2>5. QED
    BY <2>2, <2>4
<1>3. PICK x \in T : \A y \in T : ~ (<<y, x>> \in R)
  BY <1>1, <1>2, WFMin
<1> USE DEF R
<1>4. \A y \in T : ~(y < x)
  BY <1>2, <1>3 DEF OpToRel
<1>5. PICK m \in I : x = n - m
  OBVIOUS
<1>6. ASSUME NEW i \in I
      PROVE  i <= m
  <2>1. n - i \in T /\ i \in 1 .. n /\ m \in 1 .. n
    OBVIOUS
  <2>2. ~(n - i < n - m)
    BY <1>4, <1>5, <2>1
  <2> HIDE DEF T
  <2>3. QED
    BY <2>1, <2>2
<1>7. QED
  BY <1>6 DEF Max

\* The commits of the ledger are a list of commits.
LEMMA CommitsTyped ==
    ASSUME TypeInv
    PROVE  /\ ledger.commits \in Seq(CommitRecord) /\ Len(ledger.commits) \in Nat
           /\ DOMAIN ledger.commits = 1 .. Len(ledger.commits)
           /\ \A i \in DOMAIN ledger.commits : ledger.commits[i] \in CommitRecord
<1>1. ledger.commits \in Seq(CommitRecord)
  BY DEF TypeInv, Ledger
<1>2. QED
  BY <1>1

\* The last commit of a task.
LEMMA TaskCommitAtIs ==
    ASSUME TypeInv, NEW t
    PROVE  /\ TaskCommitAt(t) \in {0} \cup DOMAIN ledger.commits
           /\ TaskCommitAt(t) # 0 => ledger.commits[TaskCommitAt(t)].task = t
           /\ \A i \in DOMAIN ledger.commits :
                 ledger.commits[i].task = t => TaskCommitAt(t) # 0 /\ i <= TaskCommitAt(t)
<1> DEFINE n == Len(ledger.commits)
           I == {i \in 1 .. n : ledger.commits[i].task = t}
<1>1. n \in Nat /\ DOMAIN ledger.commits = 1 .. n
  BY CommitsTyped
<1>2. TaskCommitAt(t) = IF I # {} THEN Max(I) ELSE 0
  BY DEF TaskCommitAt, SelectLastInSeq
<1>3. I # {} => Max(I) \in I /\ \A i \in I : i <= Max(I)
  BY <1>1, LastPlace
<1> HIDE DEF n
<1>4. QED
  BY <1>1, <1>2, <1>3

\* The recorded commit of a diff.
LEMMA RecordedAtIs ==
    ASSUME TypeInv, NEW p, NEW w
    PROVE  /\ RecordedAt(p, w) \in {0} \cup DOMAIN ledger.commits
           /\ RecordedAt(p, w) # 0 => /\ ledger.commits[RecordedAt(p, w)].parent = p
                                      /\ ledger.commits[RecordedAt(p, w)].tree = w
<1> DEFINE n == Len(ledger.commits)
           I == {i \in 1 .. n : ledger.commits[i].parent = p /\ ledger.commits[i].tree = w}
<1>1. n \in Nat /\ DOMAIN ledger.commits = 1 .. n
  BY CommitsTyped
<1>2. RecordedAt(p, w) = IF I # {} THEN Max(I) ELSE 0
  BY DEF RecordedAt, SelectLastInSeq
<1>3. I # {} => Max(I) \in I
  BY <1>1, LastPlace
<1> HIDE DEF n
<1>4. QED
  BY <1>1, <1>2, <1>3

\* Nobody of the seat wrote what a base holds.
LEMMA BaseTreeIs ==
    ASSUME NEW b
    PROVE  BaseTree(b) \in Tree /\ \A p \in Paths : BaseTree(b)[p].by = None
<1>1. Nobody \in Content /\ Nobody.by = None
  BY DEF Nobody, Content
<1>2. [Nobody EXCEPT !.n = 1] \in Content /\ [Nobody EXCEPT !.n = 1].by = None
  BY DEF Nobody, Content
<1>3. QED
  BY <1>1, <1>2 DEF BaseTree, Tree

\* A known commit is a base or one of the ledger's.
LEMMA KnownIs ==
    ASSUME TypeInv, NEW c, Known(c)
    PROVE  \/ c \in Bases /\ TreeOf(c) = BaseTree(c) /\ ~IsCommit(c)
           \/ /\ c - 2 \in DOMAIN ledger.commits /\ c = Id(c - 2) /\ IsCommit(c)
              /\ TreeOf(c) = ledger.commits[c - 2].tree
<1>1. c \in 1 .. Len(ledger.commits) + 2 /\ Len(ledger.commits) \in Nat
      /\ DOMAIN ledger.commits = 1 .. Len(ledger.commits)
  BY CommitsTyped DEF Known
<1>2. CASE c \in Bases
  BY <1>2 DEF TreeOf, IsCommit, Bases
<1>3. CASE c \notin Bases
  <2>1. c \in 3 .. Len(ledger.commits) + 2
    BY <1>1, <1>3 DEF Bases
  <2>2. c - 2 \in 1 .. Len(ledger.commits) /\ c = c - 2 + 2 /\ c > 2
    BY <1>1, <2>1
  <2>3. QED
    BY <1>1, <1>3, <2>2 DEF TreeOf, Id, IsCommit
<1>4. QED
  BY <1>2, <1>3

\* The tree of a known commit.
LEMMA TreeOfTyped ==
    ASSUME TypeInv, NEW c, Known(c)
    PROVE  TreeOf(c) \in Tree
<1>1. \A i \in DOMAIN ledger.commits : ledger.commits[i].tree \in Tree
  BY CommitsTyped DEF CommitRecord
<1>2. QED
  BY <1>1, KnownIs, BaseTreeIs

\* The worktree at rest holds nothing of a task.
LEMMA RestIs ==
    ASSUME TypeInv
    PROVE  /\ Known(Rest) /\ TreeOf(Rest) = BaseTree(Rest) /\ TreeOf(Rest) \in Tree
           /\ \A p \in Paths : TreeOf(Rest)[p].by = None
<1>1. Known(Rest) /\ Rest \in Bases
  BY CommitsTyped DEF Known, Rest, Bases
<1>2. TreeOf(Rest) = BaseTree(Rest)
  BY <1>1 DEF TreeOf
<1>3. QED
  BY <1>1, <1>2, BaseTreeIs

\* Nothing is under way at first, or once a step or the thread is over.
LEMMA IdlesTyped ==
    /\ Idle \in Running /\ Idle.at = "idle" /\ Idle.pr = 0 /\ Idle.commit = 0
    /\ Resting \in Ticking /\ Resting.at = "idle"
<1>1. BaseTree(1) \in Tree
  BY BaseTreeIs
<1>2. QED
  BY <1>1 DEF Idle, Running, Resting, Ticking

\* A place of a runner, alone with the lock.
LEMMA StepperAlone ==
    ASSUME LockInv, NEW r \in Runners, lock = r
    PROVE  /\ \A q \in Runners : q # r => run[q].at \notin Stepping
           /\ tick.at \notin Cleaning \cup {"move", "branch"}
  BY ThreadAssumption DEF LockInv

\* No step is within the lock while the thread has it, or nobody.
LEMMA ThreadAlone ==
    ASSUME LockInv, lock \in {Thread, None}
    PROVE  \A q \in Runners : run[q].at \notin Stepping
  BY ThreadAssumption, SeatCommitAssumption DEF LockInv

\* The thread is outside its locked parts when nobody has the lock.
LEMMA NoThread ==
    ASSUME LockInv, lock = None
    PROVE  tick.at \notin Cleaning \cup {"move", "branch"}
  BY ThreadAssumption DEF LockInv

----------------------------------------------------------------------------
(* What the actions do, and that they keep the control part *)

\* A step of a runner to the next line of the code.
Others(r) == \A q \in Runners : q # r => run'[q] = run[q]
Moves(r) == /\ run' \in [Runners -> Running] /\ Others(r)
            /\ run'[r].at # "idle" => run'[r].task \in Tasks

\* A step goes on to the next line, and keeps what it knows.
LEMMA RunTo ==
    ASSUME TypeInv, NEW r \in Runners, run[r].at # "idle",
           NEW a \in {"lock", "decided"} \cup Stepping, To(r, a)
    PROVE  /\ Moves(r) /\ run'[r].at = a
           /\ run'[r].task = run[r].task /\ run'[r].attempt = run[r].attempt
           /\ run'[r].own = run[r].own /\ run'[r].parent = run[r].parent
           /\ run'[r].tree = run[r].tree /\ run'[r].commit = run[r].commit
           /\ run'[r].pr = run[r].pr /\ run'[r].ok = run[r].ok
<1>1. run \in [Runners -> Running] /\ run[r].task \in Tasks
  BY DEF TypeInv
<1>2. run[r] \in Running
  BY <1>1
<1> DEFINE x == [run[r] EXCEPT !.at = a]
<1>3. /\ x \in Running /\ x.at = a
      /\ x.task = run[r].task /\ x.attempt = run[r].attempt
      /\ x.own = run[r].own /\ x.parent = run[r].parent
      /\ x.tree = run[r].tree /\ x.commit = run[r].commit
      /\ x.pr = run[r].pr /\ x.ok = run[r].ok
  BY <1>2 DEF Running
<1>4. run' = [run EXCEPT ![r] = x]
  BY DEF To
<1> HIDE DEF x
<1>5. run'[r] = x /\ run' \in [Runners -> Running] /\ Others(r)
  BY <1>1, <1>3, <1>4 DEF Others
<1>6. QED
  BY <1>1, <1>3, <1>5 DEF Moves

\* A step ends with a result.
LEMMA RunDecides ==
    ASSUME TypeInv, NEW r \in Runners, run[r].at # "idle", NEW ok \in BOOLEAN, Decide(r, ok)
    PROVE  /\ Moves(r) /\ run'[r].at = "decided" /\ run'[r].task = run[r].task
           /\ run'[r].commit = run[r].commit /\ run'[r].pr = run[r].pr
           /\ lock' = None
<1>1. run \in [Runners -> Running] /\ run[r].task \in Tasks
  BY DEF TypeInv
<1>2. run[r] \in Running
  BY <1>1
<1> DEFINE x == [Idle EXCEPT !.at = "decided", !.ok = ok, !.task = run[r].task,
                              !.commit = run[r].commit, !.pr = run[r].pr]
<1>3. /\ x \in Running /\ x.at = "decided" /\ x.task = run[r].task
      /\ x.commit = run[r].commit /\ x.pr = run[r].pr
  BY <1>2, IdlesTyped DEF Running
<1>4. run' = [run EXCEPT ![r] = x] /\ lock' = None
  BY DEF Decide
<1> HIDE DEF x
<1>5. run'[r] = x /\ run' \in [Runners -> Running] /\ Others(r)
  BY <1>1, <1>3, <1>4 DEF Others
<1>6. QED
  BY <1>1, <1>3, <1>4, <1>5 DEF Moves

\* A step is over.
LEMMA RunIdles ==
    ASSUME TypeInv, NEW r \in Runners, run' = [run EXCEPT ![r] = Idle]
    PROVE  Moves(r) /\ run'[r] = Idle /\ run'[r].at = "idle"
<1>1. run \in [Runners -> Running]
  BY DEF TypeInv
<1>2. QED
  BY <1>1, IdlesTyped DEF Moves, Others

\* A runner takes the lock when it is free, and gives back its own.
LEMMA LockMoves ==
    ASSUME TypeInv, LockInv, NEW r \in Runners, Moves(r), tick' = tick,
           run'[r].at \in Stepping => lock' = r,
           lock' = lock \/ (lock \in {r, None} /\ lock' \in {r, None})
    PROVE  LockInv'
<1>1. Thread # r /\ Thread # None /\ None # r
  BY ThreadAssumption, SeatCommitAssumption
<1>2. ASSUME NEW q \in Runners, run'[q].at \in Stepping PROVE lock' = q
  <2>1. CASE q = r
    BY <2>1, <1>2
  <2>2. CASE q # r
    <3>1. run'[q] = run[q]
      BY <2>2 DEF Moves, Others
    <3>2. lock = q /\ q # None
      BY <3>1, <1>2, SeatCommitAssumption DEF LockInv
    <3>3. QED
      BY <3>2, <2>2
  <2>3. QED
    BY <2>1, <2>2
<1>3. ASSUME tick'.at \in Cleaning \cup {"move", "branch"} PROVE lock' = Thread
  BY <1>1, <1>3 DEF LockInv
<1>4. QED
  BY <1>2, <1>3 DEF LockInv

\* Nothing the other runners depend on leaves the ledger.
LEMMA LedgerMoves ==
    ASSUME TypeInv, LedgerInv, NEW r \in Runners, Moves(r), ledger' = ledger,
           run'[r].at \in {"prcheck", "verify", "commit"} => Known(run'[r].parent),
           run'[r].at \in {"push", "mark", "openpr", "bind"}
              => CommitOf(run'[r].task, run'[r].commit)
    PROVE  LedgerInv'
<1>1. \A c : Known(c)' <=> Known(c)
  BY DEF Known
<1>2. \A q \in Runners : q # r => run'[q] = run[q]
  BY DEF Moves, Others
<1>3. QED
  BY <1>1, <1>2 DEF LedgerInv, CommitOf, Leased

\* The branch checked out, under a step of a runner that leaves it.
LEMMA HeadMoves ==
    ASSUME HeadInv, NEW r \in Runners, Moves(r), ledger'.lease = ledger.lease, tick' = tick,
           head' = head, run'[r].at = "forget" => head = None
    PROVE  HeadInv'
<1>1. \A q \in Runners : q # r => run'[q] = run[q]
  BY DEF Moves, Others
<1>2. QED
  BY <1>1 DEF HeadInv, HeadKnown, KnownBranch, Leased

\* No task comes to the seat, and a start goes on with its task or without.
LEMMA HoldKept ==
    ASSUME TypeInv, HoldInv, tick' = tick, head' \in {head, None},
           \A u \in Tasks : task'[u].state \in Held => task[u].state \in Held,
           Starting => /\ task[tick.task].state = "cancelled"
                            => task'[tick.task].state = "cancelled"
                       /\ task[tick.task].state = "leased"
                            => task'[tick.task].state \in {"leased", "cancelled"}
    PROVE  HoldInv'
<1>1. Holding' \subseteq Holding
  BY DEF Holding, Held
<1>2. Starting' = Starting
  BY DEF Starting
<1>3. QED
  BY <1>1, <1>2 DEF HoldInv, SeatFree

\* What an action on one task does to the store.
TaskMoves(t) == /\ task' \in [Tasks -> TaskRecord]
                /\ \A u \in Tasks : u # t => task'[u] = task[u]
\* A task that is not granted comes to no seat, and its start goes on or is cancelled.
Quiet(t) == /\ TaskMoves(t)
            /\ task'[t].state \in Held => task[t].state \in Held
            /\ Starting /\ t = tick.task =>
                  /\ task[t].state = "cancelled" => task'[t].state = "cancelled"
                  /\ task[t].state = "leased" => task'[t].state \in {"leased", "cancelled"}

\* The state of a task is set, the rest of its record stays.
LEMMA SetIs ==
    ASSUME TypeInv, NEW t \in Tasks,
           NEW s \in {"pending", "reported", "refused", "asking", "blocked", "completed",
                      "cancelled"}, Set(t, s)
    PROVE  /\ TaskMoves(t) /\ task'[t].state = s /\ task'[t].attempt = task[t].attempt
           /\ task'[t].widened = task[t].widened /\ task'[t].pr = task[t].pr
           /\ task'[t].head = task[t].head
<1>1. task \in [Tasks -> TaskRecord]
  BY DEF TypeInv
<1>2. task[t] \in TaskRecord
  BY <1>1
<1> DEFINE x == [task[t] EXCEPT !.state = s]
<1>3. /\ x \in TaskRecord /\ x.state = s /\ x.attempt = task[t].attempt
      /\ x.widened = task[t].widened /\ x.pr = task[t].pr /\ x.head = task[t].head
  BY <1>2 DEF TaskRecord
<1>4. task' = [task EXCEPT ![t] = x]
  BY DEF Set
<1> HIDE DEF x
<1>5. task'[t] = x /\ TaskMoves(t)
  BY <1>1, <1>3, <1>4 DEF TaskMoves
<1>6. QED
  BY <1>3, <1>5

\* Widen changes the record of its task.
LEMMA WidenIs ==
    ASSUME TypeInv, NEW t \in Tasks, Widen(t)
    PROVE  /\ TaskMoves(t)
           /\ \/ /\ task[t].state = "refused" /\ task'[t].state = "reported"
                 /\ task'[t].attempt = task[t].attempt + 1
              \/ /\ task[t].state = "asking" /\ task'[t].state = "pending"
                 /\ task'[t].attempt = task[t].attempt
           /\ task'[t].widened = TRUE /\ task'[t].pr = task[t].pr
           /\ task'[t].head = task[t].head
           /\ UNCHANGED <<marker, ended, ledger, tree, forge, run, tick, lock>>
<1>1. task \in [Tasks -> TaskRecord]
  BY DEF TypeInv
<1>2. task[t] \in TaskRecord
  BY <1>1
<1>3. CASE task[t].state = "refused"
  <2>0. PICK k \in Nat : k = task[t].attempt + 1
    BY <1>2 DEF TaskRecord
  <2> DEFINE x == [task[t] EXCEPT !.state = "reported", !.attempt = k, !.widened = TRUE]
  <2>1. /\ x \in TaskRecord /\ x.state = "reported" /\ x.attempt = task[t].attempt + 1
        /\ x.widened = TRUE /\ x.pr = task[t].pr /\ x.head = task[t].head
    BY <1>2, <2>0 DEF TaskRecord
  <2>2. task' = [task EXCEPT ![t] = x]
    BY <1>3, <2>0 DEF Widen
  <2> HIDE DEF x
  <2>3. task'[t] = x /\ TaskMoves(t)
    BY <1>1, <2>1, <2>2 DEF TaskMoves
  <2>4. QED
    BY <1>3, <2>1, <2>3 DEF Widen
<1>4. CASE task[t].state = "asking"
  <2> DEFINE x == [task[t] EXCEPT !.state = "pending", !.widened = TRUE]
  <2>1. /\ x \in TaskRecord /\ x.state = "pending" /\ x.attempt = task[t].attempt
        /\ x.widened = TRUE /\ x.pr = task[t].pr /\ x.head = task[t].head
    BY <1>2 DEF TaskRecord
  <2>2. task' = [task EXCEPT ![t] = x]
    BY <1>4 DEF Widen
  <2> HIDE DEF x
  <2>3. task'[t] = x /\ TaskMoves(t)
    BY <1>1, <2>1, <2>2 DEF TaskMoves
  <2>4. QED
    BY <1>4, <2>1, <2>3 DEF Widen
<1>5. QED
  BY <1>3, <1>4 DEF Widen

\* An attempt ends, and is the one the seat ended last.
LEMMA EndIs ==
    ASSUME TypeInv, NEW t \in Tasks, NEW s \in {"pending", "asking", "blocked", "cancelled"},
           End(t, s)
    PROVE  /\ TaskMoves(t) /\ task'[t].state = s /\ task'[t].attempt = task[t].attempt
           /\ task'[t].widened = task[t].widened /\ task'[t].pr = task[t].pr
           /\ task'[t].head = task[t].head
           /\ ended' = <<t, task[t].attempt>> /\ ended' \in (Tasks \cup {None}) \X Nat
<1>1. task[t].attempt \in Nat
  BY DEF TypeInv, TaskRecord
<1>2. QED
  BY <1>1, SetIs DEF End

\* The steps that change the record of a task and what ended last, nothing else.
TaskStep(t) == Done(t) \/ Fail(t) \/ AskWiden(t) \/ Widen(t) \/ Reset(t) \/ Cancel(t)

\* What the seat and the lead do to the record of a task.
LEMMA TaskStepIs ==
    ASSUME TypeInv, NEW t \in Tasks, TaskStep(t)
    PROVE  /\ TaskMoves(t) /\ Quiet(t)
           /\ task'[t].pr = task[t].pr /\ task'[t].head = task[t].head
           /\ task[t].widened => task'[t].widened
           /\ ended' \in (Tasks \cup {None}) \X Nat
           /\ \/ /\ task'[t].attempt = task[t].attempt
                 /\ task'[t].state \notin {"leased", "refused"}
                 /\ task'[t].state \in Held => task[t].state = "leased"
                 /\ \/ ended' = <<t, task[t].attempt>> /\ task[t].state \in Held
                    \/ ended' = ended /\ (task[t].state \in Held
                                            => task[t].state = "refused"
                                               \/ task'[t].state = "reported")
              \/ /\ task[t].state = "refused" /\ task'[t].state = "reported"
                 /\ task'[t].attempt = task[t].attempt + 1 /\ ended' = ended
           /\ UNCHANGED <<marker, ledger, tree, forge, run, tick, lock>>
<1>1. ended \in (Tasks \cup {None}) \X Nat /\ task[t].attempt \in Nat
  BY DEF TypeInv, TaskRecord
<1>2. CASE Done(t)
  <2>1. Set(t, "reported")
    BY <1>2 DEF Done
  <2>2. TaskMoves(t) /\ task'[t].state = "reported" /\ task'[t].attempt = task[t].attempt
        /\ task'[t].widened = task[t].widened /\ task'[t].pr = task[t].pr
        /\ task'[t].head = task[t].head
    BY <2>1, SetIs
  <2>3. QED
    BY <1>1, <1>2, <2>2 DEF Done, Works, Quiet, Held
<1>3. CASE Fail(t)
  <2>1. End(t, "pending")
    BY <1>3 DEF Fail
  <2>2. QED
    BY <1>3, <2>1, EndIs DEF Fail, Quiet, Held
<1>4. CASE AskWiden(t)
  <2>1. End(t, "asking")
    BY <1>4 DEF AskWiden
  <2>2. QED
    BY <1>4, <2>1, EndIs DEF AskWiden, Works, Quiet, Held
<1>5. CASE Widen(t)
  BY <1>1, <1>5, WidenIs DEF Quiet, Held
<1>6. CASE Reset(t)
  <2>1. Set(t, "pending")
    BY <1>6 DEF Reset
  <2>2. TaskMoves(t) /\ task'[t].state = "pending" /\ task'[t].attempt = task[t].attempt
        /\ task'[t].widened = task[t].widened /\ task'[t].pr = task[t].pr
        /\ task'[t].head = task[t].head
    BY <2>1, SetIs
  <2>3. QED
    BY <1>1, <1>6, <2>2 DEF Reset, Quiet, Held
<1>7. CASE Cancel(t)
  <2>1. CASE task[t].state # "refused"
    <3>1. End(t, "cancelled")
      BY <1>7, <2>1 DEF Cancel
    <3>2. QED
      BY <1>7, <3>1, EndIs DEF Cancel, Quiet, Held
  <2>2. CASE task[t].state = "refused"
    <3>1. Set(t, "cancelled") /\ ended' = ended
      BY <1>7, <2>2 DEF Cancel
    <3>2. TaskMoves(t) /\ task'[t].state = "cancelled" /\ task'[t].attempt = task[t].attempt
          /\ task'[t].widened = task[t].widened /\ task'[t].pr = task[t].pr
          /\ task'[t].head = task[t].head
      BY <3>1, SetIs
    <3>3. QED
      BY <1>1, <1>7, <2>2, <3>1, <3>2 DEF Cancel, Quiet, Held
  <2>3. QED
    BY <2>1, <2>2
<1>8. QED
  BY <1>2, <1>3, <1>4, <1>5, <1>6, <1>7 DEF TaskStep

\* Apply, and the step an idle runner is asked for, change no more than this.
LEMMA ApplyIs ==
    ASSUME TypeInv, NEW r \in Runners, Apply(r)
    PROVE  LET t == run[r].task IN
           /\ t \in Tasks /\ Moves(r) /\ run'[r] = Idle /\ run[r].at = "decided"
           /\ TaskMoves(t) /\ Quiet(t)
           /\ task'[t].attempt = task[t].attempt
           /\ task'[t].widened = task[t].widened
           /\ \/ task' = task /\ ended' = ended
              \/ /\ task[t].state = "reported" /\ task'[t].state \in {"completed", "refused"}
                 /\ \/ task'[t].pr = task[t].pr /\ task'[t].head = task[t].head
                    \/ task'[t].pr = run[r].pr /\ task'[t].head = run[r].commit
                 /\ ended' = <<t, task[t].attempt>>
           /\ ended' \in (Tasks \cup {None}) \X Nat
           /\ UNCHANGED <<marker, ledger, tree, forge, tick, lock, used>>
<1> DEFINE t == run[r].task
<1>1. task \in [Tasks -> TaskRecord] /\ run \in [Runners -> Running]
      /\ run[r].at = "decided"
      /\ ended \in (Tasks \cup {None}) \X Nat
  BY DEF TypeInv, Apply
<1>2. t \in Tasks
  BY <1>1 DEF TypeInv
<1>3. task[t] \in TaskRecord /\ run[r] \in Running
  BY <1>1, <1>2
<1>4. run[r].pr \in Nat /\ run[r].commit \in Nat /\ run[r].ok \in BOOLEAN
  BY <1>3 DEF Running
<1>5. Moves(r) /\ run'[r] = Idle
  BY RunIdles DEF Apply
<1>6. UNCHANGED <<marker, ledger, tree, forge, tick, lock, used>>
  BY DEF Apply
<1>7. CASE task[t].state = "reported"
  <2> DEFINE bound == run[r].ok /\ run[r].pr # 0
             s == IF run[r].ok THEN "completed" ELSE "refused"
             i == IF bound THEN run[r].pr ELSE task[t].pr
             c == IF bound THEN run[r].commit ELSE task[t].head
             x == [task[t] EXCEPT !.state = s, !.pr = i, !.head = c]
  <2>1. s \in {"completed", "refused"}
    OBVIOUS
  <2>2. i \in Nat /\ c \in Nat /\ (\/ i = run[r].pr /\ c = run[r].commit
                                   \/ i = task[t].pr /\ c = task[t].head)
    <3>1. CASE bound
      BY <1>4, <3>1
    <3>2. CASE ~bound
      BY <1>3, <3>2 DEF TaskRecord
    <3>3. QED
      BY <3>1, <3>2
  <2>3. task' = [task EXCEPT ![t] = x] /\ ended' = <<t, task[t].attempt>>
    BY <1>7 DEF Apply
  <2> HIDE DEF s, i, c, bound
  <2>4. x \in TaskRecord /\ x.state = s /\ x.attempt = task[t].attempt
        /\ x.widened = task[t].widened /\ x.pr = i /\ x.head = c
    BY <1>3, <2>1, <2>2 DEF TaskRecord
  <2> HIDE DEF x
  <2>5. task'[t] = x /\ TaskMoves(t)
    BY <1>1, <1>2, <2>3, <2>4 DEF TaskMoves
  <2>6. Quiet(t)
    BY <1>7, <2>5 DEF Quiet, Held
  <2>7. task[t].attempt \in Nat
    BY <1>3 DEF TaskRecord
  <2>8. QED
    BY <1>1, <1>2, <1>5, <1>6, <1>7, <2>1, <2>2, <2>3, <2>4, <2>5, <2>6, <2>7
<1>8. CASE task[t].state # "reported"
  <2>1. task' = task /\ ended' = ended
    BY <1>8 DEF Apply
  <2>2. QED
    BY <1>1, <1>2, <1>5, <1>6, <2>1 DEF TaskMoves, Quiet
<1>9. QED
  BY <1>7, <1>8

\* A step of the seat or the lead on one task keeps the control part of the invariant.
LEMMA QuietHolds ==
    ASSUME TypeInv, HoldInv, NEW t \in Tasks, Quiet(t), tick' = tick, head' \in {head, None}
    PROVE  HoldInv'
<1>1. \A u \in Tasks : task'[u].state \in Held => task[u].state \in Held
  BY DEF Quiet, TaskMoves
<1>2. ASSUME Starting
      PROVE  /\ task[tick.task].state = "cancelled" => task'[tick.task].state = "cancelled"
             /\ task[tick.task].state = "leased"
                   => task'[tick.task].state \in {"leased", "cancelled"}
  <2>1. tick.task \in Tasks
    BY <1>2 DEF TypeInv
  <2>2. QED
    BY <1>2, <2>1 DEF Quiet, TaskMoves
<1>3. QED
  BY <1>1, <1>2, HoldKept

\* The steps of the seat and the lead keep the control part.
LEMMA TaskStepControl ==
    ASSUME Control, NEW t \in Tasks, TaskStep(t)
    PROVE  Control'
<1>1. TypeInv /\ LockInv /\ LedgerInv /\ HeadInv /\ HoldInv
  BY DEF Control
<1>2. /\ TaskMoves(t) /\ Quiet(t) /\ ended' \in (Tasks \cup {None}) \X Nat
      /\ UNCHANGED <<ledger, files, head, remote, prs, run, tick, lock>>
  BY <1>1, TaskStepIs DEF tree, forge
<1>3. TypeInv'
  BY <1>1, <1>2 DEF TypeInv, TaskMoves, Starting
<1>4. LockInv'
  BY <1>1, <1>2 DEF LockInv
<1>5. LedgerInv'
  BY <1>1, <1>2 DEF LedgerInv, Known, CommitOf, Leased
<1>6. HeadInv'
  BY <1>1, <1>2 DEF HeadInv, HeadKnown, KnownBranch, Leased
<1>7. HoldInv'
  BY <1>1, <1>2, QuietHolds
<1>8. QED
  BY <1>3, <1>4, <1>5, <1>6, <1>7 DEF Control

\* So does the result of a step, applied on the task as it is by then.
LEMMA ApplyControl ==
    ASSUME Control, NEW r \in Runners, Apply(r)
    PROVE  Control'
<1>1. TypeInv /\ LockInv /\ LedgerInv /\ HeadInv /\ HoldInv
  BY DEF Control
<1> DEFINE t == run[r].task
<1>2. /\ t \in Tasks /\ TaskMoves(t) /\ Quiet(t) /\ ended' \in (Tasks \cup {None}) \X Nat
      /\ Moves(r) /\ run'[r].at = "idle"
      /\ UNCHANGED <<ledger, files, head, remote, prs, tick, lock>>
  BY <1>1, ApplyIs, IdlesTyped DEF tree, forge
<1> HIDE DEF t
<1>3. TypeInv'
  BY <1>1, <1>2 DEF TypeInv, TaskMoves, Moves, Others, Starting
<1>4. LockInv'
  BY <1>1, <1>2, LockMoves DEF Stepping
<1>5. LedgerInv'
  BY <1>1, <1>2, LedgerMoves
<1>6. HeadInv'
  BY <1>1, <1>2, HeadMoves
<1>7. HoldInv'
  BY <1>1, <1>2, QuietHolds
<1>8. QED
  BY <1>3, <1>4, <1>5, <1>6, <1>7 DEF Control

\* A file of the worktree is written by the task the seat holds.
LEMMA EditIs ==
    ASSUME TypeInv, NEW t \in Tasks, NEW p \in Paths, Edit(t, p)
    PROVE  /\ files' \in Tree /\ \A q \in Paths : q # p => files'[q] = files[q]
           /\ files'[p].by = t
           /\ \/ task[t].state = "leased" /\ ~Starting /\ ~files'[p].late
              \/ task[t].state = "reported" /\ files'[p].late
           /\ UNCHANGED <<store, ledger, head, forge, run, tick, lock>>
<1>1. files \in Tree /\ task[t] \in TaskRecord
  BY DEF TypeInv
<1> DEFINE x == [by |-> t, n |-> task[t].attempt, late |-> task[t].state = "reported"]
<1>2. x \in Content /\ x.by = t /\ x.late = (task[t].state = "reported")
  BY <1>1 DEF Content, TaskRecord
<1>3. files' = [files EXCEPT ![p] = x]
  BY DEF Edit
<1> HIDE DEF x
<1>4. files' \in Tree /\ files'[p] = x /\ \A q \in Paths : q # p => files'[q] = files[q]
  BY <1>1, <1>2, <1>3 DEF Tree
<1>5. UNCHANGED <<store, ledger, head, forge, run, tick, lock>>
  BY DEF Edit
<1>6. CASE Works(t)
  <2>1. task[t].state = "leased" /\ ~Starting
    BY <1>6 DEF Works
  <2>2. ~files'[p].late
    BY <1>2, <1>4, <2>1
  <2>3. QED
    BY <1>2, <1>4, <1>5, <2>1, <2>2
<1>7. CASE ~Works(t)
  <2>1. task[t].state = "reported"
    BY <1>7 DEF Edit
  <2>2. files'[p].late
    BY <1>2, <1>4, <2>1
  <2>3. QED
    BY <1>2, <1>4, <1>5, <2>1, <2>2
<1>8. QED
  BY <1>6, <1>7

\* Steps that leave the store, the seat's ledger, HEAD, the thread and the lock alone.
Still == UNCHANGED <<task, ended, ledger, head, tick, lock>>

\* They keep the control part.
LEMMA StillControl ==
    ASSUME Control, Still, run' = run, files' \in Tree, remote' \in [Tasks -> Nat],
           prs' \in Seq(PullRequest)
    PROVE  Control'
<1>1. TypeInv /\ LockInv /\ LedgerInv /\ HeadInv /\ HoldInv
  BY DEF Control
<1>2. TypeInv'
  BY <1>1 DEF TypeInv, Still, Starting
<1>3. LockInv'
  BY <1>1 DEF LockInv, Still
<1>4. LedgerInv'
  BY <1>1 DEF LedgerInv, Known, CommitOf, Leased, Still
<1>5. HeadInv'
  BY <1>1 DEF HeadInv, HeadKnown, KnownBranch, Leased, Still
<1>6. HoldInv'
  BY <1>1 DEF HoldInv, Holding, SeatFree, Starting, Still
<1>7. QED
  BY <1>2, <1>3, <1>4, <1>5, <1>6 DEF Control

\* A file written keeps the control part.
LEMMA EditControl ==
    ASSUME Control, NEW t \in Tasks, NEW p \in Paths, Edit(t, p)
    PROVE  Control'
<1>1. TypeInv
  BY DEF Control
<1>2. /\ files' \in Tree /\ Still /\ run' = run /\ remote' = remote /\ prs' = prs
  BY <1>1, EditIs DEF Still, store, forge
<1>3. QED
  BY <1>1, <1>2, StillControl DEF TypeInv

\* Outside steps change the open PRs only: a new one, or the head one of them shows.
LEMMA OutsideIs ==
    ASSUME TypeInv, Outside
    PROVE  /\ prs' \in Seq(PullRequest) /\ Len(prs') >= Len(prs) /\ Len(prs) \in Nat
           /\ \A i \in DOMAIN prs : i \in DOMAIN prs' /\ prs'[i].branch = prs[i].branch
           /\ UNCHANGED <<task, marker, ended, ledger, files, head, remote, run, tick, lock>>
<1>1. prs \in Seq(PullRequest) /\ remote \in [Tasks -> Nat]
  BY DEF TypeInv
<1>2. ASSUME NEW t \in Tasks, StrangerOpensPR(t)
      PROVE  /\ prs' \in Seq(PullRequest) /\ Len(prs') >= Len(prs) /\ Len(prs) \in Nat
             /\ \A i \in DOMAIN prs : i \in DOMAIN prs' /\ prs'[i].branch = prs[i].branch
             /\ UNCHANGED <<task, marker, ended, ledger, files, head, remote, run, tick, lock>>
  <2>1. NewPR(t) \in PullRequest
    BY <1>1 DEF NewPR, PullRequest
  <2>2. prs' = Append(prs, NewPR(t))
    BY <1>2 DEF StrangerOpensPR
  <2>3. UNCHANGED <<task, marker, ended, ledger, files, head, remote, run, tick, lock>>
    BY <1>2 DEF StrangerOpensPR, store, tree
  <2>4. QED
    BY <1>1, <2>1, <2>2, <2>3
<1>3. ASSUME NEW i \in DOMAIN prs, ForgeCatchesUp(i)
      PROVE  /\ prs' \in Seq(PullRequest) /\ Len(prs') >= Len(prs) /\ Len(prs) \in Nat
             /\ \A k \in DOMAIN prs : k \in DOMAIN prs' /\ prs'[k].branch = prs[k].branch
             /\ UNCHANGED <<task, marker, ended, ledger, files, head, remote, run, tick, lock>>
  <2>1. prs[i] \in PullRequest /\ DOMAIN prs = 1 .. Len(prs) /\ Len(prs) \in Nat
    BY <1>1
  <2> DEFINE x == [prs[i] EXCEPT !.head = remote[prs[i].branch]]
  <2>2. x \in PullRequest /\ x.branch = prs[i].branch
    BY <1>1, <2>1 DEF PullRequest
  <2>3. prs' = [prs EXCEPT ![i] = x]
    BY <1>3 DEF ForgeCatchesUp
  <2> HIDE DEF x
  <2>4. prs' \in Seq(PullRequest) /\ DOMAIN prs' = DOMAIN prs /\ Len(prs') = Len(prs)
        /\ prs'[i] = x /\ \A k \in DOMAIN prs : k # i => prs'[k] = prs[k]
    BY <1>1, <2>1, <2>2, <2>3
  <2>5. UNCHANGED <<task, marker, ended, ledger, files, head, remote, run, tick, lock>>
    BY <1>3 DEF ForgeCatchesUp, store, tree
  <2>6. QED
    BY <2>1, <2>2, <2>4, <2>5
<1>4. QED
  BY <1>2, <1>3 DEF Outside

\* What happens on the forge keeps the control part.
LEMMA OutsideControl ==
    ASSUME Control, Outside
    PROVE  Control'
<1>1. TypeInv
  BY DEF Control
<1>2. Still /\ UNCHANGED <<run, files, remote>> /\ prs' \in Seq(PullRequest)
  BY <1>1, OutsideIs DEF Still
<1>3. QED
  BY <1>1, <1>2, StillControl DEF TypeInv

\* A runner's step that leaves the store, the ledger, the worktree and the thread alone.
RunOnly(r) == /\ Moves(r) /\ UNCHANGED <<task, ended, ledger, files, head, tick>>
              /\ run'[r].at \in Stepping => lock' = r
              /\ lock' = lock \/ (lock \in {r, None} /\ lock' \in {r, None})
              /\ run'[r].at # "forget"

\* It keeps the control part if the commit it works on is known.
LEMMA RunOnlyControl ==
    ASSUME Control, NEW r \in Runners, RunOnly(r),
           run'[r].at \in {"prcheck", "verify", "commit"} => Known(run'[r].parent),
           run'[r].at \in {"push", "mark", "openpr", "bind"}
              => CommitOf(run'[r].task, run'[r].commit),
           remote' \in [Tasks -> Nat], prs' \in Seq(PullRequest)
    PROVE  Control'
<1>1. TypeInv /\ LockInv /\ LedgerInv /\ HeadInv /\ HoldInv
  BY DEF Control
<1>2. /\ Moves(r) /\ UNCHANGED <<task, ended, ledger, files, head, tick>>
      /\ run'[r].at \in Stepping => lock' = r
      /\ lock' = lock \/ (lock \in {r, None} /\ lock' \in {r, None})
      /\ run'[r].at # "forget"
  BY DEF RunOnly
<1>3. TypeInv'
  BY <1>1, <1>2 DEF TypeInv, Moves, Others, Starting
<1>4. LockInv'
  BY <1>1, <1>2, LockMoves
<1>5. LedgerInv'
  BY <1>1, <1>2, LedgerMoves
<1>6. HeadInv'
  BY <1>1, <1>2, HeadMoves
<1>7. HoldInv'
  BY <1>1, <1>2 DEF HoldInv, Holding, SeatFree, Starting
<1>8. QED
  BY <1>3, <1>4, <1>5, <1>6, <1>7 DEF Control

\* The caller asks a step for the report it read.
LEMMA AskIs ==
    ASSUME TypeInv, NEW r \in Runners, NEW t \in Tasks, Ask(r, t)
    PROVE  /\ RunOnly(r) /\ run'[r].at = "lock" /\ run'[r].task = t
           /\ run'[r].attempt = task[t].attempt /\ task[t].state = "reported"
           /\ run'[r].pr = 0
           /\ UNCHANGED <<marker, remote, prs, used>>
<1>1. run \in [Runners -> Running] /\ task[t].attempt \in Nat
  BY DEF TypeInv, TaskRecord
<1> DEFINE x == [Idle EXCEPT !.at = "lock", !.task = t, !.attempt = task[t].attempt]
<1>2. x \in Running /\ x.at = "lock" /\ x.task = t /\ x.attempt = task[t].attempt /\ x.pr = 0
  BY <1>1, IdlesTyped DEF Running
<1>3. run' = [run EXCEPT ![r] = x]
  BY DEF Ask
<1> HIDE DEF x
<1>4. run'[r] = x /\ Moves(r)
  BY <1>1, <1>2, <1>3 DEF Moves, Others
<1>5. QED
  BY <1>2, <1>4 DEF Ask, store, tree, forge, RunOnly, Stepping

\* A refusal, or the end of a step, from a step that holds the lock or finds it free.
LEMMA DecideOnly ==
    ASSUME TypeInv, LockInv, NEW r \in Runners, NEW ok \in BOOLEAN, Decide(r, ok),
           run[r].at \in Stepping \/ (run[r].at = "lock" /\ lock = None),
           UNCHANGED <<task, ended, ledger, files, head, tick>>
    PROVE  /\ RunOnly(r) /\ run'[r].at = "decided" /\ run'[r].task = run[r].task
           /\ run'[r].commit = run[r].commit /\ run'[r].pr = run[r].pr
<1>1. run[r].at # "idle" /\ lock \in {r, None}
  BY DEF LockInv, Stepping
<1>2. /\ Moves(r) /\ run'[r].at = "decided" /\ run'[r].task = run[r].task
      /\ run'[r].commit = run[r].commit /\ run'[r].pr = run[r].pr
      /\ lock' = None
  BY <1>1, RunDecides
<1>3. QED
  BY <1>1, <1>2 DEF RunOnly, Stepping

\* A step within the lock goes on.
LEMMA ToOnly ==
    ASSUME TypeInv, LockInv, NEW r \in Runners, NEW a \in Stepping \ {"forget"}, To(r, a),
           run[r].at \in Stepping, UNCHANGED <<task, ended, ledger, files, head, tick, lock>>
    PROVE  /\ RunOnly(r) /\ run'[r].at = a
           /\ run'[r].task = run[r].task /\ run'[r].attempt = run[r].attempt
           /\ run'[r].own = run[r].own /\ run'[r].parent = run[r].parent
           /\ run'[r].tree = run[r].tree /\ run'[r].commit = run[r].commit
           /\ run'[r].pr = run[r].pr
<1>1. run[r].at # "idle" /\ lock = r
  BY DEF LockInv, Stepping
<1>2. QED
  BY <1>1, RunTo DEF RunOnly

\* The commit a snapshot is compared with is known.
LEMMA ParentKnown ==
    ASSUME TypeInv, LedgerInv
    PROVE  Known(Parent) /\ Parent \in Nat
<1>1. Known(Parent)
  BY RestIs DEF Parent, LedgerInv
<1>2. QED
  BY <1>1, CommitsTyped DEF Known

\* The commit a commit of the ledger is built on is known too.
LEMMA BuiltOnKnown ==
    ASSUME TypeInv, LedgerInv, NEW i \in DOMAIN ledger.commits
    PROVE  Known(ledger.commits[i].parent) /\ ledger.commits[i].parent \in Nat /\ i \in Nat
           /\ ledger.commits[i].parent < Id(i)
<1>1. i \in 1 .. Len(ledger.commits) /\ Len(ledger.commits) \in Nat
  BY CommitsTyped
<1>2. ledger.commits[i].parent \in 1 .. i + 1
  BY DEF LedgerInv
<1>3. QED
  BY <1>1, <1>2 DEF Known, Id

\* What the step works on: the recorded commit with nothing new on it, or the worktree.
LEMMA SnapshotIs ==
    ASSUME TypeInv, LockInv, LedgerInv, NEW r \in Runners, Snapshot(r)
    PROVE  LET t == run[r].task  i == TaskCommitAt(t)  R == run'[r] IN
           /\ run[r].at = "lock" /\ lock = None /\ t \in Tasks
           /\ RunOnly(r) /\ R.task = t /\ R.pr = run[r].pr /\ R.commit = run[r].commit
           /\ UNCHANGED <<marker, remote, prs, used>>
           /\ \/ R.at = "decided"
              \/ /\ R.at = "prcheck" /\ R.attempt = run[r].attempt
                 /\ lock' = r
                 /\ R.own => head = t
                 /\ StartsTask(t)
                 /\ Diff(R) \subseteq Allowed(t)
                 /\ Known(R.parent)
                 /\ \/ /\ i # 0 /\ files = TreeOf(Parent) /\ (Leased => Id(i) = Parent)
                       /\ R.parent = ledger.commits[i].parent /\ R.tree = ledger.commits[i].tree
                    \/ R.parent = Parent /\ R.tree = files
<1> DEFINE t == run[r].task
           i == TaskCommitAt(t)
           again == Again(t, files)
           from == IF again THEN ledger.commits[i].parent ELSE Parent
           snap == IF again THEN ledger.commits[i].tree ELSE files
           o == head = t
<1>1. run[r].at = "lock" /\ lock = None
      /\ UNCHANGED <<task, ended, ledger, files, head, tick, marker, remote, prs, used>>
  BY DEF Snapshot, store, tree, forge
<1>2. t \in Tasks /\ run \in [Runners -> Running] /\ files \in Tree
  BY <1>1 DEF TypeInv
<1>3. run[r] \in Running
  BY <1>2
<1>4. /\ from \in Nat /\ Known(from) /\ snap \in Tree
      /\ \/ /\ i # 0 /\ files = TreeOf(Parent) /\ (Leased => Id(i) = Parent)
            /\ from = ledger.commits[i].parent /\ snap = ledger.commits[i].tree
         \/ from = Parent /\ snap = files
  <2>1. CASE again
    <3>1. i # 0 /\ files = TreeOf(Parent) /\ (Leased => Id(i) = Parent)
      BY <2>1 DEF Again
    <3>2. i \in DOMAIN ledger.commits
      BY <3>1, TaskCommitAtIs
    <3>3. ledger.commits[i].tree \in Tree
      BY <3>2, CommitsTyped DEF CommitRecord
    <3>4. QED
      BY <2>1, <3>1, <3>2, <3>3, BuiltOnKnown
  <2>2. CASE ~again
    BY <1>2, <2>2, ParentKnown
  <2>3. QED
    BY <2>1, <2>2
<1>5. o \in BOOLEAN
  OBVIOUS
<1> DEFINE y == [run[r] EXCEPT !.parent = from, !.tree = snap, !.own = o]
           x == [y EXCEPT !.at = "prcheck"]
<1>6. CASE StartsTask(t) /\ Changed(TreeOf(from), snap) \subseteq Allowed(t)
  <2>1. lock' = r /\ run' = [run EXCEPT ![r] = x]
    BY <1>6 DEF Snapshot
  <2> HIDE DEF from, snap, o
  <2>2. x \in Running /\ x.at = "prcheck" /\ x.parent = from /\ x.tree = snap /\ x.own = o
        /\ x.task = t /\ x.attempt = run[r].attempt /\ x.pr = run[r].pr
        /\ x.commit = run[r].commit
    BY <1>3, <1>4, <1>5 DEF Running, Stepping
  <2> HIDE DEF x
  <2>3. run'[r] = x /\ Moves(r)
    BY <1>2, <2>1, <2>2 DEF Moves, Others
  <2>4. RunOnly(r)
    BY <1>1, <2>1, <2>2, <2>3 DEF RunOnly
  <2>5. Diff(x) \subseteq Allowed(t)
    BY <1>6, <2>2 DEF Diff
  <2>6. x.own => head = t
    BY <2>2 DEF o
  <2>7. QED
    BY <1>1, <1>2, <1>4, <1>6, <2>1, <2>2, <2>3, <2>4, <2>5, <2>6
<1>7. CASE ~(StartsTask(t) /\ Changed(TreeOf(from), snap) \subseteq Allowed(t))
  <2>1. Decide(r, FALSE)
    BY <1>7 DEF Snapshot, Refuse
  <2>2. QED
    BY <1>1, <1>2, <2>1, DecideOnly
<1>8. QED
  BY <1>6, <1>7

\* The snapshot keeps the control part.
LEMMA SnapshotControl ==
    ASSUME Control, NEW r \in Runners, Snapshot(r)
    PROVE  Control'
<1>1. TypeInv /\ LockInv /\ LedgerInv /\ HeadInv /\ HoldInv
  BY DEF Control
<1>2. RunOnly(r) /\ UNCHANGED <<remote, prs>>
      /\ \/ run'[r].at = "decided"
         \/ run'[r].at = "prcheck" /\ Known(run'[r].parent)
  BY <1>1, SnapshotIs
<1>3. QED
  BY <1>1, <1>2, RunOnlyControl DEF TypeInv

\* The steps that only look: the open PRs of the branch, the verifier's verdict.
LEMMA LookIs ==
    ASSUME TypeInv, LockInv, NEW r \in Runners, PRCheck(r) \/ Verify(r)
    PROVE  /\ run[r].at \in {"prcheck", "verify"} /\ run[r].task \in Tasks
           /\ RunOnly(r) /\ run'[r].task = run[r].task /\ run'[r].pr = run[r].pr
           /\ run'[r].commit = run[r].commit
           /\ UNCHANGED <<marker, remote, prs, used>>
           /\ \/ run'[r].at = "decided"
              \/ /\ run'[r].at \in {"verify", "commit"} /\ run'[r].attempt = run[r].attempt
                 /\ run'[r].own = run[r].own /\ run'[r].parent = run[r].parent
                 /\ run'[r].tree = run[r].tree
<1>1. /\ run[r].at \in {"prcheck", "verify"} /\ run[r].at \in Stepping
      /\ UNCHANGED <<task, ended, ledger, files, head, tick, marker, remote, prs, used>>
  BY DEF PRCheck, Verify, store, tree, forge, Stepping
<1>2. \/ Decide(r, FALSE)
      \/ To(r, "verify") /\ lock' = lock
      \/ To(r, "commit") /\ lock' = lock
  BY DEF PRCheck, Verify, Refuse
<1>3. run[r].task \in Tasks
  BY <1>1 DEF TypeInv
<1>4. CASE Decide(r, FALSE)
  BY <1>1, <1>3, <1>4, DecideOnly
<1>5. CASE To(r, "verify") /\ lock' = lock
  <2>1. "verify" \in Stepping \ {"forget"}
    BY DEF Stepping
  <2>2. QED
    BY <1>1, <1>3, <1>5, <2>1, ToOnly
<1>6. CASE To(r, "commit") /\ lock' = lock
  <2>1. "commit" \in Stepping \ {"forget"}
    BY DEF Stepping
  <2>2. QED
    BY <1>1, <1>3, <1>6, <2>1, ToOnly
<1>7. QED
  BY <1>2, <1>4, <1>5, <1>6

\* So do the steps that only look.
LEMMA LookControl ==
    ASSUME Control, NEW r \in Runners, PRCheck(r) \/ Verify(r)
    PROVE  Control'
<1>1. TypeInv /\ LockInv /\ LedgerInv /\ HeadInv /\ HoldInv
  BY DEF Control
<1>2. run[r].at \in {"prcheck", "verify"} /\ RunOnly(r) /\ UNCHANGED <<remote, prs, ledger>>
      /\ \/ run'[r].at = "decided"
         \/ run'[r].at \in {"verify", "commit"} /\ run'[r].parent = run[r].parent
  BY <1>1, LookIs DEF RunOnly
<1>3. Known(run[r].parent)
  BY <1>1, <1>2 DEF LedgerInv
<1>4. QED
  BY <1>1, <1>2, <1>3, RunOnlyControl DEF TypeInv

\* The commit step, when it finds its diff recorded, may not append, or has nothing to commit.
LEMMA CommitTo ==
    ASSUME TypeInv, LockInv, NEW r \in Runners, run[r].at = "commit", NEW c \in Nat,
           NEW a \in {"push", "openpr"},
           run' = [run EXCEPT ![r].commit = c, ![r].own = FALSE, ![r].parent = 0, ![r].at = a],
           lock' = lock
    PROVE  /\ Moves(r) /\ run'[r].at = a /\ run'[r].commit = c /\ lock' = r
           /\ run'[r].task = run[r].task /\ run'[r].attempt = run[r].attempt
           /\ run'[r].tree = run[r].tree /\ run'[r].pr = run[r].pr /\ run'[r].own = FALSE
<1>1. run \in [Runners -> Running] /\ run[r].task \in Tasks
  BY DEF TypeInv
<1>2. run[r] \in Running
  BY <1>1
<1> DEFINE x == [run[r] EXCEPT !.commit = c, !.own = FALSE, !.parent = 0, !.at = a]
<1>3. x \in Running /\ x.at = a /\ x.commit = c /\ x.task = run[r].task
      /\ x.attempt = run[r].attempt /\ x.tree = run[r].tree /\ x.pr = run[r].pr
      /\ x.own = FALSE
  BY <1>2 DEF Running, Stepping
<1> DEFINE f == [run EXCEPT ![r].commit = c, ![r].own = FALSE, ![r].parent = 0, ![r].at = a]
<1>4. /\ run' = f /\ DOMAIN f = Runners /\ f = [q \in Runners |-> f[q]]
      /\ \A q \in Runners : q # r => f[q] = run[q]
  BY <1>1
<1>5. f[r] = x
  BY <1>1
<1> HIDE DEF x, f
<1>6. \A q \in Runners : f[q] \in Running
  BY <1>1, <1>3, <1>4, <1>5
<1>7. f \in [Runners -> Running]
  BY <1>4, <1>6
<1>8. run'[r] = x /\ Moves(r)
  BY <1>1, <1>3, <1>4, <1>5, <1>7 DEF Moves, Others
<1>9. QED
  BY <1>3, <1>8 DEF LockInv, Stepping

\* The commit found recorded is of this task, on this diff.
LEMMA RecordedIs ==
    ASSUME TypeInv, NEW r \in Runners, Recorded(r) # 0
    PROVE  LET i == Recorded(r) IN
           /\ i \in DOMAIN ledger.commits /\ ledger.commits[i].task = run[r].task
           /\ ledger.commits[i].parent = run[r].parent /\ ledger.commits[i].tree = run[r].tree
           /\ i \in Nat /\ Id(i) \in Nat /\ Id(i) - 2 = i
<1> DEFINE i == RecordedAt(run[r].parent, run[r].tree)
<1>1. i # 0 /\ ledger.commits[i].task = run[r].task /\ Recorded(r) = i
  BY DEF Recorded
<1>2. i \in DOMAIN ledger.commits /\ ledger.commits[i].parent = run[r].parent
      /\ ledger.commits[i].tree = run[r].tree
  BY <1>1, RecordedAtIs
<1>3. i \in Nat
  BY <1>2, CommitsTyped
<1>4. QED
  BY <1>1, <1>2, <1>3 DEF Id

\* The step finds its diff committed, and goes on from there.
LEMMA CommitAgainIs ==
    ASSUME TypeInv, LockInv, NEW r \in Runners, Commit(r), CommitAgain(r)
    PROVE  LET i == Recorded(r)  R == run'[r] IN
           /\ run[r].at = "commit" /\ run[r].task \in Tasks
           /\ i \in DOMAIN ledger.commits /\ ledger.commits[i].task = run[r].task
           /\ ledger.commits[i].tree = run[r].tree
           /\ RunOnly(r) /\ R.task = run[r].task /\ R.pr = run[r].pr /\ R.tree = run[r].tree
           /\ R.attempt = run[r].attempt /\ R.commit - 2 = i /\ R.commit = Id(i)
           /\ \/ R.at = "push"
              \/ R.at = "openpr" /\ ledger.commits[i].pushed
           /\ UNCHANGED <<marker, remote, prs, used>>
<1> DEFINE i == Recorded(r)
<1>1. run[r].at = "commit"
      /\ UNCHANGED <<task, ended, ledger, files, head, tick, marker, remote, prs, used, lock>>
  BY DEF Commit, CommitAgain, store, tree, forge
<1>2. i \in DOMAIN ledger.commits /\ ledger.commits[i].task = run[r].task
      /\ ledger.commits[i].tree = run[r].tree /\ Id(i) \in Nat /\ Id(i) - 2 = i
  BY RecordedIs DEF CommitAgain
<1>3. run[r].task \in Tasks
  BY <1>1 DEF TypeInv
<1> DEFINE a == IF ledger.commits[i].pushed THEN "openpr" ELSE "push"
<1>4. a \in {"push", "openpr"} /\ (a = "push" \/ ledger.commits[i].pushed)
  OBVIOUS
<1>5. run' = [run EXCEPT ![r].commit = Id(i), ![r].own = FALSE, ![r].parent = 0, ![r].at = a]
  BY DEF CommitAgain
<1> HIDE DEF a, i
<1> DEFINE c == Id(i)
<1> HIDE DEF c
<1>6. c = Id(i) /\ c \in Nat
  BY <1>2 DEF c
<1>7. /\ Moves(r) /\ run'[r].at = a /\ run'[r].commit = c /\ lock' = r
      /\ run'[r].task = run[r].task /\ run'[r].attempt = run[r].attempt
      /\ run'[r].tree = run[r].tree /\ run'[r].pr = run[r].pr
  <2>1. run' = [run EXCEPT ![r].commit = c, ![r].own = FALSE, ![r].parent = 0, ![r].at = a]
    BY <1>5, <1>6
  <2>2. lock' = lock
    BY <1>1
  <2>3. a \in {"push", "openpr"}
    BY <1>4
  <2>4. QED
    BY <1>1, <1>6, <1>4, <2>1, <2>2, <2>3, CommitTo, Zenon
<1>8. RunOnly(r)
  BY <1>1, <1>4, <1>7 DEF RunOnly
<1>9. QED
  BY <1>1, <1>2, <1>3, <1>4, <1>6, <1>7, <1>8 DEF i

\* It keeps the control part.
LEMMA CommitAgainControl ==
    ASSUME Control, NEW r \in Runners, Commit(r), CommitAgain(r)
    PROVE  Control'
<1>1. TypeInv /\ LockInv /\ LedgerInv /\ HeadInv /\ HoldInv
  BY DEF Control
<1>2. CommitOf(run'[r].task, run'[r].commit) /\ RunOnly(r) /\ UNCHANGED <<remote, prs>>
      /\ run'[r].at \in {"push", "openpr"}
  BY <1>1, CommitAgainIs DEF CommitOf
<1>3. QED
  BY <1>1, <1>2, RunOnlyControl DEF TypeInv

\* The step is refused, or has nothing to commit.
LEMMA CommitLessIs ==
    ASSUME TypeInv, LockInv, NEW r \in Runners, Commit(r), CommitElsewhere(r) \/ CommitNothing(r)
    PROVE  /\ run[r].at = "commit" /\ run[r].task \in Tasks
           /\ RunOnly(r) /\ run'[r].task = run[r].task /\ run'[r].pr = run[r].pr
           /\ run'[r].commit = run[r].commit
           /\ UNCHANGED <<marker, remote, prs, used>>
           /\ \/ run'[r].at = "decided"
              \/ /\ run'[r].at = "rest" /\ run'[r].tree = run[r].tree
                 /\ run'[r].attempt = run[r].attempt /\ run[r].tree = TreeOf(run[r].parent)
<1>1. run[r].at = "commit" /\ run[r].at \in Stepping
      /\ UNCHANGED <<task, ended, ledger, files, head, tick, marker, remote, prs, used>>
  BY DEF Commit, CommitElsewhere, CommitNothing, store, tree, forge, Stepping
<1>2. run[r].task \in Tasks
  BY <1>1 DEF TypeInv
<1>3. CASE CommitElsewhere(r)
  BY <1>1, <1>2, <1>3, DecideOnly DEF CommitElsewhere, Refuse
<1>4. CASE CommitNothing(r)
  <2>1. To(r, "rest") /\ lock' = lock /\ "rest" \in Stepping \ {"forget"}
        /\ run[r].tree = TreeOf(run[r].parent)
    BY <1>4 DEF CommitNothing, Stepping, Empty
  <2>2. QED
    BY <1>1, <1>2, <2>1, ToOnly
<1>5. QED
  BY <1>3, <1>4

\* It keeps the control part.
LEMMA CommitLessControl ==
    ASSUME Control, NEW r \in Runners, Commit(r), CommitElsewhere(r) \/ CommitNothing(r)
    PROVE  Control'
<1>1. TypeInv /\ LockInv /\ LedgerInv /\ HeadInv /\ HoldInv
  BY DEF Control
<1>2. RunOnly(r) /\ UNCHANGED <<remote, prs>> /\ run'[r].at \in {"decided", "rest"}
  BY <1>1, CommitLessIs
<1>3. QED
  BY <1>1, <1>2, RunOnlyControl DEF TypeInv

\* A new commit comes last in the ledger.
LEMMA CommitNewIs ==
    ASSUME TypeInv, LockInv, NEW r \in Runners, Commit(r), CommitNew(r)
    PROVE  LET n == Len(ledger.commits)  R == run'[r] IN
           /\ run[r].at = "commit" /\ run[r].task \in Tasks /\ Follows(r)
           /\ n \in Nat /\ ledger' \in Ledger /\ ledger'.lease = ledger.lease
           /\ ledger'.discarded = ledger.discarded
           /\ DOMAIN ledger'.commits = 1 .. n + 1 /\ Len(ledger'.commits) = n + 1
           /\ \A i \in DOMAIN ledger.commits : ledger'.commits[i] = ledger.commits[i]
           /\ ledger'.commits[n + 1] = NewCommit(r)
           /\ Moves(r) /\ lock' = r /\ lock = r
           /\ R.at = "push" /\ R.task = run[r].task /\ R.pr = run[r].pr
           /\ R.tree = run[r].tree /\ R.attempt = run[r].attempt
           /\ R.commit = Id(n + 1) /\ R.commit - 2 = n + 1
           /\ UNCHANGED <<task, marker, ended, files, head, remote, prs, tick, used>>
<1> DEFINE n == Len(ledger.commits)
<1>1. run[r].at = "commit" /\ Follows(r) /\ lock' = lock
      /\ UNCHANGED <<task, marker, ended, files, head, remote, prs, tick, used>>
  BY DEF Commit, CommitNew, store, tree, forge
<1>2. run[r].task \in Tasks /\ run[r] \in Running /\ ledger \in Ledger
  BY <1>1 DEF TypeInv
<1>3. ledger.commits \in Seq(CommitRecord) /\ n \in Nat /\ DOMAIN ledger.commits = 1 .. n
  BY CommitsTyped
<1>4. NewCommit(r) \in CommitRecord
  BY <1>2 DEF NewCommit, CommitRecord, Running
<1> DEFINE cs == Append(ledger.commits, NewCommit(r))
<1>5. /\ cs \in Seq(CommitRecord) /\ Len(cs) = n + 1 /\ DOMAIN cs = 1 .. n + 1
      /\ cs[n + 1] = NewCommit(r)
      /\ \A i \in DOMAIN ledger.commits : cs[i] = ledger.commits[i]
  BY <1>3, <1>4
<1>6. ledger' = [ledger EXCEPT !.commits = cs]
  BY DEF CommitNew
<1> HIDE DEF cs
<1>7. ledger' \in Ledger /\ ledger'.commits = cs /\ ledger'.lease = ledger.lease
      /\ ledger'.discarded = ledger.discarded
  BY <1>2, <1>5, <1>6 DEF Ledger
<1>8. Id(n + 1) \in Nat /\ Id(n + 1) - 2 = n + 1
  BY <1>3 DEF Id
<1>9. run' = [run EXCEPT ![r].commit = Id(n + 1), ![r].own = FALSE, ![r].parent = 0,
                         ![r].at = "push"]
  BY DEF CommitNew
<1>10. /\ Moves(r) /\ run'[r].at = "push" /\ run'[r].commit = Id(n + 1) /\ lock' = r
       /\ run'[r].task = run[r].task /\ run'[r].attempt = run[r].attempt
       /\ run'[r].tree = run[r].tree /\ run'[r].pr = run[r].pr
  BY <1>1, <1>8, <1>9, CommitTo
<1>11. QED
  BY <1>1, <1>2, <1>3, <1>5, <1>7, <1>8, <1>10

\* A new commit keeps the control part.
LEMMA CommitNewControl ==
    ASSUME Control, NEW r \in Runners, Commit(r), CommitNew(r)
    PROVE  Control'
<1>1. TypeInv /\ LockInv /\ LedgerInv /\ HeadInv /\ HoldInv
  BY DEF Control
<1> DEFINE n == Len(ledger.commits)
<1>2. /\ run[r].at = "commit" /\ run[r].task \in Tasks
      /\ n \in Nat /\ ledger' \in Ledger /\ ledger'.lease = ledger.lease
      /\ DOMAIN ledger'.commits = 1 .. n + 1 /\ Len(ledger'.commits) = n + 1
      /\ \A i \in DOMAIN ledger.commits : ledger'.commits[i] = ledger.commits[i]
      /\ ledger'.commits[n + 1] = NewCommit(r)
      /\ Moves(r) /\ lock' = r /\ lock = r
      /\ run'[r].at = "push" /\ run'[r].task = run[r].task
      /\ run'[r].commit - 2 = n + 1
      /\ UNCHANGED <<task, ended, files, head, remote, prs, tick>>
  BY <1>1, CommitNewIs
<1>3. TypeInv'
  BY <1>1, <1>2 DEF TypeInv, Moves, Others, Starting
<1>4. LockInv'
  BY <1>1, <1>2, LockMoves
<1>5. LedgerInv'
  <2>1. \A c : Known(c) => Known(c)'
    BY <1>2 DEF Known
  <2>2. DOMAIN ledger.commits = 1 .. n
    BY <1>1, CommitsTyped
  <2>3. \A t, c : CommitOf(t, c) => CommitOf(t, c)'
    BY <1>2, <2>2 DEF CommitOf
  <2>4. ledger'.commits[n + 1].parent \in 1 .. n + 2 /\ ledger'.commits[n + 1].task = run[r].task
    <3>1. Known(run[r].parent)
      BY <1>1, <1>2 DEF LedgerInv
    <3>2. QED
      BY <1>2, <3>1 DEF Known, NewCommit
  <2>5. ASSUME NEW i \in DOMAIN ledger'.commits PROVE ledger'.commits[i].parent \in 1 .. i + 1
    <3>1. CASE i = n + 1
      BY <1>2, <2>4, <3>1
    <3>2. CASE i # n + 1
      <4>1. i \in 1 .. n
        BY <1>2, <3>2
      <4>2. QED
        BY <1>1, <1>2, <2>2, <4>1 DEF LedgerInv
    <3>3. QED
      BY <3>1, <3>2
  <2>6. Leased' => Known(ledger.lease.start)'
    BY <1>1, <1>2, <2>1 DEF LedgerInv, Leased
  <2>7. ASSUME NEW q \in Runners
        PROVE  /\ run'[q].at \in {"prcheck", "verify", "commit"} => Known(run[q].parent)'
               /\ run'[q].at \in {"push", "mark", "openpr", "bind"}
                     => CommitOf(run[q].task, run[q].commit)'
    <3>1. CASE q = r
      BY <1>2, <2>4, <3>1 DEF CommitOf
    <3>2. CASE q # r
      BY <1>1, <1>2, <2>1, <2>3, <3>2 DEF LedgerInv, Moves, Others
    <3>3. QED
      BY <3>1, <3>2
  <2>8. QED
    BY <2>5, <2>6, <2>7 DEF LedgerInv
<1>6. HeadInv'
  BY <1>1, <1>2, HeadMoves
<1>7. HoldInv'
  BY <1>1, <1>2 DEF HoldInv, Holding, SeatFree, Starting
<1>8. QED
  BY <1>3, <1>4, <1>5, <1>6, <1>7 DEF Control

\* The push fast-forwards the branch, or the step is refused.
LEMMA PushIs ==
    ASSUME TypeInv, LockInv, NEW r \in Runners, Push(r)
    PROVE  LET t == run[r].task  c == run[r].commit IN
           /\ run[r].at = "push" /\ t \in Tasks
           /\ RunOnly(r) /\ run'[r].task = t /\ run'[r].pr = run[r].pr /\ run'[r].commit = c
           /\ remote' \in [Tasks -> Nat] /\ UNCHANGED <<marker, prs, used>>
           /\ \/ run'[r].at = "decided" /\ remote' = remote
              \/ /\ run'[r].at = "mark" /\ run'[r].attempt = run[r].attempt
                 /\ run'[r].tree = run[r].tree
                 /\ remote[t] \in Ancestry[c - 2] \cup {0}
                 /\ remote'[t] = c /\ \A u \in Tasks : u # t => remote'[u] = remote[u]
<1> DEFINE t == run[r].task
           c == run[r].commit
<1>1. run[r].at = "push" /\ run[r].at \in Stepping
      /\ UNCHANGED <<task, ended, ledger, files, head, tick, marker, prs, used>>
  BY DEF Push, store, tree, Stepping
<1>2. t \in Tasks /\ run[r] \in Running /\ remote \in [Tasks -> Nat]
  BY <1>1 DEF TypeInv
<1>3. c \in Nat
  BY <1>2 DEF Running
<1>4. CASE remote[t] \in Ancestry[c - 2] \cup {0}
  <2>1. remote' = [remote EXCEPT ![t] = c] /\ To(r, "mark") /\ lock' = lock
    BY <1>4 DEF Push
  <2>2. "mark" \in Stepping \ {"forget"}
    BY DEF Stepping
  <2>3. /\ RunOnly(r) /\ run'[r].at = "mark" /\ run'[r].task = t /\ run'[r].pr = run[r].pr
        /\ run'[r].commit = c /\ run'[r].attempt = run[r].attempt /\ run'[r].tree = run[r].tree
    BY <1>1, <2>1, <2>2, ToOnly
  <2>4. remote' \in [Tasks -> Nat] /\ remote'[t] = c
        /\ \A u \in Tasks : u # t => remote'[u] = remote[u]
    BY <1>2, <1>3, <2>1
  <2>5. QED
    BY <1>1, <1>2, <1>4, <2>3, <2>4
<1>5. CASE remote[t] \notin Ancestry[c - 2] \cup {0}
  <2>1. Decide(r, FALSE) /\ remote' = remote
    BY <1>5 DEF Push, Refuse
  <2>2. QED
    BY <1>1, <1>2, <2>1, DecideOnly
<1>6. QED
  BY <1>4, <1>5

\* The push keeps the control part.
LEMMA PushControl ==
    ASSUME Control, NEW r \in Runners, Push(r)
    PROVE  Control'
<1>1. TypeInv /\ LockInv /\ LedgerInv /\ HeadInv /\ HoldInv
  BY DEF Control
<1>2. RunOnly(r) /\ remote' \in [Tasks -> Nat] /\ prs' = prs /\ run'[r].at \in {"decided", "mark"}
      /\ run'[r].task = run[r].task /\ run'[r].commit = run[r].commit /\ run[r].at = "push"
  BY <1>1, PushIs
<1>3. CommitOf(run'[r].task, run'[r].commit)
  BY <1>1, <1>2 DEF LedgerInv
<1>4. QED
  BY <1>1, <1>2, <1>3, RunOnlyControl DEF TypeInv

\* The ledger's commit is marked pushed.
LEMMA MarkIs ==
    ASSUME TypeInv, LockInv, LedgerInv, NEW r \in Runners, MarkPushed(r)
    PROVE  LET k == run[r].commit - 2 IN
           /\ run[r].at = "mark" /\ run[r].task \in Tasks
           /\ k \in DOMAIN ledger.commits /\ ledger.commits[k].task = run[r].task
           /\ ledger' \in Ledger /\ ledger'.lease = ledger.lease
           /\ ledger'.discarded = ledger.discarded
           /\ DOMAIN ledger'.commits = DOMAIN ledger.commits
           /\ Len(ledger'.commits) = Len(ledger.commits)
           /\ \A i \in DOMAIN ledger.commits : i # k => ledger'.commits[i] = ledger.commits[i]
           /\ ledger'.commits[k].task = ledger.commits[k].task
           /\ ledger'.commits[k].parent = ledger.commits[k].parent
           /\ ledger'.commits[k].tree = ledger.commits[k].tree
           /\ ledger'.commits[k].own = ledger.commits[k].own
           /\ Moves(r) /\ lock' = r /\ lock = r /\ run'[r].at = "openpr"
           /\ run'[r].task = run[r].task /\ run'[r].pr = run[r].pr
           /\ run'[r].commit = run[r].commit /\ run'[r].tree = run[r].tree
           /\ run'[r].attempt = run[r].attempt
           /\ UNCHANGED <<task, marker, ended, files, head, remote, prs, tick, used>>
<1> DEFINE k == run[r].commit - 2
<1>1. run[r].at = "mark" /\ To(r, "openpr") /\ lock' = lock
      /\ UNCHANGED <<task, marker, ended, files, head, remote, prs, tick, used>>
  BY DEF MarkPushed, store, tree, forge
<1>2. run[r].task \in Tasks /\ ledger \in Ledger
  BY <1>1 DEF TypeInv
<1>3. k \in DOMAIN ledger.commits /\ ledger.commits[k].task = run[r].task
  BY <1>1 DEF LedgerInv, CommitOf
<1>4. ledger.commits \in Seq(CommitRecord) /\ ledger.commits[k] \in CommitRecord
  BY <1>3, CommitsTyped
<1> DEFINE x == [ledger.commits[k] EXCEPT !.pushed = TRUE]
           cs == [ledger.commits EXCEPT ![k] = x]
<1>5. /\ x \in CommitRecord /\ x.task = ledger.commits[k].task
      /\ x.parent = ledger.commits[k].parent /\ x.tree = ledger.commits[k].tree
      /\ x.own = ledger.commits[k].own
  BY <1>4 DEF CommitRecord
<1>6. ledger' = [ledger EXCEPT !.commits = cs]
  BY DEF MarkPushed
<1> HIDE DEF x
<1>7. /\ cs \in Seq(CommitRecord) /\ Len(cs) = Len(ledger.commits)
      /\ DOMAIN cs = DOMAIN ledger.commits /\ cs[k] = x
      /\ \A i \in DOMAIN ledger.commits : i # k => cs[i] = ledger.commits[i]
  BY <1>3, <1>4, <1>5
<1> HIDE DEF cs, k
<1>8. ledger' \in Ledger /\ ledger'.commits = cs /\ ledger'.lease = ledger.lease
      /\ ledger'.discarded = ledger.discarded
  BY <1>2, <1>6, <1>7 DEF Ledger
<1>9. lock = r
  BY <1>1 DEF LockInv, Stepping
<1>10. /\ Moves(r) /\ run'[r].at = "openpr" /\ run'[r].task = run[r].task
       /\ run'[r].pr = run[r].pr /\ run'[r].commit = run[r].commit /\ run'[r].tree = run[r].tree
       /\ run'[r].attempt = run[r].attempt
  BY <1>1, RunTo DEF Stepping
<1>11. QED
  BY <1>1, <1>2, <1>3, <1>5, <1>7, <1>8, <1>9, <1>10 DEF k

\* The mark keeps the control part.
LEMMA MarkControl ==
    ASSUME Control, NEW r \in Runners, MarkPushed(r)
    PROVE  Control'
<1>1. TypeInv /\ LockInv /\ LedgerInv /\ HeadInv /\ HoldInv
  BY DEF Control
<1> DEFINE k == run[r].commit - 2
<1>2. /\ run[r].at = "mark" /\ k \in DOMAIN ledger.commits
      /\ ledger.commits[k].task = run[r].task
      /\ ledger' \in Ledger /\ ledger'.lease = ledger.lease
      /\ DOMAIN ledger'.commits = DOMAIN ledger.commits
      /\ Len(ledger'.commits) = Len(ledger.commits)
      /\ \A i \in DOMAIN ledger.commits : i # k => ledger'.commits[i] = ledger.commits[i]
      /\ ledger'.commits[k].task = ledger.commits[k].task
      /\ ledger'.commits[k].parent = ledger.commits[k].parent
      /\ Moves(r) /\ lock' = r /\ lock = r /\ run'[r].at = "openpr"
      /\ run'[r].task = run[r].task /\ run'[r].commit = run[r].commit
      /\ UNCHANGED <<task, ended, files, head, remote, prs, tick>>
  BY <1>1, MarkIs
<1>3. TypeInv'
  BY <1>1, <1>2 DEF TypeInv, Moves, Others, Starting
<1>4. LockInv'
  BY <1>1, <1>2, LockMoves
<1>5. LedgerInv'
  <2>1. \A c : Known(c)' <=> Known(c)
    BY <1>2 DEF Known
  <2>2. \A i \in DOMAIN ledger.commits : /\ ledger'.commits[i].task = ledger.commits[i].task
                                         /\ ledger'.commits[i].parent = ledger.commits[i].parent
    BY <1>2
  <2>3. \A t, c : CommitOf(t, c) => CommitOf(t, c)'
    BY <1>2, <2>2 DEF CommitOf
  <2>4. \A i \in DOMAIN ledger'.commits : ledger'.commits[i].parent \in 1 .. i + 1
    BY <1>1, <1>2, <2>2 DEF LedgerInv
  <2>5. ASSUME NEW q \in Runners
        PROVE  /\ run'[q].at \in {"prcheck", "verify", "commit"} => Known(run[q].parent)'
               /\ run'[q].at \in {"push", "mark", "openpr", "bind"}
                     => CommitOf(run[q].task, run[q].commit)'
    <3>1. CASE q = r
      BY <1>1, <1>2, <2>3, <3>1 DEF LedgerInv
    <3>2. CASE q # r
      BY <1>1, <1>2, <2>1, <2>3, <3>2 DEF LedgerInv, Moves, Others
    <3>3. QED
      BY <3>1, <3>2
  <2>6. Leased' => Known(ledger.lease.start)'
    BY <1>1, <1>2, <2>1 DEF LedgerInv, Leased
  <2>7. QED
    BY <2>4, <2>5, <2>6 DEF LedgerInv
<1>6. HeadInv'
  BY <1>1, <1>2, HeadMoves
<1>7. HoldInv'
  BY <1>1, <1>2 DEF HoldInv, Holding, SeatFree, Starting
<1>8. QED
  BY <1>3, <1>4, <1>5, <1>6, <1>7 DEF Control

\* The step refuses a branch another PR is on, adopts its own PR, or opens one.
LEMMA OpenPRIs ==
    ASSUME TypeInv, LockInv, NEW r \in Runners, OpenPR(r)
    PROVE  LET t == run[r].task  R == run'[r] IN
           /\ run[r].at = "openpr" /\ t \in Tasks /\ RunOnly(r) /\ R.task = t
           /\ R.commit = run[r].commit
           /\ prs' \in Seq(PullRequest) /\ DOMAIN prs \subseteq DOMAIN prs'
           /\ \A k \in DOMAIN prs : prs'[k] = prs[k]
           /\ UNCHANGED <<marker, remote>>
           /\ \/ R.at = "decided" /\ R.pr = run[r].pr
              \/ /\ R.at = "bind" /\ R.tree = run[r].tree /\ R.attempt = run[r].attempt
                 /\ R.pr \in DOMAIN prs' /\ prs'[R.pr].branch = t
<1> DEFINE t == run[r].task
<1>1. run[r].at = "openpr" /\ run[r].at \in Stepping
      /\ UNCHANGED <<task, ended, ledger, files, head, tick, marker, remote>>
  BY DEF OpenPR, store, tree, Stepping
<1>2. t \in Tasks /\ run \in [Runners -> Running] /\ prs \in Seq(PullRequest)
      /\ remote \in [Tasks -> Nat] /\ lock = r
  BY <1>1 DEF TypeInv, LockInv
<1>3. run[r] \in Running /\ DOMAIN prs = 1 .. Len(prs) /\ Len(prs) \in Nat
  BY <1>2
<1>4. CASE Foreign(t) # {} /\ Refuse(r) /\ prs' = prs
  <2>1. Decide(r, FALSE)
    BY <1>4 DEF Refuse
  <2>2. RunOnly(r) /\ run'[r].at = "decided" /\ run'[r].task = run[r].task
           /\ run'[r].commit = run[r].commit /\ run'[r].pr = run[r].pr
    BY <1>1, <2>1, DecideOnly
  <2>3. QED
    BY <1>1, <1>2, <1>4, <2>2
<1>5. ASSUME NEW i \in Nat, run' = [run EXCEPT ![r].at = "bind", ![r].pr = i], lock' = lock
      PROVE  /\ RunOnly(r) /\ run'[r].at = "bind" /\ run'[r].pr = i /\ run'[r].task = t
             /\ run'[r].commit = run[r].commit /\ run'[r].tree = run[r].tree
             /\ run'[r].attempt = run[r].attempt
  <2> DEFINE x == [run[r] EXCEPT !.at = "bind", !.pr = i]
             f == [run EXCEPT ![r].at = "bind", ![r].pr = i]
  <2>1. x \in Running /\ x.at = "bind" /\ x.pr = i /\ x.task = t
        /\ x.commit = run[r].commit /\ x.tree = run[r].tree /\ x.attempt = run[r].attempt
    BY <1>3 DEF Running, Stepping
  <2>2. /\ run' = f /\ DOMAIN f = Runners /\ f = [q \in Runners |-> f[q]]
        /\ \A q \in Runners : q # r => f[q] = run[q]
    BY <1>2, <1>5
  <2>3. f[r] = x
    BY <1>2
  <2> HIDE DEF x, f
  <2>4. \A q \in Runners : f[q] \in Running
    BY <1>2, <2>1, <2>2, <2>3
  <2>5. f \in [Runners -> Running]
    BY <2>2, <2>4
  <2>6. run'[r] = x /\ Moves(r)
    BY <1>2, <2>1, <2>2, <2>3, <2>5 DEF Moves, Others
  <2>7. QED
    BY <1>1, <1>2, <1>5, <2>1, <2>6 DEF RunOnly
<1>6. ASSUME NEW i \in OnBranch(t) \ Foreign(t), prs' = prs, lock' = lock,
             run' = [run EXCEPT ![r].at = "bind", ![r].pr = i]
      PROVE  /\ RunOnly(r) /\ run'[r].at = "bind" /\ run'[r].pr = i /\ run'[r].task = t
             /\ run'[r].commit = run[r].commit /\ run'[r].tree = run[r].tree
             /\ run'[r].attempt = run[r].attempt
             /\ i \in DOMAIN prs /\ prs[i].branch = t
  <2>1. i \in DOMAIN prs /\ prs[i].branch = t /\ i \in Nat
    BY <1>3 DEF OnBranch
  <2>2. QED
    BY <1>5, <1>6, <2>1
<1>7. ASSUME prs' = Append(prs, NewPR(t)), lock' = lock,
             run' = [run EXCEPT ![r].at = "bind", ![r].pr = Len(prs')]
      PROVE  /\ RunOnly(r) /\ run'[r].at = "bind" /\ run'[r].pr = Len(prs') /\ run'[r].task = t
             /\ run'[r].commit = run[r].commit /\ run'[r].tree = run[r].tree
             /\ run'[r].attempt = run[r].attempt
             /\ prs' \in Seq(PullRequest) /\ DOMAIN prs \subseteq DOMAIN prs'
             /\ \A k \in DOMAIN prs : prs'[k] = prs[k]
             /\ Len(prs') \in DOMAIN prs' /\ prs'[Len(prs')].branch = t
  <2>1. NewPR(t) \in PullRequest /\ NewPR(t).branch = t
    BY <1>2 DEF NewPR, PullRequest
  <2>2. /\ prs' \in Seq(PullRequest) /\ DOMAIN prs \subseteq DOMAIN prs'
        /\ \A k \in DOMAIN prs : prs'[k] = prs[k]
        /\ Len(prs') \in DOMAIN prs' /\ prs'[Len(prs')] = NewPR(t) /\ Len(prs') \in Nat
    BY <1>2, <1>3, <1>7, <2>1
  <2>3. QED
    BY <1>5, <1>7, <2>1, <2>2
<1>8. \/ Foreign(t) # {} /\ Refuse(r) /\ prs' = prs
      \/ /\ \E i \in OnBranch(t) \ Foreign(t) : run' = [run EXCEPT ![r].at = "bind", ![r].pr = i]
         /\ prs' = prs /\ lock' = lock
      \/ /\ prs' = Append(prs, NewPR(t)) /\ lock' = lock
         /\ run' = [run EXCEPT ![r].at = "bind", ![r].pr = Len(prs')]
  BY DEF OpenPR
<1>9. QED
  BY <1>1, <1>2, <1>4, <1>6, <1>7, <1>8

\* It keeps the control part.
LEMMA OpenPRControl ==
    ASSUME Control, NEW r \in Runners, OpenPR(r)
    PROVE  Control'
<1>1. TypeInv /\ LockInv /\ LedgerInv /\ HeadInv /\ HoldInv
  BY DEF Control
<1>2. RunOnly(r) /\ remote' = remote /\ prs' \in Seq(PullRequest)
      /\ run'[r].at \in {"decided", "bind"} /\ run'[r].task = run[r].task
      /\ run'[r].commit = run[r].commit /\ run[r].at = "openpr"
  BY <1>1, OpenPRIs
<1>3. CommitOf(run'[r].task, run'[r].commit)
  BY <1>1, <1>2 DEF LedgerInv
<1>4. QED
  BY <1>1, <1>2, <1>3, RunOnlyControl DEF TypeInv

\* The binding: of the PR in the store, and of the task.
LEMMA BindIs ==
    ASSUME TypeInv, LockInv, NEW r \in Runners, BindPR(r)
    PROVE  LET t == run[r].task  i == run[r].pr IN
           /\ run[r].at = "bind" /\ t \in Tasks /\ Moves(r) /\ lock' = r /\ lock = r
           /\ run'[r].at = "rest" /\ run'[r].task = t /\ run'[r].pr = i
           /\ run'[r].commit = run[r].commit /\ run'[r].tree = run[r].tree
           /\ run'[r].attempt = run[r].attempt
           /\ TaskMoves(t) /\ task'[t].state = task[t].state
           /\ task'[t].attempt = task[t].attempt /\ task'[t].widened = task[t].widened
           /\ task'[t].pr = i /\ task'[t].head = run[r].commit
           /\ prs' \in Seq(PullRequest) /\ DOMAIN prs' = DOMAIN prs
           /\ \A k \in DOMAIN prs : prs'[k].branch = prs[k].branch
           /\ UNCHANGED <<marker, ended, ledger, files, head, remote, tick, used>>
<1> DEFINE t == run[r].task
           i == run[r].pr
           c == run[r].commit
<1>1. run[r].at = "bind" /\ To(r, "rest") /\ lock' = lock
      /\ UNCHANGED <<marker, ended, ledger, files, head, remote, tick, used>>
  BY DEF BindPR, tree
<1>2. t \in Tasks /\ task \in [Tasks -> TaskRecord] /\ prs \in Seq(PullRequest) /\ lock = r
      /\ run[r] \in Running
  BY <1>1 DEF TypeInv, LockInv, Stepping
<1>3. i \in Nat /\ c \in Nat /\ task[t] \in TaskRecord
  BY <1>2 DEF Running
<1>4. /\ Moves(r) /\ run'[r].at = "rest" /\ run'[r].task = t /\ run'[r].pr = i
      /\ run'[r].commit = run[r].commit /\ run'[r].tree = run[r].tree
      /\ run'[r].attempt = run[r].attempt
  BY <1>1, RunTo DEF Stepping
<1>5. /\ TaskMoves(t) /\ task'[t].state = task[t].state
      /\ task'[t].attempt = task[t].attempt /\ task'[t].widened = task[t].widened
      /\ task'[t].pr = i /\ task'[t].head = c
  <2> DEFINE x == [task[t] EXCEPT !.pr = i, !.head = c]
             f == [task EXCEPT ![t].pr = i, ![t].head = c]
  <2>1. x \in TaskRecord /\ x.state = task[t].state /\ x.attempt = task[t].attempt
        /\ x.widened = task[t].widened /\ x.pr = i /\ x.head = c
    BY <1>3 DEF TaskRecord
  <2>2. task' = f
    BY DEF BindPR, Bound
  <2>3. /\ DOMAIN f = Tasks /\ f = [q \in Tasks |-> f[q]]
        /\ \A q \in Tasks : q # t => f[q] = task[q]
    BY <1>2
  <2>4. f[t] = x
    BY <1>2
  <2> HIDE DEF x, f, i, c
  <2>5. \A q \in Tasks : f[q] \in TaskRecord
    BY <1>2, <2>1, <2>3, <2>4
  <2>6. f \in [Tasks -> TaskRecord]
    BY <2>3, <2>5
  <2>7. task'[t] = x /\ TaskMoves(t)
    BY <2>2, <2>3, <2>4, <2>6 DEF TaskMoves
  <2>8. QED
    BY <2>1, <2>7
<1>6. /\ prs' \in Seq(PullRequest) /\ DOMAIN prs' = DOMAIN prs
      /\ \A k \in DOMAIN prs : prs'[k].branch = prs[k].branch
  <2> DEFINE x == [prs[i] EXCEPT !.task = t]
  <2>1. prs' = [prs EXCEPT ![i] = x]
    BY DEF BindPR
  <2>2. CASE i \in DOMAIN prs
    <3>1. prs[i] \in PullRequest
      BY <1>2, <2>2
    <3>2. x \in PullRequest /\ x.branch = prs[i].branch
      BY <1>2, <3>1 DEF PullRequest
    <3> HIDE DEF x, i
    <3>3. QED
      BY <1>2, <2>1, <2>2, <3>2
  <2>3. CASE i \notin DOMAIN prs
    <3> HIDE DEF x, i
    <3>1. prs' = prs
      BY <1>2, <2>1, <2>3
    <3>2. QED
      BY <1>2, <3>1
  <2>4. QED
    BY <2>2, <2>3
<1>7. QED
  BY <1>1, <1>2, <1>4, <1>5, <1>6

\* The binding keeps the control part.
LEMMA BindControl ==
    ASSUME Control, NEW r \in Runners, BindPR(r)
    PROVE  Control'
<1>1. TypeInv /\ LockInv /\ LedgerInv /\ HeadInv /\ HoldInv
  BY DEF Control
<1> DEFINE t == run[r].task
<1>2. /\ t \in Tasks /\ Moves(r) /\ lock' = r /\ lock = r
      /\ run'[r].at = "rest"
      /\ TaskMoves(t) /\ task'[t].state = task[t].state
      /\ prs' \in Seq(PullRequest)
      /\ UNCHANGED <<ended, ledger, files, head, remote, tick>>
  BY <1>1, BindIs
<1> HIDE DEF t
<1>3. TypeInv'
  BY <1>1, <1>2 DEF TypeInv, TaskMoves, Moves, Others, Starting
<1>4. LockInv'
  BY <1>1, <1>2, LockMoves
<1>5. LedgerInv'
  BY <1>1, <1>2, LedgerMoves
<1>6. HeadInv'
  BY <1>1, <1>2, HeadMoves
<1>7. Quiet(t)
  BY <1>2 DEF Quiet
<1>8. HoldInv'
  BY <1>1, <1>2, <1>7, QuietHolds
<1>9. QED
  BY <1>3, <1>4, <1>5, <1>6, <1>8 DEF Control

\* A move writes the files of its two trees.
LEMMA MovedIs ==
    ASSUME TypeInv, NEW a, NEW b \in Tree
    PROVE  /\ Moved(a, b) \in Tree
           /\ \A p \in Paths :
                 Moved(a, b)[p] = IF Lacks(a, p) /\ Lacks(b, p) THEN files[p] ELSE b[p]
           /\ \A p \in Paths : Moved(a, b)[p] \in {files[p], b[p]}
  BY DEF TypeInv, Moved, Tree

\* The removal of the untracked files brings paths to rest.
LEMMA SweptIs ==
    ASSUME TypeInv
    PROVE  Swept \in Tree /\ \A p \in Paths : Swept[p] \in {files[p], TreeOf(Rest)[p]}
<1>1. \A p \in Paths : Swept[p] \in {files[p], TreeOf(Rest)[p]}
  BY DEF Swept, Lacks
<1>2. Swept = [p \in Paths |-> Swept[p]]
  BY DEF Swept
<1>3. files \in Tree /\ TreeOf(Rest) \in Tree
  BY RestIs DEF TypeInv
<1>4. \A p \in Paths : Swept[p] \in Content
  BY <1>1, <1>3 DEF Tree
<1>5. QED
  BY <1>1, <1>2, <1>4 DEF Tree

\* The steps of a settle, and those of a clean that move the worktree.
Settling(r) == ResetFiles(r) \/ SweepFiles(r) \/ RestHead(r) \/ SettleStops(r)
Cleanses == ResetSeat \/ SweepSeat \/ RestSeatHead
\* The files go to rest, or stay.
Rests == files' \in Tree /\ \A p \in Paths : files'[p] \in {files[p], TreeOf(Rest)[p]}

\* The settle returns the worktree to rest, or the step ends without.
LEMMA SettleIs ==
    ASSUME TypeInv, LockInv, NEW r \in Runners, Settling(r)
    PROVE  /\ run[r].at \in {"rest", "sweep", "head"} /\ run[r].task \in Tasks
           /\ UNCHANGED <<task, marker, ended, ledger, remote, prs, tick, used>>
           /\ run'[r].task = run[r].task /\ run'[r].pr = run[r].pr
           /\ run'[r].commit = run[r].commit
           /\ \/ RunOnly(r) /\ run'[r].at = "decided"
              \/ /\ Moves(r) /\ run'[r].at \in {"sweep", "head", "forget"}
                 /\ lock' = r /\ lock = r
                 /\ run'[r].tree = run[r].tree /\ run'[r].attempt = run[r].attempt
                 /\ head' \in {head, None} /\ (run'[r].at = "forget" => head' = None)
                 /\ Rests
<1>1. run[r].at \in {"rest", "sweep", "head"} /\ run[r].at \in Stepping
      /\ UNCHANGED <<task, marker, ended, ledger, remote, prs, tick, used>>
  BY DEF Settling, ResetFiles, SweepFiles, RestHead, SettleStops, store, forge, Stepping
<1>2. run[r].task \in Tasks /\ lock = r /\ run[r].at # "idle"
  BY <1>1 DEF TypeInv, LockInv, Stepping
<1>3. CASE SettleStops(r)
  BY <1>1, <1>2, <1>3, DecideOnly DEF SettleStops, tree
<1>4. ASSUME NEW a \in {"sweep", "head", "forget"}, To(r, a)
      PROVE  /\ Moves(r) /\ run'[r].at = a
             /\ run'[r].task = run[r].task /\ run'[r].pr = run[r].pr
             /\ run'[r].commit = run[r].commit
             /\ run'[r].tree = run[r].tree /\ run'[r].attempt = run[r].attempt
  <2>1. a \in {"lock", "decided"} \cup Stepping
    BY DEF Stepping
  <2>2. QED
    BY <1>2, <1>4, <2>1, RunTo
<1>5. CASE ResetFiles(r)
  <2>1. /\ To(r, "sweep") /\ files' = Moved(run[r].tree, TreeOf(Rest))
        /\ UNCHANGED <<head, lock>>
    BY <1>5 DEF ResetFiles
  <2>2. Rests
    BY <2>1, MovedIs, RestIs DEF Rests
  <2>3. QED
    BY <1>1, <1>2, <1>4, <2>1, <2>2
<1>6. CASE SweepFiles(r)
  <2>1. To(r, "head") /\ files' = Swept /\ UNCHANGED <<head, lock>>
    BY <1>6 DEF SweepFiles
  <2>2. Rests
    BY <2>1, SweptIs DEF Rests
  <2>3. QED
    BY <1>1, <1>2, <1>4, <2>1, <2>2
<1>7. CASE RestHead(r)
  <2>1. To(r, "forget") /\ head' = None /\ UNCHANGED <<files, lock>>
    BY <1>7 DEF RestHead
  <2>2. Rests
    BY <2>1 DEF Rests, TypeInv
  <2>3. QED
    BY <1>1, <1>2, <1>4, <2>1, <2>2
<1>8. QED
  BY <1>3, <1>5, <1>6, <1>7 DEF Settling

\* The return to rest keeps the control part.
LEMMA SettleControl ==
    ASSUME Control, NEW r \in Runners, Settling(r)
    PROVE  Control'
<1>1. TypeInv /\ LockInv /\ LedgerInv /\ HeadInv /\ HoldInv
  BY DEF Control
<1>2. CASE RunOnly(r) /\ run'[r].at = "decided"
  <2>1. remote' = remote /\ prs' = prs
    BY <1>1, SettleIs
  <2>2. QED
    BY <1>1, <1>2, <2>1, RunOnlyControl DEF TypeInv
<1>3. CASE ~(RunOnly(r) /\ run'[r].at = "decided")
  <2>1. /\ Moves(r) /\ run'[r].at \in {"sweep", "head", "forget"} /\ lock' = r /\ lock = r
        /\ head' \in {head, None} /\ (run'[r].at = "forget" => head' = None) /\ files' \in Tree
        /\ UNCHANGED <<task, ended, ledger, remote, prs, tick>>
    BY <1>1, <1>3, SettleIs DEF Rests
  <2>2. TypeInv'
    BY <1>1, <2>1 DEF TypeInv, Moves, Others, Starting
  <2>3. LockInv'
    BY <1>1, <2>1, LockMoves
  <2>4. LedgerInv'
    BY <1>1, <2>1, LedgerMoves
  <2>5. \A q \in Runners : q # r => run'[q] = run[q]
    BY <2>1 DEF Moves, Others
  <2>6. HeadInv'
    BY <1>1, <2>1, <2>5 DEF HeadInv, HeadKnown, KnownBranch, Leased
  <2>7. HoldInv'
    BY <1>1, <2>1, HoldKept
  <2>8. QED
    BY <2>2, <2>3, <2>4, <2>6, <2>7 DEF Control
<1>4. QED
  BY <1>2, <1>3

\* The lease's start is cleared, or stays.
LEMMA ForgetIs ==
    ASSUME TypeInv, LockInv, NEW r \in Runners, ForgetLease(r)
    PROVE  /\ run[r].at = "forget" /\ run[r].task \in Tasks /\ lock = r /\ lock' = None
           /\ Moves(r) /\ run'[r].at = "decided" /\ run'[r].task = run[r].task
           /\ run'[r].pr = run[r].pr /\ run'[r].commit = run[r].commit
           /\ ledger' \in Ledger /\ ledger'.commits = ledger.commits
           /\ ledger'.discarded = ledger.discarded
           /\ ledger'.lease \in {ledger.lease, NoLease}
           /\ UNCHANGED <<task, marker, ended, files, head, remote, prs, tick, used>>
<1>1. /\ run[r].at = "forget" /\ Decide(r, TRUE)
      /\ ledger' \in {[ledger EXCEPT !.lease = NoLease], ledger}
      /\ UNCHANGED <<task, marker, ended, files, head, remote, prs, tick, used>>
  BY DEF ForgetLease, store, tree, forge
<1>2. run[r].task \in Tasks /\ lock = r /\ ledger \in Ledger
  BY <1>1 DEF TypeInv, LockInv, Stepping
<1>3. ledger' \in Ledger /\ ledger'.commits = ledger.commits
      /\ ledger'.discarded = ledger.discarded
      /\ ledger'.lease \in {ledger.lease, NoLease}
  BY <1>1, <1>2 DEF Ledger
<1>4. QED
  BY <1>1, <1>2, <1>3, RunDecides

\* The end of a step keeps the control part.
LEMMA ForgetControl ==
    ASSUME Control, NEW r \in Runners, ForgetLease(r)
    PROVE  Control'
<1>1. TypeInv /\ LockInv /\ LedgerInv /\ HeadInv /\ HoldInv
  BY DEF Control
<1>2. /\ run[r].at = "forget" /\ lock = r /\ lock' = None
      /\ Moves(r) /\ run'[r].at = "decided"
      /\ ledger' \in Ledger /\ ledger'.commits = ledger.commits
      /\ ledger'.lease \in {ledger.lease, NoLease}
      /\ UNCHANGED <<task, ended, files, head, remote, prs, tick>>
  BY <1>1, ForgetIs
<1>3. TypeInv'
  BY <1>1, <1>2 DEF TypeInv, Moves, Others, Starting
<1>4. LockInv'
  BY <1>1, <1>2, LockMoves DEF Stepping
<1>5. LedgerInv'
  <2>1. \A c : Known(c)' <=> Known(c)
    BY <1>2 DEF Known
  <2>2. \A q \in Runners : q # r => run'[q] = run[q]
    BY <1>2 DEF Moves, Others
  <2>3. Leased' => Leased /\ ledger'.lease = ledger.lease
    BY <1>2 DEF Leased
  <2>4. QED
    BY <1>1, <1>2, <2>1, <2>2, <2>3 DEF LedgerInv, CommitOf
<1>6. HeadInv'
  <2>1. head = None /\ tick.at \notin {"move", "branch"}
    BY <1>1, <1>2, StepperAlone DEF HeadInv
  <2>2. QED
    BY <1>1, <1>2, <2>1 DEF HeadInv, HeadKnown, KnownBranch, Moves, Others
<1>7. HoldInv'
  BY <1>1, <1>2 DEF HoldInv, Holding, SeatFree, Starting
<1>8. QED
  BY <1>3, <1>4, <1>5, <1>6, <1>7 DEF Control

\* A step that is given up leaves everything as it is.
LEMMA AbandonIs ==
    ASSUME NEW r \in Runners, TypeInv, Abandon(r)
    PROVE  RunOnly(r) /\ run'[r] = Idle /\ UNCHANGED <<marker, remote, prs>>
<1>1. run' = [run EXCEPT ![r] = Idle] /\ lock' = (IF lock = r THEN None ELSE lock)
      /\ UNCHANGED <<task, ended, ledger, files, head, tick, marker, remote, prs>>
  BY DEF Abandon, store, tree, forge
<1>2. QED
  BY <1>1, RunIdles, IdlesTyped DEF RunOnly, Stepping

\* It keeps the control part.
LEMMA AbandonControl ==
    ASSUME Control, NEW r \in Runners, Abandon(r)
    PROVE  Control'
<1>1. TypeInv
  BY DEF Control
<1>2. RunOnly(r) /\ run'[r].at = "idle" /\ UNCHANGED <<remote, prs>>
  BY <1>1, AbandonIs, IdlesTyped
<1>3. QED
  BY <1>1, <1>2, RunOnlyControl DEF TypeInv

\* A step that is asked for keeps the control part.
LEMMA AskControl ==
    ASSUME Control, NEW r \in Runners, NEW t \in Tasks, Ask(r, t)
    PROVE  Control'
<1>1. TypeInv
  BY DEF Control
<1>2. RunOnly(r) /\ run'[r].at = "lock" /\ UNCHANGED <<remote, prs>>
  BY <1>1, AskIs
<1>3. QED
  BY <1>1, <1>2, RunOnlyControl DEF TypeInv

\* The thread goes on to its next line.
LEMMA TickToIs ==
    ASSUME TypeInv, NEW a \in {"release", "move", "branch", "reset", "head", "unlease"}, TickTo(a)
    PROVE  tick' \in Ticking /\ tick'.at = a /\ tick'.task = tick.task /\ tick'.tree = tick.tree
<1>1. tick \in Ticking
  BY DEF TypeInv
<1>2. QED
  BY <1>1 DEF TickTo, Ticking, Cleaning

\* The thread is at a line of a new call.
LEMMA RestingIs ==
    ASSUME NEW a \in {"release", "sweep", "clean_seat", "start"},
           NEW x \in Tasks \cup {None}
    PROVE  /\ [Resting EXCEPT !.at = a] \in Ticking /\ [Resting EXCEPT !.at = a].at = a
           /\ [Resting EXCEPT !.at = a, !.task = x] \in Ticking
           /\ [Resting EXCEPT !.at = a, !.task = x].at = a
           /\ [Resting EXCEPT !.at = a, !.task = x].task = x
<1>1. Resting \in Ticking
  BY IdlesTyped
<1>2. QED
  BY <1>1 DEF Ticking, Cleaning

\* A step of the thread, which has the lock or finds it free, or leaves it alone.
LEMMA ThreadLock ==
    ASSUME LockInv, run' = run,
           lock' = lock \/ lock \in {Thread, None},
           tick'.at \in Cleaning \cup {"move", "branch"} => lock' = Thread
    PROVE  LockInv'
<1>1. CASE lock' = lock
  BY <1>1 DEF LockInv
<1>2. CASE lock \in {Thread, None}
  BY <1>2, ThreadAlone DEF LockInv
<1>3. QED
  BY <1>1, <1>2

\* The clean takes the lock and reserves the seat.
LEMMA ReserveIs ==
    ASSUME TypeInv, ReserveSeat
    PROVE  /\ tick.at = "idle" /\ lock = None /\ SeatFree /\ lock' = Thread /\ marker' = TRUE
           /\ tick' \in Ticking /\ tick'.at = "clean" /\ tick'.tree = files
           /\ UNCHANGED <<task, ended, ledger, files, head, remote, prs, run, used>>
<1>1. tick \in Ticking /\ files \in Tree
  BY DEF TypeInv
<1>2. QED
  BY <1>1 DEF ReserveSeat, Ticking, Cleaning, tree, forge

\* It keeps the control part.
LEMMA ReserveControl ==
    ASSUME Control, ReserveSeat
    PROVE  Control'
<1>1. TypeInv /\ LockInv /\ LedgerInv /\ HeadInv /\ HoldInv
  BY DEF Control
<1>2. /\ tick.at = "idle" /\ lock = None /\ SeatFree /\ lock' = Thread
      /\ tick' \in Ticking /\ tick'.at = "clean" /\ tick'.tree = files
      /\ UNCHANGED <<task, ended, ledger, files, head, remote, prs, run>>
  BY <1>1, ReserveIs
<1>3. TypeInv'
  BY <1>1, <1>2 DEF TypeInv, Starting
<1>4. LockInv'
  BY <1>1, <1>2, ThreadLock
<1>5. LedgerInv'
  BY <1>1, <1>2 DEF LedgerInv, Known, CommitOf, Leased
<1>6. HeadInv'
  BY <1>1, <1>2 DEF HeadInv, HeadKnown, KnownBranch, Leased
<1>7. HoldInv'
  BY <1>1, <1>2 DEF HoldInv, Holding, SeatFree, Starting
<1>8. QED
  BY <1>3, <1>4, <1>5, <1>6, <1>7 DEF Control

\* A record of a stopped tree is added to the ledger.
LEMMA DiscardTyped ==
    ASSUME TypeInv, NEW t \in Tasks \cup {None}, NEW n \in Nat, NEW w \in Tree
    PROVE  /\ Discard(t, n, w) \in Ledger /\ Discard(t, n, w).commits = ledger.commits
           /\ Discard(t, n, w).lease = ledger.lease
           /\ Discard(t, n, w).discarded
                 = ledger.discarded \cup {[task |-> t, attempt |-> n, tree |-> w]}
<1>1. ledger \in Ledger
  BY DEF TypeInv
<1>2. [task |-> t, attempt |-> n, tree |-> w] \in Stopped
  BY DEF Stopped
<1> DEFINE d == ledger.discarded \cup {[task |-> t, attempt |-> n, tree |-> w]}
<1>3. d \in SUBSET Stopped
  BY <1>1, <1>2 DEF Ledger
<1>4. Discard(t, n, w) = [ledger EXCEPT !.discarded = d]
  BY DEF Discard
<1> HIDE DEF d
<1>5. Discard(t, n, w) \in Ledger /\ Discard(t, n, w).commits = ledger.commits
      /\ Discard(t, n, w).lease = ledger.lease /\ Discard(t, n, w).discarded = d
  BY <1>1, <1>3, <1>4 DEF Ledger
<1>6. QED
  BY <1>5 DEF d

\* The leftover is discarded, or is known to the ledger, before it is removed.
LEMMA KeepIs ==
    ASSUME TypeInv, KeepLeftover
    PROVE  /\ tick.at = "clean" /\ KnownBranch /\ tick' \in Ticking
           /\ ledger' \in Ledger /\ ledger'.commits = ledger.commits
           /\ ledger'.lease = ledger.lease
           /\ LET new == [task |-> ended[1], attempt |-> ended[2], tree |-> tick.tree] IN
                 \/ ledger' = ledger /\ (\/ tick.tree = TreeOf(Parent)
                                         \/ RecordedAt(Parent, tick.tree) # 0
                                         \/ DiscardedOf(ended[1], ended[2]))
                 \/ ledger'.discarded = ledger.discarded \cup {new}
           /\ \/ tick'.at = "reset" /\ tick'.tree = tick.tree
              \/ tick'.at = "release" /\ ~Leased /\ head = None /\ tick.tree = TreeOf(Rest)
           /\ UNCHANGED <<task, marker, ended, files, head, remote, prs, run, lock, used>>
<1>1. tick \in Ticking /\ ledger \in Ledger /\ ended \in (Tasks \cup {None}) \X Nat
  BY DEF TypeInv
<1>2. /\ tick.at = "clean" /\ KnownBranch
      /\ UNCHANGED <<task, marker, ended, files, head, remote, prs, run, lock, used>>
  BY DEF KeepLeftover, store, tree, forge
<1> DEFINE w == tick.tree
           discarded == w # TreeOf(Parent) /\ RecordedAt(Parent, w) = 0
           new == [task |-> ended[1], attempt |-> ended[2], tree |-> w]
<1>3. /\ ledger' \in Ledger /\ ledger'.commits = ledger.commits
      /\ ledger'.lease = ledger.lease
      /\ \/ ledger' = ledger /\ (\/ w = TreeOf(Parent)
                                 \/ RecordedAt(Parent, w) # 0
                                 \/ DiscardedOf(ended[1], ended[2]))
         \/ ledger'.discarded = ledger.discarded \cup {new}
  <2>1. CASE discarded /\ ~DiscardedOf(ended[1], ended[2])
    <3>1. ledger' = Discard(ended[1], ended[2], w)
      BY <2>1 DEF KeepLeftover
    <3>2. ended[1] \in Tasks \cup {None} /\ ended[2] \in Nat /\ w \in Tree
      BY <1>1 DEF Ticking
    <3>3. QED
      BY <3>1, <3>2, DiscardTyped
  <2>2. CASE ~(discarded /\ ~DiscardedOf(ended[1], ended[2]))
    <3>1. ledger' = ledger
      BY <2>2 DEF KeepLeftover
    <3>2. QED
      BY <1>1, <2>2, <3>1
  <2>3. QED
    BY <2>1, <2>2
<1>4. /\ tick' \in Ticking
      /\ \/ tick'.at = "reset" /\ tick'.tree = w
         \/ tick'.at = "release" /\ ~Leased /\ head = None /\ w = TreeOf(Rest)
  <2>1. CASE Leased \/ head # None \/ w # TreeOf(Rest)
    <3>1. TickTo("reset")
      BY <2>1 DEF KeepLeftover, TickTo
    <3>2. QED
      BY <3>1, TickToIs
  <2>2. CASE ~(Leased \/ head # None \/ w # TreeOf(Rest))
    <3>1. tick' = [Resting EXCEPT !.at = "release"]
      BY <2>2 DEF KeepLeftover
    <3>2. QED
      BY <2>2, <3>1, RestingIs
  <2>3. QED
    BY <2>1, <2>2
<1>5. QED
  BY <1>2, <1>3, <1>4

\* It keeps the control part.
LEMMA KeepControl ==
    ASSUME Control, KeepLeftover
    PROVE  Control'
<1>1. TypeInv /\ LockInv /\ LedgerInv /\ HeadInv /\ HoldInv
  BY DEF Control
<1>2. /\ tick.at = "clean" /\ tick' \in Ticking
      /\ ledger' \in Ledger /\ ledger'.commits = ledger.commits
      /\ ledger'.lease = ledger.lease
      /\ tick'.at = "reset" \/ (tick'.at = "release" /\ head = None)
      /\ UNCHANGED <<task, ended, files, head, remote, prs, run, lock>>
  BY <1>1, KeepIs
<1>3. TypeInv'
  BY <1>1, <1>2 DEF TypeInv, Starting
<1>4. lock = Thread
  BY <1>1, <1>2 DEF LockInv, Cleaning
<1>5. LockInv'
  BY <1>1, <1>2, <1>4, ThreadLock
<1>6. LedgerInv'
  BY <1>1, <1>2 DEF LedgerInv, Known, CommitOf, Leased
<1>7. HeadInv'
  BY <1>1, <1>2 DEF HeadInv, HeadKnown, KnownBranch, Leased
<1>8. HoldInv'
  BY <1>1, <1>2 DEF HoldInv, Holding, SeatFree, Starting, Cleaning
<1>9. QED
  BY <1>3, <1>5, <1>6, <1>7, <1>8 DEF Control

\* The clean resets the worktree it has looked at, then HEAD.
LEMMA CleanseIs ==
    ASSUME TypeInv, Cleanses
    PROVE  /\ tick.at \in {"reset", "sweep", "head"} /\ tick' \in Ticking
           /\ tick'.at \in {"sweep", "head", "unlease"}
           /\ tick.at = "reset" => files' = Moved(tick.tree, TreeOf(Rest))
           /\ Rests
           /\ head' \in {head, None} /\ (tick'.at = "unlease" => head' = None)
           /\ UNCHANGED <<task, marker, ended, ledger, remote, prs, run, lock, used>>
<1>1. CASE ResetSeat
  <2>1. /\ tick.at = "reset" /\ files' = Moved(tick.tree, TreeOf(Rest))
        /\ tick' \in Ticking /\ tick'.at = "sweep"
        /\ UNCHANGED <<task, marker, ended, ledger, head, remote, prs, run, lock, used>>
    BY <1>1, RestingIs DEF ResetSeat, store, forge
  <2>2. QED
    BY <2>1, MovedIs, RestIs DEF Rests
<1>2. CASE SweepSeat
  <2>1. /\ tick.at = "sweep" /\ files' = Swept /\ tick' \in Ticking /\ tick'.at = "head"
        /\ UNCHANGED <<task, marker, ended, ledger, head, remote, prs, run, lock, used>>
    BY <1>2, TickToIs DEF SweepSeat, store, forge
  <2>2. QED
    BY <2>1, SweptIs DEF Rests
<1>3. CASE RestSeatHead
  <2>1. /\ tick.at = "head" /\ head' = None /\ tick' \in Ticking /\ tick'.at = "unlease"
        /\ UNCHANGED <<task, marker, ended, ledger, files, remote, prs, run, lock, used>>
    BY <1>3, TickToIs DEF RestSeatHead, store, forge
  <2>2. QED
    BY <2>1 DEF Rests, TypeInv
<1>4. QED
  BY <1>1, <1>2, <1>3 DEF Cleanses

\* It keeps the control part.
LEMMA CleanseControl ==
    ASSUME Control, Cleanses
    PROVE  Control'
<1>1. TypeInv /\ LockInv /\ LedgerInv /\ HeadInv /\ HoldInv
  BY DEF Control
<1>2. /\ tick.at \in {"reset", "sweep", "head"} /\ files' \in Tree
      /\ head' \in {head, None} /\ tick' \in Ticking
      /\ tick'.at \in {"sweep", "head", "unlease"} /\ (tick'.at = "unlease" => head' = None)
      /\ UNCHANGED <<task, ended, ledger, remote, prs, run, lock>>
  BY <1>1, CleanseIs DEF Rests
<1>3. TypeInv'
  BY <1>1, <1>2 DEF TypeInv, Starting
<1>4. lock = Thread
  BY <1>1, <1>2 DEF LockInv, Cleaning
<1>5. LockInv'
  BY <1>1, <1>2, <1>4, ThreadLock
<1>6. LedgerInv'
  BY <1>1, <1>2 DEF LedgerInv, Known, CommitOf, Leased
<1>7. HeadInv'
  BY <1>1, <1>2 DEF HeadInv, HeadKnown, KnownBranch, Leased
<1>8. HoldInv'
  BY <1>1, <1>2 DEF HoldInv, Holding, SeatFree, Starting, Cleaning
<1>9. QED
  BY <1>3, <1>5, <1>6, <1>7, <1>8 DEF Control

\* The clean forgets the lease.
LEMMA ClearIs ==
    ASSUME TypeInv, ClearLease
    PROVE  /\ tick.at = "unlease" /\ tick' \in Ticking /\ tick'.at = "release"
           /\ ledger' \in Ledger /\ ledger'.commits = ledger.commits
           /\ ledger'.discarded = ledger.discarded /\ ledger'.lease = NoLease
           /\ UNCHANGED <<task, marker, ended, files, head, remote, prs, run, lock, used>>
<1>1. ledger \in Ledger
  BY DEF TypeInv
<1>2. ledger' \in Ledger /\ ledger'.commits = ledger.commits
      /\ ledger'.discarded = ledger.discarded /\ ledger'.lease = NoLease
  BY <1>1 DEF ClearLease, Ledger
<1>3. QED
  BY <1>2, TickToIs DEF ClearLease, store, tree, forge

\* It keeps the control part.
LEMMA ClearControl ==
    ASSUME Control, ClearLease
    PROVE  Control'
<1>1. TypeInv /\ LockInv /\ LedgerInv /\ HeadInv /\ HoldInv
  BY DEF Control
<1>2. /\ tick.at = "unlease" /\ tick' \in Ticking /\ tick'.at = "release"
      /\ ledger' \in Ledger /\ ledger'.commits = ledger.commits /\ ledger'.lease = NoLease
      /\ UNCHANGED <<task, ended, files, head, remote, prs, run, lock>>
  BY <1>1, ClearIs
<1>3. TypeInv'
  BY <1>1, <1>2 DEF TypeInv, Starting
<1>4. lock = Thread
  BY <1>1, <1>2 DEF LockInv, Cleaning
<1>5. LockInv'
  BY <1>1, <1>2, <1>4, ThreadLock
<1>6. LedgerInv'
  BY <1>1, <1>2 DEF LedgerInv, Known, CommitOf, Leased
<1>7. HeadInv'
  BY <1>1, <1>2 DEF HeadInv, HeadKnown, KnownBranch
<1>8. HoldInv'
  BY <1>1, <1>2 DEF HoldInv, Holding, SeatFree, Starting, Cleaning
<1>9. QED
  BY <1>3, <1>5, <1>6, <1>7, <1>8 DEF Control

\* The clean is over.
LEMMA ReleaseIs ==
    ASSUME TypeInv, ReleaseSeat
    PROVE  /\ tick.at = "release" /\ tick' \in Ticking /\ tick'.at = "clean_seat"
           /\ marker' = FALSE /\ lock' = None
           /\ UNCHANGED <<task, ended, ledger, files, head, remote, prs, run, used>>
  BY RestingIs DEF ReleaseSeat, tree, forge

\* It keeps the control part.
LEMMA ReleaseControl ==
    ASSUME Control, ReleaseSeat
    PROVE  Control'
<1>1. TypeInv /\ LockInv /\ LedgerInv /\ HeadInv /\ HoldInv
  BY DEF Control
<1>2. /\ tick.at = "release" /\ tick' \in Ticking /\ tick'.at = "clean_seat" /\ lock' = None
      /\ UNCHANGED <<task, ended, ledger, files, head, remote, prs, run>>
  BY <1>1, ReleaseIs
<1>3. TypeInv'
  BY <1>1, <1>2 DEF TypeInv, Starting
<1>4. lock = Thread
  BY <1>1, <1>2 DEF LockInv, Cleaning
<1>5. LockInv'
  BY <1>1, <1>2, <1>4, ThreadLock DEF Cleaning
<1>6. LedgerInv'
  BY <1>1, <1>2 DEF LedgerInv, Known, CommitOf, Leased
<1>7. HeadInv'
  BY <1>1, <1>2 DEF HeadInv, HeadKnown, KnownBranch, Leased
<1>8. HoldInv'
  BY <1>1, <1>2 DEF HoldInv, Holding, SeatFree, Starting, Cleaning
<1>9. QED
  BY <1>3, <1>5, <1>6, <1>7, <1>8 DEF Control

\* A task is granted to the seat that was cleaned for it.
LEMMA GrantIs ==
    ASSUME TypeInv, NEW t \in Tasks, Grant(t)
    PROVE  /\ tick.at = "clean_seat" /\ tick' \in Ticking /\ tick'.at = "start"
           /\ tick'.task = t /\ SeatFree /\ task[t].state = "pending"
           /\ TaskMoves(t) /\ task'[t].state = "leased"
           /\ task'[t].attempt = task[t].attempt + 1 /\ task'[t].widened = task[t].widened
           /\ task'[t].pr = task[t].pr /\ task'[t].head = task[t].head
           /\ UNCHANGED <<marker, ended, ledger, files, head, remote, prs, run, lock, used>>
<1>1. task \in [Tasks -> TaskRecord] /\ task[t] \in TaskRecord
  BY DEF TypeInv
<1>2. PICK k \in Nat : k = task[t].attempt + 1
  BY <1>1 DEF TaskRecord
<1> DEFINE x == [task[t] EXCEPT !.state = "leased", !.attempt = k]
           f == [task EXCEPT ![t].state = "leased", ![t].attempt = k]
<1>3. x \in TaskRecord /\ x.state = "leased" /\ x.attempt = k
      /\ x.widened = task[t].widened /\ x.pr = task[t].pr /\ x.head = task[t].head
  BY <1>1 DEF TaskRecord
<1>4. task' = f
  BY <1>1, <1>2 DEF Grant, Take
<1>5. DOMAIN f = Tasks /\ f = [q \in Tasks |-> f[q]] /\ \A q \in Tasks : q # t => f[q] = task[q]
  BY <1>1
<1>6. f[t] = x
  BY <1>1
<1> HIDE DEF x, f
<1>7. \A q \in Tasks : f[q] \in TaskRecord
  BY <1>1, <1>3, <1>5, <1>6
<1>8. f \in [Tasks -> TaskRecord]
  BY <1>5, <1>7
<1>9. task'[t] = x /\ TaskMoves(t)
  BY <1>1, <1>4, <1>5, <1>6, <1>8 DEF TaskMoves
<1>10. /\ tick.at = "clean_seat" /\ SeatFree /\ task[t].state = "pending"
       /\ UNCHANGED <<marker, ended, ledger, files, head, remote, prs, run, lock, used>>
       /\ tick' = [Resting EXCEPT !.at = "start", !.task = t]
  BY DEF Grant, Grantable, tree, forge
<1>11. tick' \in Ticking /\ tick'.at = "start" /\ tick'.task = t
  BY <1>10, RestingIs
<1>12. QED
  BY <1>2, <1>3, <1>9, <1>10, <1>11

\* It keeps the control part.
LEMMA GrantControl ==
    ASSUME Control, NEW t \in Tasks, Grant(t)
    PROVE  Control'
<1>1. TypeInv /\ LockInv /\ LedgerInv /\ HeadInv /\ HoldInv
  BY DEF Control
<1>2. /\ tick.at = "clean_seat" /\ tick' \in Ticking /\ tick'.at = "start"
      /\ tick'.task = t /\ SeatFree
      /\ TaskMoves(t) /\ task'[t].state = "leased"
      /\ UNCHANGED <<ended, ledger, files, head, remote, prs, run, lock>>
  BY <1>1, GrantIs
<1>3. TypeInv'
  BY <1>1, <1>2 DEF TypeInv, Starting, TaskMoves
<1>4. LockInv'
  BY <1>1, <1>2, ThreadLock DEF Cleaning
<1>5. LedgerInv'
  BY <1>1, <1>2 DEF LedgerInv, Known, CommitOf, Leased
<1>6. HeadInv'
  BY <1>1, <1>2 DEF HeadInv, HeadKnown, KnownBranch, Leased
<1>7. HoldInv'
  <2>1. Holding' \subseteq {t}
    BY <1>2 DEF Holding, SeatFree, TaskMoves
  <2>2. head' = None /\ task'[t].state = "leased" /\ tick'.task = t
    BY <1>1, <1>2 DEF HeadInv
  <2>3. QED
    BY <1>2, <2>1, <2>2 DEF HoldInv, Cleaning
<1>8. QED
  BY <1>3, <1>4, <1>5, <1>6, <1>7 DEF Control

\* The stopped tree of a widen request.
LEMMA ArchiveIs ==
    ASSUME TypeInv, NEW t \in Tasks, ArchiveAttempt(t)
    PROVE  /\ tick.at = "idle" /\ task[t].state = "asking"
           /\ ledger' \in Ledger /\ ledger'.commits = ledger.commits
           /\ ledger'.lease = ledger.lease
           /\ ledger'.discarded = ledger.discarded \cup
                 {[task |-> t, attempt |-> task[t].attempt, tree |-> files]}
           /\ UNCHANGED <<task, marker, ended, files, head, remote, prs, run, tick, lock, used>>
<1>1. ledger' = Discard(t, task[t].attempt, files) /\ task[t].attempt \in Nat /\ files \in Tree
  BY DEF ArchiveAttempt, TypeInv, TaskRecord
<1>2. QED
  BY <1>1, DiscardTyped DEF ArchiveAttempt, store, tree, forge

\* It keeps the control part.
LEMMA ArchiveControl ==
    ASSUME Control, NEW t \in Tasks, ArchiveAttempt(t)
    PROVE  Control'
<1>1. TypeInv /\ LockInv /\ LedgerInv /\ HeadInv /\ HoldInv
  BY DEF Control
<1>2. /\ ledger' \in Ledger /\ ledger'.commits = ledger.commits /\ ledger'.lease = ledger.lease
      /\ UNCHANGED <<task, ended, files, head, remote, prs, run, tick, lock>>
  BY <1>1, ArchiveIs
<1>3. TypeInv'
  BY <1>1, <1>2 DEF TypeInv, Starting
<1>4. LockInv'
  BY <1>1, <1>2 DEF LockInv
<1>5. LedgerInv'
  BY <1>1, <1>2 DEF LedgerInv, Known, CommitOf, Leased
<1>6. HeadInv'
  BY <1>1, <1>2 DEF HeadInv, HeadKnown, KnownBranch, Leased
<1>7. HoldInv'
  BY <1>1, <1>2 DEF HoldInv, Holding, SeatFree, Starting
<1>8. QED
  BY <1>3, <1>4, <1>5, <1>6, <1>7 DEF Control

\* The start of a lease is recorded: the task's last commit, or the base.
LEMMA StartIs ==
    ASSUME TypeInv, NEW base \in Bases, StartTask(base)
    PROVE  LET t == tick.task IN
           /\ tick.at = "start" /\ lock = None /\ lock' = Thread /\ t \in Tasks
           /\ StartsTask(t)
           /\ tick' \in Ticking /\ tick'.at = "move" /\ tick'.task = t
           /\ ledger' \in Ledger /\ ledger'.commits = ledger.commits
           /\ ledger'.discarded = ledger.discarded
           /\ ledger'.lease.task = t /\ ledger'.lease # NoLease
           /\ \/ Leased /\ ledger' = ledger
              \/ /\ ~Leased /\ ledger'.lease.start = StartOf(t, base)
                 /\ Known(StartOf(t, base))
           /\ UNCHANGED <<task, marker, ended, files, head, remote, prs, run, used>>
<1> DEFINE t == tick.task
<1>1. /\ tick.at = "start" /\ lock = None /\ lock' = Thread /\ StartsTask(t) /\ TickTo("move")
      /\ UNCHANGED <<task, marker, ended, files, head, remote, prs, run, used>>
  BY DEF StartTask, store, tree, forge
<1>2. t \in Tasks /\ ledger \in Ledger
  BY <1>1 DEF TypeInv, Starting
<1>3. tick' \in Ticking /\ tick'.at = "move" /\ tick'.task = t
  BY <1>1, TickToIs
<1>4. CASE Leased
  BY <1>1, <1>2, <1>3, <1>4 DEF StartTask, StartsTask, Leased
<1>5. CASE ~Leased
  <2> DEFINE s == StartOf(t, base)
             l == [task |-> t, start |-> s]
  <2>1. Known(s) /\ s \in Nat
    <3>1. base \in 1 .. 2 /\ Len(ledger.commits) \in Nat
          /\ DOMAIN ledger.commits = 1 .. Len(ledger.commits)
      BY CommitsTyped DEF Bases
    <3>2. CASE TaskCommitAt(t) = 0
      BY <3>1, <3>2 DEF StartOf, Known
    <3>3. CASE TaskCommitAt(t) # 0
      <4>1. TaskCommitAt(t) \in 1 .. Len(ledger.commits)
        BY <3>1, <3>3, TaskCommitAtIs
      <4>2. s = TaskCommitAt(t) + 2
        BY <3>3 DEF StartOf, Id
      <4>3. QED
        BY <3>1, <4>1, <4>2 DEF Known
    <3>4. QED
      BY <3>2, <3>3
  <2>2. ledger' = [ledger EXCEPT !.lease = l]
    BY <1>5 DEF StartTask
  <2> HIDE DEF s
  <2>3. l \in Lease /\ l # NoLease /\ l.task = t /\ l.start = s
    BY <1>2, <2>1, SeatCommitAssumption DEF Lease, NoLease
  <2> HIDE DEF l
  <2>4. /\ ledger' \in Ledger /\ ledger'.commits = ledger.commits
        /\ ledger'.discarded = ledger.discarded /\ ledger'.lease = l
    BY <1>2, <2>2, <2>3 DEF Ledger
  <2>5. QED
    BY <1>1, <1>2, <1>3, <1>5, <2>1, <2>3, <2>4 DEF s
<1>6. QED
  BY <1>4, <1>5

\* It keeps the control part.
LEMMA StartControl ==
    ASSUME Control, NEW base \in Bases, StartTask(base)
    PROVE  Control'
<1>1. TypeInv /\ LockInv /\ LedgerInv /\ HeadInv /\ HoldInv
  BY DEF Control
<1> DEFINE t == tick.task
<1>2. /\ tick.at = "start" /\ lock = None /\ lock' = Thread /\ t \in Tasks
      /\ tick' \in Ticking /\ tick'.at = "move" /\ tick'.task = t
      /\ ledger' \in Ledger /\ ledger'.commits = ledger.commits
      /\ ledger'.lease.task = t /\ ledger'.lease # NoLease
      /\ \/ Leased /\ ledger' = ledger
         \/ Known(ledger'.lease.start)
      /\ UNCHANGED <<task, ended, files, head, remote, prs, run>>
  BY <1>1, StartIs
<1> HIDE DEF t
<1>3. TypeInv'
  BY <1>1, <1>2 DEF TypeInv, Starting
<1>4. LockInv'
  BY <1>1, <1>2, ThreadLock
<1>5. LedgerInv'
  BY <1>1, <1>2 DEF LedgerInv, Known, CommitOf, Leased
<1>6. head = None
  BY <1>1, <1>2 DEF HeadInv
<1>7. HeadInv'
  BY <1>2, <1>6 DEF HeadInv, HeadKnown, KnownBranch, Leased
<1>8. HoldInv'
  BY <1>1, <1>2 DEF HoldInv, Holding, SeatFree, Starting, Cleaning, t
<1>9. QED
  BY <1>3, <1>4, <1>5, <1>7, <1>8 DEF Control

\* The files of the start of the lease are put in place.
LEMMA MoveIs ==
    ASSUME TypeInv, LedgerInv, HeadInv, MoveFiles
    PROVE  /\ tick.at = "move" /\ tick' \in Ticking /\ tick'.at = "branch"
           /\ tick'.task = tick.task
           /\ TreeOf(ledger.lease.start) \in Tree /\ files' \in Tree
           /\ files' = IF ledger.lease.start = Rest THEN files
                       ELSE Moved(TreeOf(Rest), TreeOf(ledger.lease.start))
           /\ UNCHANGED <<task, marker, ended, ledger, head, remote, prs, run, lock, used>>
<1>1. tick.at = "move" /\ Leased
  BY DEF MoveFiles, HeadInv
<1>2. Known(ledger.lease.start)
  BY <1>1 DEF LedgerInv
<1>3. TreeOf(ledger.lease.start) \in Tree
  BY <1>2, TreeOfTyped
<1>4. files \in Tree /\ Moved(TreeOf(Rest), TreeOf(ledger.lease.start)) \in Tree
  BY <1>3, MovedIs DEF TypeInv
<1>5. QED
  BY <1>1, <1>3, <1>4, TickToIs DEF MoveFiles, store, forge

\* It keeps the control part.
LEMMA MoveControl ==
    ASSUME Control, MoveFiles
    PROVE  Control'
<1>1. TypeInv /\ LockInv /\ LedgerInv /\ HeadInv /\ HoldInv
  BY DEF Control
<1>2. /\ tick.at = "move" /\ tick' \in Ticking /\ tick'.at = "branch"
      /\ tick'.task = tick.task /\ files' \in Tree
      /\ UNCHANGED <<task, ended, ledger, head, remote, prs, run, lock>>
  BY <1>1, MoveIs
<1>3. TypeInv'
  BY <1>1, <1>2 DEF TypeInv, Starting
<1>4. LockInv'
  BY <1>1, <1>2 DEF LockInv
<1>5. LedgerInv'
  BY <1>1, <1>2 DEF LedgerInv, Known, CommitOf, Leased
<1>6. HeadInv'
  BY <1>1, <1>2 DEF HeadInv, HeadKnown, KnownBranch, Leased
<1>7. HoldInv'
  BY <1>1, <1>2 DEF HoldInv, Holding, SeatFree, Starting, Cleaning
<1>8. QED
  BY <1>3, <1>4, <1>5, <1>6, <1>7 DEF Control

\* The seat rung on its branch keeps the control part.
LEMMA RingControl ==
    ASSUME Control, Ring
    PROVE  Control'
<1>1. TypeInv /\ LockInv /\ LedgerInv /\ HeadInv /\ HoldInv
  BY DEF Control
<1>2. /\ tick.at = "branch" /\ head' = tick.task /\ tick' = Resting /\ lock' = None
      /\ UNCHANGED <<task, ended, ledger, files, remote, prs, run>>
  BY DEF Ring, store, forge
<1>3. tick' \in Ticking /\ tick'.at = "idle" /\ tick.task \in Tasks
  BY <1>1, <1>2, IdlesTyped DEF TypeInv, Starting
<1>4. lock = Thread
  BY <1>1, <1>2 DEF LockInv
<1>5. TypeInv'
  BY <1>1, <1>2, <1>3 DEF TypeInv, Starting
<1>6. LockInv'
  BY <1>1, <1>2, <1>3, <1>4, ThreadLock DEF Cleaning
<1>7. LedgerInv'
  BY <1>1, <1>2 DEF LedgerInv, Known, CommitOf, Leased
<1>8. HeadInv'
  <2>1. \A q \in Runners : run[q].at # "forget"
    BY <1>1, <1>4, ThreadAlone DEF Stepping
  <2>2. ledger.lease.task = tick.task
    BY <1>1, <1>2 DEF HeadInv
  <2>3. QED
    BY <1>2, <1>3, <2>1, <2>2 DEF HeadInv, HeadKnown, KnownBranch
<1>9. HoldInv'
  BY <1>1, <1>2, <1>3 DEF HoldInv, Holding, SeatFree, Starting, Cleaning
<1>10. QED
  BY <1>5, <1>6, <1>7, <1>8, <1>9 DEF Control

\* A start that fails blocks its task, if the task still waits for it.
LEMMA UnpreparedIs ==
    ASSUME TypeInv, Unprepared
    PROVE  LET t == tick.task IN
           /\ t \in Tasks /\ Starting /\ tick' = Resting
           /\ lock' = (IF lock = Thread THEN None ELSE lock)
           /\ UNCHANGED <<marker, ledger, files, head, remote, prs, run>>
           /\ ended' \in (Tasks \cup {None}) \X Nat
           /\ TaskMoves(t)
           /\ task'[t].attempt = task[t].attempt
           /\ task'[t].widened = task[t].widened /\ task'[t].pr = task[t].pr
           /\ task'[t].head = task[t].head
           /\ \/ /\ task[t].state = "leased" /\ task'[t].state = "blocked"
                 /\ ended' = <<t, task[t].attempt>>
              \/ task[t].state # "leased" /\ task' = task /\ ended' = ended
<1> DEFINE t == tick.task
<1>1. /\ Starting /\ tick' = Resting
      /\ lock' = (IF lock = Thread THEN None ELSE lock)
      /\ UNCHANGED <<marker, ledger, files, head, remote, prs, run>>
  BY DEF Unprepared, tree, forge
<1>2. t \in Tasks /\ task \in [Tasks -> TaskRecord] /\ ended \in (Tasks \cup {None}) \X Nat
  BY <1>1 DEF TypeInv
<1>3. CASE task[t].state = "leased"
  <2>1. End(t, "blocked")
    BY <1>3 DEF Unprepared
  <2>2. QED
    BY <1>1, <1>2, <1>3, <2>1, EndIs
<1>4. CASE task[t].state # "leased"
  <2>1. task' = task /\ ended' = ended
    BY <1>4 DEF Unprepared
  <2>2. QED
    BY <1>1, <1>2, <1>4, <2>1 DEF TaskMoves
<1>5. QED
  BY <1>3, <1>4

\* The thread gives up: what it was doing is left as it is.
LEMMA ThreadStops ==
    ASSUME Control, tick' = Resting, lock' = (IF lock = Thread THEN None ELSE lock),
           UNCHANGED <<ledger, files, head, remote, prs, run>>,
           task' \in [Tasks -> TaskRecord],
           \A u \in Tasks : task'[u].state \in Held => task[u].state \in Held,
           ended' \in (Tasks \cup {None}) \X Nat
    PROVE  Control'
<1>1. TypeInv /\ LockInv /\ LedgerInv /\ HeadInv /\ HoldInv
  BY DEF Control
<1>2. tick' \in Ticking /\ tick'.at = "idle"
  BY IdlesTyped
<1>3. TypeInv'
  BY <1>1, <1>2 DEF TypeInv, Starting
<1>4. lock' = lock \/ lock \in {Thread, None}
  OBVIOUS
<1>5. LockInv'
  BY <1>1, <1>2, <1>4, ThreadLock DEF Cleaning
<1>6. LedgerInv'
  BY <1>1 DEF LedgerInv, Known, CommitOf, Leased
<1>7. HeadInv'
  BY <1>1, <1>2 DEF HeadInv, HeadKnown, KnownBranch
<1>8. Holding' \subseteq Holding
  BY DEF Holding, Held
<1>9. HoldInv'
  BY <1>1, <1>2, <1>8 DEF HoldInv, Starting, Cleaning
<1>10. QED
  BY <1>3, <1>5, <1>6, <1>7, <1>9 DEF Control

\* A start that fails keeps the control part.
LEMMA UnpreparedControl ==
    ASSUME Control, Unprepared
    PROVE  Control'
<1>1. TypeInv
  BY DEF Control
<1> DEFINE t == tick.task
<1>2. /\ t \in Tasks /\ tick' = Resting
      /\ lock' = (IF lock = Thread THEN None ELSE lock)
      /\ UNCHANGED <<ledger, files, head, remote, prs, run>>
      /\ ended' \in (Tasks \cup {None}) \X Nat /\ TaskMoves(t)
      /\ task'[t].state = "blocked" \/ task' = task
  BY <1>1, UnpreparedIs
<1> HIDE DEF t
<1>3. \A u \in Tasks : task'[u].state \in Held => task[u].state \in Held
  BY <1>2 DEF Held, TaskMoves
<1>4. task' \in [Tasks -> TaskRecord]
  BY <1>2 DEF TaskMoves
<1>5. QED
  BY <1>2, <1>3, <1>4, ThreadStops

\* A thread that dies keeps the control part.
LEMMA TickDiesControl ==
    ASSUME Control, TickDies
    PROVE  Control'
<1>1. TypeInv
  BY DEF Control
<1>2. /\ tick' = Resting /\ lock' = (IF lock = Thread THEN None ELSE lock)
      /\ UNCHANGED <<task, ended, ledger, files, head, remote, prs, run>>
  BY DEF TickDies, store, tree, forge
<1>3. task' \in [Tasks -> TaskRecord] /\ ended' \in (Tasks \cup {None}) \X Nat
  BY <1>1, <1>2 DEF TypeInv
<1>4. QED
  BY <1>2, <1>3, ThreadStops

\* The steps of the specification, one by one.
LEMMA NextIs ==
    ASSUME Next
    PROVE  \/ \E t \in Tasks : \/ \E p \in Paths : Edit(t, p)
                               \/ TaskStep(t) \/ Grant(t) \/ ArchiveAttempt(t)
           \/ \E r \in Runners :
                 \/ \E t \in Tasks : Ask(r, t)
                 \/ Snapshot(r) \/ PRCheck(r) \/ Verify(r)
                 \/ Commit(r) /\ CommitAgain(r)
                 \/ Commit(r) /\ (CommitElsewhere(r) \/ CommitNothing(r))
                 \/ Commit(r) /\ CommitNew(r)
                 \/ Push(r) \/ MarkPushed(r) \/ OpenPR(r) \/ BindPR(r) \/ Settling(r)
                 \/ ForgetLease(r) \/ Abandon(r) \/ Apply(r)
           \/ ReserveSeat \/ KeepLeftover \/ Cleanses \/ ClearLease \/ ReleaseSeat
           \/ \E base \in Bases : StartTask(base)
           \/ MoveFiles \/ Ring \/ Unprepared \/ TickDies \/ Outside
<1>1. ASSUME NEW t \in Tasks, SeatStep(t) \/ LeadStep(t)
      PROVE  (\E p \in Paths : Edit(t, p)) \/ TaskStep(t)
  BY <1>1 DEF SeatStep, LeadStep, TaskStep
<1>2. ASSUME NEW r \in Runners, RunnerStep(r)
      PROVE  \/ \E t \in Tasks : Ask(r, t)
             \/ Snapshot(r) \/ PRCheck(r) \/ Verify(r)
             \/ Commit(r) /\ CommitAgain(r)
             \/ Commit(r) /\ (CommitElsewhere(r) \/ CommitNothing(r))
             \/ Commit(r) /\ CommitNew(r)
             \/ Push(r) \/ MarkPushed(r) \/ OpenPR(r) \/ BindPR(r) \/ Settling(r)
             \/ ForgetLease(r) \/ Abandon(r) \/ Apply(r)
  <2>1. Commit(r) => CommitAgain(r) \/ CommitElsewhere(r) \/ CommitNothing(r) \/ CommitNew(r)
    BY DEF Commit
  <2>2. QED
    BY <1>2, <2>1 DEF RunnerStep, Step, Settling
<1>3. ASSUME ThreadStep
      PROVE  \/ \E t \in Tasks : Grant(t) \/ ArchiveAttempt(t)
             \/ ReserveSeat \/ KeepLeftover \/ Cleanses \/ ClearLease \/ ReleaseSeat
             \/ \E base \in Bases : StartTask(base)
             \/ MoveFiles \/ Ring \/ Unprepared \/ TickDies
  BY <1>3 DEF ThreadStep, Clean, Cleanses
<1>4. CASE \E t \in Tasks : SeatStep(t) \/ LeadStep(t)
  BY <1>1, <1>4
<1>5. CASE \E r \in Runners : RunnerStep(r)
  BY <1>2, <1>5
<1>6. CASE ThreadStep
  BY <1>3, <1>6
<1>7. CASE Outside
  BY <1>7
<1>8. QED
  BY <1>4, <1>5, <1>6, <1>7 DEF Next

\* The control part holds at first.
LEMMA ControlInit ==
    ASSUME Init
    PROVE  Control
<1>1. BaseTree(Rest) \in Tree
  BY BaseTreeIs
<1>2. ledger.commits = << >> /\ ledger.lease = NoLease /\ ledger.discarded = {}
  BY DEF Init
<1>3. TypeInv
  <2>1. task \in [Tasks -> TaskRecord]
    BY DEF Init, TaskRecord
  <2>2. ended \in (Tasks \cup {None}) \X Nat /\ head \in Tasks \cup {None}
    BY DEF Init
  <2>3. ledger \in Ledger
    BY DEF Init, Ledger
  <2>4. files \in Tree /\ remote \in [Tasks -> Nat] /\ prs \in Seq(PullRequest)
    BY <1>1 DEF Init
  <2>5. run \in [Runners -> Running] /\ \A r \in Runners : run[r].at = "idle"
    BY IdlesTyped DEF Init
  <2>6. tick \in Ticking /\ tick.at = "idle"
    BY IdlesTyped DEF Init
  <2>7. QED
    BY <2>1, <2>2, <2>3, <2>4, <2>5, <2>6 DEF TypeInv, Starting
<1>4. \A r \in Runners : run[r].at = "idle"
  BY IdlesTyped DEF Init
<1>5. tick.at = "idle" /\ head = None
  BY IdlesTyped DEF Init
<1>6. Holding = {}
  BY DEF Init, Holding, Held
<1>7. LockInv /\ LedgerInv /\ HeadInv
  BY <1>2, <1>4, <1>5 DEF LockInv, LedgerInv, HeadInv, HeadKnown, KnownBranch, Stepping,
                            Cleaning, Leased
<1>8. HoldInv
  BY <1>5, <1>6 DEF HoldInv, SeatFree, Starting, Cleaning
<1>9. QED
  BY <1>3, <1>7, <1>8 DEF Control

\* The control part is inductive on its own.
LEMMA ControlStep ==
    ASSUME Control, [Next]_vars
    PROVE  Control'
<1>1. CASE Next
  BY <1>1, NextIs, TaskStepControl, EditControl, GrantControl, ArchiveControl, AskControl,
     SnapshotControl, LookControl, CommitAgainControl, CommitLessControl, CommitNewControl,
     PushControl, MarkControl, OpenPRControl, BindControl, SettleControl, ForgetControl,
     AbandonControl, ApplyControl, ReserveControl, KeepControl, CleanseControl,
     ClearControl, ReleaseControl, StartControl, MoveControl, RingControl,
     UnpreparedControl, TickDiesControl, OutsideControl
<1>2. CASE UNCHANGED vars
  <2>1. Still /\ UNCHANGED <<run, files, remote, prs>>
    BY <1>2 DEF vars, store, tree, forge, Still
  <2>2. QED
    BY <2>1, StillControl DEF Control, TypeInv
<1>3. QED
  BY <1>1, <1>2

----------------------------------------------------------------------------
(* The commits of the ledger stay, and with them their trees *)

\* The commits there were are there, the same but for the mark of a push.
SameCommit(i) == /\ ledger'.commits[i].task = ledger.commits[i].task
                 /\ ledger'.commits[i].parent = ledger.commits[i].parent
                 /\ ledger'.commits[i].tree = ledger.commits[i].tree
                 /\ ledger'.commits[i].own = ledger.commits[i].own
Grown == /\ DOMAIN ledger.commits \subseteq DOMAIN ledger'.commits
         /\ Len(ledger.commits) <= Len(ledger'.commits)
         /\ \A i \in DOMAIN ledger.commits : SameCommit(i)

\* A step that leaves the commits alone.
LEMMA KeptCommits ==
    ASSUME TypeInv, ledger'.commits = ledger.commits
    PROVE  Grown
<1>1. Len(ledger.commits) \in Nat
  BY CommitsTyped
<1>2. QED
  BY <1>1 DEF Grown, SameCommit

\* A new commit comes after the others.
LEMMA CommitNewGrows ==
    ASSUME TypeInv, LockInv, NEW r \in Runners, Commit(r), CommitNew(r)
    PROVE  Grown
<1> DEFINE n == Len(ledger.commits)
<1>1. /\ n \in Nat /\ DOMAIN ledger'.commits = 1 .. n + 1 /\ Len(ledger'.commits) = n + 1
      /\ \A i \in DOMAIN ledger.commits : ledger'.commits[i] = ledger.commits[i]
  BY CommitNewIs
<1>2. DOMAIN ledger.commits = 1 .. n
  BY CommitsTyped
<1>3. QED
  BY <1>1, <1>2 DEF Grown, SameCommit

\* The mark changes no more of a commit than that it is pushed.
LEMMA MarkGrows ==
    ASSUME TypeInv, LockInv, LedgerInv, NEW r \in Runners, MarkPushed(r)
    PROVE  Grown /\ DOMAIN ledger'.commits = DOMAIN ledger.commits
<1> DEFINE k == run[r].commit - 2
<1>1. /\ DOMAIN ledger'.commits = DOMAIN ledger.commits
      /\ Len(ledger'.commits) = Len(ledger.commits)
      /\ \A i \in DOMAIN ledger.commits : i # k => ledger'.commits[i] = ledger.commits[i]
      /\ SameCommit(k)
  BY MarkIs DEF SameCommit
<1>2. Len(ledger.commits) \in Nat
  BY CommitsTyped
<1> HIDE DEF k
<1>3. ASSUME NEW i \in DOMAIN ledger.commits PROVE SameCommit(i)
  <2>1. CASE i = k
    BY <1>1, <2>1
  <2>2. CASE i # k
    BY <1>1, <2>2 DEF SameCommit
  <2>3. QED
    BY <2>1, <2>2
<1>4. QED
  BY <1>1, <1>2, <1>3 DEF Grown

\* The tree of a known commit stays.
LEMMA GrownTrees ==
    ASSUME TypeInv, Grown, NEW c, Known(c)
    PROVE  Known(c)' /\ TreeOf(c)' = TreeOf(c)
<1>1. Known(c)'
  <2>1. Len(ledger.commits) \in Nat
    BY CommitsTyped
  <2>2. Len(ledger'.commits) >= Len(ledger.commits)
    BY DEF Grown
  <2>3. CASE Len(ledger'.commits) = Len(ledger.commits)
    BY <2>3 DEF Known
  <2>4. QED
    BY <2>1, <2>2 DEF Known, Grown
<1>2. CASE c \in Bases
  BY <1>1, <1>2 DEF TreeOf
<1>3. CASE c \notin Bases
  <2>1. c - 2 \in DOMAIN ledger.commits
    BY <1>3, KnownIs
  <2>2. QED
    BY <1>1, <1>3, <2>1 DEF TreeOf, Grown, SameCommit
<1>4. QED
  BY <1>2, <1>3

\* The lease a task is on, or is started on, is in the ledger.
LEMMA LeaseKnown ==
    ASSUME Control, head # None \/ tick.at \in {"move", "branch"}
    PROVE  Leased /\ Known(ledger.lease.start)
<1>1. Leased
  <2>1. CASE head # None
    BY <2>1 DEF Control, HeadInv, HeadKnown, KnownBranch, Leased, NoLease
  <2>2. CASE tick.at \in {"move", "branch"}
    BY <2>2 DEF Control, HeadInv
  <2>3. QED
    BY <2>1, <2>2
<1>2. QED
  BY <1>1 DEF Control, LedgerInv

----------------------------------------------------------------------------
(* What is in the worktree *)

\* A step that leaves the worktree, HEAD, the thread and the lease alone.
LEMMA TreeKept ==
    ASSUME Control, TreeInv, Grown, UNCHANGED <<files, head, tick>>,
           ledger'.lease = ledger.lease
    PROVE  TreeInv'
<1>1. TypeInv
  BY DEF Control
<1>2. TreeOf(Rest)' = TreeOf(Rest)
  BY <1>1, RestIs, GrownTrees
<1>3. head # None \/ tick.at \in {"move", "branch"} =>
         TreeOf(ledger.lease.start)' = TreeOf(ledger.lease.start)
  <2>1. head # None \/ tick.at \in {"move", "branch"} => Known(ledger.lease.start)
    BY LeaseKnown
  <2>2. \A c : Known(c) => TreeOf(c)' = TreeOf(c)
    BY <1>1, GrownTrees
  <2>3. \A c : c = ledger.lease.start /\ Known(c) =>
            TreeOf(ledger.lease.start)' = TreeOf(ledger.lease.start)
    BY <2>2 DEF TreeOf
  <2>4. QED
    BY <2>1, <2>3
<1>4. QED
  BY <1>2, <1>3 DEF TreeInv, Changed

\* A file is written while the thread is idle.
LEMMA HeldIdles ==
    ASSUME Control, NEW t \in Tasks, task[t].state \in Held,
           Starting => task[t].state # "leased"
    PROVE  tick.at = "idle" /\ head \in {None, t} /\ Holding = {t}
<1>1. t \in Holding
  BY DEF Holding
<1>2. tick \in Ticking /\ HoldInv
  BY DEF Control, TypeInv
<1>3. tick.at \notin Cleaning \cup {"clean_seat"}
  BY <1>1, <1>2 DEF HoldInv, SeatFree
<1>4. ~Starting
  <2> SUFFICES ASSUME Starting PROVE FALSE
    OBVIOUS
  <2>1. t = tick.task /\ task[tick.task].state \in {"leased", "cancelled"}
    BY <1>1, <1>2 DEF HoldInv
  <2>2. QED
    BY <2>1 DEF Held
<1>5. tick.at = "idle"
  BY <1>2, <1>3, <1>4 DEF Ticking, Starting
<1>6. Holding = {t} /\ head \in {None, t}
  BY <1>1, <1>2 DEF HoldInv
<1>7. QED
  BY <1>5, <1>6

\* A file is written by the task that holds the seat.
LEMMA EditIdles ==
    ASSUME Control, NEW t \in Tasks, NEW p \in Paths, Edit(t, p)
    PROVE  tick.at = "idle" /\ head \in {None, t} /\ Holding = {t}
<1>1. \/ task[t].state = "leased" /\ ~Starting
      \/ task[t].state = "reported"
  BY EditIs DEF Control
<1>2. QED
  BY <1>1, HeldIdles DEF Held

\* On a branch the files written are those of its task.
LEMMA EditTree ==
    ASSUME Control, TreeInv, NEW t \in Tasks, NEW p \in Paths, Edit(t, p)
    PROVE  TreeInv'
<1>1. /\ \A q \in Paths : q # p => files'[q] = files[q]
      /\ files'[p].by = t /\ UNCHANGED <<ledger, head, tick>>
  BY EditIs DEF Control
<1>2. tick.at = "idle" /\ head \in {None, t}
  BY EditIdles
<1>3. TreeOf(ledger.lease.start)' = TreeOf(ledger.lease.start)
  BY <1>1 DEF TreeOf
<1>4. ASSUME head' # None, NEW q \in Changed(TreeOf(ledger.lease.start), files)'
      PROVE  OwnOrRest(head, files, q)'
  <2>1. head' = head /\ head = t /\ q \in Paths
        /\ TreeOf(ledger.lease.start)[q] # files'[q]
    BY <1>1, <1>2, <1>3, <1>4 DEF Changed
  <2>2. q # p => OwnOrRest(head, files, q)
    BY <1>1, <2>1, SeatCommitAssumption DEF TreeInv, Changed
  <2>3. QED
    BY <1>1, <2>1, <2>2 DEF OwnOrRest
<1>5. QED
  BY <1>1, <1>2, <1>4 DEF TreeInv

\* A move of the files between two trees, of which the worktree holds the one.
LEMMA MovedAll ==
    ASSUME TypeInv, NEW a, NEW b \in Tree, files = a \/ files = b
    PROVE  Moved(a, b) = b
<1>1. \A p \in Paths : Moved(a, b)[p] = b[p]
  BY MovedIs DEF Lacks
<1>2. Moved(a, b) \in Tree
  BY MovedIs
<1>3. QED
  BY <1>1, <1>2 DEF Tree

\* Files that go to rest are at rest if they were, and own work or at rest else.
LEMMA RestsTree ==
    ASSUME TypeInv, Rests
    PROVE  /\ files = TreeOf(Rest) => files' = TreeOf(Rest)
           /\ \A t, w : (\A p \in Changed(w, files) : OwnOrRest(t, files, p))
                       => \A p \in Changed(w, files') : OwnOrRest(t, files', p)
<1>1. files' \in Tree /\ TreeOf(Rest) \in Tree /\ TreeOf(Rest) = BaseTree(Rest)
      /\ \A p \in Paths : files'[p] \in {files[p], TreeOf(Rest)[p]}
  BY RestIs DEF Rests
<1>2. files = TreeOf(Rest) => files' = TreeOf(Rest)
  BY <1>1 DEF Tree
<1>3. QED
  BY <1>1, <1>2 DEF Changed, OwnOrRest

\* The settle brings the worktree to rest.
LEMMA SettleTree ==
    ASSUME Control, TreeInv, NEW r \in Runners, Settling(r), ~RunOnly(r)
    PROVE  TreeInv'
<1>1. TypeInv /\ LockInv
  BY DEF Control
<1>2. lock = r /\ head' \in {head, None} /\ Rests /\ UNCHANGED <<ledger, tick>>
  BY <1>1, SettleIs
<1>3. tick.at \notin Cleaning \cup {"move", "branch"}
  BY <1>1, <1>2, StepperAlone
<1>4. \A c : TreeOf(c)' = TreeOf(c)
  BY <1>2 DEF TreeOf
<1>5. files = TreeOf(Rest) => files' = TreeOf(Rest)
  BY <1>1, <1>2, RestsTree
<1>6. ASSUME head' # None
      PROVE  \A p \in Changed(TreeOf(ledger.lease.start), files') : OwnOrRest(head', files', p)
  <2>1. head' = head /\ head # None
    BY <1>2, <1>6
  <2>2. \A p \in Changed(TreeOf(ledger.lease.start), files) : OwnOrRest(head, files, p)
    BY <2>1 DEF TreeInv
  <2>3. QED
    BY <1>1, <1>2, <2>1, <2>2, RestsTree
<1>7. TreeOf(Rest)' = TreeOf(Rest)
      /\ TreeOf(ledger.lease.start)' = TreeOf(ledger.lease.start)
  BY <1>2 DEF TreeOf
<1>8. QED
  BY <1>2, <1>3, <1>5, <1>6, <1>7 DEF TreeInv, Cleaning, Changed

\* The lease is forgotten once HEAD has left its branch.
LEMMA ForgetTree ==
    ASSUME Control, TreeInv, NEW r \in Runners, ForgetLease(r)
    PROVE  TreeInv'
<1>1. TypeInv /\ LockInv /\ HeadInv
  BY DEF Control
<1>2. /\ lock = r /\ run[r].at = "forget" /\ ledger'.commits = ledger.commits
      /\ UNCHANGED <<files, head, tick>>
  BY <1>1, ForgetIs
<1>3. tick.at \notin Cleaning \cup {"move", "branch"} /\ head = None
  BY <1>1, <1>2, StepperAlone DEF HeadInv
<1>4. TreeOf(Rest)' = TreeOf(Rest)
  BY <1>2 DEF TreeOf
<1>5. QED
  BY <1>2, <1>3, <1>4 DEF TreeInv, Cleaning

\* The clean resets the whole of what it looked at.
LEMMA CleanTree ==
    ASSUME Control, TreeInv, Cleanses
    PROVE  TreeInv'
<1>1. TypeInv
  BY DEF Control
<1>2. /\ tick.at \in {"reset", "sweep", "head"} /\ tick'.at \in {"sweep", "head", "unlease"}
      /\ tick.at = "reset" => files' = Moved(tick.tree, TreeOf(Rest))
      /\ Rests /\ head' \in {head, None} /\ ledger' = ledger
  BY <1>1, CleanseIs
<1>3. files' = TreeOf(Rest)
  <2>1. CASE tick.at = "reset"
    <3>1. files = tick.tree
      BY <2>1 DEF TreeInv
    <3>2. QED
      BY <1>1, <1>2, <2>1, <3>1, MovedAll, RestIs
  <2>2. CASE tick.at # "reset"
    <3>1. files = TreeOf(Rest)
      BY <1>2, <2>2 DEF TreeInv
    <3>2. QED
      BY <1>1, <1>2, <3>1, RestsTree
  <2>3. QED
    BY <2>1, <2>2
<1>4. /\ TreeOf(Rest)' = TreeOf(Rest) /\ TreeOf(Rest) = BaseTree(Rest)
      /\ TreeOf(ledger.lease.start)' = TreeOf(ledger.lease.start)
  BY <1>1, <1>2, RestIs DEF TreeOf
<1>5. QED
  BY <1>2, <1>3, <1>4 DEF TreeInv, Changed, OwnOrRest

\* The start moves the whole worktree from rest to its start.
LEMMA MoveTree ==
    ASSUME Control, TreeInv, MoveFiles
    PROVE  TreeInv'
<1>1. TypeInv /\ LedgerInv /\ HeadInv
  BY DEF Control
<1>2. /\ tick.at = "move" /\ tick'.at = "branch" /\ UNCHANGED <<ledger, head>>
      /\ files' = IF ledger.lease.start = Rest THEN files
                  ELSE Moved(TreeOf(Rest), TreeOf(ledger.lease.start))
      /\ TreeOf(ledger.lease.start) \in Tree
  BY <1>1, MoveIs
<1>3. files = TreeOf(Rest) /\ head = None
  BY <1>1, <1>2 DEF TreeInv, HeadInv
<1>4. files' = TreeOf(ledger.lease.start)
  BY <1>1, <1>2, <1>3, MovedAll
<1>5. TreeOf(ledger.lease.start)' = TreeOf(ledger.lease.start)
  BY <1>2 DEF TreeOf
<1>6. QED
  BY <1>2, <1>3, <1>4, <1>5 DEF TreeInv

\* The other steps of the thread.
LEMMA ThreadTree ==
    ASSUME Control, TreeInv,
           \/ ReserveSeat \/ KeepLeftover \/ ClearLease \/ ReleaseSeat \/ Ring
           \/ Unprepared \/ TickDies
           \/ \E t \in Tasks : Grant(t)
           \/ \E base \in Bases : StartTask(base)
    PROVE  TreeInv'
<1>1. TypeInv /\ HeadInv
  BY DEF Control
<1>2. TypeInv /\ HeadInv /\ files' = files /\ ledger'.commits = ledger.commits
  <2>1. ASSUME ReserveSeat PROVE UNCHANGED <<files, ledger>>
    BY <1>1, <2>1, ReserveIs
  <2>2. ASSUME KeepLeftover PROVE UNCHANGED files /\ ledger'.commits = ledger.commits
    BY <1>1, <2>2, KeepIs
  <2>3. ASSUME ClearLease PROVE UNCHANGED files /\ ledger'.commits = ledger.commits
    BY <1>1, <2>3, ClearIs
  <2>4. ASSUME ReleaseSeat PROVE UNCHANGED <<files, ledger>>
    BY <1>1, <2>4, ReleaseIs
  <2>5. ASSUME Ring PROVE UNCHANGED <<files, ledger>>
    BY <2>5 DEF Ring
  <2>6. ASSUME Unprepared PROVE UNCHANGED <<files, ledger>>
    BY <1>1, <2>6, UnpreparedIs
  <2>7. ASSUME TickDies PROVE UNCHANGED <<files, ledger>>
    BY <2>7 DEF TickDies, tree
  <2>8. ASSUME NEW t \in Tasks, Grant(t) PROVE UNCHANGED <<files, ledger>>
    BY <1>1, <2>8, GrantIs
  <2>9. ASSUME NEW base \in Bases, StartTask(base)
        PROVE  UNCHANGED files /\ ledger'.commits = ledger.commits
    BY <1>1, <2>9, StartIs
  <2>10. QED
    BY <1>1, <2>1, <2>2, <2>3, <2>4, <2>5, <2>6, <2>7, <2>8, <2>9
<1>3. TreeOf(Rest)' = TreeOf(Rest)
  BY <1>2 DEF TreeOf
<1>4. ledger'.lease = ledger.lease =>
         TreeOf(ledger.lease.start)' = TreeOf(ledger.lease.start)
  BY <1>2 DEF TreeOf
<1>5. CASE ReserveSeat
  <2>1. tick'.at = "clean" /\ tick'.tree = files /\ UNCHANGED <<ledger, head>>
    BY <1>1, <1>5, ReserveIs
  <2>2. QED
    BY <1>2, <1>4, <2>1 DEF TreeInv, Changed
<1>6. CASE KeepLeftover
  <2>1. /\ tick.at = "clean" /\ ledger'.lease = ledger.lease /\ head' = head
        /\ \/ tick'.at = "reset" /\ tick'.tree = tick.tree
           \/ tick'.at = "release" /\ head = None /\ tick.tree = TreeOf(Rest)
    BY <1>1, <1>6, KeepIs
  <2>2. QED
    BY <1>2, <1>3, <1>4, <2>1 DEF TreeInv, Changed
<1>7. CASE ClearLease
  <2>1. /\ tick.at = "unlease" /\ tick'.at = "release" /\ head' = head /\ head = None
    BY <1>1, <1>7, ClearIs DEF HeadInv
  <2>2. QED
    BY <1>2, <1>3, <2>1 DEF TreeInv
<1>8. CASE ReleaseSeat
  <2>1. tick.at = "release" /\ tick'.at = "clean_seat" /\ UNCHANGED <<ledger, head>>
    BY <1>1, <1>8, ReleaseIs
  <2>2. QED
    BY <1>2, <1>3, <1>4, <2>1 DEF TreeInv, Changed
<1>9. CASE Ring
  <2>1. tick.at = "branch" /\ tick'.at = "idle" /\ ledger' = ledger
    BY <1>9, IdlesTyped DEF Ring
  <2>2. files = TreeOf(ledger.lease.start)
    BY <2>1 DEF TreeInv
  <2>3. QED
    BY <1>2, <1>4, <2>1, <2>2 DEF TreeInv, Changed
<1>10. CASE Unprepared \/ TickDies
  <2>1. tick'.at = "idle" /\ UNCHANGED <<ledger, head>>
    BY <1>1, <1>10, IdlesTyped, UnpreparedIs DEF TickDies, tree
  <2>2. QED
    BY <1>2, <1>4, <2>1 DEF TreeInv, Changed
<1>11. ASSUME NEW t \in Tasks, Grant(t) PROVE TreeInv'
  <2>1. tick.at = "clean_seat" /\ tick'.at = "start" /\ UNCHANGED <<ledger, head>>
    BY <1>1, <1>11, GrantIs
  <2>2. QED
    BY <1>2, <1>3, <1>4, <2>1 DEF TreeInv, Changed
<1>12. ASSUME NEW base \in Bases, StartTask(base) PROVE TreeInv'
  <2>1. tick.at = "start" /\ tick'.at = "move" /\ head' = head /\ head = None
    BY <1>1, <1>12, StartIs DEF HeadInv
  <2>2. QED
    BY <1>2, <1>3, <2>1 DEF TreeInv
<1>13. QED
  BY <1>5, <1>6, <1>7, <1>8, <1>9, <1>10, <1>11, <1>12

\* The worktree part is inductive, given that commits stay.
LEMMA TreeStep ==
    ASSUME Control, TreeInv, Next, Grown
    PROVE  TreeInv'
<1>1. TypeInv /\ LockInv /\ LedgerInv
  BY DEF Control
<1>2. ASSUME NEW t \in Tasks,
             (\E p \in Paths : Edit(t, p)) \/ TaskStep(t) \/ Grant(t) \/ ArchiveAttempt(t)
      PROVE  TreeInv'
  <2>1. ASSUME NEW p \in Paths, Edit(t, p) PROVE TreeInv'
    BY <2>1, EditTree
  <2>2. ASSUME TaskStep(t) PROVE TreeInv'
    BY <1>1, <2>2, TaskStepIs, TreeKept DEF tree
  <2>3. ASSUME Grant(t) PROVE TreeInv'
    BY <2>3, ThreadTree
  <2>4. ASSUME ArchiveAttempt(t) PROVE TreeInv'
    BY <1>1, <2>4, ArchiveIs, TreeKept
  <2>5. QED
    BY <1>2, <2>1, <2>2, <2>3, <2>4
<1>3. ASSUME NEW r \in Runners, RunOnly(r) PROVE TreeInv'
  BY <1>3, TreeKept DEF RunOnly
<1>4. ASSUME NEW r \in Runners, NEW t \in Tasks, Ask(r, t) PROVE TreeInv'
  BY <1>1, <1>3, <1>4, AskIs
<1>5. ASSUME NEW r \in Runners,
             \/ Snapshot(r) \/ PRCheck(r) \/ Verify(r)
             \/ Commit(r) /\ CommitAgain(r)
             \/ Commit(r) /\ (CommitElsewhere(r) \/ CommitNothing(r))
             \/ Push(r) \/ OpenPR(r) \/ Abandon(r)
      PROVE  TreeInv'
  <2>1. RunOnly(r)
    BY <1>1, <1>5, SnapshotIs, LookIs, CommitAgainIs, CommitLessIs, PushIs, OpenPRIs, AbandonIs
  <2>2. QED
    BY <1>3, <2>1
<1>6. ASSUME NEW r \in Runners, Commit(r), CommitNew(r) PROVE TreeInv'
  BY <1>1, <1>6, CommitNewIs, TreeKept
<1>7. ASSUME NEW r \in Runners, MarkPushed(r) PROVE TreeInv'
  BY <1>1, <1>7, MarkIs, TreeKept
<1>8. ASSUME NEW r \in Runners, BindPR(r) PROVE TreeInv'
  BY <1>1, <1>8, BindIs, TreeKept
<1>9. ASSUME NEW r \in Runners, Settling(r) PROVE TreeInv'
  BY <1>3, <1>9, SettleTree
<1>10. ASSUME NEW r \in Runners, ForgetLease(r) PROVE TreeInv'
  BY <1>10, ForgetTree
<1>11. ASSUME NEW r \in Runners, Apply(r) PROVE TreeInv'
  BY <1>1, <1>11, ApplyIs, TreeKept DEF tree
<1>12. ASSUME \/ ReserveSeat \/ KeepLeftover \/ Cleanses \/ ClearLease \/ ReleaseSeat
              \/ \E base \in Bases : StartTask(base)
              \/ MoveFiles \/ Ring \/ Unprepared \/ TickDies
       PROVE  TreeInv'
  BY <1>12, CleanTree, MoveTree, ThreadTree
<1>13. ASSUME Outside PROVE TreeInv'
  BY <1>1, <1>13, OutsideIs, TreeKept
<1>14. QED
  BY NextIs, <1>2, <1>4, <1>5, <1>6, <1>7, <1>8, <1>9, <1>10, <1>11, <1>12, <1>13

----------------------------------------------------------------------------
(* The only steps that add a commit, or move a remote branch *)

\* What a step may do to the widened tasks, the commits and the remote.
Widening == \A t \in Tasks : task[t].widened => task'[t].widened
SameLedger == DOMAIN ledger'.commits = DOMAIN ledger.commits
              /\ \A i \in DOMAIN ledger.commits : SameCommit(i)
AddsCommit == \E r \in Runners : Commit(r) /\ CommitNew(r)
Pushes == \E r \in Runners : Push(r)

\* A task may write no less than before.
LEMMA WidenAllows ==
    ASSUME Widening, NEW t \in Tasks
    PROVE  Allowed(t) \subseteq Allowed(t)'
<1>1. task[t].widened => task'[t].widened
  BY DEF Widening
<1>2. CASE task[t].widened
  BY <1>1, <1>2 DEF Allowed
<1>3. CASE ~task[t].widened
  BY <1>3 DEF Allowed
<1>4. QED
  BY <1>2, <1>3

\* The record of one task, widened or not.
LEMMA TaskWidens ==
    ASSUME NEW t \in Tasks, TaskMoves(t), task[t].widened => task'[t].widened
    PROVE  Widening
  BY DEF TaskMoves, Widening

\* A step that leaves the commits alone adds none.
LEMMA SameCommits ==
    ASSUME ledger'.commits = ledger.commits
    PROVE  SameLedger
  BY DEF SameLedger, SameCommit

\* What each step does to the commits, the widened tasks and the remote.
LEMMA Effects ==
    ASSUME Control, Next
    PROVE  /\ Grown /\ Widening
           /\ SameLedger \/ AddsCommit
           /\ remote' = remote \/ Pushes
<1> DEFINE Goal == /\ Grown /\ Widening
                   /\ SameLedger \/ AddsCommit
                   /\ remote' = remote \/ Pushes
<1>1. TypeInv /\ LockInv /\ LedgerInv /\ HeadInv
  BY DEF Control
<1>2. ASSUME ledger'.commits = ledger.commits, remote' = remote, Widening PROVE Goal
  BY <1>1, <1>2, KeptCommits, SameCommits
<1>3. ASSUME task' = task PROVE Widening
  BY <1>3 DEF Widening
<1>4. ASSUME NEW t \in Tasks,
             (\E p \in Paths : Edit(t, p)) \/ TaskStep(t) \/ Grant(t) \/ ArchiveAttempt(t)
      PROVE  Goal
  <2>1. ASSUME NEW p \in Paths, Edit(t, p) PROVE Goal
    <3>1. UNCHANGED <<ledger, remote, task>>
      BY <1>1, <2>1, EditIs DEF store, forge
    <3>2. QED
      BY <1>2, <1>3, <3>1
  <2>2. ASSUME TaskStep(t) PROVE Goal
    <3>1. UNCHANGED <<ledger, remote>> /\ Widening
      BY <1>1, <2>2, TaskStepIs, TaskWidens DEF forge
    <3>2. QED
      BY <1>2, <3>1
  <2>3. ASSUME Grant(t) PROVE Goal
    <3>1. UNCHANGED <<ledger, remote>> /\ Widening
      BY <1>1, <2>3, GrantIs, TaskWidens
    <3>2. QED
      BY <1>2, <3>1
  <2>4. ASSUME ArchiveAttempt(t) PROVE Goal
    BY <1>1, <1>2, <1>3, <2>4, ArchiveIs
  <2>5. QED
    BY <1>4, <2>1, <2>2, <2>3, <2>4
<1>5. ASSUME NEW r \in Runners, RunOnly(r), remote' = remote PROVE Goal
  BY <1>2, <1>3, <1>5 DEF RunOnly
<1>6. ASSUME NEW r \in Runners, NEW t \in Tasks, Ask(r, t) PROVE Goal
  BY <1>1, <1>5, <1>6, AskIs
<1>7. ASSUME NEW r \in Runners,
             \/ Snapshot(r) \/ PRCheck(r) \/ Verify(r)
             \/ Commit(r) /\ CommitAgain(r)
             \/ Commit(r) /\ (CommitElsewhere(r) \/ CommitNothing(r))
             \/ OpenPR(r) \/ Abandon(r)
      PROVE  Goal
  <2>1. RunOnly(r) /\ remote' = remote
    BY <1>1, <1>7, SnapshotIs, LookIs, CommitAgainIs, CommitLessIs, OpenPRIs, AbandonIs
  <2>2. QED
    BY <1>5, <2>1
<1>8. ASSUME NEW r \in Runners, Commit(r), CommitNew(r) PROVE Goal
  <2>1. UNCHANGED <<task, remote>> /\ AddsCommit
    BY <1>1, <1>8, CommitNewIs DEF AddsCommit
  <2>2. QED
    BY <1>1, <1>3, <1>8, <2>1, CommitNewGrows
<1>9. ASSUME NEW r \in Runners, Push(r) PROVE Goal
  <2>1. RunOnly(r) /\ Pushes
    BY <1>1, <1>9, PushIs DEF Pushes
  <2>2. QED
    BY <1>1, <1>3, <2>1, KeptCommits, SameCommits DEF RunOnly
<1>10. ASSUME NEW r \in Runners, MarkPushed(r) PROVE Goal
  <2>1. UNCHANGED <<task, remote>>
    BY <1>1, <1>10, MarkIs
  <2>2. Grown /\ SameLedger
    BY <1>1, <1>10, MarkGrows DEF SameLedger, Grown
  <2>3. QED
    BY <1>3, <2>1, <2>2
<1>11. ASSUME NEW r \in Runners, BindPR(r) PROVE Goal
  <2>1. UNCHANGED <<ledger, remote>> /\ Widening
    BY <1>1, <1>11, BindIs, TaskWidens
  <2>2. QED
    BY <1>2, <2>1
<1>12. ASSUME NEW r \in Runners, Settling(r) PROVE Goal
  BY <1>1, <1>2, <1>3, <1>12, SettleIs
<1>13. ASSUME NEW r \in Runners, ForgetLease(r) PROVE Goal
  BY <1>1, <1>2, <1>3, <1>13, ForgetIs
<1>14. ASSUME NEW r \in Runners, Apply(r) PROVE Goal
  <2>1. UNCHANGED <<ledger, remote>> /\ Widening
    BY <1>1, <1>14, ApplyIs, TaskWidens DEF forge
  <2>2. QED
    BY <1>2, <2>1
<1>15. ASSUME ReserveSeat \/ KeepLeftover \/ Cleanses \/ ClearLease \/ ReleaseSeat
       PROVE  Goal
  <2>1. ledger'.commits = ledger.commits /\ UNCHANGED <<remote, task>>
    BY <1>1, <1>15, ReserveIs, KeepIs, CleanseIs, ClearIs, ReleaseIs
  <2>2. QED
    BY <1>2, <1>3, <2>1
<1>16. ASSUME NEW base \in Bases, StartTask(base) PROVE Goal
  BY <1>1, <1>2, <1>3, <1>16, StartIs
<1>17. ASSUME MoveFiles \/ Ring \/ TickDies PROVE Goal
  <2>1. UNCHANGED <<ledger, remote, task>>
    BY <1>1, <1>17, MoveIs DEF Ring, TickDies, store, forge
  <2>2. QED
    BY <1>2, <1>3, <2>1
<1>18. ASSUME Unprepared PROVE Goal
  <2>1. UNCHANGED <<ledger, remote>> /\ Widening
    BY <1>1, <1>18, UnpreparedIs, TaskWidens
  <2>2. QED
    BY <1>2, <2>1
<1>19. ASSUME Outside PROVE Goal
  BY <1>1, <1>2, <1>3, <1>19, OutsideIs
<1> HIDE DEF Goal
<1>20. Goal
  BY NextIs, <1>4, <1>6, <1>7, <1>8, <1>9, <1>10, <1>11, <1>12, <1>13, <1>14, <1>15, <1>16,
     <1>17, <1>18, <1>19
<1>21. QED
  BY <1>20 DEF Goal

----------------------------------------------------------------------------
(* The snapshots, and the commits made of them *)

\* A step has a snapshot by the snapshot action, and keeps it.
LEMMA RunChanges ==
    ASSUME Control, Next, NEW q \in Runners, run'[q].at \in {"prcheck", "verify", "commit"}
    PROVE  run'[q] = run[q] \/ Snapshot(q) \/ PRCheck(q) \/ Verify(q)
<1>1. TypeInv /\ LockInv /\ LedgerInv /\ HeadInv
  BY DEF Control
<1>2. ASSUME NEW r \in Runners, Moves(r), q # r PROVE run'[q] = run[q]
  BY <1>2 DEF Moves, Others
<1>3. ASSUME run' = run PROVE run'[q] = run[q]
  BY <1>3
<1>4. ASSUME NEW t \in Tasks,
             (\E p \in Paths : Edit(t, p)) \/ TaskStep(t) \/ Grant(t) \/ ArchiveAttempt(t)
      PROVE  run'[q] = run[q]
  BY <1>1, <1>4, EditIs, TaskStepIs, GrantIs, ArchiveIs
<1>5. ASSUME NEW r \in Runners, NEW t \in Tasks, Ask(r, t) PROVE run'[q] = run[q]
  BY <1>1, <1>2, <1>5, AskIs DEF RunOnly
<1>6. ASSUME NEW r \in Runners, Snapshot(r) \/ PRCheck(r) \/ Verify(r)
      PROVE  run'[q] = run[q] \/ Snapshot(q) \/ PRCheck(q) \/ Verify(q)
  BY <1>1, <1>2, <1>6, SnapshotIs, LookIs DEF RunOnly
<1>7. ASSUME NEW r \in Runners, Moves(r),
             run'[r].at \in {"decided", "push", "openpr", "rest", "sweep", "head", "mark", "bind",
                           "forget", "idle"}
      PROVE  run'[q] = run[q]
  BY <1>2, <1>7
<1>8. ASSUME NEW r \in Runners,
             \/ Commit(r) /\ CommitAgain(r)
             \/ Commit(r) /\ (CommitElsewhere(r) \/ CommitNothing(r))
             \/ Commit(r) /\ CommitNew(r)
             \/ Push(r) \/ MarkPushed(r)
      PROVE  run'[q] = run[q]
  BY <1>1, <1>7, <1>8, CommitAgainIs, CommitLessIs, CommitNewIs, PushIs, MarkIs DEF RunOnly
<1>9. ASSUME NEW r \in Runners, OpenPR(r) \/ BindPR(r) \/ Settling(r) \/ ForgetLease(r)
      PROVE  run'[q] = run[q]
  BY <1>1, <1>7, <1>9, OpenPRIs, BindIs, SettleIs, ForgetIs DEF RunOnly
<1>10. ASSUME NEW r \in Runners, Abandon(r) \/ Apply(r) PROVE run'[q] = run[q]
  BY <1>1, <1>7, <1>10, AbandonIs, ApplyIs, IdlesTyped DEF RunOnly
<1>11. ASSUME \/ ReserveSeat \/ KeepLeftover \/ Cleanses \/ ClearLease \/ ReleaseSeat
              \/ \E base \in Bases : StartTask(base)
       PROVE  run'[q] = run[q]
  BY <1>1, <1>11, ReserveIs, KeepIs, CleanseIs, ClearIs, ReleaseIs, StartIs
<1>12. ASSUME MoveFiles \/ Ring \/ Unprepared \/ TickDies \/ Outside PROVE run'[q] = run[q]
  BY <1>1, <1>12, MoveIs, UnpreparedIs, OutsideIs DEF Ring, TickDies
<1>13. QED
  BY NextIs, <1>4, <1>5, <1>6, <1>8, <1>9, <1>10, <1>11, <1>12

\* What is said of a snapshot stays true of it.
LEMMA SnapshotKept ==
    ASSUME TypeInv, Grown, Widening, NEW R \in Running, R.task \in Tasks, Known(R.parent),
           SnapshotOf(R)
    PROVE  SnapshotOf(R)'
<1>1. TreeOf(R.parent)' = TreeOf(R.parent)
  BY GrownTrees
<1>2. Diff(R)' = Diff(R)
  BY <1>1 DEF Diff, Changed
<1>3. Allowed(R.task) \subseteq Allowed(R.task)'
  BY WidenAllows
<1>4. \A i \in DOMAIN ledger.commits : i \in DOMAIN ledger'.commits
                                        /\ ledger'.commits[i].task = ledger.commits[i].task
  BY DEF Grown, SameCommit
<1>5. QED
  BY <1>2, <1>3, <1>4 DEF SnapshotOf

\* A snapshot taken is within the declared files, and the own work of its task.
LEMMA SnapshotTaken ==
    ASSUME Control, TreeInv, NEW r \in Runners, Snapshot(r), run'[r].at = "prcheck"
    PROVE  SnapshotOf(run[r])'
<1>1. TypeInv /\ LockInv /\ LedgerInv
  BY DEF Control
<1> DEFINE R == run'[r]
           t == run[r].task
           i == TaskCommitAt(t)
<1>2. /\ t \in Tasks /\ R.task = t /\ UNCHANGED <<task, ledger>>
      /\ R.own => head = t
      /\ StartsTask(t)
      /\ Diff(R) \subseteq Allowed(t)
      /\ \/ /\ i # 0 /\ R.parent = ledger.commits[i].parent
            /\ R.tree = ledger.commits[i].tree
         \/ R.parent = Parent /\ R.tree = files
  BY <1>1, SnapshotIs DEF RunOnly
<1>3. ASSUME R.own
      PROVE  \/ \A p \in Diff(R) : OwnOrRest(R.task, R.tree, p)
             \/ \E k \in DOMAIN ledger.commits :
                   ledger.commits[k].task = R.task /\ R.parent < Id(k)
  <2>1. CASE i # 0 /\ R.parent = ledger.commits[i].parent
    <3>1. i \in DOMAIN ledger.commits /\ ledger.commits[i].task = t
      BY <1>1, <2>1, TaskCommitAtIs
    <3>2. QED
      BY <1>1, <1>2, <2>1, <3>1, BuiltOnKnown
  <2>2. CASE R.parent = Parent /\ R.tree = files
    <3>1. head = t /\ head # None
      BY <1>2, <1>3, SeatCommitAssumption
    <3>2. Parent = ledger.lease.start
      BY <3>1, LeaseKnown DEF Parent
    <3>3. \A p \in Changed(TreeOf(ledger.lease.start), files) : OwnOrRest(head, files, p)
      BY <3>1 DEF TreeInv
    <3> HIDE DEF R
    <3>4. Diff(R) = Changed(TreeOf(ledger.lease.start), files)
      BY <2>2, <3>2 DEF Diff
    <3>5. QED
      BY <1>2, <2>2, <3>1, <3>3, <3>4
  <2>3. QED
    BY <1>2, <2>1, <2>2
<1>4. SnapshotOf(R)
  BY <1>2, <1>3 DEF SnapshotOf
<1>5. \A c : TreeOf(c)' = TreeOf(c)
  BY <1>2 DEF TreeOf
<1>6. QED
  BY <1>2, <1>4, <1>5 DEF SnapshotOf, Diff, Changed, Allowed, TreeOf

\* The snapshot part is inductive.
LEMMA StepInvStep ==
    ASSUME Control, TreeInv, StepInv, Next
    PROVE  StepInv'
<1>1. TypeInv /\ LockInv /\ LedgerInv
  BY DEF Control
<1>2. Grown /\ Widening
  BY Effects
<1>3. \A r \in Runners : run[r] \in Running /\ (run[r].at # "idle" => run[r].task \in Tasks)
  BY <1>1 DEF TypeInv
<1>4. SUFFICES ASSUME NEW q \in Runners, run'[q].at \in {"prcheck", "verify", "commit"}
               PROVE  SnapshotOf(run[q])'
  BY DEF StepInv
<1>5. ASSUME run[q].at \in {"prcheck", "verify", "commit"}, run'[q].parent = run[q].parent,
             run'[q].tree = run[q].tree, run'[q].own = run[q].own, run'[q].task = run[q].task
      PROVE  SnapshotOf(run[q])'
  <2>1. PICK R \in Running : R = run[q]
    BY <1>3
  <2>2. R.task \in Tasks /\ Known(R.parent) /\ SnapshotOf(R)
    BY <1>1, <1>3, <1>5, <2>1 DEF StepInv, LedgerInv
  <2>3. SnapshotOf(R)'
    BY <1>1, <1>2, <2>2, SnapshotKept
  <2>4. R.parent = run'[q].parent /\ R.tree = run'[q].tree /\ R.own = run'[q].own
        /\ R.task = run'[q].task
    BY <1>5, <2>1
  <2>5. QED
    BY <2>3, <2>4 DEF SnapshotOf, Diff
<1>6. CASE run'[q] = run[q]
  BY <1>4, <1>5, <1>6
<1>7. CASE Snapshot(q)
  BY <1>1, <1>4, <1>7, SnapshotIs, SnapshotTaken
<1>8. CASE PRCheck(q) \/ Verify(q)
  BY <1>1, <1>4, <1>5, <1>8, LookIs
<1>9. QED
  BY <1>4, <1>6, <1>7, <1>8, RunChanges

\* With the remote at one of its commits, a task's commits are one line.
LEMMA OneLineIs ==
    ASSUME TypeInv, Following, OnBranches
    PROVE  OneLine
<1>1. \A t \in Tasks : remote[t] # 0 => IsCommit(remote[t])
                                        /\ ledger.commits[remote[t] - 2].task = t
  <2>1. DOMAIN ledger.commits = 1 .. Len(ledger.commits) /\ Len(ledger.commits) \in Nat
    BY CommitsTyped
  <2>2. \A t \in Tasks : remote[t] \in Nat
    BY DEF TypeInv
  <2>3. QED
    BY <2>1, <2>2 DEF OnBranches, CommitOf, IsCommit
<1>2. QED
  BY <1>1 DEF OneLine, Following

\* What the commits are, under a step that adds none.
LEMMA SameLedgerKeeps ==
    ASSUME Control, SameLedger, Grown, Widening
    PROVE  /\ OwnWorkOnly => OwnWorkOnly'
           /\ Following => Following'
           /\ CommitsStayDeclared => CommitsStayDeclared'
<1>1. TypeInv /\ LedgerInv
  BY DEF Control
<1>2. \A i \in DOMAIN ledger.commits :
         /\ TreeOf(ledger.commits[i].parent)' = TreeOf(ledger.commits[i].parent)
         /\ ledger.commits[i].task \in Tasks
  <2> TAKE i \in DOMAIN ledger.commits
  <2>1. PICK c : c = ledger.commits[i].parent
    OBVIOUS
  <2>2. TreeOf(c)' = TreeOf(c)
    BY <1>1, <2>1, BuiltOnKnown, GrownTrees
  <2>3. c = ledger'.commits[i].parent
    BY <2>1 DEF SameLedger, SameCommit
  <2>4. ledger.commits[i].task \in Tasks
    BY <1>1, CommitsTyped DEF CommitRecord
  <2>5. QED
    BY <2>1, <2>2, <2>3, <2>4 DEF TreeOf
<1>3. /\ DOMAIN ledger'.commits = DOMAIN ledger.commits
      /\ \A i \in DOMAIN ledger.commits : SameCommit(i)
  BY DEF SameLedger
<1>4. OwnWorkOnly => OwnWorkOnly'
  BY <1>2, <1>3 DEF OwnWorkOnly, SameCommit, Changed
<1>5. Following => Following'
  <2>1. DOMAIN ledger.commits = 1 .. Len(ledger.commits) /\ Len(ledger.commits) \in Nat
    BY <1>1, CommitsTyped
  <2>2. \A i, j \in DOMAIN ledger.commits : \A k \in (i + 1)..(j - 1) : k \in DOMAIN ledger.commits
    BY <2>1
  <2>3. QED
    BY <1>3, <2>2 DEF Following, SameCommit
<1>6. CommitsStayDeclared => CommitsStayDeclared'
  <2>1. \A t \in Tasks : Allowed(t) \subseteq Allowed(t)'
    BY WidenAllows
  <2>2. \A i \in DOMAIN ledger.commits :
           Allowed(ledger.commits[i].task) \subseteq Allowed(ledger.commits[i].task)'
    <3> TAKE i \in DOMAIN ledger.commits
    <3>1. PICK t \in Tasks : t = ledger.commits[i].task
      BY <1>2
    <3>2. t = ledger'.commits[i].task
      BY <1>3, <3>1 DEF SameCommit
    <3>3. Allowed(t) \subseteq Allowed(t)'
      BY <2>1
    <3>4. QED
      BY <3>1, <3>2, <3>3 DEF Allowed
  <2>3. QED
    BY <1>2, <1>3, <2>2 DEF CommitsStayDeclared, SameCommit, Changed
<1>7. QED
  BY <1>4, <1>5, <1>6

\* A new commit: it follows the task's last one, on the diff the snapshot holds.
LEMMA CommitNewKeeps ==
    ASSUME Control, StepInv, OwnWorkOnly, Following, CommitsStayDeclared,
           NEW r \in Runners, Commit(r), CommitNew(r)
    PROVE  OwnWorkOnly' /\ Following' /\ CommitsStayDeclared'
<1>1. TypeInv /\ LockInv /\ LedgerInv
  BY DEF Control
<1>0. PICK n, t : n = Len(ledger.commits) /\ t = run[r].task
  OBVIOUS
<1>2. /\ run[r].at = "commit" /\ t \in Tasks /\ Follows(r)
      /\ n \in Nat
      /\ DOMAIN ledger'.commits = 1 .. n + 1
      /\ \A i \in DOMAIN ledger.commits : ledger'.commits[i] = ledger.commits[i]
      /\ ledger'.commits[n + 1] = NewCommit(r) /\ task' = task
  BY <1>0, <1>1, CommitNewIs
<1>3. Grown
  BY <1>1, CommitNewGrows
<1>4. DOMAIN ledger.commits = 1 .. n
  BY <1>0, <1>1, CommitsTyped
<1>5. Known(run[r].parent) /\ SnapshotOf(run[r])
  BY <1>1, <1>2 DEF LedgerInv, StepInv
<1>6. \A c : Known(c) => TreeOf(c)' = TreeOf(c)
  BY <1>1, <1>3, GrownTrees
<1>7. \A i \in 1 .. n : /\ TreeOf(ledger.commits[i].parent)' = TreeOf(ledger.commits[i].parent)
                        /\ ledger.commits[i].task \in Tasks
  <2> TAKE i \in 1 .. n
  <2>1. PICK c : c = ledger.commits[i].parent
    OBVIOUS
  <2>2. TreeOf(c)' = TreeOf(c)
    BY <1>1, <1>4, <1>6, <2>1, BuiltOnKnown
  <2>3. c = ledger'.commits[i].parent
    BY <1>2, <1>4, <2>1
  <2>4. ledger.commits[i].task \in Tasks
    BY <1>1, <1>4, CommitsTyped DEF CommitRecord
  <2>5. QED
    BY <2>1, <2>2, <2>3, <2>4 DEF TreeOf
<1>8. /\ TreeOf(ledger.commits[n + 1].parent)' = TreeOf(run[r].parent)
      /\ ledger'.commits[n + 1].tree = run[r].tree /\ ledger'.commits[n + 1].task = t
      /\ ledger'.commits[n + 1].own = run[r].own
      /\ ledger'.commits[n + 1].parent = run[r].parent
  <2>1. PICK c : c = run[r].parent
    OBVIOUS
  <2>2. TreeOf(c)' = TreeOf(c)
    BY <1>5, <1>6, <2>1
  <2>3. c = ledger'.commits[n + 1].parent
    BY <1>2, <2>1 DEF NewCommit
  <2>4. QED
    BY <1>0, <1>2, <2>1, <2>2, <2>3 DEF NewCommit, TreeOf
<1>9. OwnWorkOnly'
  <2>1. run[r].own => \A p \in Diff(run[r]) : OwnOrRest(t, run[r].tree, p)
    <3> SUFFICES ASSUME NEW i \in DOMAIN ledger.commits, ledger.commits[i].task = t,
                        run[r].parent < Id(i)
                 PROVE  FALSE
      BY <1>0, <1>5 DEF SnapshotOf
    <3>1. TaskCommitAt(t) # 0 /\ i <= TaskCommitAt(t) /\ TaskCommitAt(t) \in 1 .. n
      BY <1>1, <1>4, TaskCommitAtIs
    <3>2. Id(TaskCommitAt(t)) = run[r].parent
      BY <1>0, <1>2, <3>1 DEF Follows
    <3>3. QED
      BY <1>4, <3>1, <3>2 DEF Id
  <2>2. ASSUME NEW i \in 1 .. n + 1, ledger'.commits[i].own
        PROVE  \A p \in Changed(TreeOf(ledger.commits[i].parent)', ledger'.commits[i].tree) :
                  OwnOrRest(ledger'.commits[i].task, ledger'.commits[i].tree, p)
    <3>1. CASE i = n + 1
      BY <1>8, <2>1, <2>2, <3>1 DEF Diff
    <3>2. CASE i # n + 1
      <4>1. i \in 1 .. n
        BY <1>2, <3>2
      <4>2. ledger'.commits[i] = ledger.commits[i] /\ i \in DOMAIN ledger.commits
        BY <1>2, <1>4, <4>1
      <4>3. TreeOf(ledger.commits[i].parent)' = TreeOf(ledger.commits[i].parent)
        BY <1>7, <4>1
      <4>4. \A p \in Changed(TreeOf(ledger.commits[i].parent), ledger.commits[i].tree) :
               OwnOrRest(ledger.commits[i].task, ledger.commits[i].tree, p)
        BY <2>2, <4>2 DEF OwnWorkOnly
      <4>5. QED
        BY <4>2, <4>3, <4>4
    <3>3. QED
      BY <3>1, <3>2
  <2>3. QED
    BY <1>2, <2>2 DEF OwnWorkOnly, Changed
<1>10. Following'
  <2> SUFFICES ASSUME NEW i \in 1 .. n + 1, NEW j \in 1 .. n + 1, i < j,
                      ledger'.commits[i].task = ledger'.commits[j].task,
                      \A k \in (i + 1)..(j - 1) :
                          ledger'.commits[k].task # ledger'.commits[j].task
               PROVE  ledger'.commits[j].parent = Id(i)
    BY <1>2 DEF Following, Id
  <2>1. i \in 1 .. n
    BY <1>2
  <2>2. CASE j = n + 1
    <3>1. ledger.commits[i].task = t /\ \A k \in (i + 1)..n : ledger.commits[k].task # t
      <4>1. ledger'.commits[j].task = t /\ j - 1 = n
        BY <1>2, <1>8, <2>2
      <4>2. \A k \in (i + 1)..n : k \in 1 .. n
        BY <1>2, <2>1
      <4>3. QED
        BY <1>2, <1>4, <2>1, <4>1, <4>2
    <3>2. TaskCommitAt(t) # 0 /\ i <= TaskCommitAt(t) /\ TaskCommitAt(t) \in 1 .. n
          /\ ledger.commits[TaskCommitAt(t)].task = t
      BY <1>1, <1>4, <2>1, <3>1, TaskCommitAtIs
    <3>3. TaskCommitAt(t) = i
      BY <1>2, <3>1, <3>2
    <3>4. Id(i) = run[r].parent
      BY <1>0, <1>2, <3>2, <3>3 DEF Follows
    <3>5. QED
      BY <1>8, <2>2, <3>4
  <2>3. CASE j # n + 1
    <3>1. j \in 1 .. n
      BY <1>2, <2>3
    <3>2. \A k \in (i + 1)..(j - 1) : k \in 1 .. n
      BY <1>2, <2>1, <3>1
    <3>3. QED
      BY <1>2, <1>4, <2>1, <3>1, <3>2 DEF Following
  <2>4. QED
    BY <2>2, <2>3
<1>11. CommitsStayDeclared'
  <2>1. \A u : Allowed(u)' = Allowed(u)
    BY <1>2 DEF Allowed
  <2>2. ASSUME NEW i \in 1 .. n + 1
        PROVE  Changed(TreeOf(ledger.commits[i].parent)', ledger'.commits[i].tree)
                  \subseteq Allowed(ledger.commits[i].task)'
    <3>1. CASE i = n + 1
      <4>1. Diff(run[r]) \subseteq Allowed(t)
        BY <1>0, <1>5 DEF SnapshotOf
      <4>2. t = ledger'.commits[i].task
        BY <1>8, <3>1
      <4>3. Allowed(t)' = Allowed(ledger.commits[i].task)'
        BY <4>2 DEF Allowed
      <4>4. QED
        BY <1>8, <2>1, <3>1, <4>1, <4>3 DEF Diff
    <3>2. CASE i # n + 1
      <4>1. i \in 1 .. n
        BY <1>2, <3>2
      <4>2. ledger'.commits[i] = ledger.commits[i]
        BY <1>2, <1>4, <4>1
      <4>3. Allowed(ledger.commits[i].task)' = Allowed(ledger.commits[i].task)
        BY <1>2, <4>2 DEF Allowed
      <4>4. QED
        BY <1>2, <1>4, <1>7, <4>1, <4>2, <4>3 DEF CommitsStayDeclared
    <3>3. QED
      BY <3>1, <3>2
  <2>3. QED
    BY <1>2, <2>2 DEF CommitsStayDeclared, Changed
<1>12. QED
  BY <1>9, <1>10, <1>11

----------------------------------------------------------------------------
(* The commits a commit is built on, in closed form *)

\* The commits reached from a commit: the least set closed under the parent.
Up(S) == \A j \in DOMAIN ledger.commits :
            Id(j) \in S /\ IsCommit(ledger.commits[j].parent) => ledger.commits[j].parent \in S
Line(i) == {c \in Nat : \A S \in SUBSET Nat : Id(i) \in S /\ Up(S) => c \in S}

\* A commit is built on an earlier one.
LEMMA BuiltOn ==
    ASSUME TypeInv, LedgerInv, NEW i \in DOMAIN ledger.commits,
           IsCommit(ledger.commits[i].parent)
    PROVE  LET p == ledger.commits[i].parent IN
           p - 2 \in DOMAIN ledger.commits /\ p - 2 < i /\ p = Id(p - 2) /\ p \in Nat
<1>1. DOMAIN ledger.commits = 1 .. Len(ledger.commits) /\ Len(ledger.commits) \in Nat
  BY CommitsTyped
<1>2. ledger.commits[i].parent \in 1 .. i + 1
  BY DEF LedgerInv
<1>3. QED
  BY <1>1, <1>2 DEF IsCommit, Id

\* The closed form satisfies the recursive equation.
LEMMA LineEquation ==
    ASSUME TypeInv, LedgerInv, NEW i \in DOMAIN ledger.commits
    PROVE  Line(i) = {Id(i)} \cup (IF IsCommit(ledger.commits[i].parent)
                                   THEN Line(ledger.commits[i].parent - 2) ELSE {})
<1> DEFINE p == ledger.commits[i].parent
           More == IF IsCommit(p) THEN Line(p - 2) ELSE {}
           S0 == {Id(i)} \cup More
<1>1. i \in Nat /\ Id(i) \in Nat /\ \A j \in DOMAIN ledger.commits : Id(j) = Id(i) => j = i
  BY CommitsTyped DEF Id
<1>2. More \subseteq Nat
  BY DEF Line
<1>3. S0 \subseteq Line(i)
  <2>1. Id(i) \in Line(i)
    BY <1>1 DEF Line
  <2>2. ASSUME IsCommit(p) PROVE Line(p - 2) \subseteq Line(i)
    <3>1. p = Id(p - 2)
      BY <2>2, BuiltOn
    <3>2. \A S \in SUBSET Nat : Id(i) \in S /\ Up(S) => Id(p - 2) \in S
      BY <2>2, <3>1 DEF Up
    <3>3. QED
      BY <3>2 DEF Line
  <2>3. QED
    BY <2>1, <2>2
<1>4. Line(i) \subseteq S0
  <2>1. ASSUME NEW j \in DOMAIN ledger.commits, Id(j) \in S0, IsCommit(ledger.commits[j].parent)
        PROVE  ledger.commits[j].parent \in S0
    <3>1. CASE Id(j) = Id(i)
      <4>1. j = i /\ IsCommit(p) /\ p = Id(p - 2) /\ p \in Nat
        BY <1>1, <2>1, <3>1, BuiltOn
      <4>2. p \in Line(p - 2)
        BY <4>1 DEF Line
      <4>3. QED
        BY <4>1, <4>2
    <3>2. CASE Id(j) # Id(i)
      <4>1. IsCommit(p) /\ Id(j) \in Line(p - 2)
        BY <2>1, <3>2
      <4>2. ledger.commits[j].parent \in Nat
        BY <2>1, BuiltOn
      <4>3. ledger.commits[j].parent \in Line(p - 2)
        BY <2>1, <4>1, <4>2 DEF Line, Up
      <4>4. QED
        BY <4>1, <4>3
    <3>3. QED
      BY <3>1, <3>2
  <2>2. S0 \in SUBSET Nat /\ Id(i) \in S0
    BY <1>1, <1>2
  <2> HIDE DEF S0
  <2>3. Up(S0)
    BY <2>1 DEF Up
  <2>4. QED
    BY <2>2, <2>3 DEF Line
<1>5. QED
  BY <1>3, <1>4

\* Ancestry has the values its recursive definition gives it.
LEMMA AncestryEquation ==
    ASSUME NEW f, f = [i \in DOMAIN ledger.commits |->
                          {Id(i)} \cup (IF IsCommit(ledger.commits[i].parent)
                                        THEN f[ledger.commits[i].parent - 2] ELSE {})]
    PROVE  Ancestry = [i \in DOMAIN ledger.commits |->
                          {Id(i)} \cup (IF IsCommit(ledger.commits[i].parent)
                                        THEN Ancestry[ledger.commits[i].parent - 2] ELSE {})]
  BY DEF Ancestry

\* Ancestry is the closed form.
LEMMA AncestryIs ==
    TypeInv /\ LedgerInv => \A i \in DOMAIN ledger.commits : Ancestry[i] = Line(i)
<1> SUFFICES ASSUME TypeInv, LedgerInv
             PROVE  \A i \in DOMAIN ledger.commits : Ancestry[i] = Line(i)
  OBVIOUS
<1> DEFINE f == [i \in DOMAIN ledger.commits |-> Line(i)]
<1>1. f = [i \in DOMAIN ledger.commits |->
              {Id(i)} \cup (IF IsCommit(ledger.commits[i].parent)
                            THEN f[ledger.commits[i].parent - 2] ELSE {})]
  <2>1. ASSUME NEW i \in DOMAIN ledger.commits
        PROVE  Line(i) = {Id(i)} \cup (IF IsCommit(ledger.commits[i].parent)
                                       THEN f[ledger.commits[i].parent - 2] ELSE {})
    <3>1. CASE IsCommit(ledger.commits[i].parent)
      <4>1. ledger.commits[i].parent - 2 \in DOMAIN ledger.commits
        BY <3>1, BuiltOn
      <4>2. f[ledger.commits[i].parent - 2] = Line(ledger.commits[i].parent - 2)
        BY <4>1
      <4>3. QED
        BY <4>2, LineEquation
    <3>2. CASE ~IsCommit(ledger.commits[i].parent)
      BY <3>2, LineEquation
    <3>3. QED
      BY <3>1, <3>2
  <2>2. QED
    BY <2>1
<1> HIDE DEF f
<1>2. Ancestry = [i \in DOMAIN ledger.commits |->
                     {Id(i)} \cup (IF IsCommit(ledger.commits[i].parent)
                                   THEN Ancestry[ledger.commits[i].parent - 2] ELSE {})]
  BY <1>1, AncestryEquation
<1>3. PICK g : g = Ancestry
  OBVIOUS
<1>4. \A i \in DOMAIN ledger.commits :
         g[i] = {Id(i)} \cup (IF IsCommit(ledger.commits[i].parent)
                              THEN g[ledger.commits[i].parent - 2] ELSE {})
  BY <1>2, <1>3
<1> DEFINE Bad == {i \in DOMAIN ledger.commits : g[i] # Line(i)}
           R == OpToRel(<, Nat)
<1>5. SUFFICES ASSUME Bad # {} PROVE FALSE
  BY <1>3
<1>6. IsWellFoundedOn(R, Nat)
  BY NatLessThanWellFounded, Zenon
<1>7. Bad \subseteq Nat
  BY CommitsTyped
<1> HIDE DEF R, Bad
<1>8. PICK x \in Bad : \A y \in Bad : ~ (<<y, x>> \in R)
  BY <1>5, <1>6, <1>7, WFMin
<1>9. \A y \in Bad : ~(y < x)
  BY <1>7, <1>8 DEF R, OpToRel
<1>10. x \in DOMAIN ledger.commits /\ g[x] # Line(x)
  BY <1>8 DEF Bad
<1> DEFINE p == ledger.commits[x].parent
<1>11. CASE IsCommit(p)
  <2>1. p - 2 \in DOMAIN ledger.commits /\ p - 2 < x
    BY <1>10, <1>11, BuiltOn
  <2>2. p - 2 \notin Bad
    BY <1>9, <2>1
  <2>3. g[p - 2] = Line(p - 2)
    BY <2>1, <2>2 DEF Bad
  <2>4. g[x] = {Id(x)} \cup g[p - 2]
    BY <1>4, <1>10, <1>11
  <2>5. Line(x) = {Id(x)} \cup Line(p - 2)
    BY <1>10, <1>11, LineEquation
  <2>6. QED
    BY <1>10, <2>3, <2>4, <2>5
<1>12. CASE ~IsCommit(p)
  <2>1. g[x] = {Id(x)}
    BY <1>4, <1>10, <1>12
  <2>2. Line(x) = {Id(x)}
    BY <1>10, <1>12, LineEquation
  <2>3. QED
    BY <1>10, <2>1, <2>2
<1>13. QED
  BY <1>11, <1>12

\* A commit is built on itself, and on what the commits it is built on are built on.
LEMMA OnItself ==
    ASSUME TypeInv, LedgerInv, NEW i \in DOMAIN ledger.commits
    PROVE  Id(i) \in Ancestry[i]
<1>1. Id(i) \in Nat
  BY CommitsTyped DEF Id
<1>2. QED
  BY <1>1, AncestryIs DEF Line

\* A commit built on another is built on what that one is built on.
LEMMA OnTheSame ==
    ASSUME TypeInv, LedgerInv, NEW i \in DOMAIN ledger.commits,
           NEW j \in DOMAIN ledger.commits, Id(j) \in Ancestry[i], NEW c \in Ancestry[j]
    PROVE  c \in Ancestry[i]
<1>1. Id(j) \in Line(i) /\ c \in Line(j)
  BY AncestryIs
<1>2. QED
  BY <1>1, AncestryIs DEF Line

\* What a commit is built on stays.
LEMMA LinesStay ==
    ASSUME Control, Control', Grown
    PROVE  \A i \in DOMAIN ledger.commits : Ancestry[i] \subseteq Ancestry'[i]
<1>1. TypeInv /\ LedgerInv /\ TypeInv' /\ LedgerInv'
  BY DEF Control
<1>2. (TypeInv /\ LedgerInv => \A i \in DOMAIN ledger.commits : Ancestry[i] = Line(i))'
  BY AncestryIs, PTL
<1>3. \A S : Up(S)' => Up(S)
  BY DEF Up, Grown, SameCommit
<1>4. \A i \in DOMAIN ledger.commits : Line(i) \subseteq Line(i)'
  BY <1>3 DEF Line
<1>5. QED
  BY <1>1, <1>2, <1>4, AncestryIs DEF Grown

----------------------------------------------------------------------------
(* What reached the remote, and what is bound to it *)

\* What stays of the remote and of the PRs, and what marks and binds.
RemoteStays == \A t \in Tasks : \A c : Reached(t, c) => Reached(t, c)'
PrsStay == /\ DOMAIN prs \subseteq DOMAIN prs'
           /\ \A k \in DOMAIN prs : prs'[k].branch = prs[k].branch
Marks(i) == \E r \in Runners : MarkPushed(r) /\ i = run[r].commit - 2
Binds(t) == \E r \in Runners : /\ BindPR(r) \/ Apply(r)
                               /\ t = run[r].task
                               /\ task'[t].pr = run[r].pr /\ task'[t].head = run[r].commit

\* The open PRs stay on their branches, and what may mark a commit pushed or bind a task.
LEMMA Bindings ==
    ASSUME Control, Next
    PROVE  /\ PrsStay
           /\ \A i \in DOMAIN ledger'.commits : ledger'.commits[i].pushed =>
                 Marks(i) \/ (i \in DOMAIN ledger.commits /\ ledger.commits[i].pushed)
           /\ \A t \in Tasks : \/ task'[t].pr = task[t].pr /\ task'[t].head = task[t].head
                               \/ Binds(t)
<1> DEFINE Same == \A i \in DOMAIN ledger'.commits : ledger'.commits[i].pushed =>
                      Marks(i) \/ (i \in DOMAIN ledger.commits /\ ledger.commits[i].pushed)
           Heads == \A t \in Tasks : \/ task'[t].pr = task[t].pr /\ task'[t].head = task[t].head
                                     \/ Binds(t)
           Goal == PrsStay /\ Same /\ Heads
<1>1. TypeInv /\ LockInv /\ LedgerInv /\ HeadInv
  BY DEF Control
<1>2. ASSUME ledger'.commits = ledger.commits PROVE Same
  BY <1>2
<1>3. ASSUME task' = task PROVE Heads
  BY <1>3
<1>4. ASSUME prs' = prs PROVE PrsStay
  BY <1>4 DEF PrsStay
<1>5. ASSUME NEW t \in Tasks, TaskMoves(t), task'[t].pr = task[t].pr,
             task'[t].head = task[t].head
      PROVE  Heads
  BY <1>5 DEF TaskMoves
<1> HIDE DEF Same, Heads
<1>6. ASSUME NEW t \in Tasks,
             (\E p \in Paths : Edit(t, p)) \/ TaskStep(t) \/ Grant(t) \/ ArchiveAttempt(t)
      PROVE  Goal
  <2>1. ASSUME NEW p \in Paths, Edit(t, p) PROVE Goal
    BY <1>1, <1>2, <1>3, <1>4, <2>1, EditIs DEF store, forge
  <2>2. ASSUME TaskStep(t) PROVE Goal
    BY <1>1, <1>2, <1>4, <1>5, <2>2, TaskStepIs DEF forge
  <2>3. ASSUME Grant(t) PROVE Goal
    BY <1>1, <1>2, <1>4, <1>5, <2>3, GrantIs
  <2>4. ASSUME ArchiveAttempt(t) PROVE Goal
    BY <1>1, <1>2, <1>3, <1>4, <2>4, ArchiveIs
  <2>5. QED
    BY <1>6, <2>1, <2>2, <2>3, <2>4
<1>7. ASSUME NEW r \in Runners, RunOnly(r) PROVE Same /\ Heads
  BY <1>2, <1>3, <1>7 DEF RunOnly
<1>8. ASSUME NEW r \in Runners, NEW t \in Tasks, Ask(r, t) PROVE Goal
  BY <1>1, <1>4, <1>7, <1>8, AskIs
<1>9. ASSUME NEW r \in Runners,
             \/ Snapshot(r) \/ PRCheck(r) \/ Verify(r)
             \/ Commit(r) /\ CommitAgain(r)
             \/ Commit(r) /\ (CommitElsewhere(r) \/ CommitNothing(r))
             \/ Push(r) \/ Abandon(r)
      PROVE  Goal
  <2>1. RunOnly(r) /\ prs' = prs
    BY <1>1, <1>9, SnapshotIs, LookIs, CommitAgainIs, CommitLessIs, PushIs, AbandonIs
  <2>2. QED
    BY <1>4, <1>7, <2>1
<1>10. ASSUME NEW r \in Runners, Commit(r), CommitNew(r) PROVE Goal
  <2>1. PICK n : n = Len(ledger.commits)
    OBVIOUS
  <2>2. /\ n \in Nat /\ DOMAIN ledger'.commits = 1 .. n + 1
        /\ \A i \in DOMAIN ledger.commits : ledger'.commits[i] = ledger.commits[i]
        /\ ledger'.commits[n + 1] = NewCommit(r)
        /\ UNCHANGED <<task, prs>>
    BY <1>1, <1>10, <2>1, CommitNewIs
  <2>3. DOMAIN ledger.commits = 1 .. n /\ NewCommit(r).pushed = FALSE
    BY <1>1, <2>1, CommitsTyped DEF NewCommit
  <2>4. Same
    <3> SUFFICES ASSUME NEW i \in DOMAIN ledger'.commits, ledger'.commits[i].pushed
                 PROVE  i \in DOMAIN ledger.commits /\ ledger.commits[i].pushed
      BY DEF Same
    <3>1. i # n + 1
      BY <2>2, <2>3
    <3>2. i \in 1 .. n
      BY <2>2, <3>1
    <3>3. QED
      BY <2>2, <2>3, <3>2
  <2>5. QED
    BY <1>3, <1>4, <2>2, <2>4
<1>11. ASSUME NEW r \in Runners, MarkPushed(r) PROVE Goal
  <2>1. PICK k : k = run[r].commit - 2
    OBVIOUS
  <2>2. /\ DOMAIN ledger'.commits = DOMAIN ledger.commits
        /\ \A i \in DOMAIN ledger.commits : i # k => ledger'.commits[i] = ledger.commits[i]
        /\ UNCHANGED <<task, prs>>
    BY <1>1, <1>11, <2>1, MarkIs
  <2>3. Same
    <3>1. Marks(k)
      BY <1>11, <2>1 DEF Marks
    <3>2. QED
      BY <2>2, <3>1 DEF Same
  <2>4. QED
    BY <1>3, <1>4, <2>2, <2>3
<1>12. ASSUME NEW r \in Runners, OpenPR(r) PROVE Goal
  <2>1. RunOnly(r) /\ PrsStay
    BY <1>1, <1>12, OpenPRIs DEF PrsStay
  <2>2. QED
    BY <1>7, <2>1
<1>13. ASSUME NEW r \in Runners, BindPR(r) PROVE Goal
  <2>1. PrsStay /\ Same
    BY <1>1, <1>2, <1>13, BindIs DEF PrsStay
  <2>2. Heads
    BY <1>1, <1>13, BindIs DEF Heads, Binds, TaskMoves
  <2>3. QED
    BY <2>1, <2>2
<1>14. ASSUME NEW r \in Runners, Settling(r) PROVE Goal
  BY <1>1, <1>2, <1>3, <1>4, <1>14, SettleIs
<1>15. ASSUME NEW r \in Runners, ForgetLease(r) PROVE Goal
  BY <1>1, <1>2, <1>3, <1>4, <1>15, ForgetIs
<1>16. ASSUME NEW r \in Runners, Apply(r) PROVE Goal
  <2>1. PrsStay /\ Same
    BY <1>1, <1>2, <1>4, <1>16, ApplyIs DEF forge
  <2>2. Heads
    <3>1. /\ TaskMoves(run[r].task)
          /\ \/ task' = task
             \/ /\ task'[run[r].task].pr = task[run[r].task].pr
                /\ task'[run[r].task].head = task[run[r].task].head
             \/ /\ task'[run[r].task].pr = run[r].pr
                /\ task'[run[r].task].head = run[r].commit
      BY <1>1, <1>16, ApplyIs
    <3>2. QED
      BY <1>16, <3>1 DEF Heads, Binds, TaskMoves
  <2>3. QED
    BY <2>1, <2>2
<1>17. ASSUME ReserveSeat \/ KeepLeftover \/ Cleanses \/ ClearLease \/ ReleaseSeat
       PROVE  Goal
  <2>1. ledger'.commits = ledger.commits /\ UNCHANGED <<prs, task>>
    BY <1>1, <1>17, ReserveIs, KeepIs, CleanseIs, ClearIs, ReleaseIs
  <2>2. QED
    BY <1>2, <1>3, <1>4, <2>1
<1>18. ASSUME NEW base \in Bases, StartTask(base) PROVE Goal
  BY <1>1, <1>2, <1>3, <1>4, <1>18, StartIs
<1>19. ASSUME MoveFiles \/ Ring \/ TickDies PROVE Goal
  <2>1. UNCHANGED <<ledger, prs, task>>
    BY <1>1, <1>19, MoveIs DEF Ring, TickDies, store, forge
  <2>2. QED
    BY <1>2, <1>3, <1>4, <2>1
<1>20. ASSUME Unprepared PROVE Goal
  BY <1>1, <1>2, <1>4, <1>5, <1>20, UnpreparedIs
<1>21. ASSUME Outside PROVE Goal
  <2>1. PrsStay /\ UNCHANGED <<ledger, task>>
    BY <1>1, <1>21, OutsideIs DEF PrsStay
  <2>2. QED
    BY <1>2, <1>3, <2>1
<1> HIDE DEF Goal
<1>22. Goal
  BY NextIs, <1>6, <1>8, <1>9, <1>10, <1>11, <1>12, <1>13, <1>14, <1>15, <1>16, <1>17, <1>18,
     <1>19, <1>20, <1>21
<1>23. QED
  BY <1>22 DEF Goal, Same, Heads

\* What a remote branch has reached, it keeps: every push is a fast-forward.
LEMMA RemoteHolds ==
    ASSUME Control, Control', RemoteInv, Next
    PROVE  RemoteStays
<1>1. TypeInv /\ LedgerInv /\ LockInv
  BY DEF Control
<1>2. Grown /\ (remote' = remote \/ Pushes)
  BY Effects
<1>3. SUFFICES ASSUME NEW t \in Tasks, NEW c, Reached(t, c) PROVE Reached(t, c)'
  BY DEF RemoteStays
<1>4. PICK j : j = remote[t] - 2
  OBVIOUS
<1>5. remote[t] # 0 /\ c \in Ancestry[j] /\ j \in DOMAIN ledger.commits
      /\ remote[t] \in Nat /\ j \in Nat
  BY <1>1, <1>3, <1>4, CommitsTyped DEF Reached, RemoteInv, OnBranches, CommitOf, TypeInv
<1>6. CASE remote'[t] = remote[t]
  <2>1. c \in Ancestry'[j]
    BY <1>2, <1>5, LinesStay
  <2>2. QED
    BY <1>4, <1>5, <1>6, <2>1 DEF Reached
<1>7. CASE remote'[t] # remote[t]
  <2>1. PICK r \in Runners : Push(r)
    BY <1>2, <1>7 DEF Pushes
  <2>2. PICK k : k = run[r].commit - 2
    OBVIOUS
  <2>3. /\ run[r].at = "push" /\ ledger' = ledger
        /\ t = run[r].task /\ remote[t] \in Ancestry[k] \cup {0}
        /\ remote'[t] = run[r].commit
    BY <1>1, <1>7, <2>1, <2>2, PushIs DEF RunOnly
  <2>4. k \in DOMAIN ledger.commits /\ k \in Nat /\ run[r].commit \in Nat
    <3>1. k \in DOMAIN ledger.commits
      BY <1>1, <2>2, <2>3 DEF LedgerInv, CommitOf
    <3>2. run[r].commit \in Nat
      BY <1>1 DEF TypeInv, Running
    <3>3. QED
      BY <1>1, <3>1, <3>2, CommitsTyped
  <2>5. Id(j) = remote[t]
    BY <1>4, <1>5 DEF Id
  <2>6. c \in Ancestry[k]
    BY <1>1, <1>5, <2>3, <2>4, <2>5, OnTheSame
  <2>7. c \in Ancestry'[k]
    BY <1>2, <2>4, <2>6, LinesStay
  <2>8. k \in 1 .. Len(ledger.commits) /\ Len(ledger.commits) \in Nat
    BY <1>1, <2>4, CommitsTyped
  <2>9. remote'[t] # 0 /\ k = remote'[t] - 2
    BY <2>2, <2>3, <2>4, <2>8
  <2>10. QED
    BY <2>7, <2>9 DEF Reached
<1>8. QED
  BY <1>6, <1>7

\* A binding stays good.
LEMMA BoundStays ==
    ASSUME RemoteStays, PrsStay, NEW t \in Tasks, NEW i, NEW c, BoundTo(t, i, c)
    PROVE  BoundTo(t, i, c)'
  BY DEF BoundTo, RemoteStays, PrsStay

\* A step that keeps what a runner carries.
LEMMA CarriesOn ==
    ASSUME TypeInv, RemoteStays, PrsStay, NEW r \in Runners, run[r].at # "idle",
           Carries(run[r]), run'[r].task = run[r].task, run'[r].pr = run[r].pr,
           run'[r].commit = run[r].commit,
           run'[r].at \in {"mark", "openpr", "bind"} =>
              run[r].at \in {"mark", "openpr", "bind"} \/ Reached(run[r].task, run[r].commit)',
           run'[r].at \in {"lock", "prcheck", "verify", "commit"} =>
              run[r].at \in {"lock", "prcheck", "verify", "commit"}
    PROVE  Carries(run[r])'
<1>1. PICK t, i, c : t = run[r].task /\ i = run[r].pr /\ c = run[r].commit
  OBVIOUS
<1>2. t \in Tasks
  BY <1>1 DEF TypeInv
<1>3. BoundTo(t, i, c)'
  BY <1>1, <1>2, BoundStays DEF Carries
<1>4. BoundTo(run[r].task, run[r].pr, run[r].commit)'
  BY <1>1, <1>3 DEF BoundTo, Reached
<1>5. run'[r].at \in {"lock", "prcheck", "verify", "commit"} => run'[r].pr = 0
  BY DEF Carries
<1>6. ASSUME run'[r].at \in {"mark", "openpr", "bind"}
      PROVE  Reached(run[r].task, run[r].commit)'
  <2>1. ASSUME Reached(t, c)' PROVE Reached(run[r].task, run[r].commit)'
    BY <1>1, <2>1 DEF Reached
  <2>2. ASSUME run[r].at \in {"mark", "openpr", "bind"} PROVE Reached(t, c)'
    BY <1>1, <1>2, <2>2 DEF Carries, RemoteStays
  <2>3. QED
    BY <1>6, <2>1, <2>2
<1>7. QED
  BY <1>4, <1>5, <1>6 DEF Carries

\* A step that has no PR yet.
LEMMA CarriesNone ==
    ASSUME NEW r \in Runners, run'[r].pr = 0,
           run'[r].at \in {"mark", "openpr", "bind"} => Reached(run[r].task, run[r].commit)'
    PROVE  Carries(run[r])'
  BY DEF Carries, BoundTo

\* A commit found pushed is on the remote.
LEMMA AgainCarries ==
    ASSUME Control, RemoteInv, RemoteStays, NEW r \in Runners, Commit(r), CommitAgain(r)
    PROVE  Carries(run[r])'
<1>1. TypeInv /\ LockInv
  BY DEF Control
<1>2. PICK i, t : i = Recorded(r) /\ t = run[r].task
  OBVIOUS
<1>3. /\ run[r].at = "commit" /\ t \in Tasks
      /\ i \in DOMAIN ledger.commits /\ ledger.commits[i].task = t
      /\ run'[r].task = t /\ run'[r].pr = run[r].pr /\ run'[r].commit = Id(i)
      /\ \/ run'[r].at = "push"
         \/ run'[r].at = "openpr" /\ ledger.commits[i].pushed
  BY <1>1, <1>2, CommitAgainIs
<1>4. run'[r].pr = 0
  BY <1>3 DEF RemoteInv, Carries
<1>5. ASSUME run'[r].at \in {"mark", "openpr", "bind"}
      PROVE  Reached(run[r].task, run[r].commit)'
  <2>1. ledger.commits[i].pushed
    BY <1>3, <1>5
  <2>2. Reached(t, Id(i))
    BY <1>3, <2>1 DEF RemoteInv
  <2>3. PICK c : c = Id(i)
    OBVIOUS
  <2>4. Reached(t, c)'
    BY <1>3, <2>2, <2>3 DEF RemoteStays
  <2>5. QED
    BY <1>3, <2>3, <2>4 DEF Reached
<1>6. QED
  BY <1>4, <1>5, CarriesNone

\* A push that is taken brings the commit to the remote.
LEMMA PushCarries ==
    ASSUME Control, Control', RemoteInv, RemoteStays, PrsStay, NEW r \in Runners, Push(r)
    PROVE  Carries(run[r])'
<1>1. TypeInv /\ LockInv /\ LedgerInv
  BY DEF Control
<1>2. /\ run[r].at = "push" /\ run[r].task \in Tasks /\ ledger' = ledger
      /\ run'[r].task = run[r].task /\ run'[r].pr = run[r].pr
      /\ run'[r].commit = run[r].commit
      /\ \/ run'[r].at = "decided"
         \/ run'[r].at = "mark" /\ remote'[run[r].task] = run[r].commit
  BY <1>1, PushIs DEF RunOnly
<1>3. Carries(run[r])
  BY <1>2 DEF RemoteInv
<1>4. ASSUME run'[r].at = "mark" PROVE Reached(run[r].task, run[r].commit)'
  <2>1. PICK k, t, c : k = run[r].commit - 2 /\ t = run[r].task /\ c = run[r].commit
    OBVIOUS
  <2>2. k \in DOMAIN ledger.commits
    BY <1>1, <1>2, <2>1 DEF LedgerInv, CommitOf
  <2>3. c \in Nat /\ k \in 1 .. Len(ledger.commits) /\ Len(ledger.commits) \in Nat
    BY <1>1, <2>1, <2>2, CommitsTyped DEF TypeInv, Running
  <2>4. c = Id(k) /\ c # 0
    BY <2>1, <2>3 DEF Id
  <2>5. c \in Ancestry[k]
    BY <1>1, <2>2, <2>4, OnItself
  <2>6. c \in Ancestry'[k]
    BY <1>1, <1>2, <2>2, <2>5, LinesStay, KeptCommits
  <2>7. remote'[t] = c
    BY <1>2, <1>4, <2>1
  <2>8. Reached(t, c)'
    BY <2>1, <2>4, <2>6, <2>7 DEF Reached
  <2>9. QED
    BY <1>2, <2>1, <2>8 DEF Reached
<1>5. QED
  BY <1>1, <1>2, <1>3, <1>4, CarriesOn

\* The PR found or opened is on the branch of the task.
LEMMA OpenCarries ==
    ASSUME Control, RemoteInv, RemoteStays, PrsStay, NEW r \in Runners, OpenPR(r)
    PROVE  Carries(run[r])'
<1>1. TypeInv /\ LockInv
  BY DEF Control
<1>2. PICK t, c, i : t = run[r].task /\ c = run[r].commit /\ i = run'[r].pr
  OBVIOUS
<1>3. /\ run[r].at = "openpr" /\ t \in Tasks /\ run'[r].task = t /\ run'[r].commit = c
      /\ \/ run'[r].at = "decided" /\ run'[r].pr = run[r].pr
         \/ run'[r].at = "bind" /\ i \in DOMAIN prs' /\ prs'[i].branch = t
  BY <1>1, <1>2, OpenPRIs
<1>4. Carries(run[r])
  BY <1>3 DEF RemoteInv
<1>5. Reached(t, c)'
  BY <1>2, <1>3, <1>4 DEF Carries, RemoteStays
<1>6. Reached(run[r].task, run[r].commit)'
  BY <1>3, <1>5 DEF Reached
<1>7. CASE run'[r].at = "decided"
  BY <1>1, <1>2, <1>3, <1>4, <1>6, <1>7, CarriesOn
<1>8. CASE run'[r].at = "bind"
  <2>1. BoundTo(t, i, c)'
    BY <1>3, <1>5, <1>8 DEF BoundTo
  <2>2. BoundTo(run[r].task, run[r].pr, run[r].commit)'
    BY <1>2, <1>3, <2>1 DEF BoundTo, Reached
  <2>3. QED
    BY <1>6, <1>8, <2>2 DEF Carries
<1>9. QED
  BY <1>3, <1>7, <1>8

\* Every step of a runner keeps what it carries.
LEMMA RunCarries ==
    ASSUME Control, Control', RemoteInv, RemoteStays, PrsStay, Next,
           NEW q \in Runners, run'[q].at # "idle"
    PROVE  Carries(run[q])'
<1>1. TypeInv /\ LockInv /\ LedgerInv /\ HeadInv
  BY DEF Control
<1>2. ASSUME run'[q] = run[q] PROVE Carries(run[q])'
  BY <1>1, <1>2, CarriesOn DEF RemoteInv
<1>3. ASSUME NEW r \in Runners, Moves(r), q # r PROVE Carries(run[q])'
  BY <1>2, <1>3 DEF Moves, Others
<1>4. ASSUME NEW r \in Runners, Moves(r), Carries(run[r])' PROVE Carries(run[q])'
  BY <1>3, <1>4
<1>5. ASSUME NEW r \in Runners, run[r].at # "idle", run'[r].task = run[r].task,
             run'[r].pr = run[r].pr, run'[r].commit = run[r].commit,
             run'[r].at \in {"mark", "openpr", "bind"} =>
                run[r].at \in {"mark", "openpr", "bind"},
             run'[r].at \in {"lock", "prcheck", "verify", "commit"} =>
                run[r].at \in {"lock", "prcheck", "verify", "commit"}
      PROVE  Carries(run[r])'
  BY <1>1, <1>5, CarriesOn DEF RemoteInv
<1>6. ASSUME NEW t \in Tasks,
             (\E p \in Paths : Edit(t, p)) \/ TaskStep(t) \/ Grant(t) \/ ArchiveAttempt(t)
      PROVE  Carries(run[q])'
  BY <1>1, <1>2, <1>6, EditIs, TaskStepIs, GrantIs, ArchiveIs
<1>7. ASSUME NEW r \in Runners, NEW t \in Tasks, Ask(r, t) PROVE Carries(run[q])'
  <2>1. Moves(r) /\ run'[r].at = "lock" /\ run'[r].pr = 0
    BY <1>1, <1>7, AskIs DEF RunOnly
  <2>2. Carries(run[r])'
    BY <2>1, CarriesNone
  <2>3. QED
    BY <1>4, <2>1, <2>2
<1>8. ASSUME NEW r \in Runners,
             \/ Snapshot(r) \/ PRCheck(r) \/ Verify(r)
             \/ Commit(r) /\ (CommitElsewhere(r) \/ CommitNothing(r))
      PROVE  Carries(run[q])'
  <2>1. /\ Moves(r) /\ run[r].at \in {"lock", "prcheck", "verify", "commit"}
        /\ run'[r].task = run[r].task /\ run'[r].pr = run[r].pr
        /\ run'[r].commit = run[r].commit
        /\ run'[r].at \in {"prcheck", "verify", "commit", "decided", "rest"}
    BY <1>1, <1>8, SnapshotIs, LookIs, CommitLessIs DEF RunOnly
  <2>2. QED
    BY <1>4, <1>5, <2>1
<1>9. ASSUME NEW r \in Runners, Commit(r), CommitAgain(r) PROVE Carries(run[q])'
  <2>1. Moves(r)
    BY <1>1, <1>9, CommitAgainIs DEF RunOnly
  <2>2. QED
    BY <1>4, <1>9, <2>1, AgainCarries
<1>10. ASSUME NEW r \in Runners, Commit(r), CommitNew(r) PROVE Carries(run[q])'
  <2>1. Moves(r) /\ run[r].at = "commit" /\ run'[r].at = "push" /\ run'[r].pr = run[r].pr
    BY <1>1, <1>10, CommitNewIs
  <2>2. run'[r].pr = 0
    BY <2>1 DEF RemoteInv, Carries
  <2>3. QED
    BY <1>4, <2>1, <2>2, CarriesNone
<1>11. ASSUME NEW r \in Runners, Push(r) PROVE Carries(run[q])'
  <2>1. Moves(r)
    BY <1>1, <1>11, PushIs DEF RunOnly
  <2>2. QED
    BY <1>4, <1>11, <2>1, PushCarries
<1>12. ASSUME NEW r \in Runners, OpenPR(r) PROVE Carries(run[q])'
  <2>1. Moves(r)
    BY <1>1, <1>12, OpenPRIs DEF RunOnly
  <2>2. QED
    BY <1>4, <1>12, <2>1, OpenCarries
<1>13. ASSUME NEW r \in Runners, MarkPushed(r) \/ BindPR(r) \/ Settling(r) \/ ForgetLease(r)
       PROVE  Carries(run[q])'
  <2>1. ASSUME MarkPushed(r) PROVE Carries(run[q])'
    BY <1>1, <1>4, <1>5, <2>1, MarkIs
  <2>2. ASSUME BindPR(r) PROVE Carries(run[q])'
    BY <1>1, <1>4, <1>5, <2>2, BindIs
  <2>3. ASSUME Settling(r) PROVE Carries(run[q])'
    BY <1>1, <1>4, <1>5, <2>3, SettleIs DEF RunOnly
  <2>4. ASSUME ForgetLease(r) PROVE Carries(run[q])'
    BY <1>1, <1>4, <1>5, <2>4, ForgetIs
  <2>5. QED
    BY <1>13, <2>1, <2>2, <2>3, <2>4
<1>14. ASSUME NEW r \in Runners, Abandon(r) \/ Apply(r) PROVE Carries(run[q])'
  <2>1. Moves(r) /\ run'[r].at = "idle"
    BY <1>1, <1>14, AbandonIs, ApplyIs, IdlesTyped DEF RunOnly
  <2>2. q # r
    BY <2>1
  <2>3. QED
    BY <1>3, <2>1, <2>2
<1>15. ASSUME \/ ReserveSeat \/ KeepLeftover \/ Cleanses \/ ClearLease \/ ReleaseSeat
              \/ \E base \in Bases : StartTask(base)
       PROVE  Carries(run[q])'
  BY <1>1, <1>2, <1>15, ReserveIs, KeepIs, CleanseIs, ClearIs, ReleaseIs, StartIs
<1>16. ASSUME MoveFiles \/ Ring \/ Unprepared \/ TickDies \/ Outside PROVE Carries(run[q])'
  BY <1>1, <1>2, <1>16, MoveIs, UnpreparedIs, OutsideIs DEF Ring, TickDies
<1>17. QED
  BY NextIs, <1>6, <1>7, <1>8, <1>9, <1>10, <1>11, <1>12, <1>13, <1>14, <1>15, <1>16

\* The remote part is inductive.
LEMMA RemoteStep ==
    ASSUME Control, Control', RemoteInv, Next
    PROVE  RemoteInv'
<1>1. TypeInv /\ LockInv /\ LedgerInv
  BY DEF Control
<1>2. RemoteStays /\ Grown /\ (remote' = remote \/ Pushes)
  BY RemoteHolds, Effects
<1>3. /\ PrsStay
      /\ \A i \in DOMAIN ledger'.commits : ledger'.commits[i].pushed =>
            Marks(i) \/ (i \in DOMAIN ledger.commits /\ ledger.commits[i].pushed)
      /\ \A t \in Tasks : \/ task'[t].pr = task[t].pr /\ task'[t].head = task[t].head
                          \/ Binds(t)
  BY Bindings
<1>4. ASSUME NEW t \in Tasks, remote'[t] # 0 PROVE CommitOf(t, remote[t])'
  <2>1. ASSUME NEW c, CommitOf(t, c) PROVE CommitOf(t, c)'
    BY <1>2, <2>1 DEF CommitOf, Grown, SameCommit
  <2>2. PICK c : c = remote'[t]
    OBVIOUS
  <2>3. CommitOf(t, c)
    <3>1. CASE remote'[t] = remote[t]
      BY <1>4, <2>2, <3>1 DEF RemoteInv, OnBranches
    <3>2. CASE remote'[t] # remote[t]
      <4>1. PICK r \in Runners : Push(r)
        BY <1>2, <3>2 DEF Pushes
      <4>2. run[r].at = "push" /\ t = run[r].task /\ c = run[r].commit
        BY <1>1, <2>2, <3>2, <4>1, PushIs
      <4>3. QED
        BY <1>1, <4>2 DEF LedgerInv
    <3>3. QED
      BY <3>1, <3>2
  <2>4. CommitOf(t, c)'
    BY <2>1, <2>3
  <2>5. QED
    BY <2>2, <2>4 DEF CommitOf
<1>5. ASSUME NEW i \in DOMAIN ledger'.commits, ledger'.commits[i].pushed
      PROVE  Reached(ledger.commits[i].task, Id(i))'
  <2>1. i \in DOMAIN ledger.commits /\ Reached(ledger.commits[i].task, Id(i))
    <3>1. CASE i \in DOMAIN ledger.commits /\ ledger.commits[i].pushed
      BY <3>1 DEF RemoteInv
    <3>2. CASE Marks(i)
      <4>1. PICK r \in Runners : MarkPushed(r) /\ i = run[r].commit - 2
        BY <3>2 DEF Marks
      <4>2. run[r].at = "mark" /\ i \in DOMAIN ledger.commits
            /\ ledger.commits[i].task = run[r].task
        BY <1>1, <4>1, MarkIs
      <4>3. Carries(run[r])
        BY <4>2 DEF RemoteInv
      <4>4. run[r].commit = Id(i)
        <5>1. run[r].commit \in Nat
          BY <1>1 DEF TypeInv, Running
        <5>2. QED
          BY <4>1, <5>1 DEF Id
      <4>5. QED
        BY <4>2, <4>3, <4>4 DEF Carries
    <3>3. QED
      BY <1>3, <1>5, <3>1, <3>2
  <2>2. PICK t, c : t = ledger.commits[i].task /\ c = Id(i)
    OBVIOUS
  <2>3. t \in Tasks
    BY <1>1, <2>1, <2>2, CommitsTyped DEF CommitRecord
  <2>4. Reached(t, c)'
    BY <1>2, <2>1, <2>2, <2>3 DEF RemoteStays
  <2>5. t = ledger'.commits[i].task
    BY <1>2, <2>1, <2>2 DEF Grown, SameCommit
  <2>6. QED
    BY <2>2, <2>4, <2>5 DEF Reached
<1>6. ASSUME NEW q \in Runners, run'[q].at # "idle" PROVE Carries(run[q])'
  BY <1>2, <1>3, <1>6, RunCarries
<1>7. ASSUME NEW t \in Tasks PROVE BoundTo(t, task[t].pr, task[t].head)'
  <2>1. PICK i, c : i = task'[t].pr /\ c = task'[t].head
    OBVIOUS
  <2>2. BoundTo(t, i, c)
    <3>1. CASE task'[t].pr = task[t].pr /\ task'[t].head = task[t].head
      BY <2>1, <3>1 DEF RemoteInv
    <3>2. CASE Binds(t)
      <4>1. PICK r \in Runners : /\ BindPR(r) \/ Apply(r)
                                 /\ t = run[r].task
                                 /\ task'[t].pr = run[r].pr /\ task'[t].head = run[r].commit
        BY <3>2 DEF Binds
      <4>2. run[r].at # "idle"
        BY <4>1 DEF BindPR, Apply
      <4>3. Carries(run[r])
        BY <4>2 DEF RemoteInv
      <4>4. QED
        BY <2>1, <4>1, <4>3 DEF Carries
    <3>3. QED
      BY <1>3, <3>1, <3>2
  <2>3. BoundTo(t, i, c)'
    BY <1>2, <1>3, <2>2, BoundStays
  <2>4. QED
    BY <2>1, <2>3 DEF BoundTo, Reached
<1>8. QED
  BY <1>4, <1>5, <1>6, <1>7 DEF RemoteInv, OnBranches

----------------------------------------------------------------------------
(* How the tasks of the store go on, and what the other steps leave *)

\* The attempts only go up; a task that leaves the seat is the one that ended
\* last; the files and the records of stopped trees change by few actions.
Leaves(t) == task[t].state \in Held /\ task'[t].state \notin Held
Goes(t) ==
    /\ task'[t].attempt >= task[t].attempt
    /\ task'[t].state \in Held => \/ task[t].state \in Held
                                  \/ task'[t].attempt > task[t].attempt
    /\ task'[t].state = "leased" => task[t].state = "leased" \/ task'[t].attempt > task[t].attempt
    /\ task'[t].state = "reported" => \/ task[t].state \in {"leased", "reported"}
                                      \/ task'[t].attempt > task[t].attempt
    /\ task'[t].state = "refused" =>
          /\ task'[t].attempt = task[t].attempt
          /\ \/ task[t].state = "refused"
             \/ ended' = <<t, task[t].attempt>>
    /\ Leaves(t) => /\ task'[t].attempt = task[t].attempt
                    /\ \/ ended' = <<t, task[t].attempt>>
                       \/ ended' = ended /\ task[t].state = "refused"
EndsHeld == \E t \in Holding : ended' = <<t, task[t].attempt>>
StoreGoes == /\ \A t \in Tasks : Goes(t)
             /\ ended' = ended \/ EndsHeld
FilesGo == \/ files' = files
           \/ \E t \in Tasks : \E p \in Paths : Edit(t, p)
           \/ Cleanses \/ MoveFiles
           \/ \E r \in Runners : Settling(r)
DiscardsGo == \/ ledger'.discarded = ledger.discarded
              \/ KeepLeftover
              \/ \E t \in Tasks : ArchiveAttempt(t)

\* A step that leaves the tasks alone.
LEMMA StillGoes ==
    ASSUME TypeInv, task' = task, ended' = ended
    PROVE  StoreGoes
<1>1. \A t \in Tasks : task[t].attempt \in Nat
  BY DEF TypeInv, TaskRecord
<1>2. QED
  BY <1>1 DEF StoreGoes, Goes, Leaves

\* A step on the record of one task.
LEMMA OneGoes ==
    ASSUME TypeInv, NEW t \in Tasks, TaskMoves(t), Goes(t),
           ended' = ended \/ (ended' = <<t, task[t].attempt>> /\ task[t].state \in Held)
    PROVE  StoreGoes
<1>1. ASSUME NEW u \in Tasks, u # t PROVE Goes(u)
  <2>1. task'[u] = task[u] /\ task[u].attempt \in Nat
    BY <1>1 DEF TaskMoves, TypeInv, TaskRecord
  <2>2. QED
    BY <2>1 DEF Goes, Leaves
<1>2. ended' = ended \/ EndsHeld
  BY DEF EndsHeld, Holding
<1>3. QED
  BY <1>1, <1>2 DEF StoreGoes

\* What each step does to the tasks, the files and the records of stopped trees.
LEMMA GoesOn ==
    ASSUME Control, Next
    PROVE  StoreGoes /\ FilesGo /\ DiscardsGo
<1> DEFINE Goal == StoreGoes /\ FilesGo /\ DiscardsGo
<1>1. TypeInv /\ LockInv /\ LedgerInv /\ HeadInv
  BY DEF Control
<1>2. \A t \in Tasks : task[t].attempt \in Nat
  BY <1>1 DEF TypeInv, TaskRecord
<1>3. ASSUME UNCHANGED <<task, ended>> PROVE StoreGoes
  BY <1>1, <1>3, StillGoes
<1>4. ASSUME files' = files PROVE FilesGo
  BY <1>4 DEF FilesGo
<1>5. ASSUME ledger'.discarded = ledger.discarded PROVE DiscardsGo
  BY <1>5 DEF DiscardsGo
<1>6. ASSUME NEW t \in Tasks, TaskStep(t) PROVE Goal
  <2>1. UNCHANGED <<ledger, files>>
    BY <1>1, <1>6, TaskStepIs DEF tree
  <2>2. /\ TaskMoves(t)
        /\ \/ /\ task'[t].attempt = task[t].attempt
              /\ task'[t].state \notin {"leased", "refused"}
              /\ task'[t].state \in Held => task[t].state = "leased"
              /\ \/ ended' = <<t, task[t].attempt>> /\ task[t].state \in Held
                 \/ ended' = ended /\ (task[t].state \in Held
                                         => task[t].state = "refused"
                                            \/ task'[t].state = "reported")
           \/ /\ task[t].state = "refused" /\ task'[t].state = "reported"
              /\ task'[t].attempt = task[t].attempt + 1 /\ ended' = ended
    BY <1>1, <1>6, TaskStepIs
  <2>3. Goes(t)
    <3>1. CASE /\ task'[t].attempt = task[t].attempt
               /\ task'[t].state \notin {"leased", "refused"}
               /\ task'[t].state \in Held => task[t].state = "leased"
               /\ \/ ended' = <<t, task[t].attempt>> /\ task[t].state \in Held
                  \/ ended' = ended /\ (task[t].state \in Held
                                          => task[t].state = "refused"
                                             \/ task'[t].state = "reported")
      BY <1>2, <3>1 DEF Goes, Leaves, Held
    <3>2. CASE /\ task[t].state = "refused" /\ task'[t].state = "reported"
               /\ task'[t].attempt = task[t].attempt + 1 /\ ended' = ended
      BY <1>2, <3>2 DEF Goes, Leaves, Held
    <3>3. QED
      BY <2>2, <3>1, <3>2
  <2>4. ended' = ended \/ (ended' = <<t, task[t].attempt>> /\ task[t].state \in Held)
    BY <2>2
  <2>5. StoreGoes
    BY <1>1, <2>2, <2>3, <2>4, OneGoes
  <2>6. QED
    BY <1>4, <1>5, <2>1, <2>5
<1>7. ASSUME NEW t \in Tasks, Grant(t) PROVE Goal
  <2>1. /\ TaskMoves(t) /\ task[t].state = "pending" /\ task'[t].state = "leased"
        /\ task'[t].attempt = task[t].attempt + 1 /\ UNCHANGED <<ended, ledger, files>>
    BY <1>1, <1>7, GrantIs
  <2>2. Goes(t)
    BY <1>2, <2>1 DEF Goes, Leaves, Held
  <2>3. QED
    BY <1>1, <1>4, <1>5, <2>1, <2>2, OneGoes
<1>8. ASSUME NEW t \in Tasks, ArchiveAttempt(t) PROVE Goal
  <2>1. UNCHANGED <<task, ended, files>> /\ DiscardsGo
    BY <1>1, <1>8, ArchiveIs DEF DiscardsGo
  <2>2. QED
    BY <1>3, <1>4, <2>1
<1>9. ASSUME NEW t \in Tasks, NEW p \in Paths, Edit(t, p) PROVE Goal
  <2>1. UNCHANGED <<task, ended, ledger>> /\ FilesGo
    BY <1>1, <1>9, EditIs DEF FilesGo, store
  <2>2. QED
    BY <1>3, <1>5, <2>1
<1>10. ASSUME NEW r \in Runners, RunOnly(r) PROVE Goal
  BY <1>3, <1>4, <1>5, <1>10 DEF RunOnly
<1>11. ASSUME NEW r \in Runners, NEW t \in Tasks, Ask(r, t) PROVE Goal
  BY <1>1, <1>10, <1>11, AskIs
<1>12. ASSUME NEW r \in Runners,
              \/ Snapshot(r) \/ PRCheck(r) \/ Verify(r)
              \/ Commit(r) /\ CommitAgain(r)
              \/ Commit(r) /\ (CommitElsewhere(r) \/ CommitNothing(r))
              \/ Push(r) \/ OpenPR(r) \/ Abandon(r)
       PROVE  Goal
  <2>1. RunOnly(r)
    BY <1>1, <1>12, SnapshotIs, LookIs, CommitAgainIs, CommitLessIs, PushIs, OpenPRIs, AbandonIs
  <2>2. QED
    BY <1>10, <2>1
<1>13. ASSUME NEW r \in Runners, (Commit(r) /\ CommitNew(r)) \/ MarkPushed(r) \/ ForgetLease(r)
       PROVE  Goal
  <2>1. UNCHANGED <<task, ended, files>> /\ ledger'.discarded = ledger.discarded
    BY <1>1, <1>13, CommitNewIs, MarkIs, ForgetIs
  <2>2. QED
    BY <1>3, <1>4, <1>5, <2>1
<1>14. ASSUME NEW r \in Runners, BindPR(r) PROVE Goal
  <2>1. PICK t \in Tasks : t = run[r].task
    BY <1>1, <1>14, BindIs
  <2>2. /\ TaskMoves(t) /\ task'[t].state = task[t].state
        /\ task'[t].attempt = task[t].attempt /\ UNCHANGED <<ended, ledger, files>>
    BY <1>1, <1>14, <2>1, BindIs
  <2>3. Goes(t)
    BY <1>2, <2>2 DEF Goes, Leaves
  <2>4. QED
    BY <1>1, <1>4, <1>5, <2>2, <2>3, OneGoes
<1>15. ASSUME NEW r \in Runners, Settling(r) PROVE Goal
  <2>1. UNCHANGED <<task, ended, ledger>> /\ FilesGo
    BY <1>1, <1>15, SettleIs DEF FilesGo
  <2>2. QED
    BY <1>3, <1>5, <2>1
<1>16. ASSUME NEW r \in Runners, Apply(r) PROVE Goal
  <2>1. PICK t : t = run[r].task
    OBVIOUS
  <2>2. t \in Tasks /\ TaskMoves(t) /\ UNCHANGED <<ledger, files>>
        /\ task'[t].attempt = task[t].attempt
        /\ \/ task' = task /\ ended' = ended
           \/ /\ task[t].state = "reported" /\ task'[t].state \in {"completed", "refused"}
              /\ ended' = <<t, task[t].attempt>>
    BY <1>1, <1>16, <2>1, ApplyIs DEF tree
  <2>3. CASE task' = task /\ ended' = ended
    BY <1>3, <1>4, <1>5, <2>2, <2>3
  <2>4. CASE /\ task[t].state = "reported" /\ task'[t].state \in {"completed", "refused"}
             /\ ended' = <<t, task[t].attempt>>
    <3>1. Goes(t) /\ task[t].state \in Held
      BY <1>2, <2>2, <2>4 DEF Goes, Leaves, Held
    <3>2. QED
      BY <1>1, <1>4, <1>5, <2>2, <2>4, <3>1, OneGoes
  <2>5. QED
    BY <2>2, <2>3, <2>4
<1>17. ASSUME \/ ReserveSeat \/ KeepLeftover \/ Cleanses \/ ClearLease \/ ReleaseSeat
              \/ \E base \in Bases : StartTask(base)
              \/ MoveFiles \/ Ring \/ TickDies
       PROVE  Goal
  <2>1. ASSUME ReserveSeat PROVE Goal
    BY <1>1, <1>3, <1>4, <1>5, <2>1, ReserveIs
  <2>2. ASSUME KeepLeftover PROVE Goal
    BY <1>1, <1>3, <1>4, <2>2, KeepIs DEF DiscardsGo
  <2>3. ASSUME Cleanses PROVE Goal
    BY <1>1, <1>3, <1>5, <2>3, CleanseIs DEF FilesGo
  <2>4. ASSUME ClearLease PROVE Goal
    BY <1>1, <1>3, <1>4, <1>5, <2>4, ClearIs
  <2>5. ASSUME ReleaseSeat PROVE Goal
    BY <1>1, <1>3, <1>4, <1>5, <2>5, ReleaseIs
  <2>6. ASSUME NEW base \in Bases, StartTask(base) PROVE Goal
    BY <1>1, <1>3, <1>4, <1>5, <2>6, StartIs
  <2>7. ASSUME MoveFiles PROVE Goal
    BY <1>1, <1>3, <1>5, <2>7, MoveIs DEF FilesGo
  <2>8. ASSUME Ring PROVE Goal
    BY <1>3, <1>4, <1>5, <2>8 DEF Ring, store
  <2>9. ASSUME TickDies PROVE Goal
    BY <1>3, <1>4, <1>5, <2>9 DEF TickDies, store, tree
  <2>10. QED
    BY <1>17, <2>1, <2>2, <2>3, <2>4, <2>5, <2>6, <2>7, <2>8, <2>9
<1>18. ASSUME Unprepared PROVE Goal
  <2>1. PICK t : t = tick.task
    OBVIOUS
  <2>2. /\ t \in Tasks /\ TaskMoves(t) /\ UNCHANGED <<ledger, files>>
        /\ task'[t].attempt = task[t].attempt
        /\ \/ /\ task[t].state = "leased" /\ task'[t].state = "blocked"
              /\ ended' = <<t, task[t].attempt>>
           \/ task' = task /\ ended' = ended
    BY <1>1, <1>18, <2>1, UnpreparedIs
  <2>3. CASE task' = task /\ ended' = ended
    BY <1>3, <1>4, <1>5, <2>2, <2>3
  <2>4. CASE /\ task[t].state = "leased" /\ task'[t].state = "blocked"
             /\ ended' = <<t, task[t].attempt>>
    <3>1. Goes(t) /\ task[t].state \in Held
      BY <1>2, <2>2, <2>4 DEF Goes, Leaves, Held
    <3>2. QED
      BY <1>1, <1>4, <1>5, <2>2, <2>4, <3>1, OneGoes
  <2>5. QED
    BY <2>2, <2>3, <2>4
<1>19. ASSUME Outside PROVE Goal
  BY <1>1, <1>3, <1>4, <1>5, <1>19, OutsideIs
<1> HIDE DEF Goal
<1>20. Goal
  BY NextIs, <1>6, <1>7, <1>8, <1>9, <1>11, <1>12, <1>13, <1>14, <1>15, <1>16, <1>17, <1>18,
     <1>19
<1>21. QED
  BY <1>20 DEF Goal

\* How the step of a runner goes on.
Commits(q) == Commit(q) /\ (\/ CommitAgain(q) \/ CommitNew(q)
                            \/ CommitElsewhere(q) \/ CommitNothing(q))
RunGoes(q) ==
    /\ run'[q].at \notin {"idle", "decided"} =>
          \/ \E t \in Tasks : Ask(q, t)
          \/ /\ run[q].at \notin {"idle", "decided"}
             /\ run'[q].task = run[q].task /\ run'[q].attempt = run[q].attempt
    /\ run'[q].at \in Stepping \ {"forget"} =>
          \/ Snapshot(q)
          \/ /\ run[q].at \in Stepping \ {"forget"} /\ run'[q].tree = run[q].tree
             /\ run'[q].task = run[q].task /\ run'[q].attempt = run[q].attempt
    /\ run'[q].at \in AfterCommit =>
          \/ Commits(q)
          \/ run[q].at \in AfterCommit /\ run'[q].tree = run[q].tree

\* What each step leaves of the step a runner is in.
LEMMA RunsGo ==
    ASSUME Control, Next, NEW q \in Runners
    PROVE  RunGoes(q)
<1>1. TypeInv /\ LockInv /\ LedgerInv /\ HeadInv
  BY DEF Control
<1>2. ASSUME run'[q] = run[q] PROVE RunGoes(q)
  BY <1>2 DEF RunGoes
<1>3. ASSUME NEW r \in Runners, Moves(r), RunGoes(r) PROVE RunGoes(q)
  BY <1>2, <1>3 DEF Moves, Others
<1>4. ASSUME NEW r \in Runners, Moves(r), run'[r].at \in {"idle", "decided"} PROVE RunGoes(q)
  <2>1. RunGoes(r)
    BY <1>4 DEF RunGoes, Stepping, AfterCommit
  <2>2. QED
    BY <1>3, <1>4, <2>1
<1>5. ASSUME NEW t \in Tasks,
             (\E p \in Paths : Edit(t, p)) \/ TaskStep(t) \/ Grant(t) \/ ArchiveAttempt(t)
      PROVE  RunGoes(q)
  BY <1>1, <1>2, <1>5, EditIs, TaskStepIs, GrantIs, ArchiveIs
<1>6. ASSUME NEW r \in Runners, NEW t \in Tasks, Ask(r, t) PROVE RunGoes(q)
  <2>1. Moves(r) /\ run'[r].at = "lock"
    BY <1>1, <1>6, AskIs DEF RunOnly
  <2>2. RunGoes(r)
    BY <1>6, <2>1 DEF RunGoes, Stepping, AfterCommit
  <2>3. QED
    BY <1>3, <2>1, <2>2
<1>7. ASSUME NEW r \in Runners, Snapshot(r) PROVE RunGoes(q)
  <2>1. /\ Moves(r) /\ run[r].at = "lock" /\ run'[r].task = run[r].task
        /\ \/ run'[r].at = "decided"
           \/ run'[r].at = "prcheck" /\ run'[r].attempt = run[r].attempt
    BY <1>1, <1>7, SnapshotIs DEF RunOnly
  <2>2. RunGoes(r)
    BY <1>7, <2>1 DEF RunGoes, Stepping, AfterCommit
  <2>3. QED
    BY <1>3, <2>1, <2>2
<1>8. ASSUME NEW r \in Runners, PRCheck(r) \/ Verify(r) PROVE RunGoes(q)
  <2>1. /\ Moves(r) /\ run[r].at \in {"prcheck", "verify"} /\ run'[r].task = run[r].task
        /\ \/ run'[r].at = "decided"
           \/ /\ run'[r].at \in {"verify", "commit"} /\ run'[r].attempt = run[r].attempt
              /\ run'[r].tree = run[r].tree
    BY <1>1, <1>8, LookIs DEF RunOnly
  <2>2. RunGoes(r)
    BY <2>1 DEF RunGoes, Stepping, AfterCommit
  <2>3. QED
    BY <1>3, <2>1, <2>2
<1>9. ASSUME NEW r \in Runners, Commits(r), Moves(r), run[r].at = "commit",
             run'[r].task = run[r].task,
             \/ run'[r].at = "decided"
             \/ /\ run'[r].at \in {"push", "openpr", "rest"} /\ run'[r].attempt = run[r].attempt
                /\ run'[r].tree = run[r].tree
      PROVE  RunGoes(q)
  <2>1. RunGoes(r)
    BY <1>9 DEF RunGoes, Stepping, AfterCommit
  <2>2. QED
    BY <1>3, <1>9, <2>1
<1>10. ASSUME NEW r \in Runners, Commit(r), CommitAgain(r) PROVE RunGoes(q)
  <2>1. Commits(r)
    BY <1>10 DEF Commits
  <2>2. QED
    BY <1>1, <1>9, <1>10, <2>1, CommitAgainIs DEF RunOnly
<1>11. ASSUME NEW r \in Runners, Commit(r), CommitElsewhere(r) \/ CommitNothing(r)
       PROVE  RunGoes(q)
  <2>1. Commits(r)
    BY <1>11 DEF Commits
  <2>2. QED
    BY <1>1, <1>9, <1>11, <2>1, CommitLessIs DEF RunOnly
<1>12. ASSUME NEW r \in Runners, Commit(r), CommitNew(r) PROVE RunGoes(q)
  <2>1. Commits(r)
    BY <1>12 DEF Commits
  <2>2. QED
    BY <1>1, <1>9, <1>12, <2>1, CommitNewIs
<1>13. ASSUME NEW r \in Runners, Moves(r), run[r].at \in AfterCommit,
              run'[r].task = run[r].task,
              run'[r].at \in (AfterCommit \ {"push"}) \cup {"forget"},
              run'[r].attempt = run[r].attempt, run'[r].tree = run[r].tree
       PROVE  RunGoes(q)
  <2>1. RunGoes(r)
    BY <1>13 DEF RunGoes, Stepping, AfterCommit
  <2>2. QED
    BY <1>3, <1>13, <2>1
<1>14. ASSUME NEW r \in Runners, Push(r) \/ MarkPushed(r) \/ OpenPR(r) PROVE RunGoes(q)
  <2>1. ASSUME Push(r) PROVE RunGoes(q)
    BY <1>1, <1>4, <1>13, <2>1, PushIs DEF RunOnly, AfterCommit
  <2>2. ASSUME MarkPushed(r) PROVE RunGoes(q)
    BY <1>1, <1>13, <2>2, MarkIs DEF AfterCommit
  <2>3. ASSUME OpenPR(r) PROVE RunGoes(q)
    BY <1>1, <1>4, <1>13, <2>3, OpenPRIs DEF RunOnly, AfterCommit
  <2>4. QED
    BY <1>14, <2>1, <2>2, <2>3
<1>15. ASSUME NEW r \in Runners, BindPR(r) \/ Settling(r) \/ ForgetLease(r) PROVE RunGoes(q)
  <2>1. ASSUME BindPR(r) PROVE RunGoes(q)
    BY <1>1, <1>13, <2>1, BindIs DEF AfterCommit
  <2>2. ASSUME Settling(r) PROVE RunGoes(q)
    BY <1>1, <1>4, <1>13, <2>2, SettleIs DEF RunOnly, AfterCommit
  <2>3. ASSUME ForgetLease(r) PROVE RunGoes(q)
    BY <1>1, <1>4, <2>3, ForgetIs
  <2>4. QED
    BY <1>15, <2>1, <2>2, <2>3
<1>16. ASSUME NEW r \in Runners, Abandon(r) \/ Apply(r) PROVE RunGoes(q)
  BY <1>1, <1>4, <1>16, AbandonIs, ApplyIs, IdlesTyped DEF RunOnly
<1>17. ASSUME \/ ReserveSeat \/ KeepLeftover \/ Cleanses \/ ClearLease \/ ReleaseSeat
              \/ \E base \in Bases : StartTask(base)
       PROVE  RunGoes(q)
  BY <1>1, <1>2, <1>17, ReserveIs, KeepIs, CleanseIs, ClearIs, ReleaseIs, StartIs
<1>18. ASSUME MoveFiles \/ Ring \/ Unprepared \/ TickDies \/ Outside PROVE RunGoes(q)
  BY <1>1, <1>2, <1>18, MoveIs, UnpreparedIs, OutsideIs DEF Ring, TickDies
<1>19. QED
  BY NextIs, <1>5, <1>6, <1>7, <1>8, <1>10, <1>11, <1>12, <1>14, <1>15, <1>16, <1>17, <1>18

\* A report waits for the step it was read for: the task is not granted meanwhile.
LEMMA AskedStep ==
    ASSUME Control, AskedInv, Next
    PROVE  AskedInv'
<1>1. TypeInv
  BY DEF Control
<1>2. StoreGoes
  BY GoesOn
<1>3. SUFFICES ASSUME NEW q \in Runners, run'[q].at \notin {"idle", "decided"}
               PROVE  /\ task'[run'[q].task].attempt >= run'[q].attempt
                      /\ task'[run'[q].task].attempt = run'[q].attempt
                            => task'[run'[q].task].state # "leased"
  BY DEF AskedInv
<1>4. PICK t : t = run'[q].task
  OBVIOUS
<1>5. RunGoes(q)
  BY RunsGo
<1>7. CASE \E u \in Tasks : Ask(q, u)
  <2>1. PICK u \in Tasks : Ask(q, u)
    BY <1>7
  <2>2. /\ run'[q].task = u /\ run'[q].attempt = task[u].attempt
        /\ task[u].state = "reported" /\ task' = task
    BY <1>1, <2>1, AskIs DEF RunOnly
  <2>3. task[u].attempt \in Nat /\ t = u
    BY <1>1, <1>4, <2>2 DEF TypeInv, TaskRecord
  <2>4. QED
    BY <2>2, <2>3
<1>8. CASE /\ run[q].at \notin {"idle", "decided"}
           /\ run'[q].task = run[q].task /\ run'[q].attempt = run[q].attempt
  <2>1. t \in Tasks /\ run[q].attempt \in Nat /\ task[t].attempt \in Nat
    BY <1>1, <1>4, <1>8 DEF TypeInv, Running, TaskRecord
  <2>2. /\ task[t].attempt >= run[q].attempt
        /\ task[t].attempt = run[q].attempt => task[t].state # "leased"
    BY <1>4, <1>8 DEF AskedInv
  <2>3. Goes(t) /\ task'[t].attempt \in Nat
    <3>1. TypeInv'
      BY ControlStep DEF Control
    <3>2. QED
      BY <1>2, <2>1, <3>1 DEF StoreGoes, TypeInv, TaskRecord
  <2>4. QED
    BY <1>4, <1>8, <2>1, <2>2, <2>3 DEF Goes
<1>9. QED
  BY <1>3, <1>5, <1>7, <1>8 DEF RunGoes

\* What ended last, and the stopped trees kept of attempts that are over.
LEMMA EndedStep ==
    ASSUME Control, EndedInv, Next
    PROVE  EndedInv'
<1>1. TypeInv /\ HoldInv /\ TypeInv'
  BY ControlStep DEF Control
<1>2. StoreGoes /\ DiscardsGo
  BY GoesOn
<1>3. \A t \in Tasks : /\ Goes(t) /\ task[t].attempt \in Nat /\ task'[t].attempt \in Nat
  BY <1>1, <1>2 DEF StoreGoes, TypeInv, TaskRecord
<1>4. ASSUME NEW t \in Tasks, task'[t].state = "refused" PROVE ended' = <<t, task'[t].attempt>>
  <2>1. /\ task'[t].attempt = task[t].attempt
        /\ \/ task[t].state = "refused"
           \/ ended' = <<t, task[t].attempt>>
    BY <1>3, <1>4 DEF Goes
  <2>2. CASE task[t].state = "refused"
    <3>1. ended = <<t, task[t].attempt>> /\ t \in Holding
      BY <2>2 DEF EndedInv, Holding, Held
    <3>2. ended' = ended \/ ended' = <<t, task[t].attempt>>
      BY <1>1, <1>2, <3>1 DEF StoreGoes, EndsHeld, HoldInv
    <3>3. QED
      BY <2>1, <3>1, <3>2
  <2>3. QED
    BY <2>1, <2>2
<1>5. ASSUME NEW t \in Tasks, ended'[1] = t PROVE ended'[2] <= task'[t].attempt
  <2>1. CASE ended' = ended
    <3>1. ended[2] <= task[t].attempt
      BY <1>5, <2>1 DEF EndedInv
    <3>2. ended[2] \in Nat /\ task'[t].attempt >= task[t].attempt
      BY <1>1, <1>3 DEF TypeInv, Goes
    <3>3. QED
      BY <1>3, <2>1, <3>1, <3>2
  <2>2. CASE EndsHeld
    <3>1. PICK u \in Holding : ended' = <<u, task[u].attempt>>
      BY <2>2 DEF EndsHeld
    <3>2. u = t
      BY <1>5, <3>1
    <3>3. ended'[2] = task[t].attempt
      BY <3>1, <3>2
    <3>4. QED
      BY <1>3, <3>3 DEF Goes
  <2>3. QED
    BY <1>2, <2>1, <2>2 DEF StoreGoes
<1>6. ASSUME NEW d \in ledger'.discarded, NEW t \in Tasks, d.task = t
      PROVE  /\ d.attempt <= task'[t].attempt
             /\ d.attempt = task'[t].attempt => task'[t].state \notin Held
  <2>1. CASE d \in ledger.discarded
    <3>1. /\ d.attempt <= task[t].attempt
          /\ d.attempt = task[t].attempt => task[t].state \notin Held
      BY <1>6, <2>1 DEF EndedInv
    <3>2. d.attempt \in Nat
      BY <1>1, <2>1 DEF TypeInv, Ledger, Stopped
    <3>3. /\ task'[t].attempt >= task[t].attempt
          /\ task'[t].state \in Held => \/ task[t].state \in Held
                                        \/ task'[t].attempt > task[t].attempt
      BY <1>3 DEF Goes
    <3>4. QED
      BY <1>3, <3>1, <3>2, <3>3
  <2>2. CASE d \notin ledger.discarded /\ KeepLeftover
    <3>1. /\ tick.at = "clean" /\ task' = task
          /\ d = [task |-> ended[1], attempt |-> ended[2], tree |-> tick.tree]
      BY <1>1, <1>6, <2>2, KeepIs
    <3>2. task[t].state \notin Held
      BY <1>1, <3>1 DEF HoldInv, SeatFree, Holding, Cleaning
    <3>3. ended[1] = t /\ d.attempt = ended[2]
      BY <1>6, <3>1
    <3>4. QED
      BY <3>1, <3>2, <3>3 DEF EndedInv
  <2>3. CASE d \notin ledger.discarded /\ \E u \in Tasks : ArchiveAttempt(u)
    <3>1. PICK u \in Tasks : ArchiveAttempt(u)
      BY <2>3
    <3>2. /\ task[u].state = "asking" /\ task' = task
          /\ d = [task |-> u, attempt |-> task[u].attempt, tree |-> files]
      BY <1>1, <1>6, <2>3, <3>1, ArchiveIs
    <3>3. u = t /\ d.attempt = task[t].attempt
      BY <1>6, <3>2
    <3>4. QED
      BY <1>3, <3>2, <3>3 DEF Held
  <2>4. QED
    BY <1>2, <1>6, <2>1, <2>2, <2>3 DEF DiscardsGo
<1>7. QED
  BY <1>4, <1>5, <1>6 DEF EndedInv

\* What a content of a known tree is: a base's, which nobody wrote, or a recorded one.
LEMMA KnownContent ==
    ASSUME TypeInv, NEW c, Known(c), NEW p \in Paths
    PROVE  \/ TreeOf(c)[p].by = None
           \/ \E i \in DOMAIN ledger.commits : ledger.commits[i].tree[p] = TreeOf(c)[p]
  BY KnownIs, BaseTreeIs

\* The step a runner is in snapshots what the worktree holds.
LEMMA SnapshotTakes ==
    ASSUME Control, NEW q \in Runners, Snapshot(q), run'[q].at \in Stepping,
           NEW p \in Paths, Precious(p)
    PROVE  files[p] = run'[q].tree[p]
<1>1. TypeInv /\ LockInv /\ LedgerInv
  BY DEF Control
<1>2. PICK t : t = run[q].task
  OBVIOUS
<1>3. PICK i : i = TaskCommitAt(t)
  OBVIOUS
<1>4. \/ /\ i # 0 /\ files = TreeOf(Parent) /\ (Leased => Id(i) = Parent)
         /\ run'[q].tree = ledger.commits[i].tree
      \/ run'[q].tree = files
  BY <1>1, <1>2, <1>3, SnapshotIs DEF Stepping
<1>5. CASE /\ i # 0 /\ files = TreeOf(Parent) /\ (Leased => Id(i) = Parent)
           /\ run'[q].tree = ledger.commits[i].tree
  <2>1. CASE Leased
    <3>1. i \in DOMAIN ledger.commits /\ i \in Nat
      BY <1>1, <1>3, <1>5, TaskCommitAtIs, CommitsTyped
    <3>2. Id(i) \notin Bases /\ Id(i) - 2 = i
      BY <1>1, <3>1, CommitsTyped DEF Id, Bases
    <3>3. TreeOf(Id(i)) = ledger.commits[i].tree
      BY <3>2 DEF TreeOf
    <3>4. QED
      BY <1>5, <2>1, <3>3
  <2>2. CASE ~Leased
    <3>1. files = TreeOf(Rest)
      BY <1>5, <2>2 DEF Parent
    <3>2. QED
      BY <1>1, <3>1, RestIs DEF Precious
  <2>3. QED
    BY <2>1, <2>2
<1>6. QED
  BY <1>4, <1>5

\* While a step holds the lock the files change under it by a late write, or by its own rest.
LEMMA FilesUnderStep ==
    ASSUME Control, Next, NEW q \in Runners, run[q].at \in Stepping,
           task[run[q].task].state = "reported", NEW p \in Paths, Precious(p)'
    PROVE  files'[p] = files[p]
<1>1. TypeInv /\ LockInv
  BY DEF Control
<1>2. FilesGo
  BY GoesOn
<1>3. lock = q /\ lock # Thread
  BY <1>1, ThreadAssumption DEF LockInv
<1>4. PICK t : t = run[q].task
  OBVIOUS
<1>5. t \in Tasks /\ task[t].state = "reported"
  BY <1>1, <1>4 DEF TypeInv, Stepping
<1>6. ASSUME NEW u \in Tasks, NEW x \in Paths, Edit(u, x) PROVE files'[p] = files[p]
  <2>1. u = t
    BY <1>5, <1>6, EditIdles DEF Holding, Held
  <2>2. files'[x].late /\ \A y \in Paths : y # x => files'[y] = files[y]
    BY <1>1, <1>5, <1>6, <2>1, EditIs
  <2>3. p # x
    BY <2>2 DEF Precious
  <2>4. QED
    BY <2>2, <2>3
<1>7. ASSUME Cleanses \/ MoveFiles PROVE FALSE
  <2>1. tick.at \in Cleaning \cup {"move", "branch"}
    BY <1>1, <1>7, CleanseIs DEF MoveFiles, Cleaning
  <2>2. QED
    BY <1>1, <1>3, <2>1 DEF LockInv
<1>8. ASSUME NEW r \in Runners, Settling(r) PROVE files'[p] = files[p]
  <2>1. files'[p] \in {files[p], TreeOf(Rest)[p]}
    BY <1>1, <1>8, SettleIs DEF RunOnly, Rests
  <2>2. TreeOf(Rest)[p].by = None
    BY <1>1, RestIs
  <2>3. QED
    BY <2>1, <2>2 DEF Precious
<1>9. QED
  BY <1>2, <1>6, <1>7, <1>8 DEF FilesGo

\* A report the step still answers was there, and the same, before.
LEMMA Answered ==
    ASSUME Control, AskedInv, Next, NEW q \in Runners, run[q].at \in Stepping,
           run'[q].task = run[q].task, run'[q].attempt = run[q].attempt, Answers(q)'
    PROVE  Answers(q)
<1>1. TypeInv /\ TypeInv'
  BY ControlStep DEF Control
<1>2. PICK t : t = run[q].task
  OBVIOUS
<1>3. t \in Tasks /\ run[q].at \notin {"idle", "decided"}
  BY <1>1, <1>2 DEF TypeInv, Stepping
<1>4. task[t].attempt \in Nat /\ task'[t].attempt \in Nat /\ run[q].attempt \in Nat
  BY <1>1, <1>3 DEF TypeInv, TaskRecord, Running
<1>5. task'[t].state = "reported" /\ task'[t].attempt = run[q].attempt
  BY <1>2 DEF Answers
<1>6. /\ task[t].attempt >= run[q].attempt
      /\ task[t].attempt = run[q].attempt => task[t].state # "leased"
  BY <1>2, <1>3 DEF AskedInv
<1>7. Goes(t)
  BY <1>3, GoesOn DEF StoreGoes
<1>8. task[t].attempt = run[q].attempt
  BY <1>4, <1>5, <1>6, <1>7 DEF Goes
<1>9. task[t].state = "reported"
  BY <1>4, <1>5, <1>6, <1>7, <1>8 DEF Goes
<1>10. QED
  BY <1>2, <1>8, <1>9 DEF Answers

\* The snapshot a step took still stands for what the settle may remove.
LEMMA SnappedStep ==
    ASSUME Control, AskedInv, SettleInv, Next, NEW q \in Runners,
           run'[q].at \in Stepping \ {"forget"}, Answers(q)'
    PROVE  Snapped(q)'
<1>1. SUFFICES ASSUME NEW p \in Paths, Precious(p)'
               PROVE  files'[p] = run'[q].tree[p]
  BY DEF Snapped
<1>2. CASE Snapshot(q)
  <2>1. files' = files
    BY <1>2 DEF Snapshot, tree
  <2>2. Precious(p)
    BY <1>1, <2>1 DEF Precious
  <2>3. QED
    BY <1>2, <2>1, <2>2, SnapshotTakes
<1>3. CASE /\ run[q].at \in Stepping \ {"forget"} /\ run'[q].tree = run[q].tree
           /\ run'[q].task = run[q].task /\ run'[q].attempt = run[q].attempt
  <2>1. Answers(q)
    BY <1>3, Answered
  <2>2. files'[p] = files[p]
    BY <1>1, <1>3, <2>1, FilesUnderStep DEF Answers
  <2>3. Precious(p)
    BY <1>1, <2>2 DEF Precious
  <2>4. QED
    BY <1>3, <2>1, <2>2, <2>3 DEF SettleInv, Snapped
<1>4. QED
  BY <1>2, <1>3, RunsGo DEF RunGoes

\* What a step went on from its commit with is in the ledger.
LEMMA InLedgerStep ==
    ASSUME Control, SettleInv, Next, NEW q \in Runners, run'[q].at \in AfterCommit
    PROVE  InLedger(q)'
<1>1. TypeInv /\ LockInv /\ LedgerInv /\ Grown
  BY Effects DEF Control
<1>2. ASSUME NEW i \in DOMAIN ledger'.commits, ledger'.commits[i].tree = run'[q].tree
      PROVE  InLedger(q)'
  BY <1>2 DEF InLedger
<1>3. ASSUME Commit(q), CommitAgain(q) PROVE InLedger(q)'
  <2>1. PICK i : i = Recorded(q)
    OBVIOUS
  <2>2. /\ i \in DOMAIN ledger.commits /\ ledger.commits[i].tree = run'[q].tree
        /\ ledger' = ledger
    BY <1>1, <1>3, <2>1, CommitAgainIs DEF RunOnly
  <2>3. QED
    BY <1>2, <2>2
<1>4. ASSUME Commit(q), CommitNew(q) PROVE InLedger(q)'
  <2>1. PICK n : n = Len(ledger.commits)
    OBVIOUS
  <2>2. /\ n \in Nat /\ DOMAIN ledger'.commits = 1 .. n + 1
        /\ ledger'.commits[n + 1] = NewCommit(q) /\ run'[q].tree = run[q].tree
    BY <1>1, <1>4, <2>1, CommitNewIs
  <2>3. n + 1 \in DOMAIN ledger'.commits /\ ledger'.commits[n + 1].tree = run'[q].tree
    BY <2>2 DEF NewCommit
  <2>4. QED
    BY <1>2, <2>3
<1>5. ASSUME Commit(q), CommitElsewhere(q) \/ CommitNothing(q) PROVE InLedger(q)'
  <2>1. /\ run[q].at = "commit" /\ run'[q].tree = run[q].tree /\ ledger' = ledger
        /\ run[q].tree = TreeOf(run[q].parent)
    BY <1>1, <1>5, CommitLessIs DEF RunOnly, AfterCommit
  <2>2. PICK c : c = run[q].parent
    OBVIOUS
  <2>3. Known(c)
    BY <1>1, <2>1, <2>2 DEF LedgerInv
  <2>4. \A p \in Paths : \/ run[q].tree[p].by = None
                         \/ \E i \in DOMAIN ledger.commits :
                               ledger.commits[i].tree[p] = run[q].tree[p]
    BY <1>1, <2>1, <2>2, <2>3, KnownContent
  <2>5. QED
    BY <2>1, <2>4 DEF InLedger
<1>6. ASSUME run[q].at \in AfterCommit, run'[q].tree = run[q].tree PROVE InLedger(q)'
  <2>1. PICK w : w = run[q].tree
    OBVIOUS
  <2>2. \A p \in Paths : w[p].by # None =>
           \E i \in DOMAIN ledger.commits : ledger.commits[i].tree[p] = w[p]
    BY <1>6, <2>1 DEF SettleInv, InLedger
  <2>3. \A p \in Paths : w[p].by # None =>
           \E i \in DOMAIN ledger'.commits : ledger'.commits[i].tree[p] = w[p]
    BY <1>1, <2>2 DEF Grown, SameCommit
  <2>4. QED
    BY <1>6, <2>1, <2>3 DEF InLedger
<1>7. CASE Commits(q)
  BY <1>3, <1>4, <1>5, <1>7 DEF Commits
<1>8. QED
  BY <1>6, <1>7, RunsGo DEF RunGoes

\* The settle part is inductive.
LEMMA SettleStep ==
    ASSUME Control, AskedInv, SettleInv, Next
    PROVE  SettleInv'
<1>1. \A q \in Runners : run'[q].at \in Stepping \ {"forget"} /\ Answers(q)' => Snapped(q)'
  BY SnappedStep
<1>2. \A q \in Runners : run'[q].at \in AfterCommit => InLedger(q)'
  BY InLedgerStep
<1>3. QED
  BY <1>1, <1>2 DEF SettleInv

----------------------------------------------------------------------------
(* What is removed by a clean or a start is kept *)

\* The records of stopped trees are only added to.
LEMMA DiscardsGrow ==
    ASSUME Control, Next
    PROVE  ledger.discarded \subseteq ledger'.discarded
<1>1. TypeInv
  BY DEF Control
<1>2. DiscardsGo
  BY GoesOn
<1>3. QED
  BY <1>1, <1>2, KeepIs, ArchiveIs DEF DiscardsGo

\* The files the steps other than an edit write are those of a base or of a commit.
LEMMA FilesKnown ==
    ASSUME Control, Next, ~(\E t \in Tasks : \E p \in Paths : Edit(t, p)), NEW p \in Paths
    PROVE  \/ files'[p] = files[p]
           \/ files'[p].by = None
           \/ \E i \in DOMAIN ledger.commits : ledger.commits[i].tree[p] = files'[p]
<1>1. TypeInv /\ LockInv /\ LedgerInv /\ HeadInv
  BY DEF Control
<1>2. PICK w : w = TreeOf(Rest)
  OBVIOUS
<1>3. w \in Tree /\ w[p].by = None
  BY <1>1, <1>2, RestIs
<1>4. CASE files' = files
  BY <1>4
<1>5. CASE Cleanses
  <2>1. files'[p] \in {files[p], w[p]}
    BY <1>1, <1>2, <1>5, CleanseIs DEF Rests
  <2>2. QED
    BY <1>3, <2>1
<1>6. CASE MoveFiles
  <2>1. PICK c : c = ledger.lease.start
    OBVIOUS
  <2>2. Known(c)
    BY <1>6, <2>1, LeaseKnown DEF MoveFiles
  <2>3. TreeOf(c) \in Tree /\ files' = IF c = Rest THEN files ELSE Moved(w, TreeOf(c))
    BY <1>1, <1>2, <1>6, <2>1, MoveIs
  <2>4. files'[p] \in {files[p], TreeOf(c)[p]}
    BY <1>1, <2>3, MovedIs
  <2>5. QED
    BY <1>1, <2>2, <2>4, KnownContent
<1>7. CASE \E r \in Runners : Settling(r)
  <2>1. PICK r \in Runners : Settling(r)
    BY <1>7
  <2>2. files'[p] \in {files[p], w[p]}
    BY <1>1, <1>2, <2>1, SettleIs DEF RunOnly, Rests
  <2>3. QED
    BY <1>3, <2>2
<1>8. QED
  BY <1>4, <1>5, <1>6, <1>7, GoesOn DEF FilesGo

\* What is kept stays kept while the seat writes nothing.
LEMMA AllKeptOn ==
    ASSUME Control, Next, ~(\E t \in Tasks : \E p \in Paths : Edit(t, p)), AllKept
    PROVE  AllKept'
<1>1. SUFFICES ASSUME NEW p \in Paths, Precious(p)' PROVE Kept(p)'
  BY DEF AllKept
<1>2. Grown /\ ledger.discarded \subseteq ledger'.discarded
  BY Effects, DiscardsGrow
<1>3. CASE files'[p] = files[p]
  <2>1. Precious(p)
    BY <1>1, <1>3 DEF Precious
  <2>2. Kept(p)
    BY <2>1 DEF AllKept
  <2>3. QED
    BY <1>2, <1>3, <2>2 DEF Kept, Grown, SameCommit
<1>4. CASE files'[p].by = None
  BY <1>1, <1>4 DEF Precious
<1>5. CASE \E i \in DOMAIN ledger.commits : ledger.commits[i].tree[p] = files'[p]
  BY <1>2, <1>5 DEF Kept, Grown, SameCommit
<1>6. QED
  BY <1>3, <1>4, <1>5, FilesKnown

\* A record of the worktree as it is keeps all of it.
LEMMA RecordKeeps ==
    ASSUME NEW d, d \in ledger'.discarded, d.tree = files, files' = files
    PROVE  AllKept'
  BY DEF AllKept, Kept

\* A record that was not there is of the worktree as it is, of no seat or of a stopped attempt.
LEMMA NewRecord ==
    ASSUME Control, TreeInv, Next, NEW d \in ledger'.discarded, d \notin ledger.discarded
    PROVE  /\ AllKept' /\ task' = task
           /\ \/ SeatFree
              \/ \E u \in Tasks : task[u].state = "asking" /\ d.task = u
<1>1. TypeInv /\ HoldInv
  BY DEF Control
<1>2. CASE KeepLeftover
  <2>1. /\ tick.at = "clean" /\ task' = task /\ files' = files /\ d.tree = tick.tree
    BY <1>1, <1>2, KeepIs
  <2>2. files = tick.tree /\ SeatFree
    BY <1>1, <2>1 DEF TreeInv, HoldInv, Cleaning
  <2>3. QED
    BY <2>1, <2>2, RecordKeeps
<1>3. CASE \E u \in Tasks : ArchiveAttempt(u)
  <2>1. PICK u \in Tasks : ArchiveAttempt(u)
    BY <1>3
  <2>2. /\ task[u].state = "asking" /\ task' = task /\ files' = files
        /\ d = [task |-> u, attempt |-> task[u].attempt, tree |-> files]
    BY <1>1, <2>1, ArchiveIs
  <2>3. QED
    BY <2>2, RecordKeeps
<1>4. QED
  BY <1>2, <1>3, GoesOn DEF DiscardsGo

\* An attempt that just left the seat has no record yet.
LEMMA FreedKept ==
    ASSUME Control, TreeInv, EndedInv, DiscardInv, Next, SeatFree', DiscardedOf(ended[1], ended[2])'
    PROVE  AllKept'
<1>1. TypeInv /\ TypeInv'
  BY ControlStep DEF Control
<1>2. StoreGoes
  BY GoesOn
<1>3. PICK d \in ledger'.discarded : d.task = ended'[1] /\ d.attempt = ended'[2]
  BY DEF DiscardedOf
<1>4. CASE d \notin ledger.discarded
  BY <1>4, NewRecord
<1>5. CASE d \in ledger.discarded /\ SeatFree
  <2>1. ended' = ended
    BY <1>2, <1>5 DEF StoreGoes, EndsHeld, SeatFree
  <2>2. AllKept
    BY <1>3, <1>5, <2>1 DEF DiscardInv, DiscardedOf
  <2>3. ~(\E t \in Tasks : \E p \in Paths : Edit(t, p))
    BY <1>5, EditIdles DEF SeatFree
  <2>4. QED
    BY <2>2, <2>3, AllKeptOn
<1>6. CASE d \in ledger.discarded /\ ~SeatFree
  <2>1. PICK t \in Tasks : task[t].state \in Held
    BY <1>6 DEF SeatFree, Holding
  <2>2. task'[t].state \notin Held
    BY <2>1 DEF SeatFree, Holding
  <2>3. \/ ended' = <<t, task[t].attempt>>
        \/ ended' = ended /\ task[t].state = "refused"
    BY <1>2, <2>1, <2>2 DEF StoreGoes, Goes, Leaves
  <2>4. ended' = <<t, task[t].attempt>>
    BY <2>3 DEF EndedInv
  <2>5. d.task = t /\ d.attempt = task[t].attempt
    BY <1>3, <2>4
  <2>6. QED
    BY <1>6, <2>1, <2>5 DEF EndedInv
<1>7. QED
  BY <1>4, <1>5, <1>6

\* The clean removes the files it looked at, once what is in them is kept.
LEMMA LookedAtKept ==
    ASSUME Control, TreeInv, DiscardInv, KeepLeftover
    PROVE  AllKept'
<1>1. TypeInv /\ LedgerInv /\ HoldInv
  BY DEF Control
<1>2. /\ tick.at = "clean" /\ files' = files /\ ledger'.commits = ledger.commits
      /\ \/ ledger' = ledger /\ (\/ tick.tree = TreeOf(Parent)
                                 \/ RecordedAt(Parent, tick.tree) # 0
                                 \/ DiscardedOf(ended[1], ended[2]))
         \/ ledger'.discarded = ledger.discarded \cup
               {[task |-> ended[1], attempt |-> ended[2], tree |-> tick.tree]}
  BY <1>1, KeepIs
<1>3. files = tick.tree /\ SeatFree
  BY <1>1, <1>2 DEF TreeInv, HoldInv, Cleaning
<1>4. ASSUME ledger' = ledger, AllKept PROVE AllKept'
  BY <1>2, <1>4 DEF AllKept, Precious, Kept
<1>5. ASSUME tick.tree = TreeOf(Parent) PROVE AllKept
  <2>1. PICK c : c = Parent
    OBVIOUS
  <2>2. Known(c) /\ files = TreeOf(c)
    BY <1>1, <1>3, <1>5, <2>1, ParentKnown
  <2>3. QED
    BY <1>1, <2>2, KnownContent DEF AllKept, Precious, Kept
<1>6. ASSUME RecordedAt(Parent, tick.tree) # 0 PROVE AllKept
  <2>1. PICK i : i = RecordedAt(Parent, tick.tree)
    OBVIOUS
  <2>2. i \in DOMAIN ledger.commits /\ ledger.commits[i].tree = files
    BY <1>1, <1>3, <1>6, <2>1, RecordedAtIs
  <2>3. QED
    BY <2>2 DEF AllKept, Kept
<1>7. ASSUME DiscardedOf(ended[1], ended[2]) PROVE AllKept
  BY <1>3, <1>7 DEF DiscardInv
<1>8. CASE ledger'.discarded = ledger.discarded \cup
              {[task |-> ended[1], attempt |-> ended[2], tree |-> tick.tree]}
  <2>1. PICK d : d = [task |-> ended[1], attempt |-> ended[2], tree |-> tick.tree]
    OBVIOUS
  <2>2. d \in ledger'.discarded /\ d.tree = files
    BY <1>3, <1>8, <2>1
  <2>3. QED
    BY <1>2, <2>2, RecordKeeps
<1>9. QED
  BY <1>2, <1>4, <1>5, <1>6, <1>7, <1>8

\* A clean comes to its reset by the look at what is left over only.
LEMMA ToReset ==
    ASSUME Control, Next, tick'.at = "reset"
    PROVE  KeepLeftover \/ tick.at = "reset"
<1> DEFINE Goal == KeepLeftover \/ tick.at = "reset"
<1>1. TypeInv /\ LockInv /\ LedgerInv /\ HeadInv
  BY DEF Control
<1>2. ASSUME tick' = tick PROVE Goal
  BY <1>2
<1>3. ASSUME tick'.at # "reset" PROVE Goal
  BY <1>3
<1>4. ASSUME NEW r \in Runners, RunOnly(r) PROVE Goal
  BY <1>2, <1>4 DEF RunOnly
<1>5. ASSUME NEW t \in Tasks,
             (\E p \in Paths : Edit(t, p)) \/ TaskStep(t) \/ Grant(t) \/ ArchiveAttempt(t)
      PROVE  Goal
  BY <1>1, <1>2, <1>3, <1>5, EditIs, TaskStepIs, GrantIs, ArchiveIs
<1>6. ASSUME NEW r \in Runners,
             \/ \E t \in Tasks : Ask(r, t)
             \/ Snapshot(r) \/ PRCheck(r) \/ Verify(r)
             \/ Commit(r) /\ CommitAgain(r)
             \/ Commit(r) /\ (CommitElsewhere(r) \/ CommitNothing(r))
             \/ Push(r) \/ OpenPR(r) \/ Abandon(r)
      PROVE  Goal
  <2>1. RunOnly(r)
    BY <1>1, <1>6, AskIs, SnapshotIs, LookIs, CommitAgainIs, CommitLessIs, PushIs, OpenPRIs,
       AbandonIs
  <2>2. QED
    BY <1>4, <2>1
<1>7. ASSUME NEW r \in Runners,
             \/ Commit(r) /\ CommitNew(r)
             \/ MarkPushed(r) \/ BindPR(r) \/ Settling(r) \/ ForgetLease(r) \/ Apply(r)
      PROVE  Goal
  <2>1. tick' = tick
    BY <1>1, <1>7, CommitNewIs, MarkIs, BindIs, SettleIs, ForgetIs, ApplyIs
  <2>2. QED
    BY <1>2, <2>1
<1>8. ASSUME \/ ReserveSeat \/ Cleanses \/ ClearLease \/ ReleaseSeat
             \/ (\E base \in Bases : StartTask(base)) \/ MoveFiles
      PROVE  Goal
  BY <1>1, <1>3, <1>8, ReserveIs, CleanseIs, ClearIs, ReleaseIs, StartIs, MoveIs
<1>9. ASSUME Ring \/ Unprepared \/ TickDies PROVE Goal
  BY <1>3, <1>9, IdlesTyped DEF Ring, Unprepared, TickDies
<1>10. ASSUME Outside PROVE Goal
  BY <1>1, <1>2, <1>10, OutsideIs
<1>11. ASSUME KeepLeftover PROVE Goal
  BY <1>11
<1> HIDE DEF Goal
<1>12. Goal
  BY NextIs, <1>5, <1>6, <1>7, <1>8, <1>9, <1>10, <1>11
<1>13. QED
  BY <1>12 DEF Goal

\* The part on stopped trees is inductive.
LEMMA DiscardStep ==
    ASSUME Control, TreeInv, EndedInv, DiscardInv, Next
    PROVE  DiscardInv'
<1>1. SeatFree' /\ DiscardedOf(ended[1], ended[2])' => AllKept'
  BY FreedKept
<1>2. ASSUME tick'.at = "reset" PROVE AllKept'
  <2>1. CASE KeepLeftover
    BY <2>1, LookedAtKept
  <2>2. CASE tick.at = "reset"
    <3>1. ~(\E t \in Tasks : \E p \in Paths : Edit(t, p))
      BY <2>2, EditIdles
    <3>2. QED
      BY <2>2, <3>1, AllKeptOn DEF DiscardInv
  <2>3. QED
    BY <1>2, <2>1, <2>2, ToReset
<1>3. QED
  BY <1>1, <1>2 DEF DiscardInv

\* What a step of the seat commit, of a clean or of a start removes is kept.
LEMMA RemovedIsKept ==
    ASSUME Control, TreeInv, SettleInv, DiscardInv, Next,
           NEW p \in Paths, files'[p] # files[p], Precious(p)
    PROVE  \/ Kept(p)
           \/ \E t \in Tasks : Edit(t, p)
           \/ \E r \in Runners : Settled(r)
<1>1. TypeInv /\ LockInv
  BY DEF Control
<1>2. CASE \E t \in Tasks : \E x \in Paths : Edit(t, x)
  <2>1. PICK t \in Tasks, x \in Paths : Edit(t, x)
    BY <1>2
  <2>2. x = p
    BY <1>1, <2>1, EditIs
  <2>3. QED
    BY <2>1, <2>2
<1>3. CASE Cleanses
  <2>1. tick.at \in {"reset", "sweep", "head"}
    BY <1>1, <1>3, CleanseIs
  <2>2. CASE tick.at = "reset"
    BY <2>2 DEF DiscardInv, AllKept
  <2>3. CASE tick.at # "reset"
    <3>1. files = TreeOf(Rest)
      BY <2>1, <2>3 DEF TreeInv
    <3>2. QED
      BY <1>1, <3>1, RestIs DEF Precious
  <2>4. QED
    BY <2>2, <2>3
<1>4. CASE MoveFiles
  <2>1. files = TreeOf(Rest)
    BY <1>4 DEF MoveFiles, TreeInv
  <2>2. QED
    BY <1>1, <2>1, RestIs DEF Precious
<1>5. CASE \E r \in Runners : Settling(r)
  <2>1. PICK r \in Runners : Settling(r)
    BY <1>5
  <2>2. run[r].at \in {"rest", "sweep"}
    <3>1. files' # files
      OBVIOUS
    <3>2. ~RestHead(r) /\ ~SettleStops(r)
      BY <3>1 DEF RestHead, SettleStops, tree
    <3>3. QED
      BY <2>1, <3>2 DEF Settling, ResetFiles, SweepFiles
  <2>3. CASE ~Answers(r)
    BY <2>2, <2>3 DEF Settled
  <2>4. CASE Answers(r)
    <3>1. files[p] = run[r].tree[p] /\ files[p].by # None
      BY <2>2, <2>4 DEF SettleInv, Snapped, Stepping, Precious
    <3>2. \E i \in DOMAIN ledger.commits : ledger.commits[i].tree[p] = run[r].tree[p]
      BY <2>2, <3>1 DEF SettleInv, InLedger, AfterCommit
    <3>3. QED
      BY <3>1, <3>2 DEF Kept
  <2>5. QED
    BY <2>3, <2>4
<1>6. CASE files' = files
  BY <1>6
<1>7. QED
  BY <1>2, <1>3, <1>4, <1>5, <1>6, GoesOn DEF FilesGo

----------------------------------------------------------------------------
(* The theorems *)

\* The invariant holds at first.
LEMMA Initially ==
    ASSUME Init
    PROVE  IInv
<1>1. Control
  BY ControlInit
<1>2. ledger.lease = NoLease /\ ledger.commits = <<>> /\ ledger.discarded = {}
      /\ head = None /\ tick.at = "idle" /\ files = BaseTree(Rest)
  BY DEF Init, Resting
<1>3. DOMAIN ledger.commits = {}
  BY <1>2
<1>4. \A r \in Runners : run[r].at = "idle"
  BY IdlesTyped DEF Init
<1>5. \A t \in Tasks : /\ task[t].state = "pending" /\ task[t].attempt = 0
                       /\ task[t].pr = 0 /\ remote[t] = 0
  BY DEF Init
<1>6. TreeInv
  BY <1>2 DEF TreeInv
<1>7. StepInv
  BY <1>4 DEF StepInv
<1>8. OwnWorkOnly /\ Following /\ CommitsStayDeclared
  BY <1>3 DEF OwnWorkOnly, Following, CommitsStayDeclared
<1>9. RemoteInv
  BY <1>3, <1>4, <1>5 DEF RemoteInv, OnBranches, BoundTo
<1>10. AskedInv /\ SettleInv
  BY <1>4 DEF AskedInv, SettleInv, Stepping, AfterCommit
<1>11. EndedInv
  BY <1>2, <1>5, SeatCommitAssumption DEF EndedInv, Init
<1>12. DiscardInv
  BY <1>2, SeatCommitAssumption DEF DiscardInv, DiscardedOf
<1>13. QED
  BY <1>1, <1>6, <1>7, <1>8, <1>9, <1>10, <1>11, <1>12 DEF IInv

\* It holds on when nothing happens.
LEMMA Stutters ==
    ASSUME IInv, UNCHANGED vars
    PROVE  IInv'
<1>1. UNCHANGED <<task, marker, ended, ledger, files, head, remote, prs, run, tick, lock, used>>
  BY DEF vars, store, tree, forge
<1>2. Control'
  BY ControlStep DEF IInv
<1>3. TreeInv' /\ StepInv'
  BY <1>1 DEF IInv, TreeInv, StepInv, SnapshotOf, Diff, Allowed, Changed, TreeOf
<1>4. OwnWorkOnly' /\ Following' /\ CommitsStayDeclared'
  BY <1>1 DEF IInv, OwnWorkOnly, Following, CommitsStayDeclared, Allowed, Changed, TreeOf
<1>5. RemoteInv'
  <2>1. Ancestry' = Ancestry
    BY <1>1 DEF Ancestry, Id, IsCommit
  <2>2. RemoteInv
    BY DEF IInv
  <2>3. OnBranches'
    BY <1>1, <2>2 DEF RemoteInv, OnBranches, CommitOf
  <2>4. \A i \in DOMAIN ledger'.commits :
           ledger'.commits[i].pushed => Reached(ledger.commits[i].task, Id(i))'
    BY <1>1, <2>1, <2>2 DEF RemoteInv, Reached
  <2>5. \A r \in Runners : run'[r].at # "idle" => Carries(run[r])'
    BY <1>1, <2>1, <2>2 DEF RemoteInv, Carries, BoundTo, Reached
  <2>6. \A t \in Tasks : BoundTo(t, task[t].pr, task[t].head)'
    BY <1>1, <2>1, <2>2 DEF RemoteInv, BoundTo, Reached
  <2>7. QED
    BY <2>3, <2>4, <2>5, <2>6 DEF RemoteInv
<1>6. AskedInv' /\ EndedInv'
  BY <1>1 DEF IInv, AskedInv, EndedInv
<1>7. SettleInv' /\ DiscardInv'
  BY <1>1 DEF IInv, SettleInv, Snapped, InLedger, Answers, DiscardInv, SeatFree, Holding,
              DiscardedOf, AllKept, Precious, Kept
<1>8. QED
  BY <1>2, <1>3, <1>4, <1>5, <1>6, <1>7 DEF IInv

\* What is said of the commits of the ledger is inductive.
LEMMA CommitsStep ==
    ASSUME Control, StepInv, OwnWorkOnly, Following, CommitsStayDeclared, Next
    PROVE  OwnWorkOnly' /\ Following' /\ CommitsStayDeclared'
<1>1. Grown /\ Widening /\ (SameLedger \/ AddsCommit)
  BY Effects
<1>2. CASE SameLedger
  BY <1>1, <1>2, SameLedgerKeeps
<1>3. CASE AddsCommit
  BY <1>3, CommitNewKeeps DEF AddsCommit
<1>4. QED
  BY <1>1, <1>2, <1>3

\* The invariant is inductive.
LEMMA Inductive ==
    ASSUME IInv, [Next]_vars
    PROVE  IInv'
<1>1. CASE UNCHANGED vars
  BY <1>1, Stutters
<1>2. CASE Next
  <2>1. Control /\ Control' /\ Grown
    BY <1>2, ControlStep, Effects DEF IInv
  <2>2. TreeInv' /\ StepInv'
    BY <1>2, <2>1, TreeStep, StepInvStep DEF IInv
  <2>3. OwnWorkOnly' /\ Following' /\ CommitsStayDeclared'
    BY <1>2, CommitsStep DEF IInv
  <2>4. RemoteInv'
    BY <1>2, <2>1, RemoteStep DEF IInv
  <2>5. AskedInv' /\ SettleInv'
    BY <1>2, AskedStep, SettleStep DEF IInv
  <2>6. EndedInv' /\ DiscardInv'
    BY <1>2, EndedStep, DiscardStep DEF IInv
  <2>7. QED
    BY <2>1, <2>2, <2>3, <2>4, <2>5, <2>6 DEF IInv
<1>3. QED
  BY <1>1, <1>2

\* The invariant holds whatever dies between two writes of commit.go.
THEOREM Invariance == Spec => []IInv
<1>1. Init => IInv
  BY Initially
<1>2. IInv /\ [Next]_vars => IInv'
  BY Inductive
<1>3. QED
  BY <1>1, <1>2, PTL DEF Spec

\* CleanSeat never finds a worktree on a branch that is not that of the lease
\* in the ledger: HEAD leaves the branch before the lease does, and comes to
\* it after.
THEOREM BranchIsKnown == Spec => []HeadKnown
<1>1. IInv => HeadKnown
  BY DEF IInv, Control, HeadInv
<1>2. QED
  BY <1>1, Invariance, PTL

\* A commit of a task the scheduler put on its branch changes no path against
\* its start but to what an attempt of that task wrote, or to what the resting
\* commit has there: a settle killed between its git processes leaves that,
\* the leftover of another task is never in a commit.
THEOREM CommitsAreOwnWork == Spec => []OwnWorkOnly
<1>1. IInv => OwnWorkOnly
  BY DEF IInv
<1>2. QED
  BY <1>1, Invariance, PTL

\* The commits of a task are one line, the remote is at one of them, and each
\* stays within the files the task may write.
THEOREM CommitsAreSound == Spec => []CommitsSound
<1>1. IInv => CommitsSound
  BY OneLineIs DEF IInv, Control, RemoteInv, CommitsSound
<1>2. QED
  BY <1>1, Invariance, PTL

\* A pull request bound to a task is on the task's branch, and shows a commit
\* that was pushed to it.
THEOREM BindingsArePushed == Spec => []BoundIsPushed
<1>1. IInv => BoundIsPushed
  BY DEF IInv, RemoteInv, BoundTo, Reached, BoundIsPushed
<1>2. QED
  BY <1>1, Invariance, PTL

\* A clean, a start or the settle of a step whose report still waits removes
\* nothing the seat finished before a commit or a stopped tree of the ledger
\* has it.
THEOREM WorkIsKept == Spec => KeptWork
<1>1. ASSUME IInv, [Next]_vars
      PROVE  [\A p \in Paths :
                 files'[p] # files[p] /\ files[p].by # None /\ ~files[p].late
                 => \/ Kept(p)
                    \/ \E t \in Tasks : Edit(t, p)
                    \/ \E r \in Runners : Settled(r)]_vars
  <2>1. CASE Next
    <3>1. ASSUME NEW p \in Paths, files'[p] # files[p], files[p].by # None, ~files[p].late
          PROVE  \/ Kept(p)
                 \/ \E t \in Tasks : Edit(t, p)
                 \/ \E r \in Runners : Settled(r)
      BY <1>1, <2>1, <3>1, RemovedIsKept DEF IInv, Precious
    <3>2. QED
      BY <3>1
  <2>2. CASE UNCHANGED vars
    BY <2>2 DEF vars, tree
  <2>3. QED
    BY <1>1, <2>1, <2>2
<1>2. Spec => [][Next]_vars
  BY PTL DEF Spec
<1>3. QED
  BY <1>1, <1>2, Invariance, PTL DEF KeptWork
=============================================================================
