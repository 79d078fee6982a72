--------------------------- MODULE GateStoreProofs ---------------------------
(***************************************************************************)
(* What the gate store promises for every number of processes, answers,    *)
(* kills and power losses, up to the files that killed processes left      *)
(* without their fsync.                                                    *)
(***************************************************************************)
EXTENDS GateStore, TLAPS

\* The places inside the gate lock.
Locked == {"reserve", "keep_question", "recover", "keep_reask", "have_reask",
           "write", "keep_answer", "mark_gate", "keep_gate", "mark_event", "keep_event"}
Places == Locked \cup {"idle", "publish", "asked", "keep_asked", "read", "history", "reask",
                       "reserve_reask", "publish_reask", "reasked", "keep_reasked", "commit"}
Post   == [id : Nat, of : {"none", "gate", "history", "thread"}]
Mark   == [decision : {"none", "approve", "deny"}, answer : Nat]
Files  == [question : Post, reask : Post, approval : Nat, denial : Nat, mark : Mark,
           events : SUBSET Nat, asked : BOOLEAN, reasked : BOOLEAN]
Doing  == [at : Places, answer : Nat, marks : Nat, post : Post, reask : Post,
           then : {"idle", "read", "history", "commit", "accept", "refuse"}]
Reply  == [decision : {"approve", "deny"}, to : Nat]

TypeOK ==
    /\ shown \in Files /\ kept \in Files
    /\ lock \in Procs \cup {None}
    /\ proc \in [Procs -> Doing]
    /\ answers \in Seq(Reply)
    /\ signed \in Nat
    /\ published \subseteq Post
    /\ told \subseteq DOMAIN answers
    /\ kills \in Nat

\* A process inside the gate lock has it, so a file that is not yet kept is
\* the one that the process inside is about to keep, or was left unsynced.
LockHeld == \A p \in Procs : proc[p].at \in Locked => lock = p
Inside(at) == lock \in Procs /\ proc[lock].at = at
Writing(file) == Inside("keep_answer") /\ FileOf(proc[lock].answer) = file

\* What the two disks may differ in.
Nearly ==
    /\ shown.question # kept.question =>
          kept.question = NoPost /\ (Inside("keep_question") \/ "question" \in unsynced)
    /\ shown.reask # kept.reask =>
          kept.reask = NoPost /\ (Inside("keep_reask") \/ "reask" \in unsynced)
    /\ shown.mark # kept.mark =>
          kept.mark = NoMark /\ (Inside("keep_gate") \/ "mark" \in unsynced)
    /\ shown.approval # kept.approval =>
          kept.approval = 0 /\ (Writing("approval") \/ "approval" \in unsynced)
    /\ shown.denial # kept.denial =>
          kept.denial = 0 /\ (Writing("denial") \/ "denial" \in unsynced)

\* The disk keeps the value of a file, if nobody left that file unsynced.
Sure(file, value) == file \in unsynced \/ kept[file] = value

Usable(a, disk) ==
    disk.question # NoPost /\ answers[a].to \in {disk.question.id, disk.reask.id} \ {0}

\* The posts: what is on the relay was kept before it was published.
Posts ==
    /\ shown.question # NoPost => shown.question.of = "gate"
    /\ shown.reask # NoPost => shown.reask.of # "gate"
    /\ \A x \in published :
          x # NoPost /\ IF x.of = "gate" THEN Sure("question", x) ELSE Sure("reask", x)

\* One decision file at most, of an answer that may be accepted, and a mark
\* only where no other decision is.
MarkFits(b) ==
    /\ b \in DOMAIN answers /\ shown.mark = MarkOf(b)
    /\ Sure(FileOf(b), b) /\ shown[FileOf(b)] \in {0, b}
    /\ IF answers[b].decision = "deny" THEN shown.approval = 0 ELSE shown.denial = 0
Decisions ==
    /\ shown.approval = 0 \/ shown.denial = 0
    /\ shown.approval # 0 =>
          /\ shown.approval \in DOMAIN answers
          /\ answers[shown.approval].decision = "approve"
          /\ unsynced \cap {"question", "reask"} = {} => Usable(shown.approval, kept)
    /\ shown.denial # 0 =>
          shown.denial \in DOMAIN answers /\ answers[shown.denial].decision = "deny"
    /\ shown.mark # NoMark => MarkFits(shown.mark.answer)
    /\ \A a \in told : Sure("mark", MarkOf(a)) /\ Sure(FileOf(a), a)

\* What a process at its place knows of the files.
Undecided(disk) == disk.mark = NoMark
Marking(r) ==
    /\ r.marks \in DOMAIN answers
    /\ shown[FileOf(r.marks)] = r.marks /\ Sure(FileOf(r.marks), r.marks)
    /\ r.then = "accept" => r.marks = r.answer
    /\ r.then = "read" => r.answer \in DOMAIN answers
Knows(r) ==
    /\ r.at \in {"publish", "asked"} =>
          r.post # NoPost /\ r.post.of = "gate" /\ Sure("question", r.post)
    /\ r.at \in {"publish_reask", "reasked"} =>
          r.reask # NoPost /\ r.reask.of # "gate" /\ Sure("reask", r.reask)
    /\ r.at = "keep_question" => shown.question # NoPost
    /\ r.at \in {"keep_reask", "have_reask"} => shown.reask # NoPost
    /\ r.at \in {"recover", "read"} => r.answer \in DOMAIN answers
    /\ r.at = "recover" => r.then \in {"read", "commit"}
    /\ r.at \in {"history", "commit", "write", "keep_answer"} =>
          r.answer \in DOMAIN answers /\ Usable(r.answer, shown)
    /\ r.at = "recover" /\ r.then = "commit" => Usable(r.answer, shown)
    /\ r.at \in {"write", "keep_answer"} => Undecided(shown)
    /\ r.at = "write" => shown.approval = 0 /\ shown.denial = 0
    /\ r.at = "keep_answer" =>
          /\ shown[FileOf(r.answer)] = r.answer /\ kept[FileOf(r.answer)] = 0
          /\ shown.approval = 0 \/ shown.denial = 0
    /\ r.at \in {"mark_gate", "keep_gate", "mark_event", "keep_event"} => Marking(r)
    /\ r.at \in {"keep_gate", "mark_event", "keep_event"} => shown.mark = MarkOf(r.marks)

IInv ==
    /\ TypeOK /\ LockHeld /\ Nearly /\ Posts /\ Decisions
    /\ \A p \in Procs : Knows(proc[p])

----------------------------------------------------------------------------
(* Values *)

LEMMA AnswerIsPositive ==
    ASSUME TypeOK, NEW a \in DOMAIN answers
    PROVE  /\ a \in Nat /\ a # 0 /\ answers[a] \in Reply
           /\ MarkOf(a) \in Mark /\ MarkOf(a) # NoMark
<1>1. answers \in Seq(Reply)
  BY DEF TypeOK
<1>2. a \in Nat /\ a # 0 /\ answers[a] \in Reply
  BY <1>1
<1> QED
  BY <1>2 DEF MarkOf, Mark, NoMark, Reply

LEMMA FileOfAnswer ==
    ASSUME TypeOK, NEW a \in DOMAIN answers
    PROVE  \/ /\ answers[a].decision = "deny" /\ FileOf(a) = "denial"
              /\ shown[FileOf(a)] = shown.denial /\ kept[FileOf(a)] = kept.denial
           \/ /\ answers[a].decision = "approve" /\ FileOf(a) = "approval"
              /\ shown[FileOf(a)] = shown.approval /\ kept[FileOf(a)] = kept.approval
<1>1. answers[a].decision \in {"approve", "deny"}
  BY AnswerIsPositive DEF Reply
<1> QED
  BY <1>1 DEF FileOf

LEMMA KnowsNothing ==
    ASSUME NEW r \in Doing, r.at \in {"idle", "reserve", "reask", "reserve_reask"}
    PROVE  Knows(r)
BY DEF Knows

LEMMA IdleIsFree == Idle \in Doing /\ Knows(Idle) /\ Idle.at = "idle" /\ Idle.at \notin Locked
<1>1. Idle.at = "idle" /\ Idle.at \notin Locked
  BY DEF Idle, Locked
<1>2. NoPost \in Post
  BY DEF NoPost, Post
<1>3. Idle \in Doing
  BY <1>2 DEF Idle, Doing, Places
<1> QED
  BY <1>1, <1>3, KnowsNothing

LEMMA InitIInv == Init => IInv
<1> SUFFICES ASSUME Init PROVE IInv
  OBVIOUS
<1>1. TypeOK
  BY IdleIsFree DEF Init, TypeOK, Files, Empty, Post, NoPost, Mark, NoMark
<1>2. LockHeld /\ \A p \in Procs : Knows(proc[p])
  BY IdleIsFree DEF Init, LockHeld
<1>3. Nearly /\ Posts /\ Decisions
  BY DEF Init, Nearly, Posts, Decisions, Empty
<1> QED
  BY <1>1, <1>2, <1>3 DEF IInv

----------------------------------------------------------------------------
(* Steps of a process that leave the files alone *)

Keeping == {"keep_question", "keep_reask", "keep_answer", "keep_gate"}

LEMMA KnowsStays ==
    ASSUME NEW r, Knows(r), shown' = shown, kept' = kept, answers' = answers,
           unsynced \subseteq unsynced'
    PROVE  Knows(r)'
<1>1. Marking(r) => Marking(r)'
  BY DEF Marking, FileOf, Sure
<1>2. Usable(r.answer, shown) => Usable(r.answer, shown)'
  BY DEF Usable
<1>3. MarkOf(r.marks) = MarkOf(r.marks)' /\ FileOf(r.answer) = FileOf(r.answer)'
  BY DEF MarkOf, FileOf
<1>4. /\ Sure("question", r.post) => Sure("question", r.post)'
      /\ Sure("reask", r.reask) => Sure("reask", r.reask)'
  BY DEF Sure
<1> QED
  BY <1>1, <1>2, <1>3, <1>4 DEF Knows, Undecided

LEMMA Quiet ==
    ASSUME IInv, NEW p \in Procs, NEW r \in Doing, Knows(r),
           proc' = [proc EXCEPT ![p] = r], proc[p].at \notin Keeping,
           UNCHANGED <<files, answers, relay, told, unsynced, kills>>,
           \/ lock' = lock /\ (r.at \in Locked => lock = p)
           \/ lock = None /\ lock' = p
           \/ lock = p /\ lock' = None /\ r.at \notin Locked
    PROVE  IInv'
<1>1. TypeOK'
  BY GateStoreAssumption DEF IInv, TypeOK, files, relay
<1>2. \A q \in Procs \ {p} : proc'[q] = proc[q]
  BY DEF IInv, TypeOK
<1>3. proc'[p] = r
  BY DEF IInv, TypeOK
<1>4. \A q \in Procs \ {p} : proc[q].at \in Locked => lock = q /\ lock' = q
  BY GateStoreAssumption DEF IInv, LockHeld
<1>5. LockHeld'
  BY <1>2, <1>3, <1>4 DEF LockHeld
<1>6. \A q \in Procs : Knows(proc[q])'
  <2>1. \A x : Knows(x) => Knows(x)'
    BY KnowsStays DEF files
  <2> QED
    BY <1>2, <1>3, <2>1 DEF IInv
<1>7. \A at \in Keeping : Inside(at) => Inside(at)'
  BY <1>2, <1>4 DEF IInv, Inside, Keeping, Locked
<1>8. \A file : Writing(file) => Writing(file)'
  BY <1>2, <1>4 DEF IInv, Writing, Inside, Keeping, Locked, FileOf
<1>9. Nearly'
  BY <1>7, <1>8 DEF IInv, Nearly, Keeping, files
<1>10. Posts' /\ Decisions'
  BY DEF IInv, Posts, Decisions, MarkFits, Usable, Sure, MarkOf, FileOf, files, relay
<1> QED
  BY <1>1, <1>5, <1>6, <1>9, <1>10 DEF IInv

\* p goes on at another place, or stops, with the lock as it is.
LEMMA GoStop ==
    ASSUME TypeOK, NEW p \in Procs, NEW at \in Places
    PROVE  /\ [proc[p] EXCEPT !.at = at] \in Doing
           /\ [proc[p] EXCEPT !.at = at].at = at
BY DEF TypeOK, Doing

LEMMA PostQuestionIInv == ASSUME IInv, NEW p \in Procs, PostQuestion(p) PROVE IInv'
<1> DEFINE r == [proc[p] EXCEPT !.at = "reserve"]
<1>1. r \in Doing /\ r.at = "reserve"
  BY GoStop DEF IInv, Places, Locked
<1>2. Knows(r)
  BY <1>1, KnowsNothing
<1>3. /\ proc' = [proc EXCEPT ![p] = r] /\ proc[p].at = "idle" /\ lock = None /\ lock' = p
      /\ UNCHANGED <<files, answers, relay, told, unsynced, kills>>
  BY DEF PostQuestion, Go, Set, Lock, Here, owner
<1> HIDE DEF r
<1> QED
  BY <1>1, <1>2, <1>3, Quiet DEF Keeping

LEMMA HandleEventIInv == ASSUME IInv, NEW p \in Procs, HandleEvent(p) PROVE IInv'
<1>1. PICK a \in DOMAIN answers :
          Set(p, [Idle EXCEPT !.at = "recover", !.answer = a, !.then = "read"])
  BY DEF HandleEvent
<1> DEFINE r == [Idle EXCEPT !.at = "recover", !.answer = a, !.then = "read"]
<1>2. r \in Doing
  BY AnswerIsPositive, IdleIsFree DEF IInv, Doing, Places, Locked
<1>3. r.at = "recover" /\ r.answer = a /\ r.then = "read"
  BY DEF Idle
<1>4. Knows(r)
  BY <1>3 DEF Knows
<1>5. /\ proc' = [proc EXCEPT ![p] = r] /\ proc[p].at = "idle" /\ lock = None /\ lock' = p
      /\ UNCHANGED <<files, answers, relay, told, unsynced, kills>>
  BY <1>1 DEF HandleEvent, Set, Lock, Here, owner
<1> HIDE DEF r
<1> QED
  BY <1>2, <1>4, <1>5, Quiet DEF Keeping

\* p stops where it has no file to keep, and lets go of the lock it had.
LEMMA StopIInv ==
    ASSUME IInv, NEW p \in Procs, proc[p].at \notin Keeping, proc' = [proc EXCEPT ![p] = Idle],
           UNCHANGED <<files, answers, relay, told, unsynced, kills>>,
           lock' = lock \/ (lock = p /\ lock' = None)
    PROVE  IInv'
BY IdleIsFree, Quiet

\* Inside the lock, nothing but p's own file and those that a killed process
\* left may be missing from the disk.
LEMMA AllKept ==
    ASSUME IInv, NEW p \in Procs, proc[p].at \in Locked \ Keeping
    PROVE  /\ lock = p
           /\ shown.question # kept.question => "question" \in unsynced
           /\ shown.reask # kept.reask => "reask" \in unsynced
           /\ shown.mark # kept.mark => "mark" \in unsynced
           /\ shown.approval # kept.approval => "approval" \in unsynced
           /\ shown.denial # kept.denial => "denial" \in unsynced
BY DEF IInv, LockHeld, Nearly, Inside, Writing, Keeping

\* The decision found is in its file, for the answer it names.
LEMMA DecidedIsFiled ==
    ASSUME IInv, Decided # 0
    PROVE  Decided \in DOMAIN answers /\ shown[FileOf(Decided)] = Decided
<1>1. CASE shown.denial # 0
  BY <1>1, FileOfAnswer DEF IInv, Decisions, Decided
<1>2. CASE shown.denial = 0
  <2>1. Decided = shown.approval /\ shown.approval # 0
    BY <1>2 DEF Decided
  <2> QED
    BY <2>1, FileOfAnswer DEF IInv, Decisions
<1> QED
  BY <1>1, <1>2

LEMMA RecoverIInv == ASSUME IInv, NEW p \in Procs, Recover(p) PROVE IInv'
<1> DEFINE a == Decided
           then == IF proc[p].then = "read" THEN "read"
                   ELSE IF a = proc[p].answer THEN "accept" ELSE "refuse"
           r == [proc[p] EXCEPT !.at = "mark_gate", !.marks = a, !.then = then]
<1>1. /\ proc[p].at = "recover" /\ proc[p] \in Doing /\ Knows(proc[p])
      /\ UNCHANGED <<files, answers, relay, told, unsynced, kills>>
  BY DEF Recover, Here, owner, IInv, TypeOK
<1>2. proc[p].at \in Locked \ Keeping /\ lock = p
  BY <1>1, AllKept DEF Locked, Keeping
<1>3. CASE a # 0 /\ ~Marked(a)
  <2>1. a \in DOMAIN answers /\ shown[FileOf(a)] = a /\ a \in Nat
    BY <1>3, DecidedIsFiled, AnswerIsPositive DEF IInv
  <2>2. Sure(FileOf(a), a)
    BY <1>2, <2>1, AllKept, FileOfAnswer DEF IInv, Sure
  <2>3. /\ r \in Doing /\ r.at = "mark_gate" /\ r.marks = a
        /\ r.then = then /\ r.answer = proc[p].answer
    BY <1>1, <2>1 DEF Doing, Places, Locked
  <2>4. Knows(r)
    <3> HIDE DEF r
    <3>1. then = "accept" => a = proc[p].answer
      OBVIOUS
    <3>2. proc[p].answer \in DOMAIN answers
      BY <1>1 DEF Knows
    <3>3. Marking(r)
      BY <2>1, <2>2, <2>3, <3>1, <3>2 DEF Marking
    <3> QED
      BY <2>3, <3>3 DEF Knows
  <2>5. proc' = [proc EXCEPT ![p] = r] /\ lock' = lock
    BY <1>3 DEF Recover, Set
  <2> HIDE DEF r
  <2> QED
    BY <1>1, <1>2, <2>3, <2>4, <2>5, Quiet
<1>4. CASE ~(a # 0 /\ ~Marked(a)) /\ proc[p].then = "read"
  <2> DEFINE q == [proc[p] EXCEPT !.at = "read"]
  <2>1. q \in Doing /\ q.at = "read" /\ q.answer = proc[p].answer
    BY <1>1, GoStop DEF IInv, Places, Locked, Doing
  <2>2. Knows(q)
    BY <1>1, <2>1 DEF Knows
  <2>3. proc' = [proc EXCEPT ![p] = q] /\ lock' = None
    BY <1>4 DEF Recover, Go, Set, Unlock
  <2>4. q.at \notin Locked
    BY <2>1 DEF Locked
  <2> HIDE DEF q
  <2> QED
    BY <1>1, <1>2, <2>1, <2>2, <2>3, <2>4, Quiet
<1>5. CASE ~(a # 0 /\ ~Marked(a)) /\ proc[p].then # "read" /\ a = 0 /\ ~Replayed(proc[p].answer)
  <2> DEFINE q == [proc[p] EXCEPT !.at = "write"]
  <2>1. q \in Doing /\ q.at = "write" /\ q.answer = proc[p].answer
    BY <1>1, GoStop DEF IInv, Places, Locked, Doing
  <2>2. Undecided(shown) /\ shown.approval = 0 /\ shown.denial = 0
    BY <1>5 DEF Decided, Replayed, Undecided, NoMark
  <2>3. proc[p].answer \in DOMAIN answers /\ Usable(proc[p].answer, shown)
    BY <1>1, <1>5 DEF Knows
  <2>4. Knows(q)
    BY <2>1, <2>2, <2>3 DEF Knows
  <2>5. proc' = [proc EXCEPT ![p] = q] /\ lock' = lock
    BY <1>5 DEF Recover, Go, Set
  <2> HIDE DEF q
  <2> QED
    BY <1>1, <1>2, <2>1, <2>4, <2>5, Quiet
<1>6. CASE /\ ~(a # 0 /\ ~Marked(a)) /\ proc[p].then # "read"
           /\ ~(a = 0 /\ ~Replayed(proc[p].answer))
  <2>1. proc' = [proc EXCEPT ![p] = Idle] /\ lock' = None
    BY <1>6 DEF Recover, Set, Unlock
  <2> QED
    BY <1>1, <1>2, <2>1, StopIInv
<1> QED
  BY <1>3, <1>4, <1>5, <1>6

\* p only goes on to a place where there is nothing to know.
LEMMA GoOnIInv ==
    ASSUME IInv, NEW p \in Procs, NEW r \in Doing,
           r.at \in {"reserve", "reask", "reserve_reask"}, proc[p].at \notin Locked,
           proc' = [proc EXCEPT ![p] = r],
           UNCHANGED <<files, answers, relay, told, unsynced, kills>>,
           \/ lock' = lock /\ r.at # "reserve"
           \/ lock = None /\ lock' = p
    PROVE  IInv'
<1>1. Knows(r)
  BY KnowsNothing
<1>2. proc[p].at \notin Keeping
  BY DEF Locked, Keeping
<1> QED
  BY <1>1, <1>2, Quiet DEF Locked

LEMMA VerifyIInv == ASSUME IInv, NEW p \in Procs, Verify(p) PROVE IInv'
<1>1. /\ proc[p].at = "read" /\ proc[p] \in Doing /\ Knows(proc[p])
      /\ UNCHANGED <<files, answers, relay, told, unsynced, kills>> /\ lock' = lock
  BY DEF Verify, Here, owner, IInv, TypeOK
<1>2. proc[p].at \notin Locked /\ proc[p].at \notin Keeping
  BY <1>1 DEF Locked, Keeping
<1>3. CASE proc' = [proc EXCEPT ![p] = Idle]
  BY <1>1, <1>2, <1>3, StopIInv
<1>4. CASE proc' # [proc EXCEPT ![p] = Idle]
  <2> DEFINE now == [proc[p] EXCEPT !.reask = shown.reask]
             to == answers[proc[p].answer].to
             r == [now EXCEPT !.at = IF to = 0 THEN "reask" ELSE "history"]
  <2>1. /\ proc' = [proc EXCEPT ![p] = r]
        /\ shown.question # NoPost /\ to \in {0, shown.question.id, shown.reask.id}
    BY <1>4 DEF Verify, Set, Answer
  <2>2. shown.question \in Post /\ shown.reask \in Post
    BY DEF IInv, TypeOK, Files
  <2>3. /\ r \in Doing /\ r.answer = proc[p].answer
        /\ r.at = IF to = 0 THEN "reask" ELSE "history"
    BY <1>1, <2>2 DEF Doing, Places
  <2> HIDE DEF r
  <2>4. CASE to = 0
    BY <1>1, <1>2, <2>1, <2>3, <2>4, GoOnIInv
  <2>5. CASE to # 0
    <3>1. Usable(proc[p].answer, shown) /\ proc[p].answer \in DOMAIN answers
      BY <1>1, <2>1, <2>5 DEF Usable, Knows
    <3>2. Knows(r)
      BY <2>3, <2>5, <3>1 DEF Knows
    <3>3. r.at \notin Locked
      BY <2>3, <2>5 DEF Locked
    <3> QED
      BY <1>1, <1>2, <2>1, <2>3, <3>2, <3>3, Quiet
  <2> QED
    BY <2>4, <2>5
<1> QED
  BY <1>3, <1>4

LEMMA CheckHistoryIInv == ASSUME IInv, NEW p \in Procs, CheckHistory(p) PROVE IInv'
<1>1. /\ proc[p].at = "history" /\ proc[p] \in Doing /\ Knows(proc[p])
      /\ UNCHANGED <<files, answers, relay, told, unsynced, kills>> /\ lock' = lock
  BY DEF CheckHistory, Here, owner, IInv, TypeOK
<1>2. proc[p].at \notin Locked /\ proc[p].at \notin Keeping
  BY <1>1 DEF Locked, Keeping
<1>3. CASE proc' = [proc EXCEPT ![p] = Idle]
  BY <1>1, <1>2, <1>3, StopIInv
<1> DEFINE c == [proc[p] EXCEPT !.at = "commit"]
           r == [proc[p] EXCEPT !.at = "reask", !.then = "history"]
<1>4. CASE proc' = [proc EXCEPT ![p] = c]
  <2>1. c \in Doing /\ c.at = "commit" /\ c.answer = proc[p].answer
    BY <1>1, GoStop DEF IInv, Places, Locked, Doing
  <2>2. Knows(c) /\ c.at \notin Locked
    BY <1>1, <2>1 DEF Knows, Locked
  <2> HIDE DEF c
  <2> QED
    BY <1>1, <1>2, <1>4, <2>1, <2>2, Quiet
<1>5. CASE proc' = [proc EXCEPT ![p] = r]
  <2>1. r \in Doing /\ r.at = "reask"
    BY <1>1 DEF Doing, Places
  <2> HIDE DEF r
  <2> QED
    BY <1>1, <1>2, <1>5, <2>1, GoOnIInv
<1> QED
  BY <1>3, <1>4, <1>5 DEF CheckHistory, Go, Set

LEMMA CheckOpenIInv == ASSUME IInv, NEW p \in Procs, CheckOpen(p) PROVE IInv'
<1>1. /\ proc[p].at = "reask" /\ UNCHANGED <<files, answers, relay, told, unsynced, kills>> /\ lock' = lock
  BY DEF CheckOpen, Here, owner
<1>2. proc[p].at \notin Locked /\ proc[p].at \notin Keeping
  BY <1>1 DEF Locked, Keeping
<1>3. CASE ~Open
  BY <1>1, <1>2, <1>3, StopIInv DEF CheckOpen, Set
<1>4. CASE Open
  <2> DEFINE r == [proc[p] EXCEPT !.at = "reserve_reask"]
  <2>1. r \in Doing /\ r.at = "reserve_reask"
    BY GoStop DEF IInv, Places
  <2>2. proc' = [proc EXCEPT ![p] = r]
    BY <1>4 DEF CheckOpen, Go, Set
  <2> HIDE DEF r
  <2> QED
    BY <1>1, <1>2, <2>1, <2>2, GoOnIInv
<1> QED
  BY <1>3, <1>4

LEMMA CommitIInv == ASSUME IInv, NEW p \in Procs, Commit(p) PROVE IInv'
<1> DEFINE r == [proc[p] EXCEPT !.at = "recover", !.then = "commit"]
<1>1. /\ proc[p].at = "commit" /\ proc[p] \in Doing /\ Knows(proc[p])
      /\ UNCHANGED <<files, answers, relay, told, unsynced, kills>> /\ lock = None /\ lock' = p
      /\ proc' = [proc EXCEPT ![p] = r]
  BY DEF Commit, Here, Lock, Set, owner, IInv, TypeOK
<1>2. r \in Doing /\ r.at = "recover" /\ r.then = "commit" /\ r.answer = proc[p].answer
  BY <1>1 DEF Doing, Places, Locked
<1>3. Knows(r)
  BY <1>1, <1>2 DEF Knows
<1>4. proc[p].at \notin Keeping
  BY <1>1 DEF Keeping
<1> HIDE DEF r
<1> QED
  BY <1>1, <1>2, <1>3, <1>4, Quiet

----------------------------------------------------------------------------
(* Steps that write files *)

\* A post that is there stays.
Grows(d, e) == /\ d.question # NoPost => e.question = d.question
               /\ d.reask # NoPost => e.reask = d.reask

\* Outside the lock a process knows of posts only.
LEMMA OutsideKnows ==
    ASSUME NEW r, Knows(r), r.at \notin Locked, answers' = answers,
           Grows(shown, shown'), Grows(kept, kept'), unsynced' = unsynced
    PROVE  Knows(r)'
<1>1. Usable(r.answer, shown) => Usable(r.answer, shown)'
  BY DEF Usable, Grows, NoPost
<1>2. /\ r.post # NoPost /\ Sure("question", r.post) => Sure("question", r.post)'
      /\ r.reask # NoPost /\ Sure("reask", r.reask) => Sure("reask", r.reask)'
  BY DEF Sure, Grows
<1>3. r.at \notin {"keep_question", "keep_reask", "have_reask", "recover", "write", "keep_answer",
                  "mark_gate", "keep_gate", "mark_event", "keep_event"}
  BY DEF Locked
<1> QED
  BY <1>1, <1>2, <1>3 DEF Knows

\* A write of the process inside the lock.
LEMMA InsideWrite ==
    ASSUME IInv, NEW p \in Procs, proc[p].at \in Locked, NEW r \in Doing,
           proc' = [proc EXCEPT ![p] = r],
           lock' = p \/ (lock' = None /\ r.at \notin Locked),
           answers' = answers, Grows(shown, shown'), Grows(kept, kept'),
           unsynced' = unsynced, Knows(proc[p])', TypeOK', Nearly', Posts', Decisions'
    PROVE  IInv'
<1>1. lock = p
  BY DEF IInv, LockHeld
<1>2. proc'[p] = r /\ \A q \in Procs \ {p} : proc'[q] = proc[q] /\ proc[q].at \notin Locked
  BY <1>1 DEF IInv, TypeOK, LockHeld
<1>3. LockHeld'
  BY <1>2, GateStoreAssumption DEF LockHeld
<1>4. \A q \in Procs : Knows(proc[q])'
  <2>1. \A x : Knows(x) /\ x.at \notin Locked => Knows(x)'
    BY OutsideKnows
  <2> QED
    BY <1>2, <2>1 DEF IInv
<1> QED
  BY <1>3, <1>4 DEF IInv

\* A step that shows the same files, and keeps some that were only shown.
Same(d, e) == /\ d.question = e.question /\ d.reask = e.reask /\ d.mark = e.mark
              /\ d.approval = e.approval /\ d.denial = e.denial
Firmer == /\ kept'.question \in {kept.question, shown.question}
          /\ kept'.reask \in {kept.reask, shown.reask}
          /\ kept'.mark \in {kept.mark, shown.mark}
          /\ kept'.approval = kept.approval /\ kept'.denial = kept.denial

LEMMA FirmerGrows ==
    ASSUME IInv, Same(shown, shown'), Firmer, UNCHANGED <<answers, unsynced>>
    PROVE  /\ Grows(shown, shown') /\ Grows(kept, kept')
           /\ \A a \in DOMAIN answers :
                 /\ MarkOf(a)' = MarkOf(a) /\ FileOf(a)' = FileOf(a)
                 /\ shown'[FileOf(a)] = shown[FileOf(a)]
                 /\ kept'[FileOf(a)] = kept[FileOf(a)]
                 /\ Sure(FileOf(a), a) => Sure(FileOf(a), a)'
                 /\ Sure("mark", MarkOf(a)) => Sure("mark", MarkOf(a))'
                 /\ Usable(a, shown) => Usable(a, shown)'
                 /\ Usable(a, kept) => Usable(a, kept)'
           /\ \A x \in Post \ {NoPost} :
                 /\ Sure("question", x) => Sure("question", x)'
                 /\ Sure("reask", x) => Sure("reask", x)'
<1>1. /\ kept.question # NoPost => kept'.question = kept.question
      /\ kept.reask # NoPost => kept'.reask = kept.reask
      /\ kept.mark # NoMark => kept'.mark = kept.mark
  BY DEF IInv, Nearly, Firmer
<1>2. Grows(shown, shown') /\ Grows(kept, kept')
  BY <1>1 DEF Grows, Same
<1>3. ASSUME NEW a \in DOMAIN answers
      PROVE  /\ MarkOf(a)' = MarkOf(a) /\ FileOf(a)' = FileOf(a)
             /\ shown'[FileOf(a)] = shown[FileOf(a)]
             /\ kept'[FileOf(a)] = kept[FileOf(a)]
             /\ Sure(FileOf(a), a) => Sure(FileOf(a), a)'
             /\ Sure("mark", MarkOf(a)) => Sure("mark", MarkOf(a))'
             /\ Usable(a, shown) => Usable(a, shown)'
             /\ Usable(a, kept) => Usable(a, kept)'
  <2>1. MarkOf(a)' = MarkOf(a) /\ FileOf(a)' = FileOf(a)
    BY DEF MarkOf, FileOf
  <2>2. shown'[FileOf(a)] = shown[FileOf(a)] /\ kept'[FileOf(a)] = kept[FileOf(a)]
    BY DEF FileOf, Same, Firmer
  <2>3. Sure(FileOf(a), a) => Sure(FileOf(a), a)'
    BY <2>1, <2>2 DEF Sure
  <2>4. Sure("mark", MarkOf(a)) => Sure("mark", MarkOf(a))'
    BY <1>1, <2>1, AnswerIsPositive DEF Sure, IInv
  <2>5. (Usable(a, shown) => Usable(a, shown)') /\ (Usable(a, kept) => Usable(a, kept)')
    BY <1>2 DEF Usable, Grows, NoPost
  <2> QED
    BY <2>1, <2>2, <2>3, <2>4, <2>5
<1>4. \A x \in Post \ {NoPost} :
          /\ Sure("question", x) => Sure("question", x)'
          /\ Sure("reask", x) => Sure("reask", x)'
  BY <1>1 DEF Sure
<1> QED
  BY <1>2, <1>3, <1>4

LEMMA FirmerKnows ==
    ASSUME IInv, Same(shown, shown'), Firmer, UNCHANGED <<answers, unsynced>>,
           NEW r \in Doing, Knows(r)
    PROVE  Knows(r)'
<1>1. Marking(r) => Marking(r)' /\ MarkOf(r.marks)' = MarkOf(r.marks)
  BY FirmerGrows DEF Marking
<1>2. r.answer \in DOMAIN answers =>
          /\ FileOf(r.answer)' = FileOf(r.answer)
          /\ shown'[FileOf(r.answer)] = shown[FileOf(r.answer)]
          /\ kept'[FileOf(r.answer)] = kept[FileOf(r.answer)]
          /\ Usable(r.answer, shown) => Usable(r.answer, shown)'
  BY FirmerGrows
<1>3. /\ r.post # NoPost /\ Sure("question", r.post) => Sure("question", r.post)'
      /\ r.reask # NoPost /\ Sure("reask", r.reask) => Sure("reask", r.reask)'
  BY FirmerGrows DEF Doing
<1> QED
  BY <1>1, <1>2, <1>3 DEF Knows, Undecided, Same

LEMMA FirmerPosts ==
    ASSUME IInv, Same(shown, shown'), Firmer, UNCHANGED <<answers, unsynced, published>>
    PROVE  Posts'
BY FirmerGrows DEF IInv, TypeOK, Posts, Same

LEMMA FirmerDecisions ==
    ASSUME IInv, Same(shown, shown'), Firmer, UNCHANGED <<answers, unsynced>>,
           \A a \in told' \ told :
               a \in DOMAIN answers /\ Sure("mark", MarkOf(a)) /\ Sure(FileOf(a), a)
    PROVE  Decisions'
<1>1. shown.mark # NoMark => MarkFits(shown.mark.answer)'
  <2> SUFFICES ASSUME shown.mark # NoMark, NEW b, b = shown.mark.answer
               PROVE  MarkFits(b)' /\ shown'.mark.answer = b
    OBVIOUS
  <2>1. MarkFits(b) /\ shown'.mark = shown.mark /\ b \in DOMAIN answers
    BY DEF IInv, Decisions, MarkFits, Same
  <2>2. /\ MarkOf(b)' = MarkOf(b) /\ FileOf(b)' = FileOf(b)
        /\ shown'[FileOf(b)] = shown[FileOf(b)]
        /\ Sure(FileOf(b), b) => Sure(FileOf(b), b)'
    BY <2>1, FirmerGrows
  <2> QED
    BY <2>1, <2>2 DEF MarkFits, Same
<1>2. shown.approval # 0 /\ Usable(shown.approval, kept) => Usable(shown.approval, kept)'
  <2> SUFFICES ASSUME shown.approval # 0, Usable(shown.approval, kept),
                      NEW b, b = shown.approval
               PROVE  Usable(b, kept)' /\ shown'.approval = b
    BY DEF Usable
  <2>1. b \in DOMAIN answers /\ Usable(b, kept)
    BY DEF IInv, Decisions
  <2> QED
    BY <2>1, FirmerGrows DEF Same
<1>3. \A a \in told' : Sure("mark", MarkOf(a))' /\ Sure(FileOf(a), a)'
  BY FirmerGrows DEF IInv, TypeOK, Decisions
<1> QED
  BY <1>1, <1>2, <1>3 DEF IInv, Decisions, Same

\* The two disks come closer.
LEMMA FirmerNearly ==
    ASSUME IInv, Same(shown, shown'), Firmer, UNCHANGED <<answers, unsynced>>,
           Inside("keep_question") => Inside("keep_question")' \/ kept'.question = shown.question,
           Inside("keep_reask") => Inside("keep_reask")' \/ kept'.reask = shown.reask,
           Inside("keep_gate") => Inside("keep_gate")' \/ kept'.mark = shown.mark,
           \A file : Writing(file) => Writing(file)'
    PROVE  Nearly'
BY DEF IInv, Nearly, Same, Firmer

LEMMA OutsideWrite ==
    ASSUME IInv, NEW p \in Procs, proc[p].at \notin Locked, NEW r \in Doing, r.at \notin Locked,
           proc' = [proc EXCEPT ![p] = r], UNCHANGED <<lock, answers, told, unsynced>>,
           Same(shown, shown'), Firmer, Knows(proc[p])', TypeOK', Posts'
    PROVE  IInv'
<1>1. proc'[p] = r /\ \A q \in Procs \ {p} : proc'[q] = proc[q]
  BY DEF IInv, TypeOK
<1>2. LockHeld'
  BY <1>1 DEF IInv, LockHeld
<1>3. \A q \in Procs : Knows(proc[q])'
  <2>1. \A q \in Procs : Knows(proc[q]) /\ proc[q] \in Doing
    BY DEF IInv, TypeOK
  <2>2. \A x \in Doing : Knows(x) => Knows(x)'
    BY FirmerKnows
  <2> QED
    BY <1>1, <2>1, <2>2
<1>4. \A at \in Keeping : Inside(at) => Inside(at)'
  BY <1>1 DEF Inside, Keeping, Locked
<1>5. \A file : Writing(file) => Writing(file)'
  BY <1>1 DEF Writing, Inside, Locked, FileOf
<1>6. Nearly'
  BY <1>4, <1>5, FirmerNearly DEF Keeping
<1>7. Decisions'
  BY FirmerDecisions
<1> QED
  BY <1>2, <1>3, <1>6, <1>7 DEF IInv

\* What an fsync keeps.
LEMMA BesideIs ==
    /\ Beside("question") = {"question", "asked"} /\ Beside("asked") = {"question", "asked"}
    /\ Beside("reask") = {"reask", "reasked"} /\ Beside("reasked") = {"reask", "reasked"}
    /\ Beside("approval") = {"approval"} /\ Beside("denial") = {"denial"}
    /\ Beside("mark") = {"mark"} /\ Beside("events") = {"events"}
BY DEF Beside, Directories

LEMMA SyncKeeps ==
    ASSUME TypeOK, NEW file, Sync(file)
    PROVE  /\ shown' = shown /\ kept' \in Files
           /\ \A f \in DOMAIN kept :
                  kept'[f] = IF f \in Beside(file) THEN shown[f] ELSE kept[f]
<1>1. DOMAIN kept = {"question", "reask", "approval", "denial", "mark", "events", "asked", "reasked"}
  BY DEF TypeOK, Files
<1>2. /\ shown' = shown
      /\ \A f \in DOMAIN kept : kept'[f] = IF f \in Beside(file) THEN shown[f] ELSE kept[f]
  BY DEF Sync
<1>3. kept' = [question |-> kept'.question, reask |-> kept'.reask, approval |-> kept'.approval,
               denial |-> kept'.denial, mark |-> kept'.mark, events |-> kept'.events,
               asked |-> kept'.asked, reasked |-> kept'.reasked]
  BY <1>1 DEF Sync
<1>4. \A f \in DOMAIN kept : kept'[f] \in {kept[f], shown[f]}
  BY <1>2
<1> QED
  BY <1>1, <1>2, <1>3, <1>4 DEF TypeOK, Files

LEMMA ReserveQuestionIInv == ASSUME IInv, NEW p \in Procs, ReserveQuestion(p) PROVE IInv'
<1>1. /\ proc[p].at = "reserve" /\ proc[p] \in Doing /\ Knows(proc[p])
      /\ UNCHANGED <<answers, published, told, unsynced, kills, kept>>
  BY DEF ReserveQuestion, Here, owner, files, Sign, Write, IInv, TypeOK
<1>2. proc[p].at \in Locked \ Keeping
  BY <1>1 DEF Locked, Keeping
<1>3. lock = p /\ (shown.question = kept.question \/ "question" \in unsynced)
  BY <1>2, AllKept
<1>4. shown \in Files /\ kept \in Files /\ signed \in Nat
  BY DEF IInv, TypeOK
<1>5. CASE Reserved
  <2> DEFINE r == [proc[p] EXCEPT !.at = "publish", !.post = shown.question]
  <2>1. r \in Doing /\ r.at = "publish" /\ r.post = shown.question
    BY <1>1, <1>4 DEF Doing, Files, Places
  <2>2. Knows(r) /\ r.at \notin Locked
    BY <1>3, <1>5, <2>1 DEF Knows, Reserved, Locked, Sure, IInv, Posts
  <2>3. proc' = [proc EXCEPT ![p] = r] /\ lock' = None /\ UNCHANGED <<files, relay>>
    BY <1>1, <1>5 DEF ReserveQuestion, Set, Unlock, files, relay
  <2> HIDE DEF r
  <2> QED
    BY <1>1, <1>2, <1>3, <2>1, <2>2, <2>3, Quiet
<1>6. CASE ~Reserved
  <2> DEFINE r == [proc[p] EXCEPT !.at = "keep_question"]
             new == [id |-> signed + 1, of |-> "gate"]
  <2>1. r \in Doing /\ r.at = "keep_question"
    BY GoStop DEF IInv, Places, Locked
  <2>2. /\ proc' = [proc EXCEPT ![p] = r] /\ lock' = p /\ signed' = signed + 1
        /\ shown' = [shown EXCEPT !.question = new]
    BY <1>3, <1>6 DEF ReserveQuestion, Go, Set, Sign, Write
  <2>3. new \in Post /\ new # NoPost /\ new.of = "gate"
    BY <1>4 DEF Post, NoPost
  <2> HIDE DEF r, new
  <2>4. /\ shown' \in Files /\ shown'.question = new /\ shown'.reask = shown.reask
        /\ shown'.approval = shown.approval /\ shown'.denial = shown.denial
        /\ shown'.mark = shown.mark
    BY <1>4, <2>2, <2>3 DEF Files
  <2>5. TypeOK'
    BY <1>1, <1>4, <2>1, <2>2, <2>4 DEF IInv, TypeOK
  <2>6. Grows(shown, shown') /\ Grows(kept, kept') /\ answers' = answers
    BY <1>1, <1>6, <2>4 DEF Grows, Reserved
  <2>7. proc'[p] = r
    BY <2>2 DEF IInv, TypeOK
  <2>8. Knows(proc[p])'
    BY <2>1, <2>3, <2>4, <2>7 DEF Knows
  <2>9. Inside("keep_question")'
    BY <2>1, <2>2 DEF Inside, IInv, TypeOK
  <2>10. Nearly'
    <3>1. /\ ~Inside("keep_reask") /\ ~Inside("keep_gate")
          /\ ~Writing("approval") /\ ~Writing("denial")
      BY <1>1, <1>3 DEF Inside, Writing
    <3> QED
      BY <1>1, <1>6, <2>4, <2>9, <3>1 DEF IInv, Nearly, Reserved
  <2>11. Posts' /\ Decisions'
    BY <1>1, <2>3, <2>4
       DEF IInv, Posts, Decisions, MarkFits, Usable, Sure, MarkOf, FileOf
  <2> QED
    BY <1>1, <1>2, <2>1, <2>2, <2>5, <2>6, <2>8, <2>10, <2>11, InsideWrite
<1> QED
  BY <1>5, <1>6

LEMMA KeepQuestionIInv == ASSUME IInv, NEW p \in Procs, KeepQuestion(p) PROVE IInv'
<1> DEFINE r == [proc[p] EXCEPT !.at = "publish", !.post = shown.question]
<1>1. /\ proc[p].at = "keep_question" /\ proc[p] \in Doing /\ Knows(proc[p])
      /\ UNCHANGED <<answers, signed, published, told, unsynced, kills>>
      /\ proc' = [proc EXCEPT ![p] = r] /\ lock' = None /\ Sync("question")
  BY DEF KeepQuestion, Here, Set, Unlock, owner, relay, IInv, TypeOK
<1>2. proc[p].at \in Locked /\ lock = p
  BY <1>1 DEF Locked, IInv, LockHeld
<1>3. shown \in Files /\ kept \in Files /\ shown.question # NoPost /\ shown.question.of = "gate"
  BY <1>1 DEF IInv, TypeOK, Knows, Posts
<1>4. /\ shown' = shown /\ kept' \in Files /\ kept'.question = shown.question
      /\ kept'.reask = kept.reask /\ kept'.approval = kept.approval
      /\ kept'.denial = kept.denial /\ kept'.mark = kept.mark
  BY <1>1, <1>3, SyncKeeps, BesideIs DEF IInv, Files
<1>5. Same(shown, shown') /\ Firmer
  BY <1>4 DEF Same, Firmer
<1>6. r \in Doing /\ r.at = "publish" /\ r.post = shown.question /\ r.at \notin Locked
  BY <1>1, <1>3 DEF Doing, Files, Places, Locked
<1> HIDE DEF r
<1>7. TypeOK'
  BY <1>1, <1>4, <1>6 DEF IInv, TypeOK
<1>8. proc'[p] = r
  BY <1>1 DEF IInv, TypeOK
<1>9. Knows(proc[p])'
  BY <1>3, <1>4, <1>6, <1>8 DEF Knows, Sure
<1>10. Nearly'
  <2>1. ~Inside("keep_reask") /\ ~Inside("keep_gate") /\ \A file : ~Writing(file)
    BY <1>1, <1>2 DEF Inside, Writing
  <2> QED
    BY <1>1, <1>4, <1>5, <2>1, FirmerNearly
<1>11. Posts' /\ Decisions'
  BY <1>1, <1>5, FirmerPosts, FirmerDecisions
<1> QED
  BY <1>1, <1>2, <1>5, <1>6, <1>7, <1>9, <1>10, <1>11, FirmerGrows, InsideWrite

LEMMA PublishQuestionIInv == ASSUME IInv, NEW p \in Procs, PublishQuestion(p) PROVE IInv'
<1>1. /\ proc[p].at = "publish" /\ proc[p] \in Doing /\ Knows(proc[p])
      /\ UNCHANGED <<files, lock, answers, signed, told, unsynced, kills>>
  BY DEF PublishQuestion, Here, owner, IInv, TypeOK
<1>2. proc[p].at \notin Locked /\ proc[p].at \notin Keeping
  BY <1>1 DEF Locked, Keeping
<1>3. CASE shown.asked
  BY <1>1, <1>2, <1>3, StopIInv DEF PublishQuestion, Set, relay
<1>4. CASE ~shown.asked
  <2> DEFINE r == [proc[p] EXCEPT !.at = "asked"]
  <2>1. r \in Doing /\ r.at = "asked" /\ r.post = proc[p].post /\ r.at \notin Locked
    BY <1>1, GoStop DEF IInv, Places, Doing, Locked
  <2>2. proc' = [proc EXCEPT ![p] = r] /\ published' = published \cup {proc[p].post}
    BY <1>4 DEF PublishQuestion, Go, Set
  <2>3. proc[p].post # NoPost /\ proc[p].post.of = "gate" /\ Sure("question", proc[p].post)
    BY <1>1 DEF Knows
  <2> HIDE DEF r
  <2>4. Same(shown, shown') /\ Firmer
    BY <1>1 DEF Same, Firmer, files
  <2>5. proc'[p] = r
    BY <2>2 DEF IInv, TypeOK
  <2>6. Knows(proc[p])'
    BY <1>1, <2>1, <2>3, <2>5 DEF Knows, Sure, files
  <2>7. TypeOK'
    BY <1>1, <2>1, <2>2 DEF IInv, TypeOK, Doing, files
  <2>8. Posts'
    BY <1>1, <2>2, <2>3 DEF IInv, Posts, Sure, files
  <2> QED
    BY <1>1, <1>2, <2>1, <2>2, <2>4, <2>6, <2>7, <2>8, OutsideWrite
<1> QED
  BY <1>3, <1>4

LEMMA MarkAskedIInv ==
    ASSUME IInv, NEW p \in Procs, MarkAsked(p) \/ MarkReasked(p) PROVE IInv'
<1>1. PICK at \in {"keep_asked", "keep_reasked"} :
          /\ proc[p].at \in {"asked", "reasked"}
          /\ proc' = [proc EXCEPT ![p] = [proc[p] EXCEPT !.at = at]]
  BY DEF MarkAsked, MarkReasked, Here, Go, Set
<1>2. UNCHANGED <<lock, answers, signed, published, told, unsynced, kills, kept>>
  BY DEF MarkAsked, MarkReasked, Write, owner, relay
<1> DEFINE r == [proc[p] EXCEPT !.at = at]
<1>3. r \in Doing /\ r.at = at /\ r.at \notin Locked /\ proc[p].at \notin Locked
  BY <1>1, GoStop DEF IInv, Locked, Places
<1> HIDE DEF r
<1>4. \/ shown' = [shown EXCEPT !.asked = TRUE]
      \/ shown' = [shown EXCEPT !.reasked = TRUE]
  BY DEF MarkAsked, MarkReasked, Write
<1>5. Same(shown, shown') /\ Firmer /\ shown' \in Files /\ kept' \in Files
  BY <1>2, <1>4 DEF Same, Firmer, Files, IInv, TypeOK
<1>6. proc'[p] = r
  BY <1>1 DEF r, IInv, TypeOK
<1>7. Knows(proc[p])'
  BY <1>1, <1>3, <1>6 DEF Knows
<1>8. TypeOK'
  BY <1>1, <1>2, <1>3, <1>5 DEF r, IInv, TypeOK
<1>9. Posts'
  BY <1>2, <1>5, FirmerPosts
<1> QED
  BY <1>1, <1>2, <1>3, <1>5, <1>7, <1>8, <1>9, OutsideWrite DEF r

\* The fsync of a directory outside the lock may keep the post beside the mark.
LEMMA KeepAskedIInv ==
    ASSUME IInv, NEW p \in Procs, KeepAsked(p) \/ KeepReasked(p) PROVE IInv'
<1>1. /\ proc[p].at \in {"keep_asked", "keep_reasked"} /\ proc' = [proc EXCEPT ![p] = Idle]
      /\ UNCHANGED <<lock, answers, signed, published, told, unsynced, kills>>
      /\ Sync("asked") \/ Sync("reasked")
  BY DEF KeepAsked, KeepReasked, Here, Set, owner, relay
<1>2. proc[p].at \notin Locked
  BY <1>1 DEF Locked
<1>3. /\ shown' = shown /\ kept' \in Files
      /\ kept'.question \in {kept.question, shown.question}
      /\ kept'.reask \in {kept.reask, shown.reask} /\ kept'.mark = kept.mark
      /\ kept'.approval = kept.approval /\ kept'.denial = kept.denial
  BY <1>1, SyncKeeps, BesideIs DEF IInv, TypeOK, Files
<1>4. Same(shown, shown') /\ Firmer
  BY <1>3 DEF Same, Firmer
<1>5. Knows(proc[p])'
  <2>1. proc'[p] = Idle
    BY <1>1 DEF IInv, TypeOK
  <2> QED
    BY <2>1 DEF Idle, Knows
<1>6. TypeOK'
  BY <1>1, <1>3, IdleIsFree DEF IInv, TypeOK
<1>7. Posts'
  BY <1>1, <1>4, FirmerPosts
<1> QED
  BY <1>1, <1>2, <1>4, <1>5, <1>6, <1>7, IdleIsFree, OutsideWrite

LEMMA ReserveReaskIInv == ASSUME IInv, NEW p \in Procs, ReserveReask(p) PROVE IInv'
<1>1. /\ proc[p].at = "reserve_reask" /\ proc[p] \in Doing /\ lock = None /\ lock' = p
      /\ UNCHANGED <<answers, published, told, unsynced, kills, kept>>
  BY DEF ReserveReask, Here, Lock, owner, files, Sign, Write, IInv, TypeOK
<1>2. proc[p].at \notin Locked /\ proc[p].at \notin Keeping
  BY <1>1 DEF Locked, Keeping
<1>3. /\ ~Inside("keep_question") /\ ~Inside("keep_gate")
      /\ ~Writing("approval") /\ ~Writing("denial")
  BY <1>1, GateStoreAssumption DEF Inside, Writing
<1>4. shown \in Files /\ kept \in Files /\ signed \in Nat
  BY DEF IInv, TypeOK
<1>5. CASE HasReask
  <2> DEFINE r == [proc[p] EXCEPT !.at = "have_reask"]
  <2>1. r \in Doing /\ r.at = "have_reask"
    BY GoStop DEF IInv, Places, Locked
  <2>2. Knows(r)
    BY <1>5, <2>1 DEF Knows, HasReask
  <2>3. proc' = [proc EXCEPT ![p] = r] /\ UNCHANGED <<files, relay>>
    BY <1>1, <1>5 DEF ReserveReask, Go, Set, files, relay
  <2> HIDE DEF r
  <2> QED
    BY <1>1, <1>2, <2>1, <2>2, <2>3, Quiet
<1>6. CASE ~HasReask
  <2> DEFINE r == [proc[p] EXCEPT !.at = "keep_reask"]
             of == IF proc[p].then = "history" THEN "history" ELSE "thread"
             new == [id |-> signed + 1, of |-> of]
  <2>1. r \in Doing /\ r.at = "keep_reask"
    BY GoStop DEF IInv, Places, Locked
  <2>2. /\ proc' = [proc EXCEPT ![p] = r] /\ signed' = signed + 1
        /\ shown' = [shown EXCEPT !.reask = new]
    BY <1>6 DEF ReserveReask, Go, Set, Sign, Write
  <2>3. new \in Post /\ new # NoPost /\ new.of # "gate"
    BY <1>4 DEF Post, NoPost
  <2> HIDE DEF r, new
  <2>4. /\ shown' \in Files /\ shown'.reask = new /\ shown'.question = shown.question
        /\ shown'.approval = shown.approval /\ shown'.denial = shown.denial
        /\ shown'.mark = shown.mark
    BY <1>4, <2>2, <2>3 DEF Files
  <2>5. TypeOK'
    BY <1>1, <1>4, <2>1, <2>2, <2>4 DEF IInv, TypeOK
  <2>6. Grows(shown, shown') /\ Grows(kept, kept')
    BY <1>1, <1>6, <2>4 DEF Grows, HasReask
  <2>7. proc'[p] = r /\ \A q \in Procs \ {p} : proc'[q] = proc[q] /\ proc[q].at \notin Locked
    BY <1>1, <2>2, GateStoreAssumption DEF IInv, TypeOK, LockHeld
  <2>8. LockHeld'
    BY <1>1, <2>7 DEF LockHeld
  <2>9. \A q \in Procs : Knows(proc[q])'
    <3>1. \A x : Knows(x) /\ x.at \notin Locked => Knows(x)'
      BY <1>1, <2>6, OutsideKnows
    <3>2. Knows(proc[p])'
      BY <2>1, <2>3, <2>4, <2>7 DEF Knows
    <3> QED
      BY <2>7, <3>1, <3>2 DEF IInv
  <2>10. Inside("keep_reask")'
    BY <1>1, <2>1, <2>7 DEF Inside
  <2>11. Nearly'
    BY <1>1, <1>3, <1>6, <2>4, <2>10 DEF IInv, Nearly, HasReask
  <2>12. Posts' /\ Decisions'
    BY <1>1, <2>3, <2>4
       DEF IInv, Posts, Decisions, MarkFits, Usable, Sure, MarkOf, FileOf
  <2> QED
    BY <2>5, <2>8, <2>9, <2>11, <2>12 DEF IInv
<1> QED
  BY <1>5, <1>6

LEMMA KeepReaskIInv == ASSUME IInv, NEW p \in Procs, KeepReask(p) PROVE IInv'
<1> DEFINE r == [proc[p] EXCEPT !.at = "publish_reask", !.reask = shown.reask]
<1>1. /\ proc[p].at \in {"keep_reask", "have_reask"} /\ proc[p] \in Doing /\ Knows(proc[p])
      /\ UNCHANGED <<answers, signed, published, told, unsynced, kills>>
      /\ proc' = [proc EXCEPT ![p] = r] /\ lock' = None
  BY DEF KeepReask, Here, Set, Unlock, owner, relay, IInv, TypeOK
<1>2. proc[p].at \in Locked /\ lock = p
  BY <1>1 DEF Locked, IInv, LockHeld
<1>3. shown \in Files /\ kept \in Files /\ shown.reask # NoPost /\ shown.reask.of # "gate"
  BY <1>1 DEF IInv, TypeOK, Knows, Posts
<1>4. /\ shown' = shown /\ kept' \in Files /\ kept'.question = kept.question
      /\ kept'.approval = kept.approval
      /\ kept'.denial = kept.denial /\ kept'.mark = kept.mark
      /\ \/ kept'.reask = shown.reask
         \/ kept'.reask = kept.reask /\ proc[p].at = "have_reask"
  <2>1. CASE proc[p].at = "keep_reask"
    <3>1. Sync("reask")
      BY <2>1 DEF KeepReask, Here
    <3> QED
      BY <1>3, <3>1, SyncKeeps, BesideIs DEF IInv, Files
  <2>2. CASE proc[p].at = "have_reask"
    BY <1>3, <2>2 DEF KeepReask, Here, files
  <2> QED
    BY <1>1, <2>1, <2>2
<1>5. Same(shown, shown') /\ Firmer
  BY <1>4 DEF Same, Firmer
<1>6. r \in Doing /\ r.at = "publish_reask" /\ r.reask = shown.reask /\ r.at \notin Locked
  BY <1>1, <1>3 DEF Doing, Files, Places, Locked
<1> HIDE DEF r
<1>7. TypeOK'
  BY <1>1, <1>4, <1>6 DEF IInv, TypeOK
<1>8. proc'[p] = r
  BY <1>1 DEF IInv, TypeOK
<1>9. Sure("reask", shown.reask)'
  <2>1. proc[p].at = "have_reask" => kept.reask = shown.reask \/ "reask" \in unsynced
    BY <1>1, AllKept DEF Locked, Keeping
  <2> QED
    BY <1>1, <1>4, <2>1 DEF Sure
<1>10. Knows(proc[p])'
  BY <1>1, <1>3, <1>4, <1>6, <1>8, <1>9 DEF Knows, Sure
<1>11. Nearly'
  <2>1. ~Inside("keep_question") /\ ~Inside("keep_gate") /\ \A file : ~Writing(file)
    BY <1>1, <1>2 DEF Inside, Writing
  <2>2. Inside("keep_reask") => kept'.reask = shown.reask
    BY <1>2, <1>4 DEF Inside
  <2> QED
    BY <1>1, <1>5, <2>1, <2>2, FirmerNearly
<1>12. Posts' /\ Decisions'
  BY <1>1, <1>5, FirmerPosts, FirmerDecisions
<1> QED
  BY <1>1, <1>2, <1>5, <1>6, <1>7, <1>10, <1>11, <1>12, FirmerGrows, InsideWrite

LEMMA PublishReaskIInv == ASSUME IInv, NEW p \in Procs, PublishReask(p) PROVE IInv'
<1>1. /\ proc[p].at = "publish_reask" /\ proc[p] \in Doing /\ Knows(proc[p])
      /\ UNCHANGED <<files, lock, answers, signed, told, unsynced, kills>>
  BY DEF PublishReask, Here, owner, IInv, TypeOK
<1>2. proc[p].at \notin Locked /\ proc[p].at \notin Keeping
  BY <1>1 DEF Locked, Keeping
<1>3. CASE shown.reasked
  BY <1>1, <1>2, <1>3, StopIInv DEF PublishReask, Set, relay
<1>4. CASE ~shown.reasked
  <2> DEFINE r == [proc[p] EXCEPT !.at = "reasked"]
  <2>1. r \in Doing /\ r.at = "reasked" /\ r.reask = proc[p].reask /\ r.at \notin Locked
    BY <1>1, GoStop DEF IInv, Places, Doing, Locked
  <2>2. proc' = [proc EXCEPT ![p] = r] /\ published' = published \cup {proc[p].reask}
    BY <1>4 DEF PublishReask, Go, Set
  <2>3. proc[p].reask # NoPost /\ proc[p].reask.of # "gate" /\ Sure("reask", proc[p].reask)
    BY <1>1 DEF Knows
  <2> HIDE DEF r
  <2>4. Same(shown, shown') /\ Firmer
    BY <1>1 DEF Same, Firmer, files
  <2>5. proc'[p] = r
    BY <2>2 DEF IInv, TypeOK
  <2>6. Knows(proc[p])'
    BY <1>1, <2>1, <2>3, <2>5 DEF Knows, Sure, files
  <2>7. TypeOK'
    BY <1>1, <2>1, <2>2 DEF IInv, TypeOK, Doing, files
  <2>8. Posts'
    BY <1>1, <2>2, <2>3 DEF IInv, Posts, Sure, files
  <2> QED
    BY <1>1, <1>2, <2>1, <2>2, <2>4, <2>6, <2>7, <2>8, OutsideWrite
<1> QED
  BY <1>3, <1>4

\* The mark, the posts and who published what stay; a decision file changes.
LEMMA WriteAnswerIInv == ASSUME IInv, NEW p \in Procs, WriteAnswer(p) PROVE IInv'
<1> DEFINE r == [proc[p] EXCEPT !.at = "keep_answer"]
           a == proc[p].answer
<1>1. /\ proc[p].at = "write" /\ proc[p] \in Doing /\ Knows(proc[p])
      /\ UNCHANGED <<answers, relay, told, unsynced, kills, kept, lock>>
      /\ proc' = [proc EXCEPT ![p] = r]
      /\ shown' = [shown EXCEPT ![FileOf(a)] = a]
  BY DEF WriteAnswer, Here, Write, Go, Set, owner, IInv, TypeOK
<1>2. proc[p].at \in Locked \ Keeping /\ proc[p].at \in Locked
  BY <1>1 DEF Locked, Keeping
<1>3. /\ lock = p
      /\ shown.question = kept.question \/ "question" \in unsynced
      /\ shown.reask = kept.reask \/ "reask" \in unsynced
  BY <1>2, AllKept
<1>4. /\ a \in DOMAIN answers /\ Usable(a, shown) /\ Undecided(shown)
      /\ shown.approval = 0 /\ shown.denial = 0
      /\ kept.approval = 0 /\ kept.denial = 0
  BY <1>1 DEF Knows, IInv, Nearly
<1>5. a \in Nat /\ a # 0 /\ shown \in Files /\ kept \in Files
  BY <1>4, AnswerIsPositive DEF IInv, TypeOK
<1>6. \/ /\ answers[a].decision = "deny" /\ FileOf(a) = "denial"
         /\ shown' = [shown EXCEPT !.denial = a]
      \/ /\ answers[a].decision = "approve" /\ FileOf(a) = "approval"
         /\ shown' = [shown EXCEPT !.approval = a]
  BY <1>1, <1>4, FileOfAnswer DEF IInv
<1>7. r \in Doing /\ r.at = "keep_answer" /\ r.answer = a
  BY <1>1, GoStop DEF IInv, Places, Locked, Doing
<1> HIDE DEF r, a
<1>8. /\ shown' \in Files /\ shown'.question = shown.question /\ shown'.reask = shown.reask
      /\ shown'.mark = shown.mark
      /\ \/ answers[a].decision = "deny" /\ shown'.denial = a /\ shown'.approval = 0
         \/ answers[a].decision = "approve" /\ shown'.approval = a /\ shown'.denial = 0
      /\ shown'[FileOf(a)] = a
  BY <1>4, <1>5, <1>6 DEF Files
<1>9. proc'[p] = r /\ answers' = answers
  BY <1>1 DEF IInv, TypeOK
<1>10. TypeOK'
  BY <1>1, <1>7, <1>8 DEF IInv, TypeOK, relay
<1>11. Grows(shown, shown') /\ Grows(kept, kept')
  BY <1>1, <1>8 DEF Grows
<1>12. unsynced \cap {"question", "reask"} = {} => Usable(a, kept)
  BY <1>3, <1>4 DEF Usable
<1>13. Knows(proc[p])'
  <2>1. proc'[p].answer = a /\ proc'[p].at = "keep_answer"
    BY <1>7, <1>9
  <2>2. Usable(proc[p].answer, shown)'
    BY <1>4, <1>8, <1>9, <2>1 DEF Usable
  <2>3. FileOf(proc[p].answer)' = FileOf(a)
    BY <1>9, <2>1 DEF FileOf
  <2>4. kept'[FileOf(a)] = 0
    BY <1>1, <1>4, <1>6
  <2> QED
    BY <1>4, <1>8, <1>9, <2>1, <2>2, <2>3, <2>4 DEF Knows, Undecided
<1>14. Nearly'
  <2>1. ~Inside("keep_question") /\ ~Inside("keep_reask") /\ ~Inside("keep_gate")
    BY <1>1, <1>3 DEF Inside
  <2>2. \A file : file = FileOf(a) => Writing(file)'
    <3>1. Inside("keep_answer")' /\ proc'[lock'].answer = a
      BY <1>1, <1>3, <1>7, <1>9 DEF Inside
    <3> QED
      BY <1>9, <3>1 DEF Writing, FileOf
  <2> QED
    BY <1>1, <1>4, <1>6, <1>8, <2>1, <2>2 DEF IInv, Nearly
<1>15. Posts'
  BY <1>1, <1>8 DEF IInv, Posts, Sure, relay
<1>16. Decisions'
  <2>1. \A b \in told : (Sure("mark", MarkOf(b)) /\ Sure(FileOf(b), b))'
    BY <1>1, <1>9 DEF IInv, Decisions, Sure, MarkOf, FileOf
  <2> QED
    BY <1>1, <1>4, <1>8, <1>9, <1>12, <2>1 DEF IInv, Decisions, Usable, Undecided
<1> QED
  BY <1>1, <1>2, <1>3, <1>7, <1>9, <1>10, <1>11, <1>13, <1>14, <1>15, <1>16, InsideWrite

LEMMA KeepAnswerIInv == ASSUME IInv, NEW p \in Procs, KeepAnswer(p) PROVE IInv'
<1> DEFINE a == proc[p].answer
<1>1. /\ proc[p].at = "keep_answer" /\ proc[p] \in Doing /\ Knows(proc[p])
      /\ UNCHANGED <<answers, signed, published, told, unsynced>>
  BY DEF KeepAnswer, Here, owner, relay, IInv, TypeOK
<1>2. proc[p].at \in Locked /\ lock = p
  BY <1>1 DEF Locked, IInv, LockHeld
<1>3. /\ a \in DOMAIN answers /\ Usable(a, shown) /\ Undecided(shown)
      /\ shown[FileOf(a)] = a /\ kept[FileOf(a)] = 0
      /\ shown.approval = 0 \/ shown.denial = 0
  BY <1>1 DEF Knows
<1>4. a \in Nat /\ a # 0 /\ shown \in Files /\ kept \in Files
  BY <1>3, AnswerIsPositive DEF IInv, TypeOK
<1>5. /\ ~Inside("keep_question") /\ ~Inside("keep_reask") /\ ~Inside("keep_gate")
      /\ \A file : Writing(file) => file = FileOf(a)
  BY <1>1, <1>2 DEF Inside, Writing
<1>6. \/ /\ answers[a].decision = "deny" /\ FileOf(a) = "denial"
         /\ shown.denial = a /\ shown.approval = 0 /\ kept.approval = 0 /\ kept.denial = 0
      \/ /\ answers[a].decision = "approve" /\ FileOf(a) = "approval"
         /\ shown.approval = a /\ shown.denial = 0 /\ kept.denial = 0 /\ kept.approval = 0
  BY <1>3, <1>4, FileOfAnswer DEF IInv, Nearly
<1>7. \A b \in told : FileOf(b) \in unsynced
  BY <1>6, AnswerIsPositive, FileOfAnswer DEF IInv, TypeOK, Decisions, Sure
<1> DEFINE r == [proc[p] EXCEPT !.at = "mark_gate", !.then = "accept", !.marks = a]
<1>8. CASE /\ Sync(FileOf(a)) /\ Set(p, r) /\ UNCHANGED <<lock, kills>>
  <2>1. r \in Doing /\ r.at = "mark_gate" /\ r.marks = a /\ r.then = "accept" /\ r.answer = a
    BY <1>1, <1>4 DEF Doing, Places, Locked
  <2>2. proc' = [proc EXCEPT ![p] = r] /\ proc'[p] = r /\ lock' = p
    BY <1>2, <1>8 DEF Set, IInv, TypeOK
  <2> HIDE DEF r, a
  <2>3. /\ kept' \in Files /\ shown' = shown
        /\ kept'.question = kept.question /\ kept'.reask = kept.reask /\ kept'.mark = kept.mark
        /\ kept'.approval = shown.approval /\ kept'.denial = shown.denial
        /\ kept'[FileOf(a)] = a
    BY <1>3, <1>4, <1>6, <1>8, SyncKeeps, BesideIs DEF IInv, Files
  <2>4. TypeOK'
    BY <1>1, <1>8, <2>1, <2>2, <2>3 DEF IInv, TypeOK
  <2>5. Grows(shown, shown') /\ Grows(kept, kept')
    BY <2>3 DEF Grows
  <2>6. Nearly'
    BY <1>1, <1>5, <2>3 DEF IInv, Nearly
  <2>7. Knows(proc[p])'
    <3>1. FileOf(proc[p].marks)' = FileOf(a) /\ proc'[p].marks = a
      BY <1>1, <2>1, <2>2 DEF FileOf
    <3>2. /\ proc'[p].marks \in DOMAIN answers' /\ proc'[p].marks = proc'[p].answer
          /\ proc'[p].then = "accept"
      BY <1>1, <1>3, <2>1, <2>2, <3>1
    <3>3. shown'[FileOf(a)] = a
      BY <1>3, <2>3
    <3>4. Marking(proc[p])'
      BY <2>3, <3>1, <3>2, <3>3 DEF Marking, Sure
    <3> QED
      BY <2>1, <2>2, <3>4 DEF Knows
  <2>8. Posts'
    BY <1>1, <2>3 DEF IInv, Posts, Sure
  <2>9. \A b \in told : (Sure("mark", MarkOf(b)) /\ Sure(FileOf(b), b))'
    BY <1>1, <1>7, <2>3 DEF IInv, Decisions, Sure, MarkOf, FileOf
  <2>10. Decisions'
    BY <1>1, <1>3, <2>3, <2>9 DEF IInv, Decisions, Usable, Undecided
  <2> QED
    BY <1>1, <1>2, <2>1, <2>2, <2>4, <2>5, <2>6, <2>7, <2>8, <2>10, InsideWrite
<1>9. CASE kills' = kills + 1 /\ TakeBack(FileOf(a)) /\ Set(p, Idle) /\ Unlock(p)
  <2>1. proc' = [proc EXCEPT ![p] = Idle] /\ proc'[p] = Idle /\ lock' = None
    BY <1>9 DEF Set, Unlock, IInv, TypeOK
  <2> HIDE DEF a
  <2>2. /\ kept' \in Files /\ shown' \in Files
        /\ kept'.question = kept.question /\ kept'.reask = kept.reask /\ kept'.mark = kept.mark
        /\ shown'.question = shown.question /\ shown'.reask = shown.reask
        /\ shown'.mark = shown.mark /\ kept'.approval = 0 /\ kept'.denial = 0
        /\ shown'.approval = 0 /\ shown'.denial = 0
    BY <1>4, <1>6, <1>9 DEF TakeBack, Files
  <2>3. TypeOK'
    BY <1>1, <1>9, <2>1, <2>2, IdleIsFree DEF IInv, TypeOK
  <2>4. Grows(shown, shown') /\ Grows(kept, kept')
    BY <2>2 DEF Grows
  <2>5. Knows(proc[p])'
    BY <2>1 DEF Knows, Idle
  <2>6. Nearly'
    BY <1>1, <1>5, <2>2 DEF IInv, Nearly
  <2>7. Posts'
    BY <1>1, <2>2 DEF IInv, Posts, Sure
  <2>8. \A b \in told : (Sure("mark", MarkOf(b)) /\ Sure(FileOf(b), b))'
    BY <1>1, <1>7, <2>2 DEF IInv, Decisions, Sure, MarkOf, FileOf
  <2>9. Decisions'
    BY <1>1, <1>3, <2>2, <2>8 DEF Decisions, Undecided
  <2> QED
    BY <1>1, <1>2, <2>1, <2>3, <2>4, <2>5, <2>6, <2>7, <2>9, IdleIsFree, InsideWrite
<1> QED
  BY <1>8, <1>9 DEF KeepAnswer

LEMMA MarkGateIInv == ASSUME IInv, NEW p \in Procs, MarkGate(p) PROVE IInv'
<1>0. PICK a : a = proc[p].marks
  OBVIOUS
<1>1. /\ proc[p].at = "mark_gate" /\ proc[p] \in Doing /\ Knows(proc[p])
      /\ UNCHANGED <<answers, signed, published, told, unsynced, kills>>
  BY DEF MarkGate, Here, owner, relay, IInv, TypeOK
<1>2. /\ proc[p].at \in Locked \ Keeping /\ proc[p].at \in Locked /\ proc[p].at \notin Keeping
      /\ lock = p
  BY <1>1 DEF Locked, Keeping, IInv, LockHeld
<1>3. a \in DOMAIN answers /\ shown[FileOf(a)] = a /\ Sure(FileOf(a), a) /\ Marking(proc[p])
  BY <1>0, <1>1 DEF Knows, Marking
<1>4. /\ a \in Nat /\ a # 0 /\ shown \in Files /\ kept \in Files
      /\ MarkOf(a) \in Mark /\ MarkOf(a) # NoMark
  BY <1>3, AnswerIsPositive DEF IInv, TypeOK
<1>5. CASE shown.mark \notin {NoMark, MarkOf(a)}
  <2>1. proc' = [proc EXCEPT ![p] = Idle] /\ lock' = None /\ UNCHANGED files
    BY <1>0, <1>5 DEF MarkGate, Set, Unlock
  <2> QED
    BY <1>1, <1>2, <2>1, StopIInv DEF relay
<1>6. CASE shown.mark = MarkOf(a)
  <2> DEFINE r == [proc[p] EXCEPT !.at = "mark_event"]
  <2>1. proc' = [proc EXCEPT ![p] = r] /\ lock' = lock /\ UNCHANGED files
    BY <1>0, <1>4, <1>6 DEF MarkGate, Go, Set
  <2>2. /\ r \in Doing /\ r.at = "mark_event" /\ r.marks = a
        /\ r.then = proc[p].then /\ r.answer = proc[p].answer
    BY <1>0, <1>1, GoStop DEF IInv, Places, Locked, Doing
  <2> HIDE DEF r
  <2>3. Knows(r)
    BY <1>0, <1>3, <1>6, <2>2 DEF Knows, Marking
  <2> QED
    BY <1>1, <1>2, <2>1, <2>2, <2>3, Quiet DEF relay
<1>7. CASE shown.mark = NoMark
  <2> DEFINE r == [proc[p] EXCEPT !.at = "keep_gate"]
  <2>1. /\ shown' = [shown EXCEPT !.mark = MarkOf(a)] /\ kept' = kept
        /\ proc' = [proc EXCEPT ![p] = r] /\ lock' = p
    BY <1>0, <1>2, <1>7 DEF MarkGate, Write, Go, Set
  <2>2. /\ r \in Doing /\ r.at = "keep_gate" /\ r.marks = a
        /\ r.then = proc[p].then /\ r.answer = proc[p].answer
    BY <1>0, <1>1, GoStop DEF IInv, Places, Locked, Doing
  <2>3. proc'[p] = r
    BY <2>1 DEF IInv, TypeOK
  <2>4. MarkOf(a).decision = answers[a].decision /\ MarkOf(a).answer = a
    BY DEF MarkOf
  <2> HIDE DEF r
  <2>5. /\ shown' \in Files /\ shown'.mark = MarkOf(a)
        /\ shown'.question = shown.question /\ shown'.reask = shown.reask
        /\ shown'.approval = shown.approval /\ shown'.denial = shown.denial
    BY <1>4, <2>1 DEF Files
  <2>6. TypeOK'
    BY <1>1, <1>2, <2>1, <2>2, <2>5 DEF IInv, TypeOK
  <2>7. Grows(shown, shown') /\ Grows(kept, kept')
    BY <2>1, <2>5 DEF Grows
  <2>8. /\ MarkOf(a)' = MarkOf(a) /\ FileOf(a)' = FileOf(a)
        /\ shown'[FileOf(a)] = a /\ Sure(FileOf(a), a)'
    BY <1>1, <1>3, <2>1, <2>5 DEF MarkOf, FileOf, Sure
  <2>9. Knows(proc[p])'
    <3>1. Marking(proc[p])'
      BY <1>0, <1>1, <1>3, <2>2, <2>3, <2>8 DEF Marking
    <3> QED
      BY <2>2, <2>3, <2>5, <2>8, <3>1 DEF Knows
  <2>10. Nearly'
    <3>1. Inside("keep_gate")'
      BY <2>1, <2>2, <2>3 DEF Inside
    <3>2. /\ ~Inside("keep_question") /\ ~Inside("keep_reask")
          /\ ~Writing("approval") /\ ~Writing("denial")
      BY <1>1, <1>2 DEF Inside, Writing
    <3> QED
      BY <1>1, <1>7, <2>1, <2>5, <3>1, <3>2 DEF IInv, Nearly
  <2>11. Posts'
    BY <1>1, <2>1, <2>5 DEF IInv, Posts, Sure
  <2>12. MarkFits(a)'
    <3>1. IF answers[a].decision = "deny" THEN shown.approval = 0 ELSE shown.denial = 0
      BY <1>3, <1>4, FileOfAnswer DEF IInv, Decisions
    <3> QED
      BY <1>1, <1>3, <2>5, <2>8, <3>1 DEF MarkFits
  <2>13. \A b \in told : (Sure("mark", MarkOf(b)) /\ Sure(FileOf(b), b))'
    BY <1>1, <2>1 DEF IInv, Decisions, Sure, MarkOf, FileOf
  <2>14. Decisions'
    BY <1>1, <2>1, <2>4, <2>5, <2>12, <2>13 DEF IInv, Decisions, Usable
  <2> QED
    BY <1>1, <1>2, <2>1, <2>2, <2>6, <2>7, <2>9, <2>10, <2>11, <2>14, InsideWrite
<1> QED
  BY <1>5, <1>6, <1>7

LEMMA KeepGateIInv == ASSUME IInv, NEW p \in Procs, KeepGate(p) PROVE IInv'
<1> DEFINE r == [proc[p] EXCEPT !.at = "mark_event"]
<1>1. /\ proc[p].at = "keep_gate" /\ proc[p] \in Doing /\ Knows(proc[p])
      /\ UNCHANGED <<lock, answers, signed, published, told, unsynced, kills>>
      /\ proc' = [proc EXCEPT ![p] = r] /\ Sync("mark")
  BY DEF KeepGate, Here, Go, Set, owner, relay, IInv, TypeOK
<1>2. proc[p].at \in Locked /\ lock = p
  BY <1>1 DEF Locked, IInv, LockHeld
<1>3. /\ shown' = shown /\ kept' \in Files /\ kept'.question = kept.question
      /\ kept'.reask = kept.reask /\ kept'.approval = kept.approval
      /\ kept'.denial = kept.denial /\ kept'.mark = shown.mark
  BY <1>1, SyncKeeps, BesideIs DEF IInv, TypeOK, Files
<1>4. Same(shown, shown') /\ Firmer
  BY <1>3 DEF Same, Firmer
<1>5. /\ r \in Doing /\ r.at = "mark_event" /\ r.marks = proc[p].marks
      /\ r.then = proc[p].then /\ r.answer = proc[p].answer
  BY <1>1, GoStop DEF IInv, Places, Locked, Doing
<1> HIDE DEF r
<1>6. TypeOK'
  BY <1>1, <1>3, <1>5 DEF IInv, TypeOK
<1>7. proc'[p] = r
  BY <1>1 DEF IInv, TypeOK
<1>8. Knows(r)
  BY <1>1, <1>5 DEF Knows, Marking
<1>9. Knows(proc[p])'
  BY <1>1, <1>4, <1>5, <1>7, <1>8, FirmerKnows
<1>10. Nearly'
  <2>1. ~Inside("keep_question") /\ ~Inside("keep_reask") /\ \A file : ~Writing(file)
    BY <1>1, <1>2 DEF Inside, Writing
  <2> QED
    BY <1>1, <1>3, <1>4, <2>1, FirmerNearly
<1>11. Posts' /\ Decisions'
  BY <1>1, <1>4, FirmerPosts, FirmerDecisions
<1> QED
  BY <1>1, <1>2, <1>4, <1>5, <1>6, <1>9, <1>10, <1>11, FirmerGrows, InsideWrite

LEMMA MarkEventIInv ==
    ASSUME IInv, NEW p \in Procs, MarkEvent(p) \/ KeepEvent(p) PROVE IInv'
<1> DEFINE a == proc[p].marks
           r == [proc[p] EXCEPT !.at = "read"]
           k == [proc[p] EXCEPT !.at = "keep_event"]
<1>1. /\ proc[p].at \in {"mark_event", "keep_event"} /\ proc[p] \in Doing /\ Knows(proc[p])
      /\ UNCHANGED <<answers, signed, published, unsynced, kills>>
  BY DEF MarkEvent, KeepEvent, Here, owner, relay, IInv, TypeOK
<1>2. /\ proc[p].at \in Locked /\ proc[p].at \in Locked \ Keeping /\ lock = p
  BY <1>1 DEF Locked, Keeping, IInv, LockHeld
<1>3. /\ a \in DOMAIN answers /\ shown.mark = MarkOf(a) /\ Marking(proc[p])
      /\ Sure(FileOf(a), a) /\ (proc[p].then = "accept" => proc[p].answer = a)
  BY <1>1 DEF Knows, Marking
<1>4. a \in Nat /\ shown \in Files /\ kept \in Files
  BY <1>3, AnswerIsPositive DEF IInv, TypeOK
<1>5. Sure("mark", MarkOf(a))
  BY <1>2, <1>3, AllKept DEF Sure
<1>6. /\ Same(shown, shown') /\ Firmer /\ shown' \in Files /\ kept' \in Files
  <2>1. CASE UNCHANGED files
    BY <1>4, <2>1 DEF files, Same, Firmer
  <2>2. CASE Write("events", shown.events \cup {a})
    BY <1>4, <2>2 DEF Write, Same, Firmer, Files
  <2>3. CASE Sync("events")
    BY <1>4, <2>3, SyncKeeps, BesideIs DEF IInv, Same, Firmer, Files
  <2> QED
    BY <2>1, <2>2, <2>3 DEF MarkEvent, KeepEvent
<1>7. Nearly'
  <2>1. /\ ~Inside("keep_question") /\ ~Inside("keep_reask") /\ ~Inside("keep_gate")
        /\ \A file : ~Writing(file)
    BY <1>1, <1>2 DEF Inside, Writing
  <2> QED
    BY <1>1, <1>6, <2>1, FirmerNearly
<1>8. Posts'
  BY <1>1, <1>6, FirmerPosts
<1>9. CASE Go(p, "keep_event") /\ UNCHANGED <<lock, told>>
  <2>1. /\ k \in Doing /\ k.at = "keep_event" /\ k.marks = a
        /\ k.then = proc[p].then /\ k.answer = proc[p].answer
    BY <1>1, GoStop DEF IInv, Places, Locked, Doing
  <2>2. proc' = [proc EXCEPT ![p] = k] /\ proc'[p] = k
    BY <1>9 DEF Go, Set, IInv, TypeOK
  <2> HIDE DEF k
  <2>3. Knows(k)
    BY <1>3, <2>1 DEF Knows, Marking
  <2>4. Knows(proc[p])'
    BY <1>1, <1>6, <2>1, <2>2, <2>3, FirmerKnows
  <2>5. TypeOK'
    BY <1>1, <1>6, <1>9, <2>1, <2>2 DEF IInv, TypeOK
  <2>6. Decisions'
    BY <1>1, <1>6, <1>9, FirmerDecisions
  <2> QED
    BY <1>1, <1>2, <1>6, <1>7, <1>8, <1>9, <2>1, <2>2, <2>4, <2>5, <2>6,
       FirmerGrows, InsideWrite
<1>10. CASE Consumed(p)
  <2>1. told' \subseteq told \cup {a} /\ lock' = None
    BY <1>3, <1>10 DEF Consumed, Unlock
  <2>2. PICK q \in Doing :
            /\ proc' = [proc EXCEPT ![p] = q] /\ q.at \in {"read", "idle"}
            /\ q.at = "read" => q.answer \in DOMAIN answers
    <3>1. CASE proc[p].then = "read"
      <4>1. r \in Doing /\ r.at = "read" /\ r.answer = proc[p].answer
        BY <1>1, GoStop DEF IInv, Places, Doing
      <4>2. proc' = [proc EXCEPT ![p] = r] /\ proc[p].answer \in DOMAIN answers
        BY <1>3, <1>10, <3>1 DEF Consumed, Go, Set, Marking
      <4> QED
        BY <4>1, <4>2
    <3>2. CASE proc[p].then # "read"
      <4>1. proc' = [proc EXCEPT ![p] = Idle]
        BY <1>10, <3>2 DEF Consumed, Set
      <4> QED
        BY <4>1, IdleIsFree
    <3> QED
      BY <3>1, <3>2
  <2>3. proc'[p] = q /\ q.at \notin Locked
    BY <2>2 DEF IInv, TypeOK, Locked
  <2>4. Knows(proc[p])'
    BY <1>1, <2>2, <2>3 DEF Knows
  <2>5. TypeOK'
    BY <1>1, <1>3, <1>6, <2>1, <2>2 DEF IInv, TypeOK
  <2>6. Decisions'
    BY <1>1, <1>3, <1>5, <1>6, <2>1, FirmerDecisions
  <2> QED
    BY <1>1, <1>2, <1>6, <1>7, <1>8, <2>1, <2>2, <2>3, <2>4, <2>5, <2>6,
       FirmerGrows, InsideWrite
<1> QED
  BY <1>9, <1>10 DEF MarkEvent, KeepEvent

----------------------------------------------------------------------------
(* The owner and the faults *)

LEMMA SendIInv == ASSUME IInv, Send PROVE IInv'
<1>1. /\ UNCHANGED <<shown, kept, lock, proc, signed, published, told, unsynced, kills>>
      /\ \E decision \in {"approve", "deny"}, to \in {post.id : post \in published} \cup {0} :
             answers' = Append(answers, [decision |-> decision, to |-> to])
  BY DEF Send, files, relay
<1>2. answers \in Seq(Reply) /\ published \subseteq Post
  BY DEF IInv, TypeOK
<1>3. PICK new \in Reply : answers' = Append(answers, new)
  BY <1>1, <1>2 DEF Reply, Post
<1>4. /\ answers' \in Seq(Reply) /\ DOMAIN answers \subseteq DOMAIN answers'
      /\ \A a \in DOMAIN answers : answers'[a] = answers[a]
  BY <1>2, <1>3
<1>5. TypeOK'
  BY <1>1, <1>4 DEF IInv, TypeOK
<1>6. \A p \in Procs : Knows(proc[p])'
  <2> SUFFICES ASSUME NEW p \in Procs PROVE Knows(proc[p])'
    OBVIOUS
  <2>1. Knows(proc[p]) /\ proc'[p] = proc[p]
    BY <1>1 DEF IInv
  <2>2. Marking(proc[p]) => Marking(proc[p])' /\ MarkOf(proc[p].marks)' = MarkOf(proc[p].marks)
    BY <1>1, <1>4 DEF Marking, FileOf, MarkOf, Sure
  <2>3. proc[p].answer \in DOMAIN answers =>
            /\ proc[p].answer \in DOMAIN answers'
            /\ FileOf(proc[p].answer)' = FileOf(proc[p].answer)
            /\ Usable(proc[p].answer, shown) => Usable(proc[p].answer, shown)'
    BY <1>1, <1>4 DEF FileOf, Usable
  <2> QED
    BY <1>1, <2>1, <2>2, <2>3 DEF Knows, Undecided, Sure
<1>7. LockHeld' /\ Posts'
  BY <1>1 DEF IInv, LockHeld, Posts, Sure
<1>8. Nearly'
  <2>1. \A at : Inside(at) => Inside(at)'
    BY <1>1 DEF Inside
  <2>2. \A file : Writing(file) => Writing(file)'
    <3>1. lock \in Procs /\ proc[lock].at = "keep_answer" => proc[lock].answer \in DOMAIN answers
      BY DEF IInv, Knows
    <3> QED
      BY <1>1, <1>4, <3>1 DEF Writing, Inside, FileOf
  <2> QED
    BY <1>1, <2>1, <2>2 DEF IInv, Nearly
<1>9. Decisions'
  <2>1. \A a \in DOMAIN answers : MarkOf(a)' = MarkOf(a) /\ FileOf(a)' = FileOf(a)
    BY <1>4 DEF MarkOf, FileOf
  <2>2. shown.mark # NoMark => MarkFits(shown.mark.answer)'
    BY <1>1, <1>4, <2>1 DEF IInv, Decisions, MarkFits, Sure
  <2>3. \A a \in told : (Sure("mark", MarkOf(a)) /\ Sure(FileOf(a), a))'
    BY <1>1, <2>1 DEF IInv, TypeOK, Decisions, Sure
  <2> QED
    BY <1>1, <1>4, <2>2, <2>3 DEF IInv, Decisions, Usable
<1> QED
  BY <1>5, <1>6, <1>7, <1>8, <1>9 DEF IInv

\* What the invariant speaks of is as it was.
LEMMA StillIInv ==
    ASSUME IInv,
           UNCHANGED <<shown, kept, lock, proc, answers, signed, published, told, unsynced, kills>>
    PROVE  IInv'
<1>1. \A p \in Procs : Knows(proc[p])'
  <2>1. \A x : Knows(x) => Knows(x)'
    BY KnowsStays
  <2> QED
    BY <2>1 DEF IInv
<1>2. TypeOK' /\ LockHeld'
  BY DEF IInv, TypeOK, LockHeld
<1>3. Nearly'
  BY DEF IInv, Nearly, Inside, Writing, FileOf
<1>4. Posts' /\ Decisions'
  BY DEF IInv, Posts, Decisions, MarkFits, Usable, Sure, MarkOf, FileOf
<1> QED
  BY <1>1, <1>2, <1>3, <1>4 DEF IInv

\* What a killed process had not fsynced is from then on unsynced.
LEMMA KillIInv == ASSUME IInv, NEW p \in Procs, Kill(p) PROVE IInv'
<1>1. /\ UNCHANGED <<shown, kept, answers, signed, published, told>>
      /\ proc' = [proc EXCEPT ![p] = Idle] /\ lock' = IF lock = p THEN None ELSE lock
      /\ kills' = kills + 1 /\ unsynced' = unsynced \cup Unkept(p)
  BY DEF Kill, Set, owner, relay, files
<1>2. TypeOK'
  BY <1>1, IdleIsFree DEF IInv, TypeOK
<1>3. proc'[p] = Idle /\ \A q \in Procs \ {p} : proc'[q] = proc[q]
  BY <1>1 DEF IInv, TypeOK
<1>4. LockHeld'
  BY <1>1, <1>3, IdleIsFree DEF IInv, LockHeld
<1>5. \A q \in Procs : Knows(proc[q])'
  <2>1. \A x : Knows(x) => Knows(x)'
    BY <1>1, KnowsStays
  <2> QED
    BY <1>3, <2>1, IdleIsFree DEF IInv
<1>6. /\ Inside("keep_question") => Inside("keep_question")' \/ "question" \in unsynced'
      /\ Inside("keep_reask") => Inside("keep_reask")' \/ "reask" \in unsynced'
      /\ Inside("keep_gate") => Inside("keep_gate")' \/ "mark" \in unsynced'
  BY <1>1, <1>3, GateStoreAssumption DEF Inside, Unkept, Writes, Here
<1>7. ASSUME NEW file, Writing(file)
      PROVE  Writing(file)' \/ file \in unsynced'
  <2>1. CASE lock = p
    BY <1>1, <1>7, <2>1 DEF Writing, Inside, Unkept, Here
  <2>2. CASE lock # p
    BY <1>1, <1>3, <1>7, <2>2 DEF Writing, Inside, FileOf
  <2> QED
    BY <2>1, <2>2
<1>8. Nearly'
  BY <1>1, <1>6, <1>7 DEF IInv, Nearly
<1>9. Posts'
  BY <1>1 DEF IInv, Posts, Sure
<1>10. Decisions'
  BY <1>1 DEF IInv, Decisions, MarkFits, Usable, Sure, MarkOf, FileOf
<1> QED
  BY <1>2, <1>4, <1>5, <1>8, <1>9, <1>10 DEF IInv

\* A file that is lost was nowhere kept; what is left is kept.
LEMMA PowerLossIInv == ASSUME IInv, PowerLoss PROVE IInv'
<1>1. PICK lost \in SUBSET {f \in DOMAIN shown : shown[f] # kept[f]} :
          shown' = [f \in DOMAIN shown |-> IF f \in lost THEN kept[f] ELSE shown[f]]
  BY DEF PowerLoss
<1>2. /\ kept' = shown' /\ lock' = None /\ proc' = [p \in Procs |-> Idle] /\ kills' = kills + 1
      /\ UNCHANGED <<answers, signed, published, told, unsynced>>
  BY DEF PowerLoss, owner, relay
<1>3. shown \in Files /\ kept \in Files
  BY DEF IInv, TypeOK
<1>4. /\ shown'.question \in {shown.question, kept.question}
      /\ shown'.reask \in {shown.reask, kept.reask}
      /\ shown'.approval \in {shown.approval, kept.approval}
      /\ shown'.denial \in {shown.denial, kept.denial}
      /\ shown'.mark \in {shown.mark, kept.mark}
  BY <1>1, <1>3 DEF Files
<1>5. shown' \in Files
  <2>1. DOMAIN shown = {"question", "reask", "approval", "denial", "mark", "events", "asked", "reasked"}
    BY <1>3 DEF Files
  <2>2. shown' = [question |-> shown'.question, reask |-> shown'.reask,
                  approval |-> shown'.approval, denial |-> shown'.denial, mark |-> shown'.mark,
                  events |-> shown'.events, asked |-> shown'.asked, reasked |-> shown'.reasked]
    BY <1>1, <2>1
  <2>3. /\ shown'.events \in {shown.events, kept.events}
        /\ shown'.asked \in {shown.asked, kept.asked}
        /\ shown'.reasked \in {shown.reasked, kept.reasked}
    BY <1>1, <2>1
  <2> QED
    BY <1>3, <1>4, <2>2, <2>3 DEF Files
<1>6. TypeOK'
  BY <1>2, <1>5, IdleIsFree DEF IInv, TypeOK
<1>7. \A p \in Procs : proc'[p] = Idle
  BY <1>2
<1>8. LockHeld' /\ \A p \in Procs : Knows(proc[p])'
  BY <1>7 DEF LockHeld, Knows, Idle, Locked
<1>9. Nearly'
  BY <1>2 DEF Nearly
<1>10. /\ kept.question # NoPost => shown'.question = kept.question
       /\ kept.reask # NoPost => shown'.reask = kept.reask
       /\ kept.mark # NoMark => shown'.mark = kept.mark
       /\ kept.approval # 0 => shown'.approval = kept.approval
       /\ kept.denial # 0 => shown'.denial = kept.denial
  BY <1>4 DEF IInv, Nearly
<1>11. /\ shown'.question \in {NoPost, shown.question} /\ shown'.reask \in {NoPost, shown.reask}
       /\ shown'.mark \in {NoMark, shown.mark}
       /\ shown'.approval \in {0, shown.approval} /\ shown'.denial \in {0, shown.denial}
  BY <1>4 DEF IInv, Nearly
<1>12. Posts'
  BY <1>2, <1>10, <1>11 DEF IInv, Posts, Sure
<1>13. ASSUME NEW a \in DOMAIN answers
       PROVE  /\ MarkOf(a)' = MarkOf(a) /\ FileOf(a)' = FileOf(a)
              /\ Sure(FileOf(a), a) => Sure(FileOf(a), a)'
              /\ Sure("mark", MarkOf(a)) => Sure("mark", MarkOf(a))'
              /\ shown'[FileOf(a)] \in {0, shown[FileOf(a)]}
  <2>1. MarkOf(a)' = MarkOf(a) /\ FileOf(a)' = FileOf(a)
    BY <1>2 DEF MarkOf, FileOf
  <2>2. Sure(FileOf(a), a) => Sure(FileOf(a), a)'
    BY <1>2, <1>10, <2>1, AnswerIsPositive, FileOfAnswer DEF Sure, IInv
  <2>3. Sure("mark", MarkOf(a)) => Sure("mark", MarkOf(a))'
    BY <1>2, <1>10, <2>1, AnswerIsPositive DEF Sure, IInv
  <2>4. shown'[FileOf(a)] \in {0, shown[FileOf(a)]}
    BY <1>11, FileOfAnswer DEF IInv
  <2> QED
    BY <2>1, <2>2, <2>3, <2>4
<1>14. shown'.approval # 0 /\ unsynced \cap {"question", "reask"} = {} =>
           Usable(shown.approval, kept)'
  BY <1>2, <1>10, <1>11 DEF IInv, Decisions, Usable, NoPost
<1>15. shown'.mark # NoMark => MarkFits(shown.mark.answer)'
  <2> SUFFICES ASSUME shown'.mark # NoMark PROVE MarkFits(shown.mark.answer)'
    OBVIOUS
  <2>1. shown'.mark = shown.mark /\ MarkFits(shown.mark.answer)
    BY <1>11 DEF IInv, Decisions
  <2> QED
    BY <1>2, <1>11, <1>13, <2>1 DEF MarkFits
<1>16. Decisions'
  BY <1>2, <1>11, <1>13, <1>14, <1>15 DEF IInv, TypeOK, Decisions
<1> QED
  BY <1>6, <1>8, <1>9, <1>12, <1>16 DEF IInv

----------------------------------------------------------------------------
(* Theorems *)

LEMMA NextIInv == ASSUME IInv, [Next]_vars PROVE IInv'
<1>1. CASE UNCHANGED vars
  BY <1>1, StillIInv DEF vars, files, owner, relay
<1>2. CASE Send
  BY <1>2, SendIInv
<1>3. CASE Delete
  BY <1>3, StillIInv DEF Delete, files, relay
<1>4. CASE PowerLoss
  BY <1>4, PowerLossIInv
<1>5. ASSUME NEW p \in Procs,
             \/ PostQuestion(p) \/ ReserveQuestion(p) \/ KeepQuestion(p) \/ PublishQuestion(p)
             \/ MarkAsked(p) \/ KeepAsked(p) \/ HandleEvent(p) \/ Recover(p) \/ Verify(p)
             \/ CheckHistory(p)
      PROVE  IInv'
  BY <1>5, PostQuestionIInv, ReserveQuestionIInv, KeepQuestionIInv, PublishQuestionIInv,
     MarkAskedIInv, KeepAskedIInv, HandleEventIInv, RecoverIInv, VerifyIInv, CheckHistoryIInv
<1>6. ASSUME NEW p \in Procs,
             \/ CheckOpen(p) \/ ReserveReask(p) \/ KeepReask(p) \/ PublishReask(p)
             \/ MarkReasked(p) \/ KeepReasked(p) \/ Commit(p) \/ WriteAnswer(p) \/ KeepAnswer(p)
             \/ MarkGate(p) \/ KeepGate(p) \/ MarkEvent(p) \/ KeepEvent(p) \/ Kill(p)
      PROVE  IInv'
  BY <1>6, CheckOpenIInv, ReserveReaskIInv, KeepReaskIInv, PublishReaskIInv, MarkAskedIInv,
     KeepAskedIInv, CommitIInv, WriteAnswerIInv, KeepAnswerIInv, MarkGateIInv, KeepGateIInv,
     MarkEventIInv, KillIInv
<1> QED
  BY <1>1, <1>2, <1>3, <1>4, <1>5, <1>6 DEF Next

LEMMA Invariance == Spec => []IInv
<1>1. IInv /\ [Next]_vars => IInv'
  BY NextIInv
<1> QED
  BY InitIInv, <1>1, PTL DEF Spec

\* The decision that lasts is the one every reader finds.
LEMMA IInvAnsweredOnce == IInv => AnsweredOnce
<1> SUFFICES ASSUME IInv, NEW a \in told, Lasts(a)
             PROVE  Decision = answers[a].decision /\ \A b \in told : Lasts(b) => a = b
  BY DEF AnsweredOnce
<1>1. /\ a \in DOMAIN answers /\ a \in Nat /\ a # 0 /\ MarkOf(a) # NoMark
      /\ answers[a].decision \in {"approve", "deny"}
  BY AnswerIsPositive DEF IInv, TypeOK, Reply
<1>2. \A b \in told : Lasts(b) => shown.mark = MarkOf(b) \/ shown[FileOf(b)] = b
  <2> SUFFICES ASSUME NEW b \in told, Lasts(b)
               PROVE  shown.mark = MarkOf(b) \/ shown[FileOf(b)] = b
    OBVIOUS
  <2>1. b \in DOMAIN answers /\ b # 0 /\ MarkOf(b) # NoMark
    BY AnswerIsPositive DEF IInv, TypeOK
  <2>2. kept.mark = MarkOf(b) \/ kept[FileOf(b)] = b
    BY DEF IInv, Decisions, Sure, Lasts
  <2> QED
    BY <2>1, <2>2, FileOfAnswer DEF IInv, Nearly
<1>3. \A b \in told : MarkOf(b).answer = b /\ MarkOf(b).decision = answers[b].decision
  BY DEF MarkOf
<1>4. shown.mark = NoMark \/ \E c \in DOMAIN answers :
          /\ shown.mark = MarkOf(c) /\ shown[FileOf(c)] \in {0, c}
          /\ IF answers[c].decision = "deny" THEN shown.approval = 0 ELSE shown.denial = 0
  BY DEF IInv, Decisions, MarkFits
<1>5. \A b \in told : Lasts(b) => a = b
  <2> SUFFICES ASSUME NEW b \in told, Lasts(b) PROVE a = b
    OBVIOUS
  <2>1. b \in DOMAIN answers /\ b # 0 /\ MarkOf(b) # NoMark
    BY AnswerIsPositive DEF IInv, TypeOK
  <2>2. CASE shown.mark = MarkOf(a) /\ shown.mark = MarkOf(b)
    BY <1>3, <2>2
  <2>3. CASE shown[FileOf(a)] = a /\ shown[FileOf(b)] = b
    BY <1>1, <2>1, <2>3, FileOfAnswer DEF IInv, Decisions
  <2>4. ASSUME NEW x \in DOMAIN answers, NEW y \in DOMAIN answers, x # 0, y # 0,
               shown.mark = MarkOf(x), shown[FileOf(y)] = y
        PROVE  x = y
    <3>1. MarkOf(x) # NoMark /\ MarkOf(x).answer = x
      BY AnswerIsPositive DEF IInv, MarkOf
    <3>2. MarkFits(x)
      BY <2>4, <3>1 DEF IInv, Decisions
    <3> QED
      BY <2>4, <3>2, FileOfAnswer DEF IInv, MarkFits
  <2> QED
    BY <1>1, <1>2, <2>1, <2>2, <2>3, <2>4
<1>6. CASE shown.mark = MarkOf(a)
  <2>1. MarkFits(a) /\ shown.mark.decision = answers[a].decision /\ shown.mark # NoMark
    BY <1>1, <1>3, <1>6 DEF IInv, Decisions
  <2>2. CASE answers[a].decision = "deny"
    BY <1>5, <2>1, <2>2 DEF Decision
  <2>3. CASE answers[a].decision = "approve"
    BY <1>5, <2>1, <2>3 DEF Decision, MarkFits
  <2> QED
    BY <1>1, <2>2, <2>3
<1>7. CASE shown[FileOf(a)] = a
  <2>1. CASE answers[a].decision = "deny"
    BY <1>1, <1>5, <1>7, <2>1, FileOfAnswer DEF IInv, Decision
  <2>2. CASE answers[a].decision = "approve"
    <3>1. shown.approval = a /\ shown.denial = 0
      BY <1>1, <1>7, <2>2, FileOfAnswer DEF IInv, Decisions
    <3>2. shown.mark.decision # "deny"
      <4> SUFFICES ASSUME shown.mark.decision = "deny" PROVE FALSE
        OBVIOUS
      <4>1. shown.mark # NoMark /\ MarkFits(shown.mark.answer)
        BY DEF NoMark, IInv, Decisions
      <4>2. answers[shown.mark.answer].decision = "deny"
        BY <4>1 DEF MarkFits, MarkOf
      <4> QED
        BY <1>1, <3>1, <4>1, <4>2 DEF MarkFits
    <3>3. Decision = "approve"
      BY <1>1, <3>1, <3>2 DEF Decision
    <3> QED
      BY <1>5, <2>2, <3>3
  <2> QED
    BY <1>1, <2>1, <2>2
<1> QED
  BY <1>2, <1>6, <1>7

LEMMA IInvAcceptedIsUsable == IInv => AcceptedIsUsable
<1> SUFFICES ASSUME IInv, unsynced \cap {"approval", "question", "reask"} = {},
                    NEW a \in told, answers[a].decision = "approve"
             PROVE  Accepted /\ shown.approval = a
  BY DEF AcceptedIsUsable
<1>1. FileOf(a) = "approval" /\ a \in DOMAIN answers /\ a # 0
  BY AnswerIsPositive DEF IInv, TypeOK, FileOf
<1>2. kept.approval = a
  BY <1>1 DEF IInv, Decisions, Sure
<1>3. shown.approval = a
  BY <1>1, <1>2 DEF IInv, Nearly
<1>4. Decision = "approve"
  BY <1>1, IInvAnsweredOnce DEF AnsweredOnce, Lasts
<1>5. Usable(a, kept)
  BY <1>1, <1>3 DEF IInv, Decisions
<1> QED
  BY <1>1, <1>3, <1>4, <1>5 DEF IInv, Nearly, Usable, Accepted, NoPost

\* At most one answer of the owner is ever accepted, and what its sender was
\* told stays the decision, for any number of processes, kills and losses,
\* unless killed processes left both its file and the mark unsynced.
THEOREM OneAnswer == Spec => []AnsweredOnce
BY Invariance, IInvAnsweredOnce, PTL

\* An approval whose sender was told of it passes every later check, unless a
\* killed process left it, the question or the re-ask unsynced.
THEOREM ApprovalLasts == Spec => []AcceptedIsUsable
BY Invariance, IInvAcceptedIsUsable, PTL

\* The relay never shows two questions, nor two re-asks, of a gate, unless a
\* killed process left the first one unsynced.
THEOREM AskedOnce == Spec => []OnePost
<1>1. IInv => OnePost
  BY DEF IInv, Posts, Sure, OnePost
<1> QED
  BY Invariance, <1>1, PTL

\* No disk ever has a mark without the signed answer it stands for, unless a
\* killed process left the answer unsynced; another answer is never there.
THEOREM MarkHasEvidence == Spec => []EvidenceFirst
<1>1. IInv => EvidenceFirst
  <2> SUFFICES ASSUME IInv, NEW disk \in {shown, kept}, disk.mark # NoMark,
                      NEW file, file = IF disk.mark.decision = "deny" THEN "denial" ELSE "approval"
               PROVE  disk[file] = disk.mark.answer \/ (disk[file] = 0 /\ file \in unsynced)
    BY DEF EvidenceFirst
  <2>1. disk.mark = shown.mark /\ shown.mark # NoMark
    BY DEF IInv, Nearly
  <2> DEFINE a == shown.mark.answer
  <2>2. MarkFits(a)
    BY <2>1 DEF IInv, Decisions
  <2>3. a \in DOMAIN answers /\ a # 0 /\ file = FileOf(a)
    BY <2>1, <2>2, AnswerIsPositive DEF IInv, MarkFits, MarkOf, FileOf
  <2>4. kept[file] \in {0, shown[file]}
    BY <2>3, FileOfAnswer DEF IInv, Nearly
  <2>5. shown[file] \in {0, a} /\ (file \in unsynced \/ kept[file] = a)
    BY <2>2, <2>3 DEF MarkFits, Sure
  <2> QED
    BY <2>1, <2>3, <2>4, <2>5
<1> QED
  BY Invariance, <1>1, PTL
=============================================================================
