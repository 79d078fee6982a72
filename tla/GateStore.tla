------------------------------ MODULE GateStore ------------------------------
(* One gate of the gate store (internal/gatestore) and the core that asks   *)
(* its question and takes the owner's answers (internal/gateverify), by     *)
(* processes that share the store's files: the operator's process, a lead's *)
(* command, a retry.  A write takes the gate lock and is two steps, the     *)
(* file under its name and the fsync of its directory; the reads take no    *)
(* lock.  A process may be killed between any two steps, and the machine    *)
(* may lose power: then every name not yet fsynced may be gone.  The code   *)
(* uses a file it finds without an fsync of its own, so a power loss may    *)
(* also take a file that a process killed between the two steps left and    *)
(* another has acted on: unsynced remembers which files that may be, and    *)
(* the properties are about the others.                                     *)
(* Left out: other gates (each has its lock), events that are not the       *)
(* owner's or do not name this gate, the growth grants; the record of the   *)
(* gate is there.  A write that fails is a kill after it, but for the       *)
(* decision file, which the writer takes back.                              *)
EXTENDS Naturals, Sequences, FiniteSets

CONSTANTS
    Procs,         \* processes that post the question or take answers
    None,          \* nobody
    MaxAnswers,    \* bound on the owner's answers
    MaxDeletions,  \* bound on the deletions the relay hides
    MaxKills       \* bound on kills, failed writes and power losses

ASSUME GateStoreAssumption ==
    /\ None \notin Procs
    /\ MaxAnswers \in Nat /\ MaxDeletions \in Nat /\ MaxKills \in Nat

VARIABLES
    shown,      \* the files of the gate, as a process reads them
    kept,       \* the files, as they are after a power loss
    lock,       \* who holds the gate lock
    proc,       \* proc[p]: what process p does and what it read
    answers,    \* the owner's answers: a decision and the post it replies to
    deleted,    \* deletions that hide their target, as seen from the re-ask
    signed,     \* how many posts were ever signed
    published,  \* the posts of this gate on the relay: its question, its re-asks
    told,       \* answers whose sender was told "accepted"
    unsynced,   \* files left by a process killed between the name and the fsync
    kills

files == <<shown, kept>>
owner == <<answers, deleted>>
relay == <<signed, published>>
vars  == <<files, lock, proc, owner, relay, told, unsynced, kills>>

NoPost  == [id |-> 0, of |-> "none"]
NoMark  == [decision |-> "none", answer |-> 0]
Empty   == [question |-> NoPost, reask |-> NoPost, approval |-> 0, denial |-> 0,
            mark |-> NoMark, events |-> {}, asked |-> FALSE, reasked |-> FALSE]
Idle    == [at |-> "idle", answer |-> 0, marks |-> 0, post |-> NoPost, reask |-> NoPost,
            then |-> "idle"]

Here(p, at) == proc[p].at = at
Set(p, new) == proc' = [proc EXCEPT ![p] = new]
Go(p, at)   == Set(p, [proc[p] EXCEPT !.at = at])
Answer(p)   == answers[proc[p].answer]

\* Mutant: the lock keeps nobody out.
LockAnyway(p) == lock' = p
Lock(p)   == lock = None /\ lock' = p
Unlock(p) == lock' = None

\* A file under its name; the fsync of its directory, which keeps what else is
\* in it.  Mutant of Sync: the directory is not fsynced.
Directories == {{"question", "asked"}, {"reask", "reasked"}, {"approval"}, {"denial"},
                {"mark"}, {"events"}}
Beside(file) == UNION {d \in Directories : file \in d}
SyncLater(file) == UNCHANGED files
Write(file, value) == shown' = [shown EXCEPT ![file] = value] /\ UNCHANGED kept
Sync(file) ==
    /\ kept' = [f \in DOMAIN kept |-> IF f \in Beside(file) THEN shown[f] ELSE kept[f]]
    /\ UNCHANGED shown

----------------------------------------------------------------------------
(* Readers *)

Decision ==
    IF shown.denial # 0 \/ shown.mark.decision = "deny" THEN "deny"
    ELSE IF shown.approval # 0 \/ shown.mark # NoMark THEN "approve" ELSE "open"

Open == Decision = "open"

\* The decision file that recoverLocked finds; a deny wins.
Decided ==
    IF shown.denial # 0 THEN shown.denial
    ELSE IF shown.mark.decision = "deny" THEN 0 ELSE shown.approval

MarkOf(a) == [decision |-> answers[a].decision, answer |-> a]
Marked(a) == shown.mark # NoMark /\ a \in shown.events
Replayed(a) == shown.mark # NoMark \/ a \in shown.events

\* What a consumer accepts: the approval, and the posts it can be bound to.
Accepted ==
    /\ Decision = "approve" /\ shown.approval # 0
    /\ answers[shown.approval].to \in {shown.question.id, shown.reask.id} \ {0}
    /\ shown.question # NoPost

----------------------------------------------------------------------------
(* The question: reserved under the lock, published outside it *)

Sign(file, of) ==
    /\ signed' = signed + 1
    /\ Write(file, [id |-> signed + 1, of |-> of])

PostQuestion(p) ==
    /\ Here(p, "idle") /\ Lock(p)
    /\ Go(p, "reserve")
    /\ UNCHANGED <<files, owner, relay, told, unsynced, kills>>

\* Mutant: a question whose publishing is not recorded is signed again.
AskedBefore == shown.question # NoPost /\ shown.asked
Reserved == shown.question # NoPost

ReserveQuestion(p) ==
    /\ Here(p, "reserve")
    /\ IF Reserved
       THEN Set(p, [proc[p] EXCEPT !.at = "publish", !.post = shown.question])
            /\ Unlock(p) /\ UNCHANGED <<files, signed>>
       ELSE Sign("question", "gate") /\ Go(p, "keep_question") /\ UNCHANGED lock
    /\ UNCHANGED <<owner, published, told, unsynced, kills>>

KeepQuestion(p) ==
    /\ Here(p, "keep_question")
    /\ Sync("question")
    /\ Set(p, [proc[p] EXCEPT !.at = "publish", !.post = shown.question])
    /\ Unlock(p)
    /\ UNCHANGED <<owner, relay, told, unsynced, kills>>

\* A question already published is refused.
PublishQuestion(p) ==
    /\ Here(p, "publish")
    /\ IF shown.asked THEN Set(p, Idle) /\ UNCHANGED published
       ELSE Go(p, "asked") /\ published' = published \cup {proc[p].post}
    /\ UNCHANGED <<files, lock, owner, signed, told, unsynced, kills>>

MarkAsked(p) ==
    /\ Here(p, "asked")
    /\ Write("asked", TRUE) /\ Go(p, "keep_asked")
    /\ UNCHANGED <<lock, owner, relay, told, unsynced, kills>>

KeepAsked(p) ==
    /\ Here(p, "keep_asked")
    /\ Sync("asked") /\ Set(p, Idle)
    /\ UNCHANGED <<lock, owner, relay, told, unsynced, kills>>

----------------------------------------------------------------------------
(* An answer: recover, check, verify *)

HandleEvent(p) ==
    /\ Here(p, "idle") /\ Lock(p)
    /\ \E a \in DOMAIN answers :
           Set(p, [Idle EXCEPT !.at = "recover", !.answer = a, !.then = "read"])
    /\ UNCHANGED <<files, owner, relay, told, unsynced, kills>>

\* A decision without both its marks is given them; "refuse" ends the commit
\* of another answer, and "accept" the retry of an interrupted one.
Recover(p) ==
    LET a == Decided
    IN  /\ Here(p, "recover")
        /\ IF a # 0 /\ ~Marked(a)
           THEN Set(p, [proc[p] EXCEPT !.at = "mark_gate", !.marks = a,
                            !.then = IF @ = "read" THEN "read"
                                     ELSE IF a = proc[p].answer THEN "accept" ELSE "refuse"])
                /\ UNCHANGED lock
           ELSE IF proc[p].then = "read" THEN Go(p, "read") /\ Unlock(p)
           ELSE IF a = 0 /\ ~Replayed(proc[p].answer)
                THEN Go(p, "write") /\ UNCHANGED lock
                ELSE Set(p, Idle) /\ Unlock(p)
        /\ UNCHANGED <<files, owner, relay, told, unsynced, kills>>

\* Question, re-ask and clock, read without the lock, and what Verify says: it
\* may always find that the window of the gate has passed.
Verify(p) ==
    LET to == Answer(p).to
        now == [proc[p] EXCEPT !.reask = shown.reask]
    IN  /\ Here(p, "read")
        /\ \/ Set(p, Idle)
           \/ /\ ~Replayed(proc[p].answer) /\ shown.question # NoPost
              /\ to \in {0, shown.question.id, shown.reask.id}
              /\ to = 0 => ~(shown.reask # NoPost /\ shown.reasked)
              /\ Set(p, [now EXCEPT !.at = IF to = 0 THEN "reask" ELSE "history"])
        /\ UNCHANGED <<files, lock, owner, relay, told, unsynced, kills>>

\* A deletion since the question, or since the re-ask that showed it again.
Altered(p) ==
    IF proc[p].reask.of = "history" THEN "since" \in deleted ELSE deleted # {}

CheckHistory(p) ==
    /\ Here(p, "history")
    /\ IF ~Altered(p) THEN Go(p, "commit")
       ELSE IF proc[p].reask = NoPost
            THEN Set(p, [proc[p] EXCEPT !.at = "reask", !.then = "history"])
            ELSE Set(p, Idle)
    /\ UNCHANGED <<files, lock, owner, relay, told, unsynced, kills>>

----------------------------------------------------------------------------
(* The re-ask, at most one for the gate *)

\* Whether the gate is open is read before the lock; its window was read by
\* Verify, whose clock this check takes.
CheckOpen(p) ==
    /\ Here(p, "reask")
    /\ IF Open THEN Go(p, "reserve_reask") ELSE Set(p, Idle)
    /\ UNCHANGED <<files, lock, owner, relay, told, unsynced, kills>>

\* Mutant: a re-ask that is not yet published is signed again.
ReaskedBefore == shown.reask # NoPost /\ shown.reasked
HasReask == shown.reask # NoPost

ReserveReask(p) ==
    /\ Here(p, "reserve_reask") /\ Lock(p)
    /\ IF HasReask
       THEN Go(p, "have_reask") /\ UNCHANGED <<files, signed>>
       ELSE /\ Sign("reask", IF proc[p].then = "history" THEN "history" ELSE "thread")
            /\ Go(p, "keep_reask")
    /\ UNCHANGED <<owner, published, told, unsynced, kills>>

KeepReask(p) ==
    /\ Here(p, "keep_reask") \/ Here(p, "have_reask")
    /\ IF Here(p, "keep_reask") THEN Sync("reask") ELSE UNCHANGED files
    /\ Set(p, [proc[p] EXCEPT !.at = "publish_reask", !.reask = shown.reask])
    /\ Unlock(p)
    /\ UNCHANGED <<owner, relay, told, unsynced, kills>>

PublishReask(p) ==
    /\ Here(p, "publish_reask")
    /\ IF shown.reasked THEN Set(p, Idle) /\ UNCHANGED published
       ELSE Go(p, "reasked") /\ published' = published \cup {proc[p].reask}
    /\ UNCHANGED <<files, lock, owner, signed, told, unsynced, kills>>

MarkReasked(p) ==
    /\ Here(p, "reasked")
    /\ Write("reasked", TRUE) /\ Go(p, "keep_reasked")
    /\ UNCHANGED <<lock, owner, relay, told, unsynced, kills>>

KeepReasked(p) ==
    /\ Here(p, "keep_reasked")
    /\ Sync("reasked") /\ Set(p, Idle)
    /\ UNCHANGED <<lock, owner, relay, told, unsynced, kills>>

----------------------------------------------------------------------------
(* The commit: the decision file, the mark of the gate, that of the event *)

Commit(p) ==
    /\ Here(p, "commit") /\ Lock(p)
    /\ Set(p, [proc[p] EXCEPT !.at = "recover", !.then = "commit"])
    /\ UNCHANGED <<files, owner, relay, told, unsynced, kills>>

FileOf(a) == IF answers[a].decision = "deny" THEN "denial" ELSE "approval"

WriteAnswer(p) ==
    /\ Here(p, "write")
    /\ Write(FileOf(proc[p].answer), proc[p].answer)
    /\ Go(p, "keep_answer")
    /\ UNCHANGED <<lock, owner, relay, told, unsynced, kills>>

\* The directory cannot be fsynced: the file is taken back.
TakeBack(file) ==
    shown' = [shown EXCEPT ![file] = 0] /\ kept' = [kept EXCEPT ![file] = 0]

KeepAnswer(p) ==
    /\ Here(p, "keep_answer")
    /\ \/ /\ Sync(FileOf(proc[p].answer))
          /\ Set(p, [proc[p] EXCEPT !.at = "mark_gate", !.then = "accept",
                                        !.marks = proc[p].answer])
          /\ UNCHANGED <<lock, kills>>
       \/ /\ kills < MaxKills /\ kills' = kills + 1
          /\ TakeBack(FileOf(proc[p].answer))
          /\ Set(p, Idle) /\ Unlock(p)
    /\ UNCHANGED <<owner, relay, told, unsynced>>

\* A mark that is there for this same answer is kept, and not fsynced again.
MarkGate(p) ==
    LET a == proc[p].marks
    IN  /\ Here(p, "mark_gate")
        /\ IF shown.mark = NoMark
           THEN Write("mark", MarkOf(a)) /\ Go(p, "keep_gate") /\ UNCHANGED lock
           ELSE /\ IF shown.mark = MarkOf(a) THEN Go(p, "mark_event") /\ UNCHANGED lock
                   ELSE Set(p, Idle) /\ Unlock(p)
                /\ UNCHANGED files
        /\ UNCHANGED <<owner, relay, told, unsynced, kills>>

KeepGate(p) ==
    /\ Here(p, "keep_gate")
    /\ Sync("mark") /\ Go(p, "mark_event")
    /\ UNCHANGED <<lock, owner, relay, told, unsynced, kills>>

\* Both marks are there: a recovery goes on to its reads, a commit tells.
Consumed(p) ==
    /\ Unlock(p)
    /\ IF proc[p].then = "read" THEN Go(p, "read") ELSE Set(p, Idle)
    /\ told' = IF proc[p].then = "accept" THEN told \cup {proc[p].answer} ELSE told

MarkEvent(p) ==
    /\ Here(p, "mark_event")
    /\ IF proc[p].marks \in shown.events THEN Consumed(p) /\ UNCHANGED files
       ELSE /\ Write("events", shown.events \cup {proc[p].marks})
            /\ Go(p, "keep_event") /\ UNCHANGED <<lock, told>>
    /\ UNCHANGED <<owner, relay, unsynced, kills>>

KeepEvent(p) ==
    /\ Here(p, "keep_event")
    /\ Sync("events") /\ Consumed(p)
    /\ UNCHANGED <<owner, relay, unsynced, kills>>

----------------------------------------------------------------------------
(* The owner and the faults *)

\* The owner answers in the thread of a post on the relay, or outside.
Send ==
    /\ Len(answers) < MaxAnswers /\ published # {}
    /\ \E decision \in {"approve", "deny"}, to \in {post.id : post \in published} \cup {0} :
           answers' = Append(answers, [decision |-> decision, to |-> to])
    /\ UNCHANGED <<files, lock, proc, deleted, relay, told, unsynced, kills>>

\* A deletion after the history re-ask was signed is "since" it.
Delete ==
    /\ Cardinality(deleted) < MaxDeletions
    /\ deleted' = deleted \cup {IF shown.reask.of = "history" THEN "since" ELSE "before"}
    /\ UNCHANGED <<files, lock, proc, answers, relay, told, unsynced, kills>>

\* The file whose name p wrote and whose directory it has not fsynced.
Writes(p, at, file) == IF Here(p, at) THEN {file} ELSE {}
Unkept(p) ==
    UNION {Writes(p, "keep_question", "question"), Writes(p, "keep_asked", "asked"),
           Writes(p, "keep_reask", "reask"), Writes(p, "keep_reasked", "reasked"),
           Writes(p, "keep_gate", "mark"), Writes(p, "keep_event", "events"),
           IF Here(p, "keep_answer") THEN {FileOf(proc[p].answer)} ELSE {}}

\* A process dies, cannot fsync, or gives up waiting for the lock.
Kill(p) ==
    /\ ~Here(p, "idle") /\ kills < MaxKills /\ kills' = kills + 1
    /\ Set(p, Idle)
    /\ lock' = IF lock = p THEN None ELSE lock
    /\ unsynced' = unsynced \cup Unkept(p)
    /\ UNCHANGED <<files, owner, relay, told>>

PowerLoss ==
    /\ kills < MaxKills /\ kills' = kills + 1
    /\ \E lost \in SUBSET {f \in DOMAIN shown : shown[f] # kept[f]} :
           shown' = [f \in DOMAIN shown |-> IF f \in lost THEN kept[f] ELSE shown[f]]
    /\ kept' = shown'
    /\ lock' = None /\ proc' = [p \in Procs |-> Idle]
    /\ UNCHANGED <<owner, relay, told, unsynced>>

----------------------------------------------------------------------------

Init ==
    /\ shown = Empty /\ kept = Empty /\ lock = None /\ proc = [p \in Procs |-> Idle]
    /\ answers = <<>> /\ deleted = {}
    /\ signed = 0 /\ published = {} /\ told = {} /\ unsynced = {}
    /\ kills = 0

Next ==
    \/ \E p \in Procs :
          \/ PostQuestion(p) \/ ReserveQuestion(p) \/ KeepQuestion(p) \/ PublishQuestion(p)
          \/ MarkAsked(p) \/ KeepAsked(p) \/ HandleEvent(p) \/ Recover(p) \/ Verify(p)
          \/ CheckHistory(p) \/ CheckOpen(p) \/ ReserveReask(p) \/ KeepReask(p)
          \/ PublishReask(p) \/ MarkReasked(p) \/ KeepReasked(p)
          \/ Commit(p) \/ WriteAnswer(p) \/ KeepAnswer(p) \/ MarkGate(p) \/ KeepGate(p)
          \/ MarkEvent(p) \/ KeepEvent(p) \/ Kill(p)
    \/ Send \/ Delete \/ PowerLoss

Spec == Init /\ [][Next]_vars

----------------------------------------------------------------------------
(* Properties *)

\* The decision of an answer is in its file and in the mark of the gate; it
\* lasts unless both were left unsynced by killed processes.
Lasts(a) == ~({"mark", FileOf(a)} \subseteq unsynced)

\* At most one answer is ever accepted, and what its sender was told is the
\* decision every reader finds from then on, after kills and power losses, as
\* long as the decision lasts.
AnsweredOnce ==
    /\ \A a, b \in told : Lasts(a) /\ Lasts(b) => a = b
    /\ \A a \in told : Lasts(a) => Decision = answers[a].decision

\* An approval its sender was told of can be checked for ever: its file, the
\* question and the re-ask it replies to are the ones that were posted, unless
\* a process was killed before it fsynced one of these three.
AcceptedIsUsable ==
    unsynced \cap {"approval", "question", "reask"} = {} =>
        \A a \in told : answers[a].decision = "approve" => Accepted /\ shown.approval = a

\* The relay never shows two questions of the gate, unless a process was killed
\* between the name of the question and its fsync; nor two re-asks likewise.
OnePost ==
    \A x, y \in published : (x.of = "gate") = (y.of = "gate") =>
        x = y \/ (IF x.of = "gate" THEN "question" ELSE "reask") \in unsynced

\* A consumed gate has the owner's signed answer beside its mark, whatever the
\* disk kept; only an answer file that a killed process left unsynced may be
\* missing, and then no other is in its place.
EvidenceFirst ==
    \A disk \in {shown, kept} : disk.mark # NoMark =>
        LET file == IF disk.mark.decision = "deny" THEN "denial" ELSE "approval"
        IN  disk[file] = disk.mark.answer \/ (disk[file] = 0 /\ file \in unsynced)
=============================================================================
