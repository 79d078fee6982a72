---------------------------- MODULE ReleaseStore ----------------------------
(* `release prepare`: the compound release store (internal/compoundrelease) *)
(* driven to active by Flow.Prepare (internal/releaseflow).  The store is   *)
(* three files of one directory: the generation record, the current pointer *)
(* and the active manifest.  Every operation runs under store.lock and      *)
(* writes the record before the pointer, each through a temp file and a     *)
(* rename; Reconcile reads without the lock and asks for the gates without  *)
(* it, so several prepares interleave and each may be killed anywhere.      *)
(* Left out: revisions, which only count the writes, the mailbox readers of *)
(* v2 and the checks of links and owners of a file somebody else put there. *)
(* The immutable files are one write each: their content is derived, and a  *)
(* retry finishes the link a kill left.                                     *)
EXTENDS Naturals, Sequences, FiniteSets

CONSTANTS
    Preparers,   \* the processes that run `release prepare`
    MaxClaims,   \* bound on the claim tokens drawn
    MaxKills,    \* bound on the kills and transport failures
    None         \* a model value: no file, no process

Children == 1..2      \* the tag, then the GitHub release

\* The states of a generation and of its children, and the files that hold them.
States == {"planned", "publishing", "active", "conflict"}
ChildRecord == [state : {"planned", "sending", "published", "adopted", "conflict"}, token : Nat]
Record == [state : States, child : [Children -> ChildRecord]]
Contents == [file : {"record"}, data : Record] \cup [file : {"pointer"}, data : States]
                \cup [file : {"manifest"}, data : {TRUE}]

ASSUME ReleaseStoreAssumption ==
    /\ MaxClaims \in Nat /\ MaxKills \in Nat
    /\ None \notin Preparers /\ None \notin States
    /\ None \notin Record /\ None \notin Contents

VARIABLES
    record,    \* the generation record: the state, the two children
    pointer,   \* the state current.json names, None before the first write
    manifest,  \* TRUE: the active manifest is written
    temp,      \* the one mutable temp file a kill may leave
    gates,     \* gates[c]: "none", "plan" or "foreign" in the gate store
    prep,      \* prep[p]: what process p does
    op,        \* the operation under store.lock: its process, its writes
    claims,    \* the tokens drawn
    kills      \* the kills so far

files     == <<record, pointer, manifest, temp>>
storeVars == <<files, gates, prep, op, claims, kills>>

Planned   == [state |-> "planned", token |-> 0]
NewRecord == [state |-> "planned", child |-> <<Planned, Planned>>]

Free == [by |-> None, todo |-> <<>>, then |-> "idle"]
Idle == [at |-> "idle", child |-> 1]

Go(p, at)  == prep' = [prep EXCEPT ![p].at = at]
Stop(p)    == prep' = [prep EXCEPT ![p] = Idle]
Reading    == UNCHANGED <<files, gates, op, claims, kills>>

\* A locked operation starts: it may write, and p goes on where it says.
Locked(p, at) == op.by = None /\ prep[p].at = at
Begin(p, writes, then) ==
    op' = [by |-> p, todo |-> writes, then |-> then] /\ UNCHANGED prep
Skip(p, at) == Go(p, at) /\ UNCHANGED op
Fail(p)     == Stop(p) /\ UNCHANGED op

Agree == record # None /\ pointer = record.state

\* The next file of the operation, through the temp file.
Write(file, data) == [file |-> file, data |-> data]
Current(file) == CASE file = "record" -> record [] file = "pointer" -> pointer
                   [] file = "manifest" -> manifest

----------------------------------------------------------------------------
(* One locked operation, write by write *)

\* writeMutable: another temp file refuses, the same content is no write.
Stage ==
    LET w == Head(op.todo)
    IN  /\ op.by # None /\ op.todo # <<>> /\ w.file # "manifest"
        /\ IF temp \notin {None, w}
           THEN Stop(op.by) /\ op' = Free /\ UNCHANGED temp
           ELSE IF temp = None /\ Current(w.file) = w.data
           THEN op' = [op EXCEPT !.todo = Tail(@)] /\ UNCHANGED <<prep, temp>>
           ELSE temp = None /\ temp' = w /\ UNCHANGED <<prep, op>>
        /\ UNCHANGED <<record, pointer, manifest, gates, claims, kills>>

Rename ==
    /\ op.by # None /\ op.todo # <<>> /\ temp = Head(op.todo)
    /\ IF temp.file = "record" THEN record' = temp.data /\ UNCHANGED pointer
                               ELSE pointer' = temp.data /\ UNCHANGED record
    /\ temp' = None
    /\ op' = [op EXCEPT !.todo = Tail(@)]
    /\ UNCHANGED <<manifest, gates, prep, claims, kills>>

\* writeActive, which a left mutable temp refuses.
WriteActive ==
    /\ op.by # None /\ op.todo # <<>> /\ Head(op.todo).file = "manifest"
    /\ IF temp # None /\ ~manifest
       THEN Stop(op.by) /\ op' = Free /\ UNCHANGED manifest
       ELSE manifest' = TRUE /\ op' = [op EXCEPT !.todo = Tail(@)] /\ UNCHANGED prep
    /\ UNCHANGED <<record, pointer, temp, gates, claims, kills>>

Unlock ==
    /\ op.by # None /\ op.todo = <<>>
    /\ Go(op.by, op.then) /\ op' = Free
    /\ UNCHANGED <<files, gates, claims, kills>>

----------------------------------------------------------------------------
(* Prepare *)

Start(p) == prep[p].at = "idle" /\ Go(p, "create") /\ Reading

\* Create: the first one writes the series, a later one checks what is there.
Create(p) ==
    /\ Locked(p, "create")
    /\ IF pointer = None
       THEN Begin(p, <<Write("record", NewRecord), Write("pointer", "planned")>>, "reconcile")
       ELSE IF Agree THEN Skip(p, "reconcile") ELSE Fail(p)
    /\ UNCHANGED <<files, gates, claims, kills>>

RecordAhead(s) == record # None /\ record.state = s /\ pointer = "publishing"

\* Reconcile reads where the series is, without the lock.
Reconcile(p) ==
    /\ prep[p].at = "reconcile"
    /\ \/ Agree /\ record.state \in {"active", "conflict"} /\ Go(p, "idle")
       \/ Agree /\ record.state = "planned" /\ Go(p, "start")
       \/ Agree /\ record.state = "publishing" /\ Go(p, "child")
       \/ RecordAhead("active") /\ manifest /\ Go(p, "activate")
       \/ ~Agree /\ ~(RecordAhead("active") /\ manifest) /\ Stop(p)
    /\ Reading

StartPublishing(p) ==
    /\ Locked(p, "start")
    /\ IF pointer = "publishing"
       THEN IF Agree THEN Skip(p, "child") ELSE Fail(p)
       ELSE IF pointer = "planned" /\ record.state \in {"planned", "publishing"}
       THEN Begin(p, IF record.state = "planned"
                     THEN <<Write("record", [record EXCEPT !.state = "publishing"]),
                            Write("pointer", "publishing")>>
                     ELSE <<Write("pointer", "publishing")>>, "child")
       ELSE Fail(p)
    /\ UNCHANGED <<files, gates, claims, kills>>

Next1(p) == prep' = [prep EXCEPT ![p] = IF @.child = 1 THEN [at |-> "child", child |-> 2]
                                                       ELSE [at |-> "activate", child |-> 2]]

\* The child the loop is at, read without the lock.
Child(p) ==
    LET s == record.child[prep[p].child].state
    IN  /\ prep[p].at = "child"
        /\ \/ s = "published" /\ Next1(p)
           \/ s = "planned" /\ Go(p, "claim")
           \/ s = "sending" /\ Go(p, "gate")
           \/ s \in {"adopted", "conflict"} /\ Stop(p)
        /\ Reading

Publishing == Agree /\ pointer = "publishing"
SetChild(c, new) == Write("record", [record EXCEPT !.child[c] = new])

\* Mutant: a child another prepare claimed is claimed again.
ClaimableAgain(c) == Publishing /\ (c = 2 => record.child[1].state = "published")
Claimable(c) ==
    /\ Publishing /\ record.child[c].state = "planned"
    /\ c = 2 => record.child[1].state = "published"

ClaimChildSend(p) ==
    LET c == prep[p].child
    IN  /\ Locked(p, "claim")
        /\ IF Claimable(c)
           THEN /\ claims < MaxClaims /\ claims' = claims + 1
                /\ Begin(p, <<SetChild(c, [state |-> "sending", token |-> claims'])>>, "gate")
           ELSE Fail(p) /\ UNCHANGED claims
        /\ UNCHANGED <<files, gates, kills>>

\* Mutant: a gate found under the child's id is taken whatever it binds.
BindsAny(c) == TRUE
Binds(c)    == gates[c] # "foreign"

\* ChildGate: the gate of the child's own id is raised, or found.
ChildGate(p) ==
    LET c == prep[p].child
    IN  /\ prep[p].at = "gate"
        /\ Go(p, IF Binds(c) THEN "adopt" ELSE "conflict")
        /\ gates' = IF gates[c] = "none" THEN [gates EXCEPT ![c] = "plan"] ELSE gates
        /\ UNCHANGED <<files, op, claims, kills>>

AdoptChildPublication(p) ==
    LET c == prep[p].child  s == record.child[c]
    IN  /\ Locked(p, "adopt")
        /\ IF Publishing /\ s.state = "published" THEN Skip(p, "adopted")
           ELSE IF Publishing /\ s.state = "sending"
           THEN Begin(p, <<SetChild(c, [s EXCEPT !.state = "published"])>>, "adopted")
           ELSE Fail(p)
        /\ UNCHANGED <<files, gates, claims, kills>>

Adopted(p) == prep[p].at = "adopted" /\ Next1(p) /\ Reading

TerminalizeChildConflict(p) ==
    LET c == prep[p].child
        pointing == Write("pointer", "conflict")
        mine == record.state = "conflict" /\ record.child[c].state = "conflict"
    IN  /\ Locked(p, "conflict")
        /\ IF Agree /\ mine THEN Skip(p, "idle")
           ELSE IF RecordAhead("conflict") /\ mine THEN Begin(p, <<pointing>>, "idle")
           ELSE IF Publishing
           THEN Begin(p, <<Write("record", [record EXCEPT !.state = "conflict",
                                             !.child[c].state = "conflict"]), pointing>>, "idle")
           ELSE Fail(p)
        /\ UNCHANGED <<files, gates, claims, kills>>

Adopt(r) == [state |-> "active",
             child |-> [c \in Children |-> [r.child[c] EXCEPT !.state = "adopted"]]]

BothPublished == \A c \in Children : record.child[c].state = "published"

\* Mutant: the pointer is written before the record.
PointerFirst == <<Write("manifest", TRUE), Write("pointer", "active"), Write("record", Adopt(record))>>
ActivationWrites ==
    <<Write("manifest", TRUE), Write("record", Adopt(record)), Write("pointer", "active")>>

Activate(p) ==
    /\ Locked(p, "activate")
    /\ IF Agree /\ pointer = "active" THEN Skip(p, "idle")
       ELSE IF Publishing /\ BothPublished THEN Begin(p, ActivationWrites, "idle")
       ELSE IF RecordAhead("active")
       THEN Begin(p, <<Write("manifest", TRUE), Write("pointer", "active")>>, "idle")
       ELSE Fail(p)
    /\ UNCHANGED <<files, gates, claims, kills>>

\* A kill, or a call outside the store that fails.
Kill(p) ==
    /\ prep[p].at # "idle" /\ kills < MaxKills
    /\ Stop(p) /\ kills' = kills + 1
    /\ op' = IF op.by = p THEN Free ELSE op
    /\ UNCHANGED <<files, gates, claims>>

Prepare(p) ==
    \/ Start(p) \/ Create(p) \/ Reconcile(p) \/ StartPublishing(p) \/ Child(p)
    \/ ClaimChildSend(p) \/ ChildGate(p) \/ AdoptChildPublication(p) \/ Adopted(p)
    \/ TerminalizeChildConflict(p) \/ Activate(p) \/ Kill(p)

StoreInit ==
    /\ record = None /\ pointer = None /\ manifest = FALSE /\ temp = None
    /\ gates \in [Children -> {"none", "foreign"}]
    /\ prep = [p \in Preparers |-> Idle] /\ op = Free
    /\ claims = 0 /\ kills = 0

StoreNext == Stage \/ Rename \/ WriteActive \/ Unlock \/ \E p \in Preparers : Prepare(p)

----------------------------------------------------------------------------
(* Properties *)

\* Whatever dies between two writes, the record is where the pointer is or
\* one transition ahead of it: the pointer never names a state that the
\* record does not back.
Ahead(s) == CASE s = None -> {"planned"} [] s = "planned" -> {"publishing"}
              [] s = "publishing" -> {"active", "conflict"} [] OTHER -> {}
RecordLeads ==
    IF record = None THEN pointer = None
    ELSE record.state \in Ahead(pointer) \cup {pointer}

\* An active release, which `release publish` runs, has its manifest and the
\* two gates of its plan, and the question for the release is never raised
\* before the question for its tag is on the record.
ActiveIsComplete ==
    /\ pointer = "active" => manifest /\ \A c \in Children : gates[c] = "plan"
    /\ gates[2] = "plan" => record.child[1].state \in {"published", "adopted"}

\* Nothing a prepare wrote is taken back by another: a child keeps its claim
\* and moves forward only, and an end state is final.
Rank(s) == CASE s = "planned" -> 0 [] s = "sending" -> 1 [] s = "published" -> 2
             [] OTHER -> 3
NothingTakenBack ==
    [][/\ record # None =>
            \A c \in Children :
                /\ Rank(record'.child[c].state) >= Rank(record.child[c].state)
                /\ record.child[c].token \in {0, record'.child[c].token}
       /\ pointer \in {"active", "conflict"} => UNCHANGED <<pointer, record>>]_storeVars


=============================================================================
