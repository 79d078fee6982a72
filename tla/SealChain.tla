----------------------------- MODULE SealChain -----------------------------
(***************************************************************************)
(* One sealed state file (internal/sealchain), as the commit ledger of a   *)
(* seat uses it (internal/seatcommit/ledger.go): processes that read,      *)
(* check and rewrite the file and its signed head under the ledger lock,   *)
(* are killed or meet I/O errors, and processes that read the file without *)
(* the lock (PrepareSeat in internal/schedproc/prepare.go).                *)
(*                                                                         *)
(* Every write is the harness's own: the tag of a version is its number,   *)
(* and no file is edited, copied or removed by anybody else.  A head is    *)
(* signed under the one seed.                                              *)
(***************************************************************************)
EXTENDS Integers

CONSTANTS
    Writers,     \* processes that rewrite the file under the lock
    Peekers,     \* processes that read it without the lock
    None,        \* no process
    Faults,      \* the faults that happen: "kill", "io"
    MaxWrites,   \* bound on the versions
    MaxFaults    \* bound on the faults

ASSUME ProcessesAssumption == None \notin Writers
ASSUME FaultsAssumption == Faults \subseteq {"kill", "io"}
ASSUME BoundsAssumption == MaxWrites \in Nat /\ MaxFaults \in Nat

VARIABLES
    seed,     \* the session seed was written
    file,     \* the link the file carries
    head,     \* the link its head records
    lock,     \* the process that holds the ledger lock
    pc,       \* pc[w]: where writer w is
    next,     \* the tag of the next version
    told,     \* the tag of the last version whose writer was told it is saved
    verdict,  \* the verdict of the last check under the lock
    peek,     \* peek[p]: what p read of the file, and p's last verdict
    faults    \* the faults so far

vars == <<seed, file, head, lock, pc, next, told, verdict, peek, faults>>

----------------------------------------------------------------------------
(* Links: seq, the tag of the version before, the own tag; tag 0 is "". *)

Link == [seq : Nat, prev : Nat, tag : Nat]
Absent == [seq |-> -1, prev |-> 0, tag |-> 0]
Genesis == [seq |-> 0, prev |-> 0, tag |-> 0]

\* Mutant: the new version follows the file it replaces.
SealAfterFile(h, f, tag) ==
    IF f = Absent THEN [seq |-> 1, prev |-> 0, tag |-> tag]
    ELSE [seq |-> f.seq + 1, prev |-> f.tag, tag |-> tag]

\* The link of a new version: the one after the head's.
Seal(h, f, tag) == [seq |-> h.seq + 1, prev |-> h.tag, tag |-> tag]

\* What ReadLedger says of file f under head h: the link must be the head's,
\* or the one right after it.
Check(f, h) ==
    IF f = Absent
    THEN IF seed /\ h.seq > 0 THEN "tampered" ELSE "absent"
    ELSE IF /\ seed /\ h # Absent
            /\ \/ f.seq = h.seq /\ f.tag = h.tag
               \/ f.seq = h.seq + 1 /\ f.prev = h.tag
         THEN "intact"
         ELSE "tampered"

----------------------------------------------------------------------------
(* A writer: read and check the file, then write a version of it *)

Goto(w, l) == pc' = [pc EXCEPT ![w] = l]

Unlock(w) == lock' = None /\ Goto(w, "idle")

Read(w) ==
    /\ pc[w] = "idle" /\ lock = None /\ next <= MaxWrites
    /\ verdict' = Check(file, head)
    /\ IF verdict' = "tampered" THEN UNCHANGED <<lock, pc>>
       ELSE lock' = w /\ Goto(w, "key")
    /\ UNCHANGED <<seed, file, head, next, told, peek, faults>>

\* The caller decides to write nothing.
Leave(w) ==
    /\ pc[w] = "key"
    /\ Unlock(w)
    /\ UNCHANGED <<seed, file, head, next, told, verdict, peek, faults>>

\* SessionKey: the seed is written once, never again once a head exists.
SessionKey(w) ==
    /\ pc[w] = "key"
    /\ IF ~seed /\ head # Absent
       THEN Unlock(w) /\ UNCHANGED seed
       ELSE /\ seed' = TRUE
            /\ Goto(w, IF head = Absent THEN "genesis" ELSE "save")
            /\ UNCHANGED lock
    /\ UNCHANGED <<file, head, next, told, verdict, peek, faults>>

WriteGenesis(w) ==
    /\ pc[w] = "genesis"
    /\ head' = Genesis
    /\ Goto(w, "save")
    /\ UNCHANGED <<seed, file, lock, next, told, verdict, peek, faults>>

Save(w) ==
    /\ pc[w] = "save"
    /\ file' = Seal(head, file, next)
    /\ next' = next + 1
    /\ Goto(w, "head")
    /\ UNCHANGED <<seed, head, lock, told, verdict, peek, faults>>

\* Mutant: the head takes the new tag at its old place.
StampHead(w) ==
    /\ pc[w] = "head"
    /\ head' = [file EXCEPT !.seq = head.seq]
    /\ told' = file.tag
    /\ Unlock(w)
    /\ UNCHANGED <<seed, file, next, verdict, peek, faults>>

MoveHead(w) ==
    /\ pc[w] = "head"
    /\ head' = file
    /\ told' = file.tag
    /\ Unlock(w)
    /\ UNCHANGED <<seed, file, next, verdict, peek, faults>>

----------------------------------------------------------------------------
(* Faults: the lock is released; a failed durable write restores the old   *)
(* content, or leaves the new one where the restore failed too.            *)

Fault(f) ==
    /\ f \in Faults /\ faults < MaxFaults
    /\ faults' = faults + 1

Kill(w) ==
    /\ Fault("kill")
    /\ lock = w
    /\ Unlock(w)
    /\ UNCHANGED <<seed, file, head, next, told, verdict, peek>>

\* Mutant: the restore of a failed write removes the file.
AfterFailureRemoved(old, new) == {Absent, new}

AfterFailure(old, new) == {old, new}

IOError(w) ==
    /\ Fault("io")
    /\ Unlock(w)
    /\ \/ /\ pc[w] = "genesis"
          /\ head' \in AfterFailure(head, Genesis)
          /\ UNCHANGED <<file, next>>
       \/ /\ pc[w] = "save"
          /\ file' \in AfterFailure(file, Seal(head, file, next))
          /\ next' = next + 1
          /\ UNCHANGED head
       \/ /\ pc[w] = "head"
          /\ head' \in AfterFailure(head, file)
          /\ UNCHANGED <<file, next>>
    /\ UNCHANGED <<seed, told, verdict, peek>>

----------------------------------------------------------------------------
(* A reader without the lock: the file first, then its head *)

Peek(p) ==
    /\ ~peek[p].busy
    /\ peek' = [peek EXCEPT ![p] = [busy |-> TRUE, file |-> file, verdict |-> "absent"]]
    /\ UNCHANGED <<seed, file, head, lock, pc, next, told, verdict, faults>>

Judge(p) ==
    /\ peek[p].busy
    /\ peek' = [peek EXCEPT ![p] = [busy |-> FALSE, file |-> Absent,
                                    verdict |-> Check(peek[p].file, head)]]
    /\ UNCHANGED <<seed, file, head, lock, pc, next, told, verdict, faults>>

----------------------------------------------------------------------------

Init ==
    /\ seed = FALSE
    /\ file = Absent
    /\ head = Absent
    /\ lock = None
    /\ pc = [w \in Writers |-> "idle"]
    /\ next = 1
    /\ told = 0
    /\ verdict = "absent"
    /\ peek = [p \in Peekers |-> [busy |-> FALSE, file |-> Absent, verdict |-> "absent"]]
    /\ faults = 0

Next ==
    \/ \E w \in Writers :
          \/ Read(w) \/ Leave(w) \/ SessionKey(w) \/ WriteGenesis(w) \/ Save(w) \/ MoveHead(w)
          \/ Kill(w) \/ IOError(w)
    \/ \E p \in Peekers : Peek(p) \/ Judge(p)

Spec == Init /\ [][Next]_vars

----------------------------------------------------------------------------
(* Properties *)

\* Every variable has its type, and the lock is held exactly by the writer
\* inside its locked operation.
TypeOK ==
    /\ seed \in BOOLEAN
    /\ file \in Link \cup {Absent}
    /\ head \in Link \cup {Absent}
    /\ lock \in Writers \cup {None}
    /\ pc \in [Writers -> {"idle", "key", "genesis", "save", "head"}]
    /\ \A w \in Writers : lock = w <=> pc[w] # "idle"
    /\ next \in Nat /\ told \in Nat
    /\ verdict \in {"absent", "intact", "tampered"}
    /\ peek \in [Peekers -> [busy : BOOLEAN, file : Link \cup {Absent},
                             verdict : {"absent", "intact", "tampered"}]]
    /\ faults \in Nat

\* A file that only the harness wrote is never called tampered by a process
\* that holds the ledger lock: "a crash leaves the file at most one link ahead
\* of its head, which Check accepts".
HonestFileAccepted == verdict # "tampered"

\* The same of a process that reads without the lock: ledger_tampered is "a
\* hand edit, an older copy, a stripped seal or a deleted head", and none of
\* these ever happens here.
PeekAccepted == \A p \in Peekers : peek[p].verdict # "tampered"

\* "A head always exists once a sealed file does", and the file is its head's
\* link or the one right after it, after every kill and every failed write.
AtMostOneAhead ==
    file # Absent =>
        /\ seed /\ head # Absent
        /\ \/ file = head
           \/ file.seq = head.seq + 1 /\ file.prev = head.tag

\* A version whose writer was told it is saved is the file, until a later
\* version is; no failed write takes it away.
SavedStays == told > 0 => file # Absent /\ file.tag >= told

\* The file on disk is the version the head names or the next one, and no
\* version that was told saved is lost, after every kill and failed write.
FileFollowsHead == AtMostOneAhead /\ SavedStays

\* The head goes forward by one link of the chain at a time: it is never moved
\* back, and one place in the chain is never given to two versions.
HeadNeverForks ==
    [][head' # head =>
          \/ head = Absent /\ head' = Genesis
          \/ head'.seq = head.seq + 1 /\ head'.prev = head.tag]_vars
=============================================================================
