-------------------------- MODULE SealChainProofs --------------------------
(***************************************************************************)
(* The seal chain accepts every file the harness wrote, for every number   *)
(* of processes, versions, kills and failed writes.                        *)
(***************************************************************************)
EXTENDS SealChain, TLAPS

\* Where a writer is says what it has put in place: the seed before the head,
\* the head before the file, the file before the head's move.
Progress ==
    \A w \in Writers :
        /\ pc[w] = "genesis" => seed /\ head = Absent
        /\ pc[w] = "save" => seed /\ head # Absent
        /\ pc[w] = "head" =>
              /\ seed /\ head # Absent /\ file # Absent
              /\ file.seq = head.seq + 1 /\ file.prev = head.tag

\* The file and its head belong together, and a version's tag is older than
\* the next one's.
Chained ==
    /\ AtMostOneAhead
    /\ file = Absent => head \in {Absent, Genesis}
    /\ file # Absent => file.tag < next
    /\ SavedStays

IInv == TypeOK /\ Progress /\ Chained /\ HonestFileAccepted

LEMMA AbsentIsNoLink == Absent \notin Link /\ Genesis \in Link /\ Genesis # Absent
BY DEF Absent, Genesis, Link

\* Sealing after a head gives a link that the head accepts.
LEMMA SealType ==
    ASSUME NEW h \in Link, NEW f, NEW n \in Nat
    PROVE  /\ Seal(h, f, n) \in Link /\ Seal(h, f, n) # Absent
           /\ Seal(h, f, n).seq = h.seq + 1 /\ Seal(h, f, n).prev = h.tag
           /\ Seal(h, f, n).tag = n
BY DEF Seal, Link, Absent

\* A file that is at most one ahead of its head passes the check.
LEMMA ChainedAccepted == ASSUME Chained PROVE Check(file, head) # "tampered"
BY DEF Chained, AtMostOneAhead, Check, Absent, Genesis

LEMMA InitIInv == Init => IInv
<1> SUFFICES ASSUME Init PROVE IInv
  OBVIOUS
<1>1. peek \in [Peekers -> [busy : BOOLEAN, file : Link \cup {Absent},
                            verdict : {"absent", "intact", "tampered"}]]
  <2> HIDE DEF Absent
  <2> QED BY DEF Init
<1>2. TypeOK
  BY <1>1, ProcessesAssumption DEF Init, TypeOK
<1>3. Progress
  BY DEF Init, Progress
<1>4. Chained /\ HonestFileAccepted
  BY DEF Init, Chained, AtMostOneAhead, SavedStays, HonestFileAccepted
<1> QED
  BY <1>2, <1>3, <1>4 DEF IInv

LEMMA ReadIInv == ASSUME IInv, NEW w \in Writers, Read(w) PROVE IInv'
<1>1. Check(file, head) # "tampered"
  BY ChainedAccepted DEF IInv
<1>2. /\ lock' = w /\ pc' = [pc EXCEPT ![w] = "key"] /\ lock = None
      /\ verdict' = Check(file, head) /\ UNCHANGED <<seed, file, head, next, told, peek, faults>>
  BY <1>1 DEF Read, Goto
<1>3. verdict' \in {"absent", "intact", "tampered"}
  BY <1>2 DEF Check
<1>4. TypeOK'
  BY <1>2, <1>3, ProcessesAssumption DEF IInv, TypeOK
<1>5. Progress'
  BY <1>2 DEF IInv, TypeOK, Progress
<1>6. Chained'
  BY <1>2 DEF IInv, Chained, AtMostOneAhead, SavedStays
<1> QED
  BY <1>1, <1>2, <1>4, <1>5, <1>6 DEF IInv, HonestFileAccepted

\* A writer that lets the lock go leaves nobody inside.
LEMMA UnlockType ==
    ASSUME TypeOK, NEW w \in Writers, pc[w] # "idle", Unlock(w)
    PROVE  /\ lock' = None /\ pc' \in [Writers -> {"idle", "key", "genesis", "save", "head"}]
           /\ \A v \in Writers : pc'[v] = "idle"
BY ProcessesAssumption DEF TypeOK, Unlock, Goto

LEMMA LeaveIInv ==
    ASSUME IInv, NEW w \in Writers, Leave(w) \/ Kill(w)
    PROVE  IInv'
<1>1. /\ pc[w] # "idle" /\ Unlock(w) /\ faults' \in Nat
      /\ UNCHANGED <<seed, file, head, next, told, verdict, peek>>
  BY ProcessesAssumption DEF IInv, TypeOK, Leave, Kill, Fault
<1>2. /\ lock' = None /\ pc' \in [Writers -> {"idle", "key", "genesis", "save", "head"}]
      /\ \A v \in Writers : pc'[v] = "idle"
  BY <1>1, UnlockType DEF IInv
<1>3. TypeOK'
  BY <1>1, <1>2, ProcessesAssumption DEF IInv, TypeOK
<1>4. Progress'
  BY <1>2 DEF Progress
<1>5. Chained' /\ HonestFileAccepted'
  BY <1>1 DEF IInv, Chained, AtMostOneAhead, SavedStays, HonestFileAccepted
<1> QED
  BY <1>3, <1>4, <1>5 DEF IInv

LEMMA SessionKeyIInv == ASSUME IInv, NEW w \in Writers, SessionKey(w) PROVE IInv'
<1>1. pc[w] = "key" /\ UNCHANGED <<file, head, next, told, verdict, peek, faults>>
  BY DEF SessionKey
<1>2. CASE ~seed /\ head # Absent
  <2>1. Unlock(w) /\ UNCHANGED seed
    BY <1>2 DEF SessionKey
  <2>2. /\ lock' = None /\ pc' \in [Writers -> {"idle", "key", "genesis", "save", "head"}]
        /\ \A v \in Writers : pc'[v] = "idle"
    BY <1>1, <2>1, UnlockType DEF IInv
  <2>3. TypeOK'
    BY <1>1, <2>1, <2>2, ProcessesAssumption DEF IInv, TypeOK
  <2>4. Progress'
    BY <2>2 DEF Progress
  <2>5. Chained' /\ HonestFileAccepted'
    BY <1>1, <2>1 DEF IInv, Chained, AtMostOneAhead, SavedStays, HonestFileAccepted
  <2> QED
    BY <2>3, <2>4, <2>5 DEF IInv
<1>3. CASE seed \/ head = Absent
  <2>1. /\ seed' = TRUE /\ UNCHANGED lock
        /\ pc' = [pc EXCEPT ![w] = IF head = Absent THEN "genesis" ELSE "save"]
    BY <1>3 DEF SessionKey, Goto
  <2>2. TypeOK'
    BY <1>1, <2>1 DEF IInv, TypeOK
  <2>3. \A v \in Writers \ {w} : pc[v] = "idle"
    BY <1>1 DEF IInv, TypeOK
  <2>4. Progress'
    BY <1>1, <2>1, <2>3 DEF IInv, TypeOK, Progress
  <2>5. Chained' /\ HonestFileAccepted'
    BY <1>1, <2>1 DEF IInv, Chained, AtMostOneAhead, SavedStays, HonestFileAccepted
  <2> QED
    BY <2>2, <2>4, <2>5 DEF IInv
<1> QED
  BY <1>2, <1>3

LEMMA GenesisIInv == ASSUME IInv, NEW w \in Writers, WriteGenesis(w) PROVE IInv'
<1>1. /\ pc[w] = "genesis" /\ head' = Genesis /\ pc' = [pc EXCEPT ![w] = "save"]
      /\ UNCHANGED <<seed, file, lock, next, told, verdict, peek, faults>>
  BY DEF WriteGenesis, Goto
<1>2. seed /\ head = Absent /\ file = Absent
  BY <1>1 DEF IInv, Progress, Chained, AtMostOneAhead
<1>3. TypeOK'
  BY <1>1, AbsentIsNoLink DEF IInv, TypeOK
<1>4. \A v \in Writers \ {w} : pc[v] = "idle"
  BY <1>1 DEF IInv, TypeOK
<1>5. Progress'
  BY <1>1, <1>2, <1>4, AbsentIsNoLink DEF IInv, TypeOK, Progress
<1>6. Chained' /\ HonestFileAccepted'
  BY <1>1, <1>2 DEF IInv, Chained, AtMostOneAhead, SavedStays, HonestFileAccepted
<1> QED
  BY <1>3, <1>5, <1>6 DEF IInv

LEMMA SaveIInv == ASSUME IInv, NEW w \in Writers, Save(w) PROVE IInv'
<1>1. /\ pc[w] = "save" /\ file' = Seal(head, file, next) /\ next' = next + 1
      /\ pc' = [pc EXCEPT ![w] = "head"]
      /\ UNCHANGED <<seed, head, lock, told, verdict, peek, faults>>
  BY DEF Save, Goto
<1>2. seed /\ head \in Link /\ head # Absent /\ next \in Nat
  BY <1>1 DEF IInv, TypeOK, Progress
<1>3. /\ file' \in Link /\ file' # Absent /\ file'.tag = next
      /\ file'.seq = head.seq + 1 /\ file'.prev = head.tag
  BY <1>1, <1>2, SealType
<1>4. TypeOK'
  BY <1>1, <1>2, <1>3 DEF IInv, TypeOK
<1>5. \A v \in Writers \ {w} : pc[v] = "idle"
  BY <1>1 DEF IInv, TypeOK
<1>6. Progress'
  BY <1>1, <1>2, <1>3, <1>5 DEF IInv, TypeOK, Progress
<1>7. AtMostOneAhead'
  BY <1>1, <1>2, <1>3 DEF AtMostOneAhead
<1>8. SavedStays'
  <2>1. told > 0 => told < next
    BY <1>2 DEF IInv, TypeOK, Chained, SavedStays, Link
  <2> QED
    BY <1>1, <1>2, <1>3, <2>1 DEF IInv, TypeOK, SavedStays
<1>9. Chained' /\ HonestFileAccepted'
  BY <1>1, <1>2, <1>3, <1>7, <1>8 DEF IInv, Chained, HonestFileAccepted
<1> QED
  BY <1>4, <1>6, <1>9 DEF IInv

LEMMA MoveHeadIInv == ASSUME IInv, NEW w \in Writers, MoveHead(w) PROVE IInv'
<1>1. /\ pc[w] = "head" /\ head' = file /\ told' = file.tag /\ Unlock(w)
      /\ UNCHANGED <<seed, file, next, verdict, peek, faults>>
  BY DEF MoveHead
<1>2. seed /\ file \in Link /\ file # Absent
  BY <1>1 DEF IInv, TypeOK, Progress
<1>3. /\ lock' = None /\ pc' \in [Writers -> {"idle", "key", "genesis", "save", "head"}]
      /\ \A v \in Writers : pc'[v] = "idle"
  BY <1>1, UnlockType DEF IInv
<1>4. TypeOK'
  BY <1>1, <1>2, <1>3, ProcessesAssumption DEF IInv, TypeOK, Link
<1>5. Progress'
  BY <1>3 DEF Progress
<1>6. Chained' /\ HonestFileAccepted'
  BY <1>1, <1>2 DEF IInv, Chained, AtMostOneAhead, SavedStays, HonestFileAccepted, Link
<1> QED
  BY <1>4, <1>5, <1>6 DEF IInv

LEMMA IOErrorIInv == ASSUME IInv, NEW w \in Writers, IOError(w) PROVE IInv'
<1>1. /\ pc[w] \in {"genesis", "save", "head"} /\ Unlock(w) /\ faults' = faults + 1
      /\ UNCHANGED <<seed, told, verdict, peek>>
  BY DEF IOError, Fault
<1>2. /\ lock' = None /\ pc' \in [Writers -> {"idle", "key", "genesis", "save", "head"}]
      /\ \A v \in Writers : pc'[v] = "idle"
  BY <1>1, UnlockType DEF IInv
<1>3. Progress'
  BY <1>2 DEF Progress
<1>4. CASE /\ pc[w] = "genesis" /\ head' \in {head, Genesis} /\ UNCHANGED <<file, next>>
  <2>1. seed /\ head = Absent /\ file = Absent
    BY <1>4 DEF IInv, Progress, Chained, AtMostOneAhead
  <2>2. TypeOK'
    BY <1>1, <1>2, <1>4, AbsentIsNoLink, ProcessesAssumption DEF IInv, TypeOK
  <2>3. Chained' /\ HonestFileAccepted'
    BY <1>1, <1>4, <2>1 DEF IInv, Chained, AtMostOneAhead, SavedStays, HonestFileAccepted
  <2> QED
    BY <1>3, <2>2, <2>3 DEF IInv
<1>5. CASE /\ pc[w] = "save" /\ file' \in {file, Seal(head, file, next)}
           /\ next' = next + 1 /\ UNCHANGED head
  <2>1. seed /\ head \in Link /\ head # Absent /\ next \in Nat
    BY <1>5 DEF IInv, TypeOK, Progress
  <2>2. TypeOK'
    BY <1>1, <1>2, <1>5, <2>1, SealType, ProcessesAssumption DEF IInv, TypeOK
  <2>3. told > 0 => told < next
    BY <2>1 DEF IInv, TypeOK, Chained, SavedStays, Link
  <2>4. CASE file' = file
    <3>1. file # Absent => file.tag < next + 1
      BY <2>1 DEF IInv, TypeOK, Chained, Link
    <3> QED
      BY <1>1, <1>3, <1>5, <2>2, <2>4, <3>1
         DEF IInv, Chained, AtMostOneAhead, SavedStays, HonestFileAccepted
  <2>5. CASE file' = Seal(head, file, next)
    <3>1. /\ file' \in Link /\ file' # Absent /\ file'.tag = next
          /\ file'.seq = head.seq + 1 /\ file'.prev = head.tag
      BY <2>1, <2>5, SealType
    <3>2. AtMostOneAhead'
      BY <1>1, <1>5, <2>1, <3>1 DEF AtMostOneAhead
    <3>3. SavedStays'
      BY <1>1, <2>1, <2>3, <3>1 DEF IInv, TypeOK, SavedStays
    <3> QED
      BY <1>1, <1>3, <1>5, <2>1, <2>2, <3>1, <3>2, <3>3 DEF IInv, Chained, HonestFileAccepted
  <2> QED
    BY <1>5, <2>4, <2>5
<1>6. CASE /\ pc[w] = "head" /\ head' \in {head, file} /\ UNCHANGED <<file, next>>
  <2>1. seed /\ file \in Link /\ file # Absent
    BY <1>6 DEF IInv, TypeOK, Progress
  <2>2. TypeOK'
    BY <1>1, <1>2, <1>6, <2>1, ProcessesAssumption DEF IInv, TypeOK
  <2>3. Chained' /\ HonestFileAccepted'
    BY <1>1, <1>6, <2>1 DEF IInv, Chained, AtMostOneAhead, SavedStays, HonestFileAccepted
  <2> QED
    BY <1>3, <2>2, <2>3 DEF IInv
<1> QED
  BY <1>4, <1>5, <1>6 DEF IOError, AfterFailure

LEMMA PeekIInv ==
    ASSUME IInv, NEW p \in Peekers, Peek(p) \/ Judge(p)
    PROVE  IInv'
<1>1. UNCHANGED <<seed, file, head, lock, pc, next, told, verdict, faults>>
  BY DEF Peek, Judge
<1>2. Check(peek[p].file, head) \in {"absent", "intact", "tampered"}
  BY DEF Check
<1>3. PICK b \in BOOLEAN, f \in Link \cup {Absent}, v \in {"absent", "intact", "tampered"} :
             peek' = [peek EXCEPT ![p] = [busy |-> b, file |-> f, verdict |-> v]]
  <2>1. CASE Peek(p)
    BY <2>1 DEF IInv, TypeOK, Peek
  <2>2. CASE Judge(p)
    BY <1>2, <2>2 DEF Judge
  <2> QED
    BY <2>1, <2>2
<1>4. peek' \in [Peekers -> [busy : BOOLEAN, file : Link \cup {Absent},
                             verdict : {"absent", "intact", "tampered"}]]
  BY <1>3 DEF IInv, TypeOK
<1> QED
  BY <1>1, <1>4 DEF IInv, TypeOK, Progress, Chained, AtMostOneAhead, SavedStays, HonestFileAccepted

LEMMA NextIInv == IInv /\ [Next]_vars => IInv'
<1> SUFFICES ASSUME IInv, [Next]_vars PROVE IInv'
  OBVIOUS
<1>1. ASSUME NEW w \in Writers,
             \/ Read(w) \/ Leave(w) \/ SessionKey(w) \/ WriteGenesis(w) \/ Save(w) \/ MoveHead(w)
             \/ Kill(w) \/ IOError(w)
      PROVE  IInv'
  BY <1>1, ReadIInv, LeaveIInv, SessionKeyIInv, GenesisIInv, SaveIInv, MoveHeadIInv, IOErrorIInv
<1>2. ASSUME NEW p \in Peekers, Peek(p) \/ Judge(p)  PROVE IInv'
  BY <1>2, PeekIInv
<1>3. CASE UNCHANGED vars
  BY <1>3
     DEF vars, IInv, TypeOK, Progress, Chained, AtMostOneAhead, SavedStays, HonestFileAccepted
<1> QED
  BY <1>1, <1>2, <1>3 DEF Next

\* The conjunction holds in every state of every behaviour of a sealed file.
THEOREM Invariance == Spec => []IInv
BY InitIInv, NextIInv, PTL DEF Spec

\* A file only the harness wrote is never called tampered under the lock.
THEOREM HonestAccepted == Spec => []HonestFileAccepted
<1>1. IInv => HonestFileAccepted
  BY DEF IInv
<1> QED
  BY <1>1, Invariance, PTL

\* After every kill and failed write the file is its head's link or the next.
THEOREM OneAhead == Spec => []AtMostOneAhead
<1>1. IInv => AtMostOneAhead
  BY DEF IInv, Chained
<1> QED
  BY <1>1, Invariance, PTL

\* No failed write takes away a version its writer was told is saved.
THEOREM Saved == Spec => []SavedStays
<1>1. IInv => SavedStays
  BY DEF IInv, Chained
<1> QED
  BY <1>1, Invariance, PTL

\* Both together: the file follows its head through every interruption.
THEOREM FileAndHead == Spec => []FileFollowsHead
BY OneAhead, Saved, PTL DEF FileFollowsHead

\* The head never moves back, and no place in the chain is given twice.
THEOREM NoFork == Spec => HeadNeverForks
<1> DEFINE Forward == head' # head =>
                         \/ head = Absent /\ head' = Genesis
                         \/ head'.seq = head.seq + 1 /\ head'.prev = head.tag
<1>1. IInv /\ [Next]_vars => [Forward]_vars
  <2> SUFFICES ASSUME IInv, Next PROVE Forward
    BY DEF vars
  <2>1. ASSUME NEW w \in Writers,
               \/ Read(w) \/ Leave(w) \/ SessionKey(w) \/ Save(w) \/ Kill(w)
        PROVE  Forward
    BY <2>1 DEF Read, Leave, SessionKey, Save, Kill
  <2>2. ASSUME NEW w \in Writers, WriteGenesis(w) \/ MoveHead(w) \/ IOError(w)
        PROVE  Forward
    BY <2>2 DEF IInv, Progress, WriteGenesis, MoveHead, IOError, AfterFailure
  <2>3. ASSUME NEW p \in Peekers, Peek(p) \/ Judge(p)  PROVE Forward
    BY <2>3 DEF Peek, Judge
  <2> QED
    BY <2>1, <2>2, <2>3 DEF Next
<1> QED
  BY <1>1, Invariance, PTL DEF Spec, HeadNeverForks
=============================================================================
