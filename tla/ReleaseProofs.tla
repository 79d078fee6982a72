----------------------------- MODULE ReleaseProofs -----------------------------
(***************************************************************************)
(* A release, for any number of prepares, claims, GitHub releases, kills,  *)
(* edits and moved tags.  First its store: the record leads its pointer,   *)
(* an active release is whole and nothing a prepare wrote is taken back;   *)
(* the invariant says what each operation under the lock has still to      *)
(* write, and that the temp file a kill left is a write that the store,    *)
(* where it is now, may still take.  Then the publish: what goes public    *)
(* was approved and what the flow recorded of GitHub is true; the          *)
(* invariant says at each place of the run what its files, the remote tag  *)
(* and GitHub's drafts are, and nothing in it depends on the prepares.     *)
(***************************************************************************)
EXTENDS ReleaseFlow, TLAPS

----------------------------------------------------------------------------
(* Types of the store *)

Places == {"idle", "create", "reconcile", "start", "child", "claim", "gate",
           "adopt", "adopted", "conflict", "activate"}
Preparing == [at : Places, child : Children]
Operating == [by : Preparers \cup {None}, todo : Seq(Contents), then : Places]

StoreType ==
    /\ record \in Record \cup {None} /\ pointer \in States \cup {None}
    /\ manifest \in BOOLEAN /\ temp \in Contents \cup {None}
    /\ gates \in [Children -> {"none", "plan", "foreign"}]
    /\ prep \in [Preparers -> Preparing] /\ op \in Operating
    /\ claims \in Nat

----------------------------------------------------------------------------
(* The invariant of the store *)

Published2 == {"published", "adopted"}
Done(c) == record # None /\ record.child[c].state \in Published2

\* A record that agrees with the gates.
Sound(d) ==
    /\ d \in Record
    /\ \A c \in Children :
           /\ d.child[c].state = "planned" => d.child[c].token = 0
           /\ d.child[c].state \in Published2 => gates[c] = "plan"
    /\ d.state = "active" => \A c \in Children : d.child[c].state = "adopted"

Forward(q, d) ==
    \A c \in Children :
        /\ Rank(d.child[c].state) >= Rank(q.child[c].state)
        /\ q.child[c].token \in {0, d.child[c].token}
        /\ q.child[c].state \in Published2 => d.child[c].state \in Published2

\* A record that may be written where the store is now.
Follows(d) ==
    /\ Sound(d)
    /\ \/ pointer = None /\ record \in {None, NewRecord} /\ d = NewRecord
       \/ /\ pointer = "planned" /\ record # None /\ record.state = "planned"
          /\ d.state = "publishing" /\ Forward(record, d)
       \/ /\ pointer = "publishing" /\ record # None /\ record.state = "publishing"
          /\ d.state \in {"publishing", "active", "conflict"} /\ Forward(record, d)

\* A state that the pointer may be moved to.
PointsAt(s) == record # None /\ record.state = s /\ s \in Ahead(pointer)

Complete(d) == d.state = "active" => manifest

\* What an operation has still to write.
DueChild(todo) == \E d \in Record :
    todo = <<Write("record", d)>> /\ Follows(d) /\ d.state = pointer
DuePointer(todo) == \E s \in States : todo = <<Write("pointer", s)>> /\ PointsAt(s)
DueState(todo) == \E d \in Record :
    /\ todo = <<Write("record", d), Write("pointer", d.state)>>
    /\ Follows(d) /\ d.state \in Ahead(pointer) /\ Complete(d)
DueActive(todo) == \E d \in Record :
    /\ todo = <<Write("manifest", TRUE), Write("record", d), Write("pointer", "active")>>
    /\ Follows(d) /\ d.state = "active" /\ "active" \in Ahead(pointer)
DueManifest(todo) ==
    todo = <<Write("manifest", TRUE), Write("pointer", "active")>> /\ PointsAt("active")
Due(todo) ==
    \/ todo = <<>> \/ DueChild(todo) \/ DuePointer(todo) \/ DueState(todo)
    \/ DueActive(todo) \/ DueManifest(todo)

\* A temp file that a killed process left, or that is about to be renamed.
Staged ==
    \/ temp = None
    \/ \E d \in Record : temp = Write("record", d) /\ Follows(d) /\ Complete(d)
    \/ \E s \in States : temp = Write("pointer", s) /\ PointsAt(s)

Standing ==
    /\ record = None => pointer = None
    /\ record # None => Sound(record) /\ record.state \in Ahead(pointer) \cup {pointer}
    /\ pointer = None => record \in {None, NewRecord}
    /\ record # None => Complete(record)
    /\ gates[2] = "plan" => Done(1)

\* What a prepare knows where it is.
Knows(p) ==
    /\ prep[p].child = 2 => Done(1)
    /\ prep[p].at = "adopt" => gates[prep[p].child] = "plan"
    /\ prep[p].at = "conflict" => gates[prep[p].child] = "foreign"
    /\ prep[p].at = "adopted" => Done(prep[p].child)
    /\ prep[p].at \notin {"idle", "create", "reconcile"} => record # None

Lockable == {"create", "start", "claim", "adopt", "conflict", "activate"}
After == {"reconcile", "child", "gate", "adopted", "idle"}

\* The one operation under the lock.
Operation ==
    op.by # None =>
        /\ op.by \in Preparers /\ prep[op.by].at \in Lockable /\ op.then \in After
        /\ Due(op.todo)
        /\ op.then \in {"child", "gate", "adopted"} => record # None
        /\ op.then = "adopted" =>
              \/ op.todo = <<>> /\ Done(prep[op.by].child)
              \/ \E d \in Record : op.todo = <<Write("record", d)>>
                                   /\ d.child[prep[op.by].child].state = "published"

SInv ==
    /\ StoreType /\ Standing /\ Staged /\ Operation
    /\ \A p \in Preparers : Knows(p)

----------------------------------------------------------------------------
(* Facts about the writes *)

LEMMA WriteType ==
    /\ \A d \in Record : Write("record", d) \in Contents
    /\ \A s \in States : Write("pointer", s) \in Contents
    /\ Write("manifest", TRUE) \in Contents
BY DEF Write, Contents

LEMMA WriteFields ==
    \A f, d : Write(f, d).file = f /\ Write(f, d).data = d
BY DEF Write

LEMMA AheadIs ==
    /\ Ahead(None) = {"planned"} /\ Ahead("planned") = {"publishing"}
    /\ Ahead("publishing") = {"active", "conflict"}
    /\ Ahead("active") = {} /\ Ahead("conflict") = {}
BY ReleaseStoreAssumption DEF Ahead, States

LEMMA NotNone ==
    /\ \A d \in Record : d # None
    /\ \A s \in States : s # None
    /\ \A w \in Contents : w # None
    /\ \A p \in Preparers : p # None
BY ReleaseStoreAssumption

\* Sequences of at most three writes.
LEMMA Lists ==
    ASSUME NEW a, NEW b, NEW c
    PROVE  /\ <<a>> # <<>> /\ <<a, b>> # <<>> /\ <<a, b, c>> # <<>>
           /\ Head(<<a>>) = a /\ Tail(<<a>>) = <<>>
           /\ Head(<<a, b>>) = a /\ Tail(<<a, b>>) = <<b>>
           /\ Head(<<a, b, c>>) = a /\ Tail(<<a, b, c>>) = <<b, c>>
           /\ <<a>> # <<b, c>>
OBVIOUS

LEMMA NewRecordType == NewRecord \in Record
<1>1. Planned \in ChildRecord
  BY DEF Planned, ChildRecord
<1>2. <<Planned, Planned>> \in [Children -> ChildRecord]
  BY <1>1 DEF Children
<1> QED
  BY <1>2 DEF NewRecord, Record, States

LEMMA NewRecordSound ==
    ASSUME StoreType
    PROVE  Sound(NewRecord)
<1>1. \A c \in Children : NewRecord.child[c] = Planned
  BY DEF NewRecord, Children
<1> QED
  BY <1>1, NewRecordType DEF Sound, NewRecord, Planned, Published2

----------------------------------------------------------------------------
(* What the other processes do to what one knows *)

GatesKept ==
    /\ \A c \in Children : gates[c] # "none" => gates'[c] = gates[c]
    /\ record # None => record' # None

LEMMA FollowsKept ==
    ASSUME UNCHANGED <<record, pointer>>, GatesKept
    PROVE  /\ \A d : Sound(d) => Sound(d)'
           /\ \A d : Follows(d) => Follows(d)'
<1>1. \A d : Sound(d) => Sound(d)'
  BY DEF Sound, GatesKept
<1> QED
  BY <1>1 DEF Follows

LEMMA DueKept ==
    ASSUME UNCHANGED <<record, pointer, manifest>>, GatesKept
    PROVE  \A todo : Due(todo) => Due(todo)'
<1>1. \A d : Follows(d) => Follows(d)'
  BY FollowsKept
<1> QED
  BY <1>1 DEF Due, DueChild, DuePointer, DueState, DueActive, DueManifest, PointsAt, Complete

LEMMA StagedKept ==
    ASSUME UNCHANGED files, GatesKept, Staged
    PROVE  Staged'
<1>1. \A d : Follows(d) => Follows(d)'
  BY FollowsKept DEF files
<1> QED
  BY <1>1 DEF Staged, PointsAt, Complete, files

\* What another process knows: children stay published, gates stay raised.
LEMMA KnowsKept ==
    ASSUME GatesKept, \A c \in Children : Done(c) => Done(c)',
           StoreType, NEW p \in Preparers, Knows(p), prep'[p] = prep[p]
    PROVE  Knows(p)'
<1>1. prep[p].child \in Children /\ 1 \in Children
  BY DEF StoreType, Preparing, Children
<1> QED
  BY <1>1 DEF Knows, GatesKept

LEMMA StandingKept ==
    ASSUME UNCHANGED files, GatesKept, Standing, gates'[2] = "plan" => Done(1)
    PROVE  Standing'
<1>1. \A d : Sound(d) => Sound(d)'
  BY FollowsKept DEF files
<1> QED
  BY <1>1 DEF Standing, Complete, Done, files

\* A step of p that leaves the files alone and is not under the lock, or
\* gives the lock up.
LEMMA PrepStep ==
    ASSUME SInv, NEW p \in Preparers, NEW n \in Preparing,
           prep' = [prep EXCEPT ![p] = n], UNCHANGED <<files, gates, claims>>,
           (op' = op /\ op.by # p) \/ op' = Free, Knows(p)'
    PROVE  SInv'
<1>1. StoreType /\ Standing /\ Staged /\ Operation
  BY DEF SInv
<1>2. prep' \in [Preparers -> Preparing] /\ \A q \in Preparers : q # p => prep'[q] = prep[q]
  BY <1>1 DEF StoreType
<1>3. Free \in Operating
  BY DEF Free, Operating, Places
<1>4. StoreType'
  BY <1>1, <1>2, <1>3 DEF StoreType, files
<1>5. GatesKept /\ \A c \in Children : Done(c) => Done(c)'
  BY DEF GatesKept, Done, files
<1>6. Standing' /\ Staged'
  BY <1>1, <1>5, StandingKept, StagedKept DEF Standing
<1>7. \A q \in Preparers : Knows(q)'
  BY <1>1, <1>2, <1>5, KnowsKept DEF SInv
<1>8. Operation'
  <2>1. CASE op' = Free
    BY <2>1 DEF Operation, Free
  <2>2. CASE op' = op /\ op.by # p
    <3>1. \A todo : Due(todo) => Due(todo)'
      BY <1>5, DueKept DEF files
    <3>2. op.by # None => op.by \in Preparers /\ prep'[op.by] = prep[op.by]
      BY <1>1, <1>2, <2>2 DEF Operation
    <3> QED
      BY <1>1, <2>2, <3>1, <3>2 DEF Operation, Done, files
  <2> QED
    BY <2>1, <2>2
<1> QED
  BY <1>4, <1>6, <1>7, <1>8 DEF SInv

\* An operation that starts, with what it has to write.
LEMMA BeginStep ==
    ASSUME SInv, NEW p \in Preparers, NEW writes \in Seq(Contents), NEW then \in After,
           op' = [by |-> p, todo |-> writes, then |-> then],
           UNCHANGED <<files, gates, prep>>, claims' \in Nat,
           prep[p].at \in Lockable, Due(writes),
           then \in {"child", "gate", "adopted"} => record # None,
           then = "adopted" => \E d \in Record :
               writes = <<Write("record", d)>> /\ d.child[prep[p].child].state = "published"
    PROVE  SInv'
<1>1. StoreType /\ Standing /\ Staged
  BY DEF SInv
<1>2. then \in Places
  BY DEF After, Places
<1>3. op' \in Operating
  BY <1>2 DEF Operating
<1>4. StoreType'
  BY <1>1, <1>3 DEF StoreType, files
<1>5. GatesKept /\ \A c \in Children : Done(c) => Done(c)'
  BY DEF GatesKept, Done, files
<1>6. Standing' /\ Staged'
  BY <1>1, <1>5, StandingKept, StagedKept DEF Standing
<1>7. \A q \in Preparers : Knows(q)'
  BY <1>1, <1>5, KnowsKept DEF SInv
<1>8. Due(writes)'
  BY <1>5, DueKept DEF files
<1>9. op'.by = p /\ op'.todo = writes /\ op'.then = then
  OBVIOUS
<1>10. Operation'
  BY <1>8, <1>9 DEF Operation, files
<1> QED
  BY <1>4, <1>6, <1>7, <1>10 DEF SInv

----------------------------------------------------------------------------
(* The writes of an operation *)

LEMMA RecordWritten ==
    ASSUME StoreType, Standing, NEW d \in Record, Follows(d), Complete(d),
           record' = d, UNCHANGED <<pointer, manifest, gates>>
    PROVE  Standing' /\ \A c \in Children : Done(c) => Done(c)'
<1>1. d # None /\ 1 \in Children
  BY NotNone DEF Children
<1>2. \A c \in Children : Done(c) => Done(c)'
  <2>1. \A c \in Children : NewRecord.child[c].state = "planned"
    BY DEF NewRecord, Planned, Children
  <2>2. CASE record \in {None, NewRecord} /\ d = NewRecord
    BY <2>1, <2>2 DEF Done, Published2
  <2>3. CASE record # None /\ Forward(record, d)
    BY <1>1, <2>3 DEF Done, Forward
  <2> QED
    BY <2>2, <2>3 DEF Follows
<1>3. Sound(d)'
  BY DEF Follows, Sound
<1>4. d.state \in Ahead(pointer) \cup {pointer}
  BY AheadIs DEF Follows, NewRecord
<1>5. pointer = None => d = NewRecord
  BY NotNone DEF Follows, States
<1> QED
  BY <1>1, <1>2, <1>3, <1>4, <1>5 DEF Standing, Complete

LEMMA PointerWritten ==
    ASSUME StoreType, Standing, NEW s \in States, PointsAt(s), pointer' = s,
           UNCHANGED <<record, manifest, gates>>
    PROVE  Standing' /\ \A c \in Children : Done(c) => Done(c)'
BY NotNone DEF Standing, PointsAt, Sound, Complete, Done

\* What is left of an operation after its first write.
LEMMA RestType ==
    ASSUME StoreType, op.todo # <<>>
    PROVE  /\ [op EXCEPT !.todo = Tail(@)] \in Operating
           /\ Head(op.todo) \in Contents
           /\ \A r : r = [op EXCEPT !.todo = Tail(@)] =>
                 r.by = op.by /\ r.then = op.then /\ r.todo = Tail(op.todo)
<1>1. op \in Operating
  BY DEF StoreType
<1>2. op.todo \in Seq(Contents)
  BY <1>1 DEF Operating
<1>3. Tail(op.todo) \in Seq(Contents) /\ Head(op.todo) \in Contents
  BY <1>2
<1> QED
  BY <1>1, <1>3 DEF Operating

\* One write of an operation is done, and the rest is due.
LEMMA WriteStep ==
    ASSUME SInv, op.by # None, op.todo # <<>>,
           op' = [op EXCEPT !.todo = Tail(@)], UNCHANGED <<gates, prep, claims>>,
           record' \in Record \cup {None}, pointer' \in States \cup {None},
           manifest' \in BOOLEAN, temp' \in Contents \cup {None},
           Standing', Staged', \A c \in Children : Done(c) => Done(c)',
           record # None => record' # None,
           NEW rest, rest = Tail(op.todo), Due(rest)',
           op.then = "adopted" => rest = <<>> /\ Done(prep[op.by].child)'
    PROVE  SInv'
<1>1. StoreType /\ Operation
  BY DEF SInv
<1>2. op'.by = op.by /\ op'.then = op.then /\ op'.todo = Tail(op.todo) /\ op' \in Operating
  BY <1>1, RestType
<1>3. StoreType'
  BY <1>1, <1>2 DEF StoreType
<1>4. GatesKept
  BY DEF GatesKept
<1>5. \A q \in Preparers : Knows(q)'
  BY <1>1, <1>4, KnowsKept DEF SInv
<1>6. Operation'
  BY <1>1, <1>2 DEF Operation
<1> QED
  BY <1>3, <1>5, <1>6 DEF SInv

\* The write that comes next, and what follows it.
ChildNext(d) ==
    /\ Head(op.todo) = Write("record", d) /\ Follows(d) /\ d.state = pointer
    /\ Tail(op.todo) = <<>> /\ op.todo = <<Write("record", d)>>
StateNext(d) ==
    /\ Head(op.todo) = Write("record", d) /\ Follows(d) /\ Complete(d)
    /\ Tail(op.todo) = <<Write("pointer", d.state)>> /\ d.state \in Ahead(pointer)
    /\ \A w : op.todo # <<w>>
PointerNext(s) ==
    /\ Head(op.todo) = Write("pointer", s) /\ PointsAt(s)
    /\ Tail(op.todo) = <<>> /\ op.todo = <<Write("pointer", s)>>
ManifestNext ==
    /\ Head(op.todo) = Write("manifest", TRUE)
    /\ \A w : op.todo # <<w>>
    /\ \/ DuePointer(Tail(op.todo))
       \/ \E d \in Record : /\ Tail(op.todo) = <<Write("record", d), Write("pointer", d.state)>>
                             /\ Follows(d) /\ d.state \in Ahead(pointer)

LEMMA DueHead ==
    ASSUME StoreType, Due(op.todo), op.todo # <<>>
    PROVE  \/ \E d \in Record : ChildNext(d) \/ StateNext(d)
           \/ \E s \in States : PointerNext(s)
           \/ ManifestNext
<1>1. CASE DueChild(op.todo)
  <2>1. PICK d \in Record : op.todo = <<Write("record", d)>> /\ Follows(d) /\ d.state = pointer
    BY <1>1 DEF DueChild
  <2>2. Head(op.todo) = Write("record", d) /\ Tail(op.todo) = <<>>
    BY <2>1, Lists
  <2> QED
    BY <2>1, <2>2 DEF ChildNext
<1>2. CASE DuePointer(op.todo)
  <2>1. PICK s \in States : op.todo = <<Write("pointer", s)>> /\ PointsAt(s)
    BY <1>2 DEF DuePointer
  <2>2. Head(op.todo) = Write("pointer", s) /\ Tail(op.todo) = <<>>
    BY <2>1, Lists
  <2> QED
    BY <2>1, <2>2 DEF PointerNext
<1>3. CASE DueState(op.todo)
  <2>1. PICK d \in Record : /\ op.todo = <<Write("record", d), Write("pointer", d.state)>>
                            /\ Follows(d) /\ d.state \in Ahead(pointer) /\ Complete(d)
    BY <1>3 DEF DueState
  <2>2. Head(op.todo) = Write("record", d) /\ Tail(op.todo) = <<Write("pointer", d.state)>>
        /\ \A w : op.todo # <<w>>
    BY <2>1, Lists
  <2> QED
    BY <2>1, <2>2 DEF StateNext
<1>4. CASE DueActive(op.todo)
  <2>1. PICK d \in Record :
            /\ op.todo = <<Write("manifest", TRUE), Write("record", d), Write("pointer", "active")>>
            /\ Follows(d) /\ d.state = "active" /\ "active" \in Ahead(pointer)
    BY <1>4 DEF DueActive
  <2>2. Head(op.todo) = Write("manifest", TRUE)
        /\ Tail(op.todo) = <<Write("record", d), Write("pointer", "active")>>
    BY <2>1, Lists
  <2>3. \A w : op.todo # <<w>>
    BY <2>1
  <2> QED
    BY <2>1, <2>2, <2>3 DEF ManifestNext
<1>5. CASE DueManifest(op.todo)
  <2>1. "active" \in States
    BY DEF States
  <2>2. Head(op.todo) = Write("manifest", TRUE)
        /\ Tail(op.todo) = <<Write("pointer", "active")>> /\ \A w : op.todo # <<w>>
    BY <1>5, Lists DEF DueManifest
  <2>3. DuePointer(Tail(op.todo))
    BY <1>5, <2>1, <2>2 DEF DueManifest, DuePointer
  <2> QED
    BY <2>2, <2>3 DEF ManifestNext
<1> QED
  BY <1>1, <1>2, <1>3, <1>4, <1>5 DEF Due

\* A prepare that stops gives up what it knew.
LEMMA StopStep ==
    ASSUME SInv, NEW p \in Preparers, Stop(p), UNCHANGED <<files, gates, claims>>,
           (op' = op /\ op.by # p) \/ op' = Free
    PROVE  SInv'
<1>1. Idle \in Preparing
  BY DEF Idle, Preparing, Places, Children
<1>2. prep'[p] = Idle
  BY DEF Stop, SInv, StoreType
<1>3. Knows(p)'
  BY <1>2 DEF Knows, Idle
<1> QED
  BY <1>1, <1>3, PrepStep DEF Stop

LEMMA ChildRecordComplete ==
    ASSUME NEW d \in Record, Follows(d), d.state = pointer
    PROVE  Complete(d)
BY NotNone DEF Follows, Complete, States, NewRecord, Record

LEMMA StageStep ==
    ASSUME SInv, Stage
    PROVE  SInv'
<1> DEFINE w == Head(op.todo)
<1>1. /\ op.by # None /\ op.todo # <<>> /\ w.file # "manifest"
      /\ UNCHANGED <<record, pointer, manifest, gates, claims>>
  BY DEF Stage
<1>2. StoreType /\ Standing /\ Staged /\ Operation /\ op.by \in Preparers /\ Due(op.todo)
  BY <1>1 DEF SInv, Operation
<1>3. CASE temp \notin {None, w}
  <2>1. Stop(op.by) /\ op' = Free /\ UNCHANGED temp
    BY <1>3 DEF Stage
  <2> QED
    BY <1>1, <1>2, <2>1, StopStep DEF files
<1>4. \/ \E d \in Record : ChildNext(d) \/ StateNext(d)
      \/ \E s \in States : PointerNext(s)
  <2>1. ~ManifestNext
    <3>1. ManifestNext => w = Write("manifest", TRUE)
      BY DEF ManifestNext
    <3> QED
      BY <1>1, <3>1, WriteFields
  <2> QED
    BY <1>1, <1>2, <2>1, DueHead
<1>5. CASE temp = None /\ Current(w.file) = w.data
  <2>1. op' = [op EXCEPT !.todo = Tail(@)] /\ UNCHANGED <<prep, temp>>
    BY <1>5 DEF Stage
  <2>2. Standing' /\ Staged' /\ \A c \in Children : Done(c) => Done(c)'
    <3>1. GatesKept /\ UNCHANGED files
      BY <1>1, <2>1 DEF GatesKept, files
    <3>2. gates'[2] = "plan" => Done(1)
      BY <1>1, <1>2 DEF Standing
    <3>3. Standing' /\ Staged'
      BY <1>2, <3>1, <3>2, StandingKept, StagedKept
    <3> QED
      BY <3>1, <3>3 DEF Done, files
  <2>3. PICK rest : rest = Tail(op.todo)
    OBVIOUS
  <2>4. Due(rest) /\ (op.then = "adopted" => rest = <<>> /\ Done(prep[op.by].child))
    <3>1. ASSUME NEW d \in Record, ChildNext(d)
          PROVE  Due(rest) /\ (op.then = "adopted" => rest = <<>> /\ Done(prep[op.by].child))
      <4>1. record = d
        BY <1>5, <3>1, WriteFields DEF Current, ChildNext
      <4>2. op.then = "adopted" =>
               \E e \in Record : op.todo = <<Write("record", e)>>
                                 /\ e.child[prep[op.by].child].state = "published"
        BY <1>1, <1>2 DEF Operation
      <4>3. \A e \in Record : op.todo = <<Write("record", e)>> => e = d
        BY <3>1 DEF Write, ChildNext
      <4> QED
        BY <2>3, <3>1, <4>1, <4>2, <4>3, NotNone DEF Due, Done, Published2, ChildNext
    <3>2. ASSUME NEW d \in Record, StateNext(d)
          PROVE  Due(rest) /\ (op.then = "adopted" => rest = <<>> /\ Done(prep[op.by].child))
      <4>1. record = d /\ d.state \in States /\ d # None
        BY <1>5, <3>2, WriteFields, NotNone DEF Current, Record, StateNext
      <4>2. PointsAt(d.state)
        BY <3>2, <4>1 DEF PointsAt, StateNext
      <4>3. op.then # "adopted"
        BY <1>1, <1>2, <3>2 DEF Operation, StateNext
      <4> QED
        BY <2>3, <3>2, <4>1, <4>2, <4>3 DEF Due, DuePointer, StateNext
    <3>3. ASSUME NEW s \in States, PointerNext(s)
          PROVE  Due(rest) /\ (op.then = "adopted" => rest = <<>> /\ Done(prep[op.by].child))
      <4>1. \A e \in Record : op.todo # <<Write("record", e)>>
        BY <3>3 DEF Write, PointerNext
      <4>2. op.then # "adopted"
        BY <1>1, <1>2, <4>1 DEF Operation
      <4> QED
        BY <2>3, <3>3, <4>2 DEF Due, PointerNext
    <3> QED
      BY <1>4, <3>1, <3>2, <3>3
  <2>5. Due(rest)'
    <3>1. GatesKept
      BY <1>1 DEF GatesKept
    <3> QED
      BY <1>1, <2>4, <3>1, DueKept
  <2>6. op.then = "adopted" => rest = <<>> /\ Done(prep[op.by].child)'
    BY <1>1, <2>1, <2>4 DEF Done
  <2>7. record' \in Record \cup {None} /\ pointer' \in States \cup {None}
        /\ manifest' \in BOOLEAN /\ temp' \in Contents \cup {None}
    BY <1>1, <1>2, <2>1 DEF StoreType
  <2> QED
    BY <1>1, <2>1, <2>2, <2>3, <2>5, <2>6, <2>7, WriteStep
<1>6. CASE temp = None /\ temp' = w /\ UNCHANGED <<prep, op>>
  <2>1. w \in Contents
    BY <1>1, <1>2, RestType
  <2>2. StoreType'
    BY <1>1, <1>2, <1>6, <2>1 DEF StoreType
  <2>3. Staged'
    <3>1. \A d : Follows(d) => Follows(d)'
      BY <1>1, FollowsKept DEF GatesKept
    <3>2. ASSUME NEW d \in Record, w = Write("record", d), Follows(d), Complete(d)
          PROVE  Staged'
      BY <1>1, <1>6, <3>1, <3>2 DEF Staged, Complete
    <3>3. ASSUME NEW s \in States, w = Write("pointer", s), PointsAt(s)
          PROVE  Staged'
      BY <1>1, <1>6, <3>3 DEF Staged, PointsAt
    <3> QED
      BY <1>4, <3>2, <3>3, ChildRecordComplete DEF ChildNext, StateNext, PointerNext
  <2>4. GatesKept /\ (\A c \in Children : Done(c) => Done(c)')
    BY <1>1 DEF GatesKept, Done
  <2>5. \A q \in Preparers : Knows(q)'
    BY <1>2, <1>6, <2>4, KnowsKept DEF SInv
  <2>6. \A todo : Due(todo) => Due(todo)'
    BY <1>1, <2>4, DueKept
  <2>7. Operation'
    BY <1>1, <1>2, <1>6, <2>6 DEF Operation, Done
  <2>8. Standing'
    BY <1>1, <1>2 DEF Standing, Sound, Complete, Done
  <2> QED
    BY <2>2, <2>3, <2>5, <2>7, <2>8 DEF SInv
<1> QED
  BY <1>3, <1>5, <1>6 DEF Stage

LEMMA RenameStep ==
    ASSUME SInv, Rename
    PROVE  SInv'
<1>1. /\ op.by # None /\ op.todo # <<>> /\ temp = Head(op.todo)
      /\ temp' = None /\ op' = [op EXCEPT !.todo = Tail(@)]
      /\ UNCHANGED <<manifest, gates, prep, claims>>
  BY DEF Rename
<1>2. /\ StoreType /\ Standing /\ Staged /\ Operation /\ op.by \in Preparers /\ Due(op.todo)
      /\ temp # None
  <2>1. StoreType /\ Standing /\ Staged /\ Operation
    BY DEF SInv
  <2>2. op.by \in Preparers /\ Due(op.todo)
    BY <1>1, <2>1 DEF Operation
  <2>3. Head(op.todo) \in Contents
    BY <1>1, <2>1, RestType
  <2> QED
    BY <1>1, <2>1, <2>2, <2>3, NotNone
<1>3. prep[op.by].child \in Children
  BY <1>2 DEF StoreType, Preparing
<1>4. PICK rest : rest = Tail(op.todo)
  OBVIOUS
<1>5. Staged'
  BY <1>1 DEF Staged
<1>6. ASSUME NEW d \in Record, temp = Write("record", d), Follows(d), Complete(d)
      PROVE  /\ record' = d /\ UNCHANGED pointer
             /\ Standing' /\ \A c \in Children : Done(c) => Done(c)'
  <2>1. record' = d /\ UNCHANGED pointer
    BY <1>6, WriteFields DEF Rename
  <2> QED
    BY <1>1, <1>2, <1>6, <2>1, RecordWritten
<1>7. ASSUME NEW d \in Record, ChildNext(d) PROVE SInv'
  <2>1. temp = Write("record", d) /\ Follows(d) /\ d.state = pointer
        /\ Tail(op.todo) = <<>> /\ op.todo = <<Write("record", d)>>
    BY <1>1, <1>7 DEF ChildNext
  <2>2. Complete(d)
    BY <2>1, ChildRecordComplete
  <2>3. /\ record' = d /\ UNCHANGED pointer
        /\ Standing' /\ \A c \in Children : Done(c) => Done(c)'
    BY <1>6, <2>1, <2>2
  <2>4. rest = <<>> /\ Due(rest)'
    BY <1>4, <2>1 DEF Due
  <2>5. op.then = "adopted" => Done(prep[op.by].child)'
    <3>1. op.then = "adopted" =>
             \E e \in Record : op.todo = <<Write("record", e)>>
                               /\ e.child[prep[op.by].child].state = "published"
      BY <1>1, <1>2 DEF Operation
    <3>2. \A e \in Record : op.todo = <<Write("record", e)>> => e = d
      BY <2>1 DEF Write
    <3>3. op'.by = op.by /\ prep' = prep
      BY <1>1, <1>2, RestType
    <3> QED
      BY <2>3, <3>1, <3>2, <3>3, NotNone DEF Done, Published2
  <2>6. record' \in Record \cup {None} /\ pointer' \in States \cup {None}
        /\ manifest' \in BOOLEAN /\ temp' \in Contents \cup {None}
    BY <1>1, <1>2, <2>3 DEF StoreType
  <2> QED
    BY <1>1, <1>4, <1>5, <2>3, <2>4, <2>5, <2>6, WriteStep, NotNone
<1>8. ASSUME NEW d \in Record, StateNext(d) PROVE SInv'
  <2>1. temp = Write("record", d) /\ Follows(d) /\ Complete(d) /\ d.state \in Ahead(pointer)
        /\ Tail(op.todo) = <<Write("pointer", d.state)>> /\ \A v : op.todo # <<v>>
    BY <1>1, <1>8 DEF StateNext
  <2>2. /\ record' = d /\ UNCHANGED pointer
        /\ Standing' /\ \A c \in Children : Done(c) => Done(c)'
    BY <1>6, <2>1
  <2>3. Due(rest)'
    <3>1. d # None /\ d.state \in States
      BY NotNone DEF Record
    <3>2. PointsAt(d.state)'
      BY <2>1, <2>2, <3>1 DEF PointsAt
    <3> QED
      BY <1>4, <2>1, <3>1, <3>2 DEF Due, DuePointer
  <2>4. op.then # "adopted"
    BY <1>1, <1>2, <1>8 DEF Operation, StateNext
  <2>5. record' \in Record \cup {None} /\ pointer' \in States \cup {None}
        /\ manifest' \in BOOLEAN /\ temp' \in Contents \cup {None}
    BY <1>1, <1>2, <2>2 DEF StoreType
  <2> QED
    BY <1>1, <1>4, <1>5, <2>2, <2>3, <2>4, <2>5, WriteStep, NotNone
<1>9. ASSUME NEW s \in States, PointerNext(s) PROVE SInv'
  <2>1. temp = Write("pointer", s) /\ PointsAt(s) /\ Tail(op.todo) = <<>>
        /\ op.todo = <<Write("pointer", s)>>
    BY <1>1, <1>9 DEF PointerNext
  <2>2. pointer' = s /\ UNCHANGED record
    BY <2>1, WriteFields DEF Rename
  <2>3. Standing' /\ \A c \in Children : Done(c) => Done(c)'
    BY <1>1, <1>2, <2>1, <2>2, PointerWritten
  <2>4. Due(rest)'
    BY <1>4, <2>1 DEF Due
  <2>5. op.then # "adopted"
    <3>1. \A e \in Record : op.todo # <<Write("record", e)>>
      BY <2>1 DEF Write
    <3> QED
      BY <1>1, <1>2, <3>1 DEF Operation
  <2>6. record' \in Record \cup {None} /\ pointer' \in States \cup {None}
        /\ manifest' \in BOOLEAN /\ temp' \in Contents \cup {None}
    BY <1>1, <1>2, <2>2 DEF StoreType
  <2>7. record # None => record' # None
    BY <2>2
  <2> QED
    BY <1>1, <1>4, <1>5, <2>2, <2>3, <2>4, <2>5, <2>6, <2>7, WriteStep
<1>10. ~ManifestNext
  <2>1. ManifestNext => temp = Write("manifest", TRUE)
    BY <1>1 DEF ManifestNext
  <2>2. temp.file # "manifest"
    BY <1>2, WriteFields DEF Staged
  <2> QED
    BY <2>1, <2>2, WriteFields
<1> QED
  BY <1>1, <1>2, <1>7, <1>8, <1>9, <1>10, DueHead

LEMMA WriteActiveStep ==
    ASSUME SInv, WriteActive
    PROVE  SInv'
<1>1. /\ op.by # None /\ op.todo # <<>> /\ Head(op.todo).file = "manifest"
      /\ UNCHANGED <<record, pointer, temp, gates, claims>>
  BY DEF WriteActive
<1>2. StoreType /\ Standing /\ Staged /\ Operation /\ op.by \in Preparers /\ Due(op.todo)
  BY <1>1 DEF SInv, Operation
<1>3. CASE temp # None /\ ~manifest
  <2>1. Stop(op.by) /\ op' = Free /\ UNCHANGED manifest
    BY <1>3 DEF WriteActive
  <2> QED
    BY <1>1, <1>2, <2>1, StopStep DEF files
<1>4. CASE ~(temp # None /\ ~manifest)
  <2>1. manifest' = TRUE /\ op' = [op EXCEPT !.todo = Tail(@)] /\ UNCHANGED prep
    BY <1>4 DEF WriteActive
  <2>2. ManifestNext
    <3>1. \A d \in Record : ~(ChildNext(d) \/ StateNext(d))
      BY <1>1, WriteFields DEF ChildNext, StateNext
    <3>2. \A s \in States : ~PointerNext(s)
      BY <1>1, WriteFields DEF PointerNext
    <3> QED
      BY <1>1, <1>2, <3>1, <3>2, DueHead
  <2>3. PICK rest : rest = Tail(op.todo)
    OBVIOUS
  <2>4. \A d : Follows(d) => Follows(d)'
    BY <1>1, FollowsKept DEF GatesKept
  <2>5. Due(rest)'
    <3>1. CASE DuePointer(Tail(op.todo))
      BY <1>1, <2>3, <3>1 DEF Due, DuePointer, PointsAt
    <3>2. CASE \E d \in Record : /\ Tail(op.todo) = <<Write("record", d), Write("pointer", d.state)>>
                                 /\ Follows(d) /\ d.state \in Ahead(pointer)
      BY <1>1, <2>1, <2>3, <2>4, <3>2 DEF Due, DueState, Complete
    <3> QED
      BY <2>2, <3>1, <3>2 DEF ManifestNext
  <2>6. op.then # "adopted"
    BY <1>1, <1>2, <2>2 DEF Operation, ManifestNext
  <2>7. Standing' /\ \A c \in Children : Done(c) => Done(c)'
    BY <1>1, <1>2, <2>1 DEF Standing, Sound, Complete, Done
  <2>8. Staged'
    BY <1>1, <1>2, <2>1, <2>4 DEF Staged, Complete, PointsAt
  <2>9. record' \in Record \cup {None} /\ pointer' \in States \cup {None}
        /\ manifest' \in BOOLEAN /\ temp' \in Contents \cup {None}
    BY <1>1, <1>2, <2>1 DEF StoreType
  <2> QED
    BY <1>1, <2>1, <2>3, <2>5, <2>6, <2>7, <2>8, <2>9, WriteStep
<1> QED
  BY <1>3, <1>4

LEMMA UnlockStep ==
    ASSUME SInv, Unlock
    PROVE  SInv'
<1>1. /\ op.by # None /\ op.todo = <<>> /\ Go(op.by, op.then) /\ op' = Free
      /\ UNCHANGED <<files, gates, claims>>
  BY DEF Unlock
<1>2. StoreType /\ Operation /\ op.by \in Preparers /\ op.then \in After /\ Knows(op.by)
  BY <1>1 DEF SInv, Operation
<1> DEFINE p == op.by
<1>3. prep[p] \in Preparing /\ op.then \in Places
  BY <1>2 DEF StoreType, After, Places
<1>4. [prep[p] EXCEPT !.at = op.then] \in Preparing
  BY <1>3 DEF Preparing
<1>5. PICK n \in Preparing : n = [prep[p] EXCEPT !.at = op.then]
  BY <1>4
<1>6. n.at = op.then /\ n.child = prep[p].child
  BY <1>3, <1>5 DEF Preparing
<1>7. PICK q \in Preparers : q = p
  BY <1>2
<1>8. prep' = [prep EXCEPT ![q] = n] /\ prep'[q] = n
  BY <1>1, <1>2, <1>5, <1>7 DEF Go, StoreType
<1>9. op.then = "adopted" => Done(prep[p].child)
  BY <1>1, <1>2 DEF Operation
<1>10. op.then \in {"reconcile", "child", "gate", "adopted", "idle"}
       /\ (op.then \in {"child", "gate", "adopted"} => record # None)
  BY <1>1, <1>2 DEF After, Operation
<1>11. Knows(q)'
  BY <1>1, <1>2, <1>6, <1>7, <1>8, <1>9, <1>10 DEF Knows, Done, files
<1> QED
  BY <1>1, <1>7, <1>8, <1>11, PrepStep

----------------------------------------------------------------------------
(* The steps of a prepare *)

\* A prepare that is at none of the locked places has no operation.
LEMMA NotLocked ==
    ASSUME SInv, NEW p \in Preparers, prep[p].at \notin Lockable \/ op.by = None
    PROVE  op.by # p
BY NotNone DEF SInv, Operation

\* A prepare that goes on with its child.
LEMMA GoStep ==
    ASSUME SInv, NEW p \in Preparers, prep[p].at \notin Lockable \/ op.by = None,
           NEW at \in Places, Go(p, at), UNCHANGED <<files, gates, op, claims>>,
           at = "adopt" => gates[prep[p].child] = "plan",
           at = "conflict" => gates[prep[p].child] = "foreign",
           at = "adopted" => Done(prep[p].child),
           at \notin {"idle", "create", "reconcile"} => record # None
    PROVE  SInv'
<1>1. prep[p] \in Preparing /\ Knows(p) /\ op.by # p
  BY NotLocked DEF SInv, StoreType
<1>2. [prep[p] EXCEPT !.at = at] \in Preparing
  BY <1>1 DEF Preparing
<1>3. PICK n \in Preparing : n = [prep[p] EXCEPT !.at = at]
  BY <1>2
<1>4. n.at = at /\ n.child = prep[p].child
  BY <1>1, <1>3 DEF Preparing
<1>5. prep' = [prep EXCEPT ![p] = n] /\ prep'[p] = n
  BY <1>3 DEF Go, SInv, StoreType
<1>6. Knows(p)'
  BY <1>1, <1>4, <1>5 DEF Knows, Done, files
<1> QED
  BY <1>1, <1>5, <1>6, PrepStep

\* A prepare whose child is done goes to the next one.
LEMMA NextStep ==
    ASSUME SInv, NEW p \in Preparers, prep[p].at \notin Lockable, Next1(p),
           UNCHANGED <<files, gates, op, claims>>, Done(prep[p].child)
    PROVE  SInv'
<1>1. prep[p] \in Preparing /\ Knows(p) /\ op.by # p
  BY NotLocked DEF SInv, StoreType
<1>2. PICK n \in {[at |-> "child", child |-> 2], [at |-> "activate", child |-> 2]} :
          prep' = [prep EXCEPT ![p] = n]
  BY DEF Next1
<1>3. n \in Preparing /\ n.child = 2 /\ n.at \in {"child", "activate"}
  BY DEF Preparing, Places, Children
<1>4. prep'[p] = n
  BY <1>2, <1>3 DEF SInv, StoreType
<1>5. Done(1)
  BY <1>1 DEF Knows, Preparing, Children
<1>6. Knows(p)'
  BY <1>3, <1>4, <1>5 DEF Knows, Done, files
<1> QED
  BY <1>1, <1>2, <1>3, <1>6, PrepStep

LEMMA FailStep ==
    ASSUME SInv, NEW p \in Preparers, op.by = None, Fail(p),
           UNCHANGED <<files, gates, claims>>
    PROVE  SInv'
BY NotNone, StopStep DEF Fail

LEMMA SkipStep ==
    ASSUME SInv, NEW p \in Preparers, op.by = None,
           NEW at \in Places \ {"adopt", "conflict"}, Skip(p, at),
           at = "adopted" => Done(prep[p].child),
           at \notin {"idle", "create", "reconcile"} => record # None,
           UNCHANGED <<files, gates, claims>>
    PROVE  SInv'
BY GoStep DEF Skip

\* An operation that starts under the lock.
LEMMA LockedStep ==
    ASSUME SInv, NEW p \in Preparers, prep[p].at \in Lockable,
           NEW writes, NEW then \in After, Begin(p, writes, then),
           UNCHANGED <<files, gates>>, claims' \in Nat,
           writes \in Seq(Contents), Due(writes),
           then \in {"child", "gate", "adopted"} => record # None,
           then = "adopted" => \E d \in Record :
               writes = <<Write("record", d)>> /\ d.child[prep[p].child].state = "published"
    PROVE  SInv'
BY BeginStep DEF Begin

LEMMA StartStep ==
    ASSUME SInv, NEW p \in Preparers, Start(p)
    PROVE  SInv'
BY GoStep DEF Start, Reading, Lockable, Places

LEMMA CreateStep ==
    ASSUME SInv, NEW p \in Preparers, Create(p)
    PROVE  SInv'
<1>1. /\ op.by = None /\ prep[p].at = "create" /\ StoreType /\ Standing
      /\ UNCHANGED <<files, gates, claims>>
  BY DEF Create, Locked, SInv
<1>2. CASE pointer = None
  <2> DEFINE writes == <<Write("record", NewRecord), Write("pointer", "planned")>>
  <2>1. Begin(p, writes, "reconcile")
    BY <1>2 DEF Create
  <2>2. writes \in Seq(Contents)
    BY NewRecordType, WriteType DEF States
  <2>3. Follows(NewRecord)
    BY <1>1, <1>2, NewRecordSound DEF Follows, Standing
  <2>4. NewRecord.state = "planned" /\ "planned" \in Ahead(pointer)
    BY <1>2, AheadIs DEF NewRecord
  <2>5. DueState(writes)
    BY <2>3, <2>4, NewRecordType DEF DueState, Complete
  <2> QED
    BY <1>1, <2>1, <2>2, <2>5, LockedStep DEF Due, Lockable, After, StoreType
<1>3. CASE pointer # None
  BY <1>1, <1>3, SkipStep, FailStep DEF Create, Places
<1> QED
  BY <1>2, <1>3

LEMMA ReconcileStep ==
    ASSUME SInv, NEW p \in Preparers, Reconcile(p)
    PROVE  SInv'
<1>1. prep[p].at = "reconcile" /\ UNCHANGED <<files, gates, op, claims>>
  BY DEF Reconcile, Reading
<1>2. CASE Stop(p)
  <2>1. op.by # p
    BY <1>1, NotLocked DEF Lockable
  <2> QED
    BY <1>1, <1>2, <2>1, StopStep
<1>3. CASE \E at \in {"idle", "start", "child", "activate"} : Go(p, at) /\ record # None
  BY <1>1, <1>3, GoStep DEF Lockable, Places
<1> QED
  BY <1>2, <1>3 DEF Reconcile, Agree, RecordAhead

LEMMA ChildStep ==
    ASSUME SInv, NEW p \in Preparers, Child(p)
    PROVE  SInv'
<1>1. prep[p].at = "child" /\ UNCHANGED <<files, gates, op, claims>> /\ record # None
  BY DEF Child, Reading, SInv, Knows
<1>2. CASE Stop(p)
  <2>1. op.by # p
    BY <1>1, NotLocked DEF Lockable
  <2> QED
    BY <1>1, <1>2, <2>1, StopStep
<1>3. CASE \E at \in {"claim", "gate"} : Go(p, at)
  BY <1>1, <1>3, GoStep DEF Lockable, Places
<1>4. CASE record.child[prep[p].child].state = "published" /\ Next1(p)
  BY <1>1, <1>4, NextStep DEF Lockable, Done, Published2
<1> QED
  BY <1>2, <1>3, <1>4 DEF Child

\* The record with one child changed may be written next.
LEMMA SetChildDue ==
    ASSUME SInv, Publishing, NEW c \in Children, NEW new \in ChildRecord,
           Rank(new.state) >= Rank(record.child[c].state),
           record.child[c].token \in {0, new.token},
           record.child[c].state \in Published2 => new.state \in Published2,
           new.state # "planned", new.state \in Published2 => gates[c] = "plan"
    PROVE  \E d \in Record : /\ SetChild(c, new) = Write("record", d)
                             /\ d.child[c] = new
                             /\ DueChild(<<SetChild(c, new)>>)
<1>1. /\ record \in Record /\ record # None /\ Sound(record)
      /\ record.state = "publishing" /\ pointer = "publishing"
  BY DEF Publishing, Agree, SInv, StoreType, Standing
<1>2. record.child \in [Children -> ChildRecord]
  BY <1>1 DEF Record
<1>3. PICK d : d = [record EXCEPT !.child[c] = new]
  OBVIOUS
<1>4. d = [state |-> record.state, child |-> [record.child EXCEPT ![c] = new]]
  BY <1>1, <1>3 DEF Record
<1>5. d.state = record.state /\ d.child = [record.child EXCEPT ![c] = new]
  BY <1>4
<1>6. d.child[c] = new /\ \A b \in Children : b # c => d.child[b] = record.child[b]
  BY <1>2, <1>5
<1>7. d \in Record
  <2>1. [record.child EXCEPT ![c] = new] \in [Children -> ChildRecord]
    BY <1>2
  <2> QED
    BY <1>1, <1>4, <2>1 DEF Record
<1>8. Sound(d)
  BY <1>1, <1>5, <1>6, <1>7 DEF Sound
<1>9. Forward(record, d)
  <2>1. \A b \in Children : Rank(record.child[b].state) >= Rank(record.child[b].state)
    BY DEF Rank
  <2> QED
    BY <1>6, <2>1 DEF Forward
<1>10. Follows(d)
  BY <1>1, <1>5, <1>8, <1>9 DEF Follows
<1>11. SetChild(c, new) = Write("record", d)
  BY <1>3 DEF SetChild
<1> QED
  BY <1>1, <1>5, <1>6, <1>7, <1>10, <1>11 DEF DueChild

LEMMA RankIs ==
    /\ Rank("planned") = 0 /\ Rank("sending") = 1 /\ Rank("published") = 2
    /\ Rank("adopted") = 3 /\ Rank("conflict") = 3
BY DEF Rank

LEMMA StartPublishingStep ==
    ASSUME SInv, NEW p \in Preparers, StartPublishing(p)
    PROVE  SInv'
<1>1. /\ op.by = None /\ prep[p].at = "start" /\ StoreType /\ Standing
      /\ UNCHANGED <<files, gates, claims>> /\ record # None /\ record \in Record
  BY DEF StartPublishing, Locked, SInv, Knows, StoreType
<1>2. CASE Fail(p)
  BY <1>1, <1>2, FailStep
<1>3. CASE Skip(p, "child")
  BY <1>1, <1>3, SkipStep DEF Places
<1>4. PICK d : d = [record EXCEPT !.state = "publishing"]
  OBVIOUS
<1>5. /\ d \in Record /\ d.state = "publishing" /\ d.child = record.child
  BY <1>1, <1>4 DEF Record, States
<1>6. CASE /\ pointer = "planned" /\ record.state = "planned"
           /\ Begin(p, <<Write("record", d), Write("pointer", "publishing")>>, "child")
  <2>1. Sound(d)
    BY <1>1, <1>5 DEF Standing, Sound
  <2>2. Forward(record, d)
    <3>1. \A b \in Children : Rank(record.child[b].state) >= Rank(record.child[b].state)
      BY DEF Rank
    <3> QED
      BY <1>5, <3>1 DEF Forward
  <2>3. Follows(d)
    BY <1>1, <1>5, <1>6, <2>1, <2>2 DEF Follows
  <2>4. DueState(<<Write("record", d), Write("pointer", "publishing")>>)
    BY <1>5, <1>6, <2>3, AheadIs DEF DueState, Complete
  <2>5. <<Write("record", d), Write("pointer", "publishing")>> \in Seq(Contents)
    BY <1>5, WriteType DEF States
  <2> QED
    BY <1>1, <1>6, <2>4, <2>5, LockedStep DEF Due, Lockable, After, StoreType
<1>7. CASE /\ pointer = "planned" /\ record.state = "publishing"
           /\ Begin(p, <<Write("pointer", "publishing")>>, "child")
  <2>1. DuePointer(<<Write("pointer", "publishing")>>)
    BY <1>1, <1>7, AheadIs DEF DuePointer, PointsAt, States
  <2>2. <<Write("pointer", "publishing")>> \in Seq(Contents)
    BY WriteType DEF States
  <2> QED
    BY <1>1, <1>7, <2>1, <2>2, LockedStep DEF Due, Lockable, After, StoreType
<1> QED
  BY <1>2, <1>3, <1>4, <1>6, <1>7 DEF StartPublishing

LEMMA ClaimChildSendStep ==
    ASSUME SInv, NEW p \in Preparers, ClaimChildSend(p)
    PROVE  SInv'
<1>1. /\ op.by = None /\ prep[p].at = "claim" /\ StoreType /\ Standing
      /\ UNCHANGED <<files, gates>>
  BY DEF ClaimChildSend, Locked, SInv
<1>2. PICK c \in Children : c = prep[p].child
  BY <1>1 DEF StoreType, Preparing
<1>3. CASE ~Claimable(c)
  BY <1>1, <1>2, <1>3, FailStep DEF ClaimChildSend
<1>4. CASE Claimable(c)
  <2>1. PICK new : new = [state |-> "sending", token |-> claims + 1]
    OBVIOUS
  <2>2. new \in ChildRecord /\ new.state = "sending" /\ claims + 1 \in Nat
    BY <1>1, <2>1 DEF ChildRecord, StoreType
  <2>3. claims' = claims + 1 /\ Begin(p, <<SetChild(c, new)>>, "gate")
    BY <1>2, <1>4, <2>1 DEF ClaimChildSend
  <2>4. Publishing /\ record.child[c].state = "planned" /\ record.child[c].token = 0
        /\ record # None
    BY <1>1, <1>4 DEF Claimable, Standing, Sound, Publishing, Agree
  <2>5. PICK d \in Record : /\ SetChild(c, new) = Write("record", d)
                            /\ DueChild(<<SetChild(c, new)>>)
    BY <2>2, <2>4, RankIs, SetChildDue DEF Published2
  <2>6. <<SetChild(c, new)>> \in Seq(Contents)
    BY <2>5, WriteType
  <2> QED
    BY <1>1, <2>2, <2>3, <2>4, <2>5, <2>6, LockedStep DEF Due, Lockable, After
<1> QED
  BY <1>3, <1>4

LEMMA ChildGateStep ==
    ASSUME SInv, NEW p \in Preparers, ChildGate(p)
    PROVE  SInv'
<1>1. /\ prep[p].at = "gate" /\ StoreType /\ Standing /\ Staged /\ Operation /\ Knows(p)
      /\ UNCHANGED <<files, op, claims>> /\ record # None
  BY DEF ChildGate, SInv, Knows
<1>2. PICK c \in Children : c = prep[p].child
  BY <1>1 DEF StoreType, Preparing
<1>3. /\ gates' = IF gates[c] = "none" THEN [gates EXCEPT ![c] = "plan"] ELSE gates
      /\ Go(p, IF Binds(c) THEN "adopt" ELSE "conflict")
  BY <1>2 DEF ChildGate
<1>4. /\ gates' \in [Children -> {"none", "plan", "foreign"}]
      /\ \A b \in Children : gates[b] # "none" => gates'[b] = gates[b]
      /\ \A b \in Children : b # c => gates'[b] = gates[b]
      /\ gates[c] # "foreign" => gates'[c] = "plan"
      /\ gates[c] = "foreign" => gates'[c] = "foreign"
  BY <1>1, <1>3 DEF StoreType
<1>5. GatesKept /\ \A b \in Children : Done(b) => Done(b)'
  BY <1>1, <1>4 DEF GatesKept, Done, files
<1>6. gates'[2] = "plan" => Done(1)
  BY <1>1, <1>2, <1>4 DEF Knows, Standing, Children
<1>7. Standing' /\ Staged'
  BY <1>1, <1>5, <1>6, StandingKept, StagedKept
<1>8. PICK at \in {"adopt", "conflict"} : at = IF Binds(c) THEN "adopt" ELSE "conflict"
  OBVIOUS
<1>9. /\ prep' = [prep EXCEPT ![p].at = at]
      /\ at = "adopt" => gates'[c] = "plan"
      /\ at = "conflict" => gates'[c] = "foreign"
  BY <1>3, <1>4, <1>8 DEF Go, Binds
<1>10. prep[p] \in Preparing
  BY <1>1 DEF StoreType
<1>11. /\ prep' \in [Preparers -> Preparing] /\ prep'[p].at = at /\ prep'[p].child = c
       /\ \A q \in Preparers : q # p => prep'[q] = prep[q]
  BY <1>1, <1>2, <1>9, <1>10 DEF StoreType, Preparing, Places
<1>12. StoreType'
  BY <1>1, <1>4, <1>11 DEF StoreType, files
<1>13. Knows(p)'
  <2>1. record' = record /\ record' # None
    BY <1>1 DEF files
  <2>2. prep'[p].child = 2 => Done(1)'
    BY <1>1, <1>2, <1>5, <1>11 DEF Knows, Children
  <2>3. /\ prep'[p].at = "adopt" => gates'[prep'[p].child] = "plan"
        /\ prep'[p].at = "conflict" => gates'[prep'[p].child] = "foreign"
        /\ prep'[p].at # "adopted"
    BY <1>9, <1>11
  <2> QED
    BY <2>1, <2>2, <2>3 DEF Knows
<1>14. \A q \in Preparers : Knows(q)'
  BY <1>1, <1>5, <1>11, <1>13, KnowsKept DEF SInv
<1>15. Operation'
  <2>1. \A todo : Due(todo) => Due(todo)'
    BY <1>1, <1>5, DueKept DEF files
  <2>2. op.by # p
    BY <1>1, NotLocked DEF Lockable
  <2>3. op.by # None => prep'[op.by] = prep[op.by]
    BY <1>1, <1>11, <2>2 DEF Operation
  <2> QED
    BY <1>1, <2>1, <2>3 DEF Operation, Done, files
<1> QED
  BY <1>7, <1>12, <1>14, <1>15 DEF SInv

LEMMA AdoptStep ==
    ASSUME SInv, NEW p \in Preparers, AdoptChildPublication(p)
    PROVE  SInv'
<1>1. /\ op.by = None /\ prep[p].at = "adopt" /\ StoreType /\ Knows(p)
      /\ UNCHANGED <<files, gates, claims>>
  BY DEF AdoptChildPublication, Locked, SInv
<1>2. PICK c \in Children : c = prep[p].child
  BY <1>1 DEF StoreType, Preparing
<1>3. CASE Fail(p)
  BY <1>1, <1>3, FailStep
<1>4. CASE Publishing /\ record.child[c].state = "published" /\ Skip(p, "adopted")
  <2>1. Done(c)
    BY <1>4 DEF Publishing, Agree, Done, Published2
  <2> QED
    BY <1>1, <1>2, <1>4, <2>1, SkipStep DEF Done, Places
<1>5. PICK new : new = [record.child[c] EXCEPT !.state = "published"]
  OBVIOUS
<1>6. CASE /\ Publishing /\ record.child[c].state = "sending"
           /\ Begin(p, <<SetChild(c, new)>>, "adopted")
  <2>1. record.child[c] \in ChildRecord /\ record # None
    BY <1>1, <1>6 DEF Publishing, Agree, StoreType, Record
  <2>2. new \in ChildRecord /\ new.state = "published" /\ new.token = record.child[c].token
    BY <1>5, <2>1 DEF ChildRecord
  <2>3. gates[c] = "plan"
    BY <1>1, <1>2 DEF Knows
  <2>4. PICK d \in Record : /\ SetChild(c, new) = Write("record", d)
                            /\ d.child[c] = new
                            /\ DueChild(<<SetChild(c, new)>>)
    BY <1>6, <2>2, <2>3, RankIs, SetChildDue DEF Published2
  <2>5. <<SetChild(c, new)>> \in Seq(Contents)
    BY <2>4, WriteType
  <2>6. claims' \in Nat
    BY <1>1 DEF StoreType
  <2>7. \E e \in Record : <<SetChild(c, new)>> = <<Write("record", e)>>
                          /\ e.child[prep[p].child].state = "published"
    BY <1>2, <2>2, <2>4
  <2> QED
    BY <1>1, <1>6, <2>1, <2>4, <2>5, <2>6, <2>7, LockedStep DEF Due, Lockable, After
<1> QED
  BY <1>2, <1>3, <1>4, <1>5, <1>6 DEF AdoptChildPublication

LEMMA AdoptedStep ==
    ASSUME SInv, NEW p \in Preparers, Adopted(p)
    PROVE  SInv'
<1>1. prep[p].at = "adopted" /\ Next1(p) /\ UNCHANGED <<files, gates, op, claims>>
      /\ Done(prep[p].child)
  BY DEF Adopted, Reading, SInv, Knows
<1> QED
  BY <1>1, NextStep DEF Lockable

LEMMA ConflictStep ==
    ASSUME SInv, NEW p \in Preparers, TerminalizeChildConflict(p)
    PROVE  SInv'
<1>1. /\ op.by = None /\ prep[p].at = "conflict" /\ StoreType /\ Standing
      /\ UNCHANGED <<files, gates, claims>> /\ Knows(p) /\ record # None
      /\ record \in Record
  BY DEF TerminalizeChildConflict, Locked, SInv, Knows, StoreType
<1>2. PICK c \in Children : c = prep[p].child
  BY <1>1 DEF StoreType, Preparing
<1>3. PICK d : d = [record EXCEPT !.state = "conflict", !.child[c].state = "conflict"]
  OBVIOUS
<1>4. CASE Fail(p)
  BY <1>1, <1>4, FailStep
<1>5. CASE Skip(p, "idle")
  BY <1>1, <1>5, SkipStep DEF Places
<1>6. CASE RecordAhead("conflict") /\ Begin(p, <<Write("pointer", "conflict")>>, "idle")
  <2>1. DuePointer(<<Write("pointer", "conflict")>>)
    BY <1>1, <1>6, AheadIs DEF DuePointer, PointsAt, States, RecordAhead
  <2>2. <<Write("pointer", "conflict")>> \in Seq(Contents)
    BY WriteType DEF States
  <2> QED
    BY <1>1, <1>6, <2>1, <2>2, LockedStep DEF Due, Lockable, After, StoreType
<1>7. CASE /\ Publishing
           /\ Begin(p, <<Write("record", d), Write("pointer", "conflict")>>, "idle")
  <2>1. record.child \in [Children -> ChildRecord] /\ record.child[c] \in ChildRecord
    BY <1>1 DEF Record
  <2>2. PICK new : new = [record.child[c] EXCEPT !.state = "conflict"]
    OBVIOUS
  <2>3. new \in ChildRecord /\ new.state = "conflict" /\ new.token = record.child[c].token
    BY <2>1, <2>2 DEF ChildRecord
  <2>4. d = [state |-> "conflict", child |-> [record.child EXCEPT ![c] = new]]
    BY <1>1, <1>3, <2>2 DEF Record
  <2>5. /\ d.state = "conflict" /\ d.child[c] = new /\ d.child \in [Children -> ChildRecord]
        /\ \A b \in Children : b # c => d.child[b] = record.child[b]
    BY <2>1, <2>3, <2>4
  <2>6. d \in Record
    BY <2>4, <2>5 DEF Record, States
  <2>7. Sound(d)
    BY <1>1, <2>3, <2>5, <2>6 DEF Sound, Standing, Published2
  <2>8. gates[c] = "foreign" /\ record.child[c].state \notin Published2
    BY <1>1, <1>2 DEF Knows, Standing, Sound
  <2>9. Forward(record, d)
    <3>1. \A b \in Children : Rank(record.child[b].state) >= Rank(record.child[b].state)
      BY DEF Rank
    <3>2. Rank(new.state) >= Rank(record.child[c].state)
      BY <2>1, <2>3, RankIs DEF ChildRecord
    <3> QED
      BY <2>3, <2>5, <2>8, <3>1, <3>2 DEF Forward
  <2>10. Follows(d)
    BY <1>1, <1>7, <2>5, <2>7, <2>9 DEF Follows, Publishing, Agree
  <2>11. DueState(<<Write("record", d), Write("pointer", "conflict")>>)
    BY <1>7, <2>5, <2>6, <2>10, AheadIs DEF DueState, Complete, Publishing
  <2>12. <<Write("record", d), Write("pointer", "conflict")>> \in Seq(Contents)
    BY <2>6, WriteType DEF States
  <2> QED
    BY <1>1, <1>7, <2>11, <2>12, LockedStep DEF Due, Lockable, After, StoreType
<1> QED
  BY <1>2, <1>3, <1>4, <1>5, <1>6, <1>7 DEF TerminalizeChildConflict

\* Writes in a row.
LEMMA WritesType ==
    ASSUME NEW a \in Contents, NEW b \in Contents, NEW c \in Contents
    PROVE  <<a, b>> \in Seq(Contents) /\ <<a, b, c>> \in Seq(Contents)
OBVIOUS

LEMMA ActivateStep ==
    ASSUME SInv, NEW p \in Preparers, Activate(p)
    PROVE  SInv'
<1>1. /\ op.by = None /\ prep[p].at = "activate" /\ StoreType /\ Standing
      /\ UNCHANGED <<files, gates, claims>> /\ record # None /\ record \in Record
  BY DEF Activate, Locked, SInv, Knows, StoreType
<1>2. CASE Fail(p)
  BY <1>1, <1>2, FailStep
<1>3. CASE Skip(p, "idle")
  BY <1>1, <1>3, SkipStep DEF Places
<1>4. CASE /\ RecordAhead("active")
           /\ Begin(p, <<Write("manifest", TRUE), Write("pointer", "active")>>, "idle")
  <2>1. DueManifest(<<Write("manifest", TRUE), Write("pointer", "active")>>)
    BY <1>1, <1>4, AheadIs DEF DueManifest, PointsAt, RecordAhead
  <2>2. <<Write("manifest", TRUE), Write("pointer", "active")>> \in Seq(Contents)
    <3>1. Write("manifest", TRUE) \in Contents /\ Write("pointer", "active") \in Contents
      BY WriteType DEF States
    <3> QED
      BY <3>1, WritesType
  <2> QED
    BY <1>1, <1>4, <2>1, <2>2, LockedStep DEF Due, Lockable, After, StoreType
<1>5. CASE Publishing /\ BothPublished /\ Begin(p, ActivationWrites, "idle")
  <2>1. record.child \in [Children -> ChildRecord]
    BY <1>1 DEF Record
  <2>2. PICK d : d = Adopt(record)
    OBVIOUS
  <2>3. /\ d.state = "active"
        /\ d.child = [c \in Children |-> [record.child[c] EXCEPT !.state = "adopted"]]
        /\ d = [state |-> "active", child |-> d.child]
    BY <2>2 DEF Adopt
  <2>4. \A c \in Children : /\ d.child[c] \in ChildRecord /\ d.child[c].state = "adopted"
                            /\ d.child[c].token = record.child[c].token
    BY <2>1, <2>3 DEF ChildRecord
  <2>5. d \in Record
    <3>1. d.child \in [Children -> ChildRecord]
      BY <2>3, <2>4
    <3> QED
      BY <2>3, <3>1 DEF Record, States
  <2>6. Sound(d)
    BY <1>1, <1>5, <2>4, <2>5 DEF Sound, Standing, BothPublished, Published2
  <2>7. Forward(record, d)
    <3>1. \A c \in Children : Rank(d.child[c].state) >= Rank(record.child[c].state)
      BY <1>5, <2>4, RankIs DEF BothPublished
    <3> QED
      BY <2>4, <3>1 DEF Forward, Published2
  <2>8. Follows(d)
    BY <1>1, <1>5, <2>3, <2>6, <2>7 DEF Follows, Publishing, Agree
  <2>9. ActivationWrites = <<Write("manifest", TRUE), Write("record", d), Write("pointer", "active")>>
    BY <2>2 DEF ActivationWrites
  <2>10. DueActive(ActivationWrites)
    BY <1>5, <2>3, <2>5, <2>8, <2>9, AheadIs DEF DueActive, Publishing
  <2>11. ActivationWrites \in Seq(Contents)
    <3>1. Write("manifest", TRUE) \in Contents /\ Write("record", d) \in Contents
          /\ Write("pointer", "active") \in Contents
      BY <2>5, WriteType DEF States
    <3> QED
      BY <2>9, <3>1, WritesType
  <2> QED
    BY <1>1, <1>5, <2>10, <2>11, LockedStep DEF Due, Lockable, After, StoreType
<1> QED
  BY <1>2, <1>3, <1>4, <1>5 DEF Activate

LEMMA KillStep ==
    ASSUME SInv, NEW p \in Preparers, Kill(p)
    PROVE  SInv'
<1>1. (op' = op /\ op.by # p) \/ op' = Free
  BY DEF Kill
<1> QED
  BY <1>1, StopStep DEF Kill

\* A step that is not the store's.
LEMMA StillStep ==
    ASSUME SInv, UNCHANGED <<files, gates, prep, op, claims>>
    PROVE  SInv'
<1>1. StoreType /\ Standing /\ Staged /\ Operation
  BY DEF SInv
<1>2. GatesKept /\ \A c \in Children : Done(c) => Done(c)'
  BY DEF GatesKept, Done, files
<1>3. StoreType'
  BY <1>1 DEF StoreType, files
<1>4. Standing' /\ Staged'
  BY <1>1, <1>2, StandingKept, StagedKept DEF Standing
<1>5. \A q \in Preparers : Knows(q)'
  BY <1>1, <1>2, KnowsKept DEF SInv
<1>6. Operation'
  <2>1. \A todo : Due(todo) => Due(todo)'
    BY <1>2, DueKept DEF files
  <2> QED
    BY <1>1, <2>1 DEF Operation, Done, files
<1> QED
  BY <1>3, <1>4, <1>5, <1>6 DEF SInv

----------------------------------------------------------------------------
(* The invariant of the store holds *)

LEMMA StoreStarts == Init => SInv
<1> SUFFICES ASSUME Init PROVE SInv
  OBVIOUS
<1>1. StoreInit
  BY DEF Init
<1>2. Idle \in Preparing /\ Free \in Operating
  BY DEF Idle, Preparing, Free, Operating, Places, Children
<1>3. StoreType
  BY <1>1, <1>2 DEF StoreInit, StoreType
<1>4. Standing /\ Staged
  BY <1>1 DEF StoreInit, Standing, Staged, Children
<1>5. Operation
  BY <1>1 DEF StoreInit, Operation, Free
<1>6. \A p \in Preparers : Knows(p)
  BY <1>1 DEF StoreInit, Knows, Idle
<1> QED
  BY <1>3, <1>4, <1>5, <1>6 DEF SInv

\* A step of the publish and of the outsiders leaves the store as it is.
LEMMA FlowStill ==
    ASSUME Next
    PROVE  StoreNext \/ UNCHANGED <<files, gates, prep, op, claims>>
<1>1. ASSUME PublishNext PROVE UNCHANGED <<files, gates, prep, op, claims>>
  BY <1>1 DEF PublishNext, Publish, TagChild, CreateTag, MarkTag, WriteMarker, ReleaseChild,
     ReadIntent, Recover, FindDrafts, RecordDraft, ReadBack, Resolve, ReadAgain, ResolveAgain,
     Compare, ResolveTag, Discard, Forget, PublishDraft, DropDraft, DropIntent, MarkRelease,
     KillPublish, Store, storeVars
<1>2. ASSUME MoveTag \/ \E i \in DOMAIN releases : EditDraft(i)
      PROVE  UNCHANGED <<files, gates, prep, op, claims>>
  BY <1>2 DEF MoveTag, EditDraft, Store, storeVars
<1>3. ASSUME \E c \in Children : Answer(c) PROVE UNCHANGED <<files, gates, prep, op, claims>>
  BY <1>3 DEF Answer, Store, storeVars
<1> QED
  BY <1>1, <1>2, <1>3 DEF Next

LEMMA StoreSteps == SInv /\ [Next]_vars => SInv'
<1> SUFFICES ASSUME SInv, [Next]_vars PROVE SInv'
  OBVIOUS
<1>1. CASE UNCHANGED vars
  BY <1>1, StillStep DEF vars, storeVars
<1>2. CASE StoreNext
  <2>1. ASSUME NEW p \in Preparers, Prepare(p) PROVE SInv'
    BY <2>1, StartStep, CreateStep, ReconcileStep, StartPublishingStep, ChildStep,
       ClaimChildSendStep, ChildGateStep, AdoptStep, AdoptedStep, ConflictStep,
       ActivateStep, KillStep DEF Prepare
  <2> QED
    BY <1>2, <2>1, StageStep, RenameStep, WriteActiveStep, UnlockStep DEF StoreNext
<1>3. CASE UNCHANGED <<files, gates, prep, op, claims>>
  BY <1>3, StillStep
<1> QED
  BY <1>1, <1>2, <1>3, FlowStill

\* What every state of the store satisfies: the inductive invariant.
THEOREM StoreInvariant == Spec => []SInv
BY StoreStarts, StoreSteps, PTL DEF Spec

\* A record leads its pointer, in every state and whatever was killed.
THEOREM RecordLeadsPointer == Spec => []RecordLeads
<1>1. SInv => RecordLeads
  BY DEF SInv, Standing, RecordLeads
<1> QED
  BY <1>1, StoreInvariant, PTL

\* An active release has its manifest and both gates.
THEOREM ActiveReleaseComplete == Spec => []ActiveIsComplete
<1>1. SInv => ActiveIsComplete
  <2> SUFFICES ASSUME SInv PROVE ActiveIsComplete
    OBVIOUS
  <2>1. StoreType /\ Standing
    BY DEF SInv
  <2>2. ASSUME pointer = "active" PROVE manifest /\ \A c \in Children : gates[c] = "plan"
    <3>1. record # None /\ record.state = "active"
      BY <2>1, <2>2, AheadIs, NotNone DEF Standing, States
    <3> QED
      BY <2>1, <3>1 DEF Standing, Complete, Sound, Published2
  <2> QED
    BY <2>1, <2>2 DEF ActiveIsComplete, Standing, Done, Published2
<1> QED
  BY <1>1, StoreInvariant, PTL

----------------------------------------------------------------------------
(* Nothing is taken back *)

NoStepBack ==
    /\ record # None =>
            \A c \in Children :
                /\ Rank(record'.child[c].state) >= Rank(record.child[c].state)
                /\ record.child[c].token \in {0, record'.child[c].token}
    /\ pointer \in {"active", "conflict"} => UNCHANGED <<pointer, record>>

\* A step that leaves the record and the pointer alone takes nothing back.
LEMMA SameRecord ==
    ASSUME UNCHANGED <<record, pointer>>
    PROVE  NoStepBack
<1>1. \A s : Rank(s) >= Rank(s)
  BY DEF Rank
<1> QED
  BY <1>1 DEF NoStepBack

LEMMA RenameForward ==
    ASSUME SInv, Rename
    PROVE  NoStepBack
<1>1. /\ StoreType /\ Standing /\ Staged /\ op.by # None /\ op.todo # <<>>
      /\ temp = Head(op.todo)
  BY DEF SInv, Rename
<1>2. temp # None
  BY <1>1, RestType, NotNone
<1>3. ASSUME NEW d \in Record, temp = Write("record", d), Follows(d)
      PROVE  NoStepBack
  <2>1. record' = d /\ pointer' = pointer
    BY <1>3, WriteFields DEF Rename
  <2>2. pointer \notin {"active", "conflict"}
    BY <1>3, ReleaseStoreAssumption DEF Follows, States
  <2>3. CASE record \in {None, NewRecord} /\ d = NewRecord
    <3>1. \A s : Rank(s) >= Rank(s)
      BY DEF Rank
    <3> QED
      BY <2>1, <2>2, <2>3, <3>1 DEF NoStepBack
  <2>4. CASE Forward(record, d)
    BY <2>1, <2>2, <2>4 DEF NoStepBack, Forward
  <2> QED
    BY <1>3, <2>3, <2>4 DEF Follows
<1>4. ASSUME NEW s \in States, temp = Write("pointer", s), PointsAt(s)
      PROVE  NoStepBack
  <2>1. pointer' = s /\ record' = record
    BY <1>4, WriteFields DEF Rename
  <2>2. pointer \notin {"active", "conflict"}
    BY <1>4, AheadIs DEF PointsAt
  <2>3. \A v : Rank(v) >= Rank(v)
    BY DEF Rank
  <2> QED
    BY <2>1, <2>2, <2>3 DEF NoStepBack
<1> QED
  BY <1>1, <1>2, <1>3, <1>4 DEF Staged

LEMMA StepForward ==
    ASSUME SInv, [Next]_vars
    PROVE  NoStepBack
<1>1. ASSUME UNCHANGED files PROVE NoStepBack
  BY <1>1, SameRecord DEF files
<1>2. CASE StoreNext
  <2>1. ASSUME NEW p \in Preparers, Prepare(p) PROVE UNCHANGED files
    BY <2>1 DEF Prepare, Start, Create, Reconcile, StartPublishing, Child, ClaimChildSend,
       ChildGate, AdoptChildPublication, Adopted, TerminalizeChildConflict, Activate, Kill,
       Reading
  <2>2. ASSUME Stage \/ WriteActive \/ Unlock PROVE UNCHANGED <<record, pointer>>
    BY <2>2 DEF Stage, WriteActive, Unlock, files
  <2> QED
    BY <1>1, <1>2, <2>1, <2>2, SameRecord, RenameForward DEF StoreNext
<1>3. CASE UNCHANGED <<files, gates, prep, op, claims>>
  BY <1>1, <1>3
<1>4. CASE UNCHANGED vars
  BY <1>1, <1>4 DEF vars, storeVars
<1> QED
  BY <1>2, <1>3, <1>4, FlowStill

\* No prepare takes back what another wrote, and an end state is final.
THEOREM PreparesGoForward == Spec => NothingTakenBack
<1>1. SInv /\ [Next]_vars => [NoStepBack]_storeVars
  BY StepForward
<1> QED
  BY <1>1, StoreInvariant, PTL DEF Spec, NothingTakenBack, NoStepBack

----------------------------------------------------------------------------
(* Types *)

Stands == {"draft", "public", "deleted"}
Release == [st : Stands, nonce : Nat \cup {None}, edited : {"no", "body", "target"}]

\* The places at which the run holds the draft it recorded, and all those
\* of the release child.
Holding == {"read_back", "resolve", "read_again", "resolve_again", "publish", "discard",
            "forget"}
Ending == {"drop_draft", "drop_intent", "mark_release"}
Intending == {"recover", "find", "record"} \cup Holding \cup {"drop_draft", "drop_intent"}
Releasing == {"intent", "mark_release"} \cup Intending
FlowPlaces == {"idle", "tag", "create_tag", "mark_tag", "release"} \cup Releasing
Publishes == [at : FlowPlaces, id : Nat, late : SUBSET {"tag", "draft"}]

FlowType ==
    /\ accepted \in SUBSET Children /\ tag \in {"none", "approved", "other"}
    /\ releases \in Seq(Release) /\ markers \in SUBSET Children
    /\ intent \in Nat \cup {None, Torn} /\ draft \in Nat \cup {None, Torn}
    /\ pub \in Publishes

----------------------------------------------------------------------------
(* The invariant of the publish *)

\* The markers and the answers.
SomePublic == \E i \in DOMAIN releases : Public(i)
Marks ==
    /\ 1 \in markers => 1 \in accepted /\ tag # "none"
    /\ 2 \in markers => 1 \in markers /\ SomePublic
    /\ pub.at \in {"create_tag", "mark_tag"} => 1 \in accepted
    /\ pub.at = "mark_tag" => tag # "none"
    /\ pub.at \in Releasing \cup {"release"} => 1 \in markers
    /\ pub.at \in Releasing => 2 \in accepted
    /\ pub.at \in Ending => SomePublic

\* The drafts of the intent, of which a recorded one is the only one.
Own(i) == Live(i) /\ releases[i].nonce = intent
Sole(d) == \A i \in DOMAIN releases : Own(i) => i = d

Recorded ==
    /\ \A i \in DOMAIN releases : releases[i].nonce = None => Edited(i)
    /\ NoOrphanDraft
    /\ draft \in Nat => intent \in Nat /\ draft \in DOMAIN releases /\ Sole(draft)

\* What the files are at each place of the run.
Here ==
    /\ pub.at \in Intending => intent \in Nat
    /\ pub.at \in {"find", "record", "drop_intent"} => draft = None
    /\ pub.at = "record" => pub.id \in DOMAIN releases /\ Sole(pub.id)
    /\ pub.at \in Holding => draft = pub.id /\ draft \in Nat
    /\ pub.at \in {"forget", "drop_draft"} => \A i \in DOMAIN releases : i = draft => ~Live(i)
    /\ pub.at \in {"drop_draft", "drop_intent"} => \A i \in DOMAIN releases : ~Own(i)

\* What changed after the last reads is known.
Fresh ==
    /\ pub.at \in {"resolve_again", "publish"} /\ Edited(pub.id) => "draft" \in pub.late
    /\ pub.at = "publish" /\ tag # "approved" => "tag" \in pub.late

FInv == FlowType /\ Marks /\ Recorded /\ Here /\ Fresh

----------------------------------------------------------------------------
(* Facts about the run and the releases *)

LEMMA RunIs ==
    ASSUME FlowType, NEW place \in FlowPlaces, Run(place)
    PROVE  pub' \in Publishes /\ pub'.at = place /\ pub'.id = pub.id /\ pub'.late = pub.late
BY DEF FlowType, Publishes, Run

LEMMA RefusedIs ==
    ASSUME Refused
    PROVE  pub' \in Publishes /\ pub'.at = "idle" /\ pub'.id = 0 /\ pub'.late = {}
BY DEF Refused, NoRun, Publishes, FlowPlaces

LEMMA ReleaseIs ==
    ASSUME FlowType
    PROVE  /\ DOMAIN releases = 1..Len(releases) /\ Len(releases) \in Nat
           /\ \A i \in DOMAIN releases : i \in Nat /\ releases[i] \in Release
BY DEF FlowType

\* The releases after a step that makes none.
Shrinks ==
    /\ releases' \in Seq(Release) /\ DOMAIN releases' = DOMAIN releases
    /\ \A i \in DOMAIN releases :
           /\ Public(i) => Public(i)'
           /\ Live(i)' => Live(i)
           /\ releases'[i].nonce \in {None, releases[i].nonce}
           /\ Edited(i) => Edited(i)'
           /\ releases'[i].nonce # releases[i].nonce => Edited(i)'

LEMMA SetIs ==
    ASSUME FlowType, NEW i \in DOMAIN releases, NEW st \in Stands \ {"draft"},
           SetRelease(i, st), Live(i)
    PROVE  /\ Shrinks /\ releases'[i].st = st
           /\ \A j \in DOMAIN releases : /\ j # i => releases'[j] = releases[j]
                                         /\ releases'[j].edited = releases[j].edited
                                         /\ releases'[j].nonce = releases[j].nonce
<1>1. releases \in [DOMAIN releases -> Release] /\ releases[i] \in Release
  BY ReleaseIs DEF FlowType
<1>2. PICK r : r = [releases[i] EXCEPT !.st = st]
  OBVIOUS
<1>3. /\ r \in Release /\ r.st = st /\ r.nonce = releases[i].nonce
      /\ r.edited = releases[i].edited
  BY <1>1, <1>2 DEF Release
<1>4. releases' = [releases EXCEPT ![i] = r]
  BY <1>2 DEF SetRelease
<1>5. /\ DOMAIN releases' = DOMAIN releases /\ releases'[i] = r
      /\ \A j \in DOMAIN releases : j # i => releases'[j] = releases[j]
  BY <1>1, <1>4
<1>6. releases' \in Seq(Release)
  BY <1>3, <1>4 DEF FlowType
<1> QED
  BY <1>3, <1>5, <1>6 DEF Shrinks, Live, Public, Edited

\* The records stay true of releases that shrink.
LEMMA RecordedShrinks ==
    ASSUME FlowType, Recorded, Shrinks, UNCHANGED <<intent, draft>>
    PROVE  /\ Recorded'
           /\ intent \in Nat => \A i \in DOMAIN releases' : Own(i)' => Own(i)
           /\ SomePublic => SomePublic'
<1>1. intent \in Nat => \A i \in DOMAIN releases' : Own(i)' => Own(i)
  BY ReleaseFlowAssumption DEF Shrinks, Own
<1>2. \A i \in DOMAIN releases' : releases'[i].nonce = None => Edited(i)'
  BY DEF Recorded, Shrinks
<1>3. NoOrphanDraft'
  BY DEF Recorded, Shrinks, NoOrphanDraft
<1>4. draft' \in Nat => intent' \in Nat /\ draft' \in DOMAIN releases' /\ Sole(draft)'
  BY <1>1 DEF Recorded, Shrinks, Sole
<1> QED
  BY <1>1, <1>2, <1>3, <1>4 DEF Recorded, Shrinks, SomePublic

\* A step that leaves the releases, the tag and the files alone.
LEMMA PlaceStep ==
    ASSUME FInv, UNCHANGED <<releases, tag, accepted, local>>, pub' \in Publishes,
           Marks', Here', Fresh'
    PROVE  FInv'
<1>1. Recorded'
  BY DEF FInv, Recorded, NoOrphanDraft, Sole, Own, Live, Edited, local
<1> QED
  BY <1>1 DEF FInv, FlowType, local

\* A run that ends without a change.
LEMMA RefusedStep ==
    ASSUME FInv, UNCHANGED <<forge, local>>, Refused
    PROVE  FInv'
<1>1. pub' \in Publishes /\ pub'.at = "idle"
  BY RefusedIs
<1>2. Marks'
  BY <1>1 DEF FInv, Marks, SomePublic, Public, forge, local, Releasing, Intending, Holding, Ending
<1>3. Here' /\ Fresh'
  BY <1>1 DEF Here, Fresh, Intending, Holding
<1> QED
  BY <1>1, <1>2, <1>3, PlaceStep DEF forge

----------------------------------------------------------------------------
(* Outsiders *)

LEMMA AnswerStep ==
    ASSUME FInv, NEW c \in Children, Answer(c)
    PROVE  FInv'
<1>1. accepted' = accepted \cup {c} /\ UNCHANGED <<tag, releases, local, pub>>
  BY DEF Answer
<1>2. FlowType' /\ Marks'
  BY <1>1 DEF FInv, FlowType, Marks, SomePublic, Public, local
<1>3. Recorded' /\ Here' /\ Fresh'
  BY <1>1 DEF FInv, Recorded, NoOrphanDraft, Here, Fresh, Sole, Own, Live, Edited, local
<1> QED
  BY <1>2, <1>3 DEF FInv

\* What an outsider does while the request is on its way is known.
LEMMA UnseenIs ==
    ASSUME FlowType, NEW what \in {"tag", "draft"}, NEW places, Unseen(places, what)
    PROVE  /\ pub' \in Publishes /\ pub'.at = pub.at /\ pub'.id = pub.id
           /\ pub.late \subseteq pub'.late /\ (pub.at \in places => what \in pub'.late)
BY DEF FlowType, Publishes, Unseen

LEMMA MoveTagStep ==
    ASSUME FInv, MoveTag
    PROVE  FInv'
<1>1. /\ tag' \in {"approved", "other"} /\ UNCHANGED <<accepted, releases, local>>
      /\ pub' \in Publishes /\ pub'.at = pub.at /\ pub'.id = pub.id
      /\ pub.late \subseteq pub'.late /\ (pub.at = "publish" => "tag" \in pub'.late)
  BY UnseenIs DEF MoveTag, FInv
<1>2. FlowType' /\ Marks'
  BY <1>1 DEF FInv, FlowType, Marks, SomePublic, Public, local
<1>3. Recorded' /\ Here' /\ Fresh'
  BY <1>1 DEF FInv, Recorded, NoOrphanDraft, Here, Fresh, Sole, Own, Live, Edited, local
<1> QED
  BY <1>2, <1>3 DEF FInv

\* A place that stays while the releases shrink.
LEMMA ShrinkStep ==
    ASSUME FInv, Shrinks, UNCHANGED <<accepted, tag, local>>, pub' \in Publishes,
           pub'.at = pub.at, pub'.id = pub.id, Fresh'
    PROVE  FInv'
<1>1. FlowType /\ Marks /\ Recorded /\ Here
  BY DEF FInv
<1>2. /\ Recorded'
      /\ SomePublic => SomePublic'
      /\ intent \in Nat => \A i \in DOMAIN releases' : Own(i)' => Own(i)
  BY <1>1, RecordedShrinks DEF local
<1>3. FlowType' /\ Marks'
  BY <1>1, <1>2 DEF FlowType, Marks, Shrinks, local
<1>4. Here'
  BY <1>1, <1>2 DEF Here, Sole, Shrinks, local, Intending, Holding
<1> QED
  BY <1>2, <1>3, <1>4 DEF FInv

LEMMA EditDraftStep ==
    ASSUME FInv, NEW i \in DOMAIN releases, EditDraft(i)
    PROVE  FInv'
<1>1. /\ Live(i) /\ UNCHANGED <<accepted, tag, local>>
      /\ pub' \in Publishes /\ pub'.at = pub.at /\ pub'.id = pub.id
      /\ pub.late \subseteq pub'.late
      /\ (pub.at \in {"resolve_again", "publish"} => "draft" \in pub'.late)
  BY UnseenIs DEF EditDraft, FInv
<1>2. ASSUME SetRelease(i, "deleted") PROVE Shrinks
  BY <1>1, <1>2, SetIs DEF FInv, Stands
<1>3. ASSUME NEW nonce \in {None, releases[i].nonce}, NEW part \in {"body", "target"},
             releases' = [releases EXCEPT ![i].nonce = nonce, ![i].edited = part]
      PROVE  Shrinks
  <2>1. releases \in [DOMAIN releases -> Release] /\ releases[i] \in Release
    BY ReleaseIs DEF FInv, FlowType
  <2>2. PICK r : r = [releases[i] EXCEPT !.nonce = nonce, !.edited = part]
    OBVIOUS
  <2>3. r \in Release /\ r.st = releases[i].st /\ r.nonce = nonce /\ r.edited = part
    BY <2>1, <2>2 DEF Release
  <2>4. releases' = [releases EXCEPT ![i] = r]
    BY <1>3, <2>1, <2>2
  <2>5. /\ DOMAIN releases' = DOMAIN releases /\ releases'[i] = r
        /\ \A j \in DOMAIN releases : j # i => releases'[j] = releases[j]
    BY <2>1, <2>4
  <2>6. releases' \in Seq(Release)
    BY <2>3, <2>4 DEF FInv, FlowType
  <2> QED
    BY <2>3, <2>5, <2>6 DEF Shrinks, Live, Public, Edited
<1>4. Shrinks
  BY <1>2, <1>3 DEF EditDraft
<1>5. Fresh'
  BY <1>1 DEF FInv, Fresh
<1> QED
  BY <1>1, <1>4, <1>5, ShrinkStep

----------------------------------------------------------------------------
(* The tag *)

LEMMA PublishStep ==
    ASSUME FInv, Publish
    PROVE  FInv'
<1>1. PICK at \in {"release", "tag"} :
          /\ pub' = [NoRun EXCEPT !.at = at] /\ (at = "release" => 1 \in markers)
          /\ UNCHANGED <<forge, local>>
  BY DEF Publish
<1>2. pub' \in Publishes /\ pub'.at = at
  BY <1>1 DEF NoRun, Publishes, FlowPlaces
<1>3. Marks'
  BY <1>1, <1>2 DEF FInv, Marks, SomePublic, Public, forge, local, Releasing, Intending, Holding,
     Ending
<1>4. Here' /\ Fresh'
  BY <1>2 DEF Here, Fresh, Intending, Holding
<1> QED
  BY <1>1, <1>2, <1>3, <1>4, PlaceStep DEF forge

\* The run goes from a place of the tag to the next.
LEMMA TagPlace ==
    ASSUME FInv, UNCHANGED <<accepted, releases, local>>, 1 \in accepted,
           tag' = tag \/ tag' = "approved",
           Run("create_tag") \/ (Run("mark_tag") /\ tag' # "none")
    PROVE  FInv'
<1>1. pub' \in Publishes /\ pub'.at \in {"create_tag", "mark_tag"}
      /\ (pub'.at = "mark_tag" => tag' # "none")
  BY RunIs DEF FInv, FlowPlaces
<1>2. Marks'
  BY <1>1 DEF FInv, Marks, SomePublic, Public, local, Releasing, Intending, Holding, Ending
<1>3. Here' /\ Fresh'
  BY <1>1 DEF Here, Fresh, Intending, Holding
<1>4. Recorded'
  BY DEF FInv, Recorded, NoOrphanDraft, Sole, Own, Live, Edited, local
<1> QED
  BY <1>1, <1>2, <1>3, <1>4 DEF FInv, FlowType, local

LEMMA TagChildStep ==
    ASSUME FInv, TagChild
    PROVE  FInv'
<1>1. UNCHANGED <<forge, local>>
  BY DEF TagChild
<1>2. CASE 1 \in accepted /\ tag # "other"
  <2>1. UNCHANGED <<accepted, releases, local>> /\ tag' = tag
    BY <1>1 DEF forge
  <2>2. Run("create_tag") \/ (Run("mark_tag") /\ tag' # "none")
    BY <1>2, <2>1 DEF TagChild
  <2> QED
    BY <1>2, <2>1, <2>2, TagPlace
<1>3. CASE ~(1 \in accepted /\ tag # "other")
  BY <1>1, <1>3, RefusedStep DEF TagChild
<1> QED
  BY <1>2, <1>3

LEMMA CreateTagStep ==
    ASSUME FInv, CreateTag
    PROVE  FInv'
<1>1. pub.at = "create_tag" /\ UNCHANGED <<accepted, releases, touches, local>> /\ 1 \in accepted
  BY DEF CreateTag, At, FInv, Marks
<1>2. CASE tag = "none"
  BY <1>1, <1>2, TagPlace DEF CreateTag
<1>3. CASE tag # "none"
  BY <1>1, <1>3, RefusedStep DEF CreateTag, forge
<1> QED
  BY <1>2, <1>3

LEMMA MarkTagStep ==
    ASSUME FInv, MarkTag
    PROVE  FInv'
<1>1. /\ pub.at = "mark_tag" /\ markers' = markers \cup {1} /\ UNCHANGED <<forge, intent, draft>>
      /\ pub' = [pub EXCEPT !.at = "release"]
  BY DEF MarkTag, At, WriteMarker
<1>2. pub' \in Publishes /\ pub'.at = "release"
  BY <1>1, RunIs DEF Run, FInv, FlowPlaces
<1>3. FlowType'
  BY <1>1, <1>2 DEF FInv, FlowType, forge, Children
<1>4. Marks'
  BY <1>1, <1>2 DEF FInv, Marks, SomePublic, Public, forge, Releasing, Intending, Holding, Ending
<1>5. Recorded'
  BY <1>1 DEF FInv, Recorded, NoOrphanDraft, Sole, Own, Live, Edited, forge
<1>6. Here' /\ Fresh'
  BY <1>2 DEF Here, Fresh, Intending, Holding
<1> QED
  BY <1>3, <1>4, <1>5, <1>6 DEF FInv

----------------------------------------------------------------------------
(* The release *)

LEMMA ReleaseChildStep ==
    ASSUME FInv, ReleaseChild
    PROVE  FInv'
<1>1. pub.at = "release" /\ UNCHANGED <<forge, local>>
  BY DEF ReleaseChild, At
<1>2. CASE Refused
  BY <1>1, <1>2, RefusedStep
<1>3. CASE MayRelease /\ Run("intent")
  <2>1. pub' \in Publishes /\ pub'.at = "intent"
    BY <1>3, RunIs DEF FInv, FlowPlaces, Releasing
  <2>2. Marks'
    BY <1>1, <1>3, <2>1 DEF FInv, Marks, SomePublic, Public, forge, local, MayRelease,
       Releasing, Intending, Holding, Ending
  <2>3. Here' /\ Fresh'
    BY <2>1 DEF Here, Fresh, Intending, Holding
  <2> QED
    BY <1>1, <2>1, <2>2, <2>3, PlaceStep DEF forge
<1> QED
  BY <1>2, <1>3 DEF ReleaseChild

\* The run goes from a place of the release to the next.
LEMMA Releases ==
    ASSUME FInv, pub.at \in Releasing, UNCHANGED <<accepted, tag, markers>>,
           SomePublic => SomePublic', pub'.at \notin {"create_tag", "mark_tag"},
           pub'.at \in Ending => SomePublic'
    PROVE  Marks'
BY DEF FInv, Marks

\* Without an intent no draft is anybody's.
LEMMA NoneOwned ==
    ASSUME FInv, intent \notin Nat
    PROVE  /\ draft \notin Nat
           /\ intent = None => \A i \in DOMAIN releases : ~(Live(i) /\ ~Edited(i))
BY ReleaseIs DEF FInv, Recorded, NoOrphanDraft

LEMMA ReadIntentStep ==
    ASSUME FInv, ReadIntent
    PROVE  FInv'
<1>1. pub.at = "intent" /\ UNCHANGED <<forge, markers, draft>>
  BY DEF ReadIntent, At
<1>2. CASE Refused /\ UNCHANGED intent
  BY <1>1, <1>2, RefusedStep DEF local
<1>3. CASE intent = None /\ intent' = Torn /\ Refused
  <2>1. pub' \in Publishes /\ pub'.at = "idle"
    BY <1>3, RefusedIs
  <2>2. draft \notin Nat /\ \A i \in DOMAIN releases : ~(Live(i) /\ ~Edited(i))
    BY <1>3, NoneOwned, ReleaseFlowAssumption
  <2>3. Recorded'
    BY <1>1, <2>2 DEF FInv, Recorded, NoOrphanDraft, Live, Edited, forge
  <2>4. Here' /\ Fresh'
    BY <2>1 DEF Here, Fresh, Intending, Holding
  <2>5. Marks'
    BY <1>1, <2>1, Releases DEF Releasing, SomePublic, Public, forge, Ending
  <2>6. FlowType'
    BY <1>1, <1>3, <2>1 DEF FInv, FlowType, forge
  <2> QED
    BY <2>3, <2>4, <2>5, <2>6 DEF FInv
<1>4. CASE intent # Torn /\ intent' = Intent /\ Run("recover")
  <2>1. pub' \in Publishes /\ pub'.at = "recover"
    BY <1>4, RunIs DEF FInv, FlowPlaces, Releasing, Intending
  <2>2. intent' \in Nat /\ (intent \in Nat => intent' = intent)
    BY <1>4, ReleaseFlowAssumption, ReleaseIs DEF Intent, FreshNonce, FInv, FlowType
  <2>3. CASE intent \in Nat
    BY <1>1, <2>1, <2>2, <2>3, PlaceStep, Releases
       DEF forge, local, Releasing, SomePublic, Public, Ending, Here, Fresh, Holding
  <2>4. CASE intent = None
    <3>1. draft \notin Nat /\ \A i \in DOMAIN releases : ~(Live(i) /\ ~Edited(i))
      BY <2>4, NoneOwned, ReleaseFlowAssumption
    <3>2. Recorded'
      BY <1>1, <3>1 DEF FInv, Recorded, NoOrphanDraft, Live, Edited, forge
    <3>3. Here' /\ Fresh'
      BY <2>1, <2>2 DEF Here, Fresh, Intending, Holding
    <3>4. Marks'
      BY <1>1, <2>1, Releases DEF Releasing, SomePublic, Public, forge, Ending
    <3>5. FlowType'
      BY <1>1, <2>1, <2>2 DEF FInv, FlowType, forge
    <3> QED
      BY <3>2, <3>3, <3>4, <3>5 DEF FInv
  <2> QED
    BY <1>4, <2>3, <2>4 DEF FInv, FlowType
<1> QED
  BY <1>2, <1>3, <1>4 DEF ReadIntent

\* The records stay true when nothing they are about changes, or a record
\* of no live draft goes.
LEMMA RecordedKept ==
    ASSUME FInv, UNCHANGED <<releases, intent>>,
           \/ draft' = draft
           \/ draft' = None /\ \A i \in DOMAIN releases : i = draft => ~Live(i)
    PROVE  Recorded'
<1>1. CASE draft' = draft
  BY <1>1 DEF FInv, Recorded, NoOrphanDraft, Sole, Own, Live, Edited
<1>2. CASE draft' = None /\ \A i \in DOMAIN releases : i = draft => ~Live(i)
  BY <1>2, ReleaseFlowAssumption DEF FInv, Recorded, NoOrphanDraft, Live, Edited
<1> QED
  BY <1>1, <1>2

LEMMA RecoverStep ==
    ASSUME FInv, Recover
    PROVE  FInv'
<1>1. /\ pub.at = "recover" /\ UNCHANGED <<forge, markers, intent>> /\ intent \in Nat
      /\ UNCHANGED <<accepted, tag, releases>>
  BY DEF Recover, At, FInv, Here, Intending, forge
<1>2. SomePublic => SomePublic'
  BY <1>1 DEF SomePublic, Public
<1>3. CASE Refused /\ UNCHANGED draft
  BY <1>1, <1>3, RefusedStep DEF local
<1>4. CASE /\ draft' = None /\ Run("find")
           /\ draft = None \/ (draft \in Nat /\ ~Live(draft))
  <2>1. pub' \in Publishes /\ pub'.at = "find"
    BY <1>4, RunIs DEF FInv, FlowPlaces, Releasing, Intending
  <2>2. Recorded'
    BY <1>1, <1>4, RecordedKept
  <2>3. Marks'
    BY <1>1, <1>2, <2>1, Releases DEF Releasing, Intending, Ending
  <2>4. Here' /\ Fresh'
    BY <1>1, <1>4, <2>1 DEF Here, Fresh, Holding
  <2> QED
    BY <1>1, <1>4, <2>1, <2>2, <2>3, <2>4 DEF FInv, FlowType
<1>5. CASE draft \in Nat /\ Published(draft) /\ UNCHANGED draft /\ Run("drop_draft")
  <2>1. pub' \in Publishes /\ pub'.at = "drop_draft"
    BY <1>5, RunIs DEF FInv, FlowPlaces, Releasing, Intending
  <2>2. draft \in DOMAIN releases /\ Sole(draft) /\ Public(draft)
    BY <1>5 DEF FInv, Recorded, Published
  <2>3. Marks'
    BY <1>1, <1>2, <2>1, <2>2, Releases DEF Releasing, Intending, SomePublic
  <2>4. ~Live(draft)
    BY <2>2 DEF Live, Public
  <2>5. Here' /\ Fresh'
    BY <1>1, <1>5, <2>1, <2>2, <2>4 DEF Here, Fresh, Holding, Sole, Own, Live
  <2> QED
    BY <1>1, <1>5, <2>1, <2>3, <2>5, PlaceStep DEF local
<1>6. CASE /\ draft \in Nat /\ UNCHANGED draft
           /\ pub' = [pub EXCEPT !.id = draft,
                                 !.at = IF Completable(draft) THEN "resolve" ELSE "discard"]
  <2>1. pub' \in Publishes /\ pub'.at \in {"resolve", "discard"} /\ pub'.id = draft
    BY <1>6 DEF FInv, FlowType, Publishes, FlowPlaces, Releasing, Intending, Holding
  <2>2. Marks'
    BY <1>1, <1>2, <2>1, Releases DEF Releasing, Intending, Ending
  <2>3. Here' /\ Fresh'
    BY <1>1, <1>6, <2>1 DEF Here, Fresh
  <2> QED
    BY <1>1, <1>6, <2>1, <2>2, <2>3, PlaceStep DEF local
<1> QED
  BY <1>3, <1>4, <1>5, <1>6 DEF Recover, FInv, FlowType

\* Drafts of the intent are deleted, and all else stays.
LEMMA WithoutIs ==
    ASSUME FInv, NEW drafts \in SUBSET Found
    PROVE  /\ Without(drafts) \in Seq(Release) /\ DOMAIN Without(drafts) = DOMAIN releases
           /\ Len(Without(drafts)) = Len(releases)
           /\ \A j \in DOMAIN releases :
                  /\ Without(drafts)[j].nonce = releases[j].nonce
                  /\ Without(drafts)[j].edited = releases[j].edited
                  /\ Without(drafts)[j].st = "draft" =>
                         releases[j].st = "draft" /\ j \notin drafts
                  /\ Public(j) => Without(drafts)[j].st = "public"
                  /\ Without(drafts)[j].st \in {releases[j].st, "deleted"}
<1>1. /\ releases \in [DOMAIN releases -> Release] /\ DOMAIN releases = 1..Len(releases)
      /\ Len(releases) \in Nat
  BY ReleaseIs DEF FInv, FlowType
<1>2. \A j \in DOMAIN releases :
          LET r == [releases[j] EXCEPT !.st = "deleted"]
          IN  /\ r \in Release /\ r.st = "deleted" /\ r.nonce = releases[j].nonce
              /\ r.edited = releases[j].edited
  BY <1>1 DEF Release, Stands
<1>3. /\ DOMAIN Without(drafts) = DOMAIN releases
      /\ \A j \in DOMAIN releases :
             /\ Without(drafts)[j] \in Release
             /\ Without(drafts)[j].nonce = releases[j].nonce
             /\ Without(drafts)[j].edited = releases[j].edited
             /\ j \in drafts => Without(drafts)[j].st = "deleted"
             /\ j \notin drafts => Without(drafts)[j].st = releases[j].st
  BY <1>1, <1>2 DEF Without
<1>4. Without(drafts) \in Seq(Release) /\ Len(Without(drafts)) = Len(releases)
  BY <1>1, <1>3 DEF Without
<1>5. \A j \in drafts : ~Public(j)
  BY DEF Found, Live, Public
<1> QED
  BY <1>3, <1>4, <1>5 DEF Public

LEMMA FindDraftsStep ==
    ASSUME FInv, FindDrafts
    PROVE  FInv'
<1>1. /\ pub.at = "find" /\ UNCHANGED <<accepted, tag, local>> /\ intent \in Nat /\ draft = None
      /\ pub \in Publishes
  BY DEF FindDrafts, At, FInv, FlowType, Here, Intending
<1>2. ASSUME NEW i \in Adoptable,
             releases' = Without(Found \ {i}),
             pub' = [pub EXCEPT !.at = "record", !.id = i]
      PROVE  FInv'
  <2>1. Found \ {i} \in SUBSET Found
    OBVIOUS
  <2>2. i \in DOMAIN releases /\ i \in Nat
    BY ReleaseIs DEF Adoptable, Found, FInv
  <2>3. pub' \in Publishes /\ pub'.at = "record" /\ pub'.id = i
    BY <1>1, <1>2, <2>2 DEF Publishes, FlowPlaces, Releasing, Intending
  <2>4. Shrinks
    BY <1>2, <2>1, WithoutIs DEF Shrinks, Live, Public, Edited
  <2>5. \A j \in DOMAIN releases : j # i => ~(Live(j)' /\ releases'[j].nonce = intent)
    BY <1>2, <2>1, WithoutIs DEF Found, Live
  <2>6. /\ Recorded'
        /\ SomePublic => SomePublic'
    BY <1>1, <2>4, RecordedShrinks DEF FInv, local
  <2>7. Marks'
    BY <1>1, <2>3, <2>6, Releases DEF Releasing, Intending, Ending, local
  <2>8. Sole(i)'
    BY <1>1, <2>4, <2>5 DEF Sole, Own, Shrinks, local
  <2>9. Here' /\ Fresh'
    BY <1>1, <2>2, <2>3, <2>4, <2>8 DEF Here, Fresh, Holding, Shrinks, Sole, Own, local
  <2> QED
    BY <1>1, <2>3, <2>4, <2>6, <2>7, <2>9 DEF FInv, FlowType, Shrinks, local
<1>3. ASSUME releases' = Append(Without(Found), NewDraft),
             pub' = [pub EXCEPT !.at = "record", !.id = Len(releases')]
      PROVE  FInv'
  <2>1. PICK r : r = NewDraft
    OBVIOUS
  <2>2. r \in Release /\ r.st = "draft" /\ r.nonce = intent /\ r.edited = "no"
    BY <1>1, <2>1 DEF NewDraft, Release, Stands
  <2>3. PICK n \in Nat : n = Len(releases) + 1
    BY ReleaseIs DEF FInv
  <2>4. PICK rest : rest = Without(Found)
    OBVIOUS
  <2>5. /\ rest \in Seq(Release) /\ DOMAIN rest = DOMAIN releases /\ Len(rest) = Len(releases)
        /\ \A j \in DOMAIN releases :
               /\ rest[j].nonce = releases[j].nonce
               /\ rest[j].edited = releases[j].edited
               /\ rest[j].st = "draft" => releases[j].st = "draft" /\ j \notin Found
               /\ Public(j) => rest[j].st = "public"
    BY <2>4, WithoutIs
  <2>6. /\ releases' \in Seq(Release) /\ Len(releases') = n /\ DOMAIN releases' = 1..n
        /\ n \in DOMAIN releases' /\ releases'[n] = r
        /\ \A j \in DOMAIN releases' : j # n => j \in DOMAIN releases /\ releases'[j] = rest[j]
        /\ \A j \in DOMAIN releases : j \in DOMAIN releases' /\ releases'[j] = rest[j]
    BY <1>3, <2>1, <2>2, <2>3, <2>4, <2>5, ReleaseIs DEF FInv, FlowType
  <2>7. pub' \in Publishes /\ pub'.at = "record" /\ pub'.id = n
    BY <1>1, <1>3, <2>6 DEF Publishes, FlowPlaces, Releasing, Intending
  <2>8. Recorded'
    BY <1>1, <2>2, <2>5, <2>6, ReleaseFlowAssumption
       DEF FInv, Recorded, NoOrphanDraft, Live, Edited, local
  <2>9. SomePublic => SomePublic'
    BY <2>5, <2>6 DEF SomePublic, Public
  <2>10. Marks'
    BY <1>1, <2>7, <2>9, Releases DEF Releasing, Intending, Ending, local
  <2>11. Sole(n)'
    BY <1>1, <2>5, <2>6 DEF Sole, Own, Found, Live, local
  <2>12. Here' /\ Fresh'
    BY <1>1, <2>6, <2>7, <2>11 DEF Here, Fresh, Holding, Sole, Own, local
  <2> QED
    BY <1>1, <2>6, <2>7, <2>8, <2>10, <2>12 DEF FInv, FlowType, local
<1> QED
  BY <1>2, <1>3 DEF FindDrafts

LEMMA RecordDraftStep ==
    ASSUME FInv, RecordDraft
    PROVE  FInv'
<1>1. /\ pub.at = "record" /\ UNCHANGED <<accepted, tag, releases, markers, intent>>
      /\ intent \in Nat /\ draft = None /\ pub.id \in DOMAIN releases /\ Sole(pub.id)
      /\ pub.id \in Nat
  BY DEF RecordDraft, At, FInv, FlowType, Publishes, Here, Intending, forge
<1>2. SomePublic => SomePublic'
  BY <1>1 DEF SomePublic, Public
<1>3. CASE draft' = pub.id /\ Run("read_back")
  <2>1. pub' \in Publishes /\ pub'.at = "read_back" /\ pub'.id = pub.id
    BY <1>3, RunIs DEF FInv, FlowPlaces, Releasing, Intending, Holding
  <2>2. Sole(draft)'
    BY <1>1, <1>3 DEF Sole, Own, Live
  <2>3. NoOrphanDraft'
    BY <1>1, <1>3, ReleaseIs, ReleaseFlowAssumption DEF FInv, Recorded, NoOrphanDraft, Live, Edited
  <2>4. Recorded'
    BY <1>1, <1>3, <2>2, <2>3 DEF FInv, Recorded, Edited
  <2>5. Marks'
    BY <1>1, <1>2, <2>1, Releases DEF Releasing, Intending, Ending
  <2>6. Here' /\ Fresh'
    BY <1>1, <1>3, <2>1 DEF Here, Fresh
  <2> QED
    BY <1>1, <1>3, <2>1, <2>4, <2>5, <2>6 DEF FInv, FlowType
<1>4. CASE draft' = Torn /\ Refused
  <2>1. pub' \in Publishes /\ pub'.at = "idle"
    BY <1>4, RefusedIs
  <2>2. NoOrphanDraft'
    BY <1>1, <1>4, ReleaseIs, ReleaseFlowAssumption DEF FInv, Recorded, NoOrphanDraft, Live, Edited
  <2>3. Recorded'
    BY <1>1, <1>4, <2>2, ReleaseFlowAssumption DEF FInv, Recorded, Edited
  <2>4. Marks'
    BY <1>1, <1>2, <2>1, Releases DEF Releasing, Intending, Ending
  <2>5. Here' /\ Fresh'
    BY <2>1 DEF Here, Fresh, Intending, Holding
  <2> QED
    BY <1>1, <1>4, <2>1, <2>3, <2>4, <2>5 DEF FInv, FlowType
<1> QED
  BY <1>3, <1>4 DEF RecordDraft

\* The run holds its draft and goes on to the next check, or to discard it.
LEMMA HoldStep ==
    ASSUME FInv, pub.at \in Holding, NEW at \in Holding \ {"forget"}, Run(at),
           UNCHANGED <<forge, local>>,
           at \in {"resolve_again", "publish"} => pub.at \in Holding /\
               (Edited(pub.id) => "draft" \in pub.late),
           at = "publish" => tag = "approved"
    PROVE  FInv'
<1>1. /\ pub' \in Publishes /\ pub'.at = at /\ pub'.id = pub.id /\ pub'.late = pub.late
  BY RunIs DEF FInv, FlowPlaces, Releasing, Intending
<1>2. UNCHANGED <<accepted, tag, releases, markers, intent, draft>>
  BY DEF forge, local
<1>3. Marks'
  BY <1>1, <1>2, Releases DEF Releasing, Intending, Holding, Ending, SomePublic, Public
<1>4. Here'
  BY <1>1, <1>2 DEF FInv, Here, Holding, Intending
<1>5. Fresh'
  BY <1>1, <1>2 DEF Fresh, Edited
<1> QED
  BY <1>1, <1>2, <1>3, <1>4, <1>5, PlaceStep

LEMMA ReadBackStep ==
    ASSUME FInv, ReadBack
    PROVE  FInv'
<1>1. PICK at \in {"resolve", "discard"} : Run(at)
  BY DEF ReadBack, Compare
<1>2. pub.at = "read_back" /\ UNCHANGED <<forge, local>>
  BY DEF ReadBack, Compare, At
<1> QED
  BY <1>1, <1>2, HoldStep DEF Holding

LEMMA ResolveStep ==
    ASSUME FInv, Resolve
    PROVE  FInv'
<1>1. PICK at \in {"read_again", "discard"} : Run(at)
  BY DEF Resolve, ResolveTag
<1>2. pub.at = "resolve" /\ UNCHANGED <<forge, local>>
  BY DEF Resolve, ResolveTag, At
<1> QED
  BY <1>1, <1>2, HoldStep DEF Holding

LEMMA ReadAgainStep ==
    ASSUME FInv, ReadAgain
    PROVE  FInv'
<1>1. PICK at \in {"resolve_again", "discard"} :
          Run(at) /\ (at = "resolve_again" => ~Edited(pub.id))
  BY DEF ReadAgain, Compare, Completable
<1>2. pub.at = "read_again" /\ UNCHANGED <<forge, local>>
  BY DEF ReadAgain, Compare, At
<1> QED
  BY <1>1, <1>2, HoldStep DEF Holding

LEMMA ResolveAgainStep ==
    ASSUME FInv, ResolveAgain
    PROVE  FInv'
<1>1. PICK at \in {"publish", "discard"} : Run(at) /\ (at = "publish" => tag = "approved")
  BY DEF ResolveAgain, ResolveTag
<1>2. pub.at = "resolve_again" /\ UNCHANGED <<forge, local>>
      /\ (Edited(pub.id) => "draft" \in pub.late)
  BY DEF ResolveAgain, ResolveTag, At, FInv, Fresh
<1> QED
  BY <1>1, <1>2, HoldStep DEF Holding

LEMMA DiscardStep ==
    ASSUME FInv, Discard
    PROVE  FInv'
<1>1. /\ pub.at = "discard" /\ UNCHANGED <<accepted, tag, touches, local>>
      /\ draft = pub.id /\ draft \in Nat /\ intent \in Nat /\ draft \in DOMAIN releases
  BY DEF Discard, At, FInv, Here, Recorded, Holding, Intending
<1>2. CASE ~Live(pub.id)
  BY <1>1, <1>2, RefusedStep DEF Discard, forge
<1>3. CASE Live(pub.id)
  <2>1. SetRelease(pub.id, "deleted") /\ Run("forget")
    BY <1>3 DEF Discard
  <2>2. Shrinks /\ releases'[pub.id].st = "deleted"
    BY <1>1, <1>3, <2>1, SetIs DEF FInv, Stands
  <2>3. pub' \in Publishes /\ pub'.at = "forget" /\ pub'.id = pub.id
    BY <2>1, RunIs DEF FInv, FlowPlaces, Releasing, Intending, Holding
  <2>4. /\ Recorded'
        /\ SomePublic => SomePublic'
    BY <1>1, <2>2, RecordedShrinks DEF FInv, local
  <2>5. Marks'
    BY <1>1, <2>3, <2>4, Releases DEF Releasing, Intending, Holding, Ending, local
  <2>6. Here' /\ Fresh'
    BY <1>1, <2>2, <2>3 DEF Here, Fresh, Live, local
  <2> QED
    BY <1>1, <2>2, <2>3, <2>4, <2>5, <2>6 DEF FInv, FlowType, Shrinks, local
<1> QED
  BY <1>2, <1>3

LEMMA ForgetStep ==
    ASSUME FInv, Forget
    PROVE  FInv'
<1>1. /\ pub.at = "forget" /\ UNCHANGED <<accepted, tag, releases, markers, intent>>
      /\ draft' = None /\ Refused /\ \A i \in DOMAIN releases : i = draft => ~Live(i)
  BY DEF Forget, At, FInv, Here, forge
<1>2. pub' \in Publishes /\ pub'.at = "idle"
  BY <1>1, RefusedIs
<1>3. Recorded'
  BY <1>1, RecordedKept
<1>4. Marks'
  BY <1>1, <1>2, Releases DEF Releasing, Intending, Holding, Ending, SomePublic, Public
<1>5. Here' /\ Fresh'
  BY <1>2 DEF Here, Fresh, Intending, Holding
<1> QED
  BY <1>1, <1>2, <1>3, <1>4, <1>5 DEF FInv, FlowType

LEMMA PublishDraftStep ==
    ASSUME FInv, PublishDraft
    PROVE  FInv'
<1>1. /\ pub.at = "publish" /\ UNCHANGED <<accepted, tag, touches, local>>
      /\ draft = pub.id /\ draft \in Nat /\ intent \in Nat /\ draft \in DOMAIN releases
      /\ Sole(draft)
  BY DEF PublishDraft, At, FInv, Here, Recorded, Holding, Intending
<1>2. CASE ~Live(pub.id)
  BY <1>1, <1>2, RefusedStep DEF PublishDraft, forge
<1>3. CASE Live(pub.id)
  <2>1. SetRelease(pub.id, "public") /\ Run("drop_draft")
    BY <1>3 DEF PublishDraft
  <2>2. Shrinks /\ releases'[pub.id].st = "public"
    BY <1>1, <1>3, <2>1, SetIs DEF FInv, Stands
  <2>3. pub' \in Publishes /\ pub'.at = "drop_draft" /\ pub'.id = pub.id
    BY <2>1, RunIs DEF FInv, FlowPlaces, Releasing, Intending
  <2>4. /\ Recorded'
        /\ \A i \in DOMAIN releases' : Own(i)' => Own(i)
    BY <1>1, <2>2, RecordedShrinks DEF FInv, local
  <2>5. SomePublic'
    BY <1>1, <2>2 DEF SomePublic, Public, Shrinks
  <2>6. Marks'
    BY <1>1, <2>3, <2>5, Releases DEF Releasing, Intending, Holding, local
  <2>7. \A i \in DOMAIN releases' : ~Own(i)'
    BY <1>1, <2>2, <2>4 DEF Sole, Own, Live, Shrinks
  <2>8. Here' /\ Fresh'
    BY <1>1, <2>2, <2>3, <2>7 DEF Here, Fresh, Live, Holding, local
  <2> QED
    BY <1>1, <2>2, <2>3, <2>4, <2>6, <2>8 DEF FInv, FlowType, Shrinks, local
<1> QED
  BY <1>2, <1>3

LEMMA DropDraftStep ==
    ASSUME FInv, DropDraft
    PROVE  FInv'
<1>1. /\ pub.at = "drop_draft" /\ UNCHANGED <<accepted, tag, releases, markers, intent>>
      /\ draft' = None /\ Run("drop_intent") /\ intent \in Nat
      /\ \A i \in DOMAIN releases : (i = draft => ~Live(i)) /\ ~Own(i)
  BY DEF DropDraft, At, FInv, Here, Intending, forge
<1>2. pub' \in Publishes /\ pub'.at = "drop_intent"
  BY <1>1, RunIs DEF FInv, FlowPlaces, Releasing, Intending
<1>3. Recorded'
  BY <1>1, RecordedKept
<1>4. Marks'
  BY <1>1, <1>2 DEF FInv, Marks, Releasing, Intending, Ending, SomePublic, Public
<1>5. Here' /\ Fresh'
  BY <1>1, <1>2 DEF Here, Fresh, Holding, Own, Live
<1> QED
  BY <1>1, <1>2, <1>3, <1>4, <1>5 DEF FInv, FlowType

LEMMA DropIntentStep ==
    ASSUME FInv, DropIntent
    PROVE  FInv'
<1>1. /\ pub.at = "drop_intent" /\ UNCHANGED <<accepted, tag, releases, markers, draft>>
      /\ intent' = None /\ Run("mark_release") /\ draft = None
      /\ \A i \in DOMAIN releases : ~Own(i)
  BY DEF DropIntent, At, FInv, Here, forge
<1>2. pub' \in Publishes /\ pub'.at = "mark_release"
  BY <1>1, RunIs DEF FInv, FlowPlaces, Releasing
<1>3. \A i \in DOMAIN releases : ~(Live(i) /\ ~Edited(i))
  BY <1>1, ReleaseIs, ReleaseFlowAssumption DEF FInv, Recorded, NoOrphanDraft, Own
<1>4. Recorded'
  BY <1>1, <1>3, ReleaseFlowAssumption DEF FInv, Recorded, NoOrphanDraft, Live, Edited
<1>5. Marks'
  BY <1>1, <1>2 DEF FInv, Marks, Releasing, Intending, Ending, SomePublic, Public
<1>6. Here' /\ Fresh'
  BY <1>2 DEF Here, Fresh, Intending, Holding
<1> QED
  BY <1>1, <1>2, <1>4, <1>5, <1>6 DEF FInv, FlowType

LEMMA MarkReleaseStep ==
    ASSUME FInv, MarkRelease
    PROVE  FInv'
<1>1. /\ pub.at = "mark_release" /\ UNCHANGED <<accepted, tag, releases, intent, draft>>
      /\ markers' = markers \cup {2} /\ pub' = NoRun
  BY DEF MarkRelease, WriteMarker, At, forge
<1>2. pub' \in Publishes /\ pub'.at = "idle"
  BY <1>1, RefusedIs DEF Refused
<1>3. 1 \in markers /\ SomePublic /\ SomePublic' = SomePublic
  BY <1>1 DEF FInv, Marks, Releasing, Ending, SomePublic, Public
<1>4. Marks'
  BY <1>1, <1>2, <1>3 DEF FInv, Marks, Releasing, Intending, Holding, Ending
<1>5. Recorded'
  BY <1>1, RecordedKept
<1>6. Here' /\ Fresh'
  BY <1>2 DEF Here, Fresh, Intending, Holding
<1> QED
  BY <1>1, <1>2, <1>4, <1>5, <1>6 DEF FInv, FlowType, Children

----------------------------------------------------------------------------
(* The invariant of the publish holds *)

LEMMA FlowStarts == Init => FInv
<1> SUFFICES ASSUME Init PROVE FInv
  OBVIOUS
<1>1. /\ accepted = {} /\ tag = "none" /\ releases = <<>> /\ markers = {}
      /\ intent = None /\ draft = None /\ pub = NoRun
  BY DEF Init
<1>2. pub \in Publishes /\ pub.at = "idle"
  BY <1>1 DEF NoRun, Publishes, FlowPlaces
<1>3. FlowType
  BY <1>1, <1>2 DEF FlowType
<1>4. DOMAIN releases = {}
  BY <1>1
<1>5. Marks
  BY <1>1, <1>2 DEF Marks, Releasing, Intending, Holding, Ending
<1>6. Recorded
  BY <1>1, <1>4, ReleaseFlowAssumption DEF Recorded, NoOrphanDraft
<1>7. Here /\ Fresh
  BY <1>2 DEF Here, Fresh, Intending, Holding
<1> QED
  BY <1>3, <1>5, <1>6, <1>7 DEF FInv

LEMMA FlowSteps == FInv /\ [Next]_vars => FInv'
<1> SUFFICES ASSUME FInv, [Next]_vars PROVE FInv'
  OBVIOUS
<1>1. ASSUME UNCHANGED flowVars PROVE FInv'
  <2>1. UNCHANGED <<accepted, tag, releases, markers, intent, draft, pub>>
    BY <1>1 DEF flowVars, forge, local
  <2>2. FlowType' /\ Marks'
    BY <2>1 DEF FInv, FlowType, Marks, SomePublic, Public
  <2>3. Recorded' /\ Here' /\ Fresh'
    BY <2>1 DEF FInv, Recorded, NoOrphanDraft, Here, Fresh, Sole, Own, Live, Edited
  <2> QED
    BY <2>2, <2>3 DEF FInv
<1>2. ASSUME PublishNext PROVE FInv'
  <2>1. CASE KillPublish
    BY <2>1, RefusedStep DEF KillPublish
  <2> QED
    BY <1>2, <2>1, PublishStep, TagChildStep, CreateTagStep, MarkTagStep, ReleaseChildStep,
       ReadIntentStep, RecoverStep, FindDraftsStep, RecordDraftStep, ReadBackStep, ResolveStep,
       ReadAgainStep, ResolveAgainStep, DiscardStep, ForgetStep, PublishDraftStep,
       DropDraftStep, DropIntentStep, MarkReleaseStep DEF PublishNext
<1>3. UNCHANGED vars => UNCHANGED flowVars
  BY DEF vars
<1> QED
  BY <1>1, <1>2, <1>3, AnswerStep, MoveTagStep, EditDraftStep DEF Next

\* What every state of the publish satisfies: the inductive invariant.
THEOREM FlowInvariant == Spec => []FInv
BY FlowStarts, FlowSteps, PTL DEF Spec

\* The markers, the intent and the record of a draft are true of GitHub.
THEOREM RecordsTrueOfForge == Spec => []RecordsMatchForge
<1>1. FInv => RecordsMatchForge
  BY DEF FInv, Marks, Recorded, RecordsMatchForge, MarkerTrue, SomePublic
<1> QED
  BY <1>1, FlowInvariant, PTL

----------------------------------------------------------------------------
(* What goes public *)

ApprovedStep ==
    \A i \in DOMAIN releases :
        ~Public(i) /\ releases'[i].st = "public" =>
            /\ accepted = Children
            /\ Edited(i) => "draft" \in pub.late
            /\ tag # "approved" => "tag" \in pub.late

LEMMA GoesPublic ==
    ASSUME FInv, [Next]_vars
    PROVE  ApprovedStep
<1>1. ASSUME PublishDraft PROVE ApprovedStep
  <2>1. /\ pub.at = "publish" /\ pub.id \in DOMAIN releases /\ accepted = Children
        /\ Edited(pub.id) => "draft" \in pub.late
        /\ tag # "approved" => "tag" \in pub.late
    <3>1. pub.at = "publish" /\ FlowType /\ Here /\ Recorded /\ Fresh /\ Marks
      BY <1>1 DEF PublishDraft, At, FInv
    <3>2. pub.id \in DOMAIN releases
      BY <3>1 DEF Here, Recorded, Holding
    <3>3. 1 \in accepted /\ 2 \in accepted /\ accepted \subseteq Children
      BY <3>1 DEF FlowType, Marks, Releasing, Intending, Holding
    <3>4. Children = {1, 2}
      BY DEF Children
    <3>5. accepted = Children
      BY <3>3, <3>4
    <3> QED
      BY <3>1, <3>2, <3>5 DEF Fresh
  <2>2. \A j \in DOMAIN releases : j # pub.id => releases'[j].st = releases[j].st
    <3>1. CASE Live(pub.id)
      BY <1>1, <2>1, <3>1, SetIs DEF PublishDraft, FInv, Stands
    <3>2. CASE ~Live(pub.id)
      BY <1>1, <3>2 DEF PublishDraft
    <3> QED
      BY <3>1, <3>2
  <2> QED
    BY <2>1, <2>2 DEF ApprovedStep, Public
<1>2. ASSUME \A j \in DOMAIN releases : releases'[j].st = "public" => Public(j)
      PROVE  ApprovedStep
  BY <1>2 DEF ApprovedStep
<1>3. ASSUME UNCHANGED releases PROVE ApprovedStep
  BY <1>2, <1>3 DEF Public
<1>4. ASSUME NEW i \in DOMAIN releases, EditDraft(i) PROVE ApprovedStep
  <2>1. /\ Live(i)
        /\ \/ SetRelease(i, "deleted")
           \/ \E nonce \in {None, releases[i].nonce}, part \in {"body", "target"} :
                  releases' = [releases EXCEPT ![i].nonce = nonce, ![i].edited = part]
    BY <1>4 DEF EditDraft
  <2>2. releases \in [DOMAIN releases -> Release]
    BY ReleaseIs DEF FInv, FlowType
  <2>3. \A j \in DOMAIN releases : releases'[j].st \in {releases[j].st, "deleted"}
    BY <2>1, <2>2 DEF SetRelease, Release
  <2> QED
    BY <1>2, <2>3 DEF Public
<1>5. ASSUME Discard PROVE ApprovedStep
  <2>1. pub.id \in DOMAIN releases
    BY <1>5 DEF Discard, At, FInv, Here, Recorded, Holding
  <2>2. CASE Live(pub.id)
    <3>1. /\ releases'[pub.id].st = "deleted"
          /\ \A j \in DOMAIN releases : j # pub.id => releases'[j] = releases[j]
      BY <1>5, <2>1, <2>2, SetIs DEF Discard, FInv, Stands
    <3> QED
      BY <1>2, <3>1 DEF Public
  <2>3. CASE ~Live(pub.id)
    BY <1>3, <1>5, <2>3 DEF Discard
  <2> QED
    BY <2>2, <2>3
<1>6. ASSUME FindDrafts PROVE ApprovedStep
  <2>1. ASSUME NEW drafts \in SUBSET Found,
               \A j \in DOMAIN releases : releases'[j] = Without(drafts)[j]
        PROVE  ApprovedStep
    BY <1>2, <2>1, WithoutIs DEF Public
  <2>2. ASSUME NEW i \in Adoptable, releases' = Without(Found \ {i})
        PROVE  ApprovedStep
    BY <2>1, <2>2
  <2>3. ASSUME releases' = Append(Without(Found), NewDraft)
        PROVE  ApprovedStep
    <3>1. \A j \in DOMAIN releases : releases'[j] = Without(Found)[j]
      BY <2>3, WithoutIs, ReleaseIs DEF FInv
    <3> QED
      BY <2>1, <3>1
  <2> QED
    BY <1>6, <2>2, <2>3 DEF FindDrafts
<1>7. ASSUME PublishNext, ~PublishDraft, ~Discard, ~FindDrafts PROVE UNCHANGED releases
  BY <1>7 DEF PublishNext, Publish, TagChild, CreateTag, MarkTag, WriteMarker, ReleaseChild,
     ReadIntent, Recover, RecordDraft, ReadBack, Resolve, ReadAgain, ResolveAgain,
     Compare, ResolveTag, Forget, DropDraft, DropIntent, MarkRelease, KillPublish, forge
<1>8. ASSUME UNCHANGED vars \/ UNCHANGED flowVars PROVE UNCHANGED releases
  BY <1>8 DEF vars, flowVars, forge
<1>9. ASSUME MoveTag \/ \E c \in Children : Answer(c) PROVE UNCHANGED releases
  BY <1>9 DEF MoveTag, Answer
<1> QED
  BY <1>1, <1>3, <1>4, <1>5, <1>6, <1>7, <1>8, <1>9 DEF Next

\* What goes public was approved, or changed while the request was on its way.
THEOREM GoesPublicAsApproved == Spec => PublishedAsApproved
<1>1. FInv /\ [Next]_vars => [ApprovedStep]_vars
  BY GoesPublic
<1> QED
  BY <1>1, FlowInvariant, PTL DEF Spec, PublishedAsApproved, ApprovedStep
================================================================================
