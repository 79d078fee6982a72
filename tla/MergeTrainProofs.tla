-------------------------- MODULE MergeTrainProofs --------------------------
(***************************************************************************)
(* Any number of merge trains at once land only reviewed work and record   *)
(* only merges that happened, for every number of pull requests, heads and *)
(* kills.  What a run knows stays true because heads are only added, works *)
(* stay reviewed, and a pull request is merged once.                       *)
(***************************************************************************)
EXTENDS MergeTrain, TLAPS

----------------------------------------------------------------------------
(* Types *)

Ids == 1 .. Len(heads)
Verdicts == {"ok", "red", "limits"}
Commit == [work : Nat, base : Nat, verdict : Verdicts]
Quiet == {"idle", "rebinds", "merges", "plan", "land"}
Places == Quiet \cup
    {"finish_rebind", "record_again", "journal_again", "rebase", "journal_rebase",
     "prove", "journal_rebind", "rebind", "check", "intent", "merge", "wait",
     "record", "journal_merge"}
Run == [at : Places, pr : Nat, head : [PRs -> Nat], bound : [PRs -> Nat],
        new : Nat, commit : Nat, done : SUBSET PRs]
Pull == [head : Nat, merged : Nat, rebased : SUBSET Nat]
Entry == [kind : {"none", "intent", "merge"}, head : Nat]
Log == [last : [PRs -> Entry], intents : SUBSET Nat, rebased : SUBSET Nat,
        rebinds : SUBSET [old : Nat, new : Nat]]

ForgeType ==
    /\ heads \in Seq(Commit)
    /\ server \in [PRs -> Pull]
    /\ \A p \in PRs : HeadOf(p) \in Ids
    /\ base \in [now : Nat, others : Nat]
    /\ inflight \subseteq [pr : PRs, head : Nat]
StoreType == bound \in [PRs -> Nat] /\ fact \in [PRs -> Nat]
RunType == run \in [Runs -> Run]
TypeOK == ForgeType /\ StoreType /\ journal \in Log /\ RunType

----------------------------------------------------------------------------
(* The inductive invariant *)

\* A head whose work the commit step bound.
Known(h) == h \in Ids /\ Work(h) \in reviewed
\* A head the train may merge.
Cleared(h) == h \in Ids /\ (Work(h) \in reviewed \/ \E g \in lifted : g.head = h)

\* What a run knows at each of its places.
RunOK(r) ==
    /\ ~Here(r, "idle") => P(r) \in PRs /\ \A p \in PRs : Known(run[r].bound[p])
    /\ \A p \in PRs : run[r].head[p] <= HeadOf(p)
    /\ Here(r, "finish_rebind") => Known(run[r].new)
    /\ Here(r, "rebase") => run[r].head[P(r)] <= run[r].bound[P(r)]
                            /\ run[r].bound[P(r)] <= HeadOf(P(r))
    /\ run[r].at \in {"journal_rebase", "prove"} =>
          run[r].new \in Ids /\ Known(run[r].head[P(r)])
    /\ run[r].at \in {"journal_rebind", "rebind"} => Known(run[r].new)
    /\ Here(r, "intent") => Cleared(run[r].head[P(r)])
    /\ run[r].at \in {"merge", "wait"} => run[r].head[P(r)] \in journal.intents
    /\ run[r].at \in {"record_again", "journal_again", "record", "journal_merge"} =>
          run[r].commit # 0 /\ MergedAt(P(r), run[r].commit)

Reviews ==
    /\ \A p \in PRs : Known(bound[p])
    /\ \A e \in journal.rebinds : Known(e.new)
    /\ \A h \in journal.intents : Cleared(h)

\* A journaled merge names a head.
Journaled == \A p \in PRs : journal.last[p].kind = "merge" => journal.last[p].head # 0

IInv ==
    /\ TypeOK
    /\ \A r \in Runs : RunOK(r)
    /\ Reviews
    /\ FactIsTrue
    /\ JournalIsTrue
    /\ Journaled

\* What no step takes back.
Grows ==
    /\ Len(heads') >= Len(heads) /\ \A h \in Ids : heads'[h] = heads[h]
    /\ reviewed \subseteq reviewed' /\ lifted \subseteq lifted'
    /\ journal.intents \subseteq journal'.intents
    /\ \A p \in PRs : /\ server'[p].head >= server[p].head
                      /\ ~Open(p) => server'[p].merged = server[p].merged

LEMMA GrowsKnown ==
    ASSUME TypeOK, Grows, heads' \in Seq(Commit)
    PROVE  /\ \A h : h \in Ids => h \in Ids'
           /\ \A h : Known(h) => Known(h)'
           /\ \A h : Cleared(h) => Cleared(h)'
<1>1. Len(heads) \in Nat /\ Len(heads') \in Nat
  BY DEF TypeOK, ForgeType
<1>2. \A h : h \in Ids => h \in Ids' /\ heads'[h] = heads[h]
  BY <1>1 DEF Grows, Ids
<1> QED
  BY <1>2 DEF Grows, Known, Cleared, Work

LEMMA HeadsGrow ==
    ASSUME TypeOK, TypeOK', Grows, NEW r \in Runs
    PROVE  \A p \in PRs : /\ server[p].head \in Nat /\ server'[p].head \in Nat
                           /\ server'[p].head >= server[p].head
                           /\ run[r].head[p] \in Nat
<1>1. \A p \in PRs : server[p] \in Pull /\ server'[p] \in Pull
  BY DEF TypeOK, ForgeType
<1>2. run[r] \in Run
  BY DEF TypeOK, RunType
<1>3. \A p \in PRs : server[p].head \in Nat /\ server'[p].head \in Nat
  BY <1>1 DEF Pull
<1>4. \A p \in PRs : run[r].head[p] \in Nat
  BY <1>2 DEF Run
<1> QED
  BY <1>3, <1>4 DEF Grows

\* What a run that does not step knows stays true.
LEMMA RunOKKept ==
    ASSUME TypeOK, TypeOK', Grows, NEW r \in Runs, RunOK(r), run'[r] = run[r]
    PROVE  RunOK(r)'
<1>1. heads' \in Seq(Commit)
  BY DEF TypeOK, ForgeType
<1>2. /\ \A h : h \in Ids => h \in Ids'
      /\ \A h : Known(h) => Known(h)'
      /\ \A h : Cleared(h) => Cleared(h)'
  BY <1>1, GrowsKnown
<1>3. run[r] \in Run
  BY DEF TypeOK, RunType
<1>4. \A p \in PRs : run[r].head[p] \in Nat /\ run[r].bound[p] \in Nat
  BY <1>3 DEF Run
<1>5. \A p \in PRs : server[p].head \in Nat /\ server'[p].head \in Nat
      /\ server'[p].head >= server[p].head
  BY DEF TypeOK, ForgeType, Pull, Grows
<1>6. \A p \in PRs, h \in Nat : h # 0 /\ MergedAt(p, h) => MergedAt(p, h)'
  BY DEF Grows, Open, MergedAt
<1>7. run[r].commit \in Nat
  BY <1>3 DEF Run
<1>8. ~Here(r, "idle") => P(r) \in PRs
  BY DEF RunOK
<1>9. \A p \in PRs : run[r].head[p] <= server'[p].head
  BY <1>4, <1>5 DEF RunOK, HeadOf
<1>10. Here(r, "rebase") => run[r].bound[P(r)] <= server'[P(r)].head
  BY <1>4, <1>5, <1>8 DEF RunOK, HeadOf, Here
<1>11. run[r].at \in {"record_again", "journal_again", "record", "journal_merge"} =>
          run[r].commit # 0 /\ server'[P(r)].merged = run[r].commit
  BY <1>6, <1>7, <1>8 DEF RunOK, MergedAt, Here
<1>12. run[r].at \in {"merge", "wait"} => run[r].head[P(r)] \in journal'.intents
  BY DEF RunOK, Grows
<1> QED
  BY <1>2, <1>8, <1>9, <1>10, <1>11, <1>12 DEF RunOK, Here, P, HeadOf, MergedAt

LEMMA ReviewsKept ==
    ASSUME TypeOK, Grows, heads' \in Seq(Commit), Reviews,
           UNCHANGED <<bound, journal>>
    PROVE  Reviews'
BY GrowsKnown DEF Reviews

LEMMA FactKept ==
    ASSUME FactIsTrue, Grows, UNCHANGED store
    PROVE  FactIsTrue'
BY DEF FactIsTrue, Grows, Open, store

LEMMA RequestsKept ==
    ASSUME JournalIsTrue, Journaled, Grows, UNCHANGED journal,
           \A q \in inflight' : q \in inflight \/ q.head \in journal.intents
    PROVE  JournalIsTrue' /\ Journaled'
BY DEF JournalIsTrue, Journaled, Grows, Open, MergedAt

LEMMA JournalKept ==
    ASSUME JournalIsTrue, Journaled, Grows, UNCHANGED <<journal, inflight>>
    PROVE  JournalIsTrue' /\ Journaled'
BY DEF JournalIsTrue, Journaled, Grows, Open, MergedAt

\* The runs after a step: the one that steps, and those that do not.
LEMMA RunsKept ==
    ASSUME IInv, TypeOK', Grows, NEW r \in Runs, NEW n \in Run,
           Set(r, n), RunOK(r)'
    PROVE  \A q \in Runs : RunOK(q)'
<1> SUFFICES ASSUME NEW q \in Runs, q # r PROVE RunOK(q)'
  OBVIOUS
<1>1. run'[q] = run[q]
  BY DEF Set, IInv, TypeOK, RunType
<1>2. RunOK(q) /\ TypeOK
  BY DEF IInv
<1> QED
  BY <1>1, <1>2, RunOKKept

\* A run at a place between two pull requests holds nothing but what it read.
LEMMA QuietOK ==
    ASSUME TypeOK, NEW r \in Runs, NEW n \in Run, Set(r, n),
           n.at \in Quiet,
           n.at # "idle" => n.pr \in PRs /\ \A p \in PRs : Known(n.bound[p])',
           \A p \in PRs : n.head[p] <= server'[p].head
    PROVE  RunOK(r)'
<1>1. run'[r] = n
  BY DEF Set, TypeOK, RunType
<1>2. n.at \notin {"finish_rebind", "record_again", "journal_again", "rebase", "journal_rebase",
     "prove", "journal_rebind", "rebind", "check", "intent", "merge", "wait",
     "record", "journal_merge"}
  BY DEF Quiet
<1> QED
  BY <1>1, <1>2 DEF RunOK, Here, P, HeadOf

LEMMA StartType == Start \in Run
<1>1. 0 \in Nat
  OBVIOUS
<1> QED
  BY <1>1 DEF Start, Run, Places, Quiet

\* The next pull request of a loop.
LEMMA NextType ==
    ASSUME TypeOK, NEW r \in Runs, NEW at \in Quiet \ {"idle"}, NEW then \in Quiet,
           P(r) \in PRs
    PROVE  /\ NextPR(r, at, then) \in Run
           /\ NextPR(r, at, then).at \in Quiet
           /\ \/ NextPR(r, at, then) = Start
              \/ /\ NextPR(r, at, then).pr \in PRs
                 /\ NextPR(r, at, then).bound = run[r].bound
                 /\ NextPR(r, at, then).head = run[r].head
<1>1. run[r] \in Run
  BY DEF TypeOK, RunType
<1>2. NumPRs \in Nat \ {0} /\ PRs = 1 .. NumPRs
  BY MergeTrainAssumption DEF PRs
<1>3. P(r) = run[r].pr /\ run[r].pr \in 1 .. NumPRs
  BY <1>2 DEF P
<1>4. at \in Places /\ then \in Places
  BY DEF Places
<1>5. CASE P(r) < NumPRs
  <2> DEFINE n == [run[r] EXCEPT !.at = at, !.pr = @ + 1]
  <2>1. NextPR(r, at, then) = n
    BY <1>5 DEF NextPR
  <2>2. run[r].pr + 1 \in 1 .. NumPRs /\ run[r].pr + 1 \in Nat
    BY <1>2, <1>3, <1>5
  <2>3. /\ n \in Run /\ n.at = at /\ n.pr = run[r].pr + 1
        /\ n.bound = run[r].bound /\ n.head = run[r].head
    BY <1>1, <1>4, <2>2 DEF Run
  <2> QED
    BY <1>2, <2>1, <2>2, <2>3
<1>6. CASE ~(P(r) < NumPRs) /\ then = "idle"
  <2>1. NextPR(r, at, then) = Start
    BY <1>6 DEF NextPR
  <2> QED
    BY <2>1, StartType DEF Start, Quiet
<1>7. CASE ~(P(r) < NumPRs) /\ then # "idle"
  <2> DEFINE n == [run[r] EXCEPT !.at = then, !.pr = 1]
  <2>1. NextPR(r, at, then) = n
    BY <1>7 DEF NextPR
  <2>2. 1 \in 1 .. NumPRs /\ 1 \in Nat
    BY <1>2
  <2>3. /\ n \in Run /\ n.at = then /\ n.pr = 1
        /\ n.bound = run[r].bound /\ n.head = run[r].head
    BY <1>1, <1>4, <2>2 DEF Run
  <2> QED
    BY <1>2, <2>1, <2>2, <2>3
<1> QED
  BY <1>5, <1>6, <1>7

\* A run that goes to the next pull request, or ends.
LEMMA NextOK ==
    ASSUME TypeOK, TypeOK', Grows, NEW r \in Runs, RunOK(r), ~Here(r, "idle"),
           NEW at \in Quiet \ {"idle"}, NEW then \in Quiet, NEW n \in Run,
           n.at = NextPR(r, at, then).at, n.pr = NextPR(r, at, then).pr,
           \A p \in PRs : Known(n.bound[p])' \/ n.bound[p] = NextPR(r, at, then).bound[p],
           \A p \in PRs : n.head[p] <= server'[p].head
                          \/ n.head[p] = NextPR(r, at, then).head[p],
           Set(r, n)
    PROVE  RunOK(r)'
<1>1. P(r) \in PRs /\ \A p \in PRs : Known(run[r].bound[p])
  BY DEF RunOK
<1>2. /\ NextPR(r, at, then).at \in Quiet
      /\ \/ NextPR(r, at, then) = Start
         \/ /\ NextPR(r, at, then).pr \in PRs
            /\ NextPR(r, at, then).bound = run[r].bound
            /\ NextPR(r, at, then).head = run[r].head
  BY <1>1, NextType
<1>3. \A h : Known(h) => Known(h)'
  BY GrowsKnown DEF TypeOK, ForgeType
<1>4. \A p \in PRs : server[p].head \in Nat /\ server'[p].head \in Nat
      /\ server'[p].head >= server[p].head /\ run[r].head[p] \in Nat
  BY HeadsGrow
<1>5. \A p \in PRs : run[r].head[p] <= server'[p].head
  BY <1>4 DEF RunOK, HeadOf
<1>6. \A p \in PRs : 0 <= server'[p].head
  BY <1>4
<1>7. \A p \in PRs : n.head[p] <= server'[p].head
  BY <1>2, <1>5, <1>6 DEF Start
<1>8. n.at # "idle" => n.pr \in PRs /\ \A p \in PRs : Known(n.bound[p])'
  <2>1. CASE NextPR(r, at, then) = Start
    BY <2>1 DEF Start
  <2>2. CASE /\ NextPR(r, at, then).pr \in PRs
             /\ NextPR(r, at, then).bound = run[r].bound
    BY <1>1, <1>3, <2>2
  <2> QED
    BY <1>2, <2>1, <2>2
<1> QED
  BY <1>2, <1>7, <1>8, QuietOK

LEMMA StopOK ==
    ASSUME TypeOK, TypeOK', NEW r \in Runs, Stop(r)
    PROVE  RunOK(r)'
<1>1. \A p \in PRs : server'[p].head \in Nat
  BY DEF TypeOK, ForgeType, Pull
<1>2. /\ Start.at = "idle" /\ \A p \in PRs : Start.head[p] = 0
  BY DEF Start
<1>3. \A p \in PRs : Start.head[p] <= server'[p].head
  BY <1>1, <1>2
<1> QED
  BY <1>2, <1>3, StartType, QuietOK DEF Stop, Quiet

----------------------------------------------------------------------------
(* The steps of a run that reads *)

LEMMA Frame ==
    ASSUME TypeOK, UNCHANGED <<heads, server>>,
           reviewed \subseteq reviewed', lifted \subseteq lifted',
           journal.intents \subseteq journal'.intents
    PROVE  Grows
<1>1. Len(heads) \in Nat /\ \A p \in PRs : server[p].head \in Nat
  BY DEF TypeOK, ForgeType, Pull
<1> QED
  BY <1>1 DEF Grows

\* A step of a run that changes nothing else.
LEMMA ReadStep ==
    ASSUME IInv, NEW r \in Runs, NEW n \in Run, Set(r, n),
           UNCHANGED <<forge, store, journal, lifted, reviewed>>,
           TypeOK' /\ Grows => RunOK(r)'
    PROVE  IInv'
<1>1. TypeOK'
  BY DEF IInv, TypeOK, ForgeType, StoreType, RunType, Set, forge, store, HeadOf, Ids
<1>2. Grows
  BY Frame DEF IInv, forge
<1>3. \A q \in Runs : RunOK(q)'
  BY <1>1, <1>2, RunsKept
<1>4. Reviews'
  BY <1>1, <1>2, ReviewsKept DEF IInv, TypeOK, ForgeType, store
<1>5. FactIsTrue' /\ JournalIsTrue' /\ Journaled'
  BY <1>2, FactKept, JournalKept DEF IInv, forge
<1> QED
  BY <1>1, <1>3, <1>4, <1>5 DEF IInv

\* A run that reads and goes to the next pull request.
LEMMA NextStep ==
    ASSUME IInv, NEW r \in Runs, ~Here(r, "idle"),
           NEW at \in Quiet \ {"idle"}, NEW then \in Quiet,
           Set(r, NextPR(r, at, then)),
           UNCHANGED <<forge, store, journal, lifted, reviewed>>
    PROVE  IInv'
<1>1. TypeOK /\ RunOK(r)
  BY DEF IInv
<1>2. P(r) \in PRs
  BY <1>1 DEF RunOK
<1>3. NextPR(r, at, then) \in Run
  BY <1>1, <1>2, NextType
<1>4. TypeOK' /\ Grows => RunOK(r)'
  BY <1>1, <1>3, NextOK
<1> QED
  BY <1>3, <1>4, ReadStep

LEMMA StopStep ==
    ASSUME IInv, NEW r \in Runs, Stop(r),
           UNCHANGED <<forge, store, journal, lifted, reviewed>>
    PROVE  IInv'
BY StartType, StopOK, ReadStep DEF Stop, IInv

LEMMA BindTasksStep ==
    ASSUME IInv, NEW r \in Runs, BindTasks(r)
    PROVE  IInv'
<1>1. bound \in [PRs -> Nat] /\ 1 \in Nat /\ Start \in Run /\ "rebinds" \in Places
  BY StartType DEF IInv, TypeOK, StoreType, Places, Quiet
<1>2. [Start EXCEPT !.at = "rebinds", !.pr = 1, !.bound = bound] \in Run
  BY <1>1 DEF Run
<1>3. PICK n \in Run : n = [Start EXCEPT !.at = "rebinds", !.pr = 1, !.bound = bound]
  BY <1>2
<1>4. Set(r, n) /\ UNCHANGED <<forge, store, journal, lifted, reviewed>>
  BY <1>3 DEF BindTasks
<1>5. n.at = "rebinds" /\ n.pr = 1 /\ n.bound = bound /\ n.head = Start.head
  BY <1>1, <1>3 DEF Run
<1>6. \A p \in PRs : n.head[p] = 0
  BY <1>5 DEF Start
<1>7. \A p \in PRs : Known(n.bound[p])
  BY <1>5 DEF IInv, Reviews
<1>8. ASSUME TypeOK', Grows PROVE RunOK(r)'
  <2>1. \A p \in PRs : Known(n.bound[p])'
    BY <1>7, <1>8, GrowsKnown DEF IInv, TypeOK, ForgeType
  <2>2. \A p \in PRs : server'[p].head \in Nat
    BY <1>8 DEF TypeOK, ForgeType, Pull
  <2>3. \A p \in PRs : n.head[p] <= server'[p].head
    BY <1>6, <2>2
  <2>4. n.at \in Quiet /\ n.pr \in PRs
    BY <1>5, MergeTrainAssumption DEF Quiet, PRs
  <2> QED
    BY <1>4, <2>1, <2>3, <2>4, QuietOK DEF IInv
<1> QED
  BY <1>4, <1>8, ReadStep

LEMMA ReconcileRebindsStep ==
    ASSUME IInv, NEW r \in Runs, ReconcileRebinds(r)
    PROVE  IInv'
<1>1. /\ Here(r, "rebinds") /\ ~Here(r, "idle")
      /\ UNCHANGED <<forge, store, journal, lifted, reviewed>>
  BY DEF ReconcileRebinds, Here
<1>2. CASE Pending(r) = {}
  <2>1. Set(r, NextPR(r, "rebinds", "merges"))
    BY <1>2 DEF ReconcileRebinds
  <2> QED
    BY <1>1, <2>1, NextStep DEF Quiet
<1>3. CASE Pending(r) # {}
  <2>1. PICK e \in Pending(r) : Set(r, [run[r] EXCEPT !.at = "finish_rebind", !.new = e.new])
    BY <1>3 DEF ReconcileRebinds
  <2> DEFINE n == [run[r] EXCEPT !.at = "finish_rebind", !.new = e.new]
  <2>2. e \in journal.rebinds /\ Known(e.new)
    BY DEF Pending, IInv, Reviews
  <2>3. run[r] \in Run /\ "finish_rebind" \in Places /\ e.new \in Nat
    BY <2>2 DEF IInv, TypeOK, RunType, Places, Log
  <2>4. n \in Run
    BY <2>3 DEF Run
  <2>5. n.at = "finish_rebind" /\ n.new = e.new /\ n.pr = run[r].pr
        /\ n.bound = run[r].bound /\ n.head = run[r].head
    BY <2>3 DEF Run
  <2> HIDE DEF n
  <2>6. ASSUME TypeOK', Grows PROVE RunOK(r)'
    <3>1. run'[r] = n
      BY <2>1 DEF Set, n, IInv, TypeOK, RunType
    <3>2. RunOK(r) /\ UNCHANGED server
      BY <1>1 DEF IInv, forge
    <3>3. \A h : Known(h) => Known(h)'
      BY <2>6, GrowsKnown DEF IInv, TypeOK, ForgeType
    <3>4. Known(e.new)'
      BY <2>2, <3>3
    <3> QED
      BY <1>1, <2>5, <3>1, <3>2, <3>3, <3>4 DEF RunOK, Here, P, HeadOf
  <2>7. Set(r, n)
    BY <2>1 DEF n
  <2> QED
    BY <1>1, <2>4, <2>6, <2>7, ReadStep
<1> QED
  BY <1>2, <1>3

\* A run that goes on with its pull request: what its new place asks of it.
LEMMA OnwardOK ==
    ASSUME TypeOK, TypeOK', Grows, NEW r \in Runs, RunOK(r), ~Here(r, "idle"),
           NEW n \in Run, Set(r, n), n.pr = run[r].pr, n.bound = run[r].bound,
           \A p \in PRs : n.head[p] = run[r].head[p] \/ n.head[p] <= server'[p].head,
           n.at = "finish_rebind" => Known(n.new)',
           n.at = "rebase" => n.head[n.pr] <= n.bound[n.pr]
                              /\ n.bound[n.pr] <= server'[n.pr].head,
           n.at \in {"journal_rebase", "prove"} => n.new \in Ids' /\ Known(n.head[n.pr])',
           n.at \in {"journal_rebind", "rebind"} => Known(n.new)',
           n.at = "intent" => Cleared(n.head[n.pr])',
           n.at \in {"merge", "wait"} => n.head[n.pr] \in journal'.intents,
           n.at \in {"record_again", "journal_again", "record", "journal_merge"} =>
               n.commit # 0 /\ server'[n.pr].merged = n.commit
    PROVE  RunOK(r)'
<1>1. run'[r] = n
  BY DEF Set, TypeOK, RunType
<1>2. P(r) \in PRs /\ \A p \in PRs : Known(run[r].bound[p])
  BY DEF RunOK
<1>3. \A h : Known(h) => Known(h)'
  BY GrowsKnown DEF TypeOK, ForgeType
<1>4. \A p \in PRs : server[p].head \in Nat /\ server'[p].head \in Nat
      /\ server'[p].head >= server[p].head /\ run[r].head[p] \in Nat
  BY HeadsGrow
<1>5. \A p \in PRs : run[r].head[p] <= server'[p].head
  BY <1>4 DEF RunOK, HeadOf
<1>6. \A p \in PRs : n.head[p] <= server'[p].head
  BY <1>5
<1>7. n.pr \in PRs /\ \A p \in PRs : Known(n.bound[p])'
  BY <1>2, <1>3 DEF P
<1> QED
  BY <1>1, <1>6, <1>7 DEF RunOK, Here, P, HeadOf, MergedAt

LEMMA LandedMerged ==
    ASSUME IInv, NEW p \in PRs, Landed(p) # 0
    PROVE  Landed(p) \in Nat /\ server[p].merged = Landed(p)
<1> DEFINE e == journal.last[p]
<1>1. e \in Entry /\ server[p].merged \in Nat
  BY DEF IInv, TypeOK, Log, ForgeType, Pull
<1>2. e.kind = "merge" => server[p].merged = e.head
  BY DEF IInv, JournalIsTrue, MergedAt
<1> QED
  BY <1>1, <1>2 DEF Landed, MergedAt, Entry

LEMMA ReconcileMergesStep ==
    ASSUME IInv, NEW r \in Runs, ReconcileMerges(r)
    PROVE  IInv'
<1>1. /\ Here(r, "merges") /\ ~Here(r, "idle")
      /\ UNCHANGED <<forge, store, journal, lifted, reviewed>>
  BY DEF ReconcileMerges, Here
<1>2. P(r) \in PRs /\ RunOK(r) /\ TypeOK
  BY <1>1 DEF IInv, RunOK
<1>3. CASE Landed(P(r)) # 0 /\ bound[P(r)] = Landed(P(r))
  <2>1. Set(r, [run[r] EXCEPT !.at = "record_again", !.commit = Landed(P(r))])
    BY <1>3 DEF ReconcileMerges
  <2>2. Landed(P(r)) \in Nat /\ server[P(r)].merged = Landed(P(r))
    BY <1>2, <1>3, LandedMerged
  <2>3. run[r] \in Run /\ "record_again" \in Places
    BY <1>2 DEF TypeOK, RunType, Places
  <2>4. [run[r] EXCEPT !.at = "record_again", !.commit = Landed(P(r))] \in Run
    BY <2>2, <2>3 DEF Run
  <2>5. PICK n \in Run : n = [run[r] EXCEPT !.at = "record_again", !.commit = Landed(P(r))]
    BY <2>4
  <2>6. n.at = "record_again" /\ n.commit = Landed(P(r)) /\ n.pr = run[r].pr
        /\ n.bound = run[r].bound /\ n.head = run[r].head
    BY <2>3, <2>5 DEF Run
  <2>7. Set(r, n)
    BY <2>1, <2>5
  <2>8. n.commit # 0 /\ server'[n.pr].merged = n.commit
    BY <1>1, <1>3, <2>2, <2>6 DEF P, forge
  <2>9. TypeOK' /\ Grows => RunOK(r)'
    BY <1>1, <1>2, <2>6, <2>7, <2>8, OnwardOK
  <2> QED
    BY <1>1, <2>7, <2>9, ReadStep
<1>4. CASE ~(Landed(P(r)) # 0 /\ bound[P(r)] = Landed(P(r)))
  <2>1. Set(r, NextPR(r, "merges", "plan"))
    BY <1>4 DEF ReconcileMerges
  <2> QED
    BY <1>1, <2>1, NextStep DEF Quiet
<1> QED
  BY <1>3, <1>4

LEMMA PlanStep ==
    ASSUME IInv, NEW r \in Runs, Plan(r)
    PROVE  IInv'
<1>1. /\ Here(r, "plan") /\ ~Here(r, "idle")
      /\ UNCHANGED <<forge, store, journal, lifted, reviewed>>
  BY DEF Plan, Here
<1>2. P(r) \in PRs /\ RunOK(r) /\ TypeOK
  BY <1>1 DEF IInv, RunOK
<1> DEFINE m == NextPR(r, "plan", "land")
<1>3. PICK h \in {0, HeadOf(P(r))} : Set(r, [m EXCEPT !.head[P(r)] = h])
  BY DEF Plan
<1>4. m \in Run
  BY <1>2, NextType DEF Quiet
<1>5. \A p \in PRs : server[p].head \in Nat
  BY <1>2 DEF TypeOK, ForgeType, Pull
<1>6. h \in Nat /\ h <= server[P(r)].head
  BY <1>2, <1>3, <1>5 DEF HeadOf
<1>7. [m EXCEPT !.head[P(r)] = h] \in Run
  BY <1>4, <1>6 DEF Run
<1>8. PICK n \in Run : n = [m EXCEPT !.head[P(r)] = h]
  BY <1>7
<1>9. n.at = m.at /\ n.pr = m.pr /\ n.bound = m.bound
      /\ \A p \in PRs : n.head[p] = m.head[p] \/ (p = P(r) /\ n.head[p] = h)
  BY <1>4, <1>8 DEF Run
<1>10. Set(r, n)
  BY <1>3, <1>8
<1>11. \A p \in PRs : n.head[p] = m.head[p] \/ n.head[p] <= server'[p].head
  BY <1>1, <1>6, <1>9 DEF forge
<1>12. TypeOK' /\ Grows => RunOK(r)'
  BY <1>1, <1>2, <1>9, <1>10, <1>11, NextOK DEF Quiet
<1> QED
  BY <1>1, <1>10, <1>12, ReadStep

LEMMA LandPRStep ==
    ASSUME IInv, NEW r \in Runs, LandPR(r)
    PROVE  IInv'
<1>1. /\ Here(r, "land") /\ ~Here(r, "idle")
      /\ UNCHANGED <<forge, store, journal, lifted, reviewed>>
  BY DEF LandPR, Here
<1>2. P(r) \in PRs /\ RunOK(r) /\ TypeOK
  BY <1>1 DEF IInv, RunOK
<1>3. CASE Set(r, NextPR(r, "land", "idle"))
  BY <1>1, <1>3, NextStep DEF Quiet
<1>4. ASSUME NEW at \in {"rebase", "check"}, Go(r, at),
             at = "rebase" => HeadOf(P(r)) = run[r].bound[P(r)]
      PROVE  IInv'
  <2>1. run[r] \in Run /\ at \in Places
    BY <1>2 DEF TypeOK, RunType, Places
  <2>2. [run[r] EXCEPT !.at = at] \in Run
    BY <2>1 DEF Run
  <2>3. PICK n \in Run : n = [run[r] EXCEPT !.at = at]
    BY <2>2
  <2>4. n.at = at /\ n.pr = run[r].pr /\ n.bound = run[r].bound /\ n.head = run[r].head
    BY <2>1, <2>3 DEF Run
  <2>5. Set(r, n)
    BY <1>4, <2>3 DEF Go
  <2>6. run[r].head[P(r)] <= HeadOf(P(r)) /\ HeadOf(P(r)) \in Nat
    BY <1>2 DEF RunOK, TypeOK, ForgeType, HeadOf, Pull
  <2>7. n.at = "rebase" => n.head[n.pr] <= n.bound[n.pr]
                           /\ n.bound[n.pr] <= server'[n.pr].head
    BY <1>1, <1>4, <2>4, <2>6 DEF P, HeadOf, forge
  <2>8. TypeOK' /\ Grows => RunOK(r)'
    BY <1>1, <1>2, <2>4, <2>5, <2>7, OnwardOK
  <2> QED
    BY <1>1, <2>5, <2>8, ReadStep
<1>5. CASE ~(run[r].head[P(r)] = 0 \/ (Behind(HeadOf(P(r))) /\ HeadOf(P(r)) # run[r].bound[P(r)]))
  <2>1. Go(r, IF Behind(HeadOf(P(r))) THEN "rebase" ELSE "check")
    BY <1>5 DEF LandPR
  <2>2. CASE Behind(HeadOf(P(r)))
    BY <1>4, <1>5, <2>1, <2>2
  <2>3. CASE ~Behind(HeadOf(P(r)))
    BY <1>4, <2>1, <2>3
  <2> QED
    BY <2>2, <2>3
<1> QED
  BY <1>3, <1>5 DEF LandPR

LEMMA ProveStep ==
    ASSUME IInv, NEW r \in Runs, Prove(r)
    PROVE  IInv'
<1>1. /\ Here(r, "prove") /\ ~Here(r, "idle")
      /\ UNCHANGED <<forge, store, journal, lifted, reviewed>>
  BY DEF Prove, Here
<1>2. P(r) \in PRs /\ RunOK(r) /\ TypeOK
  BY <1>1 DEF IInv, RunOK
<1>3. CASE ~PatchUnchanged(r)
  <2>1. Set(r, NextPR(r, "land", "idle"))
    BY <1>3 DEF Prove
  <2> QED
    BY <1>1, <2>1, NextStep DEF Quiet
<1>4. CASE PatchUnchanged(r)
  <2>1. Go(r, "journal_rebind")
    BY <1>4 DEF Prove
  <2>2. run[r] \in Run /\ "journal_rebind" \in Places
    BY <1>2 DEF TypeOK, RunType, Places
  <2>3. [run[r] EXCEPT !.at = "journal_rebind"] \in Run
    BY <2>2 DEF Run
  <2>4. PICK n \in Run : n = [run[r] EXCEPT !.at = "journal_rebind"]
    BY <2>3
  <2>5. n.at = "journal_rebind" /\ n.pr = run[r].pr /\ n.bound = run[r].bound
        /\ n.head = run[r].head /\ n.new = run[r].new
    BY <2>2, <2>4 DEF Run
  <2>6. Set(r, n)
    BY <2>1, <2>4 DEF Go
  <2>7. run[r].new \in Ids /\ Known(run[r].head[P(r)])
    BY <1>1, <1>2 DEF RunOK, Here
  <2>8. Known(n.new)
    BY <1>4, <2>5, <2>7 DEF Known, PatchUnchanged
  <2>9. Grows => Known(n.new)'
    BY <1>2, <1>1, <2>8, GrowsKnown DEF TypeOK, ForgeType, forge
  <2>10. TypeOK' /\ Grows => RunOK(r)'
    BY <1>1, <1>2, <2>5, <2>6, <2>9, OnwardOK
  <2> QED
    BY <1>1, <2>6, <2>10, ReadStep
<1> QED
  BY <1>3, <1>4

\* A head that passes is the reviewed one its task is bound to, or one the
\* owner let through.
LEMMA PassesCleared ==
    ASSUME IInv, NEW p \in PRs, Passes(HeadOf(p), Rules(p, bound[p]))
    PROVE  Cleared(HeadOf(p))
<1>1. HeadOf(p) \in Ids /\ Known(bound[p])
  BY DEF IInv, TypeOK, ForgeType, Reviews
<1>2. CASE Rules(p, bound[p]) = {}
  <2>1. HeadOf(p) = bound[p]
    BY <1>2 DEF Rules
  <2> QED
    BY <1>1, <2>1 DEF Cleared, Known
<1>3. CASE Lifts(HeadOf(p), Rules(p, bound[p])) \in lifted
  <2>1. Lifts(HeadOf(p), Rules(p, bound[p])).head = HeadOf(p)
    BY DEF Lifts
  <2> QED
    BY <1>1, <1>3, <2>1 DEF Cleared
<1> QED
  BY <1>2, <1>3 DEF Passes

LEMMA CheckPRStep ==
    ASSUME IInv, NEW r \in Runs, CheckPR(r)
    PROVE  IInv'
<1>1. /\ Here(r, "check") /\ ~Here(r, "idle")
      /\ UNCHANGED <<forge, store, journal, lifted, reviewed>>
  BY DEF CheckPR, Here
<1>2. P(r) \in PRs /\ RunOK(r) /\ TypeOK
  BY <1>1 DEF IInv, RunOK
<1>3. CASE ~Passes(HeadOf(P(r)), Rules(P(r), bound[P(r)]))
  <2>1. Set(r, NextPR(r, "land", "idle"))
    BY <1>3 DEF CheckPR
  <2> QED
    BY <1>1, <2>1, NextStep DEF Quiet
<1>4. CASE Passes(HeadOf(P(r)), Rules(P(r), bound[P(r)]))
  <2>1. Set(r, [run[r] EXCEPT !.at = "intent", !.head[P(r)] = HeadOf(P(r))])
    BY <1>4 DEF CheckPR
  <2>2. run[r] \in Run /\ "intent" \in Places /\ HeadOf(P(r)) \in Nat
    BY <1>2 DEF TypeOK, RunType, Places, ForgeType, HeadOf, Pull
  <2>3. [run[r] EXCEPT !.at = "intent", !.head[P(r)] = HeadOf(P(r))] \in Run
    BY <1>2, <2>2 DEF Run
  <2>4. PICK n \in Run : n = [run[r] EXCEPT !.at = "intent", !.head[P(r)] = HeadOf(P(r))]
    BY <2>3
  <2>5. n.at = "intent" /\ n.pr = run[r].pr /\ n.bound = run[r].bound
        /\ n.head = [run[r].head EXCEPT ![P(r)] = HeadOf(P(r))]
    BY <2>2, <2>4 DEF Run
  <2>6. run[r].head \in [PRs -> Nat]
    BY <2>2 DEF Run
  <2>7. n.head[P(r)] = HeadOf(P(r))
        /\ \A p \in PRs : p # P(r) => n.head[p] = run[r].head[p]
    BY <1>2, <2>5, <2>6
  <2>8. HeadOf(P(r)) <= server'[P(r)].head
    BY <1>1, <2>2 DEF HeadOf, forge
  <2>9. \A p \in PRs : n.head[p] = run[r].head[p] \/ n.head[p] <= server'[p].head
    BY <2>7, <2>8
  <2>10. Set(r, n)
    BY <2>1, <2>4
  <2>11. Cleared(n.head[n.pr])
    BY <1>2, <1>4, <2>5, <2>7, PassesCleared DEF P
  <2>12. Grows => Cleared(n.head[n.pr])'
    BY <1>2, <1>1, <2>11, GrowsKnown DEF TypeOK, ForgeType, forge
  <2>13. TypeOK' /\ Grows => RunOK(r)'
    BY <1>1, <1>2, <2>5, <2>9, <2>10, <2>12, OnwardOK
  <2> QED
    BY <1>1, <2>10, <2>13, ReadStep
<1> QED
  BY <1>3, <1>4

LEMMA AnsweredStep ==
    ASSUME IInv, NEW r \in Runs, Answered(r)
    PROVE  IInv'
<1>1. /\ Here(r, "wait") /\ ~Here(r, "idle")
      /\ UNCHANGED <<forge, store, journal, lifted, reviewed>>
  BY DEF Answered, Here
<1>2. P(r) \in PRs /\ RunOK(r) /\ TypeOK
  BY <1>1 DEF IInv, RunOK
<1> DEFINE h == run[r].head[P(r)]
<1>3. CASE ~MergedAt(P(r), h)
  <2>1. Stop(r)
    BY <1>3 DEF Answered
  <2> QED
    BY <1>1, <2>1, StopStep
<1>4. CASE MergedAt(P(r), h)
  <2>1. Set(r, [run[r] EXCEPT !.at = "record", !.commit = h])
    BY <1>4 DEF Answered
  <2>2. run[r] \in Run /\ "record" \in Places /\ h \in Nat
    BY <1>2 DEF TypeOK, RunType, Places, Run
  <2>3. [run[r] EXCEPT !.at = "record", !.commit = h] \in Run
    BY <2>2 DEF Run
  <2>4. PICK n \in Run : n = [run[r] EXCEPT !.at = "record", !.commit = h]
    BY <2>3
  <2>5. n.at = "record" /\ n.pr = run[r].pr /\ n.bound = run[r].bound
        /\ n.head = run[r].head /\ n.commit = h
    BY <2>2, <2>4 DEF Run
  <2>6. Set(r, n)
    BY <2>1, <2>4
  <2>7. h \in journal.intents
    BY <1>1, <1>2 DEF RunOK, Here
  <2>8. h \in Ids
    BY <2>7 DEF IInv, Reviews, Cleared
  <2>9. h # 0
    BY <2>8 DEF Ids
  <2>10. n.commit # 0 /\ server'[n.pr].merged = n.commit
    BY <1>1, <1>4, <2>5, <2>9 DEF MergedAt, P, forge
  <2>11. TypeOK' /\ Grows => RunOK(r)'
    BY <1>1, <1>2, <2>5, <2>6, <2>10, OnwardOK
  <2> QED
    BY <1>1, <2>6, <2>11, ReadStep
<1> QED
  BY <1>3, <1>4

LEMMA KillStep ==
    ASSUME IInv, NEW r \in Runs, Kill(r)
    PROVE  IInv'
BY StopStep DEF Kill

----------------------------------------------------------------------------
(* The steps of a run that writes the journal *)

LEMMA WriteStep ==
    ASSUME IInv, NEW r \in Runs, NEW n \in Run, Set(r, n),
           UNCHANGED <<forge, store, lifted, reviewed>>,
           journal' \in Log, journal.intents \subseteq journal'.intents,
           \A e \in journal'.rebinds : Known(e.new),
           \A h \in journal'.intents : Cleared(h),
           \A p \in PRs : journal'.last[p].kind = "merge" =>
               \/ journal'.last[p] = journal.last[p]
               \/ journal'.last[p].head # 0 /\ server[p].merged = journal'.last[p].head,
           TypeOK' /\ Grows => RunOK(r)'
    PROVE  IInv'
<1>1. TypeOK'
  BY DEF IInv, TypeOK, ForgeType, StoreType, RunType, Set, forge, store, HeadOf, Ids
<1>2. Grows
  BY Frame DEF IInv, forge
<1>3. \A q \in Runs : RunOK(q)'
  BY <1>1, <1>2, RunsKept
<1>4. /\ \A h : Known(h) => Known(h)'
      /\ \A h : Cleared(h) => Cleared(h)'
  BY <1>1, <1>2, GrowsKnown DEF IInv, TypeOK, ForgeType
<1>5. Reviews'
  BY <1>4 DEF IInv, Reviews, store
<1>6. FactIsTrue'
  BY <1>2, FactKept DEF IInv
<1>7. JournalIsTrue' /\ Journaled'
  BY DEF IInv, JournalIsTrue, Journaled, MergedAt, forge
<1> QED
  BY <1>1, <1>3, <1>5, <1>6, <1>7 DEF IInv

\* An entry of a pull request changes its last one only.
LEMMA EntryType ==
    ASSUME TypeOK, NEW p \in PRs, NEW kind \in {"intent", "merge"}, NEW h \in Nat
    PROVE  /\ Journal(p, kind, h) \in Log
           /\ Journal(p, kind, h).intents = journal.intents
           /\ Journal(p, kind, h).rebinds = journal.rebinds
           /\ Journal(p, kind, h).rebased = journal.rebased
           /\ Journal(p, kind, h).last[p] = [kind |-> kind, head |-> h]
           /\ \A q \in PRs : q # p => Journal(p, kind, h).last[q] = journal.last[q]
<1>1. journal \in Log /\ [kind |-> kind, head |-> h] \in Entry
  BY DEF TypeOK, Entry
<1>2. journal.last \in [PRs -> Entry]
  BY <1>1 DEF Log
<1>3. Journal(p, kind, h) =
        [last |-> [journal.last EXCEPT ![p] = [kind |-> kind, head |-> h]],
         intents |-> journal.intents, rebased |-> journal.rebased,
         rebinds |-> journal.rebinds]
  BY <1>1 DEF Journal, Log
<1>4. [journal.last EXCEPT ![p] = [kind |-> kind, head |-> h]] \in [PRs -> Entry]
  BY <1>1, <1>2
<1>5. journal.intents \in SUBSET Nat /\ journal.rebased \in SUBSET Nat
      /\ journal.rebinds \in SUBSET [old : Nat, new : Nat]
  BY <1>1 DEF Log
<1>6. Journal(p, kind, h) \in Log
  BY <1>3, <1>4, <1>5 DEF Log
<1> QED
  BY <1>2, <1>3, <1>6

\* A merge is journaled at the head that the server merged.
LEMMA MergeEntry ==
    ASSUME IInv, NEW r \in Runs, NEW n \in Run, Set(r, n), ~Here(r, "idle"),
           UNCHANGED <<forge, store, lifted, reviewed>>,
           journal' = Journal(P(r), "merge", run[r].commit),
           run[r].commit # 0, server[P(r)].merged = run[r].commit,
           TypeOK' /\ Grows => RunOK(r)'
    PROVE  IInv'
<1>1. P(r) \in PRs /\ TypeOK /\ run[r].commit \in Nat
  BY DEF IInv, RunOK, TypeOK, RunType, Run
<1> DEFINE j == Journal(P(r), "merge", run[r].commit)
<1>3. /\ j \in Log /\ j.intents = journal.intents /\ j.rebinds = journal.rebinds
      /\ j.last[P(r)] = [kind |-> "merge", head |-> run[r].commit]
      /\ \A q \in PRs : q # P(r) => j.last[q] = journal.last[q]
  <2>1. "merge" \in {"intent", "merge"}
    OBVIOUS
  <2> QED
    BY <1>1, <2>1, EntryType
<1>4. journal' = j
  OBVIOUS
<1> HIDE DEF j
<1>2. /\ journal' \in Log /\ journal'.intents = journal.intents
      /\ journal'.rebinds = journal.rebinds
      /\ journal'.last[P(r)].head = run[r].commit
      /\ \A q \in PRs : q # P(r) => journal'.last[q] = journal.last[q]
  BY <1>3, <1>4
<1> QED
  BY <1>1, <1>2, WriteStep DEF IInv, Reviews

LEMMA JournalAgainStep ==
    ASSUME IInv, NEW r \in Runs, JournalAgain(r)
    PROVE  IInv'
<1>1. /\ Here(r, "journal_again") /\ ~Here(r, "idle")
      /\ UNCHANGED <<forge, store, lifted, reviewed>>
      /\ journal' = Journal(P(r), "merge", run[r].commit)
  BY DEF JournalAgain, Here
<1>2. P(r) \in PRs /\ RunOK(r) /\ TypeOK
  BY <1>1 DEF IInv, RunOK
<1>3. run[r].commit # 0 /\ server[P(r)].merged = run[r].commit
  BY <1>1, <1>2 DEF RunOK, Here, MergedAt
<1> DEFINE m == NextPR(r, "merges", "plan")
           d == run[r].done \cup {P(r)}
<1>4. m \in Run /\ run[r] \in Run
  BY <1>2, NextType DEF Quiet, TypeOK, RunType
<1>5. [run[r] EXCEPT !.done = d].done = d /\ d \in SUBSET PRs
  BY <1>2, <1>4 DEF Run
<1>6. [m EXCEPT !.done = d] \in Run
  BY <1>4, <1>5 DEF Run
<1>7. PICK n \in Run : n = [m EXCEPT !.done = d]
  BY <1>6
<1>8. Set(r, n)
  <2>1. Set(r, [m EXCEPT !.done = [run[r] EXCEPT !.done = d].done])
    BY DEF JournalAgain
  <2> QED
    BY <1>5, <1>7, <2>1
<1>9. n.at = m.at /\ n.pr = m.pr /\ n.bound = m.bound /\ n.head = m.head
  BY <1>4, <1>7 DEF Run
<1>10. TypeOK' /\ Grows => RunOK(r)'
  BY <1>1, <1>2, <1>8, <1>9, NextOK DEF Quiet
<1> QED
  BY <1>1, <1>3, <1>8, <1>10, MergeEntry

LEMMA JournalMergeStep ==
    ASSUME IInv, NEW r \in Runs, JournalMerge(r)
    PROVE  IInv'
<1>1. /\ Here(r, "journal_merge") /\ ~Here(r, "idle")
      /\ UNCHANGED <<forge, store, lifted, reviewed>>
      /\ journal' = Journal(P(r), "merge", run[r].commit)
      /\ Set(r, NextPR(r, "land", "idle"))
  BY DEF JournalMerge, Here
<1>2. P(r) \in PRs /\ RunOK(r) /\ TypeOK
  BY <1>1 DEF IInv, RunOK
<1>3. run[r].commit # 0 /\ server[P(r)].merged = run[r].commit
  BY <1>1, <1>2 DEF RunOK, Here, MergedAt
<1>4. NextPR(r, "land", "idle") \in Run
  BY <1>2, NextType DEF Quiet
<1>5. TypeOK' /\ Grows => RunOK(r)'
  BY <1>1, <1>2, <1>4, NextOK DEF Quiet
<1> QED
  BY <1>1, <1>3, <1>4, <1>5, MergeEntry

LEMMA JournalRebaseStep ==
    ASSUME IInv, NEW r \in Runs, JournalRebase(r)
    PROVE  IInv'
<1>1. /\ Here(r, "journal_rebase") /\ ~Here(r, "idle")
      /\ UNCHANGED <<forge, store, lifted, reviewed>>
      /\ journal' = [journal EXCEPT !.rebased = @ \cup {run[r].new}]
      /\ Go(r, "prove")
  BY DEF JournalRebase, Here
<1>2. P(r) \in PRs /\ RunOK(r) /\ TypeOK
  BY <1>1 DEF IInv, RunOK
<1>3. run[r] \in Run /\ "prove" \in Places /\ journal \in Log /\ run[r].new \in Nat
  BY <1>2 DEF TypeOK, RunType, Places, Run
<1>4. /\ journal' \in Log /\ journal'.intents = journal.intents
      /\ journal'.rebinds = journal.rebinds /\ journal'.last = journal.last
  BY <1>1, <1>3 DEF Log
<1>5. [run[r] EXCEPT !.at = "prove"] \in Run
  BY <1>3 DEF Run
<1>6. PICK n \in Run : n = [run[r] EXCEPT !.at = "prove"]
  BY <1>5
<1>7. n.at = "prove" /\ n.pr = run[r].pr /\ n.bound = run[r].bound
      /\ n.head = run[r].head /\ n.new = run[r].new
  BY <1>3, <1>6 DEF Run
<1>8. Set(r, n)
  BY <1>1, <1>6 DEF Go
<1>9. n.new \in Ids /\ Known(n.head[n.pr])
  BY <1>1, <1>2, <1>7 DEF RunOK, Here, P
<1>10. Grows => n.new \in Ids' /\ Known(n.head[n.pr])'
  BY <1>1, <1>2, <1>9, GrowsKnown DEF TypeOK, ForgeType, forge
<1>11. TypeOK' /\ Grows => RunOK(r)'
  BY <1>1, <1>2, <1>7, <1>8, <1>10, OnwardOK
<1> QED
  BY <1>1, <1>4, <1>8, <1>11, WriteStep DEF IInv, Reviews

LEMMA JournalRebindStep ==
    ASSUME IInv, NEW r \in Runs, JournalRebind(r)
    PROVE  IInv'
<1> DEFINE entry == [old |-> run[r].bound[P(r)], new |-> run[r].new]
           kept == {e \in journal.rebinds : e.old # run[r].bound[P(r)]}
<1>1. /\ Here(r, "journal_rebind") /\ ~Here(r, "idle")
      /\ UNCHANGED <<forge, store, lifted, reviewed>>
      /\ journal' = [journal EXCEPT !.rebinds = kept \cup {entry}]
      /\ Go(r, "rebind")
  BY DEF JournalRebind, Here
<1>2. P(r) \in PRs /\ RunOK(r) /\ TypeOK
  BY <1>1 DEF IInv, RunOK
<1>3. run[r] \in Run /\ "rebind" \in Places /\ journal \in Log
  BY <1>2 DEF TypeOK, RunType, Places
<1>4. entry \in [old : Nat, new : Nat]
  BY <1>2, <1>3 DEF Run
<1>5. journal.rebinds \in SUBSET [old : Nat, new : Nat]
  BY <1>3 DEF Log
<1>6. /\ journal' \in Log /\ journal'.intents = journal.intents
      /\ journal'.rebinds = kept \cup {entry} /\ journal'.last = journal.last
  <2>1. kept \cup {entry} \in SUBSET [old : Nat, new : Nat]
    BY <1>4, <1>5
  <2> HIDE DEF kept, entry
  <2> QED
    BY <1>1, <1>3, <2>1 DEF Log
<1>7. [run[r] EXCEPT !.at = "rebind"] \in Run
  BY <1>3 DEF Run
<1>8. PICK n \in Run : n = [run[r] EXCEPT !.at = "rebind"]
  BY <1>7
<1>9. n.at = "rebind" /\ n.pr = run[r].pr /\ n.bound = run[r].bound
      /\ n.head = run[r].head /\ n.new = run[r].new
  BY <1>3, <1>8 DEF Run
<1>10. Set(r, n)
  BY <1>1, <1>8 DEF Go
<1>11. Known(n.new)
  BY <1>1, <1>2, <1>9 DEF RunOK, Here
<1>12. Grows => Known(n.new)'
  BY <1>1, <1>2, <1>11, GrowsKnown DEF TypeOK, ForgeType, forge
<1>13. TypeOK' /\ Grows => RunOK(r)'
  BY <1>1, <1>2, <1>9, <1>10, <1>12, OnwardOK
<1>14. \A e \in journal'.rebinds : Known(e.new)
  <2>1. entry.new = n.new
    BY <1>9
  <2> QED
    BY <1>6, <1>11, <2>1 DEF IInv, Reviews
<1> QED
  BY <1>1, <1>6, <1>10, <1>13, <1>14, WriteStep DEF IInv, Reviews

LEMMA JournalIntentStep ==
    ASSUME IInv, NEW r \in Runs, JournalIntent(r)
    PROVE  IInv'
<1> DEFINE h == run[r].head[P(r)]
           j == Journal(P(r), "intent", h)
<1>1. /\ Here(r, "intent") /\ ~Here(r, "idle")
      /\ UNCHANGED <<forge, store, lifted, reviewed>>
      /\ journal' = [j EXCEPT !.intents = @ \cup {h}]
      /\ Go(r, "merge")
  BY DEF JournalIntent, Here
<1>2. P(r) \in PRs /\ RunOK(r) /\ TypeOK
  BY <1>1 DEF IInv, RunOK
<1>3. run[r] \in Run /\ "merge" \in Places /\ journal \in Log
  BY <1>2 DEF TypeOK, RunType, Places
<1>4. h \in Nat
  BY <1>2, <1>3 DEF Run
<1>5. /\ j \in Log /\ j.intents = journal.intents /\ j.rebinds = journal.rebinds
      /\ j.last[P(r)] = [kind |-> "intent", head |-> h]
      /\ \A q \in PRs : q # P(r) => j.last[q] = journal.last[q]
  <2>1. "intent" \in {"intent", "merge"}
    OBVIOUS
  <2> HIDE DEF h
  <2> QED
    BY <1>2, <1>4, <2>1, EntryType
<1> HIDE DEF j
<1>6. /\ journal' \in Log /\ journal'.intents = journal.intents \cup {h}
      /\ journal'.rebinds = journal.rebinds /\ journal'.last = j.last
  <2> HIDE DEF h
  <2> QED
    BY <1>1, <1>4, <1>5 DEF Log
<1>7. [run[r] EXCEPT !.at = "merge"] \in Run
  BY <1>3 DEF Run
<1>8. PICK n \in Run : n = [run[r] EXCEPT !.at = "merge"]
  BY <1>7
<1>9. n.at = "merge" /\ n.pr = run[r].pr /\ n.bound = run[r].bound
      /\ n.head = run[r].head
  BY <1>3, <1>8 DEF Run
<1>10. Set(r, n)
  BY <1>1, <1>8 DEF Go
<1>11. n.head[n.pr] \in journal'.intents
  BY <1>6, <1>9 DEF P
<1>12. TypeOK' /\ Grows => RunOK(r)'
  BY <1>1, <1>2, <1>9, <1>10, <1>11, OnwardOK
<1>13. Cleared(h)
  BY <1>1, <1>2 DEF RunOK, Here
<1>14. \A g \in journal'.intents : Cleared(g)
  BY <1>6, <1>13 DEF IInv, Reviews
<1>15. \A q \in PRs : journal'.last[q].kind = "merge" => journal'.last[q] = journal.last[q]
  BY <1>5, <1>6
<1>16. \A e \in journal'.rebinds : Known(e.new)
  BY <1>6 DEF IInv, Reviews
<1> QED
  BY <1>1, <1>6, <1>10, <1>12, <1>14, <1>15, <1>16, WriteStep

----------------------------------------------------------------------------
(* The steps that write the task store *)

\* A binding of a reviewed head leaves the records true.
LEMMA BindPROK ==
    ASSUME IInv, NEW p \in PRs, NEW h, BindPR(p, h), h \in Nat, Known(h)',
           Grows, TypeOK', UNCHANGED <<server, journal>>
    PROVE  Reviews' /\ FactIsTrue'
<1>1. /\ bound \in [PRs -> Nat] /\ fact \in [PRs -> Nat]
      /\ bound' = [bound EXCEPT ![p] = h]
      /\ fact' = IF bound[p] = h THEN fact ELSE [fact EXCEPT ![p] = 0]
  BY DEF IInv, TypeOK, StoreType, BindPR
<1>2. /\ \A g : Known(g) => Known(g)'
      /\ \A g : Cleared(g) => Cleared(g)'
  BY GrowsKnown DEF IInv, TypeOK, ForgeType
<1>3. bound'[p] = h /\ \A q \in PRs : q # p => bound'[q] = bound[q]
  BY <1>1
<1>4. \A q \in PRs : q # p => fact'[q] = fact[q]
  BY <1>1
<1>5. fact'[p] = 0 \/ (fact'[p] = fact[p] /\ bound'[p] = bound[p])
  BY <1>1
<1>6. Reviews'
  BY <1>2, <1>3 DEF IInv, Reviews
<1>7. FactIsTrue'
  BY <1>3, <1>4, <1>5 DEF IInv, FactIsTrue
<1> QED
  BY <1>6, <1>7

\* A merge is recorded at the bound head that the server merged.
LEMMA RecordOK ==
    ASSUME IInv, NEW p \in PRs, NEW h, RecordPRMerge(p, h), bound[p] = h,
           server[p].merged = h, UNCHANGED <<server, journal>>, Grows, TypeOK'
    PROVE  Reviews' /\ FactIsTrue'
<1>1. fact \in [PRs -> Nat] /\ fact' = [fact EXCEPT ![p] = h] /\ UNCHANGED bound
  BY DEF IInv, TypeOK, StoreType, RecordPRMerge
<1>2. fact'[p] = h /\ \A q \in PRs : q # p => fact'[q] = fact[q]
  BY <1>1
<1>3. Reviews'
  BY <1>1, ReviewsKept DEF IInv, TypeOK, ForgeType
<1>4. FactIsTrue'
  BY <1>1, <1>2 DEF IInv, FactIsTrue
<1> QED
  BY <1>3, <1>4

LEMMA StoreStep ==
    ASSUME IInv, NEW r \in Runs, NEW n \in Run, Set(r, n),
           UNCHANGED <<forge, journal, lifted, reviewed>>,
           StoreType',
           TypeOK' /\ Grows => RunOK(r)' /\ Reviews' /\ FactIsTrue'
    PROVE  IInv'
<1>1. TypeOK'
  BY DEF IInv, TypeOK, ForgeType, RunType, Set, forge, HeadOf, Ids
<1>2. Grows
  BY Frame DEF IInv, forge
<1>3. \A q \in Runs : RunOK(q)'
  BY <1>1, <1>2, RunsKept
<1>4. JournalIsTrue' /\ Journaled'
  BY <1>2, JournalKept DEF IInv, forge
<1> QED
  BY <1>1, <1>2, <1>3, <1>4 DEF IInv

LEMMA BindType ==
    ASSUME StoreType, NEW p \in PRs, NEW h \in Nat, BindPR(p, h)
    PROVE  StoreType'
BY DEF StoreType, BindPR

LEMMA RecordType ==
    ASSUME StoreType, NEW p \in PRs, NEW h \in Nat, RecordPRMerge(p, h)
    PROVE  StoreType'
BY DEF StoreType, RecordPRMerge

LEMMA FinishRebindStep ==
    ASSUME IInv, NEW r \in Runs, FinishRebind(r)
    PROVE  IInv'
<1> DEFINE m == NextPR(r, "rebinds", "merges")
<1>1. /\ Here(r, "finish_rebind") /\ ~Here(r, "idle")
      /\ UNCHANGED <<forge, journal, lifted, reviewed>>
      /\ BindPR(P(r), run[r].new)
      /\ Set(r, [m EXCEPT !.bound[P(r)] = run[r].new])
  BY DEF FinishRebind, Here
<1>2. P(r) \in PRs /\ RunOK(r) /\ TypeOK
  BY <1>1 DEF IInv, RunOK
<1>3. m \in Run /\ run[r].new \in Nat
  BY <1>2, NextType DEF Quiet, TypeOK, RunType, Run
<1> HIDE DEF m
<1>4. [m EXCEPT !.bound[P(r)] = run[r].new] \in Run
  BY <1>3 DEF Run
<1>5. PICK n \in Run : n = [m EXCEPT !.bound[P(r)] = run[r].new]
  BY <1>4
<1>6. n.at = m.at /\ n.pr = m.pr /\ n.head = m.head
      /\ \A p \in PRs : n.bound[p] = m.bound[p] \/ n.bound[p] = run[r].new
  BY <1>3, <1>5 DEF Run
<1>7. Set(r, n)
  BY <1>1, <1>5
<1>8. Known(run[r].new)
  BY <1>1, <1>2 DEF RunOK, Here
<1>9. StoreType'
  BY <1>1, <1>2, <1>3, BindType DEF TypeOK
<1>10. PICK new \in Nat : new = run[r].new
  BY <1>3
<1>11. ASSUME TypeOK', Grows PROVE RunOK(r)' /\ Reviews' /\ FactIsTrue'
  <2>1. Known(new)'
    BY <1>2, <1>8, <1>10, <1>11, GrowsKnown DEF TypeOK, ForgeType
  <2>2. Reviews' /\ FactIsTrue'
    BY <1>1, <1>2, <1>10, <1>11, <2>1, BindPROK DEF forge
  <2>3. \A p \in PRs : Known(n.bound[p])' \/ n.bound[p] = m.bound[p]
    BY <1>6, <1>10, <2>1
  <2>4. RunOK(r)'
    BY <1>1, <1>2, <1>6, <1>7, <1>11, <2>3, NextOK DEF Quiet, m
  <2> QED
    BY <2>2, <2>4
<1> QED
  BY <1>1, <1>7, <1>9, <1>11, StoreStep

LEMMA RebindStep ==
    ASSUME IInv, NEW r \in Runs, Rebind(r)
    PROVE  IInv'
<1>1. /\ Here(r, "rebind") /\ ~Here(r, "idle")
      /\ UNCHANGED <<forge, journal, lifted, reviewed>>
      /\ BindPR(P(r), run[r].new)
      /\ Go(r, "check")
  BY DEF Rebind, Here
<1>2. P(r) \in PRs /\ RunOK(r) /\ TypeOK
  BY <1>1 DEF IInv, RunOK
<1>3. run[r] \in Run /\ "check" \in Places /\ run[r].new \in Nat
  BY <1>2 DEF TypeOK, RunType, Places, Run
<1>4. [run[r] EXCEPT !.at = "check"] \in Run
  BY <1>3 DEF Run
<1>5. PICK n \in Run : n = [run[r] EXCEPT !.at = "check"]
  BY <1>4
<1>6. n.at = "check" /\ n.pr = run[r].pr /\ n.bound = run[r].bound
      /\ n.head = run[r].head
  BY <1>3, <1>5 DEF Run
<1>7. Set(r, n)
  BY <1>1, <1>5 DEF Go
<1>8. Known(run[r].new)
  BY <1>1, <1>2 DEF RunOK, Here
<1>9. StoreType'
  BY <1>1, <1>2, <1>3, BindType DEF TypeOK
<1>10. PICK new \in Nat : new = run[r].new
  BY <1>3
<1>11. ASSUME TypeOK', Grows PROVE RunOK(r)' /\ Reviews' /\ FactIsTrue'
  <2>1. Known(new)'
    BY <1>2, <1>8, <1>10, <1>11, GrowsKnown DEF TypeOK, ForgeType
  <2>2. Reviews' /\ FactIsTrue'
    BY <1>1, <1>2, <1>10, <1>11, <2>1, BindPROK DEF forge
  <2>3. RunOK(r)'
    BY <1>1, <1>2, <1>6, <1>7, <1>11, OnwardOK
  <2> QED
    BY <2>2, <2>3
<1> QED
  BY <1>1, <1>7, <1>9, <1>11, StoreStep

\* A run that records the merge it saw, and goes on to journal it.
LEMMA RecordStep ==
    ASSUME IInv, NEW r \in Runs, ~Here(r, "idle"),
           UNCHANGED <<forge, journal, lifted, reviewed>>,
           RecordPRMerge(P(r), run[r].commit), bound[P(r)] = run[r].commit,
           run[r].commit # 0, server[P(r)].merged = run[r].commit,
           NEW at \in {"journal_again", "journal_merge"}, Go(r, at)
    PROVE  IInv'
<1>1. P(r) \in PRs /\ RunOK(r) /\ TypeOK
  BY DEF IInv, RunOK
<1>2. run[r] \in Run /\ at \in Places
  BY <1>1 DEF TypeOK, RunType, Places
<1>3. [run[r] EXCEPT !.at = at] \in Run
  BY <1>2 DEF Run
<1>4. PICK n \in Run : n = [run[r] EXCEPT !.at = at]
  BY <1>3
<1>5. n.at = at /\ n.pr = run[r].pr /\ n.bound = run[r].bound
      /\ n.head = run[r].head /\ n.commit = run[r].commit
  BY <1>2, <1>4 DEF Run
<1>6. Set(r, n)
  BY <1>4 DEF Go
<1>7. PICK h \in Nat : h = run[r].commit
  BY <1>2 DEF Run
<1>8. StoreType'
  BY <1>1, <1>7, RecordType DEF TypeOK
<1>9. n.commit # 0 /\ server'[n.pr].merged = n.commit
  BY <1>5 DEF P, forge
<1>10. ASSUME TypeOK', Grows PROVE RunOK(r)' /\ Reviews' /\ FactIsTrue'
  <2>1. Reviews' /\ FactIsTrue'
    BY <1>1, <1>7, <1>10, RecordOK DEF forge
  <2>2. RunOK(r)'
    BY <1>1, <1>5, <1>6, <1>9, <1>10, OnwardOK
  <2> QED
    BY <2>1, <2>2
<1> QED
  BY <1>6, <1>8, <1>10, StoreStep

LEMMA RecordAgainStep ==
    ASSUME IInv, NEW r \in Runs, RecordAgain(r)
    PROVE  IInv'
<1>1. /\ Here(r, "record_again") /\ ~Here(r, "idle")
      /\ UNCHANGED <<forge, journal, lifted, reviewed>>
  BY DEF RecordAgain, Here
<1>2. run[r].commit # 0 /\ server[P(r)].merged = run[r].commit
  BY <1>1 DEF IInv, RunOK, Here, MergedAt
<1>3. CASE bound[P(r)] = run[r].commit
  BY <1>1, <1>2, <1>3, RecordStep DEF RecordAgain
<1>4. CASE bound[P(r)] # run[r].commit
  <2>1. UNCHANGED store /\ Set(r, NextPR(r, "merges", "plan"))
    BY <1>4 DEF RecordAgain
  <2> QED
    BY <1>1, <2>1, NextStep DEF Quiet
<1> QED
  BY <1>3, <1>4

LEMMA RecordTaskMergeStep ==
    ASSUME IInv, NEW r \in Runs, RecordTaskMerge(r)
    PROVE  IInv'
<1>1. /\ Here(r, "record") /\ ~Here(r, "idle")
      /\ UNCHANGED <<forge, journal, lifted, reviewed>>
  BY DEF RecordTaskMerge, Here
<1>2. run[r].commit # 0 /\ server[P(r)].merged = run[r].commit
  BY <1>1 DEF IInv, RunOK, Here, MergedAt
<1>3. CASE bound[P(r)] = run[r].commit
  BY <1>1, <1>2, <1>3, RecordStep DEF RecordTaskMerge
<1>4. CASE bound[P(r)] # run[r].commit
  BY <1>1, <1>4, StopStep DEF RecordTaskMerge
<1> QED
  BY <1>3, <1>4

----------------------------------------------------------------------------
(* The forge, the commit step and the owner *)

\* A step that no run takes.
LEMMA WorldStep ==
    ASSUME IInv, TypeOK', Grows, UNCHANGED run, Reviews', FactIsTrue',
           JournalIsTrue', Journaled'
    PROVE  IInv'
BY RunOKKept DEF IInv

LEMMA CommitBindsStep ==
    ASSUME IInv, NEW p \in PRs, CommitBinds(p)
    PROVE  IInv'
<1>1. /\ UNCHANGED <<forge, journal, lifted, run>> /\ BindPR(p, HeadOf(p))
      /\ reviewed' = reviewed \cup {Work(HeadOf(p))} /\ TypeOK
  BY DEF CommitBinds, IInv
<1>2. HeadOf(p) \in Ids /\ HeadOf(p) \in Nat
  BY <1>1 DEF TypeOK, ForgeType, HeadOf, Pull
<1>3. StoreType'
  BY <1>1, <1>2, BindType DEF TypeOK
<1>4. TypeOK'
  BY <1>1, <1>3 DEF TypeOK, ForgeType, RunType, forge, HeadOf, Ids
<1>5. Grows
  BY <1>1, Frame DEF forge
<1>6. PICK h \in Nat : h = HeadOf(p)
  BY <1>2
<1>7. Known(h)'
  BY <1>1, <1>2, <1>6 DEF Known, Work, Ids, forge
<1>8. Reviews' /\ FactIsTrue'
  BY <1>1, <1>4, <1>5, <1>6, <1>7, BindPROK DEF forge
<1>9. JournalIsTrue' /\ Journaled'
  BY <1>1, <1>5, JournalKept DEF IInv, forge
<1> QED
  BY <1>1, <1>4, <1>5, <1>8, <1>9, WorldStep

LEMMA OwnerLiftsStep ==
    ASSUME IInv, NEW p \in PRs, OwnerLifts(p)
    PROVE  IInv'
<1>1. /\ UNCHANGED <<forge, store, journal, run, reviewed>> /\ TypeOK
      /\ lifted \subseteq lifted'
  BY DEF OwnerLifts, IInv
<1>2. TypeOK'
  BY <1>1 DEF TypeOK, ForgeType, StoreType, RunType, forge, store, HeadOf, Ids
<1>3. Grows
  BY <1>1, Frame DEF forge
<1>4. Reviews' /\ FactIsTrue'
  BY <1>1, <1>2, <1>3, ReviewsKept, FactKept DEF IInv, TypeOK, ForgeType, store
<1>5. JournalIsTrue' /\ Journaled'
  BY <1>1, <1>3, JournalKept DEF IInv, forge
<1> QED
  BY <1>1, <1>2, <1>3, <1>4, <1>5, WorldStep

\* A head pushed comes after the others, which stay as they were.
LEMMA NewHeadType ==
    ASSUME TypeOK, NEW work \in Nat, NEW verdict \in Verdicts, NewHead(work, verdict)
    PROVE  /\ heads' \in Seq(Commit) /\ Len(heads') = Len(heads) + 1
           /\ Len(heads) \in Nat
           /\ \A h \in Ids : h \in Ids' /\ heads'[h] = heads[h]
<1> DEFINE e == [work |-> work, base |-> base.now, verdict |-> verdict]
<1>1. heads \in Seq(Commit) /\ e \in Commit
  BY DEF TypeOK, ForgeType, Commit
<1>2. heads' = Append(heads, e)
  BY DEF NewHead
<1> HIDE DEF e
<1> QED
  BY <1>1, <1>2 DEF Ids

\* A branch moved to a head that was just pushed.
LEMMA MovedHead ==
    ASSUME TypeOK, NEW work \in Nat, NEW verdict \in Verdicts, NewHead(work, verdict),
           NEW p \in PRs, NEW s \in Pull, s.head = Len(heads'),
           s.merged = server[p].merged, server' = [server EXCEPT ![p] = s],
           UNCHANGED <<base, reviewed, lifted, journal>>,
           inflight' = inflight
    PROVE  ForgeType' /\ Grows
<1>1. /\ heads' \in Seq(Commit) /\ Len(heads') = Len(heads) + 1
      /\ Len(heads) \in Nat
      /\ \A h \in Ids : h \in Ids' /\ heads'[h] = heads[h]
  BY NewHeadType
<1>2. server \in [PRs -> Pull]
  BY DEF TypeOK, ForgeType
<1>3. /\ server' \in [PRs -> Pull] /\ server'[p] = s
      /\ \A q \in PRs : q # p => server'[q] = server[q]
  BY <1>2
<1>4. Len(heads') \in Ids'
  BY <1>1 DEF Ids
<1>5. \A q \in PRs : server[q].head \in Ids
  BY DEF TypeOK, ForgeType, HeadOf
<1>6. \A q \in PRs : server'[q].head \in Ids'
  BY <1>1, <1>3, <1>4, <1>5
<1>7. ForgeType'
  BY <1>1, <1>3, <1>6 DEF TypeOK, ForgeType, HeadOf
<1>8. \A q \in PRs : server'[q].head >= server[q].head
  <2> SUFFICES ASSUME NEW q \in PRs PROVE server'[q].head >= server[q].head
    OBVIOUS
  <2>1. server[q].head \in 1 .. Len(heads)
    BY <1>5 DEF Ids
  <2>2. server'[q].head = server[q].head \/ server'[q].head = Len(heads) + 1
    BY <1>1, <1>3
  <2> QED
    BY <1>1, <2>1, <2>2
<1>9. \A q \in PRs : server'[q].merged = server[q].merged
  BY <1>3
<1>10. Len(heads') >= Len(heads)
  BY <1>1
<1> QED
  BY <1>1, <1>7, <1>8, <1>9, <1>10 DEF Grows

LEMMA PushStep ==
    ASSUME IInv, NEW p \in PRs, Push(p)
    PROVE  IInv'
<1>1. TypeOK /\ UNCHANGED <<base, inflight, store, journal, lifted, run, reviewed>>
  BY DEF Push, IInv
<1>2. PICK verdict \in Verdicts : NewHead(Len(heads) + 1, verdict)
  BY DEF Push, Verdicts
<1>3. server \in [PRs -> Pull] /\ server[p] \in Pull
  BY <1>1 DEF TypeOK, ForgeType
<1>4. Len(heads) + 1 \in Nat /\ Len(heads) + 1 \in Nat
  BY <1>1 DEF TypeOK, ForgeType
<1>5. Len(heads') \in Nat
  BY <1>1, <1>2, <1>4, NewHeadType
<1>6. [server[p] EXCEPT !.head = Len(heads')] \in Pull
  BY <1>3, <1>5 DEF Pull
<1>7. PICK s \in Pull : s = [server[p] EXCEPT !.head = Len(heads')]
  BY <1>6
<1>8. s.head = Len(heads') /\ s.merged = server[p].merged
  BY <1>3, <1>7 DEF Pull
<1>9. server' = [server EXCEPT ![p] = s]
  BY <1>7 DEF Push
<1>10. ForgeType' /\ Grows
  BY <1>1, <1>2, <1>4, <1>8, <1>9, MovedHead
<1>11. TypeOK'
  BY <1>1, <1>10 DEF TypeOK, StoreType, RunType, store
<1>12. Reviews' /\ FactIsTrue' /\ JournalIsTrue' /\ Journaled'
  BY <1>1, <1>10, ReviewsKept, FactKept, JournalKept DEF IInv, ForgeType, store
<1> QED
  BY <1>1, <1>10, <1>11, <1>12, WorldStep

\* The server merges a pull request that is open.
LEMMA LandOK ==
    ASSUME IInv, NEW p \in PRs, NEW h \in Nat, Open(p), Land(p, h),
           UNCHANGED <<heads, store, journal, lifted, run, reviewed>>,
           inflight' \subseteq inflight
    PROVE  IInv'
<1>1. TypeOK /\ server \in [PRs -> Pull] /\ server[p] \in Pull
  BY DEF IInv, TypeOK, ForgeType
<1>2. server' = [server EXCEPT ![p] = [server[p] EXCEPT !.merged = h]]
  BY DEF Land
<1>3. [server[p] EXCEPT !.merged = h] \in Pull
  BY <1>1 DEF Pull
<1>4. PICK s \in Pull : s = [server[p] EXCEPT !.merged = h]
  BY <1>3
<1>5. s.head = server[p].head /\ s.merged = h
  BY <1>1, <1>4 DEF Pull
<1>6. /\ server' \in [PRs -> Pull] /\ server'[p] = s
      /\ \A q \in PRs : q # p => server'[q] = server[q]
  BY <1>1, <1>2, <1>4
<1>7. \A q \in PRs : server'[q].head = server[q].head
  BY <1>5, <1>6
<1>8. base' \in [now : Nat, others : Nat]
  <2>1. base \in [now : Nat, others : Nat] /\ base' = [base EXCEPT !.now = @ + 1]
    BY <1>1 DEF TypeOK, ForgeType, Land
  <2> QED
    BY <2>1
<1>9. ForgeType'
  BY <1>1, <1>6, <1>7, <1>8 DEF TypeOK, ForgeType, HeadOf, Ids
<1>10. TypeOK'
  BY <1>1, <1>9 DEF TypeOK, StoreType, RunType, store
<1>11. Grows
  <2>1. Len(heads) \in Nat /\ \A q \in PRs : server[q].head \in Nat
    BY <1>1 DEF TypeOK, ForgeType, Pull
  <2>2. \A q \in PRs : ~Open(q) => server'[q].merged = server[q].merged
    BY <1>6
  <2> QED
    BY <1>7, <2>1, <2>2 DEF Grows
<1>12. Reviews' /\ FactIsTrue' /\ JournalIsTrue' /\ Journaled'
  BY <1>1, <1>9, <1>11, ReviewsKept, FactKept, RequestsKept DEF IInv, ForgeType, store
<1> QED
  BY <1>10, <1>11, <1>12, WorldStep

LEMMA OwnerMergesStep ==
    ASSUME IInv, NEW p \in PRs, OwnerMerges(p)
    PROVE  IInv'
<1>1. PICK h \in Nat : h = HeadOf(p)
  BY DEF IInv, TypeOK, ForgeType, HeadOf, Pull
<1> QED
  BY <1>1, LandOK DEF OwnerMerges

LEMMA MergesStep ==
    ASSUME IInv, NEW request \in inflight, Merges(request)
    PROVE  IInv'
<1>1. /\ TypeOK /\ UNCHANGED <<heads, store, journal, lifted, run, reviewed>>
      /\ inflight' \subseteq inflight
  BY DEF Merges, IInv
<1>2. request.pr \in PRs /\ request.head \in Nat
  BY <1>1 DEF TypeOK, ForgeType
<1>3. CASE Open(request.pr) /\ HeadOf(request.pr) = request.head
  <2>1. Land(request.pr, request.head)
    BY <1>3 DEF Merges
  <2> QED
    BY <1>1, <1>2, <1>3, <2>1, LandOK
<1>4. CASE ~(Open(request.pr) /\ HeadOf(request.pr) = request.head)
  <2>1. UNCHANGED <<server, base>>
    BY <1>4 DEF Merges
  <2>2. TypeOK'
    BY <1>1, <2>1 DEF TypeOK, ForgeType, StoreType, RunType, store, HeadOf, Ids
  <2>3. Grows
    BY <1>1, <2>1, Frame
  <2>4. Reviews' /\ FactIsTrue' /\ JournalIsTrue' /\ Journaled'
    BY <1>1, <2>2, <2>3, ReviewsKept, FactKept, RequestsKept
       DEF IInv, TypeOK, ForgeType, store
  <2> QED
    BY <1>1, <2>2, <2>3, <2>4, WorldStep
<1> QED
  BY <1>3, <1>4

LEMMA BaseMovesStep ==
    ASSUME IInv, BaseMoves
    PROVE  IInv'
<1>1. TypeOK /\ UNCHANGED <<heads, server, inflight, store, journal, lifted, run, reviewed>>
  BY DEF BaseMoves, IInv
<1>2. base' \in [now : Nat, others : Nat]
  <2>1. base.now \in Nat /\ base.others \in Nat
    BY <1>1 DEF TypeOK, ForgeType
  <2> QED
    BY <2>1 DEF BaseMoves
<1>3. TypeOK'
  BY <1>1, <1>2 DEF TypeOK, ForgeType, StoreType, RunType, store, HeadOf, Ids
<1>4. Grows
  BY <1>1, Frame
<1>5. Reviews' /\ FactIsTrue' /\ JournalIsTrue' /\ Journaled'
  BY <1>1, <1>3, <1>4, ReviewsKept, FactKept, JournalKept
     DEF IInv, TypeOK, ForgeType, store
<1> QED
  BY <1>1, <1>3, <1>4, <1>5, WorldStep

\* The run asks the server for the merge it journaled.
LEMMA MergeStep ==
    ASSUME IInv, NEW r \in Runs, Merge(r)
    PROVE  IInv'
<1>1. /\ Here(r, "merge") /\ ~Here(r, "idle")
      /\ UNCHANGED <<heads, server, base, store, journal, lifted, reviewed>>
      /\ inflight' = inflight \cup {Request(r)} /\ Go(r, "wait")
  BY DEF Merge, Here
<1>2. P(r) \in PRs /\ RunOK(r) /\ TypeOK
  BY <1>1 DEF IInv, RunOK
<1>3. run[r] \in Run /\ "wait" \in Places
  BY <1>2 DEF TypeOK, RunType, Places
<1>4. [run[r] EXCEPT !.at = "wait"] \in Run
  BY <1>3 DEF Run
<1>5. PICK n \in Run : n = [run[r] EXCEPT !.at = "wait"]
  BY <1>4
<1>6. n.at = "wait" /\ n.pr = run[r].pr /\ n.bound = run[r].bound
      /\ n.head = run[r].head
  BY <1>3, <1>5 DEF Run
<1>7. Set(r, n)
  BY <1>1, <1>5 DEF Go
<1>8. run[r].head[P(r)] \in journal.intents /\ run[r].head[P(r)] \in Nat
  BY <1>1, <1>2, <1>3 DEF RunOK, Here, Run
<1>9. Request(r) \in [pr : PRs, head : Nat] /\ Request(r).head = run[r].head[P(r)]
  BY <1>2, <1>8 DEF Request
<1>10. inflight' \subseteq [pr : PRs, head : Nat]
  BY <1>1, <1>2, <1>9 DEF TypeOK, ForgeType
<1>11. RunType'
  BY <1>2, <1>7 DEF TypeOK, RunType, Set
<1>12. TypeOK'
  BY <1>1, <1>2, <1>10, <1>11 DEF TypeOK, ForgeType, StoreType, store, HeadOf, Ids
<1>13. Grows
  BY <1>1, <1>2, Frame
<1>14. n.head[n.pr] \in journal'.intents
  BY <1>1, <1>6, <1>8 DEF P
<1>15. RunOK(r)'
  BY <1>1, <1>2, <1>6, <1>7, <1>12, <1>13, <1>14, OnwardOK
<1>16. \A q \in Runs : RunOK(q)'
  BY <1>7, <1>12, <1>13, <1>15, RunsKept
<1>17. \A q \in inflight' : q \in inflight \/ q.head \in journal.intents
  BY <1>1, <1>8, <1>9
<1>18. Reviews' /\ FactIsTrue' /\ JournalIsTrue' /\ Journaled'
  BY <1>1, <1>2, <1>12, <1>13, <1>17, ReviewsKept, FactKept, RequestsKept
     DEF IInv, TypeOK, ForgeType, store
<1> QED
  BY <1>12, <1>16, <1>18 DEF IInv

\* The head that the server rebases is the one the run bound: a reviewed one.
LEMMA RebasedKnown ==
    ASSUME IInv, NEW r \in Runs, Here(r, "rebase"), HeadOf(P(r)) = run[r].head[P(r)]
    PROVE  Known(run[r].head[P(r)])
<1>1. RunOK(r) /\ run[r] \in Run /\ P(r) \in PRs
  BY DEF IInv, TypeOK, RunType, RunOK, Here
<1>2. run[r].head[P(r)] <= run[r].bound[P(r)] /\ run[r].bound[P(r)] <= HeadOf(P(r))
      /\ Known(run[r].bound[P(r)])
  BY <1>1 DEF RunOK, Here
<1>3. run[r].head[P(r)] \in Nat /\ run[r].bound[P(r)] \in Nat
  BY <1>1 DEF Run
<1>4. run[r].bound[P(r)] = run[r].head[P(r)]
  BY <1>2, <1>3
<1> QED
  BY <1>2, <1>4

LEMMA RebaseStep ==
    ASSUME IInv, NEW r \in Runs, Rebase(r)
    PROVE  IInv'
<1>1. /\ Here(r, "rebase") /\ ~Here(r, "idle")
      /\ UNCHANGED <<base, inflight, store, journal, lifted, reviewed>>
  BY DEF Rebase, Here
<1>2. P(r) \in PRs /\ RunOK(r) /\ TypeOK
  BY <1>1 DEF IInv, RunOK
<1> DEFINE p == P(r)
           h == run[r].head[p]
<1>3. CASE ~(Open(p) /\ HeadOf(p) = h)
  <2>1. Stop(r) /\ UNCHANGED <<heads, server>>
    BY <1>3 DEF Rebase
  <2> QED
    BY <1>1, <2>1, StopStep DEF forge
<1>4. CASE Open(p) /\ HeadOf(p) = h
  <2>1. Known(h)
    BY <1>1, <1>4, RebasedKnown
  <2>2. heads \in Seq(Commit) /\ Len(heads) \in Nat
    BY <1>2 DEF TypeOK, ForgeType
  <2>3. Work(h) \in Nat /\ Len(heads) + 1 \in Nat
    <3>1. heads[h] \in Commit
      BY <2>1, <2>2 DEF Known, Ids
    <3> QED
      BY <2>2, <3>1 DEF Commit, Work
  <2>4. PICK work \in {Work(h), Len(heads) + 1}, ci \in {"ok", "red"} :
            NewHead(work, IF heads[h].verdict = "limits" THEN "limits" ELSE ci)
    BY <1>4 DEF Rebase
  <2>5. PICK verdict \in Verdicts : NewHead(work, verdict)
    <3>1. (IF heads[h].verdict = "limits" THEN "limits" ELSE ci) \in Verdicts
      BY DEF Verdicts
    <3> QED
      BY <2>4, <3>1
  <2>6. work \in Nat
    BY <2>3
  <2>7. /\ Len(heads') = Len(heads) + 1
        /\ heads' \in Seq(Commit)
    BY <1>2, <2>5, <2>6, NewHeadType
  <2>8. Len(heads') \in Nat /\ Len(heads') \in Ids'
    BY <2>2, <2>7 DEF Ids
  <2>9. server \in [PRs -> Pull] /\ server[p] \in Pull
    BY <1>2 DEF TypeOK, ForgeType
  <2>10. [server[p] EXCEPT !.head = Len(heads'), !.rebased = @ \cup {Len(heads')}] \in Pull
    BY <2>8, <2>9 DEF Pull
  <2>11. PICK s \in Pull :
             s = [server[p] EXCEPT !.head = Len(heads'), !.rebased = @ \cup {Len(heads')}]
    BY <2>10
  <2>12. s.head = Len(heads') /\ s.merged = server[p].merged
    BY <2>9, <2>11 DEF Pull
  <2>13. server' = [server EXCEPT ![p] = s]
    <3>1. server' = [server EXCEPT ![p].head = Len(heads'),
                                   ![p].rebased = @ \cup {Len(heads')}]
      BY <1>4 DEF Rebase
    <3> QED
      BY <2>9, <2>11, <3>1 DEF Pull
  <2>14. ForgeType' /\ Grows
    BY <1>1, <1>2, <2>5, <2>6, <2>12, <2>13, MovedHead
  <2>15. run[r] \in Run /\ "journal_rebase" \in Places
    BY <1>2 DEF TypeOK, RunType, Places
  <2>16. [run[r] EXCEPT !.at = "journal_rebase", !.new = Len(heads')] \in Run
    BY <2>8, <2>15 DEF Run
  <2>17. PICK n \in Run : n = [run[r] EXCEPT !.at = "journal_rebase", !.new = Len(heads')]
    BY <2>16
  <2>18. n.at = "journal_rebase" /\ n.pr = run[r].pr /\ n.bound = run[r].bound
         /\ n.head = run[r].head /\ n.new = Len(heads')
    BY <2>15, <2>17 DEF Run
  <2>19. Set(r, n)
    BY <1>4, <2>17 DEF Rebase
  <2>20. RunType'
    BY <1>2, <2>19 DEF TypeOK, RunType, Set
  <2>21. TypeOK'
    <3>1. StoreType' /\ (journal \in Log)'
      BY <1>1, <1>2 DEF TypeOK, StoreType, store
    <3> QED
      BY <2>14, <2>20, <3>1 DEF TypeOK
  <2>28. PICK g \in Nat : g = run[r].head[P(r)]
    BY <1>2, <2>15 DEF Run
  <2>22. Known(g)'
    BY <1>2, <2>1, <2>7, <2>14, <2>28, GrowsKnown
  <2>23. n.new \in Ids' /\ Known(n.head[n.pr])'
    BY <2>8, <2>18, <2>22, <2>28 DEF P
  <2>24. RunOK(r)'
    BY <1>1, <1>2, <2>14, <2>18, <2>19, <2>21, <2>23, OnwardOK
  <2>25. \A q \in Runs : RunOK(q)'
    BY <2>14, <2>19, <2>21, <2>24, RunsKept
  <2>26. Reviews' /\ FactIsTrue' /\ JournalIsTrue' /\ Journaled'
    BY <1>1, <1>2, <2>7, <2>14, ReviewsKept, FactKept, JournalKept DEF IInv, store
  <2> QED
    BY <2>21, <2>25, <2>26 DEF IInv
<1> QED
  BY <1>3, <1>4

----------------------------------------------------------------------------
(* The theorems *)

LEMMA InitIInv == Init => IInv
<1> SUFFICES ASSUME Init PROVE IInv
  OBVIOUS
<1>1. NumPRs \in Nat \ {0} /\ PRs = 1 .. NumPRs
  BY MergeTrainAssumption DEF PRs
<1>2. heads = [p \in 1 .. NumPRs |-> [work |-> p, base |-> 0, verdict |-> "ok"]]
  BY <1>1 DEF Init
<1>3. heads \in Seq(Commit) /\ Len(heads) = NumPRs /\ Ids = PRs
  <2>1. \A p \in 1 .. NumPRs : [work |-> p, base |-> 0, verdict |-> "ok"] \in Commit
    BY <1>1 DEF Commit, Verdicts
  <2>2. heads \in [1 .. NumPRs -> Commit]
    BY <1>2, <2>1
  <2> QED
    BY <1>1, <2>2 DEF Ids
<1>4. \A p \in PRs : p \in Nat /\ heads[p].work = p
  BY <1>1, <1>2
<1>5. server = [p \in PRs |-> [head |-> p, merged |-> 0, rebased |-> {}]]
      /\ base = [now |-> 0, others |-> 0] /\ inflight = {}
  BY DEF Init
<1>6. ForgeType
  <2>1. server \in [PRs -> Pull]
    BY <1>4, <1>5 DEF Pull
  <2>2. \A p \in PRs : HeadOf(p) \in Ids
    BY <1>3, <1>5 DEF HeadOf
  <2>3. base \in [now : Nat, others : Nat]
    BY <1>5
  <2> QED
    BY <1>3, <1>5, <2>1, <2>2, <2>3 DEF ForgeType
<1>7. bound = [p \in PRs |-> p] /\ fact = [p \in PRs |-> 0] /\ reviewed = PRs
      /\ lifted = {} /\ run = [r \in Runs |-> Start]
  BY DEF Init
<1>8. StoreType /\ RunType
  BY <1>4, <1>7, StartType DEF StoreType, RunType
<1>9. /\ journal.intents = {} /\ journal.rebinds = {}
      /\ \A p \in PRs : journal.last[p].kind = "none"
      /\ journal \in Log
  <2>1. journal = [last |-> [p \in PRs |-> [kind |-> "none", head |-> 0]],
                   intents |-> {}, rebased |-> {}, rebinds |-> {}]
    BY DEF Init
  <2>2. [p \in PRs |-> [kind |-> "none", head |-> 0]] \in [PRs -> Entry]
    BY DEF Entry
  <2> QED
    BY <2>1, <2>2 DEF Log
<1>10. \A p \in PRs : Known(p)
  BY <1>3, <1>4, <1>7 DEF Known, Work
<1>11. Reviews /\ FactIsTrue /\ JournalIsTrue /\ Journaled
  BY <1>5, <1>7, <1>9, <1>10 DEF Reviews, FactIsTrue, JournalIsTrue, Journaled
<1>12. ASSUME NEW r \in Runs PROVE RunOK(r)
  <2>1. run[r].at = "idle" /\ \A p \in PRs : run[r].head[p] = 0
    BY <1>7 DEF Start
  <2>2. \A p \in PRs : run[r].head[p] <= HeadOf(p)
    BY <1>4, <1>5, <2>1 DEF HeadOf
  <2> QED
    BY <2>1, <2>2 DEF RunOK, Here
<1> QED
  BY <1>6, <1>8, <1>9, <1>11, <1>12 DEF IInv, TypeOK

\* The invariant holds after every step of a run.
LEMMA WorksStep ==
    ASSUME IInv, NEW r \in Runs, Works(r)
    PROVE  IInv'
BY BindTasksStep, ReconcileRebindsStep, FinishRebindStep, ReconcileMergesStep,
   RecordAgainStep, JournalAgainStep, PlanStep, LandPRStep, RebaseStep,
   JournalRebaseStep, ProveStep, JournalRebindStep, RebindStep, CheckPRStep,
   JournalIntentStep, MergeStep, AnsweredStep, RecordTaskMergeStep, JournalMergeStep
   DEF Works

LEMMA StutterStep ==
    ASSUME IInv, UNCHANGED vars
    PROVE  IInv'
BY DEF vars, forge, store, IInv, TypeOK, ForgeType, StoreType, RunType, RunOK, Reviews,
       FactIsTrue, JournalIsTrue, Journaled, Known, Cleared, HeadOf, Open, MergedAt,
       Work, Here, P, Ids

LEMMA NextIInv == IInv /\ [Next]_vars => IInv'
<1> SUFFICES ASSUME IInv, [Next]_vars PROVE IInv'
  OBVIOUS
<1>1. CASE \E r \in Runs : Works(r) \/ Kill(r)
  BY <1>1, WorksStep, KillStep
<1>2. CASE \E p \in PRs : Push(p) \/ CommitBinds(p) \/ OwnerMerges(p) \/ OwnerLifts(p)
  BY <1>2, PushStep, CommitBindsStep, OwnerMergesStep, OwnerLiftsStep
<1>3. CASE \E request \in inflight : Merges(request)
  BY <1>3, MergesStep
<1>4. CASE BaseMoves
  BY <1>4, BaseMovesStep
<1>5. CASE UNCHANGED vars
  BY <1>5, StutterStep
<1> QED
  BY <1>1, <1>2, <1>3, <1>4, <1>5 DEF Next

\* What every run knows, and what the records say, in every reachable state.
THEOREM Knowledge == Spec => []IInv
BY InitIInv, NextIInv, PTL DEF Spec

\* What the task store and the journal say of merges is true of the server,
\* for any number of trains, killed anywhere.
THEOREM RecordsAreTrue == Spec => []RecordsTrue
<1>1. IInv => RecordsTrue
  BY DEF IInv, RecordsTrue
<1> QED
  BY <1>1, Knowledge, PTL

\* The train lands reviewed work only, or what the owner let through.
THEOREM LandsReviewedWork == Spec => []OnlyReviewedWork
<1>1. IInv => OnlyReviewedWork
  BY DEF IInv, Reviews, OnlyReviewedWork, Cleared
<1> QED
  BY <1>1, Knowledge, PTL
=============================================================================
