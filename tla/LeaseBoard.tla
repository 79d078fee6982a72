----------------------------- MODULE LeaseBoard -----------------------------
(***************************************************************************)
(* What the task store promises the rest of the squad.  A task that runs   *)
(* holds one seat and locks its files; no seat and no file is ever held by *)
(* two tasks; a closed task never runs again.                              *)
(***************************************************************************)
CONSTANTS TaskIds, Seats, Paths, None

VARIABLES
    hold,    \* hold[t]: the seat task t keeps busy, or None
    files,   \* files[t]: the files of task t
    closed   \* the tasks that are over

boardVars == <<hold, files, closed>>

BoardInit ==
    /\ hold = [t \in TaskIds |-> None]
    /\ files = [t \in TaskIds |-> {}]
    /\ closed = {}

Clash(t, fs) == \E o \in TaskIds \ {t} : hold[o] # None /\ fs \cap files[o] # {}

\* A seat that holds nothing takes a task whose files nobody holds.
Take(t, s) ==
    /\ t \notin closed
    /\ hold[t] = None
    /\ \A o \in TaskIds : hold[o] # s
    /\ ~Clash(t, files[t])
    /\ hold' = [hold EXCEPT ![t] = s]
    /\ UNCHANGED <<files, closed>>

\* The files of an open task change; a running task only grows into free files.
Scope(t, fs) ==
    /\ t \notin closed
    /\ hold[t] # None => files[t] \subseteq fs /\ ~Clash(t, fs)
    /\ files' = [files EXCEPT ![t] = fs]
    /\ UNCHANGED <<hold, closed>>

\* Some tasks give their seats back.
Drop(ts) ==
    /\ hold' = [t \in TaskIds |-> IF t \in ts THEN None ELSE hold[t]]
    /\ UNCHANGED <<files, closed>>

Close(t) ==
    /\ t \notin closed
    /\ hold' = [hold EXCEPT ![t] = None]
    /\ closed' = closed \cup {t}
    /\ UNCHANGED files

BoardNext ==
    \/ \E t \in TaskIds, s \in Seats : Take(t, s)
    \/ \E t \in TaskIds, fs \in SUBSET Paths : Scope(t, fs)
    \/ \E ts \in SUBSET TaskIds : Drop(ts)
    \/ \E t \in TaskIds : Close(t)

BoardSpec == BoardInit /\ [][BoardNext]_boardVars
=============================================================================
