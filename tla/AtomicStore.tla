---------------------------- MODULE AtomicStore ----------------------------
(***************************************************************************)
(* What the journal of the task store promises: a transaction is there as  *)
(* a whole or not at all, for every reader and after every crash.          *)
(***************************************************************************)
CONSTANTS Tasks, Numbers

VARIABLES
    value,     \* value[t]: the number of the transaction that wrote task t last
    possible   \* the values a power loss may leave

storeVars == <<value, possible>>

StoreInit ==
    /\ value = [t \in Tasks |-> 0]
    /\ possible = {value}

\* Transaction n writes the tasks ts; a power loss may still undo it.
Write(n, ts) ==
    /\ possible = {value}
    /\ value' = [t \in Tasks |-> IF t \in ts THEN n ELSE value[t]]
    /\ possible' = {value, value'}

\* The written transaction became durable.
Harden ==
    /\ possible' = {value}
    /\ UNCHANGED value

PowerFails ==
    /\ value' \in possible
    /\ possible' = {value'}

StoreNext ==
    \/ \E n \in Numbers, ts \in SUBSET Tasks : Write(n, ts)
    \/ Harden
    \/ PowerFails

StoreSpec == StoreInit /\ [][StoreNext]_storeVars
=============================================================================
