-------------------------------- MODULE Batch --------------------------------
(* What a parallel batch of a sync promises to runTasks: every task of the    *)
(* batch runs once, and the batch ends after all of them with the worst of    *)
(* their states and the state it began with, whatever the order in which they *)
(* finish.  StateSync implements it.                                          *)

CONSTANTS
    Tasks,      \* the tasks a batch may have
    NoState     \* neither running nor finished

RunStates == {"successful", "pending", "failed"}

\* failed is worse than pending, and pending worse than successful.
Worst(states) ==
    IF "failed" \in states THEN "failed"
    ELSE IF "pending" \in states THEN "pending" ELSE "successful"

VARIABLES
    begun,      \* the state the batch began with, or NoState
    members,    \* the tasks that were handed to it
    outcome,    \* what each task returned
    result      \* what the batch returned

batchVars == <<begun, members, outcome, result>>

BatchInit ==
    /\ begun = NoState
    /\ members = {}
    /\ outcome = [t \in Tasks |-> NoState]
    /\ result = NoState

Begin ==
    /\ begun = NoState
    /\ begun' \in RunStates
    /\ UNCHANGED <<members, outcome, result>>

Hand(t) ==
    /\ begun # NoState /\ result = NoState
    /\ t \notin members
    /\ members' = members \cup {t}
    /\ UNCHANGED <<begun, outcome, result>>

Finish(t) ==
    /\ result = NoState
    /\ t \in members /\ outcome[t] = NoState
    /\ \E r \in {begun, "pending", "failed"} : outcome' = [outcome EXCEPT ![t] = r]
    /\ UNCHANGED <<begun, members, result>>

\* Only when every task of the batch has returned.
Conclude ==
    /\ begun # NoState /\ result = NoState
    /\ \A t \in members : outcome[t] # NoState
    /\ result' = Worst({begun} \cup {outcome[t] : t \in members})
    /\ UNCHANGED <<begun, members, outcome>>

\* The result is used, and the batch forgotten.
Forget ==
    /\ result # NoState
    /\ begun' = NoState
    /\ members' = {}
    /\ outcome' = [t \in Tasks |-> NoState]
    /\ result' = NoState

BatchNext == Begin \/ Conclude \/ Forget \/ \E t \in Tasks : Hand(t) \/ Finish(t)

BatchSpec == BatchInit /\ [][BatchNext]_batchVars
=============================================================================
