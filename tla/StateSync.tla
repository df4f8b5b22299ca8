------------------------------ MODULE StateSync ------------------------------
(***************************************************************************)
(* stateSync of sync_context.go: a goroutine for every task of a batch, an *)
(* unbuffered channel for their results, a wait group, and a goroutine     *)
(* that closes the channel when all have sent.  Each statement that another *)
(* goroutine can see is a step.                                            *)
(***************************************************************************)
EXTENDS Integers, FiniteSets

CONSTANTS
    Tasks,      \* the tasks of the largest batch
    NoState     \* no result

RunStates == {"successful", "pending", "failed"}

\* A batch has finitely many tasks, and an empty state is no result.
ASSUME StateSyncAssumption == IsFiniteSet(Tasks) /\ NoState \notin RunStates

VARIABLES
    currentState,   \* currentState of the stateSync
    goroutine,      \* each task's goroutine: none, running, sending, sent
    returned,       \* what each task's function returned
    wg,             \* the wait group's counter
    channel,        \* results: none, open, closed
    closer,         \* the goroutine of Wait: none, waiting, done
    waiter,         \* the caller: away, adding, receiving, joined
    res             \* res of Wait

syncVars == <<currentState, goroutine, returned, wg, channel, closer, waiter, res>>

StateSyncInit ==
    /\ currentState = NoState
    /\ goroutine = [t \in Tasks |-> "none"]
    /\ returned = [t \in Tasks |-> NoState]
    /\ wg = 0
    /\ channel = "none"
    /\ closer = "none"
    /\ waiter = "away"
    /\ res = NoState

\* newStateSync
NewStateSync(state) ==
    /\ waiter = "away"
    /\ currentState' = state
    /\ channel' = "open"
    /\ waiter' = "adding"
    /\ UNCHANGED <<goroutine, returned, wg, closer, res>>

\* The stateSync goes out of scope.
Drop ==
    /\ waiter = "joined"
    /\ currentState' = NoState
    /\ goroutine' = [t \in Tasks |-> IF goroutine[t] = "done" THEN "none" ELSE goroutine[t]]
    /\ returned' = [t \in Tasks |-> NoState]
    /\ channel' = "none"
    /\ closer' = "none"
    /\ waiter' = "away"
    /\ res' = NoState
    /\ UNCHANGED wg

\* Go: wg.Add(1) comes before the goroutine starts.
Go(t) ==
    /\ waiter = "adding"
    /\ goroutine[t] = "none"
    /\ wg' = wg + 1
    /\ goroutine' = [goroutine EXCEPT ![t] = "running"]
    /\ UNCHANGED <<currentState, returned, channel, closer, waiter, res>>

\* The task's function keeps the state it is given, or makes it worse; a hook
\* to be deleted makes it pending, in a batch that begins successful.
RunTask(t) ==
    /\ goroutine[t] = "running"
    /\ \E r \in {currentState, "failed"} \cup
              (IF currentState = "successful" THEN {"pending"} ELSE {}) :
          returned' = [returned EXCEPT ![t] = r]
    /\ goroutine' = [goroutine EXCEPT ![t] = "sending"]
    /\ UNCHANGED <<currentState, wg, channel, closer, waiter, res>>

\* Wait starts the closing goroutine and ranges over the channel.
Wait ==
    /\ waiter = "adding"
    /\ waiter' = "receiving"
    /\ closer' = "waiting"
    /\ res' = currentState
    /\ UNCHANGED <<currentState, goroutine, returned, wg, channel>>

\* The switch of Wait.
FaultyCombine(r, result) == result
Combine(r, result) ==
    CASE r = "failed" -> r
      [] r = "pending" -> IF result = "failed" THEN result ELSE r
      [] r = "successful" -> result

\* The unbuffered channel: the send and the receive are one step.
Receive(t) ==
    /\ waiter = "receiving" /\ channel = "open"
    /\ goroutine[t] = "sending"
    /\ res' = Combine(res, returned[t])
    /\ goroutine' = [goroutine EXCEPT ![t] = "sent"]
    /\ UNCHANGED <<currentState, returned, wg, channel, closer, waiter>>

\* defer s.wg.Done()
GoDone(t) ==
    /\ goroutine[t] = "sent"
    /\ wg' = wg - 1
    /\ goroutine' = [goroutine EXCEPT ![t] = "done"]
    /\ UNCHANGED <<currentState, returned, channel, closer, waiter, res>>

Close ==
    /\ closer = "waiting" /\ wg = 0
    /\ channel' = "closed"
    /\ closer' = "done"
    /\ UNCHANGED <<currentState, goroutine, returned, wg, waiter, res>>

\* The range loop ends when the channel is closed.
Join ==
    /\ waiter = "receiving" /\ channel = "closed"
    /\ waiter' = "joined"
    /\ UNCHANGED <<currentState, goroutine, returned, wg, channel, closer, res>>

TaskStep(t) == Go(t) \/ RunTask(t) \/ Receive(t) \/ GoDone(t)

StateSyncStep == Wait \/ Close \/ Join \/ \E t \in Tasks : TaskStep(t)

-----------------------------------------------------------------------------
(* Correctness                                                              *)

StateSyncTypeOK ==
    /\ currentState \in RunStates \cup {NoState}
    /\ goroutine \in [Tasks -> {"none", "running", "sending", "sent", "done"}]
    /\ returned \in [Tasks -> RunStates \cup {NoState}]
    /\ wg \in 0..Cardinality(Tasks)
    /\ channel \in {"none", "open", "closed"}
    /\ closer \in {"none", "waiting", "done"}
    /\ waiter \in {"away", "adding", "receiving", "joined"}
    /\ res \in RunStates \cup {NoState}

\* The results channel is closed after the last send: no goroutine panics on a
\* closed channel, and none runs on while the next batch is already going.
NoStraggler ==
    /\ channel = "closed" => \A t \in Tasks : goroutine[t] \in {"none", "done"}
    /\ waiter = "away" => wg = 0 /\ \A t \in Tasks : goroutine[t] = "none"

Abstract == INSTANCE Batch WITH
    begun <- currentState,
    members <- {t \in Tasks : goroutine[t] # "none"},
    outcome <- returned,
    result <- IF waiter = "joined" THEN res ELSE NoState

\* stateSync implements Batch: goroutines, wait group and channel together run
\* every task of a batch once and join all of their results, in any order.
ImplementsBatch == Abstract!BatchSpec
=============================================================================
