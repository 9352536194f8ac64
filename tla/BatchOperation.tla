--------------------------- MODULE BatchOperation ---------------------------
(* Batch operations of BatchOperationService: one list of commands run over  *)
(* many SSH bookmarks by a few workers, each target on a connection of its   *)
(* own.  An operation is known by its place in creation order.  The service  *)
(* saves the row of an operation at every change of it, so 'state', 'target' *)
(* and 'step' are both the row and what the process knows; the variables     *)
(* under "process" are lost when it dies.  A worker is where it awaits:      *)
(*   wait   waitForConnection() sleeps between two looks at the connection   *)
(*   open   exec() has asked the server for a channel                        *)
(*   exec   the command runs and its abort listener is set                   *)
(*   deaf   the command runs, and the abort came before the listener was set *)
(*   delay  the pause after a step                                           *)
(*   close  connections.close() of the target's connection                   *)
(*   next   between two targets;  ended: the worker has returned             *)
(* Counts, times, exit codes and error codes are left out, and so are saves  *)
(* that fail.                                                                *)
EXTENDS Naturals, FiniteSets

CONSTANTS
    Keys,          \* Idempotency-Keys of the create() calls
    Targets,       \* bookmarks of a request, in order 1 .. Targets
    Steps,         \* commands of a request, in order 1 .. Steps
    Continues,     \* the steps with continueOnError
    Delays,        \* the steps with a delay after them
    Concurrency,   \* workers a request asks for
    MaxActive,     \* MAX_ACTIVE_OPERATIONS
    MaxOperations, \* bound: operations ever created
    MaxDeleted,    \* bound: bookmarks deleted
    MaxRestarts    \* bound: ends of the process

ASSUME BatchAssumption ==
    /\ {Targets, Steps, Concurrency, MaxActive} \subseteq Nat \ {0}
    /\ {MaxOperations, MaxDeleted, MaxRestarts} \subseteq Nat
    /\ Continues \subseteq 1 .. Steps
    /\ Delays \subseteq 1 .. Steps

Operations == 1 .. MaxOperations
Indices == 1 .. Targets
Workers == 1 .. (IF Concurrency < Targets THEN Concurrency ELSE Targets)
Unfinished == {"queued", "running", "canceling"}
Completed == {"succeeded", "failed", "canceled", "interrupted"}
Settled == {"succeeded", "failed", "canceled", "skipped"}

VARIABLES
    state,     \* of each operation; "none" before create(), "cleared" after
    target,    \* of each target of each operation
    step,      \* of each step of each target
    receipts,  \* the operation recorded for a key, 0 for none
    active,    \* process: the operations of the active map
    aborted,   \* process: the operations whose signal is aborted
    cursor,    \* process: targets taken by the workers
    work,      \* process: where each worker is
    conn,      \* process: "open" from create() to close() of a connection
    closing,   \* process: closeAll() has begun
    missing,   \* bookmarks that have been deleted
    restarts

rows == <<state, target, step, receipts>>
process == <<active, aborted, cursor, work, conn, closing>>
vars == <<state, target, step, receipts, active, aborted, cursor, work, conn,
          closing, missing, restarts>>

All(value) == [t \in Indices |-> value]
EachStep(value) == [i \in 1 .. Steps |-> value]
Ended == [at |-> "ended", target |-> 0, step |-> 0]
Idle == [at |-> "next", target |-> 0, step |-> 0]

Init ==
    /\ state = [o \in Operations |-> "none"]
    /\ target = [o \in Operations |-> All("queued")]
    /\ step = [o \in Operations |-> All(EachStep("queued"))]
    /\ receipts = [k \in Keys |-> 0]
    /\ active = {}
    /\ aborted = {}
    /\ cursor = [o \in Operations |-> 0]
    /\ work = [o \in Operations |-> [w \in Workers |-> Ended]]
    /\ conn = [o \in Operations |-> All("none")]
    /\ closing = FALSE
    /\ missing = {}
    /\ restarts = 0

-----------------------------------------------------------------------------
(* The parts of runTarget().                                                 *)

At(o, w, places) == o \in active /\ work[o][w].at \in places
Of(o, w) == work[o][w].target
Now(o, w) == work[o][w].step
StepsOf(o, w) == step[o][Of(o, w)]

Goes(o, w, place, i) ==
    work' = [work EXCEPT ![o][w].at = place, ![o][w].step = i]

Save(o, t, value, results) ==
    /\ target' = [target EXCEPT ![o][t] = value]
    /\ step' = [step EXCEPT ![o][t] = results]

(* What the catch of runTarget() makes of the steps that have not finished.  *)
Broken(results, canceled) ==
    [i \in 1 .. Steps |-> IF results[i] \in {"queued", "running"}
                          THEN IF canceled THEN "canceled" ELSE "skipped"
                          ELSE results[i]]

SkipRemaining(results) ==
    [i \in 1 .. Steps |-> IF results[i] = "queued" THEN "skipped" ELSE results[i]]

(* The finally block closes the connection before the worker goes on.        *)
LeavesOpen(o) == IF o \in aborted THEN "next" ELSE "close"
Leaves(o) == "close"

Throws(o, w, results) ==
    /\ Save(o, Of(o, w), IF o \in aborted THEN "canceled" ELSE "failed",
            Broken(results, o \in aborted))
    /\ Goes(o, w, Leaves(o), 0)

(* The head of the loop over the steps.                                      *)
NextStep(o, w, i, results) ==
    \/ /\ i > Steps
       /\ Save(o, Of(o, w),
               IF \E j \in 1 .. Steps : results[j] = "failed"
               THEN "failed" ELSE "succeeded", results)
       /\ Goes(o, w, Leaves(o), 0)
    \/ i <= Steps /\ o \in aborted /\ Throws(o, w, results)
    \/ /\ i <= Steps
       /\ o \notin aborted
       /\ Save(o, Of(o, w), "running", [results EXCEPT ![i] = "running"])
       /\ Goes(o, w, "open", i)

(* Step i is over; those without continueOnError end the target.             *)
AnyContinues(i) == TRUE
MayContinue(i) == i \in Continues

StepEnds(o, w, i, value, delays) ==
    LET results == [StepsOf(o, w) EXCEPT ![i] = value] IN
    IF value = "failed" /\ ~MayContinue(i)
    THEN Throws(o, w, SkipRemaining(results))
    ELSE IF delays /\ i \in Delays /\ i < Steps
         THEN IF o \in aborted
              THEN Throws(o, w, results)
              ELSE /\ Save(o, Of(o, w), target[o][Of(o, w)], results)
                   /\ Goes(o, w, "delay", i)
         ELSE NextStep(o, w, i + 1, results)

-----------------------------------------------------------------------------
(* Calls of the user.                                                        *)

NewOperation == {o \in Operations : state[o] = "none" /\ \A p \in 1 .. o - 1 : state[p] # "none"}

(* create() with a new key: the row, the receipt, and the workers up to      *)
(* their first await.  The host of a 'refused' target cannot be connected.   *)
Create(k, o, refused) ==
    /\ ~closing
    /\ receipts[k] = 0
    /\ Cardinality(active) < MaxActive
    /\ missing = {}
    /\ o \in NewOperation
    /\ receipts' = [receipts EXCEPT ![k] = o]
    /\ state' = [state EXCEPT ![o] = "running"]
    /\ active' = active \union {o}
    /\ cursor' = [cursor EXCEPT ![o] = Cardinality(Workers)]
    /\ target' = [target EXCEPT ![o] = [t \in Indices |->
           IF t \in refused THEN "failed" ELSE IF t \in Workers THEN "connecting" ELSE "queued"]]
    /\ step' = [step EXCEPT ![o] = [t \in Indices |->
           IF t \in refused THEN Broken(step[o][t], FALSE) ELSE step[o][t]]]
    /\ work' = [work EXCEPT ![o] = [w \in Workers |->
           IF w \in refused THEN Idle ELSE [at |-> "wait", target |-> w, step |-> 0]]]
    /\ conn' = [conn EXCEPT ![o] = [t \in Indices |->
           IF t \in Workers \ refused THEN "open" ELSE "none"]]
    /\ UNCHANGED <<aborted, closing, missing, restarts>>

Cancel(o) ==
    /\ ~closing
    /\ o \in active \ aborted
    /\ aborted' = aborted \union {o}
    /\ state' = [state EXCEPT ![o] = "canceling"]
    /\ UNCHANGED <<target, step, receipts, active, cursor, work, conn, closing, missing, restarts>>

ClearCompleted ==
    /\ ~closing
    /\ \E o \in Operations : state[o] \in Completed
    /\ state' = [o \in Operations |-> IF state[o] \in Completed THEN "cleared" ELSE state[o]]
    /\ UNCHANGED <<target, step, receipts, process, missing, restarts>>

(* Only a bookmark that an operation has still to look up plays a part.      *)
DeleteBookmark(t) ==
    /\ Cardinality(missing) < MaxDeleted
    /\ \E o \in active \ aborted : t > cursor[o]
    /\ missing' = missing \union {t}
    /\ UNCHANGED <<rows, process, restarts>>

-----------------------------------------------------------------------------
(* What a worker does when its await settles.                                *)

Continue(o, w) == UNCHANGED <<state, receipts, active, aborted, closing, missing, restarts>>

(* The loop of run(): the next target, until the abort.                      *)
NextTarget(o, w) ==
    /\ At(o, w, {"next"})
    /\ o \notin aborted
    /\ cursor[o] < Targets
    /\ LET t == cursor[o] + 1 IN
       /\ cursor' = [cursor EXCEPT ![o] = t]
       /\ \/ /\ t \in missing
             /\ Save(o, t, "failed", step[o][t])
             /\ UNCHANGED <<work, conn>>
          \/ /\ t \notin missing
             /\ Save(o, t, "failed", Broken(step[o][t], FALSE))
             /\ UNCHANGED <<work, conn>>
          \/ /\ t \notin missing
             /\ Save(o, t, "connecting", step[o][t])
             /\ work' = [work EXCEPT ![o][w] = [at |-> "wait", target |-> t, step |-> 0]]
             /\ conn' = [conn EXCEPT ![o][t] = "open"]
    /\ Continue(o, w)

WorkerEnds(o, w) ==
    /\ At(o, w, {"next"})
    /\ o \in aborted \/ cursor[o] = Targets
    /\ work' = [work EXCEPT ![o][w] = Ended]
    /\ UNCHANGED <<target, step, cursor, conn>>
    /\ Continue(o, w)

Connected(o, w) ==
    /\ At(o, w, {"wait"})
    /\ o \notin aborted
    /\ NextStep(o, w, 1, StepsOf(o, w))
    /\ UNCHANGED <<cursor, conn>>
    /\ Continue(o, w)

(* The connection fails, or is closed by the user, or the deadline passes.   *)
ConnectFails(o, w) ==
    /\ At(o, w, {"wait"})
    /\ o \notin aborted
    /\ Throws(o, w, StepsOf(o, w))
    /\ UNCHANGED <<cursor, conn>>
    /\ Continue(o, w)

(* The server opens the channel.  exec() adds its abort listener only now.   *)
ChannelOpens(o, w) ==
    /\ At(o, w, {"open"})
    /\ Goes(o, w, IF o \in aborted THEN "deaf" ELSE "exec", Now(o, w))
    /\ UNCHANGED <<target, step, cursor, conn>>
    /\ Continue(o, w)

CommandEnds(o, w) ==
    /\ At(o, w, {"exec", "deaf"})
    /\ \E value \in {"succeeded", "failed"} : StepEnds(o, w, Now(o, w), value, TRUE)
    /\ UNCHANGED <<cursor, conn>>
    /\ Continue(o, w)

(* exec() rejects: the connection is not ready or lost, or there is too much *)
(* output.                                                                   *)
ExecFails(o, w) ==
    /\ At(o, w, {"open", "exec", "deaf"})
    /\ IF o \in aborted
       THEN Throws(o, w, StepsOf(o, w))
       ELSE StepEnds(o, w, Now(o, w), "failed", FALSE)
    /\ UNCHANGED <<cursor, conn>>
    /\ Continue(o, w)

DelayEnds(o, w) ==
    /\ At(o, w, {"delay"})
    /\ NextStep(o, w, Now(o, w) + 1, StepsOf(o, w))
    /\ UNCHANGED <<cursor, conn>>
    /\ Continue(o, w)

(* Where the abort signal ends an await.                                     *)
InterruptibleWaits == {"wait", "delay"}
Interruptible == {"wait", "exec", "delay"}

Aborts(o, w) ==
    /\ o \in aborted
    /\ At(o, w, Interruptible)
    /\ Throws(o, w, StepsOf(o, w))
    /\ UNCHANGED <<cursor, conn>>
    /\ Continue(o, w)

ConnectionClosed(o, w) ==
    /\ At(o, w, {"close"})
    /\ conn' = [conn EXCEPT ![o][Of(o, w)] = "none"]
    /\ work' = [work EXCEPT ![o][w] = Idle]
    /\ UNCHANGED <<target, step, cursor>>
    /\ Continue(o, w)

(* The finally block of run().                                               *)
QueuedTargets(values, canceled) == values
CanceledTargets(values, canceled) ==
    [t \in Indices |-> IF canceled /\ values[t] = "queued" THEN "canceled" ELSE values[t]]

Finish(o) ==
    /\ o \in active
    /\ \A w \in Workers : work[o][w].at = "ended"
    /\ LET targets == CanceledTargets(target[o], o \in aborted) IN
       /\ target' = [target EXCEPT ![o] = targets]
       /\ step' = [step EXCEPT ![o] = [t \in Indices |->
              IF targets[t] # target[o][t] THEN EachStep("canceled") ELSE step[o][t]]]
       /\ state' = [state EXCEPT ![o] =
              IF o \in aborted THEN "canceled"
              ELSE IF targets = All("succeeded") THEN "succeeded" ELSE "failed"]
    /\ active' = active \ {o}
    /\ UNCHANGED <<receipts, aborted, cursor, work, conn, closing, missing, restarts>>

-----------------------------------------------------------------------------
(* The end of the process, and the recovery of the rows.                     *)

CloseAll ==
    /\ ~closing
    /\ closing' = TRUE
    /\ aborted' = aborted \union active
    /\ UNCHANGED <<rows, active, cursor, work, conn, missing, restarts>>

RecoveredTarget(value) ==
    IF value \in {"queued", "connecting", "running"} THEN "failed" ELSE value

Recovered(states) ==
    /\ state' = [o \in Operations |->
           IF states[o] \in Unfinished THEN "interrupted" ELSE states[o]]
    /\ target' = [o \in Operations |-> [t \in Indices |->
           IF states[o] \in Unfinished THEN RecoveredTarget(target[o][t]) ELSE target[o][t]]]
    /\ step' = [o \in Operations |-> [t \in Indices |->
           IF states[o] \in Unfinished /\ target[o][t] # RecoveredTarget(target[o][t])
           THEN Broken(step[o][t], TRUE) ELSE step[o][t]]]
    /\ active' = {}
    /\ aborted' = {}
    /\ cursor' = [o \in Operations |-> 0]
    /\ work' = [o \in Operations |-> [w \in Workers |-> Ended]]
    /\ conn' = [o \in Operations |-> All("none")]
    /\ closing' = FALSE
    /\ restarts' = restarts + 1
    /\ UNCHANGED <<receipts, missing>>

Restart ==
    /\ restarts < MaxRestarts
    /\ Recovered(state)

(* The process dies in create(), between the row and its receipt.            *)
RestartInCreate(k, o) ==
    /\ restarts < MaxRestarts
    /\ ~closing
    /\ receipts[k] = 0
    /\ Cardinality(active) < MaxActive
    /\ missing = {}
    /\ o \in NewOperation
    /\ Recovered([state EXCEPT ![o] = "queued"])

-----------------------------------------------------------------------------
WorkerStep(o, w) ==
    \/ NextTarget(o, w)
    \/ WorkerEnds(o, w)
    \/ Connected(o, w)
    \/ ConnectFails(o, w)
    \/ ChannelOpens(o, w)
    \/ CommandEnds(o, w)
    \/ ExecFails(o, w)
    \/ DelayEnds(o, w)
    \/ Aborts(o, w)
    \/ ConnectionClosed(o, w)

Next ==
    \/ \E k \in Keys, o \in Operations, refused \in SUBSET Workers : Create(k, o, refused)
    \/ \E k \in Keys, o \in Operations : RestartInCreate(k, o)
    \/ \E o \in Operations, w \in Workers : WorkerStep(o, w)
    \/ \E o \in Operations : Cancel(o) \/ Finish(o)
    \/ \E t \in Indices : DeleteBookmark(t)
    \/ ClearCompleted
    \/ CloseAll
    \/ Restart

Spec == Init /\ [][Next]_vars

(* Every wait has a deadline, the server answers a request for a channel or  *)
(* the connection ends, close() of a connection ends, an abort is heard.  A  *)
(* command need not end, and nothing makes a user act.                       *)
Settles(o, w) ==
    \/ NextTarget(o, w)
    \/ WorkerEnds(o, w)
    \/ ConnectFails(o, w)
    \/ ChannelOpens(o, w)
    \/ DelayEnds(o, w)
    \/ Aborts(o, w)
    \/ ConnectionClosed(o, w)

Fairness ==
    \A o \in Operations :
        WF_vars(Finish(o)) /\ \A w \in Workers : WF_vars(Settles(o, w))

FairSpec == Spec /\ Fairness

-----------------------------------------------------------------------------
(* The steps of a target run one at a time and in order, and nothing runs    *)
(* after a step that failed and does not let the target go on: runTarget().  *)
StepsInOrder ==
    \A o \in Operations, t \in Indices, i, j \in 1 .. Steps :
        i < j /\ step[o][t][j] \in {"running", "succeeded", "failed"} =>
            \/ step[o][t][i] = "succeeded"
            \/ step[o][t][i] = "failed" /\ i \in Continues

(* Every connection made for a target has a worker that is still going to    *)
(* close it, whatever ends the target; when an operation is over none is     *)
(* left (runTarget(): finally).                                              *)
ConnectionsOwned ==
    \A o \in Operations, t \in Indices : conn[o][t] # "none" =>
        \E w \in Workers :
            At(o, w, {"wait", "open", "exec", "deaf", "delay", "close"}) /\ Of(o, w) = t

(* The row tells what happened: one that is over has no target or step left  *)
(* under way, except the steps of a target whose bookmark was deleted, which *)
(* stay queued; it is succeeded exactly when all targets are, these when all *)
(* their steps are; and only rows of running operations are not over.        *)
OutcomeHonest ==
    \A o \in Operations :
        /\ o \in active <=> state[o] \in Unfinished
        /\ state[o] = "canceling" => o \in aborted
        /\ state[o] \in Completed => \A t \in Indices :
              /\ target[o][t] \in Settled
              /\ \/ \A i \in 1 .. Steps : step[o][t][i] \in Settled
                 \/ target[o][t] = "failed" /\ step[o][t] = EachStep("queued")
        /\ state[o] = "succeeded" => target[o] = All("succeeded")
        /\ state[o] = "failed" => target[o] # All("succeeded")
        /\ \A t \in Indices : target[o][t] = "succeeded" => step[o][t] = EachStep("succeeded")

Deaf(o) == \E w \in Workers : At(o, w, {"deaf"})

(* A canceled operation ends, and so does one the runtime shuts down, unless *)
(* a command runs that did not hear the abort: cancel(), closeAll().         *)
CancelEnds ==
    \A o \in Operations : o \in aborted /\ o \in active ~> o \notin active \/ Deaf(o)

(* docs/architecture/MASTER_SPEC.md:1328 asks that a cancel aborts targets    *)
(* that connect, wait, pause or execute and closes all their connections.    *)
CancelAborts ==
    \A o \in Operations : state[o] = "canceling" ~> o \notin active
=============================================================================
