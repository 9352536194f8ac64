------------------------------- MODULE AiRun -------------------------------
(***************************************************************************)
(* Runs of AiService: a direct tool that waits for the user's decision, a  *)
(* model's answer, and a work run, whose model proposes commands for one   *)
(* terminal that are reviewed and then run, refused or put to the user.    *)
(*                                                                         *)
(* db is what the repository keeps over a restart, mem what the Runtime    *)
(* has in memory. The code between two awaits is one action. Of a run, its *)
(* last tool call and that call's approval are kept: the calls before are  *)
(* over when it is made.                                                   *)
(***************************************************************************)
EXTENDS Naturals, FiniteSets

CONSTANTS
  Runs,         \* runs a behaviour may start
  Terminals,    \* terminals a work run may be given
  None,
  Capacity,     \* work runs at a time (4)
  MaxSteps,     \* commands of a work run (50)
  MaxRestarts   \* bound: restarts of the Runtime

ASSUME AiAssumption ==
  /\ Capacity \in Nat /\ MaxSteps \in Nat /\ MaxRestarts \in Nat
  /\ None \notin Runs

VARIABLES
  db,        \* of each run: kind, state, the state of its call and its approval
  mem,       \* of each run: what its task awaits, its controller and budget
  target,    \* workTargets: the run that works on a terminal
  life,      \* "open", "closing", "down"
  restarts,
  ran        \* history: how often the call of a run was executed

vars == <<db, mem, target, life, restarts, ran>>

----------------------------------------------------------------------------
Over == {"succeeded", "failed", "canceled"}

\* A work run streams a model's proposals, "command" is one given command.
Work == {"work", "command"}
Kinds == Work \cup {"tool", "read", "model"}

\* "overdue" is a pending approval whose expiresAt has passed.
Undecided == {"pending", "overdue"}

\* task is what the run awaits: the model's stream, the credentials and the
\* target before a command, the review, the user, tools.execute, or the end of
\* the stream after an error. aborted is the reason of the controller.
Idle == [task |-> "none", aborted |-> "no", budget |-> "off", steps |-> 0]

NoRun == [kind |-> "model", state |-> "none", call |-> "none", approval |-> "none"]

Init ==
  /\ db = [r \in Runs |-> NoRun]
  /\ mem = [r \in Runs |-> Idle]
  /\ target = [t \in Terminals |-> None]
  /\ life = "open" /\ restarts = 0
  /\ ran = [r \in Runs |-> 0]

----------------------------------------------------------------------------
Busy(r) == mem[r].task # "none"
Reserved == {t \in Terminals : target[t] # None}
Live(d) == d.state \notin Over

WhateverItWas(state, new) == new
Unless(state, new) == IF state \in Over THEN state ELSE new

\* update(runId, state) and updateToolCall() for those that are not over.
Settled(d, state) ==
  [d EXCEPT !.call = IF @ = "none" THEN @ ELSE Unless(@, state),
            !.state = Unless(@, state)]

\* The catch of executeReviewedCommand and of runModel.
Outcome(aborted) == IF aborted \in {"no", "limit"} THEN "failed" ELSE "canceled"

Reason(m, reason) == IF m.aborted = "no" THEN reason ELSE m.aborted

ResumeForgotten(m) == m
Resumed(m) == [m EXCEPT !.budget = "running"]

\* done() of waitForCommandApproval, called by approve() or by the abort.
Answered(m, task) == [Resumed(m) EXCEPT !.task = task]

\* controller.abort(): a run that waits for the user is settled on the spot, the
\* others find out when what they await answers.
AbortMem(m, reason) ==
  LET a == [m EXCEPT !.aborted = Reason(m, reason)]
  IN IF m.task = "none" THEN m
     ELSE IF m.task = "waiting" THEN Answered(a, "unwinding") ELSE a
AbortDb(d, m, reason) ==
  IF m.task = "waiting" THEN Settled(d, Outcome(reason)) ELSE d

Abort(r, reason) ==
  /\ mem' = [mem EXCEPT ![r] = AbortMem(@, reason)]
  /\ db' = [db EXCEPT ![r] = AbortDb(@, mem[r], reason)]

\* The finally of runModel and of executeTool.
Ends(r) ==
  /\ mem' = [mem EXCEPT ![r] = Idle]
  /\ target' = [t \in Terminals |-> IF target[t] = r THEN None ELSE target[t]]

----------------------------------------------------------------------------
(* start(), invokeRegisteredTool()                                         *)

RoomIsEnough(t) == Cardinality(Reserved) < Capacity
MayWork(t) == Cardinality(Reserved) < Capacity /\ target[t] = None

Started(kind) ==
  LET run == [kind |-> kind, state |-> "running", call |-> "none", approval |-> "none"]
  IN IF kind = "tool"
     THEN [run EXCEPT !.state = "waiting_approval", !.call = "waiting_approval",
                      !.approval = "pending"]
     ELSE IF kind = "read" THEN [run EXCEPT !.call = "running"] ELSE run

Start(r, kind, t) ==
  /\ life = "open" /\ db[r].state = "none"
  /\ db' = [db EXCEPT ![r] = Started(kind)]
  /\ IF kind \in Work
     THEN /\ MayWork(t)
          /\ target' = [target EXCEPT ![t] = r]
     ELSE UNCHANGED target
  /\ mem' = [mem EXCEPT ![r] =
       [@ EXCEPT !.task = CASE kind = "tool" -> "none"
                            [] kind = "read" -> "execute"
                            [] OTHER -> "stream",
                 !.budget = IF kind \in Work THEN "running" ELSE "off"]]
  /\ ran' = [ran EXCEPT ![r] = IF kind = "read" THEN 1 ELSE 0]
  /\ UNCHANGED <<life, restarts>>

----------------------------------------------------------------------------
(* runModel, executeReviewedCommand: one action for what follows an await. *)

Awaits(r, task) == mem[r].task = task /\ life # "down"
Now(r, task) == mem' = [mem EXCEPT ![r].task = task]

\* The command fails: the error goes to the engine, which ends the stream.
CommandError(r) ==
  /\ db' = [db EXCEPT ![r] = Settled(@, Outcome(mem[r].aborted))]
  /\ Now(r, "unwinding")
  /\ UNCHANGED <<target, ran>>

Execute(r) ==
  /\ db' = [db EXCEPT ![r].call = "running", ![r].state = "running"]
  /\ Now(r, "execute")
  /\ ran' = [ran EXCEPT ![r] = @ + 1]
  /\ UNCHANGED target

\* The model proposes a command, or the given one is taken: budget.next().
Propose(r) ==
  /\ Awaits(r, "stream") /\ db[r].kind \in Work
  /\ IF mem[r].aborted # "no" \/ mem[r].steps = MaxSteps
     THEN CommandError(r)
     ELSE /\ mem' = [mem EXCEPT ![r].task = "checks", ![r].steps = @ + 1]
          /\ UNCHANGED <<db, target, ran>>
  /\ UNCHANGED <<life, restarts>>

\* knownAiSecrets() and workspace() answer: the controller is not looked at.
Checked(r) ==
  /\ Awaits(r, "checks")
  /\ \/ CommandError(r)
     \/ /\ db' = [db EXCEPT ![r].call = "proposed", ![r].approval = "none"]
        /\ ran' = [ran EXCEPT ![r] = 0]
        /\ Now(r, "review")
        /\ UNCHANGED target
  /\ UNCHANGED <<life, restarts>>

Asks(r) ==
  /\ db' = [db EXCEPT ![r].call = "waiting_approval", ![r].approval = "pending",
                      ![r].state = "waiting_approval"]
  /\ mem' = [mem EXCEPT ![r].task = "waiting", ![r].budget = "paused"]
  /\ UNCHANGED <<target, ran>>

\* reviewCommand() answers reject (or throws), auto_approve or ask_user.
Reviewed(r) ==
  /\ Awaits(r, "review")
  /\ \/ CommandError(r)
     \/ mem[r].aborted = "no" /\ (Execute(r) \/ Asks(r))
  /\ UNCHANGED <<life, restarts>>

\* tools.execute() answers.
Executed(r) ==
  /\ Awaits(r, "execute")
  /\ IF db[r].kind \in Work
     THEN \/ CommandError(r)
          \/ /\ mem[r].aborted = "no"
             /\ \E result \in {"succeeded", "failed"} :
                  IF db[r].kind = "command"
                  THEN db' = [db EXCEPT ![r].call = result, ![r].state = "succeeded"] /\ Ends(r)
                  ELSE db' = [db EXCEPT ![r].call = result] /\ Now(r, "stream")
                         /\ UNCHANGED target
             /\ UNCHANGED ran
     ELSE /\ IF mem[r].aborted # "no" THEN UNCHANGED db
             ELSE \E result \in {"succeeded", "failed"} :
                    db' = [db EXCEPT ![r].call = result, ![r].state = result]
          /\ Ends(r)
          /\ UNCHANGED ran
  /\ UNCHANGED <<life, restarts>>

\* The stream ends: with the answer, or with an error, its own or the command's.
StreamEnds(r) ==
  /\ Awaits(r, "stream") \/ Awaits(r, "unwinding")
  /\ \/ /\ mem[r].task = "stream" /\ mem[r].aborted = "no" /\ db[r].kind # "command"
        /\ db' = [db EXCEPT ![r].state = "succeeded"]
     \/ db' = [db EXCEPT ![r].state = Unless(@, Outcome(mem[r].aborted))]
  /\ Ends(r)
  /\ UNCHANGED <<life, restarts, ran>>

----------------------------------------------------------------------------
(* The user: cancel(), decideApproval(), approvals().                      *)

\* Cancel also serves deleteConversation().
Canceled(d) ==
  IF Live(d) THEN [Settled(d, "canceled") EXCEPT
                     !.approval = IF @ \in Undecided THEN "rejected" ELSE @]
  ELSE d

Cancel(r) ==
  /\ life = "open" /\ db[r].state # "none"
  /\ mem' = [mem EXCEPT ![r] = AbortMem(@, "canceled")]
  /\ db' = [db EXCEPT ![r] = Canceled(@)]
  /\ UNCHANGED <<target, life, restarts, ran>>

\* The approval, its call and its run still wait for this decision.
Decidable(r) ==
  /\ db[r].approval \in Undecided
  /\ db[r].call = "waiting_approval" /\ db[r].state = "waiting_approval"

\* The waiter of a reviewed command, or the risk of a direct tool.
StillBound(r) == db[r].kind = "tool" \/ mem[r].task = "waiting"

Use(r, approval) ==
  /\ db' = [db EXCEPT ![r].approval = approval,
                      ![r].call = "running", ![r].state = "running"]
  /\ mem' = [mem EXCEPT ![r] =
       IF db[r].kind = "tool" THEN [Idle EXCEPT !.task = "execute"]
       ELSE Answered(@, "execute")]
  /\ ran' = [ran EXCEPT ![r] = @ + 1]
  /\ UNCHANGED <<target, life, restarts>>

Decides(r) ==
  life = "open" /\ Decidable(r) /\ db[r].approval = "pending" /\ StillBound(r)

ApproveUnmarked(r) == Decides(r) /\ Use(r, "pending")
Approve(r) == Decides(r) /\ Use(r, "approved")

Reject(r) ==
  /\ Decides(r)
  /\ mem' = [mem EXCEPT ![r] = AbortMem(@, "canceled")]
  /\ db' = [db EXCEPT ![r] = Canceled(@)]
  /\ UNCHANGED <<target, life, restarts, ran>>

Expired(d) == [Settled(d, "canceled") EXCEPT !.approval = "expired"]

\* A decision that comes too late; the list of approvals does it for all of them.
Expire(late) ==
  /\ db' = [r \in Runs |-> IF r \in late THEN Expired(db[r]) ELSE db[r]]
  /\ mem' = [r \in Runs |-> IF r \in late /\ db[r].kind \in Work
                             THEN AbortMem(mem[r], "expired") ELSE mem[r]]
  /\ UNCHANGED <<target, life, restarts, ran>>

DecideLate(r) ==
  /\ life = "open" /\ Decidable(r) /\ db[r].approval = "overdue"
  /\ Expire({r})

ListApprovals ==
  /\ life = "open"
  /\ \E r \in Runs : db[r].approval = "overdue"
  /\ Expire({r \in Runs : db[r].approval = "overdue"})

----------------------------------------------------------------------------
(* Timers, the target's terminal, close() and restart.                     *)

\* Ten minutes have passed since the approval was asked for.
Clock(r) ==
  /\ life # "down" /\ db[r].approval = "pending"
  /\ db' = [db EXCEPT ![r].approval = "overdue"]
  /\ UNCHANGED <<mem, target, life, restarts, ran>>

\* The timer of waitForCommandApproval.
ApprovalTimer(r) ==
  /\ Awaits(r, "waiting") /\ db[r].approval = "overdue"
  /\ mem' = [mem EXCEPT ![r] = AbortMem(@, "expired")]
  /\ db' = [db EXCEPT ![r] = Expired(@)]
  /\ UNCHANGED <<target, life, restarts, ran>>

\* The 30 minutes of AiWorkBudget.
BudgetTimer(r) ==
  /\ life # "down" /\ mem[r].budget = "running" /\ mem[r].aborted = "no"
  /\ Abort(r, "limit")
  /\ UNCHANGED <<target, life, restarts, ran>>

\* targetTimer: the terminal or its connection is no longer the run's.
TargetLost(r) ==
  /\ life # "down" /\ Busy(r) /\ db[r].kind \in Work /\ mem[r].aborted = "no"
  /\ Abort(r, "target")
  /\ UNCHANGED <<target, life, restarts, ran>>

Close ==
  /\ life = "open" /\ restarts < MaxRestarts
  /\ life' = "closing"
  /\ mem' = [r \in Runs |-> AbortMem(mem[r], "closed")]
  /\ db' = [r \in Runs |-> AbortDb(db[r], mem[r], "closed")]
  /\ UNCHANGED <<target, restarts, ran>>

CloseDone ==
  /\ life = "closing" /\ \A r \in Runs : ~Busy(r)
  /\ life' = "down"
  /\ UNCHANGED <<db, mem, target, restarts, ran>>

\* recoverInterruptedWork()
Recovered(d) ==
  [Settled(d, "failed") EXCEPT !.approval = IF @ \in Undecided THEN "expired" ELSE @,
                               !.state = IF d.state = "none" THEN "none" ELSE @]

\* A crash may strike at any time; the database is what the next Runtime finds.
Restart ==
  /\ restarts < MaxRestarts
  /\ restarts' = restarts + 1
  /\ db' = [r \in Runs |-> Recovered(db[r])]
  /\ mem' = [r \in Runs |-> Idle]
  /\ target' = [t \in Terminals |-> None]
  /\ life' = "open"
  /\ UNCHANGED ran

----------------------------------------------------------------------------
Task(r) == Checked(r) \/ Reviewed(r) \/ Executed(r) \/ StreamEnds(r)

\* What an aborted task awaits answers.
Gives(r) == Task(r) /\ mem[r].aborted # "no"

Next ==
  \/ \E r \in Runs :
       \/ \E kind \in Kinds, t \in Terminals : Start(r, kind, t)
       \/ Propose(r) \/ Checked(r) \/ Reviewed(r) \/ Executed(r) \/ StreamEnds(r)
       \/ Cancel(r) \/ Approve(r) \/ Reject(r) \/ DecideLate(r)
       \/ Clock(r) \/ ApprovalTimer(r) \/ BudgetTimer(r) \/ TargetLost(r)
  \/ ListApprovals \/ Close \/ CloseDone \/ Restart

Spec == Init /\ [][Next]_vars

\* Time passes and the timers fire; the requests of a task take the run's signal,
\* so that they answer once it is aborted; an engine whose command failed ends its
\* stream. Nothing says that a model, a review or a command ever answers.
Fairness ==
  \A r \in Runs :
    /\ WF_vars(Clock(r)) /\ WF_vars(ApprovalTimer(r)) /\ WF_vars(BudgetTimer(r))
    /\ WF_vars(Gives(r))
    /\ WF_vars(mem[r].task = "unwinding" /\ StreamEnds(r))

FairSpec == Spec /\ Fairness /\ WF_vars(CloseDone)

----------------------------------------------------------------------------
RunRows ==
  [kind : Kinds, state : Over \cup {"none", "running", "waiting_approval"},
   call : Over \cup {"none", "proposed", "running", "waiting_approval"},
   approval : Undecided \cup {"none", "approved", "rejected", "expired"}]
RunTasks ==
  [task : {"none", "stream", "checks", "review", "waiting", "execute", "unwinding"},
   aborted : {"no", "canceled", "expired", "limit", "target", "closed"},
   budget : {"off", "running", "paused"}, steps : 0 .. MaxSteps]

TypeOK ==
  /\ db \in [Runs -> RunRows] /\ mem \in [Runs -> RunTasks]
  /\ target \in [Terminals -> Runs \cup {None}]
  /\ life \in {"open", "closing", "down"} /\ restarts \in 0 .. MaxRestarts
  /\ ran \in [Runs -> Nat]

\* A run shown as waiting can be answered: its call and its approval wait too, and
\* a reviewed command still has its waiter. Once a run is over no call of it waits
\* or runs, and when its task is done none is left proposed.
Answerable(r) ==
  /\ db[r].state = "waiting_approval" => Decidable(r) /\ StillBound(r)
  /\ ~Live(db[r]) => db[r].call \notin {"waiting_approval", "running"}
  /\ ~Live(db[r]) /\ ~Busy(r) => db[r].call \in Over \cup {"none"}

\* Terminals are reserved for live work tasks, one each, within the capacity;
\* every one of those tasks has its reservation.
ReservedByWork ==
  /\ Cardinality(Reserved) <= Capacity
  /\ \A r \in Runs : Busy(r) /\ db[r].kind \in Work
       <=> Cardinality({t \in Terminals : target[t] = r}) = 1
  /\ \A t \in Reserved : Busy(target[t])

\* The rows of a run, its call and its approval agree with each other and with
\* the task in memory (decideApproval, cancel, approvals, the catch clauses).
RowsAgree == TypeOK /\ ReservedByWork /\ \A r \in Runs : Answerable(r)

\* A call is executed at most once, and never against its approval: not after
\* a refusal or an expiry, and not before the decision; an approval that was
\* given is used for exactly one execution.
ConsentedOnce ==
  \A r \in Runs :
    /\ ran[r] <= 1
    /\ db[r].approval \in Undecided \cup {"rejected", "expired"} => ran[r] = 0
    /\ db[r].approval = "approved" => ran[r] = 1

\* What was said of a run or a call that is over is not taken back, and no call
\* is executed for a run that is over, by a Runtime that closes, or with an
\* aborted controller: a late review, command or stream changes nothing.
OverIsOver ==
  [][\A r \in Runs :
       /\ ~Live(db[r]) => db'[r].state = db[r].state
       /\ db[r].call \in Over /\ db'[r].call # db[r].call => db'[r].call = "proposed"
       /\ ran'[r] > ran[r] => /\ db[r].state \notin Over /\ mem'[r].aborted = "no"
                              /\ life = "open"]_vars

\* A work run gives its terminal back, whatever the model, the user and the
\* command do: the budget that stops while the user is asked runs on afterwards,
\* and a question ends by its own timer. close() ends too.
ReservationEnds ==
  /\ \A t \in Terminals : target[t] # None ~> target[t] = None
  /\ life = "closing" ~> life # "closing"

=============================================================================
