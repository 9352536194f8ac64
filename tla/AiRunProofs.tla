---------------------------- MODULE AiRunProofs ----------------------------
(***************************************************************************)
(* Proofs about AiRun, for every set of runs and terminals, every capacity *)
(* and every bound.                                                        *)
(***************************************************************************)
EXTENDS AiRun, FiniteSetTheorems, TLAPS

-----------------------------------------------------------------------------
(* Type correctness                                                        *)

(* Settling rows leaves rows.                                              *)
LEMMA SettledRows ==
    ASSUME NEW d \in RunRows
    PROVE  /\ \A state \in Over : Settled(d, state) \in RunRows
           /\ Canceled(d) \in RunRows /\ Expired(d) \in RunRows /\ Recovered(d) \in RunRows
           /\ \A m, reason : AbortDb(d, m, reason) \in RunRows
<1>1. \A s \in Over : Settled(d, s) \in RunRows
  BY ZenonT(60) DEF Settled, Unless, RunRows, Over
<1>2. Canceled(d) \in RunRows /\ Expired(d) \in RunRows
  BY <1>1 DEF Canceled, Expired, RunRows, Over, Undecided
<1>3. Recovered(d) \in RunRows
  <2> DEFINE e == Settled(d, "failed")
  <2>1. e \in RunRows
    BY <1>1 DEF Over
  <2> HIDE DEF e
  <2>2. [e EXCEPT !.approval = IF @ \in Undecided THEN "expired" ELSE @,
                  !.state = IF d.state = "none" THEN "none" ELSE @] \in RunRows
    BY <2>1, ZenonT(60) DEF RunRows, Undecided
  <2> QED
    BY <2>2 DEF Recovered, e
<1>4. \A m, reason : AbortDb(d, m, reason) \in RunRows
  BY <1>1 DEF AbortDb, Outcome, Over
<1> QED
  BY <1>1, <1>2, <1>3, <1>4

(* Aborting a controller leaves a task.                                    *)
LEMMA AbortTasks ==
    ASSUME NEW m \in RunTasks, NEW reason \in {"canceled", "expired", "limit", "target", "closed"}
    PROVE  AbortMem(m, reason) \in RunTasks
BY DEF AbortMem, Reason, Answered, Resumed, RunTasks

(* A step keeps the types.                                                 *)
LEMMA TypeStep == TypeOK /\ [Next]_vars => TypeOK'
<1> SUFFICES ASSUME TypeOK, [Next]_vars PROVE TypeOK'
  OBVIOUS
<1> USE AiAssumption
<1>i. Idle \in RunTasks
  BY DEF Idle, RunTasks
<1>d. \A r \in Runs : db[r] \in RunRows /\ mem[r] \in RunTasks
  BY DEF TypeOK
<1>s. ASSUME NEW r \in Runs
      PROVE  /\ \A state \in Over : Settled(db[r], state) \in RunRows
             /\ Canceled(db[r]) \in RunRows /\ Expired(db[r]) \in RunRows
             /\ Recovered(db[r]) \in RunRows
             /\ \A m, reason : AbortDb(db[r], m, reason) \in RunRows
             /\ \A reason \in {"canceled", "expired", "limit", "target", "closed"} :
                  AbortMem(mem[r], reason) \in RunTasks
  BY <1>d, SettledRows, AbortTasks
<1>t. ASSUME NEW r \in Runs, NEW m \in RunTasks
      PROVE  [mem EXCEPT ![r] = m] \in [Runs -> RunTasks]
  BY DEF TypeOK
<1>r. ASSUME NEW r \in Runs, NEW d \in RunRows
      PROVE  [db EXCEPT ![r] = d] \in [Runs -> RunRows]
  BY DEF TypeOK
<1>n. ASSUME NEW r \in Runs,
             NEW task \in {"none", "stream", "checks", "review", "waiting", "execute", "unwinding"},
             Now(r, task)
      PROVE  mem' \in [Runs -> RunTasks]
  <2>1. [mem[r] EXCEPT !.task = task] \in RunTasks
    BY <1>d DEF RunTasks
  <2> QED
    BY <2>1, <1>t, <1>n DEF Now
<1>e. ASSUME NEW r \in Runs, Ends(r)
      PROVE  mem' \in [Runs -> RunTasks] /\ target' \in [Terminals -> Runs \cup {None}]
  BY <1>e, <1>t, <1>i DEF Ends, TypeOK
<1>c. ASSUME NEW r \in Runs, CommandError(r), UNCHANGED <<life, restarts>>
      PROVE  TypeOK'
  <2>1. Settled(db[r], Outcome(mem[r].aborted)) \in RunRows
    BY <1>s DEF Outcome, Over
  <2> QED
    BY <2>1, <1>r, <1>n, <1>c DEF CommandError, TypeOK
<1>x. ASSUME NEW r \in Runs, Execute(r), UNCHANGED <<life, restarts>>
      PROVE  TypeOK'
  <2>1. [db[r] EXCEPT !.call = "running", !.state = "running"] \in RunRows
    BY <1>d DEF RunRows
  <2>2. db' = [db EXCEPT ![r] = [db[r] EXCEPT !.call = "running", !.state = "running"]]
    BY <1>x DEF Execute, TypeOK
  <2> QED
    BY <2>1, <2>2, <1>r, <1>n, <1>x DEF Execute, TypeOK
<1>1. ASSUME NEW r \in Runs, NEW kind \in Kinds, NEW t \in Terminals, Start(r, kind, t)
      PROVE  TypeOK'
  <2>1. Started(kind) \in RunRows
    BY <1>1 DEF Started, RunRows, Kinds, Work, Undecided
  <2>2. mem' \in [Runs -> RunTasks]
    <3>1. [mem[r] EXCEPT !.task = CASE kind = "tool" -> "none"
                                    [] kind = "read" -> "execute"
                                    [] OTHER -> "stream",
                         !.budget = IF kind \in Work THEN "running" ELSE "off"] \in RunTasks
      BY <1>1, <1>d DEF RunTasks
    <3> QED
      BY <3>1, <1>1, <1>t DEF Start
  <2> QED
    BY <1>1, <2>1, <2>2, <1>r DEF Start, TypeOK
<1>2. ASSUME NEW r \in Runs, Propose(r)
      PROVE  TypeOK'
  <2>1. CASE CommandError(r)
    BY <2>1, <1>c, <1>2 DEF Propose
  <2>2. CASE ~CommandError(r)
    <3>0. mem[r].steps \in 0 .. MaxSteps /\ mem[r].steps # MaxSteps
      BY <1>2, <2>2, <1>d DEF Propose, RunTasks
    <3>1. [mem[r] EXCEPT !.task = "checks", !.steps = @ + 1] \in RunTasks
      <4>1. mem[r].steps + 1 \in 0 .. MaxSteps
        BY <3>0
      <4> QED
        BY <4>1, <1>d DEF RunTasks
    <3>2. mem' = [mem EXCEPT ![r] = [mem[r] EXCEPT !.task = "checks", !.steps = @ + 1]]
      BY <1>2, <2>2 DEF Propose, TypeOK
    <3> QED
      BY <3>1, <3>2, <1>t, <1>2, <2>2 DEF Propose, TypeOK
  <2> QED
    BY <2>1, <2>2
<1>3. ASSUME NEW r \in Runs, Checked(r)
      PROVE  TypeOK'
  <2>1. CASE CommandError(r)
    BY <2>1, <1>c, <1>3 DEF Checked
  <2>2. CASE ~CommandError(r)
    <3>1. [db[r] EXCEPT !.call = "proposed", !.approval = "none"] \in RunRows
      BY <1>d DEF RunRows
    <3>2. db' = [db EXCEPT ![r] = [db[r] EXCEPT !.call = "proposed", !.approval = "none"]]
      BY <1>3, <2>2 DEF Checked, TypeOK
    <3> QED
      BY <3>1, <3>2, <1>r, <1>n, <1>3, <2>2 DEF Checked, TypeOK
  <2> QED
    BY <2>1, <2>2
<1>4. ASSUME NEW r \in Runs, Reviewed(r)
      PROVE  TypeOK'
  <2>1. CASE CommandError(r) \/ Execute(r)
    BY <2>1, <1>c, <1>x, <1>4 DEF Reviewed
  <2>2. CASE Asks(r)
    <3>1. [db[r] EXCEPT !.call = "waiting_approval", !.approval = "pending",
                        !.state = "waiting_approval"] \in RunRows
      BY <1>d DEF RunRows, Undecided
    <3>2. [mem[r] EXCEPT !.task = "waiting", !.budget = "paused"] \in RunTasks
      BY <1>d DEF RunTasks
    <3>3. /\ db' \in [Runs -> RunRows]
          /\ mem' \in [Runs -> RunTasks]
      BY <3>1, <3>2, <2>2 DEF Asks, TypeOK
    <3> QED
      BY <3>3, <1>4, <2>2 DEF Asks, Reviewed, TypeOK
  <2> QED
    BY <2>1, <2>2, <1>4 DEF Reviewed
<1>5. ASSUME NEW r \in Runs, Executed(r)
      PROVE  TypeOK'
  <2>1. CASE CommandError(r) /\ db[r].kind \in Work
    BY <2>1, <1>c, <1>5 DEF Executed
  <2>2. ASSUME NEW result \in {"succeeded", "failed"}
        PROVE  /\ [db EXCEPT ![r].call = result, ![r].state = "succeeded"] \in [Runs -> RunRows]
               /\ [db EXCEPT ![r].call = result, ![r].state = result] \in [Runs -> RunRows]
               /\ [db EXCEPT ![r].call = result] \in [Runs -> RunRows]
    <3>1. /\ [db[r] EXCEPT !.call = result, !.state = "succeeded"] \in RunRows
          /\ [db[r] EXCEPT !.call = result, !.state = result] \in RunRows
          /\ [db[r] EXCEPT !.call = result] \in RunRows
      BY <2>2, <1>d DEF RunRows, Over
    <3> QED
      BY <3>1 DEF TypeOK
  <2>3. CASE ~(CommandError(r) /\ db[r].kind \in Work)
    <3>1. db' \in [Runs -> RunRows]
      BY <2>2, <2>3, <1>5 DEF Executed, TypeOK
    <3>2. mem' \in [Runs -> RunTasks] /\ target' \in [Terminals -> Runs \cup {None}]
      BY <2>3, <1>5, <1>e, <1>n DEF Executed, TypeOK
    <3> QED
      BY <3>1, <3>2, <2>3, <1>5 DEF Executed, TypeOK
  <2> QED
    BY <2>1, <2>3
<1>6. ASSUME NEW r \in Runs, StreamEnds(r)
      PROVE  TypeOK'
  <2>1. [db EXCEPT ![r].state = "succeeded"] \in [Runs -> RunRows]
    BY <1>d DEF TypeOK, RunRows, Over
  <2>2. [db EXCEPT ![r].state = Unless(@, Outcome(mem[r].aborted))] \in [Runs -> RunRows]
    BY <1>d DEF TypeOK, RunRows, Over, Unless, Outcome
  <2>3. db' \in [Runs -> RunRows]
    BY <2>1, <2>2, <1>6 DEF StreamEnds
  <2> QED
    BY <2>3, <1>6, <1>e DEF StreamEnds, TypeOK
<1>7. ASSUME NEW r \in Runs, Cancel(r) \/ Reject(r)
      PROVE  TypeOK'
  BY <1>7, <1>s, <1>t, <1>r DEF Cancel, Reject, TypeOK
<1>8. ASSUME NEW r \in Runs, Approve(r)
      PROVE  TypeOK'
  <2>1. [db EXCEPT ![r].approval = "approved", ![r].call = "running", ![r].state = "running"]
          \in [Runs -> RunRows]
    <3>1. [db[r] EXCEPT !.approval = "approved", !.call = "running", !.state = "running"]
            \in RunRows
      BY <1>d DEF RunRows
    <3> QED
      BY <3>1 DEF TypeOK
  <2>2. (IF db[r].kind = "tool" THEN [Idle EXCEPT !.task = "execute"]
         ELSE Answered(mem[r], "execute")) \in RunTasks
    BY <1>d, <1>i DEF Answered, Resumed, RunTasks
  <2>3. mem' \in [Runs -> RunTasks]
    BY <2>2, <1>t, <1>8 DEF Approve, Use
  <2> QED
    BY <2>1, <2>3, <1>8 DEF Approve, Use, TypeOK
<1>9. ASSUME NEW late \in SUBSET Runs, Expire(late)
      PROVE  TypeOK'
  <2>1. db' \in [Runs -> RunRows]
    BY <1>9, <1>s, <1>d DEF Expire
  <2>2. mem' \in [Runs -> RunTasks]
    BY <1>9, <1>s, <1>d DEF Expire
  <2> QED
    BY <2>1, <2>2, <1>9 DEF Expire, TypeOK
<1>10. ASSUME NEW r \in Runs, Clock(r)
       PROVE  TypeOK'
  <2>1. [db EXCEPT ![r].approval = "overdue"] \in [Runs -> RunRows]
    BY <1>d DEF TypeOK, RunRows, Undecided
  <2> QED
    BY <2>1, <1>10 DEF Clock, TypeOK
<1>11. ASSUME NEW r \in Runs, ApprovalTimer(r)
       PROVE  TypeOK'
  BY <1>11, <1>s, <1>t, <1>r DEF ApprovalTimer, TypeOK
<1>12. ASSUME NEW r \in Runs, BudgetTimer(r) \/ TargetLost(r)
       PROVE  TypeOK'
  BY <1>12, <1>s, <1>t, <1>r DEF BudgetTimer, TargetLost, Abort, TypeOK
<1>13. CASE Close
  <2>1. db' \in [Runs -> RunRows] /\ mem' \in [Runs -> RunTasks]
    BY <1>13, <1>s DEF Close
  <2> QED
    BY <2>1, <1>13 DEF Close, TypeOK
<1>14. CASE CloseDone
  BY <1>14 DEF CloseDone, TypeOK
<1>15. CASE Restart
  <2>1. db' \in [Runs -> RunRows] /\ mem' \in [Runs -> RunTasks]
    BY <1>15, <1>s, <1>i DEF Restart
  <2> QED
    BY <2>1, <1>15 DEF Restart, TypeOK
<1>16. CASE UNCHANGED vars
  BY <1>16 DEF vars, TypeOK
<1>17. CASE ListApprovals \/ \E r \in Runs : DecideLate(r)
  <2>1. \A r \in Runs : {r} \in SUBSET Runs
    OBVIOUS
  <2>2. {r \in Runs : db[r].approval = "overdue"} \in SUBSET Runs
    OBVIOUS
  <2> QED
    BY <1>17, <1>9, <2>1, <2>2 DEF ListApprovals, DecideLate
<1> QED
  BY <1>1, <1>2, <1>3, <1>4, <1>5, <1>6, <1>7, <1>8, <1>10, <1>11, <1>12, <1>13, <1>14,
     <1>15, <1>16, <1>17 DEF Next

(* Every reachable state is well typed.                                    *)
THEOREM TypeCorrect == Spec => []TypeOK
<1>1. Init => TypeOK
  BY AiAssumption DEF Init, TypeOK, RunRows, RunTasks, NoRun, Idle, Kinds, Over, Undecided
<1> QED
  BY <1>1, TypeStep, PTL DEF Spec

-----------------------------------------------------------------------------
(* Rows and tasks                                                          *)

(* The inductive invariant: what the rows d, the task m and the number n   *)
(* of executions of one run say about each other, at each await.           *)
Undone(d) == d.call \in Over \cup {"none"}
Running(d, call) == d.state = "running" /\ d.call = call
Asked(d) ==
  d.approval \in Undecided /\ d.call = "waiting_approval" /\ d.state = "waiting_approval"

Consents(d, n) ==
  /\ n <= 1
  /\ d.approval \in Undecided \cup {"rejected", "expired"} => n = 0
  /\ d.approval = "approved" => n = 1

AtRest(d) ==
  \/ d.state = "none"
  \/ ~Live(d) /\ Undone(d)
  \/ d.kind = "tool" /\ Asked(d)
  \/ d.kind \in {"tool", "read"} /\ Running(d, "running")

AtAwait(d, m, n) ==
  /\ m.task = "none" => m.aborted = "no" /\ AtRest(d)
  /\ m.task \in {"stream", "checks"} =>
       Undone(d) /\ d.approval \in {"none", "approved"} /\ (d.state = "running" \/ ~Live(d))
  /\ m.task = "review" =>
       /\ n = 0 /\ d.approval = "none" /\ d.call \in {"proposed"} \cup Over
       /\ Running(d, "proposed") \/ ~Live(d)
  /\ m.task = "waiting" => Asked(d) /\ m.aborted = "no"
  /\ m.task = "execute" =>
       /\ n = 1 /\ d.approval \in {"none", "approved"}
       /\ Running(d, "running") \/ (~Live(d) /\ d.call \in Over)
  /\ m.task = "unwinding" => ~Live(d) /\ Undone(d)

Agrees(d, m, n, at) ==
  /\ Consents(d, n)
  /\ d.state = "none" =>
       m.task = "none" /\ d.call = "none" /\ d.approval = "none" /\ n = 0
  /\ d.kind \notin Work =>
       m.task \in IF d.kind = "model" THEN {"none", "stream"} ELSE {"none", "execute"}
  /\ AtAwait(d, m, n)
  /\ m.task \notin {"none", "unwinding"} /\ ~Live(d) => m.aborted # "no"
  /\ at = "closing" /\ m.task # "none" => m.aborted # "no"

AllAgree == \A r \in Runs : Agrees(db[r], mem[r], ran[r], life)

(* How each change of the rows and of the task of one run keeps them in    *)
(* agreement.                                                              *)
LEMMA ErrorAgrees ==
    ASSUME NEW d \in RunRows, NEW m \in RunTasks, NEW n \in Nat, NEW at, Agrees(d, m, n, at),
           d.kind \in Work, m.task \in {"stream", "checks", "review", "execute"}
    PROVE  Agrees(Settled(d, Outcome(m.aborted)), [m EXCEPT !.task = "unwinding"], n, at)
<1> DEFINE e == Settled(d, Outcome(m.aborted))
<1>1. Outcome(m.aborted) \in Over
  BY DEF Outcome, Over
<1>2. /\ e.kind = d.kind /\ e.approval = d.approval
      /\ e.call = IF d.call = "none" \/ d.call \in Over THEN d.call ELSE Outcome(m.aborted)
      /\ e.state = IF d.state \in Over THEN d.state ELSE Outcome(m.aborted)
  BY DEF Settled, Unless, RunRows
<1>3. ~Live(e) /\ Undone(e)
  BY <1>1, <1>2 DEF Live, Undone
<1> QED
  BY <1>1, <1>2, <1>3 DEF Agrees, AtAwait, Consents, RunTasks, Over, Live

(* A start leaves rows that agree with the task it makes.                  *)
LEMMA StartAgrees ==
    ASSUME NEW d \in RunRows, NEW m \in RunTasks, NEW n \in Nat, Agrees(d, m, n, "open"),
           d.state = "none", NEW kind \in Kinds
    PROVE  Agrees(Started(kind),
                  [m EXCEPT !.task = CASE kind = "tool" -> "none"
                                       [] kind = "read" -> "execute"
                                       [] OTHER -> "stream",
                            !.budget = IF kind \in Work THEN "running" ELSE "off"],
                  IF kind = "read" THEN 1 ELSE 0, "open")
<1> DEFINE e == Started(kind)
           a == [m EXCEPT !.task = CASE kind = "tool" -> "none"
                                     [] kind = "read" -> "execute"
                                     [] OTHER -> "stream",
                          !.budget = IF kind \in Work THEN "running" ELSE "off"]
<1>1. m.task = "none" /\ m.aborted = "no"
  BY DEF Agrees, AtAwait
<1>2. /\ e.kind = kind /\ e.state \in {"running", "waiting_approval"}
      /\ kind # "tool" => e.state = "running" /\ e.approval = "none"
  BY DEF Started
<1>3. CASE kind = "tool"
  <2>1. Asked(e)
    BY <1>3 DEF Started, Asked, Undecided
  <2>2. a.task = "none" /\ a.aborted = "no"
    BY <1>1, <1>3 DEF RunTasks
  <2> HIDE DEF e, a
  <2>3. AtAwait(e, a, 0) /\ Consents(e, 0)
    BY <2>1, <2>2, <1>2, <1>3 DEF AtAwait, AtRest, Consents, Asked, Undecided
  <2>4. Agrees(e, a, 0, "open")
    BY <2>2, <2>3, <1>2, <1>3 DEF Agrees
  <2> QED
    BY <2>4, <1>3 DEF e, a
<1>4. CASE kind = "read"
  <2>1. Running(e, "running")
    BY <1>4 DEF Started, Running
  <2>2. a.task = "execute"
    BY <1>1, <1>4 DEF RunTasks
  <2> HIDE DEF e, a
  <2>3. AtAwait(e, a, 1) /\ Consents(e, 1)
    BY <2>1, <2>2, <1>2, <1>4 DEF AtAwait, Consents, Undecided
  <2>4. Agrees(e, a, 1, "open")
    BY <2>2, <2>3, <1>2, <1>4 DEF Agrees, Live, Over
  <2> QED
    BY <2>4, <1>4 DEF e, a
<1>5. CASE kind \notin {"tool", "read"}
  <2>1. e.call = "none" /\ Undone(e)
    BY <1>5 DEF Started, Undone
  <2>2. a.task = "stream"
    BY <1>1, <1>5 DEF RunTasks
  <2> HIDE DEF e, a
  <2>3. AtAwait(e, a, 0) /\ Consents(e, 0)
    BY <2>1, <2>2, <1>2, <1>5 DEF AtAwait, Consents, Undecided
  <2>4. Agrees(e, a, 0, "open")
    BY <2>1, <2>2, <2>3, <1>2, <1>5 DEF Agrees, Live, Over, Kinds
  <2> QED
    BY <2>4, <1>5 DEF e, a
<1> QED
  BY <1>3, <1>4, <1>5

(* The model asks for a command: the checks begin and the rows stay.       *)
LEMMA ProposeAgrees ==
    ASSUME NEW d \in RunRows, NEW m \in RunTasks, NEW n \in Nat, NEW at, Agrees(d, m, n, at),
           d.kind \in Work, m.task = "stream", m.aborted = "no"
    PROVE  Agrees(d, [m EXCEPT !.task = "checks", !.steps = @ + 1], n, at)
BY DEF Agrees, AtAwait, RunTasks

(* A checked command gets a fresh row, which was executed never.           *)
LEMMA CheckedAgrees ==
    ASSUME NEW d \in RunRows, NEW m \in RunTasks, NEW n \in Nat, NEW at, Agrees(d, m, n, at),
           d.kind \in Work, m.task = "checks"
    PROVE  Agrees([d EXCEPT !.call = "proposed", !.approval = "none"],
                  [m EXCEPT !.task = "review"], 0, at)
BY DEF Agrees, AtAwait, RunTasks, RunRows, Consents, Running, Live, Undecided

(* A review lets a command run: nothing of this call has run before, and the*)
(* run is not over.                                                        *)
LEMMA ExecuteAgrees ==
    ASSUME NEW d \in RunRows, NEW m \in RunTasks, NEW n \in Nat, NEW at, Agrees(d, m, n, at),
           d.kind \in Work, m.task = "review", m.aborted = "no"
    PROVE  /\ Agrees([d EXCEPT !.call = "running", !.state = "running"],
                     [m EXCEPT !.task = "execute"], n + 1, at)
           /\ Live(d) /\ at # "closing"
<1>1. n = 0 /\ d.approval = "none" /\ Live(d) /\ at # "closing"
  BY DEF Agrees, AtAwait
<1> QED
  <2> DEFINE e == [d EXCEPT !.call = "running", !.state = "running"]
             a == [m EXCEPT !.task = "execute"]
  <2>1. /\ e.kind = d.kind /\ e.approval = "none" /\ e.call = "running" /\ e.state = "running"
        /\ a.task = "execute" /\ a.aborted = "no"
    BY <1>1 DEF RunRows, RunTasks
  <2> HIDE DEF e, a
  <2>2. AtAwait(e, a, 1) /\ Consents(e, 1)
    BY <2>1 DEF AtAwait, Consents, Running, Undecided
  <2>3. Agrees(e, a, 1, at)
    BY <1>1, <2>1, <2>2 DEF Agrees, Live, Over
  <2> QED
    BY <1>1, <2>3 DEF e, a

(* A review asks the user: row, call and approval wait together.           *)
LEMMA AsksAgrees ==
    ASSUME NEW d \in RunRows, NEW m \in RunTasks, NEW n \in Nat, NEW at, Agrees(d, m, n, at),
           d.kind \in Work, m.task = "review", m.aborted = "no"
    PROVE  Agrees([d EXCEPT !.call = "waiting_approval", !.approval = "pending",
                            !.state = "waiting_approval"],
                  [m EXCEPT !.task = "waiting", !.budget = "paused"], n, at)
BY DEF Agrees, AtAwait, RunTasks, RunRows, Consents, Asked, Live, Undecided, Over

(* A command ends, for each kind of run and whether the run was aborted.   *)
LEMMA ResultAgrees ==
    ASSUME NEW d \in RunRows, NEW m \in RunTasks, NEW n \in Nat, NEW at, Agrees(d, m, n, at),
           m.task = "execute", NEW result \in {"succeeded", "failed"}
    PROVE  /\ m.aborted = "no" /\ d.kind = "command" =>
                Agrees([d EXCEPT !.call = result, !.state = "succeeded"], Idle, n, at)
           /\ m.aborted = "no" /\ d.kind = "work" =>
                Agrees([d EXCEPT !.call = result], [m EXCEPT !.task = "stream"], n, at)
           /\ m.aborted = "no" /\ d.kind \notin Work =>
                Agrees([d EXCEPT !.call = result, !.state = result], Idle, n, at)
           /\ m.aborted # "no" /\ d.kind \notin Work => Agrees(d, Idle, n, at)
           /\ m.aborted = "no" => Live(d)
<1>1. /\ n = 1 /\ d.approval \in {"none", "approved"}
      /\ Running(d, "running") \/ (~Live(d) /\ d.call \in Over)
  BY DEF Agrees, AtAwait
<1>2. d.kind \notin Work => d.kind \in {"tool", "read"}
  BY DEF Agrees, RunRows, Kinds, Work
<1>3. ~Live(d) => m.aborted # "no"
  BY DEF Agrees
<1> DEFINE c == [d EXCEPT !.call = result, !.state = "succeeded"]
           w == [d EXCEPT !.call = result]
           o == [d EXCEPT !.call = result, !.state = result]
<1>4. /\ c.kind = d.kind /\ c.approval = d.approval /\ c.call = result /\ c.state = "succeeded"
      /\ w.kind = d.kind /\ w.approval = d.approval /\ w.call = result /\ w.state = d.state
      /\ o.kind = d.kind /\ o.approval = d.approval /\ o.call = result /\ o.state = result
  BY DEF RunRows
<1> HIDE DEF c, w, o
<1>5. Consents(c, n) /\ Consents(w, n) /\ Consents(o, n) /\ Consents(d, n)
  BY <1>4 DEF Agrees, Consents
<1>6. Idle.task = "none" /\ Idle.aborted = "no"
  BY DEF Idle
<1>7. ~Live(c) /\ Undone(c) /\ Undone(w) /\ ~Live(o) /\ Undone(o)
  BY <1>4 DEF Undone, Live, Over
<1>8. Agrees(c, Idle, n, at)
  BY <1>4, <1>5, <1>6, <1>7 DEF Agrees, AtAwait, AtRest, Over
<1>9. Agrees(o, Idle, n, at)
  BY <1>4, <1>5, <1>6, <1>7 DEF Agrees, AtAwait, AtRest, Over
<1>10. ASSUME m.aborted = "no", d.kind = "work"
       PROVE  Agrees(w, [m EXCEPT !.task = "stream"], n, at)
  <2>1. d.state = "running"
    BY <1>10, <1>1, <1>3 DEF Running
  <2>2. /\ [m EXCEPT !.task = "stream"].task = "stream"
        /\ [m EXCEPT !.task = "stream"].aborted = m.aborted
    BY DEF RunTasks
  <2>3. at # "closing" /\ d.kind \in Work
    BY <1>10 DEF Agrees, Work
  <2> QED
    BY <1>1, <1>4, <1>5, <1>7, <2>1, <2>2, <2>3 DEF Agrees, AtAwait, Live, Over
<1>11. d.kind \notin Work => Agrees(d, Idle, n, at)
  BY <1>1, <1>2, <1>5, <1>6 DEF Agrees, AtAwait, AtRest, Undone, Running, Live, Over
<1> QED
  BY <1>3, <1>8, <1>9, <1>10, <1>11 DEF c, w, o

(* The stream of a run ends; the run's row is over and stays what it was if it*)
(* was over before.                                                        *)
LEMMA EndAgrees ==
    ASSUME NEW d \in RunRows, NEW m \in RunTasks, NEW n \in Nat, NEW at, Agrees(d, m, n, at),
           m.task \in {"stream", "unwinding"}, NEW state \in Over
    PROVE  /\ Agrees([d EXCEPT !.state = Unless(@, state)], Idle, n, at)
           /\ m.task = "stream" /\ m.aborted = "no" =>
                Live(d) /\ Agrees([d EXCEPT !.state = state], Idle, n, at)
<1>1. Undone(d)
  BY DEF Agrees, AtAwait
<1>2. m.task = "stream" /\ m.aborted = "no" => Live(d)
  BY DEF Agrees
<1>3. ASSUME NEW s \in Over PROVE Agrees([d EXCEPT !.state = s], Idle, n, at)
  <2> DEFINE e == [d EXCEPT !.state = s]
  <2>1. e.kind = d.kind /\ e.approval = d.approval /\ e.call = d.call /\ e.state = s
    BY DEF RunRows
  <2> HIDE DEF e
  <2> QED
    BY <1>1, <1>3, <2>1 DEF e, Agrees, AtAwait, AtRest, Undone, Live, Consents, Idle, Over
<1> QED
  BY <1>2, <1>3 DEF Unless

(* An abort by the user, a timer, the target or the shutdown.              *)
LEMMA AbortAgrees ==
    ASSUME NEW d \in RunRows, NEW m \in RunTasks, NEW n \in Nat, NEW at, Agrees(d, m, n, at),
           NEW reason \in {"canceled", "expired", "limit", "target", "closed"}
    PROVE  /\ Agrees(AbortDb(d, m, reason), AbortMem(m, reason), n, at)
           /\ Agrees(AbortDb(d, m, reason), AbortMem(m, reason), n, "closing")
<1> DEFINE a == AbortMem(m, reason)
           e == AbortDb(d, m, reason)
<1>1. /\ m.task = "none" => a = m
      /\ m.task # "none" => a.aborted # "no"
      /\ a.task = IF m.task = "waiting" THEN "unwinding" ELSE m.task
  BY DEF AbortMem, Reason, Answered, Resumed, RunTasks
<1>2. m.task # "waiting" => e = d
  BY DEF AbortDb
<1>3. ASSUME m.task = "waiting"
      PROVE  e.kind = d.kind /\ e.approval = d.approval /\ e.call \in Over /\ e.state \in Over
  BY <1>3 DEF AbortDb, Settled, Outcome, Unless, Over, RunRows, Agrees, AtAwait, Asked
<1> HIDE DEF a, e
<1> SUFFICES ASSUME NEW when, when \in {at, "closing"} PROVE Agrees(e, a, n, when)
  BY DEF a, e
<1>4. CASE m.task = "waiting"
  BY <1>1, <1>3, <1>4 DEF Agrees, AtAwait, Consents, Undone, Live, Over, Work
<1>5. CASE m.task # "waiting"
  <2>1. e = d /\ a.task = m.task /\ (m.task = "none" => a = m)
    BY <1>1, <1>2, <1>5
  <2>2. AtAwait(d, a, n)
    BY <2>1, <1>5 DEF Agrees, AtAwait, RunTasks
  <2> QED
    BY <1>1, <2>1, <2>2 DEF Agrees
<1> QED
  BY <1>4, <1>5

(* cancel() writes the rows and aborts the task.                           *)
LEMMA CancelAgrees ==
    ASSUME NEW d \in RunRows, NEW m \in RunTasks, NEW n \in Nat, NEW at, Agrees(d, m, n, at),
           d.state # "none"
    PROVE  Agrees(Canceled(d), AbortMem(m, "canceled"), n, at)
<1> DEFINE a == AbortMem(m, "canceled")
           e == Canceled(d)
<1>1. /\ m.task = "none" => a = m
      /\ m.task # "none" => a.aborted # "no"
      /\ a.task = IF m.task = "waiting" THEN "unwinding" ELSE m.task
  BY DEF AbortMem, Reason, Answered, Resumed, RunTasks
<1>2. ~Live(d) => e = d
  BY DEF Canceled
<1>3. ASSUME Live(d)
      PROVE  /\ e.kind = d.kind /\ e.state = "canceled"
             /\ e.call = IF d.call \in Over \cup {"none"} THEN d.call ELSE "canceled"
             /\ e.approval = IF d.approval \in Undecided THEN "rejected" ELSE d.approval
  BY <1>3 DEF Canceled, Settled, Unless, Live, Over, RunRows
<1> HIDE DEF a, e
<1>4. CASE ~Live(d)
  <2>1. m.task # "waiting"
    BY <1>4 DEF Agrees, AtAwait, Asked, Live, Over
  <2>2. AtAwait(d, a, n)
    BY <2>1, <1>1 DEF Agrees, AtAwait, RunTasks
  <2> QED
    BY <2>1, <2>2, <1>1, <1>2, <1>4 DEF Agrees, a, e
<1>5. CASE Live(d)
  <2>1. ~Live(e) /\ Undone(e) /\ Consents(e, n)
    BY <1>3, <1>5 DEF Agrees, Consents, Live, Undone, Over, Undecided
  <2>2. m.task \in {"stream", "checks", "review", "execute"} =>
          e.approval = d.approval
    BY <1>3, <1>5 DEF Agrees, AtAwait, Undecided
  <2>3. m.task \in {"review", "execute"} => e.call \in Over
    BY <1>3, <1>5 DEF Agrees, AtAwait, Running, Over
  <2>4. AtAwait(e, a, n)
    BY <1>1, <1>3, <1>5, <2>1, <2>2, <2>3 DEF Agrees, AtAwait, AtRest, RunTasks
  <2>5. Agrees(e, a, n, at)
    BY <1>1, <1>3, <1>5, <2>1, <2>4 DEF Agrees, Over, Work
  <2> QED
    BY <2>5 DEF a, e
<1> QED
  BY <1>4, <1>5

(* The user's consent is used for exactly one execution.                   *)
LEMMA UseAgrees ==
    ASSUME NEW d \in RunRows, NEW m \in RunTasks, NEW n \in Nat, Agrees(d, m, n, "open"),
           Asked(d), d.kind = "tool" \/ m.task = "waiting"
    PROVE  /\ Agrees([d EXCEPT !.approval = "approved", !.call = "running", !.state = "running"],
                     IF d.kind = "tool" THEN [Idle EXCEPT !.task = "execute"]
                     ELSE Answered(m, "execute"), n + 1, "open")
           /\ (IF d.kind = "tool" THEN [Idle EXCEPT !.task = "execute"]
               ELSE Answered(m, "execute")).aborted = "no"
<1> DEFINE a == IF d.kind = "tool" THEN [Idle EXCEPT !.task = "execute"]
                ELSE Answered(m, "execute")
           e == [d EXCEPT !.approval = "approved", !.call = "running", !.state = "running"]
<1>1. n = 0
  BY DEF Agrees, Consents, Asked
<1>2. /\ e.kind = d.kind /\ e.approval = "approved"
      /\ e.call = "running" /\ e.state = "running"
  BY DEF RunRows
<1>3. a.task = "execute" /\ a.aborted = "no"
  <2>1. CASE d.kind = "tool"
    BY <2>1 DEF Idle
  <2>2. CASE d.kind # "tool"
    BY <2>2 DEF Answered, Resumed, RunTasks, Agrees, AtAwait
  <2> QED
    BY <2>1, <2>2
<1>4. d.kind \notin Work => d.kind = "tool"
  BY DEF Agrees
<1> HIDE DEF a, e
<1>5. AtAwait(e, a, 1) /\ Consents(e, 1)
  BY <1>2, <1>3 DEF AtAwait, Consents, Running, Undecided
<1>6. Agrees(e, a, 1, "open")
  BY <1>2, <1>3, <1>4, <1>5 DEF Agrees, Live, Over
<1> QED
  BY <1>1, <1>3, <1>6 DEF a, e

(* An approval that is overdue expires, with its run.                      *)
LEMMA ExpireAgrees ==
    ASSUME NEW d \in RunRows, NEW m \in RunTasks, NEW n \in Nat, NEW at, Agrees(d, m, n, at),
           d.approval = "overdue"
    PROVE  Agrees(Expired(d), IF d.kind \in Work THEN AbortMem(m, "expired") ELSE m, n, at)
<1> DEFINE a == IF d.kind \in Work THEN AbortMem(m, "expired") ELSE m
           e == Expired(d)
<1>1. m.task \in {"none", "waiting", "unwinding"} /\ (m.task # "none" => d.kind \in Work)
  BY DEF Agrees, AtAwait, RunTasks
<1>2. /\ m.task = "none" => a = m
      /\ a.task = IF m.task = "waiting" THEN "unwinding" ELSE m.task
      /\ m.task # "none" => a.aborted # "no"
  BY <1>1 DEF AbortMem, Reason, Answered, Resumed, RunTasks
<1>3. /\ e.kind = d.kind /\ e.approval = "expired" /\ e.state \in Over
      /\ e.call \in Over \cup {"none"}
  BY DEF Expired, Settled, Unless, Over, RunRows
<1>4. n = 0
  BY DEF Agrees, Consents, Undecided
<1> HIDE DEF a, e
<1>5. AtAwait(e, a, n) /\ Consents(e, n)
  BY <1>1, <1>2, <1>3, <1>4 DEF Agrees, AtAwait, AtRest, Consents, Undone, Live
<1>6. Agrees(e, a, n, at)
  BY <1>1, <1>2, <1>3, <1>5 DEF Agrees, Over
<1> QED
  BY <1>6 DEF a, e

(* Time passes the deadline of an approval; nothing else changes.          *)
LEMMA ClockAgrees ==
    ASSUME NEW d \in RunRows, NEW m \in RunTasks, NEW n \in Nat, NEW at, Agrees(d, m, n, at),
           d.approval = "pending"
    PROVE  Agrees([d EXCEPT !.approval = "overdue"], m, n, at)
<1> DEFINE e == [d EXCEPT !.approval = "overdue"]
<1>1. e.kind = d.kind /\ e.approval = "overdue" /\ e.state = d.state /\ e.call = d.call
  BY DEF RunRows
<1> HIDE DEF e
<1>2. AtAwait(e, m, n) /\ Consents(e, n)
  BY <1>1 DEF Agrees, AtAwait, AtRest, Consents, Undone, Live, Asked, Running, Undecided
<1> QED
  BY <1>1, <1>2 DEF Agrees, Live, e

(* After a restart the rows agree with a process that runs nothing.        *)
LEMMA RecoverAgrees ==
    ASSUME NEW d \in RunRows, NEW m \in RunTasks, NEW n \in Nat, NEW at, Agrees(d, m, n, at)
    PROVE  Agrees(Recovered(d), Idle, n, "open")
<1> DEFINE e == Recovered(d)
<1>1. /\ e.kind = d.kind
      /\ e.approval = IF d.approval \in Undecided THEN "expired" ELSE d.approval
      /\ e.call \in Over \cup {"none"}
      /\ e.state = "none" \/ e.state \in Over
      /\ d.state # "none" => e.state \in Over
      /\ d.state = "none" => e.state = "none"
      /\ d.call = "none" => e.call = "none"
  BY DEF Recovered, Settled, Unless, Over, RunRows
<1> HIDE DEF e
<1>2. AtAwait(e, Idle, n) /\ Consents(e, n)
  BY <1>1 DEF Agrees, AtAwait, AtRest, Consents, Undone, Live, Idle, Undecided
<1>3. Agrees(e, Idle, n, "open")
  BY <1>1, <1>2 DEF Agrees, Idle, Undecided, Over
<1> QED
  BY <1>3 DEF e

(* Settling the rows of a run takes nothing back.                          *)
LEMMA SettledStays ==
    ASSUME NEW d \in RunRows, NEW m, NEW reason,
           NEW e \in {Canceled(d), Expired(d), Recovered(d), AbortDb(d, m, reason)}
    PROVE  /\ d.state \in Over => e.state = d.state
           /\ d.call \in Over => e.call = d.call
<1>1. \A s \in Over : /\ d.state \in Over => Settled(d, s).state = d.state
                      /\ d.call \in Over => Settled(d, s).call = d.call
                      /\ Settled(d, s) \in RunRows
  <2>1. \A s \in Over : Settled(d, s) \in RunRows
    BY SettledRows
  <2>2. \A s \in Over : /\ d.state \in Over => Settled(d, s).state = d.state
                        /\ d.call \in Over => Settled(d, s).call = d.call
    BY DEF Settled, Unless, RunRows, Over
  <2> QED
    BY <2>1, <2>2
<1>2. CASE e = Canceled(d)
  BY <1>1, <1>2 DEF Canceled, RunRows, Over
<1>3. CASE e = Expired(d)
  BY <1>1, <1>3 DEF Expired, RunRows, Over
<1>4. CASE e = Recovered(d)
  BY <1>1, <1>4 DEF Recovered, RunRows, Over
<1>5. CASE e = AbortDb(d, m, reason)
  BY <1>1, <1>5 DEF AbortDb, Outcome, Over
<1> QED
  BY <1>2, <1>3, <1>4, <1>5

(* A step keeps every run in agreement; what was said of a run that is     *)
(* over stays, and nothing is executed for one that is.                    *)
Kept(r) ==
  /\ ~Live(db[r]) => db'[r].state = db[r].state
  /\ db[r].call \in Over /\ db'[r].call # db[r].call => db'[r].call = "proposed"
  /\ ran'[r] > ran[r] => db[r].state \notin Over /\ mem'[r].aborted = "no" /\ life = "open"

(* Each step keeps the rows of every run in agreement and takes nothing back.*)
LEMMA AgreeStep ==
    ASSUME TypeOK, AllAgree, [Next]_vars
    PROVE  AllAgree' /\ \A r \in Runs : Kept(r)
<1>d. \A r \in Runs : /\ db[r] \in RunRows /\ mem[r] \in RunTasks /\ ran[r] \in Nat
                      /\ Agrees(db[r], mem[r], ran[r], life)
  BY DEF TypeOK, AllAgree
<1>l. life \in {"open", "closing", "down"}
  BY DEF TypeOK
<1>o. ASSUME NEW r \in Runs, life' = life, Agrees(db'[r], mem'[r], ran'[r], life), Kept(r),
             \A q \in Runs \ {r} : db'[q] = db[q] /\ mem'[q] = mem[q] /\ ran'[q] = ran[q]
      PROVE  AllAgree' /\ \A q \in Runs : Kept(q)
  <2>1. \A q \in Runs \ {r} : Kept(q)
    BY <1>o, <1>d DEF Kept
  <2>2. \A q \in Runs \ {r} : Agrees(db'[q], mem'[q], ran'[q], life')
    BY <1>o, <1>d
  <2> QED
    BY <2>1, <2>2, <1>o DEF AllAgree
<1>u. ASSUME NEW r \in Runs
      PROVE  /\ \A x : db' = [db EXCEPT ![r] = x] =>
                  db'[r] = x /\ \A q \in Runs \ {r} : db'[q] = db[q]
             /\ \A x : mem' = [mem EXCEPT ![r] = x] =>
                  mem'[r] = x /\ \A q \in Runs \ {r} : mem'[q] = mem[q]
             /\ \A x : ran' = [ran EXCEPT ![r] = x] =>
                  ran'[r] = x /\ \A q \in Runs \ {r} : ran'[q] = ran[q]
             /\ UNCHANGED ran => ran'[r] = ran[r] /\ \A q \in Runs \ {r} : ran'[q] = ran[q]
  BY DEF TypeOK
<1>w. ASSUME NEW r \in Runs
      PROVE  \A task : Now(r, task) =>
               /\ mem'[r] = [mem[r] EXCEPT !.task = task]
               /\ \A q \in Runs \ {r} : mem'[q] = mem[q]
  BY DEF Now, TypeOK
<1>e. ASSUME NEW r \in Runs, Ends(r)
      PROVE  mem'[r] = Idle /\ \A q \in Runs \ {r} : mem'[q] = mem[q]
  BY <1>e DEF Ends, TypeOK
<1>c. ASSUME NEW r \in Runs, CommandError(r), db[r].kind \in Work, UNCHANGED life,
             mem[r].task \in {"stream", "checks", "review", "execute"}
      PROVE  AllAgree' /\ \A q \in Runs : Kept(q)
  <2>1. db'[r] = Settled(db[r], Outcome(mem[r].aborted))
        /\ \A q \in Runs \ {r} : db'[q] = db[q]
    BY <1>c DEF CommandError, TypeOK
  <2>2. Agrees(db'[r], mem'[r], ran'[r], life)
    <3>1. Agrees(Settled(db[r], Outcome(mem[r].aborted)), [mem[r] EXCEPT !.task = "unwinding"],
                 ran[r], life)
      BY <1>c, <1>d, ErrorAgrees
    <3>2. mem'[r] = [mem[r] EXCEPT !.task = "unwinding"] /\ ran'[r] = ran[r]
      BY <1>c, <1>w DEF CommandError
    <3> QED
      BY <2>1, <3>1, <3>2
  <2>3. Kept(r)
    BY <2>1, <1>c, <1>d DEF Kept, CommandError, Settled, Unless, RunRows, Live
  <2> QED
    BY <2>1, <2>2, <2>3, <1>o, <1>w, <1>c DEF CommandError
<1>x. ASSUME NEW r \in Runs, Execute(r), db[r].kind \in Work, UNCHANGED life, life # "down",
             mem[r].task = "review", mem[r].aborted = "no"
      PROVE  AllAgree' /\ \A q \in Runs : Kept(q)
  <2>1. /\ db'[r] = [db[r] EXCEPT !.call = "running", !.state = "running"]
        /\ \A q \in Runs \ {r} : db'[q] = db[q]
    BY <1>x DEF Execute, TypeOK
  <2>2. ran'[r] = ran[r] + 1 /\ \A q \in Runs \ {r} : ran'[q] = ran[q]
    BY <1>x DEF Execute, TypeOK
  <2>3. Agrees(db'[r], mem'[r], ran'[r], life) /\ Live(db[r]) /\ life # "closing"
    <3>1. /\ Agrees([db[r] EXCEPT !.call = "running", !.state = "running"],
                    [mem[r] EXCEPT !.task = "execute"], ran[r] + 1, life)
          /\ Live(db[r]) /\ life # "closing"
      BY <1>x, <1>d, ExecuteAgrees
    <3>2. mem'[r] = [mem[r] EXCEPT !.task = "execute"]
      BY <1>x, <1>w DEF Execute
    <3> QED
      BY <2>1, <2>2, <3>1, <3>2
  <2>4. mem'[r].aborted = "no"
    BY <1>x, <1>w, <1>d DEF Execute, RunTasks
  <2>5. db[r].call \notin Over
    BY <1>x, <1>d, <2>3 DEF Agrees, AtAwait, Running, Over
  <2> QED
    BY <2>1, <2>2, <2>3, <2>4, <2>5, <1>o, <1>w, <1>x, <1>l, ZenonT(60) DEF Kept, Execute, Live
<1>1. ASSUME NEW r \in Runs, NEW kind \in Kinds, NEW t \in Terminals, Start(r, kind, t)
      PROVE  AllAgree' /\ \A q \in Runs : Kept(q)
  <2>1. /\ db'[r] = Started(kind) /\ ran'[r] = IF kind = "read" THEN 1 ELSE 0
        /\ \A q \in Runs \ {r} : db'[q] = db[q] /\ ran'[q] = ran[q]
    BY <1>1 DEF Start, TypeOK
  <2>2. /\ mem'[r] = [mem[r] EXCEPT !.task = CASE kind = "tool" -> "none"
                                               [] kind = "read" -> "execute"
                                               [] OTHER -> "stream",
                                    !.budget = IF kind \in Work THEN "running" ELSE "off"]
        /\ \A q \in Runs \ {r} : mem'[q] = mem[q]
    BY <1>1, <1>u DEF Start
  <2>3. Agrees(db'[r], mem'[r], ran'[r], life)
    <3>1. life = "open" /\ db[r].state = "none"
      BY <1>1 DEF Start
    <3>2. Agrees(Started(kind),
                 [mem[r] EXCEPT !.task = CASE kind = "tool" -> "none"
                                           [] kind = "read" -> "execute"
                                           [] OTHER -> "stream",
                                !.budget = IF kind \in Work THEN "running" ELSE "off"],
                 IF kind = "read" THEN 1 ELSE 0, "open")
      BY <3>1, <1>d, StartAgrees
    <3> QED
      BY <2>1, <2>2, <3>1, <3>2, Zenon
  <2>4. db[r].call = "none" /\ Live(db[r])
    BY <1>1, <1>d DEF Start, Agrees, Live, Over
  <2>5. mem'[r].aborted = "no"
    BY <2>2, <1>1, <1>d DEF Start, Agrees, AtAwait, RunTasks
  <2> QED
    BY <2>1, <2>2, <2>3, <2>4, <2>5, <1>o, <1>1 DEF Start, Kept, Live, Over
<1>2. ASSUME NEW r \in Runs, Propose(r)
      PROVE  AllAgree' /\ \A q \in Runs : Kept(q)
  <2>1. CASE CommandError(r)
    BY <2>1, <1>c, <1>2 DEF Propose, Awaits
  <2>2. CASE ~CommandError(r)
    <3>1. /\ mem'[r] = [mem[r] EXCEPT !.task = "checks", !.steps = @ + 1]
          /\ \A q \in Runs \ {r} : mem'[q] = mem[q]
      BY <1>2, <2>2 DEF Propose, TypeOK
    <3>2. Agrees(db[r], mem'[r], ran[r], life)
      <4>1. db[r].kind \in Work /\ mem[r].task = "stream" /\ mem[r].aborted = "no"
        BY <1>2, <2>2 DEF Propose, Awaits
      <4>2. Agrees(db[r], [mem[r] EXCEPT !.task = "checks", !.steps = @ + 1], ran[r], life)
        BY <4>1, <1>d, ProposeAgrees
      <4> QED
        BY <3>1, <4>2
    <3> QED
      BY <3>1, <3>2, <1>o, <1>2, <2>2, <1>d DEF Propose, Kept
  <2> QED
    BY <2>1, <2>2
<1>3. ASSUME NEW r \in Runs, Checked(r)
      PROVE  AllAgree' /\ \A q \in Runs : Kept(q)
  <2>k. db[r].kind \in Work /\ mem[r].task = "checks" /\ life' = life
    BY <1>3, <1>d DEF Checked, Awaits, Agrees
  <2>1. CASE CommandError(r)
    BY <2>1, <2>k, <1>c
  <2>2. CASE ~CommandError(r)
    <3>1. /\ db'[r] = [db[r] EXCEPT !.call = "proposed", !.approval = "none"]
          /\ \A q \in Runs \ {r} : db'[q] = db[q]
          /\ ran'[r] = 0 /\ \A q \in Runs \ {r} : ran'[q] = ran[q]
      BY <1>3, <2>2 DEF Checked, TypeOK
    <3>2. Agrees([db[r] EXCEPT !.call = "proposed", !.approval = "none"],
                 [mem[r] EXCEPT !.task = "review"], 0, life)
      BY <2>k, <1>d, CheckedAgrees
    <3>3. mem'[r] = [mem[r] EXCEPT !.task = "review"] /\ \A q \in Runs \ {r} : mem'[q] = mem[q]
      BY <1>3, <2>2, <1>w DEF Checked
    <3>4. Agrees(db'[r], mem'[r], ran'[r], life)
      BY <3>1, <3>2, <3>3
    <3>5. Kept(r)
      BY <3>1, <1>d DEF Kept, RunRows
    <3> QED
      BY <3>1, <3>3, <3>4, <3>5, <2>k, <1>o
  <2> QED
    BY <2>1, <2>2
<1>4. ASSUME NEW r \in Runs, Reviewed(r)
      PROVE  AllAgree' /\ \A q \in Runs : Kept(q)
  <2>k. db[r].kind \in Work /\ mem[r].task = "review" /\ life' = life /\ life # "down"
    BY <1>4, <1>d DEF Reviewed, Awaits, Agrees
  <2>1. CASE CommandError(r)
    BY <2>1, <2>k, <1>c
  <2>2. CASE mem[r].aborted = "no" /\ Execute(r)
    BY <2>2, <2>k, <1>x
  <2>3. CASE mem[r].aborted = "no" /\ Asks(r)
    <3>1. /\ db'[r] = [db[r] EXCEPT !.call = "waiting_approval", !.approval = "pending",
                                    !.state = "waiting_approval"]
          /\ \A q \in Runs \ {r} : db'[q] = db[q] /\ ran'[q] = ran[q]
          /\ ran'[r] = ran[r]
      BY <2>3 DEF Asks, TypeOK
    <3>2. /\ mem'[r] = [mem[r] EXCEPT !.task = "waiting", !.budget = "paused"]
          /\ \A q \in Runs \ {r} : mem'[q] = mem[q]
      BY <2>3 DEF Asks, TypeOK
    <3>3. Agrees([db[r] EXCEPT !.call = "waiting_approval", !.approval = "pending",
                               !.state = "waiting_approval"],
                 [mem[r] EXCEPT !.task = "waiting", !.budget = "paused"], ran[r], life)
      BY <2>3, <2>k, <1>d, AsksAgrees
    <3>4. Agrees(db'[r], mem'[r], ran'[r], life)
      BY <3>1, <3>2, <3>3
    <3>5. Live(db[r]) /\ db[r].call \notin Over
      BY <2>3, <2>k, <1>d DEF Agrees, AtAwait, Running, Over
    <3>6. Kept(r)
      BY <3>1, <3>5, <1>d DEF Kept
    <3> QED
      BY <3>1, <3>2, <3>4, <3>6, <2>k, <1>o
  <2> QED
    BY <2>1, <2>2, <2>3, <1>4 DEF Reviewed
<1>5. ASSUME NEW r \in Runs, Executed(r)
      PROVE  AllAgree' /\ \A q \in Runs : Kept(q)
  <2>k. mem[r].task = "execute" /\ life' = life
    BY <1>5 DEF Executed, Awaits
  <2>1. CASE CommandError(r) /\ db[r].kind \in Work
    BY <2>1, <2>k, <1>c
  <2>2. CASE ~(CommandError(r) /\ db[r].kind \in Work)
    <3>r. ran'[r] = ran[r] /\ \A q \in Runs \ {r} : ran'[q] = ran[q]
      BY <2>2, <1>5 DEF Executed
    <3>1. ASSUME NEW result \in {"succeeded", "failed"}, mem[r].aborted = "no"
          PROVE  /\ db[r].kind = "command" =>
                      Agrees([db[r] EXCEPT !.call = result, !.state = "succeeded"], Idle,
                             ran[r], life)
                 /\ db[r].kind = "work" =>
                      Agrees([db[r] EXCEPT !.call = result],
                             [mem[r] EXCEPT !.task = "stream"], ran[r], life)
                 /\ db[r].kind \notin Work =>
                      Agrees([db[r] EXCEPT !.call = result, !.state = result], Idle,
                             ran[r], life)
                 /\ Live(db[r])
      BY <3>1, <2>k, <1>d, ResultAgrees
    <3>2. mem[r].aborted = "no" => db[r].call \notin Over
      BY <2>k, <1>d DEF Agrees, AtAwait, Running, Over
    <3>3. ASSUME NEW d, Agrees(d, mem'[r], ran'[r], life), db'[r] = d,
                 d = db[r] \/ mem[r].aborted = "no",
                 \A q \in Runs \ {r} : db'[q] = db[q] /\ mem'[q] = mem[q]
          PROVE  AllAgree' /\ \A q \in Runs : Kept(q)
      <4>1. Kept(r)
        BY <3>r, <3>1, <3>2, <3>3, <1>d DEF Kept
      <4> QED
        BY <4>1, <3>r, <3>3, <2>k, <1>o
    <3>4. CASE db[r].kind = "command"
      <4>1. PICK result \in {"succeeded", "failed"} :
              db' = [db EXCEPT ![r].call = result, ![r].state = "succeeded"]
        BY <2>2, <3>4, <1>5 DEF Executed, Work
      <4>2. mem[r].aborted = "no" /\ Ends(r)
        BY <2>2, <3>4, <1>5 DEF Executed, Work
      <4>3. /\ db'[r] = [db[r] EXCEPT !.call = result, !.state = "succeeded"]
            /\ \A q \in Runs \ {r} : db'[q] = db[q]
        BY <4>1 DEF TypeOK
      <4>4. Agrees(db'[r], mem'[r], ran'[r], life)
        BY <4>2, <4>3, <3>1, <3>4, <3>r, <1>e
      <4> QED
        BY <4>2, <4>3, <4>4, <3>3, <1>e
    <3>5. CASE db[r].kind = "work"
      <4>1. PICK result \in {"succeeded", "failed"} : db' = [db EXCEPT ![r].call = result]
        BY <2>2, <3>5, <1>5 DEF Executed, Work
      <4>2. mem[r].aborted = "no" /\ Now(r, "stream")
        BY <2>2, <3>5, <1>5 DEF Executed, Work
      <4>3. /\ db'[r] = [db[r] EXCEPT !.call = result]
            /\ \A q \in Runs \ {r} : db'[q] = db[q]
        BY <4>1 DEF TypeOK
      <4>4. Agrees(db'[r], mem'[r], ran'[r], life)
        BY <4>2, <4>3, <3>1, <3>5, <3>r, <1>w
      <4> QED
        BY <4>2, <4>3, <4>4, <3>3, <1>w
    <3>6. CASE db[r].kind \notin Work /\ mem[r].aborted = "no"
      <4>1. PICK result \in {"succeeded", "failed"} :
              db' = [db EXCEPT ![r].call = result, ![r].state = result]
        BY <3>6, <1>5 DEF Executed
      <4>2. Ends(r)
        BY <3>6, <1>5 DEF Executed
      <4>3. /\ db'[r] = [db[r] EXCEPT !.call = result, !.state = result]
            /\ \A q \in Runs \ {r} : db'[q] = db[q]
        BY <4>1 DEF TypeOK
      <4>4. Agrees(db'[r], mem'[r], ran'[r], life)
        BY <4>2, <4>3, <3>1, <3>6, <3>r, <1>e
      <4> QED
        BY <4>2, <4>3, <4>4, <3>3, <3>6, <1>e
    <3>7. CASE db[r].kind \notin Work /\ mem[r].aborted # "no"
      <4>1. UNCHANGED db /\ Ends(r)
        BY <3>7, <1>5 DEF Executed
      <4>2. Agrees(db[r], Idle, ran[r], life)
        BY <3>7, <2>k, <1>d, ResultAgrees
      <4>3. Agrees(db[r], mem'[r], ran'[r], life)
        BY <4>1, <4>2, <3>r, <1>e
      <4> QED
        BY <4>1, <4>3, <3>3, <1>e
    <3> QED
      BY <3>4, <3>5, <3>6, <3>7 DEF Work
  <2> QED
    BY <2>1, <2>2
<1>6. ASSUME NEW r \in Runs, StreamEnds(r)
      PROVE  AllAgree' /\ \A q \in Runs : Kept(q)
  <2>k. mem[r].task \in {"stream", "unwinding"} /\ life' = life
    BY <1>6 DEF StreamEnds, Awaits
  <2>r. ran'[r] = ran[r] /\ \A q \in Runs \ {r} : ran'[q] = ran[q]
    BY <1>6 DEF StreamEnds
  <2>m. mem'[r] = Idle /\ \A q \in Runs \ {r} : mem'[q] = mem[q]
    BY <1>6, <1>e DEF StreamEnds
  <2>1. CASE /\ mem[r].task = "stream" /\ mem[r].aborted = "no"
             /\ db' = [db EXCEPT ![r].state = "succeeded"]
    <3>1. /\ db'[r] = [db[r] EXCEPT !.state = "succeeded"]
          /\ \A q \in Runs \ {r} : db'[q] = db[q]
      BY <2>1 DEF TypeOK
    <3>2. Live(db[r]) /\ Agrees([db[r] EXCEPT !.state = "succeeded"], Idle, ran[r], life)
      BY <2>1, <2>k, <1>d, EndAgrees DEF Over
    <3>3. Kept(r)
      BY <3>1, <3>2, <2>r, <1>d DEF Kept, RunRows
    <3> QED
      BY <3>1, <3>2, <3>3, <2>k, <2>r, <2>m, <1>o
  <2>2. CASE db' = [db EXCEPT ![r].state = Unless(@, Outcome(mem[r].aborted))]
    <3>1. /\ db'[r] = [db[r] EXCEPT !.state = Unless(@, Outcome(mem[r].aborted))]
          /\ \A q \in Runs \ {r} : db'[q] = db[q]
      BY <2>2 DEF TypeOK
    <3>2. Outcome(mem[r].aborted) \in Over
      BY DEF Outcome, Over
    <3>3. Agrees([db[r] EXCEPT !.state = Unless(@, Outcome(mem[r].aborted))], Idle, ran[r], life)
      BY <3>2, <2>k, <1>d, EndAgrees
    <3>4. Kept(r)
      BY <3>1, <2>r, <1>d DEF Kept, RunRows, Unless, Live
    <3> QED
      BY <3>1, <3>3, <3>4, <2>k, <2>r, <2>m, <1>o
  <2> QED
    BY <2>1, <2>2, <1>6 DEF StreamEnds
<1>7. ASSUME NEW r \in Runs, Cancel(r) \/ Reject(r)
      PROVE  AllAgree' /\ \A q \in Runs : Kept(q)
  <2>1. /\ db[r].state # "none" /\ life' = life
        /\ db'[r] = Canceled(db[r]) /\ mem'[r] = AbortMem(mem[r], "canceled") /\ ran'[r] = ran[r]
        /\ \A q \in Runs \ {r} : db'[q] = db[q] /\ mem'[q] = mem[q] /\ ran'[q] = ran[q]
    BY <1>7 DEF Cancel, Reject, Decides, Decidable, TypeOK
  <2>2. Agrees(Canceled(db[r]), AbortMem(mem[r], "canceled"), ran[r], life)
    BY <2>1, <1>d, CancelAgrees
  <2>3. Agrees(db'[r], mem'[r], ran'[r], life)
    BY <2>1, <2>2
  <2>4. Kept(r)
    BY <2>1, <1>d, SettledStays DEF Kept, Live
  <2> QED
    BY <2>1, <2>3, <2>4, <1>o
<1>8. ASSUME NEW r \in Runs, Approve(r)
      PROVE  AllAgree' /\ \A q \in Runs : Kept(q)
  <2>1. Asked(db[r]) /\ (db[r].kind = "tool" \/ mem[r].task = "waiting") /\ life = "open"
    BY <1>8 DEF Approve, Decides, Decidable, StillBound, Asked
  <2>2. /\ db'[r] = [db[r] EXCEPT !.approval = "approved", !.call = "running", !.state = "running"]
        /\ \A q \in Runs \ {r} : db'[q] = db[q]
    BY <1>8 DEF Approve, Use, TypeOK
  <2>3. /\ mem'[r] = IF db[r].kind = "tool" THEN [Idle EXCEPT !.task = "execute"]
                     ELSE Answered(mem[r], "execute")
        /\ \A q \in Runs \ {r} : mem'[q] = mem[q]
    BY <1>8 DEF Approve, Use, TypeOK
  <2>4. ran'[r] = ran[r] + 1 /\ life' = life /\ \A q \in Runs \ {r} : ran'[q] = ran[q]
    BY <1>8 DEF Approve, Use, TypeOK
  <2>5. /\ Agrees([db[r] EXCEPT !.approval = "approved", !.call = "running", !.state = "running"],
                  IF db[r].kind = "tool" THEN [Idle EXCEPT !.task = "execute"]
                  ELSE Answered(mem[r], "execute"), ran[r] + 1, "open")
        /\ (IF db[r].kind = "tool" THEN [Idle EXCEPT !.task = "execute"]
            ELSE Answered(mem[r], "execute")).aborted = "no"
    BY <2>1, <1>d, UseAgrees
  <2>6. Agrees(db'[r], mem'[r], ran'[r], life) /\ mem'[r].aborted = "no"
    BY <2>1, <2>2, <2>3, <2>4, <2>5, Zenon
  <2>7. Kept(r)
    BY <2>1, <2>6 DEF Kept, Asked, Live, Over
  <2> QED
    BY <2>2, <2>3, <2>4, <2>6, <2>7, <1>o
<1>9. ASSUME NEW late \in SUBSET Runs, Expire(late), \A r \in late : db[r].approval = "overdue"
      PROVE  AllAgree' /\ \A q \in Runs : Kept(q)
  <2>1. ASSUME NEW r \in late
        PROVE  Agrees(db'[r], mem'[r], ran'[r], life') /\ Kept(r)
    <3>1. /\ db'[r] = Expired(db[r]) /\ ran'[r] = ran[r] /\ life' = life
          /\ mem'[r] = IF db[r].kind \in Work THEN AbortMem(mem[r], "expired") ELSE mem[r]
      BY <1>9 DEF Expire
    <3>2. Agrees(Expired(db[r]),
                 IF db[r].kind \in Work THEN AbortMem(mem[r], "expired") ELSE mem[r], ran[r], life)
      BY <1>9, <1>d, ExpireAgrees
    <3>3. Kept(r)
      BY <3>1, <1>d, SettledStays DEF Kept, Live
    <3> QED
      BY <3>1, <3>2, <3>3, Zenon
  <2>2. ASSUME NEW r \in Runs \ late
        PROVE  Agrees(db'[r], mem'[r], ran'[r], life') /\ Kept(r)
    <3>1. db'[r] = db[r] /\ mem'[r] = mem[r] /\ ran'[r] = ran[r] /\ life' = life
      BY <1>9 DEF Expire
    <3> QED
      BY <3>1, <1>d DEF Kept
  <2> QED
    BY <2>1, <2>2 DEF AllAgree
<1>10. ASSUME NEW r \in Runs, Clock(r)
       PROVE  AllAgree' /\ \A q \in Runs : Kept(q)
  <2>1. /\ db[r].approval = "pending" /\ db'[r] = [db[r] EXCEPT !.approval = "overdue"]
        /\ mem'[r] = mem[r] /\ ran'[r] = ran[r] /\ life' = life
        /\ \A q \in Runs \ {r} : db'[q] = db[q] /\ mem'[q] = mem[q] /\ ran'[q] = ran[q]
    BY <1>10 DEF Clock, TypeOK
  <2>2. Agrees([db[r] EXCEPT !.approval = "overdue"], mem[r], ran[r], life)
    BY <2>1, <1>d, ClockAgrees
  <2>3. Agrees(db'[r], mem'[r], ran'[r], life)
    BY <2>1, <2>2
  <2>4. Kept(r)
    BY <2>1, <1>d DEF Kept, RunRows
  <2> QED
    BY <2>1, <2>3, <2>4, <1>o
<1>11. ASSUME NEW r \in Runs, ApprovalTimer(r)
       PROVE  AllAgree' /\ \A q \in Runs : Kept(q)
  <2>1. /\ db[r].approval = "overdue" /\ mem[r].task = "waiting" /\ life' = life
        /\ db'[r] = Expired(db[r]) /\ mem'[r] = AbortMem(mem[r], "expired") /\ ran'[r] = ran[r]
        /\ \A q \in Runs \ {r} : db'[q] = db[q] /\ mem'[q] = mem[q] /\ ran'[q] = ran[q]
    BY <1>11 DEF ApprovalTimer, Awaits, TypeOK
  <2>2. db[r].kind \in Work
    BY <2>1, <1>d DEF Agrees
  <2>3. Agrees(Expired(db[r]),
               IF db[r].kind \in Work THEN AbortMem(mem[r], "expired") ELSE mem[r], ran[r], life)
    BY <2>1, <1>d, ExpireAgrees
  <2>4. Agrees(db'[r], mem'[r], ran'[r], life)
    BY <2>1, <2>2, <2>3
  <2>5. Kept(r)
    BY <2>1, <1>d, SettledStays DEF Kept, Live
  <2> QED
    BY <2>1, <2>4, <2>5, <1>o
<1>12. ASSUME NEW r \in Runs, BudgetTimer(r) \/ TargetLost(r)
       PROVE  AllAgree' /\ \A q \in Runs : Kept(q)
  <2>1. PICK reason \in {"limit", "target"} : Abort(r, reason)
    BY <1>12 DEF BudgetTimer, TargetLost
  <2>2. /\ db'[r] = AbortDb(db[r], mem[r], reason) /\ mem'[r] = AbortMem(mem[r], reason)
        /\ \A q \in Runs \ {r} : db'[q] = db[q] /\ mem'[q] = mem[q]
    BY <2>1 DEF Abort, TypeOK
  <2>3. ran' = ran /\ life' = life
    BY <1>12 DEF BudgetTimer, TargetLost
  <2>4. Agrees(AbortDb(db[r], mem[r], reason), AbortMem(mem[r], reason), ran[r], life)
    BY <1>d, AbortAgrees
  <2>5. Agrees(db'[r], mem'[r], ran'[r], life)
    BY <2>2, <2>3, <2>4
  <2>6. Kept(r)
    BY <2>2, <2>3, <1>d, SettledStays DEF Kept, Live
  <2> QED
    BY <2>2, <2>3, <2>5, <2>6, <1>o
<1>13. CASE Close
  <2>1. ASSUME NEW r \in Runs
        PROVE  Agrees(db'[r], mem'[r], ran'[r], life') /\ Kept(r)
    <3>1. /\ db'[r] = AbortDb(db[r], mem[r], "closed") /\ mem'[r] = AbortMem(mem[r], "closed")
          /\ ran'[r] = ran[r] /\ life' = "closing"
      BY <1>13 DEF Close
    <3>2. Agrees(AbortDb(db[r], mem[r], "closed"), AbortMem(mem[r], "closed"), ran[r], "closing")
      BY <1>d, AbortAgrees
    <3>3. Kept(r)
      BY <3>1, <1>d, SettledStays DEF Kept, Live
    <3> QED
      BY <3>1, <3>2, <3>3
  <2> QED
    BY <2>1 DEF AllAgree
<1>14. CASE CloseDone
  BY <1>14, <1>d DEF CloseDone, AllAgree, Agrees, Kept
<1>15. CASE Restart
  <2>1. ASSUME NEW r \in Runs
        PROVE  Agrees(db'[r], mem'[r], ran'[r], life') /\ Kept(r)
    <3>1. db'[r] = Recovered(db[r]) /\ mem'[r] = Idle /\ ran'[r] = ran[r] /\ life' = "open"
      BY <1>15 DEF Restart
    <3>2. Agrees(Recovered(db[r]), Idle, ran[r], "open")
      BY <1>d, RecoverAgrees
    <3>3. Kept(r)
      BY <3>1, <1>d, SettledStays DEF Kept, Live
    <3> QED
      BY <3>1, <3>2, <3>3
  <2> QED
    BY <2>1 DEF AllAgree
<1>16. CASE UNCHANGED vars
  BY <1>16, <1>d DEF vars, AllAgree, Kept
<1>17. CASE ListApprovals \/ \E r \in Runs : DecideLate(r)
  <2>1. PICK late \in SUBSET Runs : Expire(late) /\ \A r \in late : db[r].approval = "overdue"
    <3>1. CASE ListApprovals
      <4>1. {r \in Runs : db[r].approval = "overdue"} \in SUBSET Runs
        OBVIOUS
      <4> QED
        BY <3>1, <4>1 DEF ListApprovals
    <3>2. ASSUME NEW r \in Runs, DecideLate(r)
          PROVE  \E late \in SUBSET Runs :
                   /\ Expire(late)
                   /\ \A q \in late : db[q].approval = "overdue"
      <4>1. {r} \in SUBSET Runs
        OBVIOUS
      <4> QED
        BY <3>2, <4>1 DEF DecideLate
    <3> QED
      BY <3>1, <3>2, <1>17
  <2> QED
    BY <2>1, <1>9
<1> QED
  BY <1>1, <1>2, <1>3, <1>4, <1>5, <1>6, <1>7, <1>8, <1>10, <1>11, <1>12, <1>13, <1>14,
     <1>15, <1>16, <1>17 DEF Next

(* The inductive invariant holds in every reachable state.                 *)
LEMMA AgreeAlways == Spec => [](TypeOK /\ AllAgree)
<1>1. Init => AllAgree
  BY DEF Init, AllAgree, NoRun, Idle, Agrees, AtAwait, AtRest, Consents, Undone, Live, Over,
         Undecided, Work
<1>2. TypeOK /\ AllAgree /\ [Next]_vars => AllAgree'
  BY AgreeStep
<1> QED
  BY <1>1, <1>2, TypeCorrect, PTL DEF Spec

(* A call is executed at most once, and never before, after or against the *)
(* decision of the user about its approval.                                *)
THEOREM ConsentHonoured == Spec => []ConsentedOnce
<1>1. AllAgree => ConsentedOnce
  BY DEF AllAgree, Agrees, Consents, ConsentedOnce
<1> QED
  BY <1>1, AgreeAlways, PTL

(* What was said of a run or a call that is over is not taken back, and a  *)
(* run that is over, or a Runtime that closes, executes nothing.           *)
THEOREM NothingTakenBack == Spec => OverIsOver
<1>1. TypeOK /\ AllAgree /\ [Next]_vars =>
        [\A r \in Runs :
           /\ ~Live(db[r]) => db'[r].state = db[r].state
           /\ db[r].call \in Over /\ db'[r].call # db[r].call => db'[r].call = "proposed"
           /\ ran'[r] > ran[r] => /\ db[r].state \notin Over /\ mem'[r].aborted = "no"
                                  /\ life = "open"]_vars
  BY AgreeStep DEF Kept
<1> QED
  BY <1>1, AgreeAlways, PTL DEF Spec, OverIsOver

-----------------------------------------------------------------------------
(* Reservations                                                            *)

(* The inductive invariant: the tasks of work runs and the reserved        *)
(* terminals are in one-to-one correspondence.                             *)
Working(r) == Busy(r) /\ db[r].kind \in Work

Held ==
  /\ IsFiniteSet(Reserved) /\ Cardinality(Reserved) <= Capacity
  /\ \A t \in Reserved : Working(target[t])
  /\ \A r \in Runs : Working(r) => \E t \in Terminals : target[t] = r
  /\ \A s, t \in Reserved : target[s] = target[t] => s = t

(* A task that ends gives its reservation back; the others keep theirs.    *)
LEMMA EndsHeld ==
    ASSUME TypeOK, Held, NEW r \in Runs, Ends(r), ~Working(r)',
           \A q \in Runs \ {r} : Working(q)' = Working(q)
    PROVE  Held'
<1>1. target' = [t \in Terminals |-> IF target[t] = r THEN None ELSE target[t]]
  BY DEF Ends
<1>2. Reserved' = {t \in Reserved : target[t] # r}
  BY <1>1, AiAssumption DEF Reserved
<1>3. \A t \in Reserved' : t \in Reserved /\ target'[t] = target[t] /\ target[t] # r
                          /\ target[t] \in Runs
  BY <1>1, <1>2 DEF Reserved, TypeOK
<1>4. IsFiniteSet(Reserved') /\ Cardinality(Reserved') <= Capacity
  <2>1. Reserved' \in SUBSET Reserved
    BY <1>2
  <2>2. IsFiniteSet(Reserved') /\ Cardinality(Reserved') <= Cardinality(Reserved)
    BY <2>1, FS_Subset DEF Held
  <2>3. Cardinality(Reserved) \in Nat /\ Cardinality(Reserved') \in Nat
    BY <2>2, FS_CardinalityType DEF Held
  <2> QED
    BY <2>2, <2>3, AiAssumption DEF Held
<1>5. \A t \in Reserved' : Working(target[t])'
  BY <1>3 DEF Held
<1>6. ASSUME NEW q \in Runs, Working(q)' PROVE \E t \in Terminals : target'[t] = q
  <2>1. q # r /\ Working(q)
    BY <1>6
  <2>2. PICK t \in Terminals : target[t] = q
    BY <2>1 DEF Held
  <2> QED
    BY <2>1, <2>2, <1>1
<1> QED
  BY <1>3, <1>4, <1>5, <1>6 DEF Held

(* A step that reserves nothing, and neither ends nor starts the task of a *)
(* work run, keeps the correspondence.                                     *)
LEMMA SameHeld ==
    ASSUME TypeOK, Held, UNCHANGED target, \A q \in Runs : Working(q)' = Working(q)
    PROVE  Held'
<1>1. Reserved' = Reserved
  BY DEF Reserved
<1>2. \A t \in Reserved : target[t] \in Runs
  BY DEF Reserved, TypeOK
<1> QED
  BY <1>1, <1>2 DEF Held

(* Each step keeps the terminals with the work runs that hold them.        *)
LEMMA HeldStep ==
    ASSUME TypeOK, AllAgree, Held, [Next]_vars
    PROVE  Held'
<1>d. \A r \in Runs : /\ db[r] \in RunRows /\ mem[r] \in RunTasks
                      /\ Agrees(db[r], mem[r], ran[r], life)
  BY DEF TypeOK, AllAgree
<1>k. \A r \in Runs : \A reason :
        /\ (AbortMem(mem[r], reason).task = "none" <=> mem[r].task = "none")
        /\ AbortDb(db[r], mem[r], reason).kind = db[r].kind
        /\ Canceled(db[r]).kind = db[r].kind /\ Expired(db[r]).kind = db[r].kind
  <2> TAKE r \in Runs
  <2> TAKE reason
  <2>1. AbortMem(mem[r], reason).task = "none" <=> mem[r].task = "none"
    BY <1>d DEF AbortMem, Answered, Resumed, RunTasks
  <2>2. \A state : Settled(db[r], state).kind = db[r].kind
    BY <1>d DEF Settled, RunRows
  <2>3. Canceled(db[r]).kind = db[r].kind /\ Expired(db[r]).kind = db[r].kind
    BY <2>2, <1>d DEF Canceled, Expired, Settled, RunRows
  <2> QED
    BY <2>1, <2>2, <2>3 DEF AbortDb
<1>n. ASSUME NEW r \in Runs, NEW task, Now(r, task), task # "none", Busy(r)
      PROVE  \A q \in Runs : Busy(q)' = Busy(q)
  BY <1>n DEF Now, Busy, TypeOK
<1>e. ASSUME NEW r \in Runs, Ends(r), \A q \in Runs : db'[q].kind = db[q].kind
      PROVE  Held'
  <2>1. ~Working(r)' /\ \A q \in Runs \ {r} : Working(q)' = Working(q)
    BY <1>e DEF Ends, Working, Busy, Idle, TypeOK
  <2> QED
    BY <2>1, <1>e, EndsHeld
<1>s. ASSUME UNCHANGED target,
             \A q \in Runs : Busy(q)' = Busy(q) /\ db'[q].kind = db[q].kind
      PROVE  Held'
  <2>1. \A q \in Runs : Working(q)' = Working(q)
    BY <1>s DEF Working
  <2> QED
    BY <2>1, <1>s, SameHeld
<1>c. ASSUME NEW r \in Runs, CommandError(r), Busy(r)
      PROVE  Held'
  <2>1. \A q \in Runs : db'[q].kind = db[q].kind
    BY <1>c, <1>d DEF CommandError, Settled, TypeOK, RunRows
  <2> QED
    BY <2>1, <1>c, <1>n, <1>s DEF CommandError
<1>1. ASSUME NEW r \in Runs, NEW kind \in Kinds, NEW t \in Terminals, Start(r, kind, t)
      PROVE  Held'
  <2>1. ~Busy(r)
    BY <1>1, <1>d DEF Start, Agrees, Busy
  <2>2. \A q \in Runs \ {r} : Working(q)' = Working(q)
    BY <1>1 DEF Start, Working, Busy, TypeOK
  <2>3. db'[r].kind = kind
    BY <1>1 DEF Start, Started, TypeOK
  <2>4. CASE kind \notin Work
    <3>1. ~Working(r)' /\ ~Working(r)
      BY <2>1, <2>3, <2>4 DEF Working
    <3>2. \A q \in Runs : Working(q)' = Working(q)
      BY <3>1, <2>2 DEF Working
    <3> QED
      BY <3>2, <2>4, <1>1, SameHeld DEF Start
  <2>5. CASE kind \in Work
    <3>1. Working(r)'
      <4>1. mem'[r].task = "stream"
        BY <1>1, <2>5, <1>d DEF Start, Work, TypeOK, RunTasks
      <4> QED
        BY <4>1, <2>3, <2>5 DEF Working, Busy
    <3>2. MayWork(t) /\ target' = [target EXCEPT ![t] = r]
      BY <1>1, <2>5 DEF Start
    <3>3. Reserved' = Reserved \cup {t} /\ t \notin Reserved
      BY <3>2, AiAssumption DEF Reserved, MayWork, TypeOK
    <3>4. IsFiniteSet(Reserved') /\ Cardinality(Reserved') <= Capacity
      <4>1. IsFiniteSet(Reserved') /\ Cardinality(Reserved') = Cardinality(Reserved) + 1
        BY <3>3, FS_AddElement DEF Held
      <4>2. Cardinality(Reserved) \in Nat
        BY FS_CardinalityType DEF Held
      <4> QED
        BY <4>1, <4>2, <3>2, AiAssumption DEF MayWork
    <3>5. \A u \in Reserved : /\ target'[u] = target[u] /\ target[u] \in Runs
                              /\ target[u] # r /\ Working(target[u])
      BY <3>2, <3>3, <2>1 DEF Held, Reserved, TypeOK, Working
    <3>6. target'[t] = r
      BY <3>2 DEF TypeOK
    <3>7. ASSUME NEW q \in Runs, Working(q)' PROVE \E u \in Terminals : target'[u] = q
      <4>1. CASE q = r
        BY <4>1, <3>6
      <4>2. CASE q # r
        <5>1. PICK u \in Terminals : target[u] = q
          BY <4>2, <3>7, <2>2 DEF Held
        <5> QED
          BY <5>1, <3>2, <3>5, AiAssumption DEF Reserved, MayWork, TypeOK
      <4> QED
        BY <4>1, <4>2
    <3>8. \A u \in Reserved' : Working(target[u])' 
      BY <3>1, <3>3, <3>5, <3>6, <2>2
    <3>9. \A u, v \in Reserved' : target'[u] = target'[v] => u = v
      BY <3>3, <3>5, <3>6 DEF Held
    <3> QED
      BY <3>4, <3>7, <3>8, <3>9 DEF Held
  <2> QED
    BY <2>4, <2>5
<1>2. ASSUME NEW r \in Runs, Propose(r) \/ Checked(r) \/ Reviewed(r)
      PROVE  Held'
  <2>1. Busy(r)
    BY <1>2 DEF Propose, Checked, Reviewed, Awaits, Busy
  <2>2. CASE CommandError(r)
    BY <2>1, <2>2, <1>c
  <2>3. CASE ~CommandError(r)
    <3>1. \A q \in Runs : db'[q].kind = db[q].kind
      BY <1>2, <2>3, <1>d DEF Propose, Checked, Reviewed, Execute, Asks, TypeOK, RunRows
    <3>2. \A q \in Runs : Busy(q)' = Busy(q)
      <4>1. CASE Propose(r)
        <5>1. /\ mem'[r] = [mem[r] EXCEPT !.task = "checks", !.steps = @ + 1]
              /\ \A q \in Runs \ {r} : mem'[q] = mem[q]
          BY <4>1, <2>3 DEF Propose, TypeOK
        <5>2. mem'[r].task = "checks"
          BY <5>1, <1>d DEF RunTasks
        <5> QED
          BY <5>1, <5>2, <2>1 DEF Busy
      <4>2. CASE Checked(r)
        BY <4>2, <2>1, <2>3, <1>n DEF Checked
      <4>3. CASE Execute(r)
        BY <4>3, <2>1, <1>n DEF Execute
      <4>4. CASE Asks(r)
        BY <4>4, <2>1 DEF Asks, Busy, TypeOK
      <4> QED
        BY <4>1, <4>2, <4>3, <4>4, <1>2, <2>3 DEF Reviewed
    <3>3. UNCHANGED target
      BY <1>2, <2>3 DEF Propose, Checked, Reviewed, Execute, Asks
    <3> QED
      BY <3>1, <3>2, <3>3, <1>s
  <2> QED
    BY <2>2, <2>3
<1>3. ASSUME NEW r \in Runs, Executed(r)
      PROVE  Held'
  <2>1. Busy(r)
    BY <1>3 DEF Executed, Awaits, Busy
  <2>2. CASE CommandError(r)
    BY <2>1, <2>2, <1>c
  <2>3. CASE ~CommandError(r)
    <3>1. \A q \in Runs : db'[q].kind = db[q].kind
      BY <1>3, <2>3, <1>d DEF Executed, TypeOK, RunRows
    <3>2. Ends(r) \/ (Now(r, "stream") /\ UNCHANGED target)
      BY <1>3, <2>3 DEF Executed
    <3> QED
      BY <3>1, <3>2, <2>1, <1>e, <1>n, <1>s
  <2> QED
    BY <2>2, <2>3
<1>4. ASSUME NEW r \in Runs, StreamEnds(r)
      PROVE  Held'
  <2>1. \A q \in Runs : db'[q].kind = db[q].kind
    BY <1>4, <1>d DEF StreamEnds, TypeOK, RunRows
  <2> QED
    BY <2>1, <1>4, <1>e DEF StreamEnds
<1>5. ASSUME NEW r \in Runs, Cancel(r) \/ Reject(r)
      PROVE  Held'
  <2>1. /\ db' = [db EXCEPT ![r] = Canceled(db[r])]
        /\ mem' = [mem EXCEPT ![r] = AbortMem(mem[r], "canceled")]
    BY <1>5 DEF Cancel, Reject, TypeOK
  <2>2. \A q \in Runs : Busy(q)' = Busy(q) /\ db'[q].kind = db[q].kind
    BY <2>1, <1>k DEF Busy, TypeOK
  <2> QED
    BY <2>2, <1>5, <1>s DEF Cancel, Reject
<1>6. ASSUME NEW r \in Runs, Approve(r)
      PROVE  Held'
  <2>1. \A q \in Runs : db'[q].kind = db[q].kind
    BY <1>6, <1>d DEF Approve, Use, TypeOK, RunRows
  <2>2. \A q \in Runs \ {r} : Busy(q)' = Busy(q)
    BY <1>6 DEF Approve, Use, Busy, TypeOK
  <2>3. Working(r)' = Working(r)
    <3>1. CASE db[r].kind = "tool"
      BY <3>1, <2>1 DEF Working, Work
    <3>2. CASE db[r].kind # "tool"
      <4>1. mem[r].task = "waiting"
        BY <3>2, <1>6 DEF Approve, Decides, StillBound
      <4>2. mem'[r] = Answered(mem[r], "execute")
        BY <3>2, <1>6 DEF Approve, Use, TypeOK
      <4>3. mem'[r].task = "execute"
        BY <4>2, <1>d DEF Answered, Resumed, RunTasks
      <4> QED
        BY <4>1, <4>3, <2>1 DEF Working, Busy
    <3> QED
      BY <3>1, <3>2
  <2>4. \A q \in Runs : Working(q)' = Working(q)
    BY <2>1, <2>2, <2>3 DEF Working
  <2> QED
    BY <2>4, <1>6, SameHeld DEF Approve, Use
<1>7. ASSUME NEW late \in SUBSET Runs, Expire(late)
      PROVE  Held'
  <2>1. \A q \in Runs : Busy(q)' = Busy(q) /\ db'[q].kind = db[q].kind
    BY <1>7, <1>k DEF Expire, Busy
  <2> QED
    BY <2>1, <1>7, <1>s DEF Expire
<1>8. ASSUME NEW r \in Runs, Clock(r)
      PROVE  Held'
  <2>1. \A q \in Runs : db'[q].kind = db[q].kind /\ Busy(q)' = Busy(q)
    BY <1>8, <1>d DEF Clock, TypeOK, RunRows, Busy
  <2> QED
    BY <2>1, <1>8, <1>s DEF Clock
<1>9. ASSUME NEW r \in Runs, ApprovalTimer(r)
      PROVE  Held'
  <2>1. /\ db' = [db EXCEPT ![r] = Expired(db[r])]
        /\ mem' = [mem EXCEPT ![r] = AbortMem(mem[r], "expired")]
    BY <1>9 DEF ApprovalTimer, TypeOK
  <2>2. \A q \in Runs : Busy(q)' = Busy(q) /\ db'[q].kind = db[q].kind
    BY <2>1, <1>k DEF Busy, TypeOK
  <2> QED
    BY <2>2, <1>9, <1>s DEF ApprovalTimer
<1>10. ASSUME NEW r \in Runs, BudgetTimer(r) \/ TargetLost(r)
       PROVE  Held'
  <2>1. PICK reason \in {"limit", "target"} : Abort(r, reason)
    BY <1>10 DEF BudgetTimer, TargetLost
  <2>2. \A q \in Runs : Busy(q)' = Busy(q) /\ db'[q].kind = db[q].kind
    BY <2>1, <1>k DEF Abort, Busy, TypeOK
  <2> QED
    BY <2>2, <1>10, <1>s DEF BudgetTimer, TargetLost
<1>11. CASE Close
  <2>1. \A q \in Runs : Busy(q)' = Busy(q) /\ db'[q].kind = db[q].kind
    BY <1>11, <1>k DEF Close, Busy
  <2> QED
    BY <2>1, <1>11, <1>s DEF Close
<1>12. CASE Restart
  <2>1. Reserved' = {}
    BY <1>12 DEF Restart, Reserved
  <2>2. \A q \in Runs : ~Working(q)'
    BY <1>12 DEF Restart, Working, Busy, Idle
  <2> QED
    BY <2>1, <2>2, FS_EmptySet, AiAssumption DEF Held
<1>13. CASE CloseDone \/ UNCHANGED vars
  BY <1>13, <1>s DEF CloseDone, vars, Busy
<1>14. CASE ListApprovals \/ \E r \in Runs : DecideLate(r)
  <2>1. \A r \in Runs : {r} \in SUBSET Runs
    OBVIOUS
  <2>2. {r \in Runs : db[r].approval = "overdue"} \in SUBSET Runs
    OBVIOUS
  <2> QED
    BY <1>14, <1>7, <2>1, <2>2 DEF ListApprovals, DecideLate
<1> QED
  BY <1>1, <1>2, <1>3, <1>4, <1>5, <1>6, <1>8, <1>9, <1>10, <1>11, <1>12, <1>13, <1>14 DEF Next

(* The rows, calls and approvals of every run agree with each other and    *)
(* with its task, and terminals are reserved for live work tasks, one      *)
(* each, within the capacity.                                              *)
THEOREM RowsCorrect == Spec => []RowsAgree
<1>1. Init => Held
  <2> SUFFICES ASSUME Init PROVE Held
    OBVIOUS
  <2>1. Reserved = {} /\ \A r \in Runs : ~Working(r)
    BY DEF Init, Reserved, Working, Busy, Idle
  <2> QED
    BY <2>1, FS_EmptySet, AiAssumption DEF Held
<1>2. TypeOK /\ AllAgree /\ Held /\ [Next]_vars => Held'
  BY HeldStep
<1>3. TypeOK /\ AllAgree => \A r \in Runs : Answerable(r)
  BY DEF TypeOK, AllAgree, Agrees, AtAwait, AtRest, Asked, Running, Undone, Live, Over,
         Answerable, Decidable, StillBound, Busy, RunTasks
<1>4. TypeOK /\ Held => ReservedByWork
  <2> SUFFICES ASSUME TypeOK, Held PROVE ReservedByWork
    OBVIOUS
  <2>1. ASSUME NEW r \in Runs
        PROVE  Working(r) <=> Cardinality({t \in Terminals : target[t] = r}) = 1
    <3> DEFINE T == {t \in Terminals : target[t] = r}
    <3>1. T \in SUBSET Reserved
      BY AiAssumption DEF Reserved
    <3>2. IsFiniteSet(T)
      BY <3>1, FS_Subset DEF Held
    <3>3. CASE Working(r)
      <4>1. PICK t \in Terminals : target[t] = r
        BY <3>3 DEF Held
      <4>2. T = {t}
        BY <4>1, <3>1 DEF Held
      <4> QED
        BY <4>2, <3>3, FS_Singleton
    <3>4. CASE ~Working(r)
      <4>1. T = {}
        BY <3>4, <3>1 DEF Held
      <4> QED
        BY <4>1, <3>4, FS_EmptySet
    <3> QED
      BY <3>3, <3>4
  <2> QED
    BY <2>1 DEF ReservedByWork, Held, Working
<1> QED
  BY <1>1, <1>2, <1>3, <1>4, AgreeAlways, PTL DEF Spec, RowsAgree

=============================================================================
