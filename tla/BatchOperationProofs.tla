------------------------ MODULE BatchOperationProofs ------------------------
(* Proofs about BatchOperation, for every number of operations, targets,     *)
(* steps and workers, every choice of the steps that let a target go on or   *)
(* have a delay, and every bound.                                            *)
EXTENDS BatchOperation, FiniteSetTheorems, TLAPS

-----------------------------------------------------------------------------
(* The inductive invariant                                                   *)

Results == [1 .. Steps -> {"queued", "running", "succeeded", "failed", "canceled", "skipped"}]
TargetStates == {"queued", "connecting", "running", "succeeded", "failed", "canceled"}
Busy == {"wait", "open", "exec", "deaf", "delay", "close"}
Works == [at : Busy \union {"next", "ended"}, target : 0 .. Targets, step : 0 .. Steps]

TypeOK ==
    /\ state \in [Operations -> {"none", "running", "canceling", "cleared"} \union Completed]
    /\ target \in [Operations -> [Indices -> TargetStates]]
    /\ step \in [Operations -> [Indices -> Results]]
    /\ active \subseteq Operations
    /\ cursor \in [Operations -> 0 .. Targets]
    /\ work \in [Operations -> [Workers -> Works]]
    /\ conn \in [Operations -> [Indices -> {"none", "open"}]]

(* What the results of a target's steps can be: the steps before i are over  *)
(* and let the target go on, those from i on wait.                           *)
Passed(value, i) == value = "succeeded" \/ (value = "failed" /\ i \in Continues)
Ran(results, i) ==
    /\ \A j \in 1 .. Steps : j < i => Passed(results[j], j)
    /\ \A j \in 1 .. Steps : j >= i => results[j] = "queued"
Runs(results, i) ==
    /\ \A j \in 1 .. Steps : j < i => Passed(results[j], j)
    /\ results[i] = "running"
    /\ \A j \in 1 .. Steps : j > i => results[j] = "queued"

InOrder(results) ==
    \A i, j \in 1 .. Steps : i < j /\ results[j] \in {"running", "succeeded", "failed"} =>
        Passed(results[i], i)

Waits(results) == \A i \in 1 .. Steps : results[i] = "queued"

(* A target is over with these results.                                      *)
Over(value, results) ==
    /\ value \in {"succeeded", "failed", "canceled"}
    /\ \/ \A i \in 1 .. Steps : results[i] \in Settled
       \/ value = "failed" /\ Waits(results)
    /\ value = "succeeded" => \A i \in 1 .. Steps : results[i] = "succeeded"

(* A worker at a place, with step i, has a target of this value and results. *)
Matches(place, i, value, results) ==
    /\ place = "wait" => value = "connecting" /\ Ran(results, 1)
    /\ place \in {"open", "exec", "deaf"} =>
         value = "running" /\ i \in 1 .. Steps /\ Runs(results, i)
    /\ place = "delay" => value = "running" /\ i \in 1 .. Steps /\ Ran(results, i + 1)
    /\ place = "close" => Over(value, results)

BusyAt(o, w) == o \in active /\ work[o][w].at \in Busy
Taken(o, t) == \E w \in Workers : BusyAt(o, w) /\ work[o][w].target = t

(* Each busy worker has a target of its own, which says where it is.         *)
WorkerFits(o, w) ==
    /\ BusyAt(o, w) =>
         /\ work[o][w].target \in 1 .. cursor[o]
         /\ Matches(work[o][w].at, work[o][w].step,
                    target[o][work[o][w].target], step[o][work[o][w].target])
         /\ \A v \in Workers : BusyAt(o, v) /\ work[o][v].target = work[o][w].target => v = w
    /\ o \in active /\ work[o][w].at = "ended" => o \in aborted \/ cursor[o] = Targets

(* A target nobody has taken waits, one that was taken and given back is over.*)
TargetFits(o, t) ==
    /\ InOrder(step[o][t])
    /\ target[o][t] = "succeeded" => \A i \in 1 .. Steps : step[o][t][i] = "succeeded"
    /\ state[o] \in Completed => Over(target[o][t], step[o][t])
    /\ state[o] = "none" => target[o][t] = "queued" /\ Waits(step[o][t])
    /\ o \in active /\ t > cursor[o] => target[o][t] = "queued" /\ Waits(step[o][t])
    /\ o \in active /\ t <= cursor[o] => Taken(o, t) \/ Over(target[o][t], step[o][t])
    /\ conn[o][t] # "none" => Taken(o, t)

StateFits(o) ==
    /\ o \in active <=> state[o] \in {"running", "canceling"}
    /\ state[o] = "canceling" => o \in aborted
    /\ state[o] = "succeeded" <=>
         state[o] \in {"succeeded", "failed"} /\ target[o] = All("succeeded")

IInv ==
    /\ TypeOK
    /\ \A o \in Operations :
         /\ StateFits(o)
         /\ \A t \in Indices : TargetFits(o, t)
         /\ \A w \in Workers : WorkerFits(o, w)

-----------------------------------------------------------------------------
(* Results of a target                                                       *)

(* What the catch of runTarget() makes of results that are in order is over. *)
LEMMA BrokenOver ==
    ASSUME NEW results \in Results, InOrder(results), NEW canceled \in BOOLEAN,
           NEW value \in {"failed", "canceled"}
    PROVE  /\ Broken(results, canceled) \in Results
           /\ InOrder(Broken(results, canceled))
           /\ Over(value, Broken(results, canceled))
<1> DEFINE b == Broken(results, canceled)
<1>1. b \in Results
  BY DEF Broken, Results
<1>2. \A i \in 1 .. Steps : b[i] \in Settled
  BY DEF Broken, Results, Settled
<1>3. \A i \in 1 .. Steps :
        /\ b[i] \in {"running", "succeeded", "failed"} => b[i] = results[i]
        /\ results[i] \in {"succeeded", "failed"} => b[i] = results[i]
  BY DEF Broken, Results
<1> HIDE DEF b
<1>4. InOrder(b)
  BY <1>3 DEF InOrder, Passed
<1> QED
  BY <1>1, <1>2, <1>4 DEF Over, b

(* The step that runs is over, and lets the target go on.                    *)
LEMMA PassedStep ==
    ASSUME NEW results \in Results, NEW i \in 1 .. Steps, Runs(results, i),
           NEW value \in {"succeeded", "failed"}, Passed(value, i)
    PROVE  /\ [results EXCEPT ![i] = value] \in Results
           /\ Ran([results EXCEPT ![i] = value], i + 1)
<1> DEFINE b == [results EXCEPT ![i] = value]
<1>1. b \in Results /\ b[i] = value /\ \A j \in 1 .. Steps : j # i => b[j] = results[j]
  BY DEF Results
<1> HIDE DEF b
<1>2. \A j \in 1 .. Steps : j < i + 1 => j < i \/ j = i
  BY BatchAssumption
<1>3. \A j \in 1 .. Steps : j >= i + 1 => j > i
  BY BatchAssumption
<1>4. \A j \in 1 .. Steps : (j > i => j # i) /\ (j < i => j # i)
  BY BatchAssumption
<1>5. Ran(b, i + 1)
  BY <1>1, <1>2, <1>3, <1>4 DEF Ran, Runs
<1> QED
  BY <1>1, <1>5 DEF b

(* It failed and does not let the target go on: the others are skipped.      *)
LEMMA StoppedStep ==
    ASSUME NEW results \in Results, NEW i \in 1 .. Steps, Runs(results, i),
           NEW value \in {"succeeded", "failed"}
    PROVE  /\ SkipRemaining([results EXCEPT ![i] = value]) \in Results
           /\ InOrder(SkipRemaining([results EXCEPT ![i] = value]))
<1> DEFINE b == SkipRemaining([results EXCEPT ![i] = value])
<1>1. b \in Results /\ b[i] = value
  BY DEF Results, SkipRemaining
<1>2. \A j \in 1 .. Steps : (j < i => b[j] = results[j]) /\ (j > i => b[j] = "skipped")
  BY BatchAssumption DEF Results, SkipRemaining, Runs, Passed
<1> HIDE DEF b
<1>3. ASSUME NEW k \in 1 .. Steps, NEW j \in 1 .. Steps, k < j,
             b[j] \in {"running", "succeeded", "failed"}
      PROVE  Passed(b[k], k)
  <2>1. ~(j > i)
    BY <1>2, <1>3
  <2>2. k < i
    BY <1>3, <2>1, BatchAssumption
  <2> QED
    BY <1>2, <2>2 DEF Runs
<1> QED
  BY <1>1, <1>3 DEF InOrder, b

(* Steps that ran or wait are in order.                                      *)
LEMMA RanInOrder ==
    ASSUME NEW results \in Results, NEW i \in 1 .. Steps + 1,
           Ran(results, i) \/ (i \in 1 .. Steps /\ Runs(results, i))
    PROVE  InOrder(results)
<1> SUFFICES ASSUME NEW k \in 1 .. Steps, NEW j \in 1 .. Steps, k < j,
                    results[j] \in {"running", "succeeded", "failed"}
             PROVE  Passed(results[k], k)
  BY DEF InOrder
<1>1. ~(j > i)
  BY BatchAssumption DEF Ran, Runs
<1>2. k < i
  BY <1>1, BatchAssumption
<1> QED
  BY <1>2 DEF Ran, Runs

(* The next step starts.                                                     *)
LEMMA StartedStep ==
    ASSUME NEW results \in Results, NEW i \in 1 .. Steps, Ran(results, i)
    PROVE  /\ [results EXCEPT ![i] = "running"] \in Results
           /\ Runs([results EXCEPT ![i] = "running"], i)
<1> DEFINE b == [results EXCEPT ![i] = "running"]
<1>1. b \in Results /\ b[i] = "running" /\ \A j \in 1 .. Steps : j # i => b[j] = results[j]
  BY DEF Results
<1> HIDE DEF b
<1>2. \A j \in 1 .. Steps : (j > i => j # i /\ j >= i) /\ (j < i => j # i)
  BY BatchAssumption
<1>3. Runs(b, i)
  BY <1>1, <1>2 DEF Ran, Runs
<1> QED
  BY <1>1, <1>3 DEF b

(* When all steps are behind, the target is over.                            *)
LEMMA RanOver ==
    ASSUME NEW results \in Results, Ran(results, Steps + 1), NEW value,
           value = IF \E j \in 1 .. Steps : results[j] = "failed" THEN "failed" ELSE "succeeded"
    PROVE  Over(value, results)
<1>1. \A j \in 1 .. Steps : results[j] = "succeeded" \/ results[j] = "failed"
  BY BatchAssumption DEF Ran, Passed
<1> QED
  BY <1>1 DEF Over, Settled

-----------------------------------------------------------------------------
(* Steps                                                                     *)

(* Frame: a step that concerns one operation need only keep the types and    *)
(* what is said of that operation.                                           *)
LEMMA OneOperation ==
    ASSUME IInv, TypeOK', NEW o \in Operations,
           \A p \in Operations \ {o} :
             /\ state'[p] = state[p] /\ target'[p] = target[p] /\ step'[p] = step[p]
             /\ cursor'[p] = cursor[p] /\ work'[p] = work[p] /\ conn'[p] = conn[p]
             /\ p \in active' <=> p \in active
             /\ p \in aborted' <=> p \in aborted,
           StateFits(o)',
           \A t \in Indices : TargetFits(o, t)',
           \A w \in Workers : WorkerFits(o, w)'
    PROVE  IInv'
<1>1. ASSUME NEW p \in Operations \ {o} PROVE StateFits(p)'
  BY <1>1 DEF IInv, StateFits
<1>2. ASSUME NEW p \in Operations \ {o}, NEW t \in Indices PROVE TargetFits(p, t)'
  BY <1>2 DEF IInv, TargetFits, Taken, BusyAt
<1>3. ASSUME NEW p \in Operations \ {o}, NEW w \in Workers PROVE WorkerFits(p, w)'
  BY <1>3 DEF IInv, WorkerFits, BusyAt
<1> QED
  BY <1>1, <1>2, <1>3 DEF IInv

(* A busy worker goes on with its target, to a place that matches what it    *)
(* makes of the target.                                                      *)
LEMMA WorkerMoves ==
    ASSUME IInv, NEW o \in Operations, NEW w \in Workers, BusyAt(o, w),
           NEW place \in Busy, NEW i \in 0 .. Steps,
           NEW value \in TargetStates, NEW results \in Results,
           InOrder(results), Matches(place, i, value, results),
           Save(o, Of(o, w), value, results), Goes(o, w, place, i),
           UNCHANGED <<cursor, conn>>, Continue(o, w)
    PROVE  IInv'
<1> DEFINE t == work[o][w].target
<1>0. ASSUME NEW v \in Workers, BusyAt(o, v)
      PROVE  WorkerFits(o, v) /\ work[o][v].target \in 1 .. cursor[o]
                              /\ work[o][v].target \in Indices
  <2>1. WorkerFits(o, v) /\ cursor[o] \in 0 .. Targets
    BY DEF IInv, TypeOK
  <2>2. work[o][v].target \in 1 .. cursor[o]
    BY <2>1, <1>0 DEF WorkerFits
  <2> QED
    BY <2>1, <2>2, BatchAssumption DEF Indices
<1>t. TypeOK /\ t \in 1 .. cursor[o] /\ t \in Indices /\ WorkerFits(o, w) /\ o \in active
  BY <1>0 DEF IInv, BusyAt
<1>1. /\ target'[o][t] = value /\ step'[o][t] = results
      /\ \A u \in Indices \ {t} : target'[o][u] = target[o][u] /\ step'[o][u] = step[o][u]
      /\ \A p \in Operations \ {o} : target'[p] = target[p] /\ step'[p] = step[p]
      /\ target' \in [Operations -> [Indices -> TargetStates]]
      /\ step' \in [Operations -> [Indices -> Results]]
  BY <1>t DEF Save, Of, TypeOK
<1>2. /\ work'[o][w].at = place /\ work'[o][w].step = i /\ work'[o][w].target = t
      /\ \A v \in Workers \ {w} : work'[o][v] = work[o][v]
      /\ \A p \in Operations \ {o} : work'[p] = work[p]
      /\ work' \in [Operations -> [Workers -> Works]]
  <2>1. work[o] \in [Workers -> Works] /\ work[o][w] \in Works
    BY <1>t DEF TypeOK
  <2>2. [work[o][w] EXCEPT !.at = place, !.step = i] \in Works
    BY <2>1 DEF Works
  <2>3. work' = [work EXCEPT ![o] = [work[o] EXCEPT ![w] =
                   [work[o][w] EXCEPT !.at = place, !.step = i]]]
    BY <1>t, <2>1 DEF Goes, TypeOK
  <2> QED
    BY <1>t, <2>1, <2>2, <2>3 DEF TypeOK, Works
<1>3. /\ state' = state /\ active' = active /\ aborted' = aborted
      /\ cursor' = cursor /\ conn' = conn
  BY DEF Continue
<1> HIDE DEF t
<1>4. TypeOK'
  BY <1>t, <1>1, <1>2, <1>3 DEF TypeOK
<1>5. BusyAt(o, w)' /\ \A v \in Workers : BusyAt(o, v)' <=> BusyAt(o, v)
  BY <1>2, <1>3, <1>t DEF BusyAt
<1>6. \A v \in Workers : work'[o][v].target = work[o][v].target
  BY <1>2 DEF t
<1>7. \A u \in Indices : Taken(o, u)' <=> Taken(o, u)
  BY <1>5, <1>6 DEF Taken
<1>8. Taken(o, t)
  BY DEF Taken, t
<1>9. ASSUME NEW v \in Workers PROVE WorkerFits(o, v)'
  <2>1. CASE v = w
    <3>1. Matches(place, i, target'[o][t], step'[o][t])
      BY <1>1
    <3>2. \A x \in Workers : BusyAt(o, x)' /\ work'[o][x].target = work'[o][w].target => x = w
      BY <1>5, <1>6, <1>t DEF WorkerFits, t
    <3>3. place # "ended"
      BY DEF Busy
    <3> QED
      BY <2>1, <3>1, <3>2, <3>3, <1>2, <1>3, <1>t DEF WorkerFits
  <2>2. CASE v # w /\ BusyAt(o, v)
    <3>1. work[o][v].target # t /\ work[o][v].target \in Indices /\ WorkerFits(o, v)
      <4>1. WorkerFits(o, v) /\ work[o][v].target \in Indices
        BY <2>2, <1>0
      <4>2. work[o][v].target = t => w = v
        BY <4>1, <2>2 DEF WorkerFits, t
      <4> QED
        BY <4>1, <4>2, <2>2
    <3>2. target'[o][work'[o][v].target] = target[o][work[o][v].target]
          /\ step'[o][work'[o][v].target] = step[o][work[o][v].target]
          /\ work'[o][v] = work[o][v]
      BY <3>1, <2>2, <1>1, <1>2
    <3>3. \A x \in Workers : BusyAt(o, x)' /\ work'[o][x].target = work'[o][v].target => x = v
      BY <1>5, <1>6, <3>1, <2>2 DEF WorkerFits
    <3> QED
      BY <3>1, <3>2, <3>3, <1>3, <2>2 DEF WorkerFits
  <2>3. CASE v # w /\ ~BusyAt(o, v)
    <3>1. work'[o][v] = work[o][v] /\ WorkerFits(o, v) /\ ~BusyAt(o, v)'
      BY <2>3, <1>2, <1>5 DEF IInv
    <3> QED
      BY <3>1, <1>3 DEF WorkerFits
  <2> QED
    BY <2>1, <2>2, <2>3
<1>10. state[o] \in {"running", "canceling"}
  BY <1>t DEF IInv, StateFits
<1>11. StateFits(o)'
  BY <1>3, <1>10 DEF IInv, StateFits
<1>12. value = "succeeded" => \A j \in 1 .. Steps : results[j] = "succeeded"
  BY DEF Matches, Over, Busy
<1>13. ASSUME NEW u \in Indices PROVE TargetFits(o, u)'
  <2>0. TargetFits(o, u)
    BY DEF IInv
  <2>1. CASE u = t
    <3>1. Taken(o, u)' /\ ~(u > cursor[o])
      BY <2>1, <1>7, <1>8, <1>t DEF TypeOK
    <3> QED
      BY <2>1, <3>1, <1>1, <1>3, <1>10, <1>12 DEF TargetFits, Completed
  <2>2. CASE u # t
    BY <2>0, <2>2, <1>1, <1>3, <1>7 DEF TargetFits
  <2> QED
    BY <2>1, <2>2
<1> QED
  BY <1>1, <1>2, <1>3, <1>4, <1>9, <1>11, <1>13, OneOperation

(* The catch of runTarget() leaves the target over and its connection to be  *)
(* closed.                                                                   *)
LEMMA ThrowsStep ==
    ASSUME IInv, NEW o \in Operations, NEW w \in Workers, BusyAt(o, w),
           NEW results \in Results, InOrder(results), Throws(o, w, results),
           UNCHANGED <<cursor, conn>>, Continue(o, w)
    PROVE  IInv'
<1> DEFINE value == IF o \in aborted THEN "canceled" ELSE "failed"
           b == Broken(results, o \in aborted)
<1>1. b \in Results /\ InOrder(b) /\ Over(value, b)
  <2>1. CASE o \in aborted
    BY <2>1, BrokenOver
  <2>2. CASE o \notin aborted
    <3>1. (o \in aborted) = FALSE
      BY <2>2
    <3> QED
      BY <3>1, BrokenOver
  <2> QED
    BY <2>1, <2>2
<1>2. value \in TargetStates /\ "close" \in Busy /\ 0 \in 0 .. Steps
  BY BatchAssumption DEF TargetStates, Busy
<1>3. Save(o, Of(o, w), value, b) /\ Goes(o, w, "close", 0)
  BY DEF Throws, Leaves
<1> HIDE DEF b, value
<1>4. Matches("close", 0, value, b)
  BY <1>1 DEF Matches
<1> QED
  BY <1>1, <1>2, <1>3, <1>4, WorkerMoves

(* The head of the loop ends the target or starts step i.                    *)
LEMMA NextStepStep ==
    ASSUME IInv, NEW o \in Operations, NEW w \in Workers, BusyAt(o, w),
           NEW i \in 1 .. Steps + 1, NEW results \in Results, Ran(results, i),
           NextStep(o, w, i, results), UNCHANGED <<cursor, conn>>, Continue(o, w)
    PROVE  IInv'
<1>1. InOrder(results)
  BY RanInOrder
<1>2. CASE i > Steps
  <2> DEFINE value == IF \E j \in 1 .. Steps : results[j] = "failed"
                      THEN "failed" ELSE "succeeded"
  <2>1. Save(o, Of(o, w), value, results) /\ Goes(o, w, "close", 0)
    BY <1>2, BatchAssumption DEF NextStep, Leaves
  <2>2. value \in TargetStates /\ "close" \in Busy /\ 0 \in 0 .. Steps
    BY BatchAssumption DEF TargetStates, Busy
  <2>3. i = Steps + 1
    BY <1>2, BatchAssumption
  <2>4. Over(value, results)
    BY <2>3, RanOver
  <2> HIDE DEF value
  <2>5. Matches("close", 0, value, results)
    BY <2>4 DEF Matches
  <2> QED
    BY <1>1, <2>1, <2>2, <2>5, WorkerMoves
<1>3. CASE i <= Steps /\ o \in aborted
  BY <1>1, <1>3, ThrowsStep, BatchAssumption DEF NextStep
<1>4. CASE i <= Steps /\ o \notin aborted
  <2> DEFINE b == [results EXCEPT ![i] = "running"]
  <2>1. i \in 1 .. Steps /\ i \in 0 .. Steps /\ i \in 1 .. Steps + 1
    BY <1>4, BatchAssumption
  <2>2. Save(o, Of(o, w), "running", b) /\ Goes(o, w, "open", i)
    BY <1>4, <2>1, BatchAssumption DEF NextStep
  <2>3. b \in Results /\ Runs(b, i)
    BY <2>1, StartedStep
  <2>4. "running" \in TargetStates /\ "open" \in Busy
    BY DEF TargetStates, Busy
  <2> HIDE DEF b
  <2>5. InOrder(b)
    BY <2>1, <2>3, RanInOrder
  <2>6. Matches("open", i, "running", b)
    BY <2>1, <2>3 DEF Matches
  <2> QED
    BY <2>1, <2>2, <2>3, <2>4, <2>5, <2>6, WorkerMoves
<1> QED
  BY <1>2, <1>3, <1>4, BatchAssumption

(* The step that runs ends.                                                  *)
LEMMA StepEndsStep ==
    ASSUME IInv, NEW o \in Operations, NEW w \in Workers, BusyAt(o, w),
           NEW i \in 1 .. Steps, target[o][Of(o, w)] = "running",
           StepsOf(o, w) \in Results, Runs(StepsOf(o, w), i),
           NEW value \in {"succeeded", "failed"}, NEW delays \in BOOLEAN,
           StepEnds(o, w, i, value, delays), UNCHANGED <<cursor, conn>>, Continue(o, w)
    PROVE  IInv'
<1> DEFINE r == StepsOf(o, w)
           b == [r EXCEPT ![i] = value]
<1>1. CASE value = "failed" /\ ~MayContinue(i)
  <2>1. Throws(o, w, SkipRemaining(b))
    BY <1>1 DEF StepEnds
  <2>2. SkipRemaining(b) \in Results /\ InOrder(SkipRemaining(b))
    BY StoppedStep
  <2> HIDE DEF b
  <2> QED
    BY <2>1, <2>2, ThrowsStep
<1>2. CASE ~(value = "failed" /\ ~MayContinue(i))
  <2>1. Passed(value, i)
    BY <1>2 DEF Passed, MayContinue
  <2>2. b \in Results /\ Ran(b, i + 1)
    BY <2>1, PassedStep
  <2>3. i + 1 \in 1 .. Steps + 1
    BY BatchAssumption
  <2>4. InOrder(b)
    <3> HIDE DEF b
    <3> QED
      BY <2>2, <2>3, RanInOrder
  <2>5. CASE delays /\ i \in Delays /\ i < Steps /\ o \in aborted
    <3>1. Throws(o, w, b)
      BY <1>2, <2>5 DEF StepEnds
    <3> HIDE DEF b
    <3> QED
      BY <2>2, <2>4, <3>1, ThrowsStep
  <2>6. CASE delays /\ i \in Delays /\ i < Steps /\ o \notin aborted
    <3>1. Save(o, Of(o, w), "running", b) /\ Goes(o, w, "delay", i)
      BY <1>2, <2>6 DEF StepEnds
    <3>2. "running" \in TargetStates /\ "delay" \in Busy /\ i \in 0 .. Steps
      BY BatchAssumption DEF TargetStates, Busy
    <3> HIDE DEF b
    <3>3. Matches("delay", i, "running", b)
      BY <2>2 DEF Matches
    <3> QED
      BY <2>2, <2>4, <3>1, <3>2, <3>3, WorkerMoves
  <2>7. CASE ~(delays /\ i \in Delays /\ i < Steps)
    <3>1. NextStep(o, w, i + 1, b)
      BY <1>2, <2>7 DEF StepEnds
    <3> HIDE DEF b
    <3> QED
      BY <2>2, <2>3, <3>1, NextStepStep
  <2> QED
    BY <2>5, <2>6, <2>7
<1> QED
  BY <1>1, <1>2

(* What a busy worker's place says of its target.                            *)
LEMMA BusyFits ==
    ASSUME IInv, NEW o \in Operations, NEW w \in Workers, NEW places, At(o, w, places),
           places \subseteq Busy
    PROVE  /\ BusyAt(o, w) /\ o \in active /\ work[o][w].at \in places
           /\ Of(o, w) \in Indices /\ Of(o, w) \in 1 .. cursor[o]
           /\ Now(o, w) \in 0 .. Steps
           /\ StepsOf(o, w) \in Results /\ InOrder(StepsOf(o, w))
           /\ target[o][Of(o, w)] \in TargetStates
           /\ Matches(work[o][w].at, Now(o, w), target[o][Of(o, w)], StepsOf(o, w))
<1>1. BusyAt(o, w) /\ o \in active /\ work[o][w].at \in places
  BY DEF At, BusyAt
<1>2. work[o][w] \in Works /\ cursor[o] \in 0 .. Targets /\ WorkerFits(o, w)
  BY DEF IInv, TypeOK
<1>3. Of(o, w) \in 1 .. cursor[o]
  BY <1>1, <1>2 DEF WorkerFits, Of
<1>4. Of(o, w) \in Indices
  BY <1>2, <1>3, BatchAssumption DEF Indices
<1>5. TargetFits(o, Of(o, w)) /\ target[o][Of(o, w)] \in TargetStates
      /\ StepsOf(o, w) \in Results
  BY <1>4 DEF IInv, TypeOK, StepsOf
<1>6. Now(o, w) \in 0 .. Steps
  BY <1>2 DEF Works, Now
<1> QED
  BY <1>1, <1>2, <1>3, <1>4, <1>5, <1>6 DEF WorkerFits, TargetFits, Of, Now, StepsOf

(* Each step of a worker that keeps its target keeps the invariant.          *)
LEMMA BusyStep ==
    ASSUME IInv, NEW o \in Operations, NEW w \in Workers,
           \/ Connected(o, w) \/ ConnectFails(o, w) \/ ChannelOpens(o, w)
           \/ CommandEnds(o, w) \/ ExecFails(o, w) \/ DelayEnds(o, w) \/ Aborts(o, w)
    PROVE  IInv'
<1>b. Interruptible \subseteq Busy
  BY DEF Interruptible, Busy
<1>1. CASE Connected(o, w)
  <2>1. At(o, w, {"wait"}) /\ {"wait"} \subseteq Busy
    BY <1>1 DEF Connected, Busy
  <2>2. BusyAt(o, w) /\ StepsOf(o, w) \in Results /\ Ran(StepsOf(o, w), 1)
    BY <2>1, BusyFits DEF Matches
  <2>3. 1 \in 1 .. Steps + 1
    BY BatchAssumption
  <2> QED
    BY <1>1, <2>2, <2>3, NextStepStep DEF Connected
<1>2. CASE ConnectFails(o, w)
  <2>1. At(o, w, {"wait"}) /\ {"wait"} \subseteq Busy
    BY <1>2 DEF ConnectFails, Busy
  <2> QED
    BY <1>2, <2>1, BusyFits, ThrowsStep DEF ConnectFails
<1>3. CASE ChannelOpens(o, w)
  <2> DEFINE place == IF o \in aborted THEN "deaf" ELSE "exec"
             t == Of(o, w)
  <2>1. At(o, w, {"open"}) /\ {"open"} \subseteq Busy
    BY <1>3 DEF ChannelOpens, Busy
  <2>2. place \in Busy
    BY DEF Busy
  <2>3. /\ BusyAt(o, w) /\ target[o][t] \in TargetStates /\ StepsOf(o, w) \in Results
        /\ InOrder(StepsOf(o, w)) /\ Now(o, w) \in 0 .. Steps /\ t \in Indices
        /\ work[o][w].at = "open" /\ Matches("open", Now(o, w), target[o][t], StepsOf(o, w))
    BY <2>1, BusyFits
  <2>4. Matches(place, Now(o, w), target[o][t], StepsOf(o, w))
    BY <2>3 DEF Matches
  <2>5. target' = target /\ step' = step /\ Goes(o, w, place, Now(o, w))
    BY <1>3 DEF ChannelOpens
  <2>6. Save(o, t, target[o][t], StepsOf(o, w))
    <3> HIDE DEF t
    <3>1. target = [target EXCEPT ![o][t] = target[o][t]]
      BY <2>3 DEF IInv, TypeOK
    <3>2. step = [step EXCEPT ![o][t] = step[o][t]]
      BY <2>3 DEF IInv, TypeOK
    <3> QED
      BY <2>5, <3>1, <3>2 DEF Save, StepsOf, t
  <2> HIDE DEF place
  <2> QED
    BY <1>3, <2>2, <2>3, <2>4, <2>5, <2>6, WorkerMoves DEF ChannelOpens
<1>4. CASE CommandEnds(o, w)
  <2>1. At(o, w, {"exec", "deaf"}) /\ {"exec", "deaf"} \subseteq Busy
    BY <1>4 DEF CommandEnds, Busy
  <2>2. /\ BusyAt(o, w) /\ StepsOf(o, w) \in Results /\ target[o][Of(o, w)] = "running"
        /\ Now(o, w) \in 1 .. Steps /\ Runs(StepsOf(o, w), Now(o, w))
    BY <2>1, BusyFits DEF Matches
  <2> QED
    BY <1>4, <2>2, StepEndsStep DEF CommandEnds
<1>5. CASE ExecFails(o, w)
  <2>1. At(o, w, {"open", "exec", "deaf"}) /\ {"open", "exec", "deaf"} \subseteq Busy
    BY <1>5 DEF ExecFails, Busy
  <2>2. /\ BusyAt(o, w) /\ StepsOf(o, w) \in Results /\ target[o][Of(o, w)] = "running"
        /\ Now(o, w) \in 1 .. Steps /\ Runs(StepsOf(o, w), Now(o, w))
        /\ InOrder(StepsOf(o, w))
    BY <2>1, BusyFits DEF Matches
  <2>3. CASE o \in aborted
    BY <1>5, <2>2, <2>3, ThrowsStep DEF ExecFails
  <2>4. CASE o \notin aborted
    BY <1>5, <2>2, <2>4, StepEndsStep DEF ExecFails
  <2> QED
    BY <2>3, <2>4
<1>6. CASE DelayEnds(o, w)
  <2>1. At(o, w, {"delay"}) /\ {"delay"} \subseteq Busy
    BY <1>6 DEF DelayEnds, Busy
  <2>2. /\ BusyAt(o, w) /\ StepsOf(o, w) \in Results /\ Ran(StepsOf(o, w), Now(o, w) + 1)
        /\ Now(o, w) \in 1 .. Steps
    BY <2>1, BusyFits DEF Matches
  <2>3. Now(o, w) + 1 \in 1 .. Steps + 1
    BY <2>2, BatchAssumption
  <2> QED
    BY <1>6, <2>2, <2>3, NextStepStep DEF DelayEnds
<1>7. CASE Aborts(o, w)
  BY <1>7, <1>b, BusyFits, ThrowsStep DEF Aborts
<1> QED
  BY <1>1, <1>2, <1>3, <1>4, <1>5, <1>6, <1>7

(* A target waits to be looked up, a worker has it, or it is over.           *)
LEMMA TargetsKnown ==
    ASSUME IInv, NEW o \in Operations, NEW t \in Indices, o \in active
    PROVE  \/ target[o][t] = "queued" /\ Waits(step[o][t]) /\ ~Taken(o, t) /\ t > cursor[o]
           \/ target[o][t] \in {"connecting", "running"} /\ Taken(o, t)
           \/ Over(target[o][t], step[o][t])
<1>1. TargetFits(o, t) /\ cursor[o] \in 0 .. Targets
  BY DEF IInv, TypeOK
<1>2. CASE t > cursor[o]
  <2>1. ASSUME Taken(o, t) PROVE FALSE
    <3>1. PICK w \in Workers : BusyAt(o, w) /\ work[o][w].target = t
      BY <2>1 DEF Taken
    <3>2. t \in 1 .. cursor[o]
      BY <3>1 DEF IInv, WorkerFits
    <3> QED
      BY <1>1, <1>2, <3>2
  <2> QED
    BY <1>1, <1>2, <2>1 DEF TargetFits
<1>3. CASE t <= cursor[o] /\ Taken(o, t)
  <2>1. PICK w \in Workers : BusyAt(o, w) /\ work[o][w].target = t
    BY <1>3 DEF Taken
  <2>2. Matches(work[o][w].at, work[o][w].step, target[o][t], step[o][t])
    BY <2>1 DEF IInv, WorkerFits
  <2>3. work[o][w].at \in Busy
    BY <2>1 DEF BusyAt
  <2> QED
    BY <1>3, <2>2, <2>3 DEF Matches, Busy
<1>4. CASE t <= cursor[o] /\ ~Taken(o, t)
  BY <1>1, <1>4 DEF TargetFits
<1> QED
  BY <1>1, <1>2, <1>3, <1>4, BatchAssumption DEF Indices

(* A worker closes the connection of a target that is over and lets it go.   *)
LEMMA CloseStep ==
    ASSUME IInv, NEW o \in Operations, NEW w \in Workers, ConnectionClosed(o, w)
    PROVE  IInv'
<1> DEFINE t == work[o][w].target
<1>0. At(o, w, {"close"}) /\ {"close"} \subseteq Busy
  BY DEF ConnectionClosed, Busy
<1>1. /\ BusyAt(o, w) /\ o \in active /\ t \in Indices /\ t \in 1 .. cursor[o]
      /\ Over(target[o][t], step[o][t])
  BY <1>0, BusyFits DEF Of, StepsOf, Matches
<1>2. TypeOK
  BY DEF IInv
<1>3. /\ work'[o][w].at = "next" /\ \A v \in Workers \ {w} : work'[o][v] = work[o][v]
      /\ \A p \in Operations \ {o} : work'[p] = work[p]
      /\ work' \in [Operations -> [Workers -> Works]]
  <2>1. Idle \in Works
    BY BatchAssumption DEF Idle, Works, Busy
  <2> QED
    BY <1>2, <2>1 DEF ConnectionClosed, TypeOK, Idle
<1>4. /\ conn'[o][t] = "none" /\ \A u \in Indices \ {t} : conn'[o][u] = conn[o][u]
      /\ \A p \in Operations \ {o} : conn'[p] = conn[p]
      /\ conn' \in [Operations -> [Indices -> {"none", "open"}]]
  BY <1>1, <1>2 DEF ConnectionClosed, TypeOK, Of
<1>5. /\ state' = state /\ active' = active /\ aborted' = aborted
      /\ cursor' = cursor /\ target' = target /\ step' = step
  BY DEF ConnectionClosed, Continue
<1>6. \A v \in Workers : BusyAt(o, v)' <=> BusyAt(o, v) /\ v # w
  BY <1>3, <1>5 DEF BusyAt, Busy
<1>7. \A v \in Workers \ {w} : BusyAt(o, v) => work[o][v].target # t
  BY <1>1 DEF IInv, WorkerFits
<1>8. \A u \in Indices \ {t} : Taken(o, u) => Taken(o, u)'
  <2>1. ASSUME NEW u \in Indices \ {t}, Taken(o, u) PROVE Taken(o, u)'
    <3>1. PICK v \in Workers : BusyAt(o, v) /\ work[o][v].target = u
      BY <2>1 DEF Taken
    <3>2. v # w
      BY <3>1
    <3> QED
      BY <1>3, <1>6, <3>1, <3>2 DEF Taken
  <2> QED
    BY <2>1
<1> HIDE DEF t
<1>9. TypeOK'
  BY <1>2, <1>3, <1>4, <1>5 DEF TypeOK
<1>10. ASSUME NEW u \in Indices PROVE TargetFits(o, u)'
  <2>1. TargetFits(o, u)
    BY DEF IInv
  <2>2. CASE u = t
    BY <2>1, <2>2, <1>1, <1>4, <1>5 DEF TargetFits
  <2>3. CASE u # t
    BY <2>1, <2>3, <1>4, <1>5, <1>8 DEF TargetFits
  <2> QED
    BY <2>2, <2>3
<1>11. ASSUME NEW v \in Workers PROVE WorkerFits(o, v)'
  <2>1. CASE v = w
    BY <2>1, <1>3, <1>6 DEF WorkerFits
  <2>2. CASE v # w /\ BusyAt(o, v)
    <3>1. WorkerFits(o, v) /\ work'[o][v] = work[o][v]
      BY <2>2, <1>3 DEF IInv
    <3>2. \A x \in Workers : BusyAt(o, x)' /\ work'[o][x].target = work'[o][v].target => x = v
      BY <2>2, <3>1, <1>3, <1>6 DEF WorkerFits
    <3> QED
      BY <2>2, <3>1, <3>2, <1>5 DEF WorkerFits
  <2>3. CASE v # w /\ ~BusyAt(o, v)
    <3>1. WorkerFits(o, v) /\ work'[o][v] = work[o][v] /\ ~BusyAt(o, v)'
      BY <2>3, <1>3, <1>6 DEF IInv
    <3> QED
      BY <3>1, <1>5 DEF WorkerFits
  <2> QED
    BY <2>1, <2>2, <2>3
<1>12. StateFits(o)'
  BY <1>5 DEF IInv, StateFits
<1> QED
  BY <1>3, <1>4, <1>5, <1>9, <1>10, <1>11, <1>12, OneOperation

(* A worker that has nothing left to take, or hears the abort, returns.      *)
LEMMA WorkerEndsStep ==
    ASSUME IInv, NEW o \in Operations, NEW w \in Workers, WorkerEnds(o, w)
    PROVE  IInv'
<1>1. o \in active /\ (o \in aborted \/ cursor[o] = Targets)
  BY DEF WorkerEnds, At, BusyAt, Busy
<1>2. TypeOK
  BY DEF IInv
<1>3. /\ work'[o][w].at = "ended" /\ \A v \in Workers \ {w} : work'[o][v] = work[o][v]
      /\ \A p \in Operations \ {o} : work'[p] = work[p]
      /\ work' \in [Operations -> [Workers -> Works]]
  <2>1. Ended \in Works
    BY BatchAssumption DEF Ended, Works, Busy
  <2> QED
    BY <1>2, <2>1 DEF WorkerEnds, TypeOK, Ended
<1>5. /\ state' = state /\ active' = active /\ aborted' = aborted /\ conn' = conn
      /\ cursor' = cursor /\ target' = target /\ step' = step
  BY DEF WorkerEnds, Continue
<1>0. ~BusyAt(o, w)
  BY DEF WorkerEnds, At, BusyAt, Busy
<1>6. \A v \in Workers : BusyAt(o, v)' <=> BusyAt(o, v)
  BY <1>0, <1>3, <1>5 DEF BusyAt, Busy
<1>8. \A u \in Indices : Taken(o, u) => Taken(o, u)'
  <2>1. ASSUME NEW u \in Indices, Taken(o, u) PROVE Taken(o, u)'
    <3>1. PICK v \in Workers : BusyAt(o, v) /\ work[o][v].target = u
      BY <2>1 DEF Taken
    <3>2. v # w
      BY <3>1, <1>0
    <3> QED
      BY <1>3, <1>6, <3>1, <3>2 DEF Taken
  <2> QED
    BY <2>1
<1>9. TypeOK'
  BY <1>2, <1>3, <1>5 DEF TypeOK
<1>10. ASSUME NEW u \in Indices PROVE TargetFits(o, u)'
  <2>1. TargetFits(o, u)
    BY DEF IInv
  <2> QED
    BY <2>1, <1>5, <1>8 DEF TargetFits
<1>11. ASSUME NEW v \in Workers PROVE WorkerFits(o, v)'
  <2>1. CASE v = w
    BY <2>1, <1>0, <1>1, <1>3, <1>5, <1>6 DEF WorkerFits
  <2>2. CASE v # w /\ BusyAt(o, v)
    <3>1. WorkerFits(o, v) /\ work'[o][v] = work[o][v]
      BY <2>2, <1>3 DEF IInv
    <3>2. \A x \in Workers : BusyAt(o, x)' /\ work'[o][x].target = work'[o][v].target => x = v
      BY <2>2, <3>1, <1>0, <1>3, <1>6 DEF WorkerFits
    <3> QED
      BY <2>2, <3>1, <3>2, <1>5 DEF WorkerFits
  <2>3. CASE v # w /\ ~BusyAt(o, v)
    <3>1. WorkerFits(o, v) /\ work'[o][v] = work[o][v] /\ ~BusyAt(o, v)'
      BY <2>3, <1>3, <1>6 DEF IInv
    <3> QED
      BY <3>1, <1>5 DEF WorkerFits
  <2> QED
    BY <2>1, <2>2, <2>3
<1>12. StateFits(o)'
  BY <1>5 DEF IInv, StateFits
<1> QED
  BY <1>3, <1>5, <1>9, <1>10, <1>11, <1>12, OneOperation

(* A worker takes the next target.                                           *)
LEMMA NextTargetStep ==
    ASSUME IInv, NEW o \in Operations, NEW w \in Workers, NextTarget(o, w)
    PROVE  IInv'
<1> DEFINE t == cursor[o] + 1
<1>1. /\ o \in active /\ work[o][w].at = "next" /\ o \notin aborted
      /\ cursor[o] \in 0 .. Targets /\ cursor[o] < Targets
  BY DEF NextTarget, At, IInv, TypeOK
<1>2. TypeOK /\ t \in Indices /\ t \in 1 .. Targets /\ t > cursor[o]
  BY <1>1, BatchAssumption DEF IInv, Indices
<1>3. /\ target[o][t] = "queued" /\ Waits(step[o][t]) /\ ~Taken(o, t)
      /\ step[o][t] \in Results /\ conn[o][t] = "none"
  <2>2. target[o][t] = "queued" /\ Waits(step[o][t])
    BY <1>1, <1>2 DEF IInv, TargetFits
  <2>1. ~Taken(o, t)
    <3> HIDE DEF t
    <3>1. \/ ~Taken(o, t) \/ target[o][t] \in {"connecting", "running"}
          \/ Over(target[o][t], step[o][t])
      BY <1>1, <1>2, TargetsKnown
    <3> QED
      BY <2>2, <3>1 DEF Over
  <2>3. step[o][t] \in Results /\ conn[o][t] \in {"none", "open"}
    BY <1>2 DEF TypeOK
  <2> QED
    BY <2>1, <2>2, <2>3, <1>2 DEF IInv, TargetFits
<1>4. /\ state' = state /\ active' = active /\ aborted' = aborted
      /\ cursor'[o] = t /\ \A p \in Operations \ {o} : cursor'[p] = cursor[p]
      /\ cursor' \in [Operations -> 0 .. Targets]
  BY <1>1, <1>2 DEF NextTarget, Continue, TypeOK
<1> DEFINE Saved(value, results) ==
             /\ target'[o][t] = value /\ step'[o][t] = results
             /\ \A u \in Indices \ {t} : target'[o][u] = target[o][u] /\ step'[o][u] = step[o][u]
             /\ \A p \in Operations \ {o} : target'[p] = target[p] /\ step'[p] = step[p]
             /\ target' \in [Operations -> [Indices -> TargetStates]]
             /\ step' \in [Operations -> [Indices -> Results]]
<1>5. ASSUME NEW value \in TargetStates, NEW results \in Results, Save(o, t, value, results)
      PROVE  Saved(value, results)
  <2> HIDE DEF t
  <2> QED
    BY <1>2, <1>5 DEF Save, TypeOK
<1>6. InOrder(step[o][t])
  BY <1>3 DEF InOrder, Waits
<1> HIDE DEF t, Saved
<1>7. state[o] \in {"running", "canceling"} /\ StateFits(o)
  BY <1>1 DEF IInv, StateFits
<1>8. StateFits(o)'
  BY <1>4, <1>7 DEF StateFits
<1>9. \A u \in Indices : u <= t => u <= cursor[o] \/ u = t
  BY <1>1, BatchAssumption DEF t, Indices
<1>10. \A v \in Workers : BusyAt(o, v) => WorkerFits(o, v) /\ work[o][v].target \in 1 .. cursor[o]
                                          /\ work[o][v].target \in Indices \ {t}
                                          /\ work[o][v].target \in 1 .. t
  <2>1. ASSUME NEW v \in Workers, BusyAt(o, v)
        PROVE  WorkerFits(o, v) /\ work[o][v].target \in 1 .. cursor[o]
    BY <2>1 DEF IInv, WorkerFits
  <2> QED
    BY <2>1, <1>1, BatchAssumption DEF t, Indices
<1>11. \A v \in Workers : work[o][v].at # "ended"
  BY <1>1, BatchAssumption DEF IInv, WorkerFits
<1>12. ASSUME NEW value \in TargetStates, NEW results \in Results, InOrder(results),
              Over(value, results), Save(o, t, value, results), UNCHANGED <<work, conn>>
       PROVE  IInv'
  <2>1. Saved(value, results)
    BY <1>5, <1>12
  <2>2. TypeOK'
    BY <1>2, <1>4, <1>12, <2>1 DEF TypeOK, Saved
  <2>3. \A v \in Workers : BusyAt(o, v)' <=> BusyAt(o, v)
    BY <1>4, <1>12 DEF BusyAt
  <2>4. \A u \in Indices : Taken(o, u) => Taken(o, u)'
    BY <2>3, <1>12 DEF Taken
  <2>5. ASSUME NEW u \in Indices PROVE TargetFits(o, u)'
    <3>1. TargetFits(o, u)
      BY DEF IInv
    <3>2. CASE u = t
      <4>1. target'[o][u] = value /\ step'[o][u] = results /\ conn'[o][u] = "none"
            /\ state'[o] \notin Completed /\ state'[o] # "none"
        BY <3>2, <2>1, <1>3, <1>4, <1>7, <1>12 DEF Saved, Completed
      <4>2. ~(u > cursor'[o])
        BY <3>2, <1>1, <1>4, BatchAssumption DEF t
      <4> QED
        BY <4>1, <4>2, <1>12 DEF TargetFits, Over
    <3>3. CASE u # t
      <4>1. target'[o][u] = target[o][u] /\ step'[o][u] = step[o][u] /\ conn'[o][u] = conn[o][u]
        BY <3>3, <2>1, <1>12 DEF Saved
      <4>2. (u > cursor'[o] => u > cursor[o]) /\ (u <= cursor'[o] => u <= cursor[o])
        BY <3>3, <1>1, <1>4, <1>9, BatchAssumption DEF t, Indices
      <4> QED
        BY <3>1, <4>1, <4>2, <2>4, <1>4 DEF TargetFits
    <3> QED
      BY <3>2, <3>3
  <2>6. ASSUME NEW v \in Workers PROVE WorkerFits(o, v)'
    <3>1. CASE BusyAt(o, v)
      <4> DEFINE u == work[o][v].target
      <4>1. target'[o][u] = target[o][u] /\ step'[o][u] = step[o][u] /\ work' = work
            /\ u \in 1 .. cursor'[o]
        BY <3>1, <2>1, <1>4, <1>10, <1>12 DEF Saved
      <4> HIDE DEF u
      <4>2. \A x \in Workers : BusyAt(o, x)' /\ work'[o][x].target = work'[o][v].target => x = v
        BY <3>1, <2>3, <1>10, <4>1 DEF WorkerFits
      <4> QED
        BY <4>1, <4>2, <3>1, <1>10, <1>11 DEF WorkerFits, u
    <3>2. CASE ~BusyAt(o, v)
      BY <3>2, <2>3, <1>11, <1>12 DEF WorkerFits
    <3> QED
      BY <3>1, <3>2
  <2> QED
    BY <2>1, <2>2, <2>5, <2>6, <1>4, <1>8, <1>12, OneOperation DEF Saved
<1>13. ASSUME Save(o, t, "connecting", step[o][t]),
              work' = [work EXCEPT ![o][w] = [at |-> "wait", target |-> t, step |-> 0]],
              conn' = [conn EXCEPT ![o][t] = "open"]
       PROVE  IInv'
  <2>1. Saved("connecting", step[o][t])
    BY <1>3, <1>5, <1>13 DEF TargetStates
  <2>2. /\ work'[o][w].at = "wait" /\ work'[o][w].target = t
        /\ \A v \in Workers \ {w} : work'[o][v] = work[o][v]
        /\ \A p \in Operations \ {o} : work'[p] = work[p]
        /\ work' \in [Operations -> [Workers -> Works]]
    <3>1. [at |-> "wait", target |-> t, step |-> 0] \in Works
      BY <1>2, BatchAssumption DEF Works, Busy
    <3> QED
      BY <1>2, <1>13, <3>1 DEF TypeOK
  <2>3. /\ conn'[o][t] = "open" /\ \A u \in Indices \ {t} : conn'[o][u] = conn[o][u]
        /\ \A p \in Operations \ {o} : conn'[p] = conn[p]
        /\ conn' \in [Operations -> [Indices -> {"none", "open"}]]
    BY <1>2, <1>13 DEF TypeOK
  <2>4. TypeOK'
    BY <1>2, <1>4, <2>1, <2>2, <2>3 DEF TypeOK, Saved
  <2>5. ~BusyAt(o, w) /\ \A v \in Workers : BusyAt(o, v)' <=> BusyAt(o, v) \/ v = w
    BY <1>1, <1>4, <2>2 DEF BusyAt, Busy
  <2>6. \A u \in Indices : Taken(o, u) \/ u = t => Taken(o, u)'
    <3>1. ASSUME NEW u \in Indices, Taken(o, u) PROVE Taken(o, u)'
      <4>1. PICK v \in Workers : BusyAt(o, v) /\ work[o][v].target = u
        BY <3>1 DEF Taken
      <4>2. v # w
        BY <4>1, <2>5
      <4> QED
        BY <2>2, <2>5, <4>1, <4>2 DEF Taken
    <3>2. ASSUME NEW u \in Indices, u = t PROVE Taken(o, u)'
      BY <3>2, <2>2, <2>5 DEF Taken
    <3> QED
      BY <3>1, <3>2
  <2>7. ASSUME NEW u \in Indices PROVE TargetFits(o, u)'
    <3>1. TargetFits(o, u)
      BY DEF IInv
    <3>2. CASE u = t
      <4>1. target'[o][u] = "connecting" /\ step'[o][u] = step[o][t]
            /\ state'[o] \notin Completed /\ state'[o] # "none"
        BY <3>2, <2>1, <1>4, <1>7 DEF Saved, Completed
      <4>2. ~(u > cursor'[o])
        BY <3>2, <1>1, <1>4, BatchAssumption DEF t
      <4>3. Taken(o, u)' /\ InOrder(step'[o][u])
        BY <3>2, <4>1, <1>6, <2>6
      <4> QED
        BY <4>1, <4>2, <4>3 DEF TargetFits
    <3>3. CASE u # t
      <4>1. target'[o][u] = target[o][u] /\ step'[o][u] = step[o][u] /\ conn'[o][u] = conn[o][u]
        BY <3>3, <2>1, <2>3 DEF Saved
      <4>2. (u > cursor'[o] => u > cursor[o]) /\ (u <= cursor'[o] => u <= cursor[o])
        BY <3>3, <1>1, <1>4, <1>9, BatchAssumption DEF t, Indices
      <4> QED
        BY <3>1, <4>1, <4>2, <2>6, <1>4 DEF TargetFits
    <3> QED
      BY <3>2, <3>3
  <2>8. ASSUME NEW v \in Workers PROVE WorkerFits(o, v)'
    <3>1. CASE v = w
      <4>1. Matches("wait", work'[o][w].step, target'[o][t], step'[o][t])
        <5>1. Ran(step[o][t], 1)
          BY <1>3, BatchAssumption DEF Ran, Waits
        <5> QED
          BY <2>1, <5>1 DEF Matches, Saved
      <4>2. t \in 1 .. cursor'[o]
        BY <1>2, <1>4
      <4>3. \A x \in Workers : BusyAt(o, x)' /\ work'[o][x].target = t => x = w
        BY <2>2, <2>5, <1>10
      <4> QED
        BY <3>1, <4>1, <4>2, <4>3, <2>2 DEF WorkerFits
    <3>2. CASE v # w /\ BusyAt(o, v)
      <4> DEFINE u == work[o][v].target
      <4>1. target'[o][u] = target[o][u] /\ step'[o][u] = step[o][u]
            /\ work'[o][v] = work[o][v] /\ u \in 1 .. cursor'[o] /\ u # t
        BY <3>2, <2>1, <2>2, <1>4, <1>10 DEF Saved
      <4> HIDE DEF u
      <4>2. \A x \in Workers : BusyAt(o, x)' /\ work'[o][x].target = work'[o][v].target => x = v
        BY <3>2, <2>2, <2>5, <1>10, <4>1 DEF WorkerFits, u
      <4> QED
        BY <4>1, <4>2, <3>2, <1>10, <1>11 DEF WorkerFits, u
    <3>3. CASE v # w /\ ~BusyAt(o, v)
      <4>1. work'[o][v] = work[o][v] /\ ~BusyAt(o, v)'
        BY <3>3, <2>2, <2>5
      <4> QED
        BY <4>1, <1>11 DEF WorkerFits
    <3> QED
      BY <3>1, <3>2, <3>3
  <2> QED
    BY <2>1, <2>2, <2>3, <2>4, <2>7, <2>8, <1>4, <1>8, OneOperation DEF Saved
<1>14. CASE Save(o, t, "failed", step[o][t]) /\ UNCHANGED <<work, conn>>
  BY <1>3, <1>6, <1>12, <1>14 DEF Over, TargetStates
<1>15. CASE Save(o, t, "failed", Broken(step[o][t], FALSE)) /\ UNCHANGED <<work, conn>>
  BY <1>3, <1>6, <1>12, <1>15, BrokenOver DEF TargetStates
<1> QED
  BY <1>13, <1>14, <1>15 DEF NextTarget, t

(* The workers are numbered like the first targets.                          *)
LEMMA WorkersFirst ==
    /\ Workers \subseteq Indices /\ Cardinality(Workers) \in 0 .. Targets
    /\ \A t \in Indices : t \in Workers <=> t <= Cardinality(Workers)
<1> DEFINE n == IF Concurrency < Targets THEN Concurrency ELSE Targets
<1>1. n \in Nat /\ n >= 1 /\ n <= Targets
  BY BatchAssumption
<1> HIDE DEF n
<1>2. Cardinality(1 .. n) = n
  <2>1. Cardinality(1 .. n) = IF 1 > n THEN 0 ELSE n - 1 + 1
    BY <1>1, FS_Interval
  <2> QED
    BY <1>1, <2>1
<1>3. Workers = 1 .. n
  BY DEF Workers, n
<1> QED
  BY <1>1, <1>2, <1>3, BatchAssumption DEF Indices

(* A step that changes no more than the operations' states and signals.      *)
LEMMA OtherState ==
    ASSUME IInv, UNCHANGED <<target, step, active, cursor, work, conn>>,
           state' \in [Operations -> {"none", "running", "canceling", "cleared"} \union Completed],
           \A o \in Operations :
             /\ o \in aborted => o \in aborted'
             /\ state'[o] \in Completed \union {"none"} => state'[o] = state[o]
             /\ o \in active <=> state'[o] \in {"running", "canceling"}
             /\ state'[o] = "canceling" => o \in aborted'
    PROVE  IInv'
<1>1. TypeOK'
  BY DEF IInv, TypeOK
<1>2. ASSUME NEW o \in Operations PROVE StateFits(o)'
  BY <1>2 DEF IInv, StateFits, Completed
<1>3. ASSUME NEW o \in Operations, NEW t \in Indices PROVE TargetFits(o, t)'
  <2>2. /\ state'[o] \in Completed => state[o] \in Completed
        /\ state'[o] = "none" => state[o] = "none"
    BY DEF Completed
  <2>3. TargetFits(o, t) /\ (Taken(o, t) => Taken(o, t)')
    BY DEF IInv, Taken, BusyAt
  <2> QED
    BY <2>2, <2>3 DEF TargetFits
<1>4. ASSUME NEW o \in Operations, NEW w \in Workers PROVE WorkerFits(o, w)'
  <2>1. WorkerFits(o, w) /\ \A v \in Workers : BusyAt(o, v)' <=> BusyAt(o, v)
    BY DEF IInv, BusyAt
  <2> QED
    BY <2>1 DEF WorkerFits
<1> QED
  BY <1>1, <1>2, <1>3, <1>4 DEF IInv

(* What the user and the end of the process ask for keeps the invariant.     *)
LEMMA CallStep ==
    ASSUME IInv,
           \/ \E o \in Operations : Cancel(o)
           \/ \E t \in Indices : DeleteBookmark(t)
           \/ ClearCompleted \/ CloseAll \/ UNCHANGED vars
    PROVE  IInv'
<1>t. /\ state \in [Operations -> {"none", "running", "canceling", "cleared"} \union Completed]
      /\ \A o \in Operations : StateFits(o)
  BY DEF IInv, TypeOK
<1>1. ASSUME NEW o \in Operations, Cancel(o) PROVE IInv'
  <2>1. UNCHANGED <<target, step, active, cursor, work, conn>>
    BY <1>1 DEF Cancel
  <2>2. /\ state'[o] = "canceling" /\ o \in aborted' /\ o \in active
        /\ \A p \in Operations \ {o} : state'[p] = state[p]
        /\ aborted \subseteq aborted'
        /\ state' \in [Operations -> {"none", "running", "canceling", "cleared"} \union Completed]
    BY <1>1, <1>t DEF Cancel
  <2>3. "canceling" \notin Completed
    BY DEF Completed
  <2> QED
    BY <2>1, <2>2, <2>3, <1>t, OtherState DEF StateFits
<1>2. ASSUME NEW t \in Indices, DeleteBookmark(t) PROVE IInv'
  BY <1>2, <1>t, OtherState DEF DeleteBookmark, rows, process, StateFits
<1>3. CASE ClearCompleted
  <2>1. UNCHANGED <<target, step, active, aborted, cursor, work, conn>>
    BY <1>3 DEF ClearCompleted, process
  <2>2. /\ \A o \in Operations :
             state'[o] = IF state[o] \in Completed THEN "cleared" ELSE state[o]
        /\ state' \in [Operations -> {"none", "running", "canceling", "cleared"} \union Completed]
    BY <1>3, <1>t DEF ClearCompleted
  <2>3. "running" \notin Completed /\ "canceling" \notin Completed /\ "cleared" \notin Completed
    BY DEF Completed
  <2> QED
    BY <2>1, <2>2, <2>3, <1>t, OtherState DEF StateFits
<1>4. CASE CloseAll
  BY <1>4, <1>t, OtherState DEF CloseAll, rows, StateFits
<1>5. CASE UNCHANGED vars
  BY <1>5, <1>t, OtherState DEF vars, StateFits
<1> QED
  BY <1>1, <1>2, <1>3, <1>4, <1>5

(* The process dies: what was under way is recovered as interrupted.         *)
LEMMA RecoveredStep ==
    ASSUME IInv, NEW states, Recovered(states),
           states \in [Operations -> Unfinished \union {"none", "cleared"} \union Completed],
           \A o \in Operations : states[o] # state[o] => state[o] = "none" /\ states[o] = "queued"
    PROVE  IInv'
<1>t. TypeOK /\ \A o \in Operations : StateFits(o)
  BY DEF IInv
<1>1. active' = {} /\ aborted' = {}
  BY DEF Recovered
<1>2. ASSUME NEW o \in Operations, NEW t \in Indices
      PROVE  /\ target'[o][t] \in TargetStates /\ step'[o][t] \in Results
             /\ states[o] \in Unfinished => Over(target'[o][t], step'[o][t])
             /\ states[o] \notin Unfinished =>
                  target'[o][t] = target[o][t] /\ step'[o][t] = step[o][t]
             /\ InOrder(step'[o][t])
  <2>1. target[o][t] \in TargetStates /\ step[o][t] \in Results /\ InOrder(step[o][t])
    BY <1>t DEF TypeOK, IInv, TargetFits
  <2>2. /\ target'[o][t] = IF states[o] \in Unfinished
                           THEN RecoveredTarget(target[o][t]) ELSE target[o][t]
        /\ step'[o][t] = IF states[o] \in Unfinished
                            /\ target[o][t] # RecoveredTarget(target[o][t])
                         THEN Broken(step[o][t], TRUE) ELSE step[o][t]
    BY DEF Recovered
  <2>3. CASE states[o] \notin Unfinished
    BY <2>1, <2>2, <2>3
  <2>4. CASE states[o] \in Unfinished /\ target[o][t] \in {"queued", "connecting", "running"}
    <3>1. target'[o][t] = "failed" /\ step'[o][t] = Broken(step[o][t], TRUE)
      BY <2>2, <2>4 DEF RecoveredTarget
    <3> QED
      BY <2>1, <2>4, <3>1, BrokenOver DEF TargetStates
  <2>5. CASE states[o] \in Unfinished /\ target[o][t] \notin {"queued", "connecting", "running"}
    <3>1. target'[o][t] = target[o][t] /\ step'[o][t] = step[o][t]
      BY <2>2, <2>5 DEF RecoveredTarget
    <3>2. state[o] # "none"
      BY <2>5 DEF IInv, TargetFits
    <3>3. o \in active
      BY <2>5, <3>2, <1>t DEF StateFits, Unfinished, Completed, TypeOK
    <3>4. Over(target[o][t], step[o][t])
      BY <2>5, <3>3, TargetsKnown
    <3> QED
      BY <2>1, <2>5, <3>1, <3>4
  <2> QED
    BY <2>3, <2>4, <2>5
<1>3. ASSUME NEW o \in Operations
      PROVE  /\ state'[o] = IF states[o] \in Unfinished THEN "interrupted" ELSE state[o]
             /\ state'[o] \in {"none", "cleared"} \union Completed
  <2>1. state'[o] = IF states[o] \in Unfinished THEN "interrupted" ELSE states[o]
    BY DEF Recovered
  <2>2. states[o] \notin Unfinished => states[o] = state[o]
    BY DEF Unfinished
  <2> QED
    BY <2>1, <2>2 DEF Completed
<1>4. TypeOK'
  <2>1. /\ target' \in [Operations -> [Indices -> TargetStates]]
        /\ step' \in [Operations -> [Indices -> Results]]
    BY <1>2 DEF Recovered
  <2>2. state' \in [Operations -> {"none", "running", "canceling", "cleared"} \union Completed]
    BY <1>3 DEF Recovered
  <2>3. cursor' \in [Operations -> 0 .. Targets]
    BY BatchAssumption DEF Recovered
  <2>4. work' \in [Operations -> [Workers -> Works]]
    BY BatchAssumption DEF Recovered, Works, Ended
  <2>5. conn' \in [Operations -> [Indices -> {"none", "open"}]]
    BY DEF Recovered, All
  <2> QED
    BY <2>1, <2>2, <2>3, <2>4, <2>5, <1>1 DEF TypeOK
<1>5. ASSUME NEW o \in Operations PROVE StateFits(o)'
  <2>1. state'[o] \notin {"running", "canceling"}
    BY <1>3 DEF Completed
  <2>2. state'[o] \in {"succeeded", "failed"} => state'[o] = state[o] /\ target'[o] = target[o]
    <3>1. ASSUME state'[o] \in {"succeeded", "failed"}
          PROVE  state'[o] = state[o] /\ states[o] \notin Unfinished
      BY <3>1, <1>3
    <3>2. ASSUME states[o] \notin Unfinished PROVE target'[o] = target[o]
      <4>1. \A t \in Indices : target'[o][t] = target[o][t]
        BY <3>2, <1>2
      <4>2. target'[o] \in [Indices -> TargetStates] /\ target[o] \in [Indices -> TargetStates]
        BY <1>4, <1>t DEF TypeOK
      <4> QED
        BY <4>1, <4>2
    <3> QED
      BY <3>1, <3>2
  <2> QED
    BY <2>1, <2>2, <1>1, <1>t DEF StateFits
<1>6. ASSUME NEW o \in Operations, NEW t \in Indices PROVE TargetFits(o, t)'
  <2>1. conn'[o][t] = "none"
    BY DEF Recovered, All
  <2>2. CASE states[o] \in Unfinished
    <3>1. state'[o] = "interrupted" /\ Over(target'[o][t], step'[o][t])
      BY <2>2, <1>2, <1>3
    <3> QED
      BY <1>1, <1>2, <2>1, <3>1 DEF TargetFits, Over
  <2>3. CASE states[o] \notin Unfinished
    <3>1. /\ state'[o] = state[o] /\ target'[o][t] = target[o][t] /\ step'[o][t] = step[o][t]
          /\ TargetFits(o, t)
      BY <2>3, <1>2, <1>3 DEF IInv
    <3> QED
      BY <1>1, <2>1, <3>1 DEF TargetFits
  <2> QED
    BY <2>2, <2>3
<1>7. ASSUME NEW o \in Operations, NEW w \in Workers PROVE WorkerFits(o, w)'
  BY <1>1 DEF WorkerFits, BusyAt
<1> QED
  BY <1>4, <1>5, <1>6, <1>7 DEF IInv

(* create() starts an operation of which nothing was known.                  *)
LEMMA CreateStep ==
    ASSUME IInv, NEW k \in Keys, NEW o \in Operations, NEW refused \in SUBSET Workers,
           Create(k, o, refused)
    PROVE  IInv'
<1>t. TypeOK /\ StateFits(o) /\ state[o] = "none" /\ o \notin active
  BY DEF IInv, StateFits, Create, NewOperation
<1>w. /\ Workers \subseteq Indices /\ Cardinality(Workers) \in 0 .. Targets
      /\ \A t \in Indices : t \in Workers <=> t <= Cardinality(Workers)
  BY WorkersFirst
<1>b. ASSUME NEW t \in Indices
      PROVE  /\ target[o][t] = "queued" /\ Waits(step[o][t]) /\ step[o][t] \in Results
             /\ InOrder(step[o][t]) /\ Ran(step[o][t], 1)
             /\ Broken(step[o][t], FALSE) \in Results /\ InOrder(Broken(step[o][t], FALSE))
             /\ Over("failed", Broken(step[o][t], FALSE))
  <2>1. target[o][t] = "queued" /\ Waits(step[o][t]) /\ step[o][t] \in Results
        /\ InOrder(step[o][t])
    BY <1>t DEF IInv, TargetFits, TypeOK
  <2>2. Ran(step[o][t], 1)
    BY <2>1, BatchAssumption DEF Ran, Waits
  <2> QED
    BY <2>1, <2>2, BrokenOver
<1>1. /\ state'[o] = "running" /\ active' = active \union {o} /\ aborted' = aborted
      /\ cursor'[o] = Cardinality(Workers)
      /\ \A p \in Operations \ {o} :
           /\ state'[p] = state[p] /\ target'[p] = target[p] /\ step'[p] = step[p]
           /\ cursor'[p] = cursor[p] /\ work'[p] = work[p] /\ conn'[p] = conn[p]
  BY <1>t DEF Create, TypeOK
<1>2. ASSUME NEW t \in Indices
      PROVE  /\ t \in refused => /\ target'[o][t] = "failed"
                                 /\ step'[o][t] = Broken(step[o][t], FALSE)
             /\ t \in Workers \ refused => /\ target'[o][t] = "connecting"
                                           /\ step'[o][t] = step[o][t] /\ conn'[o][t] = "open"
             /\ t \notin Workers => target'[o][t] = "queued" /\ step'[o][t] = step[o][t]
             /\ t \notin Workers \ refused => conn'[o][t] = "none"
  <2>1. target'[o] = [u \in Indices |-> IF u \in refused THEN "failed"
                        ELSE IF u \in Workers THEN "connecting" ELSE "queued"]
    BY <1>t DEF Create, TypeOK
  <2>2. step'[o] = [u \in Indices |->
                      IF u \in refused THEN Broken(step[o][u], FALSE) ELSE step[o][u]]
    BY <1>t DEF Create, TypeOK
  <2>3. conn'[o] = [u \in Indices |-> IF u \in Workers \ refused THEN "open" ELSE "none"]
    BY <1>t DEF Create, TypeOK
  <2> QED
    BY <2>1, <2>2, <2>3, ZenonT(60)
<1>3. ASSUME NEW w \in Workers
      PROVE  /\ w \in refused => work'[o][w] = Idle
             /\ w \notin refused => work'[o][w] = [at |-> "wait", target |-> w, step |-> 0]
  <2>1. work'[o] = [v \in Workers |->
                      IF v \in refused THEN Idle ELSE [at |-> "wait", target |-> v, step |-> 0]]
    BY <1>t DEF Create, TypeOK
  <2> QED
    BY <2>1
<1>4. TypeOK'
  <2>1. state' \in [Operations -> {"none", "running", "canceling", "cleared"} \union Completed]
    BY <1>t DEF Create, TypeOK
  <2>2. target' \in [Operations -> [Indices -> TargetStates]]
    <3>1. [t \in Indices |-> IF t \in refused THEN "failed" ELSE IF t \in Workers THEN "connecting"
                             ELSE "queued"] \in [Indices -> TargetStates]
      BY DEF TargetStates
    <3> QED
      BY <3>1, <1>t DEF Create, TypeOK
  <2>3. step' \in [Operations -> [Indices -> Results]]
    <3>1. [t \in Indices |-> IF t \in refused THEN Broken(step[o][t], FALSE) ELSE step[o][t]]
            \in [Indices -> Results]
      BY <1>b
    <3> QED
      BY <3>1, <1>t DEF Create, TypeOK
  <2>4. cursor' \in [Operations -> 0 .. Targets]
    BY <1>t, <1>w DEF Create, TypeOK
  <2>5. work' \in [Operations -> [Workers -> Works]]
    <3>1. [w \in Workers |-> IF w \in refused THEN Idle
                             ELSE [at |-> "wait", target |-> w, step |-> 0]] \in [Workers -> Works]
      BY <1>w, BatchAssumption DEF Idle, Works, Busy, Indices
    <3> QED
      BY <3>1, <1>t DEF Create, TypeOK
  <2>6. conn' \in [Operations -> [Indices -> {"none", "open"}]]
    BY <1>t DEF Create, TypeOK
  <2> QED
    BY <2>1, <2>2, <2>3, <2>4, <2>5, <2>6, <1>1, <1>t DEF TypeOK
<1>5. ASSUME NEW w \in Workers
      PROVE  /\ BusyAt(o, w)' <=> w \notin refused
             /\ work'[o][w].at # "ended"
             /\ w \notin refused => /\ work'[o][w].target = w /\ work'[o][w].at = "wait"
  <2>1. CASE w \in refused
    <3>1. work'[o][w] = Idle
      BY <2>1, <1>3
    <3>2. work'[o][w].at = "next"
      BY <3>1 DEF Idle
    <3> QED
      BY <2>1, <3>2 DEF BusyAt, Busy
  <2>2. CASE w \notin refused
    <3>1. work'[o][w] = [at |-> "wait", target |-> w, step |-> 0] /\ o \in active'
      BY <2>2, <1>1, <1>3
    <3>2. work'[o][w].at = "wait" /\ work'[o][w].target = w /\ o \in active'
      BY <3>1
    <3> QED
      BY <2>2, <3>2 DEF BusyAt, Busy
  <2> QED
    BY <2>1, <2>2
<1>6. \A t \in Indices : t \in Workers \ refused => Taken(o, t)'
  BY <1>5 DEF Taken
<1>7. ASSUME NEW w \in Workers PROVE WorkerFits(o, w)'
  <2>1. CASE w \in refused
    BY <2>1, <1>5 DEF WorkerFits
  <2>2. CASE w \notin refused
    <3>1. /\ work'[o][w].target = w /\ work'[o][w].at = "wait" /\ w \in Indices
          /\ target'[o][w] = "connecting" /\ Ran(step'[o][w], 1)
      BY <2>2, <1>2, <1>5, <1>b, <1>w
    <3>2. Matches("wait", work'[o][w].step, target'[o][w], step'[o][w])
      BY <3>1 DEF Matches
    <3>3. w \in 1 .. cursor'[o]
      BY <1>1, <1>w, <3>1 DEF Indices
    <3>4. \A v \in Workers : BusyAt(o, v)' /\ work'[o][v].target = w => v = w
      BY <1>5
    <3> QED
      BY <3>1, <3>2, <3>3, <3>4 DEF WorkerFits
  <2> QED
    BY <2>1, <2>2
<1>8. ASSUME NEW t \in Indices PROVE TargetFits(o, t)'
  <2>1. CASE t \in refused
    <3>1. ~(t > cursor'[o])
      BY <2>1, <1>1, <1>w, BatchAssumption DEF Indices
    <3>2. /\ target'[o][t] = "failed" /\ conn'[o][t] = "none" /\ state'[o] = "running"
          /\ InOrder(step'[o][t]) /\ Over(target'[o][t], step'[o][t])
      BY <2>1, <1>1, <1>2, <1>b
    <3> QED
      BY <3>1, <3>2 DEF TargetFits, Completed
  <2>2. CASE t \in Workers \ refused
    <3>1. ~(t > cursor'[o]) /\ Taken(o, t)'
      BY <2>2, <1>1, <1>6, <1>w, BatchAssumption DEF Indices
    <3> QED
      BY <2>2, <3>1, <1>1, <1>2, <1>b DEF TargetFits, Completed
  <2>3. CASE t \notin Workers
    <3>1. ~(t <= cursor'[o])
      BY <2>3, <1>1, <1>w
    <3> QED
      BY <2>3, <3>1, <1>1, <1>2, <1>b DEF TargetFits, Completed
  <2> QED
    BY <2>1, <2>2, <2>3
<1>9. StateFits(o)'
  BY <1>1 DEF StateFits
<1> QED
  BY <1>1, <1>4, <1>7, <1>8, <1>9, OneOperation

(* When all workers have returned, what they did not take has been canceled. *)
LEMMA FinishStep ==
    ASSUME IInv, NEW o \in Operations, Finish(o)
    PROVE  IInv'
<1>t. TypeOK /\ o \in active /\ \A w \in Workers : work[o][w].at = "ended" /\ ~BusyAt(o, w)
  BY DEF IInv, Finish, BusyAt, Busy
<1>c. o \in aborted \/ cursor[o] = Targets
  <2>1. 1 \in Workers
    BY BatchAssumption DEF Workers
  <2> QED
    BY <2>1, <1>t DEF IInv, WorkerFits
<1>1. ASSUME NEW t \in Indices
      PROVE  /\ ~Taken(o, t) /\ conn[o][t] = "none"
             /\ target[o][t] \in TargetStates /\ step[o][t] \in Results /\ InOrder(step[o][t])
             /\ \/ Over(target[o][t], step[o][t])
                \/ target[o][t] = "queued" /\ o \in aborted
  <2>1. ~Taken(o, t)
    BY <1>t DEF Taken
  <2>2. TargetFits(o, t) /\ conn[o][t] \in {"none", "open"} /\ cursor[o] \in 0 .. Targets
    BY DEF IInv, TypeOK
  <2>3. \/ target[o][t] = "queued" /\ t > cursor[o]
        \/ Over(target[o][t], step[o][t])
    BY <2>1, <1>t, TargetsKnown
  <2>4. ~(t > Targets)
    BY BatchAssumption DEF Indices
  <2> QED
    BY <2>1, <2>2, <2>3, <2>4, <1>c, <1>t DEF TargetFits, TypeOK
<1> DEFINE targets == CanceledTargets(target[o], o \in aborted)
<1>2. ASSUME NEW t \in Indices
      PROVE  targets[t] = IF o \in aborted /\ target[o][t] = "queued" THEN "canceled"
                          ELSE target[o][t]
  BY DEF CanceledTargets
<1>3. targets \in [Indices -> TargetStates]
  <2>1. targets = [t \in Indices |-> targets[t]]
    BY DEF CanceledTargets
  <2>2. \A t \in Indices : targets[t] \in TargetStates
    BY <1>1, <1>2 DEF TargetStates
  <2> HIDE DEF targets
  <2> QED
    BY <2>1, <2>2
<1>4. /\ target' = [target EXCEPT ![o] = targets]
      /\ step' = [step EXCEPT ![o] = [t \in Indices |->
              IF targets[t] # target[o][t] THEN EachStep("canceled") ELSE step[o][t]]]
      /\ state' = [state EXCEPT ![o] =
              IF o \in aborted THEN "canceled"
              ELSE IF targets = All("succeeded") THEN "succeeded" ELSE "failed"]
      /\ active' = active \ {o}
      /\ aborted' = aborted /\ cursor' = cursor /\ work' = work /\ conn' = conn
  BY DEF Finish
<1> HIDE DEF targets
<1>5. /\ target'[o] = targets /\ o \notin active'
      /\ state'[o] = IF o \in aborted THEN "canceled"
                     ELSE IF targets = All("succeeded") THEN "succeeded" ELSE "failed"
      /\ \A p \in Operations \ {o} :
           state'[p] = state[p] /\ target'[p] = target[p] /\ step'[p] = step[p]
  BY <1>t, <1>4 DEF TypeOK
<1>6. ASSUME NEW t \in Indices
      PROVE  /\ step'[o][t] \in Results /\ InOrder(step'[o][t])
             /\ Over(target'[o][t], step'[o][t])
  <2>1. step'[o][t] = IF targets[t] # target[o][t] THEN EachStep("canceled") ELSE step[o][t]
    BY <1>t, <1>4 DEF TypeOK
  <2>2. CASE o \in aborted /\ target[o][t] = "queued"
    <3>1. target'[o][t] = "canceled" /\ step'[o][t] = EachStep("canceled")
      BY <2>1, <2>2, <1>2, <1>5
    <3> QED
      BY <3>1 DEF EachStep, Results, InOrder, Over, Settled
  <2>3. CASE ~(o \in aborted /\ target[o][t] = "queued")
    BY <2>1, <2>3, <1>1, <1>2, <1>5
  <2> QED
    BY <2>2, <2>3
<1>7. TypeOK'
  <2>1. [t \in Indices |-> IF targets[t] # target[o][t] THEN EachStep("canceled") ELSE step[o][t]]
          \in [Indices -> Results]
    <3>1. EachStep("canceled") \in Results
      BY DEF EachStep, Results
    <3> QED
      BY <3>1, <1>1
  <2>2. step' \in [Operations -> [Indices -> Results]]
    BY <2>1, <1>t, <1>4 DEF TypeOK
  <2>3. target' \in [Operations -> [Indices -> TargetStates]]
    BY <1>t, <1>3, <1>4 DEF TypeOK
  <2>4. state' \in [Operations -> {"none", "running", "canceling", "cleared"} \union Completed]
    BY <1>t, <1>4 DEF TypeOK, Completed
  <2> QED
    BY <2>2, <2>3, <2>4, <1>t, <1>4 DEF TypeOK
<1>8. ASSUME NEW t \in Indices PROVE TargetFits(o, t)'
  <2>1. conn'[o][t] = "none" /\ state'[o] # "none"
    BY <1>1, <1>4, <1>5
  <2> QED
    BY <2>1, <1>5, <1>6 DEF TargetFits, Over
<1>9. ASSUME NEW w \in Workers PROVE WorkerFits(o, w)'
  BY <1>5 DEF WorkerFits, BusyAt
<1>10. StateFits(o)'
  BY <1>5 DEF StateFits
<1> QED
  BY <1>4, <1>5, <1>7, <1>8, <1>9, <1>10, OneOperation

-----------------------------------------------------------------------------
(* Results                                                                   *)

(* The first state satisfies the inductive invariant,                        *)
LEMMA StartHolds == Init => IInv
<1> SUFFICES ASSUME Init PROVE IInv
  OBVIOUS
<1>1. TypeOK
  <2>1. EachStep("queued") \in Results /\ Ended \in Works
    BY BatchAssumption DEF EachStep, Results, Ended, Works
  <2>2. All("queued") \in [Indices -> TargetStates] /\ All("none") \in [Indices -> {"none", "open"}]
        /\ All(EachStep("queued")) \in [Indices -> Results]
    BY <2>1 DEF All, TargetStates
  <2>3. cursor \in [Operations -> 0 .. Targets]
    BY BatchAssumption DEF Init
  <2> QED
    BY <2>1, <2>2, <2>3 DEF Init, TypeOK
<1>2. ASSUME NEW o \in Operations
      PROVE  /\ StateFits(o)
             /\ \A t \in Indices : TargetFits(o, t)
             /\ \A w \in Workers : WorkerFits(o, w)
  <2>1. state[o] = "none" /\ o \notin active
    BY DEF Init
  <2>2. ASSUME NEW t \in Indices PROVE TargetFits(o, t)
    <3>1. target[o][t] = "queued" /\ step[o][t] = EachStep("queued") /\ conn[o][t] = "none"
      BY DEF Init, All
    <3> QED
      BY <2>1, <3>1 DEF TargetFits, InOrder, Waits, EachStep, Completed
  <2> QED
    BY <2>1, <2>2 DEF StateFits, WorkerFits, BusyAt
<1> QED
  BY <1>1, <1>2 DEF IInv

(* each step keeps it,                                                       *)
LEMMA Step == IInv /\ [Next]_vars => IInv'
<1> SUFFICES ASSUME IInv, [Next]_vars PROVE IInv'
  OBVIOUS
<1>1. ASSUME NEW o \in Operations, NEW w \in Workers, WorkerStep(o, w) PROVE IInv'
  BY <1>1, NextTargetStep, WorkerEndsStep, BusyStep, CloseStep DEF WorkerStep
<1>2. ASSUME NEW k \in Keys, NEW o \in Operations, RestartInCreate(k, o) PROVE IInv'
  <2> DEFINE states == [state EXCEPT ![o] = "queued"]
  <2>1. TypeOK /\ state[o] = "none" /\ Recovered(states)
    BY <1>2 DEF IInv, RestartInCreate, NewOperation
  <2>2. /\ states \in [Operations -> Unfinished \union {"none", "cleared"} \union Completed]
        /\ \A p \in Operations : states[p] # state[p] => state[p] = "none" /\ states[p] = "queued"
    BY <2>1 DEF TypeOK, Unfinished
  <2> HIDE DEF states
  <2> QED
    BY <2>1, <2>2, RecoveredStep
<1>3. CASE Restart
  <2>1. Recovered(state)
        /\ state \in [Operations -> Unfinished \union {"none", "cleared"} \union Completed]
    BY <1>3 DEF Restart, IInv, TypeOK, Unfinished
  <2> QED
    BY <2>1, RecoveredStep
<1> QED
  BY <1>1, <1>2, <1>3, CreateStep, FinishStep, CallStep DEF Next

(* and so it holds of every reachable state.                                 *)
LEMMA Invariance == Spec => []IInv
  BY StartHolds, Step, PTL DEF Spec

(* The steps of a target run one at a time and in order, and nothing runs    *)
(* after a step that failed and does not let the target go on, in whatever   *)
(* way the target is ended: runTarget(), its catch and the recovery.         *)
THEOREM StepsKeepOrder == Spec => []StepsInOrder
<1>1. IInv => StepsInOrder
  BY DEF IInv, StepsInOrder, TargetFits, InOrder, Passed
<1> QED
  BY <1>1, Invariance, PTL

(* Every connection made for a target has a worker that is still going to    *)
(* close it, and none outlives its operation: runTarget(), its finally.      *)
THEOREM NoConnectionLost == Spec => []ConnectionsOwned
<1>1. IInv => ConnectionsOwned
  <2> SUFFICES ASSUME IInv, NEW o \in Operations, NEW t \in Indices, conn[o][t] # "none"
               PROVE  \E w \in Workers :
                        At(o, w, {"wait", "open", "exec", "deaf", "delay", "close"}) /\ Of(o, w) = t
    BY DEF ConnectionsOwned
  <2>1. PICK w \in Workers : BusyAt(o, w) /\ work[o][w].target = t
    BY DEF IInv, TargetFits, Taken
  <2> QED
    BY <2>1 DEF BusyAt, Busy, At, Of
<1> QED
  BY <1>1, Invariance, PTL

(* The row of an operation tells what happened to its targets and steps, by  *)
(* whatever way the operation ended: a worker, finish(), recovery.           *)
THEOREM OutcomeTold == Spec => []OutcomeHonest
<1>1. IInv => OutcomeHonest
  <2> SUFFICES ASSUME IInv, NEW o \in Operations
               PROVE  /\ o \in active <=> state[o] \in Unfinished
                      /\ state[o] = "canceling" => o \in aborted
                      /\ state[o] \in Completed => \A t \in Indices :
                            /\ target[o][t] \in Settled
                            /\ \/ \A i \in 1 .. Steps : step[o][t][i] \in Settled
                               \/ target[o][t] = "failed" /\ step[o][t] = EachStep("queued")
                      /\ state[o] = "succeeded" => target[o] = All("succeeded")
                      /\ state[o] = "failed" => target[o] # All("succeeded")
                      /\ \A t \in Indices :
                           target[o][t] = "succeeded" => step[o][t] = EachStep("succeeded")
    BY DEF OutcomeHonest
  <2>1. /\ StateFits(o) /\ \A t \in Indices : TargetFits(o, t) /\ step[o][t] \in Results
        /\ state[o] \in {"none", "running", "canceling", "cleared"} \union Completed
    BY DEF IInv, TypeOK
  <2>2. o \in active <=> state[o] \in Unfinished
    BY <2>1 DEF StateFits, Unfinished, Completed
  <2>3. ASSUME NEW results \in Results, NEW value, \A i \in 1 .. Steps : results[i] = value
        PROVE  results = EachStep(value)
    BY <2>3 DEF Results, EachStep
  <2>4. ASSUME NEW t \in Indices, state[o] \in Completed
        PROVE  /\ target[o][t] \in Settled
               /\ \/ \A i \in 1 .. Steps : step[o][t][i] \in Settled
                  \/ target[o][t] = "failed" /\ step[o][t] = EachStep("queued")
    BY <2>1, <2>3, <2>4 DEF TargetFits, Over, Waits, Settled
  <2>5. ASSUME NEW t \in Indices, target[o][t] = "succeeded"
        PROVE  step[o][t] = EachStep("succeeded")
    BY <2>1, <2>3, <2>5 DEF TargetFits
  <2> QED
    BY <2>1, <2>2, <2>4, <2>5 DEF StateFits
<1> QED
  BY <1>1, Invariance, PTL
=============================================================================
