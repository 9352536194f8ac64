--------------------------- MODULE TransferProofs ---------------------------
(***************************************************************************)
(* Proofs about Transfer, for every set of requests, of one or two ends    *)
(* each, every pool, every limit and every bound.                          *)
(***************************************************************************)
EXTENDS Transfer, FiniteSetTheorems, FunctionTheorems, TLAPS

-----------------------------------------------------------------------------
(* The inductive invariant                                                 *)

Busy(t) == {w \in Pool : work[t][w] # "off"}
Askers(t) == {w \in 0..PoolSize : Asking(t, w)}

(* Where run() is decides what it holds and which workers there are.       *)
ControlFits(t) ==
    /\ t \in active <=> run[t].at # "idle"
    /\ t \notin active => run[t].handles = 0
    /\ run[t].at \in {"grant", "open"} => run[t].handles < Len(Ends[request[t]])
    /\ run[t].at \in {"prepare", "pool"} => run[t].handles = Len(Ends[request[t]])
    /\ work[t][0] # "off" => work[t][0] = "ask" /\ run[t].at = "prepare"
    /\ \A w \in Busy(t) : run[t].at = "pool" /\ (request[t] \in Asks => w = 1)

(* What is shown of a transfer is what it does.                            *)
ShownFits(t) ==
    /\ Under(t) <=> t \in active
    /\ pending[t] = Askers(t)
    /\ t \in aborted => pending[t] = {}
    /\ pending[t] # {} => run[t].previous \in {"preparing", "running", "paused"}
    /\ t \in active \ aborted =>
         /\ state[t] = "awaiting-decision" <=> pending[t] # {}
         /\ t \in paused <=>
              \/ state[t] = "paused"
              \/ (state[t] = "awaiting-decision" /\ run[t].previous = "paused")
         /\ run[t].at \in {"grant", "open", "prepare"} =>
              \/ state[t] = "preparing"
              \/ (state[t] = "awaiting-decision" /\ run[t].previous = "preparing")

(* Files are taken in order, by workers that finish them unless one fails. *)
CountFits(t) ==
    /\ run[t].cursor <= run[t].jobs
    /\ run[t].handled + Cardinality(Busy(t)) <= run[t].cursor
    /\ run[t].at \in {"grant", "open", "prepare"} => run[t].handled = 0
    /\ run[t].at = "pool" /\ ~run[t].failed =>
         /\ run[t].handled + Cardinality(Busy(t)) = run[t].cursor
         /\ Busy(t) = {} => run[t].cursor = run[t].jobs
    /\ run[t].at = "close" /\ ~run[t].failed => run[t].handled = run[t].jobs
    /\ state[t] = "succeeded" => run[t].handled = run[t].jobs

CauseFits(t) ==
    /\ t \in active => cause[t] = IF t \notin aborted THEN "none"
                                  ELSE IF t \in lost THEN "loss" ELSE "user"
    /\ state[t] = "canceled" => cause[t] = "user"
    /\ state[t] = "failed" => cause[t] # "user" \/ t \in killed

(* A .part file belongs to a worker that is going to rename or remove it,  *)
(* unless its removal was refused or the process died under it.            *)
PartFits(p) == Holding(p[1], p[2]) \/ p \in refused \/ p[1] \in killed

(* Transfers are numbered as they are made.                                *)
BirthFits(t) ==
    /\ t <= made => request[t] \in Requests
    /\ t > made =>
         /\ t \notin requests /\ state[t] = "none" /\ cause[t] = "none"
         /\ run[t] = Idle /\ origin[t] = 0
    /\ origin[t] # 0 => origin[t] <= made /\ origin[t] \notin requests
    /\ origin[t] = 0 /\ (t \in active \/ run[t].cursor > 0) => receipt[request[t]] = t

Listed ==
    /\ active \subseteq requests
    /\ RetriedOnce
    /\ RetainedForRetry

IInv ==
    /\ TypeOK
    /\ \A t \in Ids :
         ControlFits(t) /\ ShownFits(t) /\ CountFits(t) /\ CauseFits(t) /\ BirthFits(t)
    /\ \A p \in parts : PartFits(p)
    /\ Listed

-----------------------------------------------------------------------------
(* Types                                                                   *)

(* A request has one remote end or two.                                    *)
LEMMA EndsLength == \A r \in Requests : Len(Ends[r]) \in {1, 2}
BY TransferAssumption

Places == {"idle", "grant", "open", "prepare", "pool", "close"}

(* What the steps of run() make of its progress.                           *)
LEMMA ProgressMade ==
    ASSUME NEW p \in Progress
    PROVE  /\ \A a \in Places : [p EXCEPT !.at = a] \in Progress
           /\ \A a \in Places, f \in BOOLEAN :
                [p EXCEPT !.at = a, !.failed = f] \in Progress
           /\ \A a \in Places, f \in BOOLEAN :
                [p EXCEPT !.failed = f, !.at = a] \in Progress
           /\ \A f \in BOOLEAN : [p EXCEPT !.failed = f] \in Progress
           /\ \A a \in Places, f \in BOOLEAN, h \in 0..2 :
                [p EXCEPT !.at = a, !.failed = f, !.handles = h] \in Progress
           /\ \A a \in Places, h \in 0..2 : [p EXCEPT !.handles = h, !.at = a] \in Progress
           /\ \A s \in UnderWay : [p EXCEPT !.previous = s] \in Progress
           /\ \A a \in Places, n \in 0..MaxFiles, k \in 0..MaxFiles, f \in BOOLEAN :
                [p EXCEPT !.at = a, !.jobs = n, !.cursor = k, !.failed = f] \in Progress
           /\ \A n \in 0..MaxFiles, k \in 0..MaxFiles, f \in BOOLEAN :
                [p EXCEPT !.handled = n, !.cursor = k, !.failed = f] \in Progress
BY DEF Progress, Places

(* The ranges of the fields of a transfer's progress.                      *)
LEMMA ProgressFields ==
    ASSUME NEW p \in Progress
    PROVE  /\ p.at \in Places /\ p.failed \in BOOLEAN /\ p.handles \in 0..2
           /\ p.previous \in UnderWay \cup {"none"}
           /\ p.jobs \in 0..MaxFiles /\ p.cursor \in 0..MaxFiles /\ p.handled \in 0..MaxFiles
BY DEF Progress, Places

(* What a run() that only touches its own transfer keeps.                  *)
LEMMA RunTypes ==
    ASSUME TypeOK, OnlyRun, state' \in [Ids -> RowStates], pending' \in [Ids -> Decisions],
           run' \in [Ids -> Progress], work' \in [Ids -> [0..PoolSize -> Stages]]
    PROVE  TypeOK'
BY DEF TypeOK, OnlyRun, connVars, hostVars, bornVars, ownVars, abortVars, gateVars

(* A worker that goes on, with the progress of its transfer, is well typed.*)
LEMMA WorkTypes ==
    ASSUME TypeOK, OnlyWork,
           NEW t \in Ids, NEW w \in Pool, NEW q \in Progress, NEW stage \in Stages,
           run' = [run EXCEPT ![t] = q], Goes(t, w, stage),
           parts' \subseteq Ids \X Pool, refused' \subseteq Ids \X Pool
    PROVE  TypeOK'
<1>1. run' \in [Ids -> Progress] /\ w \in 0..PoolSize
  BY TransferAssumption DEF TypeOK, Pool
<1>2. work' \in [Ids -> [0..PoolSize -> Stages]]
  BY <1>1 DEF Goes, TypeOK
<1> QED
  BY <1>1, <1>2
     DEF TypeOK, OnlyWork, connVars, hostVars, bornVars, ownVars, abortVars, gateVars

(* abort() of some transfers.                                              *)
LEMMA AbortTypes ==
    ASSUME TypeOK, NEW T \in SUBSET active, Abort(T)
    PROVE  /\ pending' \in [Ids -> Decisions]
           /\ run' \in [Ids -> Progress]
           /\ work' \in [Ids -> [0..PoolSize -> Stages]]
<1>1. pending' \in [Ids -> Decisions]
  BY DEF Abort, TypeOK, Decisions
<1>2. ASSUME NEW t \in Ids PROVE run'[t] \in Progress
  <2>1. run[t] \in Progress
    BY DEF TypeOK
  <2>2. [run[t] EXCEPT !.failed = TRUE, !.at = "close"] \in Progress
        /\ [run[t] EXCEPT !.failed = TRUE] \in Progress
    BY <2>1, ProgressMade DEF Places
  <2> QED
    BY <2>1, <2>2 DEF Abort
<1>3. run' \in [Ids -> Progress]
  BY <1>2 DEF Abort
<1>4. work' \in [Ids -> [0..PoolSize -> Stages]]
  BY DEF Abort, TypeOK, Stages
<1> QED
  BY <1>1, <1>3, <1>4

(* The end of run() is well typed.                                         *)
LEMMA SettleTypes ==
    ASSUME TypeOK, NEW t \in Ids, NEW ok \in BOOLEAN, Settle(t, ok)
    PROVE  TypeOK'
<1>1. Outcome(t, ok) \in RowStates
  BY DEF Outcome, RowStates, Terminal
<1>2. state' \in [Ids -> RowStates]
  BY <1>1 DEF Settle, TypeOK
<1>3. run' \in [Ids -> Progress]
  <2>1. run[t] \in Progress
    BY DEF TypeOK
  <2>a. "idle" \in Places /\ FALSE \in BOOLEAN /\ 0 \in 0..2
    BY DEF Places
  <2>2. [run[t] EXCEPT !.at = "idle", !.failed = FALSE, !.handles = 0] \in Progress
    BY <2>1, <2>a, ProgressMade
  <2> QED
    BY <2>2 DEF Settle, TypeOK
<1>4. requests' \subseteq Ids
  BY DEF Settle, Evict, TypeOK
<1>5. /\ active' \subseteq Ids /\ subs' \subseteq active'
      /\ aborted' \subseteq active' /\ lost' \subseteq aborted'
      /\ paused' \subseteq active' /\ applied' \subseteq active'
  BY DEF Settle, Unsubscribed, TypeOK
<1> QED
  BY <1>2, <1>3, <1>4, <1>5 DEF Settle, TypeOK, connVars, hostVars, bornVars

(* create() and retry().                                                   *)
LEMMA BeginTypes ==
    ASSUME TypeOK, NEW r \in Requests, NEW from \in Ids \cup {0}, NEW freed, Begin(r, from, freed),
           receipt' \in [Requests -> 0..MaxTransfers]
    PROVE  TypeOK'
<1>1. /\ made' = made + 1 /\ made + 1 \in Ids /\ made' \in 0..MaxTransfers
  BY TransferAssumption DEF Begin, TypeOK, Ids
<1>2. request' \in [Ids -> Requests \cup {NoRequest}] /\ origin' \in [Ids -> 0..MaxTransfers]
  BY <1>1, TransferAssumption, SMTT(30) DEF Begin, TypeOK, Ids
<1>3. state' \in [Ids -> RowStates]
  BY <1>1 DEF Begin, TypeOK, RowStates, Terminal, UnderWay
<1>4. \A a \in Places : [Idle EXCEPT !.at = a] \in Progress
  <2>1. Idle \in Progress
    BY TransferAssumption DEF Idle, Progress
  <2> QED
    BY <2>1, ProgressMade
<1>5. run' \in [Ids -> Progress]
  <2>1. CASE run' = run
    BY <2>1 DEF TypeOK
  <2>2. CASE run' = [run EXCEPT ![made + 1] =
                       [Idle EXCEPT !.at = IF Len(Ends[r]) = 2 THEN "open" ELSE "grant"]]
    BY <1>1, <1>4, <2>2 DEF TypeOK, Places
  <2> QED
    BY <2>1, <2>2 DEF Begin
<1>6. active \subseteq active' /\ active' \subseteq Ids /\ requests' \subseteq Ids
      /\ subs' \subseteq active'
  BY <1>1 DEF Begin, TypeOK, Evict
<1> QED
  BY <1>1, <1>2, <1>3, <1>5, <1>6 DEF Begin, TypeOK, connVars, hostVars, abortVars, gateVars

(* The steps of run() outside its pool.                                    *)
LEMMA RunStepTypes ==
    ASSUME IInv, NEW t \in Ids,
           GrantResolved(t) \/ Opened(t) \/ Prepared(t) \/ WalkFails(t) \/ PoolDone(t) \/ Closed(t)
    PROVE  TypeOK'
<1>t. /\ TypeOK /\ run \in [Ids -> Progress] /\ work \in [Ids -> [0..PoolSize -> Stages]]
      /\ state \in [Ids -> RowStates] /\ pending \in [Ids -> Decisions]
  BY DEF IInv, TypeOK
<1>p. run[t] \in Progress
  BY <1>t
<1>r. ASSUME NEW q \in Progress, run' = [run EXCEPT ![t] = q],
             UNCHANGED <<state, pending, work>>, OnlyRun
      PROVE  TypeOK'
  BY <1>r, <1>t, RunTypes
<1>s. ASSUME NEW ok \in BOOLEAN, Settle(t, ok) PROVE TypeOK'
  BY <1>s, <1>t, SettleTypes
<1>f. /\ [run[t] EXCEPT !.at = "open"] \in Progress
      /\ [run[t] EXCEPT !.at = "close"] \in Progress
      /\ [run[t] EXCEPT !.at = "close", !.failed = TRUE] \in Progress
  BY <1>p, ProgressMade DEF Places
<1>1. CASE GrantResolved(t)
  BY <1>1, <1>r, <1>s, <1>f DEF GrantResolved
<1>2. CASE Opened(t)
  <2>0. t \in active /\ run[t].at = "open"
    BY <1>2 DEF Opened, InRun
  <2>1. run[t].handles < Len(Ends[request[t]]) /\ request[t] \in Requests
    <3>1. t <= made \/ t > made
      BY <1>t DEF TypeOK, Ids
    <3>2. ControlFits(t) /\ BirthFits(t)
      BY DEF IInv
    <3> QED
      BY <2>0, <3>1, <3>2 DEF ControlFits, BirthFits, Idle
  <2>2. run[t].handles + 1 \in 0..2
    <3>1. Len(Ends[request[t]]) \in {1, 2}
      BY <2>1, EndsLength
    <3>2. run[t].handles \in 0..2
      BY <1>p, ProgressFields
    <3>3. ASSUME NEW h \in 0..2, NEW l \in {1, 2}, h < l PROVE h + 1 \in 0..2
      BY <3>3
    <3> QED
      BY <2>1, <3>1, <3>2, <3>3
  <2>3. \A a \in Places : [run[t] EXCEPT !.handles = run[t].handles + 1, !.at = a] \in Progress
    BY <1>p, <2>2, ProgressMade
  <2>4. CASE run' = [run EXCEPT ![t] =
                 [@ EXCEPT !.handles = run[t].handles + 1,
                           !.at = IF run[t].handles + 1 = Len(Ends[request[t]])
                                  THEN "prepare" ELSE "open"]]
               /\ UNCHANGED <<state, pending, work>> /\ OnlyRun
    BY <1>r, <2>3, <2>4 DEF Places
  <2> QED
    BY <1>2, <1>r, <1>s, <1>f, <2>4 DEF Opened
<1>3. CASE Prepared(t)
  <2>1. PICK n \in 0..MaxFiles :
          LET k == IF t \in aborted THEN 0 ELSE IF n < Workers(t) THEN n ELSE Workers(t)
          IN  /\ run' = [run EXCEPT ![t] = [@ EXCEPT !.at = "pool", !.jobs = n, !.cursor = k,
                                                  !.failed = t \in aborted /\ n > 0]]
              /\ work' = [work EXCEPT ![t] = [w \in 0..PoolSize |->
                             IF w \in 1..k THEN "target" ELSE "off"]]
    BY <1>3 DEF Prepared
  <2> DEFINE k == IF t \in aborted THEN 0 ELSE IF n < Workers(t) THEN n ELSE Workers(t)
  <2>2. k \in 0..MaxFiles
    BY TransferAssumption DEF Workers
  <2>3. run' = [run EXCEPT ![t] = [@ EXCEPT !.at = "pool", !.jobs = n, !.cursor = k,
                                            !.failed = t \in aborted /\ n > 0]]
        /\ work' = [work EXCEPT ![t] = [w \in 0..PoolSize |->
                       IF w \in 1..k THEN "target" ELSE "off"]]
    BY <2>1
  <2> HIDE DEF k
  <2>4. run' \in [Ids -> Progress]
    <3>1. "pool" \in Places /\ (t \in aborted /\ n > 0) \in BOOLEAN
      BY DEF Places
    <3>2. [run[t] EXCEPT !.at = "pool", !.jobs = n, !.cursor = k,
                         !.failed = t \in aborted /\ n > 0] \in Progress
      BY <1>p, <2>2, <3>1, ProgressMade
    <3> QED
      BY <1>t, <2>3, <3>2
  <2>5. work' \in [Ids -> [0..PoolSize -> Stages]]
    BY <1>t, <2>3 DEF Stages
  <2>6. state' \in [Ids -> RowStates] /\ pending' = pending /\ OnlyRun
    BY <1>3, <1>t DEF Prepared, RowStates, UnderWay
  <2> QED
    BY <1>t, <2>4, <2>5, <2>6, RunTypes
<1>4. CASE WalkFails(t)
  BY <1>4, <1>r, <1>f DEF WalkFails
<1>5. CASE PoolDone(t)
  BY <1>5, <1>r, <1>f DEF PoolDone
<1>6. CASE Closed(t)
  <2>1. (~run[t].failed) \in BOOLEAN
    OBVIOUS
  <2> QED
    BY <1>6, <1>s, <2>1 DEF Closed
<1> QED
  BY <1>1, <1>2, <1>3, <1>4, <1>5, <1>6

(* A worker, or the walk, comes upon a conflict.                           *)
LEMMA AskTypes ==
    ASSUME IInv, NEW t \in active, NEW w \in 0..PoolSize, AskConflict(t, w)
    PROVE  TypeOK'
<1>t. /\ TypeOK /\ run \in [Ids -> Progress] /\ work \in [Ids -> [0..PoolSize -> Stages]]
      /\ state \in [Ids -> RowStates] /\ pending \in [Ids -> Decisions] /\ t \in Ids
  BY DEF IInv, TypeOK
<1>1. run[t] \in Progress /\ state[t] \in UnderWay
  BY <1>t DEF IInv, ShownFits, Under
<1>2. /\ \A a \in Places : [run[t] EXCEPT !.failed = TRUE, !.at = a] \in Progress
      /\ [run[t] EXCEPT !.previous = state[t]] \in Progress
  BY <1>1, ProgressMade
<1>3. run' \in [Ids -> Progress]
  <2>1. \/ run' = [run EXCEPT ![t] = [run[t] EXCEPT !.previous = state[t]]]
        \/ run' = [run EXCEPT ![t] = [run[t] EXCEPT !.failed = TRUE,
                                                   !.at = IF w = 0 THEN "close" ELSE "pool"]]
    BY DEF AskConflict
  <2> QED
    BY <1>t, <1>2, <2>1 DEF Places
<1>4. work' \in [Ids -> [0..PoolSize -> Stages]]
  <2>1. \E s \in {"off", "ask"} : work' = [work EXCEPT ![t][w] = s]
    BY DEF AskConflict
  <2>2. PICK s \in Stages : work' = [work EXCEPT ![t][w] = s]
    BY <2>1 DEF Stages
  <2> QED
    BY <1>t, <2>2
<1>6. pending' \in [Ids -> Decisions]
  <2>1. {w} \in Decisions
    BY DEF Decisions
  <2> QED
    BY <1>t, <2>1 DEF AskConflict
<1>5. state' \in [Ids -> RowStates]
  BY <1>t DEF AskConflict, RowStates, UnderWay
<1> QED
  BY <1>t, <1>3, <1>4, <1>5, <1>6, RunTypes DEF AskConflict

(* The workers that have something to do can be counted.                   *)
LEMMA BusyCount ==
    ASSUME NEW t \in Ids
    PROVE  /\ IsFiniteSet(Busy(t)) /\ Cardinality(Busy(t)) \in Nat
           /\ Busy(t) = {} <=> Cardinality(Busy(t)) = 0
           /\ \A w \in Busy(t) :
                Cardinality(Busy(t)) >= 1 /\ Cardinality(Busy(t) \ {w}) = Cardinality(Busy(t)) - 1
<1>1. IsFiniteSet(Pool)
  BY TransferAssumption, FS_Interval DEF Pool
<1>2. Busy(t) \in SUBSET Pool
  BY DEF Busy
<1>3. IsFiniteSet(Busy(t)) /\ Cardinality(Busy(t)) \in Nat
  BY <1>1, <1>2, FS_Subset, FS_CardinalityType
<1>4. Busy(t) = {} <=> Cardinality(Busy(t)) = 0
  BY <1>3, FS_EmptySet
<1>5. \A w \in Busy(t) : Cardinality(Busy(t) \ {w}) = Cardinality(Busy(t)) - 1
  BY <1>3, FS_RemoveElement
<1> QED
  BY <1>3, <1>4, <1>5

(* NextFile: the bounds of the counters.                                   *)
LEMMA NextFileTypes ==
    ASSUME IInv, NEW t \in Ids, NEW w \in Pool, work[t][w] # "off", OnlyWork, NextFile(t, w),
           parts' \subseteq Ids \X Pool, UNCHANGED refused
    PROVE  TypeOK'
<1>1. run[t] \in Progress /\ TypeOK
  BY DEF IInv, TypeOK
<1>2. Cardinality(Busy(t)) >= 1 /\ Cardinality(Busy(t)) \in Nat
  <2>1. w \in Busy(t)
    BY DEF Busy
  <2> QED
    BY <2>1, BusyCount
<1>3. /\ run[t].handled + Cardinality(Busy(t)) <= run[t].cursor /\ run[t].cursor <= run[t].jobs
      /\ run[t].handled \in 0..MaxFiles /\ run[t].cursor \in 0..MaxFiles
      /\ run[t].jobs \in 0..MaxFiles /\ run[t].failed \in BOOLEAN
  BY <1>1, ProgressFields DEF IInv, CountFits
<1> DEFINE more == ~run[t].failed /\ run[t].cursor < run[t].jobs
           takes == more /\ ~Stops(t)
           h == run[t].handled + 1
           k == IF takes THEN run[t].cursor + 1 ELSE run[t].cursor
           f == run[t].failed \/ (more /\ Stops(t))
<1>4. h \in 0..MaxFiles /\ k \in 0..MaxFiles /\ f \in BOOLEAN
  <2>1. takes => run[t].cursor < run[t].jobs
    OBVIOUS
  <2>2. k \in 0..MaxFiles
    BY <1>3, <2>1, TransferAssumption
  <2> QED
    BY <1>2, <1>3, <2>2, TransferAssumption
<1>5. run' = [run EXCEPT ![t] = [run[t] EXCEPT !.handled = h, !.cursor = k, !.failed = f]]
  BY DEF NextFile
<1>8. Goes(t, w, IF takes THEN "target" ELSE "off")
  BY DEF NextFile
<1> HIDE DEF h, k, f, takes
<1>6. [run[t] EXCEPT !.handled = h, !.cursor = k, !.failed = f] \in Progress
  BY <1>1, <1>4, ProgressMade
<1>7. (IF takes THEN "target" ELSE "off") \in Stages
  BY DEF Stages
<1> QED
  BY <1>1, <1>5, <1>6, <1>7, <1>8, WorkTypes DEF TypeOK

(* The steps of a worker of the pool.                                      *)
LEMMA WorkerTypes ==
    ASSUME IInv, NEW t \in Ids, NEW w \in Pool, WorkerStep(t, w) \/ StreamFails(t, w)
    PROVE  TypeOK'
<1>t. TypeOK /\ run[t] \in Progress /\ run = [run EXCEPT ![t] = run[t]]
  BY DEF IInv, TypeOK
<1>p. <<t, w>> \in Ids \X Pool /\ parts \subseteq Ids \X Pool /\ refused \subseteq Ids \X Pool
  BY <1>t DEF TypeOK
<1>f. ASSUME OnlyWork, WorkerFails(t, w),
             parts' \subseteq Ids \X Pool, refused' \subseteq Ids \X Pool
      PROVE  TypeOK'
  <2>1. [run[t] EXCEPT !.failed = TRUE] \in Progress /\ "off" \in Stages
    BY <1>t, ProgressMade DEF Stages
  <2> QED
    BY <1>f, <1>t, <2>1, WorkTypes DEF WorkerFails
<1>g. ASSUME OnlyWork, NEW s \in Stages, Goes(t, w, s), run' = run,
             parts' \subseteq Ids \X Pool, UNCHANGED refused
      PROVE  TypeOK'
  BY <1>g, <1>t, <1>p, WorkTypes
<1>1. CASE TargetFound(t, w)
  BY <1>1, <1>p, <1>g DEF TargetFound, Stages
<1>2. CASE Skipped(t, w)
  BY <1>2, <1>p, NextFileTypes DEF Skipped, InPool
<1>3. CASE TargetFails(t, w)
  BY <1>3, <1>p, <1>f DEF TargetFails
<1>4. CASE FileAsks(t, w)
  <2>1. t \in active /\ w \in 0..PoolSize
    BY <1>4, TransferAssumption DEF FileAsks, InPool, InRun, Pool
  <2> QED
    BY <1>4, <2>1, AskTypes DEF FileAsks
<1>5. CASE Streamed(t, w)
  BY <1>5, <1>p, <1>g DEF Streamed, Stages
<1>6. CASE Committed(t, w)
  BY <1>6, <1>p, NextFileTypes DEF Committed, InPool
<1>7. CASE Unlinked(t, w)
  <2>1. parts' \subseteq parts /\ refused' \subseteq refused \cup {<<t, w>>}
    BY <1>7 DEF Unlinked, Unlinks
  <2> QED
    BY <1>7, <1>p, <1>f, <2>1 DEF Unlinked
<1>8. CASE StreamFails(t, w)
  BY <1>8, <1>p, <1>g DEF StreamFails, Stages
<1> QED
  BY <1>1, <1>2, <1>3, <1>4, <1>5, <1>6, <1>7, <1>8 DEF WorkerStep

(* The calls of the user.                                                  *)
LEMMA UserTypes ==
    ASSUME IInv, NEW t \in Ids,
           Cancel(t) \/ Pause(t) \/ Resume(t) \/ \E all \in BOOLEAN : Decide(t, all)
    PROVE  TypeOK'
<1>t. /\ TypeOK /\ run \in [Ids -> Progress] /\ work \in [Ids -> [0..PoolSize -> Stages]]
      /\ state \in [Ids -> RowStates] /\ pending \in [Ids -> Decisions]
      /\ cause \in [Ids -> Causes]
  BY DEF IInv, TypeOK
<1>u. ASSUME NEW x \in UnderWay PROVE [state EXCEPT ![t] = x] \in [Ids -> RowStates]
  BY <1>t DEF RowStates
<1>1. CASE Cancel(t)
  <2>1. {t} \in SUBSET active /\ Abort({t}) /\ Blame({t}, "user")
    BY <1>1 DEF Cancel
  <2>2. /\ pending' \in [Ids -> Decisions] /\ run' \in [Ids -> Progress]
        /\ work' \in [Ids -> [0..PoolSize -> Stages]]
    BY <1>t, <2>1, AbortTypes
  <2>3. cause' \in [Ids -> Causes]
    BY <1>t, <2>1 DEF Blame, Causes
  <2>4. aborted' \subseteq active /\ lost \subseteq aborted' /\ paused' \subseteq active
    BY <1>t, <2>1 DEF Abort, TypeOK
  <2> QED
    BY <1>1, <1>t, <2>2, <2>3, <2>4 DEF Cancel, TypeOK, connVars, hostVars, bornVars, ownVars
<1>2. CASE Pause(t)
  BY <1>2, <1>t, <1>u
     DEF Pause, Gate, TypeOK, UnderWay, connVars, hostVars, bornVars, ownVars, abortVars
<1>3. CASE Resume(t)
  BY <1>3, <1>t, <1>u
     DEF Resume, Opens, Gate, TypeOK, UnderWay, connVars, hostVars, bornVars, ownVars, abortVars
<1>4. ASSUME NEW all \in BOOLEAN, Decide(t, all) PROVE TypeOK'
  <2>1. run[t].previous \in UnderWay
    <3>1. ShownFits(t) /\ pending[t] # {}
      BY <1>4 DEF Decide, IInv
    <3> QED
      BY <3>1 DEF ShownFits, UnderWay
  <2>2. state' \in [Ids -> RowStates]
    BY <1>4, <1>u, <2>1 DEF Decide
  <2>3. pending' \in [Ids -> Decisions]
    BY <1>4, <1>t DEF Decide, Decisions
  <2>4. work' \in [Ids -> [0..PoolSize -> Stages]]
    <3>1. work' = [work EXCEPT ![t] = [w \in 0..PoolSize |->
                     IF w \notin pending[t] THEN work[t][w]
                     ELSE IF w = 0 THEN "off" ELSE "resolved"]]
      BY <1>4 DEF Decide
    <3> QED
      BY <1>t, <3>1 DEF Stages
  <2>5. applied' \subseteq active
    BY <1>4, <1>t DEF Decide, TypeOK
  <2> QED
    BY <1>4, <1>t, <2>2, <2>3, <2>4, <2>5
       DEF Decide, TypeOK, connVars, hostVars, bornVars, ownVars, abortVars
<1> QED
  BY <1>1, <1>2, <1>3, <1>4

(* The restart, also of a process that died in create().                   *)
LEMMA ResetTypes ==
    ASSUME TypeOK, Reset, state' \in [Ids -> RowStates], made' \in 0..MaxTransfers,
           request' \in [Ids -> Requests \cup {NoRequest}], UNCHANGED <<origin, receipt>>
    PROVE  TypeOK'
<1>1. \A t \in Ids : [run[t] EXCEPT !.at = "idle", !.failed = FALSE, !.handles = 0] \in Progress
  <2>a. "idle" \in Places /\ FALSE \in BOOLEAN /\ 0 \in 0..2
    BY DEF Places
  <2>1. \A t \in Ids : run[t] \in Progress
    BY DEF TypeOK
  <2> QED
    BY <2>1, <2>a, ProgressMade
<1>2. run' \in [Ids -> Progress]
  BY <1>1 DEF Reset
<1>3. work' \in [Ids -> [0..PoolSize -> Stages]] /\ pending' \in [Ids -> Decisions]
  BY DEF Reset, Stages, Decisions
<1>4. cause' \in [Ids -> Causes]
  BY DEF Reset, TypeOK, Causes
<1>5. restarts' \in 0..MaxRestarts
  <2>1. restarts \in 0..MaxRestarts /\ restarts < MaxRestarts /\ restarts' = restarts + 1
    BY DEF Reset, TypeOK
  <2>2. MaxRestarts \in Nat
    BY TransferAssumption
  <2> QED
    BY <2>1, <2>2
<1> QED
  BY <1>2, <1>3, <1>4, <1>5 DEF Reset, TypeOK, connVars

(* A step keeps the types.                                                 *)
LEMMA TypeStep ==
    ASSUME IInv, [Next]_vars
    PROVE  TypeOK'
<1>t. /\ TypeOK /\ run \in [Ids -> Progress] /\ work \in [Ids -> [0..PoolSize -> Stages]]
      /\ state \in [Ids -> RowStates] /\ pending \in [Ids -> Decisions]
      /\ cause \in [Ids -> Causes]
  BY DEF IInv, TypeOK
<1>a. ASSUME NEW T \in SUBSET active, NEW what \in Causes, Abort(T), Blame(T, what)
      PROVE  /\ pending' \in [Ids -> Decisions] /\ run' \in [Ids -> Progress]
             /\ work' \in [Ids -> [0..PoolSize -> Stages]] /\ cause' \in [Ids -> Causes]
             /\ aborted' \subseteq active /\ aborted \cup T \subseteq aborted'
             /\ paused' \subseteq active
  <2>1. cause' \in [Ids -> Causes]
    BY <1>a, <1>t DEF Blame
  <2>2. /\ aborted' \subseteq active /\ aborted \cup T \subseteq aborted'
        /\ paused' \subseteq active
    BY <1>a, <1>t DEF Abort, TypeOK
  <2> QED
    BY <1>a, <1>t, <2>1, <2>2, AbortTypes
<1>i. Recovered \in [Ids -> RowStates]
  BY <1>t DEF Recovered, RowStates, Terminal
<1>1. ASSUME NEW r \in Requests, Create(r) PROVE TypeOK'
  <2>1. receipt' \in [Requests -> 0..MaxTransfers]
    <3>1. made + 1 \in 0..MaxTransfers
      BY <1>1, TransferAssumption, <1>t DEF Create, Begin, TypeOK
    <3> QED
      BY <1>1, <1>t, <3>1 DEF Create, TypeOK
  <2> QED
    BY <1>1, <1>t, <2>1, BeginTypes DEF Create
<1>2. ASSUME NEW r \in Requests, RestartInCreate(r) PROVE TypeOK'
  <2>1. made' \in 0..MaxTransfers /\ made + 1 \in Ids
    BY <1>2, TransferAssumption, <1>t DEF RestartInCreate, TypeOK, Ids
  <2>2. request' \in [Ids -> Requests \cup {NoRequest}] /\ state' \in [Ids -> RowStates]
    BY <1>2, <1>t, <1>i, <2>1 DEF RestartInCreate, TypeOK, RowStates, Terminal
  <2> QED
    BY <1>2, <1>t, <2>1, <2>2, ResetTypes DEF RestartInCreate
<1>3. CASE ClearCompleted
  <2>1. state' \in [Ids -> RowStates]
    BY <1>3, <1>t DEF ClearCompleted, RowStates
  <2> QED
    BY <1>3, <1>t, <2>1
       DEF ClearCompleted, TypeOK, connVars, hostVars, bornVars, abortVars, gateVars
<1>4. ASSUME NEW t \in Ids, UserStep(t) PROVE TypeOK'
  <2>1. CASE Retry(t)
    <3>1. request[t] \in Requests
      <4>1. BirthFits(t) /\ state[t] # "none" /\ (t <= made \/ t > made)
        BY <2>1, <1>t DEF Retry, IInv, TypeOK, Ids
      <4> QED
        BY <4>1 DEF BirthFits
    <3>2. receipt' \in [Requests -> 0..MaxTransfers] /\ t \in Ids \cup {0}
      BY <2>1, <1>t DEF Retry, TypeOK
    <3> QED
      BY <2>1, <1>t, <3>1, <3>2, BeginTypes DEF Retry
  <2> QED
    BY <1>4, <2>1, UserTypes DEF UserStep
<1>5. ASSUME NEW t \in Ids, RunStep(t) PROVE TypeOK'
  <2>1. CASE WalkAsks(t)
    <3>1. t \in active /\ 0 \in 0..PoolSize
      BY <2>1, TransferAssumption DEF WalkAsks, InRun
    <3> QED
      BY <2>1, <3>1, AskTypes DEF WalkAsks
  <2> QED
    BY <1>5, <2>1, RunStepTypes, WorkerTypes DEF RunStep
<1>6. ASSUME NEW t \in Ids, NEW w \in Pool, StreamFails(t, w) PROVE TypeOK'
  BY <1>6, WorkerTypes
<1>7. ASSUME NEW c \in Conns, ConnectionLost(c) PROVE TypeOK'
  <2> DEFINE hit == {t \in Ids : Hears(t, c)}
  <2>1. hit \in SUBSET active /\ "loss" \in Causes
    BY <1>t DEF Hears, TypeOK, Causes
  <2>2. Abort(hit) /\ Blame(hit, "loss") /\ lost' = lost \cup hit
    BY <1>7 DEF ConnectionLost
  <2> HIDE DEF hit
  <2>3. /\ pending' \in [Ids -> Decisions] /\ run' \in [Ids -> Progress]
        /\ work' \in [Ids -> [0..PoolSize -> Stages]] /\ cause' \in [Ids -> Causes]
        /\ aborted' \subseteq active /\ aborted \cup hit \subseteq aborted'
        /\ paused' \subseteq active
    BY <1>a, <2>1, <2>2
  <2>4. killed' \subseteq Ids /\ lost' \subseteq aborted'
    BY <1>7, <1>t, <2>2, <2>3 DEF ConnectionLost, TypeOK
  <2>5. losses' \in 0..MaxLosses /\ conn' \in [Conns -> {"up", "down"}]
    BY <1>7, <1>t, TransferAssumption DEF ConnectionLost, TypeOK
  <2> QED
    BY <1>7, <1>t, <2>3, <2>4, <2>5
       DEF ConnectionLost, TypeOK, hostVars, bornVars, ownVars
<1>8. ASSUME NEW c \in Conns, ConnectionBack(c) PROVE TypeOK'
  BY <1>8, <1>t
     DEF ConnectionBack, TypeOK, hostVars, bornVars, ownVars, abortVars, gateVars
<1>9. CASE Shutdown
  <2>1. /\ pending' \in [Ids -> Decisions] /\ run' \in [Ids -> Progress]
        /\ work' \in [Ids -> [0..PoolSize -> Stages]] /\ cause' \in [Ids -> Causes]
        /\ aborted' \subseteq active /\ aborted \cup active \subseteq aborted'
        /\ paused' \subseteq active
    BY <1>9, <1>a DEF Shutdown, Causes
  <2> QED
    BY <1>9, <1>t, <2>1 DEF Shutdown, TypeOK, connVars, bornVars, ownVars
<1>10. CASE Stopped
  BY <1>10, <1>t DEF Stopped, TypeOK, connVars, bornVars, abortVars, gateVars
<1>11. CASE Restart
  <2>1. request' = request /\ made' = made /\ UNCHANGED <<origin, receipt>>
    BY <1>11 DEF Restart, bornVars
  <2> QED
    BY <1>11, <1>t, <1>i, <2>1, ResetTypes DEF Restart, TypeOK
<1>12. CASE UNCHANGED vars
  BY <1>12, <1>t
     DEF vars, TypeOK, connVars, hostVars, bornVars, ownVars, abortVars, gateVars
<1> QED
  BY <1>1, <1>2, <1>3, <1>4, <1>5, <1>6, <1>7, <1>8, <1>9, <1>10, <1>11, <1>12 DEF Next

-----------------------------------------------------------------------------
(* Births, requests kept for a retry, receipts                             *)

(* A step that keeps the lists and the idle transfers.                     *)
LEMMA ListsKept ==
    ASSUME IInv, TypeOK', UNCHANGED bornVars, active' = active, requests' = requests,
           \A u \in Ids \ active :
             state'[u] = state[u] /\ run'[u] = run[u] /\ cause'[u] = cause[u]
    PROVE  (\A u \in Ids : BirthFits(u)') /\ Listed'
<1>1. /\ made' = made /\ request' = request /\ origin' = origin /\ receipt' = receipt
      /\ \A u \in Ids : BirthFits(u) /\ ControlFits(u)
      /\ Listed
  BY DEF IInv, bornVars
<1>2. ASSUME NEW u \in Ids PROVE BirthFits(u)'
  <2>1. CASE u \in active
    <3>1. u <= made
      <4>1. u <= made \/ u > made
        BY DEF IInv, TypeOK, Ids
      <4> QED
        BY <1>1, <2>1, <4>1 DEF BirthFits, ControlFits, Idle
    <3> QED
      BY <1>1, <2>1, <3>1 DEF BirthFits, IInv, TypeOK, Ids
  <2>2. CASE u \notin active
    BY <1>1, <2>2 DEF BirthFits
  <2> QED
    BY <2>1, <2>2
<1>3. Listed'
  <2>1. requests \ active \subseteq Ids \ active
    BY DEF IInv, TypeOK
  <2> QED
    BY <1>1, <2>1 DEF Listed, RetriedOnce, RetainedForRetry
<1> QED
  BY <1>2, <1>3

(* Evict() leaves MaxRetained of the requests that no transfer uses: each  *)
(* one that stays has its place among the last ones.                       *)
LEMMA EvictBounds ==
    ASSUME NEW act \in SUBSET Ids, NEW reqs \in SUBSET Ids, act \subseteq reqs
    PROVE  /\ Evict(reqs, act) \subseteq reqs /\ act \subseteq Evict(reqs, act)
           /\ Cardinality(Evict(reqs, act) \ act) <= MaxRetained
<1> DEFINE old == reqs \ act
           upto(t) == {u \in old : u <= t}
           excess == Cardinality(reqs) - Cardinality(act) - MaxRetained
           kept == Evict(reqs, act) \ act
<1>0. MaxRetained \in Nat /\ Ids \subseteq Nat
  BY TransferAssumption DEF Ids
<1>1. IsFiniteSet(reqs) /\ IsFiniteSet(act) /\ IsFiniteSet(old)
  <2>1. IsFiniteSet(Ids)
    BY TransferAssumption, FS_Interval DEF Ids
  <2> QED
    BY <2>1, FS_Subset
<1>2. Cardinality(reqs) - Cardinality(act) = Cardinality(old) /\ Cardinality(old) \in Nat
  <2>1. Cardinality(old) = Cardinality(reqs) - Cardinality(reqs \cap act)
    BY <1>1, FS_Difference
  <2>2. reqs \cap act = act
    OBVIOUS
  <2> QED
    BY <1>1, <2>1, <2>2, FS_CardinalityType
<1>3. kept = {t \in old : Cardinality(upto(t)) > excess}
  BY DEF Evict
<1>4. ASSUME NEW t \in old
      PROVE  IsFiniteSet(upto(t)) /\ Cardinality(upto(t)) \in 1..Cardinality(old)
  <2>1. IsFiniteSet(upto(t)) /\ Cardinality(upto(t)) <= Cardinality(old)
    BY <1>1, FS_Subset
  <2>2. t \in upto(t)
    BY <1>0
  <2>3. Cardinality(upto(t)) # 0
    BY <2>1, <2>2, FS_EmptySet
  <2> QED
    BY <1>2, <2>1, <2>3, FS_CardinalityType
<1>5. ASSUME NEW t \in old, NEW u \in old, t < u
      PROVE  Cardinality(upto(t)) < Cardinality(upto(u))
  <2>0. t \in Nat /\ u \in Nat /\ old \subseteq Nat
    BY <1>0
  <2>1. upto(t) \subseteq upto(u) /\ u \in upto(u) \ upto(t)
    <3>1. ~(u <= t) /\ \A v \in old : v <= t => v <= u
      <4> HIDE DEF old
      <4> QED
        BY <2>0, <1>5
    <3>2. u <= u
      BY <2>0
    <3> HIDE DEF old
    <3> QED
      BY <3>1, <3>2
  <2>2. Cardinality(upto(t)) <= Cardinality(upto(u)) /\ Cardinality(upto(t)) # Cardinality(upto(u))
    BY <1>4, <2>1, FS_Subset
  <2> QED
    BY <1>4, <2>2
<1>6. /\ excess = Cardinality(old) - MaxRetained
      /\ excess \in Int /\ excess <= Cardinality(old)
  BY <1>0, <1>2
<1> DEFINE place == [t \in kept |-> Cardinality(upto(t))]
           places == (IF excess < 0 THEN 1 ELSE excess + 1)..Cardinality(old)
<1> HIDE DEF upto, excess, old
<1>7. place \in Injection(kept, places)
  <2>1. place \in [kept -> places]
    BY <1>2, <1>3, <1>4, <1>6
  <2>2. \A t, u \in kept : place[t] = place[u] => t = u
    <3>1. kept \subseteq old
      BY <1>3
    <3>2. \A t, u \in old : t < u \/ u < t \/ t = u
      BY <1>0 DEF old
    <3> QED
      BY <1>4, <1>5, <3>1, <3>2
  <2> HIDE DEF place, places, kept
  <2> QED
    BY <2>1, <2>2, Fun_IsInj
<1>8. IsFiniteSet(places) /\ Cardinality(places) <= MaxRetained
  <2>1. ASSUME NEW a \in Int, NEW b \in Nat, a >= 1, a > b - MaxRetained
        PROVE  IsFiniteSet(a..b) /\ Cardinality(a..b) <= MaxRetained
    BY <1>0, <2>1, FS_Interval
  <2> QED
    BY <1>0, <1>2, <1>6, <2>1
<1>9. Cardinality(kept) <= Cardinality(places) /\ Cardinality(kept) \in Nat
  BY <1>7, <1>8, FS_Injection, FS_CardinalityType
<1> QED
  BY <1>0, <1>8, <1>9, FS_CardinalityType DEF Evict

(* The end of a run().                                                     *)
LEMMA ListsSettle ==
    ASSUME IInv, TypeOK', NEW t \in active, NEW ok \in BOOLEAN, Settle(t, ok)
    PROVE  (\A u \in Ids : BirthFits(u)') /\ Listed'
<1>t. /\ active \subseteq Ids /\ requests \subseteq Ids /\ active \subseteq requests /\ t \in Ids
      /\ state \in [Ids -> RowStates]
      /\ \A u \in Ids : BirthFits(u) /\ ControlFits(u)
      /\ Listed /\ made \in Nat /\ Ids \subseteq Nat
  BY DEF IInv, TypeOK, Listed, Ids
<1> DEFINE reqs == IF ok THEN requests \ {t} ELSE requests
           act == active \ {t}
<1>1. /\ requests' = Evict(reqs, act) /\ active' = act
      /\ made' = made /\ request' = request /\ origin' = origin /\ receipt' = receipt
      /\ cause' = cause
      /\ state' = [state EXCEPT ![t] = Outcome(t, ok)]
      /\ \A u \in Ids \ {t} : run'[u] = run[u]
  BY DEF Settle, bornVars
<1>2. /\ requests' \subseteq reqs /\ act \subseteq requests'
      /\ Cardinality(requests' \ active') <= MaxRetained
  <2>1. act \in SUBSET Ids /\ reqs \in SUBSET Ids /\ act \subseteq reqs
    BY <1>t
  <2> HIDE DEF act, reqs
  <2> QED
    BY <1>1, <2>1, EvictBounds
<1>3. t <= made
  BY <1>t DEF BirthFits, ControlFits, Idle
<1>4. ASSUME NEW u \in Ids PROVE BirthFits(u)'
  <2>1. CASE u = t
    BY <1>t, <1>1, <1>2, <1>3, <2>1 DEF BirthFits
  <2>2. CASE u # t
    BY <1>t, <1>1, <1>2, <2>2, SMTT(30) DEF BirthFits
  <2> QED
    BY <2>1, <2>2
<1>5. \A u \in requests' \ active' : state'[u] \in {"failed", "canceled"}
  <2>1. ~ok => Outcome(t, ok) \in {"failed", "canceled"}
    BY DEF Outcome
  <2> QED
    BY <1>t, <1>1, <1>2, <2>1 DEF Listed, RetainedForRetry
<1> QED
  BY <1>t, <1>1, <1>2, <1>4, <1>5 DEF Listed, RetriedOnce, RetainedForRetry

(* create(), whose key has no receipt, and retry(), which takes away the   *)
(* request it repeats.                                                     *)
LEMMA ListsBegin ==
    ASSUME IInv, NEW n \in Ids, n = made + 1,
           NEW r \in Requests, NEW from \in Ids \cup {0}, NEW freed, Begin(r, from, freed),
           \/ /\ from = 0 /\ freed = {} /\ receipt[r] = 0
              /\ receipt' = [receipt EXCEPT ![r] = made + 1]
           \/ from \in requests \ active /\ freed = {from} /\ receipt' = receipt
    PROVE  (\A u \in Ids : BirthFits(u)') /\ Listed'
<1>t. /\ active \subseteq Ids /\ requests \subseteq Ids /\ active \subseteq requests
      /\ state \in [Ids -> RowStates] /\ run \in [Ids -> Progress]
      /\ request \in [Ids -> Requests \cup {NoRequest}] /\ origin \in [Ids -> 0..MaxTransfers]
      /\ receipt \in [Requests -> 0..MaxTransfers]
      /\ \A u \in Ids : BirthFits(u) /\ ControlFits(u)
      /\ Listed /\ made \in Nat /\ Ids \subseteq Nat /\ 0 \notin Ids
  BY DEF IInv, TypeOK, Listed, Ids
<1>n. n \in Ids /\ n > made
  BY <1>t
<1>0. /\ n \notin requests /\ n \notin active /\ origin[n] = 0 /\ cause[n] = "none"
      /\ run[n] = Idle /\ from # n
  BY <1>t, <1>n DEF BirthFits
<1>1. /\ made' = n /\ request' = [request EXCEPT ![n] = r]
      /\ origin' = [origin EXCEPT ![n] = from] /\ cause' = cause
      /\ \A u \in Ids \ {n} : state'[u] = state[u] /\ run'[u] = run[u]
  BY <1>t, <1>n DEF Begin, abortVars
<1>2. /\ requests' \subseteq (requests \cup {n}) \ freed
      /\ active \subseteq active' /\ active' \subseteq active \cup {n}
      /\ active' \subseteq requests'
      /\ IsFiniteSet(requests' \ active') /\ Cardinality(requests' \ active') <= MaxRetained
      /\ n \in active' \/ state'[n] = "failed"
  <2>f. IsFiniteSet(requests)
    <3>1. IsFiniteSet(Ids)
      BY TransferAssumption, FS_Interval DEF Ids
    <3> QED
      BY <1>t, <3>1, FS_Subset
  <2>1. CASE active' = active \cup {n} /\ requests' = (requests \cup {n}) \ freed
    <3>1. requests' \ active' \subseteq requests \ active
      BY <2>1
    <3>2. Cardinality(requests' \ active') <= Cardinality(requests \ active)
          /\ IsFiniteSet(requests' \ active')
          /\ Cardinality(requests' \ active') \in Nat /\ Cardinality(requests \ active) \in Nat
      BY <2>f, <3>1, FS_Subset, FS_CardinalityType
    <3>3. Cardinality(requests \ active) <= MaxRetained /\ MaxRetained \in Nat
      BY <1>t, TransferAssumption DEF Listed, RetainedForRetry
    <3>4. Cardinality(requests' \ active') <= MaxRetained
      BY <3>2, <3>3
    <3> QED
      BY <1>t, <1>0, <2>1, <3>2, <3>4
  <2>2. CASE /\ requests' = Evict(requests \cup {n}, active) \ freed
             /\ state' = [state EXCEPT ![n] = "failed"]
             /\ active' = active
    <3>1. /\ Evict(requests \cup {n}, active) \subseteq requests \cup {n}
          /\ active \subseteq Evict(requests \cup {n}, active)
          /\ Cardinality(Evict(requests \cup {n}, active) \ active) <= MaxRetained
      <4>1. requests \cup {n} \in SUBSET Ids /\ active \subseteq requests \cup {n}
        BY <1>t
      <4> QED
        BY <1>t, <4>1, active \in SUBSET Ids, EvictBounds
    <3>2. IsFiniteSet(Evict(requests \cup {n}, active) \ active)
      <4>1. IsFiniteSet(requests \cup {n})
        BY <2>f, FS_AddElement
      <4>2. Evict(requests \cup {n}, active) \ active \in SUBSET (requests \cup {n})
        BY <3>1
      <4> QED
        BY <4>1, <4>2, FS_Subset
    <3>3. requests' \ active' \subseteq Evict(requests \cup {n}, active) \ active
      BY <2>2
    <3>4. Cardinality(requests' \ active') <= Cardinality(Evict(requests \cup {n}, active) \ active)
          /\ IsFiniteSet(requests' \ active')
      BY <3>2, <3>3, FS_Subset
    <3>5. Cardinality(requests' \ active') <= MaxRetained
      BY <3>1, <3>2, <3>4, TransferAssumption, FS_CardinalityType
    <3>6. active' \subseteq requests'
      BY <2>2, <3>1
    <3>7. state'[n] = "failed"
      BY <1>t, <1>n, <2>2
    <3> QED
      BY <2>2, <3>1, <3>4, <3>5, <3>6, <3>7
  <2> QED
    BY <2>1, <2>2 DEF Begin
<1>3. ASSUME NEW u \in Ids, u # n PROVE BirthFits(u)'
  <2>1. /\ u <= made' => u <= made
        /\ u > made' => u > made
        /\ (u \in requests' => u \in requests) /\ (u \in active' => u \in active)
        /\ request'[u] = request[u] /\ origin'[u] = origin[u]
        /\ state'[u] = state[u] /\ cause'[u] = cause[u] /\ run'[u] = run[u]
    BY <1>t, <1>n, <1>1, <1>2, <1>3
  <2>2. BirthFits(u)
    BY <1>t
  <2>3. u > made' \/ u <= made \/ u = n
    BY <1>t, <1>1
  <2>4. origin[u] # 0 => origin[u] <= made' /\ origin[u] \notin requests'
    BY <1>t, <1>n, <1>1, <1>2, <2>2 DEF BirthFits
  <2>5. receipt[request[u]] = u /\ u <= made => receipt'[request[u]] = u
    BY <1>t, <1>1, <2>2 DEF BirthFits
  <2>6. origin[u] = 0 /\ (u \in active \/ run[u].cursor > 0) => u <= made
    <3>1. u <= made \/ u > made
      BY <1>t
    <3>2. Idle.cursor = 0 /\ Idle.at = "idle"
      BY DEF Idle
    <3>3. u > made => u \notin active /\ run[u].cursor = 0
      BY <1>t, <2>2, <3>2 DEF BirthFits, ControlFits
    <3> QED
      BY <3>1, <3>3
  <2> QED
    BY <2>1, <2>2, <2>4, <2>5, <2>6 DEF BirthFits
<1>4. BirthFits(n)'
  <2>1. request'[n] = r /\ origin'[n] = from
    BY <1>t, <1>n, <1>1
  <2>2. from # 0 => from <= made' /\ from \notin requests' /\ from \in requests
    <3>1. from # 0 => from \in Ids /\ from \in requests /\ from \notin requests'
      BY <1>t, <1>2
    <3>2. from \in Ids => from <= made \/ from > made
      BY <1>t
    <3> QED
      BY <1>t, <1>1, <3>1, <3>2 DEF BirthFits
  <2>3. from = 0 => receipt'[r] = n
    BY <1>t
  <2>4. ~(n > made')
    BY <1>t, <1>1
  <2> QED
    BY <2>1, <2>2, <2>3, <2>4 DEF BirthFits
<1>5. RetriedOnce'
  <2>1. \A u \in Ids \ {n} : origin'[u] = origin[u] /\ (from # 0 => origin[u] # from)
    BY <1>t, <1>1 DEF BirthFits
  <2>2. origin'[n] = from
    BY <1>t, <1>n, <1>1
  <2> QED
    BY <1>t, <2>1, <2>2 DEF RetriedOnce, Listed
<1>6. \A u \in requests' \ active' : state'[u] \in {"failed", "canceled"}
  <2> SUFFICES ASSUME NEW u \in requests' \ active' PROVE state'[u] \in {"failed", "canceled"}
    OBVIOUS
  <2>1. CASE u = n
    BY <1>2, <2>1
  <2>2. CASE u # n
    BY <1>t, <1>1, <1>2, <2>2 DEF Listed, RetainedForRetry
  <2> QED
    BY <2>1, <2>2
<1> QED
  BY <1>2, <1>3, <1>4, <1>5, <1>6 DEF Listed, RetainedForRetry

(* What a step of one active transfer leaves alone.                        *)
Alone(t) ==
    /\ t \in active
    /\ UNCHANGED <<bornVars, active, requests, subs, aborted, lost, cause, killed>>
    /\ \A u \in Ids \ {t} :
         /\ state'[u] = state[u] /\ pending'[u] = pending[u] /\ run'[u] = run[u]
         /\ work'[u] = work[u] /\ (u \in paused' <=> u \in paused)

(* A step of a transfer concerns that transfer alone, or ends it.          *)
LEMMA StepsAlone ==
    ASSUME TypeOK, NEW t \in Ids,
           \/ RunStep(t) \/ Pause(t) \/ Resume(t)
           \/ \E all \in BOOLEAN : Decide(t, all)
           \/ \E w \in Pool : StreamFails(t, w)
    PROVE  Alone(t) \/ \E ok \in BOOLEAN : t \in active /\ Settle(t, ok)
<1>t. /\ run \in [Ids -> Progress] /\ work \in [Ids -> [0..PoolSize -> Stages]]
      /\ state \in [Ids -> RowStates] /\ pending \in [Ids -> Decisions]
  BY DEF TypeOK
<1>r. ASSUME t \in active, OnlyRun, NEW q, run' = run \/ run' = [run EXCEPT ![t] = q],
             NEW s, state' = state \/ state' = [state EXCEPT ![t] = s],
             NEW d, pending' = pending \/ pending' = [pending EXCEPT ![t] = d],
             NEW x, work' = work \/ work' = [work EXCEPT ![t] = x]
      PROVE  Alone(t)
  BY <1>r, <1>t DEF Alone, OnlyRun, ownVars, abortVars, gateVars
<1>w. ASSUME t \in active, OnlyWork, NEW q, run' = run \/ run' = [run EXCEPT ![t] = q],
             NEW w, NEW s, Goes(t, w, s)
      PROVE  Alone(t)
  BY <1>w, <1>t DEF Alone, OnlyWork, Goes, ownVars, abortVars, gateVars
<1>a. ASSUME t \in active, NEW w, AskConflict(t, w) PROVE Alone(t)
  <2>1. \E q : run' = [run EXCEPT ![t] = q]
    BY <1>a DEF AskConflict
  <2>2. \E x : work' = [work EXCEPT ![t] = x]
    <3>1. \A s : [work EXCEPT ![t][w] = s] = [work EXCEPT ![t] = [work[t] EXCEPT ![w] = s]]
      BY <1>t
    <3> QED
      BY <1>a, <3>1 DEF AskConflict
  <2>3. OnlyRun /\ state' = [state EXCEPT ![t] = "awaiting-decision"]
        /\ (pending' = pending \/ pending' = [pending EXCEPT ![t] = {w}])
    BY <1>a DEF AskConflict
  <2> QED
    BY <1>a, <1>r, <2>1, <2>2, <2>3
<1>1. CASE GrantResolved(t)
  BY <1>1, <1>r DEF GrantResolved, InRun
<1>2. CASE Opened(t)
  BY <1>2, <1>r DEF Opened, InRun
<1>3. CASE WalkAsks(t)
  BY <1>3, <1>a DEF WalkAsks, InRun
<1>4. CASE Prepared(t)
  <2>1. \E q : run' = [run EXCEPT ![t] = q]
    BY <1>4 DEF Prepared
  <2>2. \E x : work' = [work EXCEPT ![t] = x]
    BY <1>4 DEF Prepared
  <2>3. t \in active /\ OnlyRun /\ state' = [state EXCEPT ![t] = "running"] /\ pending' = pending
    BY <1>4 DEF Prepared, InRun
  <2> QED
    BY <1>r, <2>1, <2>2, <2>3
<1>5. CASE WalkFails(t) \/ PoolDone(t)
  BY <1>5, <1>r DEF WalkFails, PoolDone, InRun
<1>6. CASE Closed(t)
  BY <1>6 DEF Closed, InRun
<1>7. ASSUME NEW w \in Pool, WorkerStep(t, w) \/ StreamFails(t, w) PROVE Alone(t)
  <2>1. t \in active
    BY <1>7 DEF WorkerStep, TargetFound, Skipped, TargetFails, FileAsks, Streamed, Committed,
                Unlinked, StreamFails, InPool, InRun
  <2>2. CASE TargetFound(t, w) \/ Streamed(t, w) \/ StreamFails(t, w)
    BY <2>1, <2>2, <1>w DEF TargetFound, Streamed, StreamFails
  <2>3. CASE Skipped(t, w) \/ Committed(t, w)
    BY <2>1, <2>3, <1>w DEF Skipped, Committed, NextFile
  <2>4. CASE TargetFails(t, w) \/ Unlinked(t, w)
    BY <2>1, <2>4, <1>w DEF TargetFails, Unlinked, WorkerFails
  <2>5. CASE FileAsks(t, w)
    BY <2>1, <2>5, <1>a DEF FileAsks
  <2> QED
    BY <1>7, <2>2, <2>3, <2>4, <2>5 DEF WorkerStep
<1>8. CASE Pause(t) \/ Resume(t)
  BY <1>8, <1>t DEF Pause, Resume, Opens, Gate, Alone, ownVars, abortVars
<1>9. ASSUME NEW all \in BOOLEAN, Decide(t, all) PROVE Alone(t)
  BY <1>9, <1>t DEF Decide, Alone, ownVars, abortVars
<1> QED
  BY <1>1, <1>2, <1>3, <1>4, <1>5, <1>6, <1>7, <1>8, <1>9 DEF RunStep

(* What a restart makes of the progress of a run().                        *)
LEMMA ProgressReset ==
    ASSUME NEW p \in Progress, NEW q, q = [p EXCEPT !.at = "idle", !.failed = FALSE, !.handles = 0]
    PROVE  /\ q.at = "idle" /\ q.handles = 0 /\ ~q.failed /\ q.previous = p.previous
           /\ q.jobs = p.jobs /\ q.cursor = p.cursor /\ q.handled = p.handled
           /\ p = Idle => q = Idle
<1>0. q = [at |-> "idle", failed |-> FALSE, handles |-> 0, previous |-> p.previous,
           jobs |-> p.jobs, cursor |-> p.cursor, handled |-> p.handled]
  BY DEF Progress
<1>1. /\ q.at = "idle" /\ q.handles = 0 /\ ~q.failed /\ q.previous = p.previous
      /\ q.jobs = p.jobs /\ q.cursor = p.cursor /\ q.handled = p.handled
  BY <1>0
<1>2. ASSUME p = Idle PROVE q = Idle
  <2>1. p.previous = "none" /\ p.jobs = 0 /\ p.cursor = 0 /\ p.handled = 0
    BY <1>2 DEF Idle
  <2> QED
    BY <1>0, <2>1 DEF Idle
<1> QED
  BY <1>1, <1>2

(* What a restart makes of the lists, also one in the middle of create().  *)
LEMMA ListsReset ==
    ASSUME IInv, Reset, UNCHANGED <<origin, receipt>>,
           \/ made' = made /\ request' = request /\ state' = Recovered
           \/ \E n \in Ids, r \in Requests :
                /\ n = made + 1 /\ made' = n
                /\ request' = [request EXCEPT ![n] = r]
                /\ state' = [Recovered EXCEPT ![n] = "failed"]
    PROVE  (\A u \in Ids : BirthFits(u)') /\ Listed'
<1>t. /\ \A u \in Ids : BirthFits(u) /\ ControlFits(u)
      /\ run \in [Ids -> Progress] /\ request \in [Ids -> Requests \cup {NoRequest}]
      /\ origin \in [Ids -> 0..MaxTransfers] /\ made \in Nat /\ Ids \subseteq Nat
      /\ Listed
  BY DEF IInv, TypeOK, Ids
<1>1. /\ active' = {} /\ requests' = {} /\ origin' = origin /\ receipt' = receipt
      /\ \A u \in Ids : run'[u] = [run[u] EXCEPT !.at = "idle", !.failed = FALSE, !.handles = 0]
      /\ \A u \in Ids : u \notin active => cause'[u] = cause[u]
  BY DEF Reset
<1>2. ASSUME NEW u \in Ids PROVE BirthFits(u)'
  <2>1. BirthFits(u) /\ ControlFits(u) /\ run[u] \in Progress
    BY <1>t
  <2>0. run'[u] = [run[u] EXCEPT !.at = "idle", !.failed = FALSE, !.handles = 0]
    BY <1>1
  <2>2. run'[u].cursor = run[u].cursor /\ (run[u] = Idle => run'[u] = Idle)
    BY <2>0, <2>1, ProgressReset
  <2>3. run[u] = Idle => u \notin active /\ run[u].cursor = 0
    BY <2>1 DEF ControlFits, Idle
  <2>4. made' >= made /\ made' \in Nat /\ (u <= made \/ u > made) /\ (u > made' => u > made)
    BY <1>t
  <2>5. u > made' /\ state[u] = "none" => state'[u] = "none"
    <3>1. state[u] = "none" => Recovered[u] = "none"
      BY DEF Recovered, Interrupted
    <3>2. CASE state' = Recovered
      BY <3>1, <3>2
    <3>3. ASSUME NEW n \in Ids, made' = n, state' = [Recovered EXCEPT ![n] = "failed"]
          PROVE  u > made' /\ state[u] = "none" => state'[u] = "none"
      <4>1. u > made' => u # n
        BY <1>t, <3>3
      <4> QED
        BY <3>1, <3>3, <4>1 DEF Recovered
    <3> QED
      BY <3>2, <3>3
  <2>6. /\ u <= made => request'[u] = request[u]
        /\ u <= made' => u <= made \/ request'[u] \in Requests
    <3>2. CASE made' = made /\ request' = request
      BY <3>2
    <3>3. ASSUME NEW n \in Ids, NEW r \in Requests, n = made + 1, made' = n,
                 request' = [request EXCEPT ![n] = r]
          PROVE  /\ u <= made => request'[u] = request[u]
                 /\ u <= made' => u <= made \/ request'[u] \in Requests
      <4>1. (u <= made => u # n) /\ (u <= made' => u <= made \/ u = n)
        BY <1>t, <3>3
      <4> QED
        BY <1>t, <3>3, <4>1
    <3> QED
      BY <3>2, <3>3
  <2>7. u > made => u \notin active /\ ~(run'[u].cursor > 0)
    BY <2>1, <2>2, <2>3 DEF BirthFits
  <2>8. origin[u] # 0 => origin[u] <= made'
    <3>1. origin[u] \in Nat /\ (origin[u] # 0 => origin[u] <= made)
      BY <1>t, <2>1 DEF BirthFits
    <3> QED
      BY <1>t, <2>4, <3>1
  <2> QED
    BY <1>1, <2>1, <2>2, <2>3, <2>4, <2>5, <2>6, <2>7, <2>8 DEF BirthFits
<1>3. Listed'
  <2>0. requests' \ active' = {} /\ active' \subseteq requests'
    BY <1>1
  <2>1. Cardinality(requests' \ active') = 0
    BY <2>0, FS_EmptySet
  <2>2. RetriedOnce'
    BY <1>1, <1>t DEF Listed, RetriedOnce
  <2>3. RetainedForRetry'
    BY <2>0, <2>1, TransferAssumption DEF RetainedForRetry
  <2> QED
    BY <2>0, <2>2, <2>3 DEF Listed
<1> QED
  BY <1>2, <1>3

(* A step keeps the lists.                                                 *)
LEMMA ListsStep ==
    ASSUME IInv, [Next]_vars
    PROVE  (\A u \in Ids : BirthFits(u)') /\ Listed'
<1>t. /\ TypeOK /\ TypeOK' /\ made \in 0..MaxTransfers /\ Ids = 1..MaxTransfers
      /\ MaxTransfers \in Nat /\ Listed
      /\ \A u \in Ids : BirthFits(u) /\ ControlFits(u) /\ ShownFits(u)
  BY TypeStep, TransferAssumption DEF IInv, TypeOK, Ids
<1>s. ASSUME NEW t \in Ids, Alone(t) \/ \E ok \in BOOLEAN : t \in active /\ Settle(t, ok)
      PROVE  (\A u \in Ids : BirthFits(u)') /\ Listed'
  <2>1. CASE Alone(t)
    BY <1>t, <2>1, ListsKept DEF Alone, bornVars
  <2> QED
    BY <1>s, <1>t, <2>1, ListsSettle
<1>a. ASSUME NEW T \in SUBSET active, NEW what, Abort(T), Blame(T, what),
             UNCHANGED <<bornVars, state, active, requests>>
      PROVE  (\A u \in Ids : BirthFits(u)') /\ Listed'
  <2>1. \A u \in Ids \ active : run'[u] = run[u] /\ cause'[u] = cause[u]
    BY <1>a DEF Abort, Blame
  <2> QED
    BY <1>a, <1>t, <2>1, ListsKept
<1>1. ASSUME NEW r \in Requests, Create(r) PROVE (\A u \in Ids : BirthFits(u)') /\ Listed'
  <2>1. made + 1 \in Ids /\ Begin(r, 0, {}) /\ receipt[r] = 0
        /\ receipt' = [receipt EXCEPT ![r] = made + 1]
    BY <1>1, <1>t DEF Create, Fresh, Begin
  <2> QED
    BY <2>1, ListsBegin
<1>2. ASSUME NEW r \in Requests, RestartInCreate(r)
      PROVE  (\A u \in Ids : BirthFits(u)') /\ Listed'
  <2>1. made + 1 \in Ids
    BY <1>2, <1>t DEF RestartInCreate
  <2> QED
    BY <1>2, <2>1, ListsReset DEF RestartInCreate
<1>3. CASE ClearCompleted
  <2>1. /\ UNCHANGED bornVars /\ active' = active /\ requests' = requests \cap active
        /\ run' = run /\ cause' = cause
        /\ \A u \in Ids : state[u] = "none" => state'[u] = "none"
    BY <1>3 DEF ClearCompleted, Terminal, abortVars
  <2>2. \A u \in Ids : BirthFits(u)'
    BY <1>t, <2>1 DEF BirthFits, bornVars
  <2>3. requests' \ active' = {} /\ active' \subseteq requests'
    BY <1>t, <2>1 DEF Listed
  <2>4. Cardinality(requests' \ active') = 0
    BY <2>3, FS_EmptySet
  <2> QED
    BY <1>t, <2>1, <2>2, <2>3, <2>4, TransferAssumption
       DEF Listed, RetriedOnce, RetainedForRetry, bornVars
<1>4. ASSUME NEW t \in Ids, Retry(t) PROVE (\A u \in Ids : BirthFits(u)') /\ Listed'
  <2>1. made + 1 \in Ids /\ Begin(request[t], t, {t}) /\ receipt' = receipt
    BY <1>4, <1>t DEF Retry, Spent, Begin
  <2>2. t \in requests \ active
    BY <1>4, <1>t DEF Retry, ShownFits, Under, UnderWay
  <2>3. request[t] \in Requests
    BY <1>4, <1>t DEF Retry, BirthFits
  <2> QED
    BY <2>1, <2>2, <2>3, ListsBegin
<1>5. ASSUME NEW t \in Ids, Cancel(t) PROVE (\A u \in Ids : BirthFits(u)') /\ Listed'
  BY <1>5, <1>a DEF Cancel, ownVars
<1>6. ASSUME NEW c \in Conns, ConnectionLost(c)
      PROVE  (\A u \in Ids : BirthFits(u)') /\ Listed'
  <2>1. {t \in Ids : Hears(t, c)} \in SUBSET active
    BY <1>t DEF Hears, TypeOK
  <2> QED
    BY <1>6, <1>a, <2>1 DEF ConnectionLost, ownVars
<1>7. CASE Shutdown
  BY <1>7, <1>a DEF Shutdown, ownVars
<1>8. CASE (\E c \in Conns : ConnectionBack(c)) \/ UNCHANGED vars
  BY <1>8, <1>t, ListsKept DEF ConnectionBack, vars, ownVars, abortVars
<1>9. CASE Stopped
  <2>1. /\ UNCHANGED bornVars /\ active' = active /\ active = {} /\ requests' = {}
        /\ run' = run /\ cause' = cause /\ state' = state
    BY <1>9 DEF Stopped, abortVars
  <2>2. \A u \in Ids : BirthFits(u)'
    BY <1>t, <2>1 DEF BirthFits, bornVars
  <2>3. Cardinality(requests' \ active') = 0
    BY <2>1, FS_EmptySet
  <2> QED
    BY <1>t, <2>1, <2>2, <2>3, TransferAssumption
       DEF Listed, RetriedOnce, RetainedForRetry, bornVars
<1>10. CASE Restart
  <2>1. made' = made /\ request' = request /\ UNCHANGED <<origin, receipt>>
    BY <1>10 DEF Restart, bornVars
  <2> QED
    BY <1>10, <2>1, ListsReset DEF Restart
<1>11. ASSUME NEW t \in Ids, RunStep(t) \/ (UserStep(t) /\ ~Retry(t) /\ ~Cancel(t))
                             \/ \E w \in Pool : StreamFails(t, w)
       PROVE  (\A u \in Ids : BirthFits(u)') /\ Listed'
  BY <1>11, <1>t, <1>s, StepsAlone DEF UserStep
<1> QED
  BY <1>1, <1>2, <1>3, <1>4, <1>5, <1>6, <1>7, <1>8, <1>9, <1>10, <1>11 DEF Next, UserStep

-----------------------------------------------------------------------------
(* What each transfer does, shows, counts and blames                       *)

Fits(t) == ControlFits(t) /\ ShownFits(t) /\ CountFits(t) /\ CauseFits(t)

(* A transfer that a step does not touch fits as before.                   *)
Same(u) ==
    /\ u \in active' <=> u \in active
    /\ u \in aborted' <=> u \in aborted
    /\ u \in lost' <=> u \in lost
    /\ u \in paused' <=> u \in paused
    /\ u \in killed => u \in killed'
    /\ request'[u] = request[u] /\ state'[u] = state[u] /\ pending'[u] = pending[u]
    /\ run'[u] = run[u] /\ work'[u] = work[u] /\ cause'[u] = cause[u]

(* What a transfer fits it goes on to fit when a step leaves it alone.     *)
LEMMA SameFits ==
    ASSUME NEW u \in Ids, Fits(u), Same(u)
    PROVE  Fits(u)'
<1>1. Busy(u)' = Busy(u) /\ Askers(u)' = Askers(u)
  BY DEF Same, Busy, Askers, Asking
<1>2. ControlFits(u)'
  BY <1>1 DEF Fits, Same, ControlFits
<1>3. ShownFits(u)'
  BY <1>1 DEF Fits, Same, ShownFits, Under
<1>4. CountFits(u)'
  BY <1>1 DEF Fits, Same, CountFits
<1>5. CauseFits(u)'
  BY DEF Fits, Same, CauseFits
<1> QED
  BY <1>2, <1>3, <1>4, <1>5 DEF Fits

(* A step of one transfer leaves the others as they are.                   *)
LEMMA OthersFit ==
    ASSUME IInv, NEW t \in Ids, NEW u \in Ids \ {t},
           Alone(t) \/ \E ok \in BOOLEAN : t \in active /\ Settle(t, ok)
    PROVE  Fits(u)'
<1>1. Fits(u) /\ run \in [Ids -> Progress] /\ state \in [Ids -> RowStates]
  BY DEF IInv, Fits, TypeOK
<1>2. Same(u)
  BY <1>1 DEF Alone, Settle, Same, Unsubscribed, bornVars
<1> QED
  BY <1>1, <1>2, SameFits

(* No worker is awake before the pool or after it.                         *)
LEMMA Asleep ==
    ASSUME IInv, NEW t \in Ids, run[t].at # "pool", work[t][0] = "off"
    PROVE  /\ \A w \in 0..PoolSize : work[t][w] = "off"
           /\ Busy(t) = {} /\ Askers(t) = {} /\ pending[t] = {}
<1>1. ControlFits(t) /\ ShownFits(t)
  BY DEF IInv
<1>2. Busy(t) = {}
  BY <1>1 DEF ControlFits
<1>3. \A w \in 0..PoolSize : w = 0 \/ w \in Pool
  BY TransferAssumption DEF Pool
<1>4. \A w \in 0..PoolSize : work[t][w] = "off"
  BY <1>2, <1>3 DEF Busy
<1>5. Askers(t) = {}
  BY <1>4 DEF Askers, Asking
<1> QED
  BY <1>1, <1>2, <1>4, <1>5 DEF ShownFits

(* The end of run(): the outcome tells what became of the files, and who   *)
(* is to blame.                                                            *)
LEMMA SettleFits ==
    ASSUME IInv, NEW t \in active, NEW ok \in BOOLEAN, Settle(t, ok),
           run[t].at \in {"grant", "open", "close"},
           ok => run[t].at = "close" /\ ~run[t].failed
    PROVE  Fits(t)'
<1>t. /\ t \in Ids /\ run \in [Ids -> Progress] /\ state \in [Ids -> RowStates]
      /\ ControlFits(t) /\ ShownFits(t) /\ CountFits(t) /\ CauseFits(t)
  BY DEF IInv, TypeOK
<1>0. work[t][0] = "off"
  BY <1>t DEF ControlFits
<1>1. /\ \A w \in 0..PoolSize : work[t][w] = "off"
      /\ Busy(t) = {} /\ Askers(t) = {} /\ pending[t] = {}
  BY <1>t, <1>0, Asleep
<1>2. /\ t \notin active' /\ t \notin aborted' /\ state'[t] = Outcome(t, ok)
      /\ work' = work /\ pending' = pending /\ request' = request /\ cause' = cause
      /\ run'[t] = [run[t] EXCEPT !.at = "idle", !.failed = FALSE, !.handles = 0]
  BY <1>t DEF Settle, bornVars
<1>3. /\ run'[t].at = "idle" /\ run'[t].handles = 0 /\ run'[t].jobs = run[t].jobs
      /\ run'[t].cursor = run[t].cursor /\ run'[t].handled = run[t].handled
  <2>1. run[t] \in Progress
    BY <1>t
  <2> QED
    BY <1>2, <2>1, ProgressReset, ZenonT(60)
<1>4. Busy(t)' = {} /\ Askers(t)' = {}
  BY <1>1, <1>2 DEF Busy, Askers, Asking
<1>5. /\ Outcome(t, ok) \in Terminal /\ (Outcome(t, ok) = "succeeded" <=> ok)
      /\ Outcome(t, ok) = "canceled" => t \in aborted /\ t \notin lost
      /\ Outcome(t, ok) = "failed" => t \notin aborted \/ t \in lost
  BY DEF Outcome, Terminal
<1>6. ControlFits(t)'
  BY <1>0, <1>2, <1>3, <1>4 DEF ControlFits
<1>7. ShownFits(t)'
  BY <1>1, <1>2, <1>4, <1>5 DEF ShownFits, Under, UnderWay, Terminal
<1>8. CountFits(t)'
  <2>1. ok => run[t].handled = run[t].jobs
    BY <1>t DEF CountFits
  <2> QED
    BY <1>t, <1>1, <1>2, <1>3, <1>4, <1>5, <2>1 DEF CountFits
<1>9. CauseFits(t)'
  BY <1>t, <1>2, <1>5 DEF CauseFits
<1> QED
  BY <1>6, <1>7, <1>8, <1>9 DEF Fits

(* A step of run() from one of its awaits to the next, while no worker is  *)
(* awake.                                                                  *)
LEMMA MoveFits ==
    ASSUME IInv, NEW t \in active, Alone(t), NEW q \in Progress, run'[t] = q,
           state'[t] = state[t], pending'[t] = pending[t], work'[t] = work[t],
           t \in paused' <=> t \in paused,
           q.previous = run[t].previous, q.jobs = run[t].jobs, q.cursor = run[t].cursor,
           q.handled = run[t].handled,
           work[t][0] = "off", Busy(t) = {},
           \/ /\ q.at \in {"open", "prepare"} /\ run[t].at \in {"grant", "open"}
              /\ q.at = "open" => q.handles < Len(Ends[request[t]])
              /\ q.at = "prepare" => q.handles = Len(Ends[request[t]])
           \/ q.at = "close" /\ (q.failed \/ (run[t].at = "pool" /\ ~run[t].failed))
    PROVE  Fits(t)'
<1>t. /\ t \in Ids /\ run \in [Ids -> Progress] /\ state \in [Ids -> RowStates]
      /\ ControlFits(t) /\ ShownFits(t) /\ CountFits(t) /\ CauseFits(t)
  BY DEF IInv, TypeOK
<1>1. /\ active' = active /\ aborted' = aborted /\ lost' = lost /\ request' = request
      /\ cause' = cause /\ killed' = killed
  BY DEF Alone, bornVars
<1>2. Busy(t)' = {} /\ Askers(t)' = Askers(t)
  BY DEF Busy, Askers, Asking
<1>3. ControlFits(t)'
  BY <1>t, <1>1, <1>2 DEF ControlFits
<1>4. ShownFits(t)'
  BY <1>t, <1>1, <1>2 DEF ShownFits, Under
<1>5. CountFits(t)'
  <2>1. Cardinality(Busy(t)') = 0 /\ Cardinality(Busy(t)) = 0
    BY <1>2, FS_EmptySet
  <2>2. run[t].handled \in Nat /\ run[t].cursor \in Nat /\ run[t].jobs \in Nat
    BY <1>t, ProgressFields
  <2>3. run[t].at = "pool" /\ ~run[t].failed => run[t].handled = run[t].jobs
    BY <1>t, <2>1, <2>2 DEF CountFits
  <2> QED
    BY <1>t, <1>2, <2>1, <2>2, <2>3 DEF CountFits
<1>6. CauseFits(t)'
  BY <1>t, <1>1 DEF CauseFits
<1> QED
  BY <1>3, <1>4, <1>5, <1>6 DEF Fits

(* An active transfer was created.                                         *)
LEMMA ActiveRequest ==
    ASSUME IInv, NEW t \in active
    PROVE  t <= made /\ request[t] \in Requests
<1>1. t \in Ids /\ BirthFits(t) /\ ControlFits(t) /\ (t <= made \/ t > made)
  BY DEF IInv, TypeOK, Ids
<1> QED
  BY <1>1 DEF BirthFits, ControlFits, Idle

(* The steps of run() up to its pool, but for a conflict, and after it.    *)
LEMMA RunStepFits ==
    ASSUME IInv, NEW t \in Ids,
           GrantResolved(t) \/ Opened(t) \/ WalkFails(t) \/ PoolDone(t) \/ Closed(t)
    PROVE  Fits(t)'
<1>t. /\ run \in [Ids -> Progress] /\ ControlFits(t) /\ ShownFits(t) /\ CountFits(t)
      /\ run[t] \in Progress /\ t \in active
  BY DEF IInv, TypeOK, GrantResolved, Opened, WalkFails, PoolDone, Closed, InRun
<1>a. ~(\E ok \in BOOLEAN : t \in active /\ Settle(t, ok)) => Alone(t)
  BY StepsAlone DEF RunStep, IInv
<1>s. ASSUME Settle(t, FALSE), run[t].at \in {"grant", "open"} PROVE Fits(t)'
  BY <1>s, <1>t, SettleFits
<1>m. ASSUME NEW q \in Progress, run' = [run EXCEPT ![t] = q], q.at # "idle",
             UNCHANGED <<state, pending, work>>, OnlyRun
      PROVE  /\ Alone(t) /\ run'[t] = q
             /\ state'[t] = state[t] /\ pending'[t] = pending[t] /\ work'[t] = work[t]
             /\ t \in paused' <=> t \in paused
  <2>1. active' = active
    BY <1>m DEF OnlyRun, ownVars
  <2>2. ~(\E ok \in BOOLEAN : Settle(t, ok))
    BY <1>t, <2>1 DEF Settle
  <2> QED
    BY <1>a, <1>m, <1>t, <2>2 DEF OnlyRun, gateVars
<1>c. ASSUME run' = [run EXCEPT ![t] = [run[t] EXCEPT !.at = "close", !.failed = TRUE]],
             UNCHANGED <<state, pending, work>>, OnlyRun, work[t][0] = "off", Busy(t) = {}
      PROVE  Fits(t)'
  <2> DEFINE q == [run[t] EXCEPT !.at = "close", !.failed = TRUE]
  <2>1. q \in Progress
    BY <1>t, ProgressMade DEF Places
  <2>2. /\ q.at = "close" /\ q.failed /\ q.previous = run[t].previous
        /\ q.jobs = run[t].jobs /\ q.cursor = run[t].cursor /\ q.handled = run[t].handled
    BY <1>t DEF Progress
  <2>3. run' = [run EXCEPT ![t] = q]
    BY <1>c
  <2> HIDE DEF q
  <2> QED
    BY <1>t, <1>c, <1>m, <2>1, <2>2, <2>3, MoveFits
<1>1. CASE GrantResolved(t)
  <2>0. run[t].at = "grant" /\ work[t][0] = "off" /\ Busy(t) = {}
        /\ run[t].handles < Len(Ends[request[t]])
    BY <1>1, <1>t DEF GrantResolved, InRun, ControlFits
  <2> DEFINE q == [run[t] EXCEPT !.at = "open"]
  <2>1. /\ q \in Progress /\ q.at = "open" /\ q.handles = run[t].handles
        /\ q.previous = run[t].previous /\ q.jobs = run[t].jobs /\ q.cursor = run[t].cursor
        /\ q.handled = run[t].handled
    BY <1>t DEF Progress
  <2>2. CASE run' = [run EXCEPT ![t] = q] /\ UNCHANGED <<state, pending, work>> /\ OnlyRun
    <3> HIDE DEF q
    <3> QED
      BY <1>t, <1>m, <2>0, <2>1, <2>2, MoveFits
  <2> QED
    BY <1>1, <1>s, <2>0, <2>2 DEF GrantResolved
<1>2. CASE Opened(t)
  <2>0. run[t].at = "open" /\ work[t][0] = "off" /\ Busy(t) = {}
        /\ run[t].handles < Len(Ends[request[t]])
    BY <1>2, <1>t DEF Opened, InRun, ControlFits
  <2>1. ASSUME NEW n, n = run[t].handles + 1, NEW a \in {"prepare", "open"},
               a = "prepare" <=> n = Len(Ends[request[t]]),
               run' = [run EXCEPT ![t] = [run[t] EXCEPT !.handles = n, !.at = a]],
               UNCHANGED <<state, pending, work>>, OnlyRun
        PROVE  Fits(t)'
    <3> DEFINE q == [run[t] EXCEPT !.handles = n, !.at = a]
    <3>1. request[t] \in Requests
      BY <1>t, ActiveRequest
    <3>2. ASSUME NEW h \in 0..2, NEW l \in {1, 2}, h < l
          PROVE  h + 1 \in 0..2 /\ (h + 1 # l => h + 1 < l)
      BY <3>2
    <3>3. n \in 0..2 /\ (n # Len(Ends[request[t]]) => n < Len(Ends[request[t]]))
      <4>1. run[t].handles \in 0..2 /\ Len(Ends[request[t]]) \in {1, 2}
        BY <1>t, <3>1, EndsLength, ProgressFields
      <4> QED
        BY <2>0, <2>1, <3>2, <4>1
    <3>4. q \in Progress
      BY <1>t, <3>3, ProgressMade DEF Places
    <3>5. /\ q.at = a /\ q.handles = n
          /\ q.previous = run[t].previous /\ q.jobs = run[t].jobs /\ q.cursor = run[t].cursor
          /\ q.handled = run[t].handled
      BY <1>t DEF Progress
    <3>6. run' = [run EXCEPT ![t] = q]
      BY <2>1
    <3> HIDE DEF q
    <3>7. /\ Alone(t) /\ run'[t] = q
          /\ state'[t] = state[t] /\ pending'[t] = pending[t] /\ work'[t] = work[t]
          /\ t \in paused' <=> t \in paused
      <4>1. q.at # "idle"
        BY <2>1, <3>5
      <4> QED
        BY <1>m, <2>1, <3>4, <3>6, <4>1
    <3>8. /\ q.at \in {"open", "prepare"}
          /\ q.at = "open" => q.handles < Len(Ends[request[t]])
          /\ q.at = "prepare" => q.handles = Len(Ends[request[t]])
      BY <2>1, <3>3, <3>5
    <3> QED
      BY <1>t, <2>0, <3>4, <3>5, <3>7, <3>8, MoveFits
  <2>2. CASE /\ run' = [run EXCEPT ![t] = [run[t] EXCEPT !.at = "close", !.failed = TRUE]]
             /\ UNCHANGED <<state, pending, work>> /\ OnlyRun
    BY <2>0, <2>2, <1>c
  <2> QED
    BY <1>2, <1>s, <2>0, <2>1, <2>2 DEF Opened
<1>3. CASE WalkFails(t)
  <2>1. run[t].at = "prepare" /\ work[t][0] = "off" /\ Busy(t) = {}
    BY <1>3, <1>t DEF WalkFails, InRun, Asking, ControlFits
  <2> QED
    BY <1>3, <1>c, <2>1 DEF WalkFails
<1>4. CASE PoolDone(t)
  <2>1. run[t].at = "pool" /\ work[t][0] = "off" /\ Busy(t) = {}
    BY <1>4, <1>t DEF PoolDone, PoolSettled, InRun, Busy, ControlFits
  <2> DEFINE q == [run[t] EXCEPT !.at = "close"]
  <2>2. q \in Progress
    BY <1>t, ProgressMade DEF Places
  <2>3. /\ q.at = "close" /\ q.previous = run[t].previous /\ q.jobs = run[t].jobs
        /\ q.cursor = run[t].cursor /\ q.handled = run[t].handled
        /\ q.failed = run[t].failed
    BY <1>t DEF Progress
  <2>4. run' = [run EXCEPT ![t] = q] /\ UNCHANGED <<state, pending, work>> /\ OnlyRun
    BY <1>4 DEF PoolDone
  <2>5. q.failed \/ (run[t].at = "pool" /\ ~run[t].failed)
    BY <2>1, <2>3
  <2> HIDE DEF q
  <2> QED
    BY <1>t, <1>m, <2>1, <2>2, <2>3, <2>4, <2>5, MoveFits
<1>5. CASE Closed(t)
  <2>1. run[t].at = "close" /\ Settle(t, ~run[t].failed) /\ (~run[t].failed) \in BOOLEAN
    BY <1>5 DEF Closed, InRun
  <2> QED
    BY <1>t, <2>1, SettleFits
<1> QED
  BY <1>1, <1>2, <1>3, <1>4, <1>5

(* The worker that comes upon a conflict is the only one that asks, and    *)
(* the state it interrupts is one that its decision can restore.           *)
LEMMA AskFits ==
    ASSUME IInv, NEW t \in active, NEW w \in 0..PoolSize, AskConflict(t, w), Alone(t),
           \/ w = 0 /\ run[t].at = "prepare" /\ work[t][0] = "off"
           \/ w \in Pool /\ run[t].at = "pool" /\ work[t][w] = "target"
    PROVE  Fits(t)'
<1>t. /\ t \in Ids /\ run \in [Ids -> Progress] /\ state \in [Ids -> RowStates]
      /\ work \in [Ids -> [0..PoolSize -> Stages]] /\ pending \in [Ids -> Decisions]
      /\ ControlFits(t) /\ ShownFits(t) /\ CountFits(t) /\ CauseFits(t) /\ run[t] \in Progress
  BY DEF IInv, TypeOK
<1>0. /\ active' = active /\ aborted' = aborted /\ lost' = lost /\ request' = request
      /\ cause' = cause /\ paused' = paused /\ request[t] \in Asks
      /\ state'[t] = "awaiting-decision" /\ 0 \in 0..PoolSize /\ Pool \subseteq 0..PoolSize
      /\ 0 \notin Pool
  BY <1>t, TransferAssumption DEF Alone, bornVars, AskConflict, OnlyRun, gateVars, Pool
<1>1. Askers(t) = {} /\ pending[t] = {} /\ (w \in Pool => Busy(t) = {w}) /\ (w = 0 => Busy(t) = {})
  <2>1. CASE w = 0
    BY <1>0, <1>t, <2>1, Asleep
  <2>2. CASE w \in Pool
    <3>1. w \in Busy(t) /\ \A v \in Busy(t) : v = w
      BY <1>0, <1>t, <2>2 DEF Busy, ControlFits
    <3>2. work[t][0] = "off"
      BY <1>0, <1>t, <2>2 DEF ControlFits
    <3>3. \A v \in 0..PoolSize : v = 0 \/ v \in Pool
      BY TransferAssumption DEF Pool
    <3>4. Askers(t) = {}
      BY <1>0, <2>2, <3>1, <3>2, <3>3 DEF Askers, Asking, Busy
    <3> QED
      BY <1>0, <1>t, <2>2, <3>1, <3>4 DEF ShownFits
  <2> QED
    BY <2>1, <2>2
<1>2. CASE t \in aborted
  <2>1. /\ work'[t] = [work[t] EXCEPT ![w] = "off"] /\ pending'[t] = pending[t]
        /\ run'[t] = [run[t] EXCEPT !.failed = TRUE, !.at = IF w = 0 THEN "close" ELSE "pool"]
    BY <1>t, <1>2 DEF AskConflict
  <2>2. /\ run'[t].at = (IF w = 0 THEN "close" ELSE "pool") /\ run'[t].failed
        /\ run'[t].handles = run[t].handles /\ run'[t].previous = run[t].previous
        /\ run'[t].jobs = run[t].jobs /\ run'[t].cursor = run[t].cursor
        /\ run'[t].handled = run[t].handled
    BY <1>t, <2>1 DEF Progress
  <2>3. Busy(t)' = {} /\ Askers(t)' = {}
    <3>1. \A v \in 0..PoolSize : \/ v = w /\ work'[t][v] = "off"
                                 \/ v # w /\ work'[t][v] = work[t][v]
      <4>1. work[t] \in [0..PoolSize -> Stages]
        BY <1>t
      <4> QED
        BY <2>1, <4>1
    <3> QED
      BY <1>0, <1>1, <3>1 DEF Busy, Askers, Asking
  <2>4. ControlFits(t)'
    <3>1. work'[t][0] = "off"
      BY <1>0, <1>t, <2>1 DEF ControlFits
    <3> QED
      BY <1>0, <1>t, <2>2, <2>3, <3>1 DEF ControlFits
  <2>5. ShownFits(t)'
    BY <1>0, <1>1, <1>2, <2>1, <2>3 DEF ShownFits, Under, UnderWay
  <2>6. CountFits(t)'
    <3>1. Cardinality(Busy(t)') = 0 /\ Cardinality(Busy(t)) \in Nat
      BY <1>t, <2>3, FS_EmptySet, BusyCount
    <3>2. run[t].handled \in Nat /\ run[t].cursor \in Nat /\ run[t].jobs \in Nat
      BY <1>t, ProgressFields
    <3> QED
      BY <1>0, <1>t, <2>2, <3>1, <3>2 DEF CountFits
  <2>7. CauseFits(t)'
    BY <1>0, <1>t DEF CauseFits
  <2> QED
    BY <2>4, <2>5, <2>6, <2>7 DEF Fits
<1>3. CASE t \notin aborted
  <2>1. /\ work'[t] = [work[t] EXCEPT ![w] = "ask"] /\ pending'[t] = {w}
        /\ run'[t] = [run[t] EXCEPT !.previous = state[t]]
    BY <1>t, <1>3 DEF AskConflict
  <2>2. /\ run'[t].at = run[t].at /\ run'[t].failed = run[t].failed
        /\ run'[t].handles = run[t].handles /\ run'[t].previous = state[t]
        /\ run'[t].jobs = run[t].jobs /\ run'[t].cursor = run[t].cursor
        /\ run'[t].handled = run[t].handled
    BY <1>t, <2>1 DEF Progress
  <2>3. Busy(t)' = Busy(t) /\ Askers(t)' = {w}
    <3>1. \A v \in 0..PoolSize : \/ v = w /\ work'[t][v] = "ask"
                                 \/ v # w /\ work'[t][v] = work[t][v]
      BY <1>t, <2>1, ZenonT(60)
    <3>2. Askers(t)' = {w}
      BY <1>1, <3>1 DEF Askers, Asking
    <3>3. Busy(t)' = Busy(t)
      BY <1>0, <1>1, <3>1 DEF Busy
    <3> QED
      BY <3>2, <3>3
  <2>4. ControlFits(t)'
    <3>1. work'[t][0] = "off" \/ (work'[t][0] = "ask" /\ run[t].at = "prepare")
      BY <1>0, <1>t, <2>1 DEF ControlFits
    <3> QED
      BY <1>0, <1>t, <2>2, <2>3, <3>1 DEF ControlFits
  <2>5. state[t] \in {"preparing", "running", "paused"}
    BY <1>t, <1>1, <1>3 DEF ShownFits, Under, UnderWay
  <2>6. ShownFits(t)'
    BY <1>0, <1>t, <1>1, <1>3, <2>1, <2>2, <2>3, <2>5 DEF ShownFits, Under, UnderWay
  <2>7. CountFits(t)'
    BY <1>0, <1>t, <2>2, <2>3 DEF CountFits
  <2>8. CauseFits(t)'
    BY <1>0, <1>t DEF CauseFits
  <2> QED
    BY <2>4, <2>6, <2>7, <2>8 DEF Fits
<1> QED
  BY <1>2, <1>3

(* The pool starts with as many workers as there are files for them.       *)
LEMMA PreparedFits ==
    ASSUME IInv, NEW t \in Ids, Prepared(t), Alone(t)
    PROVE  Fits(t)'
<1>t. /\ run \in [Ids -> Progress] /\ state \in [Ids -> RowStates]
      /\ work \in [Ids -> [0..PoolSize -> Stages]]
      /\ ControlFits(t) /\ ShownFits(t) /\ CountFits(t) /\ CauseFits(t) /\ run[t] \in Progress
      /\ t \in active /\ run[t].at = "prepare" /\ work[t][0] = "off"
  BY DEF IInv, TypeOK, Prepared, InRun, ControlFits, Asking
<1>0. /\ active' = active /\ aborted' = aborted /\ lost' = lost /\ request' = request
      /\ cause' = cause /\ paused' = paused /\ pending' = pending /\ state'[t] = "running"
  BY <1>t DEF Alone, bornVars, Prepared, OnlyRun, gateVars
<1>1. Askers(t) = {} /\ pending[t] = {} /\ run[t].handled = 0
  BY <1>t, Asleep DEF CountFits
<1>2. PICK n \in 0..MaxFiles :
        LET k == IF t \in aborted THEN 0 ELSE IF n < Workers(t) THEN n ELSE Workers(t)
        IN  /\ run' = [run EXCEPT ![t] = [@ EXCEPT !.at = "pool", !.jobs = n, !.cursor = k,
                                                !.failed = t \in aborted /\ n > 0]]
            /\ work' = [work EXCEPT ![t] = [w \in 0..PoolSize |->
                           IF w \in 1..k THEN "target" ELSE "off"]]
  BY DEF Prepared
<1> DEFINE k == IF t \in aborted THEN 0 ELSE IF n < Workers(t) THEN n ELSE Workers(t)
<1>3. /\ run'[t] = [run[t] EXCEPT !.at = "pool", !.jobs = n, !.cursor = k,
                                  !.failed = t \in aborted /\ n > 0]
      /\ work'[t] = [w \in 0..PoolSize |-> IF w \in 1..k THEN "target" ELSE "off"]
  BY <1>t, <1>2
<1>4. /\ Workers(t) \in 1..PoolSize /\ (request[t] \in Asks => Workers(t) = 1)
      /\ PoolSize \in Nat /\ n \in Nat
  BY TransferAssumption DEF Workers
<1>5. /\ k \in 0..PoolSize /\ k <= n /\ (request[t] \in Asks => k \in 0..1)
      /\ k = 0 => n = 0 \/ t \in aborted
      /\ t \in aborted => k = 0
  BY <1>4
<1> HIDE DEF k
<1>6. /\ run'[t].at = "pool" /\ run'[t].jobs = n /\ run'[t].cursor = k
      /\ ~run'[t].failed => t \notin aborted \/ ~(n > 0)
      /\ run'[t].handles = run[t].handles /\ run'[t].previous = run[t].previous
      /\ run'[t].handled = 0
  BY <1>t, <1>1, <1>3 DEF Progress
<1>7. Busy(t)' = 1..k /\ Askers(t)' = {} /\ work'[t][0] = "off"
  <2>1. \A w \in 0..PoolSize : work'[t][w] = IF w \in 1..k THEN "target" ELSE "off"
    BY <1>3
  <2>2. Busy(t)' = {w \in Pool : w \in 1..k}
    BY <1>4, <2>1 DEF Busy, Pool
  <2>3. {w \in Pool : w \in 1..k} = 1..k
    BY <1>4, <1>5 DEF Pool
  <2>4. Askers(t)' = {}
    BY <2>1 DEF Askers, Asking
  <2>5. 0 \in 0..PoolSize /\ 0 \notin 1..k
    BY <1>4
  <2> QED
    BY <2>1, <2>2, <2>3, <2>4, <2>5
<1>8. ControlFits(t)'
  <2>1. \A w \in 1..k : request[t] \in Asks => w = 1
    BY <1>5
  <2> QED
    BY <1>0, <1>t, <1>6, <1>7, <2>1 DEF ControlFits
<1>9. ShownFits(t)'
  BY <1>0, <1>t, <1>1, <1>6, <1>7 DEF ShownFits, Under, UnderWay
<1>10. CountFits(t)'
  <2>1. Cardinality(1..k) = k
    BY <1>5, FS_Interval
  <2>2. 1..k = {} => k = 0
    BY <1>5, <2>1, FS_EmptySet
  <2>3. Cardinality(Busy(t)') = k /\ (Busy(t)' = {} => k = 0)
    BY <1>7, <2>1, <2>2
  <2>4. ~run'[t].failed => (k = 0 => n = 0)
    BY <1>5, <1>4, <1>6
  <2>5. k <= n /\ 0 + k = k /\ k <= k
    BY <1>4, <1>5
  <2> QED
    BY <1>0, <1>6, <2>3, <2>4, <2>5 DEF CountFits
<1>11. CauseFits(t)'
  BY <1>0, <1>t DEF CauseFits
<1> QED
  BY <1>8, <1>9, <1>10, <1>11 DEF Fits

(* A worker goes on with its file, gives up, or is done with it and takes  *)
(* the next one if there is one.                                           *)
LEMMA WorkFits ==
    ASSUME IInv, NEW t \in active, NEW w \in Pool, Alone(t), run[t].at = "pool",
           work[t][w] \notin {"off", "ask"},
           NEW s \in Stages \ {"ask"}, work'[t] = [work[t] EXCEPT ![w] = s],
           state'[t] = state[t], pending'[t] = pending[t], t \in paused' <=> t \in paused,
           run'[t].at = "pool", run'[t].handles = run[t].handles,
           run'[t].previous = run[t].previous, run'[t].jobs = run[t].jobs,
           \/ /\ s # "off" \/ run'[t].failed
              /\ run[t].failed => run'[t].failed
              /\ run'[t].handled = run[t].handled /\ run'[t].cursor = run[t].cursor
           \/ /\ s # "off" /\ run[t].cursor < run[t].jobs
              /\ run[t].failed => run'[t].failed
              /\ run'[t].handled = run[t].handled + 1 /\ run'[t].cursor = run[t].cursor + 1
           \/ /\ s = "off"
              /\ run'[t].failed \/ (~run[t].failed /\ ~(run[t].cursor < run[t].jobs))
              /\ run'[t].handled = run[t].handled + 1 /\ run'[t].cursor = run[t].cursor
    PROVE  Fits(t)'
<1>t. /\ t \in Ids /\ work[t] \in [0..PoolSize -> Stages]
      /\ ControlFits(t) /\ ShownFits(t) /\ CountFits(t) /\ CauseFits(t) /\ run[t] \in Progress
  BY DEF IInv, TypeOK
<1>0. /\ active' = active /\ aborted' = aborted /\ lost' = lost /\ request' = request
      /\ cause' = cause /\ killed' = killed
      /\ 0 \in 0..PoolSize /\ Pool \subseteq 0..PoolSize /\ 0 \notin Pool
  BY TransferAssumption DEF Alone, bornVars, Pool
<1>1. \A v \in 0..PoolSize : \/ v = w /\ work'[t][v] = s
                             \/ v # w /\ work'[t][v] = work[t][v]
  BY <1>t, <1>0
<1>2. /\ Askers(t)' = Askers(t) /\ w \in Busy(t) /\ work'[t][0] = work[t][0]
      /\ Busy(t)' = IF s = "off" THEN Busy(t) \ {w} ELSE Busy(t)
  <2>1. Askers(t)' = Askers(t)
    BY <1>0, <1>1 DEF Askers, Asking
  <2>2. w \in Busy(t) /\ work'[t][0] = work[t][0]
    BY <1>0, <1>1 DEF Busy
  <2>3. Busy(t)' = IF s = "off" THEN Busy(t) \ {w} ELSE Busy(t)
    BY <1>0, <1>1, <2>2 DEF Busy
  <2> QED
    BY <2>1, <2>2, <2>3
<1>3. ControlFits(t)'
  <2>1. Busy(t)' \subseteq Busy(t)
    BY <1>2
  <2> QED
    BY <1>t, <1>0, <1>2, <2>1 DEF ControlFits
<1>4. ShownFits(t)'
  BY <1>t, <1>0, <1>2 DEF ShownFits, Under
<1>5. CountFits(t)'
  <2> DEFINE b == Cardinality(Busy(t))
             c == Cardinality(Busy(t)')
  <2>1. /\ b \in Nat /\ b >= 1 /\ c = (IF s = "off" THEN b - 1 ELSE b)
        /\ Busy(t)' = {} => s = "off" /\ c = 0
    <3>1. b \in Nat /\ b >= 1 /\ Cardinality(Busy(t) \ {w}) = b - 1
      BY <1>t, <1>2, BusyCount
    <3>2. Busy(t)' = {} => c = 0
      BY FS_EmptySet
    <3> QED
      BY <1>2, <3>1, <3>2
  <2>2. run[t].handled \in Nat /\ run[t].cursor \in Nat /\ run[t].jobs \in Nat
    BY <1>t, ProgressFields
  <2>3. /\ run[t].cursor <= run[t].jobs /\ run[t].handled + b <= run[t].cursor
        /\ ~run[t].failed => run[t].handled + b = run[t].cursor
    BY <1>t DEF CountFits
  <2>4. state[t] # "succeeded"
    BY <1>t DEF ShownFits, Under, UnderWay
  <2> HIDE DEF b, c
  <2>5. /\ run'[t].cursor <= run'[t].jobs /\ run'[t].handled + c <= run'[t].cursor
        /\ ~run'[t].failed =>
             /\ run'[t].handled + c = run'[t].cursor
             /\ Busy(t)' = {} => run'[t].cursor = run'[t].jobs
    <3>1. CASE /\ s # "off" \/ run'[t].failed
               /\ run[t].failed => run'[t].failed
               /\ run'[t].handled = run[t].handled /\ run'[t].cursor = run[t].cursor
      BY <2>1, <2>2, <2>3, <3>1
    <3>2. CASE /\ s # "off" /\ run[t].cursor < run[t].jobs
               /\ run[t].failed => run'[t].failed
               /\ run'[t].handled = run[t].handled + 1 /\ run'[t].cursor = run[t].cursor + 1
      BY <2>1, <2>2, <2>3, <3>2
    <3>3. CASE /\ s = "off"
               /\ run'[t].failed \/ (~run[t].failed /\ ~(run[t].cursor < run[t].jobs))
               /\ run'[t].handled = run[t].handled + 1 /\ run'[t].cursor = run[t].cursor
      BY <2>1, <2>2, <2>3, <3>3
    <3> QED
      BY <3>1, <3>2, <3>3
  <2> QED
    BY <1>0, <2>4, <2>5 DEF CountFits, b, c
<1>6. CauseFits(t)'
  BY <1>t, <1>0 DEF CauseFits
<1> QED
  BY <1>3, <1>4, <1>5, <1>6 DEF Fits

(* The steps of a worker of the pool.                                      *)
LEMMA WorkerStepFits ==
    ASSUME IInv, NEW t \in Ids, NEW w \in Pool, WorkerStep(t, w) \/ StreamFails(t, w)
    PROVE  Fits(t)'
<1>t. /\ run \in [Ids -> Progress] /\ work \in [Ids -> [0..PoolSize -> Stages]]
      /\ ControlFits(t) /\ run[t] \in Progress /\ w \in 0..PoolSize
      /\ t \in active /\ run[t].at = "pool"
  BY TransferAssumption
     DEF IInv, TypeOK, WorkerStep, TargetFound, Skipped, TargetFails, FileAsks, Streamed, Committed,
         Unlinked, StreamFails, InPool, InRun, Pool
<1>0. run[t].handles \in 0..2 /\ run[t].jobs \in Nat /\ run[t].cursor \in Nat
      /\ run[t].handled \in Nat /\ run[t].failed \in BOOLEAN
  BY <1>t, ProgressFields
<1>a. Alone(t)
  <2>1. ~ \E ok \in BOOLEAN : t \in active /\ Settle(t, ok)
    <3>1. active' = active
      BY DEF WorkerStep, TargetFound, Skipped, TargetFails, FileAsks, Streamed, Committed,
             Unlinked, StreamFails, AskConflict, OnlyRun, OnlyWork, ownVars
    <3> QED
      BY <1>t, <3>1 DEF Settle
  <2> QED
    BY <2>1, StepsAlone DEF RunStep, IInv
<1>w. ASSUME OnlyWork, NEW s \in Stages \ {"ask"}, Goes(t, w, s)
      PROVE  /\ state'[t] = state[t] /\ pending'[t] = pending[t] /\ (t \in paused' <=> t \in paused)
             /\ work'[t] = [work[t] EXCEPT ![w] = s]
  BY <1>w, <1>t DEF OnlyWork, Goes, gateVars
<1>g. ASSUME OnlyWork, NEW s \in Stages \ {"ask", "off"}, Goes(t, w, s), run' = run,
             work[t][w] \notin {"off", "ask"}
      PROVE  Fits(t)'
  BY <1>g, <1>w, <1>t, <1>a, WorkFits, ZenonT(60)
<1>f. ASSUME OnlyWork, WorkerFails(t, w), work[t][w] \notin {"off", "ask"}
      PROVE  Fits(t)'
  <2>1. /\ run'[t].at = "pool" /\ run'[t].handles = run[t].handles
        /\ run'[t].previous = run[t].previous /\ run'[t].jobs = run[t].jobs
        /\ run'[t].handled = run[t].handled /\ run'[t].cursor = run[t].cursor
        /\ run'[t].failed
    BY <1>f, <1>t DEF WorkerFails, Progress
  <2>2. "off" \in Stages \ {"ask"} /\ Goes(t, w, "off")
    BY <1>f DEF Stages, WorkerFails
  <2> QED
    BY <1>f, <1>w, <1>t, <1>a, <2>1, <2>2, WorkFits
<1>n. ASSUME OnlyWork, NextFile(t, w), work[t][w] \notin {"off", "ask"}
      PROVE  Fits(t)'
  <2> DEFINE more == ~run[t].failed /\ run[t].cursor < run[t].jobs
             takes == more /\ ~Stops(t)
             s == IF takes THEN "target" ELSE "off"
             h == run[t].handled + 1
             k == IF takes THEN run[t].cursor + 1 ELSE run[t].cursor
             f == run[t].failed \/ (more /\ Stops(t))
  <2>1. run'[t] = [run[t] EXCEPT !.handled = h, !.cursor = k, !.failed = f]
        /\ Goes(t, w, s)
    BY <1>n, <1>t DEF NextFile
  <2>2. s \in Stages \ {"ask"} /\ f \in BOOLEAN
    BY <1>0 DEF Stages
  <2>3. \/ s = "target" /\ run[t].cursor < run[t].jobs /\ k = run[t].cursor + 1 /\ ~f
           /\ ~run[t].failed
        \/ s = "off" /\ k = run[t].cursor
           /\ (f \/ (~run[t].failed /\ ~(run[t].cursor < run[t].jobs)))
    BY <1>0
  <2> HIDE DEF s, h, k, f, takes, more
  <2>4. /\ run'[t].at = "pool" /\ run'[t].handles = run[t].handles
        /\ run'[t].previous = run[t].previous /\ run'[t].jobs = run[t].jobs
        /\ run'[t].handled = h /\ run'[t].cursor = k /\ (f => run'[t].failed)
    BY <1>t, <2>1, <2>2 DEF Progress
  <2>5. h = run[t].handled + 1
    BY DEF h
  <2>6. /\ state'[t] = state[t] /\ pending'[t] = pending[t] /\ (t \in paused' <=> t \in paused)
        /\ work'[t] = [work[t] EXCEPT ![w] = s]
    BY <1>n, <1>w, <2>1, <2>2
  <2>7. CASE s = "off"
    <3>1. s = "off" /\ run'[t].cursor = run[t].cursor /\ run'[t].handled = run[t].handled + 1
          /\ (run'[t].failed \/ (~run[t].failed /\ ~(run[t].cursor < run[t].jobs)))
      BY <2>3, <2>4, <2>5, <2>7
    <3> QED
      BY <1>n, <1>t, <1>a, <2>2, <2>4, <2>6, <3>1, WorkFits
  <2>8. CASE s = "target"
    <3>1. s # "off" /\ run[t].cursor < run[t].jobs /\ run'[t].cursor = run[t].cursor + 1
          /\ run'[t].handled = run[t].handled + 1 /\ (run[t].failed => run'[t].failed)
      BY <2>3, <2>4, <2>5, <2>8
    <3> QED
      BY <1>n, <1>t, <1>a, <2>2, <2>4, <2>6, <3>1, WorkFits
  <2> QED
    BY <2>3, <2>7, <2>8
<1>1. CASE TargetFound(t, w)
  BY <1>1, <1>g DEF TargetFound, InPool, Stages
<1>2. CASE Skipped(t, w)
  BY <1>2, <1>n DEF Skipped, InPool
<1>3. CASE TargetFails(t, w)
  BY <1>3, <1>f DEF TargetFails, InPool
<1>4. CASE FileAsks(t, w)
  BY <1>4, <1>t, <1>a, AskFits DEF FileAsks, InPool
<1>5. CASE Streamed(t, w)
  BY <1>5, <1>g DEF Streamed, InPool, Stages
<1>6. CASE Committed(t, w)
  BY <1>6, <1>n DEF Committed, InPool
<1>7. CASE Unlinked(t, w)
  BY <1>7, <1>f DEF Unlinked, InPool
<1>8. CASE StreamFails(t, w)
  BY <1>8, <1>g DEF StreamFails, InPool, Stages
<1> QED
  BY <1>1, <1>2, <1>3, <1>4, <1>5, <1>6, <1>7, <1>8 DEF WorkerStep

(* abort(): whoever asks is woken and fails, whoever works goes on, and    *)
(* the first abort is the one to blame.                                    *)
LEMMA AbortFits ==
    ASSUME IInv, NEW T \in SUBSET active, NEW what, Abort(T), Blame(T, what),
           UNCHANGED <<bornVars, state, active, killed>>,
           \/ what = "user" /\ lost' = lost
           \/ what = "loss" /\ lost' = lost \cup T /\ T \cap aborted = {},
           NEW u \in Ids
    PROVE  Fits(u)'
<1>t. /\ run[u] \in Progress /\ ControlFits(u) /\ ShownFits(u) /\ CountFits(u) /\ CauseFits(u)
      /\ 0 \in 0..PoolSize /\ Pool \subseteq 0..PoolSize /\ 0 \notin Pool
      /\ \A w \in 0..PoolSize : w = 0 \/ w \in Pool
      /\ lost \subseteq aborted
  BY TransferAssumption DEF IInv, TypeOK, Pool
<1>0. /\ active' = active /\ aborted' = aborted \cup T /\ request' = request /\ state' = state
      /\ cause'[u] = IF u \in T /\ cause[u] = "none" THEN what ELSE cause[u]
      /\ killed' = killed
  BY DEF Abort, Blame, bornVars
<1>1. CASE u \notin T
  <2>1. /\ pending'[u] = pending[u] /\ run'[u] = run[u]
        /\ work'[u] = [w \in 0..PoolSize |-> work[u][w]]
    BY <1>1 DEF Abort
  <2>2. work'[u] = work[u]
    <3>1. work[u] \in [0..PoolSize -> Stages]
      BY DEF IInv, TypeOK
    <3> QED
      BY <2>1, <3>1
  <2>3. Same(u)
    BY <1>0, <1>1, <2>1, <2>2 DEF Same, Abort
  <2> QED
    BY <1>t, <2>3, SameFits DEF Fits
<1>2. CASE u \in T
  <2>1. \A w \in 0..PoolSize : work'[u][w] = IF work[u][w] = "ask" THEN "off" ELSE work[u][w]
    BY <1>2 DEF Abort, Wakes, Asking
  <2>2. Askers(u)' = {} /\ Busy(u)' \subseteq Busy(u)
        /\ (~(\E w \in Pool : Asking(u, w)) => Busy(u)' = Busy(u))
        /\ (work'[u][0] # "off" => work[u][0] # "off" /\ work[u][0] # "ask")
    BY <1>t, <2>1 DEF Askers, Busy, Asking
  <2>3. pending'[u] = {}
    <3>1. pending'[u] = IF \E w \in pending[u] : Wakes(u, w) THEN {} ELSE pending[u]
      BY <1>2 DEF Abort
    <3>2. \A w \in pending[u] : Wakes(u, w)
      BY <1>t DEF ShownFits, Askers, Wakes
    <3> QED
      BY <3>1, <3>2
  <2>4. \/ /\ work[u][0] = "ask" /\ run[u].at = "prepare"
           /\ run'[u] = [run[u] EXCEPT !.failed = TRUE, !.at = "close"]
        \/ /\ (\E w \in Pool : Asking(u, w)) /\ run[u].at = "pool"
           /\ run'[u] = [run[u] EXCEPT !.failed = TRUE]
        \/ ~(\E w \in Pool : Asking(u, w)) /\ run'[u] = run[u] /\ work[u][0] # "ask"
    <3>1. Asking(u, 0) => run[u].at = "prepare"
      BY <1>t DEF Asking, ControlFits
    <3>2. (\E w \in Pool : Asking(u, w)) => run[u].at = "pool"
      BY <1>t DEF Asking, ControlFits, Busy
    <3> QED
      BY <1>2, <3>1, <3>2 DEF Abort, Wakes, Asking
  <2>5. /\ run'[u].handles = run[u].handles /\ run'[u].previous = run[u].previous
        /\ run'[u].jobs = run[u].jobs /\ run'[u].cursor = run[u].cursor
        /\ run'[u].handled = run[u].handled
        /\ \/ work[u][0] = "ask" /\ run[u].at = "prepare" /\ run'[u].at = "close" /\ run'[u].failed
           \/ run[u].at = "pool" /\ run'[u].at = "pool" /\ run'[u].failed /\ work[u][0] # "ask"
           \/ run'[u] = run[u] /\ Busy(u)' = Busy(u) /\ work[u][0] # "ask"
    <3>1. CASE /\ work[u][0] = "ask" /\ run[u].at = "prepare"
               /\ run'[u] = [run[u] EXCEPT !.failed = TRUE, !.at = "close"]
      BY <1>t, <3>1 DEF Progress
    <3>2. CASE /\ run[u].at = "pool"
               /\ run'[u] = [run[u] EXCEPT !.failed = TRUE]
      <4>1. work[u][0] # "ask"
        BY <1>t, <3>2 DEF ControlFits
      <4> QED
        BY <1>t, <3>2, <4>1 DEF Progress
    <3>3. CASE ~(\E w \in Pool : Asking(u, w)) /\ run'[u] = run[u] /\ work[u][0] # "ask"
      BY <2>2, <3>3
    <3> QED
      BY <2>4, <3>1, <3>2, <3>3
  <2>6. ControlFits(u)'
    <3>1. run[u].at # "idle" /\ u \in active
      BY <1>t, <1>2 DEF ControlFits
    <3>2. work'[u][0] = "off"
      BY <1>t, <2>2 DEF ControlFits
    <3>3. \A w \in Busy(u)' : run[u].at = "pool" /\ (request[u] \in Asks => w = 1)
      BY <1>t, <2>2 DEF ControlFits
    <3> QED
      BY <1>t, <1>0, <2>5, <3>1, <3>2, <3>3 DEF ControlFits
  <2>7. ShownFits(u)'
    BY <1>t, <1>0, <1>2, <2>2, <2>3 DEF ShownFits, Under
  <2>8. CountFits(u)'
    <3>1. /\ Cardinality(Busy(u)) \in Nat /\ Cardinality(Busy(u)') \in Nat
          /\ Cardinality(Busy(u)') <= Cardinality(Busy(u))
      BY <2>2, BusyCount, FS_Subset, FS_CardinalityType
    <3>2. run[u].handled \in Nat /\ run[u].cursor \in Nat /\ run[u].jobs \in Nat
      BY <1>t, ProgressFields
    <3>3. state[u] # "succeeded"
      BY <1>t, <1>2 DEF ShownFits, Under, UnderWay
    <3> DEFINE b == Cardinality(Busy(u))
               c == Cardinality(Busy(u)')
    <3>4. run[u].handled + b <= run[u].cursor
      BY <1>t DEF CountFits
    <3> HIDE DEF b, c
    <3>5. run[u].handled + c <= run[u].cursor
      BY <3>1, <3>2, <3>4 DEF b, c
    <3> QED
      BY <1>t, <1>0, <2>5, <3>3, <3>5 DEF CountFits, c
  <2>9. CauseFits(u)'
    <3>1. state[u] \notin {"canceled", "failed"}
      BY <1>t, <1>2 DEF ShownFits, Under, UnderWay
    <3>2. /\ u \notin aborted => cause[u] = "none" /\ u \notin lost
          /\ u \in aborted => cause[u] = IF u \in lost THEN "loss" ELSE "user"
      BY <1>t, <1>2 DEF CauseFits
    <3> QED
      BY <1>0, <1>2, <3>1, <3>2 DEF CauseFits
  <2> QED
    BY <2>6, <2>7, <2>8, <2>9 DEF Fits
<1> QED
  BY <1>1, <1>2

(* pause(), resume() and decideConflict(), which restores the state that   *)
(* the conflict interrupted.                                               *)
LEMMA UserFits ==
    ASSUME IInv, NEW t \in Ids, Alone(t),
           Pause(t) \/ Resume(t) \/ \E all \in BOOLEAN : Decide(t, all)
    PROVE  Fits(t)'
<1>t. /\ run[t] \in Progress /\ state \in [Ids -> RowStates] /\ t \in active
      /\ work \in [Ids -> [0..PoolSize -> Stages]] /\ pending \in [Ids -> Decisions]
      /\ ControlFits(t) /\ ShownFits(t) /\ CountFits(t) /\ CauseFits(t)
      /\ 0 \in 0..PoolSize /\ Pool \subseteq 0..PoolSize /\ 0 \notin Pool
  BY TransferAssumption DEF IInv, TypeOK, Alone, Pool
<1>0. /\ active' = active /\ aborted' = aborted /\ lost' = lost /\ request' = request
      /\ cause' = cause
  BY DEF Alone, bornVars
<1>1. run' = run
  BY DEF Pause, Resume, Gate, Decide
<1>2. CASE Pause(t) \/ Resume(t)
  <2>1. /\ work' = work /\ pending' = pending
        /\ \/ state[t] = "running" /\ state'[t] = "paused" /\ t \in paused'
           \/ state[t] = "paused" /\ state'[t] = "running" /\ t \notin paused'
    BY <1>2, <1>t DEF Pause, Resume, Gate, Opens
  <2>2. Busy(t)' = Busy(t) /\ Askers(t)' = Askers(t)
    BY <2>1 DEF Busy, Askers, Asking
  <2>3. ControlFits(t)'
    BY <1>t, <1>0, <1>1, <2>1, <2>2 DEF ControlFits
  <2>4. ShownFits(t)'
    BY <1>t, <1>0, <1>1, <2>1, <2>2 DEF ShownFits, Under, UnderWay
  <2>5. CountFits(t)'
    BY <1>t, <1>0, <1>1, <2>1, <2>2 DEF CountFits
  <2>6. CauseFits(t)'
    BY <1>t, <1>0, <2>1 DEF CauseFits
  <2> QED
    BY <2>3, <2>4, <2>5, <2>6 DEF Fits
<1>3. ASSUME NEW all \in BOOLEAN, Decide(t, all) PROVE Fits(t)'
  <2>1. /\ pending[t] # {} /\ state[t] = "awaiting-decision" /\ state'[t] = run[t].previous
        /\ pending'[t] = {} /\ paused' = paused
        /\ work'[t] = [w \in 0..PoolSize |-> IF w \notin pending[t] THEN work[t][w]
                                             ELSE IF w = 0 THEN "off" ELSE "resolved"]
    BY <1>3, <1>t DEF Decide
  <2>2. pending[t] = Askers(t)
    BY <1>t DEF ShownFits
  <2>3. \A w \in 0..PoolSize :
          work'[t][w] = IF work[t][w] # "ask" THEN work[t][w]
                        ELSE IF w = 0 THEN "off" ELSE "resolved"
    BY <2>1, <2>2 DEF Askers, Asking
  <2>4. Busy(t)' = Busy(t) /\ Askers(t)' = {} /\ work'[t][0] = "off"
    <3>1. work[t][0] = "off" \/ work[t][0] = "ask"
      BY <1>t DEF ControlFits
    <3>2. work'[t][0] = "off"
      BY <1>t, <2>3, <3>1
    <3>3. Askers(t)' = {}
      BY <2>3 DEF Askers, Asking
    <3>4. Busy(t)' = Busy(t)
      BY <1>t, <2>3 DEF Busy
    <3> QED
      BY <3>2, <3>3, <3>4
  <2>5. run[t].previous \in {"preparing", "running", "paused"} /\ t \notin aborted
    BY <1>t, <2>1 DEF ShownFits
  <2>6. ControlFits(t)'
    BY <1>t, <1>0, <1>1, <2>4 DEF ControlFits
  <2>7. ShownFits(t)'
    BY <1>t, <1>0, <1>1, <2>1, <2>4, <2>5 DEF ShownFits, Under, UnderWay
  <2>8. CountFits(t)'
    BY <1>t, <1>0, <1>1, <2>1, <2>4, <2>5 DEF CountFits
  <2>9. CauseFits(t)'
    BY <1>t, <1>0, <2>1, <2>5 DEF CauseFits
  <2> QED
    BY <2>6, <2>7, <2>8, <2>9 DEF Fits
<1> QED
  BY <1>2, <1>3

(* create() and retry(): a transfer that is not under way yet begins.      *)
LEMMA BeginFits ==
    ASSUME IInv, NEW n \in Ids, n = made + 1, NEW r \in Requests, NEW from, NEW freed,
           Begin(r, from, freed), NEW u \in Ids
    PROVE  Fits(u)'
<1>t. /\ run \in [Ids -> Progress] /\ state \in [Ids -> RowStates]
      /\ request \in [Ids -> Requests \cup {NoRequest}]
      /\ ControlFits(u) /\ ShownFits(u) /\ CountFits(u) /\ CauseFits(u) /\ BirthFits(u)
      /\ made \in Nat /\ 0 \in 0..PoolSize
  BY TransferAssumption DEF IInv, TypeOK
<1>0. /\ killed' = killed
      /\ aborted' = aborted /\ lost' = lost /\ cause' = cause /\ paused' = paused
      /\ pending' = pending /\ work' = work
      /\ request' = [request EXCEPT ![n] = r]
      /\ \/ /\ active' = active \cup {n} /\ state' = [state EXCEPT ![n] = "preparing"]
            /\ run' = [run EXCEPT ![n] =
                          [Idle EXCEPT !.at = IF Len(Ends[r]) = 2 THEN "open" ELSE "grant"]]
         \/ active' = active /\ state' = [state EXCEPT ![n] = "failed"] /\ run' = run
  BY DEF Begin, abortVars, gateVars
<1>1. Busy(u)' = Busy(u) /\ Askers(u)' = Askers(u)
  BY <1>0 DEF Busy, Askers, Asking
<1>2. CASE u # n
  <2>1. Same(u)
    BY <1>t, <1>0, <1>2 DEF Same
  <2> QED
    BY <1>t, <2>1, SameFits DEF Fits
<1>3. CASE u = n
  <2>1. u > made
    BY <1>t, <1>3
  <2>2. state[u] = "none" /\ cause[u] = "none" /\ run[u] = Idle
    BY <1>t, <2>1 DEF BirthFits
  <2>3. u \notin active /\ u \notin aborted /\ u \notin paused /\ work[u][0] = "off"
        /\ Busy(u) = {} /\ Askers(u) = {} /\ pending[u] = {}
    <3>1. u \notin active /\ run[u].at = "idle"
      BY <1>t, <2>2 DEF ControlFits, Idle
    <3>2. work[u][0] = "off"
      BY <1>t, <3>1 DEF ControlFits
    <3>3. u \notin aborted /\ u \notin paused
      BY <3>1 DEF IInv, TypeOK
    <3> QED
      BY <3>1, <3>2, <3>3, Asleep
  <2>4. Cardinality(Busy(u)') = 0
    BY <1>1, <2>3, FS_EmptySet
  <2>5. CASE /\ active' = active \cup {n} /\ state' = [state EXCEPT ![n] = "preparing"]
             /\ run' = [run EXCEPT ![n] =
                           [Idle EXCEPT !.at = IF Len(Ends[r]) = 2 THEN "open" ELSE "grant"]]
    <3>1. /\ request'[u] = r /\ state'[u] = "preparing" /\ u \in active'
          /\ run'[u] = [Idle EXCEPT !.at = IF Len(Ends[r]) = 2 THEN "open" ELSE "grant"]
      BY <1>t, <1>0, <1>3, <2>5
    <3>2. /\ run'[u].at \in {"open", "grant"} /\ run'[u].handles = 0 /\ run'[u].jobs = 0
          /\ run'[u].cursor = 0 /\ run'[u].handled = 0 /\ run'[u].previous = "none"
      BY <3>1 DEF Idle
    <3>3. 0 < Len(Ends[r])
      <4>1. Len(Ends[r]) \in {1, 2}
        BY EndsLength
      <4> QED
        BY <4>1
    <3>4. ControlFits(u)'
      BY <1>0, <1>1, <2>3, <3>1, <3>2, <3>3 DEF ControlFits
    <3>5. ShownFits(u)'
      BY <1>0, <1>1, <2>3, <3>1, <3>2 DEF ShownFits, Under, UnderWay
    <3>6. CountFits(u)'
      BY <2>4, <3>1, <3>2 DEF CountFits
    <3>7. CauseFits(u)'
      BY <1>0, <2>2, <2>3, <3>1 DEF CauseFits
    <3> QED
      BY <3>4, <3>5, <3>6, <3>7 DEF Fits
  <2>6. CASE active' = active /\ state' = [state EXCEPT ![n] = "failed"] /\ run' = run
    <3>1. state'[u] = "failed" /\ u \notin active' /\ run'[u] = Idle
      BY <1>t, <1>3, <2>2, <2>3, <2>6
    <3>2. /\ run'[u].at = "idle" /\ run'[u].handles = 0 /\ run'[u].jobs = 0
          /\ run'[u].cursor = 0 /\ run'[u].handled = 0
      BY <3>1 DEF Idle
    <3>4. ControlFits(u)'
      BY <1>0, <1>1, <2>3, <3>1, <3>2 DEF ControlFits
    <3>5. ShownFits(u)'
      BY <1>0, <1>1, <2>3, <3>1, <3>2 DEF ShownFits, Under, UnderWay
    <3>6. CountFits(u)'
      BY <2>4, <3>1, <3>2 DEF CountFits
    <3>7. CauseFits(u)'
      BY <1>0, <2>2, <2>3, <3>1 DEF CauseFits
    <3> QED
      BY <3>4, <3>5, <3>6, <3>7 DEF Fits
  <2> QED
    BY <1>0, <2>5, <2>6
<1> QED
  BY <1>2, <1>3

(* A restart leaves no transfer that is under way.                         *)
LEMMA ResetFits ==
    ASSUME IInv, Reset, NEW u \in Ids,
           \/ request' = request /\ state' = Recovered
           \/ \E n \in Ids, r \in Requests :
                /\ n = made + 1
                /\ request' = [request EXCEPT ![n] = r]
                /\ state' = [Recovered EXCEPT ![n] = "failed"]
    PROVE  Fits(u)'
<1>t. /\ run[u] \in Progress /\ state \in [Ids -> RowStates]
      /\ ControlFits(u) /\ ShownFits(u) /\ CountFits(u) /\ CauseFits(u) /\ BirthFits(u)
      /\ made \in Nat /\ u \in Nat /\ 0 \in 0..PoolSize /\ Pool \subseteq 0..PoolSize
  BY TransferAssumption DEF IInv, TypeOK, Pool, Ids
<1>0. /\ active' = {} /\ aborted' = {} /\ pending'[u] = {}
      /\ run'[u] = [run[u] EXCEPT !.at = "idle", !.failed = FALSE, !.handles = 0]
      /\ \A w \in 0..PoolSize : work'[u][w] = "off"
      /\ cause' = cause /\ killed' = killed \cup active
  BY DEF Reset
<1>1. /\ run'[u].at = "idle" /\ run'[u].handles = 0 /\ run'[u].jobs = run[u].jobs
      /\ run'[u].cursor = run[u].cursor /\ run'[u].handled = run[u].handled
  <2>1. run[u] \in Progress /\ run'[u] = [run[u] EXCEPT !.at = "idle", !.failed = FALSE,
                                                    !.handles = 0]
    BY <1>t, <1>0
  <2> QED
    BY <2>1, ProgressReset
<1>2. Busy(u)' = {} /\ Askers(u)' = {} /\ work'[u][0] = "off"
  BY <1>t, <1>0 DEF Busy, Askers, Asking
<1>3. \/ state'[u] = "failed" /\ (cause'[u] # "user" \/ u \in killed')
      \/ state'[u] = state[u] /\ u \notin active
  <2>1. Recovered[u] = IF Interrupted(state[u]) THEN "failed" ELSE state[u]
    BY DEF Recovered
  <2>2. Interrupted(state[u]) <=> u \in active
    BY <1>t DEF Interrupted, ShownFits, Under, UnderWay
  <2>3. CASE state'[u] = Recovered[u]
    BY <1>0, <2>1, <2>2, <2>3
  <2>4. CASE u = made + 1 /\ state'[u] = "failed"
    <3>1. u > made
      BY <1>t, <2>4
    <3>2. cause[u] = "none"
      BY <1>t, <3>1 DEF BirthFits
    <3> QED
      BY <1>0, <2>4, <3>2
  <2>5. CASE state' = Recovered
    BY <2>3, <2>5
  <2>6. ASSUME NEW n \in Ids, n = made + 1, state' = [Recovered EXCEPT ![n] = "failed"]
        PROVE  state'[u] = Recovered[u] \/ (u = made + 1 /\ state'[u] = "failed")
    BY <2>6 DEF Recovered
  <2> QED
    BY <2>3, <2>4, <2>5, <2>6
<1>4. ControlFits(u)'
  BY <1>0, <1>1, <1>2 DEF ControlFits
<1>5. ShownFits(u)'
  BY <1>t, <1>0, <1>2, <1>3 DEF ShownFits, Under, UnderWay
<1>6. CountFits(u)'
  <2>1. Cardinality(Busy(u)') = 0 /\ Cardinality(Busy(u)) \in Nat
    BY <1>2, FS_EmptySet, BusyCount
  <2>2. run[u].handled \in Nat /\ run[u].cursor \in Nat /\ run[u].jobs \in Nat
    BY <1>t, ProgressFields
  <2>3. run[u].handled <= run[u].cursor
    BY <1>t, <2>1, <2>2 DEF CountFits
  <2> QED
    BY <1>t, <1>1, <1>3, <2>1, <2>2, <2>3 DEF CountFits
<1>7. CauseFits(u)'
  BY <1>t, <1>0, <1>3 DEF CauseFits
<1> QED
  BY <1>4, <1>5, <1>6, <1>7 DEF Fits

(* clearCompleted() touches no transfer that is under way.                 *)
LEMMA ClearFits ==
    ASSUME IInv, ClearCompleted, NEW u \in Ids
    PROVE  Fits(u)'
<1>t. ControlFits(u) /\ ShownFits(u) /\ CountFits(u) /\ CauseFits(u)
  BY DEF IInv
<1>0. /\ active' = active /\ aborted' = aborted /\ lost' = lost /\ request' = request
      /\ cause' = cause /\ paused' = paused /\ pending' = pending /\ work' = work /\ run' = run
      /\ state'[u] = IF state[u] \in Terminal THEN "cleared" ELSE state[u]
  BY DEF ClearCompleted, bornVars, abortVars, gateVars
<1>1. Busy(u)' = Busy(u) /\ Askers(u)' = Askers(u)
  BY <1>0 DEF Busy, Askers, Asking
<1>2. ControlFits(u)'
  BY <1>t, <1>0, <1>1 DEF ControlFits
<1>3. ShownFits(u)'
  BY <1>t, <1>0, <1>1 DEF ShownFits, Under, UnderWay, Terminal
<1>4. CountFits(u)'
  BY <1>t, <1>0, <1>1 DEF CountFits, Terminal
<1>5. CauseFits(u)'
  BY <1>t, <1>0 DEF CauseFits, Terminal
<1> QED
  BY <1>2, <1>3, <1>4, <1>5 DEF Fits

(* The steps of run(), the calls on one transfer, and a stream that fails, *)
(* for the transfer they are about.                                        *)
LEMMA OwnStepFits ==
    ASSUME IInv, NEW t \in Ids,
           \/ RunStep(t) \/ Pause(t) \/ Resume(t)
           \/ \E all \in BOOLEAN : Decide(t, all)
           \/ \E w \in Pool : StreamFails(t, w)
    PROVE  Fits(t)'
<1>a. ASSUME active' = active PROVE Alone(t)
  <2>1. ~ \E ok \in BOOLEAN : t \in active /\ Settle(t, ok)
    BY <1>a DEF Settle
  <2> QED
    BY <2>1, StepsAlone DEF IInv
<1>1. CASE GrantResolved(t) \/ Opened(t) \/ WalkFails(t) \/ PoolDone(t) \/ Closed(t)
  BY <1>1, RunStepFits
<1>2. CASE Prepared(t)
  <2>1. active' = active
    BY <1>2 DEF Prepared, OnlyRun, ownVars
  <2> QED
    BY <1>2, <1>a, <2>1, PreparedFits
<1>3. CASE WalkAsks(t)
  <2>1. active' = active
    BY <1>3 DEF WalkAsks, AskConflict, OnlyRun, ownVars
  <2>2. /\ t \in active /\ run[t].at = "prepare" /\ work[t][0] = "off" /\ 0 \in 0..PoolSize
        /\ AskConflict(t, 0)
    BY <1>3, TransferAssumption DEF WalkAsks, InRun, Asking, ControlFits, IInv
  <2> QED
    BY <1>a, <2>1, <2>2, AskFits
<1>4. CASE \E w \in Pool : WorkerStep(t, w) \/ StreamFails(t, w)
  BY <1>4, WorkerStepFits
<1>5. CASE Pause(t) \/ Resume(t) \/ \E all \in BOOLEAN : Decide(t, all)
  <2>1. active' = active
    BY <1>5 DEF Pause, Resume, Gate, Decide, ownVars
  <2> QED
    BY <1>5, <1>a, <2>1, UserFits
<1> QED
  BY <1>1, <1>2, <1>3, <1>4, <1>5 DEF RunStep

(* A step keeps what each transfer does, shows, counts and blames.         *)
LEMMA FitsStep ==
    ASSUME IInv, [Next]_vars, NEW u \in Ids
    PROVE  Fits(u)'
<1>t. TypeOK /\ Fits(u) /\ made \in 0..MaxTransfers /\ MaxTransfers \in Nat
  BY TransferAssumption DEF IInv, Fits, TypeOK
<1>o. ASSUME NEW t \in Ids,
             \/ RunStep(t) \/ Pause(t) \/ Resume(t)
             \/ \E all \in BOOLEAN : Decide(t, all)
             \/ \E w \in Pool : StreamFails(t, w)
      PROVE  Fits(u)'
  <2>1. Alone(t) \/ \E ok \in BOOLEAN : t \in active /\ Settle(t, ok)
    BY <1>o, <1>t, StepsAlone
  <2>2. CASE u = t
    BY <1>o, <2>2, OwnStepFits
  <2>3. CASE u # t
    BY <2>1, <2>3, OthersFit
  <2> QED
    BY <2>2, <2>3
<1>1. ASSUME NEW r \in Requests, Create(r) PROVE Fits(u)'
  <2>1. made + 1 \in Ids /\ Begin(r, 0, {})
    BY <1>1, <1>t DEF Create, Begin, Ids
  <2> QED
    BY <2>1, BeginFits
<1>2. ASSUME NEW r \in Requests, RestartInCreate(r) PROVE Fits(u)'
  <2>1. made + 1 \in Ids
    BY <1>2, <1>t DEF RestartInCreate, Ids
  <2> QED
    BY <1>2, <2>1, ResetFits DEF RestartInCreate
<1>3. CASE ClearCompleted
  BY <1>3, ClearFits
<1>4. ASSUME NEW t \in Ids, Retry(t) PROVE Fits(u)'
  <2>1. made + 1 \in Ids /\ Begin(request[t], t, Spent(t))
    BY <1>4, <1>t DEF Retry, Begin, Ids
  <2>2. request[t] \in Requests
    <3>1. BirthFits(t) /\ state[t] # "none" /\ (t <= made \/ t > made)
      BY <1>4, <1>t DEF Retry, IInv, Ids
    <3> QED
      BY <3>1 DEF BirthFits
  <2> QED
    BY <2>1, <2>2, BeginFits
<1>5. ASSUME NEW t \in Ids, Cancel(t) PROVE Fits(u)'
  <2>1. /\ {t} \in SUBSET active /\ Abort({t}) /\ Blame({t}, "user")
        /\ UNCHANGED <<bornVars, state, active, killed>> /\ lost' = lost
    BY <1>5 DEF Cancel, ownVars
  <2> QED
    BY <2>1, AbortFits
<1>6. ASSUME NEW c \in Conns, ConnectionLost(c) PROVE Fits(u)'
  <2> DEFINE hit == {t \in Ids : Hears(t, c)}
  <2>1. hit \in SUBSET active /\ hit \cap aborted = {}
    BY <1>t DEF Hears, TypeOK
  <2>2. /\ Abort(hit) /\ Blame(hit, "loss") /\ lost' = lost \cup hit
        /\ UNCHANGED <<bornVars, state, active, killed>>
    BY <1>6 DEF ConnectionLost, ownVars
  <2> HIDE DEF hit
  <2> QED
    BY <2>1, <2>2, AbortFits
<1>7. CASE Shutdown
  <2>1. /\ active \in SUBSET active /\ Abort(active) /\ Blame(active, "user")
        /\ UNCHANGED <<bornVars, state, active, killed>> /\ lost' = lost
    BY <1>7 DEF Shutdown, ownVars
  <2> QED
    BY <2>1, AbortFits
<1>8. CASE (\E c \in Conns : ConnectionBack(c)) \/ Stopped \/ UNCHANGED vars
  <2>1. Same(u)
    BY <1>8 DEF ConnectionBack, Stopped, Same, vars, bornVars, ownVars, abortVars, gateVars
  <2> QED
    BY <1>t, <2>1, SameFits
<1>9. CASE Restart
  BY <1>9, ResetFits DEF Restart, bornVars
<1> QED
  BY <1>o, <1>1, <1>2, <1>3, <1>4, <1>5, <1>6, <1>7, <1>8, <1>9 DEF Next, UserStep

-----------------------------------------------------------------------------
(* Partial files                                                           *)

(* A file of worker w of t that is accounted for.                          *)
Kept(t, w) == Holding(t, w) \/ <<t, w>> \in refused \/ t \in killed

(* A step that makes no file, and under which the worker of every file     *)
(* that is left holds it, had its removal refused or died with the process.*)
LEMMA PartsKept ==
    ASSUME IInv, TypeOK', parts' \subseteq parts,
           killed \subseteq killed', refused \subseteq refused',
           \A u \in Ids, w \in Pool :
             Holding(u, w) /\ <<u, w>> \in parts' => Kept(u, w)'
    PROVE  \A p \in parts' : PartFits(p)'
<1> SUFFICES ASSUME NEW p \in parts' PROVE PartFits(p)'
  OBVIOUS
<1>1. PICK u \in Ids, w \in Pool : p = <<u, w>>
  BY DEF TypeOK
<1>2. p \in parts /\ PartFits(p) /\ p[1] = u /\ p[2] = w
  BY <1>1 DEF IInv
<1> QED
  BY <1>1, <1>2 DEF PartFits, Kept

(* The steps of one transfer.                                              *)
LEMMA OwnStepParts ==
    ASSUME IInv, TypeOK', NEW t \in Ids,
           \/ RunStep(t) \/ Pause(t) \/ Resume(t)
           \/ \E all \in BOOLEAN : Decide(t, all)
           \/ \E w \in Pool : StreamFails(t, w)
    PROVE  \A p \in parts' : PartFits(p)'
<1>t. /\ TypeOK /\ run \in [Ids -> Progress] /\ work \in [Ids -> [0..PoolSize -> Stages]]
      /\ ControlFits(t) /\ ShownFits(t) /\ Pool \subseteq 0..PoolSize /\ 0 \notin Pool
  <2>1. PoolSize \in Nat
    BY TransferAssumption
  <2>2. Pool \subseteq 0..PoolSize /\ 0 \notin Pool
    BY <2>1 DEF Pool
  <2> QED
    BY <2>2 DEF IInv, TypeOK
<1>o. /\ killed' = killed
      /\ \A u \in Ids \ {t} : run'[u] = run[u] /\ work'[u] = work[u]
  <2>1. Alone(t) \/ \E ok \in BOOLEAN : t \in active /\ Settle(t, ok)
    BY <1>t, StepsAlone
  <2> QED
    BY <1>t, <2>1 DEF Alone, Settle
<1>r. refused \subseteq refused'
  BY DEF RunStep, GrantResolved, Opened, WalkAsks, AskConflict, Prepared, WalkFails, Closed,
         PoolDone, OnlyRun, Settle, Pause, Resume, Gate, Decide, WorkerStep, TargetFound, Skipped,
         TargetFails, FileAsks, Streamed, Committed, Unlinked, StreamFails
<1>k. ASSUME parts' \subseteq parts,
             \A w \in Pool : Holding(t, w) /\ <<t, w>> \in parts' => Kept(t, w)'
      PROVE  \A p \in parts' : PartFits(p)'
  <2>1. \A u \in Ids, w \in Pool :
          Holding(u, w) /\ <<u, w>> \in parts' => Kept(u, w)'
    BY <1>k, <1>o DEF Holding, Kept
  <2> QED
    BY <1>k, <1>o, <1>r, <2>1, PartsKept
<1>1. CASE run[t].at # "pool" /\ parts' = parts
  BY <1>1, <1>k DEF Holding, Kept
<1>2. CASE GrantResolved(t) \/ Opened(t) \/ WalkAsks(t) \/ Prepared(t) \/ WalkFails(t) \/ Closed(t)
  <2>1. run[t].at # "pool" /\ parts' = parts
    BY <1>2 DEF GrantResolved, Opened, WalkAsks, AskConflict, Prepared, WalkFails, Closed, InRun,
                OnlyRun, Settle
  <2> QED
    BY <1>1, <2>1
<1>3. CASE PoolDone(t)
  <2>1. parts' = parts /\ \A w \in Pool : work[t][w] = "off"
    BY <1>3 DEF PoolDone, PoolSettled, OnlyRun
  <2> QED
    BY <1>k, <2>1 DEF Holding, Kept
<1>4. CASE Pause(t) \/ Resume(t)
  <2>1. parts' = parts /\ run' = run /\ work' = work
    BY <1>4 DEF Pause, Resume, Gate
  <2> QED
    BY <1>k, <2>1 DEF Holding, Kept
<1>5. ASSUME NEW all \in BOOLEAN, Decide(t, all) PROVE \A p \in parts' : PartFits(p)'
  <2>1. /\ parts' = parts /\ run' = run
        /\ \A w \in Pool : w \notin pending[t] => work'[t][w] = work[t][w]
    BY <1>5, <1>t DEF Decide
  <2>2. \A w \in pending[t] : work[t][w] = "ask"
    BY <1>t DEF ShownFits, Askers, Asking
  <2> QED
    BY <1>k, <2>1, <2>2 DEF Holding, Kept
<1>6. ASSUME NEW w \in Pool, WorkerStep(t, w) \/ StreamFails(t, w)
      PROVE  \A p \in parts' : PartFits(p)'
  <2>t. /\ w \in 0..PoolSize /\ run[t] \in Progress /\ work[t] \in [0..PoolSize -> Stages]
        /\ run[t].at = "pool" /\ w # 0
    BY <1>6, <1>t DEF WorkerStep, TargetFound, Skipped, TargetFails, FileAsks, Streamed,
                      Committed, Unlinked, StreamFails, InPool, InRun
  <2>p. run'[t].at = "pool"
    <3>1. CASE run' = run
      BY <2>t, <3>1
    <3>2. CASE NextFile(t, w)
      <4> DEFINE takes == ~run[t].failed /\ run[t].cursor < run[t].jobs /\ ~Stops(t)
                 h == run[t].handled + 1
                 c == IF takes THEN run[t].cursor + 1 ELSE run[t].cursor
                 f == run[t].failed \/ (~run[t].failed /\ run[t].cursor < run[t].jobs /\ Stops(t))
      <4>1. run'[t] = [run[t] EXCEPT !.handled = h, !.cursor = c, !.failed = f]
        BY <1>t, <3>2 DEF NextFile
      <4> HIDE DEF h, c, f
      <4> QED
        BY <2>t, <4>1 DEF Progress
    <3>4. CASE WorkerFails(t, w)
      <4>1. run'[t] = [run[t] EXCEPT !.failed = TRUE]
        BY <1>t, <3>4 DEF WorkerFails
      <4> QED
        BY <2>t, <4>1 DEF Progress
    <3>3. CASE FileAsks(t, w)
      <4>1. \/ run'[t] = [run[t] EXCEPT !.failed = TRUE, !.at = "pool"]
            \/ run'[t] = [run[t] EXCEPT !.previous = state[t]]
        BY <1>t, <2>t, <3>3 DEF FileAsks, AskConflict
      <4> QED
        BY <2>t, <4>1 DEF Progress
    <3> QED
      BY <1>6, <3>1, <3>2, <3>3, <3>4
         DEF WorkerStep, TargetFound, Skipped, TargetFails, Streamed, Committed, Unlinked,
             StreamFails
  <2>w. PICK s \in Stages : Goes(t, w, s)
    BY <1>6 DEF WorkerStep, TargetFound, Skipped, TargetFails, FileAsks, Streamed, Committed,
                Unlinked, StreamFails, NextFile, WorkerFails, AskConflict, Goes, Stages
  <2>v. \A v \in Pool : v # w => work'[t][v] = work[t][v]
    BY <1>t, <2>t, <2>w DEF Goes
  <2>k. ASSUME parts' \subseteq parts,
               \/ work[t][w] \notin {"stream", "commit", "unlink"}
               \/ <<t, w>> \notin parts' \/ <<t, w>> \in refused'
               \/ work'[t][w] \in {"stream", "commit", "unlink"}
        PROVE  \A p \in parts' : PartFits(p)'
    <3>1. \A v \in Pool : Holding(t, v) /\ <<t, v>> \in parts' => Kept(t, v)'
      BY <2>k, <2>p, <2>v, <1>o DEF Holding, Kept
    <3> QED
      BY <1>k, <2>k, <3>1
  <2>1. CASE TargetFound(t, w)
    <3>1. work'[t][w] = "stream" /\ parts' = parts \cup {<<t, w>>}
      BY <2>1, <2>t, <1>t DEF TargetFound, Goes
    <3> SUFFICES ASSUME NEW p \in parts' PROVE PartFits(p)'
      OBVIOUS
    <3>2. CASE p = <<t, w>>
      BY <2>p, <3>1, <3>2 DEF PartFits, Holding
    <3>3. CASE p \in parts /\ p # <<t, w>>
      <4>0. p \in Ids \X Pool
        BY <1>t, <3>3 DEF TypeOK
      <4>1. PICK u \in Ids, v \in Pool : p = <<u, v>>
        BY <4>0
      <4>2. PartFits(p) /\ p[1] = u /\ p[2] = v
        BY <3>3, <4>1 DEF IInv
      <4>3. run'[u].at = run[u].at /\ work'[u][v] = work[u][v]
        <5>1. CASE u = t
          BY <2>p, <2>t, <2>v, <3>3, <4>1, <5>1
        <5>2. CASE u # t
          BY <1>o, <5>2
        <5> QED
          BY <5>1, <5>2
      <4> QED
        BY <1>o, <1>r, <4>2, <4>3 DEF PartFits, Holding
    <3> QED
      BY <3>1, <3>2, <3>3
  <2>2. CASE Skipped(t, w) \/ TargetFails(t, w) \/ FileAsks(t, w)
    <3>1. parts' = parts /\ work[t][w] \in {"target", "resolved"}
      BY <2>2 DEF Skipped, TargetFails, FileAsks, AskConflict, OnlyRun, InPool
    <3> QED
      BY <2>k, <3>1
  <2>3. CASE Streamed(t, w) \/ StreamFails(t, w)
    <3>1. parts' = parts /\ work'[t][w] \in {"commit", "unlink"}
      BY <2>3, <2>t, <1>t DEF Streamed, StreamFails, Goes
    <3> QED
      BY <2>k, <3>1
  <2>4. CASE Committed(t, w)
    BY <2>4, <2>k DEF Committed
  <2>5. CASE Unlinked(t, w)
    BY <2>5, <2>k DEF Unlinked, Unlinks
  <2> QED
    BY <1>6, <2>1, <2>2, <2>3, <2>4, <2>5 DEF WorkerStep
<1> QED
  BY <1>2, <1>3, <1>4, <1>5, <1>6 DEF RunStep

(* A step keeps every partial file accounted for.                          *)
LEMMA PartsStep ==
    ASSUME IInv, [Next]_vars
    PROVE  \A p \in parts' : PartFits(p)'
<1>t. /\ TypeOK /\ TypeOK' /\ made \in 0..MaxTransfers /\ MaxTransfers \in Nat
      /\ \A u \in Ids : ControlFits(u) /\ BirthFits(u)
      /\ Pool \subseteq 0..PoolSize
  <2>1. TypeOK'
    BY TypeStep
  <2>2. Pool \subseteq 0..PoolSize /\ MaxTransfers \in Nat
    BY TransferAssumption DEF Pool
  <2> QED
    BY <2>1, <2>2 DEF IInv, TypeOK
<1>k. ASSUME parts' = parts, killed \subseteq killed', UNCHANGED refused,
             run' = run, work' = work
      PROVE  \A p \in parts' : PartFits(p)'
  BY <1>k, <1>t, PartsKept DEF Holding, Kept
<1>a. ASSUME NEW T, Abort(T), parts' = parts, UNCHANGED <<killed, refused>>
      PROVE  \A p \in parts' : PartFits(p)'
  <2>1. ASSUME NEW u \in Ids, NEW w \in Pool, Holding(u, w) PROVE Holding(u, w)'
    <3>1. work'[u][w] = work[u][w]
      BY <1>a, <1>t, <2>1 DEF Abort, Wakes, Asking, Holding
    <3>2. work[u][0] # "ask" /\ run[u] \in Progress
      BY <1>t, <2>1, TransferAssumption DEF Holding, ControlFits, TypeOK
    <3>3. run'[u] = [run[u] EXCEPT !.failed = TRUE] \/ run'[u] = run[u]
      BY <1>a, <3>2 DEF Abort, Wakes, Asking
    <3>4. run'[u].at = run[u].at
      BY <3>2, <3>3 DEF Progress
    <3> QED
      BY <2>1, <3>1, <3>4 DEF Holding
  <2> QED
    BY <1>a, <1>t, <2>1, PartsKept DEF Kept
<1>b. ASSUME NEW n \in Ids, n = made + 1, NEW r, NEW from, NEW freed, Begin(r, from, freed)
      PROVE  \A p \in parts' : PartFits(p)'
  <2>1. /\ parts' = parts /\ UNCHANGED <<killed, refused>> /\ work' = work
        /\ \A u \in Ids \ {n} : run'[u] = run[u]
    BY <1>b, <1>t DEF Begin, abortVars, TypeOK
  <2>2. run[n].at = "idle"
    <3>1. n > made
      BY <1>b, <1>t
    <3> QED
      BY <1>t, <3>1 DEF BirthFits, Idle
  <2>3. \A u \in Ids, w \in Pool : Holding(u, w) => Holding(u, w)'
    BY <2>1, <2>2 DEF Holding
  <2> QED
    BY <1>t, <2>1, <2>3, PartsKept DEF Kept
<1>r. ASSUME Reset PROVE \A p \in parts' : PartFits(p)'
  <2>1. parts' = parts /\ killed' = killed \cup active /\ UNCHANGED refused
    BY <1>r DEF Reset
  <2>2. \A u \in Ids, w \in Pool : Holding(u, w) => u \in active
    BY <1>t DEF Holding, ControlFits
  <2> QED
    BY <1>t, <2>1, <2>2, PartsKept DEF Kept
<1>1. ASSUME NEW r \in Requests, Create(r) PROVE \A p \in parts' : PartFits(p)'
  <2>1. made + 1 \in Ids
    BY <1>1, <1>t DEF Create, Begin, Ids
  <2> QED
    BY <1>1, <1>b, <2>1 DEF Create
<1>2. ASSUME NEW t \in Ids, Retry(t) PROVE \A p \in parts' : PartFits(p)'
  <2>1. made + 1 \in Ids
    BY <1>2, <1>t DEF Retry, Begin, Ids
  <2> QED
    BY <1>2, <1>b, <2>1 DEF Retry
<1>3. CASE Restart \/ \E r \in Requests : RestartInCreate(r)
  BY <1>3, <1>r DEF Restart, RestartInCreate
<1>4. CASE ClearCompleted \/ (\E c \in Conns : ConnectionBack(c)) \/ Stopped \/ UNCHANGED vars
  BY <1>4, <1>k DEF ClearCompleted, ConnectionBack, Stopped, vars, abortVars
<1>5. ASSUME NEW t \in Ids, Cancel(t) PROVE \A p \in parts' : PartFits(p)'
  BY <1>5, <1>a DEF Cancel
<1>6. ASSUME NEW c \in Conns, ConnectionLost(c) PROVE \A p \in parts' : PartFits(p)'
  BY <1>6, <1>a DEF ConnectionLost
<1>7. CASE Shutdown
  BY <1>7, <1>a DEF Shutdown
<1>8. ASSUME NEW t \in Ids, RunStep(t) \/ (UserStep(t) /\ ~Retry(t) /\ ~Cancel(t))
                            \/ \E w \in Pool : StreamFails(t, w)
      PROVE  \A p \in parts' : PartFits(p)'
  BY <1>8, <1>t, OwnStepParts DEF UserStep
<1> QED
  BY <1>1, <1>2, <1>3, <1>4, <1>5, <1>6, <1>7, <1>8 DEF Next, UserStep

-----------------------------------------------------------------------------
(* The theorems                                                            *)

(* Nothing has been created yet.                                           *)
LEMMA InitInvariant ==
    ASSUME Init
    PROVE  IInv
<1>t. TypeOK
  <2>1. /\ request \in [Ids -> Requests \cup {NoRequest}] /\ origin \in [Ids -> 0..MaxTransfers]
        /\ receipt \in [Requests -> 0..MaxTransfers] /\ made \in 0..MaxTransfers
    BY TransferAssumption DEF Init
  <2>2. Idle \in Progress
    BY TransferAssumption DEF Idle, Progress
  <2>3. run \in [Ids -> Progress]
    BY <2>2 DEF Init
  <2>4. losses \in 0..MaxLosses /\ restarts \in 0..MaxRestarts
    BY TransferAssumption DEF Init
  <2>5. /\ state \in [Ids -> RowStates] /\ pending \in [Ids -> Decisions]
        /\ work \in [Ids -> [0..PoolSize -> Stages]] /\ cause \in [Ids -> Causes]
    BY DEF Init, RowStates, Decisions, Stages, Causes
  <2> QED
    BY <2>1, <2>3, <2>4, <2>5 DEF Init, TypeOK
<1>1. ASSUME NEW t \in Ids
      PROVE  ControlFits(t) /\ ShownFits(t) /\ CountFits(t) /\ CauseFits(t) /\ BirthFits(t)
  <2>0. /\ t \notin active /\ t \notin aborted /\ t \notin requests /\ state[t] = "none"
        /\ run[t] = Idle /\ pending[t] = {} /\ origin[t] = 0 /\ cause[t] = "none" /\ made = 0
        /\ \A w \in 0..PoolSize : work[t][w] = "off"
    BY <1>1 DEF Init
  <2>1. 0 \in 0..PoolSize /\ Pool \subseteq 0..PoolSize /\ ~(t <= 0)
    BY TransferAssumption DEF Pool, Ids
  <2>2. /\ run[t].at = "idle" /\ run[t].handles = 0 /\ run[t].jobs = 0 /\ run[t].cursor = 0
        /\ run[t].handled = 0
    BY <2>0 DEF Idle
  <2>3. Busy(t) = {} /\ Askers(t) = {}
    BY <2>0, <2>1 DEF Busy, Askers, Asking
  <2>4. Cardinality(Busy(t)) = 0
    BY <2>3, FS_EmptySet
  <2>5. ControlFits(t)
    BY <2>0, <2>1, <2>2, <2>3 DEF ControlFits
  <2>6. ShownFits(t)
    BY <2>0, <2>3 DEF ShownFits, Under, UnderWay
  <2>7. CountFits(t)
    BY <2>0, <2>2, <2>4 DEF CountFits
  <2>8. CauseFits(t)
    BY <2>0 DEF CauseFits
  <2>9. BirthFits(t)
    BY <2>0, <2>1, <2>2 DEF BirthFits
  <2> QED
    BY <2>5, <2>6, <2>7, <2>8, <2>9
<1>2. Listed
  <2>1. requests \ active = {} /\ active \subseteq requests /\ \A t \in Ids : origin[t] = 0
    BY DEF Init
  <2>2. Cardinality(requests \ active) = 0
    BY <2>1, FS_EmptySet
  <2> QED
    BY <2>1, <2>2, TransferAssumption DEF Listed, RetriedOnce, RetainedForRetry
<1>3. \A p \in parts : PartFits(p)
  BY DEF Init
<1> QED
  BY <1>t, <1>1, <1>2, <1>3 DEF IInv

(* The invariant holds of every state.                                     *)
LEMMA Invariance == Spec => []IInv
<1>1. Init => IInv
  BY InitInvariant
<1>2. IInv /\ [Next]_vars => IInv'
  <2> SUFFICES ASSUME IInv, [Next]_vars PROVE IInv'
    OBVIOUS
  <2>1. TypeOK'
    BY TypeStep
  <2>2. \A u \in Ids : Fits(u)'
    BY FitsStep
  <2>3. (\A u \in Ids : BirthFits(u)') /\ Listed'
    BY ListsStep
  <2>4. \A p \in parts' : PartFits(p)'
    BY PartsStep
  <2> QED
    BY <2>1, <2>2, <2>3, <2>4 DEF IInv, Fits
<1> QED
  BY <1>1, <1>2, PTL DEF Spec

(* Every variable of transfer-service.ts keeps its type: among others, no  *)
(* listener, abort or pause belongs to a transfer that is not active, and  *)
(* run() opens at most two handles.                                        *)
THEOREM TypeCorrect == Spec => []TypeOK
<1>1. IInv => TypeOK
  BY DEF IInv
<1> QED
  BY <1>1, Invariance, PTL

(* run() and runPool() release what they took on every path: the handles   *)
(* outlive the streams, and nothing outlives its transfer.                 *)
THEOREM EverythingReleased == Spec => []ResourcesOwned
<1>1. ASSUME IInv PROVE ResourcesOwned
  <2>1. ASSUME NEW t \in Ids \ active
        PROVE  /\ t \notin subs /\ run[t].handles = 0 /\ pending[t] = {}
               /\ \A w \in 0..PoolSize : work[t][w] = "off"
    <3>1. /\ ControlFits(t) /\ t \notin subs
      BY <1>1, <2>1 DEF IInv, TypeOK
    <3>2. run[t].at = "idle" /\ run[t].handles = 0 /\ work[t][0] = "off"
      BY <2>1, <3>1 DEF ControlFits
    <3> QED
      BY <1>1, <3>1, <3>2, Asleep
  <2>2. ASSUME NEW t \in Ids, NEW w \in Pool, work[t][w] # "off"
        PROVE  run[t].at = "pool" /\ run[t].handles = Len(Ends[request[t]])
    BY <1>1, <2>2 DEF IInv, ControlFits, Busy
  <2> QED
    BY <2>1, <2>2 DEF ResourcesOwned, OwnedByActive, StreamsInChannel
<1> QED
  BY <1>1, Invariance, PTL

(* A transfer that succeeded has handled every file its walk had found,    *)
(* whatever its workers failed at or were aborted in.                      *)
THEOREM SuccessIsComplete == Spec => []SucceededComplete
<1>1. IInv => SucceededComplete
  BY DEF IInv, CountFits, SucceededComplete
<1> QED
  BY <1>1, Invariance, PTL

(* The outcome names the first of the user and a lost connection, unless   *)
(* the process died before it was carried out.                             *)
THEOREM FirstCauseNamed == Spec => []FirstCauseWins
<1>1. IInv => FirstCauseWins
  BY DEF IInv, CauseFits, FirstCauseWins
<1> QED
  BY <1>1, Invariance, PTL

(* What is shown of a transfer is what its workers do: the gate is closed  *)
(* exactly while it is paused, and a decision is awaited exactly while     *)
(* one worker takes it.                                                    *)
THEOREM ShownIsDone == Spec => []StateHonest
<1>1. ASSUME IInv PROVE StateHonest
  <2>1. PauseHonest
    BY <1>1 DEF IInv, ShownFits, PauseHonest, TypeOK
  <2>2. ASSUME NEW t \in active \ aborted
        PROVE  /\ pending[t] = Askers(t)
               /\ state[t] = "awaiting-decision" <=> Cardinality(Askers(t)) = 1
    <3>1. ShownFits(t) /\ pending[t] \in Decisions
      BY <1>1, <2>2 DEF IInv, TypeOK
    <3>2. Askers(t) = {} \/ \E w \in 0..PoolSize : Askers(t) = {w}
      BY <3>1 DEF ShownFits, Decisions
    <3>3. /\ Askers(t) = {} => Cardinality(Askers(t)) = 0
          /\ (\E w \in 0..PoolSize : Askers(t) = {w}) => Cardinality(Askers(t)) = 1
      BY FS_EmptySet, FS_Singleton
    <3> QED
      BY <2>2, <3>1, <3>2, <3>3 DEF ShownFits
  <2> QED
    BY <2>1, <2>2 DEF StateHonest, DecisionPending, Askers
<1> QED
  BY <1>1, Invariance, PTL

(* A .part file outlives its worker only where its own unlink() was tried  *)
(* and rejected, or the process died: no way out of a worker, of its pool  *)
(* or of run() forgets one.                                                *)
THEOREM NoPartLeft == Spec => []PartsCleaned
<1>1. IInv => PartsCleaned
  BY DEF IInv, PartFits, PartsCleaned
<1> QED
  BY <1>1, Invariance, PTL

(* A row of transfer_history says that a transfer is under way exactly     *)
(* while this process runs it.                                             *)
THEOREM RowsFollowRuns == Spec => []NoOrphans
<1>1. IInv => NoOrphans
  BY DEF IInv, ShownFits, NoOrphans
<1> QED
  BY <1>1, Invariance, PTL

(* A failed row is retried once at most, and no more than MaxRetained      *)
(* requests are kept for it.                                               *)
THEOREM RetriesBounded == Spec => []RetryHonest
<1>1. IInv => RetryHonest
  BY DEF IInv, Listed, RetryHonest
<1> QED
  BY <1>1, Invariance, PTL

(* A create() call that is repeated with its key, also after a crash in    *)
(* the middle of it, runs one transfer.                                    *)
THEOREM OneRunPerKey == Spec => []KeyRunsOnce
<1>1. ASSUME IInv PROVE KeyRunsOnce
  BY <1>1 DEF IInv, BirthFits, KeyRunsOnce
<1> QED
  BY <1>1, Invariance, PTL

=============================================================================
