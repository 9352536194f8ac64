------------------------------ MODULE Transfer ------------------------------
(***************************************************************************)
(* TransferService (packages/runtime/src/application/transfer-service.ts): *)
(* SFTP and FTP uploads, downloads and remote copies, file by file.        *)
(*                                                                         *)
(* A transfer is one ManagedTransfer: run[t] is where its run() awaits,    *)
(* work[t][w] where worker w of its runPool() does, and worker 0 is the    *)
(* walk over the directory tree that precedes the pool.  Everything but    *)
(* the rows of transfer_history (`state'), the idempotency records and the *)
(* files on disk is lost when the process dies.                            *)
(***************************************************************************)
EXTENDS Integers, FiniteSets, Sequences

CONSTANTS
    Requests,     \* what clients ask for, each under its own Idempotency-Key
    NoRequest,    \* the request of a transfer not created yet
    Conns,        \* SSH and FTP connections
    Ends,         \* the connections a request opens file handles on, in order
    Ftp,          \* the requests with protocol ftp
    Asks,         \* the requests whose conflict policy is ask
    PoolSize,     \* TRANSFER_CONCURRENCY
    MaxActive,    \* MAX_ACTIVE_TRANSFERS
    MaxRetained,  \* MAX_RETRY_TRANSFERS
    MaxTransfers, \* bound: transfers created
    MaxFiles,     \* bound: files of a transfer
    MaxLosses,    \* bound: connections lost
    MaxRefusals,  \* bound: .part files whose unlink() is rejected
    MaxRestarts   \* bound: restarts of the runtime

ASSUME TransferAssumption ==
    /\ NoRequest \notin Requests
    /\ Ends \in [Requests -> {<<c>> : c \in Conns} \cup (Conns \X Conns)]
    /\ Ftp \subseteq Requests /\ Asks \subseteq Requests
    /\ PoolSize \in Nat \ {0} /\ MaxActive \in Nat \ {0} /\ MaxRetained \in Nat
    /\ MaxTransfers \in Nat /\ MaxFiles \in Nat
    /\ MaxLosses \in Nat /\ MaxRefusals \in Nat /\ MaxRestarts \in Nat

Ids  == 1..MaxTransfers     \* a transfer is known by its place in creation order
Pool == 1..PoolSize
Terminal == {"succeeded", "failed", "canceled"}
Stages == {"off", "target", "ask", "resolved", "stream", "commit", "unlink"}

VARIABLES
    conn,      \* connections: up while handle() answers
    losses,    \* how many were lost
    phase,     \* the runtime: up, stopping (closeAll() awaits) or stopped
    restarts,  \* how often it was started again
    made,      \* transfers created
    request,   \* managed.request
    origin,    \* the transfer this one retries, 0 for none
    receipt,   \* idempotency_records: the transfer of a request, 0 for none
    state,     \* metadata.state and its row; cleared once the row is deleted
    active,    \* the `active' map
    requests,  \* the `requests' map, in creation order
    subs,      \* transfers with onClose listeners on their connections
    aborted,   \* managed.abort is aborted
    lost,      \* managed.connectionLost
    paused,    \* managed.paused: chunks wait for pausePromise
    applied,   \* managed.appliedConflictStrategy is set
    pending,   \* managed.pendingConflict: the worker that awaits the decision
    run,       \* progress of run()
    work,      \* progress of its workers
    parts,     \* .part files that exist: <<transfer, worker>>
    cause,     \* history: what aborted the transfer first
    killed,    \* history: transfers that were active when the process died
    refused    \* history: the .part files whose unlink() was tried and rejected

connVars   == <<conn, losses>>
hostVars   == <<phase, restarts>>
bornVars   == <<made, request, origin, receipt>>
ownVars    == <<active, requests, subs>>
abortVars  == <<aborted, lost, cause, killed>>
gateVars   == <<paused, applied>>
vars == <<connVars, hostVars, bornVars, state, ownVars, abortVars, gateVars, pending,
          run, work, parts, refused>>

Idle == [at |-> "idle", failed |-> FALSE, handles |-> 0, previous |-> "none",
         jobs |-> 0, cursor |-> 0, handled |-> 0]

UnderWay == {"preparing", "awaiting-decision", "running", "paused"}
Progress == [at : {"idle", "grant", "open", "prepare", "pool", "close"},
             failed : BOOLEAN, handles : 0..2, previous : UnderWay \cup {"none"},
             jobs : 0..MaxFiles, cursor : 0..MaxFiles, handled : 0..MaxFiles]
RowStates == Terminal \cup UnderWay \cup {"none", "cleared"}
Decisions == {{w} : w \in 0..PoolSize} \cup {{}}
Causes == {"none", "user", "loss"}

TypeOK ==
    /\ conn \in [Conns -> {"up", "down"}] /\ losses \in 0..MaxLosses
    /\ phase \in {"up", "stopping", "stopped"} /\ restarts \in 0..MaxRestarts
    /\ made \in 0..MaxTransfers
    /\ request \in [Ids -> Requests \cup {NoRequest}]
    /\ origin \in [Ids -> 0..MaxTransfers]
    /\ receipt \in [Requests -> 0..MaxTransfers]
    /\ state \in [Ids -> RowStates]
    /\ active \subseteq Ids /\ requests \subseteq Ids /\ subs \subseteq active
    /\ aborted \subseteq active /\ lost \subseteq aborted
    /\ paused \subseteq active /\ applied \subseteq active
    /\ pending \in [Ids -> Decisions]
    /\ run \in [Ids -> Progress]
    /\ work \in [Ids -> [0..PoolSize -> Stages]]
    /\ parts \subseteq Ids \X Pool /\ refused \subseteq Ids \X Pool
    /\ cause \in [Ids -> Causes] /\ killed \subseteq Ids

Init ==
    /\ conn = [c \in Conns |-> "up"] /\ losses = 0
    /\ phase = "up" /\ restarts = 0
    /\ made = 0
    /\ request = [t \in Ids |-> NoRequest] /\ origin = [t \in Ids |-> 0]
    /\ receipt = [r \in Requests |-> 0]
    /\ state = [t \in Ids |-> "none"]
    /\ active = {} /\ requests = {} /\ subs = {}
    /\ aborted = {} /\ lost = {} /\ paused = {} /\ applied = {}
    /\ pending = [t \in Ids |-> {}]
    /\ run = [t \in Ids |-> Idle]
    /\ work = [t \in Ids |-> [w \in 0..PoolSize |-> "off"]]
    /\ parts = {} /\ cause = [t \in Ids |-> "none"] /\ killed = {} /\ refused = {}

-----------------------------------------------------------------------------
(* The end of run()                                                        *)

(* The oldest requests of transfers that are not active are dropped until  *)
(* MaxRetained of them are left.                                           *)
Evict(reqs, act) ==
    LET excess == Cardinality(reqs) - Cardinality(act) - MaxRetained
    IN  {t \in reqs : t \in act \/ Cardinality({u \in reqs \ act : u <= t}) > excess}

Outcome(t, ok) ==
    IF ok THEN "succeeded"
    ELSE IF t \in aborted /\ t \notin lost THEN "canceled" ELSE "failed"

KeepsListening(t) == subs
Unsubscribed(t) == subs \ {t}

(* transition() to the outcome and the finally block.                      *)
Settle(t, ok) ==
    /\ state' = [state EXCEPT ![t] = Outcome(t, ok)]
    /\ subs' = Unsubscribed(t) /\ active' = active \ {t}
    /\ requests' = Evict(IF ok THEN requests \ {t} ELSE requests, active \ {t})
    /\ aborted' = aborted \ {t} /\ lost' = lost \ {t}
    /\ paused' = paused \ {t} /\ applied' = applied \ {t}
    /\ run' = [run EXCEPT ![t] = [@ EXCEPT !.at = "idle", !.failed = FALSE, !.handles = 0]]
    /\ UNCHANGED <<connVars, hostVars, bornVars, cause, killed, pending, work, parts, refused>>

-----------------------------------------------------------------------------
(* create() and retry()                                                    *)

Connected(r) == \A i \in DOMAIN Ends[r] : conn[Ends[r][i]] = "up"

(* create(): the transfer is registered and run() goes to its first await; *)
(* for SSH it throws at once when a connection is not ready.  `freed' is   *)
(* the request that retry() deletes afterwards.                            *)
Begin(r, from, freed) ==
    LET t == made + 1 IN
    /\ Cardinality(active) < MaxActive
    /\ made < MaxTransfers /\ made' = t
    /\ request' = [request EXCEPT ![t] = r]
    /\ origin' = [origin EXCEPT ![t] = from]
    /\ \/ /\ Connected(r) \/ r \in Ftp
          /\ active' = active \cup {t}
          /\ requests' = (requests \cup {t}) \ freed
          /\ subs' = IF r \in Ftp THEN subs ELSE subs \cup {t}
          /\ state' = [state EXCEPT ![t] = "preparing"]
          /\ run' = [run EXCEPT ![t] =
                        [Idle EXCEPT !.at = IF Len(Ends[r]) = 2 THEN "open" ELSE "grant"]]
       \/ /\ ~Connected(r) /\ r \notin Ftp
          /\ requests' = Evict(requests \cup {t}, active) \ freed
          /\ state' = [state EXCEPT ![t] = "failed"]
          /\ UNCHANGED <<active, subs, run>>
    /\ UNCHANGED <<connVars, hostVars, abortVars, gateVars, pending, work, parts, refused>>

(* A key that has a record is answered with it, and nothing changes.       *)
AlwaysFresh(r) == TRUE
Fresh(r) == receipt[r] = 0

Create(r) ==
    /\ phase = "up"
    /\ Fresh(r)
    /\ Begin(r, 0, {})
    /\ receipt' = [receipt EXCEPT ![r] = made + 1]

KeepsRequest(t) == {}
Spent(t) == {t}

Retry(t) ==
    /\ phase = "up"
    /\ state[t] \in {"failed", "canceled"} /\ t \in requests
    /\ Connected(request[t])
    /\ Begin(request[t], t, Spent(t))
    /\ UNCHANGED receipt

ClearCompleted ==
    /\ phase = "up"
    /\ state' = [t \in Ids |-> IF state[t] \in Terminal THEN "cleared" ELSE state[t]]
    /\ requests' = requests \cap active
    /\ UNCHANGED <<connVars, hostVars, bornVars, active, subs, abortVars, gateVars, pending,
                   run, work, parts, refused>>

-----------------------------------------------------------------------------
(* cancel(), pause(), resume(), decideConflict()                           *)

Asking(t, w) == work[t][w] = "ask"

(* abort() wakes a worker that awaits a decision, and it throws; a worker  *)
(* that streams is torn down by its pipeline at a step of its own.         *)
NeverWakes(t, w) == FALSE
Wakes(t, w) == Asking(t, w)

Abort(T) ==
    /\ aborted' = aborted \cup T
    /\ paused' = paused \ T
    /\ pending' = [t \in Ids |-> IF t \in T /\ \E w \in pending[t] : Wakes(t, w)
                                 THEN {} ELSE pending[t]]
    /\ work' = [t \in Ids |-> [w \in 0..PoolSize |->
                    IF t \in T /\ Wakes(t, w) THEN "off" ELSE work[t][w]]]
    /\ run' = [t \in Ids |->
                  IF t \in T /\ Wakes(t, 0)
                  THEN [run[t] EXCEPT !.failed = TRUE, !.at = "close"]
                  ELSE IF t \in T /\ \E w \in Pool : Wakes(t, w)
                  THEN [run[t] EXCEPT !.failed = TRUE] ELSE run[t]]

Blame(T, what) ==
    cause' = [t \in Ids |-> IF t \in T /\ cause[t] = "none" THEN what ELSE cause[t]]

Cancel(t) ==
    /\ phase = "up"
    /\ t \in active
    /\ Abort({t}) /\ Blame({t}, "user")
    /\ UNCHANGED <<connVars, hostVars, bornVars, state, ownVars, lost, killed, applied, parts,
                   refused>>

Gate(t, s) ==
    /\ state' = [state EXCEPT ![t] = s]
    /\ UNCHANGED <<connVars, hostVars, bornVars, ownVars, abortVars, applied, pending, run,
                   work, parts, refused>>

Pause(t) ==
    /\ phase = "up"
    /\ t \in active /\ state[t] = "running"
    /\ paused' = paused \cup {t}
    /\ Gate(t, "paused")

StaysShut(t) == paused
Opens(t) == paused \ {t}
Resume(t) ==
    /\ phase = "up"
    /\ t \in active /\ state[t] = "paused"
    /\ paused' = Opens(t)
    /\ Gate(t, "running")

(* The decision restores the state the conflict interrupted.               *)
Decide(t, all) ==
    /\ phase = "up"
    /\ t \in active /\ pending[t] # {} /\ state[t] = "awaiting-decision"
    /\ applied' = IF all THEN applied \cup {t} ELSE applied
    /\ state' = [state EXCEPT ![t] = run[t].previous]
    /\ pending' = [pending EXCEPT ![t] = {}]
    /\ work' = [work EXCEPT ![t] = [w \in 0..PoolSize |->
                   IF w \notin pending[t] THEN @[w]
                   ELSE IF w = 0 THEN "off" ELSE "resolved"]]
    /\ UNCHANGED <<connVars, hostVars, bornVars, ownVars, abortVars, paused, run, parts, refused>>

-----------------------------------------------------------------------------
(* run() before its pool                                                   *)

InRun(t, at) == t \in active /\ run[t].at = at
OnlyRun == UNCHANGED <<connVars, hostVars, bornVars, ownVars, abortVars, gateVars, parts,
                       refused>>

(* resolveGrant() or resolveGrantTransferPath() answers.                   *)
GrantResolved(t) ==
    /\ InRun(t, "grant")
    /\ \/ /\ run' = [run EXCEPT ![t] = [@ EXCEPT !.at = "open"]]
          /\ UNCHANGED <<state, pending, work>> /\ OnlyRun
       \/ Settle(t, FALSE)

(* openSftp() or openFiles() of the next connection.                       *)
Opened(t) ==
    LET ends == Ends[request[t]]
        n == run[t].handles + 1
    IN
    /\ InRun(t, "open")
    /\ \/ /\ conn[ends[n]] = "up"
          /\ run' = [run EXCEPT ![t] =
                [@ EXCEPT !.handles = n, !.at = IF n = Len(ends) THEN "prepare" ELSE "open"]]
          /\ UNCHANGED <<state, pending, work>> /\ OnlyRun
       \/ IF n = 1 THEN Settle(t, FALSE)
          ELSE /\ run' = [run EXCEPT ![t] = [@ EXCEPT !.at = "close", !.failed = TRUE]]
               /\ UNCHANGED <<state, pending, work>> /\ OnlyRun

(* resolveConflictStrategy() finds no strategy yet: worker w awaits one,   *)
(* or throws at once when the transfer is aborted.                         *)
AskConflict(t, w) ==
    /\ request[t] \in Asks /\ t \notin applied
    /\ state' = [state EXCEPT ![t] = "awaiting-decision"]
    /\ IF t \in aborted
       THEN /\ work' = [work EXCEPT ![t][w] = "off"]
            /\ run' = [run EXCEPT ![t] =
                  [@ EXCEPT !.failed = TRUE, !.at = IF w = 0 THEN "close" ELSE "pool"]]
            /\ UNCHANGED pending
       ELSE /\ work' = [work EXCEPT ![t][w] = "ask"]
            /\ run' = [run EXCEPT ![t] = [@ EXCEPT !.previous = state[t]]]
            /\ pending' = [pending EXCEPT ![t] = {w}]
    /\ OnlyRun

WalkAsks(t) == InRun(t, "prepare") /\ ~Asking(t, 0) /\ AskConflict(t, 0)

(* The walk is done: the transfer is running, and each worker of the pool  *)
(* takes a file unless the transfer is aborted.                            *)
Workers(t) == IF request[t] \in Asks THEN 1 ELSE PoolSize

Prepared(t) ==
    /\ InRun(t, "prepare") /\ ~Asking(t, 0)
    /\ state' = [state EXCEPT ![t] = "running"]
    /\ \E n \in 0..MaxFiles :
          LET k == IF t \in aborted THEN 0 ELSE IF n < Workers(t) THEN n ELSE Workers(t)
          IN  /\ run' = [run EXCEPT ![t] = [@ EXCEPT !.at = "pool", !.jobs = n, !.cursor = k,
                                                  !.failed = t \in aborted /\ n > 0]]
              /\ work' = [work EXCEPT ![t] = [w \in 0..PoolSize |->
                             IF w \in 1..k THEN "target" ELSE "off"]]
    /\ UNCHANGED pending /\ OnlyRun

WalkFails(t) ==
    /\ InRun(t, "prepare") /\ ~Asking(t, 0)
    /\ run' = [run EXCEPT ![t] = [@ EXCEPT !.at = "close", !.failed = TRUE]]
    /\ UNCHANGED <<state, pending, work>> /\ OnlyRun

-----------------------------------------------------------------------------
(* runPool() and its workers                                               *)

Goes(t, w, stage) == work' = [work EXCEPT ![t][w] = stage]
InPool(t, w, stages) == InRun(t, "pool") /\ work[t][w] \in stages
OnlyWork == UNCHANGED <<connVars, hostVars, bornVars, state, ownVars, abortVars, gateVars,
                        pending>>

(* The loop of a worker after a file: it stops when the pool has failed or *)
(* no file is left, and throws when the transfer is aborted.               *)
Stops(t) == t \in aborted

NextFile(t, w) ==
    LET p == run[t]
        more == ~p.failed /\ p.cursor < p.jobs
        takes == more /\ ~Stops(t)
    IN
    /\ run' = [run EXCEPT ![t] = [p EXCEPT !.handled = p.handled + 1,
                                        !.cursor = IF takes THEN p.cursor + 1 ELSE p.cursor,
                                        !.failed = p.failed \/ (more /\ Stops(t))]]
    /\ Goes(t, w, IF takes THEN "target" ELSE "off")

GivesUpQuietly(t, w) == UNCHANGED run /\ Goes(t, w, "off")
WorkerFails(t, w) ==
    /\ run' = [run EXCEPT ![t] = [@ EXCEPT !.failed = TRUE]]
    /\ Goes(t, w, "off")

(* The destination is free, or the strategy lets the worker write: its     *)
(* pipeline creates a .part file.                                          *)
TargetFound(t, w) ==
    /\ InPool(t, w, {"target", "resolved"})
    /\ Goes(t, w, "stream")
    /\ parts' = parts \cup {<<t, w>>}
    /\ UNCHANGED <<run, refused>> /\ OnlyWork

Skipped(t, w) ==
    /\ InPool(t, w, {"target", "resolved"})
    /\ (request[t] \in Asks /\ t \notin applied) => work[t][w] = "resolved"
    /\ NextFile(t, w)
    /\ UNCHANGED <<parts, refused>> /\ OnlyWork

TargetFails(t, w) ==
    /\ InPool(t, w, {"target", "resolved"})
    /\ WorkerFails(t, w)
    /\ UNCHANGED <<parts, refused>> /\ OnlyWork

FileAsks(t, w) == InPool(t, w, {"target"}) /\ AskConflict(t, w)

(* The last chunk passes the gate of progress(); what is left of the       *)
(* pipeline and the rename belong to `commit'.                             *)
Streamed(t, w) ==
    /\ InPool(t, w, {"stream"})
    /\ t \notin paused /\ t \notin aborted
    /\ Goes(t, w, "commit")
    /\ UNCHANGED <<run, parts, refused>> /\ OnlyWork

(* The pipeline or the commit rejects: an abort, a lost connection or an   *)
(* error of the file systems.                                              *)
StreamFails(t, w) ==
    /\ InPool(t, w, {"stream", "commit"})
    /\ Goes(t, w, "unlink")
    /\ UNCHANGED <<run, parts, refused>> /\ OnlyWork

Committed(t, w) ==
    /\ InPool(t, w, {"commit"})
    /\ parts' = parts \ {<<t, w>>}
    /\ NextFile(t, w)
    /\ UNCHANGED refused /\ OnlyWork

(* The worker unlinks its .part file, aborted or not.  Whatever rejects it *)
(* (the connection, the server, permissions, the disk) is swallowed, and   *)
(* the file stays.                                                         *)
UnlinksUnlessAborted(t, w) == IF t \in aborted THEN parts ELSE parts \ {<<t, w>>}
Unlinks(t, w) == parts \ {<<t, w>>}
Unlinked(t, w) ==
    /\ InPool(t, w, {"unlink"})
    /\ \/ parts' = Unlinks(t, w) /\ UNCHANGED refused
       \/ /\ Cardinality(refused) < MaxRefusals
          /\ refused' = refused \cup {<<t, w>>} /\ UNCHANGED parts
    /\ WorkerFails(t, w)
    /\ OnlyWork

(* Promise.all() of the workers, which never reject.                       *)
FailsFast(t) == run[t].failed \/ \A w \in Pool : work[t][w] = "off"
PoolSettled(t) == \A w \in Pool : work[t][w] = "off"

PoolDone(t) ==
    /\ InRun(t, "pool")
    /\ PoolSettled(t)
    /\ run' = [run EXCEPT ![t] = [@ EXCEPT !.at = "close"]]
    /\ UNCHANGED <<state, pending, work>> /\ OnlyRun

(* The file handles are closed and run() ends.                             *)
Closed(t) ==
    /\ InRun(t, "close")
    /\ Settle(t, ~run[t].failed)

-----------------------------------------------------------------------------
(* Connections, shutdown and restart                                       *)

Uses(t, c) == \E i \in DOMAIN Ends[request[t]] : Ends[request[t]][i] = c
AlwaysHears(t, c) == t \in subs /\ Uses(t, c)
Hears(t, c) == t \in subs \ aborted /\ Uses(t, c)

(* The client closes: its channels are gone and the onClose listeners      *)
(* cancel the transfers.  FTP transfers have no listener.                  *)
ConnectionLost(c) ==
    LET hit == {t \in Ids : Hears(t, c)} IN
    /\ conn[c] = "up" /\ losses < MaxLosses
    /\ conn' = [conn EXCEPT ![c] = "down"] /\ losses' = losses + 1
    /\ lost' = lost \cup hit
    /\ Abort(hit) /\ Blame(hit, "loss")
    /\ UNCHANGED <<hostVars, bornVars, state, ownVars, killed, applied, parts, refused>>

ConnectionBack(c) ==
    /\ conn[c] = "down"
    /\ conn' = [conn EXCEPT ![c] = "up"]
    /\ UNCHANGED <<losses, hostVars, bornVars, state, ownVars, abortVars, gateVars, pending,
                   run, work, parts, refused>>

(* closeAll() cancels and awaits every transfer.                           *)
Shutdown ==
    /\ phase = "up" /\ phase' = "stopping"
    /\ Abort(active) /\ Blame(active, "user")
    /\ UNCHANGED <<connVars, restarts, bornVars, state, ownVars, lost, killed, applied, parts,
                   refused>>

Stopped ==
    /\ phase = "stopping" /\ active = {}
    /\ phase' = "stopped" /\ requests' = {}
    /\ UNCHANGED <<connVars, restarts, bornVars, state, active, subs, abortVars, gateVars,
                   pending, run, work, parts, refused>>

(* The process died, or stopped, and starts again: recoverInterruptedWork()*)
(* fails the rows of the transfers that were under way.                    *)
InterruptedRunning(s) == s \in {"preparing", "running"}
Interrupted(s) == s \in {"preparing", "awaiting-decision", "running", "paused"}
Recovered == [t \in Ids |-> IF Interrupted(state[t]) THEN "failed" ELSE state[t]]

Reset ==
    /\ restarts < MaxRestarts /\ restarts' = restarts + 1
    /\ phase' = "up"
    /\ active' = {} /\ requests' = {} /\ subs' = {}
    /\ aborted' = {} /\ lost' = {} /\ paused' = {} /\ applied' = {}
    /\ pending' = [t \in Ids |-> {}]
    /\ run' = [t \in Ids |-> [run[t] EXCEPT !.at = "idle", !.failed = FALSE, !.handles = 0]]
    /\ work' = [t \in Ids |-> [w \in 0..PoolSize |-> "off"]]
    /\ killed' = killed \cup active
    /\ UNCHANGED <<connVars, cause, parts, refused>>

Restart == Reset /\ state' = Recovered /\ UNCHANGED bornVars

(* The process dies in create() after persist() and before                 *)
(* recordIdempotency(): a row without a record.                            *)
RestartInCreate(r) ==
    /\ phase = "up" /\ receipt[r] = 0
    /\ Cardinality(active) < MaxActive
    /\ made < MaxTransfers /\ made' = made + 1
    /\ Reset
    /\ request' = [request EXCEPT ![made + 1] = r]
    /\ state' = [Recovered EXCEPT ![made + 1] = "failed"]
    /\ UNCHANGED <<origin, receipt>>

-----------------------------------------------------------------------------
WorkerStep(t, w) ==
    \/ TargetFound(t, w) \/ Skipped(t, w) \/ TargetFails(t, w) \/ FileAsks(t, w)
    \/ Streamed(t, w) \/ Committed(t, w) \/ Unlinked(t, w)

RunStep(t) ==
    \/ GrantResolved(t) \/ Opened(t)
    \/ WalkAsks(t) \/ Prepared(t) \/ WalkFails(t)
    \/ \E w \in Pool : WorkerStep(t, w)
    \/ PoolDone(t) \/ Closed(t)

TornDown(t) == t \in aborted /\ \E w \in Pool : StreamFails(t, w)

UserStep(t) ==
    \/ Retry(t) \/ Cancel(t) \/ Pause(t) \/ Resume(t)
    \/ \E all \in BOOLEAN : Decide(t, all)

Next ==
    \/ \E r \in Requests : Create(r) \/ RestartInCreate(r)
    \/ ClearCompleted
    \/ \E t \in Ids : UserStep(t) \/ RunStep(t) \/ \E w \in Pool : StreamFails(t, w)
    \/ \E c \in Conns : ConnectionLost(c) \/ ConnectionBack(c)
    \/ Shutdown \/ Stopped \/ Restart

Spec == Init /\ [][Next]_vars

(* Every await of run() settles.  A stream fails for certain only when the *)
(* abort signal tears it down: one that is held at the gate may stay there.*)
FairSpec == Spec /\ \A t \in Ids : WF_vars(RunStep(t) \/ TornDown(t))

-----------------------------------------------------------------------------
(* Properties                                                              *)

Under(t) == state[t] \in UnderWay

(* A row says that a transfer is under way exactly when this process runs  *)
(* it: no row is left behind by an end of run(), a crash or a shutdown.    *)
NoOrphans == \A t \in Ids : Under(t) <=> t \in active

(* The resources of a transfer end with it: no listener on a connection,   *)
(* no open file handle and no worker belongs to one that is not active.    *)
OwnedByActive ==
    \A t \in Ids \ active :
        /\ t \notin subs /\ run[t].handles = 0 /\ pending[t] = {}
        /\ \A w \in 0..PoolSize : work[t][w] = "off"

(* Every owned stream settles before its containing SFTP channel is        *)
(* closed: while a worker is busy the pool has not ended and all handles   *)
(* are open, whichever other worker failed.                                *)
StreamsInChannel ==
    \A t \in Ids, w \in Pool :
        work[t][w] # "off" =>
            run[t].at = "pool" /\ run[t].handles = Len(Ends[request[t]])

(* The handles outlive the streams on them and nothing outlives its        *)
(* transfer, on every path of runPool() and run().                         *)
ResourcesOwned == OwnedByActive /\ StreamsInChannel

(* At most MaxRetained requests are kept for a retry, and only requests of *)
(* transfers that did not succeed and are still listed.                    *)
RetainedForRetry ==
    /\ Cardinality(requests \ active) <= MaxRetained
    /\ \A t \in requests \ active : state[t] \in {"failed", "canceled"}

(* A single failed row can spawn only one retry.                           *)
RetriedOnce ==
    \A t, u \in Ids : origin[t] # 0 /\ origin[t] = origin[u] => t = u

(* retry() and the eviction of requests agree on what can be retried.      *)
RetryHonest == RetainedForRetry /\ RetriedOnce

(* Repeating a create() call with its key, also across a crash in the      *)
(* middle of it, never makes two transfers touch the destination.          *)
KeyRunsOnce ==
    \A t, u \in Ids :
        /\ request[t] = request[u] /\ request[t] # NoRequest /\ origin[t] = 0 /\ origin[u] = 0
        /\ run[t].cursor > 0 /\ run[u].cursor > 0
        => t = u

(* A transfer that succeeded has handled every file, although workers fail *)
(* and are aborted independently of each other.                            *)
SucceededComplete ==
    \A t \in Ids : state[t] = "succeeded" => run[t].handled = run[t].jobs

(* What aborts a transfer first decides its outcome: it is canceled only   *)
(* after the user's cancel, and never failed after it, even when the       *)
(* connection is lost before run() has ended; and the other way round.     *)
(* Only the process can die before the cancel is carried out: the row of   *)
(* such a transfer is failed at the next start.                            *)
FirstCauseWins ==
    \A t \in Ids :
        /\ state[t] = "canceled" => cause[t] = "user"
        /\ state[t] = "failed" => cause[t] # "user" \/ t \in killed

(* The gate that holds the chunks is closed exactly while the transfer is  *)
(* shown as paused, or will be when its conflict is decided.               *)
PauseHonest ==
    \A t \in active \ aborted :
        t \in paused <=>
            \/ state[t] = "paused"
            \/ (state[t] = "awaiting-decision" /\ run[t].previous = "paused")

(* A transfer shown as awaiting a decision has one worker that takes it.   *)
DecisionPending ==
    \A t \in active \ aborted :
        LET askers == {w \in 0..PoolSize : Asking(t, w)}
        IN  pending[t] = askers /\ (state[t] = "awaiting-decision" <=> Cardinality(askers) = 1)

(* What the user sees of a transfer is what its workers do, after any      *)
(* sequence of pause(), resume(), conflicts and their decisions.           *)
StateHonest == PauseHonest /\ DecisionPending

(* Holding(t, w): worker w is between the creation of its .part file and   *)
(* the rename or the unlink() that ends it.                                *)
Holding(t, w) == run[t].at = "pool" /\ work[t][w] \in {"stream", "commit", "unlink"}

(* No way out of a worker, of its pool or of run() forgets a .part file:   *)
(* one that nobody holds any more is there because its own unlink() was    *)
(* tried and rejected, or because the process died under its worker.       *)
PartsCleaned ==
    \A p \in parts : Holding(p[1], p[2]) \/ p \in refused \/ p[1] \in killed

(* A canceled transfer ends, also one that is paused, that awaits a        *)
(* decision or that a shutdown or a lost connection cancels.               *)
CancelEnds == \A t \in Ids : t \in aborted ~> t \notin active

(* A transfer ends unless it waits for the user.                           *)
EndsOrWaits ==
    \A t \in Ids :
        t \in active ~> t \notin active \/ state[t] \in {"paused", "awaiting-decision"}

(* Only the user can hold a transfer up, and not a canceled one: run().    *)
Terminates == CancelEnds /\ EndsOrWaits

=============================================================================
