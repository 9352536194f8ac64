--------------------------- MODULE SshConnection ---------------------------
(***************************************************************************)
(* ConnectionService (packages/runtime/src/application/                    *)
(* connection-service.ts): the life of an SSH connection through a chain   *)
(* of jump hosts.                                                          *)
(*                                                                         *)
(* The service is single-threaded JavaScript: the code between two awaits  *)
(* is one action here, and the interleavings are those of the awaits.  An  *)
(* asynchronous call in progress is a record: a member of `flows' is a     *)
(* run of connect() suspended at one of its awaits, a member of `jobs' a   *)
(* recover(), close() or retry() suspended at one of its own.  A           *)
(* transport is a hop's SSH client, named <<id, generation, hop>>.         *)
(***************************************************************************)
EXTENDS Naturals, FiniteSets

CONSTANTS
    Ids,          \* connection ids (randomUUID: never reused)
    Opened,       \* the ids create() hands to clients; the others serve retry()
    Hops,         \* length of the chain resolveChain() returns
    MaxAttempts,  \* reconnectPolicy.maxAttempts
    MaxGen,       \* bound: the network drops a ready connection only while the
                  \* reconnects that may follow stay within this many connect()
    MaxCalls      \* bound: close() and retry() calls for one connection

ASSUME ConnectionAssumption ==
    /\ Opened \subseteq Ids
    /\ Hops \in Nat \ {0}
    /\ MaxAttempts \in Nat
    /\ MaxGen \in Nat
    /\ MaxCalls \in Nat

VARIABLES
    auto,         \* automatic reconnect: the host's policy or the global setting
    state,        \* metadata.state, the last connection.status published
    live,         \* the keys of the `connections' map
    aborted,      \* connections whose AbortController fired
    everReady,    \* ManagedConnection.everReady
    canceled,     \* ManagedConnection.automaticReconnectCanceled
    recovering,   \* ManagedConnection.recovering
    countdown,    \* connections whose ManagedConnection.nextReconnectAt # null
    announced,    \* connections whose published metadata.nextReconnectAt # null
    timer,        \* connections whose reconnectTimer is armed
    attempt,      \* ManagedConnection.reconnectAttempt
    gen,          \* ManagedConnection.executionGeneration
    handles,      \* ManagedConnection.handles, with onClose subscribed
    grant,        \* connections holding a temporaryCredentialGrantId
    hostGrants,   \* grants the Desktop Host still honours
    transports,   \* SSH clients not closed yet
    ending,       \* the transports on which handle.close() was called
    flows,        \* suspended runs of connect()
    jobs,         \* suspended recover(), close() and retry() calls
    calls         \* close() and retry() calls made so far, to number them

vars == <<auto, state, live, aborted, everReady, canceled, recovering, countdown,
          announced, timer, attempt, gen, handles, grant, hostGrants, transports, ending,
          flows, jobs, calls>>

(* The parts that only some of the actions touch. *)
policyVars == <<everReady, canceled, attempt>>
timerVars  == <<countdown, timer>>
grantVars  == <<grant, hostGrants>>

Hop   == 1..Hops
States == {"none", "resolving", "connecting", "authenticating", "ready",
           "reconnecting", "closing", "closed", "failed"}
Stages == {"grant", "revoke", "revokeFailed", "route", "secrets", "handshake",
           "forward", "discard"}

Transports == Ids \X Nat \X Hop
Flows == [id : Ids, gen : Nat, at : Stages, hop : Hop]
Jobs  == [id : Ids, by : {"recover", "close", "retry"}, call : 0..MaxCalls,
          at : {"revoke", "handles"}, will : BOOLEAN, rest : SUBSET Transports]

Chain(id, g) == {id} \X {g} \X Hop

TypeOK ==
    /\ auto \in BOOLEAN
    /\ state \in [Ids -> States]
    /\ live \subseteq Ids /\ aborted \subseteq Ids /\ everReady \subseteq Ids
    /\ canceled \subseteq Ids /\ recovering \subseteq Ids /\ countdown \subseteq Ids
    /\ announced \subseteq Ids /\ timer \subseteq Ids
    /\ grant \subseteq Ids /\ hostGrants \subseteq Ids
    /\ attempt \in [Ids -> 0..MaxAttempts]
    /\ gen \in [Ids -> Nat]
    /\ handles \in [Ids -> SUBSET Transports]
    /\ transports \subseteq Transports
    /\ ending \subseteq transports
    /\ flows \subseteq Flows
    /\ \A f \in flows : f.at = "forward" => f.hop < Hops
    /\ jobs \subseteq Jobs
    /\ calls \in [Ids -> 0..MaxCalls]

Init ==
    /\ auto \in BOOLEAN
    /\ state = [id \in Ids |-> "none"]
    /\ live = {} /\ aborted = {} /\ everReady = {} /\ canceled = {}
    /\ recovering = {} /\ countdown = {} /\ announced = {} /\ timer = {}
    /\ attempt = [id \in Ids |-> 0]
    /\ gen = [id \in Ids |-> 0]
    /\ handles = [id \in Ids |-> {}]
    /\ grant = {} /\ hostGrants = {}
    /\ transports = {} /\ ending = {}
    /\ flows = {} /\ jobs = {}
    /\ calls = [id \in Ids |-> 0]

-----------------------------------------------------------------------------
(* Helpers                                                                 *)

(* transition() publishes the state together with the nextReconnectAt the  *)
(* managed record holds at that moment: `due' are the connections that     *)
(* have one.                                                               *)
Announce(ids, due) == announced' = (announced \ ids) \cup (due \cap ids)

Transition(id, s, due) ==
    /\ state' = [state EXCEPT ![id] = s]
    /\ Announce({id}, due)

AutoEnabled(id) == auto /\ id \in everReady /\ id \notin canceled

(* The host is reached through a proxy, which is awaited, or directly: the *)
(* loop over the hops then starts at once.                                 *)
Routes == {"route", "secrets"}
StateAt(at, s) == IF at = "secrets" THEN "connecting" ELSE s

(* startConnect(): the generation counts it; connect() runs to its first   *)
(* await.                                                                  *)
StartConnect(id, at) ==
    /\ gen' = [gen EXCEPT ![id] = @ + 1]
    /\ flows' = flows \cup {[id |-> id, gen |-> gen[id] + 1, at |-> at, hop |-> 1]}

(* clearTimeout(reconnectTimer) and nextReconnectAt = null.                *)
StopsTimerOnly(id) == timer' = timer \ {id} /\ UNCHANGED countdown
StopTimer(id) == timer' = timer \ {id} /\ countdown' = countdown \ {id}

(* The early return of recover().                                          *)
IgnoredUnlessAborted(id) == id \in recovering \/ id \notin live
Ignored(id) == id \in recovering \/ id \in aborted \/ id \notin live

OneAttemptMore(id) == AutoEnabled(id) /\ attempt[id] <= MaxAttempts
WillReconnect(id) == AutoEnabled(id) /\ attempt[id] < MaxAttempts

(* closeHandles goes through the handles in reverse, one at a time: close()*)
(* is called on the hop it then waits for.                                 *)
FromTheFirst(rest) == {t \in rest : \A u \in rest : u[3] >= t[3]}
Awaited(rest) == {t \in rest : \A u \in rest : u[3] <= t[3]}

(* recover() up to its await, while `open' are the transports not closed:  *)
(* the handles are spliced out of the managed record and unsubscribed, and *)
(* the job closes them.                                                    *)
Recover(id, open) ==
    IF Ignored(id)
    THEN /\ ending' = ending \cap open
         /\ UNCHANGED <<state, announced, attempt, countdown, recovering, handles, jobs>>
    ELSE /\ recovering' = recovering \cup {id}
         /\ attempt' = [attempt EXCEPT ![id] = IF WillReconnect(id) THEN @ + 1 ELSE @]
         /\ countdown' = IF WillReconnect(id) THEN countdown \cup {id}
                                              ELSE countdown \ {id}
         /\ Transition(id, IF WillReconnect(id) THEN "reconnecting" ELSE "failed",
                       countdown')
         /\ handles' = [handles EXCEPT ![id] = {}]
         /\ ending' = (ending \cup Awaited(handles[id])) \cap open
         /\ jobs' = jobs \cup {[id |-> id, by |-> "recover", call |-> 0,
                                at |-> "handles", will |-> WillReconnect(id),
                                rest |-> handles[id]]}

-----------------------------------------------------------------------------
(* Client calls                                                            *)

(* create(), with a grant for a private key (first await: reading it) or   *)
(* without.                                                                *)
Create(id, at) ==
    /\ id \in Opened
    /\ state[id] = "none"
    /\ live' = live \cup {id}
    /\ grant' = IF at = "grant" THEN grant \cup {id} ELSE grant
    /\ hostGrants' = IF at = "grant" THEN hostGrants \cup {id} ELSE hostGrants
    /\ StartConnect(id, at)
    /\ Transition(id, StateAt(at, "resolving"), countdown)
    /\ UNCHANGED <<auto, aborted, policyVars, recovering, timerVars, handles,
                   transports, ending, jobs, calls>>

UpdateSettings ==
    /\ auto' = ~auto
    /\ UNCHANGED <<state, announced, live, aborted, policyVars, recovering, timerVars, gen,
                   handles, grantVars, transports, ending, flows, jobs, calls>>

CancelReconnect(id) ==
    /\ id \in live
    /\ state[id] = "reconnecting"
    /\ canceled' = canceled \cup {id}
    /\ StopTimer(id)
    /\ Transition(id, "failed", countdown')
    /\ UNCHANGED <<auto, live, aborted, everReady, recovering, attempt, gen,
                   handles, grantVars, transports, ending, flows, jobs, calls>>

(* Ids left for retry(): one is set aside for each retry() under way.      *)
Spare == Cardinality({id \in Ids \ Opened : state[id] = "none"})
            - Cardinality({j \in jobs : j.by = "retry"})

(* close() up to its first await; `by' tells retry()'s close from close(). *)
(* It publishes `closing' before it clears nextReconnectAt: a connection   *)
(* that was waiting to reconnect is shown closing with its countdown.      *)
Close(id, by) ==
    /\ id \in live
    /\ calls[id] < MaxCalls
    /\ by = "retry" => Spare > 0
    /\ calls' = [calls EXCEPT ![id] = @ + 1]
    /\ Transition(id, "closing", countdown)
    /\ StopTimer(id)
    /\ canceled' = canceled \cup {id}
    /\ aborted' = aborted \cup {id}
    /\ grant' = grant \ {id}
    /\ handles' = IF id \in grant THEN handles ELSE [handles EXCEPT ![id] = {}]
    /\ jobs' = jobs \cup {[id |-> id, by |-> by, call |-> calls[id] + 1,
                           at |-> IF id \in grant THEN "revoke" ELSE "handles",
                           will |-> FALSE,
                           rest |-> IF id \in grant THEN {} ELSE handles[id]]}
    /\ ending' = IF id \in grant THEN ending
                 ELSE ending \cup (Awaited(handles[id]) \cap transports)
    /\ UNCHANGED <<auto, live, everReady, recovering, attempt, gen, hostGrants,
                   transports, flows>>

-----------------------------------------------------------------------------
(* connect(): one action per await it resumes from                         *)

Move(f, at, hop) == flows' = (flows \ {f}) \cup {[f EXCEPT !.at = at, !.hop = hop]}

(* readGrantedText settles; either way the grant is revoked next.          *)
FlowReadGrant(f, ok) ==
    /\ f.at = "grant"
    /\ grant' = IF ok THEN grant \ {f.id} ELSE grant
    /\ Move(f, IF ok THEN "revoke" ELSE "revokeFailed", f.hop)
    /\ UNCHANGED <<auto, state, announced, live, aborted, policyVars, recovering, timerVars,
                   gen, handles, hostGrants, transports, ending, jobs, calls>>

FlowRevoked(f) ==
    /\ f.at = "revoke"
    /\ hostGrants' = hostGrants \ {f.id}
    /\ \E at \in Routes :
          /\ Move(f, at, f.hop)
          /\ IF at = "secrets" THEN Transition(f.id, "connecting", countdown)
                               ELSE UNCHANGED <<state, announced>>
    /\ UNCHANGED <<auto, live, aborted, policyVars, recovering, timerVars,
                   gen, handles, grant, transports, ending, jobs, calls>>

(* The proxy route (route) or the jump channel (forward) is there: the     *)
(* loop turns to the next hop and asks for its credentials.  The proxies   *)
(* heed the abort signal, forwardOut does not.                             *)
FlowConnecting(f) ==
    /\ f.at \in {"route", "forward"}
    /\ f.at = "route" => f.id \notin aborted
    /\ f.at = "forward" => <<f.id, f.gen, f.hop>> \in transports
    /\ Transition(f.id, "connecting", countdown)
    /\ Move(f, "secrets", IF f.at = "forward" THEN f.hop + 1 ELSE f.hop)
    /\ UNCHANGED <<auto, live, aborted, policyVars, recovering, timerVars, gen,
                   handles, grantVars, transports, ending, jobs, calls>>

FlowAuthenticating(f) ==
    /\ f.at = "secrets"
    /\ Transition(f.id, "authenticating", countdown)
    /\ Move(f, "handshake", f.hop)
    /\ UNCHANGED <<auto, live, aborted, policyVars, recovering, timerVars, gen,
                   handles, grantVars, transports, ending, jobs, calls>>

(* The check that follows transport.connect, and the handle.close() there. *)
Late(f) == f.id \in aborted \/ f.id \notin live

Kept(t) == ending
Discarded(t) == ending \cup {t}

(* transport.connect resolves.  A handle that arrives after the abort is   *)
(* discarded; the last hop's handle makes the connection ready.            *)
FlowHandshake(f) ==
    LET t == <<f.id, f.gen, f.hop>> IN
    /\ f.at = "handshake"
    /\ \A h \in 1..f.hop - 1 : <<f.id, f.gen, h>> \in transports
    /\ transports' = transports \cup {t}
    /\ \/ /\ Late(f)
          /\ ending' = Discarded(t)
          /\ Move(f, "discard", f.hop)
          /\ UNCHANGED <<handles, state, announced, attempt, countdown, everReady, canceled>>
       \/ /\ ~Late(f) /\ f.hop < Hops
          /\ handles' = [handles EXCEPT ![f.id] = @ \cup {t}]
          /\ Move(f, "forward", f.hop)
          /\ UNCHANGED <<ending, state, announced, attempt, countdown, everReady, canceled>>
       \/ /\ ~Late(f) /\ f.hop = Hops
          /\ handles' = [handles EXCEPT ![f.id] = @ \cup {t}]
          /\ attempt' = [attempt EXCEPT ![f.id] = 0]
          /\ countdown' = countdown \ {f.id}
          /\ everReady' = everReady \cup {f.id}
          /\ canceled' = canceled \ {f.id}
          /\ Transition(f.id, "ready", countdown')
          /\ flows' = flows \ {f}
          /\ UNCHANGED ending
    /\ UNCHANGED <<auto, live, aborted, recovering, timer, gen, grantVars, jobs, calls>>

(* The finally block around readGrantedText.                               *)
GrantKeptOnError(f) == hostGrants
GrantsAfterError(f) == IF f.at = "revokeFailed" THEN hostGrants \ {f.id} ELSE hostGrants

(* connect() throws: any of its awaits rejects, or the discarded handle    *)
(* has closed.  recover() runs at once.                                    *)
FlowFail(f) ==
    /\ f.at # "grant" /\ f.at # "revoke"
    /\ f.at = "discard" => <<f.id, f.gen, f.hop>> \notin transports
    /\ flows' = flows \ {f}
    /\ hostGrants' = GrantsAfterError(f)
    /\ Recover(f.id, transports)
    /\ UNCHANGED <<auto, live, aborted, everReady, canceled, timer, gen, grant,
                   transports, calls>>

-----------------------------------------------------------------------------
(* recover(), close() and retry() resume                                   *)

(* close() has revoked the grant and splices the handles.                  *)
JobRevoked(j) ==
    /\ j.at = "revoke"
    /\ hostGrants' = hostGrants \ {j.id}
    /\ handles' = [handles EXCEPT ![j.id] = {}]
    /\ jobs' = (jobs \ {j}) \cup {[j EXCEPT !.at = "handles", !.rest = handles[j.id]]}
    /\ ending' = ending \cup (Awaited(handles[j.id]) \cap transports)
    /\ UNCHANGED <<auto, state, announced, live, aborted, policyVars, recovering, timerVars,
                   gen, grant, transports, flows, calls>>

(* The handle that closeHandles waits for is closed (it may have been      *)
(* already): the hop before it is asked to close.                          *)
JobEnd(j) ==
    \E t \in Awaited(j.rest) \ transports :
        /\ j.at = "handles"
        /\ jobs' = (jobs \ {j}) \cup {[j EXCEPT !.rest = @ \ {t}]}
        /\ ending' = ending \cup (Awaited(j.rest \ {t}) \cap transports)
        /\ UNCHANGED <<auto, state, announced, live, aborted, policyVars, recovering, timerVars,
                       gen, handles, grantVars, transports, flows, calls>>

MayArmIfIdle(j) == j.will /\ j.id \notin canceled \cup aborted \cup recovering
MayArm(j) ==
    /\ j.will
    /\ j.id \notin canceled
    /\ j.id \notin aborted
    /\ j.id \in live

(* recover() after closeHandles.                                           *)
RecoverDone(j) ==
    /\ j.by = "recover" /\ j.at = "handles" /\ j.rest = {}
    /\ jobs' = jobs \ {j}
    /\ recovering' = recovering \ {j.id}
    /\ timer' = IF MayArm(j) THEN timer \cup {j.id} ELSE timer
    /\ UNCHANGED <<auto, state, announced, live, aborted, policyVars, countdown, gen, handles,
                   grantVars, transports, ending, flows, calls>>

(* close() after closeHandles.                                             *)
CloseDone(j) ==
    /\ j.by = "close" /\ j.at = "handles" /\ j.rest = {}
    /\ jobs' = jobs \ {j}
    /\ Transition(j.id, "closed", countdown)
    /\ live' = live \ {j.id}
    /\ UNCHANGED <<auto, aborted, policyVars, recovering, timerVars, gen, handles,
                   grantVars, transports, ending, flows, calls>>

(* retry() after its close(): the source is opened again, without grant.   *)
RetryDone(j, new) ==
    /\ j.by = "retry" /\ j.at = "handles" /\ j.rest = {}
    /\ new \notin Opened /\ state[new] = "none"
    /\ jobs' = jobs \ {j}
    /\ live' = (live \ {j.id}) \cup {new}
    /\ \E at \in Routes :
          /\ StartConnect(new, at)
          /\ state' = [state EXCEPT ![j.id] = "closed", ![new] = StateAt(at, "resolving")]
    /\ Announce({j.id, new}, countdown)
    /\ UNCHANGED <<auto, aborted, policyVars, recovering, timerVars, handles,
                   grantVars, transports, ending, calls>>

-----------------------------------------------------------------------------
(* Timer and network                                                       *)

TimerFires(id) ==
    /\ id \in timer
    /\ StopTimer(id)
    /\ \/ /\ id \in aborted \/ id \notin live
          /\ UNCHANGED <<state, announced, gen, flows>>
       \/ /\ id \in live \ aborted
          /\ ~AutoEnabled(id)
          /\ Transition(id, "failed", countdown')
          /\ UNCHANGED <<gen, flows>>
       \/ /\ id \in live \ aborted
          /\ AutoEnabled(id)
          /\ \E at \in Routes :
                /\ StartConnect(id, at)
                /\ Transition(id, StateAt(at, "resolving"), countdown')
    /\ UNCHANGED <<auto, live, aborted, policyVars, recovering, handles, grantVars,
                   transports, ending, jobs, calls>>

(* The condition of the onClose listener that connect() registers.         *)
LastHopNotices(t) == t \in handles[t[1]] /\ state[t[1]] = "ready" /\ t[3] = Hops
NoticesAnyTime(t) == t \in handles[t[1]]
Notices(t) == t \in handles[t[1]] /\ state[t[1]] = "ready"

(* The client of a hop emits 'close': the peer or the network dropped it,  *)
(* or the end() of a close() completed (its 1 s timer destroys it).  The   *)
(* onClose listener recovers a ready connection.                           *)
TransportClosed(t) ==
    /\ t \in transports
    /\ transports' = transports \ {t}
    /\ IF Notices(t)
       THEN gen[t[1]] + MaxAttempts <= MaxGen /\ Recover(t[1], transports \ {t})
       ELSE /\ ending' = ending \ {t}
            /\ UNCHANGED <<state, announced, attempt, countdown, recovering, handles, jobs>>
    /\ UNCHANGED <<auto, live, aborted, everReady, canceled, timer, gen, grantVars,
                   flows, calls>>

-----------------------------------------------------------------------------
FlowStep(f) ==
    \/ \E ok \in BOOLEAN : FlowReadGrant(f, ok)
    \/ FlowRevoked(f)
    \/ FlowConnecting(f)
    \/ FlowAuthenticating(f)
    \/ FlowHandshake(f)
    \/ FlowFail(f)

JobStep(j) ==
    \/ JobRevoked(j)
    \/ JobEnd(j)
    \/ RecoverDone(j)
    \/ CloseDone(j)
    \/ \E new \in Ids : RetryDone(j, new)

Next ==
    \/ \E id \in Ids, at \in {"grant"} \cup Routes : Create(id, at)
    \/ UpdateSettings
    \/ \E id \in Ids : CancelReconnect(id)
    \/ \E id \in Ids, by \in {"close", "retry"} : Close(id, by)
    \/ \E f \in flows : FlowStep(f)
    \/ \E j \in jobs : JobStep(j)
    \/ \E id \in Ids : TimerFires(id)
    \/ \E t \in transports : TransportClosed(t)

(***************************************************************************)
(* Every await settles: credentials and proxy calls answer or reject, a    *)
(* handshake has a readyTimeout, handle.close() a one-second timer, and an *)
(* armed setTimeout fires.  Clients and the network are free.              *)
(***************************************************************************)
Fairness ==
    /\ \A id \in Ids : WF_vars(\E f \in flows : f.id = id /\ FlowStep(f))
    /\ \A id \in Ids : WF_vars(\E j \in jobs : j.id = id /\ JobStep(j))
    /\ \A id \in Ids : WF_vars(TimerFires(id))
    /\ \A t \in Ids \X (1..MaxGen) \X Hop : WF_vars(t \in ending /\ TransportClosed(t))

Spec == Init /\ [][Next]_vars
FairSpec == Spec /\ Fairness

-----------------------------------------------------------------------------
(* Safety                                                                  *)

FlowsOf(id) == {f \in flows : f.id = id}
JobsOf(id)  == {j \in jobs : j.id = id}

(* However the failures, timers, retries and closes interleave, at most    *)
(* one run of connect() is under way for a connection, and none while a    *)
(* reconnect is being prepared or its timer is armed.                      *)
SingleFlow ==
    \A id \in Ids :
        /\ \A f, g \in FlowsOf(id) : f = g
        /\ id \in timer \cup recovering => FlowsOf(id) = {}

(* SingleFlow is not inductive by itself: what starts a connect() is a     *)
(* timer, what arms the timer a recover(), and what calls recover() a      *)
(* failed connect() or a closed transport of a ready connection.           *)
Idle(id) == id \notin timer \cup recovering
Recovers(j) == j.by = "recover"

TakesTurns ==
    /\ \A f, g \in flows : f.id = g.id => f = g
    /\ \A f \in flows : Idle(f.id) /\ state[f.id] \notin {"none", "ready"}
    /\ timer \cap recovering = {}
    /\ \A j \in jobs : Recovers(j) => j.id \in recovering
    /\ \A i, j \in jobs : Recovers(i) /\ Recovers(j) /\ i.id = j.id => i = j
    /\ \A id \in Ids : state[id] \in {"none", "ready"} => Idle(id)

(* A connection that says `ready' can be used: handle() returns the last   *)
(* hop of a complete chain of the current generation, every hop of it open *)
(* and none being closed, and no other run of connect() can replace it.    *)
ReadyUsable ==
    \A id \in Ids : state[id] = "ready" =>
        /\ id \in live
        /\ handles[id] = Chain(id, gen[id])
        /\ handles[id] \subseteq transports \ ending
        /\ FlowsOf(id) = {}

(* A connection shown as reconnecting has the moment of the next attempt   *)
(* with it (nextReconnectAt), and the reconnect will be decided: its timer *)
(* is armed, or a recover() has yet to arm it.  The moment is shown with   *)
(* no other state but `closing': close() publishes that state before it    *)
(* clears the moment, so a connection closed while it waits keeps showing  *)
(* it until it is closed, and readers of it look at the state first.       *)
CountdownHonest ==
    \A id \in Ids :
        /\ state[id] = "reconnecting" => id \in announced /\ id \in timer \cup recovering
        /\ id \in announced => state[id] \in {"reconnecting", "closing"}

(* What get() shows of a connection is what can be done with it.           *)
ShownHonest == ReadyUsable /\ CountdownHonest

(* Once close() has aborted a connection, a connect() it interrupts and a  *)
(* recover() it overtakes cannot bring it back: no timer is armed for it   *)
(* and it is never reported ready, failed or waiting again.                *)
ClosedStaysDown ==
    \A id \in aborted :
        /\ id \notin timer
        /\ state[id] \in {"closing", "closed", "connecting", "authenticating"}

(* A private-key grant outlives only the calls that are about to revoke    *)
(* it, whatever fails and whenever the connection is closed.               *)
GrantNotLeaked ==
    \A id \in hostGrants :
        \/ \E f \in FlowsOf(id) : f.at \in {"grant", "revoke", "revokeFailed"}
        \/ \E j \in JobsOf(id) : j.at = "revoke"

Discarding == {<<f.id, f.gen, f.hop>> : f \in {g \in flows : g.at = "discard"}}

(* A hop is asked to close only when no later hop of its chain is left, so *)
(* that no client writes to a channel whose parent protocol is gone.  Only *)
(* a handle that connect() obtained too late and is discarding is exempt:  *)
(* closeHandles does not know it.                                          *)
ChildrenFirst ==
    [][\A t \in ending' \ ending, u \in transports \ Discarding :
          ~(u[1] = t[1] /\ u[2] = t[2] /\ u[3] > t[3])]_<<transports, ending>>

(* After close() or retry() nothing of a connection is left for ever: no   *)
(* SSH client, suspended call, timer or grant, and it leaves the registry. *)
Settled(id) ==
    /\ id \notin live \cup timer \cup hostGrants
    /\ FlowsOf(id) = {} /\ JobsOf(id) = {}
    /\ \A t \in transports : t[1] # id

CloseReleases == \A id \in Ids : id \in aborted ~> Settled(id)

(* A reconnecting connection does not wait for ever: the reconnect starts, *)
(* or the connection fails or is closed.                                   *)
ReconnectDecided ==
    \A id \in Ids : state[id] = "reconnecting" ~> state[id] # "reconnecting"

-----------------------------------------------------------------------------
(* What the documents and tests say and the code does not do               *)

(* MASTER_SPEC 42: open and close come in pairs and no long-lived resource *)
(* is left after a teardown.  A close() that overtakes recover() finds no  *)
(* handle to wait for and publishes closed while the clients are ending.   *)
ClosedHandlesReleased ==
    \A t \in transports \ Discarding : state[t[1]] # "closed"

=============================================================================
