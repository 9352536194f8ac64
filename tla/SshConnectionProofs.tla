------------------------ MODULE SshConnectionProofs ------------------------
(***************************************************************************)
(* Proofs about SshConnection, for every chain length, every set of ids    *)
(* and every bound.                                                        *)
(***************************************************************************)
EXTENDS SshConnection, TLAPS

-----------------------------------------------------------------------------
(* Type correctness                                                        *)

(* closeHandles closes nothing but the handles it was given.               *)
LEMMA AwaitedSubset == ASSUME NEW rest PROVE Awaited(rest) \subseteq rest
BY DEF Awaited

(* What is published is published of connections.                          *)
LEMMA AnnounceType ==
    ASSUME announced \subseteq Ids, NEW ids, NEW due \in SUBSET Ids, Announce(ids, due)
    PROVE  announced' \subseteq Ids
BY DEF Announce

(* What recover() leaves behind is well typed, and it closes none but the  *)
(* transports that are open.                                               *)
LEMMA RecoverType ==
    ASSUME TypeOK, NEW id \in Ids, NEW open \in SUBSET transports, Recover(id, open)
    PROVE  /\ state' \in [Ids -> States]
           /\ attempt' \in [Ids -> 0..MaxAttempts]
           /\ countdown' \subseteq Ids /\ announced' \subseteq Ids /\ recovering' \subseteq Ids
           /\ handles' \in [Ids -> SUBSET Transports]
           /\ ending' \subseteq open
           /\ jobs' \subseteq Jobs
<1>1. CASE Ignored(id)
  BY <1>1 DEF Recover, TypeOK
<1>2. CASE ~Ignored(id)
  <2>1. state' \in [Ids -> States] /\ countdown' \subseteq Ids /\ recovering' \subseteq Ids
    BY <1>2 DEF Recover, Transition, TypeOK, States
  <2>2. attempt' \in [Ids -> 0..MaxAttempts]
    BY <1>2, ConnectionAssumption DEF Recover, WillReconnect, TypeOK
  <2>a. announced' \subseteq Ids
    BY <1>2, <2>1, AnnounceType DEF Recover, Transition, TypeOK
  <2>3. handles' \in [Ids -> SUBSET Transports] /\ ending' \subseteq open
    BY <1>2 DEF Recover, TypeOK
  <2>4. WillReconnect(id) \in BOOLEAN
    BY DEF WillReconnect, AutoEnabled, TypeOK
  <2>5. [id |-> id, by |-> "recover", call |-> 0, at |-> "handles",
         will |-> WillReconnect(id), rest |-> handles[id]] \in Jobs
    BY <2>4, ConnectionAssumption DEF Jobs, TypeOK
  <2> QED
    BY <1>2, <2>1, <2>2, <2>a, <2>3, <2>5 DEF Recover, TypeOK
<1> QED
  BY <1>1, <1>2

(* A connect() that has revoked its grant turns to the route, or publishes *)
(* that it is connecting.                                                  *)
LEMMA RevokedMoves ==
    ASSUME TypeOK, NEW f \in flows, FlowRevoked(f)
    PROVE  \E at \in Routes :
              /\ Move(f, at, f.hop)
              /\ state' = [state EXCEPT ![f.id] = StateAt(at, state[f.id])]
BY DEF FlowRevoked, Routes, StateAt, Transition, TypeOK

(* A step of a connect() keeps the types.                                  *)
LEMMA FlowStepType ==
    ASSUME TypeOK, NEW f \in flows, FlowStep(f)
    PROVE  TypeOK'
<1> USE ConnectionAssumption
<1>f. f \in Flows /\ f.id \in Ids /\ f.hop \in Hop
  BY DEF TypeOK, Flows
<1>m. ASSUME NEW at \in Stages, NEW hop \in Hop, Move(f, at, hop),
             at = "forward" => hop < Hops
      PROVE  flows' \subseteq Flows /\ \A g \in flows' : g.at = "forward" => g.hop < Hops
  BY <1>f, <1>m DEF Move, TypeOK, Flows
<1>1. ASSUME NEW ok \in BOOLEAN, FlowReadGrant(f, ok)
      PROVE  TypeOK'
  <2>1. flows' \subseteq Flows /\ \A g \in flows' : g.at = "forward" => g.hop < Hops
    BY <1>1, <1>f, <1>m DEF FlowReadGrant, Stages
  <2> QED
    BY <1>1, <2>1 DEF FlowReadGrant, TypeOK, policyVars, timerVars
<1>2. CASE FlowRevoked(f)
  <2>1. PICK at \in Routes :
           /\ Move(f, at, f.hop)
           /\ state' = [state EXCEPT ![f.id] = StateAt(at, state[f.id])]
    BY <1>2, RevokedMoves
  <2>2. flows' \subseteq Flows /\ \A g \in flows' : g.at = "forward" => g.hop < Hops
    BY <2>1, <1>f, <1>m DEF Routes, Stages
  <2>3. state' \in [Ids -> States] /\ announced' \subseteq Ids
    BY <1>2, <2>1, <1>f, AnnounceType DEF FlowRevoked, Transition, StateAt, TypeOK, States
  <2> QED
    BY <1>2, <2>2, <2>3 DEF FlowRevoked, TypeOK, policyVars, timerVars
<1>3. CASE FlowConnecting(f)
  <2>1. (IF f.at = "forward" THEN f.hop + 1 ELSE f.hop) \in Hop
    BY <1>3, <1>f DEF FlowConnecting, TypeOK, Hop
  <2>2. flows' \subseteq Flows /\ \A g \in flows' : g.at = "forward" => g.hop < Hops
    BY <1>3, <2>1, <1>m DEF FlowConnecting, Stages
  <2>3. state' \in [Ids -> States] /\ announced' \subseteq Ids
    BY <1>3, <1>f, AnnounceType DEF FlowConnecting, Transition, TypeOK, States
  <2> QED
    BY <1>3, <2>2, <2>3 DEF FlowConnecting, TypeOK, policyVars, timerVars, grantVars
<1>4. CASE FlowAuthenticating(f)
  <2>1. flows' \subseteq Flows /\ \A g \in flows' : g.at = "forward" => g.hop < Hops
    BY <1>4, <1>f, <1>m DEF FlowAuthenticating, Stages
  <2>2. state' \in [Ids -> States] /\ announced' \subseteq Ids
    BY <1>4, <1>f, AnnounceType DEF FlowAuthenticating, Transition, TypeOK, States
  <2> QED
    BY <1>4, <2>1, <2>2 DEF FlowAuthenticating, TypeOK, policyVars, timerVars, grantVars
<1>5. CASE FlowHandshake(f)
  <2> DEFINE t == <<f.id, f.gen, f.hop>>
  <2>1. t \in Transports
    BY <1>f DEF Transports, Flows
  <2>2. flows' \subseteq Flows /\ \A g \in flows' : g.at = "forward" => g.hop < Hops
    <3>1. flows \ {f} \subseteq Flows /\ \A g \in flows \ {f} : g.at = "forward" => g.hop < Hops
      BY DEF TypeOK
    <3> QED
      BY <1>5, <3>1, <1>f, <1>m DEF FlowHandshake, Stages
  <2>3. transports' \subseteq Transports /\ ending' \subseteq transports'
    BY <1>5, <2>1 DEF FlowHandshake, Discarded, TypeOK
  <2>4. handles' \in [Ids -> SUBSET Transports]
    BY <1>5, <1>f, <2>1 DEF FlowHandshake, TypeOK
  <2>5. state' \in [Ids -> States] /\ attempt' \in [Ids -> 0..MaxAttempts]
    BY <1>5, <1>f DEF FlowHandshake, Transition, TypeOK, States
  <2>6. countdown' \subseteq Ids /\ everReady' \subseteq Ids /\ canceled' \subseteq Ids
    BY <1>5, <1>f DEF FlowHandshake, TypeOK
  <2>7. announced' \subseteq Ids
    BY <1>5, <2>6, AnnounceType DEF FlowHandshake, Transition, TypeOK
  <2> QED
    BY <1>5, <2>2, <2>3, <2>4, <2>5, <2>6, <2>7 DEF FlowHandshake, TypeOK, grantVars
<1>6. CASE FlowFail(f)
  <2>1. Recover(f.id, transports)
    BY <1>6 DEF FlowFail
  <2> QED
    BY <1>6, <1>f, <2>1, RecoverType DEF FlowFail, GrantsAfterError, TypeOK
<1> QED
  BY <1>1, <1>2, <1>3, <1>4, <1>5, <1>6 DEF FlowStep

(* A step of a recover(), close() or retry() keeps the types.              *)
LEMMA JobStepType ==
    ASSUME TypeOK, NEW j \in jobs, JobStep(j)
    PROVE  TypeOK'
<1> USE ConnectionAssumption
<1>j. j \in Jobs /\ j.id \in Ids /\ j.rest \subseteq Transports
  BY DEF TypeOK, Jobs
<1>1. CASE JobRevoked(j)
  <2>1. [j EXCEPT !.at = "handles", !.rest = handles[j.id]] \in Jobs
    BY <1>j DEF TypeOK, Jobs
  <2>2. jobs' \subseteq Jobs
    BY <1>1, <2>1 DEF JobRevoked, TypeOK
  <2>3. handles' \in [Ids -> SUBSET Transports] /\ ending' \subseteq transports'
    BY <1>1, <1>j DEF JobRevoked, TypeOK
  <2> QED
    BY <1>1, <2>2, <2>3 DEF JobRevoked, TypeOK, policyVars, timerVars
<1>2. CASE JobEnd(j)
  <2>1. PICK t \in Awaited(j.rest) \ transports :
           /\ jobs' = (jobs \ {j}) \cup {[j EXCEPT !.rest = @ \ {t}]}
           /\ ending' = ending \cup (Awaited(j.rest \ {t}) \cap transports)
    BY <1>2 DEF JobEnd
  <2>2. [j EXCEPT !.rest = @ \ {t}] \in Jobs
    BY <1>j DEF Jobs
  <2>3. jobs' \subseteq Jobs
    BY <2>1, <2>2 DEF TypeOK
  <2> QED
    BY <1>2, <2>1, <2>3 DEF JobEnd, TypeOK, policyVars, timerVars, grantVars
<1>3. CASE RecoverDone(j)
  BY <1>3, <1>j DEF RecoverDone, TypeOK, policyVars, grantVars
<1>4. CASE CloseDone(j)
  <2>1. announced' \subseteq Ids
    BY <1>4, AnnounceType DEF CloseDone, Transition, TypeOK
  <2> QED
    BY <1>4, <2>1, <1>j DEF CloseDone, Transition, TypeOK, States, policyVars, timerVars, grantVars
<1>5. ASSUME NEW new \in Ids, RetryDone(j, new)
      PROVE  TypeOK'
  <2>1. PICK at \in Routes :
           /\ StartConnect(new, at)
           /\ state' = [state EXCEPT ![j.id] = "closed", ![new] = StateAt(at, "resolving")]
    BY <1>5 DEF RetryDone
  <2>2. state' \in [Ids -> States] /\ announced' \subseteq Ids
    BY <1>5, <2>1, <1>j, AnnounceType DEF RetryDone, StateAt, TypeOK, States
  <2>3. /\ gen' \in [Ids -> Nat] /\ flows' \subseteq Flows
         /\ \A g \in flows' : g.at = "forward" => g.hop < Hops
    BY <2>1 DEF StartConnect, Routes, TypeOK, Flows, Stages, Hop
  <2> QED
    BY <1>5, <1>j, <2>2, <2>3 DEF RetryDone, TypeOK, policyVars, timerVars, grantVars
<1> QED
  BY <1>1, <1>2, <1>3, <1>4, <1>5 DEF JobStep

(* The variables keep their types: in particular no more reconnects are    *)
(* counted than the policy allows (attempt), however often recover() runs. *)
THEOREM TypeCorrect == Spec => []TypeOK
<1>1. Init => TypeOK
  BY ConnectionAssumption DEF Init, TypeOK, States
<1>2. TypeOK /\ [Next]_vars => TypeOK'
  <2> SUFFICES ASSUME TypeOK, [Next]_vars PROVE TypeOK'
    OBVIOUS
  <2> USE ConnectionAssumption
  <2>1. ASSUME NEW id \in Ids, NEW at \in {"grant"} \cup Routes, Create(id, at)
        PROVE  TypeOK'
    <3>1. announced' \subseteq Ids
      BY <2>1, AnnounceType DEF Create, Transition, TypeOK
    <3> QED
      BY <2>1, <3>1 DEF Create, StartConnect, Transition, StateAt, Routes, TypeOK, States,
                        Flows, Stages, Hop, policyVars, timerVars
  <2>2. CASE UpdateSettings
    BY <2>2 DEF UpdateSettings, TypeOK, policyVars, timerVars, grantVars
  <2>3. ASSUME NEW id \in Ids, CancelReconnect(id)
        PROVE  TypeOK'
    <3>1. countdown' \subseteq Ids /\ announced' \subseteq Ids
      BY <2>3, AnnounceType DEF CancelReconnect, StopTimer, Transition, TypeOK
    <3> QED
      BY <2>3, <3>1 DEF CancelReconnect, StopTimer, Transition, TypeOK, States, grantVars
  <2>4. ASSUME NEW id \in Ids, NEW by \in {"close", "retry"}, Close(id, by)
        PROVE  TypeOK'
    <3> DEFINE job == [id |-> id, by |-> by, call |-> calls[id] + 1,
                       at |-> IF id \in grant THEN "revoke" ELSE "handles",
                       will |-> FALSE,
                       rest |-> IF id \in grant THEN {} ELSE handles[id]]
    <3>1. calls[id] + 1 \in 0..MaxCalls
      BY <2>4 DEF Close, TypeOK
    <3>2. job \in Jobs
      BY <3>1 DEF TypeOK, Jobs
    <3>3. jobs' \subseteq Jobs
      BY <2>4, <3>2 DEF Close, TypeOK
    <3>4. handles' \in [Ids -> SUBSET Transports] /\ ending' \subseteq transports'
      BY <2>4 DEF Close, TypeOK
    <3>5. calls' \in [Ids -> 0..MaxCalls] /\ state' \in [Ids -> States]
      BY <2>4, <3>1 DEF Close, Transition, TypeOK, States
    <3>6. announced' \subseteq Ids
      BY <2>4, AnnounceType DEF Close, Transition, TypeOK
    <3> QED
      BY <2>4, <3>3, <3>4, <3>5, <3>6 DEF Close, StopTimer, TypeOK
  <2>5. ASSUME NEW f \in flows, FlowStep(f)
        PROVE  TypeOK'
    BY <2>5, FlowStepType
  <2>6. ASSUME NEW j \in jobs, JobStep(j)
        PROVE  TypeOK'
    BY <2>6, JobStepType
  <2>7. ASSUME NEW id \in Ids, TimerFires(id)
        PROVE  TypeOK'
    <3>1. state' \in [Ids -> States] /\ announced' \subseteq Ids
      <4>1. countdown' \subseteq Ids
        BY <2>7 DEF TimerFires, StopTimer, TypeOK
      <4> QED
        BY <2>7, <4>1, AnnounceType DEF TimerFires, Transition, StateAt, TypeOK, States
    <3>2. /\ gen' \in [Ids -> Nat] /\ flows' \subseteq Flows
         /\ \A g \in flows' : g.at = "forward" => g.hop < Hops
      BY <2>7 DEF TimerFires, StartConnect, Routes, TypeOK, Flows, Stages, Hop
    <3> QED
      BY <2>7, <3>1, <3>2 DEF TimerFires, StopTimer, TypeOK, policyVars, grantVars
  <2>8. ASSUME NEW t \in transports, TransportClosed(t)
        PROVE  TypeOK'
    <3>1. t[1] \in Ids
      BY DEF TypeOK, Transports
    <3>2. CASE Notices(t)
      <4>1. Recover(t[1], transports \ {t})
        BY <2>8, <3>2 DEF TransportClosed
      <4> QED
        BY <2>8, <3>1, <4>1, RecoverType DEF TransportClosed, TypeOK, grantVars
    <3>3. CASE ~Notices(t)
      BY <2>8, <3>3 DEF TransportClosed, TypeOK, grantVars
    <3> QED
      BY <3>2, <3>3
  <2>9. CASE UNCHANGED vars
    BY <2>9 DEF vars, TypeOK, policyVars, timerVars, grantVars
  <2> QED
    BY <2>1, <2>2, <2>3, <2>4, <2>5, <2>6, <2>7, <2>8, <2>9 DEF Next
<1> QED
  BY <1>1, <1>2, PTL DEF Spec

-----------------------------------------------------------------------------
(* What close() and the grants promise                                     *)

(* Facts of TypeOK that the steps below need without the record sets.      *)
LEMMA Shapes ==
    ASSUME TypeOK
    PROVE  /\ state \in [Ids -> States] /\ aborted \subseteq Ids
           /\ \A f \in flows : f.id \in Ids
           /\ \A j \in jobs : j.id \in Ids
           /\ \A t \in transports : t[1] \in Ids
BY DEF TypeOK, Flows, Jobs, Transports

(* Once close() has aborted a connection, neither a connect() it           *)
(* interrupts nor a recover() it overtakes brings it back.                 *)
THEOREM ClosedConnectionsStayDown == Spec => []ClosedStaysDown
<1>1. Init => ClosedStaysDown
  BY DEF Init, ClosedStaysDown
<1>2. TypeOK /\ ClosedStaysDown /\ [Next]_vars => ClosedStaysDown'
  <2> SUFFICES ASSUME TypeOK, ClosedStaysDown, [Next]_vars PROVE ClosedStaysDown'
    OBVIOUS
  <2> USE Shapes DEF ClosedStaysDown
  <2>1. ASSUME NEW id \in Ids, NEW at \in {"grant"} \cup Routes, Create(id, at)
        PROVE  ClosedStaysDown'
    BY <2>1 DEF Create, Transition, policyVars, timerVars
  <2>2. CASE UpdateSettings
    BY <2>2 DEF UpdateSettings, policyVars, timerVars, grantVars
  <2>3. ASSUME NEW id \in Ids, CancelReconnect(id)
        PROVE  ClosedStaysDown'
    BY <2>3 DEF CancelReconnect, StopTimer, Transition
  <2>4. ASSUME NEW id \in Ids, NEW by \in {"close", "retry"}, Close(id, by)
        PROVE  ClosedStaysDown'
    BY <2>4 DEF Close, StopTimer, Transition
  <2>r. ASSUME NEW id \in Ids, NEW open, Recover(id, open), UNCHANGED <<aborted, timer>>
        PROVE  ClosedStaysDown'
    BY <2>r DEF Recover, Ignored, Transition
  <2>5. ASSUME NEW f \in flows, FlowStep(f)
        PROVE  ClosedStaysDown'
    <3>1. ASSUME NEW ok \in BOOLEAN, FlowReadGrant(f, ok)
          PROVE  ClosedStaysDown'
      BY <3>1 DEF FlowReadGrant, timerVars
    <3>2. CASE FlowRevoked(f)
      BY <3>2 DEF FlowRevoked, Routes, StateAt, Transition, timerVars
    <3>3. CASE FlowConnecting(f)
      BY <3>3 DEF FlowConnecting, Transition, timerVars
    <3>4. CASE FlowAuthenticating(f)
      BY <3>4 DEF FlowAuthenticating, Transition, timerVars
    <3>5. CASE FlowHandshake(f)
      BY <3>5 DEF FlowHandshake, Late, Transition
    <3>6. CASE FlowFail(f)
      BY <2>r, <3>6 DEF FlowFail
    <3> QED
      BY <2>5, <3>1, <3>2, <3>3, <3>4, <3>5, <3>6 DEF FlowStep
  <2>6. ASSUME NEW j \in jobs, JobStep(j)
        PROVE  ClosedStaysDown'
    <3>1. CASE JobRevoked(j)
      BY <3>1 DEF JobRevoked, timerVars
    <3>2. CASE JobEnd(j)
      BY <3>2 DEF JobEnd, timerVars
    <3>3. CASE RecoverDone(j)
      BY <3>3 DEF RecoverDone, MayArm
    <3>4. CASE CloseDone(j)
      BY <3>4 DEF CloseDone, Transition, timerVars
    <3>5. ASSUME NEW new \in Ids, RetryDone(j, new)
          PROVE  ClosedStaysDown'
      BY <3>5 DEF RetryDone, timerVars
    <3> QED
      BY <2>6, <3>1, <3>2, <3>3, <3>4, <3>5 DEF JobStep
  <2>7. ASSUME NEW id \in Ids, TimerFires(id)
        PROVE  ClosedStaysDown'
    BY <2>7 DEF TimerFires, StopTimer, Transition
  <2>8. ASSUME NEW t \in transports, TransportClosed(t)
        PROVE  ClosedStaysDown'
    <3>1. CASE Notices(t)
      BY <2>r, <2>8, <3>1 DEF TransportClosed
    <3>2. CASE ~Notices(t)
      BY <2>8, <3>2 DEF TransportClosed
    <3> QED
      BY <3>1, <3>2
  <2>9. CASE UNCHANGED vars
    BY <2>9 DEF vars, timerVars
  <2> QED
    BY <2>1, <2>2, <2>3, <2>4, <2>5, <2>6, <2>7, <2>8, <2>9 DEF Next
<1> QED
  BY <1>1, <1>2, TypeCorrect, PTL DEF Spec

(* A private-key grant outlives only the calls that are about to revoke    *)
(* it: reading it, failing to read it and closing all do.                  *)
THEOREM GrantsAreRevoked == Spec => []GrantNotLeaked
<1>1. Init => GrantNotLeaked
  BY DEF Init, GrantNotLeaked
<1>2. TypeOK /\ GrantNotLeaked /\ [Next]_vars => GrantNotLeaked'
  <2> SUFFICES ASSUME TypeOK, GrantNotLeaked, [Next]_vars PROVE GrantNotLeaked'
    OBVIOUS
  <2> USE DEF GrantNotLeaked, FlowsOf, JobsOf
  <2> DEFINE Revokes(f) == f.at \in {"grant", "revoke", "revokeFailed"}
  <2>1. ASSUME NEW id \in Ids, NEW at \in {"grant"} \cup Routes, Create(id, at)
        PROVE  GrantNotLeaked'
    <3> DEFINE flow == [id |-> id, gen |-> gen[id] + 1, at |-> at, hop |-> 1]
    <3>1. flows \cup {flow} = flows' /\ UNCHANGED jobs
      BY <2>1 DEF Create, StartConnect
    <3>2. \A g \in hostGrants' : g \in hostGrants \/ (g = id /\ flow.at = "grant")
      BY <2>1 DEF Create
    <3>3. flow.id = id
      OBVIOUS
    <3> HIDE DEF flow
    <3> QED
      BY <3>1, <3>2, <3>3
  <2>2. CASE UpdateSettings
    BY <2>2 DEF UpdateSettings, grantVars
  <2>3. ASSUME NEW id \in Ids, CancelReconnect(id)
        PROVE  GrantNotLeaked'
    BY <2>3 DEF CancelReconnect, grantVars
  <2>4. ASSUME NEW id \in Ids, NEW by \in {"close", "retry"}, Close(id, by)
        PROVE  GrantNotLeaked'
    BY <2>4 DEF Close
  <2>r. ASSUME NEW id \in Ids, NEW open, Recover(id, open),
               hostGrants' \subseteq hostGrants,
               \A f \in flows : f \in flows' \/ ~Revokes(f) \/ f.id \notin hostGrants'
        PROVE  GrantNotLeaked'
    BY <2>r DEF Recover
  <2>5. ASSUME NEW f \in flows, FlowStep(f)
        PROVE  GrantNotLeaked'
    <3>1. ASSUME NEW ok \in BOOLEAN, FlowReadGrant(f, ok)
          PROVE  GrantNotLeaked'
      <4> DEFINE g == [f EXCEPT !.at = IF ok THEN "revoke" ELSE "revokeFailed", !.hop = f.hop]
      <4>1. g.id = f.id /\ g.at \in {"revoke", "revokeFailed"} /\ g \in flows'
        BY <3>1 DEF FlowReadGrant, Move, TypeOK, Flows
      <4>2. flows' = (flows \ {f}) \cup {g} /\ UNCHANGED <<hostGrants, jobs>>
        BY <3>1 DEF FlowReadGrant, Move
      <4> HIDE DEF g
      <4> QED
        BY <4>1, <4>2
    <3>2. CASE FlowRevoked(f)
      BY <3>2 DEF FlowRevoked, Move
    <3>3. CASE FlowConnecting(f)
      BY <3>3 DEF FlowConnecting, Move, grantVars
    <3>4. CASE FlowAuthenticating(f)
      BY <3>4 DEF FlowAuthenticating, Move, grantVars
    <3>5. CASE FlowHandshake(f)
      BY <3>5 DEF FlowHandshake, Move, grantVars
    <3>6. CASE FlowFail(f)
      BY <2>r, <3>6, Shapes DEF FlowFail, GrantsAfterError
    <3> QED
      BY <2>5, <3>1, <3>2, <3>3, <3>4, <3>5, <3>6 DEF FlowStep
  <2>6. ASSUME NEW j \in jobs, JobStep(j)
        PROVE  GrantNotLeaked'
    <3>1. CASE JobRevoked(j)
      BY <3>1 DEF JobRevoked
    <3>2. CASE JobEnd(j)
      BY <3>2 DEF JobEnd, grantVars
    <3>3. CASE RecoverDone(j)
      BY <3>3 DEF RecoverDone, grantVars
    <3>4. CASE CloseDone(j)
      BY <3>4 DEF CloseDone, grantVars
    <3>5. ASSUME NEW new \in Ids, RetryDone(j, new)
          PROVE  GrantNotLeaked'
      BY <3>5 DEF RetryDone, StartConnect, grantVars
    <3> QED
      BY <2>6, <3>1, <3>2, <3>3, <3>4, <3>5 DEF JobStep
  <2>7. ASSUME NEW id \in Ids, TimerFires(id)
        PROVE  GrantNotLeaked'
    BY <2>7 DEF TimerFires, StartConnect, grantVars
  <2>8. ASSUME NEW t \in transports, TransportClosed(t)
        PROVE  GrantNotLeaked'
    <3>1. CASE Notices(t)
      BY <2>r, <2>8, <3>1, Shapes DEF TransportClosed, grantVars
    <3>2. CASE ~Notices(t)
      BY <2>8, <3>2 DEF TransportClosed, grantVars
    <3> QED
      BY <3>1, <3>2
  <2>9. CASE UNCHANGED vars
    BY <2>9 DEF vars, grantVars
  <2> QED
    BY <2>1, <2>2, <2>3, <2>4, <2>5, <2>6, <2>7, <2>8, <2>9 DEF Next
<1> QED
  BY <1>1, <1>2, TypeCorrect, PTL DEF Spec

-----------------------------------------------------------------------------
(* One connect() at a time                                                 *)

(* recover() keeps the turns, called when the connection has neither a     *)
(* connect() nor an armed timer left.                                      *)
LEMMA RecoverTakesTurns ==
    ASSUME TypeOK, TakesTurns, NEW id \in Ids, NEW open, Recover(id, open),
           UNCHANGED timer, flows' \subseteq flows,
           id \notin timer, \A f \in flows' : f.id # id
    PROVE  TakesTurns'
<1> USE Shapes DEF TakesTurns, Idle, Recovers
<1>1. CASE Ignored(id)
  BY <1>1 DEF Recover
<1>2. CASE ~Ignored(id)
  <2> DEFINE job == [id |-> id, by |-> "recover", call |-> 0, at |-> "handles",
                     will |-> WillReconnect(id), rest |-> handles[id]]
  <2>1. /\ jobs' = jobs \cup {job}
        /\ recovering' = recovering \cup {id}
        /\ \E s \in {"reconnecting", "failed"} : state' = [state EXCEPT ![id] = s]
    BY <1>2 DEF Recover, Transition
  <2>2. job.id = id
    OBVIOUS
  <2>3. id \notin recovering
    BY <1>2 DEF Ignored
  <2> HIDE DEF job
  <2> QED
    BY <2>1, <2>2, <2>3
<1> QED
  BY <1>1, <1>2

(* A connect() moves on alone: it stays the connection's only one.         *)
LEMMA MoveTakesTurns ==
    ASSUME TypeOK, TakesTurns, NEW f \in flows, NEW at, NEW hop, Move(f, at, hop),
           UNCHANGED <<timer, recovering, jobs>>,
           \E s \in States \ {"none", "ready"} : state' = [state EXCEPT ![f.id] = s]
    PROVE  TakesTurns'
<1> USE Shapes DEF TakesTurns, Idle, Recovers
<1> DEFINE g == [f EXCEPT !.at = at, !.hop = hop]
<1>1. g.id = f.id
  BY DEF TypeOK, Flows
<1>2. flows' = (flows \ {f}) \cup {g}
  BY DEF Move
<1> HIDE DEF g
<1> QED
  BY <1>1, <1>2

(* A connect() starts for a connection whose turn it is.                   *)
LEMMA StartTakesTurns ==
    ASSUME TypeOK, TakesTurns, NEW id \in Ids, NEW at, StartConnect(id, at),
           \A f \in flows : f.id # id,
           id \notin recovering, timer' = timer \ {id}, UNCHANGED recovering,
           jobs' \subseteq jobs,
           state' \in [Ids -> States], state'[id] \notin {"none", "ready"},
           \A x \in Ids : state'[x] = state[x] \/ state'[x] \notin {"none", "ready"}
    PROVE  TakesTurns'
<1> USE Shapes DEF TakesTurns, Idle, Recovers
<1> DEFINE g == [id |-> id, gen |-> gen[id] + 1, at |-> at, hop |-> 1]
<1>1. g.id = id
  OBVIOUS
<1>2. flows' = flows \cup {g}
  BY DEF StartConnect
<1> HIDE DEF g
<1> QED
  BY <1>1, <1>2

(* The turn of a connection is with one connect(), one armed timer or one  *)
(* recover(), never with two of them, and with none while it is ready.     *)
THEOREM TurnsTaken == Spec => []TakesTurns
<1>1. Init => TakesTurns
  BY DEF Init, TakesTurns, Idle
<1>2. TypeOK /\ TakesTurns /\ [Next]_vars => TakesTurns'
  <2> SUFFICES ASSUME TypeOK, TakesTurns, [Next]_vars PROVE TakesTurns'
    OBVIOUS
  <2> USE Shapes
  <2>1. ASSUME NEW id \in Ids, NEW at \in {"grant"} \cup Routes, Create(id, at)
        PROVE  TakesTurns'
    <3>1. \A f \in flows : f.id # id
      BY <2>1 DEF Create, TakesTurns
    <3>2. id \notin recovering /\ id \notin timer
      BY <2>1 DEF Create, TakesTurns, Idle
    <3>3. /\ state' \in [Ids -> States] /\ state'[id] \notin {"none", "ready"}
          /\ \A x \in Ids : state'[x] = state[x] \/ state'[x] \notin {"none", "ready"}
      BY <2>1 DEF Create, Transition, StateAt, States
    <3> QED
      BY <2>1, <3>1, <3>2, <3>3, StartTakesTurns DEF Create, timerVars
  <2>2. CASE UpdateSettings
    BY <2>2 DEF UpdateSettings, TakesTurns, Idle, timerVars
  <2>3. ASSUME NEW id \in Ids, CancelReconnect(id)
        PROVE  TakesTurns'
    BY <2>3 DEF CancelReconnect, StopTimer, Transition, TakesTurns, Idle
  <2>4. ASSUME NEW id \in Ids, NEW by \in {"close", "retry"}, Close(id, by)
        PROVE  TakesTurns'
    <3> DEFINE job == [id |-> id, by |-> by, call |-> calls[id] + 1,
                       at |-> IF id \in grant THEN "revoke" ELSE "handles",
                       will |-> FALSE,
                       rest |-> IF id \in grant THEN {} ELSE handles[id]]
    <3>1. jobs' = jobs \cup {job} /\ job.by # "recover"
      BY <2>4 DEF Close
    <3> HIDE DEF job
    <3> QED
      BY <2>4, <3>1 DEF Close, StopTimer, Transition, TakesTurns, Idle, Recovers
  <2>5. ASSUME NEW f \in flows, FlowStep(f)
        PROVE  TakesTurns'
    <3>s. /\ state = [state EXCEPT ![f.id] = state[f.id]]
          /\ state[f.id] \in States \ {"none", "ready"}
      BY DEF TakesTurns
    <3>1. ASSUME NEW ok \in BOOLEAN, FlowReadGrant(f, ok)
          PROVE  TakesTurns'
      BY <3>1, <3>s, MoveTakesTurns DEF FlowReadGrant, timerVars
    <3>2. CASE FlowRevoked(f)
      <4>1. PICK at \in Routes :
               /\ Move(f, at, f.hop)
               /\ state' = [state EXCEPT ![f.id] = StateAt(at, state[f.id])]
        BY <3>2, RevokedMoves
      <4>2. StateAt(at, state[f.id]) \in States \ {"none", "ready"}
        BY <3>s DEF StateAt, States
      <4> QED
        BY <3>2, <4>1, <4>2, MoveTakesTurns DEF FlowRevoked, Transition, timerVars
    <3>3. CASE FlowConnecting(f)
      BY <3>3, MoveTakesTurns DEF FlowConnecting, Transition, States, timerVars
    <3>4. CASE FlowAuthenticating(f)
      BY <3>4, MoveTakesTurns DEF FlowAuthenticating, Transition, States, timerVars
    <3>5. CASE FlowHandshake(f)
      <4>1. CASE Late(f) \/ f.hop < Hops
        <5>1. PICK at, hop : Move(f, at, hop) /\ UNCHANGED state
          BY <3>5, <4>1, ConnectionAssumption DEF FlowHandshake, TypeOK, Flows, Hop
        <5> QED
          BY <3>5, <3>s, <5>1, MoveTakesTurns DEF FlowHandshake
      <4>2. CASE ~(Late(f) \/ f.hop < Hops)
        <5>1. flows' = flows \ {f} /\ state' = [state EXCEPT ![f.id] = "ready"]
          BY <3>5, <4>2 DEF FlowHandshake, Transition
        <5> QED
          BY <3>5, <5>1 DEF FlowHandshake, TakesTurns, Idle
      <4> QED
        BY <4>1, <4>2
    <3>6. CASE FlowFail(f)
      BY <3>6, RecoverTakesTurns DEF FlowFail, TakesTurns, Idle
    <3> QED
      BY <2>5, <3>1, <3>2, <3>3, <3>4, <3>5, <3>6 DEF FlowStep
  <2>6. ASSUME NEW j \in jobs, JobStep(j)
        PROVE  TakesTurns'
    <3>1. CASE JobRevoked(j)
      <4> DEFINE k == [j EXCEPT !.at = "handles", !.rest = handles[j.id]]
      <4>1. k.id = j.id /\ k.by = j.by
        BY DEF TypeOK, Jobs
      <4>2. jobs' = (jobs \ {j}) \cup {k}
        BY <3>1 DEF JobRevoked
      <4> HIDE DEF k
      <4> QED
        BY <3>1, <4>1, <4>2 DEF JobRevoked, TakesTurns, Idle, Recovers, timerVars
    <3>2. CASE JobEnd(j)
      <4>1. PICK t : jobs' = (jobs \ {j}) \cup {[j EXCEPT !.rest = @ \ {t}]}
        BY <3>2 DEF JobEnd
      <4> DEFINE k == [j EXCEPT !.rest = @ \ {t}]
      <4>2. k.id = j.id /\ k.by = j.by
        BY DEF TypeOK, Jobs
      <4>3. jobs' = (jobs \ {j}) \cup {k}
        BY <4>1
      <4> HIDE DEF k
      <4> QED
        BY <3>2, <4>2, <4>3 DEF JobEnd, TakesTurns, Idle, Recovers, timerVars
    <3>3. CASE RecoverDone(j)
      BY <3>3 DEF RecoverDone, TakesTurns, Idle, Recovers
    <3>4. CASE CloseDone(j)
      BY <3>4 DEF CloseDone, Transition, TakesTurns, Idle, timerVars
    <3>5. ASSUME NEW new \in Ids, RetryDone(j, new)
          PROVE  TakesTurns'
      <4>1. PICK at \in Routes :
               /\ StartConnect(new, at)
               /\ state' = [state EXCEPT ![j.id] = "closed", ![new] = StateAt(at, "resolving")]
        BY <3>5 DEF RetryDone
      <4>2. StateAt(at, "resolving") \in States \ {"none", "ready"}
        BY DEF StateAt, States
      <4>3. /\ state' \in [Ids -> States] /\ state'[new] \notin {"none", "ready"}
            /\ \A x \in Ids : state'[x] = state[x] \/ state'[x] \notin {"none", "ready"}
        BY <4>1, <4>2 DEF States
      <4>4. /\ \A f \in flows : f.id # new
            /\ new \notin recovering /\ new \notin timer
        BY <3>5 DEF RetryDone, TakesTurns, Idle
      <4> QED
        BY <3>5, <4>1, <4>3, <4>4, StartTakesTurns DEF RetryDone, timerVars
    <3> QED
      BY <2>6, <3>1, <3>2, <3>3, <3>4, <3>5 DEF JobStep
  <2>7. ASSUME NEW id \in Ids, TimerFires(id)
        PROVE  TakesTurns'
    <3>1. (\A f \in flows : f.id # id) /\ id \notin recovering
      BY <2>7 DEF TimerFires, TakesTurns, Idle
    <3>2. CASE \E at \in Routes :
                 StartConnect(id, at) /\ state' = [state EXCEPT ![id] = StateAt(at, "resolving")]
      <4>1. PICK at \in Routes :
               StartConnect(id, at) /\ state' = [state EXCEPT ![id] = StateAt(at, "resolving")]
        BY <3>2
      <4>2. /\ state' \in [Ids -> States] /\ state'[id] \notin {"none", "ready"}
            /\ \A x \in Ids : state'[x] = state[x] \/ state'[x] \notin {"none", "ready"}
        BY <4>1 DEF StateAt, States
      <4> QED
        BY <2>7, <3>1, <4>1, <4>2, StartTakesTurns DEF TimerFires, StopTimer
    <3>3. CASE UNCHANGED <<gen, flows>>
      BY <2>7, <3>3 DEF TimerFires, StopTimer, Transition, TakesTurns, Idle, StartConnect
    <3> QED
      BY <2>7, <3>2, <3>3 DEF TimerFires, Transition
  <2>8. ASSUME NEW t \in transports, TransportClosed(t)
        PROVE  TakesTurns'
    <3>1. CASE Notices(t)
      <4>1. (\A f \in flows : f.id # t[1]) /\ t[1] \notin timer
        BY <3>1 DEF Notices, TakesTurns, Idle
      <4> QED
        BY <2>8, <3>1, <4>1, RecoverTakesTurns DEF TransportClosed
    <3>2. CASE ~Notices(t)
      BY <2>8, <3>2 DEF TransportClosed, TakesTurns, Idle
    <3> QED
      BY <3>1, <3>2
  <2>9. CASE UNCHANGED vars
    BY <2>9 DEF vars, TakesTurns, Idle, timerVars
  <2> QED
    BY <2>1, <2>2, <2>3, <2>4, <2>5, <2>6, <2>7, <2>8, <2>9 DEF Next
<1> QED
  BY <1>1, <1>2, TypeCorrect, PTL DEF Spec

(* However failures, timers, retries and closes interleave, at most one    *)
(* connect() is under way for a connection, and none while a reconnect is  *)
(* being prepared or waited for.                                           *)
THEOREM OneConnectAtATime == Spec => []SingleFlow
<1>1. TakesTurns => SingleFlow
  BY DEF TakesTurns, SingleFlow, FlowsOf, Idle
<1> QED
  BY <1>1, TurnsTaken, PTL

-----------------------------------------------------------------------------
(* What a connection shows, and the order in which its hops close          *)

(* A connection that was created and not closed is registered; a close()   *)
(* or retry() in progress has aborted its connection, and holds no handles *)
(* while it gives the grant back.                                          *)
LiveFits ==
    /\ \A id \in Ids \ aborted : state[id] # "none" => id \in live
    /\ \A j \in jobs : ~Recovers(j) => j.id \in aborted
    /\ \A j \in jobs : j.at = "revoke" => ~Recovers(j) /\ j.rest = {}

(* The managed record has a nextReconnectAt exactly while its connection is *)
(* reconnecting, and the reconnect will then be decided.                   *)
CountdownKept ==
    \A id \in Ids :
        /\ id \in countdown <=> state[id] = "reconnecting"
        /\ id \in countdown => id \in timer \cup recovering

(* What is published of it is never behind, and is ahead only where close()*)
(* published `closing' first.                                              *)
AnnouncedFits ==
    /\ countdown \subseteq announced
    /\ \A id \in announced : id \in countdown \/ state[id] = "closing"

(* A recover() of a connection that shows a countdown is going to arm the  *)
(* timer.                                                                  *)
CountFits ==
    \A j \in jobs : Recovers(j) /\ j.id \in countdown => j.will /\ j.id \notin canceled

(* The handles of a connection are of its present run of connect(), and    *)
(* nobody closes them; none is left when that run is to be replaced, and   *)
(* they are complete and open when the connection is ready.                *)
HandlesFit ==
    \A id \in Ids :
        /\ handles[id] \subseteq Chain(id, gen[id]) \ ending
        /\ id \in timer \cup recovering \/ state[id] = "none" => handles[id] = {}
        /\ state[id] = "ready" => /\ handles[id] = Chain(id, gen[id])
                                  /\ handles[id] \subseteq transports

(* Everything that is known of a transport.                                *)
Known == transports \cup {t \in Transports : \/ \E id \in Ids : t \in handles[id]
                                             \/ \E j \in jobs : t \in j.rest}

(* How far a connect() has come: the hops it has a transport for.          *)
Reach(f) == IF f.at \in {"forward", "discard"} THEN f.hop ELSE f.hop - 1

(* A connect() in progress is the present one and the first to obtain its  *)
(* next hop; unless close() overtook it the handles are exactly the hops   *)
(* it obtained, and nobody else has one of them.                           *)
FlowFits(f) ==
    /\ f.gen = gen[f.id]
    /\ f.at = "discard" => f.id \in aborted
    /\ \A t \in Known : t[1] = f.id /\ t[2] = f.gen => t[3] <= Reach(f)
    /\ f.id \notin aborted =>
          /\ handles[f.id] = {t \in Chain(f.id, f.gen) : t[3] <= Reach(f)}
          /\ \A j \in jobs : \A t \in j.rest : ~(t[1] = f.id /\ t[2] = f.gen)
FlowsFit == \A f \in flows : FlowFits(f)

(* A chain belongs to the connection or to one job, as a whole, and every  *)
(* transport belongs to a chain unless connect() is discarding it.         *)
SameChain(t, u) == t[1] = u[1] /\ t[2] = u[2]
ChainsFit ==
    /\ \A t \in Known : t[2] <= gen[t[1]]
    /\ \A j \in jobs : \A t \in j.rest, id \in Ids : \A u \in handles[id] : ~SameChain(t, u)
    /\ \A i, j \in jobs : \A t \in i.rest, u \in j.rest : SameChain(t, u) => i = j
    /\ \A t \in transports :
          t \in handles[t[1]] \/ (\E j \in jobs : t \in j.rest) \/ t \in Discarding

Turns == TypeOK /\ TakesTurns /\ ClosedStaysDown
Handled == HandlesFit /\ FlowsFit /\ ChainsFit

(* A job that waits for one handle less, or for the handles it took, is    *)
(* otherwise the same.                                                     *)
LEMMA JobFields ==
    ASSUME NEW j \in Jobs, NEW at, NEW rest
    PROVE  LET k == [j EXCEPT !.at = at, !.rest = rest]
               l == [j EXCEPT !.rest = rest]
           IN  /\ k.id = j.id /\ k.by = j.by /\ k.will = j.will /\ k.at = at /\ k.rest = rest
               /\ l.id = j.id /\ l.by = j.by /\ l.will = j.will /\ l.at = j.at /\ l.rest = rest
BY DEF Jobs

(* recover() registers nothing and holds its handles from the first.       *)
LEMMA RecoverLive ==
    ASSUME Turns, LiveFits, NEW id \in Ids, NEW open, Recover(id, open),
           state[id] # "none", UNCHANGED <<live, aborted>>
    PROVE  LiveFits'
<1> USE Shapes DEF Turns, LiveFits, Recovers
<1>1. CASE Ignored(id)
  BY <1>1 DEF Recover
<1>2. CASE ~Ignored(id)
  <2> DEFINE job == [id |-> id, by |-> "recover", call |-> 0, at |-> "handles",
                     will |-> WillReconnect(id), rest |-> handles[id]]
  <2>1. jobs' = jobs \cup {job} /\ \E s \in States : state' = [state EXCEPT ![id] = s]
    BY <1>2 DEF Recover, Transition, States
  <2>2. job.by = "recover" /\ job.at = "handles"
    OBVIOUS
  <2> HIDE DEF job
  <2> QED
    BY <2>1, <2>2
<1> QED
  BY <1>1, <1>2

(* Each step keeps the registry in agreement with the states and the jobs. *)
LEMMA LiveStep ==
    ASSUME Turns, LiveFits, [Next]_vars
    PROVE  LiveFits'
<1> USE Shapes DEF Turns
<1>t. \A f \in flows : state[f.id] # "none"
  BY DEF TakesTurns
<1>1. ASSUME NEW id \in Ids, NEW at \in {"grant"} \cup Routes, Create(id, at)
      PROVE  LiveFits'
  BY <1>1 DEF LiveFits, Create, Transition
<1>2. CASE UpdateSettings
  BY <1>2 DEF UpdateSettings, LiveFits
<1>3. ASSUME NEW id \in Ids, CancelReconnect(id)
      PROVE  LiveFits'
  BY <1>3 DEF CancelReconnect, Transition, LiveFits
<1>4. ASSUME NEW id \in Ids, NEW by \in {"close", "retry"}, Close(id, by)
      PROVE  LiveFits'
  <2> DEFINE job == [id |-> id, by |-> by, call |-> calls[id] + 1,
                     at |-> IF id \in grant THEN "revoke" ELSE "handles",
                     will |-> FALSE,
                     rest |-> IF id \in grant THEN {} ELSE handles[id]]
  <2>1. /\ jobs' = jobs \cup {job} /\ aborted' = aborted \cup {id} /\ UNCHANGED live
        /\ state' = [state EXCEPT ![id] = "closing"]
    BY <1>4 DEF Close, Transition
  <2>2. job.id = id /\ job.by # "recover" /\ (job.at = "revoke" => job.rest = {})
    OBVIOUS
  <2> HIDE DEF job
  <2> QED
    BY <2>1, <2>2 DEF LiveFits, Recovers
<1>5. ASSUME NEW f \in flows, FlowStep(f)
      PROVE  LiveFits'
  <2>1. ASSUME NEW ok \in BOOLEAN, FlowReadGrant(f, ok)
        PROVE  LiveFits'
    BY <2>1 DEF FlowReadGrant, LiveFits
  <2>2. CASE FlowRevoked(f)
    BY <1>t, <2>2 DEF FlowRevoked, Transition, LiveFits
  <2>3. CASE FlowConnecting(f)
    BY <1>t, <2>3 DEF FlowConnecting, Transition, LiveFits
  <2>4. CASE FlowAuthenticating(f)
    BY <1>t, <2>4 DEF FlowAuthenticating, Transition, LiveFits
  <2>5. CASE FlowHandshake(f)
    BY <1>t, <2>5 DEF FlowHandshake, Transition, LiveFits
  <2>6. CASE FlowFail(f)
    BY <1>t, <2>6, RecoverLive DEF FlowFail
  <2> QED
    BY <1>5, <2>1, <2>2, <2>3, <2>4, <2>5, <2>6 DEF FlowStep
<1>6. ASSUME NEW j \in jobs, JobStep(j)
      PROVE  LiveFits'
  <2>j. j \in Jobs
    BY DEF TypeOK
  <2>1. CASE JobRevoked(j)
    <3> DEFINE k == [j EXCEPT !.at = "handles", !.rest = handles[j.id]]
    <3>1. k.id = j.id /\ k.by = j.by /\ k.at = "handles"
      BY <2>j, JobFields
    <3>2. jobs' = (jobs \ {j}) \cup {k} /\ UNCHANGED <<state, aborted, live>>
      BY <2>1 DEF JobRevoked
    <3> HIDE DEF k
    <3> QED
      BY <3>1, <3>2 DEF LiveFits, Recovers
  <2>2. CASE JobEnd(j)
    <3>1. PICK t : jobs' = (jobs \ {j}) \cup {[j EXCEPT !.rest = @ \ {t}]}
      BY <2>2 DEF JobEnd
    <3> DEFINE k == [j EXCEPT !.rest = @ \ {t}]
    <3>2. k.id = j.id /\ k.by = j.by /\ k.at = j.at /\ j.at = "handles"
      BY <2>2, <2>j DEF Jobs, JobEnd
    <3>3. jobs' = (jobs \ {j}) \cup {k} /\ UNCHANGED <<state, aborted, live>>
      BY <2>2, <3>1 DEF JobEnd
    <3> HIDE DEF k
    <3> QED
      BY <3>2, <3>3 DEF LiveFits, Recovers
  <2>3. CASE RecoverDone(j)
    BY <2>3 DEF RecoverDone, LiveFits
  <2>4. CASE CloseDone(j)
    BY <2>4 DEF CloseDone, Transition, LiveFits, Recovers
  <2>5. ASSUME NEW new \in Ids, RetryDone(j, new)
        PROVE  LiveFits'
    BY <2>5 DEF RetryDone, LiveFits, Recovers
  <2> QED
    BY <1>6, <2>1, <2>2, <2>3, <2>4, <2>5 DEF JobStep
<1>7. ASSUME NEW id \in Ids, TimerFires(id)
      PROVE  LiveFits'
  <2>1. state[id] # "none"
    BY <1>7 DEF TimerFires, TakesTurns, Idle
  <2> QED
    BY <1>7, <2>1 DEF TimerFires, Transition, LiveFits
<1>8. ASSUME NEW t \in transports, TransportClosed(t)
      PROVE  LiveFits'
  <2>1. CASE Notices(t)
    BY <1>8, <2>1, RecoverLive DEF TransportClosed, Notices
  <2>2. CASE ~Notices(t)
    BY <1>8, <2>2 DEF TransportClosed, LiveFits
  <2> QED
    BY <2>1, <2>2
<1>9. CASE UNCHANGED vars
  BY <1>9 DEF vars, LiveFits
<1> QED
  BY <1>1, <1>2, <1>3, <1>4, <1>5, <1>6, <1>7, <1>8, <1>9 DEF Next

(* transition() brings what is published up to date where what it is given *)
(* is what the record then holds.                                          *)
LEMMA Announced ==
    ASSUME AnnouncedFits, NEW ids, Announce(ids, countdown'),
           \A id \in Ids \ ids : state'[id] = state[id],
           countdown' \ ids = countdown \ ids, announced \subseteq Ids
    PROVE  AnnouncedFits'
BY DEF AnnouncedFits, Announce

(* So does recover().                                                      *)
LEMMA RecoverAnnounces ==
    ASSUME TypeOK, AnnouncedFits, NEW id \in Ids, NEW open, Recover(id, open)
    PROVE  AnnouncedFits'
<1>1. CASE Ignored(id)
  BY <1>1 DEF Recover, AnnouncedFits
<1>2. CASE ~Ignored(id)
  <2>1. /\ Announce({id}, countdown') /\ countdown' \ {id} = countdown \ {id}
        /\ \E s \in States : state' = [state EXCEPT ![id] = s]
    BY <1>2 DEF Recover, Transition, States
  <2> QED
    BY <2>1, Announced DEF TypeOK
<1> QED
  BY <1>1, <1>2

(* Each step publishes the countdown the record holds, or a close().       *)
LEMMA AnnounceStep ==
    ASSUME Turns, LiveFits, CountdownKept, AnnouncedFits, [Next]_vars
    PROVE  AnnouncedFits'
<1> USE Shapes DEF Turns
<1>a. announced \subseteq Ids
  BY DEF TypeOK
<1>k. UNCHANGED <<state, announced, countdown>> => AnnouncedFits'
  BY DEF AnnouncedFits
<1>1. ASSUME NEW id \in Ids, NEW at \in {"grant"} \cup Routes, Create(id, at)
      PROVE  AnnouncedFits'
  BY <1>1, <1>a, Announced DEF Create, Transition, timerVars
<1>2. CASE UpdateSettings
  BY <1>2, <1>k DEF UpdateSettings, timerVars
<1>3. ASSUME NEW id \in Ids, CancelReconnect(id)
      PROVE  AnnouncedFits'
  <2>1. /\ Announce({id}, countdown') /\ countdown' = countdown \ {id}
        /\ state' = [state EXCEPT ![id] = "failed"]
    BY <1>3 DEF CancelReconnect, StopTimer, Transition
  <2> QED
    BY <1>a, <2>1, Announced
<1>4. ASSUME NEW id \in Ids, NEW by \in {"close", "retry"}, Close(id, by)
      PROVE  AnnouncedFits'
  BY <1>4, <1>a DEF Close, StopTimer, Transition, Announce, AnnouncedFits
<1>5. ASSUME NEW f \in flows, FlowStep(f)
      PROVE  AnnouncedFits'
  <2>1. ASSUME NEW ok \in BOOLEAN, FlowReadGrant(f, ok)
        PROVE  AnnouncedFits'
    BY <1>k, <2>1 DEF FlowReadGrant, timerVars
  <2>2. CASE FlowRevoked(f)
    <3>1. CASE UNCHANGED <<state, announced>>
      BY <1>k, <2>2, <3>1 DEF FlowRevoked, timerVars
    <3>2. CASE Transition(f.id, "connecting", countdown)
      BY <1>a, <2>2, <3>2, Announced DEF FlowRevoked, Transition, timerVars
    <3> QED
      BY <2>2, <3>1, <3>2 DEF FlowRevoked
  <2>3. CASE FlowConnecting(f)
    BY <1>a, <2>3, Announced DEF FlowConnecting, Transition, timerVars
  <2>4. CASE FlowAuthenticating(f)
    BY <1>a, <2>4, Announced DEF FlowAuthenticating, Transition, timerVars
  <2>5. CASE FlowHandshake(f)
    <3>1. CASE UNCHANGED <<state, announced, countdown>>
      BY <1>k, <3>1
    <3>2. CASE Transition(f.id, "ready", countdown') /\ countdown' = countdown \ {f.id}
      BY <1>a, <3>2, Announced DEF Transition
    <3> QED
      BY <2>5, <3>1, <3>2 DEF FlowHandshake
  <2>6. CASE FlowFail(f)
    BY <2>6, RecoverAnnounces DEF FlowFail
  <2> QED
    BY <1>5, <2>1, <2>2, <2>3, <2>4, <2>5, <2>6 DEF FlowStep
<1>6. ASSUME NEW j \in jobs, JobStep(j)
      PROVE  AnnouncedFits'
  <2>1. CASE JobRevoked(j)
    BY <1>k, <2>1 DEF JobRevoked, timerVars
  <2>2. CASE JobEnd(j)
    BY <1>k, <2>2 DEF JobEnd, timerVars
  <2>3. CASE RecoverDone(j)
    BY <1>k, <2>3 DEF RecoverDone
  <2>4. CASE CloseDone(j)
    BY <1>a, <2>4, Announced DEF CloseDone, Transition, timerVars
  <2>5. ASSUME NEW new \in Ids, RetryDone(j, new)
        PROVE  AnnouncedFits'
    <3>1. /\ Announce({j.id, new}, countdown) /\ UNCHANGED countdown
          /\ \A id \in Ids \ {j.id, new} : state'[id] = state[id]
      BY <2>5 DEF RetryDone, timerVars
    <3> QED
      BY <1>a, <3>1, Announced
  <2> QED
    BY <1>6, <2>1, <2>2, <2>3, <2>4, <2>5 DEF JobStep
<1>7. ASSUME NEW id \in Ids, TimerFires(id)
      PROVE  AnnouncedFits'
  <2>1. id \in live \ aborted
    BY <1>7 DEF TimerFires, TakesTurns, Idle, LiveFits, ClosedStaysDown
  <2>2. /\ Announce({id}, countdown') /\ countdown' = countdown \ {id}
        /\ \A x \in Ids \ {id} : state'[x] = state[x]
    BY <1>7, <2>1 DEF TimerFires, StopTimer, Transition
  <2> QED
    BY <1>a, <2>2, Announced
<1>8. ASSUME NEW t \in transports, TransportClosed(t)
      PROVE  AnnouncedFits'
  <2>1. CASE Notices(t)
    BY <1>8, <2>1, RecoverAnnounces DEF TransportClosed
  <2>2. CASE ~Notices(t)
    BY <1>8, <1>k, <2>2 DEF TransportClosed
  <2> QED
    BY <2>1, <2>2
<1>9. CASE UNCHANGED vars
  BY <1>9, <1>k DEF vars
<1> QED
  BY <1>1, <1>2, <1>3, <1>4, <1>5, <1>6, <1>7, <1>8, <1>9 DEF Next

(* recover() sets a countdown exactly when it is going to reconnect.       *)
LEMMA RecoverCounts ==
    ASSUME Turns, CountdownKept, CountFits, NEW id \in Ids, NEW open, Recover(id, open),
           UNCHANGED <<timer, canceled>>, id \notin timer \cup recovering
    PROVE  CountdownKept' /\ CountFits'
<1> USE Shapes DEF Turns, CountdownKept, CountFits, Recovers
<1>1. CASE Ignored(id)
  BY <1>1 DEF Recover
<1>2. CASE ~Ignored(id)
  <2> DEFINE will == WillReconnect(id)
             job == [id |-> id, by |-> "recover", call |-> 0, at |-> "handles",
                     will |-> will, rest |-> handles[id]]
  <2>1. will => id \notin canceled
    BY DEF WillReconnect, AutoEnabled
  <2>2. job.id = id /\ job.will = will
    OBVIOUS
  <2>3. \A j \in jobs : Recovers(j) => j.id # id
    BY DEF TakesTurns
  <2>4. /\ jobs' = jobs \cup {job} /\ recovering' = recovering \cup {id}
        /\ will => countdown' = countdown \cup {id} /\ state' = [state EXCEPT ![id] = "reconnecting"]
        /\ ~will => countdown' = countdown \ {id} /\ state' = [state EXCEPT ![id] = "failed"]
    BY <1>2 DEF Recover, Transition
  <2> HIDE DEF job, will
  <2>5. CountdownKept'
    BY <2>4
  <2>6. CountFits'
    BY <2>1, <2>2, <2>3, <2>4
  <2> QED
    BY <2>5, <2>6
<1> QED
  BY <1>1, <1>2

(* Each step keeps the countdown, the state and the timer together.        *)
LEMMA CountStep ==
    ASSUME Turns, LiveFits, CountdownKept, CountFits, [Next]_vars
    PROVE  CountdownKept' /\ CountFits'
<1> USE Shapes DEF Turns
<1>f. \A f \in flows : f.id \notin countdown /\ state[f.id] # "reconnecting"
  BY DEF TakesTurns, Idle, CountdownKept
<1>1. ASSUME NEW id \in Ids, NEW at \in {"grant"} \cup Routes, Create(id, at)
      PROVE  CountdownKept' /\ CountFits'
  BY <1>1 DEF CountdownKept, CountFits, Create, Transition, StateAt, policyVars, timerVars
<1>2. CASE UpdateSettings
  BY <1>2 DEF UpdateSettings, CountdownKept, CountFits, policyVars, timerVars
<1>3. ASSUME NEW id \in Ids, CancelReconnect(id)
      PROVE  CountdownKept' /\ CountFits'
  BY <1>3 DEF CancelReconnect, Transition, StopTimer, CountdownKept, CountFits
<1>4. ASSUME NEW id \in Ids, NEW by \in {"close", "retry"}, Close(id, by)
      PROVE  CountdownKept' /\ CountFits'
  <2> DEFINE job == [id |-> id, by |-> by, call |-> calls[id] + 1,
                     at |-> IF id \in grant THEN "revoke" ELSE "handles",
                     will |-> FALSE,
                     rest |-> IF id \in grant THEN {} ELSE handles[id]]
  <2>1. /\ jobs' = jobs \cup {job} /\ UNCHANGED recovering
        /\ timer' = timer \ {id} /\ countdown' = countdown \ {id}
        /\ canceled' = canceled \cup {id}
        /\ state' = [state EXCEPT ![id] = "closing"]
    BY <1>4 DEF Close, Transition, StopTimer
  <2>2. job.by # "recover"
    OBVIOUS
  <2> HIDE DEF job
  <2> QED
    BY <2>1, <2>2 DEF CountdownKept, CountFits, Recovers
<1>5. ASSUME NEW f \in flows, FlowStep(f)
      PROVE  CountdownKept' /\ CountFits'
  <2>1. ASSUME NEW ok \in BOOLEAN, FlowReadGrant(f, ok)
        PROVE  CountdownKept' /\ CountFits'
    BY <2>1 DEF FlowReadGrant, CountdownKept, CountFits, policyVars, timerVars
  <2>2. CASE FlowRevoked(f)
    BY <1>f, <2>2 DEF FlowRevoked, Transition, StateAt, CountdownKept, CountFits,
                      policyVars, timerVars
  <2>3. CASE FlowConnecting(f)
    BY <1>f, <2>3 DEF FlowConnecting, Transition, CountdownKept, CountFits,
                      policyVars, timerVars
  <2>4. CASE FlowAuthenticating(f)
    BY <1>f, <2>4 DEF FlowAuthenticating, Transition, CountdownKept, CountFits,
                      policyVars, timerVars
  <2>5. CASE FlowHandshake(f)
    BY <1>f, <2>5 DEF FlowHandshake, Transition, CountdownKept, CountFits
  <2>6. CASE FlowFail(f)
    BY <2>6, RecoverCounts DEF FlowFail, TakesTurns, Idle
  <2> QED
    BY <1>5, <2>1, <2>2, <2>3, <2>4, <2>5, <2>6 DEF FlowStep
<1>6. ASSUME NEW j \in jobs, JobStep(j)
      PROVE  CountdownKept' /\ CountFits'
  <2>j. j \in Jobs
    BY DEF TypeOK
  <2>1. CASE JobRevoked(j)
    <3> DEFINE k == [j EXCEPT !.at = "handles", !.rest = handles[j.id]]
    <3>1. k.id = j.id /\ k.by = j.by /\ k.will = j.will
      BY <2>j, JobFields
    <3>2. jobs' = (jobs \ {j}) \cup {k} /\ UNCHANGED <<state, recovering, countdown, timer, canceled>>
      BY <2>1 DEF JobRevoked, policyVars, timerVars
    <3> HIDE DEF k
    <3> QED
      BY <3>1, <3>2 DEF CountdownKept, CountFits, Recovers
  <2>2. CASE JobEnd(j)
    <3>1. PICK t : jobs' = (jobs \ {j}) \cup {[j EXCEPT !.rest = @ \ {t}]}
      BY <2>2 DEF JobEnd
    <3> DEFINE k == [j EXCEPT !.rest = @ \ {t}]
    <3>2. k.id = j.id /\ k.by = j.by /\ k.will = j.will
      BY <2>2, <2>j DEF Jobs, JobEnd
    <3>3. jobs' = (jobs \ {j}) \cup {k} /\ UNCHANGED <<state, recovering, countdown, timer, canceled>>
      BY <2>2, <3>1 DEF JobEnd, policyVars, timerVars
    <3> HIDE DEF k
    <3> QED
      BY <3>2, <3>3 DEF CountdownKept, CountFits, Recovers
  <2>3. CASE RecoverDone(j)
    <3>1. j.id \in countdown => MayArm(j)
      <4>1. j.id \in countdown => state[j.id] = "reconnecting"
        BY DEF CountdownKept
      <4>2. j.id \in countdown => j.id \notin aborted /\ j.id \in live
        BY <4>1 DEF ClosedStaysDown, LiveFits
      <4> QED
        BY <2>3, <4>2 DEF RecoverDone, MayArm, CountFits, Recovers
    <3> QED
      BY <2>3, <3>1 DEF RecoverDone, CountdownKept, CountFits, policyVars
  <2>4. CASE CloseDone(j)
    <3>1. j.id \notin countdown
      BY <2>4 DEF CloseDone, LiveFits, Recovers, ClosedStaysDown, CountdownKept
    <3> QED
      BY <2>4, <3>1 DEF CloseDone, Transition, CountdownKept, CountFits, policyVars, timerVars
  <2>5. ASSUME NEW new \in Ids, RetryDone(j, new)
        PROVE  CountdownKept' /\ CountFits'
    <3>1. j.id \notin countdown /\ new \notin countdown
      BY <2>5 DEF RetryDone, LiveFits, Recovers, ClosedStaysDown, CountdownKept
    <3>2. PICK at \in Routes :
             state' = [state EXCEPT ![j.id] = "closed", ![new] = StateAt(at, "resolving")]
      BY <2>5 DEF RetryDone
    <3>3. /\ UNCHANGED <<recovering, countdown, timer, canceled>> /\ jobs' \subseteq jobs
      BY <2>5 DEF RetryDone, policyVars, timerVars
    <3> QED
      BY <3>1, <3>2, <3>3 DEF CountdownKept, CountFits, StateAt
  <2> QED
    BY <1>6, <2>1, <2>2, <2>3, <2>4, <2>5 DEF JobStep
<1>7. ASSUME NEW id \in Ids, TimerFires(id)
      PROVE  CountdownKept' /\ CountFits'
  <2>1. id \in live \ aborted /\ state[id] # "none"
    BY <1>7 DEF TimerFires, TakesTurns, Idle, LiveFits, ClosedStaysDown
  <2>2. state' = [state EXCEPT ![id] = "failed"] \/ \E at \in Routes :
           state' = [state EXCEPT ![id] = StateAt(at, "resolving")]
    BY <1>7, <2>1 DEF TimerFires, Transition
  <2>3. /\ timer' = timer \ {id} /\ countdown' = countdown \ {id}
        /\ UNCHANGED <<recovering, canceled, jobs>>
    BY <1>7 DEF TimerFires, StopTimer, policyVars
  <2> QED
    BY <2>2, <2>3 DEF CountdownKept, CountFits, StateAt
<1>8. ASSUME NEW t \in transports, TransportClosed(t)
      PROVE  CountdownKept' /\ CountFits'
  <2>1. CASE Notices(t)
    BY <1>8, <2>1, RecoverCounts DEF TransportClosed, Notices, TakesTurns, Idle
  <2>2. CASE ~Notices(t)
    BY <1>8, <2>2 DEF TransportClosed, CountdownKept, CountFits
  <2> QED
    BY <2>1, <2>2
<1>9. CASE UNCHANGED vars
  BY <1>9 DEF vars, CountdownKept, CountFits, policyVars, timerVars
<1> QED
  BY <1>1, <1>2, <1>3, <1>4, <1>5, <1>6, <1>7, <1>8, <1>9 DEF Next

(* A chain is the transports of one run of connect().                      *)
LEMMA ChainMembers ==
    ASSUME NEW id \in Ids, NEW g \in Nat
    PROVE  Chain(id, g) = {t \in Transports : t[1] = id /\ t[2] = g}
<1>1. ASSUME NEW t \in Transports, t[1] = id, t[2] = g
      PROVE  t \in {id} \X {g} \X Hop
  BY <1>1 DEF Transports
<1>2. ASSUME NEW t \in {id} \X {g} \X Hop
      PROVE  t \in Transports /\ t[1] = id /\ t[2] = g
  BY <1>2 DEF Transports
<1> QED
  BY <1>1, <1>2 DEF Chain

(* Facts of the types that the steps on handles need.                      *)
LEMMA HandleShapes ==
    ASSUME TypeOK
    PROVE  /\ handles \in [Ids -> SUBSET Transports] /\ gen \in [Ids -> Nat]
           /\ state \in [Ids -> States]
           /\ \A f \in flows : f.id \in Ids /\ f.gen \in Nat /\ f.hop \in Nat
           /\ \A j \in jobs : j.id \in Ids /\ j.rest \subseteq Transports
           /\ \A t \in Transports : t[1] \in Ids /\ t[2] \in Nat /\ t[3] \in Nat
           /\ transports \subseteq Transports
           /\ Known \subseteq Transports
BY ConnectionAssumption DEF TypeOK, Flows, Jobs, Transports, Known, Hop

(* Which handles a job still has to close, whatever else it waits for.     *)
SameRests == \A j : j.rest # {} => (j \in jobs <=> j \in jobs')

(* No connection becomes ready, unborn or due for a reconnect.             *)
Settling ==
    /\ \A id \in Ids : state'[id] \in {"none", "ready"} => state[id] = state'[id]
    /\ timer' \cup recovering' \subseteq timer \cup recovering

(* A step that leaves the clients and the jobs' handles alone, while a     *)
(* connect() may go on without obtaining or discarding a transport.        *)
LEMMA QuietHandles ==
    ASSUME Turns, Handled, TypeOK', SameRests, Settling,
           UNCHANGED <<handles, transports, ending, gen>>, aborted \subseteq aborted',
           \A g \in flows' : \E f \in flows :
              /\ g.id = f.id /\ g.gen = f.gen /\ Reach(g) = Reach(f)
              /\ g.at = "discard" => f.at = "discard",
           \A f \in flows : f.at = "discard" => f \in flows'
    PROVE  Handled'
<1> USE HandleShapes DEF Turns
<1>1. Known' = Known
  BY DEF Known, SameRests
<1>2. HandlesFit'
  BY DEF Handled, HandlesFit, Settling, Chain
<1>3. ASSUME NEW g \in flows'
      PROVE  FlowFits(g)'
  <2>1. PICK f \in flows : /\ g.id = f.id /\ g.gen = f.gen /\ Reach(g) = Reach(f)
                           /\ g.at = "discard" => f.at = "discard"
    OBVIOUS
  <2>2. FlowFits(f)
    BY DEF Handled, FlowsFit
  <2>3. \A j \in jobs' : \A t \in j.rest : j \in jobs
    BY DEF SameRests
  <2> QED
    BY <1>1, <2>1, <2>2, <2>3 DEF FlowFits, Chain
<1>4. ChainsFit'
  <2>1. Discarding \subseteq Discarding'
    BY DEF Discarding
  <2>2. \A j : \A t \in j.rest : j \in jobs <=> j \in jobs'
    BY DEF SameRests
  <2> QED
    BY <1>1, <2>1, <2>2 DEF Handled, ChainsFit, SameChain
<1> QED
  BY <1>2, <1>3, <1>4 DEF Handled, FlowsFit

(* A connect() starts: nothing is known of its generation yet.             *)
LEMMA StartHandles ==
    ASSUME Turns, Handled, TypeOK', SameRests,
           NEW id \in Ids, NEW at \in {"grant"} \cup Routes, StartConnect(id, at),
           UNCHANGED <<handles, transports, ending, aborted>>,
           handles[id] = {}, \A f \in flows : f.id # id,
           state'[id] # "ready",
           \A x \in Ids \ {id} : state'[x] \in {"none", "ready"} => state[x] = state'[x],
           timer' \cup recovering' \subseteq timer \cup recovering
    PROVE  Handled'
<1> USE HandleShapes DEF Turns
<1> DEFINE g == [id |-> id, gen |-> gen[id] + 1, at |-> at, hop |-> 1]
<1>1. g.id = id /\ g.gen = gen[id] + 1 /\ Reach(g) = 0 /\ g.at # "discard"
  BY DEF Reach, Routes
<1>2. flows' = flows \cup {g} /\ gen' = [gen EXCEPT ![id] = @ + 1]
  BY DEF StartConnect
<1> HIDE DEF g
<1>3. Known' = Known
  BY DEF Known, SameRests
<1>4. \A t \in Known : t[2] <= gen[t[1]] /\ t[1] \in Ids /\ t[2] \in Nat /\ t[3] \in Nat
  BY DEF Handled, ChainsFit
<1>5. \A x \in Ids : gen'[x] = IF x = id THEN gen[x] + 1 ELSE gen[x]
  BY <1>2
<1>6. HandlesFit'
  <2>1. ASSUME NEW x \in Ids, x # id
        PROVE  /\ handles'[x] \subseteq Chain(x, gen'[x]) \ ending'
               /\ x \in timer' \cup recovering' \/ state'[x] = "none" => handles'[x] = {}
               /\ state'[x] = "ready" => /\ handles'[x] = Chain(x, gen'[x])
                                         /\ handles'[x] \subseteq transports'
    BY <1>5, <2>1 DEF Handled, HandlesFit
  <2> QED
    BY <2>1 DEF HandlesFit, Chain
<1>7. ASSUME NEW h, h = g
      PROVE  FlowFits(h)'
  <2>1. ~\E t \in Known : t[1] = id /\ t[2] = gen[id] + 1
    BY <1>4
  <2>2. \A j \in jobs' : \A t \in j.rest : j \in jobs /\ t \in Known
    BY DEF SameRests, Known
  <2>3. {t \in Chain(h.id, h.gen) : t[3] <= Reach(h)} = {}
    <3>1. Reach(h) = 0 /\ h.id = id /\ h.gen \in Nat
      BY <1>1, <1>7
    <3> QED
      BY <3>1, ChainMembers DEF Transports, Hop
  <2>4. handles'[h.id] = {} /\ h.id = id /\ h.gen = gen[id] + 1 /\ h.at # "discard"
    BY <1>1, <1>7
  <2> QED
    BY <1>3, <1>5, <2>1, <2>2, <2>3, <2>4 DEF FlowFits
<1>8. ASSUME NEW f \in flows
      PROVE  FlowFits(f)'
  <2>1. FlowFits(f) /\ f.id # id /\ gen'[f.id] = gen[f.id]
    BY <1>5 DEF Handled, FlowsFit
  <2>2. \A j \in jobs' : \A t \in j.rest : j \in jobs
    BY DEF SameRests
  <2> QED
    BY <1>3, <2>1, <2>2 DEF FlowFits, Chain
<1>9. ChainsFit'
  <2>1. Discarding \subseteq Discarding'
    BY <1>2 DEF Discarding
  <2>2. \A j : \A t \in j.rest : j \in jobs <=> j \in jobs'
    BY DEF SameRests
  <2>3. \A t \in Known' : t[2] <= gen'[t[1]]
    BY <1>3, <1>4, <1>5
  <2> QED
    BY <2>1, <2>2, <2>3 DEF Handled, ChainsFit, SameChain
<1> QED
  BY <1>2, <1>6, <1>7, <1>8, <1>9 DEF Handled, FlowsFit

(* The handles of a connection go to a job, as a whole: no connect() is    *)
(* left that could add to them, or close() has aborted it.  A client may   *)
(* be gone, and others are asked to close.                                 *)
LEMMA TakeHandles ==
    ASSUME Turns, Handled, TypeOK',
           NEW id \in Ids, NEW job, job.rest = handles[id],
           \A j : j.rest # {} => (j \in jobs' <=> j \in jobs \/ j = job),
           handles' = [handles EXCEPT ![id] = {}],
           transports' \subseteq transports,
           \A t \in transports \ transports' : t[1] = id,
           ending' \subseteq ending \cup handles[id],
           flows' \subseteq flows,
           \A f \in flows \ flows' :
              f.at = "discard" => <<f.id, f.gen, f.hop>> \notin transports',
           UNCHANGED gen, aborted \subseteq aborted',
           id \in aborted' \/ \A f \in flows' : f.id # id,
           state'[id] # "ready",
           \A x \in Ids : state'[x] \in {"none", "ready"} => state[x] = state'[x],
           timer' \cup recovering' \subseteq timer \cup recovering \cup {id}
    PROVE  Handled'
<1> USE HandleShapes DEF Turns
<1>1. Known' \subseteq Known
  BY DEF Known
<1>2. \A x \in Ids : \A t \in handles[x] : t[1] = x /\ t[2] = gen[x]
  BY ChainMembers DEF Handled, HandlesFit
<1>3. HandlesFit'
  <2>1. ASSUME NEW x \in Ids, x # id
        PROVE  /\ handles'[x] \subseteq Chain(x, gen'[x]) \ ending'
               /\ x \in timer' \cup recovering' \/ state'[x] = "none" => handles'[x] = {}
               /\ state'[x] = "ready" => /\ handles'[x] = Chain(x, gen'[x])
                                         /\ handles'[x] \subseteq transports'
    <3>1. handles'[x] = handles[x] /\ handles[x] \subseteq Chain(x, gen[x]) \ ending
      BY <2>1 DEF Handled, HandlesFit
    <3>2. \A t \in handles[x] : t \notin handles[id] /\ (t \in transports => t \in transports')
      BY <1>2, <2>1
    <3> QED
      BY <2>1, <3>1, <3>2 DEF Handled, HandlesFit
  <2> QED
    BY <2>1 DEF HandlesFit, Chain
<1>4. ASSUME NEW f \in flows'
      PROVE  FlowFits(f)'
  <2>1. FlowFits(f) /\ f \in flows
    BY DEF Handled, FlowsFit
  <2>2. f.id \notin aborted' => f.id # id /\ f.id \notin aborted
    OBVIOUS
  <2>3. ASSUME f.id \notin aborted', NEW j \in jobs', NEW t \in j.rest
        PROVE  ~(t[1] = f.id /\ t[2] = f.gen)
    <3>1. CASE j = job
      BY <1>2, <2>2, <2>3, <3>1
    <3>2. CASE j \in jobs
      BY <2>1, <2>2, <2>3, <3>2 DEF FlowFits
    <3> QED
      BY <2>3, <3>1, <3>2
  <2> QED
    BY <1>1, <2>1, <2>2, <2>3 DEF FlowFits, Chain
<1>5. ChainsFit'
  <2>1. \A t \in Known' : t[2] <= gen'[t[1]]
    BY <1>1 DEF Handled, ChainsFit
  <2>2. ASSUME NEW j \in jobs', NEW t \in j.rest, NEW x \in Ids, NEW u \in handles'[x]
        PROVE  ~SameChain(t, u)
    <3>1. x # id /\ u \in handles[x]
      BY <2>2
    <3>2. CASE j = job
      BY <1>2, <3>1, <3>2 DEF SameChain
    <3>3. CASE j \in jobs
      BY <3>1, <3>3 DEF Handled, ChainsFit
    <3> QED
      BY <2>2, <3>2, <3>3
  <2>3. ASSUME NEW i \in jobs', NEW j \in jobs', NEW t \in i.rest, NEW u \in j.rest,
               SameChain(t, u)
        PROVE  i = j
    <3>1. CASE i \in jobs /\ j \in jobs
      BY <2>3, <3>1 DEF Handled, ChainsFit
    <3>2. CASE i = job /\ j \in jobs
      BY <2>3, <3>2 DEF Handled, ChainsFit, SameChain
    <3>3. CASE i \in jobs /\ j = job
      BY <2>3, <3>3 DEF Handled, ChainsFit, SameChain
    <3> QED
      BY <2>3, <3>1, <3>2, <3>3
  <2>4. ASSUME NEW t \in transports'
        PROVE  \/ t \in handles'[t[1]] \/ (\E j \in jobs' : t \in j.rest) \/ t \in Discarding'
    <3>1. t \in transports /\ t[1] \in Ids
      OBVIOUS
    <3>2. CASE t \in handles[t[1]]
      <4>1. t[1] = id => t \in job.rest /\ job \in jobs'
        BY <3>2
      <4> QED
        BY <3>1, <3>2, <4>1
    <3>3. CASE \E j \in jobs : t \in j.rest
      BY <3>3
    <3>4. CASE t \in Discarding
      BY <3>4 DEF Discarding
    <3> QED
      BY <3>1, <3>2, <3>3, <3>4 DEF Handled, ChainsFit
  <2> QED
    BY <2>1, <2>2, <2>3, <2>4 DEF ChainsFit
<1> QED
  BY <1>3, <1>4, <1>5 DEF Handled, FlowsFit

(* closeHandles goes on to the next handle: the job keeps its chain, and   *)
(* nobody else has a handle of it.                                         *)
LEMMA EndHandles ==
    ASSUME Turns, Handled, TypeOK', NEW j \in jobs, JobEnd(j)
    PROVE  Handled'
<1> USE HandleShapes DEF Turns
<1>1. PICK t \in Awaited(j.rest) \ transports :
         /\ jobs' = (jobs \ {j}) \cup {[j EXCEPT !.rest = @ \ {t}]}
         /\ ending' = ending \cup (Awaited(j.rest \ {t}) \cap transports)
  BY DEF JobEnd
<1> DEFINE k == [j EXCEPT !.rest = @ \ {t}]
<1>2. k.rest = j.rest \ {t}
  BY DEF TypeOK, Jobs
<1>3. /\ jobs' = (jobs \ {j}) \cup {k} /\ ending' \subseteq ending \cup j.rest
      /\ UNCHANGED <<aborted, state, recovering, timer, gen, handles, transports, flows>>
  BY <1>1, AwaitedSubset DEF JobEnd, timerVars
<1> HIDE DEF k
<1>4. Known' \subseteq Known
  BY <1>2, <1>3 DEF Known
<1>5. HandlesFit'
  <2>1. ASSUME NEW id \in Ids
        PROVE  handles[id] \cap j.rest = {}
    BY DEF Handled, ChainsFit, SameChain
  <2> QED
    BY <1>3, <2>1 DEF Handled, HandlesFit, Chain
<1>6. ASSUME NEW f \in flows'
      PROVE  FlowFits(f)'
  <2>1. FlowFits(f) /\ f \in flows
    BY <1>3 DEF Handled, FlowsFit
  <2>2. f.id \notin aborted => \A i \in jobs' : \A u \in i.rest : ~(u[1] = f.id /\ u[2] = f.gen)
    BY <1>2, <1>3, <2>1 DEF FlowFits
  <2> QED
    BY <1>3, <1>4, <2>1, <2>2 DEF FlowFits, Chain
<1>7. ChainsFit'
  <2>1. \A u \in Known' : u[2] <= gen'[u[1]]
    BY <1>3, <1>4 DEF Handled, ChainsFit
  <2>2. \A i \in jobs' : \A u \in i.rest, id \in Ids : \A v \in handles'[id] : ~SameChain(u, v)
    BY <1>2, <1>3 DEF Handled, ChainsFit
  <2>3. \A i, l \in jobs' : \A u \in i.rest, v \in l.rest : SameChain(u, v) => i = l
    <3>1. ASSUME NEW i \in jobs \ {j}, NEW u \in i.rest, NEW v \in k.rest
          PROVE  ~SameChain(u, v) /\ ~SameChain(v, u)
      BY <1>2 DEF Handled, ChainsFit
    <3> QED
      BY <1>3, <3>1 DEF Handled, ChainsFit
  <2>4. \A u \in transports' :
           u \in handles'[u[1]] \/ (\E i \in jobs' : u \in i.rest) \/ u \in Discarding'
    <3>1. ASSUME NEW u \in transports, NEW i \in jobs, u \in i.rest
          PROVE  \E l \in jobs' : u \in l.rest
      BY <1>1, <1>2, <1>3, <3>1
    <3> QED
      BY <1>3, <3>1 DEF Handled, ChainsFit, Discarding
  <2> QED
    BY <2>1, <2>2, <2>3, <2>4 DEF ChainsFit
<1> QED
  BY <1>5, <1>6, <1>7 DEF Handled, FlowsFit

(* A client is gone, and no listener starts a recover().                   *)
LEMMA LoseHandles ==
    ASSUME Turns, Handled, TypeOK', NEW t \in transports, TransportClosed(t), ~Notices(t)
    PROVE  Handled'
<1> USE HandleShapes DEF Turns
<1>1. /\ transports' = transports \ {t} /\ ending' \subseteq ending
      /\ UNCHANGED <<aborted, state, recovering, timer, gen, handles, jobs, flows>>
  BY DEF TransportClosed
<1>2. Known' \subseteq Known
  BY <1>1 DEF Known
<1>3. HandlesFit'
  <2>1. ASSUME NEW id \in Ids, state[id] = "ready"
        PROVE  t \notin handles[id]
    BY <2>1, ChainMembers DEF Notices, Handled, HandlesFit
  <2> QED
    BY <1>1, <2>1 DEF Handled, HandlesFit, Chain
<1>4. ASSUME NEW f \in flows'
      PROVE  FlowFits(f)'
  BY <1>1, <1>2 DEF Handled, FlowsFit, FlowFits, Chain
<1>5. ChainsFit'
  BY <1>1, <1>2 DEF Handled, ChainsFit, SameChain, Discarding
<1> QED
  BY <1>3, <1>4, <1>5 DEF Handled, FlowsFit

(* connect() obtains its next hop, the first with that name: the handle is *)
(* discarded when close() overtook it, else kept, and the last one makes   *)
(* the chain complete.                                                     *)
LEMMA ObtainHandles ==
    ASSUME Turns, LiveFits, Handled, TypeOK', NEW f \in flows, FlowHandshake(f)
    PROVE  Handled'
<1> USE HandleShapes, ConnectionAssumption DEF Turns
<1> DEFINE t == <<f.id, f.gen, f.hop>>
<1>f. /\ FlowFits(f) /\ f.at = "handshake" /\ Reach(f) = f.hop - 1
      /\ f.id \in Ids /\ f.gen = gen[f.id] /\ f.hop \in Hop
      /\ \A g \in flows \ {f} : g.id # f.id
      /\ state[f.id] \notin {"none", "ready"} /\ f.id \notin timer \cup recovering
  BY DEF Handled, FlowsFit, FlowFits, FlowHandshake, Reach, TakesTurns, Idle, TypeOK, Flows
<1>t. /\ t \in Transports /\ t[1] = f.id /\ t[2] = f.gen /\ t[3] = f.hop
      /\ t \notin Known
  <2>1. t \in Transports /\ t[1] = f.id /\ t[2] = f.gen /\ t[3] = f.hop
    BY <1>f DEF Transports
  <2> QED
    BY <1>f, <2>1 DEF FlowFits
<1>m. \A x \in Ids : \A u \in handles[x] : u[1] = x /\ u[2] = gen[x]
  BY ChainMembers DEF Handled, HandlesFit
<1>1. /\ transports' = transports \cup {t} /\ UNCHANGED <<aborted, recovering, timer, gen, jobs>>
      /\ \A h \in 1..f.hop - 1 : <<f.id, f.gen, h>> \in transports
  BY DEF FlowHandshake
<1> HIDE DEF t
<1>2. CASE Late(f)
  <2> DEFINE e == [f EXCEPT !.at = "discard", !.hop = f.hop]
  <2>1. e.id = f.id /\ e.gen = f.gen /\ e.hop = f.hop /\ e.at = "discard" /\ Reach(e) = f.hop
    BY DEF TypeOK, Flows, Reach
  <2>2. /\ flows' = (flows \ {f}) \cup {e} /\ ending' = ending \cup {t}
        /\ UNCHANGED <<handles, state>>
    BY <1>2, <1>f DEF FlowHandshake, Move, Discarded, t
  <2>3. \A u \in Discarding : u \in Discarding'
    BY <1>f, <2>2 DEF Discarding
  <2>4. t \in Discarding'
    BY <2>1, <2>2 DEF Discarding, t
  <2> HIDE DEF e
  <2>5. f.id \in aborted
    BY <1>2, <1>f DEF Late, LiveFits
  <2>6. Known' = Known \cup {t}
    BY <1>1, <2>2 DEF Known
  <2>7. HandlesFit'
    <3>1. \A x \in Ids : t \notin handles[x]
      BY <1>t DEF Known
    <3> QED
      BY <1>1, <2>2, <3>1 DEF Handled, HandlesFit, Chain
  <2>8. ASSUME NEW g \in flows'
        PROVE  FlowFits(g)'
    <3>1. CASE g = e
      <4>1. \A u \in Known' : u[1] = g.id /\ u[2] = g.gen => u[3] <= Reach(g)
        BY <1>f, <1>t, <2>1, <2>6, <3>1 DEF FlowFits
      <4> QED
        BY <1>1, <1>f, <2>1, <2>5, <3>1, <4>1 DEF FlowFits
    <3>2. CASE g \in flows \ {f}
      <4>1. FlowFits(g) /\ g.id # f.id
        BY <1>f, <3>2 DEF Handled, FlowsFit
      <4> QED
        BY <1>1, <1>t, <2>2, <2>6, <4>1 DEF FlowFits, Chain
    <3> QED
      BY <2>2, <3>1, <3>2
  <2>9. ChainsFit'
    BY <1>1, <1>f, <1>t, <2>2, <2>3, <2>4, <2>6 DEF Handled, ChainsFit, SameChain
  <2> QED
    BY <2>7, <2>8, <2>9 DEF Handled, FlowsFit
<1>3. CASE ~Late(f)
  <2>1. /\ handles' = [handles EXCEPT ![f.id] = @ \cup {t}] /\ UNCHANGED ending
        /\ \A x \in Ids \ {f.id} : state'[x] = state[x]
    BY <1>3, <1>f DEF FlowHandshake, Late, Transition, t, Hop
  <2>2. /\ f.id \notin aborted
        /\ handles[f.id] = {u \in Chain(f.id, f.gen) : u[3] <= f.hop - 1}
        /\ \A j \in jobs : \A u \in j.rest : ~(u[1] = f.id /\ u[2] = f.gen)
    BY <1>3, <1>f DEF Late, FlowFits
  <2>3. handles'[f.id] = {u \in Chain(f.id, f.gen) : u[3] <= f.hop}
    <3>1. ASSUME NEW u \in Chain(f.id, f.gen), u[3] = f.hop
          PROVE  u = t
      BY <3>1 DEF Chain, t
    <3>2. t \in Chain(f.id, f.gen)
      BY <1>f, <1>t, ChainMembers
    <3>3. \A u \in Chain(f.id, f.gen) : u[3] <= f.hop <=> u[3] <= f.hop - 1 \/ u[3] = f.hop
      BY <1>f, ChainMembers DEF Hop
    <3> QED
      BY <1>f, <1>t, <2>1, <2>2, <3>1, <3>2, <3>3
  <2>4. Known' = Known \cup {t}
    BY <1>1, <1>f, <1>t, <2>1 DEF Known
  <2>5. t \notin ending
    BY <1>t DEF TypeOK, Known
  <2>6. CASE f.hop < Hops
    <3> DEFINE e == [f EXCEPT !.at = "forward", !.hop = f.hop]
    <3>1. e.id = f.id /\ e.gen = f.gen /\ e.at = "forward" /\ Reach(e) = f.hop
      BY DEF TypeOK, Flows, Reach
    <3>2. flows' = (flows \ {f}) \cup {e} /\ UNCHANGED state
      BY <1>3, <1>f, <2>6 DEF FlowHandshake, Move, Late
    <3>3. \A u \in Discarding : u \in Discarding'
      BY <1>f, <3>2 DEF Discarding
    <3> HIDE DEF e
    <3>4. HandlesFit'
      <4>1. handles'[f.id] \subseteq Chain(f.id, gen'[f.id]) \ ending'
        BY <1>1, <1>f, <2>1, <2>3, <2>5 DEF Handled, HandlesFit
      <4>2. ASSUME NEW x \in Ids, x # f.id
            PROVE  handles'[x] = handles[x]
        BY <2>1, <4>2
      <4> QED
        BY <1>1, <1>f, <2>1, <3>2, <4>1, <4>2 DEF Handled, HandlesFit, Chain
    <3>5. ASSUME NEW g \in flows'
          PROVE  FlowFits(g)'
      <4>1. CASE g = e
        <5>1. \A u \in Known' : u[1] = g.id /\ u[2] = g.gen => u[3] <= Reach(g)
          BY <1>f, <1>t, <2>4, <3>1, <4>1 DEF FlowFits
        <5>2. handles'[g.id] = {u \in Chain(g.id, g.gen) : u[3] <= Reach(g)}
          BY <2>3, <3>1, <4>1
        <5> QED
          BY <1>1, <1>f, <2>2, <3>1, <4>1, <5>1, <5>2 DEF FlowFits
      <4>2. CASE g \in flows \ {f}
        <5>1. FlowFits(g) /\ g.id # f.id
          BY <1>f, <4>2 DEF Handled, FlowsFit
        <5> QED
          BY <1>1, <1>t, <2>1, <2>4, <5>1 DEF FlowFits, Chain
      <4> QED
        BY <3>2, <4>1, <4>2
    <3>6. ChainsFit'
      <4>1. \A u \in Known' : u[2] <= gen'[u[1]]
        BY <1>1, <1>f, <1>t, <2>4 DEF Handled, ChainsFit
      <4>2. \A j \in jobs' : \A u \in j.rest, x \in Ids : \A v \in handles'[x] : ~SameChain(u, v)
        BY <1>1, <1>f, <1>t, <2>1, <2>2 DEF Handled, ChainsFit, SameChain
      <4>3. \A u \in transports' :
               u \in handles'[u[1]] \/ (\E j \in jobs' : u \in j.rest) \/ u \in Discarding'
        BY <1>1, <1>f, <1>t, <2>1, <3>3 DEF Handled, ChainsFit
      <4> QED
        BY <1>1, <4>1, <4>2, <4>3 DEF Handled, ChainsFit, SameChain
    <3> QED
      BY <3>4, <3>5, <3>6 DEF Handled, FlowsFit
  <2>7. CASE f.hop = Hops
    <3>2. flows' = flows \ {f} /\ state' = [state EXCEPT ![f.id] = "ready"]
      BY <1>3, <1>f, <2>7 DEF FlowHandshake, Late, Transition
    <3>3. \A u \in Discarding : u \in Discarding'
      BY <1>f, <3>2 DEF Discarding
    <3>c. handles'[f.id] = Chain(f.id, f.gen)
      <4>1. \A u \in Chain(f.id, f.gen) : u[3] <= f.hop
        BY <2>7 DEF Chain, Hop
      <4> QED
        BY <2>3, <4>1
    <3>4. HandlesFit'
      <4>1. handles'[f.id] \subseteq Chain(f.id, gen'[f.id]) \ ending'
        BY <1>1, <1>f, <2>1, <2>3, <2>5 DEF Handled, HandlesFit
      <4>2. handles'[f.id] \subseteq transports'
        <5>1. ASSUME NEW u \in Chain(f.id, f.gen)
              PROVE  u \in transports'
          <6>1. u = <<f.id, f.gen, u[3]>> /\ u[3] \in 1..f.hop
            BY <2>7 DEF Chain, Hop
          <6>2. CASE u[3] = f.hop
            BY <1>1, <6>1, <6>2 DEF t
          <6>3. CASE u[3] # f.hop
            <7>1. u[3] \in 1..f.hop - 1
              BY <1>f, <6>1, <6>3 DEF Hop
            <7> QED
              BY <1>1, <6>1, <7>1
          <6> QED
            BY <6>2, <6>3
        <5> QED
          BY <3>c, <5>1
      <4>3. ASSUME NEW x \in Ids, x # f.id
            PROVE  handles'[x] = handles[x] /\ state'[x] = state[x]
        BY <2>1, <4>3
      <4> QED
        BY <1>1, <1>f, <2>1, <3>2, <3>c, <4>1, <4>2, <4>3 DEF Handled, HandlesFit, Chain
    <3>5. ASSUME NEW g \in flows'
          PROVE  FlowFits(g)'
      <4>1. FlowFits(g) /\ g.id # f.id
        BY <1>f, <3>2 DEF Handled, FlowsFit
      <4> QED
        BY <1>1, <1>t, <2>1, <2>4, <4>1 DEF FlowFits, Chain
    <3>6. ChainsFit'
      <4>1. \A u \in Known' : u[2] <= gen'[u[1]]
        BY <1>1, <1>f, <1>t, <2>4 DEF Handled, ChainsFit
      <4>2. \A j \in jobs' : \A u \in j.rest, x \in Ids : \A v \in handles'[x] : ~SameChain(u, v)
        BY <1>1, <1>f, <1>t, <2>1, <2>2 DEF Handled, ChainsFit, SameChain
      <4>3. \A u \in transports' :
               u \in handles'[u[1]] \/ (\E j \in jobs' : u \in j.rest) \/ u \in Discarding'
        BY <1>1, <1>f, <1>t, <2>1, <3>3 DEF Handled, ChainsFit
      <4> QED
        BY <1>1, <4>1, <4>2, <4>3 DEF Handled, ChainsFit, SameChain
    <3> QED
      BY <3>4, <3>5, <3>6 DEF Handled, FlowsFit
  <2> QED
    BY <1>f, <2>6, <2>7 DEF Hop
<1> QED
  BY <1>2, <1>3

(* recover() takes the handles of a connection whose connect() has failed, *)
(* or of whose clients one is gone.                                        *)
LEMMA RecoverHandles ==
    ASSUME Turns, Handled, TypeOK', NEW id \in Ids, Recover(id, transports'),
           transports' \subseteq transports, \A t \in transports \ transports' : t[1] = id,
           flows' \subseteq flows, \A f \in flows' : f.id # id,
           \A f \in flows \ flows' :
              f.at = "discard" => <<f.id, f.gen, f.hop>> \notin transports',
           UNCHANGED <<gen, aborted, timer>>,
           transports' = transports \/ ~Ignored(id), state[id] # "ready" \/ ~Ignored(id)
    PROVE  Handled'
<1> USE HandleShapes DEF Turns
<1>1. CASE Ignored(id)
  <2>1. /\ transports' = transports /\ ending' = ending
        /\ UNCHANGED <<state, recovering, handles, jobs>>
    BY <1>1 DEF Recover, TypeOK
  <2>2. Known' = Known
    BY <2>1 DEF Known
  <2>3. HandlesFit'
    BY <2>1 DEF Handled, HandlesFit, Chain
  <2>4. ASSUME NEW f \in flows'
        PROVE  FlowFits(f)'
    BY <2>1, <2>2 DEF Handled, FlowsFit, FlowFits, Chain
  <2>5. \A t \in transports : t \in Discarding => t \in Discarding'
    BY <2>1 DEF Discarding
  <2>6. ChainsFit'
    BY <2>1, <2>2, <2>5 DEF Handled, ChainsFit, SameChain
  <2> QED
    BY <2>3, <2>4, <2>6 DEF Handled, FlowsFit
<1>2. CASE ~Ignored(id)
  <2> DEFINE job == [id |-> id, by |-> "recover", call |-> 0, at |-> "handles",
                     will |-> WillReconnect(id), rest |-> handles[id]]
  <2>1. job.rest = handles[id]
    OBVIOUS
  <2>2. /\ jobs' = jobs \cup {job} /\ recovering' = recovering \cup {id}
        /\ handles' = [handles EXCEPT ![id] = {}]
        /\ ending' \subseteq ending \cup handles[id]
        /\ \E s \in {"reconnecting", "failed"} : state' = [state EXCEPT ![id] = s]
    BY <1>2, AwaitedSubset DEF Recover, Transition
  <2> HIDE DEF job
  <2> QED
    BY <2>1, <2>2, TakeHandles
<1> QED
  BY <1>1, <1>2

(* A connect() that goes on before its handshake.                          *)
LEMMA MoveHandles ==
    ASSUME Turns, Handled, TypeOK', NEW f \in flows, NEW at \in Stages, NEW hop \in Hop,
           Move(f, at, hop), at # "discard", f.at # "discard",
           (IF at = "forward" THEN hop ELSE hop - 1) = Reach(f),
           UNCHANGED <<handles, transports, ending, gen, aborted, jobs, timer, recovering>>,
           \A x \in Ids : state'[x] \in {"none", "ready"} => state[x] = state'[x]
    PROVE  Handled'
<1> DEFINE g == [f EXCEPT !.at = at, !.hop = hop]
<1>1. g.id = f.id /\ g.gen = f.gen /\ g.at = at /\ Reach(g) = Reach(f)
  BY DEF Turns, TypeOK, Flows, Reach
<1>2. flows' = (flows \ {f}) \cup {g}
  BY DEF Move
<1>3. SameRests /\ Settling
  BY DEF SameRests, Settling
<1> HIDE DEF g
<1> QED
  BY <1>1, <1>2, <1>3, QuietHandles

(* Each step keeps the handles, the jobs and the calls of connect() apart. *)
LEMMA HandleStep ==
    ASSUME Turns, LiveFits, Handled, TypeOK', [Next]_vars
    PROVE  Handled'
<1> USE HandleShapes DEF Turns
<1>q. \A g \in flows : \E f \in flows :
         /\ g.id = f.id /\ g.gen = f.gen /\ Reach(g) = Reach(f)
         /\ g.at = "discard" => f.at = "discard"
  OBVIOUS
<1>t. \A f \in flows : state[f.id] \notin {"none", "ready"} /\ Idle(f.id)
  BY DEF TakesTurns
<1>n. \A id \in Ids : state[id] = "none" => /\ \A f \in flows : f.id # id
                                           /\ handles[id] = {}
  BY <1>t DEF Handled, HandlesFit
<1>1. ASSUME NEW id \in Ids, NEW at \in {"grant"} \cup Routes, Create(id, at)
      PROVE  Handled'
  <2>1. /\ state' = [state EXCEPT ![id] = StateAt(at, "resolving")]
        /\ UNCHANGED <<handles, transports, ending, aborted, jobs, timer, recovering>>
        /\ StartConnect(id, at) /\ state[id] = "none"
    BY <1>1 DEF Create, Transition, timerVars
  <2>2. SameRests
    BY <2>1 DEF SameRests
  <2> QED
    BY <1>n, <2>1, <2>2, StartHandles DEF StateAt
<1>2. CASE UpdateSettings
  <2>1. SameRests /\ Settling
    BY <1>2 DEF UpdateSettings, SameRests, Settling, timerVars
  <2> QED
    BY <1>2, <1>q, <2>1, QuietHandles DEF UpdateSettings
<1>3. ASSUME NEW id \in Ids, CancelReconnect(id)
      PROVE  Handled'
  <2>1. SameRests /\ Settling
    BY <1>3 DEF CancelReconnect, SameRests, Settling, Transition, StopTimer
  <2> QED
    BY <1>3, <1>q, <2>1, QuietHandles DEF CancelReconnect
<1>4. ASSUME NEW id \in Ids, NEW by \in {"close", "retry"}, Close(id, by)
      PROVE  Handled'
  <2> DEFINE job == [id |-> id, by |-> by, call |-> calls[id] + 1,
                     at |-> IF id \in grant THEN "revoke" ELSE "handles",
                     will |-> FALSE,
                     rest |-> IF id \in grant THEN {} ELSE handles[id]]
  <2>1. /\ jobs' = jobs \cup {job} /\ aborted' = aborted \cup {id}
        /\ timer' \subseteq timer /\ UNCHANGED <<recovering, gen, transports, flows>>
        /\ state' = [state EXCEPT ![id] = "closing"]
        /\ id \in grant => UNCHANGED <<handles, ending>>
        /\ id \notin grant => /\ handles' = [handles EXCEPT ![id] = {}]
                              /\ ending' \subseteq ending \cup handles[id]
    BY <1>4, AwaitedSubset DEF Close, Transition, StopTimer
  <2>2. job.rest = IF id \in grant THEN {} ELSE handles[id]
    OBVIOUS
  <2> HIDE DEF job
  <2>3. CASE id \in grant
    <3>1. SameRests /\ Settling
      BY <2>1, <2>2, <2>3 DEF SameRests, Settling
    <3> QED
      BY <1>q, <2>1, <2>3, <3>1, QuietHandles
  <2>4. CASE id \notin grant
    BY <2>1, <2>2, <2>4, TakeHandles
  <2> QED
    BY <2>3, <2>4
<1>5. ASSUME NEW f \in flows, FlowStep(f)
      PROVE  Handled'
  <2>f. f.hop \in Hop /\ f.id \in Ids
    BY DEF TypeOK, Flows
  <2>1. ASSUME NEW ok \in BOOLEAN, FlowReadGrant(f, ok)
        PROVE  Handled'
    BY <2>1, <2>f, MoveHandles DEF FlowReadGrant, Stages, Reach, timerVars
  <2>2. CASE FlowRevoked(f)
    <3>1. PICK at \in Routes :
             /\ Move(f, at, f.hop)
             /\ state' = [state EXCEPT ![f.id] = StateAt(at, state[f.id])]
      BY <2>2, RevokedMoves
    <3>2. \A x \in Ids : state'[x] \in {"none", "ready"} => state[x] = state'[x]
      BY <1>t, <2>f, <3>1 DEF Transition, StateAt
    <3> QED
      BY <2>2, <2>f, <3>1, <3>2, MoveHandles DEF FlowRevoked, Routes, Stages, Reach, timerVars
  <2>3. CASE FlowConnecting(f)
    <3>1. (IF f.at = "forward" THEN f.hop + 1 ELSE f.hop) \in Hop
      BY <2>3, <2>f, ConnectionAssumption DEF FlowConnecting, TypeOK, Hop
    <3>2. (IF f.at = "forward" THEN f.hop + 1 ELSE f.hop) - 1 = Reach(f)
      BY <2>3, <2>f DEF FlowConnecting, Reach, Hop
    <3> QED
      BY <2>3, <2>f, <3>1, <3>2, MoveHandles DEF FlowConnecting, Transition, Stages, timerVars
  <2>4. CASE FlowAuthenticating(f)
    BY <2>4, <2>f, MoveHandles DEF FlowAuthenticating, Transition, Stages, Reach, timerVars
  <2>5. CASE FlowHandshake(f)
    BY <2>5, ObtainHandles
  <2>6. CASE FlowFail(f)
    <3>1. /\ flows' = flows \ {f} /\ Recover(f.id, transports)
          /\ f.at = "discard" => <<f.id, f.gen, f.hop>> \notin transports
          /\ UNCHANGED <<transports, gen, aborted, timer>>
      BY <2>6 DEF FlowFail
    <3>2. \A g \in flows' : g.id # f.id
      BY <3>1 DEF TakesTurns
    <3> QED
      BY <1>t, <2>f, <3>1, <3>2, RecoverHandles
  <2> QED
    BY <1>5, <2>1, <2>2, <2>3, <2>4, <2>5, <2>6 DEF FlowStep
<1>6. ASSUME NEW j \in jobs, JobStep(j)
      PROVE  Handled'
  <2>j. j \in Jobs /\ j.id \in Ids
    BY DEF TypeOK
  <2>1. CASE JobRevoked(j)
    <3> DEFINE k == [j EXCEPT !.at = "handles", !.rest = handles[j.id]]
    <3>1. k.rest = handles[j.id] /\ j.rest = {} /\ j.id \in aborted
      BY <2>1, <2>j, JobFields DEF JobRevoked, LiveFits
    <3>2. /\ jobs' = (jobs \ {j}) \cup {k} /\ handles' = [handles EXCEPT ![j.id] = {}]
          /\ ending' \subseteq ending \cup handles[j.id]
          /\ UNCHANGED <<state, aborted, recovering, timer, gen, transports, flows>>
      BY <2>1, AwaitedSubset DEF JobRevoked, timerVars
    <3>3. state[j.id] # "ready"
      BY <3>1 DEF ClosedStaysDown
    <3> HIDE DEF k
    <3> QED
      BY <2>j, <3>1, <3>2, <3>3, TakeHandles
  <2>2. CASE JobEnd(j)
    BY <2>2, EndHandles
  <2>3. CASE RecoverDone(j)
    <3>1. SameRests /\ Settling
      BY <2>3, <2>j DEF RecoverDone, SameRests, Settling, TakesTurns, Recovers
    <3> QED
      BY <2>3, <1>q, <3>1, QuietHandles DEF RecoverDone
  <2>4. CASE CloseDone(j)
    <3>1. SameRests /\ Settling
      BY <2>4, <2>j DEF CloseDone, Transition, SameRests, Settling, timerVars
    <3> QED
      BY <2>4, <1>q, <3>1, QuietHandles DEF CloseDone
  <2>5. ASSUME NEW new \in Ids, RetryDone(j, new)
        PROVE  Handled'
    <3>1. PICK at \in Routes :
             /\ StartConnect(new, at)
             /\ state' = [state EXCEPT ![j.id] = "closed", ![new] = StateAt(at, "resolving")]
      BY <2>5 DEF RetryDone
    <3>2. SameRests
      BY <2>5 DEF RetryDone, SameRests
    <3>3. /\ state'[new] # "ready"
          /\ \A x \in Ids \ {new} : state'[x] \in {"none", "ready"} => state[x] = state'[x]
      BY <2>j, <3>1 DEF StateAt
    <3> QED
      BY <1>n, <2>5, <3>1, <3>2, <3>3, StartHandles DEF RetryDone, timerVars
  <2> QED
    BY <1>6, <2>1, <2>2, <2>3, <2>4, <2>5 DEF JobStep
<1>7. ASSUME NEW id \in Ids, TimerFires(id)
      PROVE  Handled'
  <2>1. /\ handles[id] = {} /\ \A f \in flows : f.id # id
        /\ timer' \subseteq timer
        /\ UNCHANGED <<handles, transports, ending, aborted, jobs, recovering>>
    BY <1>7, <1>t DEF TimerFires, StopTimer, Idle, Handled, HandlesFit
  <2>2. SameRests
    BY <2>1 DEF SameRests
  <2>3. CASE \E at \in Routes :
                StartConnect(id, at) /\ state' = [state EXCEPT ![id] = StateAt(at, "resolving")]
    <3>1. PICK at \in Routes :
             StartConnect(id, at) /\ state' = [state EXCEPT ![id] = StateAt(at, "resolving")]
      BY <2>3
    <3>2. /\ state'[id] # "ready"
          /\ \A x \in Ids \ {id} : state'[x] \in {"none", "ready"} => state[x] = state'[x]
      BY <3>1 DEF StateAt
    <3> QED
      BY <2>1, <2>2, <3>1, <3>2, StartHandles
  <2>4. CASE UNCHANGED <<gen, flows>>
    <3>1. Settling
      <4>1. UNCHANGED state \/ state' = [state EXCEPT ![id] = "failed"]
        BY <1>7, <2>4 DEF TimerFires, StartConnect, Transition
      <4> QED
        BY <2>1, <4>1 DEF Settling
    <3> QED
      BY <1>q, <2>1, <2>2, <2>4, <3>1, QuietHandles
  <2> QED
    BY <1>7, <2>3, <2>4 DEF TimerFires, Transition
<1>8. ASSUME NEW t \in transports, TransportClosed(t)
      PROVE  Handled'
  <2>1. CASE Notices(t)
    <3>1. /\ t[1] \in Ids /\ state[t[1]] = "ready"
          /\ transports' = transports \ {t} /\ Recover(t[1], transports')
          /\ UNCHANGED <<gen, aborted, timer, flows>>
      BY <1>8, <2>1 DEF TransportClosed, Notices
    <3>2. ~Ignored(t[1])
      BY <3>1 DEF Ignored, TakesTurns, Idle, ClosedStaysDown, LiveFits
    <3>3. \A f \in flows' : f.id # t[1]
      BY <1>t, <3>1
    <3> QED
      BY <3>1, <3>2, <3>3, RecoverHandles
  <2>2. CASE ~Notices(t)
    BY <1>8, <2>2, LoseHandles
  <2> QED
    BY <2>1, <2>2
<1>9. CASE UNCHANGED vars
  <2>1. SameRests /\ Settling
    BY <1>9 DEF vars, SameRests, Settling, timerVars
  <2> QED
    BY <1>9, <1>q, <2>1, QuietHandles DEF vars
<1> QED
  BY <1>1, <1>2, <1>3, <1>4, <1>5, <1>6, <1>7, <1>8, <1>9 DEF Next

(* The inductive invariant of what a connection shows.                     *)
Fits == LiveFits /\ CountdownKept /\ AnnouncedFits /\ CountFits /\ Handled

(* Every reachable state fits, and takes turns.                            *)
THEOREM Fitting == Spec => [](Turns /\ Fits)
<1>1. Init => Fits
  <2> SUFFICES ASSUME Init PROVE Fits
    OBVIOUS
  <2>1. LiveFits /\ CountdownKept /\ AnnouncedFits /\ CountFits
    BY DEF Init, LiveFits, CountdownKept, AnnouncedFits, CountFits
  <2>2. HandlesFit
    BY DEF Init, HandlesFit
  <2>3. FlowsFit
    BY DEF Init, FlowsFit
  <2>4. ChainsFit
    BY DEF Init, ChainsFit, Known
  <2> QED
    BY <2>1, <2>2, <2>3, <2>4 DEF Fits, Handled
<1>2. Turns /\ Turns' /\ Fits /\ [Next]_vars => Fits'
  BY LiveStep, CountStep, AnnounceStep, HandleStep DEF Fits, Turns
<1>3. Spec => []Turns
  BY TypeCorrect, TurnsTaken, ClosedConnectionsStayDown, PTL DEF Turns
<1> QED
  BY <1>1, <1>2, <1>3, PTL DEF Spec

(* A connection that says ready can be used, every hop of it open and none *)
(* being closed; one that says reconnecting shows the moment of the next   *)
(* attempt and that attempt will be decided; and that moment is shown with *)
(* no other state, unless close() published `closing' before clearing it.  *)
THEOREM ShowsWhatIs == Spec => []ShownHonest
<1>1. Turns /\ Fits => ReadyUsable
  <2> SUFFICES ASSUME Turns, Fits, NEW id \in Ids, state[id] = "ready"
               PROVE  /\ id \in live
                      /\ handles[id] = Chain(id, gen[id])
                      /\ handles[id] \subseteq transports \ ending
                      /\ FlowsOf(id) = {}
    BY DEF ReadyUsable
  <2>1. id \in live
    BY DEF Turns, Fits, ClosedStaysDown, LiveFits
  <2>2. handles[id] = Chain(id, gen[id]) /\ handles[id] \subseteq transports \ ending
    BY DEF Fits, Handled, HandlesFit
  <2>3. FlowsOf(id) = {}
    BY DEF Turns, TakesTurns, FlowsOf
  <2> QED
    BY <2>1, <2>2, <2>3
<1>2. Turns /\ Fits => CountdownHonest
  BY DEF Turns, TypeOK, Fits, CountdownKept, AnnouncedFits, CountdownHonest
<1>3. Turns /\ Fits => ShownHonest
  BY <1>1, <1>2 DEF ShownHonest
<1> QED
  BY <1>3, Fitting, PTL

(* Of a chain as a whole, the handle that closeHandles asks to close is    *)
(* the last one that is still open.                                        *)
LEMMA LastOfChain ==
    ASSUME Turns, Fits, NEW rest \in SUBSET Transports, NEW t \in Awaited(rest),
           NEW u \in transports \ Discarding, SameChain(t, u),
           \/ \E id \in Ids : rest = handles[id]
           \/ \E j \in jobs : rest \subseteq j.rest /\ j.rest \cap transports \subseteq rest
    PROVE  u[3] <= t[3]
<1> USE HandleShapes DEF Turns, Fits, Handled
<1>1. t \in rest /\ \A v \in rest : v[3] <= t[3]
  BY DEF Awaited
<1>2. u[1] \in Ids /\ (u \in handles[u[1]] \/ \E j \in jobs : u \in j.rest)
  BY DEF ChainsFit
<1>3. ASSUME NEW id \in Ids, rest = handles[id]
      PROVE  u \in rest
  <2>1. t[1] = id
    BY <1>1, <1>3, ChainMembers DEF HandlesFit
  <2>2. CASE u \in handles[u[1]]
    BY <1>3, <2>1, <2>2 DEF SameChain
  <2>3. CASE \E j \in jobs : u \in j.rest
    BY <1>1, <1>3, <2>3 DEF ChainsFit, SameChain
  <2> QED
    BY <1>2, <2>2, <2>3
<1>4. ASSUME NEW j \in jobs, rest \subseteq j.rest, j.rest \cap transports \subseteq rest
      PROVE  u \in rest
  <2>1. CASE u \in handles[u[1]]
    BY <1>1, <1>2, <1>4, <2>1 DEF ChainsFit, SameChain
  <2>2. CASE \E i \in jobs : u \in i.rest
    BY <1>1, <1>4, <2>2 DEF ChainsFit
  <2> QED
    BY <1>2, <2>1, <2>2
<1> QED
  BY <1>1, <1>3, <1>4

(* Hops are asked to close from the target back: no handle is while a      *)
(* later hop of its chain is left that connect() is not itself discarding. *)
THEOREM HopsCloseInOrder == Spec => ChildrenFirst
<1> DEFINE First == \A t \in ending' \ ending, u \in transports \ Discarding :
                       ~(u[1] = t[1] /\ u[2] = t[2] /\ u[3] > t[3])
<1>1. Turns /\ Fits /\ Turns' /\ [Next]_vars => First
  <2> SUFFICES ASSUME Turns, Fits, TypeOK', [Next]_vars,
                      NEW t \in ending' \ ending, NEW u \in transports \ Discarding,
                      SameChain(t, u)
               PROVE  ~(u[3] > t[3])
    BY DEF SameChain, Turns
  <2> USE HandleShapes DEF Turns
  <2>n. t \in Transports /\ u \in Transports /\ t[3] \in Nat /\ u[3] \in Nat
    BY DEF TypeOK
  <2>l. ASSUME NEW rest \in SUBSET Transports, t \in Awaited(rest),
               \/ \E id \in Ids : rest = handles[id]
               \/ \E j \in jobs : rest \subseteq j.rest /\ j.rest \cap transports \subseteq rest
        PROVE  ~(u[3] > t[3])
    BY <2>n, <2>l, LastOfChain
  <2>h. ASSUME NEW id \in Ids, t \in Awaited(handles[id])
        PROVE  ~(u[3] > t[3])
    BY <2>h, <2>l
  <2>1. ASSUME NEW id \in Ids, NEW at \in {"grant"} \cup Routes, Create(id, at)
        PROVE  ~(u[3] > t[3])
    BY <2>1 DEF Create
  <2>2. CASE UpdateSettings
    BY <2>2 DEF UpdateSettings
  <2>3. ASSUME NEW id \in Ids, CancelReconnect(id)
        PROVE  ~(u[3] > t[3])
    BY <2>3 DEF CancelReconnect
  <2>4. ASSUME NEW id \in Ids, NEW by \in {"close", "retry"}, Close(id, by)
        PROVE  ~(u[3] > t[3])
    BY <2>4, <2>h DEF Close
  <2>5. ASSUME NEW f \in flows, FlowStep(f)
        PROVE  ~(u[3] > t[3])
    <3>1. CASE FlowHandshake(f)
      <4>1. t = <<f.id, f.gen, f.hop>> /\ f.at = "handshake"
        BY <3>1 DEF FlowHandshake, Discarded
      <4>2. u[1] = f.id /\ u[2] = f.gen /\ t[3] = f.hop /\ f.hop \in Nat
        BY <4>1 DEF SameChain
      <4>3. u[3] <= f.hop - 1
        BY <4>1, <4>2 DEF Fits, Handled, FlowsFit, FlowFits, Reach, Known
      <4> QED
        BY <2>n, <4>2, <4>3
    <3>2. CASE FlowFail(f)
      BY <3>2, <2>h DEF FlowFail, Recover
    <3>3. CASE ~FlowHandshake(f) /\ ~FlowFail(f)
      BY <2>5, <3>3 DEF FlowStep, FlowReadGrant, FlowRevoked, FlowConnecting, FlowAuthenticating
    <3> QED
      BY <3>1, <3>2, <3>3
  <2>6. ASSUME NEW j \in jobs, JobStep(j)
        PROVE  ~(u[3] > t[3])
    <3>1. CASE JobRevoked(j)
      BY <3>1, <2>h DEF JobRevoked
    <3>2. CASE JobEnd(j)
      <4>1. PICK v \in Awaited(j.rest) \ transports :
               ending' = ending \cup (Awaited(j.rest \ {v}) \cap transports)
        BY <3>2 DEF JobEnd
      <4>2. j.rest \ {v} \in SUBSET Transports /\ t \in Awaited(j.rest \ {v})
        BY <4>1
      <4>3. j.rest \ {v} \subseteq j.rest /\ j.rest \cap transports \subseteq j.rest \ {v}
        BY <4>1
      <4> QED
        BY <4>2, <4>3, <2>l
    <3>3. CASE ~JobRevoked(j) /\ ~JobEnd(j)
      BY <2>6, <3>3 DEF JobStep, RecoverDone, CloseDone, RetryDone
    <3> QED
      BY <3>1, <3>2, <3>3
  <2>7. ASSUME NEW id \in Ids, TimerFires(id)
        PROVE  ~(u[3] > t[3])
    BY <2>7 DEF TimerFires
  <2>8. ASSUME NEW v \in transports, TransportClosed(v)
        PROVE  ~(u[3] > t[3])
    <3>1. CASE Notices(v)
      <4>1. v[1] \in Ids /\ Recover(v[1], transports \ {v})
        BY <2>8, <3>1 DEF TransportClosed
      <4> QED
        BY <4>1, <2>h DEF Recover
    <3>2. CASE ~Notices(v)
      BY <2>8, <3>2 DEF TransportClosed
    <3> QED
      BY <3>1, <3>2
  <2>9. CASE UNCHANGED vars
    BY <2>9 DEF vars
  <2> QED
    BY <2>1, <2>2, <2>3, <2>4, <2>5, <2>6, <2>7, <2>8, <2>9 DEF Next
<1>2. Turns /\ Fits /\ Turns' /\ [Next]_vars => [First]_<<transports, ending>>
  BY <1>1
<1> QED
  BY <1>2, Fitting, PTL DEF Spec, ChildrenFirst

=============================================================================
