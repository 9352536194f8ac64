---------------------------- MODULE TunnelProofs ----------------------------
(***************************************************************************)
(* Proofs about Tunnel, for every set of tunnels of every kind and keys,   *)
(* every set of peers and every bound.                                     *)
(***************************************************************************)
EXTENDS Tunnel, TLAPS

-----------------------------------------------------------------------------
(* The inductive invariant                                                 *)

Releasing(t) == \E r \in releases : r.tunnel = t
Draining(t) == \E r \in releases : r.tunnel = t /\ r.at = "server"

(* What a tunnel that was not released during its start() holds, by where  *)
(* its calls are.                                                          *)
StartFits(t) ==
    t \in starts =>
      /\ state[t] = "starting" /\ t \in live /\ t \in watching /\ conn # "down"
      /\ t \in Servers => t \in server
BoundFits(t) == t \in bound => state[t] = "active" /\ t \in server
ReleaseFits(t) == Releasing(t) => state[t] \in {"failed", "stopping", "closed"}
ActiveFits(t) == state[t] = "active" => t \in watching /\ t \in live /\ conn # "down"
WatchFits(t) == t \in watching => state[t] \in {"starting", "active"}
SocketFits(t) ==
    t \in Servers => \A p \in sockets : p[1] = t => t \in bound \/ Draining(t)

Fits(t) ==
    /\ StartFits(t) /\ BoundFits(t) /\ ReleaseFits(t)
    /\ ActiveFits(t) /\ WatchFits(t) /\ SocketFits(t)

IInv ==
    /\ TypeOK
    /\ ReceiptHonest
    /\ \A t \in Tunnels \ overtaken : Fits(t)

-----------------------------------------------------------------------------
(* Types                                                                   *)

(* releaseResources() of some tunnels, as far as listeners go.             *)
LEMMA ListenTypes ==
    ASSUME TypeOK, NEW T \in SUBSET Tunnels, NEW by \in {"start", "close", "fail"},
           NEW call \in 0..MaxCloses, NEW ready, StopListening(T, by, call, ready)
    PROVE  /\ server' \subseteq Servers /\ bound' \subseteq Servers /\ remote' \subseteq Remotes
           /\ releases' \subseteq Releases /\ overtaken' \subseteq Tunnels
<1>1. \A t \in T : [tunnel |-> t, by |-> by, call |-> call,
                    at |-> IF Listening(t) THEN "server" ELSE AfterServer(t, ready)] \in Releases
  BY DEF Releases, AfterServer
<1> QED
  BY <1>1 DEF TypeOK, StopListening

(* What start() and close() change.                                        *)
LEMMA CallTypes ==
    ASSUME TypeOK, NEW t \in Tunnels, Start(t) \/ StartStep(t) \/ Close(t)
    PROVE  TypeOK'
<1> USE TunnelAssumption
<1>k. KeyOf[t] \in Keys /\ 0 \in 0..MaxCloses
  BY DEF Keys
<1>p. /\ \A s \in {"starting", "active", "failed", "stopping", "closed"} :
           Publish(t, s) => state' \in [Tunnels -> {"none", "starting", "active", "failed",
                                                    "stopping", "closed"}]
      /\ [receipts EXCEPT ![KeyOf[t]] = t] \in [Keys -> Tunnels \cup {NoOne}]
  BY <1>k DEF TypeOK, Publish
<1>r. \A a \in {"server", "remote", "done"} :
        [tunnel |-> t, by |-> "start", call |-> 0, at |-> a] \in Releases
  BY <1>k DEF Releases
<1>1. CASE Start(t)
  BY <1>1, <1>p, <1>r DEF Start, TypeOK, CreatesServer, connVars, socketVars
<1>2. CASE ListenSucceeds(t)
  <2>1. CASE Activate(t) /\ bound' = bound \cup {t} /\ UNCHANGED server
    BY <1>2, <2>1, <1>p DEF ListenSucceeds, Activate, TypeOK, connVars
  <2>2. CASE ~Records(t)
    BY <1>2, <2>2, <1>p, <1>r DEF ListenSucceeds, Activate, StartFails, TypeOK, connVars, socketVars
  <2> QED
    BY <1>2, <2>1, <2>2 DEF ListenSucceeds
<1>3. CASE ForwardSucceeds(t)
  <2>1. CASE Activate(t) /\ remote' = remote \cup {t}
    BY <1>3, <2>1, <1>p DEF ForwardSucceeds, Activate, TypeOK, connVars
  <2>2. CASE ~Records(t)
    BY <1>3, <2>2, <1>p, <1>r
       DEF ForwardSucceeds, Activate, StartFails, TypeOK, connVars, socketVars
  <2> QED
    BY <1>3, <2>1, <2>2 DEF ForwardSucceeds
<1>4. CASE StartRejected(t)
  <2>1. AfterServer(t, conn = "ready") \in {"server", "remote", "done"}
    BY DEF AfterServer
  <2> QED
    BY <1>4, <2>1, <1>p, <1>r DEF StartRejected, StartFails, TypeOK, connVars, socketVars
<1>5. CASE Close(t)
  <2>1. closes[t] + 1 \in 0..MaxCloses
    BY <1>5 DEF Close, TypeOK
  <2>2. StopListening({t}, "close", closes[t] + 1, conn = "ready") /\ {t} \in SUBSET Tunnels
    BY <1>5 DEF Close, Release
  <2>3. /\ server' \subseteq Servers /\ bound' \subseteq Servers /\ remote' \subseteq Remotes
        /\ releases' \subseteq Releases /\ overtaken' \subseteq Tunnels
    BY <2>1, <2>2, ListenTypes
  <2>4. /\ sockets' \subseteq Pairs /\ ended' \subseteq sockets'
        /\ channels' \subseteq Pairs /\ opening' \subseteq Pairs
        /\ ownSockets' \subseteq sockets' /\ ownChannels' \subseteq channels'
        /\ met' \subseteq Pairs
    BY <1>5 DEF Close, Release, DestroySockets, Destroyed, TypeOK
  <2>5. closes' \in [Tunnels -> 0..MaxCloses]
    BY <1>5, <2>1 DEF Close, TypeOK
  <2>6. state' \in [Tunnels -> {"none", "starting", "active", "failed", "stopping", "closed"}]
    BY <1>5, <1>p DEF Close
  <2> QED
    BY <1>5, <2>3, <2>4, <2>5, <2>6 DEF Close, StopsWatching, TypeOK, connVars
<1> QED
  BY <1>1, <1>2, <1>3, <1>4, <1>5 DEF StartStep

(* A step keeps the types.                                                 *)
LEMMA TypeStep ==
    ASSUME TypeOK, [Next]_vars
    PROVE  TypeOK'
<1> USE TunnelAssumption
<1>1. ASSUME NEW t \in Tunnels, Start(t) \/ StartStep(t) \/ Close(t) PROVE TypeOK'
  BY <1>1, CallTypes
<1>2. ASSUME NEW r \in releases, ReleaseStep(r) PROVE TypeOK'
  <2>1. r \in Releases /\ r.tunnel \in Tunnels /\ KeyOf[r.tunnel] \in Keys
    BY DEF TypeOK, Releases, Keys
  <2>2. \A a \in {"server", "remote", "done"} : [r EXCEPT !.at = a] \in Releases
    BY <2>1 DEF Releases
  <2>3. CASE ReleaseServer(r)
    <3>1. AfterServer(r.tunnel, conn = "ready") \in {"server", "remote", "done"}
      BY DEF AfterServer
    <3> QED
      BY <2>2, <2>3, <3>1 DEF ReleaseServer, Resume, TypeOK, connVars, socketVars
  <2>4. CASE ReleaseRemote(r)
    BY <2>2, <2>4 DEF ReleaseRemote, Resume, TypeOK, connVars, socketVars
  <2>5. CASE Released(r)
    BY <2>1, <2>5 DEF Released, Publish, TypeOK, connVars, socketVars, listenVars
  <2> QED
    BY <1>2, <2>3, <2>4, <2>5 DEF ReleaseStep
<1>3. CASE ConnectionUnready \/ ConnectionReady
  BY <1>3 DEF ConnectionUnready, ConnectionReady, TypeOK, socketVars, listenVars
<1>4. CASE ConnectionLost
  <2> DEFINE failed == {t \in watching : FailsOnLoss(t)}
  <2>0. failed \in SUBSET Tunnels /\ 0 \in 0..MaxCloses
    BY DEF TypeOK
  <2>1. StopListening(failed, "fail", 0, FALSE)
    BY <1>4 DEF ConnectionLost
  <2> HIDE DEF failed
  <2>2. /\ server' \subseteq Servers /\ bound' \subseteq Servers /\ remote' \subseteq Remotes
        /\ releases' \subseteq Releases /\ overtaken' \subseteq Tunnels
    BY <2>0, <2>1, ListenTypes
  <2>3. losses' \in 0..MaxLosses
    BY <1>4 DEF ConnectionLost, TypeOK
  <2> QED
    BY <1>4, <2>2, <2>3 DEF ConnectionLost, TypeOK
<1>5. ASSUME NEW p \in Pairs,
             Accept(p) \/ Arrive(p) \/ OpenStep(p) \/ ChannelCloses(p) \/ PeerCloses(p)
      PROVE  TypeOK'
  <2>1. SocketsOnly
    BY <1>5 DEF Accept, Arrive, OpenStep, ChannelOpened, OpenRejected, ChannelCloses, PeerCloses
  <2>2. /\ sockets' \subseteq Pairs /\ ended' \subseteq sockets'
        /\ channels' \subseteq Pairs /\ opening' \subseteq Pairs
        /\ ownSockets' \subseteq sockets' /\ ownChannels' \subseteq channels'
        /\ met' \subseteq Pairs
    BY <1>5 DEF Accept, Arrive, OpenStep, ChannelOpened, OpenRejected, ChannelCloses, PeerCloses,
                TypeOK
  <2> QED
    BY <2>1, <2>2 DEF SocketsOnly, TypeOK, connVars, listenVars
<1>6. CASE UNCHANGED vars
  BY <1>6 DEF vars, TypeOK, connVars, listenVars, socketVars
<1> QED
  BY <1>1, <1>2, <1>3, <1>4, <1>5, <1>6 DEF Next

-----------------------------------------------------------------------------
(* Receipts                                                                *)

(* A receipt is written once, and a tunnel is active when it has its own.  *)
LEMMA ReceiptStep ==
    ASSUME TypeOK, ReceiptHonest, [Next]_vars
    PROVE  ReceiptHonest'
<1> USE TunnelAssumption
<1>t. /\ state \in [Tunnels -> {"none", "starting", "active", "failed", "stopping", "closed"}]
      /\ receipts \in [Keys -> Tunnels \cup {NoOne}]
      /\ \A t \in Tunnels : KeyOf[t] \in Keys
  BY DEF TypeOK, Keys
<1>a. ASSUME \A u \in Tunnels : state'[u] = "active" => state[u] = "active",
             \A k \in Keys : receipts[k] # NoOne => receipts'[k] = receipts[k]
      PROVE  ReceiptHonest'
  BY <1>a, <1>t DEF ReceiptHonest
<1>p. ASSUME NEW t \in Tunnels, NEW s \in {"starting", "failed", "stopping", "closed"},
             Publish(t, s)
      PROVE  \A u \in Tunnels : state'[u] = "active" => state[u] = "active"
  BY <1>p, <1>t DEF Publish
<1>v. ASSUME NEW t \in Tunnels, Activate(t) PROVE ReceiptHonest'
  <2>1. receipts[KeyOf[t]] = NoOne /\ receipts'[KeyOf[t]] = t
    BY <1>v, <1>t DEF Activate, Records
  <2>2. ASSUME NEW u \in Tunnels, state'[u] = "active", u # t PROVE receipts'[KeyOf[u]] = u
    <3>1. state[u] = "active" /\ receipts[KeyOf[u]] = u
      BY <1>v, <1>t, <2>2 DEF Activate, Publish, ReceiptHonest
    <3>2. KeyOf[u] # KeyOf[t]
      BY <2>1, <3>1
    <3> QED
      BY <1>v, <1>t, <3>1, <3>2 DEF Activate
  <2> QED
    BY <2>1, <2>2 DEF ReceiptHonest
<1>1. ASSUME NEW t \in Tunnels, Start(t) PROVE ReceiptHonest'
  BY <1>1, <1>a, <1>p DEF Start
<1>2. ASSUME NEW t \in Tunnels, ListenSucceeds(t) PROVE ReceiptHonest'
  BY <1>2, <1>a, <1>p, <1>v DEF ListenSucceeds, StartFails
<1>3. ASSUME NEW t \in Tunnels, ForwardSucceeds(t) PROVE ReceiptHonest'
  BY <1>3, <1>a, <1>p, <1>v DEF ForwardSucceeds, StartFails
<1>4. ASSUME NEW t \in Tunnels, StartRejected(t) \/ Close(t) PROVE ReceiptHonest'
  BY <1>4, <1>a, <1>p DEF StartRejected, StartFails, Close
<1>5. ASSUME NEW r \in releases, ReleaseStep(r) PROVE ReceiptHonest'
  <2>1. r.tunnel \in Tunnels
    BY DEF TypeOK, Releases
  <2>2. CASE ReleaseServer(r) \/ ReleaseRemote(r)
    BY <2>2, <1>a DEF ReleaseServer, ReleaseRemote
  <2>3. CASE Released(r)
    <3>1. \A u \in Tunnels : state'[u] = "active" => state[u] = "active"
      BY <2>1, <2>3, <1>p DEF Released
    <3>2. \A k \in Keys : receipts[k] # NoOne => receipts'[k] = receipts[k]
      BY <2>1, <2>3, <1>t DEF Released, Records
    <3> QED
      BY <3>1, <3>2, <1>a
  <2> QED
    BY <1>5, <2>2, <2>3 DEF ReleaseStep
<1>6. CASE ConnectionUnready \/ ConnectionReady \/ UNCHANGED vars
  BY <1>6, <1>a DEF ConnectionUnready, ConnectionReady, vars
<1>7. CASE ConnectionLost
  <2>1. \A u \in Tunnels : state'[u] = "active" => state[u] = "active"
    BY <1>7 DEF ConnectionLost
  <2> QED
    BY <1>7, <2>1, <1>a DEF ConnectionLost
<1>8. ASSUME NEW p \in Pairs,
             Accept(p) \/ Arrive(p) \/ OpenStep(p) \/ ChannelCloses(p) \/ PeerCloses(p)
      PROVE  ReceiptHonest'
  <2>1. SocketsOnly
    BY <1>8 DEF Accept, Arrive, OpenStep, ChannelOpened, OpenRejected, ChannelCloses, PeerCloses
  <2> QED
    BY <2>1, <1>a DEF SocketsOnly
<1> QED
  BY <1>1, <1>2, <1>3, <1>4, <1>5, <1>6, <1>7, <1>8 DEF Next, StartStep

-----------------------------------------------------------------------------
(* What a tunnel holds                                                     *)

(* start() and close() of a tunnel keep what is said of every tunnel.      *)
LEMMA StartHeld ==
    ASSUME IInv, NEW t \in Tunnels, Start(t), NEW u \in Tunnels \ overtaken'
    PROVE  Fits(u)'
<1>1. Fits(u) /\ overtaken' = overtaken
  BY DEF IInv, Start
<1>2. /\ bound' = bound /\ conn' = conn /\ sockets' = sockets
      /\ live' = live \cup {t}
      /\ state[t] = "none" /\ state \in [Tunnels -> {"none", "starting", "active", "failed",
                                                     "stopping", "closed"}]
  BY DEF Start, IInv, TypeOK, connVars, socketVars
<1>3. CASE conn = "ready" /\ Publish(t, "starting")
           /\ watching' = watching \cup {t}
           /\ server' = (IF CreatesServer(t) THEN server \cup {t} ELSE server)
           /\ starts' = starts \cup {t} /\ releases' = releases
  <2>1. CASE u = t
    <3>1. ~Releasing(t) /\ t \notin bound
      BY <1>1, <1>2, <2>1 DEF Fits, ReleaseFits, BoundFits
    <3>2. state'[t] = "starting" /\ t \in live' /\ t \in watching' /\ conn' # "down"
          /\ (t \in Servers => t \in server') /\ t \notin bound' /\ ~Releasing(t)'
      BY <1>2, <1>3, <3>1 DEF Publish, CreatesServer, Releasing
    <3>3. SocketFits(t)'
      BY <1>1, <1>2, <1>3, <2>1 DEF Fits, SocketFits, Draining
    <3> QED
      BY <2>1, <3>2, <3>3 DEF Fits, StartFits, BoundFits, ReleaseFits, ActiveFits, WatchFits
  <2>2. CASE u # t
    <3>1. state'[u] = state[u] /\ (u \in starts' <=> u \in starts) /\ (u \in live' <=> u \in live)
          /\ (u \in watching' <=> u \in watching) /\ (u \in server' <=> u \in server)
          /\ (Releasing(u)' <=> Releasing(u)) /\ (Draining(u)' <=> Draining(u))
      BY <1>2, <1>3, <2>2 DEF Publish, Releasing, Draining
    <3> QED
      BY <1>1, <1>2, <3>1
         DEF Fits, StartFits, BoundFits, ReleaseFits, ActiveFits, WatchFits, SocketFits
  <2> QED
    BY <2>1, <2>2
<1>4. CASE conn # "ready" /\ Publish(t, "failed")
           /\ releases' = releases \cup {[tunnel |-> t, by |-> "start", call |-> 0, at |-> "done"]}
           /\ UNCHANGED <<watching, server, starts>>
  <2>1. CASE u = t
    <3>1. t \notin starts /\ t \notin bound /\ t \notin watching /\ state'[t] = "failed"
      BY <1>1, <1>2, <1>4, <2>1 DEF Fits, StartFits, BoundFits, WatchFits, Publish
    <3>2. Draining(t) => Draining(t)'
      BY <1>4 DEF Draining
    <3>3. SocketFits(t)'
      BY <1>1, <1>2, <1>4, <2>1, <3>2 DEF Fits, SocketFits
    <3> QED
      BY <1>2, <1>4, <2>1, <3>1, <3>3
         DEF Fits, StartFits, BoundFits, ReleaseFits, ActiveFits, WatchFits
  <2>2. CASE u # t
    <3>1. state'[u] = state[u] /\ (u \in live' <=> u \in live)
          /\ (Releasing(u)' <=> Releasing(u)) /\ (Draining(u)' <=> Draining(u))
      BY <1>2, <1>4, <2>2 DEF Publish, Releasing, Draining
    <3> QED
      BY <1>1, <1>2, <1>4, <3>1
         DEF Fits, StartFits, BoundFits, ReleaseFits, ActiveFits, WatchFits, SocketFits
  <2> QED
    BY <2>1, <2>2
<1> QED
  BY <1>3, <1>4 DEF Start

(* Frame: a step that leaves a tunnel alone, but for a socket its server     *)
(* accepts, a call of close() that ends or a release that begins to drain.   *)
LEMMA Untouched ==
    ASSUME NEW u \in Tunnels, Fits(u), state'[u] = state[u],
           u \in starts' => u \in starts, u \in live => u \in live',
           u \in watching' <=> u \in watching, u \in server => u \in server',
           u \in bound' <=> u \in bound, conn' = "down" => conn = "down",
           Releasing(u)' => Releasing(u), Draining(u) => Draining(u)',
           u \in Servers => \A p \in sockets' : p[1] = u => p \in sockets \/ u \in bound
    PROVE  Fits(u)'
<1>1. StartFits(u)' /\ BoundFits(u)' /\ ReleaseFits(u)' /\ ActiveFits(u)' /\ WatchFits(u)'
  BY DEF Fits, StartFits, BoundFits, ReleaseFits, ActiveFits, WatchFits
<1>2. SocketFits(u)'
  BY DEF Fits, SocketFits
<1> QED
  BY <1>1, <1>2 DEF Fits

(* A start() that is over without a listener leaves nothing.               *)
LEMMA FailedHeld ==
    ASSUME IInv, NEW t \in starts \ overtaken, StartFails(t), bound' = bound, sockets' = sockets
    PROVE  Fits(t)'
<1>1. Fits(t) /\ t \in Tunnels /\ state'[t] = "failed" /\ t \notin starts' /\ t \notin watching'
  BY DEF IInv, TypeOK, StartFails, Publish
<1>2. t \notin bound /\ ~Releasing(t)
  BY <1>1 DEF Fits, StartFits, BoundFits, ReleaseFits
<1>3. t \in Servers => \A p \in sockets : p[1] # t
  BY <1>1, <1>2 DEF Fits, SocketFits, Draining, Releasing
<1> QED
  BY <1>1, <1>2, <1>3
     DEF Fits, StartFits, BoundFits, ReleaseFits, ActiveFits, WatchFits, SocketFits

(* The answer of listen() or forwardIn(), whether it is too late or not.   *)
LEMMA StartStepHeld ==
    ASSUME IInv, NEW t \in Tunnels, StartStep(t), NEW u \in Tunnels \ overtaken'
    PROVE  Fits(u)'
<1>0. /\ t \in starts /\ sockets' = sockets /\ live' = live /\ conn' = conn
      /\ overtaken' = overtaken /\ Fits(u) /\ u \in Tunnels
      /\ state \in [Tunnels -> {"none", "starting", "active", "failed", "stopping", "closed"}]
  BY DEF StartStep, ListenSucceeds, ForwardSucceeds, StartRejected, Activate, socketVars, connVars,
         IInv, TypeOK
<1>1. ASSUME u # t PROVE Fits(u)'
  <2>1. /\ state'[u] = state[u] /\ (u \in starts' => u \in starts)
        /\ (u \in watching' <=> u \in watching)
    BY <1>0, <1>1 DEF StartStep, ListenSucceeds, ForwardSucceeds, StartRejected, Activate,
                      StartFails, Publish
  <2>2. (u \in server => u \in server') /\ (u \in bound' <=> u \in bound)
    BY <1>1 DEF StartStep, ListenSucceeds, ForwardSucceeds, StartRejected
  <2>3. releases' = releases \/ \E r : r.tunnel = t /\ releases' = releases \cup {r}
    <3>1. \A a : [tunnel |-> t, by |-> "start", call |-> 0, at |-> a].tunnel = t
      OBVIOUS
    <3> QED
      BY <3>1 DEF StartStep, ListenSucceeds, ForwardSucceeds, StartRejected, Activate
  <2>4. (Releasing(u)' => Releasing(u)) /\ (Draining(u) => Draining(u)')
    BY <1>1, <2>3 DEF Releasing, Draining
  <2> QED
    BY <1>0, <2>1, <2>2, <2>4, Untouched
<1>2. ASSUME u = t, Activate(t), t \in Servers => t \in bound' /\ server' = server,
             t \in Remotes => bound' = bound
      PROVE  Fits(u)'
  <2>1. /\ state'[t] = "active" /\ t \notin starts' /\ t \in watching' /\ releases' = releases
        /\ t \in live /\ conn # "down" /\ (t \in Servers => t \in server) /\ state[t] = "starting"
    BY <1>0, <1>2 DEF Activate, Publish, Fits, StartFits
  <2>2. ~Releasing(t)'
    BY <1>0, <1>2, <2>1 DEF Fits, ReleaseFits, Releasing
  <2>3. t \in bound' => t \in server'
    BY <1>2, <2>1 DEF IInv, TypeOK, Remotes, Servers
  <2> QED
    BY <1>0, <1>2, <2>1, <2>2, <2>3
       DEF Fits, StartFits, BoundFits, ReleaseFits, ActiveFits, WatchFits, SocketFits
<1>3. ASSUME u = t, StartFails(t), bound' = bound PROVE Fits(u)'
  BY <1>0, <1>3, FailedHeld
<1>4. CASE u = t /\ ListenSucceeds(t)
  <2>1. t \in Servers /\ t \in server
    BY <1>0, <1>4 DEF ListenSucceeds, Fits, StartFits
  <2> QED
    BY <2>1, <1>2, <1>3, <1>4 DEF ListenSucceeds, Remotes, Servers
<1>5. CASE u = t /\ ForwardSucceeds(t)
  BY <1>2, <1>3, <1>5 DEF ForwardSucceeds, Remotes, Servers
<1>6. CASE u = t /\ StartRejected(t)
  BY <1>3, <1>6 DEF StartRejected
<1> QED
  BY <1>1, <1>4, <1>5, <1>6 DEF StartStep

(* releaseResources() of a tunnel that start() is not at: its server stops,*)
(* and waits for the sockets it has.                                       *)
LEMMA StoppedHeld ==
    ASSUME TypeOK, NEW T \in SUBSET Tunnels, NEW by, NEW call, NEW ready,
           StopListening(T, by, call, ready), NEW u \in T, u \notin overtaken', Fits(u),
           state'[u] \in {"failed", "stopping"}, u \notin watching', starts' = starts,
           sockets' \subseteq sockets
    PROVE  Fits(u)'
<1>1. u \notin starts /\ u \in Tunnels
  BY DEF StopListening
<1>2. u \in bound => Listening(u)
  BY DEF Fits, BoundFits, Listening
<1>3. u \notin bound'
  BY <1>2 DEF StopListening
<1>4. Draining(u) => Draining(u)'
  BY DEF Draining, StopListening
<1>5. Listening(u) => Draining(u)'
  <2> DEFINE r == [tunnel |-> u, by |-> by, call |-> call,
                   at |-> IF Listening(u) THEN "server" ELSE AfterServer(u, ready)]
  <2>1. r \in releases' /\ r.tunnel = u /\ (Listening(u) => r.at = "server")
    BY DEF StopListening
  <2> HIDE DEF r
  <2> QED
    BY <2>1 DEF Draining
<1>6. SocketFits(u)'
  BY <1>2, <1>4, <1>5 DEF Fits, SocketFits
<1> QED
  BY <1>1, <1>3, <1>6 DEF Fits, StartFits, BoundFits, ReleaseFits, ActiveFits, WatchFits

(* It leaves the other tunnels alone.                                      *)
LEMMA StopOthers ==
    ASSUME NEW T \in SUBSET Tunnels, NEW by, NEW call, NEW ready,
           StopListening(T, by, call, ready), NEW u \in Tunnels \ T
    PROVE  /\ u \in server' <=> u \in server
           /\ u \in bound' <=> u \in bound
           /\ u \in overtaken' <=> u \in overtaken
           /\ Releasing(u)' <=> Releasing(u)
           /\ Draining(u)' <=> Draining(u)
<1>1. /\ u \in server' <=> u \in server
      /\ u \in bound' <=> u \in bound
      /\ u \in overtaken' <=> u \in overtaken
  BY DEF StopListening
<1>2. \A r \in releases' : r.tunnel = u => r \in releases
  BY DEF StopListening
<1>3. releases \subseteq releases'
  BY DEF StopListening
<1> QED
  BY <1>1, <1>2, <1>3 DEF Releasing, Draining

(* close() of one tunnel leaves the others alone.                          *)
LEMMA CloseHeld ==
    ASSUME IInv, NEW t \in Tunnels, Close(t), NEW u \in Tunnels \ overtaken'
    PROVE  Fits(u)'
<1>1. StopListening({t}, "close", closes[t] + 1, conn = "ready") /\ {t} \in SUBSET Tunnels
  BY DEF Close, Release
<1>2. sockets' \subseteq sockets /\ starts' = starts /\ conn' = conn /\ live' = live
  BY DEF Close, Release, DestroySockets, connVars
<1>3. u \notin overtaken /\ Fits(u) /\ TypeOK
  BY <1>1 DEF IInv, StopListening
<1>4. CASE u = t
  <2>1. state'[u] = "stopping" /\ u \notin watching'
    BY <1>3, <1>4 DEF Close, Publish, StopsWatching, TypeOK
  <2>2. u \in {t}
    BY <1>4
  <2> QED
    BY <1>1, <1>2, <1>3, <2>1, <2>2, StoppedHeld
<1>5. CASE u # t
  <2>1. state'[u] = state[u] /\ (u \in watching' <=> u \in watching)
    BY <1>3, <1>5 DEF Close, Publish, StopsWatching, TypeOK
  <2>2. /\ u \in server' <=> u \in server
        /\ u \in bound' <=> u \in bound
        /\ Releasing(u)' <=> Releasing(u)
        /\ Draining(u)' <=> Draining(u)
    BY <1>1, <1>5, StopOthers
  <2> QED
    BY <1>2, <1>3, <2>1, <2>2, Untouched
<1> QED
  BY <1>4, <1>5

(* A release that goes on has no socket left to wait for.                  *)
LEMMA ReleaseHeld ==
    ASSUME IInv, NEW r \in releases, ReleaseStep(r), NEW u \in Tunnels \ overtaken'
    PROVE  Fits(u)'
<1>0. /\ Fits(u) /\ TypeOK /\ r.tunnel \in Tunnels /\ r \in Releases
      /\ state \in [Tunnels -> {"none", "starting", "active", "failed", "stopping", "closed"}]
  BY DEF IInv, TypeOK, Releases, ReleaseStep, ReleaseServer, ReleaseRemote, Released
<1>1. /\ starts' = starts /\ bound' = bound /\ watching' = watching /\ conn' = conn
      /\ sockets' = sockets
  BY DEF ReleaseStep, ReleaseServer, ReleaseRemote, Released, connVars, socketVars, listenVars
<1>2. u = r.tunnel =>
        /\ Releasing(u) /\ state[u] \in {"failed", "stopping", "closed"}
        /\ u \notin starts /\ u \notin bound /\ u \notin watching
  BY <1>0 DEF Releasing, Fits, StartFits, BoundFits, ReleaseFits, WatchFits
<1>3. CASE ReleaseServer(r) \/ ReleaseRemote(r)
  <2>1. state' = state /\ live' = live /\ \A t \in server : t # r.tunnel => t \in server'
    BY <1>3 DEF ReleaseServer, ReleaseRemote
  <2>2. \E a : releases' = (releases \ {r}) \cup {[r EXCEPT !.at = a]}
    BY <1>3 DEF ReleaseServer, ReleaseRemote, Resume
  <2>3. \A a : [r EXCEPT !.at = a].tunnel = r.tunnel
    BY <1>0 DEF Releases
  <2>4. Releasing(u)' => Releasing(u)
    BY <2>2, <2>3 DEF Releasing
  <2>5. u # r.tunnel \/ r.at # "server" => (Draining(u) => Draining(u)')
    BY <2>2 DEF Draining
  <2>6. CASE u # r.tunnel
    BY <1>0, <1>1, <2>1, <2>4, <2>5, <2>6, Untouched
  <2>7. CASE u = r.tunnel
    <3>1. r.at = "server" => \A p \in sockets : p[1] # u
      BY <1>3, <2>7 DEF ReleaseServer, ReleaseRemote, Drained, Of
    <3>2. SocketFits(u)'
      BY <1>0, <1>1, <2>5, <3>1 DEF Fits, SocketFits
    <3> QED
      BY <1>1, <1>2, <2>1, <2>7, <3>2
         DEF Fits, StartFits, BoundFits, ReleaseFits, ActiveFits, WatchFits
  <2> QED
    BY <2>6, <2>7
<1>4. CASE Released(r)
  <2>1. releases' = releases \ {r} /\ r.at = "done" /\ server' = server
    BY <1>4 DEF Released, listenVars
  <2>2. (Releasing(u)' => Releasing(u)) /\ (Draining(u) => Draining(u)')
    BY <2>1 DEF Releasing, Draining
  <2>3. CASE u # r.tunnel
    <3>1. state'[u] = state[u] /\ (u \in live => u \in live')
      BY <1>0, <1>4, <2>3 DEF Released, Publish
    <3> QED
      BY <1>0, <1>1, <2>1, <2>2, <3>1, Untouched
  <2>4. CASE u = r.tunnel
    <3>1. state'[u] \in {"failed", "stopping", "closed"}
      BY <1>0, <1>2, <1>4, <2>4 DEF Released, Publish
    <3>2. SocketFits(u)'
      BY <1>0, <1>1, <2>2 DEF Fits, SocketFits
    <3> QED
      BY <1>1, <1>2, <2>4, <3>1, <3>2
         DEF Fits, StartFits, BoundFits, ReleaseFits, ActiveFits, WatchFits
  <2> QED
    BY <2>3, <2>4
<1> QED
  BY <1>3, <1>4 DEF ReleaseStep

(* A lost client fails the tunnels that watch it and no other.             *)
LEMMA LossHeld ==
    ASSUME IInv, ConnectionLost, NEW u \in Tunnels \ overtaken'
    PROVE  Fits(u)'
<1> DEFINE failed == {t \in watching : FailsOnLoss(t)}
<1>0. failed \in SUBSET Tunnels /\ TypeOK
  BY DEF IInv, TypeOK
<1>1. StopListening(failed, "fail", 0, FALSE)
  BY DEF ConnectionLost
<1>2. u \notin overtaken /\ Fits(u)
  BY <1>1 DEF IInv, StopListening
<1>3. /\ sockets' \subseteq sockets /\ starts' = starts /\ watching' = {} /\ live' = live
      /\ state'[u] = IF u \in failed THEN "failed" ELSE state[u]
  BY DEF ConnectionLost
<1>4. CASE u \in failed
  <2> HIDE DEF failed
  <2> QED
    BY <1>0, <1>1, <1>2, <1>3, <1>4, StoppedHeld
<1>5. CASE u \notin failed
  <2>1. u \notin starts /\ state[u] # "active"
    BY <1>2, <1>5 DEF Fits, StartFits, ActiveFits, FailsOnLoss
  <2> HIDE DEF failed
  <2>2. /\ u \in bound' <=> u \in bound
        /\ Releasing(u)' <=> Releasing(u)
        /\ Draining(u)' <=> Draining(u)
    BY <1>0, <1>1, <1>5, StopOthers
  <2>3. state'[u] = state[u] /\ u \notin bound
    BY <1>2, <1>3, <1>5, <2>1 DEF Fits, BoundFits
  <2>4. SocketFits(u)'
    BY <1>2, <1>3, <2>2 DEF Fits, SocketFits
  <2> QED
    BY <1>2, <1>3, <2>1, <2>2, <2>3, <2>4
       DEF Fits, StartFits, BoundFits, ReleaseFits, ActiveFits, WatchFits
<1> QED
  BY <1>4, <1>5

(* Only a listening server takes in another socket.                        *)
LEMMA TrafficHeld ==
    ASSUME IInv, NEW p \in Pairs,
           Accept(p) \/ Arrive(p) \/ OpenStep(p) \/ ChannelCloses(p) \/ PeerCloses(p),
           NEW u \in Tunnels \ overtaken'
    PROVE  Fits(u)'
<1>1. SocketsOnly
  BY DEF Accept, Arrive, OpenStep, ChannelOpened, OpenRejected, ChannelCloses, PeerCloses
<1>2. u \notin overtaken /\ Fits(u) /\ forwards \subseteq Remotes
  BY <1>1 DEF IInv, SocketsOnly, TypeOK
<1>3. u \in Servers => \A q \in sockets' : q[1] = u => q \in sockets \/ u \in bound
  BY <1>2 DEF Accept, Arrive, OpenStep, ChannelOpened, OpenRejected, ChannelCloses, PeerCloses,
              Remotes, Servers
<1>4. /\ state' = state /\ starts' = starts /\ live' = live /\ watching' = watching
      /\ server' = server /\ bound' = bound /\ conn' = conn
      /\ (Releasing(u)' <=> Releasing(u)) /\ (Draining(u)' <=> Draining(u))
  BY <1>1 DEF SocketsOnly, connVars, listenVars, Releasing, Draining
<1> QED
  BY <1>2, <1>3, <1>4, Untouched

-----------------------------------------------------------------------------
(* The invariant and what it gives                                         *)

(* A step keeps the invariant.                                             *)
LEMMA Step ==
    ASSUME IInv, [Next]_vars
    PROVE  IInv'
<1>1. TypeOK' /\ ReceiptHonest'
  BY TypeStep, ReceiptStep DEF IInv
<1>2. ASSUME NEW u \in Tunnels \ overtaken' PROVE Fits(u)'
  <2>1. ASSUME NEW t \in Tunnels, Start(t) \/ StartStep(t) \/ Close(t) PROVE Fits(u)'
    BY <2>1, StartHeld, StartStepHeld, CloseHeld
  <2>2. ASSUME NEW r \in releases, ReleaseStep(r) PROVE Fits(u)'
    BY <2>2, ReleaseHeld
  <2>3. CASE ConnectionLost
    BY <2>3, LossHeld
  <2>4. ASSUME NEW p \in Pairs,
               Accept(p) \/ Arrive(p) \/ OpenStep(p) \/ ChannelCloses(p) \/ PeerCloses(p)
        PROVE  Fits(u)'
    BY <2>4, TrafficHeld
  <2>5. CASE ConnectionUnready \/ ConnectionReady \/ UNCHANGED vars
    <3>1. /\ state' = state /\ starts' = starts /\ live' = live /\ watching' = watching
          /\ server' = server /\ bound' = bound /\ releases' = releases /\ sockets' = sockets
          /\ overtaken' = overtaken /\ (conn' = "down" => conn = "down")
      BY <2>5 DEF ConnectionUnready, ConnectionReady, vars, connVars, listenVars, socketVars
    <3>2. (Releasing(u)' <=> Releasing(u)) /\ (Draining(u)' <=> Draining(u))
      BY <3>1 DEF Releasing, Draining
    <3>3. u \in Tunnels /\ Fits(u)
      BY <3>1 DEF IInv
    <3> QED
      BY <3>1, <3>2, <3>3, Untouched
  <2> QED
    BY <2>1, <2>2, <2>3, <2>4, <2>5 DEF Next
<1> QED
  BY <1>1, <1>2 DEF IInv

(* The runtime starts without a tunnel.                                    *)
LEMMA Starting == Init => IInv
<1> SUFFICES ASSUME Init PROVE IInv
  OBVIOUS
<1> USE TunnelAssumption
<1>1. TypeOK
  BY DEF Init, TypeOK
<1>2. ReceiptHonest
  BY DEF Init, ReceiptHonest
<1>3. ASSUME NEW t \in Tunnels PROVE Fits(t)
  BY DEF Init, Fits, StartFits, BoundFits, ReleaseFits, ActiveFits, WatchFits, SocketFits, Releasing
<1> QED
  BY <1>1, <1>2, <1>3 DEF IInv

(* The invariant holds throughout.                                         *)
LEMMA Invariance == Spec => []IInv
BY Starting, Step, PTL DEF Spec

(* Every variable keeps its type.                                          *)
THEOREM TypeCorrect == Spec => []TypeOK
<1>1. IInv => TypeOK
  BY DEF IInv
<1> QED
  BY <1>1, Invariance, PTL

(* What a tunnel holds has an owner and is gone when the tunnel is: the    *)
(* listening server of a tunnel belongs to a registered one that close()   *)
(* stops, and a failed or closed tunnel with nothing under way has neither *)
(* a listener nor a connected program (releaseResources()).                *)
THEOREM ResourcesReleased == Spec => []Owned
<1>1. IInv => ListenerOwned
  BY DEF IInv, ListenerOwned, Fits, BoundFits, ActiveFits, TypeOK, Servers
<1>2. IInv => QuietReleased
  <2> SUFFICES ASSUME IInv, NEW t \in Tunnels \ overtaken,
                      state[t] \in {"failed", "closed"}, Quiet(t)
               PROVE  t \notin bound /\ (t \in Servers => Of(t, sockets) = {})
    BY DEF QuietReleased
  <2>1. t \notin bound /\ ~Draining(t)
    BY DEF IInv, Fits, BoundFits, Quiet, Draining
  <2> QED
    BY <2>1 DEF IInv, Fits, SocketFits, Of
<1> QED
  BY <1>1, <1>2, Invariance, PTL DEF Owned

(* An active tunnel is the one the receipt of its key names, whatever      *)
(* other start() calls with that key were under way (recordIdempotency()). *)
THEOREM OneTunnelPerKey == Spec => []ReceiptHonest
<1>1. IInv => ReceiptHonest
  BY DEF IInv
<1> QED
  BY <1>1, Invariance, PTL

(* An active tunnel has an SSH client under it and will hear of its end:   *)
(* start() listens for it before it awaits anything.                       *)
THEOREM LossIsHeard == Spec => []ActiveWatched
<1>1. IInv => ActiveWatched
  BY DEF IInv, ActiveWatched, Fits, ActiveFits
<1> QED
  BY <1>1, Invariance, PTL

(* A tunnel that is stopping goes to closed and nowhere else: neither the  *)
(* loss of the connection nor a start() or a second close() that ends      *)
(* takes it back.                                                          *)
LEMMA StoppedStaysStopped ==
    ASSUME IInv, [Next]_vars, NEW u \in Tunnels \ overtaken,
           state[u] \in {"stopping", "closed"}
    PROVE  state'[u] \in {"stopping", "closed"}
<1>t. /\ TypeOK
      /\ state \in [Tunnels -> {"none", "starting", "active", "failed", "stopping", "closed"}]
  BY DEF IInv, TypeOK
<1>f. u \notin starts /\ u \notin watching
  BY DEF IInv, Fits, StartFits, WatchFits
<1>1. ASSUME NEW t \in Tunnels, Start(t) \/ StartStep(t) PROVE state'[u] = state[u]
  <2>1. t # u
    BY <1>1, <1>f DEF Start, StartStep, ListenSucceeds, ForwardSucceeds, StartRejected
  <2> QED
    BY <1>1, <1>t, <2>1 DEF Start, StartStep, ListenSucceeds, ForwardSucceeds, StartRejected,
                            Activate, StartFails, Publish
<1>2. ASSUME NEW t \in Tunnels, Close(t) PROVE state'[u] \in {"stopping", "closed"}
  BY <1>2, <1>t DEF Close, Publish
<1>3. ASSUME NEW r \in releases, ReleaseStep(r) PROVE state'[u] \in {"stopping", "closed"}
  <2>1. r.tunnel \in Tunnels
    BY <1>t DEF TypeOK, Releases
  <2> QED
    BY <1>3, <1>t, <2>1 DEF ReleaseStep, ReleaseServer, ReleaseRemote, Released, Publish
<1>4. CASE ConnectionLost
  BY <1>4, <1>f DEF ConnectionLost
<1>5. CASE ConnectionUnready \/ ConnectionReady \/ UNCHANGED vars
  BY <1>5 DEF ConnectionUnready, ConnectionReady, vars
<1>6. ASSUME NEW p \in Pairs,
             Accept(p) \/ Arrive(p) \/ OpenStep(p) \/ ChannelCloses(p) \/ PeerCloses(p)
      PROVE  state' = state
  BY <1>6 DEF Accept, Arrive, OpenStep, ChannelOpened, OpenRejected, ChannelCloses, PeerCloses,
              SocketsOnly
<1> QED
  BY <1>1, <1>2, <1>3, <1>4, <1>5, <1>6 DEF Next

(* After close() the tunnel goes to closed and nowhere else, also when the *)
(* connection is lost or close() is called again meanwhile.                *)
THEOREM StoppedForGood == Spec => StopIsFinal
<1>1. IInv /\ [Next]_vars =>
        [\A t \in Tunnels \ overtaken :
           state[t] \in {"stopping", "closed"} => state'[t] \in {"stopping", "closed"}]_vars
  BY StoppedStaysStopped
<1> QED
  BY <1>1, Invariance, PTL DEF Spec, StopIsFinal

=============================================================================
