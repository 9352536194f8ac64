------------------------------- MODULE Tunnel -------------------------------
(***************************************************************************)
(* TunnelService (packages/runtime/src/application/tunnel-service.ts): SSH *)
(* port forwardings over one SSH connection.                               *)
(*                                                                         *)
(* A tunnel in `starts' is a start() that awaits listen() or forwardIn();  *)
(* a record of `releases' is a releaseResources() suspended at an await,   *)
(* on behalf of start(), close() or failForConnectionClose().  The SSH     *)
(* connection is what tunnels see of ConnectionService: `ready' while      *)
(* handle() answers, `losing' when it no longer does but the client is     *)
(* still open, `down' once the client and all its channels are closed.     *)
(***************************************************************************)
EXTENDS Naturals

CONSTANTS
    Tunnels,   \* tunnel ids (randomUUID: never reused)
    Kind,      \* each tunnel's profile.type: local, dynamic or remote
    KeyOf,     \* the Idempotency-Key each tunnel is started with
    Peers,     \* the programs that connect through a tunnel, once each
    NoOne,     \* no tunnel
    MaxLosses, \* bound: times the SSH connection is lost
    MaxCloses  \* bound: close() calls for one tunnel

Keys    == {KeyOf[t] : t \in Tunnels}
Remotes == {t \in Tunnels : Kind[t] = "remote"}
Servers == Tunnels \ Remotes

ASSUME TunnelAssumption ==
    /\ Kind \in [Tunnels -> {"local", "dynamic", "remote"}]
    /\ NoOne \notin Tunnels
    /\ MaxLosses \in Nat
    /\ MaxCloses \in Nat

VARIABLES
    conn,      \* the SSH connection: ready, losing or down
    losses,    \* how often its client closed
    state,     \* metadata.state, the last tunnel.status published
    live,      \* the keys of the `tunnels' map
    watching,  \* tunnels with an onClose listener on the SSH handle
    server,    \* tunnels whose managed.server is set
    bound,     \* tunnels whose net.Server listens
    remote,    \* tunnels whose managed.remote is set
    forwards,  \* remote forwardings the SSH server holds
    receipts,  \* idempotency_records: the tunnel recorded for a key
    starts,    \* suspended start() calls
    releases,  \* suspended releaseResources() calls
    closes,    \* close() calls made for each tunnel
    sockets,   \* open TCP sockets: <<tunnel, peer>>
    ended,     \* those of them that the tunnel has ended and the peer has not
    channels,  \* open SSH channels: <<tunnel, peer>>
    opening,   \* forwardOut() calls in progress: <<tunnel, peer>>
    ownSockets,  \* managed.sockets: the open sockets in it
    ownChannels, \* managed.sockets: the open channels in it
    met,         \* the pairs that connected
    overtaken    \* history: tunnels released while start() awaited a listener

connVars   == <<conn, losses>>
listenVars == <<server, bound, remote, forwards>>
socketVars == <<sockets, ended, channels, opening, ownSockets, ownChannels, met>>
vars == <<connVars, state, live, watching, listenVars, receipts, starts, releases,
          closes, socketVars, overtaken>>

Pairs == Tunnels \X Peers
Releases == [tunnel : Tunnels, by : {"start", "close", "fail"}, call : 0..MaxCloses,
             at : {"server", "remote", "done"}]

TypeOK ==
    /\ conn \in {"ready", "losing", "down"} /\ losses \in 0..MaxLosses
    /\ state \in [Tunnels -> {"none", "starting", "active", "failed", "stopping", "closed"}]
    /\ live \subseteq Tunnels /\ watching \subseteq Tunnels
    /\ server \subseteq Servers /\ bound \subseteq Servers
    /\ remote \subseteq Remotes /\ forwards \subseteq Remotes
    /\ receipts \in [Keys -> Tunnels \cup {NoOne}]
    /\ starts \subseteq Tunnels
    /\ releases \subseteq Releases
    /\ closes \in [Tunnels -> 0..MaxCloses]
    /\ sockets \subseteq Pairs /\ ended \subseteq sockets
    /\ channels \subseteq Pairs /\ opening \subseteq Pairs
    /\ ownSockets \subseteq sockets /\ ownChannels \subseteq channels
    /\ met \subseteq Pairs /\ overtaken \subseteq Tunnels

Init ==
    /\ conn = "ready" /\ losses = 0
    /\ state = [t \in Tunnels |-> "none"]
    /\ live = {} /\ watching = {}
    /\ server = {} /\ bound = {} /\ remote = {} /\ forwards = {}
    /\ receipts = [k \in Keys |-> NoOne]
    /\ starts = {} /\ releases = {} /\ closes = [t \in Tunnels |-> 0]
    /\ sockets = {} /\ ended = {} /\ channels = {} /\ opening = {}
    /\ ownSockets = {} /\ ownChannels = {} /\ met = {} /\ overtaken = {}

-----------------------------------------------------------------------------
(* releaseResources()                                                      *)

Of(t, pairs) == {p \in pairs : p[1] = t}

(* closeServer() waits only for a server that listens; one that is still   *)
(* starting, or closing already, lets it return at once.                   *)
Listening(t) == t \in server /\ t \in bound

(* Where a release is suspended after the server: it takes back the remote *)
(* forwarding when handle() answers, and is done otherwise.                *)
AfterServer(t, ready) == IF t \in remote /\ ready THEN "remote" ELSE "done"

(* releaseResources() of the tunnels T up to its first await, as far as    *)
(* listeners go.                                                           *)
StopListening(T, by, call, ready) ==
    /\ bound' = bound \ {t \in T : Listening(t)}
    /\ server' = server \ {t \in T : ~Listening(t)}
    /\ remote' = remote \ {t \in T : ~Listening(t) /\ AfterServer(t, ready) = "done"}
    /\ releases' = releases \cup
          {[tunnel |-> t, by |-> by, call |-> call,
            at |-> IF Listening(t) THEN "server" ELSE AfterServer(t, ready)] : t \in T}
    /\ overtaken' = overtaken \cup (T \cap starts)

(* It destroys the sockets and channels in managed.sockets before that.    *)
DestroyedByNone(t) == {}
Destroyed(t) == Of(t, ownSockets)

DestroySockets(t) ==
    /\ sockets' = sockets \ Destroyed(t)
    /\ ended' = ended \ Destroyed(t)
    /\ channels' = channels \ Of(t, ownChannels)
    /\ ownSockets' = ownSockets \ Of(t, ownSockets)
    /\ ownChannels' = ownChannels \ Of(t, ownChannels)
    /\ UNCHANGED <<opening, met>>

Release(t, by, call) ==
    /\ StopListening({t}, by, call, conn = "ready")
    /\ DestroySockets(t)

Publish(t, s) == state' = [state EXCEPT ![t] = s]

-----------------------------------------------------------------------------
(* start()                                                                 *)

(* startLocal() and startDynamic() create a server, startRemote() does not. *)
AnyCreatesServer(t) == TRUE
CreatesServer(t) == t \in Servers

(* Without a receipt for the key, start() registers the tunnel and calls   *)
(* listen() or forwardIn(); with one it answers with the receipt and       *)
(* changes nothing.                                                        *)
Start(t) ==
    /\ state[t] = "none"
    /\ receipts[KeyOf[t]] = NoOne
    /\ live' = live \cup {t}
    /\ \/ /\ conn = "ready"
          /\ Publish(t, "starting")
          /\ watching' = watching \cup {t}
          /\ server' = IF CreatesServer(t) THEN server \cup {t} ELSE server
          /\ starts' = starts \cup {t}
          /\ UNCHANGED <<releases>>
       \/ /\ conn # "ready"
          /\ Publish(t, "failed")
          /\ releases' = releases \cup {[tunnel |-> t, by |-> "start", call |-> 0,
                                         at |-> "done"]}
          /\ UNCHANGED <<watching, server, starts>>
    /\ UNCHANGED <<connVars, bound, remote, forwards, receipts, closes, socketVars,
                   overtaken>>

(* The catch block up to its await.                                        *)
StartFails(t) ==
    /\ Publish(t, "failed")
    /\ watching' = watching \ {t}
    /\ starts' = starts \ {t}

(* recordIdempotency() is a plain INSERT: a second one for a key throws.   *)
RecordsAgain(t) == TRUE
Records(t) == receipts[KeyOf[t]] = NoOne

Activate(t) ==
    /\ Records(t)
    /\ Publish(t, "active")
    /\ receipts' = [receipts EXCEPT ![KeyOf[t]] = t]
    /\ starts' = starts \ {t}
    /\ UNCHANGED <<watching, releases, sockets, ended, channels, opening, ownSockets,
                   ownChannels, met, overtaken>>

(* listen() succeeds: the tunnel is active, or its receipt is refused and  *)
(* the catch block closes the server that has just been opened.            *)
ListenSucceeds(t) ==
    /\ t \in starts \cap Servers
    /\ \/ /\ Activate(t)
          /\ bound' = bound \cup {t}
          /\ UNCHANGED server
       \/ /\ ~Records(t)
          /\ StartFails(t)
          /\ bound' = IF t \in server THEN bound ELSE bound \cup {t}
          /\ server' = server
          /\ releases' = releases \cup
                {[tunnel |-> t, by |-> "start", call |-> 0,
                  at |-> IF t \in server THEN "server" ELSE "done"]}
          /\ UNCHANGED <<receipts, socketVars, overtaken>>
    /\ UNCHANGED <<connVars, live, remote, forwards, closes>>

(* forwardIn() succeeds, likewise.                                         *)
ForwardSucceeds(t) ==
    /\ t \in starts \cap Remotes
    /\ conn # "down"
    /\ forwards' = forwards \cup {t}
    /\ \/ /\ Activate(t)
          /\ remote' = remote \cup {t}
       \/ /\ ~Records(t)
          /\ StartFails(t)
          /\ remote' = IF conn = "ready" THEN remote \cup {t} ELSE remote
          /\ releases' = releases \cup
                {[tunnel |-> t, by |-> "start", call |-> 0,
                  at |-> IF conn = "ready" THEN "remote" ELSE "done"]}
          /\ UNCHANGED <<receipts, socketVars, overtaken>>
    /\ UNCHANGED <<connVars, live, server, bound, closes>>

(* listen() or forwardIn() rejects: the port is in use, the server refuses *)
(* or the connection is gone.                                              *)
StartRejected(t) ==
    /\ t \in starts
    /\ StartFails(t)
    /\ server' = server \ {t}
    /\ releases' = releases \cup {[tunnel |-> t, by |-> "start", call |-> 0,
                                   at |-> AfterServer(t, conn = "ready")]}
    /\ UNCHANGED <<connVars, live, bound, remote, forwards, receipts, closes,
                   socketVars, overtaken>>

-----------------------------------------------------------------------------
(* close() and the end of a release                                        *)

KeepsWatching(t) == watching
StopsWatching(t) == watching \ {t}

Close(t) ==
    /\ t \in live
    /\ closes[t] < MaxCloses
    /\ closes' = [closes EXCEPT ![t] = @ + 1]
    /\ Publish(t, "stopping")
    /\ watching' = StopsWatching(t)
    /\ Release(t, "close", closes[t] + 1)
    /\ UNCHANGED <<connVars, live, forwards, receipts, starts>>

Resume(r, at) == releases' = (releases \ {r}) \cup {[r EXCEPT !.at = at]}

(* server.close() calls back when no connection of the server is left.     *)
DrainsAtOnce(t) == TRUE
Drained(t) == Of(t, sockets) = {}

ReleaseServer(r) ==
    /\ r.at = "server"
    /\ Drained(r.tunnel)
    /\ server' = server \ {r.tunnel}
    /\ Resume(r, AfterServer(r.tunnel, conn = "ready"))
    /\ UNCHANGED <<connVars, state, live, watching, bound, remote, forwards, receipts,
                   starts, closes, socketVars, overtaken>>

(* unforwardIn() answers, or rejects and leaves the forwarding to the SSH  *)
(* server; the reference is dropped either way.                            *)
ReleaseRemote(r) ==
    /\ r.at = "remote"
    /\ remote' = remote \ {r.tunnel}
    /\ forwards' \in {forwards, forwards \ {r.tunnel}}
    /\ Resume(r, "done")
    /\ UNCHANGED <<connVars, state, live, watching, server, bound, receipts, starts,
                   closes, socketVars, overtaken>>

Released(r) ==
    /\ r.at = "done"
    /\ releases' = releases \ {r}
    /\ \/ /\ r.by = "close"
          /\ Publish(r.tunnel, "closed")
          /\ live' = live \ {r.tunnel}
          /\ UNCHANGED receipts
       \/ /\ r.by = "start"
          /\ receipts' = IF Records(r.tunnel)
                         THEN [receipts EXCEPT ![KeyOf[r.tunnel]] = r.tunnel] ELSE receipts
          /\ UNCHANGED <<state, live>>
       \/ /\ r.by = "fail"
          /\ UNCHANGED <<state, live, receipts>>
    /\ UNCHANGED <<connVars, watching, listenVars, starts, closes, socketVars, overtaken>>

-----------------------------------------------------------------------------
(* The SSH connection                                                      *)

(* recover() or close() of the connection begins: handle() throws.         *)
ConnectionUnready ==
    /\ conn = "ready" /\ losses < MaxLosses
    /\ conn' = "losing"
    /\ UNCHANGED <<losses, state, live, watching, listenVars, receipts, starts,
                   releases, closes, socketVars, overtaken>>

(* The early return of failForConnectionClose().                           *)
FailsWhileStarting(t) == t \in live /\ state[t] = "starting"
FailsOnLoss(t) == t \in live /\ state[t] # "failed"

(* The client closes: pending forwardOut() calls reject and their sockets  *)
(* are destroyed, channels close and end their sockets, and the onClose    *)
(* listeners fail their tunnels.                                           *)
ConnectionLost ==
    LET failed == {t \in watching : FailsOnLoss(t)}
        gone == opening \cup {p \in ownSockets : p[1] \in failed}
    IN
    /\ conn # "down" /\ losses < MaxLosses
    /\ conn' = "down" /\ losses' = losses + 1
    /\ state' = [t \in Tunnels |-> IF t \in failed THEN "failed" ELSE state[t]]
    /\ watching' = {}
    /\ StopListening(failed, "fail", 0, FALSE)
    /\ forwards' = {}
    /\ channels' = {} /\ ownChannels' = {} /\ opening' = {}
    /\ sockets' = sockets \ gone
    /\ ended' = (ended \cup (channels \cap sockets)) \ gone
    /\ ownSockets' = {p \in ownSockets \ gone : p \in channels => Kind[p[1]] = "dynamic"}
    /\ UNCHANGED <<live, receipts, starts, closes, met>>

(* The connection is back with another client; a pending forwardIn() has   *)
(* been rejected by then.                                                  *)
ConnectionReady ==
    /\ conn = "down" /\ starts \cap Remotes = {}
    /\ conn' = "ready"
    /\ UNCHANGED <<losses, state, live, watching, listenVars, receipts, starts,
                   releases, closes, socketVars, overtaken>>

-----------------------------------------------------------------------------
(* Traffic                                                                 *)

SocketsOnly ==
    UNCHANGED <<connVars, state, live, watching, listenVars, receipts, starts,
                releases, closes, overtaken>>

(* A program connects to a local listener, and forwardOut() begins; when   *)
(* handle() throws, a dynamic tunnel answers with a SOCKS failure and a    *)
(* local one lets the exception escape from the connection listener.       *)
Accept(p) ==
    /\ p[1] \in bound /\ p \notin met
    /\ met' = met \cup {p}
    /\ sockets' = sockets \cup {p}
    /\ ownSockets' = ownSockets \cup {p}
    /\ opening' = IF conn = "ready" THEN opening \cup {p} ELSE opening
    /\ ended' = IF conn # "ready" /\ Kind[p[1]] = "dynamic" THEN ended \cup {p} ELSE ended
    /\ UNCHANGED <<channels, ownChannels>>
    /\ SocketsOnly

(* The SSH server opens a channel for a remote forwarding, and the tunnel  *)
(* connects a socket to its target.                                        *)
Arrive(p) ==
    /\ p[1] \in forwards /\ conn # "down" /\ p \notin met
    /\ met' = met \cup {p}
    /\ sockets' = sockets \cup {p} /\ ownSockets' = ownSockets \cup {p}
    /\ channels' = channels \cup {p} /\ ownChannels' = ownChannels \cup {p}
    /\ UNCHANGED <<ended, opening>>
    /\ SocketsOnly

(* forwardOut() resolves: the channel joins managed.sockets and is piped   *)
(* to the socket, open or not; or it rejects, which ends the socket.       *)
ChannelOpened(p) ==
    /\ p \in opening
    /\ opening' = opening \ {p}
    /\ channels' = channels \cup {p} /\ ownChannels' = ownChannels \cup {p}
    /\ UNCHANGED <<sockets, ended, ownSockets, met>>
    /\ SocketsOnly

OpenRejected(p) ==
    /\ p \in opening
    /\ opening' = opening \ {p}
    /\ IF Kind[p[1]] = "dynamic"
       THEN /\ ended' = ended \cup ({p} \cap sockets)
            /\ UNCHANGED <<sockets, ownSockets>>
       ELSE /\ sockets' = sockets \ {p} /\ ended' = ended \ {p}
            /\ ownSockets' = ownSockets \ {p}
    /\ UNCHANGED <<channels, ownChannels, met>>
    /\ SocketsOnly

(* The channel of a pair closes: the socket is ended, and the cleanup of a *)
(* local or remote tunnel forgets both.                                    *)
ChannelCloses(p) ==
    /\ p \in channels
    /\ channels' = channels \ {p} /\ ownChannels' = ownChannels \ {p}
    /\ ended' = ended \cup ({p} \cap sockets)
    /\ ownSockets' = IF Kind[p[1]] = "dynamic" THEN ownSockets ELSE ownSockets \ {p}
    /\ UNCHANGED <<sockets, opening, met>>
    /\ SocketsOnly

(* The peer closes its socket; the cleanup forgets the channel too, if it  *)
(* was there to register it.                                               *)
PeerCloses(p) ==
    /\ p \in sockets
    /\ sockets' = sockets \ {p} /\ ended' = ended \ {p}
    /\ ownSockets' = ownSockets \ {p}
    /\ ownChannels' = IF Kind[p[1]] = "dynamic" THEN ownChannels ELSE ownChannels \ {p}
    /\ UNCHANGED <<channels, opening, met>>
    /\ SocketsOnly
-----------------------------------------------------------------------------
ReleaseStep(r) == ReleaseServer(r) \/ ReleaseRemote(r) \/ Released(r)
StartStep(t) == ListenSucceeds(t) \/ ForwardSucceeds(t) \/ StartRejected(t)
OpenStep(p) == ChannelOpened(p) \/ OpenRejected(p)

Next ==
    \/ \E t \in Tunnels : Start(t) \/ StartStep(t) \/ Close(t)
    \/ \E r \in releases : ReleaseStep(r)
    \/ ConnectionUnready \/ ConnectionLost \/ ConnectionReady
    \/ \E p \in Pairs : Accept(p) \/ Arrive(p) \/ OpenStep(p) \/ ChannelCloses(p) \/ PeerCloses(p)

(***************************************************************************)
(* Every call of the code settles.  PeersLeave is about other programs: a  *)
(* peer whose connection a local tunnel has ended closes its side.         *)
(***************************************************************************)
CodeFairness ==
    /\ \A t \in Tunnels : WF_vars(StartStep(t))
    /\ \A t \in Tunnels : WF_vars(\E r \in releases : r.tunnel = t /\ ReleaseStep(r))
    /\ \A p \in Pairs : WF_vars(OpenStep(p))
PeersLeave ==
    \A p \in Pairs : Kind[p[1]] = "local" => WF_vars(p \in ended /\ PeerCloses(p))

Spec == Init /\ [][Next]_vars
FairSpec == Spec /\ CodeFairness
PeerSpec == FairSpec /\ PeersLeave

-----------------------------------------------------------------------------
(* Properties                                                              *)

(* Nothing of the tunnel is under way.                                     *)
Quiet(t) == t \notin starts /\ \A r \in releases : r.tunnel # t

(* A listening server is one that close() of a registered tunnel stops,    *)
(* unless the tunnel was released while start() still awaited listen().    *)
ListenerOwned ==
    \A t \in bound \ overtaken : t \in live /\ t \in server

(* When a failed or closed tunnel has nothing under way, its port is free  *)
(* and no program is connected to it any more, whichever of a failed       *)
(* start, a lost connection and overlapping close() calls released it.     *)
QuietReleased ==
    \A t \in Tunnels \ overtaken :
        state[t] \in {"failed", "closed"} /\ Quiet(t) =>
            t \notin bound /\ (t \in Servers => Of(t, sockets) = {})

(* What a tunnel holds has an owner and is gone when the tunnel is.        *)
Owned == ListenerOwned /\ QuietReleased

(* An active tunnel is the one its key's receipt names, so that a retried  *)
(* request is answered with it and two racing requests with one key never  *)
(* leave two tunnels.                                                      *)
ReceiptHonest ==
    \A t \in Tunnels : state[t] = "active" => receipts[KeyOf[t]] = t

(* An active tunnel has an SSH client under it and will hear of its end.   *)
ActiveWatched ==
    \A t \in Tunnels \ overtaken :
        state[t] = "active" => t \in watching /\ conn # "down"

(* After close() the tunnel goes to closed and nowhere else, also when the *)
(* connection is lost or close() is called again meanwhile.                *)
StopIsFinal ==
    [][\A t \in Tunnels \ overtaken :
          state[t] \in {"stopping", "closed"} => state'[t] \in {"stopping", "closed"}]_vars

(* close() completes: for dynamic tunnels whatever their peers do, for     *)
(* local ones once the peers that the tunnel has ended have left.          *)
StopCompletes == \A t \in Tunnels : state[t] = "stopping" ~> state[t] # "stopping"

-----------------------------------------------------------------------------
(* What MASTER_SPEC 42 promises and the code does not do: every tunnel     *)
(* listener and SSH channel has an owner and a deterministic cleanup.      *)

(* close() and a lost connection do not stop a start() that awaits its     *)
(* listener; it then leaves a listening server that no call can close.     *)
ListenerHasOwner == \A t \in bound : t \in live /\ t \in server

(* A forwardOut() that resolves after close() adds its channel to the      *)
(* managed.sockets of a tunnel that is gone.                               *)
ChannelHasOwner ==
    \A t \in Servers \ overtaken :
        state[t] = "closed" /\ Quiet(t) => Of(t, ownChannels) = {}

(* Deterministic cleanup: close() does not depend on other programs.  It   *)
(* does: it waits for a local peer whose channel is closed but which keeps *)
(* its own side open, because the cleanup has forgotten the socket.        *)
StopNeedsNoPeer == StopCompletes

=============================================================================
