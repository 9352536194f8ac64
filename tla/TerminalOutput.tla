--------------------------- MODULE TerminalOutput ---------------------------
(***************************************************************************)
(* Output of one terminal: TerminalService.broadcast, the replay ring, the *)
(* attached WebSocket viewers with their consumption windows               *)
(* (TerminalOutputWindow), and the log recording (TerminalRecordingWriter).*)
(*                                                                         *)
(* The channel that produces the output is paused by three owners that    *)
(* know nothing of each other: a viewer's window is full, a viewer's       *)
(* socket is slow (a 25 ms timer watches it), the recording is slow.       *)
(*                                                                         *)
(* A chunk is its sequence number and its size in frames of 64 KiB.        *)
(***************************************************************************)
EXTENDS Integers, Sequences, FiniteSets

CONSTANTS
  Clients,      \* client ids of the viewers
  Negotiated,   \* those that ask for the consumption window (outputFlow)
  Recordings,   \* calls of startRecording()
  None,         \* no recording
  Sizes,        \* sizes each chunk the channel delivers may have, in frames
  RingMax,      \* TERMINAL_REPLAY_MAX_BYTES, in frames
  HighWater, LowWater, PendingMax, \* limits of a window, in frames
  MaxChunks     \* bound: chunks delivered in a behaviour

ASSUME OutputAssumption ==
  /\ Sizes \in [1 .. MaxChunks -> SUBSET (Nat \ {0})]
  /\ RingMax \in Nat /\ MaxChunks \in Nat
  /\ LowWater \in Nat /\ HighWater \in Nat /\ PendingMax \in Nat
  /\ LowWater < HighWater /\ HighWater <= PendingMax
  /\ None \notin Recordings /\ Negotiated \subseteq Clients

VARIABLES
  life,      \* "open", "exited", "closing" (close() awaits the recording), "closed"
  listening, \* the service listens to the channel
  recent,    \* ring of the chunks kept for replay
  forgotten, \* managed.historyTruncated
  next,      \* managed.nextSequence
  sockets,   \* attachment of each client, or NoSocket
  cursor,    \* managed.clientCursors, 0 when there is none
  source,    \* the channel, its pause owners and managed.recording; displaced is
             \* history: a second recording took the place of one that was slow, and
             \* the channel was not resumed since
  writer,    \* recording writers: full when a write returned false
  awaited    \* the recording close() waits for

vars == <<life, listening, recent, forgotten, next, sockets, cursor, source,
          writer, awaited>>

----------------------------------------------------------------------------
NoSocket == [open |-> FALSE]
Attached == {c \in Clients : sockets[c] # NoSocket}

\* consumed is the window's lastConsumedSequence. skipped, told and lost are
\* history: the chunks not sent because the socket was slow and not overtaken
\* yet, the last chunk a truncation notice covered, and the chunks that a later
\* one overtook without a notice.
Attachment(flow, sequence) ==
  [open |-> TRUE, flow |-> flow, sent |-> sequence, 
   consumed |-> IF flow THEN sequence ELSE 0,
   window |-> <<>>, buffered |-> 0, skipped |-> {}, told |-> 0, lost |-> {}]

Init ==
  /\ life = "open" /\ listening = TRUE
  /\ recent = <<>> /\ forgotten = FALSE /\ next = 1
  /\ sockets = [c \in Clients |-> NoSocket]
  /\ cursor = [c \in Clients |-> 0]
  /\ source = [paused |-> FALSE, timer |-> FALSE, windows |-> FALSE,
               displaced |-> FALSE, recording |-> None, slow |-> [r \in Recordings |-> FALSE]]
  /\ writer = [r \in Recordings |-> [state |-> "unused", full |-> FALSE]]
  /\ awaited = None

----------------------------------------------------------------------------
(* The channel and the owners of its pause.                                *)

Closed == life # "open"
High(s) == Len(s.window) >= HighWater
Low(s) == Len(s.window) <= LowWater
RecordingSlow(src) == src.recording # None /\ src.slow[src.recording]

MayResumeSlowSocket(src) == ~RecordingSlow(src)
MayResume(src) == ~src.timer /\ ~RecordingSlow(src)

ReleasedByWindows(wasFull, released) == wasFull
LetsGo(wasFull, released) == wasFull \/ released

\* refreshOutputFlow: pause on the rise of the windows, resume on their fall or
\* when another owner let go, and only if no other owner is left.
Refreshed(src, socks, released) ==
  LET flows == {c \in Clients : socks[c] # NoSocket /\ socks[c].flow}
      windows == \/ \E c \in flows : High(socks[c])
                 \/ src.windows /\ \E c \in flows : ~Low(socks[c])
      resumes == ~windows /\ LetsGo(src.windows, released) /\ MayResume(src)
      paused == IF Closed THEN src.paused
                ELSE (windows /\ ~src.windows) \/ (src.paused /\ ~resumes)
  IN [src EXCEPT !.windows = windows, !.paused = paused, !.displaced = @ /\ paused]

\* failRecording: it acts on the recording of the terminal, whichever writer failed.
Failed(src, socks) ==
  IF src.recording = None THEN src
  ELSE LET gone == [src EXCEPT !.recording = None, !.slow[src.recording] = FALSE]
       IN IF RecordingSlow(src) THEN Refreshed(gone, socks, TRUE) ELSE gone

\* recordOutput: what a write may do to the source and the writers.
RecordOutput(src) ==
  IF src.recording = None THEN {[source |-> src, writer |-> writer]}
  ELSE LET r == src.recording
           With(state, full) == [writer EXCEPT ![r] = [state |-> state, full |-> full]]
           quick == [source |-> src, writer |-> With("open", FALSE)]
           slow == [source |-> [src EXCEPT !.slow[r] = TRUE,
                                  !.paused = @ \/ ~src.slow[r]],
                    writer |-> With("open", TRUE)]
           fails == [source |-> Failed(src, sockets),
                     writer |-> With("ended", FALSE)]
       IN IF writer[r].full THEN {slow, fails} ELSE {quick, slow}

----------------------------------------------------------------------------
(* Sending chunks to one viewer.                                           *)

\* recentBytes of a ring.
Total(s) == LET sum[i \in 0 .. Len(s)] == IF i = 0 THEN 0 ELSE sum[i - 1] + s[i].size
            IN sum[Len(s)]

\* remember: an oversized chunk empties the ring, else the oldest go.
Ring(chunk) ==
  LET all == Append(recent, chunk)
      From(i) == SubSeq(all, i, Len(all))
      Fits(i) == Total(From(i)) <= RingMax
  IN IF chunk.size > RingMax THEN <<>>
     ELSE From(CHOOSE i \in 1 .. Len(all) : Fits(i) /\ \A j \in 1 .. (i - 1) : ~Fits(j))

Drops(chunk) == chunk.size > RingMax \/ Len(Ring(chunk)) <= Len(recent)

Beyond(s) == IF s.sent > s.told THEN s.sent ELSE s.told

\* The chunk is on the socket: the chunks it overtook, except the announced
\* ones, are lost to this viewer.
Overtakes(s, sequence) ==
  [s EXCEPT !.sent = sequence, !.told = 0, !.skipped = {},
     !.lost = @ \cup ((Beyond(s) + 1) .. (sequence - 1))]

\* The checkpoints of the first n frames: the last frame completes the chunk.
EachFrame(chunk, n) == [i \in 1 .. n |-> chunk.sequence]
Frames(chunk, n) == [i \in 1 .. n |-> IF i = chunk.size THEN chunk.sequence ELSE 0]

\* sendOutputChunk: frame by frame into the window; a frame that does not fit
\* closes the socket.
SendChunk(s, chunk) ==
  LET room == PendingMax - Len(s.window)
  IN IF ~s.flow THEN Overtakes(s, chunk.sequence)
     ELSE IF chunk.size <= room
          THEN Overtakes([s EXCEPT !.window = @ \o Frames(chunk, chunk.size)], chunk.sequence)
          ELSE [s EXCEPT !.window = @ \o Frames(chunk, room), !.open = FALSE]

\* replayToSocket: the retained chunks after the last one sent, preceded by a
\* notice that says whether older ones are gone.
TruncatedLate(s, ring, dropped) ==
  IF s.sent = 0 THEN dropped
  ELSE IF ring = <<>> THEN s.sent < next - 1 ELSE s.sent + 2 < ring[1].sequence
Truncated(s, ring, dropped) ==
  IF s.sent = 0 THEN dropped
  ELSE IF ring = <<>> THEN s.sent < next - 1 ELSE s.sent + 1 < ring[1].sequence

\* The notice covers the log up to the ring.
Noticed(s) ==
  IF Truncated(s, recent, forgotten)
  THEN [s EXCEPT !.told = IF recent = <<>> THEN next - 1 ELSE recent[1].sequence - 1]
  ELSE s

\* after[n] is the viewer when the first n chunks of the ring were replayed, up to one
\* that closes the socket.
Resent(s) ==
  LET after[n \in 0 .. Len(recent)] ==
        IF n = 0 THEN Noticed(s)
        ELSE IF after[n - 1].open /\ recent[n].sequence > s.sent
             THEN SendChunk(after[n - 1], recent[n]) ELSE after[n - 1]
  IN after[Len(recent)]

Replayed(s) ==
  IF ~s.open THEN s
  ELSE IF s.flow THEN Resent(s)
  ELSE [Resent(s) EXCEPT !.sent = next - 1, !.told = 0, !.skipped = {}]

\* A plain viewer's cursor is what it was sent, a negotiated one's what it consumed.
Cursors(socks) ==
  [c \in Clients |-> IF socks[c] = NoSocket \/ socks[c].flow THEN cursor[c]
                     ELSE socks[c].sent]

\* What was sent may stay in the socket's buffer: 0 is below SOCKET_LOW_WATER,
\* 2 above SOCKET_HIGH_WATER.
Buffers(before, after) ==
  IF after = NoSocket THEN {0}
  ELSE IF after.sent = before.sent /\ after.window = before.window
       THEN {before.buffered} ELSE before.buffered .. 2

Sends(before, after) ==
  /\ \E b \in [Clients -> 0 .. 2] :
       /\ \A c \in Clients : b[c] \in Buffers(before[c], after[c])
       /\ sockets' = [c \in Clients |-> IF after[c] = NoSocket THEN NoSocket
                                       ELSE [after[c] EXCEPT !.buffered = b[c]]]
  /\ cursor' = Cursors(after)

----------------------------------------------------------------------------
(* Output.                                                                 *)

\* broadcast: record, remember, send to every socket that is not slow, watch
\* the slow ones with the timer.
Receives(s, chunk) ==
  IF s = NoSocket \/ ~s.open THEN s
  ELSE IF s.buffered = 2 THEN [s EXCEPT !.skipped = @ \cup {chunk.sequence}]
  ELSE SendChunk(s, chunk)

Broadcast(size) ==
  /\ listening /\ next <= MaxChunks /\ size \in Sizes[next]
  /\ LET chunk == [sequence |-> next, size |-> size]
         socks == [c \in Clients |-> Receives(sockets[c], chunk)]
         congested == \E c \in Attached : sockets[c].open /\ sockets[c].buffered = 2
         Watched(src) == [src EXCEPT !.timer = @ \/ congested,
                            !.paused = @ \/ (congested /\ ~src.timer)]
     IN /\ \E result \in RecordOutput(source) :
             /\ source' = Refreshed(Watched(result.source), socks, FALSE)
             /\ writer' = result.writer
        /\ recent' = Ring(chunk)
        /\ forgotten' = (forgotten \/ Drops(chunk))
        /\ next' = next + 1
        /\ Sends(sockets, socks)
        /\ UNCHANGED <<life, listening, awaited>>

\* The timer of broadcast(): it ends when every socket is below the low-water
\* mark, and then replays only if the terminal is open and its recording keeps up.
TimerEnds ==
  LET src == [source EXCEPT !.timer = FALSE]
      socks == [c \in Clients |-> IF sockets[c] = NoSocket THEN NoSocket
                                  ELSE Replayed(sockets[c])]
  IN /\ source.timer
     /\ \A c \in Attached : sockets[c].buffered = 0
     /\ IF Closed \/ RecordingSlow(source)
        THEN source' = src /\ UNCHANGED <<sockets, cursor>>
        ELSE source' = Refreshed(src, socks, TRUE) /\ Sends(sockets, socks)
     /\ UNCHANGED <<life, listening, recent, forgotten, next, writer, awaited>>

----------------------------------------------------------------------------
(* Viewers.                                                                *)

\* attach: a second socket of a client replaces the first.
Attach(c) ==
  LET fresh == [sockets EXCEPT ![c] = Attachment(c \in Negotiated, cursor[c])]
      socks == [fresh EXCEPT ![c] = Replayed(@)]
  IN /\ life = "open"
     /\ source' = Refreshed(source, socks, FALSE)
     /\ Sends(fresh, socks)
     /\ UNCHANGED <<life, listening, recent, forgotten, next, writer, awaited>>

\* outputConsumed: the viewer parsed n more frames.
Acknowledge(c, n) ==
  LET s == sockets[c]
      parsed == {s.consumed} \cup {s.window[i] : i \in 1 .. n}
      socks == [sockets EXCEPT ![c].window = SubSeq(@, n + 1, Len(@)),
                  ![c].consumed = CHOOSE m \in parsed : \A k \in parsed : k <= m]
  IN /\ c \in Attached /\ s.flow /\ n <= Len(s.window)
     /\ sockets' = socks
     /\ cursor' = [cursor EXCEPT ![c] = socks[c].consumed]
     /\ source' = Refreshed(source, socks, FALSE)
     /\ UNCHANGED <<life, listening, recent, forgotten, next, writer, awaited>>

\* An invalid or retired acknowledgement closes the socket with 1008; like one
\* closed by a full window it stays attached until its close event.
Misacknowledge(c) ==
  /\ c \in Attached /\ sockets[c].flow /\ sockets[c].open
  /\ sockets' = [sockets EXCEPT ![c].open = FALSE]
  /\ UNCHANGED <<life, listening, recent, forgotten, next, cursor, source, writer, awaited>>

\* The network took what the socket had buffered.
Drain(c) ==
  /\ c \in Attached /\ sockets[c].buffered > 0
  /\ sockets' = [sockets EXCEPT ![c].buffered = @ - 1]
  /\ UNCHANGED <<life, listening, recent, forgotten, next, cursor, source, writer, awaited>>

\* detach, on the socket's close or error event.
Detach(c) ==
  LET socks == [sockets EXCEPT ![c] = NoSocket]
  IN /\ c \in Attached
     /\ sockets' = socks
     /\ source' = Refreshed(source, socks, FALSE)
     /\ UNCHANGED <<life, listening, recent, forgotten, next, cursor, writer, awaited>>

----------------------------------------------------------------------------
(* Recording.                                                              *)

StartRecording(r) ==
  /\ life = "open" /\ source.recording = None
  /\ writer[r].state = "unused"
  /\ writer' = [writer EXCEPT ![r].state = "opening"]
  /\ UNCHANGED <<life, listening, recent, forgotten, next, sockets, cursor, source, awaited>>

OpenFails(r) ==
  /\ writer[r].state = "opening"
  /\ writer' = [writer EXCEPT ![r].state = "ended"]
  /\ UNCHANGED <<life, listening, recent, forgotten, next, sockets, cursor, source, awaited>>

\* The file is open: startRecording() goes on without another look at the
\* terminal. With includeRecent the ring is written at once.
Opened(r) ==
  LET src == [source EXCEPT !.recording = r,
                !.slow = [q \in Recordings |-> q # source.recording /\ @[q]],
                !.displaced = @ \/ RecordingSlow(source)]
  IN /\ writer[r].state = "opening"
     /\ \E full \in {FALSE, recent # <<>>} :
          /\ writer' = [writer EXCEPT ![r] = [state |-> "open", full |-> full]]
          /\ source' = IF full THEN [src EXCEPT !.slow[r] = TRUE, !.paused = TRUE]
                       ELSE src
     /\ UNCHANGED <<life, listening, recent, forgotten, next, sockets, cursor, awaited>>

\* The parser and the file caught up below the low-water marks: the writer
\* calls onDrain, which releases the recording of the terminal, whichever it is.
Parse(r) ==
  /\ writer[r].state \in {"open", "closing"}
  /\ writer' = [writer EXCEPT ![r].full = FALSE]
  /\ source' = IF RecordingSlow(source)
               THEN Refreshed([source EXCEPT !.slow[source.recording] = FALSE],
                              sockets, TRUE)
               ELSE source
  /\ UNCHANGED <<life, listening, recent, forgotten, next, sockets, cursor, awaited>>

\* stopManagedRecording: the recording leaves the terminal, its writer is closed.
KeepsWriting(src) == src
Stopping(src) == [src EXCEPT !.recording = None]
StoppingWriter(src) ==
  IF src.recording = None THEN writer
  ELSE [writer EXCEPT ![src.recording].state = "closing"]

StopRecording ==
  /\ life \in {"open", "exited"} /\ source.recording # None
  /\ source' = Stopping(source)
  /\ writer' = StoppingWriter(source)
  /\ UNCHANGED <<life, listening, recent, forgotten, next, sockets, cursor, awaited>>

\* The end of close(), as soon as the recording it awaits is closed: listeners
\* and sockets go.
Finish ==
  /\ life' = "closed" /\ listening' = FALSE
  /\ sockets' = [c \in Clients |-> NoSocket]
  /\ cursor' = [c \in Clients |-> 0]

\* A writer is closed: the pause it owned ends.
WriterClosed(r, src) ==
  LET freed == [src EXCEPT !.slow[r] = FALSE]
  IN /\ writer' = [writer EXCEPT ![r] = [state |-> "ended", full |-> FALSE]]
     /\ source' = IF src.slow[r] THEN Refreshed(freed, sockets, TRUE) ELSE freed
     /\ IF awaited = r THEN Finish ELSE UNCHANGED <<life, listening, sockets, cursor>>
     /\ UNCHANGED <<recent, forgotten, next, awaited>>

Stopped(r) ==
  /\ writer[r].state = "closing" /\ ~writer[r].full
  /\ WriterClosed(r, source)

\* The file stream reports an error: it fails the recording of the terminal and
\* rejects the close() that waits for this writer.
WriterFails(r) ==
  \/ /\ writer[r].state = "open"
     /\ writer' = [writer EXCEPT ![r] = [state |-> "ended", full |-> FALSE]]
     /\ source' = Failed(source, sockets)
     /\ UNCHANGED <<life, listening, recent, forgotten, next, sockets, cursor, awaited>>
  \/ /\ writer[r].state = "closing"
     /\ WriterClosed(r, Failed(source, sockets))

----------------------------------------------------------------------------
(* The end of the terminal.                                                *)

\* onExit of the channel.
Exit ==
  /\ listening
  /\ life' = IF life = "open" THEN "exited" ELSE life
  /\ listening' = FALSE
  /\ source' = [Stopping(source) EXCEPT !.timer = FALSE]
  /\ writer' = StoppingWriter(source)
  /\ sockets' = [c \in Clients |-> NoSocket]
  /\ cursor' = [c \in Clients |-> 0]
  /\ UNCHANGED <<recent, forgotten, next, awaited>>

\* close(): it waits for a recording that it stops, not for one that is being
\* stopped already.
Close ==
  /\ life \in {"open", "exited"}
  /\ source' = [Stopping(source) EXCEPT !.timer = FALSE]
  /\ writer' = StoppingWriter(source)
  /\ awaited' = source.recording
  /\ IF source.recording = None THEN Finish
     ELSE life' = "closing" /\ UNCHANGED <<listening, sockets, cursor>>
  /\ UNCHANGED <<recent, forgotten, next>>

----------------------------------------------------------------------------
Consume(c) == \E n \in 1 .. PendingMax : Acknowledge(c, n)
Viewer(c) ==
  \/ Attach(c)
  \/ Consume(c)
  \/ Misacknowledge(c)
  \/ Drain(c)
  \/ Detach(c)

Next ==
  \/ \E size \in UNION {Sizes[n] : n \in 1 .. MaxChunks} : Broadcast(size)
  \/ TimerEnds
  \/ \E c \in Clients : Viewer(c)
  \/ \E r \in Recordings :
       \/ StartRecording(r) \/ OpenFails(r) \/ Opened(r)
       \/ Parse(r) \/ WriterFails(r) \/ Stopped(r)
  \/ StopRecording
  \/ Exit
  \/ Close

\* The timer, the parser of a recording and the continuations of closed writers
\* run by themselves; viewers parse what they were sent, networks drain, and a
\* socket that began to close reports it.
Service == \/ TimerEnds
           \/ \E r \in Recordings : Parse(r) \/ Stopped(r)
Viewers == \E c \in Clients :
             Consume(c) \/ Drain(c) \/ (~sockets[c].open /\ Detach(c))

Spec == Init /\ [][Next]_vars
FairSpec == Spec /\ WF_vars(Service) /\ WF_vars(Viewers)

----------------------------------------------------------------------------
(* Properties.                                                             *)

TypeOK ==
  /\ life \in {"open", "exited", "closing", "closed"} /\ listening \in BOOLEAN
  /\ forgotten \in BOOLEAN /\ next \in 1 .. (MaxChunks + 1)
  /\ recent \in Seq([sequence : 1 .. MaxChunks, size : 1 .. RingMax])
  /\ cursor \in [Clients -> 0 .. MaxChunks]
  /\ \A c \in Attached :
       /\ sockets[c].sent \in 0 .. (next - 1) /\ sockets[c].buffered \in 0 .. 2
       /\ Len(sockets[c].window) <= PendingMax
  /\ source.recording \in Recordings \cup {None}
  /\ writer \in [Recordings ->
       [state : {"unused", "opening", "open", "closing", "ended"}, full : BOOLEAN]]
  /\ awaited \in Recordings \cup {None}

\* The recording the terminal writes to has a live writer: no end or failure of
\* another recording leaves output going to a closed file.
RecordingLive ==
  source.recording # None => writer[source.recording].state = "open"

\* The ring holds the last chunks without a hole: the truncation notice of
\* replayToSocket is computed from its first one.
RingContiguous ==
  \A i \in 1 .. Len(recent) : recent[i].sequence = next - 1 - (Len(recent) - i)

\* Every variable has its type, the window keeps its hard limit, the ring has no
\* hole and the terminal records into a live writer.
Consistent == TypeOK /\ RecordingLive /\ RingContiguous

\* The channel is paused exactly while one of its three owners, or a recording
\* that is being stopped, holds it: no owner's release (refreshOutputFlow, the
\* timer, onDrain, onError) lets the channel run while another still holds it,
\* and no pause is left without the one that ends it. The exception is displaced:
\* a recording that takes the place of a slow one (startRecording() twice) leaves
\* that one's pause without an owner, until the channel is next resumed.
OwnerPauses ==
  ~Closed /\ (source.windows \/ source.timer \/ RecordingSlow(source)) => source.paused
Ending == \E r \in Recordings : writer[r].state = "closing" /\ source.slow[r]
PauseHasOwner ==
  ~Closed /\ source.paused /\ ~source.displaced =>
    source.windows \/ source.timer \/ RecordingSlow(source) \/ Ending
PauseOwned == OwnerPauses /\ PauseHasOwner

\* A negotiated viewer's cursor covers no chunk of which a frame is still
\* unconsumed: a client that comes back is replayed all it did not parse.
CursorConsumed ==
  \A c \in Attached : sockets[c].flow =>
    \A i \in 1 .. Len(sockets[c].window) :
      sockets[c].window[i] # 0 => cursor[c] < sockets[c].window[i]

\* docs/architecture/MASTER_SPEC.md:1682: what a replay cannot cover is
\* reported by replay.truncated; no chunk passes a viewer without a notice. It does
\* not hold: see broadcast() between the two water marks, and TimerEnds.
NoSilentLoss == \A c \in Attached : sockets[c].lost = {}

\* OP-03-2026-10-03.md:38: each owner holds its own pause, the channel resumes when
\* all have let go, and the drain, the stop and the error of a recording all go
\* through that decision. So a paused channel has an owner, or a writer that has
\* yet to drain. It does not hold: the writer of a slow recording that a second one
\* displaced drains without that decision, and its pause stays.
PauseReleased ==
  ~Closed /\ source.paused =>
    \/ source.windows \/ source.timer \/ RecordingSlow(source) \/ Ending
    \/ \E r \in Recordings : writer[r].full

\* A pause ends, unless the terminal does: full windows, slow sockets and a
\* recording that starts, falls behind, stops or fails never hold the output for
\* good between them, as long as viewers do not come back for ever. The pause that
\* a slow recording leaves when another takes its place (displaced) is no part of
\* this promise: it may stay, see PauseReleased.
Held == source.paused /\ ~Closed /\ ~source.displaced
PauseEnds == []<>~Held \/ []<><<\E c \in Clients : Attach(c)>>_vars

\* The viewers see what TerminalView promises.
Pos == [c \in Clients |-> IF c \in Attached THEN sockets[c].sent ELSE 0]
Withheld == [c \in Clients |-> IF c \in Attached THEN sockets[c].skipped ELSE {}]
Lost == [c \in Clients |-> IF c \in Attached THEN sockets[c].lost ELSE {}]
View == INSTANCE TerminalView WITH
  length <- next - 1, on <- Attached, pos <- Pos, mark <- cursor,
  held <- Withheld, missing <- Lost
ViewSpec == View!Spec
=============================================================================
