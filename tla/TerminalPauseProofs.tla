------------------------ MODULE TerminalPauseProofs ------------------------
(***************************************************************************)
(* TerminalOutput, first part: who pauses the channel and which writers    *)
(* run, for any viewers, recordings, chunk sizes and limits.               *)
(*                                                                         *)
(* The inductive invariant is Governed. Each operation on the source has a *)
(* lemma that takes a sound source to a sound one (...Fits says what it    *)
(* changes, ...Sound that it stays sound), and GovernedStep has one step   *)
(* for each action.                                                        *)
(***************************************************************************)
EXTENDS TerminalOutput, TLAPS

-----------------------------------------------------------------------------
(* The pause of the channel                                                *)

Sources == [paused : BOOLEAN, timer : BOOLEAN, windows : BOOLEAN, displaced : BOOLEAN,
            recording : Recordings \cup {None}, slow : [Recordings -> BOOLEAN]]
Writers == [state : {"unused", "opening", "open", "closing", "ended"}, full : BOOLEAN]

\* An owner of the pause that can end it.
Wanted(src) == src.windows \/ src.timer \/ RecordingSlow(src)

\* The recording of the terminal is open; only writers that still run are slow, and
\* of the open ones only that one; no owner is without the pause.
Steady(src, wrs, at) ==
  /\ src \in Sources /\ wrs \in [Recordings -> Writers]
  /\ src.recording # None => wrs[src.recording].state = "open"
  /\ \A r \in Recordings : src.slow[r] =>
       \/ wrs[r].state = "closing"
       \/ wrs[r].state = "open" /\ src.recording = r
  /\ at = "open" /\ Wanted(src) => src.paused

\* Nor is the pause without an owner.
Sound(src, wrs, at) ==
  /\ Steady(src, wrs, at)
  /\ at = "open" /\ src.paused /\ ~src.displaced =>
       Wanted(src) \/ \E r \in Recordings : wrs[r].state = "closing" /\ src.slow[r]

Governed ==
  /\ life \in {"open", "exited", "closing", "closed"}
  /\ awaited \in Recordings \cup {None}
  /\ Sound(source, writer, life)

\* What refreshOutputFlow makes of the source, and what it makes of it when another
\* owner of the pause let go.
Reconciled(src, socks, x) ==
  x = Refreshed(src, socks, TRUE) \/ x = Refreshed(src, socks, FALSE)
LetGo(src, socks, x) == x = Refreshed(src, socks, TRUE)
Freed(src, r) == [src EXCEPT !.slow[r] = FALSE]

(* Both are what refreshOutputFlow makes of it.                            *)
LEMMA LetGoReconciles ==
    ASSUME NEW src, NEW socks, NEW x, LetGo(src, socks, x)
    PROVE  Reconciled(src, socks, x)
  BY DEF LetGo, Reconciled

(* refreshOutputFlow moves the windows and the pause only; it lets no owner *)
(* go without a pause, and it keeps a pause without an owner only if it was *)
(* there before.                                                           *)
LEMMA RefreshedFits ==
    ASSUME NEW src \in Sources, NEW socks, NEW x, Reconciled(src, socks, x)
    PROVE  /\ x \in Sources
           /\ x.timer = src.timer /\ x.recording = src.recording /\ x.slow = src.slow
           /\ (x.paused => x.displaced = src.displaced)
           /\ ~Closed /\ Wanted(x) /\ ~x.paused => Wanted(src) /\ ~src.paused
           /\ ~Closed /\ x.paused /\ ~Wanted(x) => src.paused /\ ~Wanted(src)
<1> DEFINE flows == {c \in Clients : socks[c] # NoSocket /\ socks[c].flow}
           windows == \/ \E c \in flows : High(socks[c])
                      \/ src.windows /\ \E c \in flows : ~Low(socks[c])
           resumes(b) == ~windows /\ LetsGo(src.windows, b) /\ MayResume(src)
           paused(b) == IF Closed THEN src.paused
                        ELSE (windows /\ ~src.windows) \/ (src.paused /\ ~resumes(b))
<1>1. PICK p : /\ p = paused(TRUE) \/ p = paused(FALSE)
               /\ x = [src EXCEPT !.windows = windows, !.paused = p, !.displaced = @ /\ p]
  BY DEF Reconciled, Refreshed
<1>2. windows \in BOOLEAN /\ p \in BOOLEAN /\ (src.displaced /\ p) \in BOOLEAN
      /\ (p => (src.displaced /\ p) = src.displaced)
  BY <1>1 DEF Sources
<1>3. ~Closed => /\ p => (windows /\ ~src.windows) \/ src.paused
                 /\ p /\ ~windows /\ src.windows => ~MayResume(src)
                 /\ windows /\ ~src.windows => p
                 /\ src.paused /\ (windows \/ ~MayResume(src)) => p
  BY <1>1 DEF LetsGo
<1> HIDE DEF windows, resumes, paused
<1>5. /\ x \in Sources /\ x.windows = windows /\ x.paused = p
      /\ x.timer = src.timer /\ x.recording = src.recording /\ x.slow = src.slow
      /\ (x.paused => x.displaced = src.displaced)
  BY <1>1, <1>2 DEF Sources
<1>6. RecordingSlow(x) <=> RecordingSlow(src)
  BY <1>5 DEF RecordingSlow
<1>7. ASSUME ~Closed
      PROVE  /\ Wanted(x) /\ ~x.paused => Wanted(src) /\ ~src.paused
             /\ x.paused /\ ~Wanted(x) => src.paused /\ ~Wanted(src)
  BY <1>3, <1>5, <1>6, <1>7 DEF Wanted, MayResume
<1> QED
  BY <1>5, <1>6, <1>7

(* When an owner let go, refreshOutputFlow leaves no pause without an owner. *)
LEMMA ReleasedFits ==
    ASSUME NEW src \in Sources, NEW socks, NEW x, LetGo(src, socks, x), ~Closed
    PROVE  x.paused => Wanted(x)
<1> DEFINE flows == {c \in Clients : socks[c] # NoSocket /\ socks[c].flow}
           windows == \/ \E c \in flows : High(socks[c])
                      \/ src.windows /\ \E c \in flows : ~Low(socks[c])
           resumes == ~windows /\ LetsGo(src.windows, TRUE) /\ MayResume(src)
           paused == (windows /\ ~src.windows) \/ (src.paused /\ ~resumes)
<1>1. x = [src EXCEPT !.windows = windows, !.paused = paused,
             !.displaced = @ /\ paused]
  BY DEF LetGo, Refreshed
<1>2. windows \in BOOLEAN /\ (paused /\ ~windows => ~MayResume(src))
  BY DEF LetsGo, Sources
<1> HIDE DEF windows, resumes, paused
<1>3. /\ x.windows = windows /\ x.paused = paused /\ x.timer = src.timer
      /\ x.recording = src.recording /\ x.slow = src.slow
  BY <1>1 DEF Sources
<1> QED
  BY <1>2, <1>3 DEF Wanted, MayResume, RecordingSlow

(* failRecording: the terminal records no more, and the pause is left to    *)
(* the other owners.                                                       *)
LEMMA FailedFits ==
    ASSUME NEW src \in Sources, None \notin Recordings, NEW socks, NEW x, x = Failed(src, socks)
    PROVE  /\ x \in Sources /\ x.recording = None /\ (x.paused => x.displaced = src.displaced)
           /\ x.timer = src.timer
           /\ \A r \in Recordings : x.slow[r] <=> src.slow[r] /\ r # src.recording
           /\ ~Closed /\ Wanted(x) /\ ~x.paused => Wanted(src) /\ ~src.paused
           /\ ~Closed /\ x.paused /\ ~Wanted(x) => src.paused /\ ~Wanted(src)
<1>1. CASE src.recording = None
  <2>1. x = src
    BY <1>1 DEF Failed
  <2> QED
    BY <1>1, <2>1 DEF Sources
<1>2. CASE src.recording # None
  <2> DEFINE gone == [src EXCEPT !.recording = None, !.slow[src.recording] = FALSE]
  <2>1. /\ gone \in Sources /\ gone.recording = None /\ gone.displaced = src.displaced
        /\ gone.timer = src.timer /\ gone.windows = src.windows /\ gone.paused = src.paused
        /\ gone.slow = [src.slow EXCEPT ![src.recording] = FALSE]
    BY DEF Sources
  <2>2. ~RecordingSlow(gone)
    BY <2>1 DEF RecordingSlow
  <2>3. \A r \in Recordings : gone.slow[r] <=> src.slow[r] /\ r # src.recording
    BY <2>1 DEF Sources
  <2>4. x = IF RecordingSlow(src) THEN Refreshed(gone, socks, TRUE) ELSE gone
    BY <1>2 DEF Failed
  <2> HIDE DEF gone
  <2>5. CASE RecordingSlow(src)
    <3>1. gone \in Sources /\ LetGo(gone, socks, x) /\ Reconciled(gone, socks, x)
      BY <2>1, <2>4, <2>5 DEF LetGo, Reconciled
    <3>2. /\ x \in Sources /\ x.timer = gone.timer /\ x.recording = gone.recording
          /\ x.slow = gone.slow /\ (x.paused => x.displaced = gone.displaced)
      BY <3>1, RefreshedFits
    <3>3. /\ ~Closed /\ Wanted(x) /\ ~x.paused => Wanted(gone) /\ ~gone.paused
          /\ ~Closed /\ x.paused => Wanted(x)
      BY <3>1, RefreshedFits, ReleasedFits
    <3> QED
      BY <2>1, <2>2, <2>3, <3>2, <3>3 DEF Wanted
  <2>6. CASE ~RecordingSlow(src)
    BY <2>1, <2>2, <2>3, <2>4, <2>6 DEF Wanted
  <2> QED
    BY <2>5, <2>6
<1> QED
  BY <1>1, <1>2

(* Refreshing keeps the source sound.                                      *)
LEMMA RefreshedSound ==
    ASSUME NEW src, NEW wrs, Sound(src, wrs, life), NEW socks, NEW x, Reconciled(src, socks, x)
    PROVE  Sound(x, wrs, life)
<1>1. src \in Sources
  BY DEF Sound, Steady
<1>2. /\ x \in Sources /\ x.timer = src.timer /\ x.recording = src.recording
      /\ x.slow = src.slow /\ (x.paused => x.displaced = src.displaced)
  BY <1>1, RefreshedFits
<1>3. /\ life = "open" /\ Wanted(x) /\ ~x.paused => Wanted(src) /\ ~src.paused
      /\ life = "open" /\ x.paused /\ ~Wanted(x) => src.paused /\ ~Wanted(src)
  BY <1>1, RefreshedFits DEF Closed
<1> QED
  BY <1>2, <1>3 DEF Sound, Steady

(* When an owner let go, refreshing leaves no pause without an owner.       *)
LEMMA ReleasedSound ==
    ASSUME NEW src, NEW wrs, Steady(src, wrs, life), NEW socks, NEW x, LetGo(src, socks, x)
    PROVE  Sound(x, wrs, life)
<1>1. src \in Sources /\ Reconciled(src, socks, x)
  BY LetGoReconciles DEF Steady
<1>2. /\ x \in Sources /\ x.timer = src.timer /\ x.recording = src.recording
      /\ x.slow = src.slow /\ (x.paused => x.displaced = src.displaced)
  BY <1>1, RefreshedFits
<1>3. ~Closed /\ Wanted(x) /\ ~x.paused => Wanted(src) /\ ~src.paused
  BY <1>1, RefreshedFits
<1>4. ~Closed /\ x.paused => Wanted(x)
  BY <1>1, ReleasedFits
<1> QED
  BY <1>2, <1>3, <1>4 DEF Sound, Steady, Closed

(* A failed recording leaves a sound source.                               *)
LEMMA FailedSound ==
    ASSUME NEW src, NEW wrs, Sound(src, wrs, life), NEW socks, NEW x, x = Failed(src, socks)
    PROVE  Sound(x, wrs, life)
<1>1. src \in Sources /\ None \notin Recordings
  BY OutputAssumption DEF Sound, Steady
<1>2. /\ x \in Sources /\ x.recording = None /\ (x.paused => x.displaced = src.displaced)
      /\ \A r \in Recordings : x.slow[r] <=> src.slow[r] /\ r # src.recording
  BY <1>1, FailedFits
<1>3. /\ life = "open" /\ Wanted(x) /\ ~x.paused => Wanted(src) /\ ~src.paused
      /\ life = "open" /\ x.paused /\ ~Wanted(x) => src.paused /\ ~Wanted(src)
  BY <1>1, FailedFits DEF Closed
<1>4. \A r \in Recordings : wrs[r].state = "closing" => r # src.recording
  BY <1>1 DEF Sound, Steady
<1> QED
  BY <1>2, <1>3, <1>4 DEF Sound, Steady

(* A writer that is not slow and that the terminal does not record into may *)
(* become anything.                                                        *)
LEMMA WriterSound ==
    ASSUME NEW src, NEW wrs, NEW at, Sound(src, wrs, at), NEW r \in Recordings, NEW v \in Writers,
           src.recording # r, ~src.slow[r]
    PROVE  Sound(src, [wrs EXCEPT ![r] = v], at)
<1> DEFINE w == [wrs EXCEPT ![r] = v]
<1>1. /\ w \in [Recordings -> Writers] /\ w[r] = v
      /\ \A q \in Recordings \ {r} : w[q] = wrs[q]
  BY DEF Sound, Steady
<1> HIDE DEF w
<1>2. src \in Sources /\ src.recording \in Recordings \cup {None}
  BY DEF Sound, Steady, Sources
<1>3. src.recording # None => w[src.recording].state = "open"
  BY <1>1, <1>2 DEF Sound, Steady
<1>4. \A q \in Recordings : src.slow[q] =>
        w[q].state = "closing" \/ (w[q].state = "open" /\ src.recording = q)
  <2>1. ASSUME NEW q \in Recordings \ {r}, src.slow[q]
        PROVE  w[q].state = "closing" \/ (w[q].state = "open" /\ src.recording = q)
    BY <1>1, <2>1 DEF Sound, Steady
  <2> QED
    BY <2>1
<1>5. (\E q \in Recordings : wrs[q].state = "closing" /\ src.slow[q]) =>
        \E q \in Recordings : w[q].state = "closing" /\ src.slow[q]
  BY <1>1
<1>6. Sound(src, w, at)
  BY <1>1, <1>2, <1>3, <1>4, <1>5 DEF Sound, Steady
<1> QED
  BY <1>6 DEF w

(* So may a writer whose state stays.                                      *)
LEMMA FullSound ==
    ASSUME NEW src, NEW wrs, NEW at, Sound(src, wrs, at), NEW r \in Recordings, NEW v \in Writers,
           v.state = wrs[r].state
    PROVE  Sound(src, [wrs EXCEPT ![r] = v], at)
<1> DEFINE w == [wrs EXCEPT ![r] = v]
<1>1. w \in [Recordings -> Writers] /\ \A q \in Recordings : w[q].state = wrs[q].state
  BY DEF Sound, Steady
<1> HIDE DEF w
<1>2. src \in Sources /\ src.recording \in Recordings \cup {None}
  BY DEF Sound, Steady, Sources
<1>3. Sound(src, w, at)
  BY <1>1, <1>2 DEF Sound, Steady
<1> QED
  BY <1>3 DEF w

(* recordOutput leaves a sound source.                                     *)
LEMMA RecordSound ==
    ASSUME Sound(source, writer, life), NEW result \in RecordOutput(source)
    PROVE  Sound(result.source, result.writer, life)
<1>1. CASE source.recording = None
  BY <1>1 DEF RecordOutput
<1>2. CASE source.recording # None
  <2> DEFINE r == source.recording
             slow == [source EXCEPT !.slow[r] = TRUE, !.paused = @ \/ ~source.slow[r]]
             fine == [state |-> "open", full |-> FALSE]
             full == [state |-> "open", full |-> TRUE]
             over == [state |-> "ended", full |-> FALSE]
  <2>1. /\ r \in Recordings /\ source \in Sources /\ writer \in [Recordings -> Writers]
        /\ writer[r].state = "open"
    BY <1>2 DEF Sound, Steady, Sources
  <2>2. \/ result = [source |-> source, writer |-> [writer EXCEPT ![r] = fine]]
        \/ result = [source |-> slow, writer |-> [writer EXCEPT ![r] = full]]
        \/ result = [source |-> Failed(source, sockets), writer |-> [writer EXCEPT ![r] = over]]
    BY <1>2 DEF RecordOutput
  <2>3. /\ fine \in Writers /\ full \in Writers /\ over \in Writers
        /\ fine.state = writer[r].state /\ full.state = writer[r].state
    BY <2>1 DEF Writers
  <2> HIDE DEF fine, full, over
  <2>4. Sound(slow, writer, life)
    <3>1. /\ slow \in Sources /\ slow.timer = source.timer /\ slow.windows = source.windows
          /\ slow.displaced = source.displaced /\ slow.recording = source.recording
          /\ slow.paused = (source.paused \/ ~source.slow[r])
          /\ slow.slow[r] /\ \A q \in Recordings \ {r} : slow.slow[q] = source.slow[q]
      BY <2>1 DEF Sources
    <3> HIDE DEF slow
    <3>2. RecordingSlow(slow)
      BY <1>2, <3>1 DEF RecordingSlow
    <3>3. source.slow[r] => RecordingSlow(source)
      BY <1>2 DEF RecordingSlow
    <3> QED
      BY <2>1, <3>1, <3>2, <3>3 DEF Sound, Steady, Wanted
  <2> HIDE DEF slow
  <2>5. CASE result = [source |-> source, writer |-> [writer EXCEPT ![r] = fine]]
    BY <2>1, <2>3, <2>5, FullSound
  <2>6. CASE result = [source |-> slow, writer |-> [writer EXCEPT ![r] = full]]
    BY <2>1, <2>3, <2>4, <2>6, FullSound
  <2>7. CASE result = [source |-> Failed(source, sockets), writer |-> [writer EXCEPT ![r] = over]]
    <3> DEFINE f == Failed(source, sockets)
    <3>1. Sound(f, writer, life)
      BY FailedSound
    <3>2. f.recording # r /\ ~f.slow[r]
      BY <1>2, <2>1, OutputAssumption, FailedFits
    <3> HIDE DEF f
    <3>3. Sound(f, [writer EXCEPT ![r] = over], life)
      BY <2>1, <2>3, <3>1, <3>2, WriterSound
    <3> QED
      BY <2>7, <3>3 DEF f
  <2> QED
    BY <2>2, <2>5, <2>6, <2>7
<1> QED
  BY <1>1, <1>2

(* broadcast() watches the slow sockets with the timer.                    *)
LEMMA WatchedSound ==
    ASSUME NEW src, NEW wrs, NEW at, Sound(src, wrs, at), NEW congested \in BOOLEAN, NEW x,
           x = [src EXCEPT !.timer = @ \/ congested, !.paused = @ \/ (congested /\ ~src.timer)]
    PROVE  Sound(x, wrs, at)
<1>1. /\ x \in Sources /\ x.windows = src.windows /\ x.recording = src.recording
      /\ x.slow = src.slow /\ x.displaced = src.displaced
      /\ x.timer <=> src.timer \/ congested
      /\ x.paused <=> src.paused \/ (congested /\ ~src.timer)
  BY DEF Sound, Steady, Sources
<1>2. RecordingSlow(x) <=> RecordingSlow(src)
  BY <1>1 DEF RecordingSlow
<1> QED
  BY <1>1, <1>2 DEF Sound, Steady, Wanted

(* stopManagedRecording hands the pause of the recording to its closing writer. *)
LEMMA StoppedSound ==
    ASSUME Sound(source, writer, life)
    PROVE  Sound(Stopping(source), StoppingWriter(source), life)
<1>1. CASE source.recording = None
  <2>1. Stopping(source) = source /\ StoppingWriter(source) = writer
    BY <1>1 DEF Stopping, StoppingWriter, Sound, Steady, Sources
  <2> QED
    BY <2>1
<1>2. CASE source.recording # None
  <2> DEFINE r == source.recording
             x == Stopping(source)
             w == StoppingWriter(source)
  <2>1. r \in Recordings /\ source \in Sources /\ writer[r].state = "open"
    BY <1>2 DEF Sound, Steady, Sources
  <2>2. /\ x \in Sources /\ x.recording = None /\ x.windows = source.windows
        /\ x.slow = source.slow /\ x.displaced = source.displaced
        /\ x.timer = source.timer /\ x.paused = source.paused
    BY DEF Stopping, Sound, Steady, Sources
  <2>3. /\ w \in [Recordings -> Writers] /\ w[r].state = "closing"
        /\ \A q \in Recordings \ {r} : w[q] = writer[q]
    BY <1>2, <2>1 DEF StoppingWriter, Sound, Steady, Writers
  <2> HIDE DEF x, w
  <2>4. ~RecordingSlow(x)
    BY <2>2 DEF RecordingSlow
  <2>5. RecordingSlow(source) => x.slow[r] /\ w[r].state = "closing"
    BY <2>2, <2>3 DEF RecordingSlow
  <2>6. \A q \in Recordings : x.slow[q] => w[q].state = "closing"
    BY <2>2, <2>3 DEF Sound, Steady
  <2>7. life = "open" /\ Wanted(x) => x.paused
    BY <2>2, <2>4 DEF Sound, Steady, Wanted
  <2>8. ASSUME life = "open", x.paused, ~x.displaced
        PROVE  Wanted(x) \/ \E q \in Recordings : w[q].state = "closing" /\ x.slow[q]
    <3>1. CASE Wanted(source)
      BY <2>1, <2>2, <2>5, <3>1 DEF Wanted
    <3>2. CASE \E q \in Recordings : writer[q].state = "closing" /\ source.slow[q]
      BY <2>2, <2>6, <3>2
    <3> QED
      BY <2>2, <2>8, <3>1, <3>2 DEF Sound, Steady
  <2>9. Sound(x, w, life)
    BY <2>2, <2>3, <2>6, <2>7, <2>8 DEF Sound, Steady
  <2> QED
    BY <2>9 DEF x, w
<1> QED
  BY <1>1, <1>2

(* The end of a closing writer ends the pause that it owned.                *)
LEMMA ClosedSound ==
    ASSUME NEW src, Sound(src, writer, life), NEW r \in Recordings, writer[r].state = "closing",
           NEW v \in Writers, NEW x,
           IF src.slow[r] THEN LetGo(Freed(src, r), sockets, x) ELSE x = Freed(src, r)
    PROVE  Sound(x, [writer EXCEPT ![r] = v], life)
<1> DEFINE freed == Freed(src, r)
<1>1. src \in Sources /\ src.recording # r
  BY OutputAssumption DEF Sound, Steady
<1>2. /\ freed \in Sources /\ freed.recording = src.recording /\ freed.windows = src.windows
      /\ freed.timer = src.timer /\ freed.paused = src.paused
      /\ freed.displaced = src.displaced
      /\ \A q \in Recordings : freed.slow[q] <=> src.slow[q] /\ q # r
  BY <1>1 DEF Sources, Freed
<1>3. IF src.slow[r] THEN LetGo(freed, sockets, x) ELSE x = freed
  OBVIOUS
<1> HIDE DEF freed
<1>4. RecordingSlow(freed) <=> RecordingSlow(src)
  BY <1>1, <1>2 DEF RecordingSlow, Sources
<1>0. freed \in Sources
  BY <1>2
<1>5. CASE ~src.slow[r]
  <2>1. x = freed /\ \A q \in Recordings : freed.slow[q] <=> src.slow[q]
    BY <1>2, <1>3, <1>5
  <2>2. Sound(freed, writer, life)
    BY <1>2, <1>4, <2>1 DEF Sound, Steady, Wanted
  <2> QED
    BY <1>1, <1>2, <2>1, <2>2, WriterSound
<1>6. CASE src.slow[r]
  <2>1. LetGo(freed, sockets, x) /\ Reconciled(freed, sockets, x)
    BY <1>3, <1>6, LetGoReconciles
  <2>2. Steady(freed, writer, life)
    BY <1>2, <1>4 DEF Sound, Steady, Wanted
  <2>3. /\ x.recording = freed.recording /\ x.slow = freed.slow
    BY <1>0, <2>1, RefreshedFits
  <2>5. Sound(x, writer, life)
    BY <2>1, <2>2, ReleasedSound
  <2>6. x.recording # r /\ ~x.slow[r]
    BY <1>1, <1>2, <2>3
  <2> QED
    BY <2>5, <2>6, WriterSound
<1> QED
  BY <1>5, <1>6

(* onDrain of a writer releases the recording of the terminal.             *)
LEMMA DrainedSound ==
    ASSUME Sound(source, writer, life), RecordingSlow(source), NEW x,
           LetGo(Freed(source, source.recording), sockets, x)
    PROVE  Sound(x, writer, life)
<1> DEFINE freed == Freed(source, source.recording)
<1>1. source \in Sources
  BY DEF Sound, Steady
<1>2. /\ freed \in Sources /\ freed.recording = source.recording
      /\ freed.windows = source.windows /\ freed.timer = source.timer
      /\ freed.paused = source.paused /\ freed.displaced = source.displaced
      /\ \A q \in Recordings : freed.slow[q] <=> source.slow[q] /\ q # source.recording
  BY <1>1 DEF Sources, Freed
<1> HIDE DEF freed
<1>3. Steady(freed, writer, life)
  BY <1>2 DEF Sound, Steady, Wanted
<1> QED
  BY <1>3, ReleasedSound DEF freed

(* startRecording() goes on when the file is open.                         *)
LEMMA OpenedSound ==
    ASSUME Governed, NEW r \in Recordings, Opened(r)
    PROVE  Sound(source', writer', life)
<1> DEFINE x == [source EXCEPT !.recording = r,
                   !.slow = [q \in Recordings |-> q # source.recording /\ @[q]],
                   !.displaced = @ \/ RecordingSlow(source)]
<1>1. /\ source \in Sources /\ writer \in [Recordings -> Writers]
      /\ writer[r].state = "opening" /\ ~source.slow[r]
      /\ source.recording \in Recordings \cup {None} /\ None \notin Recordings
  BY OutputAssumption DEF Governed, Sound, Steady, Sources, Opened
<1>2. /\ x \in Sources /\ x.recording = r /\ x.windows = source.windows
      /\ x.timer = source.timer /\ x.paused = source.paused
      /\ x.displaced <=> source.displaced \/ RecordingSlow(source)
      /\ \A q \in Recordings : x.slow[q] <=> source.slow[q] /\ q # source.recording
  BY <1>1 DEF Sources
<1>3. PICK full \in BOOLEAN :
        /\ writer' = [writer EXCEPT ![r] = [state |-> "open", full |-> full]]
        /\ source' = IF full THEN [x EXCEPT !.slow[r] = TRUE, !.paused = TRUE] ELSE x
  BY DEF Opened
<1> HIDE DEF x
<1>4. /\ writer' \in [Recordings -> Writers] /\ writer'[r].state = "open"
      /\ \A q \in Recordings \ {r} : writer'[q] = writer[q]
  BY <1>1, <1>3 DEF Writers
<1>5. \A q \in Recordings \ {r} : x.slow[q] => writer[q].state = "closing"
  BY <1>1, <1>2 DEF Governed, Sound, Steady
<1>6. RecordingSlow(source) \in BOOLEAN
  BY <1>1 DEF RecordingSlow, Sources
<1>7. CASE full
  <2>1. /\ source' \in Sources /\ source'.recording = r /\ source'.slow[r] /\ source'.paused
        /\ \A q \in Recordings \ {r} : source'.slow[q] = x.slow[q]
    BY <1>2, <1>3, <1>7 DEF Sources
  <2>2. RecordingSlow(source')
    BY <1>1, <2>1 DEF RecordingSlow
  <2>3. /\ \A q \in Recordings : source'.slow[q] => writer'[q].state = "closing" \/ q = r
        /\ Wanted(source')
    BY <1>4, <1>5, <2>1, <2>2 DEF Wanted
  <2> QED
    BY <1>4, <2>1, <2>3 DEF Sound, Steady
<1>8. CASE ~full
  <2>1. source' = x
    BY <1>3, <1>8
  <2>2. ~x.slow[r] /\ ~RecordingSlow(x)
    BY <1>1, <1>2 DEF RecordingSlow
  <2>3. \A q \in Recordings : x.slow[q] => writer'[q].state = "closing"
    BY <1>4, <1>5, <2>2
  <2>4. life = "open" /\ Wanted(x) => x.paused
    BY <1>2, <2>2 DEF Governed, Sound, Steady, Wanted
  <2>5. ASSUME life = "open", x.paused, ~x.displaced
        PROVE  Wanted(x) \/ \E q \in Recordings : writer'[q].state = "closing" /\ x.slow[q]
    <3>1. source.paused /\ ~source.displaced /\ ~RecordingSlow(source)
      BY <1>2, <2>5
    <3>2. CASE Wanted(source)
      BY <1>2, <3>1, <3>2 DEF Wanted
    <3>3. CASE \E q \in Recordings : writer[q].state = "closing" /\ source.slow[q]
      BY <1>1, <1>2, <1>4, <3>3 DEF Governed, Sound, Steady
    <3> QED
      BY <2>5, <3>1, <3>2, <3>3 DEF Governed, Sound, Steady
  <2> QED
    BY <1>2, <1>4, <2>1, <2>3, <2>4, <2>5 DEF Sound, Steady
<1> QED
  BY <1>7, <1>8

(* The timer of broadcast() lets go of the pause.                          *)
LEMMA TimerSound ==
    ASSUME Sound(source, writer, life), TimerEnds
    PROVE  Sound(source', writer, life)
<1> DEFINE src == [source EXCEPT !.timer = FALSE]
<1>1. source \in Sources
  BY DEF Sound, Steady
<1>2. /\ src \in Sources /\ src.recording = source.recording /\ ~src.timer
      /\ src.windows = source.windows /\ src.slow = source.slow
      /\ src.paused = source.paused /\ src.displaced = source.displaced
  BY <1>1 DEF Sources
<1>3. \/ (Closed \/ RecordingSlow(source)) /\ source' = src
      \/ \E socks : LetGo(src, socks, source')
  BY DEF TimerEnds, LetGo
<1> HIDE DEF src
<1>4. RecordingSlow(src) <=> RecordingSlow(source)
  BY <1>2 DEF RecordingSlow
<1>5. Steady(src, writer, life)
  BY <1>2, <1>4 DEF Sound, Steady, Wanted
<1>6. CASE (Closed \/ RecordingSlow(source)) /\ source' = src
  BY <1>2, <1>4, <1>5, <1>6 DEF Sound, Wanted, Closed
<1>7. CASE \E socks : LetGo(src, socks, source')
  BY <1>5, <1>7, ReleasedSound
<1> QED
  BY <1>3, <1>6, <1>7

(* broadcast() records, watches and refreshes.                             *)
LEMMA BroadcastSound ==
    ASSUME Sound(source, writer, life), NEW size, Broadcast(size)
    PROVE  Sound(source', writer', life)
<1> DEFINE congested == \E c \in Attached : sockets[c].open /\ sockets[c].buffered = 2
           Watched(src) == [src EXCEPT !.timer = @ \/ congested,
                              !.paused = @ \/ (congested /\ ~src.timer)]
<1>1. PICK result \in RecordOutput(source) :
        /\ \E socks : source' = Refreshed(Watched(result.source), socks, FALSE)
        /\ writer' = result.writer
  BY DEF Broadcast
<1>2. congested \in BOOLEAN
  OBVIOUS
<1>3. PICK socks : Reconciled(Watched(result.source), socks, source')
  BY <1>1 DEF Reconciled
<1> HIDE DEF congested
<1>4. Sound(result.source, writer', life)
  BY <1>1, RecordSound
<1>5. Sound(Watched(result.source), writer', life)
  BY <1>2, <1>4, WatchedSound
<1> HIDE DEF Watched
<1> QED
  BY <1>3, <1>5, RefreshedSound

(* The end of the terminal: nobody is paused any more.                     *)
LEMMA EndedSound ==
    ASSUME NEW src, NEW wrs, NEW at, Sound(src, wrs, at), NEW to, to # "open"
    PROVE  Sound(src, wrs, to) /\ Sound([src EXCEPT !.timer = FALSE], wrs, to)
<1>1. [src EXCEPT !.timer = FALSE] \in Sources
  BY DEF Sound, Steady, Sources
<1>2. /\ [src EXCEPT !.timer = FALSE].slow = src.slow
      /\ [src EXCEPT !.timer = FALSE].recording = src.recording
  BY DEF Sound, Steady, Sources
<1> QED
  BY <1>1, <1>2 DEF Sound, Steady

(* Every step keeps the terminal's source governed.                        *)
LEMMA GovernedStep ==
    ASSUME Governed, [Next]_vars
    PROVE  Governed'
<1> DEFINE Lives == {"open", "exited", "closing", "closed"}
           Waits == Recordings \cup {None}
<1>1. Sound(source, writer, life) /\ life \in Lives /\ awaited \in Waits
  BY DEF Governed
<1>2. /\ source \in Sources /\ writer \in [Recordings -> Writers]
      /\ source.recording \in Recordings \cup {None} /\ None \notin Recordings
  BY <1>1, OutputAssumption DEF Sound, Steady, Sources
<1>s. ASSUME Sound(source', writer', life), life' = life, awaited' = awaited
      PROVE  Governed'
  BY <1>s, <1>1 DEF Governed
<1>3. ASSUME NEW size, Broadcast(size) PROVE Governed'
  BY <1>1, <1>3, <1>s, BroadcastSound DEF Broadcast
<1>4. CASE TimerEnds
  <2>1. writer' = writer /\ life' = life /\ awaited' = awaited
    BY <1>4 DEF TimerEnds
  <2> QED
    BY <1>1, <1>4, <1>s, <2>1, TimerSound
<1>5. ASSUME NEW c \in Clients, Viewer(c) PROVE Governed'
  <2>1. writer' = writer /\ life' = life /\ awaited' = awaited
    BY <1>5 DEF Viewer, Attach, Consume, Acknowledge, Misacknowledge, Drain, Detach
  <2>2. source' = source \/ \E socks : Reconciled(source, socks, source')
    BY <1>5 DEF Viewer, Attach, Consume, Acknowledge, Misacknowledge, Drain, Detach, Reconciled
  <2>3. Sound(source', writer, life)
    BY <1>1, <2>2, RefreshedSound
  <2> QED
    BY <1>s, <2>1, <2>3
<1>6. ASSUME NEW r \in Recordings, NEW v \in {"opening", "ended"},
             writer[r].state \in {"unused", "opening"}, writer' = [writer EXCEPT ![r].state = v],
             UNCHANGED <<source, life, awaited>>
      PROVE  Governed'
  <2> DEFINE w == [writer[r] EXCEPT !.state = v]
  <2>1. w \in Writers /\ writer' = [writer EXCEPT ![r] = w]
    BY <1>2, <1>6 DEF Writers
  <2> HIDE DEF w
  <2>2. source.recording # r /\ ~source.slow[r]
    BY <1>1, <1>2, <1>6 DEF Sound, Steady
  <2>3. Sound(source, [writer EXCEPT ![r] = w], life)
    BY <1>1, <2>1, <2>2, WriterSound
  <2> QED
    BY <1>6, <1>s, <2>1, <2>3
<1>7. ASSUME NEW r \in Recordings, StartRecording(r) \/ OpenFails(r) PROVE Governed'
  BY <1>6, <1>7 DEF StartRecording, OpenFails
<1>8. ASSUME NEW r \in Recordings, Opened(r) PROVE Governed'
  BY <1>8, <1>s, OpenedSound DEF Opened
<1>9. ASSUME NEW r \in Recordings, Parse(r) PROVE Governed'
  <2> DEFINE w == [writer[r] EXCEPT !.full = FALSE]
  <2>1. w \in Writers /\ w.state = writer[r].state /\ writer' = [writer EXCEPT ![r] = w]
    BY <1>2, <1>9 DEF Parse, Writers
  <2>2. IF RecordingSlow(source) THEN LetGo(Freed(source, source.recording), sockets, source')
        ELSE source' = source
    BY <1>9 DEF Parse, LetGo, Freed
  <2> HIDE DEF w
  <2>3. Sound(source', writer, life)
    BY <1>1, <2>2, DrainedSound
  <2>4. Sound(source', [writer EXCEPT ![r] = w], life)
    BY <2>1, <2>3, FullSound
  <2> QED
    BY <1>9, <1>s, <2>1, <2>4 DEF Parse
<1>10. ASSUME NEW r \in Recordings, NEW src, Sound(src, writer, life),
              writer[r].state = "closing", WriterClosed(r, src)
       PROVE  Governed'
  <2> DEFINE v == [state |-> "ended", full |-> FALSE]
  <2>1. v \in Writers /\ writer' = [writer EXCEPT ![r] = v]
    BY <1>10 DEF WriterClosed, Writers
  <2>2. IF src.slow[r] THEN LetGo(Freed(src, r), sockets, source') ELSE source' = Freed(src, r)
    BY <1>10 DEF WriterClosed, LetGo, Freed
  <2> HIDE DEF v
  <2>3. Sound(source', writer', life)
    BY <1>10, <2>1, <2>2, ClosedSound
  <2>4. awaited' = awaited /\ (life' = life \/ life' = "closed")
    BY <1>10 DEF WriterClosed, Finish
  <2>5. CASE life' = life
    BY <1>s, <2>3, <2>4, <2>5
  <2>6. CASE life' = "closed"
    BY <1>1, <2>3, <2>4, <2>6, EndedSound DEF Governed
  <2> QED
    BY <2>4, <2>5, <2>6
<1>11. ASSUME NEW r \in Recordings, Stopped(r) PROVE Governed'
  BY <1>1, <1>10, <1>11 DEF Stopped
<1>12. ASSUME NEW r \in Recordings, WriterFails(r) PROVE Governed'
  <2> DEFINE f == Failed(source, sockets)
             v == [state |-> "ended", full |-> FALSE]
  <2>1. Sound(f, writer, life)
    BY <1>1, FailedSound
  <2>2. /\ f.recording = None
        /\ \A q \in Recordings : f.slow[q] <=> source.slow[q] /\ q # source.recording
    BY <1>2, FailedFits
  <2>3. CASE /\ writer[r].state = "open" /\ writer' = [writer EXCEPT ![r] = v] /\ source' = f
             /\ UNCHANGED <<life, awaited>>
    <3>1. f.recording # r /\ ~f.slow[r]
      BY <1>1, <1>2, <2>2, <2>3 DEF Sound, Steady
    <3>2. v \in Writers
      BY DEF Writers
    <3> HIDE DEF f, v
    <3>3. Sound(f, [writer EXCEPT ![r] = v], life)
      BY <2>1, <3>1, <3>2, WriterSound
    <3> QED
      BY <1>s, <2>3, <3>3
  <2>4. CASE writer[r].state = "closing" /\ WriterClosed(r, f)
    BY <1>10, <2>1, <2>4
  <2> QED
    BY <1>12, <2>3, <2>4 DEF WriterFails
<1>13. CASE StopRecording
  BY <1>1, <1>13, <1>s, StoppedSound DEF StopRecording
<1>14. CASE Exit \/ Close
  <2>1. /\ source' = [Stopping(source) EXCEPT !.timer = FALSE] /\ writer' = StoppingWriter(source)
        /\ life' \in Lives \ {"open"} /\ awaited' \in Waits
    BY <1>1, <1>2, <1>14 DEF Exit, Close, Finish
  <2> DEFINE x == Stopping(source)
             w == StoppingWriter(source)
  <2>2. Sound(x, w, life)
    BY <1>1, StoppedSound
  <2> HIDE DEF x, w
  <2>3. Sound([x EXCEPT !.timer = FALSE], w, life')
    BY <2>1, <2>2, EndedSound
  <2> QED
    BY <2>1, <2>3 DEF Governed, x, w
<1>15. CASE UNCHANGED vars
  BY <1>1, <1>15, <1>s DEF vars
<1> QED
  BY <1>3, <1>4, <1>5, <1>7, <1>8, <1>9, <1>11, <1>12, <1>13, <1>14, <1>15 DEF Next

(* The terminal starts governed.                                           *)
LEMMA GovernedInit == Init => Governed
<1> SUFFICES ASSUME Init PROVE Governed
  OBVIOUS
<1>1. source \in Sources /\ writer \in [Recordings -> Writers]
  BY DEF Init, Sources, Writers
<1>2. ~RecordingSlow(source)
  BY DEF Init, RecordingSlow
<1> QED
  BY <1>1, <1>2 DEF Init, Governed, Sound, Steady, Wanted

(* The source, the pause and the writers of the recordings agree.          *)
THEOREM Governing == Spec => []Governed
<1>1. Governed /\ [Next]_vars => Governed'
  BY GovernedStep
<1> QED
  BY <1>1, GovernedInit, PTL DEF Spec

(* The channel is paused exactly while one of its three owners, or a       *)
(* recording that is being stopped, holds it.                              *)
THEOREM PausesHaveOwners == Spec => []PauseOwned
<1>1. Governed => PauseOwned
  BY DEF Governed, Sound, Steady, PauseOwned, OwnerPauses, PauseHasOwner, Ending, Wanted, Closed
<1> QED
  BY <1>1, Governing, PTL
=============================================================================
