------------------------ MODULE TerminalOutputProofs ------------------------
(***************************************************************************)
(* TerminalOutput, second part: what the viewers are sent, for any viewers, *)
(* recordings, chunk sizes and limits.                                     *)
(*                                                                         *)
(* The inductive invariant is Delivered. The lemmas about one viewer are   *)
(* about values: what sending, replaying, acknowledging makes of a socket. *)
(* The replay goes through the ring chunk by chunk; it is followed by      *)
(* induction over the chunks it has passed, a set of naturals without a    *)
(* least counterexample (NatSets). A step of the terminal then is: every   *)
(* client Follows, which keeps Delivered and is a step of TerminalView.    *)
(***************************************************************************)
EXTENDS TerminalPauseProofs, WellFoundedInduction

-----------------------------------------------------------------------------
(* The ring and the replay                                                 *)

Chunks == [sequence : 1 .. MaxChunks, size : 1 .. RingMax]
Delivery == [sequence : 1 .. MaxChunks, size : Nat \ {0}]
Contiguous(ring, last) ==
  \A i \in 1 .. Len(ring) : ring[i].sequence = last - (Len(ring) - i)

(* Induction: a set of naturals that holds 0 and with each number the next. *)
LEMMA NatSets ==
    ASSUME NEW S \in SUBSET Nat, 0 \in S, \A n \in S : n + 1 \in S
    PROVE  S = Nat
<1> DEFINE R == {ss \in Nat \X Nat : ss[1] < ss[2]}
<1>1. IsWellFoundedOn(R, Nat)
  BY NatLessThanWellFounded DEF OpToRel
<1>2. SUFFICES ASSUME Nat \ S # {} PROVE FALSE
  OBVIOUS
<1> HIDE DEF R
<1>3. PICK x \in Nat \ S : \A y \in Nat \ S : ~(<<y, x>> \in R)
  BY <1>1, <1>2, WFMin
<1>4. x - 1 \in Nat \ S
  BY <1>3
<1>5. <<x - 1, x>> \in R
  BY <1>3, <1>4 DEF R
<1> QED
  BY <1>3, <1>4, <1>5

(* A set of naturals that is not empty has a least member.                 *)
LEMMA LeastMember ==
    ASSUME NEW S \in SUBSET Nat, S # {}
    PROVE  \E least \in S : \A n \in S : least <= n
<1> DEFINE R == {ss \in Nat \X Nat : ss[1] < ss[2]}
<1>1. IsWellFoundedOn(R, Nat)
  BY NatLessThanWellFounded DEF OpToRel
<1> HIDE DEF R
<1>2. PICK x \in S : \A y \in S : ~(<<y, x>> \in R)
  BY <1>1, WFMin
<1>3. ASSUME NEW y \in S PROVE x <= y
  <2>1. ~(<<y, x>> \in R)
    BY <1>2
  <2> QED
    BY <2>1 DEF R
<1> QED
  BY <1>3

(* What one chunk weighs.                                                  *)
LEMMA OneChunk ==
    ASSUME NEW s, Len(s) = 1
    PROVE  Total(s) = 0 + s[1].size
<1> DEFINE f == CHOOSE sum : sum = [i \in 0 .. Len(s) |->
                                      IF i = 0 THEN 0 ELSE sum[i - 1] + s[i].size]
           g == [i \in 0 .. Len(s) |-> IF i = 0 THEN 0 ELSE 0 + s[1].size]
<1>1. g = [i \in 0 .. Len(s) |-> IF i = 0 THEN 0 ELSE g[i - 1] + s[i].size]
  OBVIOUS
<1>2. f = [i \in 0 .. Len(s) |-> IF i = 0 THEN 0 ELSE f[i - 1] + s[i].size]
  <2> HIDE DEF g
  <2> QED
    BY <1>1
<1>3. Total(s) = f[Len(s)]
  BY DEF Total
<1> HIDE DEF f
<1> QED
  BY <1>2, <1>3

(* remember keeps the end of the log: the new chunk, and the last of the   *)
(* chunks before it.                                                       *)
LEMMA RingKeeps ==
    ASSUME recent \in Seq(Chunks), NEW chunk \in Delivery, chunk.size <= RingMax
    PROVE  \E i \in 1 .. (Len(recent) + 1) :
             Ring(chunk) = SubSeq(Append(recent, chunk), i, Len(recent) + 1)
<1> DEFINE all == Append(recent, chunk)
           From(i) == SubSeq(all, i, Len(all))
           Fits(i) == Total(From(i)) <= RingMax
           S == {i \in 1 .. Len(all) : Fits(i)}
           Least(i) == Fits(i) /\ \A j \in 1 .. (i - 1) : ~Fits(j)
<1>1. Len(all) = Len(recent) + 1 /\ Len(recent) \in Nat
  OBVIOUS
<1>2. Len(From(Len(all))) = 1 /\ From(Len(all))[1] = chunk
  OBVIOUS
<1>3. Fits(Len(all))
  <2>1. Total(From(Len(all))) = 0 + chunk.size
    BY <1>2, OneChunk
  <2>2. 0 + chunk.size <= RingMax
    BY OutputAssumption DEF Delivery
  <2> QED
    BY <2>1, <2>2
<1>4. Ring(chunk) = From(CHOOSE i \in 1 .. Len(all) : Least(i))
  <2>1. ~(chunk.size > RingMax)
    BY OutputAssumption DEF Delivery
  <2> QED
    BY <2>1 DEF Ring
<1> HIDE DEF From, Fits, all
<1>5. PICK least \in S : \A n \in S : least <= n
  <2>1. S \in SUBSET Nat /\ Len(all) \in S
    BY <1>1, <1>3
  <2> QED
    BY <2>1, LeastMember
<1>6. least \in 1 .. Len(all) /\ Least(least)
  BY <1>1, <1>5
<1>7. (CHOOSE i \in 1 .. Len(all) : Least(i)) \in 1 .. Len(all)
  <2> HIDE DEF Least
  <2> QED
    BY <1>6
<1> QED
  BY <1>1, <1>4, <1>7 DEF From, all

(* So the ring stays without a hole, and what it forgets is noticed.       *)
LEMMA RingFits ==
    ASSUME recent \in Seq(Chunks), NEW n \in Nat, Contiguous(recent, n),
           NEW chunk \in Delivery, chunk.sequence = n + 1
    PROVE  /\ Ring(chunk) \in Seq(Chunks) /\ Contiguous(Ring(chunk), n + 1)
           /\ ~Drops(chunk) => Len(Ring(chunk)) = Len(recent) + 1
<1>1. CASE chunk.size > RingMax
  <2>1. Ring(chunk) = <<>> /\ Drops(chunk)
    BY <1>1 DEF Ring, Drops
  <2> QED
    BY <2>1 DEF Contiguous
<1>2. CASE chunk.size <= RingMax
  <2> DEFINE all == Append(recent, chunk)
             last == Len(recent) + 1
  <2>1. PICK i \in 1 .. last : Ring(chunk) = SubSeq(all, i, last)
    BY <1>2, RingKeeps
  <2>2. chunk \in Chunks
    BY <1>2, OutputAssumption DEF Delivery, Chunks
  <2>3. /\ all \in Seq(Chunks) /\ Len(all) = last /\ last \in Nat
        /\ all[last] = chunk /\ \A j \in 1 .. Len(recent) : all[j] = recent[j]
    BY <2>2
  <2> HIDE DEF all
  <2>4. ASSUME NEW j \in 1 .. last PROVE all[j].sequence = n + 1 - (last - j)
    <3>1. CASE j = last
      BY <2>3, <3>1
    <3>2. CASE j \in 1 .. Len(recent)
      BY <2>3, <3>2 DEF Contiguous
    <3> QED
      BY <2>3, <3>1, <3>2
  <2>5. /\ Ring(chunk) \in Seq(Chunks) /\ Len(Ring(chunk)) = last - i + 1
        /\ \A k \in 1 .. (last - i + 1) : Ring(chunk)[k] = all[i + k - 1]
    BY <2>1, <2>3
  <2>6. Contiguous(Ring(chunk), n + 1)
    <3> SUFFICES ASSUME NEW k \in 1 .. (last - i + 1)
                 PROVE  Ring(chunk)[k].sequence = n + 1 - (last - i + 1 - k)
      BY <2>5 DEF Contiguous
    <3>1. i + k - 1 \in 1 .. last
      BY <2>3
    <3>2. n + 1 - (last - (i + k - 1)) = n + 1 - (last - i + 1 - k)
      BY <2>3
    <3>3. Ring(chunk)[k].sequence = n + 1 - (last - (i + k - 1))
      BY <2>4, <2>5, <3>1
    <3> QED
      BY <3>2, <3>3
  <2>7. ~Drops(chunk) => Len(Ring(chunk)) = Len(recent) + 1
    BY <2>3, <2>5 DEF Drops
  <2> QED
    BY <2>5, <2>6, <2>7
<1> QED
  BY <1>1, <1>2, OutputAssumption DEF Delivery

-----------------------------------------------------------------------------
(* Sending to one viewer                                                   *)

Sockets == [open : BOOLEAN, flow : BOOLEAN, sent : Nat, consumed : Nat, window : Seq(Nat),
            buffered : 0 .. 2, skipped : SUBSET Nat, told : Nat, lost : SUBSET Nat]

\* The window holds the checkpoints of chunks not yet consumed, in order.
WindowFits(s) ==
  /\ Len(s.window) <= PendingMax /\ s.consumed <= s.sent
  /\ \A i \in 1 .. Len(s.window) : s.window[i] # 0 =>
       /\ s.consumed < s.window[i] /\ s.window[i] <= s.sent
       /\ \A j \in 1 .. Len(s.window) : i < j /\ s.window[j] # 0 => s.window[i] < s.window[j]

\* What the viewer was not sent of n chunks was announced or held back.
NoGap(s, n) == \A k \in (s.sent + 1) .. n : k <= s.told \/ k \in s.skipped

\* Nothing of a socket has changed but how far it was sent the log.
SameViewer(t, s) ==
  t.flow = s.flow /\ t.consumed = s.consumed /\ t.buffered = s.buffered

(* The checkpoints of frames.                                              *)
LEMMA FramesFit ==
    ASSUME NEW chunk \in Delivery, NEW n \in Nat, n <= chunk.size
    PROVE  /\ Frames(chunk, n) \in Seq(Nat) /\ Len(Frames(chunk, n)) = n
           /\ \A i \in 1 .. n : Frames(chunk, n)[i] \in {0, chunk.sequence}
           /\ \A i \in 1 .. n : i < chunk.size => Frames(chunk, n)[i] = 0
<1>1. chunk.sequence \in Nat /\ chunk.size \in Nat
  BY OutputAssumption DEF Delivery
<1>2. Frames(chunk, n) = [i \in 1 .. n |-> IF i = chunk.size THEN chunk.sequence ELSE 0]
  BY DEF Frames
<1> QED
  BY <1>1, <1>2

Joined(x, w, f) == x = w \o f

(* The frames of a window that was joined of two.                          *)
LEMMA JoinedFields ==
    ASSUME NEW w \in Seq(Nat), NEW f \in Seq(Nat), NEW x, Joined(x, w, f)
    PROVE  /\ x \in Seq(Nat) /\ Len(x) = Len(w) + Len(f)
           /\ \A i \in 1 .. Len(w) : x[i] = w[i]
           /\ \A i \in (Len(w) + 1) .. (Len(w) + Len(f)) : x[i] = f[i - Len(w)]
  BY DEF Joined

(* Checkpoints stay in order when one later checkpoint comes last.         *)
LEMMA OrderGrows ==
    ASSUME NEW m \in Nat, NEW n \in Nat, NEW size \in Nat, n <= size,
           NEW consumed \in Nat, NEW sent \in Nat, NEW k \in Nat, NEW to \in Nat,
           consumed <= sent, sent < k, to = k \/ (to = sent /\ n < size), NEW x,
           \A i \in 1 .. m : x[i] \in Nat,
           \A i \in 1 .. m : x[i] # 0 => consumed < x[i] /\ x[i] <= sent,
           \A i, j \in 1 .. m : i < j /\ x[i] # 0 /\ x[j] # 0 => x[i] < x[j],
           \A i \in (m + 1) .. (m + n) : x[i] # 0 => x[i] = k /\ i = m + size
    PROVE  /\ \A i \in 1 .. (m + n) : x[i] # 0 => consumed < x[i] /\ x[i] <= to
           /\ \A i, j \in 1 .. (m + n) : i < j /\ x[i] # 0 /\ x[j] # 0 => x[i] < x[j]
<1>1. ASSUME NEW i \in 1 .. (m + n), x[i] # 0 PROVE consumed < x[i] /\ x[i] <= to
  <2>1. CASE i \in 1 .. m
    BY <1>1, <2>1
  <2>2. CASE i \in (m + 1) .. (m + n)
    BY <1>1, <2>2
  <2> QED
    BY <2>1, <2>2
<1>2. ASSUME NEW i \in 1 .. (m + n), NEW j \in 1 .. (m + n), i < j, x[i] # 0, x[j] # 0
      PROVE  x[i] < x[j]
  <2>1. CASE j \in 1 .. m
    BY <1>2, <2>1
  <2>2. CASE j \in (m + 1) .. (m + n)
    <3>1. x[j] = k /\ j = m + size
      BY <1>2, <2>2
    <3>2. CASE i \in 1 .. m
      BY <1>2, <3>1, <3>2
    <3>3. CASE i \in (m + 1) .. (m + n)
      BY <1>2, <3>1, <3>3
    <3> QED
      BY <3>2, <3>3
  <2> QED
    BY <2>1, <2>2
<1> QED
  BY <1>1, <1>2

\* The checkpoints of a window of m frames.
InOrder(x, m, consumed, sent) ==
  /\ \A i \in 1 .. m : x[i] # 0 => consumed < x[i] /\ x[i] <= sent
  /\ \A i, j \in 1 .. m : i < j /\ x[i] # 0 /\ x[j] # 0 => x[i] < x[j]

(* What makes a window fit, in terms of its frames.                        *)
LEMMA WindowInOrder ==
    ASSUME NEW s
    PROVE  WindowFits(s) <=> /\ Len(s.window) <= PendingMax /\ s.consumed <= s.sent
                             /\ InOrder(s.window, Len(s.window), s.consumed, s.sent)
  BY DEF WindowFits, InOrder

(* A window that is given frames of one later chunk keeps its order.       *)
LEMMA WindowGrows ==
    ASSUME NEW s \in Sockets, WindowFits(s), NEW t \in Sockets,
           NEW chunk \in Delivery, s.sent < chunk.sequence, NEW n \in Nat, n <= chunk.size,
           n <= PendingMax - Len(s.window),
           Joined(t.window, s.window, Frames(chunk, n)), t.consumed = s.consumed,
           \/ t.sent = chunk.sequence
           \/ t.sent = s.sent /\ n < chunk.size
    PROVE  WindowFits(t)
<1> DEFINE w == s.window
           f == Frames(chunk, n)
           x == t.window
           m == Len(w)
<1>1. /\ m \in Nat /\ s.consumed \in Nat /\ s.sent \in Nat /\ t.sent \in Nat
      /\ chunk.sequence \in Nat /\ chunk.size \in Nat /\ PendingMax \in Nat
  BY OutputAssumption DEF Sockets, Delivery
<1>2. w \in Seq(Nat) /\ f \in Seq(Nat) /\ Len(f) = n /\ Joined(x, w, f)
  BY FramesFit DEF Sockets
<1>3. \A i \in 1 .. n : f[i] # 0 => f[i] = chunk.sequence /\ ~(i < chunk.size)
  BY FramesFit
<1>4. /\ s.consumed <= s.sent /\ m + n <= PendingMax
      /\ InOrder(w, m, s.consumed, s.sent)
  BY <1>1, WindowInOrder
<1> HIDE DEF w, f, x
<1>5. \A i \in 1 .. Len(w) : x[i] = w[i]
  BY <1>2, JoinedFields
<1>6. \A i \in 1 .. m : x[i] \in Nat
  BY <1>2, <1>5
<1>7. Len(x) = m + n /\ \A i \in (m + 1) .. (m + n) : x[i] = f[i - m]
  <2>1. w \in Seq(Nat) /\ f \in Seq(Nat) /\ Joined(x, w, f)
    BY <1>2
  <2>2. Len(x) = Len(w) + Len(f)
    BY <2>1, JoinedFields
  <2>3. \A i \in (Len(w) + 1) .. (Len(w) + Len(f)) : x[i] = f[i - Len(w)]
    BY <2>1, JoinedFields
  <2> QED
    BY <1>2, <2>2, <2>3
<1>8. \A i \in 1 .. m : x[i] # 0 => s.consumed < x[i] /\ x[i] <= s.sent
  BY <1>4, <1>5 DEF InOrder
<1>9. \A i, j \in 1 .. m : i < j /\ x[i] # 0 /\ x[j] # 0 => x[i] < x[j]
  BY <1>4, <1>5 DEF InOrder
<1> HIDE DEF m
<1>10. \A i \in (m + 1) .. (m + n) : x[i] # 0 => x[i] = chunk.sequence /\ i = m + chunk.size
  <2> SUFFICES ASSUME NEW i \in (m + 1) .. (m + n), x[i] # 0
               PROVE  x[i] = chunk.sequence /\ i = m + chunk.size
    OBVIOUS
  <2>1. i - m \in 1 .. n
    BY <1>1
  <2>2. x[i] = chunk.sequence /\ ~(i - m < chunk.size)
    BY <1>3, <1>7, <2>1
  <2> QED
    BY <1>1, <2>1, <2>2
<1>11. InOrder(x, m + n, s.consumed, t.sent)
  <2> DEFINE to == t.sent
             k == chunk.sequence
             size == chunk.size
             consumed == s.consumed
             sent == s.sent
  <2>1. /\ m \in Nat /\ consumed \in Nat /\ sent \in Nat /\ to \in Nat /\ k \in Nat
        /\ size \in Nat /\ n \in Nat /\ n <= size /\ consumed <= sent /\ sent < k
        /\ to = k \/ (to = sent /\ n < size)
    BY <1>1, <1>4
  <2>2. /\ \A i \in 1 .. m : x[i] # 0 => consumed < x[i] /\ x[i] <= sent
        /\ \A i \in (m + 1) .. (m + n) : x[i] # 0 => x[i] = k /\ i = m + size
    BY <1>8, <1>10
  <2> HIDE DEF to, k, size, consumed, sent
  <2>3. /\ \A i \in 1 .. (m + n) : x[i] # 0 => consumed < x[i] /\ x[i] <= to
        /\ \A i, j \in 1 .. (m + n) : i < j /\ x[i] # 0 /\ x[j] # 0 => x[i] < x[j]
    BY <1>6, <1>9, <2>1, <2>2, OrderGrows
  <2> QED
    BY <2>3 DEF InOrder, to, consumed
<1>12. s.consumed <= t.sent
  BY <1>1, <1>4
<1> QED
  BY <1>4, <1>7, <1>11, <1>12, WindowInOrder DEF x

Moved(t, s, sent, lost) ==
  t = [s EXCEPT !.sent = sent, !.told = 0, !.skipped = {}, !.lost = lost]

(* A socket that was moved to another place in the log.                    *)
LEMMA SocketMoved ==
    ASSUME NEW s \in Sockets, NEW sent \in Nat, NEW lost \in SUBSET Nat, NEW t,
           Moved(t, s, sent, lost)
    PROVE  /\ t \in Sockets /\ t.window = s.window /\ t.open = s.open /\ SameViewer(t, s)
           /\ t.sent = sent /\ t.told = 0 /\ t.skipped = {} /\ t.lost = lost
<1>1. {} \in SUBSET Nat /\ 0 \in Nat
  OBVIOUS
<1> QED
  BY <1>1 DEF Sockets, SameViewer, Moved

(* sendOutputChunk sends the chunk or closes the socket.                   *)
LEMMA SendFits ==
    ASSUME NEW s \in Sockets, WindowFits(s), s.open,
           NEW chunk \in Delivery, s.sent < chunk.sequence,
           NEW t, t = SendChunk(s, chunk)
    PROVE  /\ t \in Sockets /\ WindowFits(t) /\ SameViewer(t, s)
           /\ \/ /\ t.open /\ t.sent = chunk.sequence /\ t.told = 0 /\ t.skipped = {}
                 /\ t.lost = s.lost \cup ((Beyond(s) + 1) .. (chunk.sequence - 1))
              \/ /\ ~t.open /\ s.flow /\ t.sent = s.sent /\ t.told = s.told
                 /\ t.skipped = s.skipped /\ t.lost = s.lost
<1> DEFINE room == PendingMax - Len(s.window)
           gone == (Beyond(s) + 1) .. (chunk.sequence - 1)
<1>1. /\ s.sent \in Nat /\ s.told \in Nat /\ Beyond(s) \in Nat /\ chunk.sequence \in Nat
      /\ chunk.size \in Nat /\ Len(s.window) \in Nat /\ PendingMax \in Nat
      /\ room \in Nat /\ s.window \in Seq(Nat)
  BY OutputAssumption DEF Sockets, Delivery, Beyond, WindowFits
<1>2. gone \in SUBSET Nat
  BY <1>1
<1>3. ASSUME NEW w \in Seq(Nat)
      PROVE  LET u == Overtakes([s EXCEPT !.window = w], chunk.sequence)
             IN /\ u \in Sockets /\ u.window = w /\ SameViewer(u, s) /\ u.open
                /\ u.sent = chunk.sequence /\ u.told = 0 /\ u.skipped = {}
                /\ u.lost = s.lost \cup gone
  <2> DEFINE v == [s EXCEPT !.window = w]
  <2>1. v.sent = s.sent /\ v.told = s.told
    BY DEF Sockets
  <2>2. Beyond(v) = Beyond(s)
    BY <2>1 DEF Beyond
  <2>3. Overtakes(v, chunk.sequence) =
          [v EXCEPT !.sent = chunk.sequence, !.told = 0, !.skipped = {}, !.lost = @ \cup gone]
    BY <2>2 DEF Overtakes
  <2>4. /\ v \in Sockets /\ v.window = w /\ SameViewer(v, s) /\ v.open = s.open
        /\ v.lost = s.lost
    BY DEF Sockets, SameViewer
  <2> HIDE DEF gone, v
  <2> DEFINE u == Overtakes(v, chunk.sequence)
             lost == s.lost \cup gone
  <2>5. lost \in SUBSET Nat
    BY <1>2 DEF Sockets
  <2>6. Moved(u, v, chunk.sequence, lost)
    BY <2>3, <2>4 DEF Moved
  <2> HIDE DEF u, lost
  <2>7. /\ u \in Sockets /\ u.window = v.window /\ u.open = v.open /\ SameViewer(u, v)
        /\ u.sent = chunk.sequence /\ u.told = 0 /\ u.skipped = {} /\ u.lost = lost
    <3>1. chunk.sequence \in Nat /\ v \in Sockets
      BY <1>1, <2>4
    <3> QED
      BY <2>5, <2>6, <3>1, SocketMoved
  <2>8. /\ u \in Sockets /\ u.window = w /\ SameViewer(u, s) /\ u.open
        /\ u.sent = chunk.sequence /\ u.told = 0 /\ u.skipped = {} /\ u.lost = lost
    BY <2>4, <2>7 DEF SameViewer
  <2> QED
    BY <2>8 DEF u, v, lost
<1>4. CASE ~s.flow
  <2>1. s.window \in Seq(Nat) /\ [s EXCEPT !.window = s.window] = s
    BY DEF Sockets
  <2>2. t = Overtakes(s, chunk.sequence)
    BY <1>4 DEF SendChunk
  <2>3. /\ t \in Sockets /\ t.window = s.window /\ SameViewer(t, s) /\ t.open
        /\ t.sent = chunk.sequence /\ t.told = 0 /\ t.skipped = {}
        /\ t.lost = s.lost \cup gone
    BY <1>3, <2>1, <2>2
  <2>4. WindowFits(t)
    BY <1>1, <2>3 DEF WindowFits, SameViewer, Sockets
  <2> QED
    BY <2>3, <2>4
<1>5. CASE s.flow /\ chunk.size <= room
  <2> DEFINE w == s.window \o Frames(chunk, chunk.size)
  <2>1. w \in Seq(Nat)
    BY <1>1, FramesFit
  <2>2. t = Overtakes([s EXCEPT !.window = w], chunk.sequence)
    BY <1>5 DEF SendChunk
  <2>3. /\ t \in Sockets /\ t.window = w /\ SameViewer(t, s) /\ t.open
        /\ t.sent = chunk.sequence /\ t.told = 0 /\ t.skipped = {}
        /\ t.lost = s.lost \cup gone
    <3> HIDE DEF w
    <3> QED
      BY <1>3, <2>1, <2>2
  <2>4. WindowFits(t)
    <3>1. chunk.size \in Nat /\ chunk.size <= chunk.size
          /\ chunk.size <= PendingMax - Len(s.window)
      BY <1>1, <1>5
    <3>2. Joined(t.window, s.window, Frames(chunk, chunk.size)) /\ t.consumed = s.consumed
      BY <2>3 DEF SameViewer, Joined
    <3> HIDE DEF w, room
    <3> QED
      BY <2>3, <3>1, <3>2, WindowGrows
  <2> QED
    BY <2>3, <2>4
<1>6. CASE s.flow /\ ~(chunk.size <= room)
  <2> DEFINE w == s.window \o Frames(chunk, room)
  <2>1. room <= chunk.size /\ room < chunk.size
    BY <1>1, <1>6
  <2>2. w \in Seq(Nat)
    BY <1>1, <2>1, FramesFit
  <2>3. t = [s EXCEPT !.window = w, !.open = FALSE]
    BY <1>6 DEF SendChunk
  <2>4. /\ t \in Sockets /\ t.window = w /\ SameViewer(t, s) /\ ~t.open
        /\ t.sent = s.sent /\ t.told = s.told /\ t.skipped = s.skipped /\ t.lost = s.lost
    <3> HIDE DEF w
    <3> QED
      BY <2>2, <2>3 DEF Sockets, SameViewer
  <2>5. WindowFits(t)
    <3>1. room \in Nat /\ room <= chunk.size /\ room <= PendingMax - Len(s.window)
      BY <1>1, <2>1
    <3>2. Joined(t.window, s.window, Frames(chunk, room)) /\ t.consumed = s.consumed
      BY <2>4 DEF SameViewer, Joined
    <3> HIDE DEF w, room
    <3> QED
      BY <2>1, <2>4, <3>1, <3>2, WindowGrows
  <2> QED
    BY <1>6, <2>4, <2>5
<1> QED
  BY <1>4, <1>5, <1>6

-----------------------------------------------------------------------------
(* The replay, chunk by chunk                                              *)

\* One chunk of the ring in a replay to a viewer that had been sent `sent'.
Again(t, sent, n) ==
  IF t.open /\ recent[n].sequence > sent THEN SendChunk(t, recent[n]) ELSE t

\* The viewer after each of the first n chunks.
Replaying(f, s, n) ==
  f = [i \in 0 .. n |-> IF i = 0 THEN Noticed(s) ELSE Again(f[i - 1], s.sent, i)]

(* The function by which Resent is defined exists.                         *)
LEMMA ReplayExists ==
    ASSUME NEW s, NEW n \in Nat
    PROVE  \E f : Replaying(f, s, n)
<1> DEFINE S == {m \in Nat : \E f : Replaying(f, s, m)}
<1>1. 0 \in S
  <2> DEFINE f == [i \in 0 .. 0 |-> Noticed(s)]
  <2>1. f = [i \in 0 .. 0 |-> IF i = 0 THEN Noticed(s) ELSE Again(f[i - 1], s.sent, i)]
    OBVIOUS
  <2> QED
    BY <2>1 DEF Replaying
<1>2. ASSUME NEW m \in S PROVE m + 1 \in S
  <2>0. m \in Nat
    BY <1>2
  <2>1. PICK f : Replaying(f, s, m)
    BY <1>2
  <2> DEFINE g == [i \in 0 .. (m + 1) |-> IF i = m + 1 THEN Again(f[m], s.sent, i) ELSE f[i]]
  <2>2. f = [i \in 0 .. m |-> IF i = 0 THEN Noticed(s) ELSE Again(f[i - 1], s.sent, i)]
    BY <2>1 DEF Replaying
  <2>3. /\ g = [i \in 0 .. (m + 1) |-> g[i]]
        /\ \A i \in 0 .. m : g[i] = f[i]
        /\ g[m + 1] = Again(f[m], s.sent, m + 1)
    OBVIOUS
  <2> HIDE DEF g
  <2>4. \A i \in 0 .. (m + 1) : g[i] = IF i = 0 THEN Noticed(s) ELSE Again(g[i - 1], s.sent, i)
    <3> SUFFICES ASSUME NEW i \in 0 .. (m + 1)
                 PROVE  g[i] = IF i = 0 THEN Noticed(s) ELSE Again(g[i - 1], s.sent, i)
      OBVIOUS
    <3>1. CASE i = m + 1
      <4>1. m \in 0 .. m /\ i # 0 /\ i - 1 = m
        BY <2>0, <3>1
      <4>2. g[m] = f[m]
        BY <2>3, <4>1
      <4> QED
        BY <2>3, <3>1, <4>1, <4>2
    <3>2. CASE i \in 1 .. m
      <4>0. i \in 0 .. m /\ i - 1 \in 0 .. m /\ i # 0
        BY <2>0, <3>2
      <4>1. g[i] = f[i] /\ g[i - 1] = f[i - 1] /\ i # 0
        BY <2>3, <4>0
      <4>2. f[i] = Again(f[i - 1], s.sent, i)
        BY <2>2, <4>0
      <4> QED
        BY <4>1, <4>2
    <3>3. CASE i = 0
      <4>1. 0 \in 0 .. m
        BY <2>0
      <4>2. f[0] = Noticed(s) /\ g[0] = f[0]
        BY <2>2, <2>3, <4>1
      <4> QED
        BY <3>3, <4>2
    <3> QED
      BY <3>1, <3>2, <3>3
  <2>5. Replaying(g, s, m + 1)
    BY <2>3, <2>4 DEF Replaying
  <2> QED
    BY <2>5
<1>3. S = Nat
  <2> HIDE DEF S
  <2>1. S \in SUBSET Nat
    BY DEF S
  <2> QED
    BY <1>1, <1>2, <2>1, NatSets
<1> QED
  BY <1>3

(* Resent, chunk by chunk.                                                 *)
LEMMA ResentUnfolds ==
    ASSUME NEW s, Len(recent) \in Nat
    PROVE  \E f : /\ f[0] = Noticed(s) /\ Resent(s) = f[Len(recent)]
                  /\ \A i \in 1 .. Len(recent) : f[i] = Again(f[i - 1], s.sent, i)
<1> DEFINE f == CHOOSE after : after = [n \in 0 .. Len(recent) |->
                  IF n = 0 THEN Noticed(s)
                  ELSE IF after[n - 1].open /\ recent[n].sequence > s.sent
                       THEN SendChunk(after[n - 1], recent[n]) ELSE after[n - 1]]
<1>1. PICK g : Replaying(g, s, Len(recent))
  BY ReplayExists
<1>2. g = [n \in 0 .. Len(recent) |->
                  IF n = 0 THEN Noticed(s)
                  ELSE IF g[n - 1].open /\ recent[n].sequence > s.sent
                       THEN SendChunk(g[n - 1], recent[n]) ELSE g[n - 1]]
  BY <1>1 DEF Replaying, Again
<1>3. f = [n \in 0 .. Len(recent) |->
                  IF n = 0 THEN Noticed(s)
                  ELSE IF f[n - 1].open /\ recent[n].sequence > s.sent
                       THEN SendChunk(f[n - 1], recent[n]) ELSE f[n - 1]]
  BY <1>2
<1>4. Resent(s) = f[Len(recent)]
  BY DEF Resent
<1> HIDE DEF f
<1>5. f = [n \in 0 .. Len(recent) |-> IF n = 0 THEN Noticed(s) ELSE Again(f[n - 1], s.sent, n)]
  BY <1>3 DEF Again
<1>6. f[0] = Noticed(s) /\ \A i \in 1 .. Len(recent) : f[i] = Again(f[i - 1], s.sent, i)
  BY <1>5
<1> QED
  BY <1>4, <1>6

\* The ring holds the end of a log of next - 1 chunks, or all of it.
Ringed ==
  /\ recent \in Seq(Chunks) /\ next \in Nat /\ 1 <= next
  /\ Contiguous(recent, next - 1)
  /\ ~forgotten => Len(recent) = next - 1

\* A viewer s is replayed the ring and is now t, after n chunks.
Resending(t, s, n) ==
  /\ t \in Sockets /\ WindowFits(t) /\ SameViewer(t, s) /\ t.lost = s.lost
  /\ s.sent <= t.sent /\ t.sent <= next - 1
  /\ t.skipped = s.skipped \/ t.skipped = {}
  /\ ~s.flow => t.open
  /\ t.open => \/ /\ t.sent = s.sent /\ t.told = Noticed(s).told
                  /\ \A i \in 1 .. n : recent[i].sequence <= s.sent
               \/ 1 <= n /\ t.sent = recent[n].sequence

(* Each chunk of the ring has its place in the log.                        *)
LEMMA RingPlaces ==
    ASSUME Ringed, NEW n \in 1 .. Len(recent)
    PROVE  /\ recent[n] \in Delivery /\ Len(recent) \in Nat
           /\ recent[n].sequence = next - 1 - (Len(recent) - n)
<1>1. recent[n] \in Chunks /\ Len(recent) \in Nat
  BY DEF Ringed
<1>2. recent[n] \in Delivery
  BY <1>1, OutputAssumption DEF Chunks, Delivery
<1> QED
  BY <1>1, <1>2 DEF Ringed, Contiguous

(* The notice says up to where the log is gone, if the viewer misses any of *)
(* it.                                                                     *)
LEMMA NoticedFits ==
    ASSUME Ringed, NEW s \in Sockets, s.sent <= next - 1
    PROVE  /\ Noticed(s) \in Sockets /\ SameViewer(Noticed(s), s)
           /\ Noticed(s).open = s.open /\ Noticed(s).sent = s.sent
           /\ Noticed(s).window = s.window /\ Noticed(s).lost = s.lost
           /\ Noticed(s).skipped = s.skipped
           /\ IF recent = <<>> THEN s.sent < next - 1 => Noticed(s).told = next - 1
              ELSE s.sent + 1 < recent[1].sequence =>
                     Noticed(s).told = recent[1].sequence - 1
<1> DEFINE upto == IF recent = <<>> THEN next - 1 ELSE recent[1].sequence - 1
<1>1. s.sent \in Nat /\ next \in Nat /\ next - 1 \in Nat /\ Len(recent) \in Nat
  BY DEF Sockets, Ringed
<1>2. recent # <<>> => /\ recent[1].sequence = next - 1 - (Len(recent) - 1)
                       /\ recent[1].sequence \in 1 .. MaxChunks
  <2>1. recent # <<>> => 1 \in 1 .. Len(recent)
    BY <1>1 DEF Ringed
  <2> QED
    BY <2>1, RingPlaces DEF Delivery
<1>3. upto \in Nat
  BY <1>1, <1>2, OutputAssumption
<1>4. Noticed(s) = IF Truncated(s, recent, forgotten) THEN [s EXCEPT !.told = upto] ELSE s
  BY DEF Noticed
<1>5. IF recent = <<>> THEN s.sent < next - 1 => Truncated(s, recent, forgotten)
      ELSE s.sent + 1 < recent[1].sequence => Truncated(s, recent, forgotten)
  <2>1. CASE s.sent # 0
    BY <2>1 DEF Truncated
  <2>2. CASE s.sent = 0 /\ forgotten
    BY <2>2 DEF Truncated
  <2>3. CASE s.sent = 0 /\ ~forgotten
    <3>1. Len(recent) = next - 1
      BY <2>3 DEF Ringed
    <3>2. recent = <<>> => ~(s.sent < next - 1)
      BY <2>3, <3>1
    <3>3. recent # <<>> => ~(s.sent + 1 < recent[1].sequence)
      BY <1>1, <1>2, <2>3, <3>1
    <3> QED
      BY <3>2, <3>3
  <2> QED
    BY <2>1, <2>2, <2>3
<1> HIDE DEF upto
<1>6. /\ [s EXCEPT !.told = upto] \in Sockets /\ [s EXCEPT !.told = upto].told = upto
      /\ SameViewer([s EXCEPT !.told = upto], s)
      /\ [s EXCEPT !.told = upto].open = s.open /\ [s EXCEPT !.told = upto].sent = s.sent
      /\ [s EXCEPT !.told = upto].window = s.window /\ [s EXCEPT !.told = upto].lost = s.lost
      /\ [s EXCEPT !.told = upto].skipped = s.skipped
  BY <1>3 DEF Sockets, SameViewer
<1>7. /\ Noticed(s) \in Sockets /\ SameViewer(Noticed(s), s)
      /\ Noticed(s).open = s.open /\ Noticed(s).sent = s.sent
      /\ Noticed(s).window = s.window /\ Noticed(s).lost = s.lost
      /\ Noticed(s).skipped = s.skipped
  BY <1>4, <1>6 DEF SameViewer
<1>8. Truncated(s, recent, forgotten) => Noticed(s).told = upto
  BY <1>4, <1>6
<1>9. IF recent = <<>> THEN s.sent < next - 1 => Noticed(s).told = next - 1
      ELSE s.sent + 1 < recent[1].sequence => Noticed(s).told = recent[1].sequence - 1
  BY <1>5, <1>8 DEF upto
<1> QED
  BY <1>7, <1>9

(* One more chunk.                                                         *)
LEMMA AgainFits ==
    ASSUME Ringed, NEW s \in Sockets, s.open, s.sent <= next - 1,
           NEW n \in 1 .. Len(recent), NEW t, Resending(t, s, n - 1)
    PROVE  Resending(Again(t, s.sent, n), s, n)
<1> DEFINE k == recent[n].sequence
           u == Again(t, s.sent, n)
<1>1. /\ recent[n] \in Delivery /\ k = next - 1 - (Len(recent) - n) /\ Len(recent) \in Nat
      /\ k \in Nat /\ next \in Nat /\ s.sent \in Nat /\ t.sent \in Nat /\ t \in Sockets
      /\ n - 1 \in Nat /\ s.sent <= t.sent /\ t.told \in Nat
  <2>1. /\ recent[n] \in Delivery /\ k = next - 1 - (Len(recent) - n)
        /\ Len(recent) \in Nat
    BY RingPlaces
  <2>2. k \in Nat /\ next \in Nat
    BY <2>1, OutputAssumption DEF Ringed, Delivery
  <2>3. t \in Sockets /\ s.sent <= t.sent
    BY DEF Resending
  <2>4. s.sent \in Nat /\ t.sent \in Nat /\ t.told \in Nat
    BY <2>3 DEF Sockets
  <2>5. n - 1 \in Nat
    BY <2>1
  <2> QED
    BY <2>1, <2>2, <2>3, <2>4, <2>5
<1>2. 1 <= n - 1 => recent[n - 1].sequence = k - 1
  <2> SUFFICES ASSUME 1 <= n - 1 PROVE recent[n - 1].sequence = k - 1
    OBVIOUS
  <2> DEFINE m == n - 1
  <2>1. m \in 1 .. Len(recent)
    BY <1>1
  <2>2. recent[m].sequence = next - 1 - (Len(recent) - m)
    BY <2>1, RingPlaces
  <2>3. next - 1 - (Len(recent) - m) = k - 1
    BY <1>1
  <2> QED
    BY <2>2, <2>3
<1> HIDE DEF k
<1>3. CASE ~t.open
  <2>1. u = t
    BY <1>3 DEF Again
  <2> QED
    BY <1>3, <2>1 DEF Resending
<1>4. CASE t.open /\ ~(k > s.sent)
  <2>1. u = t
    BY <1>4 DEF Again, k
  <2>2. /\ t.sent = s.sent /\ t.told = Noticed(s).told
        /\ \A i \in 1 .. (n - 1) : recent[i].sequence <= s.sent
    BY <1>1, <1>2, <1>4 DEF Resending
  <2>3. \A i \in 1 .. n : recent[i].sequence <= s.sent
    <3> SUFFICES ASSUME NEW i \in 1 .. n PROVE recent[i].sequence <= s.sent
      OBVIOUS
    <3>1. i = n \/ i \in 1 .. (n - 1)
      BY <1>1
    <3> QED
      BY <1>1, <1>4, <2>2, <3>1 DEF k
  <2> QED
    BY <2>1, <2>2, <2>3 DEF Resending
<1>5. CASE t.open /\ k > s.sent
  <2>1. u = SendChunk(t, recent[n])
    BY <1>5 DEF Again, k
  <2>2. t.sent < k /\ k - 1 <= Beyond(t)
    <3>1. CASE 1 <= n - 1 /\ t.sent = recent[n - 1].sequence
      BY <1>1, <1>2, <3>1 DEF Beyond
    <3>2. CASE /\ t.sent = s.sent /\ t.told = Noticed(s).told
               /\ \A i \in 1 .. (n - 1) : recent[i].sequence <= s.sent
      <4>1. CASE 1 <= n - 1
        <5>1. n - 1 \in 1 .. (n - 1)
          BY <1>1, <4>1
        <5>2. k - 1 <= s.sent
          BY <1>2, <3>2, <4>1, <5>1
        <5> QED
          BY <1>1, <1>5, <3>2, <5>2 DEF Beyond
      <4>2. CASE n = 1
        <5>1. recent # <<>> /\ k = recent[1].sequence
          BY <1>1, <4>2 DEF k
        <5>2. s.sent + 1 < k => t.told = k - 1
          BY <3>2, <5>1, NoticedFits
        <5> QED
          BY <1>1, <1>5, <3>2, <5>2 DEF Beyond
      <4> QED
        BY <1>1, <4>1, <4>2
    <3> QED
      BY <1>5, <3>1, <3>2 DEF Resending
  <2>3. (Beyond(t) + 1) .. (k - 1) = {}
    BY <1>1, <2>2 DEF Beyond
  <2>4. WindowFits(t) /\ SameViewer(t, s) /\ t.lost = s.lost
        /\ (t.skipped = s.skipped \/ t.skipped = {})
    BY DEF Resending
  <2>5. /\ u \in Sockets /\ WindowFits(u) /\ SameViewer(u, t)
        /\ \/ /\ u.open /\ u.sent = k /\ u.skipped = {}
              /\ u.lost = t.lost \cup ((Beyond(t) + 1) .. (k - 1))
           \/ ~u.open /\ t.flow /\ u.sent = t.sent /\ u.skipped = t.skipped /\ u.lost = t.lost
    BY <1>1, <1>5, <2>1, <2>2, <2>4, SendFits DEF k
  <2>6. SameViewer(u, s) /\ u.lost = s.lost /\ (u.skipped = s.skipped \/ u.skipped = {})
        /\ (~s.flow => u.open)
    BY <2>3, <2>4, <2>5 DEF SameViewer
  <2>7. k <= next - 1
    BY <1>1
  <2>8. s.sent <= u.sent /\ u.sent <= next - 1 /\ (u.open => u.sent = k)
    BY <1>1, <2>2, <2>5, <2>7
  <2>9. 1 <= n
    BY <1>1
  <2> QED
    BY <2>5, <2>6, <2>8, <2>9 DEF Resending, k
<1> QED
  BY <1>1, <1>3, <1>4, <1>5

(* The viewer after the whole ring.                                        *)
LEMMA ResentFits ==
    ASSUME Ringed, NEW s \in Sockets, WindowFits(s), s.open, s.sent <= next - 1
    PROVE  Resending(Resent(s), s, Len(recent))
<1>1. Len(recent) \in Nat
  BY DEF Ringed
<1>2. PICK f : /\ f[0] = Noticed(s) /\ Resent(s) = f[Len(recent)]
               /\ \A i \in 1 .. Len(recent) : f[i] = Again(f[i - 1], s.sent, i)
  BY <1>1, ResentUnfolds
<1> DEFINE S == {n \in Nat : n <= Len(recent) => Resending(f[n], s, n)}
<1>3. 0 \in S
  <2> DEFINE t == Noticed(s)
  <2>1. /\ t \in Sockets /\ SameViewer(t, s) /\ t.open = s.open /\ t.sent = s.sent
        /\ t.window = s.window /\ t.lost = s.lost /\ t.skipped = s.skipped
    BY NoticedFits
  <2> HIDE DEF t
  <2>2. WindowFits(t)
    BY <2>1 DEF WindowFits, SameViewer
  <2>3. s.sent <= t.sent /\ t.sent <= next - 1
    BY <2>1 DEF Sockets
  <2>4. Resending(t, s, 0)
    BY <2>1, <2>2, <2>3 DEF Resending, t
  <2> QED
    BY <1>2, <2>4 DEF t
<1>4. ASSUME NEW n \in S PROVE n + 1 \in S
  <2>1. n \in Nat /\ n + 1 \in Nat
    BY <1>4
  <2>2. SUFFICES ASSUME n + 1 <= Len(recent) PROVE Resending(f[n + 1], s, n + 1)
    BY <2>1
  <2>3. n + 1 \in 1 .. Len(recent) /\ (n + 1) - 1 = n /\ n <= Len(recent)
    BY <1>1, <2>1, <2>2
  <2>4. Resending(f[n], s, n)
    BY <1>4, <2>3
  <2>5. f[n + 1] = Again(f[n], s.sent, n + 1)
    BY <1>2, <2>3
  <2> HIDE DEF S
  <2>6. Resending(Again(f[n], s.sent, n + 1), s, n + 1)
    <3> DEFINE m == n + 1
    <3>1. m \in 1 .. Len(recent) /\ Resending(f[n], s, m - 1)
      BY <2>3, <2>4
    <3> HIDE DEF m
    <3>2. Resending(Again(f[n], s.sent, m), s, m)
      BY <3>1, AgainFits
    <3> QED
      BY <3>2 DEF m
  <2> QED
    BY <2>5, <2>6
<1>5. S = Nat
  <2>1. S \in SUBSET Nat
    OBVIOUS
  <2> HIDE DEF S
  <2> QED
    BY <1>3, <1>4, <2>1, NatSets
<1> QED
  BY <1>1, <1>2, <1>5

\* What a replay, or nothing, may make of an attached viewer.
Advanced(t, s) ==
  /\ t \in Sockets /\ WindowFits(t) /\ SameViewer(t, s) /\ t.lost = s.lost
  /\ s.sent <= t.sent /\ t.sent <= next - 1
  /\ t.skipped = s.skipped \/ t.skipped = {}
  /\ t.open => s.open /\ NoGap(t, next - 1)

(* A plain viewer that was sent the ring is taken to the end of the log.    *)
LEMMA PassedFits ==
    ASSUME NEW s \in Sockets, WindowFits(s), NEW last \in Nat, s.sent <= last,
           NEW t, Moved(t, s, last, s.lost)
    PROVE  /\ t \in Sockets /\ WindowFits(t) /\ SameViewer(t, s) /\ t.open = s.open
           /\ t.sent = last /\ t.skipped = {} /\ t.lost = s.lost
<1> DEFINE lost == s.lost
<1>1. lost \in SUBSET Nat /\ Moved(t, s, last, lost)
  BY DEF Sockets
<1>0. s \in Sockets /\ last \in Nat
  OBVIOUS
<1> HIDE DEF lost
<1>2. /\ t \in Sockets /\ t.window = s.window /\ SameViewer(t, s) /\ t.open = s.open
      /\ t.sent = last /\ t.skipped = {} /\ t.lost = lost
  BY <1>0, <1>1, SocketMoved
<1>3. /\ t.consumed = s.consumed /\ s.sent \in Nat /\ s.consumed \in Nat
      /\ s.window \in Seq(Nat)
  BY <1>2 DEF SameViewer, Sockets
<1>4. WindowFits(t)
  BY <1>2, <1>3 DEF WindowFits
<1> QED
  BY <1>2, <1>4 DEF lost

(* replayToSocket leaves no chunk that the viewer is not told of.          *)
LEMMA ReplayedFits ==
    ASSUME Ringed, NEW s \in Sockets, WindowFits(s), s.sent <= next - 1
    PROVE  Advanced(Replayed(s), s)
<1>1. /\ Len(recent) \in Nat /\ next \in Nat /\ next - 1 \in Nat /\ s.sent \in Nat
  BY DEF Ringed, Sockets
<1>2. CASE ~s.open
  <2>1. Replayed(s) = s
    BY <1>2 DEF Replayed
  <2> QED
    BY <1>1, <1>2, <2>1 DEF Advanced, SameViewer
<1>3. CASE s.open
  <2> DEFINE t == Resent(s)
  <2>1. Resending(t, s, Len(recent))
    BY <1>3, ResentFits
  <2> HIDE DEF t
  <2>2. /\ t \in Sockets /\ WindowFits(t) /\ SameViewer(t, s) /\ t.lost = s.lost
        /\ s.sent <= t.sent /\ t.sent <= next - 1
        /\ t.skipped = s.skipped \/ t.skipped = {}
        /\ ~s.flow => t.open
    BY <2>1 DEF Resending
  <2>3. CASE s.flow
    <3>1. Replayed(s) = t
      BY <1>3, <2>3 DEF Replayed, t
    <3>2. ASSUME t.open PROVE NoGap(t, next - 1)
      <4>1. CASE 1 <= Len(recent) /\ t.sent = recent[Len(recent)].sequence
        <5>1. Len(recent) \in 1 .. Len(recent)
          BY <1>1, <4>1
        <5>2. t.sent = next - 1
          BY <1>1, <4>1, <5>1, RingPlaces
        <5> QED
          BY <1>1, <5>2 DEF NoGap
      <4>2. CASE /\ t.sent = s.sent /\ t.told = Noticed(s).told
                 /\ \A i \in 1 .. Len(recent) : recent[i].sequence <= s.sent
        <5>1. CASE recent = <<>>
          <6>1. s.sent < next - 1 => t.told = next - 1
            BY <4>2, <5>1, NoticedFits
          <6> QED
            BY <1>1, <4>2, <6>1 DEF NoGap
        <5>2. CASE recent # <<>>
          <6>1. Len(recent) \in 1 .. Len(recent)
            BY <1>1, <5>2 DEF Ringed
          <6>2. next - 1 <= t.sent
            BY <1>1, <4>2, <6>1, RingPlaces
          <6> QED
            BY <1>1, <4>2, <6>2 DEF NoGap
        <5> QED
          BY <5>1, <5>2
      <4> QED
        BY <2>1, <3>2, <4>1, <4>2 DEF Resending
    <3> QED
      BY <1>3, <2>2, <3>1, <3>2 DEF Advanced
  <2>4. CASE ~s.flow
    <3> DEFINE u == [t EXCEPT !.sent = next - 1, !.told = 0, !.skipped = {}]
    <3>1. Replayed(s) = u
      BY <1>3, <2>4 DEF Replayed, t
    <3>2. Moved(u, t, next - 1, t.lost)
      BY <2>2 DEF Moved, Sockets
    <3> HIDE DEF u
    <3>4. /\ u \in Sockets /\ WindowFits(u) /\ SameViewer(u, t) /\ u.open = t.open
          /\ u.sent = next - 1 /\ u.skipped = {} /\ u.lost = t.lost
      <4>1. next - 1 \in Nat
        BY <1>1
      <4> QED
        BY <1>1, <2>2, <3>2, <4>1, PassedFits
    <3>6. NoGap(u, next - 1)
      BY <1>1, <3>4 DEF NoGap
    <3>7. s.sent <= u.sent /\ u.sent <= next - 1
      BY <1>1, <3>4
    <3>8. SameViewer(u, s) /\ u.lost = s.lost
      BY <2>2, <3>4 DEF SameViewer
    <3> QED
      BY <1>3, <3>1, <3>4, <3>6, <3>7, <3>8 DEF Advanced
  <2> QED
    BY <2>3, <2>4
<1> QED
  BY <1>2, <1>3

-----------------------------------------------------------------------------
(* What a viewer sees                                                      *)

\* A viewer s with a cursor, of a log of n chunks.
Viewing(s, at, n) ==
  /\ WindowFits(s) /\ s.sent <= n /\ (s.open => NoGap(s, n))
  /\ at <= s.sent /\ (s.flow => at = s.consumed)

\* It goes on as t in a log of n chunks, and loses only what was held back.
Onward(t, s, n) ==
  /\ s.sent <= t.sent /\ t.sent <= n
  /\ t.skipped \subseteq s.skipped \cup {n}
  /\ t.skipped # s.skipped => t.skipped = {} \/ t.sent = s.sent
  /\ s.lost \subseteq t.lost /\ t.lost \subseteq s.lost \cup s.skipped
  /\ \A k \in t.lost \ s.lost : s.sent < k /\ k < t.sent

\* It was sent more of the log, or nothing.
Grown(t, s, n) ==
  /\ t \in Sockets /\ WindowFits(t) /\ SameViewer(t, s) /\ Onward(t, s, n)
  /\ t.open => NoGap(t, n)

(* A socket is not the absence of one.                                     *)
LEMMA SocketIsOne ==
    ASSUME NEW s \in Sockets
    PROVE  s # NoSocket
<1>1. "flow" \in DOMAIN s
  BY DEF Sockets
<1>2. ~("flow" \in DOMAIN NoSocket)
  BY DEF NoSocket
<1> QED
  BY <1>1, <1>2

(* A viewer stays where it is in the log.                                  *)
LEMMA StaysOnward ==
    ASSUME NEW s \in Sockets, NEW t \in Sockets, NEW n \in Nat, s.sent <= n,
           t.sent = s.sent, t.skipped = s.skipped, t.lost = s.lost
    PROVE  Onward(t, s, n)
  BY DEF Onward, Sockets

(* A replay is one way to be sent more of the log.                         *)
LEMMA ReplayedGrows ==
    ASSUME Ringed, NEW s \in Sockets, WindowFits(s), s.sent <= next - 1
    PROVE  Grown(Replayed(s), s, next - 1)
<1> DEFINE t == Replayed(s)
<1>1. Advanced(t, s)
  BY ReplayedFits
<1> HIDE DEF t
<1>2. Onward(t, s, next - 1)
  BY <1>1 DEF Advanced, Onward
<1>3. Grown(t, s, next - 1)
  BY <1>1, <1>2 DEF Advanced, Grown
<1> QED
  BY <1>3 DEF t

(* A chunk that is broadcast is sent, held back from a slow socket, or      *)
(* closes the socket.                                                      *)
LEMMA ReceivesGrows ==
    ASSUME NEW chunk \in Delivery, NEW s \in Sockets, WindowFits(s),
           s.sent <= chunk.sequence - 1, s.open => NoGap(s, chunk.sequence - 1)
    PROVE  Grown(Receives(s, chunk), s, chunk.sequence)
<1> DEFINE k == chunk.sequence
<1>1. k \in Nat /\ 1 <= k /\ s.sent \in Nat /\ s.told \in Nat /\ s.sent < k
  BY OutputAssumption DEF Delivery, Sockets
<1>2. s # NoSocket
  BY SocketIsOne
<1>3. CASE ~s.open
  <2>1. Receives(s, chunk) = s
    BY <1>3 DEF Receives
  <2>2. Onward(s, s, k)
    BY <1>1, StaysOnward
  <2> QED
    BY <1>3, <2>1, <2>2 DEF Grown, SameViewer
<1>4. CASE s.open /\ s.buffered = 2
  <2> DEFINE held == s.skipped \cup {k}
             t == [s EXCEPT !.skipped = held]
  <2>1. Receives(s, chunk) = t
    BY <1>2, <1>4 DEF Receives
  <2>2. held \in SUBSET Nat
    BY <1>1 DEF Sockets
  <2> HIDE DEF held
  <2>3. /\ t \in Sockets /\ t.window = s.window /\ SameViewer(t, s) /\ t.open = s.open
        /\ t.sent = s.sent /\ t.told = s.told /\ t.skipped = held /\ t.lost = s.lost
    BY <2>2 DEF Sockets, SameViewer
  <2> HIDE DEF t
  <2>4. WindowFits(t)
    BY <2>3 DEF WindowFits, SameViewer
  <2>5. Onward(t, s, k)
    BY <1>1, <2>3 DEF Onward, held
  <2>6. NoGap(t, k)
    <3> SUFFICES ASSUME NEW i \in (t.sent + 1) .. k PROVE i <= t.told \/ i \in t.skipped
      BY DEF NoGap
    <3>1. CASE i = k
      BY <2>3, <3>1 DEF held
    <3>2. CASE i # k
      <4>1. i \in (s.sent + 1) .. (k - 1)
        BY <1>1, <2>3, <3>2
      <4> QED
        BY <1>4, <2>3, <4>1 DEF NoGap, held
    <3> QED
      BY <3>1, <3>2
  <2> QED
    BY <2>1, <2>3, <2>4, <2>5, <2>6 DEF Grown
<1>5. CASE s.open /\ s.buffered # 2
  <2> DEFINE t == SendChunk(s, chunk)
             gone == (Beyond(s) + 1) .. (k - 1)
  <2>1. Receives(s, chunk) = t
    BY <1>2, <1>5 DEF Receives
  <2>2. /\ t \in Sockets /\ WindowFits(t) /\ SameViewer(t, s)
        /\ \/ t.open /\ t.sent = k /\ t.told = 0 /\ t.skipped = {} /\ t.lost = s.lost \cup gone
           \/ /\ ~t.open /\ t.sent = s.sent /\ t.told = s.told
              /\ t.skipped = s.skipped /\ t.lost = s.lost
    BY <1>1, <1>5, SendFits
  <2> HIDE DEF t
  <2>3. CASE t.open /\ t.sent = k /\ t.skipped = {} /\ t.lost = s.lost \cup gone
    <3>1. ASSUME NEW i \in gone PROVE i \in s.skipped /\ s.sent < i /\ i < k
      <4>1. i \in (s.sent + 1) .. (k - 1) /\ ~(i <= s.told) /\ s.sent < i /\ i < k
        BY <1>1 DEF Beyond
      <4> QED
        BY <1>5, <4>1 DEF NoGap
    <3> HIDE DEF gone, k
    <3>2. Onward(t, s, k)
      BY <1>1, <2>3, <3>1 DEF Onward
    <3>3. NoGap(t, k)
      BY <1>1, <2>3 DEF NoGap
    <3> QED
      BY <2>1, <2>2, <3>2, <3>3 DEF Grown, k
  <2>4. CASE ~t.open /\ t.sent = s.sent /\ t.skipped = s.skipped /\ t.lost = s.lost
    <3>1. Onward(t, s, k)
      BY <1>1, <2>2, <2>4, StaysOnward
    <3> QED
      BY <2>1, <2>2, <2>4, <3>1 DEF Grown
  <2> QED
    BY <2>2, <2>3, <2>4
<1> QED
  BY <1>3, <1>4, <1>5

(* Its cursor follows: what it was sent, or what it consumed.              *)
LEMMA GrownViews ==
    ASSUME NEW s \in Sockets, NEW at \in Nat, at <= s.sent, s.flow => at = s.consumed,
           NEW n \in Nat, NEW t, Grown(t, s, n), NEW b \in 0 .. 2, NEW u,
           u = [t EXCEPT !.buffered = b], NEW to, to = IF t.flow THEN at ELSE t.sent
    PROVE  u \in Sockets /\ Viewing(u, to, n) /\ Onward(u, s, n) /\ at <= to /\ to \in Nat
<1>1. t \in Sockets /\ WindowFits(t) /\ SameViewer(t, s) /\ Onward(t, s, n)
  BY DEF Grown
<1>2. /\ u \in Sockets /\ u.open = t.open /\ u.flow = t.flow /\ u.consumed = t.consumed
      /\ u.window = t.window /\ u.sent = t.sent /\ u.told = t.told
      /\ u.skipped = t.skipped /\ u.lost = t.lost
  BY <1>1 DEF Sockets
<1>3. Onward(u, s, n)
  BY <1>1, <1>2 DEF Onward
<1>4. WindowFits(u)
  BY <1>1, <1>2 DEF WindowFits
<1>5. u.open => NoGap(u, n)
  BY <1>2 DEF Grown, NoGap
<1>6. /\ s.sent \in Nat /\ t.sent \in Nat /\ s.sent <= t.sent /\ t.sent <= n
      /\ at <= s.sent /\ (s.flow => at = s.consumed) /\ t.flow = s.flow
      /\ t.consumed = s.consumed
  BY <1>1 DEF Sockets, Onward, SameViewer
<1>7. /\ u.sent <= n /\ to <= u.sent /\ (u.flow => to = u.consumed) /\ at <= to /\ to \in Nat
  BY <1>2, <1>6
<1> QED
  BY <1>2, <1>3, <1>4, <1>5, <1>7 DEF Viewing

(* A set of naturals with a bound has a greatest member.                   *)
LEMMA GreatestMember ==
    ASSUME NEW T \in SUBSET Nat, T # {}, NEW n \in Nat, \A k \in T : k <= n
    PROVE  \E m \in T : \A k \in T : k <= m
<1> DEFINE U == {u \in Nat : \A k \in T : k <= u}
<1>1. U \in SUBSET Nat /\ n \in U
  OBVIOUS
<1> HIDE DEF U
<1>2. PICK m \in U : \A u \in U : m <= u
  BY <1>1, LeastMember
<1>3. m \in Nat /\ \A k \in T : k <= m
  BY <1>2 DEF U
<1>4. m \in T
  <2>1. SUFFICES ASSUME m \notin T PROVE FALSE
    OBVIOUS
  <2>2. \A k \in T : k <= m - 1
    BY <1>3, <2>1
  <2>3. m - 1 \in Nat
    <3>1. PICK k \in T : k <= m - 1
      BY <2>2
    <3>2. k \in Nat
      BY <3>1
    <3> QED
      BY <1>3, <3>1, <3>2
  <2>4. m - 1 \in U
    BY <2>2, <2>3 DEF U
  <2> QED
    BY <1>2, <1>3, <2>4
<1> QED
  BY <1>3, <1>4

\* What a viewer consumed when it parsed n frames of its window.
Parsed(s, n) == {s.consumed} \cup {s.window[i] : i \in 1 .. n}
Consumes(t, s, n, m) ==
  /\ m = CHOOSE p \in Parsed(s, n) : \A k \in Parsed(s, n) : k <= p
  /\ t = [s EXCEPT !.window = SubSeq(s.window, n + 1, Len(s.window)), !.consumed = m]

(* A viewer's consumed mark is the last chunk of which it parsed all, and   *)
(* its window holds later ones.                                            *)
LEMMA ParsedFits ==
    ASSUME NEW s \in Sockets, WindowFits(s), NEW n \in Nat, n <= Len(s.window),
           NEW m, NEW t, Consumes(t, s, n, m)
    PROVE  /\ m \in Nat /\ s.consumed <= m /\ m <= s.sent
           /\ t \in Sockets /\ WindowFits(t) /\ t.consumed = m /\ t.open = s.open
           /\ t.flow = s.flow /\ t.sent = s.sent /\ t.told = s.told
           /\ t.skipped = s.skipped /\ t.lost = s.lost
<1> DEFINE w == s.window
           x == SubSeq(s.window, n + 1, Len(s.window))
<1>1. /\ w \in Seq(Nat) /\ s.sent \in Nat /\ s.consumed \in Nat /\ Len(w) \in Nat
      /\ PendingMax \in Nat
  BY OutputAssumption DEF Sockets
<1>2. /\ Len(w) <= PendingMax /\ s.consumed <= s.sent
      /\ InOrder(w, Len(w), s.consumed, s.sent)
  BY WindowInOrder
<1>3. /\ x \in Seq(Nat) /\ Len(x) = Len(w) - n
      /\ \A i \in 1 .. (Len(w) - n) : x[i] = w[i + n]
  <2> DEFINE l == Len(w)
  <2>1. w \in Seq(Nat) /\ l = Len(w) /\ l \in Nat /\ n + 1 \in 1 .. (l + 1)
    BY <1>1
  <2>2. x = SubSeq(w, n + 1, l)
    OBVIOUS
  <2> HIDE DEF w, x
  <2>3. x \in Seq(Nat) /\ Len(x) = l - n
    BY <2>1, <2>2
  <2>4. ASSUME NEW i \in 1 .. (l - n) PROVE x[i] = w[i + n]
    BY <2>1, <2>2
  <2> QED
    BY <2>3, <2>4
<1>4. \A k \in Parsed(s, n) : k \in Nat /\ k <= s.sent
  <2>1. \A i \in 1 .. n : w[i] \in Nat /\ w[i] <= s.sent
    <3> SUFFICES ASSUME NEW i \in 1 .. n PROVE w[i] \in Nat /\ w[i] <= s.sent
      OBVIOUS
    <3>1. i \in 1 .. Len(w)
      BY <1>1
    <3>2. w[i] \in Nat
      BY <1>1, <3>1
    <3> QED
      BY <1>1, <1>2, <3>1, <3>2 DEF InOrder
  <2> QED
    BY <1>1, <1>2, <2>1 DEF Parsed
<1>5. m \in Parsed(s, n) /\ \A k \in Parsed(s, n) : k <= m
  <2> DEFINE T == Parsed(s, n)
  <2>1. T \in SUBSET Nat /\ T # {} /\ \A k \in T : k <= s.sent
    BY <1>4 DEF Parsed
  <2>2. m = CHOOSE p \in T : \A k \in T : k <= p
    BY DEF Consumes
  <2> HIDE DEF T
  <2>3. \E p \in T : \A k \in T : k <= p
    BY <1>1, <2>1, GreatestMember
  <2>4. m \in T /\ \A k \in T : k <= m
    BY <2>2, <2>3
  <2> QED
    BY <2>4 DEF T
<1>6. m \in Nat /\ s.consumed <= m /\ m <= s.sent
  BY <1>4, <1>5 DEF Parsed
<1>7. \A j \in (n + 1) .. Len(w) : w[j] # 0 => m < w[j]
  <2> SUFFICES ASSUME NEW j \in (n + 1) .. Len(w), w[j] # 0 PROVE m < w[j]
    OBVIOUS
  <2>1. j \in 1 .. Len(w) /\ w[j] \in Nat
    BY <1>1
  <2>2. CASE m = s.consumed
    BY <1>2, <2>1, <2>2 DEF InOrder
  <2>3. CASE \E i \in 1 .. n : m = w[i]
    <3>1. PICK i \in 1 .. n : m = w[i]
      BY <2>3
    <3>2. i \in 1 .. Len(w) /\ i < j
      BY <1>1, <2>1
    <3>3. m # 0 => w[i] < w[j]
      BY <1>2, <2>1, <3>1, <3>2 DEF InOrder
    <3>4. CASE m = 0
      BY <2>1, <3>4
    <3>5. CASE m # 0
      BY <3>1, <3>3, <3>5
    <3> QED
      BY <3>4, <3>5
  <2> QED
    BY <1>5, <2>2, <2>3 DEF Parsed
<1> HIDE DEF x
<1>8. /\ t \in Sockets /\ t.window = x /\ t.consumed = m /\ t.open = s.open
      /\ t.flow = s.flow /\ t.sent = s.sent /\ t.told = s.told
      /\ t.skipped = s.skipped /\ t.lost = s.lost
  <2>1. t = [s EXCEPT !.window = x, !.consumed = m]
    BY DEF x, Consumes
  <2> QED
    BY <1>3, <1>6, <2>1 DEF Sockets
<1>9. InOrder(x, Len(x), m, s.sent)
  <2> DEFINE l == Len(w)
  <2>1. l \in Nat /\ l - n \in Nat
    BY <1>1
  <2>2. Len(x) = l - n /\ \A i \in 1 .. (l - n) : x[i] = w[i + n]
    BY <1>3
  <2>3. \A i \in 1 .. l : w[i] # 0 => w[i] <= s.sent
    BY <1>2 DEF InOrder
  <2>4. \A i, j \in 1 .. l : i < j /\ w[i] # 0 /\ w[j] # 0 => w[i] < w[j]
    BY <1>2 DEF InOrder
  <2>5. \A j \in (n + 1) .. l : w[j] # 0 => m < w[j]
    BY <1>7
  <2> HIDE DEF l, w
  <2>6. ASSUME NEW i \in 1 .. (l - n), x[i] # 0 PROVE m < x[i] /\ x[i] <= s.sent
    <3>1. i + n \in (n + 1) .. l /\ i + n \in 1 .. l
      BY <2>1
    <3> QED
      BY <2>2, <2>3, <2>5, <2>6, <3>1
  <2>7. ASSUME NEW i \in 1 .. (l - n), NEW j \in 1 .. (l - n), i < j, x[i] # 0, x[j] # 0
        PROVE  x[i] < x[j]
    <3>1. i + n \in 1 .. l /\ j + n \in 1 .. l /\ i + n < j + n
      BY <2>1, <2>7
    <3> QED
      BY <2>2, <2>4, <2>7, <3>1
  <2> QED
    BY <2>2, <2>6, <2>7 DEF InOrder
<1>10. WindowFits(t)
  <2>1. Len(t.window) <= PendingMax
    BY <1>1, <1>2, <1>3, <1>8
  <2>2. t.consumed <= t.sent /\ InOrder(t.window, Len(t.window), t.consumed, t.sent)
    BY <1>6, <1>8, <1>9
  <2> QED
    BY <2>1, <2>2, WindowInOrder
<1> QED
  BY <1>6, <1>8, <1>10

-----------------------------------------------------------------------------
(* The step of one client                                                  *)

\* Each attached viewer is somewhere in the log and misses nothing silently while its
\* socket keeps up; the ring holds the end of the log.
Delivered ==
  /\ Ringed /\ next <= MaxChunks + 1
  /\ forgotten \in BOOLEAN /\ listening \in BOOLEAN
  /\ sockets \in [Clients -> Sockets \cup {NoSocket}]
  /\ cursor \in [Clients -> Nat]
  /\ \A c \in Clients :
       /\ cursor[c] <= next - 1
       /\ sockets[c] # NoSocket => Viewing(sockets[c], cursor[c], next - 1)

\* What a step may make of one client: its socket goes on, or is a new one, or there
\* is none.
Follows(c) ==
  \/ /\ sockets'[c] \in Sockets /\ Viewing(sockets'[c], cursor'[c], next' - 1)
     /\ cursor[c] <= cursor'[c] /\ cursor'[c] \in Nat
     /\ \/ sockets[c] \in Sockets /\ Onward(sockets'[c], sockets[c], next' - 1)
        \/ next' = next /\ sockets'[c].skipped = {} /\ sockets'[c].lost = {}
  \/ sockets'[c] = NoSocket /\ cursor'[c] \in {cursor[c], 0}

Mapped ==
  /\ sockets' = [c \in Clients |-> sockets'[c]]
  /\ cursor' = [c \in Clients |-> cursor'[c]]

\* A step that touches one client.
Changed(c, t, to) ==
  sockets' = [sockets EXCEPT ![c] = t] /\ cursor' = [cursor EXCEPT ![c] = to]

\* And one that ends the terminal.
Vanished == /\ sockets' = [c \in Clients |-> NoSocket]
            /\ cursor' = [c \in Clients |-> 0]

(* Sockets are Sockets or none.                                            *)
LEMMA SocketTypes ==
    ASSUME Delivered, NEW c \in Clients
    PROVE  /\ cursor[c] \in Nat /\ next \in Nat /\ next - 1 \in Nat /\ cursor[c] <= next - 1
           /\ \/ sockets[c] = NoSocket
              \/ /\ sockets[c] # NoSocket /\ sockets[c] \in Sockets
                 /\ Viewing(sockets[c], cursor[c], next - 1)
  BY DEF Delivered, Ringed

(* What Sends does to one client.                                          *)
LEMMA SendsFits ==
    ASSUME NEW before, NEW after, Sends(before, after), NEW c \in Clients
    PROVE  \/ after[c] = NoSocket /\ sockets'[c] = NoSocket /\ cursor'[c] = cursor[c]
           \/ /\ after[c] # NoSocket
              /\ cursor'[c] = IF after[c].flow THEN cursor[c] ELSE after[c].sent
              /\ \E b \in 0 .. 2 : sockets'[c] = [after[c] EXCEPT !.buffered = b]
<1>1. PICK b \in [Clients -> 0 .. 2] :
        sockets' = [d \in Clients |-> IF after[d] = NoSocket THEN NoSocket
                                       ELSE [after[d] EXCEPT !.buffered = b[d]]]
  BY DEF Sends
<1>2. cursor' = [d \in Clients |-> IF after[d] = NoSocket \/ after[d].flow THEN cursor[d]
                                    ELSE after[d].sent]
  BY DEF Sends, Cursors
<1>3. b[c] \in 0 .. 2
  BY <1>1
<1>4. sockets'[c] = IF after[c] = NoSocket THEN NoSocket ELSE [after[c] EXCEPT !.buffered = b[c]]
  BY <1>1
<1>5. cursor'[c] = IF after[c] = NoSocket \/ after[c].flow THEN cursor[c] ELSE after[c].sent
  BY <1>2
<1> QED
  BY <1>3, <1>4, <1>5

(* And to all of them.                                                     *)
LEMMA SendsMapped ==
    ASSUME NEW before, NEW after, Sends(before, after)
    PROVE  Mapped
<1>1. PICK b :
        sockets' = [d \in Clients |-> IF after[d] = NoSocket THEN NoSocket
                                       ELSE [after[d] EXCEPT !.buffered = b[d]]]
  BY DEF Sends
<1>2. cursor' = [d \in Clients |-> IF after[d] = NoSocket \/ after[d].flow THEN cursor[d]
                                    ELSE after[d].sent]
  BY DEF Sends, Cursors
<1>3. sockets' = [d \in Clients |-> sockets'[d]]
  BY <1>1
<1>4. cursor' = [d \in Clients |-> cursor'[d]]
  BY <1>2
<1> QED
  BY <1>3, <1>4 DEF Mapped

(* A client that is sent more of the log follows it.                       *)
LEMMA GrowthFollows ==
    ASSUME Delivered, NEW before, NEW after, Sends(before, after), NEW c \in Clients,
           next' - 1 \in Nat,
           \/ after[c] = NoSocket
           \/ sockets[c] \in Sockets /\ Grown(after[c], sockets[c], next' - 1)
    PROVE  Follows(c)
<1> DEFINE n == next' - 1
           t == after[c]
           to == cursor'[c]
           u == sockets'[c]
<1>1. CASE t = NoSocket
  BY <1>1, SendsFits DEF Follows
<1>2. CASE t # NoSocket
  <2>1. sockets[c] \in Sockets /\ Grown(t, sockets[c], n) /\ n \in Nat
    BY <1>2
  <2>0. /\ to = IF t.flow THEN cursor[c] ELSE t.sent
        /\ \E b \in 0 .. 2 : u = [t EXCEPT !.buffered = b]
    BY <1>2, SendsFits
  <2>2. PICK b \in 0 .. 2 : u = [t EXCEPT !.buffered = b]
    BY <2>0
  <2>3. to = IF t.flow THEN cursor[c] ELSE t.sent
    BY <2>0
  <2>4. sockets[c] # NoSocket
    BY <2>1, SocketIsOne
  <2>5. /\ cursor[c] \in Nat /\ cursor[c] <= sockets[c].sent
        /\ sockets[c].flow => cursor[c] = sockets[c].consumed
    BY <2>4, SocketTypes DEF Viewing
  <2> DEFINE s == sockets[c]
             at == cursor[c]
  <2> HIDE DEF n, t, to, u, s, at
  <2>6. /\ s \in Sockets /\ at \in Nat /\ at <= s.sent /\ (s.flow => at = s.consumed)
        /\ n \in Nat /\ Grown(t, s, n)
    BY <2>1, <2>5 DEF s, at
  <2>7. to = IF t.flow THEN at ELSE t.sent
    BY <2>3 DEF at
  <2>8. u \in Sockets /\ Viewing(u, to, n) /\ Onward(u, s, n) /\ at <= to /\ to \in Nat
    BY <2>2, <2>6, <2>7, GrownViews
  <2> QED
    BY <2>6, <2>8 DEF Follows, n, to, u, s, at
<1> QED
  BY <1>1, <1>2

(* A client that nothing touches follows.                                  *)
LEMMA QuietFollows ==
    ASSUME Delivered, NEW c \in Clients, next' = next,
           sockets'[c] = sockets[c], cursor'[c] = cursor[c]
    PROVE  Follows(c)
<1>1. CASE sockets[c] = NoSocket
  BY <1>1 DEF Follows
<1>2. CASE sockets[c] # NoSocket
  <2>1. /\ sockets[c] \in Sockets /\ Viewing(sockets[c], cursor[c], next - 1)
        /\ next - 1 \in Nat /\ cursor[c] \in Nat
    BY <1>2, SocketTypes
  <2>2. Onward(sockets[c], sockets[c], next - 1)
    BY <2>1, StaysOnward DEF Viewing
  <2> QED
    BY <2>1, <2>2 DEF Follows
<1> QED
  BY <1>1, <1>2

(* A step that touches one client.                                         *)
LEMMA ChangedFollows ==
    ASSUME Delivered, NEW c \in Clients, next' = next, NEW t, NEW to, Changed(c, t, to),
           \/ t = NoSocket /\ to = cursor[c]
           \/ /\ sockets[c] \in Sockets /\ t \in Sockets /\ to \in Nat /\ cursor[c] <= to
              /\ Viewing(t, to, next - 1) /\ Onward(t, sockets[c], next - 1)
    PROVE  Mapped /\ \A d \in Clients : Follows(d)
<1>1. /\ sockets' = [sockets EXCEPT ![c] = t] /\ cursor' = [cursor EXCEPT ![c] = to]
      /\ sockets \in [Clients -> Sockets \cup {NoSocket}] /\ cursor \in [Clients -> Nat]
  BY DEF Changed, Delivered
<1>2. Mapped
  BY <1>1 DEF Mapped
<1>3. /\ sockets'[c] = t /\ cursor'[c] = to
      /\ \A d \in Clients \ {c} : sockets'[d] = sockets[d] /\ cursor'[d] = cursor[d]
  BY <1>1
<1>4. Follows(c)
  BY <1>3 DEF Follows
<1>5. ASSUME NEW d \in Clients \ {c} PROVE Follows(d)
  BY <1>3, QuietFollows
<1> QED
  BY <1>2, <1>4, <1>5

-----------------------------------------------------------------------------
(* The actions                                                             *)

(* attach starts the new socket after the client's cursor and replays.     *)
LEMMA AttachFollows ==
    ASSUME Delivered, NEW c \in Clients, Attach(c)
    PROVE  Mapped /\ \A d \in Clients : Follows(d)
<1> DEFINE s == Attachment(c \in Negotiated, cursor[c])
           fresh == [sockets EXCEPT ![c] = s]
           after == [fresh EXCEPT ![c] = Replayed(@)]
<1>1. Sends(fresh, after) /\ next' = next
  BY DEF Attach
<1>2. /\ sockets \in [Clients -> Sockets \cup {NoSocket}] /\ Ringed
      /\ next - 1 \in Nat /\ cursor[c] \in Nat /\ cursor[c] <= next - 1
  BY SocketTypes DEF Delivered
<1>3. after[c] = Replayed(s) /\ \A d \in Clients \ {c} : after[d] = sockets[d]
  BY <1>2
<1>4. /\ s \in Sockets /\ s.sent = cursor[c] /\ s.skipped = {} /\ s.lost = {}
      /\ s.window = <<>> /\ s.consumed = IF s.flow THEN cursor[c] ELSE 0
  <2> DEFINE flow == c \in Negotiated
             at == cursor[c]
  <2>1. flow \in BOOLEAN /\ at \in Nat /\ (IF flow THEN at ELSE 0) \in Nat
    BY <1>2
  <2>2. <<>> \in Seq(Nat) /\ {} \in SUBSET Nat /\ 0 \in 0 .. 2 /\ 0 \in Nat
    OBVIOUS
  <2>3. s = [open |-> TRUE, flow |-> flow, sent |-> at, consumed |-> IF flow THEN at ELSE 0,
             window |-> <<>>, buffered |-> 0, skipped |-> {}, told |-> 0, lost |-> {}]
    BY DEF Attachment
  <2> HIDE DEF s, flow, at
  <2> QED
    BY <2>1, <2>2, <2>3 DEF Sockets, at
<1> HIDE DEF after, fresh, s
<1>5. WindowFits(s)
  BY <1>2, <1>4, OutputAssumption DEF WindowFits
<1> DEFINE t == Replayed(s)
<1>6. Advanced(t, s)
  BY <1>2, <1>4, <1>5, ReplayedFits
<1>7. Grown(t, s, next - 1)
  BY <1>2, <1>4, <1>5, ReplayedGrows
<1> HIDE DEF t
<1>8. t.skipped = {} /\ t.lost = {} /\ t \in Sockets
  BY <1>4, <1>6 DEF Advanced
<1>9. Follows(c)
  <2> DEFINE u == sockets'[c]
             to == cursor'[c]
             n == next - 1
             at == cursor[c]
  <2>1. t # NoSocket
    BY <1>8, SocketIsOne
  <2>0. after[c] = t
    BY <1>3 DEF t
  <2>2. PICK b \in 0 .. 2 : u = [t EXCEPT !.buffered = b]
    BY <1>1, <2>0, <2>1, SendsFits
  <2>3. to = IF t.flow THEN at ELSE t.sent
    BY <1>1, <2>0, <2>1, SendsFits
  <2>4. /\ at \in Nat /\ at <= s.sent /\ (s.flow => at = s.consumed) /\ n \in Nat
        /\ Grown(t, s, n)
    BY <1>2, <1>4, <1>7
  <2> HIDE DEF u, to, n, at
  <2>5. u \in Sockets /\ Viewing(u, to, n) /\ at <= to /\ to \in Nat
    BY <1>4, <2>2, <2>3, <2>4, GrownViews
  <2>6. u.skipped = t.skipped /\ u.lost = t.lost
    BY <1>8, <2>2 DEF Sockets
  <2>7. n = next' - 1
    BY <1>1 DEF n
  <2>8. /\ u \in Sockets /\ Viewing(u, to, next' - 1) /\ at <= to /\ to \in Nat
        /\ u.skipped = {} /\ u.lost = {}
    BY <1>8, <2>5, <2>6, <2>7
  <2> QED
    BY <1>1, <2>8 DEF Follows, u, to, at
<1>10. ASSUME NEW d \in Clients \ {c} PROVE Follows(d)
  <2>1. CASE sockets[d] = NoSocket
    <3>1. after[d] = NoSocket /\ next' - 1 \in Nat
      BY <1>1, <1>2, <1>3, <2>1
    <3> QED
      BY <1>1, <3>1, GrowthFollows
  <2>2. CASE sockets[d] # NoSocket
    <3>1. sockets[d] \in Sockets /\ Viewing(sockets[d], cursor[d], next - 1)
      BY <2>2, SocketTypes
    <3>2. Onward(sockets[d], sockets[d], next - 1)
      BY <1>2, <3>1, StaysOnward DEF Viewing
    <3>3. Grown(sockets[d], sockets[d], next' - 1) /\ next' - 1 \in Nat
      BY <1>1, <1>2, <3>1, <3>2 DEF Grown, Viewing, SameViewer
    <3>4. after[d] = sockets[d]
      BY <1>3
    <3> QED
      BY <1>1, <3>1, <3>3, <3>4, GrowthFollows
  <2> QED
    BY <2>1, <2>2
<1>11. Mapped
  BY <1>1, SendsMapped
<1> QED
  BY <1>9, <1>10, <1>11

(* An acknowledgement moves the cursor to what was parsed.                 *)
LEMMA AcknowledgeFollows ==
    ASSUME Delivered, NEW c \in Clients, NEW n \in Nat, Acknowledge(c, n)
    PROVE  Mapped /\ \A d \in Clients : Follows(d)
<1> DEFINE s == sockets[c]
           m == CHOOSE p \in Parsed(s, n) : \A k \in Parsed(s, n) : k <= p
           t == [s EXCEPT !.window = SubSeq(s.window, n + 1, Len(s.window)), !.consumed = m]
           socks == [sockets EXCEPT ![c].window = SubSeq(@, n + 1, Len(@)), ![c].consumed = m]
<1>1. /\ sockets[c] # NoSocket /\ s.flow /\ n <= Len(s.window) /\ next' = next
      /\ sockets' = socks /\ cursor' = [cursor EXCEPT ![c] = socks[c].consumed]
  BY DEF Acknowledge, Attached, Parsed
<1>2. /\ s \in Sockets /\ Viewing(s, cursor[c], next - 1)
      /\ next - 1 \in Nat /\ cursor[c] \in Nat
  BY <1>1, SocketTypes
<1>3. Consumes(t, s, n, m)
  BY DEF Consumes
<1>4. sockets \in [Clients -> Sockets \cup {NoSocket}]
  BY DEF Delivered
<1>5. socks = [sockets EXCEPT ![c] = t]
  <2> DEFINE x == SubSeq(s.window, n + 1, Len(s.window))
  <2>1. socks = [sockets EXCEPT ![c].window = x, ![c].consumed = m]
    OBVIOUS
  <2>2. t = [s EXCEPT !.window = x, !.consumed = m]
    OBVIOUS
  <2> HIDE DEF x, m, t, socks
  <2> QED
    BY <1>4, <2>1, <2>2
<1>6. socks[c] = t
  BY <1>4, <1>5
<1> HIDE DEF t, m, socks
<1>7. /\ m \in Nat /\ s.consumed <= m /\ m <= s.sent
      /\ t \in Sockets /\ WindowFits(t) /\ t.consumed = m /\ t.open = s.open
      /\ t.flow = s.flow /\ t.sent = s.sent /\ t.told = s.told
      /\ t.skipped = s.skipped /\ t.lost = s.lost
  <2> HIDE DEF s
  <2>1. s \in Sockets /\ WindowFits(s) /\ n \in Nat /\ n <= Len(s.window)
    BY <1>1, <1>2 DEF Viewing
  <2> QED
    BY <1>3, <2>1, ParsedFits
<1>8. Changed(c, t, m)
  BY <1>1, <1>5, <1>6, <1>7 DEF Changed
<1>9. Viewing(t, m, next - 1)
  BY <1>2, <1>7 DEF Viewing, NoGap
<1>10. Onward(t, s, next - 1)
  BY <1>2, <1>7, StaysOnward DEF Viewing
<1>11. cursor[c] <= m
  BY <1>1, <1>2, <1>7 DEF Viewing
<1> QED
  BY <1>1, <1>2, <1>7, <1>8, <1>9, <1>10, <1>11, ChangedFollows

\* Only whether a socket is open, and what it buffers, changed.
Reopened(t, s, open, b) == t = [s EXCEPT !.open = open, !.buffered = b]

(* A socket closes by an acknowledgement, drains, or goes.                 *)
LEMMA SocketFollows ==
    ASSUME Delivered, NEW c \in Clients, Misacknowledge(c) \/ Drain(c) \/ Detach(c)
    PROVE  Mapped /\ \A d \in Clients : Follows(d)
<1> DEFINE s == sockets[c]
<1>0. s # NoSocket /\ next' = next /\ cursor' = cursor
  BY DEF Misacknowledge, Drain, Detach, Attached
<1>1. /\ s \in Sockets /\ Viewing(s, cursor[c], next - 1)
      /\ next - 1 \in Nat /\ cursor[c] \in Nat /\ cursor \in [Clients -> Nat]
      /\ sockets \in [Clients -> Sockets \cup {NoSocket}]
  BY <1>0, SocketTypes DEF Delivered
<1>2. cursor' = [cursor EXCEPT ![c] = cursor[c]]
  BY <1>0, <1>1
<1>3. ASSUME NEW t, NEW open \in BOOLEAN, NEW b \in 0 .. 2, Reopened(t, s, open, b), open => s.open,
             sockets' = [sockets EXCEPT ![c] = t]
      PROVE  Mapped /\ \A d \in Clients : Follows(d)
  <2>1. Changed(c, t, cursor[c])
    BY <1>2, <1>3 DEF Changed
  <2>2. /\ t \in Sockets /\ t.window = s.window /\ t.consumed = s.consumed /\ t.flow = s.flow
        /\ t.sent = s.sent /\ t.told = s.told /\ t.skipped = s.skipped /\ t.lost = s.lost
        /\ t.open = open
    <3> HIDE DEF s
    <3>1. s \in Sockets
      BY <1>1
    <3>2. t = [s EXCEPT !.open = open, !.buffered = b]
      BY <1>3 DEF Reopened
    <3> QED
      BY <3>1, <3>2 DEF Sockets
  <2>3. Viewing(t, cursor[c], next - 1)
    BY <1>1, <1>3, <2>2 DEF Viewing, WindowFits, NoGap
  <2>4. Onward(t, s, next - 1)
    BY <1>1, <2>2, StaysOnward DEF Viewing
  <2>5. cursor[c] <= cursor[c]
    BY <1>1
  <2> QED
    BY <1>0, <1>1, <2>1, <2>2, <2>3, <2>4, <2>5, ChangedFollows
<1>4. CASE Misacknowledge(c)
  <2> DEFINE t == [s EXCEPT !.open = FALSE]
  <2>1. sockets' = [sockets EXCEPT ![c] = t]
    BY <1>4 DEF Misacknowledge
  <2>2. Reopened(t, s, FALSE, s.buffered) /\ s.buffered \in 0 .. 2
    BY <1>1 DEF Reopened, Sockets
  <2> HIDE DEF t
  <2> QED
    BY <1>3, <2>1, <2>2
<1>5. CASE Drain(c)
  <2> DEFINE t == [s EXCEPT !.buffered = @ - 1]
  <2>1. sockets' = [sockets EXCEPT ![c] = t] /\ s.buffered > 0
    BY <1>5 DEF Drain
  <2>2. s \in Sockets /\ s.open \in BOOLEAN /\ s.buffered \in 0 .. 2
    BY <1>1 DEF Sockets
  <2>3. s.buffered - 1 \in 0 .. 2
    BY <2>1, <2>2
  <2>4. Reopened(t, s, s.open, s.buffered - 1)
    BY <2>2 DEF Reopened, Sockets
  <2> HIDE DEF t
  <2> QED
    BY <1>3, <2>1, <2>2, <2>3, <2>4
<1>6. CASE Detach(c)
  <2>1. Changed(c, NoSocket, cursor[c])
    BY <1>2, <1>6 DEF Detach, Changed
  <2> QED
    BY <1>0, <2>1, ChangedFollows
<1> QED
  BY <1>4, <1>5, <1>6

(* The timer of broadcast() replays to every socket, or to none.           *)
LEMMA TimerFollows ==
    ASSUME Delivered, TimerEnds
    PROVE  (Mapped \/ UNCHANGED <<sockets, cursor>>) /\ \A d \in Clients : Follows(d)
<1> DEFINE socks == [c \in Clients |-> IF sockets[c] = NoSocket THEN NoSocket
                                       ELSE Replayed(sockets[c])]
<1>1. next' = next /\ (UNCHANGED <<sockets, cursor>> \/ Sends(sockets, socks))
  BY DEF TimerEnds
<1>2. \A c \in Clients : socks[c] = IF sockets[c] = NoSocket THEN NoSocket
                                    ELSE Replayed(sockets[c])
  OBVIOUS
<1> HIDE DEF socks
<1>3. CASE UNCHANGED <<sockets, cursor>>
  BY <1>1, <1>3, QuietFollows
<1>4. CASE Sends(sockets, socks)
  <2>1. Mapped
    BY <1>4, SendsMapped
  <2>2. ASSUME NEW c \in Clients PROVE Follows(c)
    <3>1. next' - 1 \in Nat /\ next' - 1 = next - 1
      BY <1>1, SocketTypes
    <3>2. CASE sockets[c] = NoSocket
      BY <1>2, <1>4, <3>1, <3>2, GrowthFollows
    <3>3. CASE sockets[c] # NoSocket
      <4>1. sockets[c] \in Sockets /\ WindowFits(sockets[c]) /\ sockets[c].sent <= next - 1
        BY <3>3, SocketTypes DEF Viewing
      <4>2. Grown(Replayed(sockets[c]), sockets[c], next - 1)
        BY <4>1, ReplayedGrows DEF Delivered
      <4>3. Grown(socks[c], sockets[c], next' - 1)
        BY <1>2, <3>1, <3>3, <4>2
      <4> QED
        BY <1>4, <3>1, <4>1, <4>3, GrowthFollows
    <3> QED
      BY <3>2, <3>3
  <2> QED
    BY <2>1, <2>2
<1> QED
  BY <1>1, <1>3, <1>4

(* broadcast() gives each socket the chunk and puts it into the ring.      *)
LEMMA BroadcastFollows ==
    ASSUME Delivered, NEW size, Broadcast(size)
    PROVE  /\ Mapped /\ \A c \in Clients : Follows(c)
           /\ Ringed' /\ next' = next + 1 /\ next' <= MaxChunks + 1
           /\ forgotten' \in BOOLEAN /\ listening' \in BOOLEAN
<1> DEFINE chunk == [sequence |-> next, size |-> size]
           socks == [c \in Clients |-> Receives(sockets[c], chunk)]
<1>1. /\ next <= MaxChunks /\ size \in Sizes[next] /\ recent' = Ring(chunk)
      /\ forgotten' = (forgotten \/ Drops(chunk)) /\ next' = next + 1
      /\ Sends(sockets, socks) /\ listening' = listening
  BY DEF Broadcast
<1>2. next \in Nat /\ 1 <= next /\ MaxChunks \in Nat /\ Ringed
  BY OutputAssumption DEF Delivered, Ringed
<1>3. chunk \in Delivery /\ chunk.sequence = next
  <2>1. next \in 1 .. MaxChunks
    BY <1>1, <1>2
  <2>2. size \in Nat \ {0}
    BY <1>1, <2>1, OutputAssumption
  <2> QED
    BY <2>1, <2>2 DEF Delivery
<1>4. \A c \in Clients : socks[c] = Receives(sockets[c], chunk)
  OBVIOUS
<1> HIDE DEF chunk, socks
<1>5. Ringed'
  <2> DEFINE n == next - 1
  <2>1. n \in Nat /\ n + 1 = next /\ n + 1 = next' - 1
    BY <1>1, <1>2
  <2>2. recent \in Seq(Chunks) /\ Contiguous(recent, n) /\ (~forgotten => Len(recent) = n)
    BY DEF Delivered, Ringed
  <2> HIDE DEF n
  <2>3. chunk.sequence = n + 1
    BY <1>3, <2>1
  <2>4. /\ Ring(chunk) \in Seq(Chunks) /\ Contiguous(Ring(chunk), n + 1)
        /\ ~Drops(chunk) => Len(Ring(chunk)) = Len(recent) + 1
    BY <1>3, <2>1, <2>2, <2>3, RingFits
  <2>5. recent' \in Seq(Chunks) /\ Contiguous(recent', next' - 1)
    BY <1>1, <2>1, <2>4
  <2>6. ~forgotten' => Len(recent') = next' - 1
    BY <1>1, <2>1, <2>2, <2>4
  <2>7. next' \in Nat /\ 1 <= next'
    BY <1>1, <1>2
  <2> QED
    BY <2>5, <2>6, <2>7 DEF Ringed, Contiguous
<1>6. ASSUME NEW c \in Clients PROVE Follows(c)
  <2>1. next' - 1 \in Nat /\ next' - 1 = chunk.sequence /\ chunk.sequence - 1 = next - 1
    BY <1>1, <1>2, <1>3
  <2>2. CASE sockets[c] = NoSocket
    <3>1. socks[c] = NoSocket
      BY <1>4, <2>2 DEF Receives
    <3> QED
      BY <1>1, <2>1, <3>1, GrowthFollows
  <2>3. CASE sockets[c] # NoSocket
    <3>1. /\ sockets[c] \in Sockets /\ WindowFits(sockets[c])
          /\ sockets[c].sent <= chunk.sequence - 1
          /\ sockets[c].open => NoGap(sockets[c], chunk.sequence - 1)
      BY <2>1, <2>3, SocketTypes DEF Viewing
    <3>2. Grown(socks[c], sockets[c], chunk.sequence)
      BY <1>3, <1>4, <3>1, ReceivesGrows
    <3>3. Grown(socks[c], sockets[c], next' - 1)
      BY <2>1, <3>2
    <3> QED
      BY <1>1, <2>1, <3>1, <3>3, GrowthFollows
  <2> QED
    BY <2>2, <2>3
<1>7. Mapped
  BY <1>1, SendsMapped
<1>8. next' <= MaxChunks + 1 /\ forgotten' \in BOOLEAN /\ listening' \in BOOLEAN
  BY <1>1, <1>2 DEF Delivered
<1> QED
  BY <1>1, <1>5, <1>6, <1>7, <1>8

-----------------------------------------------------------------------------
(* The invariant and the theorems                                          *)

\* A step lets the log grow by a chunk or not, and every client follows.
Seen == next' \in {next, next + 1} /\ \A c \in Clients : Follows(c)

(* When every client follows, the invariant is kept.                       *)
LEMMA FollowedDelivers ==
    ASSUME Delivered, Mapped \/ UNCHANGED <<sockets, cursor>> \/ Vanished, Seen,
           Ringed', next' <= MaxChunks + 1, forgotten' \in BOOLEAN, listening' \in BOOLEAN
    PROVE  Delivered'
<1>1. /\ sockets' = [c \in Clients |-> sockets'[c]] /\ cursor' = [c \in Clients |-> cursor'[c]]
      /\ next \in Nat /\ next' \in Nat /\ 1 <= next
  BY DEF Mapped, Delivered, Vanished, Seen, Ringed
<1>2. ASSUME NEW c \in Clients
      PROVE  /\ sockets'[c] \in Sockets \cup {NoSocket} /\ cursor'[c] \in Nat
             /\ cursor'[c] <= next' - 1
             /\ sockets'[c] # NoSocket => Viewing(sockets'[c], cursor'[c], next' - 1)
  <2>1. cursor[c] \in Nat /\ cursor[c] <= next - 1
    BY SocketTypes
  <2>2. CASE sockets'[c] = NoSocket /\ cursor'[c] \in {cursor[c], 0}
    BY <1>1, <2>1, <2>2 DEF Seen
  <2>3. CASE /\ sockets'[c] \in Sockets /\ Viewing(sockets'[c], cursor'[c], next' - 1)
             /\ cursor'[c] \in Nat
    <3>1. cursor'[c] <= sockets'[c].sent /\ sockets'[c].sent <= next' - 1
      BY <2>3 DEF Viewing
    <3>2. sockets'[c].sent \in Nat
      BY <2>3 DEF Sockets
    <3> QED
      BY <1>1, <2>3, <3>1, <3>2
  <2> QED
    BY <2>2, <2>3 DEF Seen, Follows
<1>3. sockets' \in [Clients -> Sockets \cup {NoSocket}] /\ cursor' \in [Clients -> Nat]
  BY <1>1, <1>2
<1> QED
  BY <1>2, <1>3 DEF Delivered, Viewing, WindowFits, NoGap

(* Every step keeps it, and every client follows.                          *)
LEMMA DeliveredStep ==
    ASSUME Delivered, [Next]_vars
    PROVE  Delivered' /\ Seen
<1>1. /\ Ringed /\ next \in Nat /\ next <= MaxChunks + 1
      /\ forgotten \in BOOLEAN /\ listening \in BOOLEAN
  BY DEF Delivered, Ringed
<1>s. ASSUME UNCHANGED <<recent, forgotten, next>>, listening' \in BOOLEAN,
             Mapped \/ UNCHANGED <<sockets, cursor>> \/ Vanished, \A c \in Clients : Follows(c)
      PROVE  Delivered' /\ Seen
  <2>1. Ringed' /\ next' <= MaxChunks + 1 /\ forgotten' \in BOOLEAN
    BY <1>1, <1>s DEF Ringed, Contiguous
  <2>2. Seen
    BY <1>s DEF Seen
  <2> QED
    BY <1>s, <2>1, <2>2, FollowedDelivers
<1>q. ASSUME UNCHANGED <<recent, forgotten, next, listening, sockets, cursor>>
      PROVE  Delivered' /\ Seen
  BY <1>1, <1>q, <1>s, QuietFollows
<1>v. ASSUME UNCHANGED <<recent, forgotten, next>>, listening' = FALSE, Vanished
      PROVE  Delivered' /\ Seen
  <2>1. \A c \in Clients : Follows(c)
    BY <1>v DEF Vanished, Follows
  <2> QED
    BY <1>v, <1>s, <2>1
<1>2. ASSUME NEW size, Broadcast(size) PROVE Delivered' /\ Seen
  <2>1. /\ Mapped /\ \A c \in Clients : Follows(c)
        /\ Ringed' /\ next' = next + 1 /\ next' <= MaxChunks + 1
        /\ forgotten' \in BOOLEAN /\ listening' \in BOOLEAN
    BY <1>2, BroadcastFollows
  <2>2. Seen
    BY <2>1 DEF Seen
  <2> QED
    BY <2>1, <2>2, FollowedDelivers
<1>3. CASE TimerEnds
  <2>1. UNCHANGED <<recent, forgotten, next, listening>>
    BY <1>3 DEF TimerEnds
  <2> QED
    BY <1>1, <1>3, <1>s, <2>1, TimerFollows
<1>4. ASSUME NEW c \in Clients, Viewer(c) PROVE Delivered' /\ Seen
  <2>1. UNCHANGED <<recent, forgotten, next, listening>>
    BY <1>4 DEF Viewer, Attach, Consume, Acknowledge, Misacknowledge, Drain, Detach
  <2>2. Mapped /\ \A d \in Clients : Follows(d)
    <3>1. CASE Attach(c)
      BY <3>1, AttachFollows
    <3>2. CASE Consume(c)
      <4>1. PICK n \in 1 .. PendingMax : Acknowledge(c, n)
        BY <3>2 DEF Consume
      <4>2. n \in Nat
        BY OutputAssumption
      <4> QED
        BY <4>1, <4>2, AcknowledgeFollows
    <3>3. CASE Misacknowledge(c) \/ Drain(c) \/ Detach(c)
      BY <3>3, SocketFollows
    <3> QED
      BY <1>4, <3>1, <3>2, <3>3 DEF Viewer
  <2> QED
    BY <1>1, <1>s, <2>1, <2>2
<1>5. ASSUME NEW r \in Recordings, StartRecording(r) \/ OpenFails(r) \/ Opened(r) \/ Parse(r)
      PROVE  Delivered' /\ Seen
  BY <1>5, <1>q DEF StartRecording, OpenFails, Opened, Parse
<1>6. ASSUME NEW r, NEW src, WriterClosed(r, src) PROVE Delivered' /\ Seen
  <2>1. UNCHANGED <<recent, forgotten, next>>
    BY <1>6 DEF WriterClosed
  <2>2. \/ UNCHANGED <<listening, sockets, cursor>>
        \/ listening' = FALSE /\ Vanished
    BY <1>6 DEF WriterClosed, Finish, Vanished
  <2> QED
    BY <1>q, <1>v, <2>1, <2>2
<1>7. ASSUME NEW r \in Recordings, Stopped(r) PROVE Delivered' /\ Seen
  BY <1>6, <1>7 DEF Stopped
<1>8. ASSUME NEW r \in Recordings, WriterFails(r) PROVE Delivered' /\ Seen
  BY <1>6, <1>8, <1>q DEF WriterFails
<1>9. CASE StopRecording
  BY <1>9, <1>q DEF StopRecording
<1>10. CASE Exit \/ Close
  <2>1. UNCHANGED <<recent, forgotten, next>>
    BY <1>10 DEF Exit, Close
  <2>2. \/ UNCHANGED <<listening, sockets, cursor>>
        \/ listening' = FALSE /\ Vanished
    BY <1>10 DEF Exit, Close, Finish, Vanished
  <2> QED
    BY <1>q, <1>v, <2>1, <2>2
<1>11. CASE UNCHANGED vars
  BY <1>11, <1>q DEF vars
<1> QED
  BY <1>2, <1>3, <1>4, <1>5, <1>7, <1>8, <1>9, <1>10, <1>11 DEF Next

(* A new terminal has no viewer and an empty ring.                         *)
LEMMA DeliveredInit == Init => Delivered
<1> SUFFICES ASSUME Init PROVE Delivered
  OBVIOUS
<1>1. Ringed
  BY DEF Init, Ringed, Contiguous
<1>0. next = 1 /\ forgotten = FALSE /\ listening = TRUE
  BY DEF Init
<1>2. next <= MaxChunks + 1
  BY <1>0, OutputAssumption
<1>5. forgotten \in BOOLEAN /\ listening \in BOOLEAN
  BY <1>0
<1>3. /\ sockets \in [Clients -> Sockets \cup {NoSocket}]
      /\ \A c \in Clients : sockets[c] = NoSocket
  BY DEF Init
<1>4. cursor \in [Clients -> Nat] /\ \A c \in Clients : cursor[c] = 0
  BY DEF Init
<1> QED
  BY <1>0, <1>1, <1>2, <1>3, <1>4, <1>5 DEF Delivered

(* Every viewer is in the log where its cursor, its window and the ring say. *)
THEOREM Delivering == Spec => []Delivered
<1>1. Delivered /\ [Next]_vars => Delivered'
  BY DeliveredStep
<1> QED
  BY <1>1, DeliveredInit, PTL DEF Spec

(* Every variable has its type, the window keeps its hard limit, the ring  *)
(* has no hole and the terminal records into a live writer.                *)
THEOREM StaysConsistent == Spec => []Consistent
<1>1. Governed /\ Delivered => Consistent
  <2> SUFFICES ASSUME Governed, Delivered PROVE Consistent
    OBVIOUS
  <2>1. RecordingLive
    BY DEF Governed, Sound, Steady, RecordingLive
  <2>2. RingContiguous
    BY DEF Delivered, Ringed, Contiguous, RingContiguous
  <2>3. next \in 1 .. (MaxChunks + 1) /\ recent \in Seq(Chunks)
    BY OutputAssumption DEF Delivered, Ringed
  <2>4. cursor \in [Clients -> 0 .. MaxChunks]
    <3>1. \A c \in Clients : cursor[c] \in 0 .. MaxChunks
      BY <2>3, OutputAssumption DEF Delivered
    <3> QED
      BY <3>1 DEF Delivered
  <2>5. ASSUME NEW c \in Attached
        PROVE  /\ sockets[c].sent \in 0 .. (next - 1) /\ sockets[c].buffered \in 0 .. 2
               /\ Len(sockets[c].window) <= PendingMax
    <3>1. sockets[c] \in Sockets /\ Viewing(sockets[c], cursor[c], next - 1)
      BY <2>5, SocketTypes DEF Attached
    <3> QED
      BY <2>3, <3>1, OutputAssumption DEF Viewing, WindowFits, Sockets
  <2>6. TypeOK
    BY <2>3, <2>4, <2>5
       DEF TypeOK, Governed, Delivered, Sound, Steady, Sources, Writers, Chunks
  <2> QED
    BY <2>1, <2>2, <2>6 DEF Consistent
<1> QED
  BY <1>1, Governing, Delivering, PTL

(* A negotiated viewer's cursor covers no chunk of which a frame is still   *)
(* unconsumed.                                                             *)
THEOREM CursorCoversConsumed == Spec => []CursorConsumed
<1>1. Delivered => CursorConsumed
  <2> SUFFICES ASSUME Delivered, NEW c \in Attached, sockets[c].flow,
                      NEW i \in 1 .. Len(sockets[c].window), sockets[c].window[i] # 0
               PROVE  cursor[c] < sockets[c].window[i]
    BY DEF CursorConsumed
  <2>1. Viewing(sockets[c], cursor[c], next - 1)
    BY SocketTypes DEF Attached
  <2> QED
    BY <2>1 DEF Viewing, WindowFits
<1> QED
  BY <1>1, Delivering, PTL

(* The viewers start as TerminalView lets them.                            *)
LEMMA ViewInit == Init => View!Init
  BY DEF Init, View!Init, Attached, Pos, Withheld, Lost

(* A client that follows does what TerminalView lets it.                   *)
LEMMA FollowsView ==
    ASSUME Delivered, NEW c \in Clients, Follows(c)
    PROVE  View!Continue(c) \/ View!Join(c) \/ View!Absent(c)
<1>1. CASE sockets'[c] = NoSocket /\ cursor'[c] \in {cursor[c], 0}
  BY <1>1 DEF View!Absent, Attached
<1>2. CASE /\ sockets'[c] \in Sockets /\ Viewing(sockets'[c], cursor'[c], next' - 1)
           /\ cursor[c] <= cursor'[c]
  <2>1. sockets'[c] # NoSocket
    BY <1>2, SocketIsOne
  <2>2. /\ Pos'[c] = sockets'[c].sent /\ Withheld'[c] = sockets'[c].skipped
        /\ Lost'[c] = sockets'[c].lost /\ c \in Attached'
    BY <2>1 DEF Pos, Withheld, Lost, Attached
  <2>3. cursor'[c] <= sockets'[c].sent /\ sockets'[c].sent <= next' - 1
    BY <1>2 DEF Viewing
  <2>4. CASE sockets[c] \in Sockets /\ Onward(sockets'[c], sockets[c], next' - 1)
    <3>1. sockets[c] # NoSocket
      BY <2>4, SocketIsOne
    <3>2. /\ Pos[c] = sockets[c].sent /\ Withheld[c] = sockets[c].skipped
          /\ Lost[c] = sockets[c].lost /\ c \in Attached
      BY <3>1 DEF Pos, Withheld, Lost, Attached
    <3>3. View!Continue(c)
      BY <1>2, <2>2, <2>3, <2>4, <3>2 DEF View!Continue, Onward
    <3> QED
      BY <3>3
  <2>5. CASE next' = next /\ sockets'[c].skipped = {} /\ sockets'[c].lost = {}
    <3>1. View!Join(c)
      BY <1>2, <2>2, <2>3, <2>5 DEF View!Join
    <3> QED
      BY <3>1
  <2> QED
    BY <1>1, <1>2, <2>4, <2>5, <2>1 DEF Follows
<1> QED
  BY <1>1, <1>2 DEF Follows

(* The terminal's output implements what TerminalView promises: every      *)
(* viewer sees one growing log, in order and never twice, and loses only   *)
(* what was held back because its socket was slow.                         *)
THEOREM ImplementsView == Spec => ViewSpec
<1>1. Delivered /\ [Next]_vars => [View!Next]_(View!view)
  <2> SUFFICES ASSUME Delivered, [Next]_vars PROVE View!Next
    OBVIOUS
  <2>1. Seen
    BY DeliveredStep
  <2>2. next' - 1 \in {next - 1, (next - 1) + 1}
    <3>1. next \in Nat /\ next' \in {next, next + 1}
      BY <2>1 DEF Seen, Delivered, Ringed
    <3>2. CASE next' = next
      BY <3>2
    <3>3. CASE next' = next + 1
      BY <3>1, <3>3
    <3> QED
      BY <3>1, <3>2, <3>3
  <2> QED
    BY <2>1, <2>2, FollowsView DEF View!Next, Seen
<1>2. Init => View!Init
  BY ViewInit
<1> QED
  BY <1>1, <1>2, Delivering, PTL DEF Spec, ViewSpec, View!Spec
=============================================================================
