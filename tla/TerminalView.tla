---------------------------- MODULE TerminalView ----------------------------
(***************************************************************************)
(* What the viewers of a terminal are promised, whatever windows, pauses   *)
(* and recordings do: the output is one growing log; a socket is sent the  *)
(* log in order and never twice; a client that comes back starts after its *)
(* mark, which is never past what its socket was sent; and a chunk passes  *)
(* a viewer silently only if the viewer's socket was slow when it came.    *)
(***************************************************************************)
EXTENDS Integers

CONSTANT Clients

VARIABLES
  length,  \* chunks written so far
  on,      \* clients with a socket
  pos,     \* last chunk sent on the client's socket
  mark,    \* chunk after which the client's next socket starts
  held,    \* chunks held back because the socket was slow, after pos
  missing  \* chunks the socket will never be sent, without a notice

view == <<length, on, pos, mark, held, missing>>

Init ==
  /\ length = 0 /\ on = {}
  /\ pos = [c \in Clients |-> 0] /\ mark = [c \in Clients |-> 0]
  /\ held = [c \in Clients |-> {}] /\ missing = [c \in Clients |-> {}]

\* The socket goes on: forward in the log, losing only what was held back.
Continue(c) ==
  /\ c \in on \cap on'
  /\ pos[c] <= pos'[c] /\ pos'[c] <= length'
  /\ mark[c] <= mark'[c] /\ mark'[c] <= pos'[c]
  /\ held'[c] \subseteq held[c] \cup {length'}
  /\ held'[c] # held[c] => held'[c] = {} \/ pos'[c] = pos[c]
  /\ missing[c] \subseteq missing'[c] /\ missing'[c] \subseteq missing[c] \cup held[c]
  /\ \A k \in missing'[c] \ missing[c] : pos[c] < k /\ k < pos'[c]

\* A new socket starts after the client's mark.
Join(c) ==
  /\ c \in on' /\ length' = length
  /\ mark[c] <= mark'[c] /\ mark'[c] <= pos'[c] /\ pos'[c] <= length
  /\ held'[c] = {} /\ missing'[c] = {}

\* Without a socket the mark stays, or is forgotten with the terminal.
Absent(c) ==
  /\ c \notin on'
  /\ mark'[c] \in {mark[c], 0}

Next ==
  /\ length' \in {length, length + 1}
  /\ \A c \in Clients : Continue(c) \/ Join(c) \/ Absent(c)

Spec == Init /\ [][Next]_view
=============================================================================
