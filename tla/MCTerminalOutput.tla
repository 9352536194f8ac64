-------------------------- MODULE MCTerminalOutput --------------------------
(* TerminalOutput with a negotiated and a plain viewer; the second chunk may   *)
(* be larger than the ring and than the window's room.                         *)
EXTENDS TerminalOutput

SizesOf == <<{1}, {1, 2}, {1}>>
=============================================================================
