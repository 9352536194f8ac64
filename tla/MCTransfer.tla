----------------------------- MODULE MCTransfer -----------------------------
(* An upload that asks, a recursive one that overwrites, a remote copy     *)
(* between two connections and an FTP upload.                              *)
EXTENDS Transfer

CONSTANTS ask, over, copy, ftp, c1, c2

EndsOf == [r \in Requests |-> IF r = copy THEN <<c1, c2>>
                              ELSE IF r = ftp THEN <<c2>> ELSE <<c1>>]
=============================================================================
