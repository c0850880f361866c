---------------------------- MODULE MCLinkCable ----------------------------
(* Who sends how many bytes, and who raises its RTS.                       *)
EXTENDS LinkCable, TLC

TwoAndOne == (A :> 2) @@ (B :> 1)
OneEach == [c \in {A, B} |-> 1]
OnlySecond == (A :> 0) @@ (B :> 1)
=============================================================================
