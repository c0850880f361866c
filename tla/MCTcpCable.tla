----------------------------- MODULE MCTcpCable -----------------------------
(* TcpCable with the pairings of programs.                                 *)
EXTENDS TcpCable
Pair(a, b) == [e \in End |-> IF e = A THEN a ELSE b]
CrossPlay == {Pair("retro", "shell"), Pair("shell", "retro"), Pair("retro", "retro"), Pair("shell", "shell"), Pair("shell", "mirror"),
              Pair("retro", "mirror")}
TwoAndNone == [e \in End |-> IF e = A THEN 2 ELSE 0]
TwoAndOne == [e \in End |-> IF e = A THEN 2 ELSE 1]
OneEach == [e \in End |-> 1]
=============================================================================
