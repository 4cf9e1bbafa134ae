--------------------------- MODULE MCBoardPresence --------------------------
(* Instances of BoardPresence for TLC.                                     *)
EXTENDS BoardPresence, TLC

CONSTANTS b1, b2, t1, t2, u1, u2, c1, c2, c3

(* Two tabs of different users; the first may reconnect.                   *)
Reconnects == c1 :> t1 @@ c2 :> t2 @@ c3 :> t1
TwoUsers == t1 :> u1 @@ t2 :> u2
=============================================================================
