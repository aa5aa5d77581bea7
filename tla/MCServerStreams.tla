--------------------------- MODULE MCServerStreams ---------------------------
(* Two boxes of one player each and two calls that follow them; four calls *)
(* for notifications; an outbox of two and a message as large as two.      *)
EXTENDS ServerStreams

MessageSize == [m \in 1..5 |-> IF m = 3 THEN 2 ELSE 1]
=============================================================================
