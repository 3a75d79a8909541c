------------------------------ MODULE MCWsHub ------------------------------
(* Two connections, one logged in and one anonymous, and buffers of size   *)
(* one or two: every channel gets full, and a third message overtakes the  *)
(* buffers of a connection that is not drained.                            *)
EXTENDS WsHub

CONSTANTS c1, c2, user1

MCUserTopic == [c \in Client |-> IF c = c1 THEN user1 ELSE NoTopic]
=============================================================================
