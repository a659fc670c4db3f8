--------------------------- MODULE MCChatService ---------------------------
(* Requests for two models: rOther alone uses the second one.              *)
EXTENDS ChatService

CONSTANTS rOther, s1, s2

SessionOfRequest == [r \in Requests |-> IF r = rOther THEN s2 ELSE s1]
=============================================================================
