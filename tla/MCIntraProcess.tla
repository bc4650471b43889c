--------------------------- MODULE MCIntraProcess ---------------------------
(* IntraProcess with buffers of different depths and publishers that send  *)
(* different numbers of messages.                                          *)
EXTENDS IntraProcess

CONSTANTS
    Deep,   \* the publishers and subscriptions of depth 2, the others have depth 1
    Busy    \* the publishers that send two messages, the others send one

MCDepth == [x \in Pubs \union Subs |-> IF x \in Deep THEN 2 ELSE 1]
MCMaxMsgs == [p \in Pubs |-> IF p \in Busy THEN 2 ELSE 1]
=============================================================================
