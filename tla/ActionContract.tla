--------------------------- MODULE ActionContract ---------------------------
(***************************************************************************)
(* What an action server promises its clients, without threads, maps,      *)
(* handles or timers.  A goal is accepted once, moves through the states   *)
(* of the action design and stays in the terminal state it reaches.  A     *)
(* request for the result of a goal gets at most one answer: the terminal  *)
(* state its goal has reached, or "UNKNOWN" at the moment it is received.  *)
(*                                                                         *)
(* The states are written out here on purpose, and not taken from the      *)
(* transition map of rcl_action: the map is what is being checked.         *)
(***************************************************************************)
EXTENDS Sequences

CONSTANTS Goals, UUIDs, UUIDOf, Requests, None

VARIABLES gstate, asked, answer

vars == <<gstate, asked, answer>>

Final == {"SUCCEEDED", "ABORTED", "CANCELED"}

Init ==
    /\ gstate = [g \in Goals |-> "UNKNOWN"]
    /\ asked = [r \in Requests |-> None]
    /\ answer = [r \in Requests |-> <<>>]

Move(g, from, to) ==
    /\ gstate[g] \in from
    /\ gstate' = [gstate EXCEPT ![g] = to]
    /\ UNCHANGED <<asked, answer>>

Accept(g) == Move(g, {"UNKNOWN"}, "ACCEPTED")

Execute(g) == Move(g, {"ACCEPTED"}, "EXECUTING")

Cancel(g) == Move(g, {"ACCEPTED", "EXECUTING"}, "CANCELING")

\* A goal that runs, or that runs while it is canceling, succeeds or aborts.
Finish(g) == \E to \in {"SUCCEEDED", "ABORTED"} : Move(g, {"EXECUTING", "CANCELING"}, to)

\* Only a canceling goal becomes canceled, except that the server may give up
\* a goal nobody holds any more.
Canceled(g) == Move(g, {"ACCEPTED", "EXECUTING", "CANCELING"}, "CANCELED")

\* A request arrives, for a goal the server knows or does not know.
Ask(r, u) ==
    /\ asked[r] = None
    /\ asked' = [asked EXCEPT ![r] = u]
    /\ \/ UNCHANGED answer
       \/ answer' = [answer EXCEPT ![r] = <<"UNKNOWN">>]
    /\ UNCHANGED gstate

\* The result of a goal that has ended is sent to some of those who asked for
\* it and have no answer yet.
Reply(g) ==
    /\ gstate[g] \in Final
    /\ \E rs \in SUBSET {r \in Requests : asked[r] = UUIDOf[g] /\ answer[r] = <<>>} :
         answer' = [r \in Requests |-> IF r \in rs THEN <<gstate[g]>> ELSE answer[r]]
    /\ UNCHANGED <<gstate, asked>>

Next ==
    \/ \E g \in Goals : Accept(g) \/ Execute(g) \/ Cancel(g) \/ Finish(g)
                        \/ Canceled(g) \/ Reply(g)
    \/ \E r \in Requests, u \in UUIDs : Ask(r, u)

Spec == Init /\ [][Next]_vars
=============================================================================
