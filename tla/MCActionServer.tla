--------------------------- MODULE MCActionServer ---------------------------
(***************************************************************************)
(* Instances of ActionServer for TLC, and what needs more than its state.  *)
(* With distinct goal ids, a goal and its id are the same model value, so  *)
(* that permuting Goals is a symmetry.                                     *)
(***************************************************************************)
EXTENDS ActionServer, TLC

\* every client draws a fresh id
DistinctIds == [g \in Goals |-> g]

Symmetry ==
    Permutations(Goals) \cup Permutations(Threads) \cup Permutations(Requests)
        \cup Permutations(Cancels)

Contract == INSTANCE ActionContract WITH gstate <- gstate, asked <- asked, answer <- answer

\* The server implements the abstract contract: whatever the interleaving of
\* handlers, user threads and expiry, every goal moves along the states of the
\* action design, and every result request gets at most one answer, the
\* terminal state of its goal or, on arrival, "unknown goal" (rcl_action's
\* transition map, publish_result, execute_result_request_received).
ImplementsContract == Contract!Spec
=============================================================================
