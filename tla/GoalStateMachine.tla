-------------------------- MODULE GoalStateMachine --------------------------
(***************************************************************************)
(* The goal state machine of rcl_action (goal_state_machine.c) and the     *)
(* predicates goal_handle.c derives from it.  A constant module: the       *)
(* action server model applies these operators to the goals it tracks.     *)
(***************************************************************************)

\* GOAL_STATE_*: UNKNOWN is the value of a handle that was never initialised
\* and the answer of an invalid transition.
ActiveStates == {"ACCEPTED", "EXECUTING", "CANCELING"}

TerminalStates == {"SUCCEEDED", "CANCELED", "ABORTED"}

GoalStates == ActiveStates \cup TerminalStates \cup {"UNKNOWN"}

\* GOAL_EVENT_*
GoalEvents == {"EXECUTE", "CANCEL_GOAL", "SUCCEED", "ABORT", "CANCELED"}

-----------------------------------------------------------------------------
\* Mutant: SUCCEEDED has a handler for SUCCEED, so succeed() works twice.
transition_succeed_again(state, event) ==
    CASE event = "EXECUTE"     /\ state = "ACCEPTED"                  -> "EXECUTING"
      [] event = "CANCEL_GOAL" /\ state \in {"ACCEPTED", "EXECUTING"} -> "CANCELING"
      [] event = "SUCCEED"     /\ state \in {"EXECUTING", "CANCELING", "SUCCEEDED"}
                                                                      -> "SUCCEEDED"
      [] event = "ABORT"       /\ state \in {"EXECUTING", "CANCELING"} -> "ABORTED"
      [] event = "CANCELED"    /\ state = "CANCELING"                 -> "CANCELED"
      [] OTHER                                                        -> "UNKNOWN"

\* Mutant: a goal that was never started may be declared successful.
transition_succeed_accepted(state, event) ==
    CASE event = "EXECUTE"     /\ state = "ACCEPTED"                  -> "EXECUTING"
      [] event = "CANCEL_GOAL" /\ state \in {"ACCEPTED", "EXECUTING"} -> "CANCELING"
      [] event = "SUCCEED"     /\ state \in ActiveStates              -> "SUCCEEDED"
      [] event = "ABORT"       /\ state \in {"EXECUTING", "CANCELING"} -> "ABORTED"
      [] event = "CANCELED"    /\ state = "CANCELING"                 -> "CANCELED"
      [] OTHER                                                        -> "UNKNOWN"

\* Mutant: CANCEL_GOAL is accepted again by a goal that is already canceling.
transition_cancel_twice(state, event) ==
    CASE event = "EXECUTE"     /\ state = "ACCEPTED"                  -> "EXECUTING"
      [] event = "CANCEL_GOAL" /\ state \in ActiveStates              -> "CANCELING"
      [] event = "SUCCEED"     /\ state \in {"EXECUTING", "CANCELING"} -> "SUCCEEDED"
      [] event = "ABORT"       /\ state \in {"EXECUTING", "CANCELING"} -> "ABORTED"
      [] event = "CANCELED"    /\ state = "CANCELING"                 -> "CANCELED"
      [] OTHER                                                        -> "UNKNOWN"

\* The transition map: the state a handler leads to, or UNKNOWN where the map
\* has no handler.
rcl_action_transition_goal_state(state, event) ==
    CASE event = "EXECUTE"     /\ state = "ACCEPTED"                  -> "EXECUTING"
      [] event = "CANCEL_GOAL" /\ state \in {"ACCEPTED", "EXECUTING"} -> "CANCELING"
      [] event = "SUCCEED"     /\ state \in {"EXECUTING", "CANCELING"} -> "SUCCEEDED"
      [] event = "ABORT"       /\ state \in {"EXECUTING", "CANCELING"} -> "ABORTED"
      [] event = "CANCELED"    /\ state = "CANCELING"                 -> "CANCELED"
      [] OTHER                                                        -> "UNKNOWN"

\* rcl_action_update_goal_state fails, and changes nothing, exactly when the
\* transition is UNKNOWN.
rcl_action_update_goal_state_ok(state, event) ==
    rcl_action_transition_goal_state(state, event) # "UNKNOWN"

rcl_action_goal_handle_is_active(state) == state \in ActiveStates

rcl_action_goal_handle_is_cancelable(state) ==
    rcl_action_transition_goal_state(state, "CANCEL_GOAL") = "CANCELING"
=============================================================================
