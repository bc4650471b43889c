\* Only its callback's result ends a transition.
SPECIFICATION Spec
CONSTANTS
    Service = srv
    Users = {u1}
    MaxFailed = 0
    MaxPrivate = 1
    None = None
INVARIANT OnlyCallbacksEndTransitions
