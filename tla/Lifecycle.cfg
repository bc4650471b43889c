\* The service's thread and one other; one notification may not be published, two
\* requests may name a private transition.
SPECIFICATION FairSpec
CONSTANTS
    Service = srv
    Users = {u1}
    MaxFailed = 1
    MaxPrivate = 2
    None = None
INVARIANTS
    OneTransition
    RestsInPrimary
    CallbackSeesOrigin
    EntitiesFollow
PROPERTIES
    TransitionsEnd
