SPECIFICATION Spec
CONSTANTS
    Clients = {c1, c2}
    Nobody  = Nobody
    BufSize = 2
INVARIANTS OwnMessageOnly SaidToTrustedOnly EmptyOnlyIfKilled
PROPERTIES EveryoneServed
CHECK_DEADLOCK FALSE
