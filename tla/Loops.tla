-------------------------------- MODULE Loops --------------------------------
(***************************************************************************)
(* What the models of the pure algorithms have in common: an algorithm has *)
(* an input, local variables, and ends by returning a result.  One round   *)
(* of its loop is a step.                                                  *)
(***************************************************************************)
CONSTANT Nothing   \* no result, or no value

VARIABLES
    algorithm,  \* which of them runs
    input,      \* what it was given
    local,      \* its local variables: a record
    result,     \* what it has returned
    returned    \* whether it has

vars == <<algorithm, input, local, result, returned>>

(* The initial states of an algorithm that is given one of inputs.         *)
Given(name, inputs) == /\ algorithm = name
                       /\ input \in inputs
                       /\ result = Nothing /\ returned = FALSE

Runs(name) == algorithm = name /\ ~returned

Continue(l) == local' = l /\ UNCHANGED <<algorithm, input, result, returned>>

Return(r) == /\ result' = r /\ returned' = TRUE
             /\ UNCHANGED <<algorithm, input, local>>

Returned(name) == algorithm = name /\ returned
=============================================================================
