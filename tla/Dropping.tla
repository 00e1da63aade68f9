------------------------------- MODULE Dropping -------------------------------
(***************************************************************************)
(* Erasing elements of a list, which leaves the others in their order.     *)
(***************************************************************************)
EXTENDS Integers, Sequences

(* The sequence s without the elements of gone.                            *)
Dropping(s, gone) ==
    LET kept[n \in 0 .. Len(s)] ==
            IF n = 0 THEN <<>>
            ELSE IF s[n] \in gone THEN kept[n - 1]
            ELSE Append(kept[n - 1], s[n])
    IN  kept[Len(s)]
=============================================================================
