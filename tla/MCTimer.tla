------------------------------- MODULE MCTimer -------------------------------
(***************************************************************************)
(* Instances of the timer for TLC.                                         *)
(***************************************************************************)
EXTENDS Timer

CONSTANTS a, b

TwoNodes == {a, b}

\* Two nodes whose time-outs are of the first wheels, for as long as tv4 needs
\* to come down.
Near == [nodes |-> {a, b}, timeOuts |-> {0, 9, 21}, horizon |-> 34]

\* One node with time-outs on both sides of the border of every wheel, for as
\* long as tv5 needs to come down.
Far == [nodes |-> {a}, horizon |-> 112,
        timeOuts |-> {0, 7, 8, 15, 16, 31, 32, 63, 64, 100}]

NearAndFar == {Near, Far}

Short == {[nodes |-> {a}, timeOuts |-> {0, 9, 21}, horizon |-> 24]}
=============================================================================
