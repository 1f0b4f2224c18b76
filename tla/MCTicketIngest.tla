--------------------------- MODULE MCTicketIngest ---------------------------
(* Small instances of TicketIngest for TLC. *)
EXTENDS TicketIngest, TLC

CONSTANTS brakes, tyres, r1, r2

\* The first message reports two issues, any other one the second of them, after
\* one the classifier is not sure of.
MCSplit ==
    [m \in Messages |->
        <<[text |-> brakes, sure |-> m = 1], [text |-> tyres, sure |-> TRUE]>>]

\* Requests are alike.
RequestSymmetry == Permutations(Requests)
=============================================================================
