------------------------------ MODULE MCOutbox ------------------------------
(* Two messages of one account: enough for a rowid to be used twice. *)
EXTENDS Outbox, TLC
CONSTANTS a1

OneAccount == [m \in Msgs |-> a1]

\* The messages are interchangeable; safety runs only.
MsgSymmetry == Permutations(Msgs)
=============================================================================
