----------------------------- MODULE MCChatRoom -----------------------------
(* One message in each direction, and a correspondent with two keys.       *)
EXTENDS ChatRoom, TLC

AllStore == [m \in Out |-> "store"]

\* The two keys are interchangeable.
KeySymmetry == Permutations(Fps)
=============================================================================
