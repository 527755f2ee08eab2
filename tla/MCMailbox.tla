----------------------------- MODULE MCMailbox ------------------------------
(* Two messages, three folders, two commands and two troubles.             *)
EXTENDS Mailbox

\* A server with MOVE and a Trash folder, and one with neither.
MCServers == {[move |-> b, trash |-> b] : b \in BOOLEAN}
=============================================================================
