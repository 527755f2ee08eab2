----------------------------- MODULE MCChatLink -----------------------------
(* Two accounts, a stored message for the first of them and two managers.  *)
EXTENDS ChatLink

CONSTANTS a1, a2

ToFirst  == [m \in In |-> a1]
AllStore == [m \in In |-> "store"]

(* The first account's relay has a subdomain of its own, the second's      *)
(* autoconfig document names a host that is refused.                       *)
RelayOn  == [a \in Accts |-> IF a = a1 THEN {"sub"} ELSE {"talk", "mail"}]
Document == [a \in Accts |-> IF a = a1 THEN "sub" ELSE "foreign"]
=============================================================================
