---------------------------- MODULE KeystoreMap ----------------------------
(***************************************************************************)
(* What the keystore that main.go opens promises its callers               *)
(* (internal/crypto/keystore.go, Keystore): a map of secrets, of which     *)
(* every one opens for the provider that sealed it until its alias is      *)
(* written again or deleted.  A write that reports success has reached the *)
(* file, unless the process keeps its secrets in memory; a deletion of an  *)
(* alias this process does not have reports success and writes nothing.    *)
(* Nothing here knows of a master key, of its files or of the goroutines   *)
(* that call it.                                                           *)
(***************************************************************************)
CONSTANT Aliases

VARIABLES provider, \* chosen when the process started
          held,     \* by provider, aliases of this process's map it can open
          saved,    \* the same of the file, for the next process
          report    \* what the last write answered

mapVars == <<provider, held, saved, report>>

Providers == {"file", "hardware", "memory"}
Nothing == [p \in Providers |-> {}]

MapInit == provider \in Providers /\ held = Nothing /\ saved = Nothing /\ report = "none"

\* A write changes one alias of the map.
Write(map) ==
    /\ held' = map
    /\ \/ report' = "saved" /\ saved' = IF provider = "memory" THEN saved ELSE map
       \/ report' = "failed" /\ provider # "memory" /\ UNCHANGED saved
    /\ UNCHANGED provider

MapStore(a) ==
    Write([p \in Providers |-> IF p = provider THEN held[p] \cup {a} ELSE held[p] \ {a}])

MapDelete(a) == Write([p \in Providers |-> held[p] \ {a}])

\* A deletion of what is not there, and a Store that has no key.
MapForgotten(a) ==
    /\ \A p \in Providers : a \notin held[p]
    /\ report' = "saved" /\ UNCHANGED <<provider, held, saved>>

MapRefused == report' = "failed" /\ UNCHANGED <<provider, held, saved>>

\* The next process chooses its provider; a memory keystore starts empty.
MapRestart ==
    /\ provider' \in Providers /\ report' = "none"
    /\ held' = IF provider' = "memory" THEN Nothing ELSE saved
    /\ UNCHANGED saved

MapNext ==
    \/ \E a \in Aliases : MapStore(a) \/ MapDelete(a) \/ MapForgotten(a)
    \/ MapRefused \/ MapRestart

MapSpec == MapInit /\ [][MapNext]_mapVars
=============================================================================
