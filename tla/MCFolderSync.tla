--------------------------- MODULE MCFolderSync ---------------------------
(* One mailbox of up to three messages, synced by the IDLE goroutine alone *)
(* or together with the command loop.                                      *)
EXTENDS FolderSync

\* Other clients and a recreated mailbox against the IDLE goroutine.
Alone(condstore) ==
    [loop |-> FALSE, condstore |-> condstore, expunge |-> Uids, vals |-> 2, mods |-> MaxMod, faults |-> MaxFaults]

\* The command loop syncs and refetches beside it; nothing is expunged.
Pair(condstore) ==
    [loop |-> TRUE, condstore |-> condstore, expunge |-> {}, vals |-> 1, mods |-> 3, faults |-> 1]

MCWorlds == {Alone(TRUE), Pair(TRUE), Pair(FALSE)}
MCAlone == {Alone(FALSE)}
===========================================================================
