-------------------------- MODULE MCAccountLifecycle --------------------------
(* One address, added, removed and added again under the same rowid, with a *)
(* group to spare while the old one is draining.                            *)
EXTENDS AccountLifecycle
=============================================================================
