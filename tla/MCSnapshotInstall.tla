-------------------------- MODULE MCSnapshotInstall -------------------------
(***************************************************************************)
(* SnapshotInstall for TLC: the leader of the first term proposes the same *)
(* command for every index, the later ones any commands.  The committed    *)
(* log, which is the last leader's, can still be any.                      *)
(***************************************************************************)
EXTENDS SnapshotInstall

MCInit ==
    /\ Init
    /\ \A j, k \in 1 .. MaxIndex : logs[1][j].command = logs[1][k].command

MCSpec == MCInit /\ [][Next]_vars
=============================================================================
