-------------------------- MODULE MCMigrationGuard --------------------------
(* Two commands, one directory or two, two migrations of which one exists.  *)
EXTENDS MigrationGuard, TLC

Symmetry == Permutations(Commands) \cup Permutations(Targets)

(* What the remote database receives was applied to the rehearsal, although *)
(* the files may change at any time, also after the second digest           *)
(* (design.md:635); MCRecovery checks it while they do not.                 *)
RemoteIsRehearsed == [][Rehearsed]_vars
=============================================================================
