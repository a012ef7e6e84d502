----------------------------- MODULE MCInstaller -----------------------------
(* Three processes; the cache is missing, empty, complete, or was damaged by  *)
(* somebody who removed a part of it.                                         *)
EXTENDS Installer, TLC

MCFound == {None, {}, Part, Part \ {"ready"}, Part \ {"package"}}
MCSymmetry == Permutations(Process)
=============================================================================
