------------------------- MODULE MCWindowsInstaller -------------------------
(***************************************************************************)
(* Two versions, enough for an update, a rollback and a reinstall.         *)
(***************************************************************************)
EXTENDS WindowsInstaller

CONSTANTS v1, v2
TwoVersions == {v1, v2}
=============================================================================
