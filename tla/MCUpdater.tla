----------------------------- MODULE MCUpdater -----------------------------
(***************************************************************************)
(* Three GUI processes and one release, which starts or does not: updates  *)
(* that are rolled back, and one that succeeds.                            *)
(***************************************************************************)
EXTENDS Updater

ReleasedVersions == 1..2
StuckVersions == {2}
=============================================================================
