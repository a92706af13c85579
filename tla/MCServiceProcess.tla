-------------------------- MODULE MCServiceProcess --------------------------
(***************************************************************************)
(* Instances of ServiceProcess for TLC.                                    *)
(***************************************************************************)
EXTENDS ServiceProcess, TLC

CONSTANTS p1, p2

\* One creation and one change.
TwoKeys == <<Created, StatusChanged>>
=============================================================================
