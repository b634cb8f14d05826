----------------------------- MODULE MCKillSwitch -----------------------------
(***************************************************************************)
(* Instances of KillSwitch, with the constants of MCBridge.                *)
(***************************************************************************)
EXTENDS KillSwitch, MCBridge

=============================================================================
