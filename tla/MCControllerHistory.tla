------------------------- MODULE MCControllerHistory -------------------------
(* The instance of MCController, with the history variable.                *)
EXTENDS ControllerHistory

MCViews == {"A", "B", "Error"}
MCTracked == {"psbt", "multisig_wallet_descriptor"}
=============================================================================
