---------------------------- MODULE MCController ----------------------------
(* Instances of Controller for TLC: three destinations besides the main     *)
(* menu, one of them the error view, and one session attribute of each kind *)
(* (reset by both, by the wipe alone, by the menu's run, by neither).      *)
EXTENDS Controller

MCViews == {"A", "B", "Error"}
MCTracked == {"psbt", "multisig_wallet_descriptor", "gpg_pending_message"}
MCOneTracked == {"psbt"}
=============================================================================
