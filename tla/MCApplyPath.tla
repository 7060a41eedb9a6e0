---------------------------- MODULE MCApplyPath ----------------------------
(* The instance of ApplyPath for TLC; its constants are in the cfg.        *)
EXTENDS ApplyPath
=============================================================================
