---------------------------- MODULE MCVotingEngine ----------------------------
(***************************************************************************)
(* The voting engine for TLC; the constants come from the .cfg files.       *)
(***************************************************************************)
EXTENDS EngineProperties
===============================================================================
