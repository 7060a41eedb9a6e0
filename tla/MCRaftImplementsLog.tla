------------------------ MODULE MCRaftImplementsLog ------------------------
(* RaftImplementsLog for TLC, with the scenarios of MCRaft.                *)
EXTENDS RaftImplementsLog, MCRaft

ChosenView == <<LogView, chosen>>
=============================================================================
