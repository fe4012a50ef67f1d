------------------------ MODULE MCOpportunityScoring ------------------------
(* Instances of OpportunityScoring for TLC: its constants are sets of model *)
(* values, given in the configurations.                                     *)
EXTENDS OpportunityScoring
=============================================================================
