--------------------------- MODULE MCParaWorkload ---------------------------
(***************************************************************************)
(* Model-checking instance of ParaWorkload: both programs, user counts up  *)
(* to 3, two transfers, and a node serving two groups.                     *)
(***************************************************************************)
EXTENDS ParaWorkload

MCGroups == <<"group1", "group2">>

=============================================================================
