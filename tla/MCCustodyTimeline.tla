------------------------- MODULE MCCustodyTimeline -------------------------
(***************************************************************************)
(* One ticket, one member of staff, one queue and one clock, with three of *)
(* the delivered transitions.                                              *)
(***************************************************************************)
EXTENDS CustodyTimeline

CONSTANTS ann, desk, resolution

MCEdges == {<<"new", "triage">>, <<"triage", "escalated">>, <<"triage", "in_progress">>}
=============================================================================
