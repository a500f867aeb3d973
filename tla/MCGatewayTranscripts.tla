------------------------- MODULE MCGatewayTranscripts -------------------------
(* A small instance of GatewayTranscripts. *)
EXTENDS GatewayTranscripts, TLC

CONSTANTS c1, c2

TwoFinals == <<TRUE, TRUE>>
Symmetry  == Permutations(Clients)
=============================================================================
