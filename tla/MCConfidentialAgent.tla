------------------------ MODULE MCConfidentialAgent ------------------------
(* The attestation service starts up to twice.                             *)
EXTENDS ConfidentialAgent

CONSTANTS k1, k2
=============================================================================
