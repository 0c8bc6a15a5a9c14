---------------------------- MODULE MCTLSStream -----------------------------
(* TLSStream for TLC, with the scenarios of StreamScenarios.               *)
EXTENDS TLSStream, StreamScenarios
=============================================================================
