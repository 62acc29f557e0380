----------------------------- MODULE MCEndpoint -----------------------------
(* Security levels for model checking Endpoint: none, C-MAC with protected *)
(* responses, and one with a bit that the build does not support.          *)
EXTENDS Endpoint

LevelsAll == {{}, {"mac", "rmac", "renc"}, {"mac", "other"}}
SupportedAll == {"mac", "enc", "rmac", "renc"}
=============================================================================
