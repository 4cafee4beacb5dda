------------------------------- MODULE MCBridge -------------------------------
(* Two known functions, so that a late answer may or may not match.         *)
EXTENDS Bridge

MCSupported == {"READ", "WRITE"}
MCUnknown == {"OTHER"}
=============================================================================
