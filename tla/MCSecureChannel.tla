--------------------------- MODULE MCSecureChannel ---------------------------
(* Instance of SecureChannel for TLC.                                      *)
EXTENDS SecureChannel
=============================================================================
