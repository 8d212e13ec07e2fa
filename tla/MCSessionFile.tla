--------------------------- MODULE MCSessionFile ---------------------------
(* Small instances of SessionFile.                                          *)
EXTENDS SessionFile
=============================================================================
