--------------------------- MODULE MCCommandLine ---------------------------
(***************************************************************************)
(* Instance of CommandLine for TLC.                                        *)
(***************************************************************************)
EXTENDS CommandLine
=============================================================================
