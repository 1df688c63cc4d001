------------------------------- MODULE MCStartup -------------------------------
(***************************************************************************)
(* The instance of Startup that TLC checks; its constants are numbers.     *)
(***************************************************************************)
EXTENDS Startup
=============================================================================
