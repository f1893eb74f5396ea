------------------------------- MODULE MCPage -------------------------------
(***************************************************************************)
(* An instance of the page for TLC.                                        *)
(***************************************************************************)
EXTENDS Page

Events == [id : 1 .. MaxEvents, what : 1 .. MaxEvents]
=============================================================================
