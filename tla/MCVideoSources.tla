--------------------------- MODULE MCVideoSources ---------------------------
(***************************************************************************)
(* A phone with two fixed addresses beside the one that is discovered, and *)
(* two addresses for the slot.                                             *)
(***************************************************************************)
EXTENDS VideoSources

CONSTANTS lan, fixed, relay, app, page

TwoUrls == <<fixed, relay>>
OneMoves == {{part} : part \in Parts}
=============================================================================
