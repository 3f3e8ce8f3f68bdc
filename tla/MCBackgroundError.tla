--------------------------- MODULE MCBackgroundError ---------------------------
(* Instance of BackgroundError for TLC. *)
EXTENDS BackgroundError
=============================================================================
