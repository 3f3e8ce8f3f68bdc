------------------------- MODULE MCFileReceiverFacade -------------------------
(* Instance of FileReceiverFacade for TLC. *)
EXTENDS FileReceiverFacade
=============================================================================
