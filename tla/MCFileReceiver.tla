---------------------------- MODULE MCFileReceiver ----------------------------
(* Instance of FileReceiver for TLC. *)
EXTENDS FileReceiver
=============================================================================
