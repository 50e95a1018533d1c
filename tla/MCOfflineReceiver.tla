-------------------------- MODULE MCOfflineReceiver --------------------------
(***************************************************************************)
(* Small instances of OfflineReceiver for TLC.                             *)
(***************************************************************************)
EXTENDS OfflineReceiver

=============================================================================
