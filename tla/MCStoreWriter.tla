---------------------------- MODULE MCStoreWriter ----------------------------
(* Small instances of StoreWriter for TLC.                                 *)
EXTENDS StoreWriter, TLC

=============================================================================
