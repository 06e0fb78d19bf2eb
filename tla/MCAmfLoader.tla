----------------------------- MODULE MCAmfLoader -----------------------------
(***************************************************************************)
(* AmfLoader for TLC, with the whole node and edge tables.                 *)
(***************************************************************************)
EXTENDS AmfLoader

=============================================================================
