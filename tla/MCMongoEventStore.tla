------------------------- MODULE MCMongoEventStore -------------------------
(***************************************************************************)
(* A TLC instance of MongoEventStore.                                      *)
(***************************************************************************)
EXTENDS MongoEventStore

=============================================================================
