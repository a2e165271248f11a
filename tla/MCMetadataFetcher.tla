-------------------------- MODULE MCMetadataFetcher --------------------------
(***************************************************************************)
(* An instance of MetadataFetcher for TLC: two references to one URL.      *)
(***************************************************************************)
EXTENDS MetadataFetcher

OneUrl == [r \in Refs |-> "u"]
=============================================================================
