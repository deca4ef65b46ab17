------------------------------- MODULE MCPropIter -------------------------------
(* Small instances of the loops over property tables for TLC. *)
EXTENDS PropIter, MCPropTable
================================================================================
