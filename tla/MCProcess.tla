------------------------------ MODULE MCProcess ------------------------------
(***************************************************************************)
(* An instance of Process: more requests than connections.                 *)
(***************************************************************************)
EXTENDS Process

ASSUME DatabaseAssumption == DBMaxConnections < Cardinality(Workers)
=============================================================================
