---------------------------- MODULE MCServerEdge ----------------------------
(* One recorded message that may be sent by every connection.              *)
EXTENDS ServerEdge
=============================================================================
