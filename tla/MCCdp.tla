------------------------------- MODULE MCCdp --------------------------------
(* The connection alone, for what its documents promise.                   *)
EXTENDS CdpConnection
=============================================================================
