---------------------------- MODULE MCLifecycle ----------------------------
(* Small instances of Lifecycle.                                           *)
EXTENDS Lifecycle

CONSTANTS g1, g2, h1, h2

MCGrpcCalls == {g1, g2}
MCHttpCalls == {h1, h2}
MCOneGrpc == {g1}
MCOneHttp == {h1}
=============================================================================
