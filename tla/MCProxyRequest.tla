--------------------------- MODULE MCProxyRequest ---------------------------
(***************************************************************************)
(* ProxyRequest for TLC: one request under every configuration.            *)
(***************************************************************************)
EXTENDS ProxyRequest
=============================================================================
