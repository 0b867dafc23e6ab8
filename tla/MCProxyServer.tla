----------------------------- MODULE MCProxyServer -----------------------------
(* Small instances of ProxyServer for TLC.                                        *)
EXTENDS ProxyServer

CONSTANTS c1, c2   \* clients
=============================================================================
