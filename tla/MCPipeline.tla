----------------------------- MODULE MCPipeline -----------------------------
(* Two subnets that share an address, and an address of either alone.        *)
EXTENDS Pipeline, TLC

CONSTANTS h1, h2, h3, s1, s2

Addresses == (s1 :> {h1, h2}) @@ (s2 :> {h2, h3})
=============================================================================
