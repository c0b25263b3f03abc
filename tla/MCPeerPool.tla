----------------------------- MODULE MCPeerPool -----------------------------
(* Small instances of PeerPool for TLC. *)
EXTENDS PeerPool

\* a1 and a2 are two ports of one host; c1 and c2 are ephemeral ports.
TwoHosts == [a \in Addrs |-> IF a \in {"a1", "a2", "c1"} THEN "h1" ELSE "h2"]
=============================================================================
