------------------------------ MODULE MCNat44 ------------------------------
(* Instances of Nat44 for TLC: one host address, one peer with two         *)
(* services, local ports 3 (also the forwarded number) and 7.              *)
EXTENDS Nat44

CONSTANTS lanHost, peerHost

MCHosts == {lanHost}
MCPeers == {peerHost}

Conv(proto, sport, dport) ==
  [proto |-> proto, src |-> lanHost, sport |-> sport, dst |-> peerHost, dport |-> dport]

\* Two servers from one local port, the forwarded local port, and UDP.
FixedKeys == {Conv("tcp", 7, 80), Conv("tcp", 7, 81), Conv("tcp", 3, 80),
              Conv("udp", 7, 80)}

\* The forwarded local port, and an echo.
LeaseKeys == {Conv("tcp", 3, 80), Conv("icmp", 7, 0)}
=============================================================================
