----------------------------- MODULE MCMonitor ------------------------------
(***************************************************************************)
(* Four hosts.  In the first instance h1 speaks uTP on one flow and        *)
(* ciphertext on another, h2 is asked by the enricher, h3 sends fragments  *)
(* over IPv6 and h4 starts as noise and turns into TLS.  The second is     *)
(* about the arena alone: one packet per host, and a better label for one. *)
(***************************************************************************)
EXTENDS Monitor

Packet(remote, rport, lport, l4, sigs, chain) ==
  [remote |-> remote, rport |-> rport, lport |-> lport, l4 |-> l4, sigs |-> sigs,
   chain |-> chain, whole |-> TRUE, len |-> 1]

MCPackets ==
  { Packet("h1", 6881, 1, "UDP", {"Utp"}, <<>>),
    Packet("h1", 4000, 2, "TCP", {"random"}, <<>>),
    Packet("h3", 0, 0, "UDP", {}, <<[kind |-> "ext", fits |-> TRUE],
                                    [kind |-> "later", fits |-> TRUE]>>),
    Packet("h3", 0, 0, "UDP", {}, <<[kind |-> "ext", fits |-> FALSE]>>),
    Packet("h4", 4000, 4, "TCP", {}, <<>>),
    Packet("h4", 4000, 4, "TCP", {"Tls", "random"}, <<>>) }
MCHostPackets ==
  { Packet("h1", 6881, 1, "UDP", {"Utp"}, <<>>),
    Packet("h2", 53, 5, "UDP", {}, <<>>),
    Packet("h3", 123, 6, "UDP", {}, <<>>),
    Packet("h4", 4000, 4, "TCP", {}, <<>>),
    Packet("h4", 4000, 4, "TCP", {"Tls", "random"}, <<>>) }
MCOwnPacket == Packet("h2", 53, 5, "UDP", {}, <<>>)
MCWorthy == {"h1"}
MCBlock == [h1 |-> "b1", h2 |-> "b2", h3 |-> "b3", h4 |-> "b4"]
=============================================================================
