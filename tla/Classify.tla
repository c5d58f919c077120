------------------------------ MODULE Classify ------------------------------
(***************************************************************************)
(* Packet inspection in inspect.rs: parse, classify, the confidence tiers  *)
(* and the protocol families.  A packet is a record                        *)
(*   remote, rport, lport, l4   the conversation, seen from this host      *)
(*   chain                      IPv6 extension headers, each with its kind *)
(*                              ("ext", "first", "later") and whether it   *)
(*                              fits in the packet; <<>> for IPv4          *)
(*   whole                      the transport header is complete           *)
(*   sigs                       the signatures that its payload matches    *)
(*   len                        its length                                 *)
(* so the tests of the single bytes are in how packets are chosen, and     *)
(* what is done with their outcome is here.                                *)
(***************************************************************************)
EXTENDS Naturals, Sequences, FiniteSetsExt

\* The payload tests, in the order they are tried.
UdpSignatures == <<"WireGuard", "Quic", "BtTracker", "Dht", "Utp">>
TcpSignatures == <<"Tls", "BitTorrent", "BtTracker">>

\* The well-known ports, in the order they are tried; 51820 is for UDP alone.
PortRules(l4) ==
  << <<{53}, "Dns">>, <<{5353}, "Mdns">>, <<{5355}, "Llmnr">>, <<{1900}, "Ssdp">>,
     <<{137, 138, 139}, "NetBios">>, <<{67, 68}, "Dhcp">>, <<{546, 547}, "Dhcpv6">>,
     <<{123}, "Ntp">>, <<{22}, "Ssh">>,
     <<IF l4 = "UDP" THEN {51820} ELSE {}, "WireGuard">>,
     <<{1194}, "OpenVpn">>, <<{8388, 8389}, "Shadowsocks">>,
     <<{443}, IF l4 = "UDP" THEN "Quic" ELSE "Tls">>, <<{80, 8080}, "Http">> >>

\* classify: signatures beat ports, ports beat the look of the payload.
ClassifyApp(l4, ports, sigs) ==
  LET signatures == IF l4 = "UDP" THEN UdpSignatures
                    ELSE IF l4 = "TCP" THEN TcpSignatures ELSE <<>>
      matching == {i \in DOMAIN signatures : signatures[i] \in sigs}
      rules == {i \in DOMAIN PortRules(l4) : PortRules(l4)[i][1] \cap ports # {}}
  IN  CASE l4 = "ICMP" -> "Icmp"
        [] l4 = "IGMP" -> "Igmp"
        [] OTHER ->
             IF matching # {} THEN signatures[Min(matching)]
             ELSE IF rules # {} THEN PortRules(l4)[Min(rules)][2]
             ELSE IF l4 \in {"TCP", "UDP"} /\ "random" \in sigs THEN "Obfuscated"
             ELSE "Other"

\* finish: only TCP and UDP have ports and a payload.
Finish(p, l4) ==
  LET t == l4 \in {"TCP", "UDP"}
      ports == IF t THEN {p.rport, p.lport} ELSE {0}
  IN  [key |-> [remote |-> p.remote, rport |-> IF t THEN p.rport ELSE 0,
                lport |-> IF t THEN p.lport ELSE 0, l4 |-> l4],
       app |-> ClassifyApp(l4, ports, IF t THEN p.sigs ELSE {}),
       len |-> p.len]

\* The extension headers that end parse_v6's walk: one that runs off the
\* packet, and a fragment that is not the first.
Stops(p) == {i \in DOMAIN p.chain : ~p.chain[i].fits \/ p.chain[i].kind = "later"}

\* parse gives up.
Unparsed(p) ==
  IF Stops(p) = {} THEN p.l4 \in {"TCP", "UDP"} /\ ~p.whole
  ELSE ~p.chain[Min(Stops(p))].fits

\* parse, of a packet it does not give up on
Parse(p) == Finish(p, IF Stops(p) = {} THEN p.l4 ELSE "Frag")

\* rank: the confidence tier of a label.
Rank(app) ==
  CASE app = "Other" -> 0
    [] app \in {"Obfuscated", "ObfuscatedBt"} -> 1
    [] app \in {"Tls", "Quic", "WireGuard", "BitTorrent", "Utp", "Dht", "BtTracker"} -> 3
    [] OTHER -> 2

\* family: what a label adds to the memory of its host.  Of the bits, only those
\* of TORRENTING are ever read.
Family(app) == {app} \cap {"Utp", "Dht"}
=============================================================================
