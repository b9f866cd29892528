------------------------------ MODULE NetGuard ------------------------------
(***************************************************************************)
(* The classification of hosts in server/net-guard.js and the decision of  *)
(* server/index.js on a request's Host and Origin, which the HTTP API and  *)
(* the WebSocket upgrade share.                                            *)
(*                                                                         *)
(* A host is what net.isIPv4(), net.isIPv6() and the splitting at dots make*)
(* of it: four octets; the beginning of an IPv6 address, with the IPv4     *)
(* address it embeds; or the labels of a name.                             *)
(***************************************************************************)
EXTENDS Integers, Sequences, SequencesExt

\* Mutant of isPrivateIpv4: 172.16.0.0/12 ends one octet too early.
isPrivateIpv4Short(o) ==
  \/ o[1] \in {10, 127}
  \/ o[1] = 172 /\ o[2] \in 16..30
  \/ o[1] = 192 /\ o[2] = 168
  \/ o[1] = 169 /\ o[2] = 254
  \/ o[1] = 100 /\ o[2] \in 64..127

isPrivateIpv4(o) ==
  \/ o[1] \in {10, 127}
  \/ o[1] = 172 /\ o[2] \in 16..31
  \/ o[1] = 192 /\ o[2] = 168
  \/ o[1] = 169 /\ o[2] = 254
  \/ o[1] = 100 /\ o[2] \in 64..127

\* Told by the letters the address begins with.
isPrivateIpv6(host) ==
  \/ host.begins \in {"::1", "::", "fc", "fd", "fe80"}
  \/ host.begins = "::ffff:" /\ isPrivateIpv4(host.octets)

PrivateSuffixes == {"onion", "local", "internal", "localhost"}

isPrivateHost(host) ==
  CASE host.kind = "ipv4" -> isPrivateIpv4(host.octets)
    [] host.kind = "ipv6" -> isPrivateIpv6(host)
    [] host.kind = "name" -> Len(host.labels) = 1 \/ Last(host.labels) \in PrivateSuffixes
    [] OTHER -> FALSE

-----------------------------------------------------------------------------
(* A request: its Host header as a host and a port, its Origin header as a *)
(* scheme, a host and a port, and what the environment of the server says: *)
(* whether ALLOWED_HOSTS lists the host, with its port or without, and     *)
(* whether DISABLE_ORIGIN_CHECK is 1.                                      *)

\* No port is written.
NoPort == 0

\* What a URL means that writes none.
DefaultPort == [http |-> 80, https |-> 443]

hostAllowed(request) == request.listed \/ isPrivateHost(request.host)

\* `new URL(origin).host`: the scheme is not in it, nor the port that the scheme
\* has by default.
urlHost(origin) ==
  <<origin.host, IF origin.port = DefaultPort[origin.scheme] THEN NoPort ELSE origin.port>>

\* Mutant of originAllowed: `parsed.hostname`.
originAllowedAnyPort(request) ==
  \/ request.origin.scheme = "none"
  \/ request.origin.scheme # "opaque" /\ request.origin.host = request.host

\* No Origin header, or one that names the Host of the request; an opaque or
\* malformed one names nobody.
originAllowed(request) ==
  \/ request.origin.scheme = "none"
  \/ /\ request.origin.scheme # "opaque"
     /\ urlHost(request.origin) = <<request.host, request.port>>

checkRequestOrigin(request) ==
  request.unchecked \/ (hostAllowed(request) /\ originAllowed(request))

-----------------------------------------------------------------------------

\* Reference: the private ranges as prefixes of an address of 32 bits.
Bits(octets) == [i \in 1..32 |-> (octets[((i - 1) \div 8) + 1] \div 2 ^ (7 - ((i - 1) % 8))) % 2]

Ranges == {<< <<127, 0, 0, 0>>, 8>>, << <<10, 0, 0, 0>>, 8>>, << <<172, 16, 0, 0>>, 12>>,
           << <<192, 168, 0, 0>>, 16>>, << <<169, 254, 0, 0>>, 16>>, << <<100, 64, 0, 0>>, 10>>}

InRange(octets) ==
  \E range \in Ranges : \A i \in 1..range[2] : Bits(octets)[i] = Bits(range[1])[i]
=============================================================================
