-------------------------------- MODULE Boundary --------------------------------
(***************************************************************************)
(* Which remote addresses the backend serves                               *)
(* (backend/internal/server/boundary.go).                                  *)
(*                                                                         *)
(* Abstractions.  An address is what net.ParseIP makes of its text, as     *)
(* package net represents it: sixteen bytes, an IPv4 address in the last   *)
(* four behind the IPv4-mapped prefix, however it was written.  A text     *)
(* that does not parse, for example one with a zone, is Nil.               *)
(***************************************************************************)
EXTENDS Integers, Sequences

Byte == 0..255
Addresses == [1..16 -> Byte]
Nil == <<>>

Loopback6 == [i \in 1..16 |-> IF i = 16 THEN 1 ELSE 0]
Mapped(a, b, c, d) == <<0, 0, 0, 0, 0, 0, 0, 0, 0, 0, 255, 255, a, b, c, d>>

\* net.IP.To4 succeeds.
IsV4(ip) == ip[11] = 255 /\ ip[12] = 255 /\ \A i \in 1..10 : ip[i] = 0

\* net.IP.IsLoopback
IsLoopback(ip) == IF IsV4(ip) THEN ip[13] = 127 ELSE ip = Loopback6

\* net.ParseCIDR of the allowed ranges: the network's bytes and its mask's.
CIDR(net, mask) == [net |-> net, mask |-> mask]

\* Mutant of AllowedNets: 172.16.0.0 with eight bits.
WideNets ==
    {CIDR(<<127, 0, 0, 0>>, <<255, 0, 0, 0>>), CIDR(<<10, 0, 0, 0>>, <<255, 0, 0, 0>>),
     CIDR(<<172, 0, 0, 0>>, <<255, 0, 0, 0>>), CIDR(<<192, 168, 0, 0>>, <<255, 255, 0, 0>>)}

\* DefaultBoundaryPolicy: 127.0.0.0/8, 10.0.0.0/8, 172.16.0.0/12, 192.168.0.0/16.
AllowedNets ==
    {CIDR(<<127, 0, 0, 0>>, <<255, 0, 0, 0>>), CIDR(<<10, 0, 0, 0>>, <<255, 0, 0, 0>>),
     CIDR(<<172, 16, 0, 0>>, <<255, 240, 0, 0>>), CIDR(<<192, 168, 0, 0>>, <<255, 255, 0, 0>>)}

\* b & m for the byte m of a prefix mask, whose zeros are its low bits.
And(b, m) == b - (b % (256 - m))

\* net.IPNet.Contains: an IPv4 network has no IPv6 address.
Contains(range, ip) ==
    IsV4(ip) /\ \A i \in 1..4 : And(ip[12 + i], range.mask[i]) = range.net[i]

AllowsIP(ip) ==
    /\ ip # Nil
    /\ IsLoopback(ip) \/ \E range \in AllowedNets : Contains(range, ip)

ScopeForIP(ip) == IF ip # Nil /\ IsLoopback(ip) THEN "localhost" ELSE "rfc1918"

-----------------------------------------------------------------------------
(* Reference: the ranges the documents allow ("IPv4 private addresses (RFC   *)
(* 1918) and localhost (127.0.0.0/8)", and no IPv6), by first and last       *)
(* address.                                                                  *)

\* The IPv4 address ip does not come before a.b.c.d ...
NotBefore(a, b, c, d, ip) ==
    \/ ip[13] > a
    \/ ip[13] = a /\ ip[14] > b
    \/ ip[13] = a /\ ip[14] = b /\ ip[15] > c
    \/ ip[13] = a /\ ip[14] = b /\ ip[15] = c /\ ip[16] >= d

\* ... and does not come after it.
NotAfter(a, b, c, d, ip) ==
    \/ ip[13] < a
    \/ ip[13] = a /\ ip[14] < b
    \/ ip[13] = a /\ ip[14] = b /\ ip[15] < c
    \/ ip[13] = a /\ ip[14] = b /\ ip[15] = c /\ ip[16] <= d

InRFC1918(ip) ==
    /\ IsV4(ip)
    /\ \/ NotBefore(10, 0, 0, 0, ip) /\ NotAfter(10, 255, 255, 255, ip)
       \/ NotBefore(172, 16, 0, 0, ip) /\ NotAfter(172, 31, 255, 255, ip)
       \/ NotBefore(192, 168, 0, 0, ip) /\ NotAfter(192, 168, 255, 255, ip)

InLocalhost(ip) ==
    IsV4(ip) /\ NotBefore(127, 0, 0, 0, ip) /\ NotAfter(127, 255, 255, 255, ip)

InBoundary(ip) == ip # Nil /\ (InRFC1918(ip) \/ InLocalhost(ip))

=============================================================================
