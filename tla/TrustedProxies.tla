---- MODULE TrustedProxies ----
(***************************************************************************)
(* internal/config/config.go and internal/middleware/proxy.go: the list of *)
(* trusted proxies, and the check of a request's peer against it.  An      *)
(* address is a family and its bits; package net, which is external, turns *)
(* an IPv6 address that maps an IPv4 one into that before it compares.  A  *)
(* link-local IPv6 peer has a zone, the interface it came in by.           *)
(***************************************************************************)
EXTENDS Integers, Sequences

CONSTANTS
    V4Bits, V6Bits,  \* the lengths of addresses
    MapPrefix,       \* how the IPv6 addresses that map IPv4 ones begin
    MaxEntries       \* the longest list

MapLength == V6Bits - V4Bits
Bits(n) == [1..n -> {0, 1}]

ASSUME LengthsAssumption == V4Bits \in Nat /\ V6Bits \in Nat /\ V4Bits < V6Bits
ASSUME EntriesAssumption == MaxEntries \in Nat

\* ::ffff, of which the last bit matters here: a mask that cuts it off leaves
\* an address that maps none.
ASSUME MapPrefixAssumption == MapPrefix \in Bits(MapLength) /\ MapPrefix[MapLength] = 1

\* Addresses as their bits: the length tells the family.
Address == Bits(V4Bits) \cup Bits(V6Bits)

\* What an entry of TRUSTED_PROXIES may be: a network, a plain address, nothing
\* between two commas, or something else.
NoEntry == [kind |-> "empty", ip |-> <<>>, ones |-> 0]
BadEntry == [kind |-> "garbage", ip |-> <<>>, ones |-> 0]
Entry ==
    {NoEntry, BadEntry}
    \cup {[kind |-> "address", ip |-> a, ones |-> 0] : a \in Address}
    \cup UNION {{[kind |-> "cidr", ip |-> a, ones |-> n] : n \in 0..Len(a)} : a \in Address}

\* A network: an address whose bits after the first ones are 0.
Network == {net \in [ip : Address, ones : 0..V6Bits] :
              /\ net.ones <= Len(net.ip)
              /\ \A i \in (net.ones + 1)..Len(net.ip) : net.ip[i] = 0}

\* A request's RemoteAddr: readable or not, link-local addresses with a zone.
LinkLocal(a) == Len(a) = V6Bits /\ a[1] # MapPrefix[1]
Peer == {p \in [ip : Address \cup {<<>>}, zone : BOOLEAN] : p.zone => LinkLocal(p.ip)}

VARIABLES
    env,      \* the environment variable
    trusted,  \* cfg.TrustedProxies, whose order does not matter
    pc,       \* "load", "serve", or "failed"
    peer,     \* the peer of the last request
    answer    \* the middleware's answer: "none", "next" or "403"

proxyVars == <<env, trusted, pc, peer, answer>>

\* All lists of entries.
EntryLists == UNION {[1..n -> Entry] : n \in 0..MaxEntries}
IsEntryList(list) == list \in Seq(Entry) /\ Len(list) <= MaxEntries

ProxiesTypeOK ==
    /\ IsEntryList(env)
    /\ trusted \subseteq Network
    /\ pc \in {"load", "serve", "failed"}
    /\ peer \in Peer
    /\ answer \in {"none", "next", "403"}

\* Before TRUSTED_PROXIES, whose value is list, is read.
ProxiesInit(list) ==
    /\ env = list
    /\ trusted = {}
    /\ pc = "load"
    /\ peer = [ip |-> <<>>, zone |-> FALSE]
    /\ answer = "none"

----------------------------------------------------------------------------
(* Package net.                                                             *)

Mask(a, ones) == [i \in 1..Len(a) |-> IF i <= ones THEN a[i] ELSE 0]

\* IP.To4: the IPv4 address a maps, if it does.
Maps(a) == Len(a) = V6Bits /\ SubSeq(a, 1, MapLength) = MapPrefix
To4(a) == IF Maps(a) THEN SubSeq(a, MapLength + 1, V6Bits) ELSE a

\* IPNet.Contains.  A mask for IPv6 on a mapped network loses its first bits.
Contains(net, a) ==
    LET ip == To4(net.ip)
        x == To4(a)
        cut == net.ones - (Len(net.ip) - Len(ip))
        ones == IF cut < 0 THEN 0 ELSE cut
    IN  Len(ip) = Len(x) /\ Mask(ip, ones) = Mask(x, ones)

----------------------------------------------------------------------------

\* Variant of ParseEntry: the mask of a plain IPv4 address is taken for IPv6.
ParseEntryWide(e) ==
    IF e.kind = "cidr" THEN [ip |-> Mask(e.ip, e.ones), ones |-> e.ones]
    ELSE [ip |-> e.ip, ones |-> V4Bits]

\* ParseTrustedProxies of one entry.  A plain address is a network of its own.
ParseEntry(e) ==
    LET a == To4(e.ip)
    IN  IF e.kind = "cidr" THEN [ip |-> Mask(e.ip, e.ones), ones |-> e.ones]
        ELSE [ip |-> a, ones |-> Len(a)]

\* The process ends on a bad entry or when nothing is listed.
Load ==
    /\ pc = "load"
    /\ LET named == {env[i] : i \in 1..Len(env)} \ {NoEntry}
           bad == named = {} \/ BadEntry \in named
       IN  \/ bad /\ pc' = "failed" /\ UNCHANGED trusted
           \/ /\ ~bad
              /\ trusted' = {ParseEntry(e) : e \in named}
              /\ pc' = "serve"
    /\ UNCHANGED <<env, peer, answer>>

IsIPTrusted(a, networks) == \E net \in networks : Contains(net, a)

\* net.SplitHostPort and net.ParseIP, which refuses a zone, then the list; the
\* handler is called if the answer is "next".
TrustedProxy(p) ==
    /\ pc = "serve"
    /\ peer' = p
    /\ LET parsed == p.ip # <<>> /\ ~p.zone
       IN  answer' = IF parsed /\ IsIPTrusted(p.ip, trusted) THEN "next" ELSE "403"
    /\ UNCHANGED <<env, trusted, pc>>

----------------------------------------------------------------------------
(* The reference: every address as an IPv6 one, an entry by the bits that   *)
(* the addresses it lists begin with.                                       *)

AsV6(a) == IF Len(a) = V4Bits THEN MapPrefix \o a ELSE a

\* Entry e lists address a.  An IPv6 network wider than the mapped addresses
\* has no IPv4 address in it.
Lists(e, a) ==
    LET ip == AsV6(e.ip)
        x == AsV6(a)
        ones == IF e.kind = "address" THEN V6Bits ELSE e.ones + Len(ip) - Len(e.ip)
    IN  /\ e.kind \in {"cidr", "address"}
        /\ SubSeq(ip, 1, ones) = SubSeq(x, 1, ones)
        /\ Maps(x) => ones >= MapLength

Accepted == answer = "next"
ListedPeer == \E i \in 1..Len(env) : peer.ip # <<>> /\ Lists(env[i], peer.ip)

\* A peer is let through exactly when an entry lists it, in whichever of its
\* two forms address and entry are written and wherever the entry stands among
\* others.  Peers with a zone excepted.
AcceptedIffListed == answer # "none" /\ ~peer.zone => (Accepted <=> ListedPeer)

\* "For any IP address and any trusted proxy list ..., the IP SHALL be accepted
\* if and only if it matches at least one entry in the list".
AnyAcceptedIffListed == answer # "none" => (Accepted <=> ListedPeer)
====
