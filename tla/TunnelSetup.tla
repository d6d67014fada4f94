---------------------------- MODULE TunnelSetup ----------------------------
(* What startTunnel makes of a profile and a country file: the routes that
   leave the tunnel (SVTunnelSettings), the configuration the core validates
   (buildConfigJSON, RuntimeConfig::from_json) and what the engine builds from
   it (engine::start, DnsInterceptor::new, the ChnRoute table).

   The same file is read twice, by two parsers, for two purposes: the operating
   system routes its addresses outside the tunnel, and the interceptor believes
   the domestic resolver when it names one of them.  Either reader may fail on
   its own, and the tunnel starts all the same.  The private range around the
   tunnel is one block, Ten, the other ranges that never enter it are Fixed, and
   the address of the tunnel's interface has a subnet, all scaled to W bits.  *)
EXTENDS Addresses, Sequences, FiniteSets

CONSTANTS
  Ten,          \* base of the 10/8 block
  TenSize,      \* its size: 24 bits in the code
  Fixed,        \* 172.16/12, 192.168/16, 169.254/16, 224/4, 255.255.255.255
  NetSize,      \* size of the tunnel's subnet: 2 bits, a /30
  DefaultPeer,  \* kDefaultTunnelAddress
  CountryFiles, \* possible country files, sets of blocks
  Servers       \* addresses a server host may resolve to

ASSUME SetupAssumption ==
  /\ Ten \in Address /\ DefaultPeer \in Address /\ Servers \subseteq Address
  /\ NetSize \in Sizes /\ TenSize \in Sizes /\ NetSize <= TenSize
  /\ CountryFiles \subseteq SUBSET Block /\ Fixed \subseteq Block

NoFileAt == {<<0, -1>>}   \* the country set is unavailable
NoPeer   == -1            \* an address that does not parse

Endpoint == {"ip:port", "other", "empty"}
Profile == [mode : {"full", "chinadns"}, peer : Address \cup {NoPeer},
            dnsLocal : Endpoint, dnsRemote : Endpoint, mtuFits : BOOLEAN]

VARIABLES
  setup,    \* "down", "configured", "up" or "failed"
  profile,  \* the profile the tunnel starts with
  file,     \* the country file, or NoFileAt
  server,   \* the addresses of the server
  routed,   \* the reader of the routes could read the file
  direct,   \* the blocks excluded from the tunnel
  table     \* the interceptor's table, NoTable without an interceptor

tsVars == <<setup, profile, file, server, routed, direct, table>>

NoTable == <<<<0, -1>>>>
NoProfile == [mode |-> "full", peer |-> NoPeer, dnsLocal |-> "empty",
              dnsRemote |-> "empty", mtuFits |-> TRUE]

Net(peer)   == Between(BlockRange(<<peer, NetSize>>))
TenRange    == Between(BlockRange(<<Ten, TenSize>>))
Peer(p)     == IF p.peer = NoPeer THEN DefaultPeer ELSE p.peer

Sibling(a, b) == LET base == BlockRange(<<a, b>>)[1]
                 IN  IF (base \div 2 ^ b) % 2 = 0 THEN base + 2 ^ b ELSE base - 2 ^ b
\* Faulty variant of SiblingsOfNet: stops one level short.
SiblingsTooFew(peer) == {<<Sibling(peer, b), b>> : b \in NetSize + 1 .. TenSize - 1}
\* appendTen8ExcludingTunnel: at each size the half that does not hold the
\* tunnel, its base with the last bit flipped.  Nothing checks that the tunnel
\* lies in Ten: the halves are those of the block of Ten's size around it.
SiblingsOfNet(peer) == {<<Sibling(peer, b), b>> : b \in NetSize .. TenSize - 1}

\* ipv4LanExcludedRoutesForTunnelIP: in every mode, wherever the tunnel lies.
LanRoutes(peer) == SiblingsOfNet(peer) \cup Fixed

\* appendChnrouteExclusions: every well-formed line of the file, or none when
\* the file cannot be read: the failure is logged and the start goes on.
Exclusions(f, read) == IF f # NoFileAt /\ read THEN f ELSE {}
\* in the split mode only
CountryRoutesOf(p, f, read) == IF p.mode = "chinadns" THEN Exclusions(f, read) ELSE {}

TunnelInit ==
  /\ setup = "down" /\ profile = NoProfile /\ file = NoFileAt
  /\ server = {} /\ routed = FALSE /\ direct = {} /\ table = NoTable

\* startTunnelWithOptions up to the engine: resolve, then build the settings.
StartTunnelWith(p, f, srv, read) ==
  /\ setup = "down"
  /\ setup' = "configured" /\ profile' = p /\ file' = f /\ server' = srv /\ routed' = read
  /\ direct' = LanRoutes(Peer(p)) \cup CountryRoutesOf(p, f, read)
                 \cup {<<a, 0>> : a \in srv}
  /\ UNCHANGED table

\* Sort and merge, on load: each range joins the last one before it, or follows.
JoinRange(acc, r) ==
  LET n == Len(acc)
  IN  IF n # 0 /\ (r[1] <= acc[n][2] \/ (acc[n][2] # Top /\ r[1] = acc[n][2] + 1))
      THEN [acc EXCEPT ![n] = <<@[1], Max2(@[2], r[2])>>]
      ELSE Append(acc, r)
\* The range a sort puts last.
LastRange(S) == CHOOSE r \in S : \A q \in S : q[1] < r[1] \/ (q[1] = r[1] /\ q[2] <= r[2])
Merged(ranges) == LET merge[S \in SUBSET ranges] ==
                        IF S = {} THEN <<>>
                        ELSE JoinRange(merge[S \ {LastRange(S)}], LastRange(S))
                  IN  merge
FromLines(B) == LET ranges == {BlockRange(b) : b \in B} IN Merged(ranges)[ranges]

\* contains(): a binary search for the last range that starts at or before the
\* address, whose end decides.
StartingBefore(t, a) == {i \in DOMAIN t : t[i][1] <= a}
\* Faulty variant of InTable: forgets the end of the range.
InTableStart(t, a) == StartingBefore(t, a) # {}
InTable(t, a) ==
  \E i \in StartingBefore(t, a) : a <= t[i][2] /\ \A j \in StartingBefore(t, a) : j <= i

\* The configuration that reaches the core: an empty endpoint is replaced by a
\* default one before the core can reject it.
Resolver(e) == IF e = "empty" THEN "ip:port" ELSE e
\* from_json: the MTU is a u16 there and an Int in the app; chinadns requires
\* the path of the country file, which is only there when it was resolved.
Valid(p, f) == p.mtuFits /\ (p.mode = "chinadns" => f # NoFileAt)

\* Also when the socket cannot be bound or the server's name not be resolved.
EngineFails ==
  /\ setup = "configured" /\ setup' = "failed"
  /\ UNCHANGED <<profile, file, server, routed, direct, table>>

EngineIntercepts ==
  /\ setup = "configured" /\ Valid(profile, file)
  /\ profile.mode = "chinadns" /\ file # NoFileAt
  /\ Resolver(profile.dnsLocal) = "ip:port" /\ Resolver(profile.dnsRemote) = "ip:port"
  /\ setup' = "up" /\ table' = FromLines(file)
  /\ UNCHANGED <<profile, file, server, routed, direct>>

\* Full mode, or an interceptor that could not be built (an endpoint that is
\* not an ip:port, an unreadable file, no direct socket): plain forwarding.
EngineForwards ==
  /\ setup = "configured" /\ Valid(profile, file)
  /\ setup' = "up"
  /\ UNCHANGED <<profile, file, server, routed, direct, table>>

StopAndRelease ==
  /\ setup \in {"up", "failed"}
  /\ setup' = "down" /\ profile' = NoProfile /\ file' = NoFileAt
  /\ server' = {} /\ routed' = FALSE /\ direct' = {} /\ table' = NoTable

TunnelNext ==
  \/ \E p \in Profile, f \in CountryFiles \cup {NoFileAt},
        srv \in {{}} \cup {{a} : a \in Servers}, read \in BOOLEAN :
        StartTunnelWith(p, f, srv, read)
  \/ EngineFails \/ EngineIntercepts \/ EngineForwards \/ StopAndRelease

TunnelSpec == TunnelInit /\ [][TunnelNext]_tsVars

\* An answer the interceptor calls domestic leads out of the tunnel, and every
\* other address that leaves the tunnel is in a range of the LAN or the server's:
\* the two readers of the country file agree (chnroute.rs:81-131,
\* SVTunnelSettings.m:192-239).  Not the first half where the reader of the
\* routes failed and the core's did not: then the interceptor believes the
\* domestic resolver and the traffic to its answers stays in the tunnel.
RoutesFollowTable ==
  setup = "up" /\ table # NoTable =>
    \A a \in Address :
      LET lan == BlockCover(LanRoutes(Peer(profile)))
      IN  /\ InTable(table, a) /\ routed => a \in BlockCover(direct)
          /\ a \in BlockCover(direct) \ (lan \cup server) => InTable(table, a)

\* "that /30 must stay routed into the tunnel" (SVTunnelSettings.m:134), the rest
\* of 10/8 and the other ranges of the LAN go direct, and nothing else does but
\* the server.  The code keeps the first only for a tunnel outside the Fixed
\* ranges, which it excludes without looking at the tunnel's address (143-149),
\* and the rest only for one in 10/8: around any other address it excludes that
\* address's own /8 and leaves 10/8 in the tunnel.
PrivateSplit ==
  setup \in {"configured", "up"} /\ profile.mode = "full" =>
    LET p     == Peer(profile)
        fixed == BlockCover(Fixed)
    IN  /\ BlockCover(direct) \cap Net(p) \subseteq server \cup fixed
        /\ fixed \subseteq BlockCover(direct)
        /\ p \in TenRange => BlockCover(direct) = (TenRange \ Net(p)) \cup fixed \cup server
=============================================================================
