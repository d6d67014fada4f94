------------------------------ MODULE MCPieces ------------------------------
(* Five parts that share no state, checked in one run: a behaviour is of one of
   them, the "subject", and leaves the others as they started.                *)
EXTENDS CountryRoutes, TunnelSetup, Carrier, PacketPath, MCDnsIntercept

VARIABLE subject

\* Networks of a country as the database walk yields them: disjoint blocks.
\* Apart, adjacent, one address apart, three in a row, at both ends of the
\* space, all of it in one and in two blocks, one address, none.
MCNetworks ==
  { {<<2, 3>>, <<8, 11>>}, {<<2, 3>>, <<4, 7>>}, {<<2, 2>>, <<4, 7>>},
    {<<1, 1>>, <<2, 3>>, <<4, 4>>}, {<<0, 1>>, <<14, 15>>}, {<<13, 13>>, <<14, 15>>},
    {<<0, 15>>}, {<<0, 7>>, <<8, 15>>}, {<<15, 15>>}, {} }
MCReleases ==
  {[v \in Versions |-> IF v = 1 THEN [nets |-> [c \in Countries |-> S], len |-> 1]
                       ELSE [nets |-> [c \in Countries |-> {<<4, 7>>}], len |-> l]] :
     S \in MCNetworks, l \in Lengths}

\* One block, several apart, one that covers the space, some across Ten's edges.
MCCountryFiles ==
  {{<<0, 2>>}, {<<3, 0>>, <<4, 1>>, <<7, 0>>}, {<<0, 4>>}, {<<6, 1>>, <<14, 1>>}}

\* A block that can hold the tunnel, one that can hold half of its net.
MCFixed == {<<2, 1>>, <<7, 0>>}

\* Every short datagram over four bytes, and one of each length up to nine.
MCDatagrams == UNION {[1 .. n -> {0, 5, 10, 15}] : n \in 0 .. 4}
                 \cup {[i \in 1 .. n |-> (7 * i) % 16] : n \in 5 .. 9}
MCNoise     == UNION {[1 .. n -> {0, 4, 7, 8, 12}] : n \in 0 .. 4}

MCPacket(len, ihl, proto, frag, dport, off, udp) ==
  [len |-> len, version |-> 4, ihl |-> ihl, proto |-> proto, frag |-> frag,
   src |-> <<2570, 2>>, dst |-> <<2056, 2056>>, sport |-> 40000, dport |-> dport,
   dataOff |-> off, udpLen |-> udp]
\* UDP around each length that is tested, and TCP with payloads from none to a
\* few extensions.
MCPackets ==
  {MCPacket(len, ihl, "udp", frag, dport, 5, u) :
     len \in {19, 20, 27, 28, 30, 32, 33}, ihl \in {4, 5, 6},
     frag \in {"whole", "later"}, dport \in {53, 54}, u \in {7, 8, 9, 12}}
  \cup {MCPacket(40 + n, 5, "tcp", "whole", port, off, 0) :
     n \in {0, 1, 5, 43, 44, 45, 49, 53, 65}, port \in {80, 443}, off \in {0, 5, 15}}
\* Messages that make the sums carry, an odd one, and one whose UDP sum is zero.
MCAnswers ==
  {[words |-> w, bytes |-> b] :
     w \in {<<a, c>> : a \in {0, 4660, 65535}, c \in {0, 256, 65280}}, b \in {3, 4}}
  \cup {[words |-> <<65535 - ((Sum(Pseudo(<<2056, 2056>>, <<2570, 2>>, 10)) + 53 + 40000 + 10)
                              % 65535)>>, bytes |-> 2]}

ParkedCountry ==
  /\ release = CHOOSE r \in Releases : TRUE
  /\ version = CHOOSE v \in Versions : \A u \in Versions : v <= u
ParkedCarrier == shape = "none"
PiecesInit ==
  /\ subject \in {"country", "setup", "carrier", "path", "dns"}
  /\ RoutesInit /\ TunnelInit /\ CarrierInit /\ PathInit /\ Init
  /\ subject # "country" => ParkedCountry
  /\ subject # "carrier" => ParkedCarrier
PiecesNext ==
  /\ UNCHANGED subject
  /\ \/ subject = "country" /\ RoutesNext /\ UNCHANGED <<tsVars, carrierVars, pathVars, vars>>
     \/ subject = "setup" /\ TunnelNext /\ UNCHANGED <<crVars, carrierVars, pathVars, vars>>
     \/ subject = "carrier" /\ CarrierNext /\ UNCHANGED <<crVars, tsVars, pathVars, vars>>
     \/ subject = "path" /\ PathNext /\ UNCHANGED <<crVars, tsVars, carrierVars, vars>>
     \/ subject = "dns" /\ Next /\ UNCHANGED <<crVars, tsVars, carrierVars, pathVars>>
PiecesSpec == /\ PiecesInit
              /\ [][PiecesNext]_<<subject, crVars, tsVars, carrierVars, pathVars, vars>>
              /\ WF_crVars(Step)
              /\ WF_vars(QueryDirect)
=============================================================================
