---------------------------- MODULE PacketPath -----------------------------
(* One plaintext packet of the client on its way through ingress_loop: flow
   inspection for the log view (inspect.rs), then the interceptor's parser and
   the packet it answers with (dns_intercept.rs).  The crate aborts the whole
   extension on a panic, so that every read of every parser must be in range.

   A packet is its lengths and the fields that decide anything; they are
   independent of each other, as the bytes of a packet are.  What a parser
   reads inside a payload is any value: each length field is drawn from
   Lengths16 when it is read.  Sizes are the real ones.                       *)
EXTENDS Integers, Sequences

CONSTANTS
  Packets,    \* the packets of the client
  Lengths16,  \* values of length fields inside a TLS record
  MaxLines,   \* lines of an HTTP head, capped at 1024 bytes in the code
  Answers     \* DNS messages the interceptor answers with, words of 16 bits

HeaderMin == 20  \* IPV4_MIN_HEADER
UdpHeader == 8   \* UDP_HEADER
TlsRecord == 5

Host == [1 .. 2 -> Nat]  \* an IPv4 address, as two words of a checksum
Packet == [len : Nat, version : Nat, ihl : Nat, proto : {"udp", "tcp", "other"},
           frag : {"whole", "more", "later"}, src : Host, dst : Host,
           sport : Nat, dport : Nat, dataOff : Nat, udpLen : Nat]
ASSUME PacketsAssumption ==
  /\ Packets \subseteq Packet /\ MaxLines \in Nat /\ Lengths16 \subseteq Nat
  /\ Answers \subseteq [words : Seq(Nat), bytes : Nat]

VARIABLES
  pkt,    \* the packet the ingress task holds
  at,     \* where in the code it is
  cursor, \* p, tls_sni's position in the record
  limit,  \* rec.len(), later ext_end; lines left in an HTTP head
  abort,  \* "no", or the kind of panic
  reply   \* the packet handed to the writer

pathVars == <<pkt, at, cursor, limit, abort, reply>>

NoPacket == [len |-> 0, version |-> 0, ihl |-> 0, proto |-> "other", frag |-> "whole",
             src |-> <<0, 0>>, dst |-> <<0, 0>>, sport |-> 0, dport |-> 0, dataOff |-> 0, udpLen |-> 0]
NoReply == [ip |-> <<>>, udp |-> <<>>, bytes |-> 0]

HeaderBytes(p)  == 4 * p.ihl
Layer4(p)       == p.len - HeaderBytes(p)
GoodHeader(p)   == /\ p.len >= HeaderMin /\ p.version = 4
                   /\ HeaderBytes(p) >= HeaderMin /\ p.len >= HeaderBytes(p)

PathInit ==
  /\ pkt = NoPacket /\ at = "idle" /\ cursor = 0 /\ limit = 0
  /\ abort = "no" /\ reply = NoReply

Stays == UNCHANGED <<pkt, reply>>
Inspected == at' = "intercept" /\ cursor' = 0 /\ limit' = 0 /\ UNCHANGED abort
Aborts(kind) == at' = "aborted" /\ abort' = kind /\ UNCHANGED <<cursor, limit>>

Take(p) ==
  /\ at = "idle"
  /\ pkt' = p /\ at' = "describe"
  /\ UNCHANGED <<cursor, limit, abort, reply>>

\* The payload of a TCP segment; data_off may be below 20 or past the end.
Payload(p) == Layer4(p) - 4 * p.dataOff
Flow(p, port) == /\ GoodHeader(p) /\ p.proto = "tcp" /\ Layer4(p) >= 20
                 /\ Payload(p) > 0 /\ p.dport = port
\* describe, for everything but TLS and HTTP; question() is the vendored parser.
DescribesNothingMore ==
  /\ at = "describe" /\ ~Flow(pkt, 443) /\ ~Flow(pkt, 80)
  /\ Inspected /\ Stays
DescribesTls ==
  /\ at = "describe" /\ Flow(pkt, 443)
  /\ \/ Payload(pkt) <= TlsRecord /\ Inspected
     \/ Inspected  \* not a handshake record, or not a ClientHello
     \/ /\ Payload(pkt) > TlsRecord /\ at' = "session_id"
        /\ cursor' = 4 + 2 + 32 /\ limit' = Payload(pkt) - TlsRecord
        /\ UNCHANGED abort
  /\ Stays

\* rec.get(p) on a length field of "width" bytes, then a jump over what it counts.
Skips(field, width, next) ==
  /\ at = field
  /\ \/ cursor + width > limit /\ Inspected
     \/ /\ cursor + width <= limit
        /\ \E n \in Lengths16 :
             /\ width = 1 => n < 256
             /\ cursor' = cursor + width + n
        /\ at' = next /\ UNCHANGED <<limit, abort>>
  /\ Stays
SessionId    == Skips("session_id", 1, "cipher_suites")
CipherSuites == Skips("cipher_suites", 2, "compression")
Compression  == Skips("compression", 1, "extensions")

\* Faulty variant of ExtEnd: believes the length field.
ExtEndUnclamped(total) == cursor + 2 + total
\* p + ext_total, at most rec.len()
ExtEnd(total) ==
  LET e == cursor + 2 + total
  IN  IF e > limit THEN limit ELSE e
\* From here on "limit" is ext_end; rec.len() is still known from the packet.
Extensions ==
  /\ at = "extensions"
  /\ \/ cursor + 2 > limit /\ Inspected
     \/ /\ cursor + 2 <= limit
        /\ \E n \in Lengths16 : limit' = ExtEnd(n)
        /\ cursor' = cursor + 2 /\ at' = "extension" /\ UNCHANGED abort
  /\ Stays
RecordLen == Payload(pkt) - TlsRecord
\* One round of the loop: rec[p] .. rec[p + 3] are indexed without a check.
Extension ==
  /\ at = "extension"
  /\ \/ cursor + 4 > limit /\ Inspected
     \/ cursor + 4 <= limit /\ cursor + 4 > RecordLen /\ Aborts("index")
     \/ /\ cursor + 4 <= limit /\ cursor + 4 <= RecordLen
        /\ \E len \in Lengths16 :
             \/ cursor + 4 + len > RecordLen /\ Inspected
             \/ /\ cursor + 4 + len <= RecordLen
                /\ cursor' = cursor + 4 + len
                /\ UNCHANGED <<at, limit, abort>>
             \/ \* server_name: found, empty or malformed, it ends the search
                cursor + 4 + len <= RecordLen /\ Inspected
  /\ Stays

DescribesHttp ==
  /\ at = "describe" /\ Flow(pkt, 80)
  /\ \/ Inspected  \* no method
     \/ \E n \in 1 .. MaxLines :
          at' = "line" /\ limit' = n /\ cursor' = 0 /\ UNCHANGED abort
  /\ Stays
\* What http_host does depends on a line's first five bytes: they are fewer than
\* five, they spell "host:", they do not, or they end inside a character, where
\* slicing a str panics.
HttpLine ==
  /\ at = "line"
  /\ \E kind \in {"short", "host", "blankHost", "other", "straddling"} :
       \/ kind = "straddling" /\ Aborts("boundary")
       \/ kind = "host" /\ Inspected
       \/ /\ kind \in {"short", "blankHost", "other"}
          /\ IF limit = 1 THEN Inspected
             ELSE limit' = limit - 1 /\ UNCHANGED <<at, cursor, abort>>
  /\ Stays

\* parse_udp_dns_query: the IP total length is not looked at, so that a packet
\* may have bytes after its datagram.
IsQuery(p) ==
  /\ GoodHeader(p) /\ Layer4(p) >= UdpHeader /\ p.proto = "udp"
  /\ p.frag = "whole" /\ p.dport = 53 /\ p.udpLen > UdpHeader
  /\ HeaderBytes(p) + p.udpLen <= p.len
\* The payload is sliced out of the buffer, udp[8..udp_len].
Intercept ==
  /\ at = "intercept" /\ IsQuery(pkt)
  /\ IF pkt.udpLen <= Layer4(pkt)
     THEN at' = "ask" /\ UNCHANGED <<cursor, limit, abort>>
     ELSE Aborts("index")
  /\ Stays
\* Without an interceptor, for another kind of query, or for another packet.
Forward ==
  /\ at \in {"intercept", "ask"} /\ at' = "idle" /\ pkt' = NoPacket
  /\ UNCHANGED <<cursor, limit, abort, reply>>

\* Sums in 32 bits, folded into 16.  The carry of a fold is folded in turn.
Sums(words) == LET upTo[i \in 0 .. Len(words)] ==
                     IF i = 0 THEN 0 ELSE upTo[i - 1] + words[i]
               IN  upTo
Sum(words)  == Sums(words)[Len(words)]
Once(s)    == (s % 65536) + (s \div 65536)
Fold(s)    == Once(Once(s))
Checksum(words) == 65535 - Fold(Sum(words))

\* A DNS message is [words, bytes]: an odd one has its last byte in the high
\* half of the last word.
IpHeader(src, dst, total, csum) ==
  <<17664, total, 0, 16384, 16401, csum>> \o src \o dst
UdpWords(sport, dport, len, csum, msg) == <<sport, dport, len, csum>> \o msg.words
Pseudo(src, dst, len) == src \o dst \o <<17, len>>

\* Faulty variant of UdpChecksum: leaves a zero, which means "no checksum".
UdpChecksumZero(words) == Checksum(words)
UdpChecksum(words) == IF Checksum(words) = 0 THEN 65535 ELSE Checksum(words)
Build(src, sport, dst, dport, msg) ==
  LET len   == UdpHeader + msg.bytes
      total == HeaderMin + len
      udp0  == UdpWords(sport, dport, len, 0, msg)
  IN  [ip    |-> IpHeader(src, dst, total, Checksum(IpHeader(src, dst, total, 0))),
       udp   |-> UdpWords(sport, dport, len, UdpChecksum(Pseudo(src, dst, len) \o udp0), msg),
       bytes |-> total]

\* Faulty variant of EmitResponse: addressed like the query.
EmitResponseUnswapped(msg) ==
  /\ at = "ask"
  /\ reply' = Build(pkt.src, pkt.sport, pkt.dst, pkt.dport, msg)
  /\ at' = "answered" /\ UNCHANGED <<pkt, cursor, limit, abort>>
EmitResponse(msg) ==
  /\ at = "ask"
  /\ reply' = Build(pkt.dst, pkt.dport, pkt.src, pkt.sport, msg)
  /\ at' = "answered" /\ UNCHANGED <<pkt, cursor, limit, abort>>
NextPacket ==
  /\ at = "answered" /\ at' = "idle" /\ pkt' = NoPacket /\ reply' = NoReply
  /\ UNCHANGED <<cursor, limit, abort>>

PathNext ==
  \/ \E p \in Packets : Take(p)
  \/ DescribesNothingMore \/ DescribesTls \/ DescribesHttp
  \/ SessionId \/ CipherSuites \/ Compression \/ Extensions \/ Extension
  \/ HttpLine
  \/ Intercept \/ Forward
  \/ \E msg \in Answers : EmitResponse(msg)
  \/ NextPacket

PathSpec == PathInit /\ [][PathNext]_pathVars

\* "a malformed packet must never index out of range" (inspect.rs:11): whatever
\* the length fields say, no parser reads past the packet.  The slice of a str
\* inside a character is the abort that remains.
ReadsInBounds == abort \in {"no", "boundary"}

\* The client's stack accepts the packet: both sums over what was sent come to
\* all ones, and the UDP checksum is present (dns_intercept.rs:417-508).
ChecksumsVerify ==
  LET verifies(words) == LET s == Sum(words) IN s > 0 /\ s % 65535 = 0
  IN  reply # NoReply =>
        /\ verifies(reply.ip)
        /\ verifies(Pseudo(SubSeq(reply.ip, 7, 8), SubSeq(reply.ip, 9, 10), reply.udp[3])
                      \o reply.udp)
        /\ reply.udp[4] # 0

\* An answer goes back to the socket that asked, from the server it asked, and
\* only for a query that was whole and inside its packet; its lengths are those
\* of the message.
AnswersTheAsker ==
  at = "answered" =>
    /\ SubSeq(reply.ip, 7, 8) = pkt.dst /\ SubSeq(reply.ip, 9, 10) = pkt.src
    /\ reply.udp[1] = 53 /\ reply.udp[2] = pkt.sport
    /\ pkt.frag = "whole" /\ pkt.proto = "udp" /\ HeaderBytes(pkt) + pkt.udpLen <= pkt.len
    /\ reply.ip[2] = HeaderMin + reply.udp[3] /\ reply.bytes = reply.ip[2]
=============================================================================
