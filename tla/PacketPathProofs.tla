-------------------------- MODULE PacketPathProofs -------------------------
(* What is proved of PacketPath for every packet, every length field and every
   answer: that no parser reads past the packet, where an answer goes and that
   its checksums verify.  And of Carrier, which takes a packet on to the
   server, for every datagram: that unwrapping gives back what was wrapped.    *)
EXTENDS PacketPath, Carrier, SequenceTheorems, WellFoundedInduction, TLAPS

(* The bound that tls_sni reads up to is inside the record: rec.len() at first,
   then ext_end, which is a length field of the packet cut off at rec.len().
   The length of the record is that of the packet in hand, so that the packet
   must be the same one through the whole walk.                                *)
WalkTypes == /\ pkt \in Packet /\ cursor \in Nat /\ limit \in Int
             /\ at \in {"idle", "describe", "session_id", "cipher_suites", "compression",
                        "extensions", "extension", "line", "intercept", "ask",
                        "answered", "aborted"}
LimitInRecord ==
  /\ at \in {"session_id", "cipher_suites", "compression", "extensions"} => limit = RecordLen
  /\ at = "extension" => limit <= RecordLen

PathInv == WalkTypes /\ LimitInRecord /\ ReadsInBounds

-----------------------------------------------------------------------------
\* The lengths that the walk is measured against are integers.
LEMMA LengthsAreIntegers ==
  ASSUME NEW p \in Packet
  PROVE  Layer4(p) \in Int /\ Payload(p) \in Int /\ HeaderBytes(p) \in Nat
  BY DEF Packet, Layer4, Payload, HeaderBytes

\* A length field never moves the end of the extensions past the record.
LEMMA ExtEndClamps ==
  ASSUME limit \in Int, cursor \in Nat, NEW n \in Nat
  PROVE  ExtEnd(n) \in Int /\ ExtEnd(n) <= limit
  BY DEF ExtEnd

\* The UDP length of a query is within the bytes after its IP header, although
\* the IP total length is not looked at.
LEMMA QueryFits ==
  ASSUME NEW p \in Packet, IsQuery(p)
  PROVE  p.udpLen <= Layer4(p)
  BY DEF Packet, IsQuery, Layer4, HeaderBytes

LEMMA SkipsStep ==
  ASSUME PathInv, NEW field, NEW width \in {1, 2}, NEW next, Skips(field, width, next),
         field \in {"session_id", "cipher_suites", "compression"},
         next \in {"cipher_suites", "compression", "extensions"}
  PROVE  PathInv'
<1> USE PacketsAssumption DEF PacketsAssumption
<1>1. CASE Inspected /\ Stays
  BY <1>1 DEF Inspected, Stays, PathInv, WalkTypes, LimitInRecord, ReadsInBounds
<1>2. ASSUME NEW n \in Lengths16, cursor' = cursor + width + n, at' = next,
             UNCHANGED <<limit, abort>>, Stays, at = field
      PROVE  PathInv'
  BY <1>2 DEF Stays, PathInv, WalkTypes, LimitInRecord, ReadsInBounds, RecordLen, Payload,
     Layer4, HeaderBytes
<1> QED
  BY <1>1, <1>2 DEF Skips

-----------------------------------------------------------------------------
LEMMA NoPacketIsOne == NoPacket \in Packet
<1>1. <<0, 0>> \in Host
  BY DEF Host
<1> QED
  BY <1>1 DEF NoPacket, Packet

LEMMA PathInitInv == PathInit => PathInv
  BY NoPacketIsOne DEF PathInit, PathInv, WalkTypes, LimitInRecord, ReadsInBounds

LEMMA PathStep == PathInv /\ [PathNext]_pathVars => PathInv'
<1> SUFFICES ASSUME PathInv, [PathNext]_pathVars PROVE PathInv'
  OBVIOUS
<1> USE PacketsAssumption DEF PacketsAssumption
<1> USE DEF PathInv, WalkTypes, LimitInRecord, ReadsInBounds
<1>1. ASSUME NEW p \in Packets, Take(p) PROVE PathInv'
  BY <1>1 DEF Take
<1>2. CASE DescribesNothingMore
  BY <1>2 DEF DescribesNothingMore, Inspected, Stays
<1>3. CASE DescribesTls
  <2>1. CASE Inspected /\ Stays
    BY <2>1 DEF Inspected, Stays
  <2>2. CASE at' = "session_id" /\ cursor' = 4 + 2 + 32 /\ UNCHANGED abort /\ Stays
             /\ limit' = Payload(pkt) - TlsRecord
    <3>1. Payload(pkt) - TlsRecord \in Int
      BY LengthsAreIntegers DEF TlsRecord
    <3> QED
      BY <2>2, <3>1 DEF Stays, RecordLen, Payload, Layer4, HeaderBytes
  <2> QED
    BY <1>3, <2>1, <2>2 DEF DescribesTls
<1>4. CASE DescribesHttp
  BY <1>4 DEF DescribesHttp, Inspected, Stays
<1>5. CASE SessionId \/ CipherSuites \/ Compression
  BY <1>5, SkipsStep DEF SessionId, CipherSuites, Compression
<1>6. CASE Extensions
  <2>1. CASE Inspected /\ Stays
    BY <2>1 DEF Inspected, Stays
  <2>2. ASSUME NEW n \in Lengths16, limit' = ExtEnd(n), cursor' = cursor + 2,
               at' = "extension", UNCHANGED abort, Stays, at = "extensions"
        PROVE  PathInv'
    <3>1. limit' \in Int /\ limit' <= limit
      BY <2>2, ExtEndClamps
    <3> QED
      BY <2>2, <3>1 DEF Stays, RecordLen, Payload, Layer4, HeaderBytes
  <2> QED
    BY <1>6, <2>1, <2>2 DEF Extensions
<1>7. CASE Extension
  <2>1. CASE Inspected /\ Stays
    BY <2>1 DEF Inspected, Stays
  <2>2. RecordLen \in Int
    BY LengthsAreIntegers DEF RecordLen, TlsRecord
  <2>3. ~(cursor + 4 <= limit /\ cursor + 4 > RecordLen)
    BY <1>7, <2>2 DEF Extension
  <2>4. ASSUME NEW len \in Lengths16, cursor' = cursor + 4 + len,
               UNCHANGED <<at, limit, abort>>, Stays
        PROVE  PathInv'
    BY <2>4 DEF Stays, RecordLen, Payload, Layer4, HeaderBytes
  <2> QED
    BY <1>7, <2>1, <2>3, <2>4 DEF Extension
<1>8. CASE HttpLine
  BY <1>8 DEF HttpLine, Inspected, Aborts, Stays
<1>9. CASE Intercept
  <2>1. pkt.udpLen <= Layer4(pkt)
    BY <1>9, QueryFits DEF Intercept
  <2> QED
    BY <1>9, <2>1 DEF Intercept, Stays
<1>10. CASE Forward
  BY <1>10, NoPacketIsOne DEF Forward
<1>11. ASSUME NEW msg \in Answers, EmitResponse(msg) PROVE PathInv'
  BY <1>11 DEF EmitResponse
<1>12. CASE NextPacket
  BY <1>12, NoPacketIsOne DEF NextPacket
<1>13. CASE UNCHANGED pathVars
  BY <1>13 DEF pathVars, RecordLen, Payload, Layer4, HeaderBytes
<1> QED
  BY <1>1, <1>2, <1>3, <1>4, <1>5, <1>6, <1>7, <1>8, <1>9, <1>10, <1>11, <1>12, <1>13
  DEF PathNext

(* Whatever the packets and their length fields, no parser of the ingress task
   reads past the packet it was given (inspect.rs:11): the only abort left is
   the slice of a str inside a character.                                      *)
THEOREM ParsersStayInside == PathSpec => []ReadsInBounds
<1>1. PathSpec => []PathInv
  BY PathInitInv, PathStep, PTL DEF PathSpec
<1>2. PathInv => ReadsInBounds
  BY DEF PathInv
<1> QED
  BY <1>1, <1>2, PTL

-----------------------------------------------------------------------------
(* Why an answer finds the one who asked.  Between the parser and the answer
   the task holds the packet the parser accepted; the answer is built from its
   addresses and ports, exchanged.                                             *)
AnswerTo(p, msg) == Build(p.dst, p.dport, p.src, p.sport, msg)
AskedInv ==
  /\ at \in {"ask", "answered"} => IsQuery(pkt)
  /\ at = "answered" => \E msg \in Answers : reply = AnswerTo(pkt, msg)
  /\ at # "answered" => reply = NoReply

LEMMA AskedInit == PathInit => AskedInv
  BY DEF PathInit, AskedInv

LEMMA AskedStep == PathInv /\ AskedInv /\ [PathNext]_pathVars => AskedInv'
<1> SUFFICES ASSUME PathInv, AskedInv, [PathNext]_pathVars PROVE AskedInv'
  OBVIOUS
<1>1. CASE Intercept
  BY <1>1 DEF Intercept, Aborts, Stays, AskedInv, IsQuery, GoodHeader, HeaderBytes, Layer4
<1>2. ASSUME NEW msg \in Answers, EmitResponse(msg) PROVE AskedInv'
  BY <1>2 DEF EmitResponse, AskedInv, AnswerTo, IsQuery, GoodHeader, HeaderBytes, Layer4
<1>3. CASE UNCHANGED pathVars
  BY <1>3 DEF pathVars, AskedInv, AnswerTo, IsQuery, GoodHeader, HeaderBytes, Layer4
<1>4. ASSUME at' \notin {"ask", "answered"}, reply' = NoReply PROVE AskedInv'
  BY <1>4 DEF AskedInv, NoReply
<1>5. CASE \/ \E p \in Packets : Take(p)
           \/ DescribesNothingMore \/ DescribesTls \/ DescribesHttp
           \/ Forward \/ NextPacket
  <2>1. at' \notin {"ask", "answered"} /\ reply' = NoReply
    BY <1>5 DEF Take, DescribesNothingMore, DescribesTls, DescribesHttp, Forward,
       NextPacket, Inspected, Stays, AskedInv, NoReply
  <2> QED
    BY <1>4, <2>1
<1>6. CASE SessionId \/ CipherSuites \/ Compression \/ Extensions \/ Extension \/ HttpLine
  <2>1. at' \notin {"ask", "answered"} /\ reply' = NoReply
    BY <1>6 DEF SessionId, CipherSuites, Compression, Skips, Extensions, Extension,
       HttpLine, Inspected, Aborts, Stays, AskedInv, NoReply
  <2> QED
    BY <1>4, <2>1
<1> QED
  BY <1>1, <1>2, <1>3, <1>5, <1>6 DEF PathNext

LEMMA HostIsSeq ==
  ASSUME NEW S, Nat \subseteq S, NEW host \in Host
  PROVE  host \in Seq(S) /\ Len(host) = 2
<1>1. host \in [1 .. 2 -> S]
  BY DEF Host
<1>2. [1 .. 2 -> S] \in {[1 .. n -> S] : n \in Nat}
  OBVIOUS
<1>3. host \in Seq(S)
  BY <1>1, <1>2, SeqDef, Zenon
<1>4. DOMAIN host = 1 .. 2 /\ DOMAIN host = 1 .. Len(host) /\ Len(host) \in Nat
  BY <1>1, <1>3, LenProperties, Zenon
<1>5. 2 \in 1 .. Len(host) /\ Len(host) \in 1 .. 2
  BY <1>4
<1> QED
  BY <1>3, <1>4, <1>5

\* The words of a stay where they are in a \o b.
LEMMA WordsOfConcat ==
  ASSUME NEW S, NEW a \in Seq(S), NEW b \in Seq(S)
  PROVE  /\ a \o b \in Seq(S) /\ Len(a \o b) = Len(a) + Len(b)
         /\ \A i \in 1 .. Len(a) : (a \o b)[i] = a[i]
<1>1. Len(a) \in Nat /\ Len(b) \in Nat
  BY LenProperties, Zenon
<1>2. /\ a \o b \in Seq(S) /\ Len(a \o b) = Len(a) + Len(b)
      /\ \A i \in 1 .. Len(a) + Len(b) :
           (a \o b)[i] = IF i <= Len(a) THEN a[i] ELSE b[i - Len(a)]
  BY ConcatProperties, Zenon
<1>3. ASSUME NEW i \in 1 .. Len(a) PROVE (a \o b)[i] = a[i]
  BY <1>1, <1>2
<1> QED
  BY <1>2, <1>3

LEMMA HostAppended ==
  ASSUME NEW S, Nat \subseteq S, NEW a \in Seq(S), NEW host \in Host
  PROVE  /\ a \o host \in Seq(S) /\ Len(a \o host) = Len(a) + 2
         /\ \A i \in 1 .. Len(a) : (a \o host)[i] = a[i]
         /\ (a \o host)[Len(a) + 1] = host[1] /\ (a \o host)[Len(a) + 2] = host[2]
<1>1. host \in Seq(S) /\ Len(host) = 2
  BY HostIsSeq
<1>2. a \o host \in Seq(S) /\ Len(a \o host) = Len(a) + Len(host)
  BY <1>1, WordsOfConcat, Zenon
<1>3. \A i \in 1 .. Len(a) : (a \o host)[i] = a[i]
  BY <1>1, WordsOfConcat, Zenon
<1>4. \A i \in 1 .. Len(a) + Len(host) :
        (a \o host)[i] = IF i <= Len(a) THEN a[i] ELSE host[i - Len(a)]
  BY <1>1, ConcatProperties, Zenon
<1>5. Len(a) \in Nat
  BY LenProperties, Zenon
<1>6. (a \o host)[Len(a) + 1] = host[1] /\ (a \o host)[Len(a) + 2] = host[2]
  <2>1. /\ Len(a) + 1 \in 1 .. Len(a) + Len(host) /\ ~(Len(a) + 1 <= Len(a))
        /\ Len(a) + 2 \in 1 .. Len(a) + Len(host) /\ ~(Len(a) + 2 <= Len(a))
        /\ (Len(a) + 1) - Len(a) = 1 /\ (Len(a) + 2) - Len(a) = 2
    BY <1>1, <1>5
  <2> QED
    BY <1>4, <2>1, Zenon
<1> QED
  BY <1>1, <1>2, <1>3, <1>6

\* The two hosts of a header are its last four words.
LEMMA HeaderHosts ==
  ASSUME NEW src \in Host, NEW dst \in Host, NEW total, NEW csum
  PROVE  LET h == IpHeader(src, dst, total, csum)
         IN  SubSeq(h, 7, 8) = src /\ SubSeq(h, 9, 10) = dst /\ h[2] = total
<1> DEFINE S == {total, csum} \cup Nat
           a == <<17664, total, 0, 16384, 16401, csum>>
           b == a \o src
           c == b \o dst
<1>1. a \in Seq(S) /\ Len(a) = 6 /\ a[2] = total /\ Nat \subseteq S
  OBVIOUS
<1> HIDE DEF a, S
<1>2. /\ b \in Seq(S) /\ Len(b) = Len(a) + 2
      /\ \A i \in 1 .. Len(a) : b[i] = a[i]
      /\ b[Len(a) + 1] = src[1] /\ b[Len(a) + 2] = src[2]
  BY <1>1, HostAppended
<1> HIDE DEF b
<1>3. /\ c \in Seq(S) /\ Len(c) = Len(b) + 2
      /\ \A i \in 1 .. Len(b) : c[i] = b[i]
      /\ c[Len(b) + 1] = dst[1] /\ c[Len(b) + 2] = dst[2]
  BY <1>1, <1>2, HostAppended
<1> HIDE DEF c
<1>4. /\ Len(c) = 10 /\ c[2] = total /\ c[7] = src[1] /\ c[8] = src[2]
      /\ c[9] = dst[1] /\ c[10] = dst[2]
  BY <1>1, <1>2, <1>3
<1>5. SubSeq(c, 7, 8) = src /\ SubSeq(c, 9, 10) = dst
  BY <1>3, <1>4 DEF Host
<1>6. IpHeader(src, dst, total, csum) = c
  BY DEF a, b, c, IpHeader
<1> QED
  BY <1>4, <1>5, <1>6

LEMMA DatagramFields ==
  ASSUME NEW sport, NEW dport, NEW len, NEW csum, NEW msg, msg.words \in Seq(Nat)
  PROVE  LET u == UdpWords(sport, dport, len, csum, msg)
         IN  u[1] = sport /\ u[2] = dport /\ u[3] = len /\ u[4] = csum
<1> DEFINE S == {sport, dport, len, csum} \cup Nat
           a == <<sport, dport, len, csum>>
<1>1. /\ a \in Seq(S) /\ Len(a) = 4 /\ a[1] = sport /\ a[2] = dport /\ a[3] = len
      /\ a[4] = csum
  OBVIOUS
<1>2. msg.words \in Seq(S)
  BY SeqMonotonic
<1> HIDE DEF a, S
<1>3. \A i \in 1 .. Len(a) : (a \o msg.words)[i] = a[i]
  BY <1>1, <1>2, WordsOfConcat, Zenon
<1>4. /\ (a \o msg.words)[1] = sport /\ (a \o msg.words)[2] = dport
      /\ (a \o msg.words)[3] = len /\ (a \o msg.words)[4] = csum
  <2>1. 1 \in 1 .. Len(a) /\ 2 \in 1 .. Len(a) /\ 3 \in 1 .. Len(a) /\ 4 \in 1 .. Len(a)
    BY <1>1
  <2> QED
    BY <1>1, <1>3, <2>1, Zenon
<1> QED
  BY <1>4 DEF UdpWords, a

(* An answer goes back to the socket that asked, from the server it asked, and
   only for a query that was whole and inside its packet (dns_intercept.rs:
   386-415, 417-508).                                                          *)
THEOREM AnswersGoBack == PathSpec => []AnswersTheAsker
<1>1. PathInv /\ AskedInv => AnswersTheAsker
  <2> SUFFICES ASSUME PathInv, AskedInv, at = "answered"
               PROVE  /\ SubSeq(reply.ip, 7, 8) = pkt.dst /\ SubSeq(reply.ip, 9, 10) = pkt.src
                      /\ reply.udp[1] = 53 /\ reply.udp[2] = pkt.sport
                      /\ pkt.frag = "whole" /\ pkt.proto = "udp"
                      /\ HeaderBytes(pkt) + pkt.udpLen <= pkt.len
                      /\ reply.ip[2] = HeaderMin + reply.udp[3] /\ reply.bytes = reply.ip[2]
    BY DEF AnswersTheAsker
  <2>1. IsQuery(pkt) /\ pkt \in Packet
    BY DEF AskedInv, PathInv, WalkTypes
  <2>2. PICK msg \in Answers : reply = AnswerTo(pkt, msg)
    BY DEF AskedInv
  <2>3. msg.words \in Seq(Nat)
    BY PacketsAssumption DEF PacketsAssumption
  <2> DEFINE len   == UdpHeader + msg.bytes
             total == HeaderMin + len
             ipSum == Checksum(IpHeader(pkt.dst, pkt.src, total, 0))
             words == Pseudo(pkt.dst, pkt.src, len)
                        \o UdpWords(pkt.dport, pkt.sport, len, 0, msg)
             udpSum == UdpChecksum(words)
  <2>4. /\ reply.ip = IpHeader(pkt.dst, pkt.src, total, ipSum)
        /\ reply.udp = UdpWords(pkt.dport, pkt.sport, len, udpSum, msg)
        /\ reply.bytes = total
    BY <2>2 DEF AnswerTo, Build
  <2> HIDE DEF ipSum, words, udpSum, len
  <2>5. SubSeq(reply.ip, 7, 8) = pkt.dst /\ SubSeq(reply.ip, 9, 10) = pkt.src /\ reply.ip[2] = total
    BY <2>1, <2>4, HeaderHosts DEF Packet
  <2>6. reply.udp[1] = pkt.dport /\ reply.udp[2] = pkt.sport /\ reply.udp[3] = len
    BY <2>3, <2>4, DatagramFields
  <2> QED
    BY <2>1, <2>4, <2>5, <2>6 DEF IsQuery
<1>2. PathSpec => [](PathInv /\ AskedInv)
  BY PathInitInv, PathStep, AskedInit, AskedStep, PTL DEF PathSpec
<1> QED
  BY <1>1, <1>2, PTL

-----------------------------------------------------------------------------
(***************************************************************************)
(* A nonempty set of numbers has a least one: the form of induction that   *)
(* the lemmas on sums use.                                                 *)
(***************************************************************************)
LEMMA LeastNumber ==
  ASSUME NEW S, S \subseteq Nat, S # {}
  PROVE  \E n \in S : \A m \in S : n <= m
<1> DEFINE R == {p \in Nat \X Nat : p[1] < p[2]}
<1>1. IsWellFoundedOn(R, Nat)
  BY NatLessThanWellFounded DEF OpToRel
<1>2. PICK n \in S : \A m \in S : ~(<<m, n>> \in R)
  <2> HIDE DEF R
  <2> QED
    BY <1>1, WFMin
<1>3. ASSUME NEW m \in S PROVE n <= m
  <2>1. m \in Nat /\ n \in Nat /\ ~(m < n)
    BY <1>2
  <2> QED
    BY <2>1
<1> QED
  BY <1>3

\* One step of the running sum, up to the word k.
RunsUpTo(f, words, k) ==
  /\ DOMAIN f = 0 .. k /\ f = [i \in DOMAIN f |-> f[i]]
  /\ \A i \in 0 .. k : f[i] = IF i = 0 THEN 0 ELSE f[i - 1] + words[i]

LEMMA RunExists ==
  ASSUME NEW words, NEW n \in Nat
  PROVE  \E f : RunsUpTo(f, words, n)
<1> DEFINE S == {k \in Nat : ~\E f : RunsUpTo(f, words, k)}
<1>1. ASSUME NEW k \in S, \A m \in S : k <= m PROVE FALSE
  <2>1. CASE k = 0
    <3>1. RunsUpTo([i \in 0 .. 0 |-> 0], words, 0)
      BY DEF RunsUpTo
    <3> QED
      BY <1>1, <2>1, <3>1
  <2>2. CASE k # 0
    <3>1. k - 1 \in Nat /\ k - 1 \notin S
      BY <1>1, <2>2
    <3>2. PICK f : RunsUpTo(f, words, k - 1)
      BY <3>1
    <3> DEFINE g == [i \in 0 .. k |-> IF i = k THEN f[k - 1] + words[k] ELSE f[i]]
    <3>3. \A i \in 0 .. k : g[i] = IF i = 0 THEN 0 ELSE g[i - 1] + words[i]
      <4>1. ASSUME NEW i \in 0 .. k, i # k PROVE i \in 0 .. k - 1 /\ g[i] = f[i]
        BY <1>1, <4>1
      <4>2. g[k] = f[k - 1] + words[k] /\ g[k - 1] = f[k - 1]
        BY <1>1, <3>1
      <4>3. \A i \in 0 .. k - 1 : i # 0 => i - 1 \in 0 .. k /\ i - 1 # k
        BY <1>1
      <4> HIDE DEF g
      <4> QED
        BY <2>2, <3>2, <4>1, <4>2, <4>3 DEF RunsUpTo
    <3>4. RunsUpTo(g, words, k)
      <4>1. DOMAIN g = 0 .. k /\ g = [i \in DOMAIN g |-> g[i]]
        OBVIOUS
      <4> HIDE DEF g
      <4> QED
        BY <3>3, <4>1 DEF RunsUpTo
    <3> QED
      BY <1>1, <3>4
  <2> QED
    BY <2>1, <2>2
<1>2. S = {}
  <2>1. S \subseteq Nat
    OBVIOUS
  <2> HIDE DEF S
  <2> QED
    BY <1>1, <2>1, LeastNumber
<1> QED
  BY <1>2

LEMMA SumsRun ==
  ASSUME NEW words, Len(words) \in Nat
  PROVE  RunsUpTo(Sums(words), words, Len(words))
<1>1. PICK f : RunsUpTo(f, words, Len(words))
  BY RunExists
<1>2. f = [i \in 0 .. Len(words) |-> IF i = 0 THEN 0 ELSE f[i - 1] + words[i]]
  BY <1>1 DEF RunsUpTo
<1>3. Sums(words) = [i \in 0 .. Len(words) |->
                       IF i = 0 THEN 0 ELSE Sums(words)[i - 1] + words[i]]
  BY <1>2 DEF Sums
<1> QED
  BY <1>3 DEF RunsUpTo

LEMMA SumsAreNumbers ==
  ASSUME NEW S, S \in {Nat, Int}, NEW words \in Seq(S)
  PROVE  \A i \in 0 .. Len(words) : Sums(words)[i] \in S
<1> DEFINE Bad == {i \in 0 .. Len(words) : Sums(words)[i] \notin S}
<1>1. Len(words) \in Nat /\ \A i \in 1 .. Len(words) : words[i] \in S
  BY LenProperties, ElementOfSeq
<1>2. RunsUpTo(Sums(words), words, Len(words))
  BY <1>1, SumsRun
<1>3. ASSUME NEW i \in Bad, \A j \in Bad : i <= j PROVE FALSE
  <2>1. i # 0
    BY <1>1, <1>2, <1>3 DEF RunsUpTo
  <2>2. i - 1 \in 0 .. Len(words) /\ i \in 1 .. Len(words) /\ i - 1 \notin Bad
    BY <1>1, <1>3, <2>1
  <2>3. Sums(words)[i] = Sums(words)[i - 1] + words[i]
    BY <1>1, <1>2, <1>3, <2>1 DEF RunsUpTo
  <2>4. Sums(words)[i - 1] \in S /\ words[i] \in S /\ Sums(words)[i] \notin S
    BY <1>1, <1>3, <2>2
  <2>5. \A x, y \in S : x + y \in S
    OBVIOUS
  <2> QED
    BY <2>3, <2>4, <2>5
<1>4. Bad \subseteq Nat
  BY <1>1
<1>5. Bad = {}
  <2> HIDE DEF Bad
  <2> QED
    BY <1>3, <1>4, LeastNumber
<1> QED
  BY <1>5

LEMMA SumIsNumber ==
  ASSUME NEW S, S \in {Nat, Int}, NEW words \in Seq(S)
  PROVE  Sum(words) \in S
<1>1. Len(words) \in 0 .. Len(words)
  BY LenProperties
<1> QED
  BY <1>1, SumsAreNumbers DEF Sum

(***************************************************************************)
(* Writing another word into a header changes the sum by as much: the      *)
(* checksum is written into the place that was zero when it was computed.  *)
(***************************************************************************)
LEMMA SumChanged ==
  ASSUME NEW s \in Seq(Int), NEW t \in Seq(Int), Len(t) = Len(s), NEW k \in 1 .. Len(s),
         \A i \in 1 .. Len(s) : i # k => t[i] = s[i]
  PROVE  Sum(t) = Sum(s) + (t[k] - s[k])
<1> DEFINE d(i) == IF k <= i THEN t[k] - s[k] ELSE 0
           Bad  == {i \in 0 .. Len(s) : Sums(t)[i] # Sums(s)[i] + d(i)}
<1>1. Len(s) \in Nat /\ k \in Nat /\ (\A i \in 1 .. Len(s) : s[i] \in Int /\ t[i] \in Int)
  BY LenProperties, ElementOfSeq
<1>2. RunsUpTo(Sums(s), s, Len(s)) /\ RunsUpTo(Sums(t), t, Len(s))
  BY <1>1, SumsRun
<1>3. \A i \in 0 .. Len(s) : Sums(s)[i] \in Int /\ Sums(t)[i] \in Int
  BY SumsAreNumbers
<1>4. ASSUME NEW i \in Bad, \A j \in Bad : i <= j PROVE FALSE
  <2>1. i # 0
    BY <1>1, <1>2, <1>4 DEF RunsUpTo
  <2>2. i - 1 \in 0 .. Len(s) /\ i \in 1 .. Len(s) /\ i - 1 \notin Bad
    BY <1>1, <1>4, <2>1
  <2>3. /\ Sums(s)[i] = Sums(s)[i - 1] + s[i]
        /\ Sums(t)[i] = Sums(t)[i - 1] + t[i]
        /\ Sums(t)[i - 1] = Sums(s)[i - 1] + d(i - 1)
    <3>1. i \in 0 .. Len(s) /\ i # 0
      BY <1>4, <2>1
    <3>2. /\ Sums(s)[i] = Sums(s)[i - 1] + s[i]
          /\ Sums(t)[i] = Sums(t)[i - 1] + t[i]
      BY <1>2, <3>1 DEF RunsUpTo
    <3>3. Sums(t)[i - 1] = Sums(s)[i - 1] + d(i - 1)
      BY <2>2
    <3> QED
      BY <3>2, <3>3
  <2>4. t[i] - s[i] = d(i) - d(i - 1)
    <3>1. i \in Nat /\ s[i] \in Int /\ t[i] \in Int /\ s[k] \in Int /\ t[k] \in Int
      BY <1>1, <2>2
    <3>2. CASE k = i
      BY <1>1, <3>1, <3>2
    <3>3. CASE k # i
      <4>1. t[i] = s[i]
        BY <2>2, <3>3
      <4>2. k <= i <=> k <= i - 1
        BY <1>1, <3>1, <3>3
      <4> QED
        BY <3>1, <4>1, <4>2
    <3> QED
      BY <3>2, <3>3
  <2>5. d(i) \in Int /\ d(i - 1) \in Int
    BY <1>1
  <2>6. Sums(t)[i] # Sums(s)[i] + d(i)
    BY <1>4
  <2>7. /\ Sums(s)[i - 1] \in Int /\ Sums(t)[i - 1] \in Int
        /\ s[i] \in Int /\ t[i] \in Int
    BY <1>1, <1>3, <2>2
  <2> HIDE DEF d, Bad
  <2> DEFINE a == Sums(s)[i - 1]
             b == Sums(t)[i - 1]
             x == s[i]
             y == t[i]
             e == d(i - 1)
             f == d(i)
  <2>8. /\ b = a + e /\ y - x = f - e /\ b + y # (a + x) + f
        /\ a \in Int /\ b \in Int /\ x \in Int /\ y \in Int /\ e \in Int /\ f \in Int
    BY <2>3, <2>4, <2>5, <2>6, <2>7
  <2> HIDE DEF a, b, x, y, e, f
  <2> QED
    BY <2>8
<1>5. Bad \subseteq Nat
  BY <1>1
<1>6. Bad = {}
  <2> HIDE DEF Bad
  <2> QED
    BY <1>4, <1>5, LeastNumber
<1>7. Sums(t)[Len(s)] = Sums(s)[Len(s)] + d(Len(s)) /\ d(Len(s)) = t[k] - s[k]
  BY <1>1, <1>6
<1> QED
  BY <1>7 DEF Sum

(***************************************************************************)
(* Folding takes multiples of 65535 away, so that a sum and the complement *)
(* of its fold add up to one, which is what the receiver verifies.         *)
(***************************************************************************)
Verifies(n) == n > 0 /\ n % 65535 = 0

Carry(n)   == n \div 65536
Carries(n) == Carry(n) + Carry(Once(n))

LEMMA OnceTakesAway ==
  ASSUME NEW n \in Nat
  PROVE  Once(n) \in Nat /\ Carry(n) \in Nat /\ n = Once(n) + 65535 * Carry(n)
BY DEF Once, Carry

LEMMA FoldTakesAway ==
  ASSUME NEW n \in Nat
  PROVE  /\ Fold(n) \in Nat /\ Carries(n) \in Nat
         /\ n = Fold(n) + 65535 * Carries(n)
<1>1. Once(n) \in Nat /\ Carry(n) \in Nat /\ n = Once(n) + 65535 * Carry(n)
  BY OnceTakesAway, SMT
<1>2. /\ Fold(n) \in Nat /\ Carry(Once(n)) \in Nat
      /\ Once(n) = Fold(n) + 65535 * Carry(Once(n))
  BY <1>1, OnceTakesAway, SMT DEF Fold
<1> QED
  BY <1>1, <1>2, SMT DEF Carries

Complement(n) == 65535 - Fold(n)
Present(c)    == IF c = 0 THEN 65535 ELSE c

LEMMA ComplementVerifies ==
  ASSUME NEW n \in Nat
  PROVE  /\ Complement(n) \in Int /\ Verifies(n + Complement(n))
         /\ Present(Complement(n)) \in Int /\ Present(Complement(n)) # 0
         /\ Verifies(n + Present(Complement(n)))
<1> DEFINE m == Carries(n)
           f == Fold(n)
<1>1. m \in Nat /\ f \in Nat /\ n = f + 65535 * m
  BY FoldTakesAway, SMT
<1>2. Complement(n) = 65535 - f
  BY DEF Complement
<1> HIDE DEF m, f
<1>3. Complement(n) \in Int /\ Verifies(n + Complement(n))
  BY <1>1, <1>2, SMT DEF Verifies
<1>4. CASE Complement(n) = 0
  <2>1. Present(Complement(n)) = 65535
    BY <1>4 DEF Present
  <2>2. f = 65535
    BY <1>1, <1>2, <1>4
  <2>3. Verifies(n + 65535)
    BY <1>1, <2>2, SMT DEF Verifies
  <2> QED
    BY <1>3, <2>1, <2>3
<1>5. CASE Complement(n) # 0
  <2>1. Present(Complement(n)) = Complement(n)
    BY <1>5 DEF Present
  <2> QED
    BY <1>3, <1>5, <2>1
<1> QED
  BY <1>4, <1>5

LEMMA Complemented ==
  ASSUME NEW words
  PROVE  /\ Checksum(words) = Complement(Sum(words))
         /\ UdpChecksum(words) = Present(Complement(Sum(words)))
BY DEF Checksum, UdpChecksum, Complement, Present

(***************************************************************************)
(* Two headers that differ in one word alone, x in one and y in the other, *)
(* with the same words before or after them.                               *)
(***************************************************************************)
DiffersAt(s, t, k, x, y) ==
  /\ s[k] = x /\ t[k] = y
  /\ s \in Seq(Int) /\ t \in Seq(Int) /\ Len(t) = Len(s) /\ k \in 1 .. Len(s)
  /\ \A i \in 1 .. Len(s) : i # k => t[i] = s[i]

LEMMA Concatenation ==
  ASSUME NEW s \in Seq(Int), NEW t \in Seq(Int)
  PROVE  /\ s \o t \in Seq(Int) /\ Len(s \o t) = Len(s) + Len(t)
         /\ Len(s) \in Nat /\ Len(t) \in Nat
         /\ \A i \in 1 .. Len(s) + Len(t) :
               (s \o t)[i] = IF i <= Len(s) THEN s[i] ELSE t[i - Len(s)]
BY ConcatProperties, LenProperties, Zenon

LEMMA WordsAfter ==
  ASSUME NEW s, NEW t, NEW k, NEW x, NEW y, DiffersAt(s, t, k, x, y), NEW u \in Seq(Int)
  PROVE  DiffersAt(s \o u, t \o u, k, x, y)
<1> DEFINE a == s \o u
           b == t \o u
           n == Len(s)
           m == Len(u)
<1>1. /\ s \in Seq(Int) /\ t \in Seq(Int) /\ Len(t) = n /\ k \in 1 .. n
      /\ \A i \in 1 .. n : i # k => t[i] = s[i]
      /\ s[k] = x /\ t[k] = y
  BY DEF DiffersAt
<1>2. /\ a \in Seq(Int) /\ b \in Seq(Int) /\ Len(a) = n + m /\ Len(b) = n + m
      /\ n \in Nat /\ m \in Nat
      /\ \A i \in 1 .. n + m : a[i] = IF i <= n THEN s[i] ELSE u[i - n]
      /\ \A i \in 1 .. n + m : b[i] = IF i <= n THEN t[i] ELSE u[i - n]
  <2>1. /\ a \in Seq(Int) /\ Len(a) = Len(s) + m /\ n \in Nat /\ m \in Nat
        /\ \A i \in 1 .. Len(s) + m : a[i] = IF i <= Len(s) THEN s[i] ELSE u[i - Len(s)]
    BY <1>1, Concatenation
  <2>2. /\ b \in Seq(Int) /\ Len(b) = Len(t) + m
        /\ \A i \in 1 .. Len(t) + m : b[i] = IF i <= Len(t) THEN t[i] ELSE u[i - Len(t)]
    BY <1>1, Concatenation
  <2>3. Len(t) = n /\ Len(s) = n
    BY <1>1
  <2> HIDE DEF a, b, n, m
  <2> QED
    BY <2>1, <2>2, <2>3
<1> HIDE DEF a, b, n, m
<1>3. k \in 1 .. n + m /\ k <= n
  BY <1>1, <1>2
<1>4. ASSUME NEW i \in 1 .. n + m, i # k PROVE b[i] = a[i]
  <2>1. CASE i <= n
    <3>1. i \in 1 .. n
      BY <1>2, <2>1
    <3> QED
      BY <1>1, <1>2, <1>4, <2>1, <3>1
  <2>2. CASE ~(i <= n)
    BY <1>2, <2>2
  <2> QED
    BY <2>1, <2>2
<1>5. a[k] = x /\ b[k] = y
  BY <1>1, <1>2, <1>3
<1>6. DiffersAt(a, b, k, x, y)
  BY <1>2, <1>3, <1>4, <1>5 DEF DiffersAt
<1> QED
  BY <1>6 DEF a, b

LEMMA WordsBefore ==
  ASSUME NEW s, NEW t, NEW k, NEW x, NEW y, DiffersAt(s, t, k, x, y), NEW u \in Seq(Int)
  PROVE  DiffersAt(u \o s, u \o t, Len(u) + k, x, y)
<1> DEFINE a == u \o s
           b == u \o t
           n == Len(s)
           m == Len(u)
<1>1. /\ s \in Seq(Int) /\ t \in Seq(Int) /\ Len(t) = n /\ k \in 1 .. n
      /\ \A i \in 1 .. n : i # k => t[i] = s[i]
      /\ s[k] = x /\ t[k] = y
  BY DEF DiffersAt
<1>2. /\ a \in Seq(Int) /\ b \in Seq(Int) /\ Len(a) = m + n /\ Len(b) = m + n
      /\ n \in Nat /\ m \in Nat
      /\ \A i \in 1 .. m + n : a[i] = IF i <= m THEN u[i] ELSE s[i - m]
      /\ \A i \in 1 .. m + n : b[i] = IF i <= m THEN u[i] ELSE t[i - m]
  <2>1. /\ a \in Seq(Int) /\ Len(a) = m + Len(s) /\ Len(s) \in Nat /\ m \in Nat
        /\ \A i \in 1 .. m + Len(s) : a[i] = IF i <= m THEN u[i] ELSE s[i - m]
    BY <1>1, Concatenation
  <2>2. /\ b \in Seq(Int) /\ Len(b) = m + Len(t)
        /\ \A i \in 1 .. m + Len(t) : b[i] = IF i <= m THEN u[i] ELSE t[i - m]
    BY <1>1, Concatenation
  <2>3. Len(t) = n /\ Len(s) = n
    BY <1>1
  <2> HIDE DEF a, b, n, m
  <2> QED
    BY <2>1, <2>2, <2>3
<1> HIDE DEF a, b, n, m
<1>0. k \in Nat /\ 1 <= k /\ k <= n /\ n \in Nat /\ m \in Nat
  <2>1. k \in 1 .. n /\ n \in Nat /\ m \in Nat
    BY <1>1, <1>2
  <2> QED
    BY <2>1
<1>3. m + k \in 1 .. m + n /\ ~(m + k <= m) /\ (m + k) - m = k
  BY <1>0
<1>4. ASSUME NEW i \in 1 .. m + n, i # m + k PROVE b[i] = a[i]
  <2>1. CASE i <= m
    BY <1>2, <2>1
  <2>2. CASE ~(i <= m)
    <3>1. i - m \in 1 .. n /\ i - m # k
      BY <1>1, <1>2, <1>4, <2>2
    <3> QED
      BY <1>1, <1>2, <2>2, <3>1
  <2> QED
    BY <2>1, <2>2
<1>5. a[m + k] = x /\ b[m + k] = y
  BY <1>1, <1>2, <1>3
<1>6. DiffersAt(a, b, m + k, x, y)
  BY <1>2, <1>3, <1>4, <1>5 DEF DiffersAt
<1> QED
  BY <1>6 DEF a, b, m

LEMMA SumOfDifferent ==
  ASSUME NEW s, NEW t, NEW k, NEW y, DiffersAt(s, t, k, 0, y)
  PROVE  Sum(t) = Sum(s) + y
<1>1. Sum(t) = Sum(s) + (t[k] - s[k])
  BY SumChanged DEF DiffersAt
<1>2. Sum(s) \in Int /\ t[k] \in Int
  BY SumIsNumber, ElementOfSeq DEF DiffersAt
<1>3. s[k] = 0 /\ t[k] = y
  BY DEF DiffersAt
<1> QED
  BY <1>1, <1>2, <1>3

LEMMA IpHeaderDiffers ==
  ASSUME NEW src \in Host, NEW dst \in Host, NEW total \in Nat, NEW csum \in Int
  PROVE  /\ DiffersAt(IpHeader(src, dst, total, 0), IpHeader(src, dst, total, csum),
                      6, 0, csum)
         /\ IpHeader(src, dst, total, 0) \in Seq(Nat)
<1> DEFINE a == <<17664, total, 0, 16384, 16401, 0>>
           b == <<17664, total, 0, 16384, 16401, csum>>
           c == a \o src
           d == b \o src
           s == c \o dst
           t == d \o dst
<1>1. DiffersAt(a, b, 6, 0, csum)
  BY DEF DiffersAt
<1>2. a \in Seq(Nat)
  OBVIOUS
<1>3. src \in Seq(Int) /\ dst \in Seq(Int)
  BY HostIsSeq, SMT
<1>4. src \in Seq(Nat) /\ dst \in Seq(Nat)
  BY HostIsSeq, SMT
<1>5. IpHeader(src, dst, total, 0) = s /\ IpHeader(src, dst, total, csum) = t
  BY DEF IpHeader
<1>6. s \in Seq(Nat)
  <2> HIDE DEF a, b
  <2> QED
    BY <1>2, <1>4, ConcatProperties, Zenon
<1> HIDE DEF a, b
<1>7. DiffersAt(c, d, 6, 0, csum)
  BY <1>1, <1>3, WordsAfter, Zenon
<1> HIDE DEF c, d
<1>8. DiffersAt(s, t, 6, 0, csum)
  BY <1>3, <1>7, WordsAfter, Zenon
<1> HIDE DEF s, t
<1> QED
  BY <1>5, <1>6, <1>8, Zenon

LEMMA PseudoIsSeq ==
  ASSUME NEW src \in Host, NEW dst \in Host, NEW len \in Nat
  PROVE  /\ Pseudo(src, dst, len) \in Seq(Nat) /\ Pseudo(src, dst, len) \in Seq(Int)
         /\ Len(Pseudo(src, dst, len)) \in Nat
<1>1. src \in Seq(Nat) /\ dst \in Seq(Nat) /\ <<17, len>> \in Seq(Nat)
  BY HostIsSeq, SMT
<1>2. Pseudo(src, dst, len) \in Seq(Nat)
  BY <1>1, ConcatProperties, Zenon DEF Pseudo
<1>3. Nat \subseteq Int
  OBVIOUS
<1> QED
  BY <1>2, <1>3, SeqMonotonic, LenProperties, Zenon

LEMMA UdpWordsDiffer ==
  ASSUME NEW p, p \in Seq(Nat), p \in Seq(Int),
         NEW sport \in Nat, NEW dport \in Nat, NEW len \in Nat,
         NEW csum \in Int, NEW msg, msg.words \in Seq(Nat)
  PROVE  /\ DiffersAt(p \o UdpWords(sport, dport, len, 0, msg),
                      p \o UdpWords(sport, dport, len, csum, msg),
                      Len(p) + 4, 0, csum)
         /\ p \o UdpWords(sport, dport, len, 0, msg) \in Seq(Nat)
<1> DEFINE a == <<sport, dport, len, 0>>
           b == <<sport, dport, len, csum>>
           w == msg.words
           c == a \o w
           d == b \o w
<1>1. DiffersAt(a, b, 4, 0, csum)
  BY DEF DiffersAt
<1>2. a \in Seq(Nat)
  OBVIOUS
<1>3. w \in Seq(Nat) /\ w \in Seq(Int)
  BY SeqMonotonic
<1>5. /\ UdpWords(sport, dport, len, 0, msg) = c
      /\ UdpWords(sport, dport, len, csum, msg) = d
  BY DEF UdpWords
<1> HIDE DEF a, b, w
<1>6. DiffersAt(c, d, 4, 0, csum)
  BY <1>1, <1>3, WordsAfter, Zenon
<1>7. p \o c \in Seq(Nat)
  BY <1>2, <1>3, ConcatProperties, Zenon
<1> HIDE DEF c, d
<1>8. DiffersAt(p \o c, p \o d, Len(p) + 4, 0, csum)
  BY <1>6, WordsBefore, Zenon
<1> QED
  BY <1>5, <1>7, <1>8, Zenon

(* Both sums over a packet that was handed to the writer come to all ones, and
   the UDP checksum is never left out: an odd message, sums that carry and the
   sum that complements to zero included (dns_intercept.rs:417-508).           *)
THEOREM SumsVerify == PathSpec => []ChecksumsVerify
<1>1. PathInv /\ AskedInv => ChecksumsVerify
  <2> SUFFICES ASSUME PathInv, AskedInv, reply # NoReply
               PROVE  /\ Verifies(Sum(reply.ip))
                      /\ Verifies(Sum(Pseudo(SubSeq(reply.ip, 7, 8), SubSeq(reply.ip, 9, 10),
                                             reply.udp[3]) \o reply.udp))
                      /\ reply.udp[4] # 0
    BY DEF ChecksumsVerify, Verifies
  <2>1. pkt \in Packet /\ at = "answered"
    BY DEF AskedInv, PathInv, WalkTypes
  <2>2. PICK msg \in Answers : reply = AnswerTo(pkt, msg)
    BY <2>1 DEF AskedInv
  <2>3. msg.words \in Seq(Nat) /\ msg.bytes \in Nat
    BY PacketsAssumption DEF PacketsAssumption
  <2>4. /\ pkt.dst \in Host /\ pkt.src \in Host /\ pkt.dport \in Nat /\ pkt.sport \in Nat
    BY <2>1 DEF Packet
  <2> DEFINE len    == UdpHeader + msg.bytes
             total  == HeaderMin + len
             head   == IpHeader(pkt.dst, pkt.src, total, 0)
             pseudo == Pseudo(pkt.dst, pkt.src, len)
             words  == pseudo \o UdpWords(pkt.dport, pkt.sport, len, 0, msg)
             ipSum  == Checksum(head)
             udpSum == UdpChecksum(words)
  <2>5. /\ reply.ip = IpHeader(pkt.dst, pkt.src, total, ipSum)
        /\ reply.udp = UdpWords(pkt.dport, pkt.sport, len, udpSum, msg)
    BY <2>2 DEF AnswerTo, Build
  <2>6. len \in Nat /\ total \in Nat
    BY <2>3 DEF UdpHeader, HeaderMin
  <2> HIDE DEF len, total, head, pseudo, words, ipSum, udpSum
  <2>7. /\ SubSeq(reply.ip, 7, 8) = pkt.dst /\ SubSeq(reply.ip, 9, 10) = pkt.src
        /\ reply.udp[3] = len
    <3>1. SubSeq(reply.ip, 7, 8) = pkt.dst /\ SubSeq(reply.ip, 9, 10) = pkt.src
      BY <2>4, <2>5, HeaderHosts
    <3>2. reply.udp[3] = len
      BY <2>3, <2>5, DatagramFields
    <3> QED
      BY <3>1, <3>2
  <2>8. head \in Seq(Nat)
    <3>1. 0 \in Int
      OBVIOUS
    <3> QED
      BY <2>4, <2>6, <3>1, IpHeaderDiffers, Zenon DEF head
  <2>9. ipSum = Complement(Sum(head)) /\ ipSum \in Int /\ Verifies(Sum(head) + ipSum)
    <3>1. Sum(head) \in Nat
      BY <2>8, SumIsNumber
    <3>2. ipSum = Complement(Sum(head))
      BY Complemented, Zenon DEF ipSum
    <3> QED
      BY <3>1, <3>2, ComplementVerifies, Zenon
  <2>10. Verifies(Sum(reply.ip))
    <3>1. DiffersAt(head, IpHeader(pkt.dst, pkt.src, total, ipSum), 6, 0, ipSum)
      BY <2>4, <2>6, <2>9, IpHeaderDiffers, Zenon DEF head
    <3>2. Sum(IpHeader(pkt.dst, pkt.src, total, ipSum)) = Sum(head) + ipSum
      BY <3>1, SumOfDifferent, Zenon
    <3> QED
      BY <2>5, <2>9, <3>2, Zenon
  <2>11. pseudo \in Seq(Nat) /\ pseudo \in Seq(Int)
    BY <2>4, <2>6, PseudoIsSeq, Zenon DEF pseudo
  <2>12. words \in Seq(Nat)
    <3>1. 0 \in Int
      OBVIOUS
    <3> QED
      BY <2>3, <2>4, <2>6, <2>11, <3>1, UdpWordsDiffer, Zenon DEF words
  <2>13. /\ udpSum = Present(Complement(Sum(words))) /\ udpSum \in Int /\ udpSum # 0
         /\ Verifies(Sum(words) + udpSum)
    <3>1. Sum(words) \in Nat
      BY <2>12, SumIsNumber
    <3>2. udpSum = Present(Complement(Sum(words)))
      BY Complemented, Zenon DEF udpSum
    <3> QED
      BY <3>1, <3>2, ComplementVerifies, Zenon
  <2> DEFINE datagram == UdpWords(pkt.dport, pkt.sport, len, udpSum, msg)
  <2>14. DiffersAt(words, pseudo \o datagram, Len(pseudo) + 4, 0, udpSum)
    BY <2>3, <2>4, <2>6, <2>11, <2>13, UdpWordsDiffer, Zenon DEF words
  <2>15. reply.udp = datagram /\ datagram[4] = udpSum
    BY <2>3, <2>5, DatagramFields
  <2> HIDE DEF datagram
  <2>16. Sum(pseudo \o datagram) = Sum(words) + udpSum
    BY <2>14, SumOfDifferent, Zenon
  <2> QED
    BY <2>7, <2>10, <2>13, <2>15, <2>16, Zenon DEF pseudo
<1>2. PathSpec => [](PathInv /\ AskedInv)
  BY PathInitInv, PathStep, AskedInit, AskedStep, PTL DEF PathSpec
<1> QED
  BY <1>1, <1>2, PTL

-----------------------------------------------------------------------------
(***************************************************************************)
(* The carrier.  Three bytes joined into one number, and its four digits   *)
(* in terms of the bytes they straddle.                                    *)
(***************************************************************************)
Joined(a, b, c) == a * 256 + b * 16 + c

LEMMA DigitsOfChunk ==
  ASSUME NEW a \in Byte, NEW b \in Byte, NEW c \in Byte
  PROVE  /\ (Joined(a, b, c) \div 512) % 8 = a \div 2
         /\ (Joined(a, b, c) \div 64) % 8 = 4 * (a % 2) + (b \div 4)
         /\ (Joined(a, b, c) \div 8) % 8 = 2 * (b % 4) + (c \div 8)
         /\ (Joined(a, b, c) \div 1) % 8 = c % 8
<1>1. (Joined(a, b, c) \div 512) % 8 = a \div 2
  BY SMT DEF Joined, Byte
<1>2. (Joined(a, b, c) \div 64) % 8 = 4 * (a % 2) + (b \div 4)
  BY SMT DEF Joined, Byte
<1>3. (Joined(a, b, c) \div 8) % 8 = 2 * (b % 4) + (c \div 8)
  BY SMT DEF Joined, Byte
<1>4. (Joined(a, b, c) \div 1) % 8 = c % 8
  BY SMT DEF Joined, Byte
<1> QED
  BY <1>1, <1>2, <1>3, <1>4

(***************************************************************************)
(* What one more digit leaves in the decoder's accumulator: the byte that  *)
(* is complete, and below it the bits of the next one.  The bits above it  *)
(* are old ones, and the 32 bits of buf overflow, without consequence.     *)
(***************************************************************************)
Shifted(buf, v) == (buf * 8 + v) % 65536

LEMMA FirstDigit ==
  ASSUME NEW buf \in Nat, NEW a \in Byte
  PROVE  /\ Shifted(buf, a \div 2) \in Nat
         /\ Shifted(buf, a \div 2) % 8 = a \div 2
BY SMT DEF Shifted, Byte

LEMMA SecondDigit ==
  ASSUME NEW buf \in Nat, NEW a \in Byte, NEW b \in Byte, buf % 8 = a \div 2,
         NEW v, v = 4 * (a % 2) + (b \div 4)
  PROVE  /\ Shifted(buf, v) \in Nat
         /\ (Shifted(buf, v) \div 4) % 16 = a
         /\ Shifted(buf, v) % 4 = b \div 4
BY SMT DEF Shifted, Byte

LEMMA ThirdDigit ==
  ASSUME NEW buf \in Nat, NEW b \in Byte, NEW c \in Byte, buf % 4 = b \div 4,
         NEW v, v = 2 * (b % 4) + (c \div 8)
  PROVE  /\ Shifted(buf, v) \in Nat
         /\ (Shifted(buf, v) \div 2) % 16 = b
         /\ Shifted(buf, v) % 2 = c \div 8
BY SMT DEF Shifted, Byte

LEMMA FourthDigit ==
  ASSUME NEW buf \in Nat, NEW c \in Byte, buf % 2 = c \div 8
  PROVE  /\ Shifted(buf, c % 8) \in Nat
         /\ (Shifted(buf, c % 8) \div 1) % 16 = c
BY SMT DEF Shifted, Byte

Digit(d, c, j) == (Chunk(d, c) \div Weight[j + 1]) % 8

LEMMA DigitIs ==
  ASSUME NEW d \in Seq(Byte), NEW c \in Nat
  PROVE  /\ \A i \in 1 .. 3 : ByteAt(d, 3 * c + i) \in Byte
         /\ Digit(d, c, 0) = ByteAt(d, 3 * c + 1) \div 2
         /\ Digit(d, c, 1) = 4 * (ByteAt(d, 3 * c + 1) % 2) + (ByteAt(d, 3 * c + 2) \div 4)
         /\ Digit(d, c, 2) = 2 * (ByteAt(d, 3 * c + 2) % 4) + (ByteAt(d, 3 * c + 3) \div 8)
         /\ Digit(d, c, 3) = ByteAt(d, 3 * c + 3) % 8
<1> DEFINE x == ByteAt(d, 3 * c + 1)
           y == ByteAt(d, 3 * c + 2)
           z == ByteAt(d, 3 * c + 3)
<1>1. \A i \in 1 .. 3 : ByteAt(d, 3 * c + i) \in Byte
  <2>1. \A k \in 1 .. Len(d) : d[k] \in Byte
    BY ElementOfSeq
  <2>2. Len(d) \in Nat /\ 0 \in Byte
    BY LenProperties DEF Byte
  <2> QED
    BY <2>1, <2>2 DEF ByteAt
<1>2. x \in Byte /\ y \in Byte /\ z \in Byte
  BY <1>1
<1>3. Chunk(d, c) = Joined(x, y, z)
  BY DEF Chunk, Joined
<1>4. /\ Weight[0 + 1] = 512 /\ Weight[1 + 1] = 64 /\ Weight[2 + 1] = 8 /\ Weight[3 + 1] = 1
  BY DEF Weight
<1> HIDE DEF x, y, z
<1>5. /\ Digit(d, c, 0) = x \div 2
      /\ Digit(d, c, 1) = 4 * (x % 2) + (y \div 4)
      /\ Digit(d, c, 2) = 2 * (y % 4) + (z \div 8)
      /\ Digit(d, c, 3) = z % 8
  BY <1>2, <1>3, <1>4, DigitsOfChunk DEF Digit
<1> QED
  BY <1>1, <1>5 DEF x, y, z

(***************************************************************************)
(* What the decoder holds after j digits of chunk c: all the bytes that    *)
(* are complete, and the first bits of the next one.  It is preserved by   *)
(* each of the four digits that a chunk may have, and the digits that are  *)
(* padding are those of bytes that the datagram does not have.             *)
(***************************************************************************)
Accumulator == [buf : Nat, bits : 0 .. 3, out : Seq(Byte)]
Holds(acc, d, c, j) ==
  /\ acc \in Accumulator
  /\ acc.bits = (4 - j) % 4
  /\ Len(acc.out) = 3 * c + (IF j = 0 THEN 0 ELSE j - 1)
  /\ \A m \in 1 .. Len(acc.out) : acc.out[m] = d[m]
  /\ j = 1 => acc.buf % 8 = ByteAt(d, 3 * c + 1) \div 2
  /\ j = 2 => acc.buf % 4 = ByteAt(d, 3 * c + 2) \div 4
  /\ j = 3 => acc.buf % 2 = ByteAt(d, 3 * c + 3) \div 8

LEMMA ByteAppended ==
  ASSUME NEW d, NEW out \in Seq(Byte), NEW x \in Byte, x = d[Len(out) + 1],
         \A m \in 1 .. Len(out) : out[m] = d[m]
  PROVE  /\ Append(out, x) \in Seq(Byte) /\ Len(Append(out, x)) = Len(out) + 1
         /\ \A m \in 1 .. Len(out) + 1 : Append(out, x)[m] = d[m]
<1>1. /\ Append(out, x) \in Seq(Byte) /\ Len(Append(out, x)) = Len(out) + 1
      /\ \A m \in 1 .. Len(out) : Append(out, x)[m] = out[m]
      /\ Append(out, x)[Len(out) + 1] = x
  BY AppendProperties
<1>2. Len(out) \in Nat
  BY LenProperties
<1>3. \A m \in 1 .. Len(out) + 1 : m # Len(out) + 1 => m \in 1 .. Len(out)
  BY <1>2
<1> QED
  BY <1>1, <1>3

LEMMA NoByteYet ==
  ASSUME NEW acc, acc.bits = 0, NEW v
  PROVE  TakeDigit(acc, v) = [acc EXCEPT !.buf = Shifted(acc.buf, v), !.bits = acc.bits + 3]
<1> DEFINE buf == Shifted(acc.buf, v)
           bits == acc.bits + 3
<1>1. TakeDigit(acc, v) =
        IF bits >= 4 THEN [buf |-> buf, bits |-> bits - 4,
                           out |-> Append(acc.out, (buf \div Shift[bits - 3]) % 16)]
        ELSE [acc EXCEPT !.buf = buf, !.bits = bits]
  BY DEF TakeDigit, Shifted
<1>2. ~(bits >= 4)
  OBVIOUS
<1> HIDE DEF buf, bits
<1>3. TakeDigit(acc, v) = [acc EXCEPT !.buf = buf, !.bits = bits]
  BY <1>1, <1>2, Zenon
<1> QED
  BY <1>3 DEF buf, bits

LEMMA ByteOut ==
  ASSUME NEW acc, acc.bits \in 1 .. 3, NEW v
  PROVE  TakeDigit(acc, v) =
           [buf |-> Shifted(acc.buf, v), bits |-> acc.bits - 1,
            out |-> Append(acc.out, (Shifted(acc.buf, v) \div Shift[acc.bits]) % 16)]
<1> DEFINE buf == Shifted(acc.buf, v)
           bits == acc.bits + 3
<1>1. TakeDigit(acc, v) =
        IF bits >= 4 THEN [buf |-> buf, bits |-> bits - 4,
                           out |-> Append(acc.out, (buf \div Shift[bits - 3]) % 16)]
        ELSE [acc EXCEPT !.buf = buf, !.bits = bits]
  BY DEF TakeDigit, Shifted
<1>2. bits >= 4 /\ bits - 4 = acc.bits - 1 /\ bits - 3 = acc.bits
  OBVIOUS
<1> HIDE DEF buf, bits
<1>3. TakeDigit(acc, v) = [buf |-> buf, bits |-> acc.bits - 1,
                           out |-> Append(acc.out, (buf \div Shift[acc.bits]) % 16)]
  BY <1>1, <1>2, Zenon
<1> QED
  BY <1>3 DEF buf

LEMMA HoldsOne ==
  ASSUME NEW d \in Seq(Byte), NEW c \in Nat, NEW acc, Holds(acc, d, c, 0)
  PROVE  Holds(TakeDigit(acc, Digit(d, c, 0)), d, c, 1)
<1> DEFINE x == ByteAt(d, 3 * c + 1)
           v == Digit(d, c, 0)
           t == TakeDigit(acc, v)
<1>1. acc.bits = 0 /\ acc \in Accumulator
  BY DEF Holds
<1>2. x \in Byte /\ v = x \div 2
  BY DigitIs
<1>3. t = [acc EXCEPT !.buf = Shifted(acc.buf, v), !.bits = 3]
  <2>1. t = [acc EXCEPT !.buf = Shifted(acc.buf, v), !.bits = acc.bits + 3]
    BY <1>1, NoByteYet, Zenon
  <2>2. acc.bits + 3 = 3
    BY <1>1
  <2> HIDE DEF t, v
  <2> QED
    BY <2>1, <2>2, Zenon
<1>4. Shifted(acc.buf, v) \in Nat /\ Shifted(acc.buf, v) % 8 = x \div 2
  BY <1>1, <1>2, FirstDigit DEF Accumulator
<1> HIDE DEF t, v, x
<1>5. t \in Accumulator /\ t.buf = Shifted(acc.buf, v) /\ t.bits = 3 /\ t.out = acc.out
  <2>1. acc = [buf |-> acc.buf, bits |-> acc.bits, out |-> acc.out] /\ acc.out \in Seq(Byte)
    BY <1>1 DEF Accumulator
  <2>2. t = [buf |-> Shifted(acc.buf, v), bits |-> 3, out |-> acc.out]
    BY <1>3, <2>1
  <2> QED
    BY <1>4, <2>1, <2>2 DEF Accumulator
<1>6. Holds(t, d, c, 1)
  BY <1>4, <1>5 DEF Holds, x
<1> QED
  BY <1>6 DEF t, v

LEMMA HoldsTwo ==
  ASSUME NEW d \in Seq(Byte), NEW c \in Nat, NEW acc, Holds(acc, d, c, 1),
         1 <= Len(d) - 3 * c
  PROVE  Holds(TakeDigit(acc, Digit(d, c, 1)), d, c, 2)
<1> DEFINE x == ByteAt(d, 3 * c + 1)
           y == ByteAt(d, 3 * c + 2)
           v == Digit(d, c, 1)
           t == TakeDigit(acc, v)
           e == Append(acc.out, x)
<1>1. /\ acc.bits = 3 /\ acc \in Accumulator /\ acc.buf % 8 = x \div 2
      /\ Len(acc.out) = 3 * c /\ \A m \in 1 .. Len(acc.out) : acc.out[m] = d[m]
  BY DEF Holds
<1>2. x \in Byte /\ y \in Byte /\ v = 4 * (x % 2) + (y \div 4)
  BY DigitIs
<1>3. /\ Shifted(acc.buf, v) \in Nat /\ (Shifted(acc.buf, v) \div 4) % 16 = x
      /\ Shifted(acc.buf, v) % 4 = y \div 4
  BY <1>1, <1>2, SecondDigit DEF Accumulator
<1>4. t = [buf |-> Shifted(acc.buf, v), bits |-> 2, out |-> e]
  <2>1. Shift[3] = 4 /\ acc.bits \in 1 .. 3 /\ acc.bits - 1 = 2
    BY <1>1 DEF Shift
  <2>2. t = [buf |-> Shifted(acc.buf, v), bits |-> acc.bits - 1,
             out |-> Append(acc.out, (Shifted(acc.buf, v) \div Shift[acc.bits]) % 16)]
    BY <2>1, ByteOut, Zenon
  <2>3. Shift[acc.bits] = 4
    BY <1>1, <2>1
  <2> HIDE DEF v, x, t
  <2> QED
    BY <1>3, <2>1, <2>2, <2>3
<1>5. x = d[3 * c + 1]
  <2>1. Len(d) \in Nat
    BY LenProperties
  <2> QED
    BY <2>1 DEF ByteAt
<1>6. /\ e \in Seq(Byte) /\ Len(e) = 3 * c + 1
      /\ \A m \in 1 .. 3 * c + 1 : e[m] = d[m]
  <2>1. acc.out \in Seq(Byte)
    BY <1>1 DEF Accumulator
  <2>2. x \in Byte /\ x = d[Len(acc.out) + 1]
    BY <1>1, <1>2, <1>5, <2>1
  <2> HIDE DEF x
  <2>3. /\ e \in Seq(Byte) /\ Len(e) = Len(acc.out) + 1
        /\ \A m \in 1 .. Len(acc.out) + 1 : e[m] = d[m]
    BY <1>1, <2>1, <2>2, ByteAppended
  <2> HIDE DEF e
  <2> QED
    BY <1>1, <2>1, <2>3
<1> HIDE DEF v, x, y, e, t
<1>7. /\ t \in Accumulator /\ t.bits = 2 /\ t.out = e /\ t.buf % 4 = y \div 4
  BY <1>3, <1>4, <1>6 DEF Accumulator
<1>8. Holds(t, d, c, 2)
  BY <1>6, <1>7 DEF Holds, y
<1> QED
  BY <1>8 DEF t, v

LEMMA HoldsThree ==
  ASSUME NEW d \in Seq(Byte), NEW c \in Nat, NEW acc, Holds(acc, d, c, 2),
         2 <= Len(d) - 3 * c
  PROVE  Holds(TakeDigit(acc, Digit(d, c, 2)), d, c, 3)
<1> DEFINE x == ByteAt(d, 3 * c + 2)
           y == ByteAt(d, 3 * c + 3)
           v == Digit(d, c, 2)
           t == TakeDigit(acc, v)
           e == Append(acc.out, x)
<1>1. /\ acc.bits = 2 /\ acc \in Accumulator /\ acc.buf % 4 = x \div 4
      /\ Len(acc.out) = 3 * c + 1 /\ \A m \in 1 .. Len(acc.out) : acc.out[m] = d[m]
  BY DEF Holds
<1>2. x \in Byte /\ y \in Byte /\ v = 2 * (x % 4) + (y \div 8)
  BY DigitIs
<1>3. /\ Shifted(acc.buf, v) \in Nat /\ (Shifted(acc.buf, v) \div 2) % 16 = x
      /\ Shifted(acc.buf, v) % 2 = y \div 8
  BY <1>1, <1>2, ThirdDigit DEF Accumulator
<1>4. t = [buf |-> Shifted(acc.buf, v), bits |-> 1, out |-> e]
  <2>1. Shift[2] = 2 /\ acc.bits \in 1 .. 3 /\ acc.bits - 1 = 1
    BY <1>1 DEF Shift
  <2>2. t = [buf |-> Shifted(acc.buf, v), bits |-> acc.bits - 1,
             out |-> Append(acc.out, (Shifted(acc.buf, v) \div Shift[acc.bits]) % 16)]
    BY <2>1, ByteOut, Zenon
  <2>3. Shift[acc.bits] = 2
    BY <1>1, <2>1
  <2> HIDE DEF v, x, t
  <2> QED
    BY <1>3, <2>1, <2>2, <2>3
<1>5. x = d[(3 * c + 1) + 1]
  <2>1. Len(d) \in Nat
    BY LenProperties
  <2> QED
    BY <2>1 DEF ByteAt
<1>6. /\ e \in Seq(Byte) /\ Len(e) = 3 * c + 2
      /\ \A m \in 1 .. 3 * c + 2 : e[m] = d[m]
  <2>1. acc.out \in Seq(Byte) /\ (3 * c + 1) + 1 = 3 * c + 2
    BY <1>1 DEF Accumulator
  <2>2. x \in Byte /\ x = d[Len(acc.out) + 1]
    BY <1>1, <1>2, <1>5, <2>1
  <2> HIDE DEF x
  <2>3. /\ e \in Seq(Byte) /\ Len(e) = Len(acc.out) + 1
        /\ \A m \in 1 .. Len(acc.out) + 1 : e[m] = d[m]
    BY <1>1, <2>1, <2>2, ByteAppended
  <2> HIDE DEF e
  <2> QED
    BY <1>1, <2>1, <2>3
<1> HIDE DEF v, x, y, e, t
<1>7. /\ t \in Accumulator /\ t.bits = 1 /\ t.out = e /\ t.buf % 2 = y \div 8
  BY <1>3, <1>4, <1>6 DEF Accumulator
<1>8. Holds(t, d, c, 3)
  BY <1>6, <1>7 DEF Holds, y
<1> QED
  BY <1>8 DEF t, v

LEMMA HoldsFour ==
  ASSUME NEW d \in Seq(Byte), NEW c \in Nat, NEW acc, Holds(acc, d, c, 3),
         3 <= Len(d) - 3 * c
  PROVE  Holds(TakeDigit(acc, Digit(d, c, 3)), d, c + 1, 0)
<1> DEFINE x == ByteAt(d, 3 * c + 3)
           v == Digit(d, c, 3)
           t == TakeDigit(acc, v)
           e == Append(acc.out, x)
<1>1. /\ acc.bits = 1 /\ acc \in Accumulator /\ acc.buf % 2 = x \div 8
      /\ Len(acc.out) = 3 * c + 2 /\ \A m \in 1 .. Len(acc.out) : acc.out[m] = d[m]
  BY DEF Holds
<1>2. x \in Byte /\ v = x % 8
  BY DigitIs
<1>3. Shifted(acc.buf, v) \in Nat /\ (Shifted(acc.buf, v) \div 1) % 16 = x
  BY <1>1, <1>2, FourthDigit DEF Accumulator
<1>4. t = [buf |-> Shifted(acc.buf, v), bits |-> 0, out |-> e]
  <2>1. Shift[1] = 1 /\ acc.bits \in 1 .. 3 /\ acc.bits - 1 = 0
    BY <1>1 DEF Shift
  <2>2. t = [buf |-> Shifted(acc.buf, v), bits |-> acc.bits - 1,
             out |-> Append(acc.out, (Shifted(acc.buf, v) \div Shift[acc.bits]) % 16)]
    BY <2>1, ByteOut, Zenon
  <2>3. Shift[acc.bits] = 1
    BY <1>1, <2>1
  <2> HIDE DEF v, x, t
  <2> QED
    BY <1>3, <2>1, <2>2, <2>3
<1>5. x = d[(3 * c + 2) + 1]
  <2>1. Len(d) \in Nat
    BY LenProperties
  <2> QED
    BY <2>1 DEF ByteAt
<1>6. /\ e \in Seq(Byte) /\ Len(e) = 3 * (c + 1)
      /\ \A m \in 1 .. 3 * (c + 1) : e[m] = d[m]
  <2>1. acc.out \in Seq(Byte) /\ (3 * c + 2) + 1 = 3 * (c + 1)
    BY <1>1 DEF Accumulator
  <2>2. x \in Byte /\ x = d[Len(acc.out) + 1]
    BY <1>1, <1>2, <1>5, <2>1
  <2> HIDE DEF x
  <2>3. /\ e \in Seq(Byte) /\ Len(e) = Len(acc.out) + 1
        /\ \A m \in 1 .. Len(acc.out) + 1 : e[m] = d[m]
    BY <1>1, <2>1, <2>2, ByteAppended
  <2> HIDE DEF e
  <2> QED
    BY <1>1, <2>1, <2>3
<1> HIDE DEF v, x, e, t
<1>7. /\ t \in Accumulator /\ t.bits = 0 /\ t.out = e
  BY <1>3, <1>4, <1>6 DEF Accumulator
<1>8. Holds(t, d, c + 1, 0)
  BY <1>6, <1>7 DEF Holds
<1> QED
  BY <1>8 DEF t, v

(***************************************************************************)
(* The decoder's state after every digit exists and follows its steps.     *)
(***************************************************************************)
\* One step of the decoder, up to the digit k.
DecodesUpTo(f, text, k) ==
  /\ DOMAIN f = 0 .. k /\ f = [i \in DOMAIN f |-> f[i]]
  /\ \A i \in 0 .. k : f[i] = IF i = 0 THEN NoDigits ELSE TakeDigit(f[i - 1], text[i])

LEMMA DecodingExists ==
  ASSUME NEW text, NEW n \in Nat
  PROVE  \E f : DecodesUpTo(f, text, n)
<1> DEFINE S == {k \in Nat : ~\E f : DecodesUpTo(f, text, k)}
<1>1. ASSUME NEW k \in S, \A m \in S : k <= m PROVE FALSE
  <2>1. CASE k = 0
    <3>1. DecodesUpTo([i \in 0 .. 0 |-> NoDigits], text, 0)
      BY DEF DecodesUpTo
    <3> QED
      BY <1>1, <2>1, <3>1
  <2>2. CASE k # 0
    <3>1. k - 1 \in Nat /\ k - 1 \notin S
      BY <1>1, <2>2
    <3>2. PICK f : DecodesUpTo(f, text, k - 1)
      BY <3>1
    <3> DEFINE g == [i \in 0 .. k |-> IF i = k THEN TakeDigit(f[k - 1], text[k]) ELSE f[i]]
    <3>3. \A i \in 0 .. k : g[i] = IF i = 0 THEN NoDigits ELSE TakeDigit(g[i - 1], text[i])
      <4>1. ASSUME NEW i \in 0 .. k, i # k PROVE i \in 0 .. k - 1 /\ g[i] = f[i]
        BY <1>1, <4>1
      <4>2. g[k] = TakeDigit(f[k - 1], text[k]) /\ g[k - 1] = f[k - 1]
        BY <1>1, <3>1
      <4>3. \A i \in 0 .. k - 1 : i # 0 => i - 1 \in 0 .. k /\ i - 1 # k
        BY <1>1
      <4> HIDE DEF g
      <4> QED
        BY <2>2, <3>2, <4>1, <4>2, <4>3 DEF DecodesUpTo
    <3>4. DecodesUpTo(g, text, k)
      <4>1. DOMAIN g = 0 .. k /\ g = [i \in DOMAIN g |-> g[i]]
        OBVIOUS
      <4> HIDE DEF g
      <4> QED
        BY <3>3, <4>1 DEF DecodesUpTo
    <3> QED
      BY <1>1, <3>4
  <2> QED
    BY <2>1, <2>2
<1>2. S = {}
  <2>1. S \subseteq Nat
    OBVIOUS
  <2> HIDE DEF S
  <2> QED
    BY <1>1, <2>1, LeastNumber
<1> QED
  BY <1>2

LEMMA DecodingRuns ==
  ASSUME NEW text, Len(text) \in Nat
  PROVE  DecodesUpTo(Decoded(text), text, Len(text))
<1>1. PICK f : DecodesUpTo(f, text, Len(text))
  BY DecodingExists
<1>2. f = [i \in 0 .. Len(text) |-> IF i = 0 THEN NoDigits ELSE TakeDigit(f[i - 1], text[i])]
  BY <1>1 DEF DecodesUpTo
<1>3. Decoded(text) = [i \in 0 .. Len(text) |->
                         IF i = 0 THEN NoDigits ELSE TakeDigit(Decoded(text)[i - 1], text[i])]
  BY <1>2 DEF Decoded
<1> QED
  BY <1>3 DEF DecodesUpTo

(***************************************************************************)
(* The text of a datagram: its digits, then its padding, where the decoder *)
(* stops.                                                                  *)
(***************************************************************************)
\* The digits that carry data; the others of the last chunk are padding.
Digits(n) == 4 * (n \div 3) + (IF n % 3 = 0 THEN 0 ELSE (n % 3) + 1)
Text(n)   == 4 * ((n + 2) \div 3)

LEMMA DigitsThenPadding ==
  ASSUME NEW n \in Nat
  PROVE  /\ Digits(n) \in Nat /\ Text(n) \in Nat /\ Digits(n) <= Text(n)
         /\ \A k \in 1 .. Text(n) :
               ((k - 1) % 4 <= n - 3 * ((k - 1) \div 4)) <=> k <= Digits(n)
<1>1. Digits(n) \in Nat /\ Text(n) \in Nat /\ Digits(n) <= Text(n)
  BY SMT DEF Digits, Text
<1>2. ASSUME NEW k \in 1 .. Text(n)
      PROVE  ((k - 1) % 4 <= n - 3 * ((k - 1) \div 4)) <=> k <= Digits(n)
  BY SMT DEF Digits, Text
<1> QED
  BY <1>1, <1>2

LEMMA DigitInRange ==
  ASSUME NEW d \in Seq(Byte), NEW c \in Nat, NEW j \in 0 .. 3
  PROVE  Digit(d, c, j) \in 0 .. 7
<1> DEFINE x == ByteAt(d, 3 * c + 1)
           y == ByteAt(d, 3 * c + 2)
           z == ByteAt(d, 3 * c + 3)
<1>1. /\ x \in Byte /\ y \in Byte /\ z \in Byte
      /\ Digit(d, c, 0) = x \div 2
      /\ Digit(d, c, 1) = 4 * (x % 2) + (y \div 4)
      /\ Digit(d, c, 2) = 2 * (y % 4) + (z \div 8)
      /\ Digit(d, c, 3) = z % 8
  <2>1. \A i \in 1 .. 3 : ByteAt(d, 3 * c + i) \in Byte
    BY DigitIs
  <2>2. x \in Byte /\ y \in Byte /\ z \in Byte
    BY <2>1
  <2> QED
    BY <2>2, DigitIs, Zenon
<1> HIDE DEF x, y, z
<1>2. x \div 2 \in 0 .. 7 /\ 4 * (x % 2) + (y \div 4) \in 0 .. 7
  BY <1>1, SMT DEF Byte
<1>3. 2 * (y % 4) + (z \div 8) \in 0 .. 7 /\ z % 8 \in 0 .. 7
  BY <1>1, SMT DEF Byte
<1>4. \A i \in 0 .. 3 : i = 0 \/ i = 1 \/ i = 2 \/ i = 3
  OBVIOUS
<1> QED
  BY <1>1, <1>2, <1>3, <1>4, Zenon

LEMMA Encoded ==
  ASSUME NEW d \in Seq(Byte)
  PROVE  /\ Base64Encode(d) \in Seq(0 .. 8)
         /\ Len(Base64Encode(d)) = Text(Len(d))
         /\ \A k \in 1 .. Text(Len(d)) :
               Base64Encode(d)[k] = IF k <= Digits(Len(d))
                                    THEN Digit(d, (k - 1) \div 4, (k - 1) % 4) ELSE Pad
<1> DEFINE n == Len(d)
           w == Base64Encode(d)
           e(k) == IF k <= Digits(n) THEN Digit(d, (k - 1) \div 4, (k - 1) % 4) ELSE Pad
<1>1. n \in Nat
  BY LenProperties
<1>2. w = [k \in 1 .. Text(n) |->
             IF (k - 1) % 4 <= n - 3 * ((k - 1) \div 4)
             THEN Digit(d, (k - 1) \div 4, (k - 1) % 4) ELSE Pad]
  BY DEF Base64Encode, Digit, Text
<1> HIDE DEF n, w
<1>3. w = [k \in 1 .. Text(n) |-> e(k)]
  BY <1>1, <1>2, DigitsThenPadding
<1>4. ASSUME NEW k \in 1 .. Text(n) PROVE e(k) \in 0 .. 8
  <2>1. (k - 1) \div 4 \in Nat /\ (k - 1) % 4 \in 0 .. 3
    <3>1. Text(n) \in Nat
      BY <1>1, DigitsThenPadding, Zenon
    <3>2. k - 1 \in Nat
      BY <3>1
    <3> QED
      BY <3>2, SMT
  <2>2. Digit(d, (k - 1) \div 4, (k - 1) % 4) \in 0 .. 7
    BY <2>1, DigitInRange
  <2> QED
    BY <2>2 DEF Pad
<1>5. Text(n) \in Nat
  BY <1>1, DigitsThenPadding
<1>6. w \in [1 .. Text(n) -> 0 .. 8]
  <2> HIDE DEF e
  <2> QED
    BY <1>3, <1>4
<1>7. w \in Seq(0 .. 8) /\ Len(w) = Text(n)
  BY <1>5, <1>6
<1>8. \A k \in 1 .. Text(n) : w[k] = e(k)
  <2> HIDE DEF e
  <2> QED
    BY <1>3
<1> QED
  BY <1>7, <1>8 DEF n, w

\* What base64_decode reads: everything up to the padding.
TextOf(w) == LET ends == {i \in DOMAIN w : w[i] = Pad}
             IN  IF ends = {} THEN w
                 ELSE SubSeq(w, 1, (CHOOSE i \in ends : \A k \in ends : i <= k) - 1)

LEMMA IndexBefore ==
  ASSUME NEW n \in Nat, NEW i \in 0 .. n, i # 0
  PROVE  i - 1 \in 0 .. n /\ i \in 1 .. n /\ i \in Nat /\ ~(i <= i - 1)
OBVIOUS

LEMMA IndexAfter ==
  ASSUME NEW n \in Nat, NEW i \in 0 .. n, i # n
  PROVE  i + 1 \in 1 .. n /\ i \in Nat /\ i + 1 > i
OBVIOUS

LEMMA TextStops ==
  ASSUME NEW w \in Seq(0 .. 8), NEW t \in 0 .. Len(w),
         \A k \in 1 .. Len(w) : w[k] = Pad <=> k > t
  PROVE  /\ TextOf(w) \in Seq(0 .. 8) /\ Len(TextOf(w)) = t
         /\ \A k \in 1 .. t : TextOf(w)[k] = w[k]
<1> DEFINE n == Len(w)
           ends == {i \in DOMAIN w : w[i] = Pad}
<1>1. n \in Nat /\ DOMAIN w = 1 .. n
  BY LenProperties
<1>2. \A k \in 1 .. n : w[k] \in 0 .. 8
  BY ElementOfSeq
<1>3. TextOf(w) = SubSeq(w, 1, t)
  <2>1. CASE t = n
    <3>1. ends = {}
      BY <1>1, <2>1
    <3>2. SubSeq(w, 1, n) = w
      BY SubSeqFull
    <3> QED
      BY <2>1, <3>1, <3>2 DEF TextOf
  <2>2. CASE t # n
    <3>1. t + 1 \in ends /\ \A k \in ends : k \in Nat /\ t + 1 <= k
      <4>1. t \in Nat /\ t + 1 \in 1 .. n /\ t + 1 > t
        BY <1>1, <2>2, IndexAfter, Zenon
      <4>2. t + 1 \in ends
        BY <1>1, <4>1
      <4>3. ASSUME NEW k \in ends PROVE k \in 1 .. n /\ k > t
        BY <1>1
      <4> HIDE DEF ends
      <4> QED
        BY <1>1, <4>1, <4>2, <4>3
    <3> DEFINE first == CHOOSE i \in ends : \A k \in ends : i <= k
    <3> HIDE DEF ends
    <3>2. first \in ends /\ \A k \in ends : first <= k
      BY <3>1, Zenon
    <3> HIDE DEF first
    <3>3. first = t + 1
      BY <1>1, <3>1, <3>2
    <3>4. first - 1 = t
      BY <1>1, <3>3
    <3>5. TextOf(w) = SubSeq(w, 1, first - 1)
      BY <3>1, Zenon DEF TextOf, ends, first
    <3> QED
      BY <3>4, <3>5
  <2> QED
    BY <2>1, <2>2
<1>4. /\ SubSeq(w, 1, t) \in Seq(0 .. 8)
      /\ Len(SubSeq(w, 1, t)) = IF 1 <= t THEN t - 1 + 1 ELSE 0
      /\ \A k \in 1 .. t - 1 + 1 : SubSeq(w, 1, t)[k] = w[1 + k - 1]
  <2>1. \A k \in 1 .. t : w[k] \in 0 .. 8
    BY <1>1, <1>2
  <2>2. 1 \in Int /\ t \in Int
    BY <1>1
  <2> QED
    BY <2>1, <2>2, SubSeqProperties
<1>5. t - 1 + 1 = t /\ \A k \in 1 .. t : 1 + k - 1 = k
  BY <1>1
<1> QED
  BY <1>1, <1>3, <1>4, <1>5

\* Where a digit of the text is in its chunk, and the digit after it.
LEMMA DigitAfter ==
  ASSUME NEW i \in Nat, i # 0
  PROVE  /\ (i - 1) \div 4 \in Nat /\ (i - 1) % 4 \in 0 .. 3
         /\ (i - 1) % 4 # 3 => i \div 4 = (i - 1) \div 4 /\ i % 4 = ((i - 1) % 4) + 1
         /\ (i - 1) % 4 = 3 => i \div 4 = (i - 1) \div 4 + 1 /\ i % 4 = 0
<1>1. (i - 1) \div 4 \in Nat /\ (i - 1) % 4 \in 0 .. 3
  BY SMT
<1>2. (i - 1) % 4 # 3 => i \div 4 = (i - 1) \div 4 /\ i % 4 = ((i - 1) % 4) + 1
  BY SMT
<1>3. (i - 1) % 4 = 3 => i \div 4 = (i - 1) \div 4 + 1 /\ i % 4 = 0
  BY SMT
<1> QED
  BY <1>1, <1>2, <1>3

LEMMA HoldsNext ==
  ASSUME NEW d \in Seq(Byte), NEW i \in Nat, i # 0, NEW acc,
         Holds(acc, d, (i - 1) \div 4, (i - 1) % 4),
         (i - 1) % 4 <= Len(d) - 3 * ((i - 1) \div 4)
  PROVE  Holds(TakeDigit(acc, Digit(d, (i - 1) \div 4, (i - 1) % 4)), d, i \div 4, i % 4)
<1> DEFINE c == (i - 1) \div 4
           j == (i - 1) % 4
           p == i \div 4
           q == i % 4
<1>1. /\ c \in Nat /\ j \in 0 .. 3
      /\ j # 3 => p = c /\ q = j + 1
      /\ j = 3 => p = c + 1 /\ q = 0
  BY DigitAfter
<1>2. Holds(acc, d, c, j) /\ j <= Len(d) - 3 * c
  OBVIOUS
<1> HIDE DEF c, j, p, q
<1>3. CASE j = 0
  BY <1>1, <1>2, <1>3, HoldsOne DEF c, j, p, q
<1>4. CASE j = 1
  BY <1>1, <1>2, <1>4, HoldsTwo DEF c, j, p, q
<1>5. CASE j = 2
  BY <1>1, <1>2, <1>5, HoldsThree DEF c, j, p, q
<1>6. CASE j = 3
  BY <1>1, <1>2, <1>6, HoldsFour DEF c, j, p, q
<1> QED
  BY <1>1, <1>3, <1>4, <1>5, <1>6

LEMMA HoldsThroughout ==
  ASSUME NEW d \in Seq(Byte), NEW text, Len(text) \in Nat,
         \A k \in 1 .. Len(text) :
            /\ text[k] = Digit(d, (k - 1) \div 4, (k - 1) % 4)
            /\ (k - 1) % 4 <= Len(d) - 3 * ((k - 1) \div 4)
  PROVE  \A i \in 0 .. Len(text) : Holds(Decoded(text)[i], d, i \div 4, i % 4)
<1> DEFINE Bad == {i \in 0 .. Len(text) : ~Holds(Decoded(text)[i], d, i \div 4, i % 4)}
<1>1. DecodesUpTo(Decoded(text), text, Len(text))
  BY DecodingRuns
<1>2. ASSUME NEW i \in Bad, \A m \in Bad : i <= m PROVE FALSE
  <2>1. CASE i = 0
    <3>1. Decoded(text)[i] = NoDigits
      BY <1>1, <1>2, <2>1 DEF DecodesUpTo
    <3>2. Holds(NoDigits, d, 0, 0)
      BY EmptySeq DEF Holds, NoDigits, Accumulator
    <3>3. 0 \div 4 = 0 /\ 0 % 4 = 0
      BY SMT
    <3> QED
      BY <1>2, <2>1, <3>1, <3>2, <3>3
  <2>2. CASE i # 0
    <3>1. i - 1 \in 0 .. Len(text) /\ i \in 1 .. Len(text) /\ i - 1 \notin Bad /\ i \in Nat
      <4>1. i \in 0 .. Len(text)
        BY <1>2
      <4>2. i - 1 \in 0 .. Len(text) /\ i \in 1 .. Len(text) /\ i \in Nat /\ ~(i <= i - 1)
        BY <2>2, <4>1, IndexBefore, Zenon
      <4> HIDE DEF Bad
      <4> QED
        BY <1>2, <4>2, Zenon
    <3>2. Decoded(text)[i] = TakeDigit(Decoded(text)[i - 1], text[i])
      BY <1>1, <1>2, <2>2 DEF DecodesUpTo
    <3>3. Holds(Decoded(text)[i - 1], d, (i - 1) \div 4, (i - 1) % 4)
      BY <3>1
    <3>4. Holds(TakeDigit(Decoded(text)[i - 1], text[i]), d, i \div 4, i % 4)
      BY <2>2, <3>1, <3>3, HoldsNext
    <3> QED
      BY <1>2, <3>2, <3>4
  <2> QED
    BY <2>1, <2>2
<1>3. Bad \subseteq Nat
  OBVIOUS
<1>4. Bad = {}
  <2> HIDE DEF Bad
  <2> QED
    BY <1>2, <1>3, LeastNumber
<1> QED
  BY <1>4

LEMMA AllBytesOut ==
  ASSUME NEW n \in Nat
  PROVE  LET t == Digits(n)
         IN  3 * (t \div 4) + (IF t % 4 = 0 THEN 0 ELSE (t % 4) - 1) = n
BY SMT DEF Digits

LEMMA NotAMarker ==
  ASSUME NEW S, S \subseteq Nat, NEW s \in Seq(S)
  PROVE  s # Dropped /\ s # Waiting /\ s # NoWire
<1>1. CASE Len(s) = 1
  <2>1. s[1] \in Nat
    <3>1. 1 \in 1 .. Len(s)
      BY <1>1
    <3>2. s[1] \in S
      BY <3>1, ElementOfSeq
    <3> QED
      BY <3>2
  <2>2. ~(-1 \in Nat) /\ ~(-2 \in Nat) /\ ~(-3 \in Nat)
    OBVIOUS
  <2>3. Dropped[1] = -1 /\ Waiting[1] = -2 /\ NoWire[1] = -3
    BY DEF Dropped, Waiting, NoWire
  <2> QED
    BY <2>1, <2>2, <2>3
<1>2. CASE Len(s) # 1
  BY <1>2 DEF Dropped, Waiting, NoWire
<1> QED
  BY <1>1, <1>2

LEMMA Base64Inverts ==
  ASSUME NEW d \in Seq(Byte)
  PROVE  Base64Decode(Base64Encode(d)) = d /\ Base64Encode(d) # NoWire
<1> DEFINE n == Len(d)
           w == Base64Encode(d)
           t == Digits(n)
           text == TextOf(w)
           acc == Decoded(text)[t]
<1>1. n \in Nat /\ t \in Nat /\ Text(n) \in Nat /\ t \in 0 .. Text(n)
  BY LenProperties, DigitsThenPadding
<1>2. /\ w \in Seq(0 .. 8) /\ Len(w) = Text(n)
      /\ \A k \in 1 .. Text(n) :
            w[k] = IF k <= t THEN Digit(d, (k - 1) \div 4, (k - 1) % 4) ELSE Pad
  BY Encoded
<1>3. \A k \in 1 .. Text(n) : ((k - 1) % 4 <= n - 3 * ((k - 1) \div 4)) <=> k <= t
  BY <1>1, DigitsThenPadding
<1>4. \A k \in 1 .. Text(n) : Digit(d, (k - 1) \div 4, (k - 1) % 4) \in 0 .. 7
  <2> TAKE k \in 1 .. Text(n)
  <2>1. k \in Nat /\ k # 0
    BY <1>1
  <2> QED
    BY <2>1, DigitAfter, DigitInRange
<1>5. w # NoWire
  BY <1>2, NotAMarker
<1>6. Base64Decode(w) = IF \E i \in DOMAIN text : text[i] > Pad THEN Dropped
                        ELSE Decoded(text)[Len(text)].out
  BY DEF Base64Decode, TextOf
<1> HIDE DEF n, w, t, text, acc
<1>7. \A k \in 1 .. Len(w) : w[k] = Pad <=> k > t
  <2>1. ASSUME NEW k \in 1 .. Text(n) PROVE w[k] = Pad <=> k > t
    <3>1. k \in Nat /\ (k > t <=> ~(k <= t))
      BY <1>1
    <3>2. \A v \in 0 .. 7 : v # Pad
      BY DEF Pad
    <3> QED
      BY <1>2, <1>4, <3>1, <3>2, Zenon
  <2> QED
    BY <1>2, <2>1
<1>8. /\ text \in Seq(0 .. 8) /\ Len(text) = t
      /\ \A k \in 1 .. t : text[k] = w[k]
  BY <1>1, <1>2, <1>7, TextStops DEF text
<1>9. DOMAIN text = 1 .. t /\ \A i \in 1 .. t : text[i] \in 0 .. 8
  BY <1>8, LenProperties, ElementOfSeq
<1>10. Base64Decode(w) = acc.out
  <2>1. ~\E i \in DOMAIN text : text[i] > Pad
    BY <1>9 DEF Pad
  <2> QED
    BY <1>6, <1>8, <2>1 DEF acc
<1>11. Holds(acc, d, t \div 4, t % 4)
  <2>1. ASSUME NEW k \in 1 .. t
        PROVE  /\ text[k] = Digit(d, (k - 1) \div 4, (k - 1) % 4)
               /\ (k - 1) % 4 <= n - 3 * ((k - 1) \div 4)
    <3>1. k \in 1 .. Text(n) /\ k <= t
      BY <1>1
    <3> QED
      BY <1>2, <1>3, <1>8, <3>1, Zenon
  <2>2. \A k \in 1 .. Len(text) :
            /\ text[k] = Digit(d, (k - 1) \div 4, (k - 1) % 4)
            /\ (k - 1) % 4 <= Len(d) - 3 * ((k - 1) \div 4)
    BY <1>8, <2>1, Zenon DEF n
  <2>3. Len(text) \in Nat
    BY <1>1, <1>8
  <2>4. \A i \in 0 .. Len(text) : Holds(Decoded(text)[i], d, i \div 4, i % 4)
    BY <2>2, <2>3, HoldsThroughout, Zenon
  <2>5. t \in 0 .. Len(text)
    BY <1>1, <1>8
  <2> QED
    BY <2>4, <2>5 DEF acc
<1>12. /\ acc.out \in Seq(Byte) /\ Len(acc.out) = n
       /\ \A m \in 1 .. Len(acc.out) : acc.out[m] = d[m]
  <2>1. /\ acc.out \in Seq(Byte) /\ \A m \in 1 .. Len(acc.out) : acc.out[m] = d[m]
        /\ Len(acc.out) = 3 * (t \div 4) + (IF t % 4 = 0 THEN 0 ELSE (t % 4) - 1)
    BY <1>11 DEF Holds, Accumulator
  <2>2. 3 * (t \div 4) + (IF t % 4 = 0 THEN 0 ELSE (t % 4) - 1) = n
    BY <1>1, AllBytesOut, Zenon DEF t
  <2> QED
    BY <2>1, <2>2, Zenon
<1>13. acc.out = d
  BY <1>12, SeqEqual, Zenon DEF n
<1> QED
  BY <1>5, <1>10, <1>13 DEF w

(***************************************************************************)
(* The QUIC header: its first byte says how long the packet number is, so  *)
(* that the end that receives finds where the datagram starts.             *)
(***************************************************************************)
LEMMA WithoutPrefix ==
  ASSUME NEW S, NEW s \in Seq(S), NEW d \in Seq(S)
  PROVE  SubSeq(s \o d, Len(s) + 1, Len(s \o d)) = d
<1> DEFINE w == s \o d
           m == Len(s)
           n == Len(d)
           r == SubSeq(w, m + 1, m + n)
<1>1. /\ w \in Seq(S) /\ Len(w) = m + n /\ m \in Nat /\ n \in Nat
      /\ \A i \in 1 .. m + n : w[i] = IF i <= m THEN s[i] ELSE d[i - m]
  BY ConcatProperties, LenProperties
<1> HIDE DEF w, m, n
<1>2. \A i \in m + 1 .. m + n : w[i] \in S
  <2> TAKE i \in m + 1 .. m + n
  <2>1. i \in 1 .. Len(w)
    BY <1>1
  <2> QED
    BY <1>1, <2>1, ElementOfSeq
<1>3. /\ r \in Seq(S)
      /\ Len(r) = IF m + 1 <= m + n THEN (m + n) - (m + 1) + 1 ELSE 0
      /\ \A i \in 1 .. (m + n) - (m + 1) + 1 : r[i] = w[(m + 1) + i - 1]
  <2>1. m + 1 \in Int /\ m + n \in Int
    BY <1>1
  <2> QED
    BY <1>2, <2>1, SubSeqProperties
<1> HIDE DEF r
<1>4. Len(r) = n /\ (m + n) - (m + 1) + 1 = n
  BY <1>1, <1>3
<1>5. ASSUME NEW i \in 1 .. n PROVE r[i] = d[i]
  <2>1. (m + 1) + i - 1 = m + i /\ m + i \in 1 .. m + n /\ ~(m + i <= m) /\ (m + i) - m = i
    BY <1>1
  <2>2. r[i] = w[m + i]
    BY <1>3, <1>4, <2>1
  <2> QED
    BY <1>1, <2>1, <2>2
<1>6. r = d
  BY <1>3, <1>4, <1>5, SeqEqual, Zenon DEF n
<1> QED
  BY <1>1, <1>6 DEF r, w, m

LEMMA FirstKept ==
  ASSUME NEW S, NEW s \in Seq(S), NEW t \in Seq(S), Len(s) >= 1
  PROVE  s \o t \in Seq(S) /\ Len(s \o t) = Len(s) + Len(t) /\ (s \o t)[1] = s[1]
<1>1. /\ s \o t \in Seq(S) /\ Len(s \o t) = Len(s) + Len(t)
      /\ \A i \in 1 .. Len(s) + Len(t) :
            (s \o t)[i] = IF i <= Len(s) THEN s[i] ELSE t[i - Len(s)]
  BY ConcatProperties
<1>2. 1 \in 1 .. Len(s) + Len(t) /\ 1 <= Len(s)
  BY LenProperties
<1> QED
  BY <1>1, <1>2

LEMMA QuicInverts ==
  ASSUME NEW d \in Seq(Byte), NEW p, NEW len \in 1 .. 4
  PROVE  QuicUnwrap(QuicWrap(d, p, len)) = d /\ QuicWrap(d, p, len) # NoWire
<1> DEFINE S    == Int \cup {PnBytes(p, len)[i] : i \in 1 .. len}
           a    == <<4 + len - 1>>
           z    == [i \in 1 .. DcidLen |-> 0]
           b    == PnBytes(p, len)
           az   == a \o z
           head == az \o b
           w    == head \o d
<1>1. DcidLen \in Nat
  BY CarrierAssumption DEF CarrierAssumption
<1>2. a \in Seq(S) /\ Len(a) = 1 /\ a[1] = 4 + len - 1
  OBVIOUS
<1>3. z \in Seq(S) /\ Len(z) = DcidLen
  BY <1>1
<1>4. b \in Seq(S) /\ Len(b) = len
  <2>1. b = [i \in 1 .. len |-> b[i]]
    BY DEF PnBytes
  <2> HIDE DEF b
  <2> QED
    BY <2>1 DEF b
<1>5. d \in Seq(S) /\ Len(d) \in Nat
  BY LenProperties DEF Byte
<1>6. QuicWrap(d, p, len) = w
  BY DEF QuicWrap
<1> HIDE DEF S, a, z, b
<1>7. az \in Seq(S) /\ Len(az) = 1 + DcidLen /\ az[1] = a[1]
  <2>1. Len(a) >= 1
    BY <1>2
  <2>2. az \in Seq(S) /\ Len(az) = Len(a) + Len(z) /\ az[1] = a[1]
    BY <1>2, <1>3, <2>1, FirstKept, Zenon
  <2> QED
    BY <1>2, <1>3, <2>2
<1> HIDE DEF az
<1>8. head \in Seq(S) /\ Len(head) = 1 + DcidLen + len /\ head[1] = az[1]
  BY <1>1, <1>4, <1>7, FirstKept
<1> HIDE DEF head
<1>9. w \in Seq(S) /\ Len(w) = Len(head) + Len(d) /\ w[1] = head[1]
  BY <1>1, <1>5, <1>8, FirstKept
<1>10. SubSeq(w, Len(head) + 1, Len(w)) = d
  BY <1>5, <1>8, WithoutPrefix
<1> HIDE DEF w
<1>11. w[1] = 4 + len - 1
  BY <1>2, <1>7, <1>8, <1>9
<1>12. 1 + DcidLen + (w[1] % 4) + 1 = Len(head) /\ w[1] \in 4 .. 7
  <2>1. (4 + len - 1) % 4 = len - 1
    <3>1. len = 1 \/ len = 2 \/ len = 3 \/ len = 4
      OBVIOUS
    <3> QED
      BY <3>1, SMT
  <2> QED
    BY <1>1, <1>8, <1>11, <2>1
<1>13. w # <<>> /\ ~(Len(w) < Len(head))
  BY <1>1, <1>5, <1>8, <1>9
<1>14. QuicUnwrap(w) = d
  BY <1>10, <1>12, <1>13 DEF QuicUnwrap
<1>15. w # NoWire
  BY <1>11 DEF NoWire
<1> QED
  BY <1>6, <1>14, <1>15

(***************************************************************************)
(* Between the two ends.                                                   *)
(***************************************************************************)
(* While a datagram is on the wire, it is what one of the ends wrapped; between
   two datagrams nothing is remembered of the last one.                         *)
CarrierInv ==
  /\ shape \in Mode
  /\ Quiet => sent = Dropped
  /\ wire # NoWire /\ sent # Dropped =>
       sent \in Datagrams /\ \E p : \E len \in 1 .. 4 : wire = Wrap(sent, p, len)
  /\ FramesInvert

LEMMA Inverts ==
  ASSUME NEW d \in Datagrams, NEW p, NEW len \in 1 .. 4, shape \in Mode
  PROVE  /\ Unwrap(Wrap(d, p, len)) = d /\ Wrap(d, p, len) # NoWire
         /\ d # Dropped /\ d # Waiting
<1>1. d \in Seq(Byte)
  BY CarrierAssumption DEF CarrierAssumption
<1>2. d # Dropped /\ d # Waiting /\ d # NoWire
  BY <1>1, NotAMarker DEF Byte
<1>3. CASE shape = "none"
  BY <1>2, <1>3 DEF Wrap, Unwrap
<1>4. CASE shape = "quic"
  BY <1>1, <1>2, <1>4, QuicInverts DEF Wrap, Unwrap
<1>5. CASE shape = "base64"
  BY <1>1, <1>2, <1>5, Base64Inverts DEF Wrap, Unwrap
<1> QED
  BY <1>3, <1>4, <1>5 DEF Mode

LEMMA CarrierStep == CarrierInv /\ [CarrierNext]_carrierVars => CarrierInv'
<1> SUFFICES ASSUME CarrierInv, [CarrierNext]_carrierVars PROVE CarrierInv'
  OBVIOUS
<1> USE DEF CarrierInv, FramesInvert, Quiet
<1>1. ASSUME NEW d \in Datagrams, SendDatagram(d) PROVE CarrierInv'
  <2>1. PnLen \in 1 .. 4
    BY CarrierAssumption DEF CarrierAssumption
  <2>2. wire' # NoWire
    BY <1>1, <2>1, Inverts DEF SendDatagram
  <2>3. wire' = Wrap(d, pn, PnLen)' \/ wire' = Wrap(d, pn, PnLen)
    BY <1>1 DEF SendDatagram
  <2> QED
    BY <1>1, <2>1, <2>2 DEF SendDatagram, Wrap
<1>2. ASSUME NEW d \in Datagrams, NEW len \in 1 .. 4, PeerSends(d, len) PROVE CarrierInv'
  <2>1. wire' # NoWire
    BY <1>2, Inverts DEF PeerSends
  <2> QED
    BY <1>2, <2>1 DEF PeerSends, Wrap
<1>3. ASSUME NEW w \in Noise, NoiseArrives(w) PROVE CarrierInv'
  BY <1>3 DEF NoiseArrives
<1>4. ASSUME ReceiveDatagram PROVE CarrierInv'
  <2>1. CASE sent = Dropped
    BY <1>4, <2>1 DEF ReceiveDatagram
  <2>2. CASE sent # Dropped
    <3>1. \E p : \E len \in 1 .. 4 : wire = Wrap(sent, p, len)
      BY <1>4, <2>2 DEF ReceiveDatagram
    <3>2. sent \in Datagrams
      BY <1>4, <2>2 DEF ReceiveDatagram
    <3>3. received' = sent /\ sent # Waiting
      <4>1. Unwrap(wire) = sent /\ sent # Waiting
        BY <3>1, <3>2, Inverts
      <4> QED
        BY <1>4, <4>1 DEF ReceiveDatagram
    <3> QED
      BY <1>4, <3>3 DEF ReceiveDatagram
  <2> QED
    BY <2>1, <2>2
<1>5. ASSUME NextDatagram PROVE CarrierInv'
  BY <1>5 DEF NextDatagram
<1>6. ASSUME UNCHANGED carrierVars PROVE CarrierInv'
  BY <1>6 DEF carrierVars, Wrap
<1> QED
  BY <1>1, <1>2, <1>3, <1>4, <1>5, <1>6 DEF CarrierNext

(* Whatever the obfuscation, the datagram and the packet-number length of the
   other end, what reaches decrypt_packet is what encrypt_packet returned
   (obfs.rs:78-219).                                                           *)
THEOREM WrapsUnwrap == CarrierSpec => []FramesInvert
<1>1. CarrierInit => CarrierInv
  BY DEF CarrierInit, CarrierInv, FramesInvert, Mode
<1>2. CarrierInv => FramesInvert
  BY DEF CarrierInv
<1> QED
  BY <1>1, <1>2, CarrierStep, PTL DEF CarrierSpec
=============================================================================
