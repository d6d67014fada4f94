------------------------------ MODULE Carrier ------------------------------
(* A datagram between encrypt_packet at one end and decrypt_packet at the other:
   what obfs.rs puts around it and takes off again, on the ingress, egress and
   keepalive paths of engine.rs.

   A byte has 4 bits instead of 8 and a base64 digit 3 instead of 6, so that
   three bytes are still four digits and digits still straddle bytes.  As a
   byte of text, 0..7 is the alphabet, 8 is "=" and the others are outside.   *)
EXTENDS Integers, Sequences

CONSTANTS
  DcidLen,    \* DEFAULT_DCID_LEN
  PnLen,      \* PN_LEN, the packet-number length this end emits
  PnLimit,    \* the packet number is a u32 and wraps
  Datagrams,  \* finished crypto datagrams, sequences of bytes
  Noise       \* other payloads that reach the port

Byte == 0 .. 15
ASSUME CarrierAssumption ==
  /\ DcidLen \in Nat /\ PnLen \in 1 .. 4 /\ PnLimit \in Nat \ {0}
  /\ Datagrams \subseteq Seq(Byte)

Mode     == {"none", "quic", "base64"}  \* config.rs, Obfs
Pad      == 8
Dropped  == <<-1>>                      \* unwrap returned None
Waiting  == <<-2>>                      \* not received yet
NoWire   == <<-3>>

VARIABLES
  shape,    \* the obfuscation both ends are configured with
  pn,       \* QuicObfs.pn
  sent,     \* the datagram in flight before wrapping, Dropped for noise
  wire,     \* the UDP payload in flight
  received  \* what reaches decrypt_packet

carrierVars == <<shape, pn, sent, wire, received>>

\* pn.to_be_bytes()[4 - len..]
PnBytes(p, len) == [i \in 1 .. len |-> (p \div 16 ^ (len - i)) % 16]
\* A byte of the short header: form bit 8 clear, fixed bit 4 set, and the
\* packet-number length less one.  The opaque connection id is all zeros.
QuicWrap(d, p, len) ==
  <<4 + len - 1>> \o [i \in 1 .. DcidLen |-> 0] \o PnBytes(p, len) \o d

\* Faulty variant of QuicUnwrap: takes the length this end would have emitted.
QuicUnwrapOwnLength(w) ==
  LET hdr == 1 + DcidLen + PnLen
  IN  IF w = <<>> \/ w[1] \notin 4 .. 7 \/ Len(w) < hdr THEN Dropped
      ELSE SubSeq(w, hdr + 1, Len(w))
QuicUnwrap(w) ==
  LET hdr == 1 + DcidLen + (w[1] % 4) + 1
  IN  IF w = <<>> \/ w[1] \notin 4 .. 7 \/ Len(w) < hdr THEN Dropped
      ELSE SubSeq(w, hdr + 1, Len(w))

\* Three bytes, the missing ones zero, as one number; then its four digits, the
\* ones past the data replaced by padding.
ByteAt(d, i) == IF i <= Len(d) THEN d[i] ELSE 0
Chunk(d, c)  == ByteAt(d, 3 * c + 1) * 256 + ByteAt(d, 3 * c + 2) * 16 + ByteAt(d, 3 * c + 3)
Weight == <<512, 64, 8, 1>>  \* of the digits of a chunk
Base64Encode(d) ==
  [k \in 1 .. 4 * ((Len(d) + 2) \div 3) |->
     LET c == (k - 1) \div 4
         j == (k - 1) % 4
     IN  IF j <= Len(d) - 3 * c THEN (Chunk(d, c) \div Weight[j + 1]) % 8 ELSE Pad]

\* buf is a u32, four bytes' worth here as there: it overflows harmlessly.
Shift == <<1, 2, 4>>  \* 2 to the power of the bits that a byte leaves
TakeDigit(acc, v) ==
  LET buf == (acc.buf * 8 + v) % 65536
      bits == acc.bits + 3
  IN  IF bits >= 4
      THEN [buf |-> buf, bits |-> bits - 4,
            out |-> Append(acc.out, (buf \div Shift[bits - 3]) % 16)]
      ELSE [acc EXCEPT !.buf = buf, !.bits = bits]
NoDigits == [buf |-> 0, bits |-> 0, out |-> <<>>]
\* The decoder's state after each digit of a text.
Decoded(text) == LET after[i \in 0 .. Len(text)] ==
                       IF i = 0 THEN NoDigits ELSE TakeDigit(after[i - 1], text[i])
                 IN  after
Base64Decode(w) ==
  LET ends == {i \in DOMAIN w : w[i] = Pad}
      text == IF ends = {} THEN w
              ELSE SubSeq(w, 1, (CHOOSE i \in ends : \A k \in ends : i <= k) - 1)
  IN  IF \E i \in DOMAIN text : text[i] > Pad THEN Dropped
      ELSE Decoded(text)[Len(text)].out

Wrap(d, p, len) == CASE shape = "quic" -> QuicWrap(d, p, len)
                     [] shape = "base64" -> Base64Encode(d)
                     [] OTHER -> d
Unwrap(w) == CASE shape = "quic" -> QuicUnwrap(w)
               [] shape = "base64" -> Base64Decode(w)
               [] OTHER -> w

CarrierInit ==
  /\ shape \in Mode
  /\ pn = 0 /\ sent = Dropped /\ wire = NoWire /\ received = Waiting

Quiet == wire = NoWire /\ received = Waiting
\* A packet or a keepalive leaves this end.
SendDatagram(d) ==
  /\ Quiet
  /\ sent' = d /\ wire' = Wrap(d, pn, PnLen)
  /\ pn' = IF shape = "quic" THEN (pn + 1) % PnLimit ELSE pn
  /\ UNCHANGED <<shape, received>>

\* The server's end follows the same contract with any packet-number length.
PeerSends(d, len) ==
  /\ Quiet
  /\ sent' = d /\ wire' = Wrap(d, 0, len)
  /\ UNCHANGED <<shape, pn, received>>

NoiseArrives(w) ==
  /\ Quiet
  /\ wire' = w
  /\ UNCHANGED <<shape, pn, sent, received>>

\* egress_loop; a datagram that does not match the framing is dropped there.
ReceiveDatagram ==
  /\ wire # NoWire
  /\ received' = Unwrap(wire) /\ wire' = NoWire
  /\ UNCHANGED <<shape, pn, sent>>
NextDatagram ==
  /\ received # Waiting
  /\ received' = Waiting /\ sent' = Dropped
  /\ UNCHANGED <<shape, pn, wire>>

CarrierNext ==
  \/ \E d \in Datagrams : SendDatagram(d) \/ \E len \in 1 .. 4 : PeerSends(d, len)
  \/ \E w \in Noise : NoiseArrives(w)
  \/ ReceiveDatagram \/ NextDatagram

CarrierSpec == CarrierInit /\ [][CarrierNext]_carrierVars

\* "The peer must apply the exact inverse" (obfs.rs:11): whatever the datagram,
\* the mode and the packet-number length of the other end, decrypt_packet gets
\* the very bytes that encrypt_packet returned, the last digits of a partial
\* group included.
FramesInvert ==
  received # Waiting /\ sent # Dropped => received = sent
=============================================================================
