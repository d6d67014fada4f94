----------------------------- MODULE Addresses -----------------------------
(* IPv4 addresses, ranges of them and CIDR blocks, as country.rs, chnroute-gen,
   chnroute.rs and SVTunnelSettings.m compute with them.  An address has W bits
   instead of 32; a block <<base, b>> is the line "base/(W - b)".             *)
EXTENDS Integers

CONSTANT W  \* bits of an address

Top      == 2 ^ W - 1
Address  == 0 .. Top
Sizes    == 0 .. W                      \* a block of size b has 2^b addresses
Interval == {r \in Address \X Address : r[1] <= r[2]}
Block    == Address \X Sizes

\* Of powers, what arithmetic says of these ones.
ASSUME WidthAssumption ==
  /\ W \in Nat \ {0} /\ Top \in Nat \ {0}
  /\ 2 ^ 0 = 1
  /\ \A b \in Sizes : 2 ^ b \in Nat \ {0} /\ 2 ^ (b + 1) = 2 * 2 ^ b

Between(r) == r[1] .. r[2]
Cover(S)   == UNION {Between(r) : r \in S}

\* parse_cidr and NEIPv4Route mask the base with the prefix, so that a block
\* whose base is not aligned would name other addresses than the ones it was
\* made for.
BlockRange(b) == LET base == b[1] - (b[1] % 2 ^ b[2])
                 IN  <<base, base + 2 ^ b[2] - 1>>
BlockCover(B) == UNION {Between(BlockRange(b)) : b \in B}

Max2(a, b) == IF a > b THEN a ELSE b
Min2(a, b) == IF a < b THEN a ELSE b
=============================================================================
