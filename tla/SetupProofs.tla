---------------------------- MODULE SetupProofs ----------------------------
(* What is proved of TunnelSetup for every profile, every country file and
   every width of an address: what leaves the tunnel in either mode, and that
   the interceptor's table and the routes agree.                              *)
EXTENDS TunnelSetup, CountryProofs, FiniteSetTheorems

(* The settings are built before the engine starts, from the file that is found
   then, and the engine starts from the same profile and the same file: what
   was excluded, or could not be read, is in the settings the engine runs under. *)
SettingsBuilt ==
  setup \in {"configured", "up"} =>
    /\ profile \in Profile /\ server \subseteq Address
    /\ file \in CountryFiles \cup {NoFileAt}
    /\ direct = LanRoutes(Peer(profile)) \cup CountryRoutesOf(profile, file, routed)
                  \cup {<<a, 0>> : a \in server}
\* The table, too, is made from the file the routes were made from.
TableOfFile ==
  setup = "up" /\ table # NoTable =>
    profile.mode = "chinadns" /\ file # NoFileAt /\ table = FromLines(file)
NoTableYet == setup # "up" => table = NoTable
SetupInv == SettingsBuilt /\ TableOfFile /\ NoTableYet

-----------------------------------------------------------------------------
\* What leaves the tunnel through two lists of blocks leaves it through one.
LEMMA CoverJoins ==
  ASSUME NEW B, NEW C
  PROVE  BlockCover(B \cup C) = BlockCover(B) \cup BlockCover(C)
  BY DEF BlockCover

-----------------------------------------------------------------------------
(***************************************************************************)
(* Blocks by their numbers.  The addresses of a block of size b are those  *)
(* whose quotients by 2^b agree; its sibling is the other half of the      *)
(* block of twice the size.                                                *)
(***************************************************************************)
Number(a, b) == a \div 2 ^ b

LEMMA Multiple ==
  ASSUME NEW P \in Nat \ {0}, NEW q \in Nat
  PROVE  (P * q) \div P = q /\ (P * q) % P = 0
<1> DEFINE n == P * q
<1>1. n \in Nat
  OBVIOUS
<1>2. n = P * (n \div P) + (n % P) /\ n \div P \in Nat /\ n % P \in Nat /\ n % P < P
  <2> HIDE DEF n
  <2> QED
    BY <1>1, Division
<1> DEFINE k == n \div P
           r == n % P
<1>3. k \in Nat /\ r \in Nat /\ r < P /\ P * (q - k) = r
  <2>1. P * (q - k) = P * q - P * k
    BY <1>2
  <2> QED
    BY <1>2, <2>1
<1> HIDE DEF k, r
<1>4. q - k = 0 \/ q - k = 1
  BY <1>3, SmallMultiple
<1>5. q = k /\ r = 0
  BY <1>3, <1>4
<1> QED
  BY <1>5 DEF k, r

LEMMA QuotientIs ==
  ASSUME NEW P \in Nat \ {0}, NEW q \in Nat, NEW y \in Int
  PROVE  y \in P * q .. P * q + P - 1 <=> y \in Nat /\ y \div P = q
<1>1. ASSUME y \in P * q .. P * q + P - 1 PROVE y \in Nat /\ y \div P = q
  <2>1. y \in Nat /\ P * q <= y /\ y < P * q + P
    BY <1>1
  <2>2. y = P * (y \div P) + (y % P) /\ y \div P \in Nat /\ y % P \in Nat /\ y % P < P
    BY <2>1, Division
  <2> DEFINE k == y \div P
             r == y % P
  <2>3. k \in Nat /\ r \in Nat /\ r < P /\ y = P * k + r
    BY <2>2
  <2> HIDE DEF k, r
  <2>4. P * (k - q + 1) = P * k - P * q + P
    BY <2>3
  <2>5. 0 < P * (k - q + 1) /\ P * (k - q + 1) < 2 * P
    BY <2>1, <2>3, <2>4
  <2>6. k - q + 1 = 1
    BY <2>3, <2>5, SmallMultiple
  <2> QED
    BY <2>1, <2>3, <2>6 DEF k
<1>2. ASSUME y \in Nat, y \div P = q PROVE y \in P * q .. P * q + P - 1
  <2>1. y = P * q + (y % P) /\ y % P \in Nat /\ y % P < P
    BY <1>2, Division
  <2> QED
    BY <2>1
<1> QED
  BY <1>1, <1>2

LEMMA InBlock ==
  ASSUME NEW a \in Nat, NEW b \in Sizes, NEW y \in Int
  PROVE  y \in Between(BlockRange(<<a, b>>)) <=> y \in Nat /\ Number(y, b) = Number(a, b)
<1> DEFINE P == 2 ^ b
           q == a \div P
<1>1. P \in Nat \ {0}
  BY SizeFacts
<1>2. q \in Nat /\ a = P * q + (a % P) /\ a % P \in Nat
  <2> HIDE DEF P
  <2> QED
    BY <1>1, Division
<1>3. Between(BlockRange(<<a, b>>)) = P * q .. P * q + P - 1
  BY <1>1, <1>2 DEF Between, BlockRange
<1> QED
  <2> HIDE DEF q, P
  <2>1. y \in P * q .. P * q + P - 1 <=> y \in Nat /\ y \div P = q
    BY <1>1, <1>2, QuotientIs
  <2> QED
    BY <1>3, <2>1 DEF Number, q, P

LEMMA NumberUp ==
  ASSUME NEW a \in Nat, NEW b \in Sizes
  PROVE  Number(a, b) \in Nat /\ Number(a, b + 1) = Number(a, b) \div 2
<1> DEFINE P == 2 ^ b
<1>1. P \in Nat \ {0} /\ 2 ^ (b + 1) = 2 * P
  BY SizeFacts
<1>2. a \div P \in Nat /\ (a \div P) \div 2 = a \div (2 * P)
  <2> HIDE DEF P
  <2> QED
    BY <1>1, Division, HalfQuotient
<1> QED
  BY <1>1, <1>2 DEF Number

LEMMA InSibling ==
  ASSUME NEW a \in Nat, NEW b \in Sizes, NEW y \in Int
  PROVE  y \in Between(BlockRange(<<Sibling(a, b), b>>)) <=>
           y \in Nat /\ Number(y, b) # Number(a, b) /\ Number(y, b + 1) = Number(a, b + 1)
<1> DEFINE P == 2 ^ b
           q == a \div P
           s == IF q % 2 = 0 THEN q + 1 ELSE q - 1
<1>1. P \in Nat \ {0}
  BY SizeFacts
<1>2. q \in Nat /\ a = P * q + (a % P)
  <2> HIDE DEF P
  <2> QED
    BY <1>1, Division
<1>3. BlockRange(<<a, b>>)[1] = P * q
  BY <1>1, <1>2 DEF BlockRange
<1>4. (P * q) \div P = q
  <2> HIDE DEF P, q
  <2> QED
    BY <1>1, <1>2, Multiple
<1>5. s \in Nat /\ Sibling(a, b) = P * s
  <2>1. Sibling(a, b) = IF q % 2 = 0 THEN P * q + P ELSE P * q - P
    BY <1>3, <1>4 DEF Sibling
  <2> HIDE DEF P, q
  <2>2. P * (q + 1) = P * q + P /\ P * (q - 1) = P * q - P
    BY <1>1, <1>2
  <2>3. q % 2 # 0 => q - 1 \in Nat
    BY <1>2
  <2> QED
    BY <1>2, <2>1, <2>2, <2>3
<1>6. P * s \in Nat /\ Number(P * s, b) = s
  <2>1. (P * s) \div P = s /\ P * s \in Nat
    <3> HIDE DEF P, s
    <3> QED
      BY <1>1, <1>5, Multiple
  <2> QED
    BY <2>1 DEF Number
<1>7. y \in Between(BlockRange(<<Sibling(a, b), b>>)) <=> y \in Nat /\ Number(y, b) = s
  <2> HIDE DEF P, s
  <2> QED
    BY <1>5, <1>6, InBlock
<1>8. Number(a, b) = q
  BY DEF Number
<1>9. \A n \in Nat : n = s <=> n # q /\ n \div 2 = q \div 2
  <2> HIDE DEF q
  <2> QED
    BY <1>2
<1>10. y \in Nat => /\ Number(y, b) \in Nat /\ Number(y, b + 1) = Number(y, b) \div 2
                    /\ Number(a, b + 1) = q \div 2
  BY <1>8, NumberUp
<1> QED
  <2> HIDE DEF P, q, s
  <2> QED
    BY <1>7, <1>8, <1>9, <1>10

LEMMA SetupInitInv == TunnelInit => SetupInv
  BY DEF TunnelInit, SetupInv, SettingsBuilt, TableOfFile, NoTableYet

LEMMA SetupStep == SetupInv /\ [TunnelNext]_tsVars => SetupInv'
<1> SUFFICES ASSUME SetupInv, [TunnelNext]_tsVars PROVE SetupInv'
  OBVIOUS
<1> USE DEF SetupInv, SettingsBuilt, TableOfFile, NoTableYet
<1>1. ASSUME NEW p \in Profile, NEW f \in CountryFiles \cup {NoFileAt},
             NEW srv \in {{}} \cup {{a} : a \in Servers}, NEW read \in BOOLEAN,
             StartTunnelWith(p, f, srv, read)
      PROVE  SetupInv'
  BY <1>1, SetupAssumption DEF StartTunnelWith, CountryRoutesOf
<1>2. CASE EngineFails
  BY <1>2 DEF EngineFails
<1>3. CASE EngineIntercepts
  BY <1>3 DEF EngineIntercepts, Valid
<1>4. CASE EngineForwards
  BY <1>4 DEF EngineForwards, Valid
<1>5. CASE StopAndRelease
  BY <1>5 DEF StopAndRelease
<1>6. CASE UNCHANGED tsVars
  BY <1>6 DEF tsVars
<1> QED
  BY <1>1, <1>2, <1>3, <1>4, <1>5, <1>6 DEF TunnelNext

-----------------------------------------------------------------------------
(***************************************************************************)
(* Addresses in one block are in one block at every larger size.           *)
(***************************************************************************)
LEMMA Nested ==
  ASSUME NEW x \in Nat, NEW y \in Nat, NEW l \in Sizes, NEW h \in Sizes, l <= h,
         Number(x, l) = Number(y, l)
  PROVE  Number(x, h) = Number(y, h)
<1> DEFINE S == {b \in l .. h : Number(x, b) = Number(y, b)}
<1>1. l \in Int /\ h \in Int /\ W \in Nat /\ l .. h \subseteq Sizes
  BY WidthAssumption DEF Sizes
<1>2. S \subseteq Sizes /\ l \in S
  BY <1>1
<1>3. \A b \in S : b < h => b + 1 \in S
  BY <1>1, NumberUp
<1>4. PICK b \in S : \A c \in S : c <= b
  <2> HIDE DEF S
  <2> QED
    BY <1>2, GreatestSize
<1>5. b \in l .. h /\ Number(x, b) = Number(y, b)
  BY <1>4
<1>6. b = h
  <2> HIDE DEF S
  <2> QED
    BY <1>1, <1>3, <1>4, <1>5
<1> QED
  BY <1>5, <1>6

(***************************************************************************)
(* An address in the block of size h around a, but not in the one of size  *)
(* l, is in the sibling of a block around a of a size in between.          *)
(***************************************************************************)
LEMMA Parting ==
  ASSUME NEW a \in Nat, NEW y \in Nat, NEW l \in Sizes, NEW h \in Sizes, l <= h,
         Number(y, h) = Number(a, h), Number(y, l) # Number(a, l)
  PROVE  \E b \in l .. h - 1 : Number(y, b) # Number(a, b) /\ Number(y, b + 1) = Number(a, b + 1)
<1> DEFINE S == {b \in l .. h - 1 : Number(y, b) # Number(a, b)}
<1>1. l \in Int /\ h \in Int /\ W \in Nat /\ l .. h \subseteq Sizes
  BY WidthAssumption DEF Sizes
<1>2. S \subseteq Sizes /\ l \in S
  <2>1. l # h
    OBVIOUS
  <2> QED
    BY <1>1, <2>1
<1>3. PICK b \in S : \A c \in S : c <= b
  <2> HIDE DEF S
  <2> QED
    BY <1>2, GreatestSize
<1>4. b \in l .. h - 1 /\ Number(y, b) # Number(a, b) /\ b + 1 \notin S
  BY <1>1, <1>3
<1>5. Number(y, b + 1) = Number(a, b + 1)
  BY <1>1, <1>4
<1> QED
  BY <1>4, <1>5

LEMMA OneAddress ==
  ASSUME NEW a \in Address
  PROVE  Between(BlockRange(<<a, 0>>)) = {a}
<1>1. a \in Int /\ a % 1 = 0
  BY AddressInt
<1>2. BlockRange(<<a, 0>>) = <<a, a>>
  <2>1. 2 ^ 0 = 1 /\ a - (a % 1) = a /\ a + 1 - 1 = a
    BY <1>1, WidthAssumption
  <2>2. BlockRange(<<a, 0>>) = <<a - (a % 2 ^ 0), a - (a % 2 ^ 0) + 2 ^ 0 - 1>>
    BY DEF BlockRange
  <2> QED
    BY <2>1, <2>2
<1>3. a .. a = {a}
  BY <1>1
<1>4. Between(<<a, a>>) = a .. a
  BY DEF Between
<1> QED
  BY <1>2, <1>3, <1>4

(***************************************************************************)
(* The blocks excluded around the tunnel's address are Ten without the     *)
(* tunnel's subnet.                                                        *)
(***************************************************************************)
LEMMA SiblingsCover ==
  ASSUME NEW p \in Address
  PROVE  /\ BlockCover(SiblingsOfNet(p)) \cap Net(p) = {}
         /\ p \in TenRange => BlockCover(SiblingsOfNet(p)) = TenRange \ Net(p)
<1> NetSize \in Sizes /\ TenSize \in Sizes /\ NetSize <= TenSize /\ Ten \in Address
  BY SetupAssumption
<1>1. p \in Nat /\ Ten \in Nat /\ TenSize \in Int /\ NetSize \in Int
  BY AddressInt, WidthAssumption DEF Sizes
<1>2. \A b \in NetSize .. TenSize - 1 : b \in Sizes /\ b + 1 \in Sizes
  BY <1>1, WidthAssumption DEF Sizes
<1>3. \A y : y \in BlockCover(SiblingsOfNet(p)) <=>
         /\ y \in Nat
         /\ \E b \in NetSize .. TenSize - 1 :
               Number(y, b) # Number(p, b) /\ Number(y, b + 1) = Number(p, b + 1)
  <2>1. \A y : y \in BlockCover(SiblingsOfNet(p)) <=>
           \E b \in NetSize .. TenSize - 1 : y \in Between(BlockRange(<<Sibling(p, b), b>>))
    BY DEF BlockCover, SiblingsOfNet
  <2>2. \A y, b : b \in NetSize .. TenSize - 1 =>
           (y \in Between(BlockRange(<<Sibling(p, b), b>>)) <=>
              y \in Nat /\ Number(y, b) # Number(p, b) /\ Number(y, b + 1) = Number(p, b + 1))
    <3>1. \A y, r : y \in Between(r) => y \in Int
      BY DEF Between
    <3> QED
      BY <1>1, <1>2, <3>1, InSibling
  <2> QED
    BY <2>1, <2>2
<1>4. \A y : y \in Net(p) <=> y \in Nat /\ Number(y, NetSize) = Number(p, NetSize)
  <2>1. \A y : y \in Net(p) => y \in Int
    BY DEF Net, Between
  <2> QED
    BY <1>1, <2>1, InBlock DEF Net
<1>5. \A y : y \in TenRange <=> y \in Nat /\ Number(y, TenSize) = Number(Ten, TenSize)
  <2>1. \A y : y \in TenRange => y \in Int
    BY DEF TenRange, Between
  <2> QED
    BY <1>1, <2>1, InBlock DEF TenRange
<1>6. ASSUME NEW y \in Nat, NEW b \in NetSize .. TenSize - 1, Number(y, b) # Number(p, b)
      PROVE  Number(y, NetSize) # Number(p, NetSize)
  BY <1>1, <1>2, <1>6, Nested
<1>7. ASSUME NEW y \in Nat, NEW b \in NetSize .. TenSize - 1, Number(y, b + 1) = Number(p, b + 1)
      PROVE  Number(y, TenSize) = Number(p, TenSize)
  BY <1>1, <1>2, <1>7, Nested
<1>8. ASSUME NEW y \in Nat, Number(y, TenSize) = Number(p, TenSize),
             Number(y, NetSize) # Number(p, NetSize)
      PROVE  \E b \in NetSize .. TenSize - 1 :
               Number(y, b) # Number(p, b) /\ Number(y, b + 1) = Number(p, b + 1)
  BY <1>1, <1>8, Parting
<1> QED
  BY <1>3, <1>4, <1>5, <1>6, <1>7, <1>8

(* Full mode: of the tunnel's subnet only the server, and what lies in a fixed
   range, leaves it, and where the tunnel lies in 10/8 exactly the rest of 10/8,
   the fixed ranges and the server do (SVTunnelSettings.m:134-175).            *)
THEOREM PrivateLeaves == TunnelSpec => []PrivateSplit
<1>1. TunnelSpec => []SetupInv
  BY SetupInitInv, SetupStep, PTL DEF TunnelSpec
<1>2. SetupInv => PrivateSplit
  <2> SUFFICES ASSUME SetupInv, setup \in {"configured", "up"}, profile.mode = "full"
               PROVE  LET p == Peer(profile)
                          fixed == BlockCover(Fixed)
                      IN  /\ BlockCover(direct) \cap Net(p) \subseteq server \cup fixed
                          /\ fixed \subseteq BlockCover(direct)
                          /\ p \in TenRange =>
                               BlockCover(direct) = (TenRange \ Net(p)) \cup fixed \cup server
    BY DEF PrivateSplit
  <2> DEFINE p == Peer(profile)
  <2>1. profile \in Profile /\ server \subseteq Address
        /\ direct = SiblingsOfNet(p) \cup Fixed \cup {<<a, 0>> : a \in server}
    BY DEF SetupInv, SettingsBuilt, CountryRoutesOf, LanRoutes
  <2>2. p \in Address
    BY <2>1, SetupAssumption DEF Peer, Profile
  <2>3. BlockCover({<<a, 0>> : a \in server}) = server
    <3>1. \A a \in server : Between(BlockRange(<<a, 0>>)) = {a}
      BY <2>1, OneAddress
    <3>2. \A x : x \in BlockCover({<<a, 0>> : a \in server}) <=>
                   \E a \in server : x \in Between(BlockRange(<<a, 0>>))
      BY DEF BlockCover
    <3>3. \A x : (\E a \in server : x \in Between(BlockRange(<<a, 0>>))) <=> x \in server
      BY <3>1
    <3> DEFINE B == BlockCover({<<a, 0>> : a \in server})
    <3>4. \A x : x \in B <=> \E a \in server : x \in Between(BlockRange(<<a, 0>>))
      BY <3>2
    <3> HIDE DEF B
    <3>5. B = server
      BY <3>3, <3>4
    <3> QED
      BY <3>5 DEF B
  <2>4. BlockCover(direct) = BlockCover(SiblingsOfNet(p)) \cup BlockCover(Fixed) \cup server
    <3> DEFINE own == {<<a, 0>> : a \in server}
    <3> HIDE DEF own
    <3>1. BlockCover(direct) = BlockCover(SiblingsOfNet(p) \cup Fixed) \cup BlockCover(own)
      BY <2>1, CoverJoins DEF own
    <3>2. BlockCover(SiblingsOfNet(p) \cup Fixed)
            = BlockCover(SiblingsOfNet(p)) \cup BlockCover(Fixed)
      BY CoverJoins
    <3> QED
      BY <2>3, <3>1, <3>2 DEF own
  <2> HIDE DEF p
  <2>5. /\ BlockCover(SiblingsOfNet(p)) \cap Net(p) = {}
        /\ p \in TenRange => BlockCover(SiblingsOfNet(p)) = TenRange \ Net(p)
    BY <2>2, SiblingsCover
  <2> QED
    BY <2>4, <2>5 DEF p
<1> QED
  BY <1>1, <1>2, PTL

-----------------------------------------------------------------------------
(***************************************************************************)
(* Sets of ranges have a last one, so that the sort is defined.            *)
(***************************************************************************)
LEMMA LeastNumber ==
  ASSUME NEW S, S \subseteq Nat, S # {}
  PROVE  \E n \in S : \A m \in S : n <= m
<1> DEFINE R == {p \in Nat \X Nat : p[1] < p[2]}
<1>1. IsWellFoundedOn(R, Nat)
  BY NatLessThanWellFounded DEF OpToRel
<1>2. PICK n \in S : \A m \in S : ~(<<m, n>> \in R)
  <2> HIDE DEF R
  <2> QED
    BY <1>1, WFMin
<1>3. ASSUME NEW m \in S PROVE n <= m
  <2>1. m \in Nat /\ n \in Nat /\ ~(m < n)
    BY <1>2
  <2> QED
    BY <2>1
<1> QED
  BY <1>3

LEMMA GreatestAddress ==
  ASSUME NEW S, S \subseteq Address, S # {}
  PROVE  \E a \in S : \A c \in S : c <= a
<1> DEFINE T == {Top - a : a \in S}
<1>1. \A a \in S : a \in Int /\ Top - a \in Nat
  BY AddressInt, WidthAssumption
<1>2. PICK n \in T : \A m \in T : n <= m
  <2>1. T \subseteq Nat /\ T # {}
    BY <1>1
  <2> HIDE DEF T
  <2> QED
    BY <2>1, LeastNumber
<1>3. PICK a \in S : n = Top - a
  BY <1>2
<1>4. ASSUME NEW c \in S PROVE c <= a
  <2>1. Top - a <= Top - c
    BY <1>2, <1>3
  <2> QED
    BY <1>1, <2>1, WidthAssumption
<1> QED
  BY <1>4

LEMMA LastExists ==
  ASSUME NEW S, S \subseteq Interval, S # {}
  PROVE  LastRange(S) \in S /\ \A q \in S : q[1] <= LastRange(S)[1]
<1>1. \A q \in S : q[1] \in Address /\ q[2] \in Address /\ q[1] \in Int /\ q[2] \in Int
  BY AddressInt DEF Interval
<1> DEFINE F == {q[1] : q \in S}
<1>2. PICK x \in F : \A c \in F : c <= x
  <2>1. F \subseteq Address /\ F # {}
    BY <1>1
  <2> HIDE DEF F
  <2> QED
    BY <2>1, GreatestAddress
<1> DEFINE E == {q[2] : q \in {p \in S : p[1] = x}}
<1>3. PICK y \in E : \A c \in E : c <= y
  <2>1. E \subseteq Address /\ E # {}
    BY <1>1, <1>2
  <2> HIDE DEF E
  <2> QED
    BY <2>1, GreatestAddress
<1>4. PICK r \in S : r[1] = x /\ r[2] = y
  BY <1>3
<1>5. \A q \in S : q[1] < r[1] \/ (q[1] = r[1] /\ q[2] <= r[2])
  BY <1>1, <1>2, <1>3, <1>4
<1>6. LastRange(S) \in S
      /\ \A q \in S : q[1] < LastRange(S)[1] \/ (q[1] = LastRange(S)[1] /\ q[2] <= LastRange(S)[2])
  BY <1>5 DEF LastRange
<1> QED
  BY <1>1, <1>6

-----------------------------------------------------------------------------
(***************************************************************************)
(* The merge of a finite set of ranges is defined, step by step in the     *)
(* sorted order.                                                           *)
(***************************************************************************)
MergesUpTo(f, all, n) ==
  /\ DOMAIN f = {S \in SUBSET all : Cardinality(S) <= n}
  /\ f = [S \in DOMAIN f |-> f[S]]
  /\ \A S \in DOMAIN f :
       f[S] = IF S = {} THEN <<>>
              ELSE JoinRange(f[S \ {LastRange(S)}], LastRange(S))

LEMMA WithoutLast ==
  ASSUME NEW S, S \subseteq Interval, IsFiniteSet(S), S # {}
  PROVE  /\ S \ {LastRange(S)} \subseteq Interval /\ IsFiniteSet(S \ {LastRange(S)})
         /\ Cardinality(S) \in Nat
         /\ Cardinality(S \ {LastRange(S)}) = Cardinality(S) - 1
  BY LastExists, FS_RemoveElement, FS_CardinalityType

LEMMA MergeExists ==
  ASSUME NEW all, all \subseteq Interval, IsFiniteSet(all), NEW n \in Nat
  PROVE  \E f : MergesUpTo(f, all, n)
<1> DEFINE B == {k \in Nat : ~\E f : MergesUpTo(f, all, k)}
           D(k) == {S \in SUBSET all : Cardinality(S) <= k}
<1>1. \A S \in SUBSET all : S \subseteq Interval /\ IsFiniteSet(S) /\ Cardinality(S) \in Nat
  BY FS_Subset, FS_CardinalityType
<1>2. ASSUME NEW k \in B, \A m \in B : k <= m PROVE FALSE
  <2>1. CASE k = 0
    <3>1. \A S \in D(0) : S = {}
      BY <1>1, FS_EmptySet
    <3>2. MergesUpTo([S \in D(0) |-> <<>>], all, 0)
      BY <3>1 DEF MergesUpTo
    <3> QED
      BY <1>2, <2>1, <3>2
  <2>2. CASE k # 0
    <3>1. k - 1 \in Nat /\ k - 1 \notin B
      BY <1>2, <2>2
    <3>2. PICK f : MergesUpTo(f, all, k - 1)
      BY <3>1
    <3> DEFINE rest(S) == S \ {LastRange(S)}
               step(g, S) == IF S = {} THEN <<>> ELSE JoinRange(g[rest(S)], LastRange(S))
               h == [S \in D(k) |-> step(f, S)]
    <3>3. \A S \in D(k - 1) : S \in D(k) /\ f[S] = step(f, S)
      BY <1>1, <3>1, <3>2 DEF MergesUpTo
    <3>4. \A S \in D(k) : S # {} => rest(S) \in D(k - 1)
      <4> SUFFICES ASSUME NEW S \in D(k), S # {} PROVE rest(S) \in D(k - 1)
        OBVIOUS
      <4>1. S \subseteq Interval /\ IsFiniteSet(S) /\ S \subseteq all
        BY <1>1
      <4>2. Cardinality(S) \in Nat /\ Cardinality(rest(S)) = Cardinality(S) - 1
        BY <4>1, WithoutLast
      <4>3. rest(S) \subseteq all
        BY <4>1
      <4> QED
        BY <4>2, <4>3
    <3>5. \A S \in D(k - 1) : h[S] = f[S]
      BY <3>3
    <3>6. \A S \in D(k) : h[S] = step(h, S)
      <4> SUFFICES ASSUME NEW S \in D(k) PROVE h[S] = step(h, S)
        OBVIOUS
      <4>1. h[S] = step(f, S)
        OBVIOUS
      <4>2. S # {} => h[rest(S)] = f[rest(S)]
        BY <3>4, <3>5
      <4> HIDE DEF h
      <4> QED
        BY <4>1, <4>2
    <3>7. DOMAIN h = D(k) /\ h = [S \in DOMAIN h |-> h[S]]
      OBVIOUS
    <3>8. MergesUpTo(h, all, k)
      <4> HIDE DEF h
      <4> QED
        BY <3>6, <3>7 DEF MergesUpTo
    <3> QED
      BY <1>2, <3>8
  <2> QED
    BY <2>1, <2>2
<1>3. B = {}
  <2>1. B \subseteq Nat
    OBVIOUS
  <2> HIDE DEF B
  <2> QED
    BY <1>2, <2>1, LeastNumber
<1> QED
  BY <1>3

LEMMA MergeRuns ==
  ASSUME NEW all, all \subseteq Interval, IsFiniteSet(all)
  PROVE  \A S \in SUBSET all :
           Merged(all)[S] = IF S = {} THEN <<>>
                               ELSE JoinRange(Merged(all)[S \ {LastRange(S)}], LastRange(S))
<1>1. PICK f : MergesUpTo(f, all, Cardinality(all))
  BY MergeExists, FS_CardinalityType
<1>2. {S \in SUBSET all : Cardinality(S) <= Cardinality(all)} = SUBSET all
  BY FS_Subset
<1>3. f = [S \in SUBSET all |-> IF S = {} THEN <<>>
                                   ELSE JoinRange(f[S \ {LastRange(S)}], LastRange(S))]
  BY <1>1, <1>2 DEF MergesUpTo
<1>4. Merged(all) =
        [S \in SUBSET all |->
           IF S = {} THEN <<>>
           ELSE JoinRange(Merged(all)[S \ {LastRange(S)}], LastRange(S))]
  BY <1>3 DEF Merged
<1> QED
  BY <1>4

-----------------------------------------------------------------------------
(***************************************************************************)
(* What the merge keeps: the ranges of the table lie apart and in order,   *)
(* cover what the ranges merged so far cover, and none starts after the    *)
(* last of these.                                                          *)
(***************************************************************************)
TableOf(t, S) ==
  /\ t \in Seq(Interval)
  /\ \A i, j \in 1 .. Len(t) : i < j => t[i][2] < t[j][1]
  /\ \A x : x \in Cover(S) <=> \E i \in 1 .. Len(t) : x \in Between(t[i])
  /\ \A i \in 1 .. Len(t) : \E q \in S : t[i][1] <= q[1]

LEMMA Extended ==
  ASSUME NEW o \in Interval, NEW r \in Interval,
         o[1] <= r[1], r[1] <= o[2] \/ r[1] = o[2] + 1
  PROVE  /\ <<o[1], Max2(o[2], r[2])>> \in Interval
         /\ \A x : x \in Between(<<o[1], Max2(o[2], r[2])>>) <=> x \in Between(o) \/ x \in Between(r)
<1>1. /\ o[1] \in Int /\ o[2] \in Int /\ r[1] \in Int /\ r[2] \in Int
      /\ o[1] <= o[2] /\ r[1] <= r[2] /\ o[1] \in Address /\ o[2] \in Address /\ r[2] \in Address
  BY IntervalFields, AddressInt DEF Interval
<1>2. Max2(o[2], r[2]) \in Address /\ o[2] <= Max2(o[2], r[2]) /\ r[2] <= Max2(o[2], r[2])
      /\ (Max2(o[2], r[2]) = o[2] \/ Max2(o[2], r[2]) = r[2])
  BY <1>1 DEF Max2
<1> DEFINE m == Max2(o[2], r[2])
<1> HIDE DEF m
<1>3. m \in Address /\ m \in Int /\ o[2] <= m /\ r[2] <= m /\ (m = o[2] \/ m = r[2])
  BY <1>1, <1>2 DEF m
<1>4. <<o[1], m>> \in Interval
  <2>1. 0 <= o[1] /\ o[1] <= m /\ m <= Top
    BY <1>1, <1>3, AddressInt, WidthAssumption
  <2> QED
    BY <1>1, <1>3, <2>1, MakeInterval
<1>5. Between(<<o[1], m>>) = o[1] .. m /\ Between(o) = o[1] .. o[2] /\ Between(r) = r[1] .. r[2]
  BY DEF Between
<1>6. \A x : x \in o[1] .. m <=> x \in o[1] .. o[2] \/ x \in r[1] .. r[2]
  BY <1>1, <1>3
<1> QED
  BY <1>4, <1>5, <1>6 DEF m

LEMMA JoinKeeps ==
  ASSUME NEW S, NEW t, TableOf(t, S), NEW r \in Interval, S \subseteq Interval,
         \A q \in S : q[1] <= r[1]
  PROVE  TableOf(JoinRange(t, r), S \cup {r})
<1> DEFINE n == Len(t)
           o == t[n]
           m == <<o[1], Max2(o[2], r[2])>>
<1>1. n \in Nat /\ \A i \in 1 .. n : t[i] \in Interval
  BY DEF TableOf
<1>2. \A i \in 1 .. n : /\ t[i][1] \in Int /\ t[i][2] \in Int /\ t[i][1] <= t[i][2]
                        /\ t[i][1] <= r[1]
  <2>1. \A q \in Interval : q[1] \in Int /\ q[2] \in Int /\ q[1] <= q[2]
    BY IntervalFields, AddressInt
  <2> QED
    BY <1>1, <2>1 DEF TableOf
<1>3. r[1] \in Int /\ r[2] \in Int /\ r[1] <= r[2]
  BY IntervalFields, AddressInt
<1>4. \A x : x \in Cover(S \cup {r}) <=> x \in Cover(S) \/ x \in Between(r)
  BY DEF Cover
<1>5. CASE n # 0 /\ (r[1] <= o[2] \/ (o[2] # Top /\ r[1] = o[2] + 1))
  <2>1. JoinRange(t, r) = [t EXCEPT ![n] = m]
    BY <1>5 DEF JoinRange
  <2>2. n \in 1 .. n /\ o \in Interval /\ o[1] <= r[1]
    BY <1>1, <1>2, <1>5
  <2>3. m \in Interval /\ \A x : x \in Between(m) <=> x \in Between(o) \/ x \in Between(r)
    BY <1>5, <2>2, Extended
  <2> DEFINE u == [t EXCEPT ![n] = m]
  <2>4. u \in Seq(Interval) /\ Len(u) = n /\ u[n] = m
        /\ \A i \in 1 .. n : i # n => u[i] = t[i]
    <3> HIDE DEF m
    <3>1. t \in Seq(Interval)
      BY DEF TableOf
    <3> QED
      BY <1>1, <2>2, <2>3, <3>1
  <2>5. \A i, j \in 1 .. n : i < j => u[i][2] < u[j][1]
    <3>1. \A i, j \in 1 .. n : i < j => t[i][2] < t[j][1]
      BY DEF TableOf
    <3>2. \A i \in 1 .. n : u[i][1] = t[i][1]
      <4>1. m[1] = t[n][1]
        OBVIOUS
      <4> HIDE DEF m, u
      <4> QED
        BY <2>4, <4>1
    <3>3. \A i, j \in 1 .. n : i < j => i # n
      BY <1>1
    <3> HIDE DEF u, m
    <3> QED
      BY <2>4, <3>1, <3>2, <3>3
  <2>6. \A x : x \in Cover(S \cup {r}) <=> \E i \in 1 .. n : x \in Between(u[i])
    <3>1. \A x : x \in Cover(S) <=> \E i \in 1 .. n : x \in Between(t[i])
      BY DEF TableOf
    <3> HIDE DEF u, m
    <3> QED
      BY <1>4, <2>2, <2>3, <2>4, <3>1, Zenon
  <2>7. \A i \in 1 .. n : \E q \in S \cup {r} : u[i][1] <= q[1]
    <3>1. \A i \in 1 .. n : u[i][1] = t[i][1]
      <4>1. m[1] = t[n][1]
        OBVIOUS
      <4> HIDE DEF m, u
      <4> QED
        BY <2>4, <4>1
    <3> HIDE DEF u, m
    <3> QED
      BY <1>2, <3>1
  <2> HIDE DEF u, m, n
  <2> QED
    BY <2>1, <2>4, <2>5, <2>6, <2>7 DEF TableOf, u
<1>6. CASE ~(n # 0 /\ (r[1] <= o[2] \/ (o[2] # Top /\ r[1] = o[2] + 1)))
  <2> DEFINE u == Append(t, r)
  <2>1. JoinRange(t, r) = u
    BY <1>6 DEF JoinRange
  <2>2. u \in Seq(Interval) /\ Len(u) = n + 1 /\ u[n + 1] = r /\ \A i \in 1 .. n : u[i] = t[i]
    BY <1>1 DEF TableOf
  <2>3. n + 1 \in 1 .. n + 1 /\ \A i \in 1 .. n + 1 : i # n + 1 => i \in 1 .. n
    BY <1>1
  <2>4. \A i \in 1 .. n : t[i][2] < r[1]
    <3> SUFFICES ASSUME NEW i \in 1 .. n PROVE t[i][2] < r[1]
      OBVIOUS
    <3>1. n # 0 /\ n \in 1 .. n
      BY <1>1
    <3>2. o[2] < r[1]
      <4>1. o \in Interval /\ o[2] \in Int /\ o[2] <= Top /\ Top \in Int
        BY <1>1, <3>1, IntervalFields, AddressInt, WidthAssumption
      <4>2. r[1] > o[2] /\ (o[2] = Top \/ r[1] # o[2] + 1)
        BY <1>3, <1>6, <3>1, <4>1
      <4> QED
        BY <4>2
    <3>3. i = n \/ (i < n /\ t[i][2] < o[1])
      BY <1>1, <3>1 DEF TableOf
    <3> HIDE DEF o
    <3>4. t[i][2] \in Int /\ o[1] \in Int /\ o[2] \in Int /\ o[1] <= o[2] /\ (i = n => t[i] = o)
      BY <1>2, <3>1 DEF o
    <3> QED
      BY <1>3, <3>2, <3>3, <3>4
  <2>5. \A i, j \in 1 .. n + 1 : i < j => u[i][2] < u[j][1]
    <3> SUFFICES ASSUME NEW i \in 1 .. n + 1, NEW j \in 1 .. n + 1, i < j PROVE u[i][2] < u[j][1]
      OBVIOUS
    <3>1. i \in 1 .. n
      BY <1>1
    <3> HIDE DEF u
    <3>2. CASE j = n + 1
      BY <2>2, <2>4, <3>1, <3>2
    <3>3. CASE j # n + 1
      BY <2>2, <2>3, <3>1, <3>3 DEF TableOf
    <3> QED
      BY <3>2, <3>3
  <2>6. \A x : x \in Cover(S \cup {r}) <=> \E i \in 1 .. n + 1 : x \in Between(u[i])
    <3>1. \A x : x \in Cover(S) <=> \E i \in 1 .. n : x \in Between(t[i])
      BY DEF TableOf
    <3>2. \A i \in 1 .. n : i \in 1 .. n + 1
      BY <1>1
    <3> HIDE DEF u, n
    <3> QED
      BY <1>4, <2>2, <2>3, <3>1, <3>2, Zenon
  <2>7. \A i \in 1 .. n + 1 : \E q \in S \cup {r} : u[i][1] <= q[1]
    <3>1. \A i \in 1 .. n + 1 : u[i][1] <= r[1]
      <4> HIDE DEF u
      <4>1. r[1] <= r[1]
        BY <1>3
      <4> QED
        BY <1>2, <2>2, <2>3, <4>1
    <3> HIDE DEF u
    <3> QED
      BY <3>1
  <2> HIDE DEF u, n
  <2> QED
    BY <2>1, <2>2, <2>5, <2>6, <2>7 DEF TableOf
<1> QED
  BY <1>5, <1>6

LEMMA MergedIsTable ==
  ASSUME NEW all, all \subseteq Interval, IsFiniteSet(all)
  PROVE  \A S \in SUBSET all : TableOf(Merged(all)[S], S)
<1> DEFINE B == {k \in Nat : \E S \in SUBSET all : Cardinality(S) = k /\ ~TableOf(Merged(all)[S], S)}
<1>1. \A S \in SUBSET all : S \subseteq Interval /\ IsFiniteSet(S) /\ Cardinality(S) \in Nat
  BY FS_Subset, FS_CardinalityType
<1>2. ASSUME NEW k \in B, \A m \in B : k <= m PROVE FALSE
  <2>1. PICK S \in SUBSET all : Cardinality(S) = k /\ ~TableOf(Merged(all)[S], S)
    BY <1>2
  <2>2. CASE S = {}
    <3>1. Merged(all)[S] = <<>>
      BY <2>2, MergeRuns
    <3>2. TableOf(<<>>, {})
      BY DEF TableOf, Cover
    <3> QED
      BY <2>1, <2>2, <3>1, <3>2
  <2>3. CASE S # {}
    <3> DEFINE r == LastRange(S)
               T == S \ {r}
    <3>1. S \subseteq Interval /\ IsFiniteSet(S)
      BY <1>1
    <3>2. r \in S /\ \A q \in S : q[1] <= r[1]
      BY <2>3, <3>1, LastExists
    <3>3. T \subseteq Interval /\ T \in SUBSET all /\ Cardinality(T) = Cardinality(S) - 1
      BY <2>3, <3>1, WithoutLast
    <3>4. Merged(all)[S] = JoinRange(Merged(all)[T], r)
      BY <2>3, MergeRuns
    <3>5. TableOf(Merged(all)[T], T)
      <4>1. Cardinality(T) \in Nat /\ ~(k <= Cardinality(T))
        BY <1>1, <2>1, <3>3
      <4>2. Cardinality(T) \notin B
        BY <1>2, <4>1
      <4> HIDE DEF T
      <4> QED
        BY <3>3, <4>1, <4>2
    <3> HIDE DEF r
    <3>6. TableOf(Merged(all)[S], T \cup {r})
      BY <3>1, <3>2, <3>3, <3>4, <3>5, JoinKeeps
    <3>7. T \cup {r} = S
      BY <3>2
    <3> QED
      BY <2>1, <3>6, <3>7
  <2> QED
    BY <2>2, <2>3
<1>3. B = {}
  <2>1. B \subseteq Nat
    OBVIOUS
  <2> HIDE DEF B
  <2> QED
    BY <1>2, <2>1, LeastNumber
<1> QED
  BY <1>1, <1>3

(***************************************************************************)
(* The search for the last range that starts at or before an address finds *)
(* the only range the address can be in.                                   *)
(***************************************************************************)
LEMMA Lookup ==
  ASSUME NEW S, NEW t, TableOf(t, S), NEW a \in Int
  PROVE  InTable(t, a) <=> a \in Cover(S)
<1>1. DOMAIN t = 1 .. Len(t) /\ Len(t) \in Nat
  BY DEF TableOf
<1>2. \A i \in DOMAIN t : t[i][1] \in Int /\ t[i][2] \in Int
  <2>1. \A q \in Interval : q[1] \in Int /\ q[2] \in Int
    BY IntervalFields, AddressInt
  <2> QED
    BY <1>1, <2>1 DEF TableOf
<1>3. \A i \in DOMAIN t : a \in Between(t[i]) <=> t[i][1] <= a /\ a <= t[i][2]
  BY <1>2 DEF Between
<1>4. a \in Cover(S) <=> \E i \in DOMAIN t : a \in Between(t[i])
  BY <1>1 DEF TableOf
<1>5. ASSUME NEW i \in DOMAIN t, t[i][1] <= a, a <= t[i][2] PROVE InTable(t, a)
  <2>1. i \in StartingBefore(t, a)
    BY <1>5 DEF StartingBefore
  <2>2. ASSUME NEW j \in StartingBefore(t, a) PROVE j <= i
    <3>1. j \in DOMAIN t /\ t[j][1] <= a
      BY DEF StartingBefore
    <3>2. ~(i < j)
      BY <1>1, <1>2, <1>5, <3>1 DEF TableOf
    <3> QED
      BY <1>1, <3>1, <3>2
  <2> QED
    BY <1>5, <2>1, <2>2 DEF InTable
<1>6. ASSUME InTable(t, a) PROVE \E i \in DOMAIN t : t[i][1] <= a /\ a <= t[i][2]
  BY <1>6 DEF InTable, StartingBefore
<1> QED
  BY <1>3, <1>4, <1>5, <1>6

LEMMA BlockInSpace ==
  ASSUME NEW b \in Block
  PROVE  BlockRange(b) \in Interval
<1> DEFINE P == 2 ^ b[2]
           base == b[1] - (b[1] % P)
           end == base + P - 1
<1>1. b[1] \in Address /\ b[2] \in Sizes /\ b = <<b[1], b[2]>>
  BY DEF Block
<1>2. P \in Nat \ {0} /\ b[1] \in Nat /\ b[1] <= Top /\ Top \in Nat /\ W \in Sizes
  BY <1>1, SizeFacts, WidthAssumption DEF Address, Sizes
<1>3. base \in Nat /\ base <= b[1] /\ base <= end /\ end \in Nat
  <2>1. b[1] = P * (b[1] \div P) + (b[1] % P) /\ b[1] % P \in Nat /\ b[1] \div P \in Nat
    <3> HIDE DEF P
    <3> QED
      BY <1>2, Division
  <2> DEFINE q == P * (b[1] \div P)
             r == b[1] % P
  <2>2. q \in Nat
    <3> HIDE DEF P
    <3> QED
      BY <1>2, <2>1
  <2>3. r \in Nat /\ b[1] = q + r /\ base = b[1] - r /\ end = base + P - 1
    BY <2>1
  <2> HIDE DEF P, q, r, base, end
  <2> QED
    BY <1>2, <2>2, <2>3
<1>4. BlockRange(b) = <<base, end>>
  BY DEF BlockRange
<1>5. end \in Between(BlockRange(<<b[1], b[2]>>))
  <2> HIDE DEF base, end
  <2> QED
    BY <1>1, <1>3, <1>4 DEF Between
<1>6. Number(end, b[2]) = Number(b[1], b[2])
  <2> HIDE DEF base, end
  <2> QED
    BY <1>1, <1>2, <1>3, <1>5, InBlock
<1>7. Number(end, W) = Number(b[1], W)
  <2>1. b[2] <= W
    BY <1>1, WidthAssumption DEF Sizes
  <2> HIDE DEF base, end
  <2> QED
    BY <1>1, <1>2, <1>3, <1>6, <2>1, Nested
<1>8. \A y \in Nat : Number(y, W) = Number(b[1], W) => y <= Top
  <2>1. 2 ^ W \in Nat \ {0} /\ Top = 2 ^ W - 1
    BY <1>2, SizeFacts DEF Top
  <2> DEFINE Q == 2 ^ W
             n == b[1]
  <2> HIDE DEF Q, n
  <2>2. Q \in Nat \ {0} /\ n \in Nat /\ n < Q /\ Top = Q - 1
    BY <1>2, <2>1 DEF Q, n
  <2>3. n \div Q = 0
    BY <2>2
  <2>4. \A y \in Nat : y \div Q = 0 => y < Q
    BY <2>2, Division
  <2> QED
    BY <2>2, <2>3, <2>4 DEF Number, Q, n
<1>9. end <= Top
  <2> HIDE DEF end
  <2> QED
    BY <1>3, <1>7, <1>8
<1> HIDE DEF base, end
<1> QED
  BY <1>3, <1>4, <1>9, MakeInterval

(***************************************************************************)
(* The interceptor's table answers for exactly the addresses of the file.  *)
(***************************************************************************)
LEMMA TableExact ==
  ASSUME NEW B, B \subseteq Block, NEW a \in Address
  PROVE  InTable(FromLines(B), a) <=> a \in BlockCover(B)
<1> DEFINE all == {BlockRange(b) : b \in B}
<1>1. all \subseteq Interval
  BY BlockInSpace
<1>2. IsFiniteSet(all)
  <2>1. IsFiniteSet(Address)
    BY FS_Interval, WidthAssumption DEF Address
  <2>2. IsFiniteSet(Address \X Address) /\ all \subseteq Address \X Address
    <3> HIDE DEF all
    <3> QED
      BY <1>1, <2>1, FS_Product DEF Interval
  <2> HIDE DEF all
  <2> QED
    BY <2>2, FS_Subset
<1>3. TableOf(Merged(all)[all], all)
  <2> HIDE DEF all
  <2> QED
    BY <1>1, <1>2, MergedIsTable
<1>4. FromLines(B) = Merged(all)[all]
  BY DEF FromLines
<1>5. InTable(FromLines(B), a) <=> a \in Cover(all)
  <2> HIDE DEF all
  <2> QED
    BY <1>3, <1>4, AddressInt, Lookup
<1>6. Cover(all) = BlockCover(B)
  BY DEF Cover, BlockCover
<1> QED
  BY <1>5, <1>6

(* An answer the interceptor calls domestic leads out of the tunnel wherever
   the routes could be read, and every address outside the tunnel that is neither
   in a range of the LAN nor the server's is domestic to the interceptor
   (chnroute.rs:81-131, SVTunnelSettings.m:192-239).                           *)
THEOREM ReadersAgree == TunnelSpec => []RoutesFollowTable
<1>1. TunnelSpec => []SetupInv
  BY SetupInitInv, SetupStep, PTL DEF TunnelSpec
<1>2. SetupInv => RoutesFollowTable
  <2> SUFFICES ASSUME SetupInv, setup = "up", table # NoTable, NEW a \in Address
               PROVE  LET lan == BlockCover(LanRoutes(Peer(profile)))
                      IN  /\ InTable(table, a) /\ routed => a \in BlockCover(direct)
                          /\ a \in BlockCover(direct) \ (lan \cup server) => InTable(table, a)
    BY DEF RoutesFollowTable
  <2> DEFINE local == LanRoutes(Peer(profile))
             lan == BlockCover(local)
             country == CountryRoutesOf(profile, file, routed)
             own == {<<s, 0>> : s \in server}
  <2>1. profile.mode = "chinadns" /\ file # NoFileAt /\ table = FromLines(file)
    BY DEF SetupInv, TableOfFile
  <2>2. file \subseteq Block /\ server \subseteq Address /\ direct = (local \cup country) \cup own
    BY <2>1, SetupAssumption DEF SetupInv, SettingsBuilt
  <2>3. InTable(table, a) <=> a \in BlockCover(file)
    BY <2>1, <2>2, TableExact
  <2>4. BlockCover(country) \subseteq BlockCover(file) /\ (routed => country = file)
    BY <2>1 DEF CountryRoutesOf, Exclusions, BlockCover
  <2>5. BlockCover(own) \subseteq server
    <3>1. \A s \in server : Between(BlockRange(<<s, 0>>)) = {s}
      BY <2>2, OneAddress
    <3>2. \A x : x \in BlockCover(own) => \E s \in server : x \in Between(BlockRange(<<s, 0>>))
      BY DEF BlockCover
    <3> HIDE DEF own
    <3>3. \A x, s : s \in server /\ x \in Between(BlockRange(<<s, 0>>)) => x \in server
      BY <3>1
    <3> QED
      BY <3>2, <3>3, Zenon
  <2>6. BlockCover(direct) = lan \cup BlockCover(country) \cup BlockCover(own)
    <3> HIDE DEF own, country, local
    <3>1. BlockCover(direct) = BlockCover(local \cup country) \cup BlockCover(own)
      BY <2>2, CoverJoins
    <3>2. BlockCover(local \cup country) = BlockCover(local) \cup BlockCover(country)
      BY CoverJoins
    <3> QED
      BY <3>1, <3>2
  <2> HIDE DEF lan, own, country
  <2>7. /\ InTable(table, a) /\ routed => a \in BlockCover(direct)
        /\ a \in BlockCover(direct) \ (lan \cup server) => InTable(table, a)
    BY <2>3, <2>4, <2>5, <2>6
  <2> QED
    BY <2>7 DEF lan
<1> QED
  BY <1>1, <1>2, PTL
=============================================================================
