--------------------------- MODULE CountryProofs ---------------------------
(* For every address width, every database and every history of crashes and
   updates: the files CountryRoutes serves name exactly the addresses the
   database gives the country.                                                *)
EXTENDS CountryRoutes, WellFoundedInduction, TLAPS

(***************************************************************************)
(* What the loops keep: the addresses still to merge, merged and emitted   *)
(* are those of the networks walked; the merge takes ranges in order.      *)
(***************************************************************************)
Target == Cover(Networks(<<version, code>>))

WorkExact ==
  /\ phase = "merge" => /\ Cover(ranges) \cup Cover(closed) \cup Between(open) = Target
                        /\ out = {}
  /\ phase = "split" => BlockCover(out) \cup Cover(closed) \cup Between(open) = Target
  /\ phase \in {"write", "fillTemp", "rename"} => BlockCover(out) = Target
  /\ phase = "rename" => temp[CacheName] = ThisFile

InOrder ==
  phase = "merge" /\ open # NoRange => \A r \in ranges : open[1] <= r[1]

ExactInv == RoutesTypeOK /\ WorkExact /\ InOrder /\ FilesExact

-----------------------------------------------------------------------------
LEMMA CoverUnion ==
  ASSUME NEW S, NEW T PROVE Cover(S \cup T) = Cover(S) \cup Cover(T)
BY DEF Cover

LEMMA CoverOne ==
  ASSUME NEW r PROVE Cover({r}) = Between(r)
BY DEF Cover

LEMMA CoverNone == Cover({}) = {} /\ BlockCover({}) = {}
BY DEF Cover, BlockCover

LEMMA CoverTake ==
  ASSUME NEW S, NEW r \in S PROVE Cover(S) = Cover(S \ {r}) \cup Between(r)
BY DEF Cover

LEMMA BetweenNone == Between(NoRange) = {}
BY DEF Between, NoRange

LEMMA CoverKeep ==
  ASSUME NEW S, NEW r
  PROVE  Cover(S \cup ({r} \ {NoRange})) = Cover(S) \cup Between(r)
<1>1. CASE r = NoRange
  BY <1>1, BetweenNone
<1>2. CASE r # NoRange
  <2>1. {r} \ {NoRange} = {r}
    BY <1>2
  <2> QED BY <2>1 DEF Cover
<1> QED BY <1>1, <1>2

LEMMA AddressInt == Address \subseteq Int /\ (\A a \in Int : a \in Address <=> 0 <= a /\ a <= Top)
BY WidthAssumption DEF Address

LEMMA IntervalFields ==
  ASSUME NEW r \in Interval
  PROVE  /\ r[1] \in Int /\ r[2] \in Int
         /\ 0 <= r[1] /\ r[1] <= r[2] /\ r[2] <= Top
<1>1. r \in Address \X Address /\ r[1] <= r[2]
  BY DEF Interval
<1>2. r[1] \in Address /\ r[2] \in Address
  BY <1>1
<1> QED BY <1>1, <1>2, AddressInt

LEMMA MakeInterval ==
  ASSUME NEW s \in Int, NEW e \in Int, 0 <= s, s <= e, e <= Top
  PROVE  <<s, e>> \in Interval /\ <<s, e>> # NoRange
<1>1. s \in Address /\ e \in Address
  BY AddressInt, WidthAssumption
<1>2. <<s, e>> \in Address \X Address
  BY <1>1
<1>3. <<s, e>> \in Interval
  BY <1>2 DEF Interval
<1>4. e # -1
  OBVIOUS
<1> QED BY <1>3, <1>4 DEF NoRange

(***************************************************************************)
(* A range that starts inside the open one or right after it extends it    *)
(* without covering anything else.                                         *)
(***************************************************************************)
LEMMA ExtendExact ==
  ASSUME NEW o \in Interval, NEW r \in Interval, o[1] <= r[1], Touches(r[1], o[2])
  PROVE  /\ <<o[1], Max2(o[2], r[2])>> \in Interval
         /\ <<o[1], Max2(o[2], r[2])>> # NoRange
         /\ Between(<<o[1], Max2(o[2], r[2])>>) = Between(o) \cup Between(r)
<1>1. /\ o[1] \in Int /\ o[2] \in Int /\ r[1] \in Int /\ r[2] \in Int
      /\ 0 <= o[1] /\ o[1] <= o[2] /\ o[2] <= Top
      /\ r[1] <= r[2] /\ r[2] <= Top
  BY IntervalFields
<1>2. r[1] <= o[2] + 1
  BY <1>1, WidthAssumption DEF Touches, Min2
<1>3. /\ Max2(o[2], r[2]) \in Int /\ Max2(o[2], r[2]) >= o[2]
      /\ Max2(o[2], r[2]) >= r[2] /\ Max2(o[2], r[2]) <= Top
      /\ Max2(o[2], r[2]) = o[2] \/ Max2(o[2], r[2]) = r[2]
  BY <1>1, WidthAssumption DEF Max2
<1>4. (o[1] .. Max2(o[2], r[2])) = (o[1] .. o[2]) \cup (r[1] .. r[2])
  BY <1>1, <1>2, <1>3
<1> QED BY <1>1, <1>3, <1>4, MakeInterval, WidthAssumption DEF Between

-----------------------------------------------------------------------------
(***************************************************************************)
(* A nonempty set of numbers of at most W has a greatest one, so that the  *)
(* block the loop chooses exists.                                          *)
(***************************************************************************)
LEMMA GreatestSize ==
  ASSUME NEW S, S \subseteq Sizes, S # {}
  PROVE  \E b \in S : \A c \in S : c <= b
<1> DEFINE R == {p \in Nat \X Nat : p[1] < p[2]}
           T == {W - b : b \in S}
<1>1. IsWellFoundedOn(R, Nat)
  BY NatLessThanWellFounded DEF OpToRel
<1>2. T \subseteq Nat /\ T # {}
  <2>1. \A b \in S : b \in Int /\ b <= W
    BY WidthAssumption DEF Sizes
  <2>2. \A b \in S : W - b \in Nat
    BY <2>1, WidthAssumption
  <2> QED BY <2>2
<1>3. \E x \in T : \A y \in T : ~(<<y, x>> \in R)
  <2> HIDE DEF R, T
  <2> QED BY <1>1, <1>2, WFMin
<1>4. PICK x \in T : \A y \in T : ~(<<y, x>> \in R)
  BY <1>3
<1>5. PICK b \in S : x = W - b
  BY <1>4
<1>6. ASSUME NEW c \in S PROVE c <= b
  <2>1. W - c \in T /\ W - c \in Nat /\ W - b \in Nat /\ b \in Int /\ c \in Int
    BY WidthAssumption, <1>5 DEF Sizes
  <2>2. ~(W - c < W - b)
    BY <1>4, <1>5, <2>1
  <2> QED BY <2>1, <2>2, WidthAssumption
<1> QED BY <1>6

LEMMA BlockFits ==
  ASSUME NEW s \in Int, NEW e \in Int, 0 <= s, s <= e, e <= Top
  PROVE  /\ BlockBits(s, e) \in Sizes
         /\ s % 2 ^ BlockBits(s, e) = 0
         /\ 2 ^ BlockBits(s, e) <= e - s + 1
<1>1. Span(s, e) \in Int /\ Span(s, e) >= 1 /\ Span(s, e) <= e - s + 1
  BY WidthAssumption DEF Span, Min2
<1>2. 0 \in Sizes
  BY WidthAssumption DEF Sizes
<1>3. s % 1 = 0
  OBVIOUS
<1>4. 0 \in Fitting(s, e)
  BY <1>1, <1>2, <1>3, WidthAssumption DEF Fitting
<1>5. \E b \in Fitting(s, e) : \A c \in Fitting(s, e) : c <= b
  BY <1>4, GreatestSize DEF Fitting
<1>6. BlockBits(s, e) \in Fitting(s, e)
  BY <1>5 DEF BlockBits
<1>7. BlockBits(s, e) \in Sizes /\ 2 ^ BlockBits(s, e) <= Span(s, e)
      /\ s % 2 ^ BlockBits(s, e) = 0
  BY <1>6 DEF Fitting
<1>8. 2 ^ BlockBits(s, e) \in Int
  BY <1>7, WidthAssumption
<1> QED BY <1>1, <1>7, <1>8

(***************************************************************************)
(* The block and what is left of the range cover the range, nothing more.  *)
(***************************************************************************)
LEMMA SplitExact ==
  ASSUME NEW o \in Interval, NEW b, b = BlockBits(o[1], o[2]),
         NEW left, left = IF NextStart(o[1], b) > o[2] THEN NoRange
                                                       ELSE <<NextStart(o[1], b), o[2]>>
  PROVE  /\ <<o[1], b>> \in Block
         /\ left \in Interval \cup {NoRange}
         /\ Between(BlockRange(<<o[1], b>>)) \cup Between(left) = Between(o)
<1>1. /\ o[1] \in Int /\ o[2] \in Int
      /\ 0 <= o[1] /\ o[1] <= o[2] /\ o[2] <= Top
  BY IntervalFields
<1>2. b \in Sizes /\ o[1] % 2 ^ b = 0 /\ 2 ^ b <= o[2] - o[1] + 1
  BY <1>1, BlockFits
<1>3. 2 ^ b \in Int /\ 2 ^ b >= 1
  BY <1>2, WidthAssumption
<1>4. Between(BlockRange(<<o[1], b>>)) = o[1] .. (o[1] + 2 ^ b - 1)
  BY <1>1, <1>2, <1>3 DEF Between, BlockRange
<1>5. <<o[1], b>> \in Block
  BY <1>1, <1>2, AddressInt, WidthAssumption DEF Block
<1> DEFINE n == o[1] + 2 ^ b
<1>6. n \in Int /\ n <= o[2] + 1 /\ n > o[1]
  BY <1>1, <1>2, <1>3
<1>7. CASE n > o[2]
  <2>1. left = NoRange
    BY <1>7 DEF NextStart
  <2>2. (o[1] .. (o[1] + 2 ^ b - 1)) = o[1] .. o[2]
    BY <1>1, <1>3, <1>6, <1>7
  <2>3. Between(left) = {} /\ left \in Interval \cup {NoRange}
    BY <2>1, BetweenNone
  <2>4. Between(o) = o[1] .. o[2]
    BY DEF Between
  <2> QED BY <1>4, <1>5, <2>1, <2>2, <2>3, <2>4
<1>8. CASE ~(n > o[2])
  <2>1. left = <<n, o[2]>>
    BY <1>8 DEF NextStart
  <2>2. left \in Interval
    BY <1>1, <1>6, <1>8, <2>1, MakeInterval
  <2>3. (o[1] .. (o[1] + 2 ^ b - 1)) \cup (n .. o[2]) = o[1] .. o[2]
    BY <1>1, <1>3, <1>6, <1>8
  <2>4. Between(left) = n .. o[2] /\ Between(o) = o[1] .. o[2]
    BY <2>1 DEF Between
  <2> HIDE DEF n
  <2> QED BY <1>4, <1>5, <2>2, <2>3, <2>4
<1> QED BY <1>7, <1>8

LEMMA BlockCoverAdd ==
  ASSUME NEW B, NEW b
  PROVE  BlockCover(B \cup {b}) = BlockCover(B) \cup Between(BlockRange(b))
BY DEF BlockCover

-----------------------------------------------------------------------------
LEMMA TypeStep ==
  ASSUME RoutesTypeOK, InOrder, WorkExact, [RoutesNext]_crVars
  PROVE  RoutesTypeOK'
<1> USE DEF RoutesTypeOK
<1>0. ASSUME UNCHANGED crVars PROVE RoutesTypeOK'
  BY <1>0 DEF crVars, files, work
<1>0a. Networks(<<version, code>>) \subseteq Interval
  BY DEF Networks, Release
<1>0b. version \in Versions /\ code \in Countries => ThisFile \in File
  BY DEF ThisFile, File
<1>0c. CacheName \in Name
  BY DEF CacheName, Name, Release
<1>1. ASSUME Generate PROVE RoutesTypeOK'
  BY <1>1, <1>0a DEF Generate, Walk, files
<1>2. ASSUME Ship \/ AskBundled PROVE RoutesTypeOK'
  BY <1>2, ReleasesAssumption DEF Ship, AskBundled, files, work
<1>3. ASSUME NEW c \in Countries, Ask(c) PROVE RoutesTypeOK'
  BY <1>3 DEF Ask, files, work
<1>4. ASSUME CacheHit PROVE RoutesTypeOK'
  <2>1. cache[CacheName] \in File \cup {NoFile}
    BY <1>0c
  <2> QED BY <1>4, <2>1 DEF CacheHit, files, work
<1>5. ASSUME CacheMiss PROVE RoutesTypeOK'
  BY <1>5, <1>0a DEF CacheMiss, Walk, files
<1>6. ASSUME Fails PROVE RoutesTypeOK'
  BY <1>6 DEF Fails, Rest, files
<1>7. ASSUME NEW r \in ranges, MergeExtend(r) PROVE RoutesTypeOK'
  <2>1. open \in Interval /\ r \in Interval /\ open[1] <= r[1]
    BY <1>7 DEF MergeExtend, InOrder
  <2> QED BY <1>7, <2>1, ExtendExact DEF MergeExtend, files
<1>8. ASSUME NEW r \in ranges, MergePush(r) PROVE RoutesTypeOK'
  BY <1>8 DEF MergePush, files
<1>9. ASSUME MergeEnds PROVE RoutesTypeOK'
  BY <1>9 DEF MergeEnds, files
<1>10. ASSUME NEW r \in closed, SplitTake(r) PROVE RoutesTypeOK'
  BY <1>10 DEF SplitTake, files
<1>11. ASSUME SplitStep PROVE RoutesTypeOK'
  <2>1. open \in Interval
    BY <1>11 DEF SplitStep
  <2> QED BY <1>11, <2>1, SplitExact DEF SplitStep, files
<1>12. ASSUME SplitEnds PROVE RoutesTypeOK'
  BY <1>12 DEF SplitEnds, files, work
<1>13. ASSUME GenWrite PROVE RoutesTypeOK'
  BY <1>13, <1>0b DEF GenWrite, Rest
<1>14. ASSUME TempCreated \/ TempWritten PROVE RoutesTypeOK'
  BY <1>14, <1>0b DEF TempCreated, TempWritten, work
<1>15. ASSUME Rename PROVE RoutesTypeOK'
  <2>1. temp[CacheName] \in File
    BY <1>15, <1>0b DEF Rename, WorkExact
  <2> QED BY <1>15, <2>1 DEF Rename, Rest
<1>16. ASSUME Crash PROVE RoutesTypeOK'
  BY <1>16 DEF Crash, Rest, files
<1>17. ASSUME NEW v \in Versions, AppUpdate(v) PROVE RoutesTypeOK'
  BY <1>17 DEF AppUpdate, Rest, files
<1> QED
  BY <1>0, <1>1, <1>2, <1>3, <1>4, <1>5, <1>6, <1>7, <1>8, <1>9, <1>10, <1>11,
     <1>12, <1>13, <1>14, <1>15, <1>16, <1>17 DEF RoutesNext, Step

LEMMA OrderStep ==
  ASSUME RoutesTypeOK, InOrder, [RoutesNext]_crVars PROVE InOrder'
<1> USE DEF InOrder
<1>1. ASSUME NEW r \in ranges, MergeExtend(r) PROVE InOrder'
  BY <1>1 DEF MergeExtend
<1>2. ASSUME NEW r \in ranges, MergePush(r) PROVE InOrder'
  <2>1. \A q \in ranges : r[1] <= q[1]
    <3>1. r \in Interval /\ \A q \in ranges : q \in Interval /\ Precedes(r, q)
      BY <1>2 DEF MergePush, First, RoutesTypeOK
    <3> QED BY <3>1, IntervalFields DEF Precedes
  <2> QED BY <1>2, <2>1 DEF MergePush
<1>3. ASSUME Generate \/ CacheMiss PROVE InOrder'
  BY <1>3 DEF Generate, CacheMiss, Walk
<1>4. CASE UNCHANGED crVars
  BY <1>4 DEF crVars, work
<1> QED
  BY <1>1, <1>2, <1>3, <1>4
  DEF RoutesNext, Step, Ship, AskBundled, Ask, CacheHit, Fails, MergeEnds, SplitTake,
      SplitStep, SplitEnds, GenWrite, TempCreated, TempWritten, Rename, Crash,
      AppUpdate, work

(***************************************************************************)
(* The loops keep the addresses of the networks they started from.         *)
(***************************************************************************)
LEMMA WorkStep ==
  ASSUME RoutesTypeOK, InOrder, WorkExact, [RoutesNext]_crVars
  PROVE  WorkExact'
<1> USE DEF WorkExact
<1>0. ASSUME UNCHANGED <<release, version, code>> PROVE Target' = Target
  BY <1>0 DEF Target, Cover, Networks, Between
<1>1. ASSUME Generate \/ CacheMiss PROVE WorkExact'
  <2>1. /\ phase' = "merge" /\ ranges' = Networks(<<version, code>>) /\ out' = {}
        /\ open' = NoRange /\ closed' = {} /\ Target' = Target
    BY <1>0, <1>1 DEF Generate, CacheMiss, Walk
  <2> QED BY <2>1, CoverNone, BetweenNone DEF Target
<1>2. ASSUME NEW r \in ranges, MergeExtend(r) PROVE WorkExact'
  <2>1. open \in Interval /\ r \in Interval /\ open[1] <= r[1] /\ Touches(r[1], open[2])
    BY <1>2 DEF MergeExtend, InOrder, RoutesTypeOK
  <2>2. Between(open') = Between(open) \cup Between(r)
    BY <1>2, <2>1, ExtendExact DEF MergeExtend
  <2>3. Cover(ranges) = Cover(ranges') \cup Between(r)
    BY <1>2, CoverTake DEF MergeExtend
  <2> QED BY <1>0, <1>2, <2>2, <2>3 DEF MergeExtend
<1>3. ASSUME NEW r \in ranges, MergePush(r) PROVE WorkExact'
  <2>1. Cover(closed') = Cover(closed) \cup Between(open)
    BY <1>3, CoverKeep DEF MergePush
  <2>2. Cover(ranges) = Cover(ranges') \cup Between(r)
    BY <1>3, CoverTake DEF MergePush
  <2> QED BY <1>0, <1>3, <2>1, <2>2 DEF MergePush
<1>4. ASSUME MergeEnds PROVE WorkExact'
  <2>1. Cover(closed') = Cover(closed) \cup Between(open)
    BY <1>4, CoverKeep DEF MergeEnds
  <2> QED BY <1>0, <1>4, <2>1, CoverNone, BetweenNone DEF MergeEnds
<1>5. ASSUME NEW r \in closed, SplitTake(r) PROVE WorkExact'
  <2>1. Cover(closed) = Cover(closed') \cup Between(r)
    BY <1>5, CoverTake DEF SplitTake
  <2> QED BY <1>0, <1>5, <2>1, BetweenNone DEF SplitTake
<1>6. ASSUME SplitStep PROVE WorkExact'
  <2> DEFINE b == BlockBits(open[1], open[2])
  <2>1. open \in Interval
    BY <1>6 DEF SplitStep, RoutesTypeOK
  <2>2. /\ out' = out \cup {<<open[1], b>>}
        /\ open' = IF NextStart(open[1], b) > open[2] THEN NoRange
                                                      ELSE <<NextStart(open[1], b), open[2]>>
    BY <1>6 DEF SplitStep
  <2>3. Between(BlockRange(<<open[1], b>>)) \cup Between(open') = Between(open)
    BY <2>1, <2>2, SplitExact
  <2>4. BlockCover(out') = BlockCover(out) \cup Between(BlockRange(<<open[1], b>>))
    BY <2>2, BlockCoverAdd
  <2> QED BY <1>0, <1>6, <2>3, <2>4 DEF SplitStep
<1>7. ASSUME SplitEnds PROVE WorkExact'
  BY <1>0, <1>7, CoverNone, BetweenNone DEF SplitEnds, work
<1>8. ASSUME TempCreated PROVE WorkExact'
  BY <1>0, <1>8 DEF TempCreated, work
<1>9. ASSUME TempWritten PROVE WorkExact'
  <2>1. CacheName \in Name /\ CacheName' = CacheName /\ ThisFile' = ThisFile
    BY <1>9 DEF TempWritten, CacheName, Name, Release, ThisFile, RoutesTypeOK, work
  <2>2. temp'[CacheName] = ThisFile
    BY <1>9, <2>1 DEF TempWritten, RoutesTypeOK
  <2>3. temp'[CacheName'] = ThisFile'
    BY <2>1, <2>2
  <2> QED BY <1>0, <1>9, <2>3 DEF TempWritten, work
<1>10. CASE UNCHANGED crVars
  <2>1. CacheName' = CacheName /\ ThisFile' = ThisFile
    BY <1>10 DEF CacheName, ThisFile, crVars, work
  <2> QED BY <1>0, <1>10, <2>1 DEF crVars, files, work
<1>11. ASSUME phase' \in {"idle", "size", "fill"} PROVE WorkExact'
  BY <1>11
<1>12. CASE GenWrite \/ Rename \/ Fails \/ Crash \/ \E v \in Versions : AppUpdate(v)
  BY <1>11, <1>12 DEF GenWrite, Rename, Fails, Crash, AppUpdate
<1>13. CASE Ship \/ AskBundled \/ CacheHit \/ \E c \in Countries : Ask(c)
  BY <1>11, <1>13 DEF Ship, AskBundled, CacheHit, Ask
<1> QED
  BY <1>1, <1>2, <1>3, <1>4, <1>5, <1>6, <1>7, <1>8, <1>9, <1>10, <1>12, <1>13
  DEF RoutesNext, Step

-----------------------------------------------------------------------------
LEMMA FilesStep ==
  ASSUME RoutesTypeOK, WorkExact, FilesExact, [RoutesNext]_crVars
  PROVE  FilesExact'
<1> USE DEF FilesExact
<1>0. release' = release
  BY DEF RoutesNext, Step, crVars, Generate, Ship, AskBundled, Ask, CacheHit, CacheMiss,
     Fails, MergeExtend, MergePush, MergeEnds, SplitTake, SplitStep, SplitEnds, GenWrite,
     TempCreated, TempWritten, Rename, Crash, AppUpdate
<1>1. \A of : Networks(of)' = Networks(of)
  BY <1>0 DEF Networks
<1>2. ThisFile \in File /\ ThisFile.of = <<version, code>> /\ ThisFile.blocks = out
  BY DEF ThisFile, File, RoutesTypeOK
<1>3. CASE GenWrite
  <2>1. bundle' = ThisFile /\ cache' = cache /\ BlockCover(out) = Target
    BY <1>3 DEF GenWrite, WorkExact
  <2>2. BlockCover(ThisFile.blocks) = Cover(Networks(ThisFile.of))
    BY <1>2, <2>1 DEF Target
  <2> QED BY <1>1, <1>2, <2>1, <2>2
<1>4. CASE Rename
  <2>1. CacheName \in Name
    BY DEF CacheName, Name, Release, RoutesTypeOK
  <2>2. /\ temp[CacheName] = ThisFile /\ BlockCover(out) = Target
        /\ bundle' = bundle /\ cache' = [cache EXCEPT ![CacheName] = temp[CacheName]]
    BY <1>4 DEF Rename, WorkExact
  <2>3. BlockCover(ThisFile.blocks) = Cover(Networks(ThisFile.of))
    BY <1>2, <2>2 DEF Target
  <2>4. \A n \in Name : cache'[n] = ThisFile \/ cache'[n] = cache[n]
    BY <2>1, <2>2 DEF RoutesTypeOK
  <2> QED BY <1>1, <1>2, <2>2, <2>3, <2>4
<1>5. CASE UNCHANGED <<bundle, cache>>
  BY <1>1, <1>5
<1>6. GenWrite \/ Rename \/ UNCHANGED <<bundle, cache>>
  BY DEF RoutesNext, Step, crVars, Generate, Ship, AskBundled, Ask, CacheHit, CacheMiss,
     Fails, MergeExtend, MergePush, MergeEnds, SplitTake, SplitStep, SplitEnds,
     TempCreated, TempWritten, Crash, AppUpdate, files
<1> QED BY <1>3, <1>4, <1>5, <1>6

LEMMA ExactInit == RoutesInit => ExactInv
<1> SUFFICES ASSUME RoutesInit PROVE ExactInv
  OBVIOUS
<1>1. RoutesTypeOK
  BY ReleasesAssumption DEF RoutesInit, RoutesTypeOK
<1>2. WorkExact /\ InOrder /\ FilesExact
  BY DEF RoutesInit, WorkExact, InOrder, FilesExact
<1> QED BY <1>1, <1>2 DEF ExactInv

LEMMA ExactStep == ExactInv /\ [RoutesNext]_crVars => ExactInv'
BY TypeStep, OrderStep, WorkStep, FilesStep DEF ExactInv

(***************************************************************************)
(* The pipeline's variables keep their types.                              *)
(***************************************************************************)
THEOREM RoutesTypeCorrect == RoutesSpec => []RoutesTypeOK
<1>1. ExactInv => RoutesTypeOK
  BY DEF ExactInv
<1> QED BY <1>1, ExactInit, ExactStep, PTL DEF RoutesSpec

(***************************************************************************)
(* Every file that can be served covers exactly the addresses its database *)
(* gives its country, for every width, database, crash and update.         *)
(***************************************************************************)
THEOREM ServedExactly == RoutesSpec => []FilesExact
<1>1. ExactInv => FilesExact
  BY DEF ExactInv
<1> QED BY <1>1, ExactInit, ExactStep, PTL DEF RoutesSpec

-----------------------------------------------------------------------------
(***************************************************************************)
(* Why nothing stale is served.  A cache file has in its name the country  *)
(* and the length of the database it was made from; what the extension was *)
(* given has the installed database's length, because an update takes it   *)
(* back, and no answer is given while the generator runs, which is the     *)
(* only one to write the bundled file.                                     *)
(***************************************************************************)
MadeFor(f, c, len) == f.of[2] = c /\ release[f.of[1]].len = len

CacheNamed ==
  \A n \in Name : cache[n] # NoFile => MadeFor(cache[n], n[1], n[2])
AnswerFresh ==
  /\ tool = "gen" => answer = NoFile /\ phase \in {"idle", "merge", "split", "write"}
  /\ answer # NoFile => BlockCover(answer.blocks) = Cover(Networks(answer.of))
  /\ answer \in {NoFile, bundle} \/ MadeFor(answer, code, release[version].len)
\* The file about to be renamed into the cache was made for its name.
TempNamed ==
  phase = "rename" => MadeFor(ThisFile, CacheName[1], CacheName[2])

FreshInv == CacheNamed /\ AnswerFresh

LEMMA FreshInit == RoutesInit => FreshInv
<1> SUFFICES ASSUME RoutesInit PROVE FreshInv
  OBVIOUS
<1> QED BY DEF RoutesInit, FreshInv, CacheNamed, AnswerFresh

LEMMA TempIsNamed == TempNamed
BY DEF TempNamed, MadeFor, ThisFile, CacheName

LEMMA FreshStep ==
  ASSUME ExactInv, FreshInv, [RoutesNext]_crVars
  PROVE  FreshInv'
<1> USE DEF FreshInv
<1>0. release' = release
  BY DEF RoutesNext, Step, crVars, Generate, Ship, AskBundled, Ask, CacheHit, CacheMiss,
     Fails, MergeExtend, MergePush, MergeEnds, SplitTake, SplitStep, SplitEnds, GenWrite,
     TempCreated, TempWritten, Rename, Crash, AppUpdate
<1>1. \A of : Networks(of)' = Networks(of)
  BY <1>0 DEF Networks
<1>2. CacheName \in Name /\ CacheName[1] = code /\ CacheName[2] = release[version].len
  BY DEF CacheName, Name, Release, RoutesTypeOK, ExactInv
<1>3. CacheNamed'
  <2>1. CASE Rename
    <3>1. /\ phase = "rename" /\ temp[CacheName] = ThisFile
          /\ cache' = [cache EXCEPT ![CacheName] = temp[CacheName]]
      BY <2>1 DEF Rename, ExactInv, WorkExact
    <3>2. MadeFor(ThisFile, CacheName[1], CacheName[2])
      BY <3>1, TempIsNamed DEF TempNamed
    <3>3. \A n \in Name : cache'[n] = IF n = CacheName THEN ThisFile ELSE cache[n]
      BY <1>2, <3>1 DEF ExactInv, RoutesTypeOK
    <3> QED BY <1>0, <3>2, <3>3 DEF CacheNamed, MadeFor
  <2>2. CASE cache' = cache
    BY <1>0, <2>2 DEF CacheNamed, MadeFor
  <2>3. Rename \/ cache' = cache
    BY DEF RoutesNext, Step, crVars, Generate, Ship, AskBundled, Ask, CacheHit, CacheMiss,
       Fails, MergeExtend, MergePush, MergeEnds, SplitTake, SplitStep, SplitEnds, GenWrite,
       TempCreated, TempWritten, Crash, AppUpdate, files
  <2> QED BY <2>1, <2>2, <2>3
<1>4. AnswerFresh'
  <2>0. tool' = "gen" => phase' \in {"idle", "merge", "split", "write"}
    BY DEF AnswerFresh, ExactInv, RoutesTypeOK, RoutesNext, Step, crVars, Generate, Ship,
       AskBundled, Ask, CacheHit, CacheMiss, Walk, Fails, MergeExtend, MergePush, MergeEnds,
       SplitTake, SplitStep, SplitEnds, GenWrite, TempCreated, TempWritten, Rename, Crash,
       AppUpdate
  <2>1. CASE answer' = NoFile
    BY <2>0, <2>1 DEF AnswerFresh
  <2>2. CASE AskBundled
    BY <1>1, <2>0, <2>2 DEF AskBundled, files, ExactInv, FilesExact, AnswerFresh
  <2>3. CASE CacheHit /\ answer' = cache[CacheName]
    <3>1. cache[CacheName] # NoFile /\ tool' = tool /\ code' = code /\ version' = version
      BY <2>3 DEF CacheHit
    <3>2. CASE tool = "core"
      <4>1. MadeFor(cache[CacheName], code, release[version].len)
        BY <1>2, <3>1 DEF CacheNamed
      <4>2. BlockCover(cache[CacheName].blocks) = Cover(Networks(cache[CacheName].of))
        BY <1>2, <3>1 DEF ExactInv, FilesExact
      <4> QED BY <1>0, <1>1, <2>0, <2>3, <3>1, <3>2, <4>1, <4>2 DEF AnswerFresh, MadeFor
    <3>3. CASE tool = "gen"
      BY <2>3, <3>3 DEF CacheHit, AnswerFresh
    <3> QED BY <3>2, <3>3 DEF ExactInv, RoutesTypeOK
  <2>4. CASE GenWrite
    BY <2>0, <2>4 DEF GenWrite, AnswerFresh
  <2>5. CASE UNCHANGED <<answer, bundle, code, version>> /\ (tool' = tool \/ tool' = "core")
    BY <1>0, <1>1, <2>0, <2>5 DEF AnswerFresh, MadeFor
  <2> QED
    BY <2>1, <2>2, <2>3, <2>4, <2>5
    DEF RoutesNext, Step, crVars, Generate, Ship, Ask, CacheHit, CacheMiss,
     Fails, MergeExtend, MergePush, MergeEnds, SplitTake, SplitStep, SplitEnds,
     TempCreated, TempWritten, Rename, Crash, AppUpdate, files
<1> QED BY <1>3, <1>4

(***************************************************************************)
(* What the extension is given is what the installed database says, unless *)
(* it is the bundled file or another release shipped a database of the     *)
(* same length (country.rs:14).                                            *)
(***************************************************************************)
THEOREM NothingStale == RoutesSpec => []NeverStale
<1>1. ExactInv /\ FreshInv => NeverStale
  <2> SUFFICES ASSUME ExactInv, FreshInv, answer # NoFile, answer # bundle,
                      \A v \in Versions \ {version} : release[v].len # release[version].len
               PROVE  /\ answer.of[2] = code
                      /\ BlockCover(answer.blocks) = Cover(Networks(<<version, code>>))
    BY DEF NeverStale
  <2>1. MadeFor(answer, code, release[version].len) /\ answer \in File
    BY DEF FreshInv, AnswerFresh, ExactInv, RoutesTypeOK
  <2>2. answer.of \in Versions \X Countries
    BY <2>1 DEF File
  <2>3. answer.of = <<version, code>>
    BY <2>1, <2>2 DEF MadeFor
  <2> QED BY <2>3 DEF FreshInv, AnswerFresh
<1>2. RoutesSpec => [](ExactInv /\ FreshInv)
  BY ExactInit, ExactStep, FreshInit, FreshStep, PTL DEF RoutesSpec
<1> QED BY <1>1, <1>2, PTL

-----------------------------------------------------------------------------
(***************************************************************************)
(* Why the files are minimal.  A block is the largest aligned one that     *)
(* fits into its range, and the address after a merged range is not of the *)
(* country: so the block twice as large, where it could start there,       *)
(* contains an address that is not.  The generator's 32-bit span spoils    *)
(* this for the whole address space alone.                                 *)
(***************************************************************************)
Greedy(B, T) ==
  \A b \in B : /\ b[1] % 2 ^ b[2] = 0
               /\ b[1] % 2 ^ (b[2] + 1) = 0 =>
                    \E x \in b[1] .. b[1] + 2 ^ (b[2] + 1) - 1 : x \notin T
GapAfter(r) == r[2] + 1 \notin Target

\* The merged ranges lie apart and in order.
GapsKept ==
  /\ phase = "merge" => /\ \A c \in closed : GapAfter(c)
                        /\ open = NoRange => closed = {}
                        /\ open # NoRange => \A c \in closed : c[2] < open[1]
  /\ phase = "split" => \A c \in closed \cup ({open} \ {NoRange}) : GapAfter(c)
OutGreedy ==
  phase \in {"split", "write", "fillTemp", "rename"} =>
     Greedy(out, Target) \/ (tool = "gen" /\ Target = Address)
FilesGreedy ==
  \A f \in {bundle} \cup {cache[n] : n \in Name} :
     f # NoFile => \/ Greedy(f.blocks, Cover(Networks(f.of)))
                   \/ f = bundle /\ Cover(Networks(f.of)) = Address
\* The generator runs before there is a cache.
CacheAfterShip == tool = "gen" => \A n \in Name : cache[n] = NoFile

MinimalInv == GapsKept /\ OutGreedy /\ FilesGreedy /\ CacheAfterShip

LEMMA Division ==
  ASSUME NEW P \in Nat \ {0}, NEW n \in Nat
  PROVE  /\ n = P * (n \div P) + (n % P)
         /\ n \div P \in Nat /\ n % P \in Nat /\ n % P < P
OBVIOUS

LEMMA HalfQuotient ==
  ASSUME NEW P \in Nat \ {0}, NEW n \in Nat
  PROVE  (n \div P) \div 2 = n \div (2 * P)
OBVIOUS

LEMMA SmallMultiple ==
  ASSUME NEW P \in Nat \ {0}, NEW m \in Int, 0 <= P * m, P * m < 2 * P
  PROVE  m = 0 \/ m = 1
<1>1. ~(m <= -1)
  <2> SUFFICES ASSUME m <= -1 PROVE P * m <= P * (-1)
    OBVIOUS
  <2> QED
    OBVIOUS
<1>2. ~(m >= 2)
  <2> SUFFICES ASSUME m >= 2 PROVE P * m >= P * 2
    OBVIOUS
  <2> QED
    OBVIOUS
<1> QED
  BY <1>1, <1>2

(***************************************************************************)
(* Two aligned halves of the same block of twice their size are its lower  *)
(* and its upper half.                                                     *)
(***************************************************************************)
LEMMA Halves ==
  ASSUME NEW P \in Nat \ {0}, NEW x \in Nat, NEW y \in Nat, x < y,
         x % P = 0, y % P = 0, x \div (2 * P) = y \div (2 * P)
  PROVE  x % (2 * P) = 0 /\ y = x + P
<1> DEFINE q == x \div (2 * P)
           u == x % (2 * P)
           v == y % (2 * P)
<1>1. /\ q \in Nat /\ u \in Nat /\ v \in Nat /\ u < 2 * P /\ v < 2 * P
      /\ x = (2 * P) * q + u /\ y = (2 * P) * q + v
  OBVIOUS
<1> HIDE DEF q, u, v
<1>2. ASSUME NEW z \in Nat, z < 2 * P, ((2 * P) * q + z) % P = 0 PROVE z = 0 \/ z = P
  <2>1. (2 * P) * q + z \in Nat
    BY <1>1
  <2>2. PICK k \in Nat : (2 * P) * q + z = P * k
    <3> DEFINE n == (2 * P) * q + z
    <3>1. n \in Nat /\ n % P = 0
      BY <1>2, <2>1
    <3> HIDE DEF n
    <3>2. n = P * (n \div P) + (n % P) /\ n \div P \in Nat
      BY <3>1, Division
    <3>3. n = P * (n \div P)
      BY <3>1, <3>2
    <3>4. \E k \in Nat : n = P * k
      BY <3>2, <3>3
    <3> QED
      BY <3>4 DEF n
  <2>3. (2 * P) * q = P * (2 * q) /\ P * (k - 2 * q) = P * k - P * (2 * q)
    BY <1>1
  <2>4. z = P * (k - 2 * q)
    BY <1>1, <2>1, <2>2, <2>3
  <2> QED
    BY <1>1, <1>2, <2>4, SmallMultiple
<1>3. u = 0 \/ u = P
  BY <1>1, <1>2
<1>4. v = 0 \/ v = P
  BY <1>1, <1>2
<1>5. u = 0 /\ v = P
  BY <1>1, <1>3, <1>4
<1> QED
  BY <1>1, <1>5 DEF u

LEMMA SizeFacts ==
  ASSUME NEW b \in Sizes
  PROVE  2 ^ b \in Nat \ {0} /\ 2 ^ (b + 1) = 2 * 2 ^ b
BY WidthAssumption

LEMMA BlockBetween ==
  ASSUME NEW s \in Address, NEW b \in Sizes, s % 2 ^ b = 0
  PROVE  Between(BlockRange(<<s, b>>)) = s .. s + 2 ^ b - 1
BY AddressInt, SizeFacts DEF Between, BlockRange

LEMMA NoSiblings ==
  ASSUME NEW B, B \subseteq Block, NEW T, Greedy(B, T), BlockCover(B) \subseteq T,
         NEW a \in B, NEW c \in B, a[2] = c[2], a[1] # c[1],
         a[1] \div 2 ^ (a[2] + 1) = c[1] \div 2 ^ (c[2] + 1)
  PROVE  FALSE
<1>1. \A d \in B : d[1] \in Address /\ d[2] \in Sizes /\ d = <<d[1], d[2]>>
  BY DEF Block
<1>2. ASSUME NEW l \in B, NEW h \in B, l[2] = h[2], l[1] < h[1],
             l[1] \div 2 ^ (l[2] + 1) = h[1] \div 2 ^ (h[2] + 1)
      PROVE  FALSE
  <2> DEFINE P == 2 ^ l[2]
  <2>1. P \in Nat \ {0} /\ 2 ^ (l[2] + 1) = 2 * P /\ l[1] \in Nat /\ h[1] \in Nat
    BY <1>1, SizeFacts, AddressInt
  <2>2. l[1] % P = 0 /\ h[1] % P = 0
    BY <1>2 DEF Greedy
  <2>3. l[1] % (2 * P) = 0 /\ h[1] = l[1] + P
    <3>1. l[1] \div (2 * P) = h[1] \div (2 * P)
      BY <1>2, <2>1
    <3> HIDE DEF P
    <3> QED BY <1>2, <2>1, <2>2, <3>1, Halves
  <2>4. PICK x \in l[1] .. l[1] + 2 * P - 1 : x \notin T
    BY <2>1, <2>3 DEF Greedy
  <2>5. Between(BlockRange(l)) = l[1] .. l[1] + P - 1
        /\ Between(BlockRange(h)) = h[1] .. h[1] + P - 1
    BY <1>1, <1>2, <2>2, BlockBetween
  <2>6. Between(BlockRange(l)) \subseteq T /\ Between(BlockRange(h)) \subseteq T
    BY DEF BlockCover
  <2> HIDE DEF P
  <2>7. x \in l[1] .. l[1] + P - 1 \/ x \in h[1] .. h[1] + P - 1
    BY <2>1, <2>3, <2>4
  <2> QED
    BY <2>4, <2>5, <2>6, <2>7
<1>3. a[1] \in Int /\ c[1] \in Int
  BY <1>1, AddressInt
<1>4. a[1] < c[1] \/ c[1] < a[1]
  BY <1>3
<1> QED
  BY <1>2, <1>4

(***************************************************************************)
(* A step leaves the release alone, and what the country's addresses are.  *)
(***************************************************************************)
LEMMA ReleaseStays == [RoutesNext]_crVars => release' = release
BY DEF RoutesNext, Step, crVars, Generate, Ship, AskBundled, Ask, CacheHit, CacheMiss,
   Fails, MergeExtend, MergePush, MergeEnds, SplitTake, SplitStep, SplitEnds, GenWrite,
   TempCreated, TempWritten, Rename, Crash, AppUpdate

LEMMA TargetStays ==
  ASSUME UNCHANGED <<release, version, code>>
  PROVE  Target' = Target /\ (\A r : GapAfter(r)' <=> GapAfter(r))
BY DEF Target, Cover, Networks, Between, GapAfter

LEMMA TargetInAddress ==
  ASSUME RoutesTypeOK
  PROVE  Target \subseteq Address
<1>1. Networks(<<version, code>>) \subseteq Interval
  BY DEF RoutesTypeOK, Networks, Release
<1>2. ASSUME NEW r \in Interval, NEW a \in Between(r) PROVE a \in Address
  <2>1. /\ r[1] \in Int /\ r[2] \in Int /\ 0 <= r[1] /\ r[2] <= Top
        /\ a \in r[1] .. r[2]
    BY <1>2, IntervalFields DEF Between
  <2> QED
    BY <2>1, AddressInt, WidthAssumption
<1> QED
  BY <1>1, <1>2 DEF Target, Cover

(***************************************************************************)
(* The range taken next starts after the address that follows the open one *)
(* when the loop keeps them apart.                                         *)
(***************************************************************************)
LEMMA NextApart ==
  ASSUME NEW r \in Interval, NEW o \in Interval, ~Touches(r[1], o[2])
  PROVE  o[2] + 1 < r[1]
BY IntervalFields, WidthAssumption DEF Touches, Min2

LEMMA GapsStep ==
  ASSUME RoutesTypeOK, InOrder, WorkExact, GapsKept, [RoutesNext]_crVars
  PROVE  GapsKept'
<1> USE DEF GapsKept
<1>1. CASE Generate \/ CacheMiss
  BY <1>1 DEF Generate, CacheMiss, Walk
<1>2. ASSUME NEW r \in ranges, MergeExtend(r) PROVE GapsKept'
  <2>1. /\ phase' = "merge" /\ closed' = closed /\ open # NoRange
        /\ open' # NoRange /\ open'[1] = open[1]
    <3>1. open \in Interval /\ r \in Interval /\ open' = <<open[1], Max2(open[2], r[2])>>
          /\ open # NoRange
      BY <1>2 DEF MergeExtend, RoutesTypeOK
    <3>2. Max2(open[2], r[2]) # -1
      BY <3>1, IntervalFields DEF Max2
    <3>3. open' # NoRange
      BY <3>1, <3>2 DEF NoRange
    <3> QED
      BY <1>2, <3>1, <3>3 DEF MergeExtend
  <2>2. \A c \in closed : GapAfter(c)'
    BY <1>2, TargetStays DEF MergeExtend
  <2> QED
    BY <1>2, <2>1, <2>2 DEF MergeExtend
<1>3. ASSUME NEW r \in ranges, MergePush(r) PROVE GapsKept'
  <2>1. r \in Interval /\ \A q \in ranges : q \in Interval /\ Precedes(r, q)
    BY <1>3 DEF MergePush, First, RoutesTypeOK
  <2>2. CASE open = NoRange
    <3>1. closed' = closed
      BY <1>3, <2>2 DEF MergePush
    <3>2. closed = {}
      BY <1>3, <2>2 DEF MergePush
    <3> QED
      BY <1>3, <3>1, <3>2, TargetStays DEF MergePush
  <2>3. CASE open # NoRange
    <3>1. open \in Interval /\ closed' = closed \cup {open}
      BY <1>3, <2>3 DEF MergePush, RoutesTypeOK
    <3>2. open[2] + 1 < r[1]
      BY <1>3, <2>1, <2>3, <3>1, NextApart DEF MergePush
    <3>3. \A c \in closed' : c[2] < r[1]
      BY <1>3, <2>1, <2>3, <3>1, <3>2, IntervalFields DEF MergePush, RoutesTypeOK
    <3>4. GapAfter(open)
      <4>1. Target = Cover(ranges) \cup Cover(closed) \cup Between(open)
        BY <1>3 DEF MergePush, WorkExact
      <4>2. open[2] + 1 \notin Cover(ranges)
        <5>1. ASSUME NEW q \in ranges PROVE open[2] + 1 \notin Between(q)
          <6>1. q \in Interval /\ Precedes(r, q)
            BY <2>1
          <6>2. q[1] \in Int /\ r[1] \in Int /\ open[2] \in Int /\ r[1] <= q[1]
            BY <2>1, <3>1, <6>1, IntervalFields DEF Precedes
          <6> QED
            BY <3>2, <6>2 DEF Between
        <5> QED
          BY <5>1 DEF Cover
      <4>3. open[2] + 1 \notin Cover(closed)
        BY <1>3, <2>3, <3>1, IntervalFields DEF MergePush, RoutesTypeOK, Cover, Between
      <4>4. open[2] + 1 \notin Between(open)
        BY <3>1, IntervalFields DEF Between
      <4> QED
        BY <4>1, <4>2, <4>3, <4>4 DEF GapAfter
    <3>5. /\ phase = "merge" /\ phase' = "merge" /\ open' = r
          /\ UNCHANGED <<release, version, code>>
      BY <1>3 DEF MergePush
    <3>6. r # NoRange
      BY <2>1, IntervalFields DEF NoRange
    <3>7. \A c \in closed' : GapAfter(c)'
      BY <3>1, <3>4, <3>5, TargetStays
    <3> QED
      BY <3>3, <3>5, <3>6, <3>7
  <2> QED
    BY <2>2, <2>3
<1>4. CASE MergeEnds
  <2>1. ASSUME open # NoRange PROVE GapAfter(open)
    <3>1. Target = Cover(closed) \cup Between(open) /\ open \in Interval
      BY <1>4, <2>1, CoverNone DEF MergeEnds, WorkExact, RoutesTypeOK
    <3>2. open[2] + 1 \notin Cover(closed)
      BY <1>4, <2>1, <3>1, IntervalFields DEF MergeEnds, RoutesTypeOK, Cover, Between
    <3>3. open[2] + 1 \notin Between(open)
      BY <3>1, IntervalFields DEF Between
    <3> QED
      BY <3>1, <3>2, <3>3 DEF GapAfter
  <2> QED
    BY <1>4, <2>1, TargetStays DEF MergeEnds
<1>5. ASSUME NEW r \in closed, SplitTake(r) PROVE GapsKept'
  BY <1>5, TargetStays DEF SplitTake
<1>6. CASE SplitStep
  <2>1. open'[2] = open[2] \/ open' = NoRange
    BY <1>6 DEF SplitStep
  <2>2. open' # NoRange => GapAfter(open')
    BY <1>6, <2>1 DEF SplitStep, GapAfter
  <2> QED
    BY <1>6, <2>2, TargetStays DEF SplitStep
<1>7. CASE UNCHANGED crVars
  BY <1>7, TargetStays DEF crVars, work
<1>8. ASSUME phase' \notin {"merge", "split"} PROVE GapsKept'
  BY <1>8
<1>9. CASE SplitEnds \/ GenWrite \/ TempCreated \/ TempWritten \/ Rename \/ Fails \/ Crash
           \/ \E v \in Versions : AppUpdate(v)
  BY <1>8, <1>9 DEF SplitEnds, GenWrite, TempCreated, TempWritten, Rename, Fails, Crash, AppUpdate
<1>10. CASE Ship \/ AskBundled \/ CacheHit \/ \E c \in Countries : Ask(c)
  BY <1>8, <1>10 DEF Ship, AskBundled, CacheHit, Ask
<1> QED
  BY <1>1, <1>2, <1>3, <1>4, <1>5, <1>6, <1>7, <1>9, <1>10 DEF RoutesNext, Step

(***************************************************************************)
(* The block taken from the front of a range is the largest that may start *)
(* there: one of twice the size reaches beyond the range.  Not so where    *)
(* the generator's span saturates, at the whole address space.             *)
(***************************************************************************)
LEMMA NoLargerBlock ==
  ASSUME NEW s \in Int, NEW e \in Int, 0 <= s, s <= e, e <= Top,
         tool = "gen" => ~(s = 0 /\ e = Top),
         NEW b, b = BlockBits(s, e), s % 2 ^ (b + 1) = 0
  PROVE  e + 1 \in s .. s + 2 ^ (b + 1) - 1
<1>1. b \in Sizes /\ s % 2 ^ b = 0 /\ 2 ^ b <= e - s + 1
  BY BlockFits
<1>2. 2 ^ (b + 1) \in Nat /\ 2 ^ (b + 1) = 2 * 2 ^ b /\ 2 ^ b \in Nat
  BY <1>1, SizeFacts
<1>3. Span(s, e) = e - s + 1
  BY WidthAssumption DEF Span, Min2
<1>4. CASE b + 1 \in Sizes
  <2>1. b \in Fitting(s, e) /\ \A c \in Fitting(s, e) : c <= b
    <3>1. 0 \in Fitting(s, e)
      <4>1. 0 \in Sizes /\ s % 1 = 0 /\ e - s + 1 >= 1
        BY WidthAssumption DEF Sizes
      <4> QED
        BY <1>3, <4>1, WidthAssumption DEF Fitting
    <3>2. \E d \in Fitting(s, e) : \A c \in Fitting(s, e) : c <= d
      BY <3>1, GreatestSize DEF Fitting
    <3> QED
      BY <3>2 DEF BlockBits
  <2>2. b + 1 \notin Fitting(s, e)
    BY <1>1, <2>1 DEF Sizes
  <2>3. ~(2 ^ (b + 1) <= e - s + 1)
    BY <1>3, <1>4, <2>2 DEF Fitting
  <2> QED
    BY <1>2, <2>3
<1>5. CASE b + 1 \notin Sizes
  <2>1. b = W
    BY <1>1, <1>5, WidthAssumption DEF Sizes
  <2>2. 2 ^ b = Top + 1
    BY <1>2, <2>1 DEF Top
  <2> QED
    BY <1>2, <2>2, WidthAssumption
<1> QED
  BY <1>4, <1>5

LEMMA GreedyStep ==
  ASSUME RoutesTypeOK, WorkExact, GapsKept, OutGreedy, [RoutesNext]_crVars
  PROVE  OutGreedy'
<1> USE DEF OutGreedy
<1>0. ASSUME UNCHANGED <<release, version, code, out, tool>>,
             phase \in {"split", "write", "fillTemp", "rename"}
      PROVE  OutGreedy'
  BY <1>0, TargetStays DEF Greedy
<1>1. CASE MergeEnds
  <2>1. out' = {}
    BY <1>1 DEF MergeEnds, WorkExact
  <2> QED
    BY <2>1 DEF Greedy
<1>2. CASE SplitStep
  <2> DEFINE s == open[1]
             e == open[2]
             b == BlockBits(s, e)
  <2>1. /\ phase = "split" /\ open # NoRange /\ open \in Interval
        /\ out' = out \cup {<<s, b>>} /\ tool' = tool
        /\ UNCHANGED <<release, version, code>>
    BY <1>2 DEF SplitStep, RoutesTypeOK
  <2>2. s \in Int /\ e \in Int /\ 0 <= s /\ s <= e /\ e <= Top
    BY <2>1, IntervalFields
  <2>3. Target' = Target
    BY <2>1, TargetStays
  <2>4. CASE tool = "gen" /\ s = 0 /\ e = Top
    <3>1. Between(open) \subseteq Target /\ Target \subseteq Address
      BY <2>1, TargetInAddress DEF WorkExact
    <3>2. Between(open) = Address
      BY <2>4 DEF Between, Address
    <3> QED
      BY <2>1, <2>3, <2>4, <3>1, <3>2
  <2>5. CASE tool = "gen" /\ Target = Address
    BY <2>1, <2>3, <2>5
  <2>6. CASE ~(tool = "gen" /\ s = 0 /\ e = Top) /\ ~(tool = "gen" /\ Target = Address)
    <3>1. Greedy(out, Target)
      BY <2>1, <2>6
    <3>2. b \in Sizes /\ s % 2 ^ b = 0
      BY <2>2, BlockFits
    <3>3. e + 1 \notin Target
      BY <2>1 DEF GapsKept, GapAfter
    <3>4. s % 2 ^ (b + 1) = 0 => e + 1 \in s .. s + 2 ^ (b + 1) - 1
      BY <2>2, <2>6, NoLargerBlock
    <3> HIDE DEF s, e, b
    <3>5. Greedy({<<s, b>>}, Target)
      BY <3>2, <3>3, <3>4 DEF Greedy
    <3>6. Greedy(out', Target)
      BY <2>1, <3>1, <3>5 DEF Greedy
    <3> QED
      BY <2>3, <3>6
  <2> QED
    BY <2>4, <2>5, <2>6
<1>3. CASE SplitEnds \/ TempCreated \/ TempWritten \/ \E r \in closed : SplitTake(r)
  BY <1>0, <1>3 DEF SplitEnds, TempCreated, TempWritten, SplitTake, work
<1>4. CASE UNCHANGED crVars
  BY <1>0, <1>4 DEF crVars, work
<1>5. ASSUME phase' \in {"idle", "size", "fill", "merge"} PROVE OutGreedy'
  BY <1>5
<1>6. CASE Generate \/ CacheMiss \/ GenWrite \/ Rename \/ Fails \/ Crash
           \/ (\E v \in Versions : AppUpdate(v)) \/ \E r \in ranges : MergeExtend(r) \/ MergePush(r)
  BY <1>5, <1>6 DEF Generate, CacheMiss, Walk, GenWrite, Rename, Fails, Crash, AppUpdate,
     MergeExtend, MergePush
<1>7. CASE Ship \/ AskBundled \/ CacheHit \/ \E c \in Countries : Ask(c)
  BY <1>5, <1>7 DEF Ship, AskBundled, CacheHit, Ask
<1> QED
  BY <1>1, <1>2, <1>3, <1>4, <1>6, <1>7 DEF RoutesNext, Step

LEMMA FilesGreedyStep ==
  ASSUME ExactInv, FreshInv, OutGreedy, FilesGreedy, CacheAfterShip, [RoutesNext]_crVars
  PROVE  FilesGreedy' /\ CacheAfterShip'
<1>1. \A of : Networks(of)' = Networks(of)
  BY ReleaseStays DEF Networks
<1>2. /\ RoutesTypeOK /\ ThisFile.of = <<version, code>> /\ ThisFile.blocks = out
      /\ ThisFile # NoFile /\ Cover(Networks(ThisFile.of)) = Target
  BY DEF ThisFile, ExactInv, Target, RoutesTypeOK, NoFile
<1>3. CASE GenWrite
  <2>1. /\ bundle' = ThisFile /\ cache' = cache /\ tool = "gen" /\ tool' = tool
        /\ Greedy(out, Target) \/ Target = Address
    BY <1>3 DEF GenWrite, OutGreedy
  <2>2. \A n \in Name : cache'[n] = NoFile
    BY <2>1 DEF CacheAfterShip
  <2> QED
    BY <1>1, <1>2, <2>1, <2>2 DEF FilesGreedy, CacheAfterShip
<1>4. CASE Rename
  <2>1. phase = "rename" /\ tool = "core" /\ tool' = tool
    BY <1>2, <1>4 DEF Rename, FreshInv, AnswerFresh, RoutesTypeOK
  <2>2. /\ temp[CacheName] = ThisFile /\ Greedy(out, Target)
        /\ bundle' = bundle /\ cache' = [cache EXCEPT ![CacheName] = temp[CacheName]]
    BY <1>4, <2>1 DEF Rename, ExactInv, WorkExact, OutGreedy
  <2>3. \A n \in Name : cache'[n] = ThisFile \/ cache'[n] = cache[n]
    BY <1>2, <2>2 DEF RoutesTypeOK
  <2> QED
    BY <1>1, <1>2, <2>1, <2>2, <2>3 DEF FilesGreedy, CacheAfterShip
<1>5. CASE UNCHANGED <<bundle, cache>> /\ (tool' = tool \/ tool' = "core")
  BY <1>1, <1>5 DEF FilesGreedy, CacheAfterShip
<1> QED
  BY <1>3, <1>4, <1>5
  DEF RoutesNext, Step, crVars, Generate, Ship, AskBundled, Ask, CacheHit, CacheMiss,
     Fails, MergeExtend, MergePush, MergeEnds, SplitTake, SplitStep, SplitEnds,
     TempCreated, TempWritten, Crash, AppUpdate, files

LEMMA MinimalInit == RoutesInit => MinimalInv
<1> SUFFICES ASSUME RoutesInit PROVE MinimalInv
  OBVIOUS
<1> QED
  BY DEF RoutesInit, MinimalInv, GapsKept, OutGreedy, FilesGreedy, CacheAfterShip

LEMMA MinimalStep ==
  ExactInv /\ FreshInv /\ MinimalInv /\ [RoutesNext]_crVars => MinimalInv'
BY GapsStep, GreedyStep, FilesGreedyStep DEF ExactInv, MinimalInv

(***************************************************************************)
(* "re-split into minimal CIDRs" (country.rs:116): no two blocks of a file *)
(* could be written as one, except in the generator's file of the whole    *)
(* address space.                                                          *)
(***************************************************************************)
THEOREM ServedMinimal == RoutesSpec => []FilesMinimal
<1>1. ExactInv /\ MinimalInv => FilesMinimal
  <2> SUFFICES ASSUME ExactInv, MinimalInv,
                      NEW f \in {bundle} \cup {cache[n] : n \in Name},
                      NEW a \in f.blocks, NEW b \in f.blocks, a[2] = b[2], a[1] # b[1],
                      a[1] \div 2 ^ (a[2] + 1) = b[1] \div 2 ^ (b[2] + 1)
               PROVE  f = bundle /\ Cover(Networks(f.of)) = Address
    BY DEF FilesMinimal
  <2>1. f # NoFile
    BY DEF NoFile
  <2>2. f.blocks \subseteq Block /\ BlockCover(f.blocks) = Cover(Networks(f.of))
    BY <2>1 DEF ExactInv, FilesExact, File
  <2>3. ~Greedy(f.blocks, Cover(Networks(f.of)))
    BY <2>2, NoSiblings
  <2> QED
    BY <2>1, <2>3 DEF MinimalInv, FilesGreedy
<1>2. RoutesSpec => [](ExactInv /\ MinimalInv)
  BY ExactInit, ExactStep, FreshInit, FreshStep, MinimalInit, MinimalStep, PTL DEF RoutesSpec
<1> QED BY <1>1, <1>2, PTL
=============================================================================
