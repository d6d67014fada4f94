--------------------------- MODULE CountryRoutes ---------------------------
(* From a MaxMind country database to the file of CIDR blocks that bypass the
   tunnel: country.rs, its C wrapper svpn_country_cidrs_file, the extension's
   resolveCountryCIDRURLForCountry that calls it twice (once for the size, once
   for the path), and chnroute-gen, the build-time tool that makes the bundled
   chnroute.txt with its own copy of the same walk.

   One step merges one range or emits one block.  A crash may come between any
   two steps; the files survive it.  An app update replaces the database, never
   the cache, which lives in the App Group.  Country codes are the normalized
   ones.                                                                      *)
EXTENDS Addresses, FiniteSets

CONSTANTS
  Countries,  \* normalized country codes
  Bundled,    \* the country whose chnroute.txt ships with the app ("CN")
  Versions,   \* versions of the app, numbers, each with a Country.mmdb
  Lengths,    \* possible byte lengths of a Country.mmdb
  Releases    \* the possible histories of releases, one record per version

NoRange == <<0, -1>>

\* What a release ships: the networks the database gives each country, as the
\* walk yields them, and the database's length, all that names a cache file.
Release == [nets : [Countries -> SUBSET Interval], len : Lengths]

ASSUME ReleasesAssumption ==
  /\ Bundled \in Countries /\ Versions \subseteq Nat
  /\ Releases \subseteq [Versions -> Release]

Name == Countries \X Lengths            \* chnroute-<code>-<mmdb_len>.txt
NoFile  == [of |-> <<>>, blocks |-> {}]
Partial == [of |-> <<0>>, blocks |-> {}]
\* "of" records which version and country a file was made for; the code keeps
\* only the blocks.
File == [of : Versions \X Countries, blocks : SUBSET Block]

VARIABLES
  release,   \* what each version ships
  version,   \* the installed version
  bundle,    \* chnroute.txt of the installed version
  cache,     \* Name -> cache file
  temp,      \* Name -> its sibling .tmp file
  tool,      \* which copy of the code runs: the "core" or the "gen"erator
  phase,     \* where it is
  code,      \* the country asked for
  ranges,    \* ranges the merge loop has not taken yet
  open,      \* the last merged range; later the range being split
  closed,    \* merged ranges before it; later those still to split
  out,       \* blocks emitted so far
  answer     \* the file the extension was given, NoFile for none

files  == <<bundle, cache, temp>>
work   == <<ranges, open, closed, out>>
crVars == <<release, version, files, tool, phase, code, work, answer>>

Networks(of) == release[of[1]].nets[of[2]]
\* Faulty variant of CacheName: the name does not tell the databases apart.
CacheNameByCode == <<code, CHOOSE l \in Lengths : TRUE>>
CacheName    == <<code, release[version].len>>
ThisFile     == [of |-> <<version, code>>, blocks |-> out]

Precedes(r, q) == r[1] < q[1] \/ (r[1] = q[1] /\ r[2] <= q[2])
First(S, r)    == r \in S /\ \A q \in S : Precedes(r, q)
RoutesInit ==
  /\ release \in Releases
  /\ version \in Versions
  /\ bundle = NoFile
  /\ cache = [n \in Name |-> NoFile]
  /\ temp = [n \in Name |-> NoFile]
  /\ tool = "gen" /\ phase = "idle" /\ code = Bundled
  /\ ranges = {} /\ open = NoRange /\ closed = {} /\ out = {}
  /\ answer = NoFile

Rest == ranges' = {} /\ open' = NoRange /\ closed' = {} /\ out' = {}

Walk(next) ==
  /\ ranges' = Networks(<<version, code>>)
  /\ open' = NoRange /\ closed' = {} /\ out' = {}
  /\ phase' = next

\* chnroute-gen runs once on the developer's machine, before the app ships.
Generate ==
  /\ tool = "gen" /\ phase = "idle" /\ bundle = NoFile
  /\ Walk("merge")
  /\ UNCHANGED <<release, version, files, tool, code, answer>>

\* The app ships: from now on the core's copy of the code runs.
Ship ==
  /\ tool = "gen" /\ phase = "idle" /\ tool' = "core"
  /\ UNCHANGED <<release, version, files, phase, code, work, answer>>

\* startTunnel resolves the country; the bundled file short-cuts its own.
AskBundled ==
  /\ tool = "core" /\ phase = "idle" /\ bundle # NoFile
  /\ code' = Bundled /\ answer' = bundle
  /\ UNCHANGED <<release, version, files, tool, phase, work>>

Ask(c) ==
  /\ tool = "core" /\ phase = "idle"
  /\ c = Bundled => bundle = NoFile
  /\ phase' = "size" /\ code' = c /\ answer' = NoFile
  /\ UNCHANGED <<release, version, files, tool, work>>

\* The fast path of ensure_country_file.  The first call only returns the
\* length of the path, the second one fills the buffer.
CacheHit ==
  /\ phase \in {"size", "fill"} /\ cache[CacheName] # NoFile
  /\ IF phase = "size" THEN phase' = "fill" /\ answer' = answer
                       ELSE phase' = "idle" /\ answer' = cache[CacheName]
  /\ UNCHANGED <<release, version, files, tool, code, work>>

CacheMiss ==
  /\ phase \in {"size", "fill"} /\ cache[CacheName] = NoFile
  /\ Walk("merge")
  /\ UNCHANGED <<release, version, files, tool, code, answer>>

\* A code without letters, no database, "no IPv4 networks found" or a failed
\* write: the call returns -1 and the extension degrades to no country set.
Fails ==
  /\ \/ phase \in {"size", "fill"}
     \/ phase = "merge" /\ ranges = {} /\ open = NoRange /\ tool = "core"
     \/ phase \in {"write", "fillTemp", "rename"} /\ tool = "core"
  /\ phase' = "idle" /\ Rest
  /\ UNCHANGED <<release, version, files, tool, code, answer>>

\* Faulty variant of Touches: adjacent ranges are kept apart.
TouchesStrictly(s, e) == s <= e
\* s <= last.1.saturating_add(1)
Touches(s, e) == s <= Min2(e + 1, Top)

MergeExtend(r) ==
  /\ phase = "merge" /\ First(ranges, r)
  /\ open # NoRange /\ Touches(r[1], open[2])
  /\ ranges' = ranges \ {r}
  /\ open' = <<open[1], Max2(open[2], r[2])>>
  /\ UNCHANGED <<release, version, files, tool, phase, code, closed, out, answer>>

MergePush(r) ==
  /\ phase = "merge" /\ First(ranges, r)
  /\ open = NoRange \/ ~Touches(r[1], open[2])
  /\ ranges' = ranges \ {r}
  /\ open' = r
  /\ closed' = closed \cup ({open} \ {NoRange})
  /\ UNCHANGED <<release, version, files, tool, phase, code, out, answer>>

\* The generator accepts an empty country and writes a file without blocks.
MergeEnds ==
  /\ phase = "merge" /\ ranges = {}
  /\ tool = "core" => open # NoRange
  /\ closed' = closed \cup ({open} \ {NoRange})
  /\ open' = NoRange
  /\ phase' = "split"
  /\ UNCHANGED <<release, version, files, tool, code, ranges, out, answer>>

SplitTake(r) ==
  /\ phase = "split" /\ open = NoRange /\ First(closed, r)
  /\ open' = r /\ closed' = closed \ {r}
  /\ UNCHANGED <<release, version, files, tool, phase, code, ranges, out, answer>>

\* The span of what is left.  The generator computes it in 32 bits, saturating:
\* the whole space counts as one address less.
Span(s, e) == IF tool = "gen" THEN Min2(e - s + 1, Top) ELSE e - s + 1
Fitting(s, e) == {b \in Sizes : s % 2 ^ b = 0 /\ 2 ^ b <= Span(s, e)}
\* min(trailing_zeros(start), floor(log2(span))): the largest aligned block
\* that fits.
BlockBits(s, e) == CHOOSE b \in Fitting(s, e) : \A c \in Fitting(s, e) : c <= b

\* Faulty variant of NextStart: computed in W bits.
NextStartWraps(s, b) == (s + 2 ^ b) % 2 ^ W
\* start as u64 + (1u64 << bits); checked_add in the generator
NextStart(s, b) == s + 2 ^ b

SplitStep ==
  /\ phase = "split" /\ open # NoRange
  /\ LET b == BlockBits(open[1], open[2])
         n == NextStart(open[1], b)
     IN  /\ out' = out \cup {<<open[1], b>>}
         /\ open' = IF n > open[2] THEN NoRange ELSE <<n, open[2]>>
  /\ UNCHANGED <<release, version, files, tool, phase, code, ranges, closed, answer>>

SplitEnds ==
  /\ phase = "split" /\ open = NoRange /\ closed = {}
  /\ phase' = "write"
  /\ UNCHANGED <<release, version, files, tool, code, work, answer>>

\* The generator writes its output in place.
GenWrite ==
  /\ phase = "write" /\ tool = "gen"
  /\ bundle' = ThisFile /\ phase' = "idle" /\ Rest
  /\ UNCHANGED <<release, version, cache, temp, tool, code, answer>>

\* Faulty variant of TempCreated: writes the cache file in place.
WriteInPlace ==
  /\ phase = "write" /\ tool = "core"
  /\ cache' = [cache EXCEPT ![CacheName] = Partial] /\ phase' = "fillTemp"
  /\ UNCHANGED <<release, version, bundle, temp, tool, code, work, answer>>

\* write_atomic: the sibling is created and filled, then renamed over the cache
\* file.
TempCreated ==
  /\ phase = "write" /\ tool = "core"
  /\ temp' = [temp EXCEPT ![CacheName] = Partial] /\ phase' = "fillTemp"
  /\ UNCHANGED <<release, version, bundle, cache, tool, code, work, answer>>

TempWritten ==
  /\ phase = "fillTemp"
  /\ temp' = [temp EXCEPT ![CacheName] = ThisFile] /\ phase' = "rename"
  /\ UNCHANGED <<release, version, bundle, cache, tool, code, work, answer>>

\* ensure_country_file returns the path to the caller, which calls once more.
Rename ==
  /\ phase = "rename"
  /\ cache' = [cache EXCEPT ![CacheName] = temp[CacheName]]
  /\ temp' = [temp EXCEPT ![CacheName] = NoFile]
  /\ phase' = "fill" /\ Rest
  /\ UNCHANGED <<release, version, bundle, tool, code, answer>>

\* The extension is killed; its next start asks again.
Crash ==
  /\ tool = "core" /\ phase # "idle"
  /\ phase' = "idle" /\ answer' = NoFile /\ Rest
  /\ UNCHANGED <<release, version, files, tool, code>>

\* An app update ends the extension and replaces the database; the cache stays,
\* and chnroute.txt is only regenerated by hand.
AppUpdate(v) ==
  /\ tool = "core" /\ v > version
  /\ version' = v /\ phase' = "idle" /\ answer' = NoFile /\ Rest
  /\ UNCHANGED <<release, files, tool, code>>

Step ==
  \/ CacheHit \/ CacheMiss \/ Fails
  \/ \E r \in ranges : MergeExtend(r) \/ MergePush(r)
  \/ MergeEnds
  \/ \E r \in closed : SplitTake(r)
  \/ SplitStep \/ SplitEnds
  \/ GenWrite \/ TempCreated \/ TempWritten \/ Rename

RoutesNext ==
  \/ Generate \/ Ship \/ AskBundled
  \/ \E c \in Countries : Ask(c)
  \/ Step
  \/ Crash
  \/ \E v \in Versions : AppUpdate(v)

RoutesSpec == RoutesInit /\ [][RoutesNext]_crVars /\ WF_crVars(Step)

\* The shape of the pipeline's state.
RoutesTypeOK ==
  /\ release \in [Versions -> Release] /\ version \in Versions
  /\ bundle \in File \cup {NoFile}
  /\ cache \in [Name -> File \cup {NoFile}]
  /\ temp \in [Name -> File \cup {NoFile, Partial}]
  /\ tool \in {"core", "gen"} /\ code \in Countries
  /\ phase \in {"idle", "size", "fill", "merge", "split", "write", "fillTemp", "rename"}
  /\ ranges \subseteq Interval /\ closed \subseteq Interval
  /\ open \in Interval \cup {NoRange}
  /\ out \subseteq Block
  /\ answer \in File \cup {NoFile}

\* Every file that can be served, the bundled one and every cached one, names
\* exactly the addresses its database gives its country: no address is lost or
\* gained by merging, splitting and masking, or by a crash while a file is
\* written (country.rs:116-171, main.rs:45-92).
FilesExact ==
  \A f \in {bundle} \cup {cache[n] : n \in Name} :
     f # NoFile => f \in File /\ BlockCover(f.blocks) = Cover(Networks(f.of))

\* "re-split into minimal CIDRs" (country.rs:116): no block of a file could be
\* joined with its sibling.  Only the generator's 32-bit span breaks this, for
\* the whole address space, which it writes as two halves.
FilesMinimal ==
  \A f \in {bundle} \cup {cache[n] : n \in Name} :
     \A a, b \in f.blocks :
        a[2] = b[2] /\ a[1] # b[1] /\ a[1] \div 2 ^ (a[2] + 1) = b[1] \div 2 ^ (b[2] + 1)
          => f = bundle /\ Cover(Networks(f.of)) = Address

\* "a stale set is never served after an app update" (country.rs:14): what the
\* extension is given is what the installed database says, unless another
\* release shipped a database of the same length, or it is the bundled file.
NeverStale ==
  /\ answer # NoFile
  /\ answer # bundle
  /\ \A v \in Versions \ {version} : release[v].len # release[version].len
  => /\ answer.of[2] = code
     /\ BlockCover(answer.blocks) = Cover(Networks(<<version, code>>))

\* Every call returns, whatever the ranges: the split loop ends also when a
\* range reaches the last address (country.rs:148-162, 64-bit next).
EveryCallReturns == phase # "idle" ~> phase = "idle"
=============================================================================
