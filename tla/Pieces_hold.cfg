SPECIFICATION PiecesSpec
CONSTANTS
  W = 4
  Countries = {cn, us}
  Bundled = cn
  Versions = {1, 2}
  Lengths = {1, 2}
  Releases <- MCReleases
  Ten = 8
  TenSize = 3
  NetSize = 1
  Fixed <- MCFixed
  DefaultPeer = 10
  Servers = {5, 12}
  CountryFiles <- MCCountryFiles
  DcidLen = 2
  PnLen = 2
  PnLimit = 3
  Datagrams <- MCDatagrams
  Noise <- MCNoise
  Packets <- MCPackets
  Lengths16 = {0, 1, 3, 5, 16, 300}
  MaxLines = 3
  Answers <- MCAnswers
  Questions <- SharedId
  DnsRemote <- Remote
  MaxQueries = 3
  MaxReplies = 1
INVARIANTS
  FilesExact
  FilesMinimal
  NeverStale
  RoutesFollowTable
  PrivateSplit
  FramesInvert
  ReadsInBounds
  ChecksumsVerify
  AnswersTheAsker
  TypeOK
  PendingExact
  InStepUntilTimeout
PROPERTIES EveryCallReturns QueryFinishes
CHECK_DEADLOCK FALSE
