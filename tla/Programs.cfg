CONSTANTS
  MaxItems = 4
  Letter = {"a", "b"}
  MAX_LEN = 5
  MaxWidth = 4
  Char = {"a"}
  BUF_SIZE = 4
  MaxFile = 7
  MaxHeight = 3
  MaxHscroll = 1
  Pid = {1, 2}
  First = 1
  Dir <- MCDir
  Start <- MCStart
  ParserStart <- MCParserStart
  MAXPROCS = 3
  Arg = {"a", "b"}
  Extra = {"x"}
  Installed = {"o1", "o2"}
  OtherLists <- MCOtherLists
  Added <- MCAdded
  Taken <- MCTaken
  MaxArgs = 2
  NEWARGC = 4
  ArgvMax = 2
  MaxVarargs = 10
  MaxPath = 4
  Tree <- MCTree
  Empty <- MCEmpty
  Regular <- MCFile
  Link <- MCLink
  Reads <- MCReads
  Id = {"p", "q"}
  MaxTime = 5
  MaxCount = 3
  Cached = {"p1", "p2", "p3"}
  Unknown = "p0"
  MaxDeps = 2
  MaxNodes = 3
  Digits <- MCDigits
  Letters <- MCLetters
  TooFar = 10
  Patch90 = 9
  Alphabet <- MCAlphabet
  Desc <- MCDesc
  MaxNames = 2
  CurlExit = {0, 22, 28}
  BUFFER_SIZE = 2
  MaxText = 4
  Typed <- MCTyped
  Printed <- MCPrinted
  BUFSIZE = 2
  Banner <- MCBanner
  IdLen = 3
  SerialLen = 2
  Width = 3
  Slave <- MCSlave
  NoMac = "none"
  MaxFail = 2
  NPkg = 4
  Stages <- MCStages
  T2Debug <- MCT2Debug
SPECIFICATION Spec
INVARIANTS
  DialogsFaithful
  StatefulToolsRight
  SourceToolsRight
  TargetToolsRight
  OffersInTurn
PROPERTIES
  IsListCursor
  TextBoxRight
  WrapperEnds
CHECK_DEADLOCK FALSE
