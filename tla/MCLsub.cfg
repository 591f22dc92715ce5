\* Three entities, a routing table of up to eight entries and ports, lists of up to three lines.
CONSTANTS
  Files <- MCFiles
  Query <- MCQuery
  Hash <- MCHash
  SUB_CONFIG = 255
  RegLimit = 8
  Word = 64
  PortsPerWord = 2
  DefaultAt = 2
  SliceLen = 34
  Uent = {1, 2, 3}
  Info <- MCInfo
  ListFiles <- MCListFiles
  SyntaxError = SyntaxError
  IdOf <- MCIdOf
  CommandLines <- MCCommandLines
SPECIFICATION LsubSpec
INVARIANTS LsubTypeOK NamesFollowFile AnswersStable RouteReadsExact NothingLeaked ErrorMeansSilence EachListedOnce ListsShownExactly
PROPERTIES MapSpec LsubEnds
