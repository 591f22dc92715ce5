\* The claim of the message "Duplicate item", on the same files.
CONSTANTS
  Files <- MCFiles
  Query <- MCQuery
  Hash <- MCHash
  SUB_CONFIG = 255
  RegLimit = 8
  Word = 64
  PortsPerWord = 2
  DefaultAt = 2
  SliceLen = 34
  Uent = {1, 2, 3}
  Info <- MCInfo
  ListFiles <- MCListFiles
  SyntaxError = SyntaxError
  IdOf <- MCIdOf
  CommandLines <- MCCommandLines
SPECIFICATION LsubSpec
INVARIANTS OnlyDuplicatesRefused
