SPECIFICATION Spec
CONSTANTS
  Instance = {1, 2, 3, 4}
  EidOf <- SharedEid
  Malformed = {3}
  Uent = {u1, u2}
  Stranger = u3
  Page = 2
  MaxChurn = 2
  MaxOthers = 1
INVARIANTS TypeOK ListComplete NoDuplicates EntityInstanceFound AnswerExact
