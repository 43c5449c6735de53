SPECIFICATION FairSpec
CONSTANTS
  Requests <- WellFormed
  Texts <- Unusual
  Words <- AllWords
  BufferSize = 40
  SizeMax = 255
  KeySize = 3
  IgnoredSize = 5
  QuerySize = 6
  Unclear = Unclear
INVARIANTS TypeOK PiecesDoNotMatter BodyReceived Understood EscapesDecode
PROPERTY CompleteIsRead
CHECK_DEADLOCK FALSE
