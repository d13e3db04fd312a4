\* Result sets of three rows, two blobs, texts of two characters, numbers of six bits.
SPECIFICATION DataSpec
CONSTANTS
  MaxRows = 3
  MaxStride = 2
  Iter = {"i1", "i2", "i3"}
  NoIter = "nil"
  Blob = {"b1", "b2"}
  MaxId = 1
  MaxFd = 2
  MaxSize = 2
  ChunkLimit = 1
  Char = {"x", "y"}
  Zero = "0"
  Eof = "eof"
  Content <- MCContent
  BufSize = 2
  MaxLength = 3
  ColumnName = {"a", "b"}
  MaxColumns = 3
  ResultRows = 2
  SqlStates <- MCSqlStates
  Encodings = {"UTF8", "SJIS", "GBK"}
  GlyphsOf <- MCGlyphsOf
  MaxGlyphs = 2
  Shapes <- MCShapes
  CopyEncodings = {"UTF8", "SJIS"}
  CopyRow <- MCCopyRow
  MaxCopied = 2
  Types <- MCTypes
  Builds = {"loop", "from_chars"}
  Texts <- MCTexts
  Behind = {0}
  Binaries <- MCBinaries
  HexTexts <- MCHexTexts
  Elements <- MCElements
  MaxElements = 2
INVARIANTS
  DataTypeOK CursorIsExact StreamIsSound BlobsAreSound ResultsAreFaithful TextsAreParsed
  CopyIsExact ConversionsAreExact
PROPERTIES FailureLeavesNothing IsPlainFile
\* A program may stop, and texts end.
CHECK_DEADLOCK FALSE
