SPECIFICATION Spec
CONSTANTS
  ByteBits = 2
  MarkBytes = 1
  Density = 3
  NoMark = NoMark
  Letters = {"x"}
  Classes <- DictClasses
  MultiWord = {"set up"}
  Hyphenated = {"write-up"}
  Spellings <- DictSpellings
  Contractions <- DictContractions
  WordParts = {"me"}
  VariantOf <- Expansion
  MinInstances = 2
  Margin = 1
  K = 2
  Window = 2
  GramHash <- Hash
  Unspoken = {"--", "em dash", "straight", "curly"}
  ShortWords = {"it", "is"}
  MinWords = 2
  Sources <- MCSources
  MaxLines = 3
  Marks <- TwoMarks
  Leaker = Leaker
  Bystander = Bystander
INVARIANTS FramesReadBack WhitespaceReadsExactly FramesDecide  ExcerptsShareHashes MatcherNamesLeaker
CHECK_DEADLOCK FALSE
