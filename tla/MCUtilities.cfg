CONSTANTS
  Handles = {h1, h2}
  Pids = {1, 2}
  Parent = parent
  Chars = {"a", "b", "n", "r"}
  MaxRead = 3
  MaxOutput = 6
  Letters = {"x", "_", "q", "b"}
  MaxWord = 2
  MaxWords = 2
  Descriptors <- MCDescriptors
  Sample = {0, 32, 37, 43, 65, 122, 171, 255}
  MaxLen = 4
  MaxData = 18
  MaxSet = 1
  Values = {{0}, {7}, {1, 3, 5, 7}, {0, 1, 2, 3, 4, 5, 6, 7}}
  MaxIn = 3
  MaxOut = 14
  Word = 1000
  Patience = 3
  Blocks = {b1, b2, b3}
  Units = 2
  MaxChecks = 2
SPECIFICATION UtilitiesSpec
INVARIANTS IdIsOwn ReportedIsReaped
  CutsDoNotMatter ArgumentsArrive RoundTrips SameEverywhere SoundInflates SummaryTells
PROPERTIES InflateEnds NoKillAfterEnd ChildGoneIsReported
CHECK_DEADLOCK FALSE
