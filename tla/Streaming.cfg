CONSTANTS
  Users = {u}
  Symbols = {a, b}
  Types = {quote}
  Options = {o1, o2}
  NoOption = none
  MaxSymbols = 2
  MaxPosts = 3
  MaxDrops = 2
  QueueSize = 2
  MaxMessages = 6
  MaxGarbled = 1
  MaxUnreplayed = 2
SPECIFICATION MCSpec
INVARIANTS ForgottenStaysForgotten ReplayedInFull Accounted NewestKept MessagesAreWhole
PROPERTIES EveryReplayEnds CloseEndsRecv ImplementsFeed
CHECK_DEADLOCK FALSE
