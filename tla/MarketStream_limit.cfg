CONSTANTS
  Users = {u}
  Symbols = {a, b}
  Types = {quote}
  Options = {o1, o2}
  NoOption = none
  MaxSymbols = 1
  MaxPosts = 4
  MaxDrops = 2
SPECIFICATION Spec
INVARIANTS WithinLimit
CHECK_DEADLOCK FALSE
