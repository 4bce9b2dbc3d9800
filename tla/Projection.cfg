SPECIFICATION Spec
CONSTANTS
  a1 = a1
  a2 = a2
  n1 = n1
  n2 = n2
  plain = plain
  bare = bare
  vouched = vouched
  Accounts = {a1, a2}
  Names = {n1, n2}
  Raws = {plain, bare, vouched}
  Titled = {plain, vouched}
  Vouched = {vouched}
  None = None
  MaxBlock = 3
  Origins <- MCOrigins
  Calls <- MCCalls
  Sources = {"rpc", "light"}
  Batch = 3
  Replays = "whole"
INVARIANTS HistoryTrue AliasesAgree ReadsKept OnlyRegrantsRefused
CHECK_DEADLOCK FALSE
