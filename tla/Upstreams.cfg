SPECIFICATION MCSpec
CONSTANTS
  Chats = {chat}
  Streams = {stream}
  Embedders = {batch}
  Threshold = 3
  YahooThreads = {"t1", "t2"}
  YahooPoolMax = 1
  YahooSlots = 1
  YahooRetries = 1
  YahooBlocks = 1
  YahooReaps = 1
  ChatCallers = {"c1"}
  StreamCallers = {"s1"}
  CompatCallers = {"o1"}
  CallSlots = 1
  CallInterval = 1
  WaitCap = 1
  Backoffs = {2, 4}
  MaxCalls = 3
  MaxBlocks = 2
INVARIANTS
  ProbeHasOwner
  NoPhantomSlot
PROPERTIES
  ProbeSlotReturns
  QuotesKeepComing
  NoCloseInFlight
  CallsReturn
