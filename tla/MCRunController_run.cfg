SPECIFICATION ScenarioFairSpec
CONSTANTS
  a1 = a1
  a2 = a2
  Allocators = {a1, a2}
  NoAllocator = NoAllocator
  Bootstrap = {}
  Caches = {a1}
  Hops <- Near
  IdOrder <- Order
  MaxRequests = 2
  MaxInbox = 1
  MaxReplies = 1
INVARIANTS  OffersSettled
PROPERTIES   CancelReturns CompletionReturns LosersReturned
CHECK_DEADLOCK FALSE
