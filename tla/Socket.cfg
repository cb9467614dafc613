SPECIFICATION FairSocket
CONSTANTS
  c1 = c1
  c2 = c2
  panel = panel
  ticker = ticker
  Tasks <- MCTasks
  Subscribers <- MCSubscribers
  Malformed <- MCMalformed
  MaxMessages = 4
INVARIANTS
  HeardOnceInOrder
  EarlierHearsMore
  OneMoreUpdate
PROPERTIES
  DisconnectEnds
