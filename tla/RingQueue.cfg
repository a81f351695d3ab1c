\* Two producers and two consumers on a ring of three slots: both semaphores
\* reach zero, tokens overtake each other and the indices wrap.
CONSTANTS
  p1 = p1
  p2 = p2
  c1 = c1
  c2 = c2
  v1 = v1
  v2 = v2
  Producers = {p1, p2}
  Consumers = {c1, c2}
  Values = {v1, v2}
  Cap = 3
  NoValue = NoValue
  Free = Free
SPECIFICATION FairSpec
INVARIANTS NoOverwrite NoSlotRace
PROPERTIES ImplementsBoundedFifo EveryItemIsRead
