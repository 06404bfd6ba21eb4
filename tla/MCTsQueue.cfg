\* Safety of the queue with two threads at each end.
CONSTANTS
  p1 = p1
  p2 = p2
  c1 = c1
  c2 = c2
  n1 = n1
  n2 = n2
  n3 = n3
  v1 = v1
  v2 = v2
  Producers <- MCProducers
  Consumers <- MCConsumers
  Node <- MCNodes
  Value <- MCValues
  Free = Free
  NoNode = NoNode
  NoValue = NoValue
  Nothing = Nothing
  Something = Something
SPECIFICATION QueueSpec
SYMMETRY MCSymmetry
INVARIANTS
  ThreadSafe
PROPERTIES
  IsFifo
