\* The server's use of the queue: one producer, one consumer.
CONSTANTS
  p1 = p1
  p2 = p2
  c1 = c1
  c2 = c2
  n1 = n1
  n2 = n2
  n3 = n3
  v1 = v1
  v2 = v2
  Producers <- MCOneProducer
  Consumers <- MCOneConsumer
  Node <- MCNodes
  Value <- MCValues
  Free = Free
  NoNode = NoNode
  NoValue = NoValue
  Nothing = Nothing
  Something = Something
SPECIFICATION ServedSpec
PROPERTIES
  AnswerKept
  OldestLeaves
  EveryCallReturns
