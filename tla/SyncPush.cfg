CONSTANTS
  a = a  b = b
  Op = {a, b}
  Req = {r1, r2}
  Lamport <- MCTies
  Posts <- MCPosts
  Unbalanced <- MCUnbalanced
  Ready = {}
  Chunk = 2
  MaxPush = 3
SPECIFICATION FairSpec
INVARIANTS ExactlyOnce PoisonContained
PROPERTIES PromiseKept EveryDeliveryEnds
