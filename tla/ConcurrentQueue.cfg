CONSTANTS
  t1 = t1
  t2 = t2
  t3 = t3
  p1 = p1
  p2 = p2
  c1 = c1
  c2 = c2
  Node = {1, 2}
  Thread = {t1, t2, t3}
  Owned <- MCOwned
  Producer = {p1, p2}
  Consumer = {c1, c2}
  BLOCK_SIZE = 2
  IMPLICIT_INITIAL_INDEX_SIZE = 2
  initialBlockPoolSize = 1
  MaxBlock = 3
  Quotas <- MCQuotas
  MaxOver = 1
  User = {1, 2, 3}
  HashOf <- MCHashOf
  INITIAL_IMPLICIT_PRODUCER_HASH_SIZE = 2
SPECIFICATION Spec
INVARIANTS
  BlocksSafe
  ElementsSafe
  ProducersSafe
CHECK_DEADLOCK FALSE
