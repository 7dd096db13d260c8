CONSTANTS
  Words = 1
  Bits = 3
  Tasks = {t1, t2}
  Dests = {d1, d2}
  Lengths = {0, 2, 3, 5}
  Chunk = 2
  MaxPayload = 5
  FieldModulus = 6
  MessageLimit = 2
  Budget = 5
  MaxAssemblies = 1
  Ttl = 1
SPECIFICATION FairSpec
INVARIANTS
  DeliveredIntact
  DeliveredAtMostOnce
  PendingBounded
  CompleteMeansDelivered
  GenuineNeverRejected
PROPERTIES
  StaleNeverDelivered
  SlotsDrain
