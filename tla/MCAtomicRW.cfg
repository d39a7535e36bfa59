\* The last update wraps the sequence number round to kInvalidSeq.
CONSTANTS
  Readers = {r1}
  Words = 2
  SeqMod = 4
  Ordered = TRUE
  MaxWrites = 3
  MaxRetry = 1
SPECIFICATION FairSpec
INVARIANTS NoTornRead
PROPERTIES ImplementsRegister ReadReturns
