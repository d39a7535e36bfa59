\* Two threads, two scopes each.
CONSTANTS
  Threads = {t1, t2}
  max_abort_conflict = 2
  max_abort_capacity = 1
  max_abort_nested = 0
  max_abort_zero = 0
  MaxScopes = 2
SPECIFICATION FairSpec
INVARIANTS NoLostUpdate ConsistentReads
PROPERTIES FallbackExcludes ScopesEnd
CHECK_DEADLOCK FALSE
