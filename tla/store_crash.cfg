SPECIFICATION Spec
CONSTANTS
  Writers = {w1, w2}
  Readers = {r1}
  Backups = 3
  Policies <- BothPolicies
  Absent = Absent
  Corrupt = Corrupt
  Garbled = Garbled
  MaxWrites = 5
  MaxAttempts = 3
  MaxDamage = 2
INVARIANTS CommittedIsRecovered GenerationsOrdered NoSilentDefault DamageCostsOneGeneration LoadsAreNotStale LoadsFindTheDocument
PROPERTIES ImplementsDurableDocument
SYMMETRY WriterSymmetry
CHECK_DEADLOCK FALSE
