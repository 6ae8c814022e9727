CONSTANTS t1 = t1 t2 = t2 t3 = t3
  Threads <- Three
  Does <- Roles
  Keys = {k1, k2} Stored = {1} MaxValue = 2 MaxEntries = 1 CullFrequency = 3
SPECIFICATION CacheFairSpec
INVARIANTS IInv ReaderFindsValue Bounded NoneOnlyWhenLost
PROPERTIES WriterPreference Implements SomeWriterProceeds BlockedReaderSeesProgress
