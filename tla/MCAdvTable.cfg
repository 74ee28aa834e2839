SPECIFICATION Spec
CONSTANTS
  m1 = m1
  m2 = m2
  m3 = m3
  d1 = d1
  d2 = d2
  x1 = x1
  MAX_ADVS_TABLE = 2
  Macs <- Macs3
  NoMac = NoMac
  Data <- Payloads
  ExtData <- LongPayloads
  NoData = NoData
  Buckets = {0, 1}
  HashIdx <- MCHashIdx3
  Lists = {1, 3}
  MaxTime = 2
  Word = 8
  MaxSamples = 1
INVARIANTS
  HistSorted
  HistoryReadComplete
  StatisticsReadComplete
  TypeOK
  HashTableExact
  ListFlagsExact
  ListedReportsAreLive
PROPERTIES
  ImplementsStore
