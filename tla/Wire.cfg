SPECIFICATION Spec
CONSTANTS
  Parse <- ParseFrom
  TextOk <- ValidText
  Entries <- AllEntries
  BytesOf <- EntryBytes
  LEN_ADM_PKG = 12
  MAX_ADM_PKG = 40
  StaleBytes = {0, 8}
  MaxSets = 2
  MaxEntries = 2
INVARIANTS
  TypeOK
  RoundTrip
  HeaderFirst
  PacketReadsBack
  PacketParsedAsSent
  BufferHolds
  StatisticsMatch
  TransactionsAreUpdates
  FirstRowsOnce
  OnlyBadEntryEndsJob
CHECK_DEADLOCK FALSE
