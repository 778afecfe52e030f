SPECIFICATION IpcSpec
CONSTANTS
  Fields = {"timestamp_ns", "progress"}
  MaxTornRetries = 2
  MaxBeats = 2
INVARIANTS TypesOK SampleIsOneBeat HeardOrFlagged
PROPERTIES StuckIsReportedTorn ChannelEnds
