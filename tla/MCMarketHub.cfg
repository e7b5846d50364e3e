SPECIFICATION HubLiveSpec
CONSTANTS
  Feeds = {"stream", "poll", "both"}
  History = 3
  PolledBars = 3
  MaxBar = 5
  MaxWire = 1
  PageSize = 2
INVARIANTS
  CloseFiresOnce
  SeriesAscending
PROPERTIES
  GapsGetFilled
  BackfillAnswersGaps
