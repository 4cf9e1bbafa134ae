SPECIFICATION Spec
CONSTANTS
  Names <- MCNames
  Lower <- MCLower
  Ascii <- MCAscii
  NameLength <- MCNameLength
  Family <- MCFamily
  TicksPerDay = 2
  FirstMonday = 3
  MonthStarts <- MCMonthStarts
  MaxTextLength = 2
  MaxTags = 2
  MaxTagLength = 2
  MaxPageSize = 3
  MaxTop = 3
  MaxTimeBuckets = 4
  DefaultSize = 2
  IntMax = 15
  Rows <- MCRows
  Start = 19
  Horizon = 21
  Searches <- MCSearches
  Statistics <- MCStatistics
  SearchCalls <- MCSearchCalls
  StatsCalls <- MCStatsCalls
  DefaultLimit = 1
  MaxLimit = 3
  DefaultListed = 2
  MaxListed = 3
  ToolTags = 2
  MaxResult = 4
  None = None
  Bad = Bad
  NotANumber = NotANumber
  AnyType = AnyType
INVARIANTS FoundAsAsked StatsAddUp ToolQueriesAreAccepted
