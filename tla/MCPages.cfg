SPECIFICATION PagesSpec
CONSTANTS
  Outcomes = {"options"}
  MaxQuotes = 2
  MaxTokens = 2
  MaxQuoteLosses = 1
  Weights = {0, 4, 5, 14, 194, 195}
  Values = {0, 4, 16, 195}
  WeightLimit = 200
  ValueLimit = 200
  PriceLimit = 205
  MaxPatches = 2
  Addresses = {"address"}
  MaxSearches = 2
  Tabs = {"carriers", "clients"}
  MaxPairs = 2
  MaxChanges = 1
  MaxFailures = 1
  TrendDays = 2
  MaxDay = 3
  MaxPerDay = 1
  Pointers <- MCPointers
  Forms = {"contact", "login", "register", "verify"}
  MaxSubmissions = 4
  MaxLosses = 2
INVARIANTS
  PagesTypeOK
  NumbersArePassedOn
  ShowsLastSearch
  NewestLoadIsShown
  
  TooltipTellsItsDay
  RowsAreMeant
PROPERTIES
  OnlyNewerQuotesReplace
  NewTokenEndsTheWait
  PagesSettle
CHECK_DEADLOCK FALSE
