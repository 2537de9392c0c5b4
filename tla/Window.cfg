\* A user who waits for what was started and changes the settings between traces.
SPECIFICATION GUISpec
CONSTANTS
  MaxAddresses = 2
  MaxLookups = 2
  MaxIPs = 2
  MaxHops = 3
  StartHops = 1
  HopChoices = {1, 3}
  AutoChoices = {TRUE, FALSE}
  MaxTraces = 3
  Careless = {}
  Cities = {here, there}
  Nowhere = nowhere
  PathIsCopy = TRUE
  NoTip = noTip
INVARIANTS
  GUITypeOK
  NoNullItem
  AtRestEnabled
  ShowsLatest
  RowsAndPlacesAgree
  LineOfTrace
  PlacesDrawn
PROPERTIES
  TraceUndisturbed
