\* The user resolves a host and presses the button, as the window invites to.
SPECIFICATION GUISpec
CONSTANTS
  MaxAddresses = 2
  MaxLookups = 1
  MaxIPs = 2
  MaxHops = 2
  StartHops = 1
  HopChoices = {}
  AutoChoices = {FALSE}
  MaxTraces = 1
  Careless = {"unclicked"}
  Cities = {here}
  Nowhere = nowhere
  PathIsCopy = TRUE
  NoTip = noTip
INVARIANTS
  StartHasAddress
\* A program that used an invalid pointer stops.
CHECK_DEADLOCK FALSE
