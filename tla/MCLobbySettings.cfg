CONSTANTS
  Dropdowns = {"mode", "deck"}
  Rows <- MCRows
  Roles = {"Host", "Regular"}
SPECIFICATION SettingsSpec
INVARIANTS
  PanelConsistent
PROPERTIES
  ChoiceFromOpenList
