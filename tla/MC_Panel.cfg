SPECIFICATION Spec
CONSTANTS
  Configs <- MCConfigs
  Links = {page, article, popup}
  BlankLinks = {popup}
  Moves <- MCMoves
  NoLink = NoLink
  MaxTimers = 3
  FirstOptionOffered = FALSE
INVARIANTS SendsWhatIsMeant TwinStandsIn HiddenIsReset ResetSparesSettledPanel
  LastLinkIsNext
PROPERTY LastLinkWins
