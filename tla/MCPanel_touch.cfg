SPECIFICATION FairSpec
CONSTANTS
  Levels <- MCLevels
  Widgets <- MCWidgets
  Timeouts <- MCTimeouts
  Glitches <- MCGlitches
  MaxSent = 1
INVARIANT TypeOK RowTrue
PROPERTY Deliberate GoesDark
CHECK_DEADLOCK FALSE
