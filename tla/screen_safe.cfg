CONSTANTS
  Term = {0, 1}
  NUM_ROWS = 2
  NUM_COLS = 3
  PromptCols = {1}
  BackgroundScroll = FALSE
  BackgroundExit = FALSE
  KeysMeetOutput = FALSE
  MaxWrites = 6
SPECIFICATION Spec
INVARIANTS ScreenCorrect HiddenAsWritten StopsAtPrompt
