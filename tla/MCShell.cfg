CONSTANTS
  ROWS = 3
  COLS = 2
  Boot <- MCBoot
  LEN = 4
  Char = {"h", "c", "tab", "esc"}
  Prompt <- MCPrompt
  Replies <- MCReplies
  Ls <- MCLs
  Listings <- MCListings
  Exit <- MCExit
  Clear <- MCClear
  WIDTH = 5
  TABS = 3
  MaxTyped = 5
SPECIFICATION ShellSpec
INVARIANTS
  RunsWhatWasTyped
  TerminalShowsPlainLine
  ScreenShowsWire
