SPECIFICATION AgentSpec
CONSTANTS
  Streams = {h1}
  Background = {}
  read = read
  low = low
  high = high
  Tools <- MCTools
  Risk <- MCRisk
  AllowTools = {}
  MaxSteps = 2
  NoRun = NoRun
INVARIANTS ConfirmedAsShown
CHECK_DEADLOCK FALSE
