CONSTANTS
  Divs = {0, 1}
  Keys = {"C"}
  Cols = 2
  Counts = {0, 2}
  Histories = {1, 5}
  AgentType = 1
  Asked <- MCAsked
  StoredSettings <- MCStored
  EditedBytes <- MCEdited
  MaxCommands = 2
  MaxEdits = 1
  MaxResets = 2
  MaxKeys = 1
  MaxExpiries = 2
SPECIFICATION Spec
CHECK_DEADLOCK FALSE
INVARIANTS TypeOK  TimerAsAsked BoardsAgree SettingsKept
