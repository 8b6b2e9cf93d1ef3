SPECIFICATION ProcessSpec
CONSTANTS
  Pids = {1, 2, 3}
  Terminals = {tty}
  Prompt = TRUE
PROPERTIES
  StartedIsRunning
