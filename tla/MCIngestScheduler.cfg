\* Workspaces that compete for the slots of the scheduler.
CONSTANTS
  w1 = w1
  w2 = w2
  w3 = w3
  Workspace <- Workspaces
  Cap = 2
  MaxOutages = 2
SPECIFICATION SchedulerSpec
PROPERTY DueGetsACycle
