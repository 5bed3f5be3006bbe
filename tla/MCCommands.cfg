\* Two commands for two views: one may be ended while another starts.
CONSTANTS
  Cmds = {c1, c2}
  NoCmd = none
  Find = find
  Output = output
  MaxLines = 1
  MaxJobs = 2
SPECIFICATION FairSpec
INVARIANTS OutputBeforeExit CountsOwnLines
PROPERTIES EndReported
CHECK_DEADLOCK FALSE
