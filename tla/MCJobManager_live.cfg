SPECIFICATION TidySpec
CONSTANTS
  task = task
  sandbox = sandbox
  NoJob = NoJob
  Jobs <- MCJobs
  McpJobs <- MCMcpJobs
  InstallJobs <- MCInstalls
  SandboxJobs = {}
  Callers = {}
  MaxConcurrentJobs = 1
  MaxPolls = 1
PROPERTIES
  JobsEndUnlessBlocked
  SlotsReturned
  LeftoverScratchPruned
  SessionlessJobsForgotten
