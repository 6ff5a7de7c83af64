SPECIFICATION FairSpec
CONSTANTS
  task = task
  sandbox = sandbox
  NoJob = NoJob
  Jobs <- MCMcpJobs
  McpJobs <- MCMcpJobs
  InstallJobs <- NoInstalls
  SandboxJobs <- MCMcpJobs
  Callers = {}
  MaxConcurrentJobs = 1
  MaxPolls = 1
PROPERTIES
  EveryJobEnds
