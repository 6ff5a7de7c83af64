SPECIFICATION Spec
CONSTANTS
  task = task
  sandbox = sandbox
  NoJob = NoJob
  Jobs <- MCMcpJobs
  McpJobs <- MCMcpJobs
  InstallJobs <- NoInstalls
  SandboxJobs <- MCMcpJobs
  Callers = {c1}
  MaxConcurrentJobs = 1
  MaxPolls = 2
INVARIANTS
  AnswersAreOutcomes
