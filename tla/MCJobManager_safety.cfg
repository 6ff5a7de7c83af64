SPECIFICATION Spec
CONSTANTS
  task = task
  sandbox = sandbox
  NoJob = NoJob
  Jobs <- MCJobs
  McpJobs <- MCMcpJobs
  InstallJobs <- MCInstalls
  SandboxJobs <- MCMcpJobs
  Callers = {c1}
  MaxConcurrentJobs = 1
  MaxPolls = 1
INVARIANTS
  TypeOK
  SlotsAccounted
  AnnouncedOutcomeIsRecorded
  NoServerOutlivesItsJob
  OutcomeExplained
  RegistryConsistent
PROPERTIES
  OutcomeIsFinal
  ImplementsLifecycle
