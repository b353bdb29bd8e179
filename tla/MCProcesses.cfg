\* A server and an executor; the server is told to stop while a request is under way.
CONSTANTS
  Processes = {server, executor}
  Executors = {executor}
  Provisioning <- MCProvisioning
  Manner <- MCManner
  MaxStarts = 2
  MaxOutages = 1
SPECIFICATION LifecycleSpec
INVARIANT NotReadyWhileStopping
CHECK_DEADLOCK FALSE
