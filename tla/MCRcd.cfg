SPECIFICATION Spec
CONSTANTS
  scan = scan
  run = run
  list = list
  upload = upload
  delete = delete
  Commands <- MCCommands
  Calls <- MCCalls
  CallerOf <- MCCallerOf
  Polled <- MCPolled
  Ports = {9001}
  None = None
INVARIANT TypeOK
PROPERTIES
  KeepsContract
  EveryCallAnswered
CHECK_DEADLOCK FALSE
