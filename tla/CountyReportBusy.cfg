\* A job that dies before it has a connector: is the service still busy?
SPECIFICATION Spec
CONSTANTS
  Owner = {o1, o2}
  Month = {m1, m2}
  NoJob = NoJob
  Retained = 2
  MaxJobs = 3
INVARIANT BusyMeansReading
CHECK_DEADLOCK FALSE
