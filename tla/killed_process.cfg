\* A process of the worker is killed while its task runs.
SPECIFICATION Spec
CONSTANTS
  Jobs = {j1}
  Slots = {w1, w2}
  WorkerQueues = {"celery"}
  MaxRetries = 2
  MaxCrashes = 0
  MaxRepeats = 0
PROPERTIES
  CrashedTaskIsRequeued
CHECK_DEADLOCK FALSE
