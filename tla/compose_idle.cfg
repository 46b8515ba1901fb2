\* The worker of docker-compose.yml, which reads the queue "default".
SPECIFICATION FairSpec
CONSTANTS
  Jobs = {j1}
  Slots = {w1, w2}
  WorkerQueues = {"default"}
  MaxRetries = 2
  MaxCrashes = 0
  MaxRepeats = 0
PROPERTIES
  JobsAreTakenUp
CHECK_DEADLOCK FALSE
