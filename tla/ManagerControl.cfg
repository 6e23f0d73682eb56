SPECIFICATION Spec
CONSTANTS
  Ports = {1, 2}
  Faults = {"query", "unhealthy", "generate", "commit", "setup", "restore",
            "start", "stop", "reload", "apply", "readback", "crash"}
  MaxFaults = 2
INVARIANTS
  OkAnswerHolds
  SingleFailureAgrees
  SingleFailureProtects
