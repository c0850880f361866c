\* Two attempts of either role and mode, careful and hasty players, prompt and slow routers.
SPECIFICATION Spec
CONSTANTS
  MaxAttempts = 2
  Ports = {7788}
  Careful = {TRUE, FALSE}
  Prompt = {TRUE, FALSE}
INVARIANTS ThreadsHeld ModeAsAsked  RulesGivenBack
PROPERTIES CancelledStaysOut GuardReopens
CHECK_DEADLOCK FALSE
