SPECIFICATION GeneratorSpec
CONSTANTS
  NotSent = NotSent
  Picks = 5
  Samples = 192
INVARIANTS EventsAreReported QuietBeforeEvents
CHECK_DEADLOCK FALSE
