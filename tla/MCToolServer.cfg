CONSTANTS
  Requests = {r1, r2, r3, r4}
  MaxConcurrent = 2
  MaxHops = 1
SPECIFICATION HostSpec
INVARIANTS WellTyped SlotsHeld LimitButForEarly SpeechIsWhole LimitsKept
PROPERTIES NoOvertaking EveryRequestAnswered SlotsReturned
CHECK_DEADLOCK FALSE
