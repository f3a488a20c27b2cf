CONSTANTS
  Modulus = 4
  Prescale = {1, 3}
  MaxSlice = 5
  MaxFired = 3
  MaxElapsed = 26
SPECIFICATION FairSpec
INVARIANTS
  DelayIsExact
  EventsAreExact
PROPERTIES
  DelayFires
