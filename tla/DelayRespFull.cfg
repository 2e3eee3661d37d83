CONSTANTS
  MaxInFlight = 2
  MaxBeatsPerBurst = 1
  Delay = 2
  Wrap = 4
  MaxReqs = 6
  Outstanding = 3
  Readies = {TRUE, FALSE}
SPECIFICATION Spec
INVARIANT NoOverflow
