\* Four events, a file with room for three, batches of two: an event can be refused at
\* the cap, appended under a running pass, and torn twice in a row.
SPECIFICATION Spec
CONSTANTS
  MaxEvents = 4
  HardCap = 3
  BatchMax = 2
  MaxFaults = 2
  MaxRestarts = 1
INVARIANTS TypeOK InOrder FaultCostsTwo
PROPERTIES AtLeastOnce Drains
CHECK_DEADLOCK FALSE
