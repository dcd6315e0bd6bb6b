SPECIFICATION NotifierSpec
CONSTANTS
  Keys = {"fill", "alarm"}
  MaxQueue = 2
  Window = 2
  MaxSends = 4
  MaxTime = 5
CHECK_DEADLOCK FALSE
INVARIANT NotifierIsSound
PROPERTY RepeatsAreTold
PROPERTY CloseEnds
