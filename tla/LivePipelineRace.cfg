CONSTANTS
  MaxWaiting = 2
  MaxFrags = 0
SPECIFICATION Spec
INVARIANT TriggerIsNotLost
CHECK_DEADLOCK FALSE
