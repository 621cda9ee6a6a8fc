\* The second party rejects before the first one has signed.
SPECIFICATION Spec
CONSTANTS
  MaxOrder = 2
  MaxLate = 1
CHECK_DEADLOCK FALSE
PROPERTY RejectedIsFinal
