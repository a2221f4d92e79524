SPECIFICATION Spec
CONSTANTS
  NServer = 2
  Receivers = 2
  Templates <- MCTemplates
  MaxNumber = 3
  Digits <- MCDigits
  SerialNumber <- MCSerialNumber
  MaxCollects = 2
PROPERTIES
  
  NumberedFresh
CHECK_DEADLOCK FALSE
