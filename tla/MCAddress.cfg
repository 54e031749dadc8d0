SPECIFICATION Spec
CONSTANTS
  Names <- Letters
  Numbers <- Digits
  ValueOf <- Values
  Texts <- AllTexts
CHECK_DEADLOCK FALSE
INVARIANTS TypeOK RoundTrip Usable
