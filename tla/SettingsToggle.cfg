\* A comment says that a touch writes the opposite of the toggle.
SPECIFICATION Spec
CONSTANTS
  Settings <- MCSettings
  MaxTouches = 4
PROPERTY
  TouchWritesOpposite
