\* Three settings, up to four touches of each in a visit.
SPECIFICATION Spec
CONSTANTS
  Settings <- MCSettings
  MaxTouches = 4
INVARIANT
  PageShowsSettings
