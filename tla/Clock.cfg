SPECIFICATION Spec
CONSTANTS
  MaxTake = 2
  Slot = 3
  Reports <- FiveSeconds
INVARIANTS
  NoSecondIsMissed
PROPERTIES
  AnnouncementsAreApart
