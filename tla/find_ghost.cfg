SPECIFICATION Spec
CONSTANTS
  Texts = {"git", "git st"}
  Several = {"for"}
  MostKeys = 4
  MostHelpers = 3
CHECK_DEADLOCK FALSE
INVARIANTS
  AcceptsWhatIsVisible
