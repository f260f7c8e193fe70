SPECIFICATION Spec
CONSTANTS
  Runs = {c1, c2, c3}
  Backups = {p1, p2}
INVARIANTS HeldWhileWriting ActivatedMeansComplete KeyIsSaved StatusIsHonest
PROPERTY KeyOnlyForBareRoot
CHECK_DEADLOCK FALSE
