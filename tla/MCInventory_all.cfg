CONSTANTS
  r1 = r1
  r2 = r2
  r3 = r3
  widget = widget
  gadget = gadget
  lamp = lamp
  unlisted = unlisted
  None = None
  InitialStock <- MCInitialStock
  Strategies <- MCStrategies
  Shelf = 2
  Requests = {r1, r2, r3}
  Products = {widget, gadget, lamp, unlisted}
  Catalogue = {widget, gadget, lamp}
  Quantities = {1, 2}
  MaxAttempts = 2
  HoldersOutliveTTL = FALSE
  Faults = TRUE
SPECIFICATION Spec
SYMMETRY MCSymmetry
INVARIANTS BookedAsTold TurnedAwayForCause
PROPERTY ImplementsStock
CHECK_DEADLOCK FALSE
