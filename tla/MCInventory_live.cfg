CONSTANTS
  r1 = r1
  r2 = r2
  r3 = r3
  widget = widget
  gadget = gadget
  lamp = lamp
  unlisted = unlisted
  None = None
  InitialStock <- MCInitialStock
  Shelf = 2
  Requests = {r1, r2}
  Products = {widget}
  Catalogue = {widget}
  Quantities = {1}
  Strategies <- MCEveryStrategy
  MaxAttempts = 2
  HoldersOutliveTTL = FALSE
  Faults = TRUE
SPECIFICATION FairSpec
INVARIANT OneHolder
PROPERTY EveryCallAnswered
CHECK_DEADLOCK FALSE
