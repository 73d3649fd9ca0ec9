CONSTANT MaxSets = 6
SPECIFICATION Spec
INVARIANTS SlotsDisjoint ExchangeInv
PROPERTIES GotIsNewer ImplementsMailbox
CHECK_DEADLOCK FALSE
