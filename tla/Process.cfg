\* A process from its start to its end, with three goroutines that share two
\* connections.
CONSTANTS
    Workers = {w1, w2, w3}
    DBMaxConnections = 2
SPECIFICATION ProcessSpec
INVARIANTS TypeOK CleanedUp ReadyForWork ConnectionsReturned AllOrNothing
PROPERTIES GetsToWork RequestsEnd
