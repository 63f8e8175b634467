\* The visit bound stated for enumerate_paths, over the same graphs and calls.
INIT Init
NEXT Next
INVARIANT VisitBoundOfContract
\* The enumeration is a single call: after it the model has nothing to do.
CHECK_DEADLOCK FALSE
