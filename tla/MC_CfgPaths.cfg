\* Every graph of the family and every call the validator makes on it.
INIT Init
NEXT Next
INVARIANT EnumerationMatchesReference
INVARIANT FinitenessTestExact
\* The enumeration is a single call: after it the model has nothing to do.
CHECK_DEADLOCK FALSE
