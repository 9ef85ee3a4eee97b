\* Every record sequence of one call, with the boundary of the pruned file at
\* every place in it.
SPECIFICATION Spec
CONSTANT None = None
INVARIANT PrunedCallVerifies
CHECK_DEADLOCK FALSE
