SPECIFICATION Spec
INVARIANT ParsesBack
CHECK_DEADLOCK FALSE
