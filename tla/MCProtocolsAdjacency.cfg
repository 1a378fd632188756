SPECIFICATION Spec
CONSTANT Subjects = {"told"}
CHECK_DEADLOCK FALSE
INVARIANT StrictAdjacency
