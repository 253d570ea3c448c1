SPECIFICATION Spec
CONSTANT Children = {c1}
INVARIANT ClosedOnce
