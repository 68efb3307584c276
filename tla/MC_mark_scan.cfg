\* mark_as_bad on a queue where a child was verified before its parent keeps the child's descendants.
CONSTANTS
    g = g  c1 = c1  c2 = c2  c3 = c3  d = d

SPECIFICATION Spec
PROPERTY ScanMarksDescendants
