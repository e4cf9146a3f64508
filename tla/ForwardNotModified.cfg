SPECIFICATION Spec
CONSTANTS
    Requests = {q1, q2}
    Handlers = {h1}
SYMMETRY Symmetry
INVARIANT NotModifiedPassed
