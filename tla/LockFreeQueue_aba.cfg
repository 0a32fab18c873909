SPECIFICATION Spec
CONSTANTS
    Node = {n1, n2, n3}
    Null = Null
    Pusher = {p1}
    Popper = {c1, c2}
    MaxItems = 4
INVARIANTS PeekStillValid
CHECK_DEADLOCK FALSE
