SPECIFICATION Spec
CONSTANTS
    Archives = {z1, z2, z3}
    Callers = {c1, c2}
    Insts = {i1, i2, i3}
    Handles = {h1}
    MaxOpen = 2
    None = None
INVARIANTS UsedStaysOpen OneInstance
PROPERTIES ImplementsPool IdleIsClosed
