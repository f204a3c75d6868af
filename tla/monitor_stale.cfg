SPECIFICATION Spec
CONSTANTS
    Fds = {3, 4, 5}
    Socks = {k1, k2, k3}
    MaxEvents = 2
    NULL = NULL
SYMMETRY Symmetry
INVARIANT
    DeliversToOwner
