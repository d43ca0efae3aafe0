SPECIFICATION Spec
CONSTANTS
    Vpn = {v1, v2}
    Proc = {p1, p2}
    Thread = {t1, t2}
    Request = {r1}
    Faults <- NoFaults
    None = None
SYMMETRY Symmetry
INVARIANTS
    OneTunnel
PROPERTIES
    KeepsPromise
