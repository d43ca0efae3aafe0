SPECIFICATION Spec
CONSTANTS
    Vpn = {v1}
    Proc = {p1, p2}
    Thread = {t1, t2}
    Request = {r1, r2}
    Faults <- NoFaults
    None = None
SYMMETRY Symmetry
INVARIANTS
    TypeOK
    Ownership
    OneTunnel
    PidFileIsTheHandle
    Handover
    ConnectedIsConfigured
    LogIsOfTheRun
    Provenance
PROPERTIES
    DisconnectStops
    KeepsPromise
