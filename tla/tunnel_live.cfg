SPECIFICATION FairSpec
CONSTANTS
    Vpn = {v1}
    Proc = {p1, p2}
    Thread = {t1}
    Request = {r1}
    Faults <- AllFaults
    None = None
PROPERTIES
    BusyComesToRest
    Reconciled
