SPECIFICATION Spec
CONSTANTS
    c1 = c1
    c2 = c2
    a1 = a1
    NoAddr = NoAddr
    Packets = {p1}
    Conns = {c1, c2}
    Reqs <- MCReqs
    Outcomes <- MCOutcomes
    MaxInflight = 1
    Settings <- MCSettings
    Callers = {s1}
INVARIANTS ConnTableExact StreamIntact
PROPERTIES Drains
