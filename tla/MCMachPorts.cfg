CONSTANTS
    Tasks = {d, a}
    Daemon = d
    NoTask = NoTask
    Ports = {p1, p2, p3}
    NoPort = NoPort
    Size = 4
    MaxGen = 2
    QLimit = 1
SPECIFICATION Spec
SYMMETRY Symmetry
INVARIANTS TypeOK RefsExact OneReceiver  StaleNamesDie
