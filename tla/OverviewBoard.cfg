SPECIFICATION FairSpec
CONSTANTS
    Readers = {r1, r2}
    m1 = m1
    m2 = m2
    Models = {m1, m2}
    Probes = {p1}
    ModelEdits = {}
    Settles = {}
    EndpointEdits = {e1}
    ModelOf <- ModelOfWrite
    MaxHours = 1
    MaxFailures = 1
    None = None
INVARIANTS
    TypeOK
PROPERTIES
    ReadsSeeEarlierWrites
    RequestsAnswered
