\* Two keys, one of them the bootstrap key; two administrators' requests and a
\* signed request at a time; three secrets; two faults.
SPECIFICATION Spec
CONSTANTS
    k1 = k1
    k2 = k2
    a1 = a1
    a2 = a2
    c1 = c1
    KeyIds = {k1, k2}
    DevKey = k1
    Dev = TRUE
    Admins = {a1, a2}
    Clients = {c1}
    MaxSecrets = 3
    MaxFaults = 2
SYMMETRY Symmetry
INVARIANTS AdmittedWhileAccepted SecretReaches AuditAgrees
CHECK_DEADLOCK FALSE
