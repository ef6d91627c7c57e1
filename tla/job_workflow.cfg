SPECIFICATION Spec
CONSTANTS
    Technicians = {t1, t2}
    NoTechnician = NoTechnician
    Users = {u1, u2}
    Customers = {c1, c2}
CHECK_DEADLOCK FALSE
SYMMETRY Symmetry
INVARIANTS
    ProgressBelongsToAssignee
PROPERTIES
    AssignmentIsInformed
    ImplementsRow
