SPECIFICATION Spec
CONSTANTS
    Tasks = {1, 2}
    Programs <- MCPrograms
    Funded = {4}
    MinDeltas = {0, 2}
    MaxFaults = 1
INVARIANTS
    AllocatedOnce
    VouchersSound
    SettledRedeemed
PROPERTIES
    PaymentsEnd
CHECK_DEADLOCK FALSE
