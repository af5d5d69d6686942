CONSTANTS
    Validators = {v1, v2, v3}
    History <- ForkHistory
    Window = 256
    Issued = {0, 3}
SPECIFICATION Spec
INVARIANTS CheckInvariants SupportExact PreferredExact
SYMMETRY ValidatorSymmetry
