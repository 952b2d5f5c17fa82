CONSTANTS
    Interfaces = {0}
    Alternates = {0, 1}
    Endpoints = {1, 2}
    Isochronous = {2}
    Owner <- MCOwner
    Configurations = {1}
    KernelAddress = 5
    Addresses = {5, 6}
SPECIFICATION ControlSpec
INVARIANTS ControlTypeOK NoStall
PROPERTIES KernelInStep EffectAsNamed
CHECK_DEADLOCK FALSE
