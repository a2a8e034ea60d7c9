SPECIFICATION Spec
CONSTANTS
    A = A
    B = B
    dir = dir
    x = x
    y = y
    Hosts = {A, B}
    Homes <- MCHomes
    Inside <- MCInside
    Window = 2
    Slow = 0
    Copies = 2
    Failures = 1
INVARIANTS TypeOK EchoNeedsFailure ResendNeedsFailure
PROPERTY Rests
