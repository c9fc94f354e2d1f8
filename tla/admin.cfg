SPECIFICATION Spec
CONSTANTS
    LastPacket = 4
    Me = 1
    Neighbours = {2}
    RxRoom = 2
    MaxChatter = 1
INVARIANT Paced Blame AddressedHere
CHECK_DEADLOCK FALSE
