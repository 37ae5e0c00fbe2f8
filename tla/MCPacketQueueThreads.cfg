\* Three consumers on a queue of two slots, two packets and an oversized one.
CONSTANTS
    Capacity = 2
    Packet = {p1, p2, oversized}
    Acceptable = {p1, p2}
    BlankPacket = blank
    Consumer = {c1, c2, c3}
    MaxDropped = 2
SPECIFICATION FairSpec
INVARIANT NoLostWakeup
PROPERTIES
    ImplementsFifo
    CloseReleases
