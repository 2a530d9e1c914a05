\* The program's own 19 flips.
CONSTANT LastFrame = 19
SPECIFICATION FairSpec
INVARIANTS TypeOK NoTearing FlipAccounting AllReleased ScanoutAlive
PROPERTIES FramesInOrder Terminates
