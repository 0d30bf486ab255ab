SPECIFICATION MboxFairSpec
CONSTANTS
  Producers = {p1, p2, p3}
  MaxMsgs = 1
  Addrs = {0, 1, 2, 3}
  First = 0
  NoAddr = NoAddr
  NoMsg = NoMsg
  Recycle = "unreferenced"
CHECK_DEADLOCK FALSE
INVARIANTS NoMessageLost
PROPERTIES ImplementsFifo EveryMessageArrives
