CONSTANTS
  WxMessages = {1, 2}  WxFrom <- MCWxFrom  MaxWxEpoch = 1  MaxWxFaults = 3
SPECIFICATION WxSpec
INVARIANT ReplyReachesItsSender
CHECK_DEADLOCK FALSE
