\* SocketTimeOut = 0: the default of 1 tick is less than Slack, 1 second would not be
SPECIFICATION Spec
CONSTANTS
  Configured = 0
  Second = 3
  DefaultTimeOut = 1
  Slack = 2
  Wrap = 16
  MaxDelay = 0
  Horizon = 14
INVARIANT ZeroIsDefault
CHECK_DEADLOCK FALSE
