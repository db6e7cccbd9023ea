SPECIFICATION Spec
CONSTANTS
  usb = usb
  net = net
  NoChannel = NoChannel
  Channels = {usb, net}
  Serial = {usb}
  Fleets <- Pairs
  Modes = {0, 1}
  Speeds = {0, 600}
INVARIANT ScanAsReported
INVARIANT GrabbingOnlyForScan
INVARIANT MotorControlOfThisLidar
INVARIANT ChannelGivenBack
CHECK_DEADLOCK FALSE
