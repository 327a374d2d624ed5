SPECIFICATION SupFairSpec
CONSTANTS
  MaxFiles = 3
  MaxRestarts = 2
  Unranged = {3}
  Faults = {"setup", "dies", "error", "hangs", "hangsAtEnd", "resend", "fullPipe"}
INVARIANTS
  AllHandedOver
  DoneMeansDelivered
PROPERTIES
  PrefixLanded
  DeliveryEnds
  HaltEnds
