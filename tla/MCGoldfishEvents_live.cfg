CONSTANTS
  Codes <- EscOnly
  OtherTypes <- NoCodes
  NumRegistrations = 1
  Registrations <- MCRegistrations
  NoEntry = NoEntry
  MaxEvents = 2
  AppOps <- AllOps
  NotifyOps <- NoOps
SPECIFICATION FairSpec
PROPERTIES DeviceDrained KeySignalled NotifyServed CallsReturn
