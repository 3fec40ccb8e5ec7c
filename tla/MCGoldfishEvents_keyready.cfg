CONSTANTS
  Codes <- EscA
  OtherTypes <- NoCodes
  NumRegistrations = 1
  Registrations <- MCRegistrations
  NoEntry = NoEntry
  MaxEvents = 2
  AppOps <- ResetOps
  NotifyOps <- NoOps
SPECIFICATION Spec
INVARIANT KeyReadyMeansValid
