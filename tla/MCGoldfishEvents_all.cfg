CONSTANTS
  Codes <- EscA
  OtherTypes <- NoCodes
  NumRegistrations = 1
  Registrations <- MCRegistrations
  NoEntry = NoEntry
  MaxEvents = 2
  AppOps <- AllOps
  NotifyOps <- FunctionOps
SPECIFICATION Spec
INVARIANTS TypeOK StreamAligned NoLostNotify NoMissedKey
PROPERTIES ReadMailboxSpec NotifyMailboxSpec
