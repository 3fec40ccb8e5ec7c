CONSTANTS
  Codes <- ShiftsEsc
  OtherTypes <- AbsEvents
  NumRegistrations = 3
  Registrations <- MCRegistrations
  NoEntry = NoEntry
  MaxEvents = 4
  AppOps <- NotifyClientOps
  NotifyOps <- FunctionOps
SPECIFICATION Spec
INVARIANTS CursorRegistered RegistrationsDistinct NoStuckModifier
