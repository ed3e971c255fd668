SPECIFICATION EnvelopeSpec
CONSTANTS
  Base = 5
  NotText = {4}
  Blanks = {2}
  MaxDomain = 2
  ShortWidth = 2
  LongWidth = 3
  SignatureLength = 1
  Resolution = 2
  MinutesPerHour = 2
  Keys = {0, 1}
  Absent = Absent
  Senders = {"creator", "anyone"}
  Domains <- DomainsConsidered
  Privates = {0, 2}
  Payloads <- PayloadsConsidered
  Clocks <- ClocksConsidered
  Rooms = {0, 11}
  Scribbles = {0, 1, 4}
  FirstUnits = {2}
  MaxFrames = 2
  MaxUnits = 9
INVARIANTS EnvelopeTypeOK Accounted TwoReadsDiffer WritesWhatItReserved JudgedAsCreated
PROPERTIES DecisionIsFinal ChannelSpec EveryFrameArrives
CHECK_DEADLOCK FALSE
