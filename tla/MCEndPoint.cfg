SPECIFICATION EndPointSpec
CONSTANTS
  None = None
  Second = 2
  Minute = 4
  MaxMinute = 10
  Horizon = 9
  AtFirst = 3
  Readable <- ReadableTexts
  PemTexts <- ThreeTexts
  Starts <- StartsConsidered
  Dates <- DatesConsidered
  Formats <- FormatsConsidered
  Elsewheres <- AnswersConsidered
  Hosts = {"schedule", "one key", "anyone"}
INVARIANTS EndPointTypeOK FaultIsASharedSecond SpanStaysTrue NothingBeforeItsTime PartIsRefused RereadsAsRead
PROPERTIES SentReadsAsMeant
