SPECIFICATION ObjectSpec
CONSTANT BYTE = 5
CONSTANT ByteAt <- McByteAt
CONSTANT Quotes <- McQuotes
INVARIANT CursorStaysInside
INVARIANT AcceptsTheFormat
INVARIANT QuoteAnswersAsItStands
INVARIANT PartsAreWhereTheyBelong
CHECK_DEADLOCK FALSE
