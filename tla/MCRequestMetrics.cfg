SPECIFICATION FairSpec
CONSTANTS
    Requests = {r1}
    Inbound <- MCKinds
    Responses <- MCAnswers
INVARIANTS
    StreamsEndOnce
    RequestsRecordedOnce
    RoundTripTruthful
    AnswerBytesLabelled
PROPERTIES
    StreamsCounted
    StreamsDrain
CHECK_DEADLOCK FALSE
