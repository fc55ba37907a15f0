SPECIFICATION FairSpec
CONSTANTS
  W = 15
  USART_REC_LEN = 13
  NO_LEN = 14
  SERIAL_RECEIVE_TIMEOUT = 3
  Counts <- MCCounts
  AnswerLens = {1, 2}
  Turnaround = TRUE
INVARIANTS TypeOK NeverStuck SendsWithinAnswers
PROPERTIES PortFreed PortFreedNearer ImplementsAnswerPort
