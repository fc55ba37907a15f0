SPECIFICATION Spec
CONSTANTS
  W = 256
  USART_REC_LEN = 200
  NO_LEN = 250
  SERIAL_RECEIVE_TIMEOUT = 3
  Counts <- FirmwareCounts
  AnswerLens = {1, 8}
  Turnaround = TRUE
INVARIANT TimeoutOffForFullPacket
