SPECIFICATION Spec
CONSTANTS
  None = None
  Failed = Failed
  Malformed = Malformed
  Base = 2
  Capacity = 3
  Jobs <- MCJobs
  Answers <- MCAnswers
  Faults = {"error", "crash"}
INVARIANTS
  IpcTypeOK
  FieldsAsSent
  OutcomeIsAnswer
PROPERTIES
  WholeFrames
  ExchangeEnds
