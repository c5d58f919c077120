SPECIFICATION Spec
CONSTANTS
  Requests <- MCRequests
  Messages <- MCMessages
  Entries = {"addr", "junk"}
  ScanConcurrency = 2
  MaxScanPorts = 3
  MaxAnswers = 2
INVARIANTS
  ScanCoversAsked
  AnswersAsked
  OperatorChoiceKept
PROPERTIES
  JobEnds
