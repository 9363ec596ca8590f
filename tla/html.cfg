SPECIFICATION Spec
CONSTANTS
  Width = 8
  Inputs <- MCInputs
INVARIANTS
  StreamComplete
  OutputIsPrefix
  PagesCover
  EmailRecovered
