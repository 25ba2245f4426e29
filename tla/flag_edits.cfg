SPECIFICATION Spec
CONSTANTS
  r1 = r1
  r2 = r2
  None = None
  Attributes = {"account"}
  Values <- TheValues
  Samples <- TheSamples
  Segments <- TheSegments
  Total = 3
  MaxDepth = 2
  HandWritten <- TheFlags
  Options <- TheOptions
  Hashes <- TheHashes
INVARIANTS EvaluationNeverFails OperatorsAgree SharesAreWeights HelpersKeepValid TargetMovesOneKey GrowingKeepsTheCohort RolloutTouchesItsRule
