CONSTANTS
  Frames <- MCFrames
  Texts <- MCTexts
  MaxFrames = 3
SPECIFICATION Spec
INVARIANTS
  AnswersFaithful
  RequestSettled
  ValidInputSurvives
  ParamsDecoded
PROPERTIES
  AllAnswered
CHECK_DEADLOCK FALSE
