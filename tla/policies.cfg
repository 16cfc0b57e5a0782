CONSTANTS
  q1 = q1
  q2 = q2
  Null = Null
  Environment = {"prd"}
  Mode = {"disabled", "open_pr"}
  Request = {q1, q2}
  MaxSaves = 3
SPECIFICATION Spec
SYMMETRY Alike
INVARIANTS EnabledScheduled AnswersAsMap
PROPERTIES OverruledOnlyInWindow SavesAsMap
CHECK_DEADLOCK FALSE
