\* One task at a time: what is shown belongs together.
CONSTANTS
  Runs = {n1, n2}
  NoRun = NoRun
  Controls = {short, deep}
  Requests = {q1, q2}
  Documents = {slides}
SPECIFICATION SerialSpec
SYMMETRY Symmetry
INVARIANTS
  LessonInv
  ShownUnderItsControls
  DocumentsMatchText
