\* A cached narration after the lesson was regenerated.
CONSTANTS
  Runs = {n1, n2}
  NoRun = NoRun
  Controls = {short}
  Requests = {q1}
  Documents = {slides}
SPECIFICATION SerialSpec
SYMMETRY Symmetry
INVARIANTS
  PodcastMatchesText
