\* Two overlapping transitions: is CLOSED terminal?
SPECIFICATION Spec
CONSTANTS
  Items = {i1}
  Reqs = {r1, r2}
  Null = Null
  Times <- MCTimes
PROPERTY ClosedIsTerminal
