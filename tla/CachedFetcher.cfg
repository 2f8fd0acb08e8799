SPECIFICATION Spec
CONSTANTS
  c1 = c1
  c2 = c2
  c3 = c3
  head = head
  block = block
  older = older
  Callers = {c1, c2, c3}
  Keys = {head, block, older}
  Memoized = {block, older}
  MaxSize = 1
  Cancellable = {c1}
  MaxFetches = 3
INVARIANTS TypeOK OneFetch NoneLeftBehind AnswerFits
SYMMETRY CallerSymmetry
CHECK_DEADLOCK FALSE
