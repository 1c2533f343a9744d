CONSTANTS
  Table = {users, posts, comments, tags}
  ForeignKey = {f1, f2, f3, f4}
SPECIFICATION Spec
SYMMETRY Symmetry
INVARIANTS TypeOK ReferencedFirst EveryTableOnce OnlyCyclesAreLast
\* The sort ends: it is one call.
CHECK_DEADLOCK FALSE
