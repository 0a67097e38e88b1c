\* Two callers race for one document; calls stop when ids run out.
CHECK_DEADLOCK FALSE
SPECIFICATION Spec
CONSTANTS
  Account = {a1, a2}
  Code = {c4000, cother}
  Hook = {c4000}
  Source = {s1}
  Entry = {e1, e2}
  Caller = {p1, p2}
  Blank = Blank
  None = None
INVARIANTS HookPostsArrive HalfWrittenHasWriter
PROPERTIES PostsOnce
