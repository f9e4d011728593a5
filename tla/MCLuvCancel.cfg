CONSTANTS
  FsReqs = {f1, s1}
  Scandirs = {s1}
  Works = {w1}
  Ctxs = {c1}
  Rash = {f1, s1}
  Shared = {}
SPECIFICATION Spec
INVARIANT KeptUntilCallback
