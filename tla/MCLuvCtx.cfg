CONSTANTS
  FsReqs = {f1}
  Scandirs = {}
  Works = {w1, w2}
  Ctxs = {c1}
  Rash = {}
  Shared = {c1}
SPECIFICATION Spec
INVARIANT CtxRefUp
