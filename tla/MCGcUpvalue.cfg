CONSTANTS
  Objs = {"f1", "f2", "uv", "s"}
  Main = "main"
  Kinds <- TwoClosures
  MaxRefs = 1
  SetUpvalue = TRUE
SPECIFICATION Spec
INVARIANT BlackNotToWhite
