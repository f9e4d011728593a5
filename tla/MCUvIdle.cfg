CONSTANTS
  Handles = {h1, h2, h3}
  ListHead = ListHead
  Derail = TRUE
SPECIFICATION Spec
PROPERTY StoppedNotCalled
