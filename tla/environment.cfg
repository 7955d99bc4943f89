CONSTANTS
  Texts = {"a", "b"}
  NoText = "-"
  Modes = {"dockerfile", "compose"}
SPECIFICATION Spec
INVARIANTS TypeOK 
