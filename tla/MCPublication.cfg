CONSTANTS
  Readers = {r1, r2}
  Variants = {"board", "all"}
  Main = "board"
  Clients = {c1, c2}
  MaxClients = 1
  MaxWrites = 2
  MaxGets = 3
SPECIFICATION Spec
SYMMETRY Symmetry
CHECK_DEADLOCK FALSE
INVARIANTS TypeOK ReadYourWrites RevisionsOrdered StreamCurrent
