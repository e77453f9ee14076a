SPECIFICATION Spec
CONSTANTS
  Nodes = {1, 2, 3, 4, 5, 6, 7, 8}
  KeysOf <- SomeEqual
  Nil = Nil
  Null = Null
INVARIANTS
  TypeOK
  WalkVisitsAll
  SearchExact
  Balanced
  Linked
