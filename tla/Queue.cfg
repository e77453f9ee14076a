SPECIFICATION Spec
CONSTANTS
  h1 = h1
  h2 = h2
  h3 = h3
  n1 = n1
  n2 = n2
  n3 = n3
  n4 = n4
  Heads <- ThreeHeads
  Nodes <- FourNodes
SYMMETRY Symmetry
INVARIANTS
  RingsLinked
  OthersAlone
