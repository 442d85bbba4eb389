CONSTANTS
  m1 = m1
  m2 = m2
  m3 = m3
  m4 = m4
  Modules <- FourModules
SYMMETRY Symmetric
SPECIFICATION Spec
INVARIANTS TypeOK ComponentsAreMaximal OpenNodesOnStack VerdictRight
