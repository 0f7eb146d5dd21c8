\* Five numbers and five places for nodes: every shape of a tree of five
\* nodes, and every way in which freed memory is used again.  A tree that
\* is destroyed or wrecked is not used any more: deadlock is not checked.
CONSTANTS
  a1 = a1
  a2 = a2
  a3 = a3
  a4 = a4
  a5 = a5
  Key <- MCKey
  Addr <- MCAddr
  NULL = NULL
SYMMETRY Symmetry
SPECIFICATION Spec
INVARIANT QueriesAgree
PROPERTIES
  ImplementsSet
  NoOtherCallWrecks
CHECK_DEADLOCK FALSE
