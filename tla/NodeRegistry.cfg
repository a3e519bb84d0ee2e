SPECIFICATION Spec
CONSTANTS
    Nodes = {1, 2}
    Ring = {1, 2}
    Dispatches = {d1, d2}
INVARIANTS
    TypeOK
    LoadBounds
    OneOfEachRing
PROPERTIES
    NodesComeBack
