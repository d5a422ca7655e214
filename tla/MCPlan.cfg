SPECIFICATION Spec
CONSTANTS
  Absent = Absent
  Contents <- MCContents
  Stamps = {1, 2, 3, 4, 5, 6}
  k1 = k1
  k2 = k2
  Keys = {k1, k2}
  Bundles = {q1}
  Needles <- MCNeedles
  Ticks <- MCTicks
SYMMETRY TwoKeys
CHECK_DEADLOCK FALSE
INVARIANTS
  WhatIsSealedOpens
  StampIsEnough
  NoTwoShare
  StaysInside
  EveryPartHasAnAddress
