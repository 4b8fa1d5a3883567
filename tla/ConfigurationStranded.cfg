SPECIFICATION ConfigurationSpec
CONSTANTS
  d1 = d1  d2 = d2  a1 = a1  a2 = a2  a3 = a3
  Device = {d1}
  Identity = {a1, a2}
  DeviceOf <- MCDeviceOf
  Item = {i1}
  Kind = {k1, k2}
  Currency = {c1, c2}
  Absent = Absent
  MaxEpoch = 2
  MaxGrants = 3
  MaxBarriers = 2
  MaxSequence = 2
SYMMETRY Symmetry
INVARIANT LateOperationsAccepted
CHECK_DEADLOCK FALSE
