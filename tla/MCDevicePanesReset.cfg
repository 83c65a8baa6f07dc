SPECIFICATION Spec
CONSTANTS
  N = 3
  Devices = {1, 2, 3}
  Slots <- MCSlots
  InteractiveElemMax = 2
  EventsPerFrame = 2
  Buffers = {b1, b2, b3, b4}
  NoDevice = NoDevice
  NoBuffer = NoBuffer
  Absent = Absent
PROPERTIES
  ResetOnlySelected
