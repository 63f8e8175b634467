SPECIFICATION Spec
CONSTANTS
  W <- MCW
  Byte <- MCByte
  Others <- MCOthers
  Accesses <- MCAccesses
PROPERTY ImplementsMachineState
