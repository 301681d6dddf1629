CONSTANTS
  old = old  new = new  twice = twice  reserved = reserved  a = a  b = b  c = c  d = d
  Packages <- MCPackages
  Fits = {old}
  Opcodes = {1, 2}
  Mirror <- MCMirror
  Nobody = Nobody
  MaxLaunches = 2
  MaxFlits = 2
  Cores <- MCCores
  Groups <- MCGroups
SPECIFICATION Spec
INVARIANTS LoadedBeforeLaunch OneImage WavesTogether
CHECK_DEADLOCK FALSE
