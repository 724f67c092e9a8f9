CONSTANTS
  MaxId = 3
  Sigs = {17}
  Handled = {17}
  Blockable = {17}
SPECIFICATION Spec
INVARIANT ZombieIsKnown
