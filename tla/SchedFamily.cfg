CONSTANTS
  MaxId = 4
  Sigs = {17, 19}
  Handled = {}
  Blockable = {}
SPECIFICATION Spec
INVARIANTS RunqDistinct ResumedHasFrame
