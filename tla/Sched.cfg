CONSTANTS
  MaxId = 3
  Sigs = {2, 17}
  Handled = {17}
  Blockable = {2, 17}
SPECIFICATION Spec
INVARIANTS TypeOK RunningIsCurrent ResumedHasFrame
PROPERTY ReadyStaysQueued
