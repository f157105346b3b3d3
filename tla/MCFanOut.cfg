\* Every form of the collector, four blocks, a buffer slot for each.
CONSTANTS
  Worker = {w1, w2, w3, w4}
  Cap = 4
  Programs <- AnyForm
  Zero = Zero
  None = None
  NoWorker = NoWorker
  NoScope = NoScope
SPECIFICATION FairSpec
INVARIANTS
  TypeOK
  NeverStuckOrCrashed
  CollectsWhatWasSent
PROPERTY FanOutEnds
