CONSTANTS
  RxCount = 3
  TxCount = 3
  Frames = {f1, f2}
  NoFrame = NoFrame
  MaxSends = 1
SPECIFICATION Spec
INVARIANTS TypeOK RxOwnership TxOwnership SuccessMeansSent
PROPERTIES ImplementsQueues RingsDrain
