\* A sender stopped before the engine, and one that goes on while the engine
\* is stopped and restarted.
SPECIFICATION FairEngineSpec
CONSTANTS
  Senders = {s1, s2}
  Fds = {f1, f2}
  Invalid = Invalid
  Quiesced = {s1}
INVARIANTS
  FlagsAgree
  WorkerHasSocket
  AllOrNothing
  SendsOnOwnSocket
PROPERTIES
  CallsReturn
