SPECIFICATION Spec
CONSTANTS
  Exchanges = {x1, x2}
  Queues = {q1, q2}
  Types = {"TOPIC"}
  Keys <- TwoKeys
  None = None
  MayFail = {"insert exchange", "insert queue"}
SYMMETRY Names
INVARIANTS TypeOK BindingsResolve OnlyAskedBindings OnlyFedQueuesHold
PROPERTIES RestartKeepsTheDurable ImplementsHost
