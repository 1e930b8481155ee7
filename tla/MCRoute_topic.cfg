SPECIFICATION Spec
CONSTANTS
  RoutingWords = {"a", "b", ""}
  BindingWords = {"a", "b", "*", "#"}
  MaxWords = 4
INVARIANTS TopicMatchIsMatch
CHECK_DEADLOCK FALSE
