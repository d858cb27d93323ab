\* A new and an older host, two configurations: one failure and one act of the operator, in any order
SPECIFICATION Spec
CONSTANTS
  Passwords = {p, q}
  Configs <- Both
  Hosts = {"fresh", "older"}
  Additions <- Rules
  Dependants <- Uses
  Faults = 1
  Edits = 1
INVARIANTS TypeOK WayBack PromisesHold
PROPERTIES NoRuleOutlivesAccount SshdUnused
