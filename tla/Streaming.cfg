\* The poll loop and one or two requests of the host at a time.
CONSTANTS
  p = p
  q = q
  a = a
  b = b
  Requests = {p, q}
  Pollers = {p}
  Apps = {a, b}
  SettingsApp = b
  NoApp = NoApp
  MaxTokens = 2
  MaxRows = 2
SPECIFICATION Spec
INVARIANTS TypeOK TokenWorks DisconnectIsFinal
PROPERTY Renewed
