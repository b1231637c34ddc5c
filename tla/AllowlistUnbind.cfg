SPECIFICATION Spec
CONSTANTS
  Group = {g1}
  Bot = {b1}
  Handler = {h1}
  Admin = {a1}
  NoGroup = NoGroup
INVARIANT UnbindClearsAllowlist
