\* A forgotten password of an invited user, a verification of another address, a profile
\* request with a new address and a password in its body, a deletion.
CONSTANTS
  c1 = c1  c2 = c2  g1 = g1  g2 = g2  v1 = v1
  Emails = {"e1", "e2"}
  Keys <- AllKeys
  Codes = {c1, c2}
  Generators = {g1, g2}
  Verifiers = {v1}
  Changers = {"profile", "delete"}
  KeyOf <- KeyOfName
  Task <- TaskOfName
  Patch <- PatchOfName
  Holds <- HoldsOfName
  MaxAttempts = 1
  Expiry = 1
  Cooldown = 1
  MaxTime = 1
  CleanupScheduled = FALSE
SPECIFICATION InvitedSpec
INVARIANTS
  FlowInvariant
  PasswordAuthorised
  AddresseeOnly
  WastedForAReason
SYMMETRY Symmetry
