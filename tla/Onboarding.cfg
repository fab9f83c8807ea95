\* A registration, an invitation, a login and a PATCH over two addresses.
CONSTANTS
  admin = admin  other = other  own = own  default = default  seeded = seeded
  reg1 = reg1  new1 = new1  inv1 = inv1  log1 = log1  pat1 = pat1  seed1 = seed1  seed2 = seed2
  Emails = {admin, other}
  AdminEmail = admin
  Passwords = {own}
  DefaultPassword = default
  AdminPassword = seeded
  Registrations = {reg1}
  Creations = {}
  Invitations = {inv1}
  Logins = {log1}
  Patches = {pat1}
  Seeders = {}
  Nobody = Nobody
SPECIFICATION Spec
INVARIANTS
  OneOwner
  OnlyChosenPasswordsOpen
