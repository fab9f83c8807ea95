\* One run of the seeder and one login.
CONSTANTS
  admin = admin  other = other  own = own  default = default  seeded = seeded
  reg1 = reg1  new1 = new1  inv1 = inv1  log1 = log1  pat1 = pat1  seed1 = seed1  seed2 = seed2
  Emails = {admin}
  AdminEmail = admin
  Passwords = {own}
  DefaultPassword = default
  AdminPassword = seeded
  Registrations = {}
  Creations = {}
  Invitations = {}
  Logins = {log1}
  Patches = {}
  Seeders = {seed1}
  Nobody = Nobody
SPECIFICATION Spec
INVARIANTS
  SeededAdminLogsIn
