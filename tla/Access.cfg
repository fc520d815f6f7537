SPECIFICATION Spec
CONSTANTS
  Names <- MCNames
  Passwords <- MCPasswords
  NonASCII <- MCNonASCII
  a1 = a1
  Admins = {a1}
  FirstUsers <- MCFirstUsers
  Buffer = 4
  MaxCommands = 2
  Workers = {w1}
  r1 = r1
  r2 = r2
  Reloaders = {r1, r2}
  Lower <- MCLower
  Hosts <- MCHosts
  Versions <- MCVersions
  Absent = Absent
  FirstVersion <- First
  MaxEdits = 2
  MaxReloads = 2
  Requests <- MCRequests
  MaxChanges = 4
SYMMETRY Symmetry
INVARIANTS TypeOK Serial OnlyGranted VerdictOfOneVersion ReloadTakesEffect
CHECK_DEADLOCK FALSE
