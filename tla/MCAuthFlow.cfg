CONSTANTS
  demo = demo
  ann = ann
  mail = mail
  pw1 = pw1
  pw2 = pw2
  r1 = r1
  r2 = r2
  Users = {demo, ann}
  Emails = {mail}
  Passwords = {pw1, pw2}
  DemoUser = demo
  DemoEmail = mail
  DemoPassword = pw1
  Callers <- MCCallers
  MaxFailed = 2
  LockFor = 1
  Window = 0
  MaxChanges = 2
  AbsoluteTtl = 1
  IdleTimeout = 2
  Grace = 1
  MaxPerUser = 2
  Retention = 1
  MaxSessions = 2
  MaxTime = 1
SPECIFICATION AuthSpec
SYMMETRY Symmetry
VIEW ViewOfRevocations
INVARIANTS
  ChangeEndsSessions
  GuessesBounded
CHECK_DEADLOCK FALSE
