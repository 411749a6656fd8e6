SPECIFICATION Spec
CONSTANTS
  alice = alice
  bob = bob
  carol = carol
  User = User
  Admin = Admin
  Callers = {c1, c2}
  Requests <- RaceRequests
  InitialUsers <- MCInitialUsers
  AnyRole = AnyRole
  NoName = NoName
  Garbage = Garbage
  None = None
  Rooms = {0, 1}
  MaxUsers = 4
INVARIANT IsGuarded
