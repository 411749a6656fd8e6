------------------------------ MODULE MCUsers ------------------------------
(***************************************************************************)
(* Instances of module Users for TLC: two users to begin with, and an array *)
(* that has to grow when the third one is created.                         *)
(***************************************************************************)
EXTENDS Users

CONSTANTS alice, bob, carol, User, Admin

MCInitialUsers == <<[id |-> 1, name |-> alice, role |-> Admin], [id |-> 2, name |-> bob, role |-> User]>>

MCRequests ==
  [op : {"GetUser"}, id : {1, 3, 4}]
  \cup [op : {"ListUsers"}, role : {AnyRole, User}, offset : {-1, 1, 2}, limit : {0, 1, 2}]
  \cup [op : {"CreateUser"}, name : {alice, carol, NoName}]

CallersAreAlike == Permutations(Callers)

RaceRequests == [op : {"CreateUser"}, name : {alice, carol}] \cup [op : {"GetUser"}, id : {3}]

=============================================================================
