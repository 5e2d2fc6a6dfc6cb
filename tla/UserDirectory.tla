--------------------------- MODULE UserDirectory ---------------------------
(***************************************************************************)
(* What the user manager promises to the packet handlers: for every        *)
(* session the ID of the user logged in on it, or none.  An ID is entered  *)
(* by one login and stays until the session's user is removed; nothing     *)
(* another session does changes it.                                        *)
(***************************************************************************)
EXTENDS Integers

CONSTANTS PoolSize, IDs

VARIABLE directory

Session == 0 .. PoolSize - 1
NoID == ""

Init == directory = [s \in Session |-> NoID]

Login(s) ==
    /\ directory[s] = NoID
    /\ \E id \in IDs : directory' = [directory EXCEPT ![s] = id]

Logout(s) ==
    /\ directory[s] # NoID
    /\ directory' = [directory EXCEPT ![s] = NoID]

Next == \E s \in Session : Login(s) \/ Logout(s)
Spec == Init /\ [][Next]_directory
=============================================================================
