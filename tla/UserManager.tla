---------------------------- MODULE UserManager ----------------------------
(***************************************************************************)
(* MDLogicLib::UserManager: the pool of User objects, the deque of free    *)
(* ones and the two dictionaries, from session index and from user ID.     *)
(*                                                                         *)
(* m_UserIDDic is an unordered_map<const char*, User*>: its keys are       *)
(* addresses, compared as addresses.  The address AddUser is given is that *)
(* of szID inside a packet that lies in the receive buffer of the client's *)
(* session, so a key is a session index and the offset of the packet in    *)
(* the buffer.  RemoveUser erases the address of a copy of the string it   *)
(* has just made, which is no key, and so erases nothing.  Of the value of *)
(* an entry the code only asks whether it is there.                        *)
(***************************************************************************)
EXTENDS Integers, Sequences, FiniteSets

CONSTANTS
    PoolSize,       \* session indices (TCPNetWork's pool)
    MaxUserCount,   \* config.MaxClientCount
    Offsets,        \* places of a login packet in a receive buffer
    IDs             \* the user IDs that clients choose

ASSUME UserManagerAssumption ==
    /\ PoolSize \in Nat \ {0} /\ MaxUserCount \in Nat
    /\ "" \notin IDs

VARIABLES
    m_UserObjPool,          \* the User objects, by user index
    m_UserObjPoolIndex,     \* free user indices, oldest first
    m_UserSessionDic,       \* session index -> user index, or None
    m_UserIDDic,            \* the addresses of szID that are keys
    addRet                  \* history: what AddUser answered last, to whom

userVars == <<m_UserObjPool, m_UserObjPoolIndex, m_UserSessionDic, m_UserIDDic, addRet>>

None == -1
Session == 0 .. PoolSize - 1
UserIndex == 0 .. MaxUserCount - 1
Address == Session \X Offsets
Domain == {"NONE", "LOGIN", "LOBBY", "ROOM"}

-----------------------------------------------------------------------------
(* User: construction, Clear and Set.                                      *)

NewUser ==
    [m_SessionIndex |-> None, m_ID |-> "", m_IsConfirm |-> FALSE,
     m_CurDomainState |-> "NONE", m_LobbyIndex |-> None, m_RoomIndex |-> None]

\* Clear writes 0, not -1, into m_SessionIndex.  The fault clears half.
HalfCleared(user) == [user EXCEPT !.m_SessionIndex = 0, !.m_ID = ""]
Cleared(user) == [NewUser EXCEPT !.m_SessionIndex = 0]

SetUser(user, s, id) ==
    [user EXCEPT !.m_IsConfirm = TRUE, !.m_CurDomainState = "LOGIN",
                 !.m_SessionIndex = s, !.m_ID = id]

-----------------------------------------------------------------------------
(* The operations of UserManager.                                          *)

UserManagerInit ==
    /\ m_UserObjPool = [u \in UserIndex |-> NewUser]
    /\ m_UserObjPoolIndex = [k \in 1 .. MaxUserCount |-> k - 1]
    /\ m_UserSessionDic = [s \in Session |-> None]
    /\ m_UserIDDic = {}
    /\ addRet = [session |-> None, id |-> "", error |-> "NONE"]

\* GetUser(sessionIndex): FindUser, then IsConfirm.
HasUser(s) == m_UserSessionDic[s] # None
UserOf(s)  == m_UserSessionDic[s]
GetUserError(s) ==
    IF ~HasUser(s) THEN "USER_MGR_INVALID_SESSION_INDEX"
    ELSE IF ~m_UserObjPool[UserOf(s)].m_IsConfirm THEN "USER_MGR_NOT_CONFIRM_USER"
    ELSE "NONE"

AddUserError(a) ==
    IF a \in m_UserIDDic THEN "USER_MGR_ID_DUPLICATION"
    ELSE IF m_UserObjPoolIndex = << >> THEN "USER_MGR_MAX_USER_COUNT"
    ELSE "NONE"

\* insert does nothing for a key that is present; the fault overwrites.
Overwritten(s, u) == [m_UserSessionDic EXCEPT ![s] = u]
Inserted(s, u) == IF HasUser(s) THEN m_UserSessionDic
                  ELSE [m_UserSessionDic EXCEPT ![s] = u]

\* AllocUserObjPoolIndex; the fault takes the front and leaves it there.
NotTaken == m_UserObjPoolIndex
Taken == Tail(m_UserObjPoolIndex)

AddUser(s, a, id) ==
    LET u == Head(m_UserObjPoolIndex) IN
    /\ AddUserError(a) = "NONE"
    /\ m_UserObjPoolIndex' = Taken
    /\ m_UserObjPool' = [m_UserObjPool EXCEPT ![u] = SetUser(@, s, id)]
    /\ m_UserSessionDic' = Inserted(s, u)
    /\ m_UserIDDic' = m_UserIDDic \cup {a}
    /\ addRet' = [session |-> s, id |-> id, error |-> "NONE"]

AddUserRefused(s, a, id) ==
    /\ AddUserError(a) # "NONE"
    /\ addRet' = [session |-> s, id |-> id, error |-> AddUserError(a)]
    /\ UNCHANGED <<m_UserObjPool, m_UserObjPoolIndex, m_UserSessionDic, m_UserIDDic>>

\* The index that is released.
Released(s) == UserOf(s)

\* ReleaseUserObjPoolIndex and the erase of the session; m_UserIDDic keeps
\* its entry.  Called for a session that has a user.
RemoveUser(s) ==
    LET u == UserOf(s) IN
    /\ HasUser(s)
    /\ m_UserSessionDic' = [m_UserSessionDic EXCEPT ![s] = None]
    /\ m_UserObjPoolIndex' = Append(m_UserObjPoolIndex, Released(s))
    /\ m_UserObjPool' = [m_UserObjPool EXCEPT ![u] = Cleared(@)]
    /\ addRet' = [session |-> None, id |-> "", error |-> "NONE"]
    /\ UNCHANGED m_UserIDDic

-----------------------------------------------------------------------------
(* The manager by itself: its callers add a user for any session, also one *)
(* that has a user, and remove one when the session of a user closes.      *)

UserManagerNext ==
    \E s \in Session :
        \/ \E o \in Offsets, id \in IDs :
             AddUser(s, <<s, o>>, id) \/ AddUserRefused(s, <<s, o>>, id)
        \/ RemoveUser(s)

UserManagerSpec == UserManagerInit /\ [][UserManagerNext]_userVars

-----------------------------------------------------------------------------
(* Properties.                                                             *)

Confirmed == {u \in UserIndex : m_UserObjPool[u].m_IsConfirm}

UserTypeOK ==
    /\ m_UserObjPool \in [UserIndex ->
         [m_SessionIndex : Session \cup {None}, m_ID : IDs \cup {""},
          m_IsConfirm : BOOLEAN, m_CurDomainState : Domain,
          m_LobbyIndex : Int, m_RoomIndex : Int]]
    /\ m_UserObjPoolIndex \in Seq(UserIndex)
    /\ m_UserSessionDic \in [Session -> UserIndex \cup {None}]
    /\ m_UserIDDic \subseteq Address

\* The deque of free users holds every user object that is not in use, once
\* each, and what it holds has been cleared: the next client that gets the
\* object finds nothing of the one before it.
UserPoolPartition ==
    /\ \A a, b \in 1 .. Len(m_UserObjPoolIndex) :
         m_UserObjPoolIndex[a] = m_UserObjPoolIndex[b] => a = b
    /\ \A u \in UserIndex :
         u \notin Confirmed <=> \E a \in 1 .. Len(m_UserObjPoolIndex) :
                                   m_UserObjPoolIndex[a] = u
    /\ \A u \in UserIndex \ Confirmed :
         m_UserObjPool[u] = [NewUser EXCEPT !.m_SessionIndex =
                                m_UserObjPool[u].m_SessionIndex]

\* The session dictionary leads to the user object of that very session: a
\* pointer in it is never left behind when its object is released and given
\* to another session.
SessionDicSound ==
    \A s \in Session : HasUser(s) =>
        /\ UserOf(s) \in Confirmed
        /\ m_UserObjPool[UserOf(s)].m_SessionIndex = s

\* The directory of users by session, as a reader of GetUser sees it.
Directory == [s \in Session |->
    IF HasUser(s) THEN m_UserObjPool[UserOf(s)].m_ID ELSE ""]
Users == INSTANCE UserDirectory WITH directory <- Directory
ImplementsUserDirectory == Users!Spec

\* "If the ID is a duplicate, it is handled as an error" (the comment of
\* PacketProcessorLogin.cpp:19): no two sessions are logged in with one ID.
DuplicateIdRefused ==
    \A s, t \in Session : HasUser(s) /\ HasUser(t) /\ s # t =>
        Directory[s] # Directory[t]

\* The same comment, the other way round: a client that is not logged in is
\* answered with the duplication error only if some user has the ID.
OnlyDuplicateRefused ==
    addRet.error = "USER_MGR_ID_DUPLICATION" /\ ~HasUser(addRet.session) =>
        \E u \in Confirmed : m_UserObjPool[u].m_ID = addRet.id
=============================================================================
