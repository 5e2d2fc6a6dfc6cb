----------------------- MODULE PacketProcessor_proofs -----------------------
(***************************************************************************)
(* Theorems about PacketProcessor and about UserManager, over which its    *)
(* handlers run, for every number of sessions, users, lobbies, slots and   *)
(* rooms, any set of IDs and every order of packets, logins and removals.  *)
(*                                                                         *)
(* The first part is about the user manager by itself.  The types,         *)
(* UserPoolPartition and SessionDicSound are inductive together with       *)
(* NamedUsers, which the refinement needs: an object in use carries an ID  *)
(* a client chose, so that Directory tells it from "not logged in".        *)
(*                                                                         *)
(* StateInv, which contains that invariant (Inv), is inductive for the     *)
(* handlers: for each there are lemmas on what it does to the users        *)
(* (Facts) and that it keeps the invariant (Inv), and StateInvNext joins   *)
(* them.  From it follow the invariants, and with the lemmas on single     *)
(* handlers the action properties and the refinements of UserDirectory and *)
(* Presence.                                                               *)
(***************************************************************************)
EXTENDS PacketProcessor, PoolDeque, SequenceTheorems, FiniteSetTheorems, TLAPS

-----------------------------------------------------------------------------
(* The user manager by itself.                                             *)

NamedUsers == \A u \in Confirmed : m_UserObjPool[u].m_ID \in IDs

UserRecord ==
    [m_SessionIndex : Session \cup {None}, m_ID : IDs \cup {""},
     m_IsConfirm : BOOLEAN, m_CurDomainState : Domain,
     m_LobbyIndex : Int, m_RoomIndex : Int]

\* What a free object looks like.
Free(user) == user = [NewUser EXCEPT !.m_SessionIndex = user.m_SessionIndex]
FreeUsers == \A u \in UserIndex \ Confirmed : Free(m_UserObjPool[u])
FreeHeld == Holds(m_UserObjPoolIndex, UserIndex \ Confirmed, UserIndex)

Inv == UserTypeOK /\ UserPoolPartition /\ SessionDicSound /\ NamedUsers

-----------------------------------------------------------------------------
(* Lemmas about indices and User objects.                                  *)

LEMMA Sizes == PoolSize \in Nat /\ PoolSize > 0 /\ MaxUserCount \in Nat
<1>1. PoolSize \in Nat \ {0} /\ MaxUserCount \in Nat
  BY UserManagerAssumption
<1> QED BY <1>1

LEMMA Indices ==
    /\ 0 \in Session /\ None \notin Session /\ None \in Int
    /\ UserIndex \subseteq Nat /\ None \notin UserIndex
BY Sizes DEF Session, UserIndex, None

LEMMA PartitionParts == UserPoolPartition <=> FreeHeld /\ FreeUsers
<1>1. FreeHeld <=>
        /\ \A a, b \in 1 .. Len(m_UserObjPoolIndex) :
             m_UserObjPoolIndex[a] = m_UserObjPoolIndex[b] => a = b
        /\ \A u \in UserIndex :
             u \notin Confirmed <=> \E a \in 1 .. Len(m_UserObjPoolIndex) :
                                       m_UserObjPoolIndex[a] = u
  BY DEF FreeHeld, Holds
<1>2. FreeUsers <=> \A u \in UserIndex \ Confirmed :
         m_UserObjPool[u] = [NewUser EXCEPT !.m_SessionIndex =
                                m_UserObjPool[u].m_SessionIndex]
  BY DEF FreeUsers, Free
<1> QED BY <1>1, <1>2 DEF UserPoolPartition

LEMMA PartitionPartsNext == UserPoolPartition' <=> FreeHeld' /\ FreeUsers'
<1>1. FreeHeld' <=>
        /\ \A a, b \in 1 .. Len(m_UserObjPoolIndex') :
             m_UserObjPoolIndex'[a] = m_UserObjPoolIndex'[b] => a = b
        /\ \A u \in UserIndex :
             u \notin Confirmed' <=> \E a \in 1 .. Len(m_UserObjPoolIndex') :
                                       m_UserObjPoolIndex'[a] = u
  BY DEF FreeHeld, Holds
<1>2. FreeUsers' <=> \A u \in UserIndex \ Confirmed' :
         m_UserObjPool'[u] = [NewUser EXCEPT !.m_SessionIndex =
                                m_UserObjPool'[u].m_SessionIndex]
  BY DEF FreeUsers, Free
<1> QED BY <1>1, <1>2 DEF UserPoolPartition

LEMMA NewUserFree ==
    /\ NewUser \in UserRecord /\ NewUser.m_IsConfirm = FALSE /\ Free(NewUser)
<1> None \in Int
  BY Indices
<1>1. NewUser \in UserRecord
  BY DEF NewUser, UserRecord, Domain
<1> QED BY <1>1 DEF NewUser, Free

\* A User with nothing set but a session index is a free one.
LEMMA BlankFree ==
    ASSUME NEW i \in Session \cup {None}
    PROVE  LET user == [NewUser EXCEPT !.m_SessionIndex = i]
           IN  user \in UserRecord /\ user.m_IsConfirm = FALSE /\ Free(user)
<1> DEFINE user == [NewUser EXCEPT !.m_SessionIndex = i]
<1>1. NewUser \in UserRecord /\ NewUser.m_IsConfirm = FALSE
  BY NewUserFree
<1>2. user \in UserRecord /\ user.m_SessionIndex = i /\ user.m_IsConfirm = NewUser.m_IsConfirm
  BY <1>1 DEF UserRecord
<1>3. Free(user)
  BY <1>2 DEF Free
<1> QED BY <1>1, <1>2, <1>3

LEMMA ClearedFree ==
    ASSUME NEW user \in UserRecord
    PROVE  /\ Cleared(user) \in UserRecord /\ Cleared(user).m_IsConfirm = FALSE
           /\ Free(Cleared(user))
BY Indices, BlankFree DEF Cleared

LEMMA SetUserInUse ==
    ASSUME NEW user \in UserRecord, NEW s \in Session, NEW id \in IDs
    PROVE  /\ SetUser(user, s, id) \in UserRecord
           /\ SetUser(user, s, id).m_IsConfirm
           /\ SetUser(user, s, id).m_SessionIndex = s
           /\ SetUser(user, s, id).m_ID = id
BY DEF SetUser, UserRecord, Domain

\* What UserTypeOK says of the fields the steps change.
LEMMA Types ==
    ASSUME UserTypeOK
    PROVE  /\ m_UserObjPool \in [UserIndex -> UserRecord]
           /\ m_UserObjPoolIndex \in Seq(UserIndex)
           /\ m_UserSessionDic \in [Session -> UserIndex \cup {None}]
           /\ \A s \in Session : HasUser(s) => UserOf(s) \in UserIndex
BY DEF UserTypeOK, UserRecord, HasUser, UserOf

-----------------------------------------------------------------------------
(* Inv, operation by operation.                                            *)

LEMMA InvInit == UserManagerInit => Inv
<1> SUFFICES ASSUME UserManagerInit PROVE Inv
  OBVIOUS
<1>1. \A u \in UserIndex : m_UserObjPool[u] = NewUser
  BY DEF UserManagerInit
<1>2. Confirmed = {}
  BY <1>1, NewUserFree DEF Confirmed
<1>3. m_UserObjPoolIndex \in [1 .. MaxUserCount -> UserIndex]
  <2>1. \A k \in 1 .. MaxUserCount : k - 1 \in UserIndex
    BY Sizes DEF UserIndex
  <2> QED BY <2>1 DEF UserManagerInit
<1>4. m_UserObjPoolIndex \in Seq(UserIndex) /\ Len(m_UserObjPoolIndex) = MaxUserCount
  <2>1. m_UserObjPoolIndex \in Seq(UserIndex)
    BY <1>3, SeqDef, Sizes
  <2>2. Len(m_UserObjPoolIndex) \in Nat /\ 1 .. Len(m_UserObjPoolIndex) = 1 .. MaxUserCount
    BY <1>3, <2>1, LenProperties
  <2>3. Len(m_UserObjPoolIndex) = MaxUserCount
    BY <2>2, Sizes
  <2> QED BY <2>1, <2>3
<1>5. UserTypeOK
  <2>1. m_UserObjPool \in [UserIndex -> UserRecord]
    BY <1>1, NewUserFree DEF UserManagerInit
  <2>2. m_UserSessionDic \in [Session -> UserIndex \cup {None}] /\ m_UserIDDic = {}
    BY DEF UserManagerInit
  <2> QED BY <1>4, <2>1, <2>2 DEF UserTypeOK, UserRecord
<1>6. FreeHeld
  <2>1. \A a \in 1 .. MaxUserCount : m_UserObjPoolIndex[a] = a - 1
    BY DEF UserManagerInit
  <2>2. \A a, b \in 1 .. MaxUserCount :
           m_UserObjPoolIndex[a] = m_UserObjPoolIndex[b] => a = b
    BY <2>1
  <2>3. ASSUME NEW u \in UserIndex
        PROVE  \E a \in 1 .. MaxUserCount : m_UserObjPoolIndex[a] = u
    <3>1. u + 1 \in 1 .. MaxUserCount /\ u + 1 - 1 = u
      BY Sizes DEF UserIndex
    <3>2. m_UserObjPoolIndex[u + 1] = u + 1 - 1
      <4>1. u \in Nat
        BY Indices
      <4> QED BY <2>1, <3>1, <4>1
    <3> QED BY <3>1, <3>2
  <2> QED BY <1>2, <1>4, <2>2, <2>3 DEF FreeHeld, Holds
<1>7. FreeUsers
  BY <1>1, NewUserFree DEF FreeUsers
<1>8. SessionDicSound /\ NamedUsers
  BY <1>2 DEF UserManagerInit, SessionDicSound, HasUser, NamedUsers
<1> QED BY <1>5, <1>6, <1>7, <1>8, PartitionParts DEF Inv

LEMMA AddUserInv ==
    ASSUME Inv, NEW s \in Session, NEW o \in Offsets, NEW id \in IDs,
           AddUser(s, <<s, o>>, id)
    PROVE  Inv'
<1> DEFINE u == Head(m_UserObjPoolIndex)
<1>1. /\ m_UserObjPoolIndex # << >>
      /\ m_UserObjPoolIndex' = Tail(m_UserObjPoolIndex)
      /\ m_UserObjPool' = [m_UserObjPool EXCEPT ![u] = SetUser(@, s, id)]
      /\ m_UserSessionDic' = Inserted(s, u)
      /\ m_UserIDDic' = m_UserIDDic \cup {<<s, o>>}
  BY DEF AddUser, AddUserError, Taken
<1>2. /\ m_UserObjPool \in [UserIndex -> UserRecord]
      /\ m_UserObjPoolIndex \in Seq(UserIndex)
      /\ m_UserSessionDic \in [Session -> UserIndex \cup {None}]
      /\ \A t \in Session : HasUser(t) => UserOf(t) \in UserIndex
      /\ FreeHeld /\ FreeUsers /\ SessionDicSound /\ NamedUsers
  BY Types, PartitionParts DEF Inv
<1>3. /\ u \in UserIndex /\ u \notin Confirmed
      /\ m_UserObjPoolIndex' \in Seq(UserIndex)
      /\ Holds(m_UserObjPoolIndex', (UserIndex \ Confirmed) \ {u}, UserIndex)
  <2>1. /\ m_UserObjPoolIndex \in Seq(UserIndex) /\ m_UserObjPoolIndex # << >>
        /\ Holds(m_UserObjPoolIndex, UserIndex \ Confirmed, UserIndex)
    BY <1>1, <1>2 DEF FreeHeld
  <2>2. /\ u \in UserIndex \cap (UserIndex \ Confirmed)
        /\ Tail(m_UserObjPoolIndex) \in Seq(UserIndex)
        /\ Holds(Tail(m_UserObjPoolIndex), (UserIndex \ Confirmed) \ {u}, UserIndex)
    BY <2>1, TailHolds
  <2> QED BY <1>1, <2>2
<1> HIDE DEF u
<1>4. /\ m_UserObjPool' \in [UserIndex -> UserRecord]
      /\ m_UserObjPool'[u].m_IsConfirm /\ m_UserObjPool'[u].m_SessionIndex = s
      /\ m_UserObjPool'[u].m_ID = id
      /\ \A v \in UserIndex \ {u} : m_UserObjPool'[v] = m_UserObjPool[v]
  <2>1. m_UserObjPool' = [m_UserObjPool EXCEPT ![u] = SetUser(m_UserObjPool[u], s, id)]
    BY <1>1, <1>2, <1>3
  <2>2. m_UserObjPool[u] \in UserRecord
    BY <1>2, <1>3
  <2>3. m_UserObjPool'[u] = SetUser(m_UserObjPool[u], s, id)
    BY <1>2, <1>3, <2>1
  <2>4. SetUser(m_UserObjPool[u], s, id) \in UserRecord
    BY <2>2, SetUserInUse
  <2>5. m_UserObjPool' \in [UserIndex -> UserRecord]
    BY <1>2, <1>3, <2>1, <2>4
  <2>6. \A v \in UserIndex \ {u} : m_UserObjPool'[v] = m_UserObjPool[v]
    BY <1>2, <2>1
  <2> QED BY <2>2, <2>3, <2>5, <2>6, SetUserInUse
<1>5. Confirmed' = Confirmed \cup {u}
  BY <1>3, <1>4 DEF Confirmed
<1>6. /\ m_UserSessionDic' \in [Session -> UserIndex \cup {None}]
      /\ \A t \in Session : \/ m_UserSessionDic'[t] = m_UserSessionDic[t]
                            \/ t = s /\ m_UserSessionDic'[t] = u
  BY <1>1, <1>2, <1>3 DEF Inserted
<1>7. UserTypeOK'
  <2>1. m_UserIDDic' \subseteq Address
    <3>1. <<s, o>> \in Address
      BY DEF Address
    <3>2. m_UserIDDic \subseteq Address
      BY DEF Inv, UserTypeOK
    <3> QED BY <1>1, <3>1, <3>2
  <2> QED BY <1>3, <1>4, <1>6, <2>1 DEF UserTypeOK, UserRecord
<1>8. FreeHeld'
  <2>1. (UserIndex \ Confirmed) \ {u} = UserIndex \ Confirmed'
    BY <1>5
  <2> QED BY <1>3, <2>1 DEF FreeHeld
<1>9. FreeUsers'
  BY <1>2, <1>4, <1>5 DEF FreeUsers
<1>10. SessionDicSound'
  <2> SUFFICES ASSUME NEW t \in Session, HasUser(t)'
               PROVE  /\ UserOf(t)' \in Confirmed'
                      /\ m_UserObjPool'[UserOf(t)'].m_SessionIndex = t
    BY DEF SessionDicSound
  <2>1. CASE t = s /\ m_UserSessionDic'[t] = u
    BY <1>4, <1>5, <2>1 DEF UserOf
  <2>2. CASE m_UserSessionDic'[t] = m_UserSessionDic[t]
    <3>1. HasUser(t) /\ UserOf(t)' = UserOf(t)
      BY <2>2 DEF HasUser, UserOf
    <3>2. UserOf(t) \in Confirmed /\ m_UserObjPool[UserOf(t)].m_SessionIndex = t
      BY <1>2, <3>1 DEF SessionDicSound
    <3>3. UserOf(t) \in UserIndex \ {u}
      BY <1>3, <3>2 DEF Confirmed
    <3> QED BY <1>4, <1>5, <3>1, <3>2, <3>3
  <2> QED BY <1>6, <2>1, <2>2
<1>11. NamedUsers'
  BY <1>2, <1>4, <1>5 DEF NamedUsers, Confirmed
<1> QED BY <1>7, <1>8, <1>9, <1>10, <1>11, PartitionPartsNext DEF Inv

LEMMA RemoveUserInv == ASSUME Inv, NEW s \in Session, RemoveUser(s) PROVE Inv'
<1> DEFINE u == UserOf(s)
<1>1. /\ HasUser(s)
      /\ m_UserSessionDic' = [m_UserSessionDic EXCEPT ![s] = None]
      /\ m_UserObjPoolIndex' = Append(m_UserObjPoolIndex, u)
      /\ m_UserObjPool' = [m_UserObjPool EXCEPT ![u] = Cleared(@)]
      /\ UNCHANGED m_UserIDDic
  BY DEF RemoveUser, Released
<1>2. /\ m_UserObjPool \in [UserIndex -> UserRecord]
      /\ m_UserObjPoolIndex \in Seq(UserIndex)
      /\ m_UserSessionDic \in [Session -> UserIndex \cup {None}]
      /\ FreeHeld /\ FreeUsers /\ SessionDicSound /\ NamedUsers
  BY Types, PartitionParts DEF Inv
<1>3. /\ u \in UserIndex /\ u \in Confirmed /\ m_UserObjPool[u].m_SessionIndex = s
      /\ u = UserOf(s)
  BY <1>1, <1>2 DEF SessionDicSound, Confirmed
<1> HIDE DEF u
<1>4. /\ m_UserObjPool' \in [UserIndex -> UserRecord]
      /\ m_UserObjPool'[u].m_IsConfirm = FALSE /\ Free(m_UserObjPool'[u])
      /\ \A v \in UserIndex \ {u} : m_UserObjPool'[v] = m_UserObjPool[v]
  <2>1. m_UserObjPool' = [m_UserObjPool EXCEPT ![u] = Cleared(m_UserObjPool[u])]
    BY <1>1, <1>2, <1>3
  <2>2. m_UserObjPool[u] \in UserRecord
    BY <1>2, <1>3
  <2>3. m_UserObjPool'[u] = Cleared(m_UserObjPool[u])
    BY <1>2, <1>3, <2>1
  <2>4. /\ Cleared(m_UserObjPool[u]) \in UserRecord
        /\ Cleared(m_UserObjPool[u]).m_IsConfirm = FALSE
        /\ Free(Cleared(m_UserObjPool[u]))
    BY <2>2, ClearedFree
  <2>5. m_UserObjPool' \in [UserIndex -> UserRecord]
    BY <1>2, <1>3, <2>1, <2>4
  <2>6. \A v \in UserIndex \ {u} : m_UserObjPool'[v] = m_UserObjPool[v]
    BY <1>2, <2>1
  <2> QED BY <2>3, <2>4, <2>5, <2>6
<1>5. Confirmed' = Confirmed \ {u}
  BY <1>3, <1>4 DEF Confirmed
<1>6. /\ m_UserObjPoolIndex' \in Seq(UserIndex)
      /\ Holds(m_UserObjPoolIndex', (UserIndex \ Confirmed) \cup {u}, UserIndex)
  <2>1. /\ m_UserObjPoolIndex \in Seq(UserIndex) /\ u \notin UserIndex \ Confirmed
        /\ Holds(m_UserObjPoolIndex, UserIndex \ Confirmed, UserIndex)
    BY <1>2, <1>3 DEF FreeHeld
  <2>2. /\ Append(m_UserObjPoolIndex, u) \in Seq(UserIndex)
        /\ Holds(Append(m_UserObjPoolIndex, u), (UserIndex \ Confirmed) \cup {u}, UserIndex)
    BY <1>3, <2>1, AppendHolds
  <2> QED BY <1>1, <2>2
<1>7. UserTypeOK'
  <2>1. m_UserSessionDic' \in [Session -> UserIndex \cup {None}]
    BY <1>1, <1>2
  <2> QED BY <1>1, <1>4, <1>6, <2>1 DEF Inv, UserTypeOK, UserRecord
<1>8. FreeHeld'
  <2>1. (UserIndex \ Confirmed) \cup {u} = UserIndex \ Confirmed'
    BY <1>3, <1>5
  <2> QED BY <1>6, <2>1 DEF FreeHeld
<1>9. FreeUsers'
  BY <1>2, <1>4, <1>5 DEF FreeUsers
<1>10. SessionDicSound'
  <2> SUFFICES ASSUME NEW t \in Session, HasUser(t)'
               PROVE  /\ UserOf(t)' \in Confirmed'
                      /\ m_UserObjPool'[UserOf(t)'].m_SessionIndex = t
    BY DEF SessionDicSound
  <2>1. t # s /\ HasUser(t) /\ UserOf(t)' = UserOf(t)
    BY <1>1, <1>2 DEF HasUser, UserOf
  <2>2. UserOf(t) \in Confirmed /\ m_UserObjPool[UserOf(t)].m_SessionIndex = t
    BY <1>2, <2>1 DEF SessionDicSound
  <2>3. UserOf(t) \in UserIndex \ {u}
    BY <1>3, <2>1, <2>2 DEF Confirmed
  <2> QED BY <1>4, <1>5, <2>1, <2>2, <2>3
<1>11. NamedUsers'
  BY <1>2, <1>4, <1>5 DEF NamedUsers, Confirmed
<1> QED BY <1>7, <1>8, <1>9, <1>10, <1>11, PartitionPartsNext DEF Inv

LEMMA InvSame ==
    ASSUME Inv, UNCHANGED <<m_UserObjPool, m_UserObjPoolIndex, m_UserSessionDic, m_UserIDDic>>
    PROVE  Inv'
<1>1. Confirmed' = Confirmed
  BY DEF Confirmed
<1>2. UserTypeOK' /\ UserPoolPartition' /\ NamedUsers'
  BY <1>1 DEF Inv, UserTypeOK, UserPoolPartition, NamedUsers
<1>3. SessionDicSound'
  BY <1>1 DEF Inv, SessionDicSound, HasUser, UserOf
<1> QED BY <1>2, <1>3 DEF Inv

LEMMA InvNext == Inv /\ [UserManagerNext]_userVars => Inv'
<1> SUFFICES ASSUME Inv, [UserManagerNext]_userVars PROVE Inv'
  OBVIOUS
<1>1. CASE \E s \in Session, o \in Offsets, id \in IDs : AddUser(s, <<s, o>>, id)
  BY <1>1, AddUserInv
<1>2. CASE \E s \in Session, o \in Offsets, id \in IDs : AddUserRefused(s, <<s, o>>, id)
  BY <1>2, InvSame DEF AddUserRefused
<1>3. CASE \E s \in Session : RemoveUser(s)
  BY <1>3, RemoveUserInv
<1>4. CASE UNCHANGED userVars
  BY <1>4, InvSame DEF userVars
<1> QED BY <1>1, <1>2, <1>3, <1>4 DEF UserManagerNext

LEMMA InvCorrect == UserManagerSpec => []Inv
BY InvInit, InvNext, PTL DEF UserManagerSpec

-----------------------------------------------------------------------------
(* The theorems.                                                           *)

\* Every field of every User object keeps its type.
THEOREM UserTypeCorrect == UserManagerSpec => []UserTypeOK
<1>1. Inv => UserTypeOK
  BY DEF Inv
<1> QED BY <1>1, InvCorrect, PTL

\* No User object is given out twice, none is lost, and a free one holds
\* nothing of its last user, for any number of users and any order.
THEOREM UserPoolPartitionCorrect == UserManagerSpec => []UserPoolPartition
<1>1. Inv => UserPoolPartition
  BY DEF Inv
<1> QED BY <1>1, InvCorrect, PTL

\* The session dictionary never leads to the object of another session.
THEOREM SessionDicSoundCorrect == UserManagerSpec => []SessionDicSound
<1>1. Inv => SessionDicSound
  BY DEF Inv
<1> QED BY <1>1, InvCorrect, PTL

-----------------------------------------------------------------------------
(* The refinement: a login of a session that has a user takes a User       *)
(* object and changes nothing that GetUser shows.                          *)

LEMMA StepSimulates ==
    ASSUME Inv, [UserManagerNext]_userVars
    PROVE  [Users!Next]_Directory
<1>1. Users!Session = Session
  BY DEF Session, Users!Session
<1>2. /\ m_UserObjPool \in [UserIndex -> UserRecord]
      /\ m_UserObjPoolIndex \in Seq(UserIndex)
      /\ m_UserSessionDic \in [Session -> UserIndex \cup {None}]
      /\ FreeHeld /\ SessionDicSound /\ NamedUsers
  BY Types, PartitionParts DEF Inv
<1>3. /\ Directory \in [Session -> IDs \cup {""}]
      /\ \A t \in Session : HasUser(t) => UserOf(t) \in Confirmed /\ Directory[t] \in IDs
      /\ \A t \in Session : ~HasUser(t) => Directory[t] = ""
  <2>1. \A t \in Session : HasUser(t) => /\ UserOf(t) \in Confirmed
                                         /\ m_UserObjPool[UserOf(t)].m_ID \in IDs
    BY <1>2 DEF SessionDicSound, NamedUsers
  <2> QED BY <2>1 DEF Directory
<1>4. ASSUME NEW s \in Session, NEW o \in Offsets, NEW id \in IDs, AddUser(s, <<s, o>>, id)
      PROVE  [Users!Next]_Directory
  <2> DEFINE u == Head(m_UserObjPoolIndex)
  <2>1. /\ m_UserObjPoolIndex # << >>
        /\ m_UserObjPool' = [m_UserObjPool EXCEPT ![u] = SetUser(@, s, id)]
        /\ m_UserSessionDic' = Inserted(s, u)
    BY <1>4 DEF AddUser, AddUserError
  <2>2. u \in UserIndex /\ u \notin Confirmed
    <3>1. u \in UserIndex \cap (UserIndex \ Confirmed)
      BY <1>2, <2>1, TailHolds DEF FreeHeld
    <3> QED BY <3>1
  <2> HIDE DEF u
  <2>3. /\ m_UserObjPool'[u].m_ID = id
        /\ \A v \in Confirmed : m_UserObjPool'[v] = m_UserObjPool[v]
    <3>1. m_UserObjPool[u] \in UserRecord
      BY <1>2, <2>2
    <3>2. m_UserObjPool'[u] = SetUser(m_UserObjPool[u], s, id)
      BY <1>2, <2>1, <2>2
    <3>3. \A v \in Confirmed : v \in UserIndex /\ v # u
      BY <2>2 DEF Confirmed
    <3> QED BY <1>2, <2>1, <3>1, <3>2, <3>3, SetUserInUse
  <2>4. CASE HasUser(s)
    <3>1. m_UserSessionDic' = m_UserSessionDic
      BY <2>1, <2>4 DEF Inserted
    <3>2. \A t \in Session : /\ HasUser(t)' <=> HasUser(t)
                             /\ UserOf(t)' = UserOf(t)
      BY <3>1 DEF HasUser, UserOf
    <3>3. \A t \in Session : HasUser(t) =>
             m_UserObjPool'[UserOf(t)'].m_ID = m_UserObjPool[UserOf(t)].m_ID
      BY <1>3, <2>3, <3>2
    <3>4. Directory' = Directory
      BY <3>2, <3>3 DEF Directory
    <3> QED BY <3>4
  <2>5. CASE ~HasUser(s)
    <3>1. m_UserSessionDic' = [m_UserSessionDic EXCEPT ![s] = u]
      BY <2>1, <2>5 DEF Inserted
    <3>2. HasUser(s)' /\ UserOf(s)' = u
      BY <1>2, <2>2, <3>1, Indices DEF HasUser, UserOf
    <3>3. \A t \in Session \ {s} : /\ HasUser(t)' <=> HasUser(t)
                                   /\ UserOf(t)' = UserOf(t)
      BY <1>2, <3>1 DEF HasUser, UserOf
    <3>4. \A t \in Session \ {s} : Directory'[t] = Directory[t]
      <4>1. \A t \in Session \ {s} : HasUser(t) =>
               m_UserObjPool'[UserOf(t)'].m_ID = m_UserObjPool[UserOf(t)].m_ID
        BY <1>3, <2>3, <3>3
      <4> QED BY <3>3, <4>1 DEF Directory
    <3>5. Directory'[s] = id
      BY <2>3, <3>2 DEF Directory
    <3>6. Directory' \in [Session -> {Directory'[t] : t \in Session}]
      BY DEF Directory
    <3>7. Directory' = [Directory EXCEPT ![s] = id]
      BY <1>3, <3>4, <3>5, <3>6
    <3>8. Users!Login(s)
      BY <1>3, <2>5, <3>7 DEF Users!Login, Users!NoID
    <3> QED BY <1>1, <3>8 DEF Users!Next
  <2> QED BY <2>4, <2>5
<1>5. ASSUME NEW s \in Session, RemoveUser(s)
      PROVE  [Users!Next]_Directory
  <2> DEFINE u == UserOf(s)
  <2>1. /\ HasUser(s)
        /\ m_UserSessionDic' = [m_UserSessionDic EXCEPT ![s] = None]
        /\ m_UserObjPool' = [m_UserObjPool EXCEPT ![u] = Cleared(@)]
    BY <1>5 DEF RemoveUser
  <2>2. ~HasUser(s)'
    BY <1>2, <2>1 DEF HasUser
  <2>3. \A t \in Session \ {s} : (HasUser(t)' <=> HasUser(t)) /\ UserOf(t)' = UserOf(t)
    BY <1>2, <2>1 DEF HasUser, UserOf
  <2>4. \A t \in Session \ {s} : Directory'[t] = Directory[t]
    <3>1. \A t \in Session \ {s} : HasUser(t) =>
             m_UserObjPool'[UserOf(t)] = m_UserObjPool[UserOf(t)]
      <4> SUFFICES ASSUME NEW t \in Session \ {s}, HasUser(t)
                   PROVE  m_UserObjPool'[UserOf(t)] = m_UserObjPool[UserOf(t)]
        OBVIOUS
      <4>1. /\ UserOf(t) \in Confirmed /\ m_UserObjPool[UserOf(t)].m_SessionIndex = t
            /\ m_UserObjPool[u].m_SessionIndex = s
        BY <1>2, <2>1 DEF SessionDicSound
      <4>2. UserOf(t) \in UserIndex /\ UserOf(t) # u
        BY <4>1 DEF Confirmed
      <4> HIDE DEF u
      <4> QED BY <1>2, <2>1, <4>2
    <3> QED BY <2>3, <3>1 DEF Directory
  <2>5. Directory'[s] = ""
    BY <2>2 DEF Directory
  <2>6. Directory' \in [Session -> {Directory'[t] : t \in Session}]
    BY DEF Directory
  <2>7. Directory' = [Directory EXCEPT ![s] = ""]
    BY <1>3, <2>4, <2>5, <2>6
  <2>8. Directory[s] # ""
    BY <1>3, <2>1, UserManagerAssumption
  <2>9. Users!Logout(s)
    BY <2>7, <2>8 DEF Users!Logout, Users!NoID
  <2> QED BY <1>1, <2>9 DEF Users!Next
<1>6. ASSUME UNCHANGED <<m_UserObjPool, m_UserSessionDic>>
      PROVE  [Users!Next]_Directory
  <2>1. Directory' = Directory
    BY <1>6 DEF Directory, HasUser, UserOf
  <2> QED BY <2>1
<1> QED BY <1>4, <1>5, <1>6 DEF UserManagerNext, AddUserRefused, userVars

\* UserManager implements UserDirectory: whatever becomes of the keys of the
\* dictionary of IDs, a login changes the entry of its own session only, and
\* only from "not logged in", and the entry stays until its removal.
THEOREM UserManagerRefined == UserManagerSpec => ImplementsUserDirectory
<1>1. UserManagerInit => Users!Init
  <2> SUFFICES ASSUME UserManagerInit PROVE Directory = [s \in Users!Session |-> Users!NoID]
    BY DEF Users!Init
  <2>1. \A s \in Session : ~HasUser(s)
    BY DEF UserManagerInit, HasUser
  <2> QED BY <2>1 DEF Directory, Session, Users!Session, Users!NoID
<1>2. Inv /\ [UserManagerNext]_userVars => [Users!Next]_Directory
  BY StepSimulates
<1> QED BY <1>1, <1>2, InvCorrect, PTL
        DEF UserManagerSpec, ImplementsUserDirectory, Users!Spec

-----------------------------------------------------------------------------
(* Rooms and slots as data: what the operations of Room and Lobby do to    *)
(* the set of users that a room's list or a lobby's slots hold.            *)

RoomRecord == [m_IsUsed : BOOLEAN, m_UserList : Seq(UserIndex)]

\* A room lists the users of S, once each and not too many, and is in use
\* exactly while it lists somebody.
RoomHolds(room, S) ==
    /\ room \in RoomRecord
    /\ Holds(room.m_UserList, S, UserIndex)
    /\ Len(room.m_UserList) <= MaxRoomUserCount
    /\ room.m_IsUsed <=> room.m_UserList # << >>

\* Each user of S has one slot, and no other user has one.
SlotsHold(slots, S) ==
    /\ slots \in [Slot -> UserIndex \cup {None}]
    /\ \A u \in UserIndex : u \in S <=> \E k \in Slot : slots[k] = u
    /\ \A j, k \in Slot : slots[j] = slots[k] => j = k \/ slots[k] = None

LEMMA ListedHolds ==
    ASSUME NEW U, NEW list \in Seq(U), NEW S \in SUBSET U, Holds(list, S, U)
    PROVE  ToSet(list) = S
<1>1. DOMAIN list = 1 .. Len(list) /\ \A k \in 1 .. Len(list) : list[k] \in U
  BY LenProperties, ElementOfSeq
<1> QED BY <1>1 DEF ToSet, Holds

LEMMA ListedOnce ==
    ASSUME NEW U, NEW list \in Seq(U), NEW S \in SUBSET U, Holds(list, S, U)
    PROVE  IsFiniteSet(S) /\ Cardinality(S) = Len(list)
<1>1. /\ Len(list) \in Nat /\ list \in [1 .. Len(list) -> U]
      /\ \A k \in 1 .. Len(list) : list[k] \in U
  BY LenProperties, ElementOfSeq
<1>2. list \in Bijection(1 .. Len(list), S)
  <2>1. list \in [1 .. Len(list) -> S]
    BY <1>1 DEF Holds
  <2>2. list \in Injection(1 .. Len(list), S)
    BY <2>1 DEF Holds, Injection, IsInjective
  <2>3. list \in Surjection(1 .. Len(list), S)
    BY <2>1 DEF Holds, Surjection
  <2> QED BY <2>2, <2>3 DEF Bijection
<1>3. ExistsBijection(1 .. Len(list), S)
  BY <1>2 DEF ExistsBijection
<1>4. Cardinality(S) = Len(list)
  BY <1>1, <1>3, FS_CountingElements
<1>5. IsFiniteSet(1 .. Len(list))
  <2>1. 1 \in Int /\ Len(list) \in Int
    BY <1>1
  <2> QED BY ONLY <2>1, FS_Interval
<1> QED BY <1>3, <1>4, <1>5, FS_Bijection

LEMMA RemoveAtElements ==
    ASSUME NEW U, NEW list \in Seq(U), NEW i \in 1 .. Len(list)
    PROVE  /\ RemoveAt(list, i) \in Seq(U)
           /\ Len(RemoveAt(list, i)) = Len(list) - 1
           /\ \A k \in 1 .. Len(list) - 1 :
                RemoveAt(list, i)[k] = IF k < i THEN list[k] ELSE list[k + 1]
<1> DEFINE n == Len(list)  front == SubSeq(list, 1, i - 1)  back == SubSeq(list, i + 1, n)
<1>1. n \in Nat /\ i \in Int /\ 1 <= i /\ i <= n /\ \A k \in 1 .. n : list[k] \in U
  BY LenProperties, ElementOfSeq
<1> HIDE DEF n
<1>2. front \in Seq(U) /\ Len(front) = i - 1 /\ \A k \in 1 .. i - 1 : front[k] = list[k]
  <2>1. \A k \in 1 .. i - 1 : list[k] \in U
    BY <1>1
  <2>2. /\ front \in Seq(U) /\ Len(front) = IF 1 <= i - 1 THEN i - 1 - 1 + 1 ELSE 0
        /\ \A k \in 1 .. i - 1 - 1 + 1 : front[k] = list[1 + k - 1]
    BY <1>1, <2>1, SubSeqProperties
  <2> QED BY <1>1, <2>2
<1>3. back \in Seq(U) /\ Len(back) = n - i /\ \A k \in 1 .. n - i : back[k] = list[i + k]
  <2>1. \A k \in i + 1 .. n : list[k] \in U
    BY <1>1
  <2>2. /\ back \in Seq(U) /\ Len(back) = IF i + 1 <= n THEN n - (i + 1) + 1 ELSE 0
        /\ \A k \in 1 .. n - (i + 1) + 1 : back[k] = list[i + 1 + k - 1]
    BY <1>1, <2>1, SubSeqProperties
  <2> QED BY <1>1, <2>2
<1> HIDE DEF front, back
<1>4. /\ front \o back \in Seq(U)
      /\ Len(front \o back) = Len(front) + Len(back)
      /\ \A k \in 1 .. Len(front) + Len(back) :
           (front \o back)[k] = IF k <= Len(front) THEN front[k] ELSE back[k - Len(front)]
  BY <1>2, <1>3, ConcatProperties
<1>5. RemoveAt(list, i) = front \o back
  BY DEF RemoveAt, front, back, n
<1>6. ASSUME NEW k \in 1 .. n - 1
      PROVE  (front \o back)[k] = IF k < i THEN list[k] ELSE list[k + 1]
  <2>1. CASE k < i
    BY <1>1, <1>2, <1>3, <1>4, <2>1
  <2>2. CASE ~(k < i)
    <3>1. k - (i - 1) \in 1 .. n - i /\ i + (k - (i - 1)) = k + 1
      BY <1>1, <2>2
    <3>2. (front \o back)[k] = back[k - (i - 1)]
      BY <1>1, <1>2, <1>3, <1>4, <2>2
    <3> QED BY <1>3, <2>2, <3>1, <3>2
  <2> QED BY <2>1, <2>2
<1>7. front \o back \in Seq(U) /\ Len(front \o back) = n - 1
  BY <1>1, <1>2, <1>3, <1>4
<1> QED BY <1>5, <1>6, <1>7 DEF n

\* RemoveFirst takes one user out of a list.
LEMMA RemoveFirstHolds ==
    ASSUME NEW U, NEW list \in Seq(U), NEW S \in SUBSET U, Holds(list, S, U), NEW u \in S
    PROVE  /\ RemoveFirst(list, u) \in Seq(U)
           /\ Len(RemoveFirst(list, u)) = Len(list) - 1
           /\ Holds(RemoveFirst(list, u), S \ {u}, U)
<1>1. Len(list) \in Nat
  BY LenProperties
<1>2. PICK i \in 1 .. Len(list) : list[i] = u
  BY DEF Holds
<1>3. RemoveFirst(list, u) = RemoveAt(list, i)
  <2> DEFINE I == {k \in 1 .. Len(list) : list[k] = u}
  <2>1. I = {i}
    BY <1>2 DEF Holds
  <2>2. Min(I) = i
    BY <1>1, <2>1 DEF Min
  <2>3. RemoveFirst(list, u) = RemoveAt(list, Min(I))
    BY <1>2 DEF RemoveFirst, SelectInSeq
  <2> QED BY <2>2, <2>3
<1> DEFINE rest == RemoveAt(list, i)
<1>4. /\ rest \in Seq(U) /\ Len(rest) = Len(list) - 1
      /\ \A k \in 1 .. Len(list) - 1 : rest[k] = IF k < i THEN list[k] ELSE list[k + 1]
  BY RemoveAtElements
<1> HIDE DEF rest
<1>5. \A a, b \in 1 .. Len(list) : list[a] = list[b] => a = b
  BY DEF Holds
<1>6. \A a, b \in 1 .. Len(rest) : rest[a] = rest[b] => a = b
  <2> SUFFICES ASSUME NEW a \in 1 .. Len(rest), NEW b \in 1 .. Len(rest), rest[a] = rest[b]
               PROVE  a = b
    OBVIOUS
  <2> DEFINE at(k) == IF k < i THEN k ELSE k + 1
  <2>1. /\ at(a) \in 1 .. Len(list) /\ at(b) \in 1 .. Len(list)
        /\ rest[a] = list[at(a)] /\ rest[b] = list[at(b)]
    BY <1>1, <1>4
  <2>2. at(a) = at(b)
    BY <1>5, <2>1
  <2> QED BY <1>1, <1>4, <2>2
<1>7. ASSUME NEW v \in U
      PROVE  v \in S \ {u} <=> \E a \in 1 .. Len(rest) : rest[a] = v
  <2>1. ASSUME v \in S, v # u PROVE \E a \in 1 .. Len(rest) : rest[a] = v
    <3>1. PICK b \in 1 .. Len(list) : list[b] = v
      BY <2>1 DEF Holds
    <3>2. b # i
      BY <1>2, <2>1, <3>1
    <3>3. CASE b < i
      <4>1. b \in 1 .. Len(rest) /\ rest[b] = v
        BY <1>1, <1>4, <3>1, <3>3
      <4> QED BY <4>1
    <3>4. CASE b > i
      <4>1. b - 1 \in 1 .. Len(list) - 1 /\ ~(b - 1 < i) /\ b - 1 + 1 = b
        BY <1>1, <3>4
      <4>2. rest[b - 1] = list[b]
        BY <1>4, <4>1
      <4> QED BY <1>4, <3>1, <4>1, <4>2
    <3> QED BY <3>2, <3>3, <3>4
  <2>2. ASSUME NEW a \in 1 .. Len(rest), rest[a] = v PROVE v \in S /\ v # u
    <3>1. PICK b \in 1 .. Len(list) : b # i /\ list[b] = v
      <4>1. CASE a < i
        BY <1>1, <1>4, <2>2, <4>1
      <4>2. CASE ~(a < i)
        BY <1>1, <1>4, <2>2, <4>2
      <4> QED BY <4>1, <4>2
    <3>2. v \in S
      BY <3>1 DEF Holds
    <3> QED BY <1>2, <1>5, <3>1, <3>2
  <2> QED BY <2>1, <2>2
<1> QED BY <1>3, <1>4, <1>6, <1>7 DEF Holds, rest

\* Lowest finds the least of some indices.
LEMMA NatOrder == \E R : IsWellFoundedOn(R, Nat) /\ \A a, b \in Nat : <<a, b>> \in R <=> a < b
<1> DEFINE R == OpToRel(<, Nat)
<1>1. IsWellFoundedOn(R, Nat)
  BY NatLessThanWellFounded
<1>2. \A a, b \in Nat : <<a, b>> \in R <=> a < b
  BY DEF OpToRel
<1> HIDE DEF R
<1> QED BY <1>1, <1>2

LEMMA LowestLeast ==
    ASSUME NEW S \in SUBSET Nat, S # {}
    PROVE  Lowest(S) \in S /\ \A j \in S : Lowest(S) <= j
<1>1. PICK R : IsWellFoundedOn(R, Nat) /\ \A a, b \in Nat : <<a, b>> \in R <=> a < b
  BY NatOrder
<1>2. PICK k \in S : \A j \in S : <<j, k>> \notin R
  <2>1. IsWellFoundedOn(R, Nat) /\ S \subseteq Nat /\ S # {}
    BY <1>1
  <2>2. \E k \in S : \A j \in S : ~(<<j, k>> \in R)
    BY ONLY <2>1, WFMin
  <2> QED BY <2>2
<1>3. \A j \in S : k <= j
  <2>1. k \in Nat /\ \A j \in S : j \in Nat /\ ~(j < k)
    BY <1>1, <1>2
  <2> QED BY <2>1
<1> QED BY <1>3 DEF Lowest

LEMMA Bounds ==
    /\ MaxLobbyCount \in Nat /\ MaxLobbyUserCount \in Nat /\ MaxRoomCountByLobby \in Nat
    /\ MaxRoomUserCount \in Nat /\ MaxRoomUserCount > 0
<1>1. MaxRoomUserCount \in Nat \ {0}
  BY RoomAssumption
<1> QED BY <1>1, LobbyAssumption

LEMMA PlaceIndices ==
    /\ LobbyIndex \subseteq Nat /\ Slot \subseteq Nat /\ RoomIndex \subseteq Nat
    /\ None \notin LobbyIndex /\ None \notin RoomIndex
BY Bounds DEF LobbyIndex, Slot, RoomIndex, None

LEMMA ClearedHolds == RoomHolds(ClearedRoom, {})
<1>1. << >> \in Seq(UserIndex) /\ Len(<< >>) = 0
  BY EmptySeq
<1>2. ClearedRoom \in RoomRecord /\ ClearedRoom.m_UserList = << >> /\ ~ClearedRoom.m_IsUsed
  BY <1>1 DEF ClearedRoom, RoomRecord
<1>3. Holds(<< >>, {}, UserIndex)
  BY <1>1 DEF Holds
<1> QED BY <1>1, <1>2, <1>3, Bounds DEF RoomHolds

\* A user enters a room in use that is not full, or one just created.
LEMMA EnteredHolds ==
    ASSUME NEW S \in SUBSET UserIndex, NEW room, RoomHolds(room, S),
           NEW u \in UserIndex \ S, NEW target,
           \/ target = room /\ room.m_IsUsed /\ ~Full(room)
           \/ target = CreatedRoom(room) /\ ~room.m_IsUsed
    PROVE  RoomHolds(EnteredRoom(target, u), S \cup {u})
<1> DEFINE list == room.m_UserList
<1>1. /\ room \in RoomRecord /\ list \in Seq(UserIndex) /\ Len(list) \in Nat
      /\ Holds(list, S, UserIndex) /\ Len(list) <= MaxRoomUserCount
      /\ room.m_IsUsed <=> list # << >>
  BY LenProperties DEF RoomHolds, RoomRecord
<1>2. target \in RoomRecord /\ target.m_IsUsed /\ target.m_UserList = list
  BY <1>1 DEF RoomRecord, CreatedRoom
<1>3. Len(list) < MaxRoomUserCount
  <2>1. CASE ~Full(room)
    BY <1>1, <2>1, Bounds DEF Full
  <2>2. CASE ~room.m_IsUsed
    <3>1. list = << >>
      BY <1>1, <2>2
    <3>2. Len(list) = 0
      BY <3>1, EmptySeq
    <3> QED BY <3>2, Bounds
  <2> QED BY <2>1, <2>2
<1> DEFINE longer == Append(list, u)
<1>4. longer \in Seq(UserIndex) /\ Holds(longer, S \cup {u}, UserIndex)
  BY <1>1, AppendHolds
<1>5. longer # << >> /\ Len(longer) = Len(list) + 1
  BY <1>1, AppendProperties
<1> HIDE DEF list, longer
<1>6. EnteredRoom(target, u) = [target EXCEPT !.m_UserList = longer]
  BY <1>2 DEF EnteredRoom, longer, list, RoomRecord
<1>7. /\ EnteredRoom(target, u) \in RoomRecord
      /\ EnteredRoom(target, u).m_UserList = longer
      /\ EnteredRoom(target, u).m_IsUsed
  BY <1>2, <1>4, <1>6 DEF RoomRecord
<1>8. Len(longer) <= MaxRoomUserCount
  BY <1>1, <1>3, <1>5, Bounds
<1> QED BY <1>4, <1>5, <1>7, <1>8 DEF RoomHolds

\* A member leaves a room; the last one clears it.
LEMMA LeftHolds ==
    ASSUME NEW S \in SUBSET UserIndex, NEW room, RoomHolds(room, S), NEW u \in S
    PROVE  RoomHolds(LeftRoom(room, u), S \ {u})
<1> DEFINE list == room.m_UserList  rest == RemoveFirst(list, u)
<1>1. /\ room \in RoomRecord /\ list \in Seq(UserIndex) /\ Len(list) \in Nat
      /\ Holds(list, S, UserIndex) /\ Len(list) <= MaxRoomUserCount
      /\ room.m_IsUsed <=> list # << >>
  BY LenProperties DEF RoomHolds, RoomRecord
<1>2. /\ rest \in Seq(UserIndex) /\ Len(rest) = Len(list) - 1
      /\ Holds(rest, S \ {u}, UserIndex)
  BY <1>1, RemoveFirstHolds
<1>3. list # << >>
  <2>1. PICK a \in 1 .. Len(list) : list[a] = u
    BY <1>1 DEF Holds
  <2>2. Len(list) # 0
    BY <1>1, <2>1
  <2> QED BY <2>2, EmptySeq
<1> HIDE DEF rest
<1>4. CASE rest = << >>
  <2>1. S \ {u} = {}
    <3>1. Len(rest) = 0
      BY <1>4, EmptySeq
    <3>2. \A a \in 1 .. Len(rest) : FALSE
      BY <3>1
    <3>3. \A v \in UserIndex : v \in S \ {u} <=> \E a \in 1 .. Len(rest) : rest[a] = v
      BY <1>2 DEF Holds
    <3>4. \A v \in UserIndex : v \notin S \ {u}
      BY <3>2, <3>3
    <3> QED BY <3>4
  <2>2. LeftRoom(room, u) = ClearedRoom
    BY <1>4 DEF LeftRoom, rest
  <2> QED BY <2>1, <2>2, ClearedHolds
<1>5. CASE rest # << >>
  <2>1. LeftRoom(room, u) = [room EXCEPT !.m_UserList = rest]
    BY <1>5 DEF LeftRoom, rest
  <2>2. /\ LeftRoom(room, u) \in RoomRecord
        /\ LeftRoom(room, u).m_UserList = rest
        /\ LeftRoom(room, u).m_IsUsed = room.m_IsUsed
    BY <1>1, <1>2, <2>1 DEF RoomRecord
  <2>3. Len(rest) <= MaxRoomUserCount
    BY <1>1, <1>2, Bounds
  <2> QED BY <1>1, <1>2, <1>3, <1>5, <2>2, <2>3 DEF RoomHolds
<1> QED BY <1>4, <1>5

LEMMA SlotTaken ==
    ASSUME NEW S \in SUBSET UserIndex, NEW slots, SlotsHold(slots, S),
           NEW k \in Slot, slots[k] = None, NEW u \in UserIndex \ S
    PROVE  SlotsHold([slots EXCEPT ![k] = u], S \cup {u})
<1> DEFINE after == [slots EXCEPT ![k] = u]
<1>1. /\ after \in [Slot -> UserIndex \cup {None}] /\ after[k] = u
      /\ \A j \in Slot \ {k} : after[j] = slots[j]
  BY DEF SlotsHold
<1>2. \A j \in Slot : slots[j] # u
  BY DEF SlotsHold
<1>3. u # None
  BY Indices
<1> HIDE DEF after
<1>4. \A v \in UserIndex : v \in S \cup {u} <=> \E j \in Slot : after[j] = v
  <2> SUFFICES ASSUME NEW v \in UserIndex
               PROVE  v \in S \cup {u} <=> \E j \in Slot : after[j] = v
    OBVIOUS
  <2>1. CASE v = u
    BY <1>1, <2>1
  <2>2. CASE v # u
    <3>1. (\E j \in Slot : after[j] = v) <=> \E j \in Slot : slots[j] = v
      BY <1>1, <2>2, Indices
    <3> QED BY <2>2, <3>1 DEF SlotsHold
  <2> QED BY <2>1, <2>2
<1>5. \A i, j \in Slot : after[i] = after[j] => i = j \/ after[j] = None
  BY <1>1, <1>2 DEF SlotsHold
<1> QED BY <1>1, <1>4, <1>5 DEF SlotsHold, after

\* The slot a user leaves becomes empty; a user without a slot leaves none.
LEMMA SlotLeft ==
    ASSUME NEW S \in SUBSET UserIndex, NEW l, SlotsHold(m_UserList[l], S), NEW u \in UserIndex
    PROVE  SlotsHold(SlotEmptied(l, u), S \ {u})
<1> DEFINE slots == {k \in Slot : m_UserList[l][k] = u}  before == m_UserList[l]
           after == SlotEmptied(l, u)
<1>1. before \in [Slot -> UserIndex \cup {None}] /\ u # None
  BY Indices DEF SlotsHold
<1>2. \A k \in Slot : after[k] = IF before[k] = u THEN None ELSE before[k]
  <2>1. after = [k \in Slot |-> IF slots # {} /\ k = Lowest(slots) THEN None ELSE before[k]]
    BY DEF SlotEmptied
  <2>2. CASE slots = {}
    BY <2>1, <2>2
  <2>3. CASE slots # {}
    <3>1. slots \subseteq Nat
      BY PlaceIndices
    <3>2. Lowest(slots) \in slots
      BY <2>3, <3>1, LowestLeast
    <3>3. \A k \in slots : k = Lowest(slots)
      BY <1>1, <3>2 DEF SlotsHold
    <3> HIDE DEF after
    <3> QED BY <2>1, <2>3, <3>2, <3>3
  <2> QED BY <2>2, <2>3
<1>3. after \in [Slot -> UserIndex \cup {None}]
  <2>1. after = [k \in Slot |-> after[k]]
    BY DEF SlotEmptied
  <2> HIDE DEF after
  <2> QED BY <1>1, <1>2, <2>1
<1> HIDE DEF after
<1>4. \A v \in UserIndex : v \in S \ {u} <=> \E k \in Slot : after[k] = v
  <2> SUFFICES ASSUME NEW v \in UserIndex
               PROVE  v \in S \ {u} <=> \E k \in Slot : after[k] = v
    OBVIOUS
  <2>1. (\E k \in Slot : after[k] = v) <=> v # u /\ \E k \in Slot : before[k] = v
    BY <1>1, <1>2, Indices
  <2> QED BY <2>1 DEF SlotsHold
<1>5. \A j, k \in Slot : after[j] = after[k] => j = k \/ after[k] = None
  BY <1>2 DEF SlotsHold
<1> QED BY <1>3, <1>4, <1>5 DEF SlotsHold, after

LEMMA FiniteUsers == ASSUME NEW S \in SUBSET UserIndex PROVE IsFiniteSet(S)
<1>1. 0 \in Int /\ MaxUserCount - 1 \in Int
  BY Sizes
<1>2. IsFiniteSet(UserIndex)
  BY ONLY <1>1, FS_Interval DEF UserIndex
<1> QED BY <1>2, FS_Subset

\* A lobby with fewer users than slots has an empty slot.
LEMMA SlotLeftOver ==
    ASSUME NEW S \in SUBSET UserIndex, NEW slots, SlotsHold(slots, S),
           Cardinality(S) < MaxLobbyUserCount
    PROVE  \E k \in Slot : slots[k] = None
<1> SUFFICES ASSUME \A k \in Slot : slots[k] # None PROVE FALSE
  OBVIOUS
<1>1. slots \in Injection(Slot, S)
  BY DEF SlotsHold, Injection, IsInjective
<1>2. IsFiniteSet(S)
  BY FiniteUsers
<1>3. Cardinality(Slot) = MaxLobbyUserCount
  <2>1. 0 \in Int /\ MaxLobbyUserCount - 1 \in Int
    BY Bounds
  <2>2. Cardinality(0 .. MaxLobbyUserCount - 1) =
          IF 0 > MaxLobbyUserCount - 1 THEN 0 ELSE MaxLobbyUserCount - 1 - 0 + 1
    BY ONLY <2>1, FS_Interval
  <2> QED BY <2>2, Bounds DEF Slot
<1>4. Cardinality(Slot) <= Cardinality(S)
  BY <1>1, <1>2, FS_Injection
<1>5. Cardinality(S) \in Nat
  BY <1>2, FS_CardinalityType
<1> QED BY <1>3, <1>4, <1>5, Bounds

-----------------------------------------------------------------------------
(* The inductive invariant.  TypeOK, LoginAgrees, MembershipAgrees and     *)
(* RoomsAgree are not inductive: a second login of a session leaves a user *)
(* object behind that no session leads to, and if such an object could be  *)
(* in a lobby, nothing would take it out when its session closes.  Placed  *)
(* says that it never gets there, and that a place is an existing one.     *)

Members(l) ==
    {u \in UserIndex : /\ m_UserObjPool[u].m_CurDomainState \in {"LOBBY", "ROOM"}
                       /\ m_UserObjPool[u].m_LobbyIndex = l}
Inside(l, r) ==
    {u \in UserIndex : /\ m_UserObjPool[u].m_CurDomainState = "ROOM"
                       /\ m_UserObjPool[u].m_LobbyIndex = l
                       /\ m_UserObjPool[u].m_RoomIndex = r}

IndexTypes ==
    \A u \in UserIndex : /\ m_UserObjPool[u].m_LobbyIndex \in LobbyIndex \cup {None}
                         /\ m_UserObjPool[u].m_RoomIndex \in RoomIndex \cup {None}

LobbyTypes ==
    /\ m_UserList \in [LobbyIndex -> [Slot -> UserIndex \cup {None}]]
    /\ m_UserIndexDic \in [LobbyIndex -> SUBSET UserIndex]
    /\ m_RoomList \in [LobbyIndex -> [RoomIndex -> RoomRecord]]

ConnectedTypes ==
    /\ m_ConnectedTime \in [Session -> BOOLEAN]
    /\ m_IsLoginSuccess \in [Session -> BOOLEAN]

\* A user object in the domain NONE is one that is not in use; one in a
\* lobby or a room is the object its session leads to.
WellPlaced(u, user) ==
    /\ user.m_IsConfirm <=> user.m_CurDomainState # "NONE"
    /\ user.m_CurDomainState \in {"LOBBY", "ROOM"} =>
         /\ user.m_LobbyIndex \in LobbyIndex
         /\ user.m_SessionIndex \in Session
         /\ m_UserSessionDic[user.m_SessionIndex] = u
    /\ user.m_CurDomainState = "ROOM" => user.m_RoomIndex \in RoomIndex
Placed == \A u \in UserIndex : WellPlaced(u, m_UserObjPool[u])

DicAgrees  == \A l \in LobbyIndex : m_UserIndexDic[l] = Members(l)
SlotsAgree == \A l \in LobbyIndex : SlotsHold(m_UserList[l], Members(l))
RoomLists  == \A l \in LobbyIndex, r \in RoomIndex :
                RoomHolds(m_RoomList[l][r], Inside(l, r))

LobbyInv == LobbyTypes /\ DicAgrees /\ SlotsAgree /\ RoomLists
PlaceInv == IndexTypes /\ Placed
StateInv == Inv /\ PlaceInv /\ LobbyInv /\ ConnectedTypes /\ LoginAgrees

-----------------------------------------------------------------------------
(* What the invariant says, in the terms of the properties.                *)

LEMMA StateInvTypeOK == StateInv => TypeOK
<1> SUFFICES ASSUME StateInv PROVE TypeOK
  OBVIOUS
<1>1. UserTypeOK /\ IndexTypes /\ LobbyTypes /\ ConnectedTypes
  BY DEF StateInv, Inv, PlaceInv, LobbyInv
<1>2. \A l \in LobbyIndex, r \in RoomIndex : m_RoomList[l][r] \in RoomRecord
  BY <1>1 DEF LobbyTypes
<1>3. \A l \in LobbyIndex, r \in RoomIndex :
        /\ m_RoomList[l][r].m_IsUsed \in BOOLEAN
        /\ m_RoomList[l][r].m_UserList \in Seq(UserIndex)
  BY <1>2 DEF RoomRecord
<1> QED BY <1>1, <1>3 DEF TypeOK, IndexTypes, LobbyTypes, ConnectedTypes

LEMMA StateInvMembershipAgrees == StateInv => MembershipAgrees
<1> SUFFICES ASSUME StateInv, NEW l \in LobbyIndex
             PROVE  /\ m_UserIndexDic[l] = Members(l)
                    /\ {m_UserList[l][k] : k \in Slot} \ {None} = m_UserIndexDic[l]
                    /\ \A j, k \in Slot : m_UserList[l][j] = m_UserList[l][k] =>
                         j = k \/ m_UserList[l][k] = None
  BY DEF MembershipAgrees, Members
<1>1. m_UserIndexDic[l] = Members(l) /\ SlotsHold(m_UserList[l], Members(l))
  BY DEF StateInv, LobbyInv, DicAgrees, SlotsAgree
<1>2. {m_UserList[l][k] : k \in Slot} \ {None} = Members(l)
  <2>1. Members(l) \subseteq UserIndex
    BY DEF Members
  <2>2. \A k \in Slot : m_UserList[l][k] \in UserIndex \cup {None}
    BY <1>1 DEF SlotsHold
  <2>3. \A u \in UserIndex : u \in Members(l) <=> \E k \in Slot : m_UserList[l][k] = u
    BY <1>1 DEF SlotsHold
  <2> QED BY <2>1, <2>2, <2>3, Indices
<1> QED BY <1>1, <1>2 DEF SlotsHold

LEMMA StateInvRoomsAgree == StateInv => RoomsAgree
<1> SUFFICES ASSUME StateInv, NEW l \in LobbyIndex, NEW r \in RoomIndex
             PROVE  /\ ToSet(m_RoomList[l][r].m_UserList) = Inside(l, r)
                    /\ Cardinality(ToSet(m_RoomList[l][r].m_UserList)) =
                         Len(m_RoomList[l][r].m_UserList)
                    /\ m_RoomList[l][r].m_IsUsed <=> m_RoomList[l][r].m_UserList # << >>
  BY DEF RoomsAgree, Inside
<1> DEFINE room == m_RoomList[l][r]  list == room.m_UserList
<1>1. RoomHolds(room, Inside(l, r))
  BY DEF StateInv, LobbyInv, RoomLists
<1>2. /\ list \in Seq(UserIndex) /\ Holds(list, Inside(l, r), UserIndex)
      /\ room.m_IsUsed <=> list # << >>
  BY <1>1 DEF RoomHolds, RoomRecord
<1>3. Inside(l, r) \in SUBSET UserIndex
  BY DEF Inside
<1> HIDE DEF list
<1>4. ToSet(list) = Inside(l, r) /\ Cardinality(Inside(l, r)) = Len(list)
  BY <1>2, <1>3, ListedHolds, ListedOnce
<1> QED BY <1>2, <1>4 DEF list

-----------------------------------------------------------------------------
(* Initially nobody is anywhere.                                           *)

LEMMA StateInvInit == Init => StateInv
<1> SUFFICES ASSUME Init PROVE StateInv
  OBVIOUS
<1>1. Inv
  BY InvInit DEF Init
<1>2. \A u \in UserIndex :
        /\ m_UserObjPool[u].m_CurDomainState = "NONE" /\ m_UserObjPool[u].m_IsConfirm = FALSE
        /\ m_UserObjPool[u].m_LobbyIndex = None /\ m_UserObjPool[u].m_RoomIndex = None
  <2>1. \A u \in UserIndex : m_UserObjPool[u] = NewUser
    BY DEF Init, UserManagerInit
  <2>2. /\ NewUser.m_CurDomainState = "NONE" /\ NewUser.m_IsConfirm = FALSE
        /\ NewUser.m_LobbyIndex = None /\ NewUser.m_RoomIndex = None
    BY DEF NewUser
  <2> QED BY <2>1, <2>2
<1>3. PlaceInv
  BY <1>2 DEF PlaceInv, IndexTypes, Placed, WellPlaced
<1>4. \A l \in LobbyIndex, r \in RoomIndex : Inside(l, r) = {}
  BY <1>2 DEF Inside
<1>5. \A l \in LobbyIndex : Members(l) = {}
  BY <1>2 DEF Members
<1>6. LobbyTypes
  <2>1. ClearedRoom \in RoomRecord
    BY ClearedHolds DEF RoomHolds
  <2> QED BY <2>1 DEF Init, LobbyInit, LobbyTypes
<1>7. DicAgrees
  BY <1>5 DEF Init, LobbyInit, DicAgrees
<1>8. SlotsAgree
  <2>1. \A l \in LobbyIndex, k \in Slot : m_UserList[l][k] = None
    BY DEF Init, LobbyInit
  <2>2. \A l \in LobbyIndex : SlotsHold(m_UserList[l], {})
    BY <1>6, <2>1, Indices DEF LobbyTypes, SlotsHold
  <2> QED BY <1>5, <2>2 DEF SlotsAgree
<1>9. RoomLists
  <2>1. \A l \in LobbyIndex, r \in RoomIndex : m_RoomList[l][r] = ClearedRoom
    BY DEF Init, LobbyInit
  <2> QED BY <1>4, <2>1, ClearedHolds DEF RoomLists
<1>10. ConnectedTypes /\ LoginAgrees
  BY DEF Init, UserManagerInit, ConnectedTypes, LoginAgrees, HasUser
<1> QED BY <1>1, <1>3, <1>6, <1>7, <1>8, <1>9, <1>10 DEF StateInv, LobbyInv

-----------------------------------------------------------------------------
(* One user object changes its place: EnterLobby, LeaveLobby, EnterRoom.   *)

\* What the records of users say of the user of a session.
LEMMA UserFacts ==
    ASSUME StateInv, NEW s \in Session, HasUser(s)
    PROVE  /\ UserOf(s) \in UserIndex /\ UserOf(s) \in Confirmed
           /\ User(s) = m_UserObjPool[UserOf(s)] /\ User(s) \in UserRecord
           /\ User(s).m_SessionIndex = s /\ User(s).m_IsConfirm
           /\ GetUserError(s) = "NONE"
           /\ WellPlaced(UserOf(s), User(s))
<1>1. UserOf(s) \in Confirmed /\ m_UserObjPool[UserOf(s)].m_SessionIndex = s
  BY DEF StateInv, Inv, SessionDicSound
<1>2. UserOf(s) \in UserIndex /\ m_UserObjPool[UserOf(s)].m_IsConfirm
  BY <1>1 DEF Confirmed
<1>3. m_UserObjPool[UserOf(s)] \in UserRecord
  BY <1>2, Types DEF StateInv, Inv
<1>4. WellPlaced(UserOf(s), m_UserObjPool[UserOf(s)])
  BY <1>2 DEF StateInv, PlaceInv, Placed
<1>5. GetUserError(s) = "NONE"
  BY <1>2 DEF GetUserError
<1> QED BY <1>1, <1>2, <1>3, <1>4, <1>5 DEF User

\* user is the object of the session s in another place.
Relocated(s, user) ==
    /\ user \in UserRecord
    /\ user.m_SessionIndex = s /\ user.m_IsConfirm /\ user.m_ID = User(s).m_ID
    /\ user.m_CurDomainState # "NONE"
    /\ user.m_CurDomainState \in {"LOBBY", "ROOM"} => user.m_LobbyIndex \in LobbyIndex
    /\ user.m_CurDomainState = "ROOM" => user.m_RoomIndex \in RoomIndex
    /\ user.m_LobbyIndex \in LobbyIndex \cup {None}
    /\ user.m_RoomIndex \in RoomIndex \cup {None}

LEMMA MovedUser ==
    ASSUME StateInv, NEW s \in Session, HasUser(s), NEW user, Relocated(s, user),
           m_UserObjPool' = [m_UserObjPool EXCEPT ![UserOf(s)] = user],
           UNCHANGED <<m_UserObjPoolIndex, m_UserSessionDic, m_UserIDDic>>
    PROVE  /\ Inv' /\ PlaceInv'
           /\ m_UserObjPool'[UserOf(s)] = user
           /\ \A v \in UserIndex \ {UserOf(s)} : m_UserObjPool'[v] = m_UserObjPool[v]
<1> DEFINE u == UserOf(s)
<1>1. /\ u \in UserIndex /\ u \in Confirmed /\ u = UserOf(s)
      /\ User(s) = m_UserObjPool[u] /\ User(s).m_SessionIndex = s
  BY UserFacts
<1>2. /\ m_UserObjPool \in [UserIndex -> UserRecord]
      /\ UserTypeOK /\ UserPoolPartition /\ SessionDicSound /\ NamedUsers
      /\ FreeHeld /\ FreeUsers
  BY Types, PartitionParts DEF StateInv, Inv
<1> HIDE DEF u
<1>3. /\ user \in UserRecord /\ user.m_SessionIndex = s /\ user.m_IsConfirm
      /\ user.m_ID = m_UserObjPool[u].m_ID
  BY <1>1 DEF Relocated
<1>4. /\ m_UserObjPool' \in [UserIndex -> UserRecord] /\ m_UserObjPool'[u] = user
      /\ \A v \in UserIndex \ {u} : m_UserObjPool'[v] = m_UserObjPool[v]
  BY <1>1, <1>2, <1>3
<1>5. Confirmed' = Confirmed
  BY <1>1, <1>3, <1>4 DEF Confirmed
<1>6. UserTypeOK'
  BY <1>2, <1>4 DEF UserTypeOK, UserRecord
<1>7. FreeHeld' /\ FreeUsers'
  <2>1. FreeHeld'
    BY <1>2, <1>5 DEF FreeHeld
  <2>2. \A v \in UserIndex \ Confirmed : v \in UserIndex \ {u}
    BY <1>1
  <2> QED BY <1>2, <1>4, <1>5, <2>1, <2>2 DEF FreeUsers
<1>8. NamedUsers'
  BY <1>1, <1>2, <1>3, <1>4, <1>5 DEF NamedUsers, Confirmed
<1>9. SessionDicSound'
  <2> SUFFICES ASSUME NEW t \in Session, HasUser(t)'
               PROVE  /\ UserOf(t)' \in Confirmed'
                      /\ m_UserObjPool'[UserOf(t)'].m_SessionIndex = t
    BY DEF SessionDicSound
  <2>1. HasUser(t) /\ UserOf(t)' = UserOf(t)
    BY DEF HasUser, UserOf
  <2>2. UserOf(t) \in Confirmed /\ m_UserObjPool[UserOf(t)].m_SessionIndex = t
    BY <1>2, <2>1 DEF SessionDicSound
  <2>3. UserOf(t) \in UserIndex
    BY <2>2 DEF Confirmed
  <2>4. m_UserObjPool'[UserOf(t)].m_SessionIndex = m_UserObjPool[UserOf(t)].m_SessionIndex
    <3>1. CASE UserOf(t) = u
      BY <1>1, <1>3, <1>4, <3>1
    <3>2. CASE UserOf(t) # u
      BY <1>4, <2>3, <3>2
    <3> QED BY <3>1, <3>2
  <2> QED BY <1>5, <2>1, <2>2, <2>4
<1>10. PlaceInv'
  <2>1. \A v \in UserIndex : WellPlaced(v, m_UserObjPool[v])
    BY DEF StateInv, PlaceInv, Placed
  <2>2. \A v \in UserIndex \ {u} : WellPlaced(v, m_UserObjPool[v])'
    BY <1>4, <2>1 DEF WellPlaced
  <2>3. m_UserSessionDic'[s] = u /\ s \in Session
    BY <1>1 DEF UserOf
  <2>4. /\ user.m_IsConfirm <=> user.m_CurDomainState # "NONE"
        /\ user.m_CurDomainState \in {"LOBBY", "ROOM"} =>
             /\ user.m_LobbyIndex \in LobbyIndex
             /\ user.m_SessionIndex \in Session
             /\ m_UserSessionDic'[user.m_SessionIndex] = u
        /\ user.m_CurDomainState = "ROOM" => user.m_RoomIndex \in RoomIndex
    BY <1>3, <2>3 DEF Relocated
  <2>5. IndexTypes'
    <3>1. IndexTypes
      BY DEF StateInv, PlaceInv
    <3> QED BY <1>1, <1>4, <3>1 DEF IndexTypes, Relocated
  <2>6. Placed'
    BY <1>4, <2>2, <2>4 DEF Placed, WellPlaced
  <2> QED BY <2>5, <2>6 DEF PlaceInv
<1>11. Inv'
  BY <1>6, <1>7, <1>8, <1>9, PartitionPartsNext DEF Inv
<1> QED BY <1>4, <1>10, <1>11 DEF u

\* Whoever else is in a lobby or a room stays there.
LEMMA OthersStay ==
    ASSUME NEW u \in UserIndex,
           \A v \in UserIndex \ {u} : m_UserObjPool'[v] = m_UserObjPool[v]
    PROVE  /\ \A l : Members(l)' \ {u} = Members(l) \ {u}
           /\ \A l, r : Inside(l, r)' \ {u} = Inside(l, r) \ {u}
           /\ \A l : u \in Members(l)' <=>
                /\ m_UserObjPool'[u].m_CurDomainState \in {"LOBBY", "ROOM"}
                /\ m_UserObjPool'[u].m_LobbyIndex = l
           /\ \A l, r : u \in Inside(l, r)' <=>
                /\ m_UserObjPool'[u].m_CurDomainState = "ROOM"
                /\ m_UserObjPool'[u].m_LobbyIndex = l
                /\ m_UserObjPool'[u].m_RoomIndex = r
           /\ \A l : (u \in Members(l)' <=> u \in Members(l)) => Members(l)' = Members(l)
           /\ \A l, r : (u \in Inside(l, r)' <=> u \in Inside(l, r)) =>
                Inside(l, r)' = Inside(l, r)
<1>1. \A l : Members(l)' \ {u} = Members(l) \ {u}
  BY DEF Members
<1>2. \A l, r : Inside(l, r)' \ {u} = Inside(l, r) \ {u}
  BY DEF Inside
<1>3. \A A, B : A \ {u} = B \ {u} /\ (u \in A <=> u \in B) => A = B
  OBVIOUS
<1>4. \A l : (u \in Members(l)' <=> u \in Members(l)) => Members(l)' = Members(l)
  BY <1>1, <1>3
<1>5. \A l, r : (u \in Inside(l, r)' <=> u \in Inside(l, r)) => Inside(l, r)' = Inside(l, r)
  BY <1>2, <1>3
<1> QED BY <1>1, <1>2, <1>4, <1>5 DEF Members, Inside

\* Where the user of a session is.
LEMMA WhereUser ==
    ASSUME NEW u \in UserIndex
    PROVE  /\ \A l : u \in Members(l) <=>
                /\ m_UserObjPool[u].m_CurDomainState \in {"LOBBY", "ROOM"}
                /\ m_UserObjPool[u].m_LobbyIndex = l
           /\ \A l, r : u \in Inside(l, r) <=>
                /\ m_UserObjPool[u].m_CurDomainState = "ROOM"
                /\ m_UserObjPool[u].m_LobbyIndex = l
                /\ m_UserObjPool[u].m_RoomIndex = r
           /\ \A l : Members(l) \in SUBSET UserIndex
           /\ \A l, r : Inside(l, r) \in SUBSET UserIndex
BY DEF Members, Inside

-----------------------------------------------------------------------------
(* The checks that begin the handlers.                                     *)

LEMMA DomainFound ==
    ASSUME NEW s, NEW domain, NEW error, error # "NONE", DomainError(s, domain, error) = "NONE"
    PROVE  HasUser(s) /\ User(s).m_CurDomainState = domain
BY DEF DomainError, GetUserError

LEMMA LobbyFound ==
    ASSUME NEW s, NEW domain, NEW error, NEW lobbyError, error # "NONE", lobbyError # "NONE",
           LobbyError(s, domain, error, lobbyError) = "NONE"
    PROVE  /\ HasUser(s) /\ User(s).m_CurDomainState = domain
           /\ User(s).m_LobbyIndex \in LobbyIndex
<1>1. DomainError(s, domain, error) = "NONE" /\ HasLobby(User(s).m_LobbyIndex)
  BY DEF LobbyError
<1> QED BY <1>1, DomainFound DEF HasLobby

LEMMA LoginSame ==
    ASSUME StateInv, UNCHANGED <<m_UserSessionDic, connectedVars>>
    PROVE  ConnectedTypes' /\ LoginAgrees'
BY DEF StateInv, connectedVars, ConnectedTypes, LoginAgrees, HasUser

-----------------------------------------------------------------------------
(* The handlers that move a user, one by one: what each finds and does,    *)
(* and that it preserves the invariant.                                    *)

LEMMA RelocatedInLobby ==
    ASSUME StateInv, NEW s \in Session, HasUser(s), NEW l \in LobbyIndex
    PROVE  Relocated(s, UserInLobby(User(s), l))
<1>1. User(s) \in UserRecord /\ User(s).m_SessionIndex = s /\ User(s).m_IsConfirm
  BY UserFacts
<1>2. User(s).m_RoomIndex \in RoomIndex \cup {None}
  BY UserFacts DEF StateInv, PlaceInv, IndexTypes
<1>3. l \in Int
  BY PlaceIndices
<1> DEFINE user == UserInLobby(User(s), l)
<1>4. /\ user \in UserRecord /\ user.m_SessionIndex = User(s).m_SessionIndex
      /\ user.m_IsConfirm = User(s).m_IsConfirm /\ user.m_ID = User(s).m_ID
      /\ user.m_CurDomainState = "LOBBY" /\ user.m_LobbyIndex = l
      /\ user.m_RoomIndex = User(s).m_RoomIndex
  BY <1>1, <1>3 DEF UserInLobby, UserRecord, Domain
<1> HIDE DEF user
<1> QED BY <1>1, <1>2, <1>4 DEF Relocated, user

LEMMA RelocatedInLogin ==
    ASSUME StateInv, NEW s \in Session, HasUser(s)
    PROVE  Relocated(s, UserInLogin(User(s)))
<1>1. User(s) \in UserRecord /\ User(s).m_SessionIndex = s /\ User(s).m_IsConfirm
  BY UserFacts
<1>2. /\ User(s).m_RoomIndex \in RoomIndex \cup {None}
      /\ User(s).m_LobbyIndex \in LobbyIndex \cup {None}
  BY UserFacts DEF StateInv, PlaceInv, IndexTypes
<1> DEFINE user == UserInLogin(User(s))
<1>3. /\ user \in UserRecord /\ user.m_SessionIndex = User(s).m_SessionIndex
      /\ user.m_IsConfirm = User(s).m_IsConfirm /\ user.m_ID = User(s).m_ID
      /\ user.m_CurDomainState = "LOGIN" /\ user.m_LobbyIndex = User(s).m_LobbyIndex
      /\ user.m_RoomIndex = User(s).m_RoomIndex
  BY <1>1 DEF UserInLogin, UserRecord, Domain
<1> HIDE DEF user
<1> QED BY <1>1, <1>2, <1>3 DEF Relocated, user

LEMMA RelocatedInRoom ==
    ASSUME StateInv, NEW s \in Session, HasUser(s), NEW l \in LobbyIndex, NEW r \in RoomIndex
    PROVE  Relocated(s, UserInRoom(User(s), l, r))
<1>1. User(s) \in UserRecord /\ User(s).m_SessionIndex = s /\ User(s).m_IsConfirm
  BY UserFacts
<1>2. l \in Int /\ r \in Int
  BY PlaceIndices
<1> DEFINE user == UserInRoom(User(s), l, r)
<1>3. /\ user \in UserRecord /\ user.m_SessionIndex = User(s).m_SessionIndex
      /\ user.m_IsConfirm = User(s).m_IsConfirm /\ user.m_ID = User(s).m_ID
      /\ user.m_CurDomainState = "ROOM" /\ user.m_LobbyIndex = l /\ user.m_RoomIndex = r
  BY <1>1, <1>2 DEF UserInRoom, UserRecord, Domain
<1> HIDE DEF user
<1> QED BY <1>1, <1>3 DEF Relocated, user

\* Entering a lobby: a user in no lobby gets an empty slot of one that has
\* fewer users than slots.
LEMMA LobbyEnterFacts ==
    ASSUME StateInv, NEW s \in Session, NEW l, LobbyEnter(s, l), NEW u, u = UserOf(s)
    PROVE  /\ HasUser(s) /\ u \in UserIndex /\ l \in LobbyIndex
           /\ m_UserObjPool[u].m_CurDomainState = "LOGIN"
           /\ ~LobbyFull(l)
           /\ m_UserObjPool'[u] = UserInLobby(m_UserObjPool[u], l)
           /\ m_UserObjPool'[u].m_CurDomainState = "LOBBY" /\ m_UserObjPool'[u].m_LobbyIndex = l
           /\ \A v \in UserIndex \ {u} : m_UserObjPool'[v] = m_UserObjPool[v]
           /\ Members(l)' = Members(l) \cup {u} /\ u \notin Members(l)
           /\ \A k : k # l => Members(k)' = Members(k)
           /\ \A k, r : Inside(k, r)' = Inside(k, r)
           /\ Inv' /\ PlaceInv'
<1>1. /\ LobbyEnterError(s, l) = "NONE"
      /\ m_UserObjPool' = [m_UserObjPool EXCEPT ![u] = UserInLobby(@, l)]
      /\ UNCHANGED <<m_UserObjPoolIndex, m_UserSessionDic, m_UserIDDic>>
  BY DEF LobbyEnter
<1>2. /\ DomainError(s, "LOGIN", "LOBBY_ENTER_INVALID_DOMAIN") = "NONE"
      /\ l \in LobbyIndex /\ EnterUserError(l, u) = "NONE"
  BY <1>1 DEF LobbyEnterError, HasLobby
<1>3. HasUser(s) /\ User(s).m_CurDomainState = "LOGIN"
  BY <1>2, DomainFound
<1>4. /\ u \in UserIndex /\ User(s) = m_UserObjPool[u] /\ User(s) \in UserRecord
  BY <1>3, UserFacts
<1>5. ~LobbyFull(l)
  BY <1>2 DEF EnterUserError
<1>6. m_UserObjPool' = [m_UserObjPool EXCEPT ![UserOf(s)] = UserInLobby(User(s), l)]
  BY <1>1, <1>4, Types DEF StateInv, Inv
<1>7. Relocated(s, UserInLobby(User(s), l))
  BY <1>2, <1>3, RelocatedInLobby
<1>8. /\ Inv' /\ PlaceInv' /\ m_UserObjPool'[u] = UserInLobby(User(s), l)
      /\ \A v \in UserIndex \ {u} : m_UserObjPool'[v] = m_UserObjPool[v]
  BY <1>1, <1>3, <1>6, <1>7, MovedUser
<1>9. m_UserObjPool'[u].m_CurDomainState = "LOBBY" /\ m_UserObjPool'[u].m_LobbyIndex = l
  BY <1>4, <1>8 DEF UserInLobby, UserRecord
<1>10. /\ \A k : u \notin Members(k)
       /\ \A k, r : u \notin Inside(k, r)
  BY <1>3, <1>4, WhereUser
<1>11. /\ Members(l)' = Members(l) \cup {u}
       /\ \A k : k # l => Members(k)' = Members(k)
       /\ \A k, r : Inside(k, r)' = Inside(k, r)
  <2>1. /\ \A k : Members(k)' \ {u} = Members(k) \ {u}
        /\ \A k, r : Inside(k, r)' \ {u} = Inside(k, r) \ {u}
        /\ \A k : (u \in Members(k)' <=> u \in Members(k)) => Members(k)' = Members(k)
        /\ \A k, r : (u \in Inside(k, r)' <=> u \in Inside(k, r)) =>
             Inside(k, r)' = Inside(k, r)
    BY <1>4, <1>8, OthersStay
  <2>2. /\ \A k : u \in Members(k)' <=> k = l
        /\ \A k, r : u \notin Inside(k, r)'
    BY <1>4, <1>8, <1>9, OthersStay
  <2>3. \A k, r : Inside(k, r)' = Inside(k, r)
    BY <1>10, <2>1, <2>2
  <2>4. \A k : k # l => Members(k)' = Members(k)
    BY <1>10, <2>1, <2>2
  <2> QED BY <2>1, <2>2, <2>3, <2>4
<1> QED BY <1>2, <1>3, <1>4, <1>5, <1>8, <1>9, <1>10, <1>11

LEMMA LobbyEnterInv ==
    ASSUME StateInv, NEW s \in Session, NEW l, LobbyEnter(s, l)
    PROVE  StateInv'
<1>1. PICK u : u = UserOf(s)
  OBVIOUS
<1>2. /\ u \in UserIndex /\ l \in LobbyIndex
      /\ Members(l)' = Members(l) \cup {u} /\ u \notin Members(l)
      /\ \A k : k # l => Members(k)' = Members(k)
      /\ \A k, r : Inside(k, r)' = Inside(k, r)
      /\ Inv' /\ PlaceInv'
  BY <1>1, LobbyEnterFacts
<1>3. /\ LobbyEnterError(s, l) = "NONE" /\ EnterUser(l, u)
      /\ UNCHANGED <<m_UserSessionDic, m_RoomList, connectedVars>>
  BY <1>1 DEF LobbyEnter
<1>4. LobbyTypes /\ DicAgrees /\ SlotsAgree /\ RoomLists
  BY DEF StateInv, LobbyInv
<1>5. PICK k : k = Lowest(EmptySlots(l))
  OBVIOUS
<1>6. k \in Slot /\ m_UserList[l][k] = None
  <2>1. EmptySlots(l) # {}
    BY <1>1, <1>3 DEF LobbyEnterError, EnterUserError
  <2>2. EmptySlots(l) \subseteq Nat
    BY PlaceIndices DEF EmptySlots
  <2>3. k \in EmptySlots(l)
    BY <1>5, <2>1, <2>2, LowestLeast
  <2> QED BY <2>3 DEF EmptySlots
<1>7. /\ m_UserList' = [m_UserList EXCEPT ![l][k] = u]
      /\ m_UserIndexDic' = [m_UserIndexDic EXCEPT ![l] = @ \cup {u}]
  BY <1>3, <1>5 DEF EnterUser
<1>8. /\ m_UserList'[l] = [m_UserList[l] EXCEPT ![k] = u]
      /\ \A j \in LobbyIndex \ {l} : m_UserList'[j] = m_UserList[j]
      /\ m_UserList' \in [LobbyIndex -> [Slot -> UserIndex \cup {None}]]
  BY <1>2, <1>4, <1>6, <1>7 DEF LobbyTypes
<1>9. /\ m_UserIndexDic'[l] = m_UserIndexDic[l] \cup {u}
      /\ \A j \in LobbyIndex \ {l} : m_UserIndexDic'[j] = m_UserIndexDic[j]
      /\ m_UserIndexDic' \in [LobbyIndex -> SUBSET UserIndex]
  BY <1>2, <1>4, <1>7 DEF LobbyTypes
<1>10. LobbyTypes'
  BY <1>3, <1>4, <1>8, <1>9 DEF LobbyTypes
<1>11. DicAgrees'
  BY <1>2, <1>4, <1>9 DEF DicAgrees
<1>12. SlotsAgree'
  <2>1. SlotsHold(m_UserList[l], Members(l)) /\ Members(l) \in SUBSET UserIndex
    BY <1>2, <1>4, WhereUser DEF SlotsAgree
  <2>2. SlotsHold([m_UserList[l] EXCEPT ![k] = u], Members(l) \cup {u})
    BY <1>2, <1>6, <2>1, SlotTaken
  <2>3. SlotsHold(m_UserList'[l], Members(l)')
    BY <1>2, <1>8, <2>2
  <2>4. \A j \in LobbyIndex \ {l} : SlotsHold(m_UserList'[j], Members(j)')
    BY <1>2, <1>4, <1>8 DEF SlotsAgree
  <2> QED BY <2>3, <2>4 DEF SlotsAgree, SlotsHold
<1>13. RoomLists'
  BY <1>2, <1>3, <1>4 DEF RoomLists, RoomHolds
<1>14. ConnectedTypes' /\ LoginAgrees'
  BY <1>3, LoginSame
<1> QED BY <1>2, <1>10, <1>11, <1>12, <1>13, <1>14 DEF StateInv, LobbyInv

\* Leaving a lobby, from the lobby itself.
LEMMA LobbyLeaveFacts ==
    ASSUME StateInv, NEW s \in Session, LobbyLeave(s), NEW u, u = UserOf(s),
           NEW l, l = User(s).m_LobbyIndex
    PROVE  /\ HasUser(s) /\ u \in UserIndex /\ l \in LobbyIndex
           /\ m_UserObjPool[u].m_CurDomainState = "LOBBY" /\ m_UserObjPool[u].m_LobbyIndex = l
           /\ m_UserObjPool'[u] = UserInLogin(m_UserObjPool[u])
           /\ m_UserObjPool'[u].m_CurDomainState = "LOGIN"
           /\ \A v \in UserIndex \ {u} : m_UserObjPool'[v] = m_UserObjPool[v]
           /\ \A k : Members(k)' = Members(k) \ {u}
           /\ \A k : k # l => Members(k)' = Members(k)
           /\ \A k, r : Inside(k, r)' = Inside(k, r)
           /\ Inv' /\ PlaceInv'
<1>1. /\ LobbyLeaveError(s) = "NONE"
      /\ m_UserObjPool' = [m_UserObjPool EXCEPT ![u] = UserInLogin(@)]
      /\ UNCHANGED <<m_UserObjPoolIndex, m_UserSessionDic, m_UserIDDic>>
  BY DEF LobbyLeave
<1>2. LobbyError(s, "LOBBY", "LOBBY_LEAVE_INVALID_DOMAIN",
                 "LOBBY_LEAVE_INVALID_LOBBY_INDEX") = "NONE"
  BY <1>1 DEF LobbyLeaveError
<1>3. HasUser(s) /\ User(s).m_CurDomainState = "LOBBY" /\ l \in LobbyIndex
  BY <1>2, LobbyFound
<1>4. /\ u \in UserIndex /\ User(s) = m_UserObjPool[u] /\ User(s) \in UserRecord
  BY <1>3, UserFacts
<1>5. m_UserObjPool' = [m_UserObjPool EXCEPT ![UserOf(s)] = UserInLogin(User(s))]
  BY <1>1, <1>4, Types DEF StateInv, Inv
<1>6. Relocated(s, UserInLogin(User(s)))
  BY <1>3, RelocatedInLogin
<1>7. /\ Inv' /\ PlaceInv' /\ m_UserObjPool'[u] = UserInLogin(User(s))
      /\ \A v \in UserIndex \ {u} : m_UserObjPool'[v] = m_UserObjPool[v]
  BY <1>1, <1>3, <1>5, <1>6, MovedUser
<1>8. m_UserObjPool'[u].m_CurDomainState = "LOGIN"
  BY <1>4, <1>7 DEF UserInLogin, UserRecord
<1>9. /\ \A k : k # l => u \notin Members(k)
      /\ \A k, r : u \notin Inside(k, r)
  BY <1>3, <1>4, WhereUser
<1>10. /\ \A k : Members(k)' = Members(k) \ {u}
       /\ \A k : k # l => Members(k)' = Members(k)
       /\ \A k, r : Inside(k, r)' = Inside(k, r)
  <2>1. /\ \A k : Members(k)' \ {u} = Members(k) \ {u}
        /\ \A k, r : Inside(k, r)' \ {u} = Inside(k, r) \ {u}
        /\ \A k : (u \in Members(k)' <=> u \in Members(k)) => Members(k)' = Members(k)
        /\ \A k, r : (u \in Inside(k, r)' <=> u \in Inside(k, r)) =>
             Inside(k, r)' = Inside(k, r)
    BY <1>4, <1>7, OthersStay
  <2>2. /\ \A k : u \notin Members(k)'
        /\ \A k, r : u \notin Inside(k, r)'
    BY <1>4, <1>7, <1>8, OthersStay
  <2>3. \A k, r : Inside(k, r)' = Inside(k, r)
    BY <1>9, <2>1, <2>2
  <2>4. \A k : k # l => Members(k)' = Members(k)
    BY <1>9, <2>1, <2>2
  <2>5. \A k : Members(k)' = Members(k) \ {u}
    BY <2>1, <2>2
  <2> QED BY <2>3, <2>4, <2>5
<1> QED BY <1>3, <1>4, <1>7, <1>8, <1>10

\* LeaveUser takes the user out of the dictionary and out of its slot, and
\* changes nothing for a user that is not in the lobby.
LEMMA LeaveUserHolds ==
    ASSUME StateInv, NEW l \in LobbyIndex, NEW u \in UserIndex, LeaveUser(l, u),
           \A k \in LobbyIndex : k # l => Members(k)' = Members(k),
           Members(l)' = Members(l) \ {u}
    PROVE  /\ DicAgrees' /\ SlotsAgree'
           /\ m_UserList' \in [LobbyIndex -> [Slot -> UserIndex \cup {None}]]
           /\ m_UserIndexDic' \in [LobbyIndex -> SUBSET UserIndex]
<1>1. LobbyTypes /\ DicAgrees /\ SlotsAgree
  BY DEF StateInv, LobbyInv
<1>2. /\ m_UserList' = [m_UserList EXCEPT ![l] = SlotEmptied(l, u)]
      /\ m_UserIndexDic' = [m_UserIndexDic EXCEPT ![l] = @ \ {u}]
  BY DEF LeaveUser
<1>3. SlotsHold(SlotEmptied(l, u), Members(l) \ {u})
  <2>1. SlotsHold(m_UserList[l], Members(l)) /\ Members(l) \in SUBSET UserIndex
    BY <1>1, WhereUser DEF SlotsAgree
  <2> QED BY <2>1, SlotLeft
<1>4. /\ m_UserList'[l] = SlotEmptied(l, u)
      /\ \A j \in LobbyIndex \ {l} : m_UserList'[j] = m_UserList[j]
  BY <1>1, <1>2 DEF LobbyTypes
<1>5. m_UserList' \in [LobbyIndex -> [Slot -> UserIndex \cup {None}]]
  BY <1>1, <1>2, <1>3 DEF LobbyTypes, SlotsHold
<1>6. /\ m_UserIndexDic'[l] = m_UserIndexDic[l] \ {u}
      /\ \A j \in LobbyIndex \ {l} : m_UserIndexDic'[j] = m_UserIndexDic[j]
      /\ m_UserIndexDic' \in [LobbyIndex -> SUBSET UserIndex]
  BY <1>1, <1>2 DEF LobbyTypes
<1>7. DicAgrees'
  BY <1>1, <1>6 DEF DicAgrees
<1>8. SlotsAgree'
  <2>1. SlotsHold(m_UserList'[l], Members(l)')
    BY <1>3, <1>4
  <2>2. \A j \in LobbyIndex \ {l} : SlotsHold(m_UserList'[j], Members(j)')
    BY <1>1, <1>4 DEF SlotsAgree
  <2> QED BY <2>1, <2>2 DEF SlotsAgree, SlotsHold
<1> QED BY <1>5, <1>6, <1>7, <1>8

LEMMA LobbyLeaveInv ==
    ASSUME StateInv, NEW s \in Session, LobbyLeave(s)
    PROVE  StateInv'
<1>1. PICK u, l : u = UserOf(s) /\ l = User(s).m_LobbyIndex
  OBVIOUS
<1>2. /\ u \in UserIndex /\ l \in LobbyIndex
      /\ Members(l)' = Members(l) \ {u}
      /\ \A k : k # l => Members(k)' = Members(k)
      /\ \A k, r : Inside(k, r)' = Inside(k, r)
      /\ Inv' /\ PlaceInv'
  BY <1>1, LobbyLeaveFacts
<1>3. LeaveUser(l, u) /\ UNCHANGED <<m_UserSessionDic, m_RoomList, connectedVars>>
  BY <1>1 DEF LobbyLeave
<1>4. LobbyTypes /\ RoomLists
  BY DEF StateInv, LobbyInv
<1>5. /\ DicAgrees' /\ SlotsAgree'
      /\ m_UserList' \in [LobbyIndex -> [Slot -> UserIndex \cup {None}]]
      /\ m_UserIndexDic' \in [LobbyIndex -> SUBSET UserIndex]
  BY <1>2, <1>3, LeaveUserHolds
<1>6. LobbyTypes'
  BY <1>3, <1>4, <1>5 DEF LobbyTypes
<1>7. RoomLists'
  BY <1>2, <1>3, <1>4 DEF RoomLists, RoomHolds
<1>8. ConnectedTypes' /\ LoginAgrees'
  BY <1>3, LoginSame
<1> QED BY <1>2, <1>5, <1>6, <1>7, <1>8 DEF StateInv, LobbyInv

\* Entering a room: an existing room that is used and not full, or the first
\* that is not used.
LEMMA RoomEnterFacts ==
    ASSUME StateInv, NEW s \in Session, NEW isCreate \in BOOLEAN, NEW q, RoomEnter(s, isCreate, q),
           NEW u, u = UserOf(s), NEW l, l = User(s).m_LobbyIndex,
           NEW room, room = IF isCreate THEN FirstUnusedRoom(l) ELSE q
    PROVE  /\ HasUser(s) /\ u \in UserIndex /\ l \in LobbyIndex /\ room \in RoomIndex
           /\ m_UserObjPool[u].m_CurDomainState = "LOBBY" /\ m_UserObjPool[u].m_LobbyIndex = l
           /\ m_UserObjPool'[u] = UserInRoom(m_UserObjPool[u], l, room)
           /\ m_UserObjPool'[u].m_CurDomainState = "ROOM" /\ m_UserObjPool'[u].m_LobbyIndex = l
           /\ m_UserObjPool'[u].m_RoomIndex = room
           /\ \A v \in UserIndex \ {u} : m_UserObjPool'[v] = m_UserObjPool[v]
           /\ \A k : Members(k)' = Members(k)
           /\ Inside(l, room)' = Inside(l, room) \cup {u} /\ u \notin Inside(l, room)
           /\ \A k, r : k # l \/ r # room => Inside(k, r)' = Inside(k, r)
           /\ \/ isCreate /\ ~m_RoomList[l][room].m_IsUsed
              \/ ~isCreate /\ m_RoomList[l][room].m_IsUsed /\ ~Full(m_RoomList[l][room])
           /\ Inv' /\ PlaceInv'
<1>1. /\ RoomEnterError(s, isCreate, q) = "NONE"
      /\ m_UserObjPool' = [m_UserObjPool EXCEPT ![u] = UserInRoom(@, l, room)]
      /\ UNCHANGED <<m_UserObjPoolIndex, m_UserSessionDic, m_UserIDDic>>
  BY DEF RoomEnter
<1>2. LobbyError(s, "LOBBY", "ROOM_ENTER_INVALID_DOMAIN",
                 "ROOM_ENTER_INVALID_LOBBY_INDEX") = "NONE"
  BY <1>1 DEF RoomEnterError
<1>3. HasUser(s) /\ User(s).m_CurDomainState = "LOBBY" /\ l \in LobbyIndex
  BY <1>2, LobbyFound
<1>4. /\ u \in UserIndex /\ User(s) = m_UserObjPool[u] /\ User(s) \in UserRecord
  BY <1>3, UserFacts
<1>5. /\ room \in RoomIndex
      /\ \/ isCreate /\ ~m_RoomList[l][room].m_IsUsed
         \/ ~isCreate /\ m_RoomList[l][room].m_IsUsed /\ ~Full(m_RoomList[l][room])
  <2>1. CASE isCreate
    <3>1. UnusedRooms(l) # {}
      BY <1>1, <1>2, <2>1 DEF RoomEnterError
    <3>2. UnusedRooms(l) \subseteq Nat
      BY PlaceIndices DEF UnusedRooms
    <3>3. room \in UnusedRooms(l)
      BY <2>1, <3>1, <3>2, LowestLeast DEF FirstUnusedRoom
    <3> QED BY <2>1, <3>3 DEF UnusedRooms
  <2>2. CASE ~isCreate
    <3>1. HasRoom(q) /\ EnterRoomError(m_RoomList[l][q]) = "NONE"
      BY <1>1, <1>2, <2>2 DEF RoomEnterError
    <3>2. m_RoomList[l][q].m_IsUsed /\ ~Full(m_RoomList[l][q])
      BY <3>1 DEF EnterRoomError
    <3> QED BY <2>2, <3>1, <3>2 DEF HasRoom
  <2> QED BY <2>1, <2>2
<1>6. m_UserObjPool' = [m_UserObjPool EXCEPT ![UserOf(s)] = UserInRoom(User(s), l, room)]
  BY <1>1, <1>4, Types DEF StateInv, Inv
<1>7. Relocated(s, UserInRoom(User(s), l, room))
  BY <1>3, <1>5, RelocatedInRoom
<1>8. /\ Inv' /\ PlaceInv' /\ m_UserObjPool'[u] = UserInRoom(User(s), l, room)
      /\ \A v \in UserIndex \ {u} : m_UserObjPool'[v] = m_UserObjPool[v]
  BY <1>1, <1>3, <1>6, <1>7, MovedUser
<1>9. /\ m_UserObjPool'[u].m_CurDomainState = "ROOM" /\ m_UserObjPool'[u].m_LobbyIndex = l
      /\ m_UserObjPool'[u].m_RoomIndex = room
  BY <1>4, <1>8 DEF UserInRoom, UserRecord
<1>10. /\ \A k : u \in Members(k) <=> k = l
       /\ \A k, r : u \notin Inside(k, r)
  BY <1>3, <1>4, WhereUser
<1>11. /\ \A k : Members(k)' = Members(k)
       /\ Inside(l, room)' = Inside(l, room) \cup {u}
       /\ \A k, r : k # l \/ r # room => Inside(k, r)' = Inside(k, r)
  <2>1. /\ \A k : Members(k)' \ {u} = Members(k) \ {u}
        /\ \A k, r : Inside(k, r)' \ {u} = Inside(k, r) \ {u}
        /\ \A k : (u \in Members(k)' <=> u \in Members(k)) => Members(k)' = Members(k)
        /\ \A k, r : (u \in Inside(k, r)' <=> u \in Inside(k, r)) =>
             Inside(k, r)' = Inside(k, r)
    BY <1>4, <1>8, OthersStay
  <2>2. /\ \A k : u \in Members(k)' <=> k = l
        /\ \A k, r : u \in Inside(k, r)' <=> k = l /\ r = room
    BY <1>4, <1>8, <1>9, OthersStay
  <2>3. Inside(l, room)' = Inside(l, room) \cup {u}
    BY <2>1, <2>2
  <2>4. \A k : Members(k)' = Members(k)
    BY <1>10, <2>1, <2>2
  <2>5. \A k, r : k # l \/ r # room => Inside(k, r)' = Inside(k, r)
    BY <1>10, <2>1, <2>2
  <2> QED BY <2>3, <2>4, <2>5
<1> QED BY <1>3, <1>4, <1>5, <1>8, <1>9, <1>10, <1>11

\* A change of one room of one lobby.
LEMMA RoomChanged ==
    ASSUME StateInv, NEW l \in LobbyIndex, NEW r \in RoomIndex, NEW after,
           m_RoomList' = [m_RoomList EXCEPT ![l][r] = after],
           RoomHolds(after, Inside(l, r)'),
           \A k, q : k # l \/ q # r => Inside(k, q)' = Inside(k, q)
    PROVE  RoomLists' /\ m_RoomList' \in [LobbyIndex -> [RoomIndex -> RoomRecord]]
<1>1. LobbyTypes /\ RoomLists
  BY DEF StateInv, LobbyInv
<1>2. /\ m_RoomList'[l][r] = after
      /\ \A k \in LobbyIndex, q \in RoomIndex : k # l \/ q # r =>
           m_RoomList'[k][q] = m_RoomList[k][q]
  BY <1>1 DEF LobbyTypes
<1>3. m_RoomList' \in [LobbyIndex -> [RoomIndex -> RoomRecord]]
  BY <1>1 DEF LobbyTypes, RoomHolds
<1>4. ASSUME NEW k \in LobbyIndex, NEW q \in RoomIndex
      PROVE  RoomHolds(m_RoomList'[k][q], Inside(k, q)')
  <2>1. CASE k = l /\ q = r
    BY <1>2, <2>1
  <2>2. CASE k # l \/ q # r
    BY <1>1, <1>2, <2>2 DEF RoomLists
  <2> QED BY <2>1, <2>2
<1>5. RoomLists'
  BY <1>4 DEF RoomLists, RoomHolds
<1> QED BY <1>3, <1>5

LEMMA RoomEnterInv ==
    ASSUME StateInv, NEW s \in Session, NEW isCreate \in BOOLEAN, NEW q, RoomEnter(s, isCreate, q)
    PROVE  StateInv'
<1>1. PICK u, l, room : /\ u = UserOf(s) /\ l = User(s).m_LobbyIndex
                        /\ room = IF isCreate THEN FirstUnusedRoom(l) ELSE q
  OBVIOUS
<1>2. /\ u \in UserIndex /\ l \in LobbyIndex /\ room \in RoomIndex
      /\ \A k : Members(k)' = Members(k)
      /\ Inside(l, room)' = Inside(l, room) \cup {u} /\ u \notin Inside(l, room)
      /\ \A k, r : k # l \/ r # room => Inside(k, r)' = Inside(k, r)
      /\ \/ isCreate /\ ~m_RoomList[l][room].m_IsUsed
         \/ ~isCreate /\ m_RoomList[l][room].m_IsUsed /\ ~Full(m_RoomList[l][room])
      /\ Inv' /\ PlaceInv'
  BY <1>1, RoomEnterFacts
<1>3. /\ m_RoomList' = [m_RoomList EXCEPT
             ![l][room] = EnteredRoom(Target(l, isCreate, room), u)]
      /\ UNCHANGED <<m_UserSessionDic, m_UserList, m_UserIndexDic, connectedVars>>
  BY <1>1 DEF RoomEnter
<1>4. LobbyTypes /\ DicAgrees /\ SlotsAgree /\ RoomLists
  BY DEF StateInv, LobbyInv
<1>5. RoomHolds(EnteredRoom(Target(l, isCreate, room), u), Inside(l, room)')
  <2>1. RoomHolds(m_RoomList[l][room], Inside(l, room))
    BY <1>2, <1>4 DEF RoomLists
  <2>2. Inside(l, room) \in SUBSET UserIndex /\ u \in UserIndex \ Inside(l, room)
    BY <1>2, WhereUser
  <2>3. PICK target : target = Target(l, isCreate, room)
    OBVIOUS
  <2>4. \/ target = m_RoomList[l][room] /\ m_RoomList[l][room].m_IsUsed
           /\ ~Full(m_RoomList[l][room])
        \/ target = CreatedRoom(m_RoomList[l][room]) /\ ~m_RoomList[l][room].m_IsUsed
    BY <1>2, <2>3 DEF Target
  <2>5. RoomHolds(EnteredRoom(target, u), Inside(l, room) \cup {u})
    BY <2>1, <2>2, <2>4, EnteredHolds
  <2> QED BY <1>2, <2>3, <2>5
<1>6. RoomLists' /\ m_RoomList' \in [LobbyIndex -> [RoomIndex -> RoomRecord]]
  BY <1>2, <1>3, <1>5, RoomChanged
<1>7. LobbyTypes'
  BY <1>3, <1>4, <1>6 DEF LobbyTypes
<1>8. DicAgrees' /\ SlotsAgree'
  BY <1>2, <1>3, <1>4 DEF DicAgrees, SlotsAgree, SlotsHold
<1>9. ConnectedTypes' /\ LoginAgrees'
  BY <1>3, LoginSame
<1> QED BY <1>2, <1>6, <1>7, <1>8, <1>9 DEF StateInv, LobbyInv

\* Leaving a room for its lobby.
LEMMA RoomLeaveFacts ==
    ASSUME StateInv, NEW s \in Session, RoomLeave(s), NEW u, u = UserOf(s),
           NEW l, l = User(s).m_LobbyIndex, NEW r, r = User(s).m_RoomIndex
    PROVE  /\ HasUser(s) /\ u \in UserIndex /\ l \in LobbyIndex /\ r \in RoomIndex
           /\ m_UserObjPool[u].m_CurDomainState = "ROOM" /\ m_UserObjPool[u].m_LobbyIndex = l
           /\ m_UserObjPool[u].m_RoomIndex = r
           /\ m_UserObjPool'[u] = UserInLobby(m_UserObjPool[u], l)
           /\ m_UserObjPool'[u].m_CurDomainState = "LOBBY" /\ m_UserObjPool'[u].m_LobbyIndex = l
           /\ \A v \in UserIndex \ {u} : m_UserObjPool'[v] = m_UserObjPool[v]
           /\ \A k : Members(k)' = Members(k)
           /\ Inside(l, r)' = Inside(l, r) \ {u} /\ u \in Inside(l, r)
           /\ \A k, q : k # l \/ q # r => Inside(k, q)' = Inside(k, q)
           /\ Inv' /\ PlaceInv'
<1>1. /\ RoomLeaveError(s) = "NONE"
      /\ m_UserObjPool' = [m_UserObjPool EXCEPT ![u] = UserInLobby(@, l)]
      /\ UNCHANGED <<m_UserObjPoolIndex, m_UserSessionDic, m_UserIDDic>>
  BY DEF RoomLeave
<1>2. /\ LobbyError(s, "ROOM", "ROOM_LEAVE_INVALID_DOMAIN",
                    "ROOM_ENTER_INVALID_LOBBY_INDEX") = "NONE"
      /\ r \in RoomIndex
  <2>1. RoomMemberError(s, "ROOM_LEAVE_INVALID_DOMAIN",
                        "ROOM_ENTER_INVALID_LOBBY_INDEX") = "NONE"
    BY <1>1 DEF RoomLeaveError
  <2> QED BY <2>1 DEF RoomMemberError, HasRoom
<1>3. HasUser(s) /\ User(s).m_CurDomainState = "ROOM" /\ l \in LobbyIndex
  BY <1>2, LobbyFound
<1>4. /\ u \in UserIndex /\ User(s) = m_UserObjPool[u] /\ User(s) \in UserRecord
  BY <1>3, UserFacts
<1>5. m_UserObjPool' = [m_UserObjPool EXCEPT ![UserOf(s)] = UserInLobby(User(s), l)]
  BY <1>1, <1>4, Types DEF StateInv, Inv
<1>6. Relocated(s, UserInLobby(User(s), l))
  BY <1>3, RelocatedInLobby
<1>7. /\ Inv' /\ PlaceInv' /\ m_UserObjPool'[u] = UserInLobby(User(s), l)
      /\ \A v \in UserIndex \ {u} : m_UserObjPool'[v] = m_UserObjPool[v]
  BY <1>1, <1>3, <1>5, <1>6, MovedUser
<1>8. m_UserObjPool'[u].m_CurDomainState = "LOBBY" /\ m_UserObjPool'[u].m_LobbyIndex = l
  BY <1>4, <1>7 DEF UserInLobby, UserRecord
<1>9. /\ \A k : u \in Members(k) <=> k = l
      /\ \A k, q : u \in Inside(k, q) <=> k = l /\ q = r
  BY <1>3, <1>4, WhereUser
<1>10. /\ \A k : Members(k)' = Members(k)
       /\ Inside(l, r)' = Inside(l, r) \ {u}
       /\ \A k, q : k # l \/ q # r => Inside(k, q)' = Inside(k, q)
  <2>1. /\ \A k, q : Inside(k, q)' \ {u} = Inside(k, q) \ {u}
        /\ \A k : (u \in Members(k)' <=> u \in Members(k)) => Members(k)' = Members(k)
        /\ \A k, q : (u \in Inside(k, q)' <=> u \in Inside(k, q)) =>
             Inside(k, q)' = Inside(k, q)
    BY <1>4, <1>7, OthersStay
  <2>2. /\ \A k : u \in Members(k)' <=> k = l
        /\ \A k, q : u \notin Inside(k, q)'
    BY <1>4, <1>7, <1>8, OthersStay
  <2>3. Inside(l, r)' = Inside(l, r) \ {u}
    BY <2>1, <2>2
  <2>4. \A k : Members(k)' = Members(k)
    BY <1>9, <2>1, <2>2
  <2>5. \A k, q : k # l \/ q # r => Inside(k, q)' = Inside(k, q)
    BY <1>9, <2>1, <2>2
  <2> QED BY <2>3, <2>4, <2>5
<1> QED BY <1>2, <1>3, <1>4, <1>7, <1>8, <1>9, <1>10

LEMMA RoomLeaveInv ==
    ASSUME StateInv, NEW s \in Session, RoomLeave(s)
    PROVE  StateInv'
<1>1. PICK u, l, r : u = UserOf(s) /\ l = User(s).m_LobbyIndex /\ r = User(s).m_RoomIndex
  OBVIOUS
<1>2. /\ u \in UserIndex /\ l \in LobbyIndex /\ r \in RoomIndex
      /\ \A k : Members(k)' = Members(k)
      /\ Inside(l, r)' = Inside(l, r) \ {u} /\ u \in Inside(l, r)
      /\ \A k, q : k # l \/ q # r => Inside(k, q)' = Inside(k, q)
      /\ Inv' /\ PlaceInv'
  BY <1>1, RoomLeaveFacts
<1>3. /\ m_RoomList' = [m_RoomList EXCEPT ![l][r] = LeftRoom(@, u)]
      /\ UNCHANGED <<m_UserSessionDic, m_UserList, m_UserIndexDic, connectedVars>>
  BY <1>1 DEF RoomLeave
<1>4. LobbyTypes /\ DicAgrees /\ SlotsAgree /\ RoomLists
  BY DEF StateInv, LobbyInv
<1>5. m_RoomList' = [m_RoomList EXCEPT ![l][r] = LeftRoom(m_RoomList[l][r], u)]
  BY <1>2, <1>3, <1>4 DEF LobbyTypes
<1>6. RoomHolds(LeftRoom(m_RoomList[l][r], u), Inside(l, r)')
  <2>1. RoomHolds(m_RoomList[l][r], Inside(l, r)) /\ Inside(l, r) \in SUBSET UserIndex
    BY <1>2, <1>4, WhereUser DEF RoomLists
  <2> QED BY <1>2, <2>1, LeftHolds
<1>7. RoomLists' /\ m_RoomList' \in [LobbyIndex -> [RoomIndex -> RoomRecord]]
  BY <1>2, <1>5, <1>6, RoomChanged
<1>8. LobbyTypes'
  BY <1>3, <1>4, <1>7 DEF LobbyTypes
<1>9. DicAgrees' /\ SlotsAgree'
  BY <1>2, <1>3, <1>4 DEF DicAgrees, SlotsAgree, SlotsHold
<1>10. ConnectedTypes' /\ LoginAgrees'
  BY <1>3, LoginSame
<1> QED BY <1>2, <1>7, <1>8, <1>9, <1>10 DEF StateInv, LobbyInv

-----------------------------------------------------------------------------
(* Connecting, logging in and closing.                                     *)

LEMMA FreePlace ==
    ASSUME StateInv, NEW u \in UserIndex \ Confirmed
    PROVE  /\ m_UserObjPool[u].m_CurDomainState = "NONE"
           /\ m_UserObjPool[u].m_LobbyIndex = None /\ m_UserObjPool[u].m_RoomIndex = None
<1>1. Free(m_UserObjPool[u])
  BY PartitionParts DEF StateInv, Inv, FreeUsers
<1>2. m_UserObjPool[u] =
        [NewUser EXCEPT !.m_SessionIndex = m_UserObjPool[u].m_SessionIndex]
  BY <1>1 DEF Free
<1> QED BY <1>2 DEF NewUser

\* A login gives the session a free object, in no lobby, or, if the session
\* has one already, leaves that object to nobody.
LEMMA LoginFacts ==
    ASSUME StateInv, NEW s \in Session, NEW o \in Offsets, NEW id \in IDs, Login(s, <<s, o>>, id),
           NEW u, u = Head(m_UserObjPoolIndex)
    PROVE  /\ u \in UserIndex /\ u \notin Confirmed
           /\ m_UserObjPool'[u].m_CurDomainState = "LOGIN"
           /\ m_UserObjPool'[u].m_SessionIndex = s /\ m_UserObjPool'[u].m_IsConfirm
           /\ m_UserObjPool'[u].m_LobbyIndex = None /\ m_UserObjPool'[u].m_RoomIndex = None
           /\ \A v \in UserIndex \ {u} : m_UserObjPool'[v] = m_UserObjPool[v]
           /\ m_UserSessionDic' = Inserted(s, u)
           /\ \A k : Members(k)' = Members(k)
           /\ \A k, r : Inside(k, r)' = Inside(k, r)
<1>1. /\ m_UserObjPoolIndex # << >>
      /\ m_UserObjPool' = [m_UserObjPool EXCEPT ![u] = SetUser(@, s, id)]
      /\ m_UserSessionDic' = Inserted(s, u)
  BY DEF Login, AddUser, AddUserError
<1>2. /\ m_UserObjPool \in [UserIndex -> UserRecord]
      /\ m_UserObjPoolIndex \in Seq(UserIndex)
      /\ FreeHeld
  BY Types, PartitionParts DEF StateInv, Inv
<1>3. u \in UserIndex /\ u \notin Confirmed
  <2>1. Head(m_UserObjPoolIndex) \in UserIndex \cap (UserIndex \ Confirmed)
    BY <1>1, <1>2, TailHolds DEF FreeHeld
  <2> QED BY <2>1
<1>4. /\ m_UserObjPool[u].m_CurDomainState = "NONE"
      /\ m_UserObjPool[u].m_LobbyIndex = None /\ m_UserObjPool[u].m_RoomIndex = None
      /\ m_UserObjPool[u] \in UserRecord
  BY <1>2, <1>3, FreePlace
<1>5. /\ m_UserObjPool'[u] = SetUser(m_UserObjPool[u], s, id)
      /\ \A v \in UserIndex \ {u} : m_UserObjPool'[v] = m_UserObjPool[v]
  BY <1>1, <1>2, <1>3
<1>6. /\ m_UserObjPool'[u].m_CurDomainState = "LOGIN"
      /\ m_UserObjPool'[u].m_SessionIndex = s /\ m_UserObjPool'[u].m_IsConfirm
      /\ m_UserObjPool'[u].m_LobbyIndex = None /\ m_UserObjPool'[u].m_RoomIndex = None
  BY <1>4, <1>5 DEF SetUser, UserRecord
<1>7. /\ \A k : Members(k)' = Members(k)
      /\ \A k, r : Inside(k, r)' = Inside(k, r)
  <2>1. /\ \A k : u \notin Members(k)
        /\ \A k, r : u \notin Inside(k, r)
    BY <1>3, <1>4, WhereUser
  <2>2. /\ \A k : u \notin Members(k)'
        /\ \A k, r : u \notin Inside(k, r)'
    BY <1>3, <1>5, <1>6, OthersStay
  <2>3. /\ \A k : (u \in Members(k)' <=> u \in Members(k)) => Members(k)' = Members(k)
        /\ \A k, r : (u \in Inside(k, r)' <=> u \in Inside(k, r)) =>
             Inside(k, r)' = Inside(k, r)
    BY <1>3, <1>5, OthersStay
  <2> QED BY <2>1, <2>2, <2>3
<1> QED BY <1>1, <1>3, <1>5, <1>6, <1>7

LEMMA LobbySame ==
    ASSUME StateInv, UNCHANGED lobbyVars,
           \A k : Members(k)' = Members(k),
           \A k, r : Inside(k, r)' = Inside(k, r)
    PROVE  LobbyInv'
<1>1. LobbyTypes /\ DicAgrees /\ SlotsAgree /\ RoomLists
  BY DEF StateInv, LobbyInv
<1>2. LobbyTypes'
  BY <1>1 DEF lobbyVars, LobbyTypes
<1>3. DicAgrees' /\ SlotsAgree'
  BY <1>1 DEF lobbyVars, DicAgrees, SlotsAgree, SlotsHold
<1>4. RoomLists'
  BY <1>1 DEF lobbyVars, RoomLists, RoomHolds
<1> QED BY <1>2, <1>3, <1>4 DEF LobbyInv

LEMMA LoginInv ==
    ASSUME StateInv, NEW s \in Session, NEW o \in Offsets, NEW id \in IDs, Login(s, <<s, o>>, id)
    PROVE  StateInv'
<1>1. PICK u : u = Head(m_UserObjPoolIndex)
  OBVIOUS
<1>2. /\ u \in UserIndex /\ u \notin Confirmed
      /\ m_UserObjPool'[u].m_CurDomainState = "LOGIN" /\ m_UserObjPool'[u].m_IsConfirm
      /\ m_UserObjPool'[u].m_LobbyIndex = None /\ m_UserObjPool'[u].m_RoomIndex = None
      /\ \A v \in UserIndex \ {u} : m_UserObjPool'[v] = m_UserObjPool[v]
      /\ m_UserSessionDic' = Inserted(s, u)
      /\ \A k : Members(k)' = Members(k)
      /\ \A k, r : Inside(k, r)' = Inside(k, r)
  BY <1>1, LoginFacts
<1>3. /\ Packet(s) /\ AddUser(s, <<s, o>>, id)
      /\ m_IsLoginSuccess' = [m_IsLoginSuccess EXCEPT ![s] = TRUE]
      /\ UNCHANGED <<lobbyVars, m_ConnectedTime>>
  BY DEF Login
<1>4. Inv'
  BY <1>3, AddUserInv DEF StateInv
<1>5. /\ m_UserSessionDic \in [Session -> UserIndex \cup {None}]
      /\ \A t \in Session : HasUser(t) => m_UserSessionDic'[t] = m_UserSessionDic[t]
      /\ \A t \in Session : t # s => m_UserSessionDic'[t] = m_UserSessionDic[t]
      /\ m_UserSessionDic'[s] # None
  <2>1. m_UserSessionDic \in [Session -> UserIndex \cup {None}]
    BY Types DEF StateInv, Inv
  <2>2. CASE HasUser(s)
    BY <1>2, <2>1, <2>2 DEF Inserted, HasUser
  <2>3. CASE ~HasUser(s)
    <3>1. m_UserSessionDic' = [m_UserSessionDic EXCEPT ![s] = u]
      BY <1>2, <2>3 DEF Inserted
    <3> QED BY <1>2, <2>1, <2>3, <3>1, Indices DEF HasUser
  <2> QED BY <2>1, <2>2, <2>3
<1>6. PlaceInv'
  <2>1. IndexTypes /\ \A v \in UserIndex : WellPlaced(v, m_UserObjPool[v])
    BY DEF StateInv, PlaceInv, Placed
  <2>2. IndexTypes'
    BY <1>2, <2>1 DEF IndexTypes
  <2>3. ASSUME NEW v \in UserIndex \ {u}
        PROVE  WellPlaced(v, m_UserObjPool[v])'
    <3>1. /\ WellPlaced(v, m_UserObjPool[v])
          /\ m_UserObjPool'[v] = m_UserObjPool[v] /\ v # None
      BY <1>2, <2>1, Indices
    <3>2. m_UserObjPool[v].m_CurDomainState \in {"LOBBY", "ROOM"} =>
            m_UserSessionDic'[m_UserObjPool[v].m_SessionIndex] = v
      BY <1>5, <3>1 DEF WellPlaced, HasUser
    <3> QED BY <3>1, <3>2 DEF WellPlaced
  <2>4. Placed'
    BY <1>2, <2>3 DEF Placed, WellPlaced
  <2> QED BY <2>2, <2>4 DEF PlaceInv
<1>7. LobbyInv'
  BY <1>2, <1>3, LobbySame
<1>8. ConnectedTypes' /\ LoginAgrees'
  <2>1. ConnectedTypes /\ LoginAgrees
    BY DEF StateInv
  <2>2. ConnectedTypes'
    BY <1>3, <2>1 DEF ConnectedTypes
  <2>3. \A t \in Session : m_IsLoginSuccess'[t] = IF t = s THEN TRUE ELSE m_IsLoginSuccess[t]
    BY <1>3, <2>1 DEF ConnectedTypes
  <2>4. LoginAgrees'
    BY <1>3, <1>5, <2>1, <2>3 DEF LoginAgrees, HasUser, Packet
  <2> QED BY <2>2, <2>4
<1> QED BY <1>4, <1>6, <1>7, <1>8 DEF StateInv

\* The close of a session that has a user.
LEMMA CloseFacts ==
    ASSUME StateInv, NEW s \in Session, HasUser(s), RemoveUser(s), NEW u, u = UserOf(s)
    PROVE  /\ u \in UserIndex
           /\ m_UserObjPool'[u].m_CurDomainState = "NONE" /\ m_UserObjPool'[u].m_IsConfirm = FALSE
           /\ m_UserObjPool'[u].m_LobbyIndex = None /\ m_UserObjPool'[u].m_RoomIndex = None
           /\ \A v \in UserIndex \ {u} : m_UserObjPool'[v] = m_UserObjPool[v]
           /\ m_UserSessionDic'[s] = None
           /\ \A t \in Session \ {s} : m_UserSessionDic'[t] = m_UserSessionDic[t]
           /\ \A k : Members(k)' = Members(k) \ {u}
           /\ \A k : k # User(s).m_LobbyIndex => Members(k)' = Members(k)
           /\ \A k, r : Inside(k, r)' = Inside(k, r) \ {u}
           /\ Inv' /\ PlaceInv'
<1>1. /\ m_UserSessionDic' = [m_UserSessionDic EXCEPT ![s] = None]
      /\ m_UserObjPool' = [m_UserObjPool EXCEPT ![u] = Cleared(@)]
  BY DEF RemoveUser
<1>2. /\ u \in UserIndex /\ User(s) = m_UserObjPool[u] /\ User(s).m_SessionIndex = s
  BY UserFacts
<1>3. /\ m_UserObjPool \in [UserIndex -> UserRecord]
      /\ m_UserSessionDic \in [Session -> UserIndex \cup {None}]
  BY Types DEF StateInv, Inv
<1>4. /\ m_UserObjPool'[u] = Cleared(m_UserObjPool[u])
      /\ \A v \in UserIndex \ {u} : m_UserObjPool'[v] = m_UserObjPool[v]
  BY <1>1, <1>2, <1>3
<1>5. /\ m_UserObjPool'[u].m_CurDomainState = "NONE" /\ m_UserObjPool'[u].m_IsConfirm = FALSE
      /\ m_UserObjPool'[u].m_LobbyIndex = None /\ m_UserObjPool'[u].m_RoomIndex = None
  BY <1>4 DEF Cleared, NewUser
<1>6. /\ m_UserSessionDic'[s] = None
      /\ \A t \in Session \ {s} : m_UserSessionDic'[t] = m_UserSessionDic[t]
  BY <1>1, <1>3
<1>7. Inv'
  BY RemoveUserInv DEF StateInv
<1>8. /\ \A k : Members(k)' = Members(k) \ {u}
      /\ \A k : k # User(s).m_LobbyIndex => Members(k)' = Members(k)
      /\ \A k, r : Inside(k, r)' = Inside(k, r) \ {u}
  <2>1. /\ \A k : Members(k)' \ {u} = Members(k) \ {u}
        /\ \A k, r : Inside(k, r)' \ {u} = Inside(k, r) \ {u}
        /\ \A k : (u \in Members(k)' <=> u \in Members(k)) => Members(k)' = Members(k)
        /\ \A k, r : (u \in Inside(k, r)' <=> u \in Inside(k, r)) =>
             Inside(k, r)' = Inside(k, r)
    BY <1>2, <1>4, OthersStay
  <2>2. /\ \A k : u \notin Members(k)'
        /\ \A k, r : u \notin Inside(k, r)'
    BY <1>2, <1>4, <1>5, OthersStay
  <2>3. \A k : k # User(s).m_LobbyIndex => u \notin Members(k)
    BY <1>2, WhereUser
  <2>4. \A k : Members(k)' = Members(k) \ {u}
    BY <2>1, <2>2
  <2>5. \A k, r : Inside(k, r)' = Inside(k, r) \ {u}
    BY <2>1, <2>2
  <2> QED BY <2>1, <2>2, <2>3, <2>4, <2>5
<1>9. PlaceInv'
  <2>1. IndexTypes /\ \A v \in UserIndex : WellPlaced(v, m_UserObjPool[v])
    BY DEF StateInv, PlaceInv, Placed
  <2>2. IndexTypes'
    BY <1>4, <1>5, <2>1 DEF IndexTypes
  <2>3. ASSUME NEW v \in UserIndex \ {u}
        PROVE  WellPlaced(v, m_UserObjPool[v])'
    <3>1. /\ WellPlaced(v, m_UserObjPool[v])
          /\ m_UserObjPool'[v] = m_UserObjPool[v]
      BY <1>4, <2>1
    <3>2. m_UserObjPool[v].m_CurDomainState \in {"LOBBY", "ROOM"} =>
            m_UserSessionDic'[m_UserObjPool[v].m_SessionIndex] = v
      BY <1>2, <1>6, <3>1 DEF WellPlaced, UserOf
    <3> QED BY <3>1, <3>2 DEF WellPlaced
  <2>4. Placed'
    BY <1>5, <2>3 DEF Placed, WellPlaced
  <2> QED BY <2>2, <2>4 DEF PlaceInv
<1> QED BY <1>2, <1>4, <1>5, <1>6, <1>7, <1>8, <1>9

\* It leaves the room it is in, if it is in one, and the lobby it is in.
LEMMA LeaveEverythingHolds ==
    ASSUME StateInv, NEW s \in Session, HasUser(s), RemoveUser(s), LeaveEverything(s),
           User(s).m_LobbyIndex \in LobbyIndex
    PROVE  LobbyInv'
<1>1. PICK u, l, r : u = UserOf(s) /\ l = User(s).m_LobbyIndex /\ r = User(s).m_RoomIndex
  OBVIOUS
<1>2. /\ u \in UserIndex /\ l \in LobbyIndex
      /\ \A k : Members(k)' = Members(k) \ {u}
      /\ \A k : k # l => Members(k)' = Members(k)
      /\ \A k, q : Inside(k, q)' = Inside(k, q) \ {u}
      /\ \A k, q : u \notin Inside(k, q) => Inside(k, q)' = Inside(k, q)
  <2>1. /\ u \in UserIndex
        /\ \A k : Members(k)' = Members(k) \ {u}
        /\ \A k : k # User(s).m_LobbyIndex => Members(k)' = Members(k)
        /\ \A k, q : Inside(k, q)' = Inside(k, q) \ {u}
    BY <1>1, CloseFacts
  <2>2. \A k, q : u \notin Inside(k, q) => Inside(k, q)' = Inside(k, q)
    BY <2>1
  <2> QED BY <1>1, <2>1, <2>2
<1> DEFINE leaves == NamedRoom(s) /\ LeaveRoomError(m_RoomList[l][r], u) = "NONE"
<1>3. /\ m_RoomList' = IF leaves THEN [m_RoomList EXCEPT ![l][r] = LeftRoom(@, u)]
                       ELSE m_RoomList
      /\ LeaveUser(l, u)
  BY <1>1 DEF LeaveEverything
<1>4. LobbyTypes /\ RoomLists
  BY DEF StateInv, LobbyInv
<1>5. /\ DicAgrees' /\ SlotsAgree'
      /\ m_UserList' \in [LobbyIndex -> [Slot -> UserIndex \cup {None}]]
      /\ m_UserIndexDic' \in [LobbyIndex -> SUBSET UserIndex]
  BY <1>2, <1>3, LeaveUserHolds
<1>6. \A k, q : u \in Inside(k, q) => k = l /\ q = r /\ r \in RoomIndex
  <2>1. User(s) = m_UserObjPool[u] /\ WellPlaced(u, User(s))
    BY <1>1, UserFacts
  <2> QED BY <1>1, <1>2, <2>1, WhereUser DEF WellPlaced
<1>7. CASE leaves
  <2>1. r \in RoomIndex /\ u \in ToSet(m_RoomList[l][r].m_UserList)
    BY <1>1, <1>7 DEF NamedRoom, HasRoom, LeaveRoomError
  <2>2. RoomHolds(m_RoomList[l][r], Inside(l, r)) /\ Inside(l, r) \in SUBSET UserIndex
    BY <1>2, <1>4, <2>1, WhereUser DEF RoomLists
  <2>3. u \in Inside(l, r)
    <3>1. ToSet(m_RoomList[l][r].m_UserList) = Inside(l, r)
      BY <2>2, ListedHolds DEF RoomHolds, RoomRecord
    <3> QED BY <2>1, <3>1
  <2>4. RoomHolds(LeftRoom(m_RoomList[l][r], u), Inside(l, r)')
    BY <1>2, <2>2, <2>3, LeftHolds
  <2>5. m_RoomList' = [m_RoomList EXCEPT ![l][r] = LeftRoom(m_RoomList[l][r], u)]
    BY <1>2, <1>3, <1>4, <1>7, <2>1 DEF LobbyTypes
  <2>6. \A k, q : k # l \/ q # r => Inside(k, q)' = Inside(k, q)
    BY <1>2, <1>6
  <2>7. RoomLists' /\ m_RoomList' \in [LobbyIndex -> [RoomIndex -> RoomRecord]]
    BY <1>2, <2>1, <2>4, <2>5, <2>6, RoomChanged
  <2> QED BY <1>5, <2>7 DEF LobbyInv, LobbyTypes
<1>8. CASE ~leaves
  <2>1. \A k, q : u \notin Inside(k, q)
    <3> SUFFICES ASSUME NEW k, NEW q, u \in Inside(k, q) PROVE FALSE
      OBVIOUS
    <3>1. k = l /\ q = r /\ r \in RoomIndex /\ u \in Inside(l, r)
      BY <1>6
    <3>2. RoomHolds(m_RoomList[l][r], Inside(l, r)) /\ Inside(l, r) \in SUBSET UserIndex
      BY <1>2, <1>4, <3>1, WhereUser DEF RoomLists
    <3>3. /\ m_RoomList[l][r].m_UserList \in Seq(UserIndex)
          /\ Holds(m_RoomList[l][r].m_UserList, Inside(l, r), UserIndex)
          /\ m_RoomList[l][r].m_IsUsed <=> m_RoomList[l][r].m_UserList # << >>
      BY <3>2 DEF RoomHolds, RoomRecord
    <3>4. ToSet(m_RoomList[l][r].m_UserList) = Inside(l, r)
      BY <3>2, <3>3, ListedHolds
    <3>5. m_RoomList[l][r].m_IsUsed
      <4>1. PICK a \in 1 .. Len(m_RoomList[l][r].m_UserList) :
              m_RoomList[l][r].m_UserList[a] = u
        BY <1>2, <3>1, <3>3 DEF Holds
      <4>2. Len(m_RoomList[l][r].m_UserList) # 0
        BY <3>3, <4>1, LenProperties
      <4> QED BY <3>3, <4>2, EmptySeq
    <3>6. LeaveRoomError(m_RoomList[l][r], u) = "NONE"
      BY <3>1, <3>4, <3>5 DEF LeaveRoomError
    <3>7. NamedRoom(s)
      BY <1>1, <3>1 DEF NamedRoom, HasRoom
    <3> QED BY <1>8, <3>6, <3>7
  <2>2. \A k, q : Inside(k, q)' = Inside(k, q)
    BY <1>2, <2>1
  <2>3. m_RoomList' = m_RoomList
    BY <1>3, <1>8
  <2>4. RoomLists'
    BY <1>4, <2>2, <2>3 DEF RoomLists, RoomHolds
  <2> QED BY <1>4, <1>5, <2>3, <2>4 DEF LobbyInv, LobbyTypes
<1> QED BY <1>7, <1>8

LEMMA CloseInv ==
    ASSUME StateInv, NEW s \in Session, NtfSysCloseSession(s)
    PROVE  StateInv'
<1>1. /\ m_ConnectedTime' = [m_ConnectedTime EXCEPT ![s] = FALSE]
      /\ m_IsLoginSuccess' = [m_IsLoginSuccess EXCEPT ![s] = FALSE]
  BY DEF NtfSysCloseSession
<1>2. ConnectedTypes /\ LoginAgrees
  BY DEF StateInv
<1>3. ConnectedTypes'
  BY <1>1, <1>2 DEF ConnectedTypes
<1>4. /\ m_ConnectedTime'[s] = FALSE /\ m_IsLoginSuccess'[s] = FALSE
      /\ \A t \in Session \ {s} : /\ m_ConnectedTime'[t] = m_ConnectedTime[t]
                                  /\ m_IsLoginSuccess'[t] = m_IsLoginSuccess[t]
  BY <1>1, <1>2 DEF ConnectedTypes
<1>5. CASE HasUser(s)
  <2>1. /\ RemoveUser(s)
        /\ IF HasLobby(User(s).m_LobbyIndex) THEN LeaveEverything(s)
           ELSE sent' = {} /\ UNCHANGED lobbyVars
    BY <1>5, UserFacts DEF NtfSysCloseSession
  <2>2. PICK u : u = UserOf(s)
    OBVIOUS
  <2>3. /\ u \in UserIndex /\ m_UserSessionDic'[s] = None
        /\ \A t \in Session \ {s} : m_UserSessionDic'[t] = m_UserSessionDic[t]
        /\ Inv' /\ PlaceInv'
    BY <1>5, <2>1, <2>2, CloseFacts
  <2>4. LoginAgrees'
    BY <1>2, <1>4, <2>3 DEF LoginAgrees, HasUser
  <2>5. LobbyInv'
    <3>1. CASE HasLobby(User(s).m_LobbyIndex)
      BY <1>5, <2>1, <3>1, LeaveEverythingHolds DEF HasLobby
    <3>2. CASE ~HasLobby(User(s).m_LobbyIndex)
      <4>1. User(s) = m_UserObjPool[u] /\ WellPlaced(u, User(s))
        BY <1>5, <2>2, UserFacts
      <4>2. /\ \A k : u \notin Members(k)
            /\ \A k, r : u \notin Inside(k, r)
        BY <2>3, <3>2, <4>1, WhereUser DEF WellPlaced, HasLobby
      <4>3. /\ \A k : Members(k)' = Members(k) \ {u}
            /\ \A k, r : Inside(k, r)' = Inside(k, r) \ {u}
        BY <1>5, <2>1, <2>2, CloseFacts
      <4>4. /\ \A k : Members(k)' = Members(k)
            /\ \A k, r : Inside(k, r)' = Inside(k, r)
        BY <4>2, <4>3
      <4> QED BY <2>1, <3>2, <4>4, LobbySame
    <3> QED BY <3>1, <3>2
  <2> QED BY <1>3, <2>3, <2>4, <2>5 DEF StateInv
<1>6. CASE ~HasUser(s)
  <2>1. UNCHANGED <<userVars, lobbyVars>>
    BY <1>6 DEF NtfSysCloseSession, GetUserError
  <2>2. UNCHANGED <<m_UserObjPool, m_UserObjPoolIndex, m_UserSessionDic, m_UserIDDic>>
    BY <2>1 DEF userVars
  <2>3. Inv'
    BY <2>2, InvSame DEF StateInv
  <2>4. PlaceInv'
    BY <2>2 DEF StateInv, PlaceInv, IndexTypes, Placed, WellPlaced
  <2>5. LobbyInv'
    <3>1. \A k : Members(k)' = Members(k)
      BY <2>2 DEF Members
    <3>2. \A k, r : Inside(k, r)' = Inside(k, r)
      BY <2>2 DEF Inside
    <3> QED BY <2>1, <3>1, <3>2, LobbySame
  <2>6. LoginAgrees'
    BY <1>2, <1>4, <1>6, <2>2 DEF LoginAgrees, HasUser
  <2> QED BY <1>3, <2>3, <2>4, <2>5, <2>6 DEF StateInv
<1> QED BY <1>5, <1>6

\* A handler that changes neither users nor lobbies.
LEMMA NobodyMoves ==
    ASSUME StateInv, UNCHANGED <<m_UserObjPool, m_UserObjPoolIndex, m_UserSessionDic,
                                 m_UserIDDic, lobbyVars>>
    PROVE  /\ Inv' /\ PlaceInv' /\ LobbyInv'
           /\ \A k : Members(k)' = Members(k)
           /\ \A k, r : Inside(k, r)' = Inside(k, r)
<1>1. Inv'
  BY InvSame DEF StateInv
<1>2. PlaceInv'
  BY DEF StateInv, PlaceInv, IndexTypes, Placed, WellPlaced
<1>3. \A k : Members(k)' = Members(k)
  BY DEF Members
<1>4. \A k, r : Inside(k, r)' = Inside(k, r)
  BY DEF Inside
<1> QED BY <1>1, <1>2, <1>3, <1>4, LobbySame

LEMMA NobodyMovesInv ==
    ASSUME StateInv, UNCHANGED <<m_UserObjPool, m_UserObjPoolIndex, m_UserSessionDic,
                                 m_UserIDDic, lobbyVars, connectedVars>>
    PROVE  StateInv'
<1>1. Inv' /\ PlaceInv' /\ LobbyInv'
  BY NobodyMoves
<1>2. ConnectedTypes' /\ LoginAgrees'
  BY LoginSame
<1> QED BY <1>1, <1>2 DEF StateInv

LEMMA ConnectInv ==
    ASSUME StateInv, NEW s \in Session, NtfSysConnctSession(s)
    PROVE  StateInv'
<1>1. /\ m_ConnectedTime' = [m_ConnectedTime EXCEPT ![s] = TRUE]
      /\ UNCHANGED <<userVars, lobbyVars, m_IsLoginSuccess>>
  BY DEF NtfSysConnctSession
<1>2. UNCHANGED <<m_UserObjPool, m_UserObjPoolIndex, m_UserSessionDic, m_UserIDDic>>
  BY <1>1 DEF userVars
<1>3. Inv' /\ PlaceInv' /\ LobbyInv'
  BY <1>1, <1>2, NobodyMoves
<1>4. ConnectedTypes /\ LoginAgrees
  BY DEF StateInv
<1>5. ConnectedTypes'
  BY <1>1, <1>4 DEF ConnectedTypes
<1>6. \A t \in Session : m_ConnectedTime[t] => m_ConnectedTime'[t]
  BY <1>1, <1>4 DEF ConnectedTypes
<1>7. LoginAgrees'
  BY <1>1, <1>2, <1>4, <1>6 DEF LoginAgrees, HasUser
<1> QED BY <1>3, <1>5, <1>7 DEF StateInv

-----------------------------------------------------------------------------
(* Every step.                                                             *)

\* The handlers that only answer: queries, chats and refusals.
Answers(s) ==
    \/ \E o \in Offsets, id \in IDs : LoginRefused(s, <<s, o>>, id)
    \/ DevEcho(s) \/ RoomGameStart(s) \/ LobbyList(s) \/ LobbyChat(s) \/ RoomChat(s)
    \/ \E start \in AnyStart : LobbyRoomList(s, start) \/ LobbyUserList(s, start)
    \/ Refused(s)

LEMMA AnswersChangeNothing ==
    ASSUME NEW s \in Session, Answers(s)
    PROVE  UNCHANGED <<m_UserObjPool, m_UserObjPoolIndex, m_UserSessionDic,
                       m_UserIDDic, lobbyVars, connectedVars>>
<1>1. CASE \E o \in Offsets, id \in IDs : LoginRefused(s, <<s, o>>, id)
  BY <1>1 DEF LoginRefused, AddUserRefused
<1>2. CASE DevEcho(s) \/ RoomGameStart(s) \/ LobbyList(s) \/ LobbyChat(s) \/ RoomChat(s)
  BY <1>2 DEF DevEcho, RoomGameStart, LobbyList, LobbyChat, RoomChat, userVars
<1>3. CASE \E start \in AnyStart : LobbyRoomList(s, start) \/ LobbyUserList(s, start)
  BY <1>3 DEF LobbyRoomList, LobbyUserList, SendList, userVars
<1>4. CASE Refused(s)
  BY <1>4 DEF Refused, Refuse, userVars
<1> QED BY <1>1, <1>2, <1>3, <1>4 DEF Answers

\* The steps, in the order of the cases of the proofs below.
LEMMA Steps ==
    ASSUME [Next]_vars
    PROVE  \/ \E s \in Session : NtfSysConnctSession(s)
           \/ \E s \in Session : NtfSysCloseSession(s)
           \/ \E s \in Session, o \in Offsets, id \in IDs : Login(s, <<s, o>>, id)
           \/ \E s \in Session, l \in AnyLobby : LobbyEnter(s, l)
           \/ \E s \in Session : LobbyLeave(s)
           \/ \E s \in Session, isCreate \in BOOLEAN, r \in AnyRoom : RoomEnter(s, isCreate, r)
           \/ \E s \in Session : RoomLeave(s)
           \/ \E s \in Session : Answers(s)
           \/ UNCHANGED vars
<1>1. ASSUME NEW s \in Session, ClientPacket(s)
      PROVE  \/ \E o \in Offsets, id \in IDs : Login(s, <<s, o>>, id)
             \/ \E l \in AnyLobby : LobbyEnter(s, l)
             \/ LobbyLeave(s)
             \/ \E isCreate \in BOOLEAN, r \in AnyRoom : RoomEnter(s, isCreate, r)
             \/ RoomLeave(s)
             \/ Answers(s)
  BY <1>1 DEF ClientPacket, Answers
<1> QED BY <1>1 DEF Next, Process

LEMMA StateInvNext == StateInv /\ [Next]_vars => StateInv'
<1> SUFFICES ASSUME StateInv, [Next]_vars PROVE StateInv'
  OBVIOUS
<1>1. CASE \E s \in Session : NtfSysConnctSession(s)
  BY <1>1, ConnectInv
<1>2. CASE \E s \in Session : NtfSysCloseSession(s)
  BY <1>2, CloseInv
<1>3. CASE \E s \in Session, o \in Offsets, id \in IDs : Login(s, <<s, o>>, id)
  BY <1>3, LoginInv
<1>4. CASE \E s \in Session, l \in AnyLobby : LobbyEnter(s, l)
  BY <1>4, LobbyEnterInv
<1>5. CASE \E s \in Session : LobbyLeave(s)
  BY <1>5, LobbyLeaveInv
<1>6. CASE \E s \in Session, isCreate \in BOOLEAN, r \in AnyRoom : RoomEnter(s, isCreate, r)
  BY <1>6, RoomEnterInv
<1>7. CASE \E s \in Session : RoomLeave(s)
  BY <1>7, RoomLeaveInv
<1>8. CASE \E s \in Session : Answers(s)
  BY <1>8, AnswersChangeNothing, NobodyMovesInv
<1>9. CASE UNCHANGED vars
  BY <1>9, NobodyMovesInv DEF vars, userVars
<1> QED BY <1>1, <1>2, <1>3, <1>4, <1>5, <1>6, <1>7, <1>8, <1>9, Steps

LEMMA StateInvCorrect == Spec => []StateInv
BY StateInvInit, StateInvNext, PTL DEF Spec

-----------------------------------------------------------------------------
(* The theorems about the state.                                           *)

\* Every table of the packet processor keeps its type: a user's lobby and
\* room index are those of an existing lobby and room, or none.
THEOREM TypeCorrect == Spec => []TypeOK
BY StateInvTypeOK, StateInvCorrect, PTL

\* The flag of a session, its user and its connection agree, for any number
\* of sessions and any order of logins, repeated ones included, and closes.
THEOREM LoginAgreesCorrect == Spec => []LoginAgrees
<1>1. StateInv => LoginAgrees
  BY DEF StateInv
<1> QED BY <1>1, StateInvCorrect, PTL

\* What users, the dictionaries and the slots of the lobbies say of who is
\* where agrees, for any number of lobbies, slots and users.
THEOREM MembershipAgreesCorrect == Spec => []MembershipAgrees
BY StateInvMembershipAgrees, StateInvCorrect, PTL

\* The same for rooms, and a room is in use exactly while somebody is in it.
THEOREM RoomsAgreeCorrect == Spec => []RoomsAgree
BY StateInvRoomsAgree, StateInvCorrect, PTL

\* What is proved of the user manager by itself still holds under the
\* handlers, which also write into the user objects (m_LobbyIndex,
\* m_RoomIndex and the domain): no object is given out twice, a free one
\* names no lobby or room, and the session dictionary is sound.
THEOREM UsersStaySound == Spec => [](UserPoolPartition /\ SessionDicSound)
<1>1. StateInv => UserPoolPartition /\ SessionDicSound
  BY DEF StateInv, Inv
<1> QED BY <1>1, StateInvCorrect, PTL

-----------------------------------------------------------------------------
(* Which errors the handlers report.                                       *)

LEMMA DomainErrors ==
    ASSUME StateInv, NEW s \in Session, NEW domain, NEW error
    PROVE  DomainError(s, domain, error) \in
             {"USER_MGR_INVALID_SESSION_INDEX", error, "NONE"}
<1>1. CASE HasUser(s)
  <2>1. GetUserError(s) = "NONE"
    BY <1>1, UserFacts
  <2> QED BY <2>1 DEF DomainError
<1>2. CASE ~HasUser(s)
  BY <1>2 DEF DomainError, GetUserError
<1> QED BY <1>1, <1>2

\* A user in a lobby or a room is never told that its lobby does not exist.
LEMMA LobbyErrors ==
    ASSUME StateInv, NEW s \in Session, NEW domain \in {"LOBBY", "ROOM"},
           NEW error, error # "NONE", NEW lobbyError
    PROVE  LobbyError(s, domain, error, lobbyError) \in
             {"USER_MGR_INVALID_SESSION_INDEX", error, "NONE"}
<1>1. DomainError(s, domain, error) \in {"USER_MGR_INVALID_SESSION_INDEX", error, "NONE"}
  BY DomainErrors
<1>2. CASE DomainError(s, domain, error) # "NONE"
  BY <1>1, <1>2 DEF LobbyError
<1>3. CASE DomainError(s, domain, error) = "NONE"
  <2>1. HasUser(s) /\ User(s).m_CurDomainState = domain
    BY <1>3, DomainFound
  <2>2. User(s).m_LobbyIndex \in LobbyIndex
    BY <2>1, UserFacts DEF WellPlaced
  <2> QED BY <1>3, <2>2 DEF LobbyError, HasLobby
<1> QED BY <1>2, <1>3

\* Where a user that passed the checks of its place is listed.
LEMMA ListedInLobby ==
    ASSUME StateInv, NEW s \in Session, HasUser(s), NEW l, l = User(s).m_LobbyIndex,
           User(s).m_CurDomainState \in {"LOBBY", "ROOM"}
    PROVE  l \in LobbyIndex /\ UserOf(s) \in m_UserIndexDic[l]
<1>1. l \in LobbyIndex /\ UserOf(s) \in UserIndex /\ User(s) = m_UserObjPool[UserOf(s)]
  BY UserFacts DEF WellPlaced
<1>2. UserOf(s) \in Members(l)
  BY <1>1 DEF Members
<1>3. m_UserIndexDic[l] = Members(l)
  BY <1>1 DEF StateInv, LobbyInv, DicAgrees
<1> QED BY <1>1, <1>2, <1>3

LEMMA ListedInRoom ==
    ASSUME StateInv, NEW s \in Session, HasUser(s), NEW l, l = User(s).m_LobbyIndex,
           NEW r, r = User(s).m_RoomIndex, User(s).m_CurDomainState = "ROOM"
    PROVE  /\ r \in RoomIndex /\ m_RoomList[l][r].m_IsUsed
           /\ UserOf(s) \in ToSet(m_RoomList[l][r].m_UserList)
<1>1. /\ l \in LobbyIndex /\ r \in RoomIndex
      /\ UserOf(s) \in UserIndex /\ User(s) = m_UserObjPool[UserOf(s)]
  BY UserFacts DEF WellPlaced
<1>2. UserOf(s) \in Inside(l, r) /\ Inside(l, r) \in SUBSET UserIndex
  BY <1>1 DEF Inside
<1> DEFINE room == m_RoomList[l][r]
<1>3. /\ room.m_UserList \in Seq(UserIndex)
      /\ Holds(room.m_UserList, Inside(l, r), UserIndex)
      /\ room.m_IsUsed <=> room.m_UserList # << >>
  BY <1>1 DEF StateInv, LobbyInv, RoomLists, RoomHolds, RoomRecord
<1> HIDE DEF room
<1>4. ToSet(room.m_UserList) = Inside(l, r)
  BY <1>2, <1>3, ListedHolds
<1>5. room.m_UserList # << >>
  <2>1. PICK a \in 1 .. Len(room.m_UserList) : room.m_UserList[a] = UserOf(s)
    BY <1>1, <1>2, <1>3 DEF Holds
  <2>2. Len(room.m_UserList) # 0
    BY <1>3, <2>1, LenProperties
  <2> QED BY <2>2, EmptySeq
<1> QED BY <1>1, <1>2, <1>3, <1>4, <1>5 DEF room

\* What the handlers can refuse a client for.
LEMMA RefusalsAreTheClients ==
    ASSUME StateInv, NEW s \in Session
    PROVE  /\ LobbyListError(s) \notin InconsistencyErrors
           /\ \A l : LobbyEnterError(s, l) \notin InconsistencyErrors
           /\ LobbyRoomListError(s) \notin InconsistencyErrors
           /\ LobbyUserListError(s) \notin InconsistencyErrors
           /\ LobbyChatError(s) \notin InconsistencyErrors
           /\ LobbyLeaveError(s) \notin InconsistencyErrors
           /\ \A isCreate \in BOOLEAN : \A r : RoomEnterError(s, isCreate, r) \notin InconsistencyErrors
           /\ RoomLeaveError(s) \notin InconsistencyErrors
           /\ RoomChatError(s) \notin InconsistencyErrors
<1>1. LobbyListError(s) \notin InconsistencyErrors
  BY DomainErrors DEF LobbyListError, InconsistencyErrors
<1>2. ASSUME NEW l PROVE LobbyEnterError(s, l) \notin InconsistencyErrors
  <2> DEFINE error == DomainError(s, "LOGIN", "LOBBY_ENTER_INVALID_DOMAIN")
  <2>1. error \in {"USER_MGR_INVALID_SESSION_INDEX", "LOBBY_ENTER_INVALID_DOMAIN", "NONE"}
    BY DomainErrors
  <2>2. CASE error # "NONE" \/ l \notin LobbyIndex
    BY <2>1, <2>2 DEF LobbyEnterError, HasLobby, InconsistencyErrors
  <2>3. CASE error = "NONE" /\ l \in LobbyIndex
    <3>1. HasUser(s) /\ User(s).m_CurDomainState = "LOGIN"
      BY <2>3, DomainFound
    <3>2. UserOf(s) \notin m_UserIndexDic[l]
      <4>1. UserOf(s) \in UserIndex /\ User(s) = m_UserObjPool[UserOf(s)]
        BY <3>1, UserFacts
      <4>2. UserOf(s) \notin Members(l)
        BY <3>1, <4>1, WhereUser
      <4> QED BY <2>3, <4>2 DEF StateInv, LobbyInv, DicAgrees
    <3>3. ~LobbyFull(l) => EmptySlots(l) # {}
      <4>1. SlotsHold(m_UserList[l], Members(l)) /\ m_UserIndexDic[l] = Members(l)
        BY <2>3 DEF StateInv, LobbyInv, SlotsAgree, DicAgrees
      <4> Members(l) \in SUBSET UserIndex
        BY DEF Members
      <4>2. IsFiniteSet(Members(l))
        BY FiniteUsers
      <4>3. Cardinality(Members(l)) \in Nat
        BY <4>2, FS_CardinalityType
      <4>4. ~LobbyFull(l) => Cardinality(Members(l)) < MaxLobbyUserCount
        BY <4>1, <4>3, Bounds DEF LobbyFull
      <4>5. ~LobbyFull(l) => \E k \in Slot : m_UserList[l][k] = None
        BY <4>1, <4>4, SlotLeftOver
      <4> QED BY <4>5 DEF EmptySlots
    <3>4. EnterUserError(l, UserOf(s)) \in {"LOBBY_ENTER_MAX_USER_COUNT", "NONE"}
      BY <3>2, <3>3 DEF EnterUserError
    <3> QED BY <2>3, <3>4 DEF LobbyEnterError, HasLobby, InconsistencyErrors
  <2> QED BY <2>2, <2>3
<1>3. /\ LobbyRoomListError(s) \notin InconsistencyErrors
      /\ LobbyUserListError(s) \notin InconsistencyErrors
      /\ LobbyChatError(s) \notin InconsistencyErrors
  BY LobbyErrors
     DEF LobbyRoomListError, LobbyUserListError, LobbyChatError, InconsistencyErrors
<1>4. LobbyLeaveError(s) \notin InconsistencyErrors
  <2> DEFINE error == LobbyError(s, "LOBBY", "LOBBY_LEAVE_INVALID_DOMAIN",
                                 "LOBBY_LEAVE_INVALID_LOBBY_INDEX")
  <2>1. error \in {"USER_MGR_INVALID_SESSION_INDEX", "LOBBY_LEAVE_INVALID_DOMAIN", "NONE"}
    BY LobbyErrors
  <2>2. CASE error # "NONE"
    BY <2>1, <2>2 DEF LobbyLeaveError, InconsistencyErrors
  <2>3. CASE error = "NONE"
    <3>1. HasUser(s) /\ User(s).m_CurDomainState = "LOBBY"
      BY <2>3, LobbyFound
    <3>2. UserOf(s) \in m_UserIndexDic[User(s).m_LobbyIndex]
      BY <3>1, ListedInLobby
    <3> QED BY <2>3, <3>2 DEF LobbyLeaveError, LeaveUserError, InconsistencyErrors
  <2> QED BY <2>2, <2>3
<1>5. ASSUME NEW isCreate \in BOOLEAN, NEW r
      PROVE  RoomEnterError(s, isCreate, r) \notin InconsistencyErrors
  <2> DEFINE error == LobbyError(s, "LOBBY", "ROOM_ENTER_INVALID_DOMAIN",
                                 "ROOM_ENTER_INVALID_LOBBY_INDEX")
             l == User(s).m_LobbyIndex
  <2>1. error \in {"USER_MGR_INVALID_SESSION_INDEX", "ROOM_ENTER_INVALID_DOMAIN", "NONE"}
    BY LobbyErrors
  <2>2. CASE error # "NONE"
    BY <2>1, <2>2 DEF RoomEnterError, InconsistencyErrors
  <2>3. CASE error = "NONE" /\ isCreate
    <3>1. CASE UnusedRooms(l) = {}
      BY <2>3, <3>1 DEF RoomEnterError, InconsistencyErrors
    <3>2. CASE UnusedRooms(l) # {}
      <4>1. UnusedRooms(l) \subseteq Nat
        BY PlaceIndices DEF UnusedRooms
      <4>2. FirstUnusedRoom(l) \in UnusedRooms(l)
        BY <3>2, <4>1, LowestLeast DEF FirstUnusedRoom
      <4>3. CreateRoomError(m_RoomList[l][FirstUnusedRoom(l)]) = "NONE"
        BY <4>2 DEF UnusedRooms, CreateRoomError
      <4> QED BY <2>3, <3>2, <4>3 DEF RoomEnterError, InconsistencyErrors
    <3> QED BY <3>1, <3>2
  <2>4. CASE error = "NONE" /\ ~isCreate
    <3>1. EnterRoomError(m_RoomList[l][r]) \in
            {"ROOM_ENTER_NOT_CREATED", "ROOM_ENTER_MEMBER_FULL", "NONE"}
      BY DEF EnterRoomError
    <3> QED BY <2>4, <3>1 DEF RoomEnterError, InconsistencyErrors
  <2> QED BY <2>2, <2>3, <2>4
<1>6. RoomLeaveError(s) \notin InconsistencyErrors
  <2> DEFINE error == LobbyError(s, "ROOM", "ROOM_LEAVE_INVALID_DOMAIN",
                                 "ROOM_ENTER_INVALID_LOBBY_INDEX")
  <2>1. error \in {"USER_MGR_INVALID_SESSION_INDEX", "ROOM_LEAVE_INVALID_DOMAIN", "NONE"}
    BY LobbyErrors
  <2>2. CASE error # "NONE"
    BY <2>1, <2>2 DEF RoomLeaveError, RoomMemberError, InconsistencyErrors
  <2>3. CASE error = "NONE"
    <3>1. HasUser(s) /\ User(s).m_CurDomainState = "ROOM"
      BY <2>3, LobbyFound
    <3>2. LeaveRoomError(m_RoomList[User(s).m_LobbyIndex][User(s).m_RoomIndex], UserOf(s)) = "NONE"
      BY <3>1, ListedInRoom DEF LeaveRoomError
    <3> QED BY <2>3, <3>2 DEF RoomLeaveError, RoomMemberError, InconsistencyErrors
  <2> QED BY <2>2, <2>3
<1>7. RoomChatError(s) \notin InconsistencyErrors
  <2>1. LobbyError(s, "ROOM", "ROOM_CHAT_INVALID_DOMAIN", "ROOM_CHAT_INVALID_LOBBY_INDEX") \in
          {"USER_MGR_INVALID_SESSION_INDEX", "ROOM_CHAT_INVALID_DOMAIN", "NONE"}
    BY LobbyErrors
  <2> QED BY <2>1 DEF RoomChatError, RoomMemberError, InconsistencyErrors
<1> QED BY <1>1, <1>2, <1>3, <1>4, <1>5, <1>6, <1>7

\* Notifications carry no error, and an answer the one it was given.
LEMMA Messages ==
    /\ \A s, id, error : Answer(s, id, error).error = error
    /\ \A members, pool, id, about, pass :
         \A m \in ToLobby(members, pool, id, about, pass) : m.error = "NONE"
    /\ \A room, pool, id, about, pass :
         \A m \in ToRoom(room, pool, id, about, pass) : m.error = "NONE"
    /\ \A room, pool, about : \A m \in RoomLeaveNotice(room, pool, about) : m.error = "NONE"
<1>1. \A s, id, error : Answer(s, id, error).error = error
  BY DEF Answer
<1>2. \A members, pool, id, about, pass :
        \A m \in ToLobby(members, pool, id, about, pass) : m.error = "NONE"
  BY DEF ToLobby, Notice
<1>3. \A room, pool, id, about, pass :
        \A m \in ToRoom(room, pool, id, about, pass) : m.error = "NONE"
  BY DEF ToRoom, Notice
<1>4. \A room, pool, about : \A m \in RoomLeaveNotice(room, pool, about) : m.error = "NONE"
  BY <1>3 DEF RoomLeaveNotice
<1> QED BY <1>1, <1>2, <1>3, <1>4

SentErrors == {m.error : m \in sent}

\* The handlers that refuse nothing send no error.
LEMMA SuccessSendsNoError ==
    ASSUME NEW s, \/ NtfSysConnctSession(s) \/ NtfSysCloseSession(s)
                  \/ \E a, id : Login(s, a, id)
                  \/ \E l : LobbyEnter(s, l)
                  \/ LobbyLeave(s)
                  \/ \E isCreate, r : RoomEnter(s, isCreate, r)
                  \/ RoomLeave(s)
    PROVE  SentErrors' \subseteq {"NONE"}
<1>1. CASE NtfSysConnctSession(s)
  BY <1>1 DEF NtfSysConnctSession, SentErrors
<1>2. CASE NtfSysCloseSession(s)
  <2>1. CASE sent' = {}
    BY <2>1 DEF SentErrors
  <2>2. CASE LeaveEverything(s)
    <3>1. \A m \in sent' : m.error = "NONE"
      BY <2>2, Messages DEF LeaveEverything
    <3> QED BY <3>1 DEF SentErrors
  <2> QED BY <1>2, <2>1, <2>2 DEF NtfSysCloseSession
<1>3. CASE \E a, id : Login(s, a, id)
  BY <1>3, Messages DEF Login, SentErrors
<1>4. CASE \E l : LobbyEnter(s, l)
  <2>1. \A m \in sent' : m.error = "NONE"
    BY <1>4, Messages DEF LobbyEnter
  <2> QED BY <2>1 DEF SentErrors
<1>5. CASE LobbyLeave(s)
  <2>1. \A m \in sent' : m.error = "NONE"
    BY <1>5, Messages DEF LobbyLeave
  <2> QED BY <2>1 DEF SentErrors
<1>6. CASE \E isCreate, r : RoomEnter(s, isCreate, r)
  <2>1. \A m \in sent' : m.error = "NONE"
    BY <1>6, Messages DEF RoomEnter
  <2> QED BY <2>1 DEF SentErrors
<1>7. CASE RoomLeave(s)
  <2>1. \A m \in sent' : m.error = "NONE"
    BY <1>7, Messages DEF RoomLeave
  <2> QED BY <2>1 DEF SentErrors
<1> QED BY <1>1, <1>2, <1>3, <1>4, <1>5, <1>6, <1>7

LEMMA AnswersReportTheClients ==
    ASSUME StateInv, NEW s \in Session, Answers(s)
    PROVE  SentErrors' \cap InconsistencyErrors = {}
<1>0. \A id, error : sent' = {Answer(s, id, error)} => SentErrors' = {error}
  BY Messages DEF SentErrors
<1>1. CASE \E o \in Offsets, id \in IDs : LoginRefused(s, <<s, o>>, id)
  <2>1. PICK o \in Offsets : sent' = {Answer(s, "LOGIN_IN_RES", AddUserError(<<s, o>>))}
    BY <1>1 DEF LoginRefused
  <2>2. SentErrors' = {AddUserError(<<s, o>>)}
    BY <1>0, <2>1
  <2>3. AddUserError(<<s, o>>) \in
          {"USER_MGR_ID_DUPLICATION", "USER_MGR_MAX_USER_COUNT", "NONE"}
    BY DEF AddUserError
  <2> QED BY <2>2, <2>3 DEF InconsistencyErrors
<1>2. CASE DevEcho(s) \/ RoomGameStart(s) \/ LobbyList(s) \/ LobbyChat(s) \/ RoomChat(s)
  <2>1. \A m \in sent' : m.error = "NONE"
    BY <1>2, Messages DEF DevEcho, RoomGameStart, LobbyList, LobbyChat, RoomChat
  <2> QED BY <2>1 DEF SentErrors, InconsistencyErrors
<1>3. CASE \E start \in AnyStart : LobbyRoomList(s, start) \/ LobbyUserList(s, start)
  <2>1. \A m \in sent' : m.error = "NONE"
    BY <1>3, Messages DEF LobbyRoomList, LobbyUserList, SendList
  <2> QED BY <2>1 DEF SentErrors, InconsistencyErrors
<1>4. CASE Refused(s)
  <2>1. ASSUME NEW id, NEW error, Refuse(s, id, error), error \notin InconsistencyErrors
        PROVE  SentErrors' \cap InconsistencyErrors = {}
    BY <1>0, <2>1 DEF Refuse
  <2> QED BY <1>4, <2>1, RefusalsAreTheClients DEF Refused
<1> QED BY <1>1, <1>2, <1>3, <1>4 DEF Answers

LEMMA StepReportsTheClients ==
    StateInv /\ [Next]_vars => [\A m \in sent' : m.error \notin InconsistencyErrors]_vars
<1> SUFFICES ASSUME StateInv, [Next]_vars
             PROVE  [\A m \in sent' : m.error \notin InconsistencyErrors]_vars
  OBVIOUS
<1>1. CASE UNCHANGED vars
  BY <1>1
<1>2. CASE SentErrors' \cap InconsistencyErrors = {}
  BY <1>2 DEF SentErrors
<1>3. CASE SentErrors' \subseteq {"NONE"}
  <2>1. SentErrors' \cap InconsistencyErrors = {}
    BY <1>3 DEF InconsistencyErrors
  <2> QED BY <1>2, <2>1
<1> QED BY <1>1, <1>2, <1>3, Steps, SuccessSendsNoError, AnswersReportTheClients

\* No sequence of packets makes the server answer that its own tables
\* contradict each other: what the handlers look up after their first checks
\* (the lobby of a user in a lobby, an empty slot of a lobby that is not
\* full, the membership of a leaving user) is there.
THEOREM NoInconsistencyReportedCorrect == Spec => NoInconsistencyReported
<1>1. StateInv /\ [Next]_vars => [\A m \in sent' : m.error \notin InconsistencyErrors]_vars
  BY StepReportsTheClients
<1> QED BY <1>1, StateInvCorrect, PTL DEF Spec, NoInconsistencyReported

-----------------------------------------------------------------------------
(* The two abstract specifications.                                        *)

\* A handler that moves a user between places leaves its session and its ID.
LEMMA MoveKeepsDirectory ==
    ASSUME StateInv, NEW s \in Session, HasUser(s), NEW user, Relocated(s, user),
           m_UserObjPool'[UserOf(s)] = user,
           \A v \in UserIndex \ {UserOf(s)} : m_UserObjPool'[v] = m_UserObjPool[v],
           UNCHANGED m_UserSessionDic
    PROVE  Directory' = Directory
<1>1. \A t \in Session : (HasUser(t)' <=> HasUser(t)) /\ UserOf(t)' = UserOf(t)
  BY DEF HasUser, UserOf
<1>2. user.m_ID = m_UserObjPool[UserOf(s)].m_ID
  BY DEF Relocated, User
<1>3. \A t \in Session : HasUser(t) => UserOf(t) \in UserIndex
  BY UserFacts
<1>4. \A t \in Session : HasUser(t) =>
        m_UserObjPool'[UserOf(t)'].m_ID = m_UserObjPool[UserOf(t)].m_ID
  BY <1>1, <1>2, <1>3
<1> QED BY <1>1, <1>4 DEF Directory

LEMMA DirectorySimulates ==
    ASSUME StateInv, [Next]_vars
    PROVE  [Users!Next]_Directory
<1>1. Inv
  BY DEF StateInv
<1>2. ASSUME UNCHANGED <<m_UserObjPool, m_UserSessionDic>>
      PROVE  Directory' = Directory
  BY <1>2 DEF Directory, HasUser, UserOf
<1>3. CASE \E s \in Session : NtfSysConnctSession(s)
  BY <1>2, <1>3 DEF NtfSysConnctSession, userVars
<1>4. ASSUME NEW s \in Session, NtfSysCloseSession(s)
      PROVE  [Users!Next]_Directory
  <2>1. CASE GetUserError(s) = "NONE"
    <3>1. RemoveUser(s)
      BY <1>4, <2>1 DEF NtfSysCloseSession
    <3>2. UserManagerNext
      BY <3>1 DEF UserManagerNext
    <3> QED BY <1>1, <3>2, StepSimulates
  <2>2. CASE GetUserError(s) # "NONE"
    BY <1>2, <1>4, <2>2 DEF NtfSysCloseSession, userVars
  <2> QED BY <2>1, <2>2
<1>5. ASSUME NEW s \in Session, NEW o \in Offsets, NEW id \in IDs, Login(s, <<s, o>>, id)
      PROVE  [Users!Next]_Directory
  <2>1. UserManagerNext
    BY <1>5 DEF Login, UserManagerNext
  <2> QED BY <1>1, <2>1, StepSimulates
<1>6. ASSUME NEW s \in Session, NEW l, LobbyEnter(s, l)
      PROVE  Directory' = Directory
  <2>1. PICK u : u = UserOf(s)
    OBVIOUS
  <2>2. /\ HasUser(s) /\ l \in LobbyIndex
        /\ m_UserObjPool'[u] = UserInLobby(m_UserObjPool[u], l)
        /\ \A v \in UserIndex \ {u} : m_UserObjPool'[v] = m_UserObjPool[v]
    BY <1>6, <2>1, LobbyEnterFacts
  <2>3. User(s) = m_UserObjPool[u] /\ UNCHANGED m_UserSessionDic
    BY <1>6, <2>1 DEF User, LobbyEnter
  <2>4. Relocated(s, UserInLobby(User(s), l))
    BY <2>2, RelocatedInLobby
  <2> QED BY <2>1, <2>2, <2>3, <2>4, MoveKeepsDirectory
<1>7. ASSUME NEW s \in Session, LobbyLeave(s)
      PROVE  Directory' = Directory
  <2>1. PICK u, l : u = UserOf(s) /\ l = User(s).m_LobbyIndex
    OBVIOUS
  <2>2. /\ HasUser(s)
        /\ m_UserObjPool'[u] = UserInLogin(m_UserObjPool[u])
        /\ \A v \in UserIndex \ {u} : m_UserObjPool'[v] = m_UserObjPool[v]
    BY <1>7, <2>1, LobbyLeaveFacts
  <2>3. User(s) = m_UserObjPool[u] /\ UNCHANGED m_UserSessionDic
    BY <1>7, <2>1 DEF User, LobbyLeave
  <2>4. Relocated(s, UserInLogin(User(s)))
    BY <2>2, RelocatedInLogin
  <2> QED BY <2>1, <2>2, <2>3, <2>4, MoveKeepsDirectory
<1>8. ASSUME NEW s \in Session, NEW isCreate \in BOOLEAN, NEW q, RoomEnter(s, isCreate, q)
      PROVE  Directory' = Directory
  <2>1. PICK u, l, room : /\ u = UserOf(s) /\ l = User(s).m_LobbyIndex
                          /\ room = IF isCreate THEN FirstUnusedRoom(l) ELSE q
    OBVIOUS
  <2>2. /\ HasUser(s) /\ l \in LobbyIndex /\ room \in RoomIndex
        /\ m_UserObjPool'[u] = UserInRoom(m_UserObjPool[u], l, room)
        /\ \A v \in UserIndex \ {u} : m_UserObjPool'[v] = m_UserObjPool[v]
    BY <1>8, <2>1, RoomEnterFacts
  <2>3. User(s) = m_UserObjPool[u] /\ UNCHANGED m_UserSessionDic
    BY <1>8, <2>1 DEF User, RoomEnter
  <2>4. Relocated(s, UserInRoom(User(s), l, room))
    BY <2>2, RelocatedInRoom
  <2> QED BY <2>1, <2>2, <2>3, <2>4, MoveKeepsDirectory
<1>9. ASSUME NEW s \in Session, RoomLeave(s)
      PROVE  Directory' = Directory
  <2>1. PICK u, l, r : u = UserOf(s) /\ l = User(s).m_LobbyIndex /\ r = User(s).m_RoomIndex
    OBVIOUS
  <2>2. /\ HasUser(s) /\ l \in LobbyIndex
        /\ m_UserObjPool'[u] = UserInLobby(m_UserObjPool[u], l)
        /\ \A v \in UserIndex \ {u} : m_UserObjPool'[v] = m_UserObjPool[v]
    BY <1>9, <2>1, RoomLeaveFacts
  <2>3. User(s) = m_UserObjPool[u] /\ UNCHANGED m_UserSessionDic
    BY <1>9, <2>1 DEF User, RoomLeave
  <2>4. Relocated(s, UserInLobby(User(s), l))
    BY <2>2, RelocatedInLobby
  <2> QED BY <2>1, <2>2, <2>3, <2>4, MoveKeepsDirectory
<1>10. CASE \E s \in Session : Answers(s)
  BY <1>2, <1>10, AnswersChangeNothing
<1>11. CASE UNCHANGED vars
  BY <1>2, <1>11 DEF vars, userVars
<1> QED BY <1>3, <1>4, <1>5, <1>6, <1>7, <1>8, <1>9, <1>10, <1>11, Steps

\* UserDirectory is implemented also under the packet handlers: none of them
\* changes who is logged in on which session, except a login on a session
\* that has no user and the close of a session.
THEOREM DirectoryRefined == Spec => ImplementsUserDirectory
<1>1. Init => Users!Init
  <2> SUFFICES ASSUME Init PROVE Directory = [s \in Users!Session |-> Users!NoID]
    BY DEF Users!Init
  <2>1. \A s \in Session : ~HasUser(s)
    BY DEF Init, UserManagerInit, HasUser
  <2> QED BY <2>1 DEF Directory, Session, Users!Session, Users!NoID
<1>2. StateInv /\ [Next]_vars => [Users!Next]_Directory
  BY DirectorySimulates
<1> QED BY <1>1, <1>2, StateInvCorrect, PTL
        DEF Spec, ImplementsUserDirectory, Users!Spec

\* The places of Presence, and those of the sessions.
LEMMA PlaceKinds ==
    /\ Places!Session = Session /\ Places!LobbyIndex = LobbyIndex
    /\ Places!RoomIndex = RoomIndex
    /\ Places!Nowhere # Places!Login
    /\ \A l : Places!InLobby(l) # Places!Nowhere /\ Places!InLobby(l) # Places!Login
    /\ \A l, r : Places!InRoom(l, r) # Places!Nowhere /\ Places!InRoom(l, r) # Places!Login
    /\ \A k, l, r : Places!InLobby(k) # Places!InRoom(l, r)
    /\ \A k, l : Places!InLobby(k) = Places!InLobby(l) => k = l
    /\ \A k, l, q, r : Places!InRoom(k, q) = Places!InRoom(l, r) => k = l /\ q = r
<1>1. /\ Places!Session = Session /\ Places!LobbyIndex = LobbyIndex
      /\ Places!RoomIndex = RoomIndex
  BY DEF Places!Session, Session, Places!LobbyIndex, LobbyIndex, Places!RoomIndex, RoomIndex
<1>2. /\ Places!Nowhere[1] = "nowhere" /\ Places!Login[1] = "login"
      /\ \A l : Places!InLobby(l)[1] = "lobby" /\ Places!InLobby(l)[2] = l
      /\ \A l, r : /\ Places!InRoom(l, r)[1] = "room" /\ Places!InRoom(l, r)[2] = l
                   /\ Places!InRoom(l, r)[3] = r
  BY DEF Places!Nowhere, Places!Login, Places!InLobby, Places!InRoom
<1>3. /\ Places!Nowhere # Places!Login
      /\ \A l : Places!InLobby(l) # Places!Nowhere /\ Places!InLobby(l) # Places!Login
      /\ \A l, r : Places!InRoom(l, r) # Places!Nowhere /\ Places!InRoom(l, r) # Places!Login
      /\ \A k, l, r : Places!InLobby(k) # Places!InRoom(l, r)
  BY <1>2
<1>4. /\ \A k, l : Places!InLobby(k) = Places!InLobby(l) => k = l
      /\ \A k, l, q, r : Places!InRoom(k, q) = Places!InRoom(l, r) => k = l /\ q = r
  BY <1>2
<1> QED BY <1>1, <1>3, <1>4

LEMMA PlaceOf ==
    ASSUME NEW s \in Session
    PROVE  /\ ~HasUser(s) => Place[s] = Places!Nowhere
           /\ HasUser(s) /\ User(s).m_CurDomainState = "LOBBY" =>
                Place[s] = Places!InLobby(User(s).m_LobbyIndex)
           /\ HasUser(s) /\ User(s).m_CurDomainState = "ROOM" =>
                Place[s] = Places!InRoom(User(s).m_LobbyIndex, User(s).m_RoomIndex)
           /\ HasUser(s) /\ User(s).m_CurDomainState \notin {"LOBBY", "ROOM"} =>
                Place[s] = Places!Login
<1>1. Place[s] =
        IF ~HasUser(s) THEN <<"nowhere">>
        ELSE CASE User(s).m_CurDomainState = "LOBBY" -> <<"lobby", User(s).m_LobbyIndex>>
               [] User(s).m_CurDomainState = "ROOM" ->
                    <<"room", User(s).m_LobbyIndex, User(s).m_RoomIndex>>
               [] OTHER -> <<"login">>
  BY DEF Place
<1> QED BY <1>1 DEF Places!Nowhere, Places!InLobby, Places!InRoom, Places!Login

\* Whose place is a lobby or a room.
LEMMA AtPlace ==
    ASSUME NEW s \in Session
    PROVE  /\ Place[s] # Places!Nowhere <=> HasUser(s)
           /\ \A l : Place[s] = Places!InLobby(l) =>
                HasUser(s) /\ User(s).m_CurDomainState = "LOBBY" /\ User(s).m_LobbyIndex = l
           /\ \A l, r : Place[s] = Places!InRoom(l, r) =>
                /\ HasUser(s) /\ User(s).m_CurDomainState = "ROOM"
                /\ User(s).m_LobbyIndex = l /\ User(s).m_RoomIndex = r
<1>1. CASE ~HasUser(s)
  BY <1>1, PlaceOf, PlaceKinds
<1>2. CASE HasUser(s) /\ User(s).m_CurDomainState = "LOBBY"
  BY <1>2, PlaceOf, PlaceKinds
<1>3. CASE HasUser(s) /\ User(s).m_CurDomainState = "ROOM"
  BY <1>3, PlaceOf, PlaceKinds
<1>4. CASE HasUser(s) /\ User(s).m_CurDomainState \notin {"LOBBY", "ROOM"}
  BY <1>4, PlaceOf, PlaceKinds
<1> QED BY <1>1, <1>2, <1>3, <1>4

\* One session changes its place.
LEMMA OnePlaceChanges ==
    ASSUME NEW s \in Session, NEW p, Place'[s] = p,
           \A t \in Session \ {s} : Place'[t] = Place[t]
    PROVE  Place' = [Place EXCEPT ![s] = p]
<1>1. /\ Place \in [Session -> {Place[t] : t \in Session}]
      /\ Place' \in [Session -> {Place'[t] : t \in Session}]
  <2>1. DOMAIN Place = Session /\ Place = [t \in Session |-> Place[t]]
    BY DEF Place
  <2>2. DOMAIN Place' = Session /\ Place' = [t \in Session |-> Place'[t]]
    BY DEF Place
  <2> QED BY <2>1, <2>2
<1> QED BY <1>1

LEMMA OtherPlaces ==
    ASSUME NEW t \in Session, m_UserSessionDic'[t] = m_UserSessionDic[t],
           HasUser(t) => m_UserObjPool'[UserOf(t)] = m_UserObjPool[UserOf(t)]
    PROVE  Place'[t] = Place[t]
<1>1. HasUser(t)' <=> HasUser(t)
  BY DEF HasUser
<1>2. HasUser(t) => User(t)' = User(t)
  BY DEF User, UserOf
<1> QED BY <1>1, <1>2 DEF Place

\* As many users as sessions: each session leads to an object of its own.
LEMMA SessionsCounted ==
    ASSUME StateInv, NEW S \in SUBSET Session, NEW M \in SUBSET UserIndex,
           \A s \in S : HasUser(s) /\ UserOf(s) \in M
    PROVE  Cardinality(S) <= Cardinality(M) /\ Cardinality(S) \in Nat /\ Cardinality(M) \in Nat
<1> DEFINE f == [s \in S |-> UserOf(s)]
<1>1. \A s, t \in S : UserOf(s) = UserOf(t) => s = t
  <2>1. \A s \in S : m_UserObjPool[UserOf(s)].m_SessionIndex = s
    BY UserFacts
  <2> QED BY <2>1
<1>2. f \in Injection(S, M)
  <2>1. f \in [S -> M]
    OBVIOUS
  <2> QED BY <1>1, <2>1 DEF Injection, IsInjective
<1>3. IsFiniteSet(M)
  BY FiniteUsers
<1>4. IsFiniteSet(S) /\ Cardinality(S) <= Cardinality(M)
  <2> HIDE DEF f
  <2> QED BY <1>2, <1>3, FS_Injection
<1> QED BY <1>3, <1>4, FS_CardinalityType

\* The place of a session in the next state.
LEMMA PlaceNext ==
    ASSUME NEW s \in Session, NEW u \in UserIndex, m_UserSessionDic'[s] = u
    PROVE  /\ m_UserObjPool'[u].m_CurDomainState = "LOBBY" =>
                Place'[s] = Places!InLobby(m_UserObjPool'[u].m_LobbyIndex)
           /\ m_UserObjPool'[u].m_CurDomainState = "ROOM" =>
                Place'[s] = Places!InRoom(m_UserObjPool'[u].m_LobbyIndex,
                                          m_UserObjPool'[u].m_RoomIndex)
           /\ m_UserObjPool'[u].m_CurDomainState \notin {"LOBBY", "ROOM"} =>
                Place'[s] = Places!Login
<1>1. HasUser(s)' /\ User(s)' = m_UserObjPool'[u]
  BY Indices DEF HasUser, User, UserOf
<1>2. Place'[s] =
        CASE m_UserObjPool'[u].m_CurDomainState = "LOBBY" ->
               <<"lobby", m_UserObjPool'[u].m_LobbyIndex>>
          [] m_UserObjPool'[u].m_CurDomainState = "ROOM" ->
               <<"room", m_UserObjPool'[u].m_LobbyIndex, m_UserObjPool'[u].m_RoomIndex>>
          [] OTHER -> <<"login">>
  BY <1>1 DEF Place
<1> QED BY <1>2 DEF Places!InLobby, Places!InRoom, Places!Login

\* What a handler does to the user of its session moves no other session.
LEMMA OthersKeepTheirPlace ==
    ASSUME StateInv, NEW s \in Session, HasUser(s), NEW u, u = UserOf(s),
           \A v \in UserIndex \ {u} : m_UserObjPool'[v] = m_UserObjPool[v],
           \A t \in Session \ {s} : m_UserSessionDic'[t] = m_UserSessionDic[t]
    PROVE  \A t \in Session \ {s} : Place'[t] = Place[t]
<1> SUFFICES ASSUME NEW t \in Session \ {s} PROVE Place'[t] = Place[t]
  OBVIOUS
<1>1. HasUser(t) => UserOf(t) \in UserIndex /\ m_UserObjPool[UserOf(t)].m_SessionIndex = t
  BY UserFacts
<1>2. m_UserObjPool[u].m_SessionIndex = s
  BY UserFacts
<1>3. HasUser(t) => UserOf(t) \in UserIndex \ {u}
  BY <1>1, <1>2
<1> QED BY <1>3, OtherPlaces

\* Presence extends FiniteSets, so its instance has a Cardinality of its own.
LEMMA SameCardinality == \A S : Places!Cardinality(S) = Cardinality(S)
BY DEF Places!Cardinality, Cardinality

LEMMA PopulationBound ==
    ASSUME StateInv, NEW l \in LobbyIndex, ~LobbyFull(l)
    PROVE  Places!Population(l) < MaxLobbyUserCount
<1> DEFINE S == Places!At(Places!InLobby(l))
                \cup UNION {Places!At(Places!InRoom(l, r)) : r \in RoomIndex}
<1>1. ASSUME NEW s \in S
      PROVE  s \in Session /\ HasUser(s) /\ UserOf(s) \in Members(l)
  <2>1. s \in Session /\ (Place[s] = Places!InLobby(l) \/ \E r : Place[s] = Places!InRoom(l, r))
    BY <1>1, PlaceKinds DEF Places!At
  <2>2. /\ HasUser(s) /\ User(s).m_CurDomainState \in {"LOBBY", "ROOM"}
        /\ User(s).m_LobbyIndex = l
    BY <2>1, AtPlace
  <2>3. UserOf(s) \in UserIndex /\ User(s) = m_UserObjPool[UserOf(s)]
    BY <2>1, <2>2, UserFacts
  <2> QED BY <2>1, <2>2, <2>3, WhereUser
<1>2. S \in SUBSET Session /\ Places!Population(l) = Cardinality(S)
  <2>1. Places!Population(l) = Cardinality(S)
    BY SameCardinality DEF Places!Population, Places!RoomIndex, RoomIndex
  <2> HIDE DEF S
  <2> QED BY <1>1, <2>1
<1> HIDE DEF S
<1>3. Members(l) \in SUBSET UserIndex /\ m_UserIndexDic[l] = Members(l)
  BY DEF Members, StateInv, LobbyInv, DicAgrees
<1>4. /\ Cardinality(S) <= Cardinality(Members(l))
      /\ Cardinality(S) \in Nat /\ Cardinality(Members(l)) \in Nat
  BY <1>1, <1>2, <1>3, SessionsCounted
<1> QED BY <1>2, <1>3, <1>4, Bounds DEF LobbyFull

LEMMA RoomBound ==
    ASSUME StateInv, NEW l \in LobbyIndex, NEW r \in RoomIndex,
           ~m_RoomList[l][r].m_IsUsed \/ ~Full(m_RoomList[l][r])
    PROVE  Places!Cardinality(Places!At(Places!InRoom(l, r))) < MaxRoomUserCount
<1> DEFINE S == Places!At(Places!InRoom(l, r))
           list == m_RoomList[l][r].m_UserList
<1>1. ASSUME NEW s \in S
      PROVE  s \in Session /\ HasUser(s) /\ UserOf(s) \in Inside(l, r)
  <2>1. s \in Session /\ Place[s] = Places!InRoom(l, r)
    BY <1>1, PlaceKinds DEF Places!At
  <2>2. /\ HasUser(s) /\ User(s).m_CurDomainState = "ROOM"
        /\ User(s).m_LobbyIndex = l /\ User(s).m_RoomIndex = r
    BY <2>1, AtPlace
  <2>3. UserOf(s) \in UserIndex /\ User(s) = m_UserObjPool[UserOf(s)]
    BY <2>1, <2>2, UserFacts
  <2> QED BY <2>1, <2>2, <2>3, WhereUser
<1>2. S \in SUBSET Session
  BY <1>1
<1>3. /\ list \in Seq(UserIndex) /\ Holds(list, Inside(l, r), UserIndex)
      /\ Len(list) <= MaxRoomUserCount
      /\ m_RoomList[l][r].m_IsUsed <=> list # << >>
      /\ Inside(l, r) \in SUBSET UserIndex
  <2>1. RoomHolds(m_RoomList[l][r], Inside(l, r)) /\ Inside(l, r) \in SUBSET UserIndex
    BY DEF StateInv, LobbyInv, RoomLists, Inside
  <2> QED BY <2>1 DEF RoomHolds, RoomRecord
<1>4. Full(m_RoomList[l][r]) <=> Len(list) = MaxRoomUserCount
  BY DEF Full
<1> HIDE DEF S, list
<1>5. Cardinality(Inside(l, r)) = Len(list) /\ Len(list) \in Nat
  BY <1>3, ListedOnce, LenProperties
<1>6. Len(list) < MaxRoomUserCount
  <2>1. CASE ~m_RoomList[l][r].m_IsUsed
    <3>1. Len(list) = 0
      BY <1>3, <2>1, EmptySeq
    <3> QED BY <3>1, Bounds
  <2>2. CASE ~Full(m_RoomList[l][r])
    BY <1>3, <1>4, <1>5, <2>2, Bounds
  <2> QED BY <2>1, <2>2
<1>7. Cardinality(S) <= Cardinality(Inside(l, r)) /\ Cardinality(S) \in Nat
  BY <1>1, <1>2, <1>3, SessionsCounted
<1>8. Cardinality(S) < MaxRoomUserCount
  BY <1>5, <1>6, <1>7, Bounds
<1> QED BY <1>8, SameCardinality DEF S

\* A step of one session, for any handler that gives it another place.
LEMMA PlaceStep ==
    ASSUME NEW s \in Session, Places!Step(s) PROVE Places!Next
BY PlaceKinds DEF Places!Next

LEMMA PresenceSimulates ==
    ASSUME StateInv, [Next]_vars
    PROVE  [Places!Next]_Place
<1>1. ASSUME UNCHANGED <<m_UserObjPool, m_UserSessionDic>>
      PROVE  Place' = Place
  BY <1>1 DEF Place, HasUser, User, UserOf
<1>2. CASE \E s \in Session : NtfSysConnctSession(s)
  BY <1>1, <1>2 DEF NtfSysConnctSession, userVars
<1>3. ASSUME NEW s \in Session, NtfSysCloseSession(s)
      PROVE  [Places!Next]_Place
  <2>1. CASE GetUserError(s) = "NONE"
    <3>1. PICK u : u = UserOf(s)
      OBVIOUS
    <3>2. HasUser(s) /\ RemoveUser(s)
      BY <1>3, <2>1 DEF NtfSysCloseSession, RemoveUser
    <3>3. /\ m_UserSessionDic'[s] = None
          /\ \A v \in UserIndex \ {u} : m_UserObjPool'[v] = m_UserObjPool[v]
          /\ \A t \in Session \ {s} : m_UserSessionDic'[t] = m_UserSessionDic[t]
      BY <3>1, <3>2, CloseFacts
    <3>4. Place'[s] = Places!Nowhere
      BY <3>3 DEF Place, HasUser, Places!Nowhere
    <3>5. \A t \in Session \ {s} : Place'[t] = Place[t]
      BY <3>1, <3>2, <3>3, OthersKeepTheirPlace
    <3>6. Place' = [Place EXCEPT ![s] = Places!Nowhere]
      BY <3>4, <3>5, OnePlaceChanges
    <3>7. Place[s] # Places!Nowhere
      BY <3>2, AtPlace
    <3>8. Places!Step(s)
      BY <3>6, <3>7 DEF Places!Step
    <3> QED BY <3>8, PlaceStep
  <2>2. CASE GetUserError(s) # "NONE"
    BY <1>1, <1>3, <2>2 DEF NtfSysCloseSession, userVars
  <2> QED BY <2>1, <2>2
<1>4. ASSUME NEW s \in Session, NEW o \in Offsets, NEW id \in IDs, Login(s, <<s, o>>, id)
      PROVE  [Places!Next]_Place
  <2>1. PICK u : u = Head(m_UserObjPoolIndex)
    OBVIOUS
  <2>2. /\ u \in UserIndex /\ u \notin Confirmed
        /\ m_UserObjPool'[u].m_CurDomainState = "LOGIN"
        /\ \A v \in UserIndex \ {u} : m_UserObjPool'[v] = m_UserObjPool[v]
        /\ m_UserSessionDic' = Inserted(s, u)
    BY <1>4, <2>1, LoginFacts
  <2>3. \A t \in Session : HasUser(t) => m_UserObjPool'[UserOf(t)] = m_UserObjPool[UserOf(t)]
    <3>1. \A t \in Session : HasUser(t) => UserOf(t) \in UserIndex \ {u}
      BY <2>2, UserFacts
    <3> QED BY <2>2, <3>1
  <2>4. CASE HasUser(s)
    <3>1. m_UserSessionDic' = m_UserSessionDic
      BY <2>2, <2>4 DEF Inserted
    <3>2. \A t \in Session : Place'[t] = Place[t]
      BY <2>3, <3>1, OtherPlaces
    <3>3. Place' = [Place EXCEPT ![s] = Place[s]]
      BY <3>2, OnePlaceChanges
    <3>4. Place' = Place
      BY <3>3 DEF Place
    <3> QED BY <3>4
  <2>5. CASE ~HasUser(s)
    <3>1. m_UserSessionDic' = [m_UserSessionDic EXCEPT ![s] = u]
      BY <2>2, <2>5 DEF Inserted
    <3>2. /\ m_UserSessionDic'[s] = u
          /\ \A t \in Session \ {s} : m_UserSessionDic'[t] = m_UserSessionDic[t]
      BY <3>1, Types DEF StateInv, Inv
    <3>3. \A t \in Session \ {s} : Place'[t] = Place[t]
      BY <2>3, <3>2, OtherPlaces
    <3>4. Place'[s] = Places!Login
      BY <2>2, <3>2, PlaceNext
    <3>5. Place' = [Place EXCEPT ![s] = Places!Login]
      BY <3>3, <3>4, OnePlaceChanges
    <3>6. Place[s] = Places!Nowhere
      BY <2>5, PlaceOf
    <3>7. Places!Step(s)
      BY <3>5, <3>6 DEF Places!Step, Places!Move
    <3> QED BY <3>7, PlaceStep
  <2> QED BY <2>4, <2>5
<1>5. ASSUME NEW s \in Session, NEW l, LobbyEnter(s, l)
      PROVE  [Places!Next]_Place
  <2>1. PICK u : u = UserOf(s)
    OBVIOUS
  <2>2. /\ HasUser(s) /\ u \in UserIndex /\ l \in LobbyIndex
        /\ m_UserObjPool[u].m_CurDomainState = "LOGIN"
        /\ ~LobbyFull(l)
        /\ m_UserObjPool'[u].m_CurDomainState = "LOBBY" /\ m_UserObjPool'[u].m_LobbyIndex = l
        /\ \A v \in UserIndex \ {u} : m_UserObjPool'[v] = m_UserObjPool[v]
    BY <1>5, <2>1, LobbyEnterFacts
  <2>3. m_UserSessionDic' = m_UserSessionDic
    BY <1>5 DEF LobbyEnter
  <2>4. Place[s] = Places!Login
    BY <2>1, <2>2, PlaceOf DEF User
  <2>5. Place'[s] = Places!InLobby(l)
    BY <2>1, <2>2, <2>3, PlaceNext DEF UserOf
  <2>6. \A t \in Session \ {s} : Place'[t] = Place[t]
    BY <2>1, <2>2, <2>3, OthersKeepTheirPlace
  <2>7. Place' = [Place EXCEPT ![s] = Places!InLobby(l)]
    BY <2>5, <2>6, OnePlaceChanges
  <2>8. Places!Population(l) < MaxLobbyUserCount
    BY <2>2, PopulationBound
  <2>9. Places!Step(s)
    BY <2>2, <2>4, <2>7, <2>8, PlaceKinds DEF Places!Step, Places!Move
  <2> QED BY <2>9, PlaceStep
<1>6. ASSUME NEW s \in Session, LobbyLeave(s)
      PROVE  [Places!Next]_Place
  <2>1. PICK u, l : u = UserOf(s) /\ l = User(s).m_LobbyIndex
    OBVIOUS
  <2>2. /\ HasUser(s) /\ u \in UserIndex /\ l \in LobbyIndex
        /\ m_UserObjPool[u].m_CurDomainState = "LOBBY" /\ m_UserObjPool[u].m_LobbyIndex = l
        /\ m_UserObjPool'[u].m_CurDomainState = "LOGIN"
        /\ \A v \in UserIndex \ {u} : m_UserObjPool'[v] = m_UserObjPool[v]
    BY <1>6, <2>1, LobbyLeaveFacts
  <2>3. m_UserSessionDic' = m_UserSessionDic
    BY <1>6 DEF LobbyLeave
  <2>4. Place[s] = Places!InLobby(l)
    BY <2>1, <2>2, PlaceOf DEF User
  <2>5. Place'[s] = Places!Login
    BY <2>1, <2>2, <2>3, PlaceNext DEF UserOf
  <2>6. \A t \in Session \ {s} : Place'[t] = Place[t]
    BY <2>1, <2>2, <2>3, OthersKeepTheirPlace
  <2>7. Place' = [Place EXCEPT ![s] = Places!Login]
    BY <2>5, <2>6, OnePlaceChanges
  <2>8. Places!Step(s)
    BY <2>2, <2>4, <2>7, PlaceKinds DEF Places!Step, Places!Move
  <2> QED BY <2>8, PlaceStep
<1>7. ASSUME NEW s \in Session, NEW isCreate \in BOOLEAN, NEW q, RoomEnter(s, isCreate, q)
      PROVE  [Places!Next]_Place
  <2>1. PICK u, l, r : /\ u = UserOf(s) /\ l = User(s).m_LobbyIndex
                       /\ r = IF isCreate THEN FirstUnusedRoom(l) ELSE q
    OBVIOUS
  <2>2. /\ HasUser(s) /\ u \in UserIndex /\ l \in LobbyIndex /\ r \in RoomIndex
        /\ m_UserObjPool[u].m_CurDomainState = "LOBBY" /\ m_UserObjPool[u].m_LobbyIndex = l
        /\ m_UserObjPool'[u].m_CurDomainState = "ROOM" /\ m_UserObjPool'[u].m_LobbyIndex = l
        /\ m_UserObjPool'[u].m_RoomIndex = r
        /\ \A v \in UserIndex \ {u} : m_UserObjPool'[v] = m_UserObjPool[v]
        /\ ~m_RoomList[l][r].m_IsUsed \/ ~Full(m_RoomList[l][r])
    BY <1>7, <2>1, RoomEnterFacts
  <2>3. m_UserSessionDic' = m_UserSessionDic
    BY <1>7 DEF RoomEnter
  <2>4. Place[s] = Places!InLobby(l)
    BY <2>1, <2>2, PlaceOf DEF User
  <2>5. Place'[s] = Places!InRoom(l, r)
    BY <2>1, <2>2, <2>3, PlaceNext DEF UserOf
  <2>6. \A t \in Session \ {s} : Place'[t] = Place[t]
    BY <2>1, <2>2, <2>3, OthersKeepTheirPlace
  <2>7. Place' = [Place EXCEPT ![s] = Places!InRoom(l, r)]
    BY <2>5, <2>6, OnePlaceChanges
  <2>8. Places!Cardinality(Places!At(Places!InRoom(l, r))) < MaxRoomUserCount
    BY <2>2, RoomBound
  <2>9. Places!Step(s)
    BY <2>2, <2>4, <2>7, <2>8, PlaceKinds DEF Places!Step, Places!Move
  <2> QED BY <2>9, PlaceStep
<1>8. ASSUME NEW s \in Session, RoomLeave(s)
      PROVE  [Places!Next]_Place
  <2>1. PICK u, l, r : u = UserOf(s) /\ l = User(s).m_LobbyIndex /\ r = User(s).m_RoomIndex
    OBVIOUS
  <2>2. /\ HasUser(s) /\ u \in UserIndex /\ l \in LobbyIndex /\ r \in RoomIndex
        /\ m_UserObjPool[u].m_CurDomainState = "ROOM" /\ m_UserObjPool[u].m_LobbyIndex = l
        /\ m_UserObjPool[u].m_RoomIndex = r
        /\ m_UserObjPool'[u].m_CurDomainState = "LOBBY" /\ m_UserObjPool'[u].m_LobbyIndex = l
        /\ \A v \in UserIndex \ {u} : m_UserObjPool'[v] = m_UserObjPool[v]
    BY <1>8, <2>1, RoomLeaveFacts
  <2>3. m_UserSessionDic' = m_UserSessionDic
    BY <1>8 DEF RoomLeave
  <2>4. Place[s] = Places!InRoom(l, r)
    BY <2>1, <2>2, PlaceOf DEF User
  <2>5. Place'[s] = Places!InLobby(l)
    BY <2>1, <2>2, <2>3, PlaceNext DEF UserOf
  <2>6. \A t \in Session \ {s} : Place'[t] = Place[t]
    BY <2>1, <2>2, <2>3, OthersKeepTheirPlace
  <2>7. Place' = [Place EXCEPT ![s] = Places!InLobby(l)]
    BY <2>5, <2>6, OnePlaceChanges
  <2>8. Places!Step(s)
    BY <2>2, <2>4, <2>7, PlaceKinds DEF Places!Step, Places!Move
  <2> QED BY <2>8, PlaceStep
<1>9. CASE \E s \in Session : Answers(s)
  BY <1>1, <1>9, AnswersChangeNothing
<1>10. CASE UNCHANGED vars
  BY <1>1, <1>10 DEF vars, userVars
<1> QED BY <1>2, <1>3, <1>4, <1>5, <1>6, <1>7, <1>8, <1>9, <1>10, Steps

\* Every handler moves at most the session of its packet, along an edge of
\* the protocol, and the checks of a full lobby and a full room, which count
\* dictionary entries and list elements, bound the number of sessions that
\* are there.
THEOREM PresenceRefined == Spec => ImplementsPresence
<1>1. Init => Places!Init
  <2> SUFFICES ASSUME Init PROVE Place = [s \in Places!Session |-> Places!Nowhere]
    BY DEF Places!Init
  <2>1. \A s \in Session : ~HasUser(s)
    BY DEF Init, UserManagerInit, HasUser
  <2> QED BY <2>1 DEF Place, Session, Places!Session, Places!Nowhere
<1>2. StateInv /\ [Next]_vars => [Places!Next]_Place
  BY PresenceSimulates
<1> QED BY <1>1, <1>2, StateInvCorrect, PTL
        DEF Spec, ImplementsPresence, Places!Spec

-----------------------------------------------------------------------------
(* Who is told of what.                                                    *)

\* The lists of the rooms hold those that are inside, and a room that lists
\* somebody is in use; the dictionary of a lobby holds those in sight.
RoomsListed ==
    \A l \in LobbyIndex, r \in RoomIndex :
        /\ InRoom(l, r) = Inside(l, r)
        /\ InRoom(l, r) # {} => m_RoomList[l][r].m_IsUsed
SeenListed == \A l \in LobbyIndex : InLobby(l) \subseteq m_UserIndexDic[l]

LEMMA ListedNow == StateInv => RoomsListed /\ SeenListed
<1> SUFFICES ASSUME StateInv PROVE RoomsListed /\ SeenListed
  OBVIOUS
<1>1. ASSUME NEW l \in LobbyIndex, NEW r \in RoomIndex
      PROVE  /\ InRoom(l, r) = Inside(l, r)
             /\ InRoom(l, r) # {} => m_RoomList[l][r].m_IsUsed
  <2> DEFINE list == m_RoomList[l][r].m_UserList
  <2>1. RoomHolds(m_RoomList[l][r], Inside(l, r)) /\ Inside(l, r) \in SUBSET UserIndex
    BY DEF StateInv, LobbyInv, RoomLists, Inside
  <2>2. /\ list \in Seq(UserIndex) /\ Holds(list, Inside(l, r), UserIndex)
        /\ m_RoomList[l][r].m_IsUsed <=> list # << >>
    BY <2>1 DEF RoomHolds, RoomRecord
  <2>3. InRoom(l, r) = ToSet(list)
    BY DEF InRoom
  <2> HIDE DEF list
  <2>4. ToSet(list) = Inside(l, r)
    BY <2>1, <2>2, ListedHolds
  <2>5. list = << >> => Inside(l, r) = {}
    <3>1. Len(<< >>) = 0
      BY EmptySeq
    <3>2. list = << >> => \A u \in UserIndex : u \notin Inside(l, r)
      BY <2>2, <3>1 DEF Holds
    <3> QED BY <2>1, <3>2
  <2> QED BY <2>2, <2>3, <2>4, <2>5
<1>2. SeenListed
  <2>1. \A l \in LobbyIndex : m_UserIndexDic[l] = Members(l)
    BY DEF StateInv, LobbyInv, DicAgrees
  <2> QED BY <2>1 DEF SeenListed, InLobby, Members
<1> QED BY <1>1, <1>2 DEF RoomsListed

LEMMA ListedNext == StateInv' => RoomsListed' /\ SeenListed'
BY ListedNow, PTL

\* Who is reached by a message to a lobby, and by one to a room.
LEMMA LobbyHears ==
    ASSUME NEW members, NEW pool, NEW id, NEW about, NEW pass, NEW W,
           \A v \in W : /\ v \in members /\ v # pass
                        /\ pool[v].m_CurDomainState = "LOBBY"
                        /\ pool[v].m_SessionIndex = m_UserObjPool'[v].m_SessionIndex,
           ToLobby(members, pool, id, about, pass) \subseteq sent'
    PROVE  Told(W, id, about)
<1> SUFFICES ASSUME NEW v \in W PROVE Notice(SessionOf(v)', id, about) \in sent'
  BY DEF Told
<1>1. Notice(pool[v].m_SessionIndex, id, about) \in ToLobby(members, pool, id, about, pass)
  BY DEF ToLobby
<1>2. SessionOf(v)' = pool[v].m_SessionIndex
  BY DEF SessionOf
<1> QED BY <1>1, <1>2

LEMMA RoomHears ==
    ASSUME NEW room, NEW pool, NEW id, NEW about, NEW pass, NEW W,
           \A v \in W : /\ v \in ToSet(room.m_UserList) /\ v # pass
                        /\ pool[v].m_SessionIndex = m_UserObjPool'[v].m_SessionIndex,
           ToRoom(room, pool, id, about, pass) \subseteq sent'
    PROVE  Told(W, id, about)
<1> SUFFICES ASSUME NEW v \in W PROVE Notice(SessionOf(v)', id, about) \in sent'
  BY DEF Told
<1>1. Notice(pool[v].m_SessionIndex, id, about) \in ToRoom(room, pool, id, about, pass)
  BY DEF ToRoom
<1>2. SessionOf(v)' = pool[v].m_SessionIndex
  BY DEF SessionOf
<1> QED BY <1>1, <1>2

\* Only the user u of the handler comes into sight or goes out of it.
LEMMA SightOfOthers ==
    ASSUME NEW u \in UserIndex,
           \A v \in UserIndex \ {u} : m_UserObjPool'[v] = m_UserObjPool[v]
    PROVE  /\ \A l : \A v \in UserIndex \ {u} : v \in InLobby(l)' <=> v \in InLobby(l)
           /\ \A l : u \in InLobby(l) <=> /\ m_UserObjPool[u].m_CurDomainState = "LOBBY"
                                          /\ m_UserObjPool[u].m_LobbyIndex = l
           /\ \A l : u \in InLobby(l)' <=> /\ m_UserObjPool'[u].m_CurDomainState = "LOBBY"
                                           /\ m_UserObjPool'[u].m_LobbyIndex = l
BY DEF InLobby

LEMMA SightSame ==
    ASSUME \A l : InLobby(l)' = InLobby(l) PROVE LobbyTold
BY DEF LobbyTold, Goes

\* One user comes into sight, or goes out of it, in one lobby.
LEMMA OneComes ==
    ASSUME NEW u \in UserIndex, NEW l,
           \A v \in UserIndex \ {u} : m_UserObjPool'[v] = m_UserObjPool[v],
           m_UserObjPool[u].m_CurDomainState # "LOBBY",
           m_UserObjPool'[u].m_CurDomainState = "LOBBY" /\ m_UserObjPool'[u].m_LobbyIndex = l,
           l \in LobbyIndex => Told(InLobby(l)' \ {u}, "LOBBY_ENTER_USER_NTF", u)
    PROVE  LobbyTold
<1>1. \A k : \A v \in UserIndex : v \notin InLobby(k) /\ v \in InLobby(k)' => v = u /\ k = l
  BY SightOfOthers
<1>2. \A k : \A v \in UserIndex : ~(v \in InLobby(k) /\ v \notin InLobby(k)')
  BY SightOfOthers
<1> QED BY <1>1, <1>2 DEF LobbyTold, Goes

LEMMA OneGoes ==
    ASSUME NEW u \in UserIndex, NEW l,
           \A v \in UserIndex \ {u} : m_UserObjPool'[v] = m_UserObjPool[v],
           m_UserObjPool'[u].m_CurDomainState # "LOBBY",
           m_UserObjPool[u].m_LobbyIndex = l,
           l \in LobbyIndex /\ m_UserObjPool[u].m_CurDomainState = "LOBBY" =>
             (~(u \notin Confirmed' /\ m_UserObjPool[u].m_RoomIndex # None) =>
                Told(InLobby(l)' \ {u}, "LOBBY_LEAVE_USER_NTF", u))
    PROVE  LobbyTold
<1>1. \A k : \A v \in UserIndex : ~(v \notin InLobby(k) /\ v \in InLobby(k)')
  BY SightOfOthers
<1>2. \A k : \A v \in UserIndex : v \in InLobby(k) /\ v \notin InLobby(k)' =>
        v = u /\ k = l /\ m_UserObjPool[u].m_CurDomainState = "LOBBY"
  BY SightOfOthers
<1> QED BY <1>1, <1>2 DEF LobbyTold, Goes

LEMMA StepTellsLobby ==
    ASSUME StateInv, StateInv', [Next]_vars
    PROVE  [LobbyTold]_vars
<1> USE DEF vars
<1>1. ASSUME UNCHANGED m_UserObjPool
      PROVE  LobbyTold
  <2>1. \A l : InLobby(l)' = InLobby(l)
    BY <1>1 DEF InLobby
  <2> QED BY <2>1, SightSame
<1>2. SeenListed'
  BY ListedNext
<1>3. \A l \in LobbyIndex : InLobby(l)' \subseteq m_UserIndexDic'[l]
  BY <1>2 DEF SeenListed
<1>4. \A l : \A v \in InLobby(l)' : v \in UserIndex /\ m_UserObjPool'[v].m_CurDomainState = "LOBBY"
  BY DEF InLobby
<1>5. CASE \E s \in Session : NtfSysConnctSession(s)
  BY <1>1, <1>5 DEF NtfSysConnctSession, userVars
<1>6. ASSUME NEW s \in Session, NtfSysCloseSession(s)
      PROVE  LobbyTold
  <2>1. CASE GetUserError(s) = "NONE"
    <3>1. PICK u, l : u = UserOf(s) /\ l = User(s).m_LobbyIndex
      OBVIOUS
    <3>2. /\ HasUser(s) /\ RemoveUser(s)
          /\ l \in LobbyIndex => LeaveEverything(s)
      BY <1>6, <2>1, <3>1 DEF NtfSysCloseSession, RemoveUser, HasLobby
    <3>3. /\ u \in UserIndex
          /\ m_UserObjPool'[u].m_CurDomainState = "NONE" /\ m_UserObjPool'[u].m_IsConfirm = FALSE
          /\ \A v \in UserIndex \ {u} : m_UserObjPool'[v] = m_UserObjPool[v]
      BY <3>1, <3>2, CloseFacts
    <3>4. u \notin Confirmed' /\ l = m_UserObjPool[u].m_LobbyIndex
      BY <3>1, <3>3 DEF Confirmed, User
    <3>5. ASSUME l \in LobbyIndex, m_UserObjPool[u].m_RoomIndex = None
          PROVE  Told(InLobby(l)' \ {u}, "LOBBY_LEAVE_USER_NTF", u)
      <4>1. ~NamedRoom(s)
        BY <3>1, <3>5, PlaceIndices DEF NamedRoom, HasRoom, User
      <4>2. sent' = ToLobby(m_UserIndexDic'[l], m_UserObjPool, "LOBBY_LEAVE_USER_NTF", u, u)
        BY <3>1, <3>2, <3>5, <4>1 DEF LeaveEverything
      <4>3. \A v \in InLobby(l)' \ {u} :
              /\ v \in m_UserIndexDic'[l] /\ v # u
              /\ m_UserObjPool[v].m_CurDomainState = "LOBBY"
              /\ m_UserObjPool[v].m_SessionIndex = m_UserObjPool'[v].m_SessionIndex
        BY <1>3, <1>4, <3>3, <3>5
      <4> QED BY <4>2, <4>3, LobbyHears
    <3>6. l \in LobbyIndex /\ m_UserObjPool[u].m_CurDomainState = "LOBBY" =>
            (~(u \notin Confirmed' /\ m_UserObjPool[u].m_RoomIndex # None) =>
               Told(InLobby(l)' \ {u}, "LOBBY_LEAVE_USER_NTF", u))
      BY <3>4, <3>5
    <3>7. m_UserObjPool'[u].m_CurDomainState # "LOBBY"
      BY <3>3
    <3> QED BY <3>3, <3>4, <3>6, <3>7, OneGoes
  <2>2. CASE GetUserError(s) # "NONE"
    BY <1>1, <1>6, <2>2 DEF NtfSysCloseSession, userVars
  <2> QED BY <2>1, <2>2
<1>7. ASSUME NEW s \in Session, NEW o \in Offsets, NEW id \in IDs, Login(s, <<s, o>>, id)
      PROVE  LobbyTold
  <2>1. PICK u : u = Head(m_UserObjPoolIndex)
    OBVIOUS
  <2>2. /\ u \in UserIndex /\ u \notin Confirmed
        /\ m_UserObjPool'[u].m_CurDomainState = "LOGIN"
        /\ \A v \in UserIndex \ {u} : m_UserObjPool'[v] = m_UserObjPool[v]
    BY <1>7, <2>1, LoginFacts
  <2>3. m_UserObjPool[u].m_CurDomainState = "NONE"
    BY <2>2, FreePlace
  <2>4. PICK l : l = m_UserObjPool[u].m_LobbyIndex
    OBVIOUS
  <2>5. l \in LobbyIndex /\ m_UserObjPool[u].m_CurDomainState = "LOBBY" =>
          (~(u \notin Confirmed' /\ m_UserObjPool[u].m_RoomIndex # None) =>
             Told(InLobby(l)' \ {u}, "LOBBY_LEAVE_USER_NTF", u))
    BY <2>3
  <2>6. m_UserObjPool'[u].m_CurDomainState # "LOBBY"
    BY <2>2
  <2> QED BY <2>2, <2>4, <2>5, <2>6, OneGoes
<1>8. ASSUME NEW s \in Session, NEW l, LobbyEnter(s, l)
      PROVE  LobbyTold
  <2>1. PICK u : u = UserOf(s)
    OBVIOUS
  <2>2. /\ u \in UserIndex /\ l \in LobbyIndex
        /\ m_UserObjPool[u].m_CurDomainState = "LOGIN"
        /\ m_UserObjPool'[u].m_CurDomainState = "LOBBY" /\ m_UserObjPool'[u].m_LobbyIndex = l
        /\ \A v \in UserIndex \ {u} : m_UserObjPool'[v] = m_UserObjPool[v]
    BY <1>8, <2>1, LobbyEnterFacts
  <2>3. ToLobby(m_UserIndexDic'[l], m_UserObjPool', "LOBBY_ENTER_USER_NTF", u, u) \subseteq sent'
    BY <1>8, <2>1 DEF LobbyEnter
  <2>4. Told(InLobby(l)' \ {u}, "LOBBY_ENTER_USER_NTF", u)
    BY <1>3, <1>4, <2>2, <2>3, LobbyHears
  <2> QED BY <2>2, <2>4, OneComes
<1>9. ASSUME NEW s \in Session, LobbyLeave(s)
      PROVE  LobbyTold
  <2>1. PICK u, l : u = UserOf(s) /\ l = User(s).m_LobbyIndex
    OBVIOUS
  <2>2. /\ u \in UserIndex /\ l \in LobbyIndex
        /\ m_UserObjPool[u].m_CurDomainState = "LOBBY" /\ m_UserObjPool[u].m_LobbyIndex = l
        /\ m_UserObjPool'[u].m_CurDomainState = "LOGIN"
        /\ \A v \in UserIndex \ {u} : m_UserObjPool'[v] = m_UserObjPool[v]
    BY <1>9, <2>1, LobbyLeaveFacts
  <2>3. ToLobby(m_UserIndexDic'[l], m_UserObjPool', "LOBBY_LEAVE_USER_NTF", u, u) \subseteq sent'
    BY <1>9, <2>1 DEF LobbyLeave
  <2>4. Told(InLobby(l)' \ {u}, "LOBBY_LEAVE_USER_NTF", u)
    BY <1>3, <1>4, <2>2, <2>3, LobbyHears
  <2> QED BY <2>2, <2>4, OneGoes
<1>10. ASSUME NEW s \in Session, NEW isCreate \in BOOLEAN, NEW q, RoomEnter(s, isCreate, q)
       PROVE  LobbyTold
  <2>1. PICK u, l, r : /\ u = UserOf(s) /\ l = User(s).m_LobbyIndex
                       /\ r = IF isCreate THEN FirstUnusedRoom(l) ELSE q
    OBVIOUS
  <2>2. /\ u \in UserIndex /\ l \in LobbyIndex
        /\ m_UserObjPool[u].m_CurDomainState = "LOBBY" /\ m_UserObjPool[u].m_LobbyIndex = l
        /\ m_UserObjPool'[u].m_CurDomainState = "ROOM"
        /\ \A v \in UserIndex \ {u} : m_UserObjPool'[v] = m_UserObjPool[v]
    BY <1>10, <2>1, RoomEnterFacts
  <2>3. /\ ToLobby(m_UserIndexDic[l], m_UserObjPool', "LOBBY_LEAVE_USER_NTF", u, u) \subseteq sent'
        /\ m_UserIndexDic' = m_UserIndexDic
    BY <1>10, <2>1 DEF RoomEnter
  <2>4. Told(InLobby(l)' \ {u}, "LOBBY_LEAVE_USER_NTF", u)
    BY <1>3, <1>4, <2>2, <2>3, LobbyHears
  <2> QED BY <2>2, <2>4, OneGoes
<1>11. ASSUME NEW s \in Session, RoomLeave(s)
       PROVE  LobbyTold
  <2>1. PICK u, l, r : u = UserOf(s) /\ l = User(s).m_LobbyIndex /\ r = User(s).m_RoomIndex
    OBVIOUS
  <2>2. /\ u \in UserIndex /\ l \in LobbyIndex
        /\ m_UserObjPool[u].m_CurDomainState = "ROOM"
        /\ m_UserObjPool'[u].m_CurDomainState = "LOBBY" /\ m_UserObjPool'[u].m_LobbyIndex = l
        /\ \A v \in UserIndex \ {u} : m_UserObjPool'[v] = m_UserObjPool[v]
    BY <1>11, <2>1, RoomLeaveFacts
  <2>3. /\ ToLobby(m_UserIndexDic[l], m_UserObjPool', "LOBBY_ENTER_USER_NTF", u, u) \subseteq sent'
        /\ m_UserIndexDic' = m_UserIndexDic
    BY <1>11, <2>1 DEF RoomLeave
  <2>4. Told(InLobby(l)' \ {u}, "LOBBY_ENTER_USER_NTF", u)
    BY <1>3, <1>4, <2>2, <2>3, LobbyHears
  <2> QED BY <2>2, <2>4, OneComes
<1>12. CASE \E s \in Session : Answers(s)
  BY <1>1, <1>12, AnswersChangeNothing
<1>13. CASE UNCHANGED vars
  BY <1>13
<1> QED BY <1>5, <1>6, <1>7, <1>8, <1>9, <1>10, <1>11, <1>12, <1>13, Steps

\* Whoever comes into sight of a lobby or goes out of sight is announced to
\* everybody in sight by the same handler, whatever the number of users and
\* wherever they are; the exception is a close of a user whose object names
\* a room.
THEOREM LobbyIsToldCorrect == Spec => LobbyIsTold
<1>1. StateInv /\ StateInv' /\ [Next]_vars => [LobbyTold]_vars
  BY StepTellsLobby
<1> QED BY <1>1, StateInvCorrect, PTL DEF Spec, LobbyIsTold

\* Nobody, one user, or one user the other way passes the door of one room.
LEMMA RoomsSame ==
    ASSUME RoomsListed, RoomsListed',
           \A k, q : Inside(k, q)' = Inside(k, q)
    PROVE  RoomTold
<1>1. \A k \in LobbyIndex, q \in RoomIndex : InRoom(k, q)' = InRoom(k, q)
  BY DEF RoomsListed
<1> QED BY <1>1 DEF RoomTold

LEMMA OneEnters ==
    ASSUME RoomsListed, RoomsListed', NEW u, NEW l, NEW r,
           Inside(l, r)' = Inside(l, r) \cup {u},
           \A k, q : k # l \/ q # r => Inside(k, q)' = Inside(k, q),
           Told(InRoom(l, r)' \ {u}, "ROOM_ENTER_USER_NTF", u),
           Told(InLobby(l)', "ROOM_CHANGED_INFO_NTF", r)
    PROVE  RoomTold
<1>1. \A k \in LobbyIndex, q \in RoomIndex :
        InRoom(k, q) = Inside(k, q) /\ InRoom(k, q)' = Inside(k, q)'
  BY DEF RoomsListed
<1>2. \A k \in LobbyIndex, q \in RoomIndex : \A v :
        v \notin InRoom(k, q) /\ v \in InRoom(k, q)' => k = l /\ q = r /\ v = u
  BY <1>1
<1>3. \A k \in LobbyIndex, q \in RoomIndex : \A v :
        ~(v \in InRoom(k, q) /\ v \notin InRoom(k, q)')
  BY <1>1
<1> QED BY <1>2, <1>3 DEF RoomTold

LEMMA OneLeaves ==
    ASSUME RoomsListed, RoomsListed', NEW u, NEW l, NEW r,
           Inside(l, r)' = Inside(l, r) \ {u},
           \A k, q : k # l \/ q # r => Inside(k, q)' = Inside(k, q),
           Told(InRoom(l, r)', "ROOM_LEAVE_USER_NTF", u),
           Told(InLobby(l)', "ROOM_CHANGED_INFO_NTF", r)
    PROVE  RoomTold
<1>1. \A k \in LobbyIndex, q \in RoomIndex :
        InRoom(k, q) = Inside(k, q) /\ InRoom(k, q)' = Inside(k, q)'
  BY DEF RoomsListed
<1>2. \A k \in LobbyIndex, q \in RoomIndex : \A v :
        v \in InRoom(k, q) /\ v \notin InRoom(k, q)' => k = l /\ q = r /\ v = u
  BY <1>1
<1>3. \A k \in LobbyIndex, q \in RoomIndex : \A v :
        ~(v \notin InRoom(k, q) /\ v \in InRoom(k, q)')
  BY <1>1
<1> QED BY <1>2, <1>3 DEF RoomTold

\* The notice of a leave reaches everybody who is still in the room.
LEMMA LeaveHeard ==
    ASSUME RoomsListed', NEW l \in LobbyIndex, NEW r \in RoomIndex, NEW pool, NEW u,
           \A v \in InRoom(l, r)' :
             pool[v].m_SessionIndex = m_UserObjPool'[v].m_SessionIndex,
           \A v \in InRoom(l, r)' : v # None,
           RoomLeaveNotice(m_RoomList'[l][r], pool, u) \subseteq sent'
    PROVE  Told(InRoom(l, r)', "ROOM_LEAVE_USER_NTF", u)
<1>1. CASE InRoom(l, r)' = {}
  BY <1>1 DEF Told
<1>2. CASE InRoom(l, r)' # {}
  <2>1. m_RoomList'[l][r].m_IsUsed
    BY <1>2 DEF RoomsListed
  <2>2. ToRoom(m_RoomList'[l][r], pool, "ROOM_LEAVE_USER_NTF", u, None) \subseteq sent'
    BY <2>1 DEF RoomLeaveNotice
  <2>3. InRoom(l, r)' = ToSet(m_RoomList'[l][r].m_UserList)
    BY DEF InRoom
  <2> QED BY <2>2, <2>3, RoomHears
<1> QED BY <1>1, <1>2

LEMMA StepTellsRoom ==
    ASSUME StateInv, StateInv', [Next]_vars
    PROVE  [RoomTold]_vars
<1> USE DEF vars
<1>1. RoomsListed /\ RoomsListed' /\ SeenListed'
  BY ListedNow, ListedNext
<1>2. \A l \in LobbyIndex : InLobby(l)' \subseteq m_UserIndexDic'[l]
  BY <1>1 DEF SeenListed
<1>3. \A l : \A v \in InLobby(l)' : /\ v \in UserIndex /\ v # None
                                   /\ m_UserObjPool'[v].m_CurDomainState = "LOBBY"
  BY Indices DEF InLobby
<1>4. /\ \A l \in LobbyIndex, r \in RoomIndex : InRoom(l, r)' = Inside(l, r)'
      /\ \A l, r : \A v \in Inside(l, r)' : v \in UserIndex /\ v # None
  <2>1. \A l, r : \A v \in Inside(l, r)' : v \in UserIndex /\ v # None
    BY Indices DEF Inside
  <2> QED BY <1>1, <2>1 DEF RoomsListed
<1>5. ASSUME UNCHANGED m_UserObjPool
      PROVE  RoomTold
  <2>1. \A k, q : Inside(k, q)' = Inside(k, q)
    BY <1>5 DEF Inside
  <2> QED BY <1>1, <2>1, RoomsSame
<1>6. CASE \E s \in Session : NtfSysConnctSession(s)
  BY <1>5, <1>6 DEF NtfSysConnctSession, userVars
<1>7. ASSUME NEW s \in Session, NtfSysCloseSession(s)
      PROVE  RoomTold
  <2>1. CASE GetUserError(s) = "NONE"
    <3>1. PICK u, l, r : u = UserOf(s) /\ l = User(s).m_LobbyIndex /\ r = User(s).m_RoomIndex
      OBVIOUS
    <3>2. /\ HasUser(s) /\ RemoveUser(s)
          /\ l \in LobbyIndex => LeaveEverything(s)
      BY <1>7, <2>1, <3>1 DEF NtfSysCloseSession, RemoveUser, HasLobby
    <3>3. /\ u \in UserIndex
          /\ m_UserObjPool'[u].m_CurDomainState = "NONE"
          /\ \A v \in UserIndex \ {u} : m_UserObjPool'[v] = m_UserObjPool[v]
          /\ \A k, q : Inside(k, q)' = Inside(k, q) \ {u}
      BY <3>1, <3>2, CloseFacts
    <3>4. User(s) = m_UserObjPool[u] /\ WellPlaced(u, User(s))
      BY <3>1, <3>2, UserFacts
    <3>5. \A k, q : u \in Inside(k, q) =>
            /\ m_UserObjPool[u].m_CurDomainState = "ROOM" /\ k = l /\ q = r
            /\ l \in LobbyIndex /\ r \in RoomIndex
      BY <3>1, <3>3, <3>4, WhereUser DEF WellPlaced
    <3>6. CASE u \notin Inside(l, r)
      <4>1. \A k, q : u \notin Inside(k, q)
        BY <3>5, <3>6
      <4>2. \A k, q : Inside(k, q)' = Inside(k, q)
        BY <3>3, <4>1
      <4> QED BY <1>1, <4>2, RoomsSame
    <3>7. CASE u \in Inside(l, r)
      <4>1. l \in LobbyIndex /\ r \in RoomIndex
        BY <3>5, <3>7
      <4>2. NamedRoom(s)
        BY <3>1, <4>1 DEF NamedRoom, HasRoom
      <4>3. /\ RoomLeaveNotice(m_RoomList'[l][r], m_UserObjPool, u) \subseteq sent'
            /\ ToLobby(m_UserIndexDic[l], m_UserObjPool, "ROOM_CHANGED_INFO_NTF", r, None)
                 \subseteq sent'
            /\ LeaveUser(l, u)
        BY <3>1, <3>2, <4>1, <4>2 DEF LeaveEverything
      <4>4. \A v \in InRoom(l, r)' :
              v # None /\ m_UserObjPool[v].m_SessionIndex = m_UserObjPool'[v].m_SessionIndex
        BY <1>4, <3>3, <4>1
      <4>5. Told(InRoom(l, r)', "ROOM_LEAVE_USER_NTF", u)
        BY <1>1, <4>1, <4>3, <4>4, LeaveHeard
      <4>6. \A v \in InLobby(l)' :
              /\ v \in m_UserIndexDic[l] /\ v # None
              /\ m_UserObjPool[v].m_CurDomainState = "LOBBY"
              /\ m_UserObjPool[v].m_SessionIndex = m_UserObjPool'[v].m_SessionIndex
        <5>1. m_UserIndexDic'[l] \subseteq m_UserIndexDic[l]
          BY <4>1, <4>3 DEF LeaveUser, StateInv, LobbyInv, LobbyTypes
        <5>2. \A v \in InLobby(l)' : v \in UserIndex \ {u}
          BY <1>3, <3>3
        <5> QED BY <1>2, <1>3, <3>3, <4>1, <5>1, <5>2
      <4>7. Told(InLobby(l)', "ROOM_CHANGED_INFO_NTF", r)
        BY <4>3, <4>6, LobbyHears
      <4>8. \A k, q : k # l \/ q # r => Inside(k, q)' = Inside(k, q)
        <5>1. \A k, q : k # l \/ q # r => u \notin Inside(k, q)
          BY <3>5
        <5> QED BY <3>3, <5>1
      <4> QED BY <1>1, <3>3, <4>5, <4>7, <4>8, OneLeaves
    <3> QED BY <3>6, <3>7
  <2>2. CASE GetUserError(s) # "NONE"
    BY <1>5, <1>7, <2>2 DEF NtfSysCloseSession, userVars
  <2> QED BY <2>1, <2>2
<1>8. ASSUME NEW s \in Session, NEW o \in Offsets, NEW id \in IDs, Login(s, <<s, o>>, id)
      PROVE  RoomTold
  <2>1. \A k, q : Inside(k, q)' = Inside(k, q)
    BY <1>8, LoginFacts
  <2> QED BY <1>1, <2>1, RoomsSame
<1>9. ASSUME NEW s \in Session, NEW l, LobbyEnter(s, l)
      PROVE  RoomTold
  <2>1. \A k, q : Inside(k, q)' = Inside(k, q)
    BY <1>9, LobbyEnterFacts
  <2> QED BY <1>1, <2>1, RoomsSame
<1>10. ASSUME NEW s \in Session, LobbyLeave(s)
       PROVE  RoomTold
  <2>1. \A k, q : Inside(k, q)' = Inside(k, q)
    BY <1>10, LobbyLeaveFacts
  <2> QED BY <1>1, <2>1, RoomsSame
<1>11. ASSUME NEW s \in Session, NEW isCreate \in BOOLEAN, NEW q, RoomEnter(s, isCreate, q)
       PROVE  RoomTold
  <2>1. PICK u, l, r : /\ u = UserOf(s) /\ l = User(s).m_LobbyIndex
                       /\ r = IF isCreate THEN FirstUnusedRoom(l) ELSE q
    OBVIOUS
  <2>2. /\ u \in UserIndex /\ l \in LobbyIndex /\ r \in RoomIndex
        /\ Inside(l, r)' = Inside(l, r) \cup {u}
        /\ \A k, p : k # l \/ p # r => Inside(k, p)' = Inside(k, p)
    BY <1>11, <2>1, RoomEnterFacts
  <2>3. /\ ToRoom(m_RoomList'[l][r], m_UserObjPool', "ROOM_ENTER_USER_NTF", u, u) \subseteq sent'
        /\ ToLobby(m_UserIndexDic[l], m_UserObjPool', "ROOM_CHANGED_INFO_NTF", r, None)
             \subseteq sent'
        /\ m_UserIndexDic' = m_UserIndexDic
    BY <1>11, <2>1 DEF RoomEnter
  <2>4. Told(InRoom(l, r)' \ {u}, "ROOM_ENTER_USER_NTF", u)
    <3>1. InRoom(l, r)' = ToSet(m_RoomList'[l][r].m_UserList)
      BY DEF InRoom
    <3> QED BY <2>3, <3>1, RoomHears
  <2>5. Told(InLobby(l)', "ROOM_CHANGED_INFO_NTF", r)
    BY <1>2, <1>3, <2>2, <2>3, LobbyHears
  <2> QED BY <1>1, <2>2, <2>4, <2>5, OneEnters
<1>12. ASSUME NEW s \in Session, RoomLeave(s)
       PROVE  RoomTold
  <2>1. PICK u, l, r : u = UserOf(s) /\ l = User(s).m_LobbyIndex /\ r = User(s).m_RoomIndex
    OBVIOUS
  <2>2. /\ u \in UserIndex /\ l \in LobbyIndex /\ r \in RoomIndex
        /\ Inside(l, r)' = Inside(l, r) \ {u}
        /\ \A k, p : k # l \/ p # r => Inside(k, p)' = Inside(k, p)
    BY <1>12, <2>1, RoomLeaveFacts
  <2>3. /\ RoomLeaveNotice(m_RoomList'[l][r], m_UserObjPool', u) \subseteq sent'
        /\ ToLobby(m_UserIndexDic[l], m_UserObjPool', "ROOM_CHANGED_INFO_NTF", r, None)
             \subseteq sent'
        /\ m_UserIndexDic' = m_UserIndexDic
    BY <1>12, <2>1 DEF RoomLeave
  <2>4. \A v \in InRoom(l, r)' : v # None
    BY <1>4, <2>2
  <2>5. Told(InRoom(l, r)', "ROOM_LEAVE_USER_NTF", u)
    BY <1>1, <2>2, <2>3, <2>4, LeaveHeard
  <2>6. Told(InLobby(l)', "ROOM_CHANGED_INFO_NTF", r)
    BY <1>2, <1>3, <2>2, <2>3, LobbyHears
  <2> QED BY <1>1, <2>2, <2>5, <2>6, OneLeaves
<1>13. CASE \E s \in Session : Answers(s)
  BY <1>5, <1>13, AnswersChangeNothing
<1>14. CASE UNCHANGED vars
  BY <1>14
<1> QED BY <1>6, <1>7, <1>8, <1>9, <1>10, <1>11, <1>12, <1>13, <1>14, Steps

\* Whoever enters or leaves a room, a closed session included, is announced
\* to the others in the room, and the room's new user count to everybody in
\* sight in the lobby, for any number of rooms and users.
THEOREM RoomIsToldCorrect == Spec => RoomIsTold
<1>1. StateInv /\ StateInv' /\ [Next]_vars => [RoomTold]_vars
  BY StepTellsRoom
<1> QED BY <1>1, StateInvCorrect, PTL DEF Spec, RoomIsTold

=============================================================================
