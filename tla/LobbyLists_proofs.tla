-------------------------- MODULE LobbyLists_proofs --------------------------
(***************************************************************************)
(* Theorems about LobbyLists for every number of sessions, lobbies, rooms  *)
(* and slots, every page size and every order of handlers and requests.    *)
(*                                                                         *)
(* ListsInv is inductive: the invariant of PacketProcessor, what the       *)
(* client has while it is out of sight (Sight), RoomsSeen and UsersSeen.   *)
(* A handler keeps it because whatever it changes is notified (RoomTold    *)
(* and LobbyTold, proved for every step), because nobody who stays in a    *)
(* lobby changes slot, and because no notice says of somebody in sight     *)
(* that he left.  A request keeps it because a page leaves nothing out in  *)
(* front of where the next one starts (PageWhole).                         *)
(***************************************************************************)
EXTENDS LobbyLists, PacketProcessor_proofs

-----------------------------------------------------------------------------
(* Pages.                                                                  *)

\* The elements of S in front of k.
Before(S, k) == {j \in S : j < k}

LEMMA FiniteBelow ==
    ASSUME NEW size \in Nat, NEW S \in SUBSET (0 .. size - 1)
    PROVE  IsFiniteSet(S) /\ Cardinality(S) \in Nat
<1>1. IsFiniteSet(0 .. size - 1)
  <2>1. 0 \in Int /\ size - 1 \in Int
    OBVIOUS
  <2> QED BY ONLY <2>1, FS_Interval
<1>2. IsFiniteSet(S)
  BY <1>1, FS_Subset
<1> QED BY <1>2, FS_CardinalityType

\* Highest finds the greatest of some indices.
LEMMA HighestGreatest ==
    ASSUME NEW size \in Nat, NEW S \in SUBSET (0 .. size - 1), S # {}
    PROVE  Highest(S) \in S /\ \A j \in S : j <= Highest(S)
<1> DEFINE M == {size - j : j \in S}
<1>1. M \in SUBSET Nat /\ M # {}
  OBVIOUS
<1>2. Lowest(M) \in M /\ \A i \in M : Lowest(M) <= i
  <2> HIDE DEF M
  <2> QED BY <1>1, LowestLeast
<1>3. PICK k \in S : Lowest(M) = size - k
  BY <1>2
<1>4. \A j \in S : j <= k
  <2> SUFFICES ASSUME NEW j \in S PROVE j <= k
    OBVIOUS
  <2>1. size - k <= size - j
    BY <1>2, <1>3
  <2>2. j \in Int /\ k \in Int
    OBVIOUS
  <2> QED BY <2>1, <2>2
<1> QED BY <1>4 DEF Highest

\* Whatever is in front of an element of a page is in the page.
LEMMA PageClosed ==
    ASSUME NEW size \in Nat, NEW S \in SUBSET (0 .. size - 1), NEW n \in Nat \ {0},
           NEW k \in Page(S, n), NEW r \in S, r <= k
    PROVE  r \in Page(S, n)
<1>1. Before(S, r) \subseteq Before(S, k)
  <2>1. k \in Int /\ r \in Int /\ \A j \in S : j \in Int
    BY DEF Page
  <2>2. \A j \in S : j < r => j < k
    BY <2>1
  <2> QED BY <2>2 DEF Before
<1>2. /\ IsFiniteSet(Before(S, k)) /\ Cardinality(Before(S, k)) \in Nat
      /\ Cardinality(Before(S, r)) \in Nat
  <2>1. Before(S, k) \in SUBSET (0 .. size - 1) /\ Before(S, r) \in SUBSET (0 .. size - 1)
    BY DEF Before
  <2> QED BY <2>1, FiniteBelow
<1>3. Cardinality(Before(S, r)) <= Cardinality(Before(S, k))
  BY <1>1, <1>2, FS_Subset
<1>4. Cardinality(Before(S, k)) < n
  BY DEF Page, Before
<1>5. Cardinality(Before(S, r)) < n
  BY <1>2, <1>3, <1>4
<1> QED BY <1>5 DEF Page, Before

LEMMA PageSmall ==
    ASSUME NEW size \in Nat, NEW S \in SUBSET (0 .. size - 1), NEW n \in Nat \ {0}
    PROVE  Cardinality(Page(S, n)) <= n
<1> DEFINE page == Page(S, n)
<1>1. page \in SUBSET (0 .. size - 1)
  BY DEF Page
<1>2. CASE page = {}
  BY <1>2, FS_EmptySet
<1>3. CASE page # {}
  <2>1. PICK h \in page : \A j \in page : j <= h
    <3> HIDE DEF page
    <3> QED BY <1>1, <1>3, HighestGreatest
  <2>2. page \subseteq Before(S, h) \cup {h}
    <3>1. \A j \in page : j \in S /\ j \in Int /\ h \in Int /\ j <= h
      BY <1>1, <2>1 DEF Page
    <3>2. \A j \in page : j \in S /\ (j < h \/ j = h)
      <4> HIDE DEF page
      <4> QED BY <3>1
    <3> QED BY <3>2 DEF Before
  <2>3. /\ IsFiniteSet(Before(S, h)) /\ Cardinality(Before(S, h)) \in Nat
        /\ h \notin Before(S, h)
    <3>1. Before(S, h) \in SUBSET (0 .. size - 1)
      BY DEF Before
    <3>2. h \in Int
      BY <1>1
    <3> QED BY <3>1, <3>2, FiniteBelow DEF Before
  <2>4. /\ IsFiniteSet(Before(S, h) \cup {h})
        /\ Cardinality(Before(S, h) \cup {h}) = Cardinality(Before(S, h)) + 1
    BY <2>3, FS_AddElement
  <2>5. Cardinality(page) <= Cardinality(Before(S, h) \cup {h})
    BY <2>2, <2>4, FS_Subset
  <2>6. Cardinality(Before(S, h)) < n
    BY DEF Page, Before
  <2>7. Cardinality(page) \in Nat
    BY <1>1, FiniteBelow
  <2> HIDE DEF page
  <2>8. Cardinality(page) <= n
    BY <2>3, <2>4, <2>5, <2>6, <2>7
  <2> QED BY <2>8 DEF page
<1> QED BY <1>2, <1>3

\* Of a page that is not full nothing is left out.
LEMMA PageOfAll ==
    ASSUME NEW size \in Nat, NEW S \in SUBSET (0 .. size - 1), NEW n \in Nat \ {0},
           Cardinality(Page(S, n)) # n
    PROVE  S \subseteq Page(S, n)
<1> DEFINE out == S \ Page(S, n)
<1>1. SUFFICES ASSUME out # {} PROVE FALSE
  OBVIOUS
<1>2. PICK r \in out : \A j \in out : r <= j
  <2>1. \A j \in 0 .. size - 1 : j \in Nat
    OBVIOUS
  <2>2. out \in SUBSET Nat
    BY <2>1
  <2> HIDE DEF out
  <2> QED BY <1>1, <2>2, LowestLeast
<1>3. Before(S, r) = Page(S, n)
  <2>1. \A j \in S : j \in Int /\ r \in Int
    OBVIOUS
  <2>2. \A j \in S : j < r => j \in Page(S, n)
    BY <1>2, <2>1
  <2>3. \A j \in Page(S, n) : j \in S /\ ~(r <= j)
    BY PageClosed DEF Page
  <2>4. \A j \in S : j < r <=> j \in Page(S, n)
    BY <2>1, <2>2, <2>3
  <2>5. Page(S, n) \subseteq S
    BY DEF Page
  <2> QED BY <2>4, <2>5 DEF Before
<1>4. ~(Cardinality(Page(S, n)) < n)
  <2>1. ~(Cardinality(Before(S, r)) < n)
    BY DEF Page, Before
  <2> QED BY <1>3, <2>1
<1>5. Cardinality(Page(S, n)) \in Nat
  <2>1. Page(S, n) \in SUBSET (0 .. size - 1)
    BY DEF Page
  <2> QED BY <2>1, FiniteBelow
<1>6. Cardinality(Page(S, n)) <= n
  BY PageSmall
<1> QED BY <1>4, <1>5, <1>6

\* A page leaves nothing out in front of where the next one starts.
LEMMA PageWhole ==
    ASSUME NEW size \in Nat, NEW S \in SUBSET (0 .. size - 1), NEW n \in Nat \ {0}
    PROVE  /\ NextStart(Page(S, n), n, size) \in Nat
           /\ \A r \in S : r < NextStart(Page(S, n), n, size) => r \in Page(S, n)
<1> DEFINE page == Page(S, n)  after == NextStart(page, n, size)
<1>1. page \in SUBSET (0 .. size - 1) /\ page \subseteq S
  BY DEF Page
<1>2. CASE page = {}
  <2>1. Cardinality(page) # n
    BY <1>2, FS_EmptySet
  <2>2. S \subseteq page
    BY <2>1, PageOfAll
  <2>3. after = size
    BY <1>2 DEF NextStart, IsEnd
  <2> HIDE DEF page, after
  <2>4. after \in Nat /\ \A r \in S : r < after => r \in page
    BY <2>2, <2>3
  <2> QED BY <2>4 DEF page, after
<1>3. CASE page # {}
  <2>1. PICK h : h = Highest(page)
    OBVIOUS
  <2>2. h \in page /\ h \in 0 .. size - 1
    <3> HIDE DEF page
    <3> QED BY <1>1, <1>3, <2>1, HighestGreatest
  <2>3. \A r \in S : r <= h => r \in page
    BY <2>2, PageClosed
  <2>4. \/ after = h + 1
        \/ after = size /\ (h + 1 = size \/ Cardinality(page) # n)
    BY <1>3, <2>1 DEF NextStart, IsEnd, LastChecked
  <2>5. Cardinality(page) # n => S \subseteq page
    BY PageOfAll
  <2> HIDE DEF page, after
  <2>6. after \in Nat /\ \A r \in S : r < after => r \in page
    <3>1. \A r \in S : r \in Int /\ h \in Int
      BY <2>2
    <3>2. CASE after = h + 1
      BY <2>2, <2>3, <3>1, <3>2
    <3>3. CASE after = size /\ Cardinality(page) # n
      BY <2>5, <3>3
    <3> QED BY <2>4, <3>2, <3>3
  <2> QED BY <2>6 DEF page, after
<1> QED BY <1>2, <1>3
-----------------------------------------------------------------------------
(* What a handler leaves as it is.                                         *)

LEMMA ListsConstants ==
    /\ Me \in Session /\ RoomGoers \subseteq Session /\ 0 \in Offsets
    /\ RoomPage \in Nat \ {0} /\ UserPage \in Nat \ {0}
BY ListsAssumption

\* The handlers of this module, one by one.
LEMMA Handlers ==
    ASSUME NEW s \in Session, Arrive(s) \/ ChangesLobby(s)
    PROVE  \/ NtfSysConnctSession(s)
           \/ NtfSysCloseSession(s)
           \/ \E id \in IDs : Login(s, <<s, 0>>, id)
           \/ \E l \in LobbyIndex : LobbyEnter(s, l)
           \/ LobbyLeave(s)
           \/ \E isCreate \in BOOLEAN, r \in RoomIndex : RoomEnter(s, isCreate, r)
           \/ RoomLeave(s)
BY DEF Arrive, ChangesLobby

LEMMA HandlerSteps ==
    ASSUME NEW s \in Session, Arrive(s) \/ ChangesLobby(s)
    PROVE  Next
<1>1. LobbyIndex \subseteq AnyLobby /\ RoomIndex \subseteq AnyRoom
  BY Bounds DEF LobbyIndex, RoomIndex, AnyLobby, AnyRoom
<1>2. Process(s)
  BY <1>1, Handlers, ListsConstants DEF Process, ClientPacket
<1> QED BY <1>2 DEF Next

\* A session that has a user before and after a handler has the same one,
\* and a user that is in sight before and after it has not changed.
LEMMA UserStays ==
    ASSUME StateInv, NEW s \in Session, Arrive(s) \/ ChangesLobby(s)
    PROVE  /\ \A t \in Session : HasUser(t) /\ HasUser(t)' => UserOf(t)' = UserOf(t)
           /\ \A v \in UserIndex : /\ m_UserObjPool[v].m_CurDomainState = "LOBBY"
                                   /\ m_UserObjPool'[v].m_CurDomainState = "LOBBY"
                                   => m_UserObjPool'[v] = m_UserObjPool[v]
<1>1. ASSUME UNCHANGED m_UserSessionDic
      PROVE  \A t \in Session : UserOf(t)' = UserOf(t)
  BY <1>1 DEF UserOf
<1>2. CASE NtfSysConnctSession(s)
  BY <1>1, <1>2 DEF NtfSysConnctSession, userVars
<1>3. CASE NtfSysCloseSession(s)
  <2>1. CASE GetUserError(s) = "NONE"
    <3>1. HasUser(s) /\ RemoveUser(s)
      BY <1>3, <2>1 DEF NtfSysCloseSession, RemoveUser
    <3>2. PICK u : u = UserOf(s)
      OBVIOUS
    <3>3. /\ u \in UserIndex /\ m_UserObjPool'[u].m_CurDomainState = "NONE"
          /\ \A v \in UserIndex \ {u} : m_UserObjPool'[v] = m_UserObjPool[v]
          /\ m_UserSessionDic'[s] = None
          /\ \A t \in Session \ {s} : m_UserSessionDic'[t] = m_UserSessionDic[t]
      BY <3>1, <3>2, CloseFacts
    <3>4. \A t \in Session : HasUser(t)' => UserOf(t)' = UserOf(t)
      BY <3>3 DEF HasUser, UserOf
    <3> QED BY <3>3, <3>4
  <2>2. CASE GetUserError(s) # "NONE"
    BY <1>1, <1>3, <2>2 DEF NtfSysCloseSession, userVars
  <2> QED BY <2>1, <2>2
<1>4. ASSUME NEW id \in IDs, Login(s, <<s, 0>>, id)
      PROVE  /\ \A t \in Session : HasUser(t) => UserOf(t)' = UserOf(t)
             /\ \A v \in UserIndex : m_UserObjPool[v].m_CurDomainState = "LOBBY" =>
                  m_UserObjPool'[v] = m_UserObjPool[v]
  <2>1. PICK u : u = Head(m_UserObjPoolIndex)
    OBVIOUS
  <2>2. /\ u \in UserIndex /\ u \notin Confirmed
        /\ \A v \in UserIndex \ {u} : m_UserObjPool'[v] = m_UserObjPool[v]
        /\ m_UserSessionDic' = Inserted(s, u)
    BY <1>4, <2>1, LoginFacts, ListsConstants
  <2>3. m_UserObjPool[u].m_CurDomainState = "NONE"
    BY <2>2, FreePlace
  <2>4. \A t \in Session : HasUser(t) => UserOf(t)' = UserOf(t)
    <3>1. m_UserSessionDic \in [Session -> UserIndex \cup {None}]
      BY DEF StateInv, Inv, UserTypeOK
    <3> QED BY <2>2, <3>1 DEF Inserted, HasUser, UserOf
  <2> QED BY <2>2, <2>3, <2>4
<1>5. ASSUME NEW l, LobbyEnter(s, l)
      PROVE  /\ UNCHANGED m_UserSessionDic
             /\ \A v \in UserIndex : m_UserObjPool[v].m_CurDomainState = "LOBBY" =>
                  m_UserObjPool'[v] = m_UserObjPool[v]
  <2>1. PICK u : u = UserOf(s)
    OBVIOUS
  <2>2. /\ m_UserObjPool[u].m_CurDomainState = "LOGIN"
        /\ \A v \in UserIndex \ {u} : m_UserObjPool'[v] = m_UserObjPool[v]
    BY <1>5, <2>1, LobbyEnterFacts
  <2>3. UNCHANGED m_UserSessionDic
    BY <1>5 DEF LobbyEnter
  <2> QED BY <2>2, <2>3
<1>6. ASSUME LobbyLeave(s)
      PROVE  /\ UNCHANGED m_UserSessionDic
             /\ \A v \in UserIndex : m_UserObjPool'[v].m_CurDomainState = "LOBBY" =>
                  m_UserObjPool'[v] = m_UserObjPool[v]
  <2>1. PICK u, l : u = UserOf(s) /\ l = User(s).m_LobbyIndex
    OBVIOUS
  <2>2. /\ m_UserObjPool'[u].m_CurDomainState = "LOGIN"
        /\ \A v \in UserIndex \ {u} : m_UserObjPool'[v] = m_UserObjPool[v]
    BY <1>6, <2>1, LobbyLeaveFacts
  <2>3. UNCHANGED m_UserSessionDic
    BY <1>6 DEF LobbyLeave
  <2> QED BY <2>2, <2>3
<1>7. ASSUME NEW isCreate \in BOOLEAN, NEW q, RoomEnter(s, isCreate, q)
      PROVE  /\ UNCHANGED m_UserSessionDic
             /\ \A v \in UserIndex : m_UserObjPool'[v].m_CurDomainState = "LOBBY" =>
                  m_UserObjPool'[v] = m_UserObjPool[v]
  <2>1. PICK u, l, r : /\ u = UserOf(s) /\ l = User(s).m_LobbyIndex
                       /\ r = IF isCreate THEN FirstUnusedRoom(l) ELSE q
    OBVIOUS
  <2>2. /\ m_UserObjPool'[u].m_CurDomainState = "ROOM"
        /\ \A v \in UserIndex \ {u} : m_UserObjPool'[v] = m_UserObjPool[v]
    BY <1>7, <2>1, RoomEnterFacts
  <2>3. UNCHANGED m_UserSessionDic
    BY <1>7 DEF RoomEnter
  <2> QED BY <2>2, <2>3
<1>8. ASSUME RoomLeave(s)
      PROVE  /\ UNCHANGED m_UserSessionDic
             /\ \A v \in UserIndex : m_UserObjPool[v].m_CurDomainState = "LOBBY" =>
                  m_UserObjPool'[v] = m_UserObjPool[v]
  <2>1. PICK u, l, r : u = UserOf(s) /\ l = User(s).m_LobbyIndex /\ r = User(s).m_RoomIndex
    OBVIOUS
  <2>2. /\ m_UserObjPool[u].m_CurDomainState = "ROOM"
        /\ \A v \in UserIndex \ {u} : m_UserObjPool'[v] = m_UserObjPool[v]
    BY <1>8, <2>1, RoomLeaveFacts
  <2>3. UNCHANGED m_UserSessionDic
    BY <1>8 DEF RoomLeave
  <2> QED BY <2>2, <2>3
<1> QED BY <1>1, <1>2, <1>3, <1>4, <1>5, <1>6, <1>7, <1>8, Handlers

\* A slot that holds a user of the lobby after a handler, and one who was in
\* the lobby before it, held the same user then: nobody changes slot.
LEMMA SlotStays ==
    ASSUME StateInv, NEW s \in Session, Arrive(s) \/ ChangesLobby(s),
           NEW l \in LobbyIndex, NEW k \in Slot, NEW v \in Members(l), m_UserList'[l][k] = v
    PROVE  m_UserList[l][k] = v
<1>1. m_UserList \in [LobbyIndex -> [Slot -> UserIndex \cup {None}]] /\ v \in UserIndex
  BY DEF StateInv, LobbyInv, LobbyTypes, Members
<1>2. ASSUME NEW j \in LobbyIndex, NEW u, LeaveUser(j, u)
      PROVE  m_UserList[l][k] = v
  <2>1. m_UserList'[l][k] \in {None, m_UserList[l][k]}
    BY <1>1, <1>2 DEF LeaveUser, SlotEmptied
  <2>2. v # None
    BY <1>1, Indices
  <2> QED BY <2>1, <2>2
<1>3. CASE NtfSysConnctSession(s)
  BY <1>3 DEF NtfSysConnctSession, lobbyVars
<1>4. CASE NtfSysCloseSession(s)
  <2>1. CASE GetUserError(s) = "NONE" /\ User(s).m_LobbyIndex \in LobbyIndex
    <3>1. LeaveUser(User(s).m_LobbyIndex, UserOf(s))
      BY <1>4, <2>1 DEF NtfSysCloseSession, HasLobby, LeaveEverything
    <3> QED BY <1>2, <2>1, <3>1
  <2>2. CASE ~(GetUserError(s) = "NONE" /\ User(s).m_LobbyIndex \in LobbyIndex)
    BY <1>4, <2>2 DEF NtfSysCloseSession, HasLobby, lobbyVars
  <2> QED BY <2>1, <2>2
<1>5. ASSUME NEW id \in IDs, Login(s, <<s, 0>>, id)
      PROVE  m_UserList[l][k] = v
  BY <1>5 DEF Login, lobbyVars
<1>6. ASSUME NEW j \in LobbyIndex, LobbyEnter(s, j)
      PROVE  m_UserList[l][k] = v
  <2>1. PICK u : u = UserOf(s)
    OBVIOUS
  <2>2. u \notin Members(j)
    BY <1>6, <2>1, LobbyEnterFacts
  <2>3. m_UserList' = [m_UserList EXCEPT ![j][Lowest(EmptySlots(j))] = u]
    BY <1>6, <2>1 DEF LobbyEnter, EnterUser
  <2>4. (m_UserList'[l][k] = u /\ l = j) \/ m_UserList'[l][k] = m_UserList[l][k]
    BY <1>1, <2>3
  <2> QED BY <2>2, <2>4
<1>7. CASE LobbyLeave(s)
  <2>1. PICK u, j : u = UserOf(s) /\ j = User(s).m_LobbyIndex
    OBVIOUS
  <2>2. j \in LobbyIndex
    BY <1>7, <2>1, LobbyLeaveFacts
  <2>3. LeaveUser(j, u)
    BY <1>7, <2>1 DEF LobbyLeave
  <2> QED BY <1>2, <2>2, <2>3
<1>8. ASSUME NEW isCreate \in BOOLEAN, NEW q, RoomEnter(s, isCreate, q)
      PROVE  m_UserList[l][k] = v
  BY <1>8 DEF RoomEnter
<1>9. CASE RoomLeave(s)
  BY <1>9 DEF RoomLeave
<1> QED BY <1>3, <1>4, <1>5, <1>6, <1>7, <1>8, <1>9, Handlers
-----------------------------------------------------------------------------
(* The notices.                                                            *)

LEMMA MessageParts ==
    /\ \A s, id, error : Answer(s, id, error).id = id
    /\ \A members, pool, id, about, pass :
         \A m \in ToLobby(members, pool, id, about, pass) : m.id = id /\ m.about = about
    /\ \A room, pool, id, about, pass :
         \A m \in ToRoom(room, pool, id, about, pass) : m.id = id
    /\ \A room, pool, about :
         \A m \in RoomLeaveNotice(room, pool, about) : m.id = "ROOM_LEAVE_USER_NTF"
<1>1. \A room, pool, id, about, pass :
        \A m \in ToRoom(room, pool, id, about, pass) : m.id = id
  BY DEF ToRoom, Notice
<1>2. \A room, pool, about :
        \A m \in RoomLeaveNotice(room, pool, about) : m.id = "ROOM_LEAVE_USER_NTF"
  BY <1>1 DEF RoomLeaveNotice
<1> QED BY <1>1, <1>2 DEF Answer, Notice, ToLobby

\* The users of whom the last handler said that they left the lobby.
SaidGone == {m.about : m \in {n \in sent : n.id = "LOBBY_LEAVE_USER_NTF"}}

\* They are out of sight.
LEMMA GoneIsOutOfSight ==
    ASSUME StateInv, NEW s \in Session, Arrive(s) \/ ChangesLobby(s), NEW v \in SaidGone'
    PROVE  \A l : v \notin InLobby(l)'
<1>1. PICK m \in sent' : m.id = "LOBBY_LEAVE_USER_NTF" /\ m.about = v
  BY DEF SaidGone
<1>2. SUFFICES ASSUME v \in UserIndex
               PROVE  m_UserObjPool'[v].m_CurDomainState # "LOBBY"
  BY DEF InLobby
<1>3. \A id, error : m = Answer(s, id, error) => m.id = id
  BY MessageParts
<1>4. CASE NtfSysConnctSession(s)
  BY <1>1, <1>4 DEF NtfSysConnctSession
<1>5. CASE NtfSysCloseSession(s)
  <2>1. CASE GetUserError(s) = "NONE" /\ User(s).m_LobbyIndex \in LobbyIndex
    <3>1. PICK u, l, r : u = UserOf(s) /\ l = User(s).m_LobbyIndex /\ r = User(s).m_RoomIndex
      OBVIOUS
    <3>2. HasUser(s) /\ RemoveUser(s) /\ LeaveEverything(s)
      BY <1>5, <2>1 DEF NtfSysCloseSession, RemoveUser, HasLobby
    <3>3. m_UserObjPool'[u].m_CurDomainState = "NONE"
      BY <3>1, <3>2, CloseFacts
    <3>4. \/ m \in RoomLeaveNotice(m_RoomList'[l][r], m_UserObjPool, u)
          \/ m \in ToLobby(m_UserIndexDic[l], m_UserObjPool, "ROOM_CHANGED_INFO_NTF", r, None)
          \/ m \in ToLobby(m_UserIndexDic'[l], m_UserObjPool, "LOBBY_LEAVE_USER_NTF", u, u)
      BY <1>1, <3>1, <3>2 DEF LeaveEverything
    <3>5. m.about = u
      BY <1>1, <3>4, MessageParts
    <3> QED BY <1>1, <3>3, <3>5
  <2>2. CASE ~(GetUserError(s) = "NONE" /\ User(s).m_LobbyIndex \in LobbyIndex)
    BY <1>1, <1>5, <2>2 DEF NtfSysCloseSession, HasLobby
  <2> QED BY <2>1, <2>2
<1>6. ASSUME NEW id \in IDs, Login(s, <<s, 0>>, id)
      PROVE  FALSE
  <2>1. m = Answer(s, "LOGIN_IN_RES", "NONE")
    BY <1>1, <1>6 DEF Login
  <2> QED BY <1>1, <1>3, <2>1
<1>7. ASSUME NEW l, LobbyEnter(s, l)
      PROVE  FALSE
  <2>1. PICK u : u = UserOf(s)
    OBVIOUS
  <2>2. \/ m \in ToLobby(m_UserIndexDic'[l], m_UserObjPool', "LOBBY_ENTER_USER_NTF", u, u)
        \/ m = Answer(s, "LOBBY_ENTER_RES", "NONE")
    BY <1>1, <1>7, <2>1 DEF LobbyEnter
  <2> QED BY <1>1, <1>3, <2>2, MessageParts
<1>8. CASE LobbyLeave(s)
  <2>1. PICK u, l : u = UserOf(s) /\ l = User(s).m_LobbyIndex
    OBVIOUS
  <2>2. \/ m \in ToLobby(m_UserIndexDic'[l], m_UserObjPool', "LOBBY_LEAVE_USER_NTF", u, u)
        \/ m = Answer(s, "LOBBY_LEAVE_RES", "NONE")
    BY <1>1, <1>8, <2>1 DEF LobbyLeave
  <2>3. m.about = u
    BY <1>1, <1>3, <2>2, MessageParts
  <2>4. m_UserObjPool'[u].m_CurDomainState = "LOGIN"
    BY <1>8, <2>1, LobbyLeaveFacts
  <2> QED BY <1>1, <2>3, <2>4
<1>9. ASSUME NEW isCreate \in BOOLEAN, NEW q, RoomEnter(s, isCreate, q)
      PROVE  m_UserObjPool'[v].m_CurDomainState # "LOBBY"
  <2>1. PICK u, l, r : /\ u = UserOf(s) /\ l = User(s).m_LobbyIndex
                       /\ r = IF isCreate THEN FirstUnusedRoom(l) ELSE q
    OBVIOUS
  <2>2. \/ m \in ToLobby(m_UserIndexDic[l], m_UserObjPool', "LOBBY_LEAVE_USER_NTF", u, u)
        \/ m \in ToLobby(m_UserIndexDic[l], m_UserObjPool', "ROOM_CHANGED_INFO_NTF", r, None)
        \/ m \in ToRoom(m_RoomList'[l][r], m_UserObjPool', "ROOM_ENTER_USER_NTF", u, u)
        \/ m = Answer(s, "ROOM_ENTER_RES", "NONE")
    BY <1>1, <1>9, <2>1 DEF RoomEnter
  <2>3. m.about = u
    BY <1>1, <1>3, <2>2, MessageParts
  <2>4. m_UserObjPool'[u].m_CurDomainState = "ROOM"
    BY <1>9, <2>1, RoomEnterFacts
  <2> QED BY <1>1, <2>3, <2>4
<1>10. CASE RoomLeave(s)
  <2>1. PICK u, l, r : u = UserOf(s) /\ l = User(s).m_LobbyIndex /\ r = User(s).m_RoomIndex
    OBVIOUS
  <2>2. \/ m \in RoomLeaveNotice(m_RoomList'[l][r], m_UserObjPool', u)
        \/ m \in ToLobby(m_UserIndexDic[l], m_UserObjPool', "LOBBY_ENTER_USER_NTF", u, u)
        \/ m \in ToLobby(m_UserIndexDic[l], m_UserObjPool', "ROOM_CHANGED_INFO_NTF", r, None)
        \/ m = Answer(s, "ROOM_LEAVE_RES", "NONE")
    BY <1>1, <1>10, <2>1 DEF RoomLeave
  <2> QED BY <1>1, <1>3, <2>2, MessageParts
<1> QED BY <1>4, <1>5, <1>6, <1>7, <1>8, <1>9, <1>10, Handlers

\* A notice that everybody in sight is told of reaches Me.
LEMMA MeHears ==
    ASSUME NEW W, UserOf(Me)' \in W, SessionOf(UserOf(Me))' = Me, NEW id, NEW about,
           Told(W, id, about)
    PROVE  about \in About(id)
<1>1. PICK m : m = Notice(SessionOf(UserOf(Me))', id, about)
  OBVIOUS
<1>2. m \in sent'
  BY <1>1 DEF Told, SessionOf
<1>3. m.to = Me /\ m.id = id /\ m.about = about
  BY <1>1 DEF Notice
<1> QED BY <1>2, <1>3 DEF About
-----------------------------------------------------------------------------
(* The invariant.                                                          *)

\* A client out of sight reads no list; one in sight reads one of the two.
Sight ==
    /\ ~InSight(Me) => list = "none" /\ next = 0
    /\ InSight(Me) => list \in {"rooms", "users"}
    /\ next \in Nat
    /\ rooms \in [RoomIndex -> Nat]

ListsInv == StateInv /\ Sight /\ RoomsSeen /\ UsersSeen

LEMMA InSightNow ==
    StateInv /\ InSight(Me) => /\ MyLobby \in LobbyIndex
                               /\ UserOf(Me) \in UserIndex
                               /\ UserOf(Me) \in InLobby(MyLobby)
                               /\ SessionOf(UserOf(Me)) = Me
<1> SUFFICES ASSUME StateInv, InSight(Me)
             PROVE  /\ MyLobby \in LobbyIndex
                    /\ UserOf(Me) \in UserIndex
                    /\ UserOf(Me) \in InLobby(MyLobby)
                    /\ SessionOf(UserOf(Me)) = Me
  OBVIOUS
<1>1. HasUser(Me) /\ User(Me).m_CurDomainState = "LOBBY"
  BY DEF InSight
<1>2. /\ UserOf(Me) \in UserIndex /\ User(Me) = m_UserObjPool[UserOf(Me)]
      /\ User(Me).m_SessionIndex = Me /\ WellPlaced(UserOf(Me), User(Me))
  BY <1>1, ListsConstants, UserFacts
<1> QED BY <1>1, <1>2 DEF MyLobby, InLobby, SessionOf, WellPlaced

LEMMA InSightNext ==
    StateInv' /\ InSight(Me)' => /\ MyLobby' \in LobbyIndex
                                 /\ UserOf(Me)' \in UserIndex
                                 /\ (UserOf(Me) \in InLobby(MyLobby))'
                                 /\ SessionOf(UserOf(Me))' = Me
<1>1. (StateInv /\ InSight(Me) => /\ MyLobby \in LobbyIndex
                                  /\ UserOf(Me) \in UserIndex
                                  /\ UserOf(Me) \in InLobby(MyLobby)
                                  /\ SessionOf(UserOf(Me)) = Me)'
  BY InSightNow, PTL
<1> QED BY <1>1

\* Me in sight before and after a handler is the same user in the same lobby.
LEMMA MeStays ==
    ASSUME StateInv, StateInv', NEW s \in Session, Arrive(s) \/ ChangesLobby(s),
           InSight(Me), InSight(Me)'
    PROVE  /\ MyLobby' = MyLobby /\ MyLobby \in LobbyIndex
           /\ UserOf(Me)' = UserOf(Me)
           /\ UserOf(Me) \in InLobby(MyLobby) /\ UserOf(Me) \in InLobby(MyLobby)'
           /\ SessionOf(UserOf(Me))' = Me
<1>1. /\ MyLobby \in LobbyIndex /\ UserOf(Me) \in UserIndex
      /\ UserOf(Me) \in InLobby(MyLobby)
  BY InSightNow
<1>2. (UserOf(Me) \in InLobby(MyLobby))' /\ SessionOf(UserOf(Me))' = Me
  BY InSightNext
<1>3. UserOf(Me)' = UserOf(Me)
  BY UserStays, ListsConstants DEF InSight
<1>4. /\ m_UserObjPool[UserOf(Me)].m_CurDomainState = "LOBBY"
      /\ m_UserObjPool'[UserOf(Me)].m_CurDomainState = "LOBBY"
  BY <1>3 DEF InSight, User
<1>5. m_UserObjPool'[UserOf(Me)] = m_UserObjPool[UserOf(Me)]
  BY <1>1, <1>4, UserStays
<1>6. MyLobby' = MyLobby
  BY <1>3, <1>5 DEF MyLobby, User
<1>7. UserOf(Me) \in InLobby(MyLobby)'
  BY <1>1, <1>2, <1>4, <1>5, <1>6 DEF InLobby
<1> QED BY <1>1, <1>2, <1>3, <1>6, <1>7

\* The user count of a room is the number of users that are in it.
LEMMA CountNow ==
    StateInv => \A l \in LobbyIndex, r \in RoomIndex :
                    /\ UserCount(l, r) = Cardinality(InRoom(l, r))
                    /\ UserCount(l, r) \in Nat
                    /\ ~m_RoomList[l][r].m_IsUsed => UserCount(l, r) = 0
<1> SUFFICES ASSUME StateInv, NEW l \in LobbyIndex, NEW r \in RoomIndex
             PROVE  /\ UserCount(l, r) = Cardinality(InRoom(l, r))
                    /\ UserCount(l, r) \in Nat
                    /\ ~m_RoomList[l][r].m_IsUsed => UserCount(l, r) = 0
  OBVIOUS
<1> DEFINE members == m_RoomList[l][r].m_UserList
<1>1. /\ members \in Seq(UserIndex) /\ Inside(l, r) \in SUBSET UserIndex
      /\ Holds(members, Inside(l, r), UserIndex)
      /\ m_RoomList[l][r].m_IsUsed <=> members # << >>
  BY DEF StateInv, LobbyInv, RoomLists, RoomHolds, RoomRecord, Inside
<1>2. InRoom(l, r) = Inside(l, r)
  BY ListedNow DEF RoomsListed
<1> HIDE DEF members
<1>3. Cardinality(Inside(l, r)) = Len(members) /\ Len(members) \in Nat
  BY <1>1, ListedOnce, LenProperties
<1>4. members = << >> => Len(members) = 0
  BY EmptySeq
<1> QED BY <1>1, <1>2, <1>3, <1>4 DEF UserCount, members

LEMMA CountNext ==
    StateInv' => \A l \in LobbyIndex, r \in RoomIndex :
                    /\ UserCount(l, r)' = Cardinality(InRoom(l, r)')
                    /\ UserCount(l, r)' \in Nat
<1>1. (StateInv => \A l \in LobbyIndex, r \in RoomIndex :
                    /\ UserCount(l, r) = Cardinality(InRoom(l, r))
                    /\ UserCount(l, r) \in Nat)'
  <2>1. StateInv => \A l \in LobbyIndex, r \in RoomIndex :
                    /\ UserCount(l, r) = Cardinality(InRoom(l, r))
                    /\ UserCount(l, r) \in Nat
    BY CountNow
  <2> QED BY <2>1, PTL
<1> QED BY <1>1

\* Whom a slot shows is in sight in the lobby.
LEMMA ShownNow ==
    StateInv => \A l \in LobbyIndex, k \in Slot :
                    Shown(l, k) <=> m_UserList[l][k] \in InLobby(l)
<1> SUFFICES ASSUME StateInv, NEW l \in LobbyIndex, NEW k \in Slot
             PROVE  Shown(l, k) <=> m_UserList[l][k] \in InLobby(l)
  OBVIOUS
<1>1. SlotsHold(m_UserList[l], Members(l))
  BY DEF StateInv, LobbyInv, SlotsAgree
<1>2. m_UserList[l][k] # None => m_UserList[l][k] \in Members(l)
  BY <1>1 DEF SlotsHold
<1>3. None \notin UserIndex
  BY Indices
<1> QED BY <1>2, <1>3 DEF Shown, InLobby, Members

LEMMA ShownNext ==
    StateInv' => \A l \in LobbyIndex, k \in Slot :
                    Shown(l, k)' <=> m_UserList'[l][k] \in InLobby(l)'
<1>1. (StateInv => \A l \in LobbyIndex, k \in Slot :
                    Shown(l, k) <=> m_UserList[l][k] \in InLobby(l))'
  BY ShownNow, PTL
<1> QED BY <1>1
\* A handler keeps the counts: a room whose members change is notified.
LEMMA HandlerKeepsRooms ==
    ASSUME ListsInv, StateInv', NEW s \in Session, Arrive(s) \/ ChangesLobby(s),
           InSight(Me), InSight(Me)', Observe
    PROVE  RoomsSeen'
<1>1. /\ MyLobby' = MyLobby /\ MyLobby \in LobbyIndex
      /\ UserOf(Me)' \in InLobby(MyLobby)' /\ SessionOf(UserOf(Me))' = Me
  BY MeStays DEF ListsInv
<1>2. list' = list /\ next' = next /\ rooms \in [RoomIndex -> Nat]
  BY DEF Observe, ListsInv, Sight
<1>3. SUFFICES ASSUME list = "rooms", NEW r \in RoomIndex, r < next
               PROVE  rooms'[r] = UserCount(MyLobby, r)'
  BY <1>2 DEF RoomsSeen
<1>4. rooms' = [q \in RoomIndex |-> IF q \in About("ROOM_CHANGED_INFO_NTF") /\ q < next
                                    THEN UserCount(MyLobby, q)' ELSE rooms[q]]
  BY <1>3 DEF Observe
<1>5. rooms[r] = UserCount(MyLobby, r)
  BY <1>3 DEF ListsInv, RoomsSeen
<1>6. CASE r \in About("ROOM_CHANGED_INFO_NTF")
  BY <1>3, <1>4, <1>6
<1>7. CASE r \notin About("ROOM_CHANGED_INFO_NTF")
  <2>1. PICK l \in LobbyIndex : l = MyLobby
    BY <1>1
  <2>2. UserCount(l, r) = Cardinality(InRoom(l, r))
        /\ UserCount(l, r)' = Cardinality(InRoom(l, r)')
    BY CountNow, CountNext DEF ListsInv
  <2>3. InRoom(l, r)' = InRoom(l, r)
    <3>1. SUFFICES ASSUME InRoom(l, r)' # InRoom(l, r) PROVE FALSE
      OBVIOUS
    <3>2. [RoomTold]_vars
      BY HandlerSteps, StepTellsRoom DEF ListsInv
    <3>3. RoomTold
      <4>1. UNCHANGED vars => InRoom(l, r)' = InRoom(l, r)
        BY DEF vars, lobbyVars, InRoom
      <4> QED BY <3>1, <3>2, <4>1
    <3>4. InRoom(l, r)' \subseteq UserIndex /\ InRoom(l, r) \subseteq UserIndex
      <4>1. InRoom(l, r) = Inside(l, r) /\ InRoom(l, r)' = Inside(l, r)'
        BY ListedNow, ListedNext DEF ListsInv, RoomsListed
      <4> QED BY <4>1 DEF Inside
    <3>5. PICK v \in UserIndex : ~(v \in InRoom(l, r) <=> v \in InRoom(l, r)')
      BY <3>1, <3>4
    <3>6. Told(InLobby(l)', "ROOM_CHANGED_INFO_NTF", r)
      BY <3>3, <3>5 DEF RoomTold
    <3>7. r \in About("ROOM_CHANGED_INFO_NTF")
      <4>1. UserOf(Me)' \in InLobby(l)'
        BY <1>1, <2>1
      <4> QED BY <1>1, <3>6, <4>1, MeHears
    <3> QED BY <1>7, <3>7
  <2>4. UserCount(MyLobby, r)' = UserCount(l, r)'
    BY <1>1, <2>1 DEF UserCount
  <2> QED BY <1>4, <1>5, <1>7, <2>1, <2>2, <2>3, <2>4
<1> QED BY <1>6, <1>7

\* A handler keeps the users: who comes into sight is announced, who stays
\* keeps the slot, and nobody in sight is said to be gone.
LEMMA HandlerKeepsUsers ==
    ASSUME ListsInv, StateInv', NEW s \in Session, Arrive(s) \/ ChangesLobby(s),
           InSight(Me), InSight(Me)', Observe
    PROVE  UsersSeen'
<1>1. /\ MyLobby' = MyLobby /\ MyLobby \in LobbyIndex
      /\ UserOf(Me)' = UserOf(Me) /\ UserOf(Me) \in InLobby(MyLobby)
      /\ UserOf(Me)' \in InLobby(MyLobby)' /\ SessionOf(UserOf(Me))' = Me
  BY MeStays DEF ListsInv
<1>2. list' = list /\ next' = next
  BY DEF Observe
<1>3. PICK l \in LobbyIndex : l = MyLobby
  BY <1>1
<1>4. SUFFICES ASSUME list = "users", NEW k \in Slot, k < next, Shown(l, k)'
               PROVE  m_UserList'[l][k] \in users'
  BY <1>1, <1>2, <1>3 DEF UsersSeen, Shown
<1>5. users' = (users \cup About("LOBBY_ENTER_USER_NTF")) \ About("LOBBY_LEAVE_USER_NTF")
  BY <1>4 DEF Observe
<1>6. PICK v : v = m_UserList'[l][k]
  OBVIOUS
<1>7. v \in InLobby(l)' /\ v \in UserIndex
  BY <1>4, <1>6, ShownNext DEF InLobby
<1>8. v \notin About("LOBBY_LEAVE_USER_NTF")
  <2>1. About("LOBBY_LEAVE_USER_NTF") \subseteq SaidGone'
    BY DEF About, SaidGone
  <2> QED BY <1>7, <2>1, GoneIsOutOfSight DEF ListsInv
<1>9. CASE v \in InLobby(l)
  <2>1. v \in Members(l)
    BY <1>9 DEF InLobby, Members
  <2>2. m_UserList[l][k] = v
    BY <1>6, <2>1, SlotStays DEF ListsInv
  <2>3. Shown(l, k)
    BY <1>9, <2>2, ShownNow DEF ListsInv
  <2>4. v \in users
    BY <1>3, <1>4, <2>2, <2>3 DEF ListsInv, UsersSeen
  <2> QED BY <1>5, <1>6, <1>8, <2>4
<1>10. CASE v \notin InLobby(l)
  <2>1. [LobbyTold]_vars
    BY HandlerSteps, StepTellsLobby DEF ListsInv
  <2>2. LobbyTold
    <3>1. UNCHANGED vars => InLobby(l)' = InLobby(l)
      BY DEF vars, userVars, InLobby
    <3> QED BY <1>7, <1>10, <2>1, <3>1
  <2>3. Told(InLobby(l)' \ {v}, "LOBBY_ENTER_USER_NTF", v)
    BY <1>7, <1>10, <2>2 DEF LobbyTold
  <2>4. UserOf(Me)' \in InLobby(l)' \ {v}
    BY <1>1, <1>3, <1>10
  <2>5. v \in About("LOBBY_ENTER_USER_NTF")
    BY <1>1, <2>3, <2>4, MeHears
  <2> QED BY <1>5, <1>6, <1>8, <2>5
<1> QED BY <1>9, <1>10

LEMMA HandlerKeepsLists ==
    ASSUME ListsInv, NEW s \in Session, Arrive(s) \/ ChangesLobby(s), Observe
    PROVE  ListsInv'
<1>1. StateInv'
  BY HandlerSteps, StateInvNext DEF ListsInv
<1>2. CASE ~InSight(Me)'
  <2>1. list' = "none" /\ next' = 0 /\ rooms' = [r \in RoomIndex |-> 0]
    BY <1>2 DEF Observe, OutOfSight
  <2> QED BY <1>1, <1>2, <2>1 DEF ListsInv, Sight, RoomsSeen, UsersSeen
<1>3. CASE InSight(Me)' /\ ~InSight(Me)
  <2>1. list' \in {"rooms", "users"} /\ next' = 0 /\ rooms' = rooms
    BY <1>3 DEF Observe, ListsInv, Sight
  <2>2. (\A r \in RoomIndex : ~(r < 0)) /\ \A k \in Slot : ~(k < 0)
    BY PlaceIndices
  <2>3. Sight'
    BY <1>3, <2>1 DEF ListsInv, Sight
  <2>4. RoomsSeen' /\ UsersSeen'
    BY <2>1, <2>2 DEF RoomsSeen, UsersSeen
  <2> QED BY <1>1, <2>3, <2>4 DEF ListsInv
<1>4. CASE InSight(Me)' /\ InSight(Me)
  <2>1. RoomsSeen' /\ UsersSeen'
    BY <1>1, <1>4, HandlerKeepsRooms, HandlerKeepsUsers
  <2>2. list' = list /\ next' = next /\ rooms' \in [RoomIndex -> Nat]
    <3>1. \A r \in RoomIndex : UserCount(MyLobby, r)' \in Nat
      <4>1. MyLobby' \in LobbyIndex
        BY <1>1, <1>4, InSightNext
      <4>2. PICK l \in LobbyIndex : l = MyLobby'
        BY <4>1
      <4>3. \A r \in RoomIndex : UserCount(MyLobby, r)' = UserCount(l, r)'
        BY <4>2 DEF UserCount
      <4> QED BY <1>1, <4>3, CountNext
    <3>2. rooms \in [RoomIndex -> Nat]
      BY DEF ListsInv, Sight
    <3> QED BY <1>4, <3>1, <3>2 DEF Observe
  <2>3. Sight'
    BY <1>4, <2>2 DEF ListsInv, Sight
  <2> QED BY <1>1, <2>1, <2>3 DEF ListsInv
<1> QED BY <1>2, <1>3, <1>4
\* A request changes nothing at the server.
LEMMA AskChangesNothing ==
    ASSUME StateInv, AskRooms \/ AskUsers
    PROVE  /\ StateInv'
           /\ UNCHANGED <<m_UserObjPool, m_UserSessionDic, m_UserList, m_RoomList>>
           /\ InSight(Me)' = InSight(Me) /\ MyLobby' = MyLobby
           /\ \A l, r : UserCount(l, r)' = UserCount(l, r)
           /\ \A l, k : Shown(l, k)' = Shown(l, k)
<1>1. UNCHANGED <<userVars, lobbyVars, connectedVars>>
  BY DEF AskRooms, AskUsers, LobbyRoomList, LobbyUserList, SendList
<1>2. StateInv'
  BY <1>1, NobodyMovesInv DEF userVars
<1>3. UNCHANGED <<m_UserObjPool, m_UserSessionDic, m_UserList, m_RoomList>>
  BY <1>1 DEF userVars, lobbyVars
<1> QED BY <1>2, <1>3 DEF InSight, MyLobby, UserCount, Shown, HasUser, User, UserOf

LEMMA AskRoomsKeeps ==
    ASSUME ListsInv, AskRooms PROVE ListsInv'
<1>1. PICK l : l = MyLobby
  OBVIOUS
<1>2. list = "rooms" /\ InSight(Me) /\ l \in LobbyIndex
  BY <1>1, InSightNow DEF AskRooms, ListsInv, Sight
<1> DEFINE S == UsedFrom(l, next)  page == Page(S, RoomPage)
           after == NextStart(page, RoomPage, MaxRoomCountByLobby)
<1>3. S \in SUBSET (0 .. MaxRoomCountByLobby - 1)
  BY DEF UsedFrom, RoomIndex
<1>4. after \in Nat /\ \A r \in S : r < after => r \in page
  <2> HIDE DEF S
  <2> QED BY <1>3, Bounds, ListsConstants, PageWhole
<1>5. /\ rooms' = [r \in RoomIndex |-> IF r \in page THEN UserCount(l, r)
                                       ELSE IF next <= r /\ r < after THEN 0 ELSE rooms[r]]
      /\ next' = after /\ list' = list /\ users' = users
  BY <1>1 DEF AskRooms
<1>6. /\ StateInv' /\ InSight(Me)' = InSight(Me) /\ MyLobby' = MyLobby
      /\ \A j, r : UserCount(j, r)' = UserCount(j, r)
  BY AskChangesNothing DEF ListsInv
<1>7. \A r \in RoomIndex : r >= next /\ m_RoomList[l][r].m_IsUsed => r \in S
  BY DEF UsedFrom
<1>8. next \in Nat /\ rooms \in [RoomIndex -> Nat]
  BY DEF ListsInv, Sight
<1>9. \A r \in RoomIndex : /\ r < next => rooms[r] = UserCount(l, r)
                           /\ UserCount(l, r) \in Nat
                           /\ ~m_RoomList[l][r].m_IsUsed => UserCount(l, r) = 0
  BY <1>1, <1>2, CountNow DEF ListsInv, RoomsSeen
<1> HIDE DEF S, page, after
<1>10. ASSUME NEW r \in RoomIndex, r < after
       PROVE  rooms'[r] = UserCount(l, r)
  <2>1. r \in Nat
    BY PlaceIndices
  <2>2. CASE r \in page
    BY <1>5, <2>2
  <2>3. CASE r \notin page /\ r < next
    BY <1>5, <1>8, <1>9, <2>1, <2>3
  <2>4. CASE r \notin page /\ ~(r < next)
    <3>1. r >= next
      BY <1>8, <2>1, <2>4
    <3>2. UserCount(l, r) = 0
      BY <1>4, <1>7, <1>9, <1>10, <2>4, <3>1
    <3> QED BY <1>5, <1>8, <1>10, <2>1, <2>4, <3>1, <3>2
  <2> QED BY <2>2, <2>3, <2>4
<1>11. rooms' \in [RoomIndex -> Nat]
  BY <1>5, <1>8, <1>9
<1>12. Sight'
  BY <1>2, <1>4, <1>5, <1>6, <1>11 DEF Sight
<1>13. RoomsSeen'
  BY <1>1, <1>5, <1>6, <1>10 DEF RoomsSeen
<1>14. UsersSeen'
  BY <1>2, <1>5 DEF UsersSeen
<1> QED BY <1>6, <1>12, <1>13, <1>14 DEF ListsInv

LEMMA AskUsersKeeps ==
    ASSUME ListsInv, AskUsers PROVE ListsInv'
<1>1. PICK l : l = MyLobby
  OBVIOUS
<1>2. list = "users" /\ InSight(Me)
  BY DEF AskUsers, ListsInv, Sight
<1> DEFINE S == ShownFrom(l, next)  page == Page(S, UserPage)
           after == NextStart(page, UserPage, MaxLobbyUserCount)
<1>3. S \in SUBSET (0 .. MaxLobbyUserCount - 1)
  BY DEF ShownFrom, Slot
<1>4. after \in Nat /\ \A k \in S : k < after => k \in page
  <2> HIDE DEF S
  <2> QED BY <1>3, Bounds, ListsConstants, PageWhole
<1>5. /\ users' = users \cup {m_UserList[l][k] : k \in page}
      /\ next' = after /\ list' = list /\ rooms' = rooms
  BY <1>1 DEF AskUsers
<1>6. /\ StateInv' /\ InSight(Me)' = InSight(Me) /\ MyLobby' = MyLobby
      /\ m_UserList' = m_UserList
      /\ \A j, k : Shown(j, k)' = Shown(j, k)
  BY AskChangesNothing DEF ListsInv
<1>7. \A k \in Slot : k >= next /\ Shown(l, k) => k \in S
  BY DEF ShownFrom
<1>8. next \in Nat
  BY DEF ListsInv, Sight
<1>9. \A k \in Slot : k < next /\ Shown(l, k) => m_UserList[l][k] \in users
  BY <1>1, <1>2 DEF ListsInv, UsersSeen
<1> HIDE DEF S, page, after
<1>10. ASSUME NEW k \in Slot, k < after, Shown(l, k)
       PROVE  m_UserList[l][k] \in users'
  <2>1. k \in Nat
    BY PlaceIndices
  <2>2. CASE k < next
    BY <1>5, <1>9, <1>10, <2>2
  <2>3. CASE ~(k < next)
    <3>1. k >= next
      BY <1>8, <2>1, <2>3
    <3>2. k \in page
      BY <1>4, <1>7, <1>10, <3>1
    <3> QED BY <1>5, <3>2
  <2> QED BY <2>2, <2>3
<1>11. Sight'
  BY <1>2, <1>4, <1>5, <1>6 DEF ListsInv, Sight
<1>12. UsersSeen'
  <2>1. \A k \in Slot : Shown(l, k)' = Shown(l, k)
    BY <1>6
  <2>2. (\A k \in Slot : k < next /\ Shown(MyLobby, k) => m_UserList[MyLobby][k] \in users)'
    <3>1. \A k \in Slot : k < next' /\ Shown(MyLobby, k)' => m_UserList'[MyLobby'][k] \in users'
      <4>1. \A k \in Slot : Shown(MyLobby, k)' = Shown(l, k)'
        BY <1>1, <1>6 DEF Shown
      <4> QED BY <1>1, <1>5, <1>6, <1>10, <2>1, <4>1
    <3> QED BY <3>1
  <2> QED BY <2>2 DEF UsersSeen
<1>13. RoomsSeen'
  BY <1>2, <1>5 DEF RoomsSeen
<1> QED BY <1>6, <1>11, <1>12, <1>13 DEF ListsInv

-----------------------------------------------------------------------------
(* Theorems.                                                               *)

LEMMA ListsInvInit == ListsInit => ListsInv
<1> SUFFICES ASSUME ListsInit PROVE ListsInv
  OBVIOUS
<1>1. StateInv
  BY StateInvInit DEF ListsInit
<1>2. ~InSight(Me)
  BY ListsConstants DEF ListsInit, Init, UserManagerInit, InSight, HasUser
<1>3. Sight
  BY <1>2 DEF ListsInit, Sight
<1> QED BY <1>1, <1>3 DEF ListsInit, ListsInv, RoomsSeen, UsersSeen

LEMMA ListsInvNext == ListsInv /\ [ListsNext]_listVars => ListsInv'
<1> SUFFICES ASSUME ListsInv, [ListsNext]_listVars PROVE ListsInv'
  OBVIOUS
<1>1. ASSUME NEW s \in Session, Arrive(s) \/ ChangesLobby(s), Observe PROVE ListsInv'
  BY <1>1, HandlerKeepsLists
<1>2. CASE AskRooms
  BY <1>2, AskRoomsKeeps
<1>3. CASE AskUsers
  BY <1>3, AskUsersKeeps
<1>4. CASE UNCHANGED listVars
  <2>1. StateInv'
    BY <1>4, NobodyMovesInv DEF ListsInv, listVars, vars, userVars
  <2>2. /\ UNCHANGED <<m_UserObjPool, m_UserSessionDic, m_UserList, m_RoomList>>
        /\ UNCHANGED <<list, next, rooms, users>>
    BY <1>4 DEF listVars, vars, userVars, lobbyVars, clientVars
  <2>3. Sight'
    BY <2>2 DEF ListsInv, Sight, InSight, HasUser, User, UserOf
  <2>4. RoomsSeen' /\ UsersSeen'
    BY <2>2 DEF ListsInv, RoomsSeen, UsersSeen, MyLobby, UserCount, Shown, User, UserOf
  <2> QED BY <2>1, <2>3, <2>4 DEF ListsInv
<1> QED BY <1>1, <1>2, <1>3, <1>4 DEF ListsNext

LEMMA ListsInvCorrect == ListsSpec => []ListsInv
BY ListsInvInit, ListsInvNext, PTL DEF ListsSpec

\* A client that reads the list of the rooms shows of every room it has been
\* told about the number of users in it, whatever happens between two pages,
\* for any number of rooms, any page size and any order of the handlers.
THEOREM RoomsSeenCorrect == ListsSpec => []RoomsSeen
<1>1. ListsInv => RoomsSeen
  BY DEF ListsInv
<1> QED BY <1>1, ListsInvCorrect, PTL

\* A client that reads the list of the users misses nobody who is in sight in
\* a slot it has read past, for any number of slots, any page size and any
\* order of the handlers.
THEOREM UsersSeenCorrect == ListsSpec => []UsersSeen
<1>1. ListsInv => UsersSeen
  BY DEF ListsInv
<1> QED BY <1>1, ListsInvCorrect, PTL

LEMMA ListsSimulatePresence ==
    ASSUME ListsInv, [ListsNext]_listVars PROVE [Places!Next]_Place
<1>1. ASSUME NEW s \in Session, Arrive(s) \/ ChangesLobby(s) PROVE [Places!Next]_Place
  BY <1>1, HandlerSteps, PresenceSimulates DEF ListsInv
<1>2. ASSUME UNCHANGED <<m_UserObjPool, m_UserSessionDic>> PROVE Place' = Place
  BY <1>2 DEF Place, HasUser, User, UserOf
<1>3. CASE AskRooms \/ AskUsers
  BY <1>2, <1>3, AskChangesNothing DEF ListsInv
<1>4. CASE UNCHANGED listVars
  BY <1>2, <1>4 DEF listVars, vars, userVars
<1> QED BY <1>1, <1>3, <1>4 DEF ListsNext

\* The handlers that this module has, in its order of arrivals and with its
\* requests between them, implement Presence too.
THEOREM ListsRefinePresence == ListsSpec => ImplementsPresence
<1>1. ListsInit => Places!Init
  <2> SUFFICES ASSUME ListsInit PROVE Place = [s \in Places!Session |-> Places!Nowhere]
    BY DEF Places!Init
  <2>1. \A s \in Session : ~HasUser(s)
    BY DEF ListsInit, Init, UserManagerInit, HasUser
  <2> QED BY <2>1 DEF Place, Session, Places!Session, Places!Nowhere
<1>2. ListsInv /\ [ListsNext]_listVars => [Places!Next]_Place
  BY ListsSimulatePresence
<1> QED BY <1>1, <1>2, ListsInvCorrect, PTL DEF ListsSpec, ImplementsPresence, Places!Spec

=============================================================================
