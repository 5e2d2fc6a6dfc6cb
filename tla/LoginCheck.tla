----------------------------- MODULE LoginCheck -----------------------------
(***************************************************************************)
(* MDLogicLib::ConnectedUserManager: when each session connected, whether  *)
(* a user has logged in on it, and the sweep that StateCheck makes over    *)
(* SweepSize sessions at a time (at most every 60 ms; a call that comes    *)
(* sooner returns at once and is a stuttering step).                       *)
(*                                                                         *)
(* The logic thread connects, logs in and disconnects sessions as it takes *)
(* packets from the network; a session that the sweep closes is            *)
(* disconnected by its CLOSE packet before the next sweep.  Time is kept   *)
(* as what the sweep computes from it: the seconds since a session         *)
(* connected, of which it only asks whether they are WaitLimit or more.    *)
(***************************************************************************)
EXTENDS Integers, FiniteSets

CONSTANTS
    MaxSessionCount,    \* ConnectedUserList.size()
    SweepSize,          \* 100
    WaitLimit           \* 180 seconds

ASSUME LoginCheckAssumption ==
    {MaxSessionCount, SweepSize, WaitLimit} \subseteq Nat \ {0}

VARIABLES
    waited,             \* seconds since m_ConnectedTime, None when that is 0
    m_IsLoginSuccess,
    m_LatestLogincheckIndex,
    closed              \* sessions closed by the sweep, CLOSE not yet handled

vars == <<waited, m_IsLoginSuccess, m_LatestLogincheckIndex, closed>>

None == -1
Session == 0 .. MaxSessionCount - 1
IsConnected(s) == waited[s] # None

Init ==
    /\ waited = [s \in Session |-> None]
    /\ m_IsLoginSuccess = [s \in Session |-> FALSE]
    /\ m_LatestLogincheckIndex = -1
    /\ closed = {}

SetConnectSession(s) ==
    /\ ~IsConnected(s)
    /\ waited' = [waited EXCEPT ![s] = 0]
    /\ UNCHANGED <<m_IsLoginSuccess, m_LatestLogincheckIndex, closed>>

\* A login packet that the user manager accepts.
SetLogin(s) ==
    /\ IsConnected(s) /\ s \notin closed
    /\ m_IsLoginSuccess' = [m_IsLoginSuccess EXCEPT ![s] = TRUE]
    /\ UNCHANGED <<waited, m_LatestLogincheckIndex, closed>>

\* ConnectedUser::Clear; the fault forgets to clear the login.
LoginKept(s) == m_IsLoginSuccess
LoginCleared(s) == [m_IsLoginSuccess EXCEPT ![s] = FALSE]

SetDisConnectSession(s) ==
    /\ IsConnected(s)
    /\ waited' = [waited EXCEPT ![s] = None]
    /\ m_IsLoginSuccess' = LoginCleared(s)
    /\ closed' = closed \ {s}
    /\ UNCHANGED m_LatestLogincheckIndex

\* A second passes.
Second ==
    /\ waited' = [s \in Session |->
                    IF IsConnected(s) /\ waited[s] < WaitLimit THEN waited[s] + 1 ELSE waited[s]]
    /\ UNCHANGED <<m_IsLoginSuccess, m_LatestLogincheckIndex, closed>>

\* The first index of this sweep: one past the index where the sweep before
\* it ended, which that sweep did not look at; the fault never starts over.
NoRestart == m_LatestLogincheckIndex + 1
Start == IF m_LatestLogincheckIndex >= MaxSessionCount THEN 0 ELSE m_LatestLogincheckIndex + 1
LastCheckIndex ==
    IF Start + SweepSize > MaxSessionCount THEN MaxSessionCount ELSE Start + SweepSize

\* Where the loop leaves the index.
SweepEnd == IF Start < LastCheckIndex THEN LastCheckIndex ELSE Start

\* The sessions that the loop does not skip and finds to have waited too
\* long.  The fault compares the seconds with > .
DueLater == {s \in Start .. LastCheckIndex - 1 :
                IsConnected(s) /\ m_IsLoginSuccess[s] /\ waited[s] > WaitLimit}
Due == {s \in Start .. LastCheckIndex - 1 :
                IsConnected(s) /\ m_IsLoginSuccess[s] /\ waited[s] >= WaitLimit}

\* Called with packetQue drained: every CLOSE has been handled.
Sweep ==
    /\ closed = {}
    /\ closed' = Due
    /\ m_LatestLogincheckIndex' = SweepEnd
    /\ UNCHANGED <<waited, m_IsLoginSuccess>>

Next ==
    \/ \E s \in Session : SetConnectSession(s) \/ SetLogin(s) \/ SetDisConnectSession(s)
    \/ Second
    \/ Sweep

\* The loop of LogicMain::Run handles every CLOSE and then calls StateCheck,
\* again and again; select returns at the latest after its timeout.
Fairness == WF_vars(Sweep) /\ \A s \in Session : WF_vars(s \in closed /\ SetDisConnectSession(s))
Spec == Init /\ [][Next]_vars
FairSpec == Spec /\ Fairness

-----------------------------------------------------------------------------
(* Properties.                                                             *)

TypeOK ==
    /\ waited \in [Session -> {None} \cup 0 .. WaitLimit]
    /\ m_IsLoginSuccess \in [Session -> BOOLEAN]
    /\ m_LatestLogincheckIndex \in -1 .. MaxSessionCount
    /\ closed \subseteq Session

\* A client starts out as not logged in whoever had its session before, and
\* the sweep only closes sessions that are connected.
LoginFresh ==
    \A s \in Session : m_IsLoginSuccess[s] \/ s \in closed => IsConnected(s)

\* The indices that no sweep looks at: the loop leaves its index at the end
\* of the range, and the next sweep increments it before it starts.
NeverSwept == {s \in Session : s % (SweepSize + 1) = SweepSize}

\* Every other session whose time is over is closed in the end, wherever it
\* lies in the list and whatever comes and goes around it.
OverdueIsClosed ==
    \A s \in Session \ NeverSwept :
        m_IsLoginSuccess[s] /\ waited[s] = WaitLimit ~> s \in closed \/ ~IsConnected(s)

\* "Whether the login was completed within a given time after connecting"
\* (Define.h:18, on IsLoginCheck): who is closed has not logged in.
LoggedInStays == \A s \in closed : ~m_IsLoginSuccess[s]
=============================================================================
