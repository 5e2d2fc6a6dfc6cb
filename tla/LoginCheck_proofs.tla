--------------------------- MODULE LoginCheck_proofs ---------------------------
(***************************************************************************)
(* Theorems about LoginCheck for every number of sessions, every size of a *)
(* sweep and every limit.                                                  *)
(***************************************************************************)
EXTENDS LoginCheck, TLAPS

Inv == TypeOK /\ LoginFresh

LEMMA Sizes ==
    /\ MaxSessionCount \in Nat \ {0} /\ SweepSize \in Nat \ {0} /\ WaitLimit \in Nat \ {0}
    /\ None \notin 0 .. WaitLimit /\ 0 \in 0 .. WaitLimit
BY LoginCheckAssumption DEF None

\* A sweep starts inside the list or at its end and leaves the index there;
\* it looks at sessions only.
LEMMA SweepBounds ==
    ASSUME m_LatestLogincheckIndex \in -1 .. MaxSessionCount
    PROVE  /\ Start \in 0 .. MaxSessionCount
           /\ LastCheckIndex \in 0 .. MaxSessionCount
           /\ SweepEnd \in -1 .. MaxSessionCount
           /\ Start .. LastCheckIndex - 1 \subseteq Session
<1>1. Start \in 0 .. MaxSessionCount
  BY Sizes DEF Start
<1>2. LastCheckIndex \in 0 .. MaxSessionCount
  BY Sizes, <1>1 DEF LastCheckIndex
<1>3. SweepEnd \in -1 .. MaxSessionCount
  BY Sizes, <1>1, <1>2 DEF SweepEnd
<1>4. Start .. LastCheckIndex - 1 \subseteq Session
  BY Sizes, <1>1, <1>2 DEF Session
<1> QED BY <1>1, <1>2, <1>3, <1>4

LEMMA InvInit == Init => Inv
<1> SUFFICES ASSUME Init PROVE Inv
  OBVIOUS
<1>1. TypeOK
  BY Sizes DEF Init, TypeOK
<1>2. LoginFresh
  BY DEF Init, LoginFresh
<1> QED BY <1>1, <1>2 DEF Inv

LEMMA SetConnectSessionInv ==
    ASSUME Inv, NEW s \in Session, SetConnectSession(s) PROVE Inv'
<1>1. TypeOK'
  BY Sizes DEF Inv, TypeOK, SetConnectSession
<1>2. LoginFresh'
  <2>1. \A t \in Session : IsConnected(t) => IsConnected(t)'
    BY Sizes DEF Inv, TypeOK, SetConnectSession, IsConnected, None
  <2> QED BY <2>1 DEF Inv, LoginFresh, SetConnectSession
<1> QED BY <1>1, <1>2 DEF Inv

LEMMA SetLoginInv == ASSUME Inv, NEW s \in Session, SetLogin(s) PROVE Inv'
<1>1. TypeOK'
  BY DEF Inv, TypeOK, SetLogin
<1>2. LoginFresh'
  BY DEF Inv, TypeOK, LoginFresh, SetLogin, IsConnected
<1> QED BY <1>1, <1>2 DEF Inv

LEMMA SetDisConnectSessionInv ==
    ASSUME Inv, NEW s \in Session, SetDisConnectSession(s) PROVE Inv'
<1>1. TypeOK'
  BY DEF Inv, TypeOK, SetDisConnectSession, LoginCleared
<1>2. LoginFresh'
  <2> SUFFICES ASSUME NEW t \in Session, (m_IsLoginSuccess[t] \/ t \in closed)'
               PROVE  IsConnected(t)'
    BY DEF LoginFresh
  <2>1. t # s
    BY DEF Inv, TypeOK, SetDisConnectSession, LoginCleared
  <2>2. IsConnected(t)
    BY <2>1 DEF Inv, TypeOK, LoginFresh, SetDisConnectSession, LoginCleared
  <2> QED BY <2>1, <2>2 DEF Inv, TypeOK, SetDisConnectSession, IsConnected
<1> QED BY <1>1, <1>2 DEF Inv

LEMMA SecondInv == ASSUME Inv, Second PROVE Inv'
<1>1. \A t \in Session : /\ waited'[t] \in {None} \cup 0 .. WaitLimit
                         /\ IsConnected(t)' <=> IsConnected(t)
  BY Sizes DEF Inv, TypeOK, Second, IsConnected, None
<1>2. TypeOK'
  BY <1>1 DEF Inv, TypeOK, Second
<1>3. LoginFresh'
  BY <1>1 DEF Inv, LoginFresh, Second
<1> QED BY <1>2, <1>3 DEF Inv

LEMMA SweepInv == ASSUME Inv, Sweep PROVE Inv'
<1>1. SweepEnd \in -1 .. MaxSessionCount /\ Start .. LastCheckIndex - 1 \subseteq Session
  BY SweepBounds DEF Inv, TypeOK
<1>2. TypeOK'
  BY <1>1 DEF Inv, TypeOK, Sweep, Due
<1>3. LoginFresh'
  BY DEF Inv, LoginFresh, Sweep, Due, IsConnected
<1> QED BY <1>2, <1>3 DEF Inv

LEMMA InvNext == Inv /\ [Next]_vars => Inv'
<1> SUFFICES ASSUME Inv, [Next]_vars PROVE Inv'
  OBVIOUS
<1>1. CASE \E s \in Session : SetConnectSession(s) \/ SetLogin(s) \/ SetDisConnectSession(s)
  BY <1>1, SetConnectSessionInv, SetLoginInv, SetDisConnectSessionInv
<1>2. CASE Second
  BY <1>2, SecondInv
<1>3. CASE Sweep
  BY <1>3, SweepInv
<1>4. CASE UNCHANGED vars
  BY <1>4 DEF vars, Inv, TypeOK, LoginFresh, IsConnected
<1> QED BY <1>1, <1>2, <1>3, <1>4 DEF Next

LEMMA InvCorrect == Spec => []Inv
BY InvInit, InvNext, PTL DEF Spec

\* The index of the sweep stays within the list of sessions, whatever its
\* length and the size of a sweep, and so do the sessions it closes.
THEOREM TypeCorrect == Spec => []TypeOK
<1>1. Inv => TypeOK
  BY DEF Inv
<1> QED BY <1>1, InvCorrect, PTL

\* No client starts out with the login of whoever had its session before,
\* and only connected sessions are closed, for any number of sessions.
THEOREM LoginFreshCorrect == Spec => []LoginFresh
<1>1. Inv => LoginFresh
  BY DEF Inv
<1> QED BY <1>1, InvCorrect, PTL
=============================================================================
