--------------------------- MODULE SessionsProofs ---------------------------
(***************************************************************************)
(* Proofs about Sessions for any number of accounts, tokens and requests,   *)
(* and about Throttle for any number of sources and any limits.             *)
(*                                                                          *)
(* OneAdmin rests on the settings row: before setup is complete there is no *)
(* account at all, so whoever looks again after the await sees the account  *)
(* another request made meanwhile.  OldPasswordOut follows what a sign-in   *)
(* holds across its await: the hash it read is still the account's, or a    *)
(* change of the password met it there, or the account is gone and will not *)
(* come back.  LimitHolds rests on the charge taken before the await: what  *)
(* a window's attempts have not given back is still in its bucket.          *)
(***************************************************************************)
EXTENDS Sessions, Throttle, FiniteSetTheorems, TLAPS

AtMostOne == \A a, b \in Admins : users[a] # 0 /\ users[b] # 0 => a = b

NoneBeforeSetup == ~setupComplete => \A a \in Admins : users[a] = 0

RemovedAreGone == \A a \in removed : users[a] = 0

\* Whoever is named by a live session or by a request was read from a row.
ReadFromRow ==
    /\ \A t \in Tokens : Live(t) => sessions[t].user \in Admins
    /\ \A r \in Calls : call[r].at \in {"verify", "body", "current", "next"} => call[r].user \in Admins

CheckedHash ==
    \A r \in Calls : call[r].at = "verify" =>
        /\ call[r].hash # 0
        /\ \/ call[r].user \in removed
           \/ users[call[r].user] # 0 /\ (call[r].hash = users[call[r].user] \/ call[r].hash \in overlapped)

IInv == SessionTypeOK /\ AtMostOne /\ NoneBeforeSetup /\ RemovedAreGone /\ ReadFromRow /\ CheckedHash /\ OldPasswordOut

\* The rows and requests that steps make.
LEMMA RowShapes ==
  /\ \A s \in Session : /\ [s EXCEPT !.idle = TRUE] \in Session /\ [s EXCEPT !.over = TRUE] \in Session
  /\ Unissued \in Session /\ GoneSession \in Session /\ [Unissued EXCEPT !.state = "gone"] \in Session
  /\ NoCall \in Call
  /\ \A a \in Admins : [NoCall EXCEPT !.at = "body", !.user = a] \in Call
  /\ \A c \in Call, h \in 0..MaxHashes : [c EXCEPT !.at = "current", !.hash = h] \in Call
  /\ \A a \in Admins, h \in 0..MaxHashes :
       [Unissued EXCEPT !.state = "live", !.user = a, !.hash = h] \in Session
<1>1. 0 \in 0..MaxHashes
  BY MaxHashesAssumption
<1>2. ASSUME NEW s \in Session PROVE [s EXCEPT !.idle = TRUE] \in Session /\ [s EXCEPT !.over = TRUE] \in Session
  BY Zenon DEF Session
<1>3. Unissued \in Session
  BY <1>1, Zenon DEF Session, Unissued
<1>4. [Unissued EXCEPT !.state = "gone"] \in Session
  BY <1>3 DEF Session
<1>5. NoCall \in Call
  BY <1>1, Zenon DEF NoCall, Call
<1>6. ASSUME NEW a \in Admins PROVE [NoCall EXCEPT !.at = "body", !.user = a] \in Call
  BY <1>5 DEF Call
<1>7. ASSUME NEW c \in Call, NEW h \in 0..MaxHashes PROVE [c EXCEPT !.at = "current", !.hash = h] \in Call
  BY DEF Call
<1>8. ASSUME NEW a \in Admins, NEW h \in 0..MaxHashes
      PROVE [Unissued EXCEPT !.state = "live", !.user = a, !.hash = h] \in Session
  BY <1>3 DEF Session
<1> QED
  BY <1>2, <1>3, <1>4, <1>5, <1>6, <1>7, <1>8 DEF GoneSession

LEMMA InitIInv == SessionInit => IInv
<1> SUFFICES ASSUME SessionInit PROVE IInv
  OBVIOUS
<1>1. \A t \in Tokens : sessions[t].state = "new"
  BY DEF SessionInit, Unissued
<1>2. \A r \in Calls : call[r].at = "idle"
  BY DEF SessionInit, NoCall
<1>3. SessionTypeOK
  <2>1. sessions \in [Tokens -> Session] /\ call \in [Calls -> Call]
    BY RowShapes DEF SessionInit
  <2>2. code \in [memory : 0..MaxCodes, file : 0..MaxCodes] /\ codes \in 0..MaxCodes
    BY MaxCodesAssumption DEF SessionInit
  <2>3. /\ users \in [Admins -> 0..MaxHashes] /\ hashes \in 0..MaxHashes
        /\ \A a \in Admins : users[a] <= hashes
    BY MaxHashesAssumption DEF SessionInit
  <2> QED
    BY <1>1, <2>1, <2>2, <2>3 DEF SessionInit, SessionTypeOK
<1>4. removed = {} /\ \A a \in Admins : users[a] = 0
  BY DEF SessionInit
<1>5. AtMostOne /\ NoneBeforeSetup /\ RemovedAreGone
  BY <1>4 DEF AtMostOne, NoneBeforeSetup, RemovedAreGone
<1>6. ReadFromRow /\ CheckedHash /\ OldPasswordOut
  BY <1>1, <1>2 DEF ReadFromRow, CheckedHash, OldPasswordOut, Live
<1> QED
  BY <1>3, <1>5, <1>6 DEF IInv

LEMMA NextIInv == IInv /\ [SessionNext]_sessionVars => IInv'
<1> SUFFICES ASSUME IInv, [SessionNext]_sessionVars PROVE IInv'
  OBVIOUS
<1> USE MaxHashesAssumption, MaxCodesAssumption, NoAdmin DEF Live
<1>0. CASE UNCHANGED sessionVars
  BY <1>0 DEF IInv, SessionTypeOK, AtMostOne, NoneBeforeSetup, RemovedAreGone, ReadFromRow, CheckedHash, OldPasswordOut, sessionVars
<1>1. CASE ShowSetup
  <2>1. SessionTypeOK'
    BY <1>1 DEF IInv, SessionTypeOK, Session, Call, ReadFromRow, CheckedHash, ShowSetup, SetupCode, NeedsSetup
  <2>2. AtMostOne'
    BY <1>1 DEF IInv, AtMostOne, NoneBeforeSetup, SessionTypeOK, ShowSetup, SetupCode, NeedsSetup
  <2>3. NoneBeforeSetup' /\ RemovedAreGone'
    BY <1>1 DEF IInv, NoneBeforeSetup, RemovedAreGone, SessionTypeOK, ShowSetup, SetupCode, NeedsSetup
  <2>4. ReadFromRow'
    BY <1>1 DEF IInv, ReadFromRow, SessionTypeOK, Session, Call, ShowSetup, SetupCode, NeedsSetup
  <2>5. CheckedHash'
    BY <1>1 DEF IInv, CheckedHash, RemovedAreGone, ReadFromRow, SessionTypeOK, Session, Call, ShowSetup, SetupCode, NeedsSetup
  <2>6. OldPasswordOut'
    BY <1>1 DEF IInv, OldPasswordOut, CheckedHash, RemovedAreGone, ReadFromRow, SessionTypeOK, Session, Call, ShowSetup, SetupCode, NeedsSetup
  <2> QED
    BY <2>1, <2>2, <2>3, <2>4, <2>5, <2>6 DEF IInv
<1>2. CASE RemoveAdmin
  <2>1. SessionTypeOK'
    <3>1. /\ sessions' \in [Tokens -> Session]
          /\ \A t \in Tokens : sessions'[t].state # "live"
      BY <1>2, RowShapes DEF IInv, SessionTypeOK, RemoveAdmin, Unissued
    <3>2. users' \in [Admins -> 0..MaxHashes] /\ removed' \subseteq Admins /\ \A a \in Admins : users'[a] <= hashes
      BY <1>2 DEF IInv, SessionTypeOK, RemoveAdmin
    <3> QED
      BY <1>2, <3>1, <3>2 DEF IInv, SessionTypeOK, RemoveAdmin
  <2>2. AtMostOne'
    BY <1>2 DEF IInv, AtMostOne, NoneBeforeSetup, SessionTypeOK, RemoveAdmin, Unissued
  <2>3. NoneBeforeSetup' /\ RemovedAreGone'
    BY <1>2 DEF IInv, NoneBeforeSetup, RemovedAreGone, SessionTypeOK, RemoveAdmin, Unissued
  <2>4. ReadFromRow'
    BY <1>2 DEF IInv, ReadFromRow, SessionTypeOK, Session, Call, RemoveAdmin, Unissued
  <2>5. CheckedHash'
    BY <1>2 DEF IInv, CheckedHash, RemovedAreGone, ReadFromRow, SessionTypeOK, Session, Call, RemoveAdmin, Unissued
  <2>6. OldPasswordOut'
    BY <1>2 DEF IInv, OldPasswordOut, CheckedHash, RemovedAreGone, ReadFromRow, SessionTypeOK, Session, Call, RemoveAdmin, Unissued
  <2> QED
    BY <2>1, <2>2, <2>3, <2>4, <2>5, <2>6 DEF IInv
<1>3. CASE PruneSessions
  <2>1. SessionTypeOK'
    <3>1. sessions' \in [Tokens -> Session]
      BY <1>3, RowShapes DEF IInv, SessionTypeOK, PruneSessions
    <3> QED
      BY <1>3, <3>1 DEF IInv, SessionTypeOK, PruneSessions, GoneSession, Unissued
  <2>2. AtMostOne'
    BY <1>3 DEF IInv, AtMostOne, NoneBeforeSetup, SessionTypeOK, PruneSessions, GoneSession, Unissued
  <2>3. NoneBeforeSetup' /\ RemovedAreGone'
    BY <1>3 DEF IInv, NoneBeforeSetup, RemovedAreGone, SessionTypeOK, PruneSessions, GoneSession, Unissued
  <2>4. ReadFromRow'
    BY <1>3 DEF IInv, ReadFromRow, SessionTypeOK, Session, Call, PruneSessions, GoneSession, Unissued
  <2>5. CheckedHash'
    BY <1>3 DEF IInv, CheckedHash, RemovedAreGone, ReadFromRow, SessionTypeOK, Session, Call, PruneSessions, GoneSession, Unissued
  <2>6. OldPasswordOut'
    BY <1>3 DEF IInv, OldPasswordOut, CheckedHash, RemovedAreGone, ReadFromRow, SessionTypeOK, Session, Call, PruneSessions, GoneSession, Unissued
  <2> QED
    BY <2>1, <2>2, <2>3, <2>4, <2>5, <2>6 DEF IInv
<1>4. ASSUME NEW r \in Calls, BeginSetup(r) PROVE IInv'
  <2>1. SessionTypeOK'
    BY <1>4 DEF IInv, SessionTypeOK, Session, Call, ReadFromRow, CheckedHash, BeginSetup, NeedsSetup
  <2>2. AtMostOne'
    BY <1>4 DEF IInv, AtMostOne, NoneBeforeSetup, SessionTypeOK, BeginSetup, NeedsSetup
  <2>3. NoneBeforeSetup' /\ RemovedAreGone'
    BY <1>4 DEF IInv, NoneBeforeSetup, RemovedAreGone, SessionTypeOK, BeginSetup, NeedsSetup
  <2>4. ReadFromRow'
    BY <1>4 DEF IInv, ReadFromRow, SessionTypeOK, Session, Call, BeginSetup, NeedsSetup
  <2>5. CheckedHash'
    BY <1>4 DEF IInv, CheckedHash, RemovedAreGone, ReadFromRow, SessionTypeOK, Session, Call, BeginSetup, NeedsSetup
  <2>6. OldPasswordOut'
    BY <1>4 DEF IInv, OldPasswordOut, CheckedHash, RemovedAreGone, ReadFromRow, SessionTypeOK, Session, Call, BeginSetup, NeedsSetup
  <2> QED
    BY <2>1, <2>2, <2>3, <2>4, <2>5, <2>6 DEF IInv
<1>5. ASSUME NEW r \in Calls, SetupRefused(r) PROVE IInv'
  <2>1. SessionTypeOK'
    BY <1>5 DEF IInv, SessionTypeOK, Session, Call, ReadFromRow, CheckedHash, SetupRefused, NoCall
  <2>2. AtMostOne'
    BY <1>5 DEF IInv, AtMostOne, NoneBeforeSetup, SessionTypeOK, SetupRefused, NoCall
  <2>3. NoneBeforeSetup' /\ RemovedAreGone'
    BY <1>5 DEF IInv, NoneBeforeSetup, RemovedAreGone, SessionTypeOK, SetupRefused, NoCall
  <2>4. ReadFromRow'
    BY <1>5 DEF IInv, ReadFromRow, SessionTypeOK, Session, Call, SetupRefused, NoCall
  <2>5. CheckedHash'
    BY <1>5 DEF IInv, CheckedHash, RemovedAreGone, ReadFromRow, SessionTypeOK, Session, Call, SetupRefused, NoCall
  <2>6. OldPasswordOut'
    BY <1>5 DEF IInv, OldPasswordOut, CheckedHash, RemovedAreGone, ReadFromRow, SessionTypeOK, Session, Call, SetupRefused, NoCall
  <2> QED
    BY <2>1, <2>2, <2>3, <2>4, <2>5, <2>6 DEF IInv
<1>6. ASSUME NEW r \in Calls, Refuse(r) PROVE IInv'
  <2>1. SessionTypeOK'
    BY <1>6 DEF IInv, SessionTypeOK, Session, Call, ReadFromRow, CheckedHash, Refuse, NoCall
  <2>2. AtMostOne'
    BY <1>6 DEF IInv, AtMostOne, NoneBeforeSetup, SessionTypeOK, Refuse, NoCall
  <2>3. NoneBeforeSetup' /\ RemovedAreGone'
    BY <1>6 DEF IInv, NoneBeforeSetup, RemovedAreGone, SessionTypeOK, Refuse, NoCall
  <2>4. ReadFromRow'
    BY <1>6 DEF IInv, ReadFromRow, SessionTypeOK, Session, Call, Refuse, NoCall
  <2>5. CheckedHash'
    BY <1>6 DEF IInv, CheckedHash, RemovedAreGone, ReadFromRow, SessionTypeOK, Session, Call, Refuse, NoCall
  <2>6. OldPasswordOut'
    BY <1>6 DEF IInv, OldPasswordOut, CheckedHash, RemovedAreGone, ReadFromRow, SessionTypeOK, Session, Call, Refuse, NoCall
  <2> QED
    BY <2>1, <2>2, <2>3, <2>4, <2>5, <2>6 DEF IInv
<1>7. ASSUME NEW r \in Calls, ReadUser(r) PROVE IInv'
  <2>1. SessionTypeOK'
    <3>1. CASE users[call[r].user] = 0
      BY <1>7, <3>1, RowShapes DEF IInv, SessionTypeOK, ReadUser
    <3>2. CASE users[call[r].user] # 0
      <4>1. call[r] \in Call /\ users[call[r].user] \in 0..MaxHashes
        BY <1>7 DEF IInv, SessionTypeOK, ReadUser, ReadFromRow
      <4>2. call' = [call EXCEPT ![r] = [call[r] EXCEPT !.at = "current", !.hash = users[call[r].user]]]
        BY <1>7, <3>2 DEF IInv, SessionTypeOK, ReadUser
      <4>3. call' \in [Calls -> Call]
        BY <4>1, <4>2, RowShapes DEF IInv, SessionTypeOK
      <4> QED
        BY <1>7, <4>3 DEF IInv, SessionTypeOK, ReadUser
    <3> QED
      BY <3>1, <3>2
  <2>2. AtMostOne'
    BY <1>7 DEF IInv, AtMostOne, NoneBeforeSetup, SessionTypeOK, ReadUser, NoCall
  <2>3. NoneBeforeSetup' /\ RemovedAreGone'
    BY <1>7 DEF IInv, NoneBeforeSetup, RemovedAreGone, SessionTypeOK, ReadUser, NoCall
  <2>4. ReadFromRow'
    BY <1>7 DEF IInv, ReadFromRow, SessionTypeOK, Session, Call, ReadUser, NoCall
  <2>5. CheckedHash'
    BY <1>7 DEF IInv, CheckedHash, RemovedAreGone, ReadFromRow, SessionTypeOK, Session, Call, ReadUser, NoCall
  <2>6. OldPasswordOut'
    BY <1>7 DEF IInv, OldPasswordOut, CheckedHash, RemovedAreGone, ReadFromRow, SessionTypeOK, Session, Call, ReadUser, NoCall
  <2> QED
    BY <2>1, <2>2, <2>3, <2>4, <2>5, <2>6 DEF IInv
<1>8. ASSUME NEW r \in Calls, CurrentIsRight(r) PROVE IInv'
  <2>1. SessionTypeOK'
    BY <1>8 DEF IInv, SessionTypeOK, Session, Call, ReadFromRow, CheckedHash, CurrentIsRight
  <2>2. AtMostOne'
    BY <1>8 DEF IInv, AtMostOne, NoneBeforeSetup, SessionTypeOK, CurrentIsRight
  <2>3. NoneBeforeSetup' /\ RemovedAreGone'
    BY <1>8 DEF IInv, NoneBeforeSetup, RemovedAreGone, SessionTypeOK, CurrentIsRight
  <2>4. ReadFromRow'
    BY <1>8 DEF IInv, ReadFromRow, SessionTypeOK, Session, Call, CurrentIsRight
  <2>5. CheckedHash'
    BY <1>8 DEF IInv, CheckedHash, RemovedAreGone, ReadFromRow, SessionTypeOK, Session, Call, CurrentIsRight
  <2>6. OldPasswordOut'
    BY <1>8 DEF IInv, OldPasswordOut, CheckedHash, RemovedAreGone, ReadFromRow, SessionTypeOK, Session, Call, CurrentIsRight
  <2> QED
    BY <2>1, <2>2, <2>3, <2>4, <2>5, <2>6 DEF IInv
<1>9. ASSUME NEW r \in Calls, ChangePassword(r) PROVE IInv'
  <2>1. SessionTypeOK'
    <3>1. call[r].user \in Admins /\ hashes' = hashes + 1 /\ hashes' \in 1..MaxHashes
      BY <1>9 DEF IInv, SessionTypeOK, ReadFromRow, ChangePassword, StoreHash
    <3>2. sessions' \in [Tokens -> Session] /\ call' \in [Calls -> Call]
      BY <1>9, RowShapes DEF IInv, SessionTypeOK, ChangePassword, StoreHash
    <3>3. /\ users' \in [Admins -> 0..MaxHashes]
          /\ \A a \in Admins : users'[a] <= hashes' /\ (a # call[r].user => users'[a] = users[a])
      BY <1>9, <3>1 DEF IInv, SessionTypeOK, ChangePassword, StoreHash
    <3>4. overlapped' \subseteq 1..MaxHashes
      <4>1. ASSUME NEW q \in SigningIn(call[r].user) PROVE call[q].hash \in 1..MaxHashes
        <5>1. call[q] \in Call /\ call[q].hash # 0
          BY DEF SigningIn, IInv, SessionTypeOK, CheckedHash
        <5> QED
          BY <5>1, MaxHashesAssumption DEF Call
      <4> QED
        BY <1>9, <4>1 DEF IInv, SessionTypeOK, ChangePassword, StoreHash
    <3>5. ASSUME NEW t \in Tokens, sessions'[t].state = "live" PROVE users'[sessions'[t].user] # 0
      <4>1. sessions'[t] = sessions[t] /\ sessions[t].user # call[r].user
        BY <1>9, <3>5 DEF IInv, SessionTypeOK, ChangePassword, GoneSession, Unissued
      <4> QED
        BY <3>3, <3>5, <4>1 DEF IInv, SessionTypeOK, ReadFromRow
    <3> QED
      BY <1>9, <3>1, <3>2, <3>3, <3>4, <3>5 DEF IInv, SessionTypeOK, ChangePassword, StoreHash
  <2>2. AtMostOne'
    BY <1>9 DEF IInv, AtMostOne, NoneBeforeSetup, SessionTypeOK, ChangePassword, StoreHash, SigningIn, NoCall, GoneSession, Unissued
  <2>3. NoneBeforeSetup' /\ RemovedAreGone'
    BY <1>9 DEF IInv, NoneBeforeSetup, RemovedAreGone, SessionTypeOK, ChangePassword, StoreHash, SigningIn, NoCall, GoneSession, Unissued
  <2>4. ReadFromRow'
    BY <1>9 DEF IInv, ReadFromRow, SessionTypeOK, Session, Call, ChangePassword, StoreHash, SigningIn, NoCall, GoneSession, Unissued
  <2>5. CheckedHash'
    BY <1>9 DEF IInv, CheckedHash, RemovedAreGone, ReadFromRow, SessionTypeOK, Session, Call, ChangePassword, StoreHash, SigningIn, NoCall, GoneSession, Unissued
  <2>6. OldPasswordOut'
    BY <1>9 DEF IInv, OldPasswordOut, CheckedHash, RemovedAreGone, ReadFromRow, SessionTypeOK, Session, Call, ChangePassword, StoreHash, SigningIn, NoCall, GoneSession, Unissued
  <2> QED
    BY <2>1, <2>2, <2>3, <2>4, <2>5, <2>6 DEF IInv
<1>10. ASSUME NEW r \in Calls, NEW a \in Admins, CreateAdmin(r, a) PROVE IInv'
  <2>1. SessionTypeOK'
    BY <1>10 DEF IInv, SessionTypeOK, Session, Call, ReadFromRow, CheckedHash, CreateAdmin, NewAdmin, NeedsSetup
  <2>2. AtMostOne'
    BY <1>10 DEF IInv, AtMostOne, NoneBeforeSetup, SessionTypeOK, CreateAdmin, NewAdmin, NeedsSetup
  <2>3. NoneBeforeSetup' /\ RemovedAreGone'
    BY <1>10 DEF IInv, NoneBeforeSetup, RemovedAreGone, SessionTypeOK, CreateAdmin, NewAdmin, NeedsSetup
  <2>4. ReadFromRow'
    BY <1>10 DEF IInv, ReadFromRow, SessionTypeOK, Session, Call, CreateAdmin, NewAdmin, NeedsSetup
  <2>5. CheckedHash'
    BY <1>10 DEF IInv, CheckedHash, RemovedAreGone, ReadFromRow, SessionTypeOK, Session, Call, CreateAdmin, NewAdmin, NeedsSetup
  <2>6. OldPasswordOut'
    BY <1>10 DEF IInv, OldPasswordOut, CheckedHash, RemovedAreGone, ReadFromRow, SessionTypeOK, Session, Call, CreateAdmin, NewAdmin, NeedsSetup
  <2> QED
    BY <2>1, <2>2, <2>3, <2>4, <2>5, <2>6 DEF IInv
<1>11. ASSUME NEW r \in Calls, NEW a \in Admins, BeginLogin(r, a) PROVE IInv'
  <2>1. SessionTypeOK'
    BY <1>11 DEF IInv, SessionTypeOK, Session, Call, ReadFromRow, CheckedHash, BeginLogin
  <2>2. AtMostOne'
    BY <1>11 DEF IInv, AtMostOne, NoneBeforeSetup, SessionTypeOK, BeginLogin
  <2>3. NoneBeforeSetup' /\ RemovedAreGone'
    BY <1>11 DEF IInv, NoneBeforeSetup, RemovedAreGone, SessionTypeOK, BeginLogin
  <2>4. ReadFromRow'
    BY <1>11 DEF IInv, ReadFromRow, SessionTypeOK, Session, Call, BeginLogin
  <2>5. CheckedHash'
    BY <1>11 DEF IInv, CheckedHash, RemovedAreGone, ReadFromRow, SessionTypeOK, Session, Call, BeginLogin
  <2>6. OldPasswordOut'
    BY <1>11 DEF IInv, OldPasswordOut, CheckedHash, RemovedAreGone, ReadFromRow, SessionTypeOK, Session, Call, BeginLogin
  <2> QED
    BY <2>1, <2>2, <2>3, <2>4, <2>5, <2>6 DEF IInv
<1>12. ASSUME NEW r \in Calls, NEW t \in Tokens, FinishLogin(r, t) PROVE IInv'
  <2>1. SessionTypeOK'
    <3>1. sessions' \in [Tokens -> Session]
      BY <1>12, RowShapes DEF IInv, SessionTypeOK, FinishLogin, ReadFromRow, Call
    <3>2. call' \in [Calls -> Call]
      BY <1>12, RowShapes DEF IInv, SessionTypeOK, FinishLogin
    <3> QED
      BY <1>12, <3>1, <3>2 DEF IInv, SessionTypeOK, FinishLogin, Unissued, ReadFromRow
  <2>2. AtMostOne'
    BY <1>12 DEF IInv, AtMostOne, NoneBeforeSetup, SessionTypeOK, FinishLogin, Unissued, NoCall
  <2>3. NoneBeforeSetup' /\ RemovedAreGone'
    BY <1>12 DEF IInv, NoneBeforeSetup, RemovedAreGone, SessionTypeOK, FinishLogin, Unissued, NoCall
  <2>4. ReadFromRow'
    BY <1>12 DEF IInv, ReadFromRow, SessionTypeOK, Session, Call, FinishLogin, Unissued, NoCall
  <2>5. CheckedHash'
    BY <1>12 DEF IInv, CheckedHash, RemovedAreGone, ReadFromRow, SessionTypeOK, Session, Call, FinishLogin, Unissued, NoCall
  <2>6. OldPasswordOut'
    BY <1>12 DEF IInv, OldPasswordOut, CheckedHash, RemovedAreGone, ReadFromRow, SessionTypeOK, Session, Call, FinishLogin, Unissued, NoCall
  <2> QED
    BY <2>1, <2>2, <2>3, <2>4, <2>5, <2>6 DEF IInv
<1>13. ASSUME NEW r \in Calls, NEW t \in Tokens, BeginChange(r, t) PROVE IInv'
  <2>1. SessionTypeOK'
    <3>1. call' \in [Calls -> Call]
      BY <1>13, RowShapes DEF IInv, SessionTypeOK, BeginChange, ReadFromRow, Valid
    <3> QED
      BY <1>13, <3>1 DEF IInv, SessionTypeOK, BeginChange
  <2>2. AtMostOne'
    BY <1>13 DEF IInv, AtMostOne, NoneBeforeSetup, SessionTypeOK, BeginChange, NoCall, Valid
  <2>3. NoneBeforeSetup' /\ RemovedAreGone'
    BY <1>13 DEF IInv, NoneBeforeSetup, RemovedAreGone, SessionTypeOK, BeginChange, NoCall, Valid
  <2>4. ReadFromRow'
    BY <1>13 DEF IInv, ReadFromRow, SessionTypeOK, Session, Call, BeginChange, NoCall, Valid
  <2>5. CheckedHash'
    BY <1>13 DEF IInv, CheckedHash, RemovedAreGone, ReadFromRow, SessionTypeOK, Session, Call, BeginChange, NoCall, Valid
  <2>6. OldPasswordOut'
    BY <1>13 DEF IInv, OldPasswordOut, CheckedHash, RemovedAreGone, ReadFromRow, SessionTypeOK, Session, Call, BeginChange, NoCall, Valid
  <2> QED
    BY <2>1, <2>2, <2>3, <2>4, <2>5, <2>6 DEF IInv
<1>14. ASSUME NEW t \in Tokens, CheckSession(t) PROVE IInv'
  <2>1. SessionTypeOK'
    <3>1. sessions' \in [Tokens -> Session]
      BY <1>14, RowShapes DEF IInv, SessionTypeOK, CheckSession
    <3> QED
      BY <1>14, <3>1 DEF IInv, SessionTypeOK, CheckSession, GoneSession, Unissued
  <2>2. AtMostOne'
    BY <1>14 DEF IInv, AtMostOne, NoneBeforeSetup, SessionTypeOK, CheckSession, Valid, GoneSession, Unissued
  <2>3. NoneBeforeSetup' /\ RemovedAreGone'
    BY <1>14 DEF IInv, NoneBeforeSetup, RemovedAreGone, SessionTypeOK, CheckSession, Valid, GoneSession, Unissued
  <2>4. ReadFromRow'
    BY <1>14 DEF IInv, ReadFromRow, SessionTypeOK, Session, Call, CheckSession, Valid, GoneSession, Unissued
  <2>5. CheckedHash'
    BY <1>14 DEF IInv, CheckedHash, RemovedAreGone, ReadFromRow, SessionTypeOK, Session, Call, CheckSession, Valid, GoneSession, Unissued
  <2>6. OldPasswordOut'
    BY <1>14 DEF IInv, OldPasswordOut, CheckedHash, RemovedAreGone, ReadFromRow, SessionTypeOK, Session, Call, CheckSession, Valid, GoneSession, Unissued
  <2> QED
    BY <2>1, <2>2, <2>3, <2>4, <2>5, <2>6 DEF IInv
<1>15. ASSUME NEW t \in Tokens, Logout(t) PROVE IInv'
  <2>1. SessionTypeOK'
    <3>1. sessions' \in [Tokens -> Session]
      BY <1>15, RowShapes DEF IInv, SessionTypeOK, Logout
    <3> QED
      BY <1>15, <3>1 DEF IInv, SessionTypeOK, Logout, GoneSession, Unissued
  <2>2. AtMostOne'
    BY <1>15 DEF IInv, AtMostOne, NoneBeforeSetup, SessionTypeOK, Logout, GoneSession, Unissued
  <2>3. NoneBeforeSetup' /\ RemovedAreGone'
    BY <1>15 DEF IInv, NoneBeforeSetup, RemovedAreGone, SessionTypeOK, Logout, GoneSession, Unissued
  <2>4. ReadFromRow'
    BY <1>15 DEF IInv, ReadFromRow, SessionTypeOK, Session, Call, Logout, GoneSession, Unissued
  <2>5. CheckedHash'
    BY <1>15 DEF IInv, CheckedHash, RemovedAreGone, ReadFromRow, SessionTypeOK, Session, Call, Logout, GoneSession, Unissued
  <2>6. OldPasswordOut'
    BY <1>15 DEF IInv, OldPasswordOut, CheckedHash, RemovedAreGone, ReadFromRow, SessionTypeOK, Session, Call, Logout, GoneSession, Unissued
  <2> QED
    BY <2>1, <2>2, <2>3, <2>4, <2>5, <2>6 DEF IInv
<1>16. ASSUME NEW t \in Tokens, Ages(t) PROVE IInv'
  <2>1. SessionTypeOK'
    <3>1. sessions[t] \in Session
      BY <1>16 DEF IInv, SessionTypeOK
    <3>2. PICK s \in Session : /\ sessions' = [sessions EXCEPT ![t] = s]
                               /\ s.state = sessions[t].state /\ s.user = sessions[t].user
      <4>1. CASE sessions' = [sessions EXCEPT ![t].idle = TRUE]
        <5>1. [sessions[t] EXCEPT !.idle = TRUE] \in Session
          BY <3>1, RowShapes
        <5>2. /\ [sessions[t] EXCEPT !.idle = TRUE].state = sessions[t].state
              /\ [sessions[t] EXCEPT !.idle = TRUE].user = sessions[t].user
          BY <3>1 DEF Session
        <5>3. sessions' = [sessions EXCEPT ![t] = [sessions[t] EXCEPT !.idle = TRUE]]
          BY <4>1
        <5> QED
          BY <5>1, <5>2, <5>3, Zenon
      <4>2. CASE sessions' = [sessions EXCEPT ![t].over = TRUE]
        <5>1. [sessions[t] EXCEPT !.over = TRUE] \in Session
          BY <3>1, RowShapes
        <5>2. /\ [sessions[t] EXCEPT !.over = TRUE].state = sessions[t].state
              /\ [sessions[t] EXCEPT !.over = TRUE].user = sessions[t].user
          BY <3>1 DEF Session
        <5>3. sessions' = [sessions EXCEPT ![t] = [sessions[t] EXCEPT !.over = TRUE]]
          BY <4>2
        <5> QED
          BY <5>1, <5>2, <5>3, Zenon
      <4> QED
        BY <1>16, <4>1, <4>2 DEF Ages
    <3> QED
      BY <1>16, <3>2 DEF IInv, SessionTypeOK, Ages
  <2>2. AtMostOne'
    BY <1>16 DEF IInv, AtMostOne, NoneBeforeSetup, SessionTypeOK, Ages, Valid
  <2>3. NoneBeforeSetup' /\ RemovedAreGone'
    BY <1>16 DEF IInv, NoneBeforeSetup, RemovedAreGone, SessionTypeOK, Ages, Valid
  <2>4. ReadFromRow'
    BY <1>16 DEF IInv, ReadFromRow, SessionTypeOK, Session, Call, Ages, Valid
  <2>5. CheckedHash'
    BY <1>16 DEF IInv, CheckedHash, RemovedAreGone, ReadFromRow, SessionTypeOK, Session, Call, Ages, Valid
  <2>6. OldPasswordOut'
    <3>1. \A u \in Tokens : /\ sessions'[u].state = sessions[u].state /\ sessions'[u].user = sessions[u].user
                            /\ sessions'[u].hash = sessions[u].hash
      BY <1>16 DEF IInv, SessionTypeOK, Session, Ages
    <3> QED
      BY <1>16, <3>1 DEF IInv, OldPasswordOut, Ages
  <2> QED
    BY <2>1, <2>2, <2>3, <2>4, <2>5, <2>6 DEF IInv
<1>17. CASE ForgetMemory
  <2>1. SessionTypeOK'
    BY <1>17 DEF IInv, SessionTypeOK, Session, Call, ReadFromRow, CheckedHash, ForgetMemory, NoCall
  <2>2. AtMostOne'
    BY <1>17 DEF IInv, AtMostOne, NoneBeforeSetup, SessionTypeOK, ForgetMemory, NoCall
  <2>3. NoneBeforeSetup' /\ RemovedAreGone'
    BY <1>17 DEF IInv, NoneBeforeSetup, RemovedAreGone, SessionTypeOK, ForgetMemory, NoCall
  <2>4. ReadFromRow'
    BY <1>17 DEF IInv, ReadFromRow, SessionTypeOK, Session, Call, ForgetMemory, NoCall
  <2>5. CheckedHash'
    BY <1>17 DEF IInv, CheckedHash, RemovedAreGone, ReadFromRow, SessionTypeOK, Session, Call, ForgetMemory, NoCall
  <2>6. OldPasswordOut'
    BY <1>17 DEF IInv, OldPasswordOut, CheckedHash, RemovedAreGone, ReadFromRow, SessionTypeOK, Session, Call, ForgetMemory, NoCall
  <2> QED
    BY <2>1, <2>2, <2>3, <2>4, <2>5, <2>6 DEF IInv
<1> QED
  BY <1>0, <1>1, <1>2, <1>3, <1>4, <1>5, <1>6, <1>7, <1>8, <1>9, <1>10, <1>11, <1>12, <1>13, <1>14, <1>15, <1>16, <1>17 DEF SessionNext, Handle

THEOREM SpecIInv == SessionSpec => []IInv
  BY InitIInv, NextIInv, PTL DEF SessionSpec

\* What the handlers read across an await stays well formed, and a live session
\* always has an account behind it (ON DELETE CASCADE).
THEOREM SessionTypes == SessionSpec => []SessionTypeOK
<1>1. IInv => SessionTypeOK
  BY DEF IInv
<1> QED
  BY <1>1, SpecIInv, PTL

\* First-run setup makes one account however many requests held the code at the
\* same time: completeSetup looks again inside the transaction.
THEOREM AlwaysOneAdmin == SessionSpec => []OneAdmin
<1>1. IInv => OneAdmin
  <2> SUFFICES ASSUME IInv PROVE OneAdmin
    OBVIOUS
  <2> DEFINE A == {a \in Admins : users[a] # 0}
  <2>1. CASE A = {}
    BY <2>1, FS_EmptySet DEF OneAdmin
  <2>2. ASSUME NEW a \in A PROVE OneAdmin
    <3>1. A = {a}
      BY <2>2 DEF IInv, AtMostOne
    <3>2. Cardinality(A) = 1
      BY <3>1, FS_Singleton
    <3> QED
      BY <3>2 DEF OneAdmin
  <2> QED
    BY <2>1, <2>2
<1> QED
  BY <1>1, SpecIInv, PTL

\* No session outlives a change of the password except one whose sign-in was
\* waiting for its check at that moment.
THEOREM AlwaysOldPasswordOut == SessionSpec => []OldPasswordOut
<1>1. IInv => OldPasswordOut
  BY DEF IInv
<1> QED
  BY <1>1, SpecIInv, PTL

-----------------------------------------------------------------------------
(* Counting failed sign-ins *)

Entry == [failures : 0..PerSource, over : BOOLEAN]

IsTable(b) ==
    /\ DOMAIN b \subseteq Sources
    /\ b = [j \in DOMAIN b |-> b[j]]
    /\ \A j \in DOMAIN b : b[j] \in Entry

ThrottleTypes ==
    /\ IsTable(buckets)
    /\ global \in [failures : 0..GlobalMax, over : BOOLEAN]
    /\ attempt \in [Attempts -> [key : Sources \union {Nobody}, carried : BOOLEAN]]
    /\ watched \in Sources \union {Nobody}
    /\ wrong \in Int
    /\ lent \in Nat

\* Whatever of a window is not yet given back is still counted in its bucket.
StillCharged ==
    wrong <= lent + (IF watched = Nobody THEN global.failures ELSE Failures(buckets, watched))

ThrottleInv == ThrottleTypes /\ StillCharged

\* However full the table, the bucket an attempt asks for is in it: pruning drops
\* the oldest, and nothing is newer than the one just opened.
LEMMA TableFacts ==
  ASSUME IsTable(buckets), NEW k \in Sources
  PROVE  /\ IsTable(WithBucket(k))
         /\ k \in DOMAIN WithBucket(k)
         /\ DOMAIN WithBucket(k) \subseteq DOMAIN buckets \union {k}
         /\ \A j \in DOMAIN WithBucket(k) :
              j # k \/ ~Renewed(k) => j \in DOMAIN buckets /\ WithBucket(k)[j] = buckets[j]
<1>1. CASE ~Renewed(k)
  BY <1>1 DEF WithBucket, Renewed
<1>2. CASE Renewed(k)
  <2> DEFINE D == DOMAIN buckets \union {k}
             added == [j \in D |-> IF j = k THEN [failures |-> 0, over |-> FALSE] ELSE buckets[j]]
             unfinished == {j \in D : ~added[j].over}
             newer(j) == {i \in unfinished : <<j, i>> \in WithLast(k)}
             kept == {j \in unfinished : Cardinality(newer(j)) < PruneTo}
  <2>1. IsTable(added)
    <3>1. \A j \in D : added[j] \in Entry
      BY ThrottleAssumption DEF IsTable, Entry
    <3> QED
      BY <3>1 DEF IsTable
  <2>2. WithBucket(k) = added \/ WithBucket(k) = [j \in kept |-> added[j]]
    BY <1>2 DEF WithBucket, Pruned
  <2>3. k \in kept
    <3>1. newer(k) = {}
      BY DEF WithLast
    <3>2. Cardinality({}) = 0
      BY FS_EmptySet
    <3>3. k \in unfinished
      OBVIOUS
    <3>4. PruneTo > 0
      BY ThrottleAssumption
    <3> HIDE DEF newer, unfinished
    <3> QED
      BY <3>1, <3>2, <3>3, <3>4
  <2>4. kept \subseteq D
    OBVIOUS
  <2>5. DOMAIN added = D /\ \A j \in D : j # k => j \in DOMAIN buckets /\ added[j] = buckets[j]
    OBVIOUS
  <2> HIDE DEF kept, added
  <2>6. CASE WithBucket(k) = added
    BY <1>2, <2>1, <2>5, <2>6
  <2>7. CASE WithBucket(k) = [j \in kept |-> added[j]]
    BY <1>2, <2>1, <2>3, <2>4, <2>5, <2>7 DEF IsTable
  <2> QED
    BY <2>2, <2>6, <2>7
<1> QED
  BY <1>1, <1>2

\* Writing one bucket's count leaves the others.
LEMMA WithFacts ==
  ASSUME NEW b, IsTable(b), NEW k \in DOMAIN b, NEW n \in 0..PerSource
  PROVE  /\ IsTable(With(b, k, n))
         /\ Failures(With(b, k, n), k) = n
         /\ \A j : j # k => Failures(With(b, k, n), j) = Failures(b, j)
<1> DEFINE c == With(b, k, n)
<1>1. c = [j \in DOMAIN b |-> IF j = k THEN [b[k] EXCEPT !.failures = n] ELSE b[j]]
  BY DEF With, IsTable
<1>2. b[k] \in Entry /\ [b[k] EXCEPT !.failures = n] \in Entry
  BY DEF IsTable, Entry
<1>3. [b[k] EXCEPT !.failures = n].failures = n
  BY <1>2 DEF Entry
<1> HIDE DEF c
<1>4. DOMAIN c = DOMAIN b /\ c[k].failures = n /\ \A j \in DOMAIN b : j # k => c[j] = b[j]
  BY <1>1, <1>3
<1>5. IsTable(c)
  BY <1>1, <1>2 DEF IsTable
<1>6. Failures(c, k) = n /\ \A j : j # k => Failures(c, j) = Failures(b, j)
  BY <1>4 DEF Failures
<1> QED
  BY <1>5, <1>6 DEF c

LEMMA CountFacts ==
  ASSUME NEW b, IsTable(b), NEW k
  PROVE  Failures(b, k) \in 0..PerSource
BY ThrottleAssumption DEF Failures, IsTable, Entry

LEMMA GlobalFacts ==
  ASSUME ThrottleTypes
  PROVE  /\ FreshGlobal \in [failures : 0..GlobalMax, over : BOOLEAN]
         /\ ~global.over => FreshGlobal = global
BY ThrottleAssumption DEF ThrottleTypes, FreshGlobal

LEMMA CarriedFacts ==
  ASSUME ThrottleTypes, NEW b, NEW k
  PROVE  /\ Carried(b, k) \in [Attempts -> [key : Sources \union {Nobody}, carried : BOOLEAN]]
         /\ \A n \in Attempts : attempt[n].key # Nobody /\ ChargedTo(attempt[n].key) /\
              WindowEnds(b, k)
                                  => Carried(b, k)[n].carried
<1>1. \A n \in Attempts :
        [attempt[n] EXCEPT !.carried = @ \/ (attempt[n].key # Nobody /\ ChargedTo(attempt[n].key)
                                             /\ WindowEnds(b, k))]
        = [key |-> attempt[n].key,
           carried |-> attempt[n].carried \/ (attempt[n].key # Nobody /\ ChargedTo(attempt[n].key)
                                             /\ WindowEnds(b, k))]
  BY DEF ThrottleTypes
<1>2. \A n \in Attempts : attempt[n].key \in Sources \union {Nobody} /\
        attempt[n].carried \in BOOLEAN
  BY DEF ThrottleTypes
<1> DEFINE ends(n) == attempt[n].carried \/ (attempt[n].key # Nobody /\ ChargedTo(attempt[n].key)
                                             /\ WindowEnds(b, k))
<1>3. \A n \in Attempts : ends(n) \in BOOLEAN
  BY <1>2
<1>4. Carried(b, k) = [n \in Attempts |-> [key |-> attempt[n].key, carried |-> ends(n)]]
  BY <1>1 DEF Carried
<1> HIDE DEF ends
<1>5. Carried(b, k) \in [Attempts -> [key : Sources \union {Nobody}, carried : BOOLEAN]]
  BY <1>2, <1>3, <1>4
<1>6. \A n \in Attempts : Carried(b, k)[n].carried = ends(n)
  BY <1>4
<1> QED
  BY <1>5, <1>6 DEF ends

\* What is left of what was counted in the window when an attempt looks: the
\* table that look leaves still accounts for it.
LEMMA LookedAt ==
  ASSUME ThrottleInv, NEW k \in Sources
  PROVE  LET b == WithBucket(k) IN
         /\ Kept(wrong, b, k) \in Int /\ Kept(lent, b, k) \in Nat
         /\ Kept(wrong, b, k) <= Kept(lent, b, k)
              + (IF watched = Nobody THEN FreshGlobal.failures ELSE Failures(b, watched))
         /\ WindowEnds(b, k) => Kept(wrong, b, k) = 0
<1> DEFINE b == WithBucket(k)
<1>1. /\ IsTable(b)
      /\ DOMAIN b \subseteq DOMAIN buckets \union {k}
      /\ \A j \in DOMAIN b : j # k \/ ~Renewed(k) => j \in DOMAIN buckets /\ b[j] = buckets[j]
  BY TableFacts DEF ThrottleInv, ThrottleTypes
<1>2. wrong \in Int /\ lent \in Nat
  BY DEF ThrottleInv, ThrottleTypes
<1>3. Failures(b, watched) \in Nat /\ FreshGlobal.failures \in Nat
  BY <1>1, CountFacts, GlobalFacts, ThrottleAssumption DEF ThrottleInv
<1>4. Failures(buckets, watched) \in Nat /\ global.failures \in Nat
  BY CountFacts, ThrottleAssumption DEF ThrottleInv, ThrottleTypes
<1> HIDE DEF b
<1>5. CASE WindowEnds(b, k)
  BY <1>3, <1>5 DEF Kept, b
<1>6. CASE ~WindowEnds(b, k)
  <2>1. Kept(wrong, b, k) = wrong /\ Kept(lent, b, k) = lent
    BY <1>6 DEF Kept
  <2>2. CASE watched = Nobody
    <3>1. FreshGlobal = global
      BY <1>6, <2>2, GlobalFacts DEF WindowEnds, ThrottleInv
    <3> QED
      BY <1>2, <1>6, <2>1, <2>2, <3>1 DEF ThrottleInv, StillCharged, b
  <2>3. CASE watched # Nobody
    <3>1. watched \in DOMAIN b /\ (watched # k \/ ~Renewed(k))
      BY <1>6, <2>3 DEF WindowEnds
    <3>2. Failures(b, watched) = Failures(buckets, watched)
      BY <1>1, <3>1 DEF Failures
    <3> QED
      BY <1>2, <1>6, <2>1, <2>3, <3>2 DEF ThrottleInv, StillCharged, b
  <2> QED
    BY <2>2, <2>3
<1> QED
  BY <1>5, <1>6 DEF b

LEMMA ChargeKeeps ==
  ASSUME ThrottleInv, NEW n \in Attempts, NEW k \in Sources, Charge(n, k)
  PROVE  ThrottleInv'
<1> DEFINE b == WithBucket(k)
           g == FreshGlobal
           kw == Kept(wrong, b, k)
           kl == Kept(lent, b, k)
           charged == ~Throttled(b, g, k)
<1>1. IsTable(b) /\ k \in DOMAIN b
  BY TableFacts DEF ThrottleInv, ThrottleTypes
<1>2. g \in [failures : 0..GlobalMax, over : BOOLEAN]
  BY GlobalFacts DEF ThrottleInv
<1>3. /\ kw \in Int /\ kl \in Nat
      /\ kw <= kl + (IF watched = Nobody THEN g.failures ELSE Failures(b, watched))
  BY LookedAt
<1>4. Failures(b, k) \in 0..PerSource /\ Failures(b, watched) \in 0..PerSource
  BY <1>1, CountFacts
<1>5. /\ attempt' = IF charged THEN [Carried(b, k) EXCEPT ![n] = [NoAttempt EXCEPT !.key = k]]
                    ELSE Carried(b, k)
      /\ wrong' = kw + One(charged /\ ChargedTo(k)) /\ lent' = kl /\ watched' = watched
      /\ buckets' = IF charged THEN With(b, k, Failures(b, k) + 1) ELSE b
      /\ global' = [g EXCEPT !.failures = @ + One(charged /\ k \in Addresses)]
  BY DEF Charge, Look
<1>6. Carried(b, k) \in [Attempts -> [key : Sources \union {Nobody}, carried : BOOLEAN]]
  BY CarriedFacts DEF ThrottleInv
<1>7. [NoAttempt EXCEPT !.key = k] \in [key : Sources \union {Nobody}, carried : BOOLEAN]
  BY DEF NoAttempt
<1>8. watched \in Sources \union {Nobody} /\ k # Nobody
  BY ThrottleAssumption DEF ThrottleInv, ThrottleTypes
<1> HIDE DEF b, g, kw, kl
<1>9. PerSource \in Nat /\ GlobalMax \in Nat
  BY ThrottleAssumption
<1>10. CASE charged
  <2>1. Failures(b, k) + 1 \in 0..PerSource /\
          (k \in Addresses => g.failures + 1 \in 0..GlobalMax)
    BY <1>2, <1>4, <1>9, <1>10 DEF Throttled
  <2>2. /\ IsTable(buckets') /\ Failures(buckets', k) = Failures(b, k) + 1
        /\ \A j : j # k => Failures(buckets', j) = Failures(b, j)
    BY <1>1, <1>5, <1>10, <2>1, WithFacts
  <2>3. /\ global' \in [failures : 0..GlobalMax, over : BOOLEAN]
        /\ global'.failures = g.failures + One(k \in Addresses)
    BY <1>2, <1>5, <1>10, <2>1 DEF One
  <2>4. attempt' \in [Attempts -> [key : Sources \union {Nobody}, carried : BOOLEAN]]
    BY <1>5, <1>6, <1>7, <1>10
  <2>5. wrong' = kw + One(ChargedTo(k)) /\ lent' = kl /\ watched' = watched
    BY <1>5, <1>10 DEF One
  <2>6. ThrottleTypes'
    BY <1>3, <1>8, <2>2, <2>3, <2>4, <2>5 DEF ThrottleTypes, One, IsTable
  <2>7. StillCharged'
    BY <1>2, <1>3, <1>4, <1>8, <2>2, <2>3, <2>5 DEF StillCharged, One, ChargedTo, Failures
  <2> QED
    BY <2>6, <2>7 DEF ThrottleInv
<1>11. CASE ~charged
  <2>1. buckets' = b /\ global' = g /\ wrong' = kw /\ lent' = kl /\ watched' = watched /\
          attempt' = Carried(b, k)
    BY <1>2, <1>3, <1>5, <1>11 DEF One
  <2> QED
    BY <1>1, <1>2, <1>3, <1>6, <1>8, <2>1 DEF ThrottleInv, ThrottleTypes, StillCharged,
         Failures, IsTable
<1> QED
  BY <1>10, <1>11

LEMMA RefundKeeps ==
  ASSUME ThrottleInv, NEW n \in Attempts, Refund(n)
  PROVE  ThrottleInv'
<1> DEFINE k == attempt[n].key
           b == WithBucket(k)
           g == FreshGlobal
           kw == Kept(wrong, b, k)
           kl == Kept(lent, b, k)
           carried == Carried(b, k)[n].carried
<1>0. k \in Sources /\ k # Nobody
  BY DEF Refund, ThrottleInv, ThrottleTypes
<1>1. IsTable(b) /\ k \in DOMAIN b
  BY <1>0, TableFacts DEF ThrottleInv, ThrottleTypes
<1>2. g \in [failures : 0..GlobalMax, over : BOOLEAN]
  BY GlobalFacts DEF ThrottleInv
<1>3. /\ kw \in Int /\ kl \in Nat
      /\ kw <= kl + (IF watched = Nobody THEN g.failures ELSE Failures(b, watched))
      /\ WindowEnds(b, k) => kw = 0
  BY <1>0, LookedAt
<1>4. Failures(b, k) \in 0..PerSource /\ Failures(b, watched) \in 0..PerSource
  BY <1>1, CountFacts
<1>5. /\ attempt' = [Carried(b, k) EXCEPT ![n] = NoAttempt]
      /\ wrong' = kw - One(ChargedTo(k) /\ ~carried)
      /\ lent' = kl + One(ChargedTo(k) /\ carried) /\ watched' = watched
      /\ buckets' = With(b, k, Minus(Failures(b, k)))
      /\ global' = IF k \in Addresses THEN [g EXCEPT !.failures = Minus(@)] ELSE g
  BY DEF Refund
<1>6. /\ Carried(b, k) \in [Attempts -> [key : Sources \union {Nobody}, carried : BOOLEAN]]
      /\ NoAttempt \in [key : Sources \union {Nobody}, carried : BOOLEAN]
  BY CarriedFacts DEF ThrottleInv, NoAttempt
<1>7. ChargedTo(k) /\ WindowEnds(b, k) => carried
  BY <1>0, CarriedFacts DEF ThrottleInv
<1>8. watched \in Sources \union {Nobody}
  BY DEF ThrottleInv, ThrottleTypes
<1>9. PerSource \in Nat /\ GlobalMax \in Nat
  BY ThrottleAssumption
<1>10. carried \in BOOLEAN
  BY <1>6
<1> HIDE DEF b, g, kw, kl, k, carried
<1>11. /\ Minus(Failures(b, k)) \in 0..PerSource
       /\ Minus(Failures(b, k)) >= Failures(b, k) - 1
       /\ Minus(g.failures) \in 0..GlobalMax /\ Minus(g.failures) >= g.failures - 1
  BY <1>2, <1>4, <1>9 DEF Minus
<1>12. /\ IsTable(buckets') /\ Failures(buckets', k) >= Failures(b, k) - 1
       /\ Failures(buckets', k) \in 0..PerSource
       /\ \A j : j # k => Failures(buckets', j) = Failures(b, j)
  BY <1>1, <1>5, <1>11, WithFacts
<1>13. /\ global' \in [failures : 0..GlobalMax, over : BOOLEAN]
       /\ global'.failures >= g.failures - One(k \in Addresses)
       /\ k \notin Addresses => global'.failures = g.failures
  BY <1>2, <1>5, <1>9, <1>11 DEF One
<1>14. attempt' \in [Attempts -> [key : Sources \union {Nobody}, carried : BOOLEAN]]
  BY <1>5, <1>6
<1>15. ThrottleTypes'
  BY <1>3, <1>5, <1>8, <1>12, <1>13, <1>14 DEF ThrottleTypes, One, IsTable
<1>16. StillCharged'
  <2>1. CASE ChargedTo(k)
    <3>1. wrong' - lent' <= kw - kl - 1
      BY <1>3, <1>5, <1>10, <2>1 DEF One
    <3>2. CASE watched = Nobody
      <4>1. k \in Addresses
        BY <1>0, <2>1, <3>2 DEF ChargedTo
      <4> QED
        BY <1>2, <1>3, <1>5, <1>9, <1>10, <1>13, <2>1, <3>1, <3>2, <4>1 DEF StillCharged, One
    <3>3. CASE watched # Nobody
      <4>1. watched = k
        BY <2>1, <3>3 DEF ChargedTo
      <4> QED
        BY <1>3, <1>4, <1>5, <1>9, <1>10, <1>12,
             <2>1, <3>1, <3>3, <4>1 DEF StillCharged, One, Failures
    <3> QED
      BY <3>2, <3>3
  <2>2. CASE ~ChargedTo(k)
    <3>1. wrong' = kw /\ lent' = kl /\ watched # k /\ (watched = Nobody => k \notin Addresses)
      BY <1>3, <1>5, <2>2 DEF One, ChargedTo
    <3> QED
      BY <1>3, <1>5, <1>12, <1>13, <3>1 DEF StillCharged, Failures
  <2> QED
    BY <2>1, <2>2
<1> QED
  BY <1>15, <1>16 DEF ThrottleInv

LEMMA OthersKeep ==
  ASSUME ThrottleInv, WindowsEnd \/ (\E n \in Attempts : Keep(n)) \/ UNCHANGED throttleVars
  PROVE  ThrottleInv'
<1>1. CASE WindowsEnd
  <2>1. ASSUME NEW k \in DOMAIN buckets,
               buckets' = [j \in DOMAIN buckets |->
                             [buckets[j] EXCEPT !.over = @ \/ j = k \/ <<j, k>> \in older]],
               UNCHANGED <<older, global, attempt, watched, wrong, lent>>
        PROVE  ThrottleInv'
    <3>1. \A j \in DOMAIN buckets : buckets[j] \in Entry
      BY DEF ThrottleInv, ThrottleTypes, IsTable
    <3> DEFINE done(j) == buckets[j].over \/ j = k \/ <<j, k>> \in older
    <3>2. \A j \in DOMAIN buckets : done(j) \in BOOLEAN
      BY <3>1 DEF Entry
    <3>3. buckets' = [j \in DOMAIN buckets |-> [failures |-> buckets[j].failures,
                                                over |-> done(j)]]
      BY <2>1, <3>1 DEF Entry
    <3> HIDE DEF done
    <3>4. /\ DOMAIN buckets' = DOMAIN buckets
          /\ \A j \in DOMAIN buckets : buckets'[j].failures = buckets[j].failures /\
               buckets'[j] \in Entry
      BY <3>1, <3>2, <3>3 DEF Entry
    <3>5. IsTable(buckets')
      BY <3>3, <3>4 DEF ThrottleInv, ThrottleTypes, IsTable
    <3>6. Failures(buckets', watched) = Failures(buckets, watched)
      BY <3>4 DEF Failures
    <3> QED
      BY <2>1, <3>5, <3>6 DEF ThrottleInv, ThrottleTypes, StillCharged, IsTable, Failures
  <2>2. ASSUME global' = [global EXCEPT !.over = TRUE],
               UNCHANGED <<buckets, older, attempt, watched, wrong, lent>>
        PROVE  ThrottleInv'
    BY <2>2 DEF ThrottleInv, ThrottleTypes, StillCharged, IsTable, Failures
  <2> QED
    BY <1>1, <2>1, <2>2 DEF WindowsEnd
<1>2. ASSUME NEW n \in Attempts, Keep(n)
      PROVE  ThrottleInv'
  BY <1>2 DEF Keep, NoAttempt, ThrottleInv, ThrottleTypes, StillCharged, IsTable, Failures
<1>3. CASE UNCHANGED throttleVars
  BY <1>3 DEF throttleVars, ThrottleInv, ThrottleTypes, StillCharged, IsTable, Failures
<1> QED
  BY <1>1, <1>2, <1>3

\* However guesses overlap, a window admits no more wrong ones than its limit
\* and the right ones whose charge it gave back although an earlier window had
\* taken it: the charge is taken before the await, and the bucket just opened
\* is never the one that pruning the table drops.
THEOREM LimitAlwaysHolds == ThrottleSpec => []LimitHolds
<1>1. ThrottleInit => ThrottleInv
  BY ThrottleAssumption DEF ThrottleInit, ThrottleInv, ThrottleTypes, StillCharged,
       IsTable, Failures,
     NoAttempt
<1>2. ThrottleInv /\ [ThrottleNext]_throttleVars => ThrottleInv'
  BY ChargeKeeps, RefundKeeps, OthersKeep DEF ThrottleNext
<1>3. ThrottleInv => LimitHolds
  <2> SUFFICES ASSUME ThrottleInv
               PROVE  LimitHolds
    OBVIOUS
  <2>1. Failures(buckets, watched) \in 0..PerSource /\ global.failures \in 0..GlobalMax
    BY CountFacts DEF ThrottleInv, ThrottleTypes
  <2> QED
    BY <2>1, ThrottleAssumption DEF ThrottleInv, ThrottleTypes, StillCharged, LimitHolds
<1> QED
  BY <1>1, <1>2, <1>3, PTL DEF ThrottleSpec
=============================================================================
