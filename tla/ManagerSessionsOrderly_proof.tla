--------------------- MODULE ManagerSessionsOrderly_proof ---------------------
(***************************************************************************)
(* Theorems of ManagerSessions for a platform that answers and managers    *)
(* that connect again only when the object of their last session is gone,  *)
(* whose address is not used while it is stored: an online manager is      *)
(* found, and an operation goes through the addressee's session.           *)
(*                                                                         *)
(* The argument is that a manager then has one living session at most, so  *)
(* that nothing but the end of that session takes its entries away.        *)
(***************************************************************************)
EXTENDS ManagerSessions_proof

Orderly == PlatformFails = FALSE /\ PromptReconnect = FALSE /\ ReuseAddress = FALSE

\* Nobody has heard of the session yet.
Untouched(s) ==
  /\ writes[s] = 0
  /\ handler.cs # s
  /\ \A k \in SidOrNone : sidToPtr[k] # s
  /\ \A t \in Thread : thread[t].pc \in Clearing => thread[t].s # s

\* A session that is not registered has been heard of by none; one that is
\* being cleared has no connection.
FreshInv ==
  /\ \A s \in Session : awaits[s] \in {"accept", "reg"} =>
       did[s] = NoDid /\ Untouched(s)
  /\ \A t \in Thread : thread[t].pc \in Registering => Untouched(thread[t].s)
  /\ \A t \in Thread : thread[t].pc \in Clearing => conn[thread[t].s] # "up"

\* A manager has one living session at most.
PeerInv ==
  /\ \A s \in Session : did[s] # NoDid => did[s] = peer[s]
  /\ \A s \in Session : awaits[s] = "data" => did[s] \in Did
  /\ \A s, x \in Session :
       (Alive(s) /\ Alive(x) /\ peer[s] \in Did /\ peer[s] = peer[x]) => s = x

\* The entries of a manager are those of its session, from its registration on.
RouteInv ==
  /\ OnlineManagerRoutable
  /\ sidToPtr[NoSid] = NoSession
  /\ \A t \in Thread :
       /\ thread[t].pc \in {"regBind", "regMap"} => thread[t].k \in Sid
       /\ thread[t].pc = "regPtr" =>
            /\ sid[thread[t].s] \in Sid
            /\ didToSid[did[thread[t].s]] = sid[thread[t].s]

HandlerInv == handler.pc = "send" => did[handler.cs] = handler.to

OrderlyInv == IndInv /\ FreshInv /\ PeerInv /\ RouteInv /\ HandlerInv

USE DEF SidOrNone, DidOrNone, SessionOrNull, Registering, Clearing, Idle,
        Waiting, Job, MutexFree, Answers, Unlock, WithoutDid, WithoutSid,
        WriteEnds, sessionVars, registryVars, platformVars,
        OnlineManagerRoutable

-----------------------------------------------------------------------------
\* The invariant holds when the process first starts.
LEMMA InitOrderlyInv == Init => OrderlyInv
  BY InitIndInv, ConstantsAssumption
  DEF Init, Accepting, OrderlyInv, FreshInv, Untouched, PeerInv, RouteInv,
      HandlerInv

\* A thread that goes on with its job changes nothing that PeerInv is about.
LEMMA PeerInvKept ==
  ASSUME PeerInv, UNCHANGED <<peer, did, awaits, writes>>,
         \A u \in Thread : thread'[u].s = thread[u].s
  PROVE  PeerInv'
<1>1. \A s \in Session : Alive(s)' <=> Alive(s)
  BY DEF Alive
<1> QED
  BY <1>1 DEF PeerInv

\* Every step preserves it.
LEMMA NextOrderlyInv ==
  ASSUME Orderly, OrderlyInv, [Next]_vars
  PROVE  OrderlyInv'
<1> SUFFICES (FreshInv /\ PeerInv /\ RouteInv /\ HandlerInv)'
  BY NextIndInv DEF OrderlyInv
<1> USE ConstantsAssumption DEF OrderlyInv, IndInv, Orderly
<1>1. ASSUME NEW s \in Session, NEW n \in Session, NEW d \in Did, ProcessAccept(s, n, d)
      PROVE  (FreshInv /\ PeerInv /\ RouteInv /\ HandlerInv)'
  <2>1. FreshInv'
    BY <1>1 DEF TypeOK, RegistrationInv, FreshInv, Untouched, Alive, ProcessAccept, Allocatable, MayConnect
  <2>2. PeerInv'
    BY <1>1 DEF TypeOK, RegistrationInv, FreshInv, Untouched, PeerInv, Alive, ProcessAccept, Allocatable, MayConnect
  <2>3. RouteInv'
    BY <1>1 DEF TypeOK, RegistrationInv, OwnerInv, FreshInv, Untouched, PeerInv, RouteInv, Alive, ProcessAccept, Allocatable, MayConnect
  <2>4. HandlerInv'
    BY <1>1 DEF TypeOK, EntryInv, OwnerInv, FreshInv, Untouched, HandlerInv, RouteInv, Alive, ProcessAccept, Allocatable, MayConnect
  <2> QED
    BY <2>1, <2>2, <2>3, <2>4
<1>2. ASSUME NEW s \in Session, ProcessAcceptError(s)
      PROVE  (FreshInv /\ PeerInv /\ RouteInv /\ HandlerInv)'
  <2>1. FreshInv'
    BY <1>2 DEF TypeOK, RegistrationInv, FreshInv, Untouched, Alive, ProcessAcceptError
  <2>2. PeerInv'
    BY <1>2 DEF TypeOK, RegistrationInv, FreshInv, Untouched, PeerInv, Alive, ProcessAcceptError
  <2>3. RouteInv'
    BY <1>2 DEF TypeOK, RegistrationInv, OwnerInv, FreshInv, Untouched, PeerInv, RouteInv, Alive, ProcessAcceptError
  <2>4. HandlerInv'
    BY <1>2 DEF TypeOK, EntryInv, OwnerInv, FreshInv, Untouched, HandlerInv, RouteInv, Alive, ProcessAcceptError
  <2> QED
    BY <2>1, <2>2, <2>3, <2>4
<1>3. ASSUME NEW s \in Session, NEW t \in Thread, OnReadReg(s, t)
      PROVE  (FreshInv /\ PeerInv /\ RouteInv /\ HandlerInv)'
  <2>1. FreshInv'
    BY <1>3 DEF TypeOK, RegistrationInv, FreshInv, Untouched, Alive, OnReadReg
  <2>2. PeerInv'
    BY <1>3 DEF TypeOK, RegistrationInv, FreshInv, Untouched, PeerInv, Alive, OnReadReg
  <2>3. RouteInv'
    BY <1>3 DEF TypeOK, RegistrationInv, OwnerInv, FreshInv, Untouched, PeerInv, RouteInv, Alive, OnReadReg
  <2>4. HandlerInv'
    BY <1>3 DEF TypeOK, EntryInv, OwnerInv, FreshInv, Untouched, HandlerInv, RouteInv, Alive, OnReadReg
  <2> QED
    BY <2>1, <2>2, <2>3, <2>4
<1>4. ASSUME NEW s \in Session, OnReadRegError(s)
      PROVE  (FreshInv /\ PeerInv /\ RouteInv /\ HandlerInv)'
  <2>1. FreshInv'
    BY <1>4 DEF TypeOK, RegistrationInv, FreshInv, Untouched, Alive, OnReadRegError
  <2>2. PeerInv'
    BY <1>4 DEF TypeOK, RegistrationInv, FreshInv, Untouched, PeerInv, Alive, OnReadRegError
  <2>3. RouteInv'
    BY <1>4 DEF TypeOK, RegistrationInv, OwnerInv, FreshInv, Untouched, PeerInv, RouteInv, Alive, OnReadRegError
  <2>4. HandlerInv'
    BY <1>4 DEF TypeOK, EntryInv, OwnerInv, FreshInv, Untouched, HandlerInv, RouteInv, Alive, OnReadRegError
  <2> QED
    BY <2>1, <2>2, <2>3, <2>4
<1>5. ASSUME NEW t \in Thread, RegLock(t)
      PROVE  (FreshInv /\ PeerInv /\ RouteInv /\ HandlerInv)'
  <2>1. FreshInv'
    BY <1>5 DEF TypeOK, RegistrationInv, FreshInv, Untouched, Alive, RegLock
  <2>2. PeerInv'
    BY <1>5 DEF TypeOK, RegistrationInv, FreshInv, Untouched, PeerInv, Alive, RegLock
  <2>3. RouteInv'
    BY <1>5 DEF TypeOK, RegistrationInv, OwnerInv, FreshInv, Untouched, PeerInv, RouteInv, Alive, RegLock
  <2>4. HandlerInv'
    BY <1>5 DEF TypeOK, EntryInv, OwnerInv, FreshInv, Untouched, HandlerInv, RouteInv, Alive, RegLock
  <2> QED
    BY <2>1, <2>2, <2>3, <2>4
<1>6. ASSUME NEW t \in Thread, RegFind(t)
      PROVE  (FreshInv /\ PeerInv /\ RouteInv /\ HandlerInv)'
  <2>1. FreshInv'
    <3>1. /\ thread[t].pc = "regFind"
          /\ thread'[t].pc \in Registering
          /\ thread'[t].s = thread[t].s
          /\ \A u \in Thread \ {t} : thread'[u] = thread[u]
      BY <1>6 DEF TypeOK, RegFind
    <3>2. UNCHANGED <<sessionVars, registryVars, handler>>
      BY <1>6 DEF RegFind
    <3>3. \A s \in Session : Untouched(s) => Untouched(s)'
      BY <3>1, <3>2 DEF Untouched
    <3>4. \A s \in Session : awaits[s] \in {"accept", "reg"} =>
            did[s] = NoDid /\ Untouched(s)
      BY DEF FreshInv
    <3>5. \A u \in Thread : thread[u].pc \in Registering =>
            thread[u].s \in Session
      BY DEF TypeOK
    <3>6. ASSUME NEW u \in Thread, thread'[u].pc \in Registering
          PROVE  Untouched(thread[u].s)'
      <4>1. thread'[u].s = thread[u].s /\ thread[u].pc \in Registering
        BY <3>1, <3>6
      <4>2. Untouched(thread[u].s) /\ thread[u].s \in Session
        BY <3>5, <4>1 DEF FreshInv
      <4>3. /\ writes'[thread[u].s] = 0
            /\ handler'.cs # thread[u].s
            /\ \A k \in SidOrNone : sidToPtr'[k] # thread[u].s
        BY <3>2, <4>2 DEF Untouched
      <4>4. \A v \in Thread : thread'[v].pc \in Clearing =>
              thread'[v].s # thread[u].s
        BY <3>1, <4>2 DEF Untouched
      <4> QED
        BY <4>1, <4>3, <4>4 DEF Untouched
    <3>7. ASSUME NEW u \in Thread, thread'[u].pc \in Clearing
          PROVE  conn'[thread'[u].s] # "up"
      <4>1. thread'[u] = thread[u]
        BY <3>1, <3>7
      <4> QED
        BY <3>2, <3>7, <4>1 DEF FreshInv
    <3> QED
      BY <3>2, <3>3, <3>4, <3>6, <3>7 DEF FreshInv
  <2>2. PeerInv'
    <3>1. UNCHANGED <<peer, did, awaits, writes>>
      BY <1>6 DEF RegFind
    <3>2. \A u \in Thread : thread'[u].s = thread[u].s
      BY <1>6 DEF TypeOK, RegFind
    <3> QED
      BY <3>1, <3>2, PeerInvKept
  <2>3. RouteInv'
    BY <1>6 DEF TypeOK, RegistrationInv, OwnerInv, FreshInv, Untouched, PeerInv, RouteInv, Alive, RegFind
  <2>4. HandlerInv'
    BY <1>6 DEF TypeOK, EntryInv, OwnerInv, FreshInv, Untouched, HandlerInv, RouteInv, Alive, RegFind
  <2> QED
    BY <2>1, <2>2, <2>3, <2>4
<1>7. ASSUME NEW t \in Thread, RegCreate(t)
      PROVE  (FreshInv /\ PeerInv /\ RouteInv /\ HandlerInv)'
  <2>1. FreshInv'
    BY <1>7 DEF TypeOK, RegistrationInv, FreshInv, Untouched, Alive, RegCreate
  <2>2. PeerInv'
    <3>1. UNCHANGED <<peer, did, awaits, writes>>
      BY <1>7 DEF RegCreate
    <3>2. \A u \in Thread : thread'[u].s = thread[u].s
      BY <1>7 DEF TypeOK, RegCreate
    <3> QED
      BY <3>1, <3>2, PeerInvKept
  <2>3. RouteInv'
    BY <1>7 DEF TypeOK, RegistrationInv, OwnerInv, FreshInv, Untouched, PeerInv, RouteInv, Alive, RegCreate
  <2>4. HandlerInv'
    BY <1>7 DEF TypeOK, EntryInv, OwnerInv, FreshInv, Untouched, HandlerInv, RouteInv, Alive, RegCreate
  <2> QED
    BY <2>1, <2>2, <2>3, <2>4
<1>8. ASSUME NEW t \in Thread, RegBind(t)
      PROVE  (FreshInv /\ PeerInv /\ RouteInv /\ HandlerInv)'
  <2>1. FreshInv'
    BY <1>8 DEF TypeOK, RegistrationInv, FreshInv, Untouched, Alive, RegBind
  <2>2. PeerInv'
    BY <1>8 DEF TypeOK, RegistrationInv, FreshInv, Untouched, PeerInv, Alive, RegBind
  <2>3. RouteInv'
    BY <1>8 DEF TypeOK, RegistrationInv, OwnerInv, FreshInv, Untouched, PeerInv, RouteInv, Alive, RegBind
  <2>4. HandlerInv'
    BY <1>8 DEF TypeOK, EntryInv, OwnerInv, FreshInv, Untouched, HandlerInv, RouteInv, Alive, RegBind
  <2> QED
    BY <2>1, <2>2, <2>3, <2>4
<1>9. ASSUME NEW t \in Thread, RegMap(t)
      PROVE  (FreshInv /\ PeerInv /\ RouteInv /\ HandlerInv)'
  <2>1. FreshInv'
    BY <1>9 DEF TypeOK, RegistrationInv, FreshInv, Untouched, Alive, RegMap
  <2>2. PeerInv'
    BY <1>9 DEF TypeOK, RegistrationInv, FreshInv, Untouched, PeerInv, Alive, RegMap
  <2>3. RouteInv'
    BY <1>9 DEF TypeOK, RegistrationInv, OwnerInv, FreshInv, Untouched, PeerInv, RouteInv, Alive, RegMap
  <2>4. HandlerInv'
    BY <1>9 DEF TypeOK, EntryInv, OwnerInv, FreshInv, Untouched, HandlerInv, RouteInv, Alive, RegMap
  <2> QED
    BY <2>1, <2>2, <2>3, <2>4
<1>10. ASSUME NEW t \in Thread, RegPtr(t)
      PROVE  (FreshInv /\ PeerInv /\ RouteInv /\ HandlerInv)'
  <2>1. FreshInv'
    BY <1>10 DEF TypeOK, RegistrationInv, FreshInv, Untouched, Alive, RegPtr
  <2>2. PeerInv'
    BY <1>10 DEF TypeOK, RegistrationInv, FreshInv, Untouched, PeerInv, Alive, RegPtr
  <2>3. RouteInv'
    BY <1>10 DEF TypeOK, RegistrationInv, OwnerInv, FreshInv, Untouched, PeerInv, RouteInv, Alive, RegPtr
  <2>4. HandlerInv'
    BY <1>10 DEF TypeOK, EntryInv, OwnerInv, FreshInv, Untouched, HandlerInv, RouteInv, Alive, RegPtr
  <2> QED
    BY <2>1, <2>2, <2>3, <2>4
<1>11. ASSUME NEW s \in Session, NEW t \in Thread, OnReadError(s, t)
      PROVE  (FreshInv /\ PeerInv /\ RouteInv /\ HandlerInv)'
  <2>1. FreshInv'
    BY <1>11 DEF TypeOK, RegistrationInv, FreshInv, Untouched, Alive, OnReadError
  <2>2. PeerInv'
    BY <1>11 DEF TypeOK, RegistrationInv, FreshInv, Untouched, PeerInv, Alive, OnReadError
  <2>3. RouteInv'
    BY <1>11 DEF TypeOK, RegistrationInv, OwnerInv, FreshInv, Untouched, PeerInv, RouteInv, Alive, OnReadError
  <2>4. HandlerInv'
    BY <1>11 DEF TypeOK, EntryInv, OwnerInv, FreshInv, Untouched, HandlerInv, RouteInv, Alive, OnReadError
  <2> QED
    BY <2>1, <2>2, <2>3, <2>4
<1>12. ASSUME NEW t \in Thread, ClrDid(t)
      PROVE  (FreshInv /\ PeerInv /\ RouteInv /\ HandlerInv)'
  <2>1. FreshInv'
    BY <1>12 DEF TypeOK, RegistrationInv, FreshInv, Untouched, Alive, ClrDid
  <2>2. PeerInv'
    BY <1>12 DEF TypeOK, RegistrationInv, FreshInv, Untouched, PeerInv, Alive, ClrDid
  <2>3. RouteInv'
    <3> DEFINE x == thread[t].s
    <3>1. /\ x \in Session
          /\ Alive(x)
          /\ conn[x] # "up"
          /\ thread[t].pc \in Clearing
      BY <1>12 DEF TypeOK, FreshInv, Alive, ClrDid
    <3>2. /\ UNCHANGED <<sessionVars, sidToPtr>>
          /\ didToSid' = [d \in Did |-> IF d = did[x] THEN NoSid ELSE didToSid[d]]
          /\ thread'[t].pc \notin Registering
          /\ \A u \in Thread \ {t} : thread'[u] = thread[u]
      BY <1>12 DEF TypeOK, ClrDid
    <3>3. \A s \in Session \ {x} :
            Alive(s) /\ did[s] \in Did => didToSid'[did[s]] = didToSid[did[s]]
      <4> SUFFICES ASSUME NEW s \in Session \ {x}, Alive(s), did[s] \in Did
                   PROVE  did[s] # did[x]
        BY <3>2
      <4>1. peer[s] = did[s] /\ did[x] \in DidOrNone
        BY <3>1 DEF TypeOK, PeerInv
      <4>2. did[x] \in Did => peer[x] = did[x]
        BY <3>1, ConstantsAssumption DEF PeerInv
      <4> QED
        BY <3>1, <4>1, <4>2, ConstantsAssumption DEF PeerInv
    <3>4. OnlineManagerRoutable'
      BY <3>1, <3>2, <3>3 DEF RouteInv, PeerInv, TypeOK, Alive
    <3>5. \A u \in Thread : thread[u].pc = "regPtr" =>
            /\ u # t
            /\ thread[u].s \in Session \ {x}
            /\ Alive(thread[u].s)
            /\ did[thread[u].s] \in Did
      BY <3>1, <1>12 DEF TypeOK, FreshInv, Untouched, RegistrationInv, Alive
    <3>6. \A u \in Thread :
            /\ thread'[u].pc \in {"regBind", "regMap"} => thread'[u].k \in Sid
            /\ thread'[u].pc = "regPtr" =>
                 /\ sid'[thread'[u].s] \in Sid
                 /\ didToSid'[did'[thread'[u].s]] = sid'[thread'[u].s]
      BY <3>2, <3>3, <3>5 DEF RouteInv
    <3> QED
      BY <3>2, <3>4, <3>6 DEF RouteInv
  <2>4. HandlerInv'
    BY <1>12 DEF TypeOK, EntryInv, OwnerInv, FreshInv, Untouched, HandlerInv, RouteInv, Alive, ClrDid
  <2> QED
    BY <2>1, <2>2, <2>3, <2>4
<1>13. ASSUME NEW t \in Thread, ClrSocket(t)
      PROVE  (FreshInv /\ PeerInv /\ RouteInv /\ HandlerInv)'
  <2>1. FreshInv'
    BY <1>13 DEF TypeOK, RegistrationInv, FreshInv, Untouched, Alive, ClrSocket
  <2>2. PeerInv'
    BY <1>13 DEF TypeOK, RegistrationInv, FreshInv, Untouched, PeerInv, Alive, ClrSocket
  <2>3. RouteInv'
    BY <1>13 DEF TypeOK, RegistrationInv, OwnerInv, FreshInv, Untouched, PeerInv, RouteInv, Alive, ClrSocket
  <2>4. HandlerInv'
    BY <1>13 DEF TypeOK, EntryInv, OwnerInv, FreshInv, Untouched, HandlerInv, RouteInv, Alive, ClrSocket
  <2> QED
    BY <2>1, <2>2, <2>3, <2>4
<1>14. ASSUME NEW t \in Thread, ClrSid(t)
      PROVE  (FreshInv /\ PeerInv /\ RouteInv /\ HandlerInv)'
  <2>1. FreshInv'
    BY <1>14 DEF TypeOK, RegistrationInv, FreshInv, Untouched, Alive, ClrSid
  <2>2. PeerInv'
    BY <1>14 DEF TypeOK, RegistrationInv, FreshInv, Untouched, PeerInv, Alive, ClrSid
  <2>3. RouteInv'
    BY <1>14 DEF TypeOK, RegistrationInv, OwnerInv, FreshInv, Untouched, PeerInv, RouteInv, Alive, ClrSid
  <2>4. HandlerInv'
    BY <1>14 DEF TypeOK, EntryInv, OwnerInv, FreshInv, Untouched, HandlerInv, RouteInv, Alive, ClrSid
  <2> QED
    BY <2>1, <2>2, <2>3, <2>4
<1>15. ASSUME NEW s \in Session, OnReadAnswer(s)
      PROVE  (FreshInv /\ PeerInv /\ RouteInv /\ HandlerInv)'
  <2>1. FreshInv'
    BY <1>15 DEF TypeOK, RegistrationInv, FreshInv, Untouched, Alive, OnReadAnswer
  <2>2. PeerInv'
    BY <1>15 DEF TypeOK, RegistrationInv, FreshInv, Untouched, PeerInv, Alive, OnReadAnswer
  <2>3. RouteInv'
    BY <1>15 DEF TypeOK, RegistrationInv, OwnerInv, FreshInv, Untouched, PeerInv, RouteInv, Alive, OnReadAnswer
  <2>4. HandlerInv'
    BY <1>15 DEF TypeOK, EntryInv, OwnerInv, FreshInv, Untouched, HandlerInv, RouteInv, Alive, OnReadAnswer
  <2> QED
    BY <2>1, <2>2, <2>3, <2>4
<1>16. ASSUME NEW s \in Session, OnWrite(s)
      PROVE  (FreshInv /\ PeerInv /\ RouteInv /\ HandlerInv)'
  <2>1. FreshInv'
    BY <1>16 DEF TypeOK, RegistrationInv, FreshInv, Untouched, Alive, OnWrite
  <2>2. PeerInv'
    BY <1>16 DEF TypeOK, RegistrationInv, FreshInv, Untouched, PeerInv, Alive, OnWrite
  <2>3. RouteInv'
    BY <1>16 DEF TypeOK, RegistrationInv, OwnerInv, FreshInv, Untouched, PeerInv, RouteInv, Alive, OnWrite
  <2>4. HandlerInv'
    BY <1>16 DEF TypeOK, EntryInv, OwnerInv, FreshInv, Untouched, HandlerInv, RouteInv, Alive, OnWrite
  <2> QED
    BY <2>1, <2>2, <2>3, <2>4
<1>17. ASSUME NEW s \in Session, NEW t \in Thread, OnWriteError(s, t)
      PROVE  (FreshInv /\ PeerInv /\ RouteInv /\ HandlerInv)'
  <2>1. FreshInv'
    BY <1>17 DEF TypeOK, RegistrationInv, FreshInv, Untouched, Alive, OnWriteError
  <2>2. PeerInv'
    BY <1>17 DEF TypeOK, RegistrationInv, FreshInv, Untouched, PeerInv, Alive, OnWriteError
  <2>3. RouteInv'
    BY <1>17 DEF TypeOK, RegistrationInv, OwnerInv, FreshInv, Untouched, PeerInv, RouteInv, Alive, OnWriteError
  <2>4. HandlerInv'
    BY <1>17 DEF TypeOK, EntryInv, OwnerInv, FreshInv, Untouched, HandlerInv, RouteInv, Alive, OnWriteError
  <2> QED
    BY <2>1, <2>2, <2>3, <2>4
<1>18. ASSUME NEW s \in Session, CheckDeadline(s)
      PROVE  (FreshInv /\ PeerInv /\ RouteInv /\ HandlerInv)'
  <2>1. FreshInv'
    BY <1>18 DEF TypeOK, RegistrationInv, FreshInv, Untouched, Alive, CheckDeadline
  <2>2. PeerInv'
    BY <1>18 DEF TypeOK, RegistrationInv, FreshInv, Untouched, PeerInv, Alive, CheckDeadline
  <2>3. RouteInv'
    BY <1>18 DEF TypeOK, RegistrationInv, OwnerInv, FreshInv, Untouched, PeerInv, RouteInv, Alive, CheckDeadline
  <2>4. HandlerInv'
    BY <1>18 DEF TypeOK, EntryInv, OwnerInv, FreshInv, Untouched, HandlerInv, RouteInv, Alive, CheckDeadline
  <2> QED
    BY <2>1, <2>2, <2>3, <2>4
<1>19. ASSUME NEW s \in Session, PeerLost(s)
      PROVE  (FreshInv /\ PeerInv /\ RouteInv /\ HandlerInv)'
  <2>1. FreshInv'
    BY <1>19 DEF TypeOK, RegistrationInv, FreshInv, Untouched, Alive, PeerLost
  <2>2. PeerInv'
    BY <1>19 DEF TypeOK, RegistrationInv, FreshInv, Untouched, PeerInv, Alive, PeerLost
  <2>3. RouteInv'
    BY <1>19 DEF TypeOK, RegistrationInv, OwnerInv, FreshInv, Untouched, PeerInv, RouteInv, Alive, PeerLost
  <2>4. HandlerInv'
    BY <1>19 DEF TypeOK, EntryInv, OwnerInv, FreshInv, Untouched, HandlerInv, RouteInv, Alive, PeerLost
  <2> QED
    BY <2>1, <2>2, <2>3, <2>4
<1>20. ASSUME NEW d \in Did, HandlerLookup(d)
      PROVE  (FreshInv /\ PeerInv /\ RouteInv /\ HandlerInv)'
  <2>1. FreshInv'
    BY <1>20 DEF TypeOK, RegistrationInv, FreshInv, Untouched, Alive, HandlerLookup, RouteSids
  <2>2. PeerInv'
    BY <1>20 DEF TypeOK, RegistrationInv, FreshInv, Untouched, PeerInv, Alive, HandlerLookup, RouteSids
  <2>3. RouteInv'
    BY <1>20 DEF TypeOK, RegistrationInv, OwnerInv, FreshInv, Untouched, PeerInv, RouteInv, Alive, HandlerLookup, RouteSids
  <2>4. HandlerInv'
    BY <1>20 DEF TypeOK, EntryInv, OwnerInv, FreshInv, Untouched, HandlerInv, RouteInv, Alive, HandlerLookup, RouteSids
  <2> QED
    BY <2>1, <2>2, <2>3, <2>4
<1>21. ASSUME HandlerSend
      PROVE  (FreshInv /\ PeerInv /\ RouteInv /\ HandlerInv)'
  <2>1. FreshInv'
    BY <1>21 DEF TypeOK, RegistrationInv, FreshInv, Untouched, Alive, HandlerSend
  <2>2. PeerInv'
    BY <1>21 DEF TypeOK, RegistrationInv, FreshInv, Untouched, PeerInv, Alive, HandlerSend
  <2>3. RouteInv'
    BY <1>21 DEF TypeOK, RegistrationInv, OwnerInv, FreshInv, Untouched, PeerInv, RouteInv, Alive, HandlerSend
  <2>4. HandlerInv'
    BY <1>21 DEF TypeOK, EntryInv, OwnerInv, FreshInv, Untouched, HandlerInv, RouteInv, Alive, HandlerSend
  <2> QED
    BY <2>1, <2>2, <2>3, <2>4
<1>22. ASSUME Reboot
      PROVE  (FreshInv /\ PeerInv /\ RouteInv /\ HandlerInv)'
  <2>1. FreshInv'
    BY <1>22 DEF TypeOK, RegistrationInv, FreshInv, Untouched, Alive, Reboot, Accepting
  <2>2. PeerInv'
    BY <1>22 DEF TypeOK, RegistrationInv, FreshInv, Untouched, PeerInv, Alive, Reboot, Accepting
  <2>3. RouteInv'
    BY <1>22 DEF TypeOK, RegistrationInv, OwnerInv, FreshInv, Untouched, PeerInv, RouteInv, Alive, Reboot, Accepting
  <2>4. HandlerInv'
    BY <1>22 DEF TypeOK, EntryInv, OwnerInv, FreshInv, Untouched, HandlerInv, RouteInv, Alive, Reboot, Accepting
  <2> QED
    BY <2>1, <2>2, <2>3, <2>4
<1>23. CASE UNCHANGED vars
  BY <1>23 DEF vars, FreshInv, Untouched, PeerInv, Alive, RouteInv, HandlerInv
<1> QED
  BY <1>1, <1>2, <1>3, <1>4, <1>5, <1>6, <1>7, <1>8, <1>9, <1>10, <1>11, <1>12, <1>13, <1>14, <1>15, <1>16, <1>17, <1>18, <1>19, <1>20, <1>21, <1>22, <1>23
  DEF Next, Acceptor, PoolThread, JobStep, SessionStep, MainThread,
      Restart, HandlerDies

LEMMA AlwaysOrderly ==
  ASSUME Orderly
  PROVE  Spec => []OrderlyInv
<1>1. OrderlyInv /\ [Next]_vars => OrderlyInv'
  BY NextOrderlyInv
<1> QED
  BY <1>1, InitOrderlyInv, PTL DEF Spec

\* A manager whose connection is up and whose registration is done is found by
\* operator(), which never reports it "不在线".
THEOREM OnlineIsRoutable ==
  ASSUME Orderly
  PROVE  Spec => []OnlineManagerRoutable
<1>1. OrderlyInv => OnlineManagerRoutable
  BY DEF OrderlyInv, RouteInv
<1> QED
  BY <1>1, AlwaysOrderly, PTL

\* An operation is sent through the session of the manager it is for.
THEOREM DeliverySafe ==
  ASSUME Orderly
  PROVE  Spec => []DeliveryMatchesAddressee
<1>1. OrderlyInv => DeliveryMatchesAddressee
  BY DEF OrderlyInv, HandlerInv, DeliveryMatchesAddressee
<1> QED
  BY <1>1, AlwaysOrderly, PTL
=============================================================================
