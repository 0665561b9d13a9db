------------------------ MODULE ManagerSessions_proof ------------------------
(***************************************************************************)
(* Proofs about ManagerSessions for every number of sessions, threads,     *)
(* managers and system ids, with HTTP failures, restarts, prompt           *)
(* reconnection and reuse of addresses.                                    *)
(*                                                                         *)
(* The registry invariants follow from IndInv.  RegistryPointsAtLive alone *)
(* is not inductive: a registration assigns _sid, which would break an     *)
(* entry that already points to its object.  RegistrationInv rules that    *)
(* out, one registration at most runs for an object and only before it is  *)
(* read from; EntryInv says which handler keeps the object of an entry;    *)
(* OwnerInv follows a sid from its creation on the platform to _sid and    *)
(* the two maps.                                                           *)
(***************************************************************************)
EXTENDS ManagerSessions, TLAPS

\* The sets and records the invariants and the actions are written with.
USE DEF SidOrNone, DidOrNone, SessionOrNull, Registering, Clearing, Idle,
        Waiting, Job, MutexFree, Answers, Unlock, WithoutDid, WithoutSid,
        WriteEnds, sessionVars, registryVars, platformVars

-----------------------------------------------------------------------------
\* The invariant holds when the process first starts.
LEMMA InitIndInv == Init => IndInv
  BY ConstantsAssumption
  DEF Init, Accepting, IndInv, TypeOK, RegistrationInv, EntryInv, OwnerInv

\* Every handler, job step, loss of a connection and restart preserves it.
LEMMA NextIndInv == IndInv /\ [Next]_vars => IndInv'
<1> SUFFICES ASSUME IndInv, [Next]_vars
             PROVE  IndInv'
  OBVIOUS
<1> USE ConstantsAssumption DEF IndInv
<1>1. ASSUME NEW s \in Session, NEW n \in Session, NEW d \in Did, ProcessAccept(s, n, d)
      PROVE  IndInv'
  <2>1. TypeOK'
    BY <1>1 DEF TypeOK, RegistrationInv, ProcessAccept, Allocatable, Alive
  <2>2. RegistrationInv'
    BY <1>1 DEF TypeOK, RegistrationInv, ProcessAccept, Allocatable, Alive
  <2>3. EntryInv'
    BY <1>1 DEF TypeOK, RegistrationInv, EntryInv, ProcessAccept, Allocatable, Alive
  <2>4. OwnerInv'
    BY <1>1 DEF TypeOK, RegistrationInv, OwnerInv, ProcessAccept, Allocatable, Alive
  <2> QED
    BY <2>1, <2>2, <2>3, <2>4
<1>2. ASSUME NEW s \in Session, ProcessAcceptError(s)
      PROVE  IndInv'
  <2>1. TypeOK'
    BY <1>2 DEF TypeOK, RegistrationInv, ProcessAcceptError
  <2>2. RegistrationInv'
    BY <1>2 DEF TypeOK, RegistrationInv, ProcessAcceptError
  <2>3. EntryInv'
    BY <1>2 DEF TypeOK, RegistrationInv, EntryInv, ProcessAcceptError
  <2>4. OwnerInv'
    BY <1>2 DEF TypeOK, RegistrationInv, OwnerInv, ProcessAcceptError
  <2> QED
    BY <2>1, <2>2, <2>3, <2>4
<1>3. ASSUME NEW s \in Session, NEW t \in Thread, OnReadReg(s, t)
      PROVE  IndInv'
  <2>1. TypeOK'
    BY <1>3 DEF TypeOK, RegistrationInv, OnReadReg
  <2>2. RegistrationInv'
    BY <1>3 DEF TypeOK, RegistrationInv, OnReadReg
  <2>3. EntryInv'
    BY <1>3 DEF TypeOK, RegistrationInv, EntryInv, OnReadReg
  <2>4. OwnerInv'
    BY <1>3 DEF TypeOK, RegistrationInv, OwnerInv, OnReadReg
  <2> QED
    BY <2>1, <2>2, <2>3, <2>4
<1>4. ASSUME NEW s \in Session, OnReadRegError(s)
      PROVE  IndInv'
  <2>1. TypeOK'
    BY <1>4 DEF TypeOK, RegistrationInv, OnReadRegError
  <2>2. RegistrationInv'
    BY <1>4 DEF TypeOK, RegistrationInv, OnReadRegError
  <2>3. EntryInv'
    BY <1>4 DEF TypeOK, RegistrationInv, EntryInv, OnReadRegError
  <2>4. OwnerInv'
    BY <1>4 DEF TypeOK, RegistrationInv, OwnerInv, OnReadRegError
  <2> QED
    BY <2>1, <2>2, <2>3, <2>4
<1>5. ASSUME NEW t \in Thread, RegLock(t)
      PROVE  IndInv'
  <2>1. TypeOK'
    BY <1>5 DEF TypeOK, RegistrationInv, RegLock
  <2>2. RegistrationInv'
    BY <1>5 DEF TypeOK, RegistrationInv, RegLock
  <2>3. EntryInv'
    BY <1>5 DEF TypeOK, RegistrationInv, EntryInv, RegLock
  <2>4. OwnerInv'
    BY <1>5 DEF TypeOK, RegistrationInv, OwnerInv, RegLock
  <2> QED
    BY <2>1, <2>2, <2>3, <2>4
<1>6. ASSUME NEW t \in Thread, RegFind(t)
      PROVE  IndInv'
  <2>1. TypeOK'
    BY <1>6 DEF TypeOK, RegistrationInv, RegFind
  <2>2. RegistrationInv'
    BY <1>6 DEF TypeOK, RegistrationInv, RegFind
  <2>3. EntryInv'
    BY <1>6 DEF TypeOK, RegistrationInv, EntryInv, RegFind
  <2>4. OwnerInv'
    BY <1>6 DEF TypeOK, RegistrationInv, OwnerInv, RegFind
  <2> QED
    BY <2>1, <2>2, <2>3, <2>4
<1>7. ASSUME NEW t \in Thread, RegCreate(t)
      PROVE  IndInv'
  <2>1. TypeOK'
    BY <1>7 DEF TypeOK, RegistrationInv, RegCreate
  <2>2. RegistrationInv'
    BY <1>7 DEF TypeOK, RegistrationInv, RegCreate
  <2>3. EntryInv'
    BY <1>7 DEF TypeOK, RegistrationInv, EntryInv, RegCreate
  <2>4. OwnerInv'
    BY <1>7 DEF TypeOK, RegistrationInv, OwnerInv, RegCreate
  <2> QED
    BY <2>1, <2>2, <2>3, <2>4
<1>8. ASSUME NEW t \in Thread, RegBind(t)
      PROVE  IndInv'
  <2>1. TypeOK'
    BY <1>8 DEF TypeOK, RegistrationInv, RegBind
  <2>2. RegistrationInv'
    BY <1>8 DEF TypeOK, RegistrationInv, RegBind
  <2>3. EntryInv'
    BY <1>8 DEF TypeOK, RegistrationInv, EntryInv, RegBind
  <2>4. OwnerInv'
    BY <1>8 DEF TypeOK, RegistrationInv, OwnerInv, RegBind
  <2> QED
    BY <2>1, <2>2, <2>3, <2>4
<1>9. ASSUME NEW t \in Thread, RegMap(t)
      PROVE  IndInv'
  <2>1. TypeOK'
    BY <1>9 DEF TypeOK, RegistrationInv, RegMap
  <2>2. RegistrationInv'
    BY <1>9 DEF TypeOK, RegistrationInv, RegMap
  <2>3. EntryInv'
    BY <1>9 DEF TypeOK, RegistrationInv, EntryInv, RegMap
  <2>4. OwnerInv'
    BY <1>9 DEF TypeOK, RegistrationInv, OwnerInv, RegMap
  <2> QED
    BY <2>1, <2>2, <2>3, <2>4
<1>10. ASSUME NEW t \in Thread, RegPtr(t)
      PROVE  IndInv'
  <2>1. TypeOK'
    BY <1>10 DEF TypeOK, RegistrationInv, RegPtr
  <2>2. RegistrationInv'
    BY <1>10 DEF TypeOK, RegistrationInv, RegPtr
  <2>3. EntryInv'
    BY <1>10 DEF TypeOK, RegistrationInv, EntryInv, RegPtr
  <2>4. OwnerInv'
    BY <1>10 DEF TypeOK, RegistrationInv, OwnerInv, RegPtr
  <2> QED
    BY <2>1, <2>2, <2>3, <2>4
<1>11. ASSUME NEW s \in Session, NEW t \in Thread, OnReadError(s, t)
      PROVE  IndInv'
  <2>1. TypeOK'
    BY <1>11 DEF TypeOK, RegistrationInv, OnReadError
  <2>2. RegistrationInv'
    BY <1>11 DEF TypeOK, RegistrationInv, OnReadError
  <2>3. EntryInv'
    BY <1>11 DEF TypeOK, RegistrationInv, EntryInv, OnReadError
  <2>4. OwnerInv'
    BY <1>11 DEF TypeOK, RegistrationInv, OwnerInv, OnReadError
  <2> QED
    BY <2>1, <2>2, <2>3, <2>4
<1>12. ASSUME NEW t \in Thread, ClrDid(t)
      PROVE  IndInv'
  <2>1. TypeOK'
    BY <1>12 DEF TypeOK, RegistrationInv, ClrDid
  <2>2. RegistrationInv'
    BY <1>12 DEF TypeOK, RegistrationInv, ClrDid
  <2>3. EntryInv'
    BY <1>12 DEF TypeOK, RegistrationInv, EntryInv, ClrDid
  <2>4. OwnerInv'
    BY <1>12 DEF TypeOK, RegistrationInv, OwnerInv, ClrDid
  <2> QED
    BY <2>1, <2>2, <2>3, <2>4
<1>13. ASSUME NEW t \in Thread, ClrSid(t)
      PROVE  IndInv'
  <2>1. TypeOK'
    BY <1>13 DEF TypeOK, RegistrationInv, ClrSid
  <2>2. RegistrationInv'
    BY <1>13 DEF TypeOK, RegistrationInv, ClrSid
  <2>3. EntryInv'
    BY <1>13 DEF TypeOK, RegistrationInv, EntryInv, ClrSid
  <2>4. OwnerInv'
    BY <1>13 DEF TypeOK, RegistrationInv, OwnerInv, ClrSid
  <2> QED
    BY <2>1, <2>2, <2>3, <2>4
<1>14. ASSUME NEW s \in Session, OnReadAnswer(s)
      PROVE  IndInv'
  <2>1. TypeOK'
    BY <1>14 DEF TypeOK, RegistrationInv, OnReadAnswer
  <2>2. RegistrationInv'
    BY <1>14 DEF TypeOK, RegistrationInv, OnReadAnswer
  <2>3. EntryInv'
    BY <1>14 DEF TypeOK, RegistrationInv, EntryInv, OnReadAnswer
  <2>4. OwnerInv'
    BY <1>14 DEF TypeOK, RegistrationInv, OwnerInv, OnReadAnswer
  <2> QED
    BY <2>1, <2>2, <2>3, <2>4
<1>15. ASSUME NEW s \in Session, OnWrite(s)
      PROVE  IndInv'
  <2>1. TypeOK'
    BY <1>15 DEF TypeOK, RegistrationInv, OnWrite
  <2>2. RegistrationInv'
    BY <1>15 DEF TypeOK, RegistrationInv, OnWrite
  <2>3. EntryInv'
    BY <1>15 DEF TypeOK, RegistrationInv, EntryInv, OnWrite
  <2>4. OwnerInv'
    BY <1>15 DEF TypeOK, RegistrationInv, OwnerInv, OnWrite
  <2> QED
    BY <2>1, <2>2, <2>3, <2>4
<1>16. ASSUME NEW s \in Session, NEW t \in Thread, OnWriteError(s, t)
      PROVE  IndInv'
  <2>1. TypeOK'
    BY <1>16 DEF TypeOK, RegistrationInv, OnWriteError
  <2>2. RegistrationInv'
    BY <1>16 DEF TypeOK, RegistrationInv, OnWriteError
  <2>3. EntryInv'
    BY <1>16 DEF TypeOK, RegistrationInv, EntryInv, OnWriteError
  <2>4. OwnerInv'
    BY <1>16 DEF TypeOK, RegistrationInv, OwnerInv, OnWriteError
  <2> QED
    BY <2>1, <2>2, <2>3, <2>4
<1>17. ASSUME NEW s \in Session, CheckDeadline(s)
      PROVE  IndInv'
  <2>1. TypeOK'
    BY <1>17 DEF TypeOK, RegistrationInv, CheckDeadline
  <2>2. RegistrationInv'
    BY <1>17 DEF TypeOK, RegistrationInv, CheckDeadline
  <2>3. EntryInv'
    BY <1>17 DEF TypeOK, RegistrationInv, EntryInv, CheckDeadline
  <2>4. OwnerInv'
    BY <1>17 DEF TypeOK, RegistrationInv, OwnerInv, CheckDeadline
  <2> QED
    BY <2>1, <2>2, <2>3, <2>4
<1>18. ASSUME NEW s \in Session, PeerLost(s)
      PROVE  IndInv'
  <2>1. TypeOK'
    BY <1>18 DEF TypeOK, RegistrationInv, PeerLost
  <2>2. RegistrationInv'
    BY <1>18 DEF TypeOK, RegistrationInv, PeerLost
  <2>3. EntryInv'
    BY <1>18 DEF TypeOK, RegistrationInv, EntryInv, PeerLost
  <2>4. OwnerInv'
    BY <1>18 DEF TypeOK, RegistrationInv, OwnerInv, PeerLost
  <2> QED
    BY <2>1, <2>2, <2>3, <2>4
<1>19. ASSUME NEW d \in Did, HandlerLookup(d)
      PROVE  IndInv'
  <2>1. TypeOK'
    BY <1>19 DEF TypeOK, RegistrationInv, HandlerLookup, RouteSids
  <2>2. RegistrationInv'
    BY <1>19 DEF TypeOK, RegistrationInv, HandlerLookup, RouteSids
  <2>3. EntryInv'
    BY <1>19 DEF TypeOK, RegistrationInv, EntryInv, HandlerLookup, RouteSids
  <2>4. OwnerInv'
    BY <1>19 DEF TypeOK, RegistrationInv, OwnerInv, HandlerLookup, RouteSids
  <2> QED
    BY <2>1, <2>2, <2>3, <2>4
<1>20. ASSUME HandlerSend
      PROVE  IndInv'
  <2>1. TypeOK'
    BY <1>20 DEF TypeOK, RegistrationInv, HandlerSend, Alive
  <2>2. RegistrationInv'
    BY <1>20 DEF TypeOK, RegistrationInv, HandlerSend, Alive
  <2>3. EntryInv'
    BY <1>20 DEF TypeOK, RegistrationInv, EntryInv, HandlerSend, Alive
  <2>4. OwnerInv'
    BY <1>20 DEF TypeOK, RegistrationInv, OwnerInv, HandlerSend, Alive
  <2> QED
    BY <2>1, <2>2, <2>3, <2>4
<1>21. ASSUME Reboot
      PROVE  IndInv'
  <2>1. TypeOK'
    BY <1>21 DEF TypeOK, RegistrationInv, Reboot, Accepting
  <2>2. RegistrationInv'
    BY <1>21 DEF TypeOK, RegistrationInv, Reboot, Accepting
  <2>3. EntryInv'
    BY <1>21 DEF TypeOK, RegistrationInv, EntryInv, Reboot, Accepting
  <2>4. OwnerInv'
    BY <1>21 DEF TypeOK, RegistrationInv, OwnerInv, Reboot, Accepting
  <2> QED
    BY <2>1, <2>2, <2>3, <2>4
<1>22. ASSUME NEW t \in Thread, ClrSocket(t)
      PROVE  IndInv'
  <2>1. TypeOK'
    BY <1>22 DEF TypeOK, RegistrationInv, ClrSocket
  <2>2. RegistrationInv'
    BY <1>22 DEF TypeOK, RegistrationInv, ClrSocket
  <2>3. EntryInv'
    BY <1>22 DEF TypeOK, RegistrationInv, EntryInv, ClrSocket
  <2>4. OwnerInv'
    BY <1>22 DEF TypeOK, RegistrationInv, OwnerInv, ClrSocket
  <2> QED
    BY <2>1, <2>2, <2>3, <2>4
<1>23. CASE UNCHANGED vars
  BY <1>23 DEF TypeOK, RegistrationInv, EntryInv, OwnerInv, vars
<1> QED
  BY <1>1, <1>2, <1>3, <1>4, <1>5, <1>6, <1>7, <1>8, <1>9, <1>10, <1>11,
     <1>12, <1>13, <1>14, <1>15, <1>16, <1>17, <1>18, <1>19, <1>20, <1>21, <1>22, <1>23
  DEF Next, Acceptor, PoolThread, JobStep, SessionStep, MainThread,
      Restart, HandlerDies

\* The inductive invariant holds in every reachable state.
THEOREM Invariance == Spec => []IndInv
  BY InitIndInv, NextIndInv, PTL DEF Spec

-----------------------------------------------------------------------------
\* Type correctness.
THEOREM TypeCorrect == Spec => []TypeOK
<1>1. IndInv => TypeOK
  BY DEF IndInv
<1> QED
  BY <1>1, Invariance, PTL

\* No entry of manager_sid_to_ptr under a real sid dangles, and each points to
\* the object whose _sid is its key: operator() never follows a pointer it has
\* just looked up to a destroyed object.
THEOREM RegistrySafe == Spec => []RegistryPointsAtLive
<1>1. IndInv => RegistryPointsAtLive
  <2> SUFFICES ASSUME IndInv, NEW k \in Sid, sidToPtr[k] # NoSession
               PROVE  Alive(sidToPtr[k]) /\ sid[sidToPtr[k]] = k
    BY DEF RegistryPointsAtLive
  <2> QED
    BY DEF IndInv, EntryInv, Alive
<1> QED
  BY <1>1, Invariance, PTL

\* Neither route of operator() leads to another manager's session.
THEOREM RoutesSafe == Spec => []RouteReachesAddressee
<1>1. IndInv => RouteReachesAddressee
  <2> SUFFICES ASSUME IndInv, NEW d \in Did, NEW k \in RouteSids(d) \cap Sid,
                      sidToPtr[k] # NoSession
               PROVE  did[sidToPtr[k]] = d
    BY DEF RouteReachesAddressee
  <2>1. made[k] = d
    BY ConstantsAssumption DEF IndInv, OwnerInv, RouteSids
  <2>2. sidToPtr[k] \in Session /\ sid[sidToPtr[k]] = k
    BY DEF IndInv, TypeOK, EntryInv
  <2> QED
    BY <2>1, <2>2 DEF IndInv, OwnerInv
<1> QED
  BY <1>1, Invariance, PTL

-----------------------------------------------------------------------------
(* Creation of managed objects.  io_mutex is held by every thread that has *)
(* asked the platform for a manager, so the answer is still true when the  *)
(* object is created.  While no call fails and the process lives, an       *)
(* object is bound, or the thread that created it is about to bind it.     *)

MutexInv ==
  \A t \in Thread :
    thread[t].pc \in Registering \ {"regLock"} => io_mutex = t

ObjectInv ==
  /\ \A t \in Thread : thread[t].pc \in {"regCreate", "regBind"} =>
       bound[did[thread[t].s]] = NoSid
  /\ (PlatformFails = FALSE /\ Restarts = FALSE) =>
       \A k \in Sid : made[k] # NoDid =>
         \/ bound[made[k]] = k
         \/ \E t \in Thread : /\ thread[t].pc = "regBind"
                              /\ thread[t].k = k
                              /\ did[thread[t].s] = made[k]

OneObjectInv == IndInv /\ MutexInv /\ ObjectInv

\* Nothing is created when the process first starts.
LEMMA InitOneObjectInv == Init => OneObjectInv
  BY InitIndInv DEF Init, OneObjectInv, MutexInv, ObjectInv

\* Preservation of the two new parts by every step.
LEMMA NextOneObjectInv == OneObjectInv /\ [Next]_vars => OneObjectInv'
<1> SUFFICES ASSUME OneObjectInv, [Next]_vars
             PROVE  MutexInv' /\ ObjectInv'
  BY NextIndInv DEF OneObjectInv
<1> USE ConstantsAssumption DEF OneObjectInv, IndInv
<1>1. ASSUME NEW s \in Session, NEW n \in Session, NEW d \in Did, ProcessAccept(s, n, d)
      PROVE  (MutexInv /\ ObjectInv)'
  <2>1. MutexInv'
    BY <1>1 DEF TypeOK, MutexInv, ProcessAccept, Allocatable, Alive
  <2>2. ObjectInv'
    BY <1>1 DEF TypeOK, RegistrationInv, MutexInv, ObjectInv, ProcessAccept, Allocatable, Alive
  <2> QED
    BY <2>1, <2>2
<1>2. ASSUME NEW s \in Session, ProcessAcceptError(s)
      PROVE  (MutexInv /\ ObjectInv)'
  <2>1. MutexInv'
    BY <1>2 DEF TypeOK, MutexInv, ProcessAcceptError
  <2>2. ObjectInv'
    BY <1>2 DEF TypeOK, RegistrationInv, MutexInv, ObjectInv, ProcessAcceptError
  <2> QED
    BY <2>1, <2>2
<1>3. ASSUME NEW s \in Session, NEW t \in Thread, OnReadReg(s, t)
      PROVE  (MutexInv /\ ObjectInv)'
  <2>1. MutexInv'
    BY <1>3 DEF TypeOK, MutexInv, OnReadReg
  <2>2. ObjectInv'
    BY <1>3 DEF TypeOK, RegistrationInv, MutexInv, ObjectInv, OnReadReg
  <2> QED
    BY <2>1, <2>2
<1>4. ASSUME NEW s \in Session, OnReadRegError(s)
      PROVE  (MutexInv /\ ObjectInv)'
  <2>1. MutexInv'
    BY <1>4 DEF TypeOK, MutexInv, OnReadRegError
  <2>2. ObjectInv'
    BY <1>4 DEF TypeOK, RegistrationInv, MutexInv, ObjectInv, OnReadRegError
  <2> QED
    BY <2>1, <2>2
<1>5. ASSUME NEW t \in Thread, RegLock(t)
      PROVE  (MutexInv /\ ObjectInv)'
  <2>1. MutexInv'
    BY <1>5 DEF TypeOK, MutexInv, RegLock
  <2>2. ObjectInv'
    BY <1>5 DEF TypeOK, RegistrationInv, MutexInv, ObjectInv, RegLock
  <2> QED
    BY <2>1, <2>2
<1>6. ASSUME NEW t \in Thread, RegFind(t)
      PROVE  (MutexInv /\ ObjectInv)'
  <2>1. MutexInv'
    BY <1>6 DEF TypeOK, MutexInv, RegFind
  <2>2. ObjectInv'
    BY <1>6 DEF TypeOK, RegistrationInv, MutexInv, ObjectInv, RegFind
  <2> QED
    BY <2>1, <2>2
<1>7. ASSUME NEW t \in Thread, RegCreate(t)
      PROVE  (MutexInv /\ ObjectInv)'
  <2>1. MutexInv'
    BY <1>7 DEF TypeOK, MutexInv, RegCreate
  <2>2. ObjectInv'
    BY <1>7 DEF TypeOK, RegistrationInv, MutexInv, ObjectInv, RegCreate
  <2> QED
    BY <2>1, <2>2
<1>8. ASSUME NEW t \in Thread, RegBind(t)
      PROVE  (MutexInv /\ ObjectInv)'
  <2>1. MutexInv'
    BY <1>8 DEF TypeOK, MutexInv, RegBind
  <2>2. ObjectInv'
    BY <1>8 DEF TypeOK, RegistrationInv, MutexInv, ObjectInv, RegBind
  <2> QED
    BY <2>1, <2>2
<1>9. ASSUME NEW t \in Thread, RegMap(t)
      PROVE  (MutexInv /\ ObjectInv)'
  <2>1. MutexInv'
    BY <1>9 DEF TypeOK, MutexInv, RegMap
  <2>2. ObjectInv'
    BY <1>9 DEF TypeOK, RegistrationInv, MutexInv, ObjectInv, RegMap
  <2> QED
    BY <2>1, <2>2
<1>10. ASSUME NEW t \in Thread, RegPtr(t)
      PROVE  (MutexInv /\ ObjectInv)'
  <2>1. MutexInv'
    BY <1>10 DEF TypeOK, MutexInv, RegPtr
  <2>2. ObjectInv'
    BY <1>10 DEF TypeOK, RegistrationInv, MutexInv, ObjectInv, RegPtr
  <2> QED
    BY <2>1, <2>2
<1>11. ASSUME NEW s \in Session, NEW t \in Thread, OnReadError(s, t)
      PROVE  (MutexInv /\ ObjectInv)'
  <2>1. MutexInv'
    BY <1>11 DEF TypeOK, MutexInv, OnReadError
  <2>2. ObjectInv'
    BY <1>11 DEF TypeOK, RegistrationInv, MutexInv, ObjectInv, OnReadError
  <2> QED
    BY <2>1, <2>2
<1>12. ASSUME NEW t \in Thread, ClrDid(t)
      PROVE  (MutexInv /\ ObjectInv)'
  <2>1. MutexInv'
    BY <1>12 DEF TypeOK, MutexInv, ClrDid
  <2>2. ObjectInv'
    BY <1>12 DEF TypeOK, RegistrationInv, MutexInv, ObjectInv, ClrDid
  <2> QED
    BY <2>1, <2>2
<1>13. ASSUME NEW t \in Thread, ClrSid(t)
      PROVE  (MutexInv /\ ObjectInv)'
  <2>1. MutexInv'
    BY <1>13 DEF TypeOK, MutexInv, ClrSid
  <2>2. ObjectInv'
    BY <1>13 DEF TypeOK, RegistrationInv, MutexInv, ObjectInv, ClrSid
  <2> QED
    BY <2>1, <2>2
<1>14. ASSUME NEW s \in Session, OnReadAnswer(s)
      PROVE  (MutexInv /\ ObjectInv)'
  <2>1. MutexInv'
    BY <1>14 DEF TypeOK, MutexInv, OnReadAnswer
  <2>2. ObjectInv'
    BY <1>14 DEF TypeOK, RegistrationInv, MutexInv, ObjectInv, OnReadAnswer
  <2> QED
    BY <2>1, <2>2
<1>15. ASSUME NEW s \in Session, OnWrite(s)
      PROVE  (MutexInv /\ ObjectInv)'
  <2>1. MutexInv'
    BY <1>15 DEF TypeOK, MutexInv, OnWrite
  <2>2. ObjectInv'
    BY <1>15 DEF TypeOK, RegistrationInv, MutexInv, ObjectInv, OnWrite
  <2> QED
    BY <2>1, <2>2
<1>16. ASSUME NEW s \in Session, NEW t \in Thread, OnWriteError(s, t)
      PROVE  (MutexInv /\ ObjectInv)'
  <2>1. MutexInv'
    BY <1>16 DEF TypeOK, MutexInv, OnWriteError
  <2>2. ObjectInv'
    BY <1>16 DEF TypeOK, RegistrationInv, MutexInv, ObjectInv, OnWriteError
  <2> QED
    BY <2>1, <2>2
<1>17. ASSUME NEW s \in Session, CheckDeadline(s)
      PROVE  (MutexInv /\ ObjectInv)'
  <2>1. MutexInv'
    BY <1>17 DEF TypeOK, MutexInv, CheckDeadline
  <2>2. ObjectInv'
    BY <1>17 DEF TypeOK, RegistrationInv, MutexInv, ObjectInv, CheckDeadline
  <2> QED
    BY <2>1, <2>2
<1>18. ASSUME NEW s \in Session, PeerLost(s)
      PROVE  (MutexInv /\ ObjectInv)'
  <2>1. MutexInv'
    BY <1>18 DEF TypeOK, MutexInv, PeerLost
  <2>2. ObjectInv'
    BY <1>18 DEF TypeOK, RegistrationInv, MutexInv, ObjectInv, PeerLost
  <2> QED
    BY <2>1, <2>2
<1>19. ASSUME NEW d \in Did, HandlerLookup(d)
      PROVE  (MutexInv /\ ObjectInv)'
  <2>1. MutexInv'
    BY <1>19 DEF TypeOK, MutexInv, HandlerLookup, RouteSids
  <2>2. ObjectInv'
    BY <1>19 DEF TypeOK, RegistrationInv, MutexInv, ObjectInv, HandlerLookup, RouteSids
  <2> QED
    BY <2>1, <2>2
<1>20. ASSUME HandlerSend
      PROVE  (MutexInv /\ ObjectInv)'
  <2>1. MutexInv'
    BY <1>20 DEF TypeOK, MutexInv, HandlerSend, Alive
  <2>2. ObjectInv'
    BY <1>20 DEF TypeOK, RegistrationInv, MutexInv, ObjectInv, HandlerSend, Alive
  <2> QED
    BY <2>1, <2>2
<1>21. ASSUME Reboot, Restarts
      PROVE  (MutexInv /\ ObjectInv)'
  <2>1. MutexInv'
    BY <1>21 DEF TypeOK, MutexInv, Reboot, Accepting
  <2>2. ObjectInv'
    BY <1>21 DEF TypeOK, RegistrationInv, MutexInv, ObjectInv, Reboot, Accepting
  <2> QED
    BY <2>1, <2>2
<1>22. ASSUME NEW t \in Thread, ClrSocket(t)
      PROVE  (MutexInv /\ ObjectInv)'
  <2>1. MutexInv'
    BY <1>22 DEF TypeOK, MutexInv, ClrSocket
  <2>2. ObjectInv'
    BY <1>22 DEF TypeOK, RegistrationInv, MutexInv, ObjectInv, ClrSocket
  <2> QED
    BY <2>1, <2>2
<1>23. CASE UNCHANGED vars
  BY <1>23 DEF TypeOK, MutexInv, ObjectInv, vars
<1> QED
  BY <1>1, <1>2, <1>3, <1>4, <1>5, <1>6, <1>7, <1>8, <1>9, <1>10, <1>11,
     <1>12, <1>13, <1>14, <1>15, <1>16, <1>17, <1>18, <1>19, <1>20, <1>21, <1>22, <1>23
  DEF Next, Acceptor, PoolThread, JobStep, SessionStep, MainThread,
      Restart, HandlerDies

\* The search and the creation of a managed object are one critical section.
THEOREM CreationSafe == Spec => CreatedOnlyIfNone
<1>1. ASSUME OneObjectInv, [Next]_vars
      PROVE  [\A k \in Sid : made'[k] # made[k] =>
               /\ bound[made'[k]] = NoSid
               /\ \A t \in Thread :
                    thread[t].pc = "regBind" => did[thread[t].s] # made'[k]]_vars
  <2> SUFFICES ASSUME NEW k \in Sid, made'[k] # made[k]
               PROVE  /\ bound[made'[k]] = NoSid
                      /\ \A t \in Thread :
                           thread[t].pc = "regBind" =>
                             did[thread[t].s] # made'[k]
    OBVIOUS
  <2>1. PICK t \in Thread : RegCreate(t)
    <3> USE <1>1 DEF Next, Acceptor, PoolThread, JobStep, SessionStep, MainThread
    <3> QED
      BY DEF vars, ProcessAccept, ProcessAcceptError, OnReadReg, OnReadRegError,
             RegLock, RegFind, RegBind, RegMap, RegPtr, OnReadError, ClrDid,
             ClrSid, OnReadAnswer, OnWrite, OnWriteError, CheckDeadline,
             PeerLost, HandlerLookup, HandlerSend, ClrSocket, Restart,
             HandlerDies, Reboot
  <2>2. made'[k] = did[thread[t].s]
    BY <1>1, <2>1 DEF OneObjectInv, IndInv, TypeOK, RegCreate
  <2>3. ASSUME NEW u \in Thread PROVE thread[u].pc # "regBind"
    BY <1>1, <2>1, <2>3, ConstantsAssumption
    DEF OneObjectInv, IndInv, TypeOK, MutexInv, RegCreate
  <2> QED
    BY <1>1, <2>1, <2>2, <2>3 DEF OneObjectInv, ObjectInv, RegCreate
<1> QED
  BY <1>1, InitOneObjectInv, NextOneObjectInv, PTL DEF Spec, CreatedOnlyIfNone

\* A manager has one managed object, however often it connects.
OneObjectPerManager ==
  \A j, k \in Sid : (made[j] # NoDid /\ made[j] = made[k]) => j = k

\* Without failing calls and restarts no object is left unbound, so that a
\* manager gets one for all its registrations.
THEOREM OneObject ==
  ASSUME PlatformFails = FALSE, Restarts = FALSE
  PROVE  Spec => []OneObjectPerManager
<1>1. OneObjectInv => OneObjectPerManager
  <2> SUFFICES ASSUME OneObjectInv, NEW j \in Sid, NEW k \in Sid,
                      made[j] # NoDid, made[j] = made[k]
               PROVE  j = k
    BY DEF OneObjectPerManager
  <2> QED
    BY ConstantsAssumption
    DEF OneObjectInv, IndInv, TypeOK, MutexInv, ObjectInv
<1> QED
  BY <1>1, InitOneObjectInv, NextOneObjectInv, PTL DEF Spec
=============================================================================
