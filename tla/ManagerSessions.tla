--------------------------- MODULE ManagerSessions ---------------------------
(***************************************************************************)
(* The life of a ClientSession in an agent: the acceptor                   *)
(* (io_service_thread.cc), the registration of a residential manager       *)
(* (小区管理机) and its removal (client_session.cc), and the registry the  *)
(* agent's main thread routes operations through (agent_msg_handler.cc).   *)
(*                                                                         *)
(* The two agents differ in clrSession, in the deadline, which only the    *)
(* ad-hoc-network agent has, and in what operator() does without a session.*)
(*                                                                         *)
(* Sessions are objects at addresses.  One lives as long as a completion   *)
(* handler holds its shared_ptr; the registry and the main thread hold raw *)
(* addresses, and an address is used again once its object is gone.        *)
(* Handlers run on the pool's threads; io_mutex guards registration only.  *)
(* A handler that makes several HTTP calls or several map updates is a job *)
(* of a thread, one step per call or update; any other handler is one step *)
(* that some idle thread executes.                                         *)
(***************************************************************************)
EXTENDS Naturals, FiniteSets

CONSTANTS
  Agents,         \* the agents considered
  Session,        \* addresses of ClientSession objects
  Thread,         \* threads of the pool (_tp)
  Did,            \* device ids residential managers register with
  Sid,            \* managed-object ids the platform can hand out (a bound)
  NoSession,      \* the null ClientSession pointer
  NoThread,       \* io_mutex is free
  NoDid,          \* the empty device id
  NoSid,          \* the empty system id
  MaxWrites,      \* bound on the outstanding async_writes of a session
  PlatformFails,  \* HTTP calls of a registration may fail
  PromptReconnect,\* a manager may reconnect before its old object is gone
  ReuseAddress,   \* a new object may take an address that is still stored
  Restarts        \* the process may die, killed or by itself, and start again

ASSUME ConstantsAssumption ==
  /\ Agents \subseteq {"adHoc", "integrated"}
  /\ NoSession \notin Session
  /\ NoThread \notin Thread
  /\ NoDid \notin Did
  /\ NoSid \notin Sid
  /\ MaxWrites \in Nat \ {0}
  /\ {PlatformFails, PromptReconnect, ReuseAddress, Restarts} \subseteq BOOLEAN

VARIABLES
  agent,     \* the agent that runs
  conn,      \* the socket: "none", "up", "silent" (peer gone, no FIN), "closed"
  peer,      \* the manager at the other end
  awaits,    \* the read-chain operation that holds the object
  writes,    \* number of async_writes whose onWrite is outstanding
  sid, did,  \* _sid, _did
  thread,    \* what each pool thread executes
  io_mutex,  \* the thread that holds the mutex
  sidToPtr,  \* manager_sid_to_ptr, absent and NULL alike
  didToSid,  \* manager_did_to_sid, absent and "" alike
  made,      \* platform: the manager each managed object was created for
  bound,     \* platform: the object an external id is bound to
  handler    \* the main thread: the operation being delivered

sessionVars  == <<conn, peer, awaits, writes, sid, did>>
registryVars == <<sidToPtr, didToSid>>
platformVars == <<agent, made, bound>>
vars == <<sessionVars, thread, io_mutex, registryVars, platformVars, handler>>

-----------------------------------------------------------------------------
SidOrNone     == Sid \cup {NoSid}
DidOrNone     == Did \cup {NoDid}
SessionOrNull == Session \cup {NoSession}

Registering == {"regLock", "regFind", "regCreate", "regBind", "regMap", "regPtr"}
Clearing    == {"clrDid", "clrSid"}
Idle        == [pc |-> "idle", s |-> NoSession, k |-> NoSid]
Waiting     == [pc |-> "wait", cs |-> NoSession, to |-> NoDid]

Job(pc, s, k) == [pc |-> pc, s |-> s, k |-> k]

TypeOK ==
  /\ agent \in Agents
  /\ conn \in [Session -> {"none", "up", "silent", "closed"}]
  /\ peer \in [Session -> DidOrNone]
  /\ awaits \in [Session -> {"none", "accept", "reg", "data"}]
  /\ writes \in [Session -> 0 .. MaxWrites]
  /\ sid \in [Session -> SidOrNone]
  /\ did \in [Session -> DidOrNone]
  /\ thread \in [Thread -> {Idle} \cup
                   [pc : Registering \cup Clearing, s : Session, k : SidOrNone]]
  /\ io_mutex \in Thread \cup {NoThread}
  /\ sidToPtr \in [SidOrNone -> SessionOrNull]
  /\ didToSid \in [Did -> SidOrNone]
  /\ made \in [Sid -> DidOrNone]
  /\ bound \in [Did -> SidOrNone]
  /\ handler \in {Waiting} \cup [pc : {"send"}, cs : Session, to : Did]

\* The shared_ptr count of the object at s is positive.
Alive(s) ==
  \/ awaits[s] # "none"
  \/ writes[s] > 0
  \/ \E t \in Thread : thread[t].s = s

SomeThreadIdle == \E t \in Thread : thread[t].pc = "idle"

\* What the environment allows: one connection of a manager at a time, and,
\* unless PromptReconnect, only after the object of the last one is gone.
MayConnect(d) ==
  \A s \in Session : peer[s] = d =>
    /\ conn[s] # "up"
    /\ PromptReconnect \/ ~Alive(s)

\* The allocator's choice of an address for a new object.
Allocatable(n) ==
  /\ ~Alive(n)
  /\ ReuseAddress \/ (handler.cs # n /\ \A k \in SidOrNone : sidToPtr[k] # n)

-----------------------------------------------------------------------------
(* The process starts with one object accepting, from the constructor of   *)
(* IOServiceThread, and with an empty registry.                            *)
Accepting(s) == [x \in Session |-> IF x = s THEN "accept" ELSE "none"]

Init ==
  /\ agent \in Agents
  /\ conn = [s \in Session |-> "none"]
  /\ peer = [s \in Session |-> NoDid]
  /\ awaits \in {Accepting(s) : s \in Session}
  /\ writes = [s \in Session |-> 0]
  /\ sid = [s \in Session |-> NoSid]
  /\ did = [s \in Session |-> NoDid]
  /\ thread = [t \in Thread |-> Idle]
  /\ io_mutex = NoThread
  /\ sidToPtr = [k \in SidOrNone |-> NoSession]
  /\ didToSid = [d \in Did |-> NoSid]
  /\ handler = Waiting
  /\ made = [k \in Sid |-> NoDid]
  /\ bound = [d \in Did |-> NoSid]

-----------------------------------------------------------------------------
(* The acceptor.                                                           *)

\* d's connection is accepted into s, the registration packet is awaited, and
\* a new object n awaits the next connection.
ProcessAccept(s, n, d) ==
  /\ SomeThreadIdle
  /\ awaits[s] = "accept"
  /\ Allocatable(n)
  /\ MayConnect(d)
  /\ conn' = [conn EXCEPT ![s] = "up", ![n] = "none"]
  /\ peer' = [peer EXCEPT ![s] = d, ![n] = NoDid]
  /\ awaits' = [awaits EXCEPT ![s] = "reg", ![n] = "accept"]
  /\ sid' = [sid EXCEPT ![n] = NoSid]
  /\ did' = [did EXCEPT ![n] = NoDid]
  /\ UNCHANGED <<writes, thread, io_mutex, registryVars, platformVars,
                 handler>>

\* async_accept failed: nothing is accepted any more.
ProcessAcceptError(s) ==
  /\ SomeThreadIdle
  /\ awaits[s] = "accept"
  /\ awaits' = [awaits EXCEPT ![s] = "none"]
  /\ UNCHANGED <<conn, peer, writes, sid, did, thread, io_mutex, registryVars,
                 platformVars, handler>>

-----------------------------------------------------------------------------
(* Registration: OnReadReg, regDev and getSid.                             *)

\* Thread t has the whole registration packet and enters regDev.
OnReadReg(s, t) ==
  /\ thread[t].pc = "idle"
  /\ awaits[s] = "reg"
  /\ conn[s] = "up"
  /\ did' = [did EXCEPT ![s] = peer[s]]
  /\ awaits' = [awaits EXCEPT ![s] = "none"]
  /\ thread' = [thread EXCEPT ![t] = Job("regLock", s, NoSid)]
  /\ UNCHANGED <<conn, peer, writes, sid, io_mutex, registryVars, platformVars,
                 handler>>

\* The read failed.  clrSession gets the empty sid and did: it clears nothing
\* that is modelled.
OnReadRegError(s) ==
  /\ SomeThreadIdle
  /\ awaits[s] = "reg"
  /\ conn[s] = "closed"
  /\ awaits' = [awaits EXCEPT ![s] = "none"]
  /\ UNCHANGED <<conn, peer, writes, sid, did, thread, io_mutex, registryVars,
                 platformVars, handler>>

\* Mutant: the search and the creation are not guarded.
MutexFree_Unguarded == TRUE

MutexFree == io_mutex = NoThread

RegLock(t) ==
  /\ thread[t].pc = "regLock"
  /\ MutexFree
  /\ io_mutex' = t
  /\ thread' = [thread EXCEPT ![t].pc = "regFind"]
  /\ UNCHANGED <<sessionVars, registryVars, platformVars, handler>>

\* Mutant: the answer to another manager's request is read.
Answers_OfAnyManager(d) == {bound[x] : x \in Did}

\* The answer to "100,did".
Answers(d) == {bound[d]}

\* "100,did": bound ("500"), not bound ("50"), or no usable answer.
RegFind(t) ==
  LET d == did[thread[t].s] IN
  /\ thread[t].pc = "regFind"
  /\ \/ \E k \in Answers(d) \ {NoSid} :
          thread' = [thread EXCEPT ![t].pc = "regMap", ![t].k = k]
     \/ /\ NoSid \in Answers(d)
        /\ thread' = [thread EXCEPT ![t].pc = "regCreate"]
     \/ /\ PlatformFails
        /\ thread' = [thread EXCEPT ![t].pc = "regMap"]
  /\ UNCHANGED <<sessionVars, io_mutex, registryVars, platformVars, handler>>

\* "133,did": a managed object is created, or there is no usable answer.
RegCreate(t) ==
  /\ thread[t].pc = "regCreate"
  /\ \/ \E k \in Sid :
          /\ made[k] = NoDid
          /\ made' = [made EXCEPT ![k] = did[thread[t].s]]
          /\ thread' = [thread EXCEPT ![t].pc = "regBind", ![t].k = k]
     \/ /\ PlatformFails
        /\ thread' = [thread EXCEPT ![t].pc = "regMap"]
        /\ UNCHANGED made
  /\ UNCHANGED <<sessionVars, io_mutex, registryVars, agent, bound, handler>>

\* "102,sid,did": the external id is bound, unless it already is or the call
\* fails; getSid returns the sid all the same.
RegBind(t) ==
  LET d == did[thread[t].s] IN
  /\ thread[t].pc = "regBind"
  /\ \/ bound' = [bound EXCEPT ![d] = IF @ = NoSid THEN thread[t].k ELSE @]
     \/ PlatformFails /\ UNCHANGED bound
  /\ thread' = [thread EXCEPT ![t].pc = "regMap"]
  /\ UNCHANGED <<sessionVars, io_mutex, registryVars, agent, made, handler>>

\* _sid and manager_did_to_sid are assigned.
RegMap(t) ==
  LET s == thread[t].s IN
  /\ thread[t].pc = "regMap"
  /\ sid' = [sid EXCEPT ![s] = thread[t].k]
  /\ didToSid' = [didToSid EXCEPT ![did[s]] = thread[t].k]
  /\ thread' = [thread EXCEPT ![t].pc = "regPtr"]
  /\ UNCHANGED <<conn, peer, awaits, writes, did, io_mutex, sidToPtr,
                 platformVars, handler>>

\* Mutant: a path out of regDev leaves io_mutex locked.
Unlock_Forgotten == UNCHANGED io_mutex

Unlock == io_mutex' = NoThread

\* manager_sid_to_ptr is assigned, io_mutex released, and Read(1) started.
RegPtr(t) ==
  LET s == thread[t].s IN
  /\ thread[t].pc = "regPtr"
  /\ sidToPtr' = [sidToPtr EXCEPT ![sid[s]] = s]
  /\ Unlock
  /\ awaits' = [awaits EXCEPT ![s] = "data"]
  /\ thread' = [thread EXCEPT ![t] = Idle]
  /\ UNCHANGED <<conn, peer, writes, sid, did, didToSid, platformVars,
                 handler>>

-----------------------------------------------------------------------------
(* Removal: clrSession, after a failed read or a failed write.             *)

\* OnRead or OnReadSpec with an error: the read chain ends and t clears s.
OnReadError(s, t) ==
  /\ thread[t].pc = "idle"
  /\ awaits[s] = "data"
  /\ conn[s] = "closed"
  /\ awaits' = [awaits EXCEPT ![s] = "none"]
  /\ thread' = [thread EXCEPT ![t] = Job("clrDid", s, NoSid)]
  /\ UNCHANGED <<conn, peer, writes, sid, did, io_mutex, registryVars,
                 platformVars, handler>>

\* Mutant: the map is cleared where one entry is erased.
WithoutDid_Any(d) == [x \in Did |-> NoSid]

\* manager_did_to_sid.erase(did), unless the did is empty.
WithoutDid(d) == [x \in Did |-> IF x = d THEN NoSid ELSE didToSid[x]]

ClrDid(t) ==
  /\ agent = "adHoc"
  /\ thread[t].pc = "clrDid"
  /\ didToSid' = WithoutDid(did[thread[t].s])
  /\ thread' = [thread EXCEPT ![t].pc = "clrSid"]
  /\ UNCHANGED <<sessionVars, io_mutex, sidToPtr, platformVars, handler>>

\* The integrated machine closes the socket, and is given no did to erase.
ClrSocket(t) ==
  /\ agent = "integrated"
  /\ thread[t].pc = "clrDid"
  /\ conn' = [conn EXCEPT ![thread[t].s] = "closed"]
  /\ thread' = [thread EXCEPT ![t].pc = "clrSid"]
  /\ UNCHANGED <<peer, awaits, writes, sid, did, io_mutex, registryVars,
                 platformVars, handler>>

\* Mutant: the entry is not erased.
WithoutSid_Kept(k) == sidToPtr

\* manager_sid_to_ptr.erase(sid), unless the sid is empty.
WithoutSid(k) ==
  IF k = NoSid THEN sidToPtr ELSE [sidToPtr EXCEPT ![k] = NoSession]

ClrSid(t) ==
  /\ thread[t].pc = "clrSid"
  /\ sidToPtr' = WithoutSid(sid[thread[t].s])
  /\ thread' = [thread EXCEPT ![t] = Idle]
  /\ UNCHANGED <<sessionVars, io_mutex, didToSid, platformVars, handler>>

-----------------------------------------------------------------------------
(* Traffic of a registered session.                                        *)

\* OnRead or OnReadSpec has a message whose processing writes an answer.
OnReadAnswer(s) ==
  /\ SomeThreadIdle
  /\ awaits[s] = "data"
  /\ conn[s] = "up"
  /\ writes[s] < MaxWrites
  /\ writes' = [writes EXCEPT ![s] = @ + 1]
  /\ UNCHANGED <<conn, peer, awaits, sid, did, thread, io_mutex, registryVars,
                 platformVars, handler>>

\* Mutant: the completion is delivered once too often.
WriteEnds_Repeated(s) == writes' = [writes EXCEPT ![s] = @ - 1]

\* The completion of an async_write gives up its share of the object.
WriteEnds(s) == writes[s] > 0 /\ writes' = [writes EXCEPT ![s] = @ - 1]

OnWrite(s) ==
  /\ SomeThreadIdle
  /\ conn[s] \in {"up", "silent"}
  /\ WriteEnds(s)
  /\ UNCHANGED <<conn, peer, awaits, sid, did, thread, io_mutex, registryVars,
                 platformVars, handler>>

\* A write failed, the read chain may still be running, and t clears s.
OnWriteError(s, t) ==
  /\ thread[t].pc = "idle"
  /\ conn[s] # "up"
  /\ WriteEnds(s)
  /\ conn' = [conn EXCEPT ![s] = IF @ = "silent" THEN "closed" ELSE @]
  /\ thread' = [thread EXCEPT ![t] = Job("clrDid", s, NoSid)]
  /\ UNCHANGED <<peer, awaits, sid, did, io_mutex, registryVars, platformVars,
                 handler>>

\* check_deadline closes a socket, at some time: AdHocReader has the timer.
CheckDeadline(s) ==
  /\ agent = "adHoc"
  /\ SomeThreadIdle
  /\ conn[s] \in {"up", "silent"}
  /\ conn' = [conn EXCEPT ![s] = "closed"]
  /\ UNCHANGED <<peer, awaits, writes, sid, did, thread, io_mutex, registryVars,
                 platformVars, handler>>

-----------------------------------------------------------------------------
(* The managers: one closes its connection, or is cut off without a FIN.   *)

PeerLost(s) ==
  /\ conn[s] = "up"
  /\ \E c \in {"closed", "silent"} : conn' = [conn EXCEPT ![s] = c]
  /\ UNCHANGED <<peer, awaits, writes, sid, did, thread, io_mutex, registryVars,
                 platformVars, handler>>

-----------------------------------------------------------------------------
(* The main thread: AgentMsgHandler::operator() for an operation on a      *)
(* device behind manager d.  A null pointer is the report "不在线", which  *)
(* changes nothing here, or the death of the integrated machine.           *)

\* The sids operator() looks the session up by: manager_did_to_sid[d] for a
\* collection or a download, the platform's answer for a single reading.
RouteSids(d) == {didToSid[d]} \cup ({bound[d]} \ {NoSid})

HandlerLookup(d) ==
  /\ handler = Waiting
  /\ \E k \in RouteSids(d) :
       /\ sidToPtr[k] # NoSession
       /\ handler' = [pc |-> "send", cs |-> sidToPtr[k], to |-> d]
  /\ UNCHANGED <<sessionVars, thread, io_mutex, registryVars, platformVars>>

\* cs->sendToClient.  If the object was destroyed in between, its memory is
\* used after it was freed: the message is lost, or the process dies (Restart).
HandlerSend ==
  LET s == handler.cs IN
  /\ handler.pc = "send"
  /\ handler' = Waiting
  /\ \/ /\ Alive(s)
        /\ writes[s] < MaxWrites
        /\ writes' = [writes EXCEPT ![s] = @ + 1]
     \/ /\ ~Alive(s)
        /\ UNCHANGED writes
  /\ UNCHANGED <<conn, peer, awaits, sid, did, thread, io_mutex, registryVars,
                 platformVars>>

-----------------------------------------------------------------------------
Acceptor ==
  \E s \in Session :
    \/ \E n \in Session, d \in Did : ProcessAccept(s, n, d)
    \/ ProcessAcceptError(s)

JobStep(t) ==
  \/ RegFind(t) \/ RegCreate(t) \/ RegBind(t) \/ RegMap(t) \/ RegPtr(t)
  \/ ClrDid(t) \/ ClrSocket(t) \/ ClrSid(t)

PoolThread(t) ==
  \/ RegLock(t)
  \/ JobStep(t)
  \/ \E s \in Session : OnReadReg(s, t) \/ OnReadError(s, t) \/ OnWriteError(s, t)

SessionStep(s) ==
  \/ OnReadRegError(s) \/ OnReadAnswer(s) \/ OnWrite(s) \/ CheckDeadline(s)
  \/ PeerLost(s)

\* The process ends and srwatchdogd starts it again: its memory and its
\* connections are gone, what the platform stored remains.
Reboot ==
  /\ conn' = [s \in Session |-> "none"]
  /\ peer' = [s \in Session |-> NoDid]
  /\ awaits' \in {Accepting(s) : s \in Session}
  /\ writes' = [s \in Session |-> 0]
  /\ sid' = [s \in Session |-> NoSid]
  /\ did' = [s \in Session |-> NoDid]
  /\ thread' = [t \in Thread |-> Idle]
  /\ io_mutex' = NoThread
  /\ sidToPtr' = [k \in SidOrNone |-> NoSession]
  /\ didToSid' = [d \in Did |-> NoSid]
  /\ handler' = Waiting
  /\ UNCHANGED platformVars

Restart == Restarts /\ Reboot

\* The integrated machine calls cs->sendToClient with cs NULL for an operation
\* that looks up no session: get time, check time, the downloads, a text it
\* does not know, and any whose lookups fail.
HandlerDies ==
  /\ Restarts
  /\ agent = "integrated"
  /\ handler = Waiting
  /\ Reboot

MainThread == HandlerSend \/ HandlerDies \/ \E d \in Did : HandlerLookup(d)

Next ==
  \/ Acceptor
  \/ \E t \in Thread : PoolThread(t)
  \/ \E s \in Session : SessionStep(s)
  \/ MainThread
  \/ Restart

Spec == Init /\ [][Next]_vars

(* A thread keeps running its job and HTTP calls return (the library's     *)
(* timeout), so a job's steps are weakly fair.  io_mutex and the           *)
(* io_service's queue of handlers are served in turn: a waiting thread and *)
(* a failed read get their turn although others may come in between.       *)
Fairness ==
  /\ \A t \in Thread : WF_vars(JobStep(t)) /\ SF_vars(RegLock(t))
  /\ \A s \in Session : SF_vars(\E t \in Thread : OnReadError(s, t))

FairSpec == Spec /\ Fairness

-----------------------------------------------------------------------------
(* Properties.                                                             *)

\* An entry of manager_sid_to_ptr under a real sid points to an object that
\* still exists and whose _sid is that sid: clrSession of every object runs
\* before its last shared_ptr goes, whichever of its handlers failed first.
RegistryPointsAtLive ==
  \A k \in Sid : sidToPtr[k] # NoSession =>
    /\ Alive(sidToPtr[k])
    /\ sid[sidToPtr[k]] = k

\* Looking a manager up by either route of operator() under a real sid never
\* yields the session of another manager.
RouteReachesAddressee ==
  \A d \in Did : \A k \in RouteSids(d) \cap Sid :
    sidToPtr[k] # NoSession => did[sidToPtr[k]] = d

\* A manager whose connection is up and whose registration is done is found
\* by operator(), which otherwise reports it "不在线".
OnlineManagerRoutable ==
  \A s \in Session :
    (conn[s] = "up" /\ awaits[s] = "data") =>
      sid[s] # NoSid /\ didToSid[did[s]] = sid[s] /\ sidToPtr[sid[s]] = s

\* The search and the creation in getSid are one critical section: a managed
\* object is created only for a manager that has none, neither bound nor about
\* to be bound by another registration, whatever fails or is restarted.
CreatedOnlyIfNone ==
  [][\A k \in Sid : made'[k] # made[k] =>
       /\ bound[made'[k]] = NoSid
       /\ \A t \in Thread :
            thread[t].pc = "regBind" => did[thread[t].s] # made'[k]]_vars

\* manager_sid_to_ptr, "小区管理机sid与session指针对应关系": the session an
\* operation is sent through, while it exists, is that of the manager the
\* operation is for.
DeliveryMatchesAddressee ==
  (handler.pc = "send" /\ Alive(handler.cs)) => did[handler.cs] = handler.to

(* The strengthening that makes the two registry invariants inductive.     *)

\* A registration is the only thing that runs for its object, whose _sid is
\* empty until it is assigned.
RegistrationInv ==
  /\ \A s \in Session : awaits[s] \in {"accept", "reg"} => sid[s] = NoSid
  /\ \A s \in Session : awaits[s] = "reg" => peer[s] \in Did
  /\ \A t \in Thread : thread[t].pc \in Registering =>
       /\ awaits[thread[t].s] = "none"
       /\ did[thread[t].s] \in Did
       /\ thread[t].pc # "regPtr" => sid[thread[t].s] = NoSid
  /\ \A t, u \in Thread :
       (/\ thread[t].pc \in Registering
        /\ thread[u].pc \in Registering
        /\ thread[t].s = thread[u].s) => t = u

\* What an entry points to is read from, or about to be cleared.
EntryInv ==
  \A k \in Sid : sidToPtr[k] # NoSession =>
    /\ sid[sidToPtr[k]] = k
    /\ \/ awaits[sidToPtr[k]] = "data"
       \/ \E t \in Thread :
            thread[t].pc \in Clearing /\ thread[t].s = sidToPtr[k]

\* Whoever holds a sid for a manager holds one that was made for it.
OwnerInv ==
  /\ \A s \in Session : sid[s] \in Sid => did[s] \in Did /\ made[sid[s]] = did[s]
  /\ \A d \in Did : didToSid[d] \in Sid => made[didToSid[d]] = d
  /\ \A d \in Did : bound[d] \in Sid => made[bound[d]] = d
  /\ \A t \in Thread :
       (thread[t].pc \in Registering /\ thread[t].k \in Sid) =>
         made[thread[t].k] = did[thread[t].s]

IndInv == TypeOK /\ RegistrationInv /\ EntryInv /\ OwnerInv

\* A session whose connection is lost leaves manager_sid_to_ptr.
DroppedManagerForgotten ==
  \A s \in Session, k \in Sid :
    (sidToPtr[k] = s /\ conn[s] = "closed") ~> sidToPtr[k] # s

\* A registration that has begun gets the mutex and ends.
RegistrationCompletes ==
  \A t \in Thread :
    (thread[t].pc \in Registering) ~> (thread[t].pc \notin Registering)
=============================================================================
