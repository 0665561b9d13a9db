------------------------------ MODULE SingleRead ------------------------------
(***************************************************************************)
(* "collect single data" (单抄) over the session of one residential        *)
(* manager.  A reading takes two requests in the ad-hoc-network agent, and *)
(* one in the agent of the integrated machine:                             *)
(*                                                                         *)
(*     read(meter) -> RECEIVE, PICK-UP -> result(meter, status)            *)
(*     read(meter) -> result(meter, status)                                *)
(*                                                                         *)
(* RECEIVE does not say which collector it comes from: PICK-UP goes to the *)
(* collector the session "is dealing with" (_co_did).  The result carries  *)
(* the number of the meter only; the platform is asked for its collector,  *)
(* and the collector's entry of _codid_to_opsid is the operation that is   *)
(* reported.                                                               *)
(***************************************************************************)
EXTENDS Naturals, Sequences, FiniteSets

CONSTANTS
  Agents,       \* the agents considered
  Collector,    \* collectors (集中器) behind the manager
  Meter,        \* meters (表具) behind the collectors
  Op,           \* operations the platform creates
  NoCollector,  \* collector number 0: none is known
  NoMeter,      \* meter number 0: none is known
  NoOp,         \* the empty operation id
  Drops,        \* the connection may be lost
  Refusals,     \* the manager may refuse a request
  LookupFails,  \* HTTP lookups may fail
  Overlap       \* operations are created while another is in progress

ASSUME ConstantsAssumption ==
  /\ Agents \subseteq {"adHoc", "integrated"}
  /\ NoCollector \notin Collector /\ NoMeter \notin Meter /\ NoOp \notin Op
  /\ {Drops, Refusals, LookupFails, Overlap} \subseteq BOOLEAN

VARIABLES
  agent,     \* the agent that runs
  status,    \* of each operation, as the platform shows it
  meterOf,   \* the meter each operation is for
  device,    \* c8y_OperationStatus of each meter
  readings,  \* number of values stored at each meter
  home,      \* the collector of each meter, as the platform knows it
  online,    \* manager_sid_to_ptr has the session
  up,        \* its connection
  opsid,     \* _codid_to_opsid
  coDid,     \* _co_did
  job,       \* the rest of the handler the read chain is in
  toMgr,     \* requests on the connection
  toAgent,   \* replies on the connection
  taken      \* collector: the meter whose result waits to be picked up

platformVars == <<status, meterOf, device, readings>>
fixedVars    == <<agent, home>>
sessionVars  == <<opsid, coDid>>
linkVars     == <<online, up>>
vars == <<fixedVars, platformVars, linkVars, sessionVars, job, toMgr, toAgent,
          taken>>

-----------------------------------------------------------------------------
NoJob == [co |-> NoCollector, me |-> NoMeter, ok |-> FALSE, busy |-> FALSE]

Request(type, c, m) == [type |-> type, co |-> c, me |-> m]
Reply(type, m, ok)  == [type |-> type, me |-> m, ok |-> ok]

TypeOK ==
  /\ agent \in Agents
  /\ status \in [Op -> {"PENDING", "EXECUTING", "SUCCESSFUL", "FAILED"}]
  /\ meterOf \in [Op -> Meter \cup {NoMeter}]
  /\ device \in [Meter -> {"NONE", "EXECUTING", "SUCCESSFUL", "FAILED"}]
  /\ readings \in [Meter -> 0 .. Cardinality(Op)]
  /\ home \in [Meter -> Collector]
  /\ online \in BOOLEAN /\ up \in BOOLEAN
  /\ opsid \in [Collector -> Op \cup {NoOp}]
  /\ coDid \in Collector \cup {NoCollector}
  /\ job \in [co : Collector \cup {NoCollector}, me : Meter \cup {NoMeter},
              ok : BOOLEAN, busy : BOOLEAN]
  /\ toMgr \in Seq([type : {"read", "pickUp"}, co : Collector,
                    me : Meter \cup {NoMeter}])
  /\ toAgent \in Seq([type : {"receive", "refused", "result"},
                      me : Meter \cup {NoMeter}, ok : BOOLEAN])
  /\ taken \in [Collector -> Meter \cup {NoMeter}]

Init ==
  /\ agent \in Agents
  /\ status = [o \in Op |-> "PENDING"]
  /\ meterOf = [o \in Op |-> NoMeter]
  /\ device = [m \in Meter |-> "NONE"]
  /\ readings = [m \in Meter |-> 0]
  /\ home \in [Meter -> Collector]
  /\ online = TRUE /\ up = TRUE
  /\ opsid = [c \in Collector |-> NoOp]
  /\ coDid = NoCollector
  /\ job = NoJob
  /\ toMgr = <<>> /\ toAgent = <<>>
  /\ taken = [c \in Collector |-> NoMeter]

\* sendToClient: what is written to a broken connection is lost.
Send(m) == toMgr' = IF up THEN Append(toMgr, m) ELSE toMgr

-----------------------------------------------------------------------------
(* The main thread: operator() for "collect single data".                  *)

\* No request, reply or handler of the session is under way.
Quiet == toMgr = <<>> /\ toAgent = <<>> /\ job = NoJob

\* The platform delivers an operation once.
IsNew(o) == status[o] = "PENDING"

\* The answer to "136": the meter's number, or 0 when the call fails.
MeterNumbers(m) == {m} \cup (IF LookupFails THEN {NoMeter} ELSE {})

\* Mutant: an id that is stored for the collector is not replaced, as with
\* map::insert.
SetOpsId_Insert(c, o) ==
  opsid' = IF opsid[c] = NoOp THEN [opsid EXCEPT ![c] = o] ELSE opsid

SetOpsId(c, o) == opsid' = [opsid EXCEPT ![c] = o]

\* Mutant: the collector is not recorded.
SetCoDid_Forgotten(c) == UNCHANGED coDid

SetCoDid(c) == coDid' = c

ReadMeter(o, m) ==
  LET c == home[m] IN
  /\ IsNew(o)
  /\ online
  /\ Overlap \/ Quiet
  /\ status' = [status EXCEPT ![o] = "EXECUTING"]
  /\ device' = [device EXCEPT ![m] = "EXECUTING"]
  /\ meterOf' = [meterOf EXCEPT ![o] = m]
  /\ SetOpsId(c, o)
  /\ SetCoDid(c)
  /\ \E n \in MeterNumbers(m) : Send(Request("read", c, n))
  /\ UNCHANGED <<readings, fixedVars, linkVars, job, toAgent, taken>>

\* "不在线": the manager has no session; the meter, whose sid is looked up for
\* the report, is told too if it is found.
ReadOffline(o, m) ==
  /\ agent = "adHoc"
  /\ IsNew(o)
  /\ ~online
  /\ status' = [status EXCEPT ![o] = "FAILED"]
  /\ \E s \in {"FAILED"} \cup (IF LookupFails THEN {"EXECUTING"} ELSE {}) :
       device' = [device EXCEPT ![m] = s]
  /\ meterOf' = [meterOf EXCEPT ![o] = m]
  /\ UNCHANGED <<readings, fixedVars, linkVars, sessionVars, job, toMgr,
                 toAgent, taken>>

\* All that operator() does is to report EXECUTING.
OnlyBegun(o, m) ==
  /\ IsNew(o)
  /\ status' = [status EXCEPT ![o] = "EXECUTING"]
  /\ device' = [device EXCEPT ![m] = "EXECUTING"]
  /\ meterOf' = [meterOf EXCEPT ![o] = m]
  /\ UNCHANGED <<readings, fixedVars, taken>>

\* getMeterInfo or getManagerId fails.
ReadUnresolved(o, m) ==
  /\ agent = "adHoc"
  /\ LookupFails
  /\ OnlyBegun(o, m)
  /\ UNCHANGED <<linkVars, sessionVars, job, toMgr, toAgent>>

\* The integrated machine's report of "不在线" is commented out.
ReadOfflineUnreported(o, m) ==
  /\ agent = "integrated"
  /\ ~online
  /\ OnlyBegun(o, m)
  /\ UNCHANGED <<linkVars, sessionVars, job, toMgr, toAgent>>

\* The integrated machine calls cs->sendToClient with cs NULL when a lookup
\* fails: the process dies, with its sessions, and is started again.
ReadUnresolvedDies(o, m) ==
  /\ agent = "integrated"
  /\ LookupFails
  /\ OnlyBegun(o, m)
  /\ online' = FALSE /\ up' = FALSE
  /\ opsid' = [c \in Collector |-> NoOp]
  /\ coDid' = NoCollector
  /\ job' = NoJob
  /\ toMgr' = <<>> /\ toAgent' = <<>>

-----------------------------------------------------------------------------
(* The read chain: checkMsgType, DataProcessing and what they call.        *)

Takes(type) ==
  /\ up /\ job = NoJob /\ toAgent # <<>>
  /\ Head(toAgent).type = type
  /\ toAgent' = Tail(toAgent)

\* Mutant: RECEIVE is taken and nothing is requested.
Receive_NoPickUp ==
  /\ Takes("receive")
  /\ UNCHANGED <<platformVars, fixedVars, linkVars, sessionVars, job, toMgr,
                 taken>>

\* checkMsgType, 0x35 and RECEIVE: getPickUpBuf.
Receive ==
  /\ Takes("receive")
  /\ Send(Request("pickUp", coDid, NoMeter))
  /\ UNCHANGED <<platformVars, fixedVars, linkVars, sessionVars, job, taken>>

\* An error is reported for the empty operation id.
Refused ==
  /\ Takes("refused")
  /\ UNCHANGED <<platformVars, fixedVars, linkVars, sessionVars, job, toMgr,
                 taken>>

\* getSid of util.cc: the meter's sid and its collector's number; the second
\* is missing when "135" fails, both when "100" does or the number is unknown.
Lookups(m) ==
  IF m = NoMeter
    THEN {<<NoMeter, NoCollector>>}
    ELSE {<<m, home[m]>>}
           \cup (IF LookupFails
                   THEN {<<m, NoCollector>>, <<NoMeter, NoCollector>>}
                   ELSE {})

\* sendSingleAck asks the platform for the meter ...
Result ==
  /\ Takes("result")
  /\ \E l \in Lookups(Head(toAgent).me) :
       job' = [co |-> l[2], me |-> l[1], ok |-> Head(toAgent).ok, busy |-> TRUE]
  /\ UNCHANGED <<platformVars, fixedVars, linkVars, sessionVars, toMgr, taken>>

\* Mutant: the status byte is not looked at.
Outcome_Unchecked(ok) == "SUCCESSFUL"

Outcome(ok) == IF ok THEN "SUCCESSFUL" ELSE "FAILED"

\* The operation is reported, and a reading is stored; the meters in told are
\* told the outcome.
ReportTo(told) ==
  /\ job.busy
  /\ status' = [o \in Op |-> IF job.co # NoCollector /\ opsid[job.co] = o
                               THEN Outcome(job.ok) ELSE status[o]]
  /\ device' = [m \in Meter |->
                  IF m \in told THEN Outcome(job.ok) ELSE device[m]]
  /\ readings' = [m \in Meter |->
                    readings[m] + (IF job.ok /\ job.me = m THEN 1 ELSE 0)]
  /\ job' = NoJob
  /\ UNCHANGED <<meterOf, fixedVars, linkVars, sessionVars, toMgr, toAgent,
                 taken>>

\* ... and reports.  In the ad-hoc agent "113 ... FAILED" is a statement of its
\* own that does nothing (line 177): the meter is not told of a failure.
Report ==
  /\ agent = "adHoc"
  /\ ReportTo({m \in Meter : job.ok /\ job.me = m})

\* Mutant: the integrated machine has that line of the ad-hoc agent.
ReportIntegrated_SuccessOnly ==
  /\ agent = "integrated"
  /\ ReportTo({m \in Meter : job.ok /\ job.me = m})

\* The integrated machine tells the meter in either case.
ReportIntegrated ==
  /\ agent = "integrated"
  /\ ReportTo({m \in Meter : job.me = m})

\* The read fails: clrSession removes the session, and its object goes.
ReadError ==
  /\ online /\ ~up /\ job = NoJob
  /\ online' = FALSE
  /\ opsid' = [c \in Collector |-> NoOp]
  /\ coDid' = NoCollector
  /\ UNCHANGED <<platformVars, fixedVars, up, job, toMgr, toAgent, taken>>

ReadChain == Receive \/ Refused \/ Result \/ Report \/ ReportIntegrated
               \/ ReadError

-----------------------------------------------------------------------------
(* The manager and its collectors, as the agents use them: in the ad-hoc   *)
(* network a result waits at the collector until it is picked up.          *)

Serves(type) == up /\ toMgr # <<>> /\ Head(toMgr).type = type

Answer(m) == toMgr' = Tail(toMgr) /\ toAgent' = Append(toAgent, m)

MgrRead ==
  /\ agent = "adHoc"
  /\ Serves("read")
  /\ taken' = [taken EXCEPT ![Head(toMgr).co] = Head(toMgr).me]
  /\ Answer(Reply("receive", NoMeter, FALSE))
  /\ UNCHANGED <<platformVars, fixedVars, linkVars, sessionVars, job>>

\* Without a meter that it knows the collector reports an abnormal status.
MgrPickUp ==
  LET c == Head(toMgr).co IN
  /\ Serves("pickUp")
  /\ \E ok \in BOOLEAN :
       /\ ok => taken[c] # NoMeter
       /\ Answer(Reply("result", taken[c], ok))
  /\ taken' = [taken EXCEPT ![c] = NoMeter]
  /\ UNCHANGED <<platformVars, fixedVars, linkVars, sessionVars, job>>

\* The integrated machine answers with the result.
MgrReadAtOnce ==
  LET m == Head(toMgr).me IN
  /\ agent = "integrated"
  /\ Serves("read")
  /\ \E ok \in BOOLEAN :
       /\ ok => m # NoMeter
       /\ Answer(Reply("result", m, ok))
  /\ UNCHANGED <<platformVars, fixedVars, linkVars, sessionVars, job, taken>>

MgrRefuse ==
  /\ Refusals
  /\ Serves("read")
  /\ Answer(Reply("refused", NoMeter, FALSE))
  /\ UNCHANGED <<platformVars, fixedVars, linkVars, sessionVars, job, taken>>

Manager == MgrRead \/ MgrReadAtOnce \/ MgrPickUp \/ MgrRefuse

ConnectionLost ==
  /\ Drops
  /\ up
  /\ up' = FALSE
  /\ toMgr' = <<>> /\ toAgent' = <<>>
  /\ UNCHANGED <<platformVars, fixedVars, online, sessionVars, job, taken>>

\* The manager connects and registers again, with a new session object.
Reconnect ==
  /\ ~online
  /\ online' = TRUE /\ up' = TRUE
  /\ UNCHANGED <<platformVars, fixedVars, sessionVars, job, toMgr, toAgent,
                 taken>>

-----------------------------------------------------------------------------
MainThread ==
  \E o \in Op, m \in Meter :
    \/ ReadMeter(o, m)
    \/ ReadOffline(o, m) \/ ReadOfflineUnreported(o, m)
    \/ ReadUnresolved(o, m) \/ ReadUnresolvedDies(o, m)

Next == MainThread \/ ReadChain \/ Manager \/ ConnectionLost \/ Reconnect

Spec == Init /\ [][Next]_vars

(* The pool runs the read chain's next handler once its bytes are there;   *)
(* the manager answers every request.                                      *)
FairSpec == Spec /\ WF_vars(ReadChain) /\ WF_vars(Manager)

-----------------------------------------------------------------------------
(* Properties, of one operation at a time.                                 *)

\* Each operation that ends SUCCESSFUL has a value stored at its own meter,
\* though the result names the meter and the operation is found by collector;
\* and so does a meter that shows SUCCESSFUL.
SuccessHasReading ==
  \A m \in Meter :
    /\ Cardinality({o \in Op : meterOf[o] = m /\ status[o] = "SUCCESSFUL"})
         <= readings[m]
    /\ device[m] = "SUCCESSFUL" => readings[m] > 0

\* An operation in progress is ended only by a result of its own meter, as the
\* result says, and an operation that has ended stays as it is.
EndsByOwnResult ==
  [][\A o \in Op : (status[o] # "PENDING" /\ status'[o] # status[o]) =>
       /\ status[o] = "EXECUTING"
       /\ job.me = meterOf[o]
       /\ (status'[o] = "SUCCESSFUL") <=> job.ok]_vars

\* An operation whose request is under way ends, unless the connection is
\* lost, the manager refuses, or the platform does not find the meter.
ReadingEnds ==
  \A o \in Op :
    (toMgr # <<>> /\ Head(toMgr).type = "read" /\ opsid[Head(toMgr).co] = o)
    ~> \/ status[o] \in {"SUCCESSFUL", "FAILED"}
       \/ ~up
       \/ toAgent # <<>> /\ Head(toAgent).type = "refused"
       \/ job.busy /\ job.co = NoCollector

\* In the integrated machine a meter, found by its number in the result, shows
\* the outcome of the operation, found by collector, that the result ends.
DeviceShowsOutcome ==
  [][\A o \in Op : (/\ agent = "integrated"
                    /\ status[o] = "EXECUTING"
                    /\ status'[o] # status[o]) =>
       device'[meterOf[o]] = status'[o]]_vars
=============================================================================
