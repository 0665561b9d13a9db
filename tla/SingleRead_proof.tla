--------------------------- MODULE SingleRead_proof ---------------------------
(***************************************************************************)
(* Theorems of SingleRead while readings do not overlap, in both agents: a *)
(* reading ends by the result of its own meter, which is stored where it   *)
(* is reported, and the types.                                             *)
(*                                                                         *)
(* As in CollectAllSerial_proof the argument is that of a token: at most   *)
(* one request, reply or report is under way, and it belongs to the        *)
(* operation stored for the collector that _co_did names.                  *)
(***************************************************************************)
EXTENDS SingleRead, FiniteSetTheorems, TLAPS

Serial == Overlap = FALSE /\ IsFiniteSet(Op)

Req == [type : {"read", "pickUp"}, co : Collector, me : Meter \cup {NoMeter}]
Msg == [type : {"receive", "refused", "result"},
        me : Meter \cup {NoMeter}, ok : BOOLEAN]

PlatformType ==
  /\ status \in [Op -> {"PENDING", "EXECUTING", "SUCCESSFUL", "FAILED"}]
  /\ meterOf \in [Op -> Meter \cup {NoMeter}]
  /\ device \in [Meter -> {"NONE", "EXECUTING", "SUCCESSFUL", "FAILED"}]
  /\ readings \in [Meter -> Nat]
  /\ agent \in Agents /\ home \in [Meter -> Collector]

SessionType ==
  /\ online \in BOOLEAN /\ up \in BOOLEAN
  /\ opsid \in [Collector -> Op \cup {NoOp}]
  /\ coDid \in Collector \cup {NoCollector}
  /\ taken \in [Collector -> Meter \cup {NoMeter}]

\* The rest of a handler is a report.
JobType == job = NoJob \/ job \in [co : Collector \cup {NoCollector},
                                   me : Meter \cup {NoMeter},
                                   ok : BOOLEAN, busy : {TRUE}]

TypeInv == PlatformType /\ SessionType /\ JobType

\* The operation and the meter the session deals with.
Current == opsid[coDid]
Mine    == meterOf[Current]

InProgress ==
  /\ coDid \in Collector /\ Current \in Op /\ status[Current] = "EXECUTING"
  /\ Mine \in Meter /\ home[Mine] = coDid

\* A number that names the meter, or none.
Names(m) == m \in {Mine, NoMeter}

RequestOK(m) ==
  /\ m.co = coDid
  /\ \/ m.type = "read" /\ Names(m.me)
     \/ m.type = "pickUp" /\ Names(taken[coDid])

ReplyOK(m) ==
  \/ m.type = "receive" /\ Names(taken[coDid])
  \/ m.type = "refused"
  \/ m.type = "result" /\ Names(m.me)

JobOK ==
  /\ Names(job.me)
  /\ job.co # NoCollector => job.co = coDid /\ job.me = Mine

Asking   == /\ \E m \in Req : toMgr = <<m>> /\ RequestOK(m)
            /\ toAgent = <<>> /\ job = NoJob /\ up
Replying == /\ \E m \in Msg : toAgent = <<m>> /\ ReplyOK(m)
            /\ toMgr = <<>> /\ job = NoJob /\ up
Working  == toMgr = <<>> /\ toAgent = <<>> /\ job # NoJob /\ JobOK

Token == Quiet \/ (InProgress /\ (Asking \/ Replying \/ Working))

\* Readings are counted by the operations that were begun for the meter, the
\* one under way not yet.
Begun(m)   == {o \in Op : meterOf[o] = m /\ status[o] # "PENDING"}
Awaited(m) == ~Quiet /\ m = Mine
Counted ==
  \A m \in Meter :
    /\ readings[m] <= Cardinality(Begun(m))
    /\ Awaited(m) => readings[m] < Cardinality(Begun(m))

Succeeded(m) == {o \in Op : meterOf[o] = m /\ status[o] = "SUCCESSFUL"}

StepInv == TypeInv /\ Token /\ Counted /\ SuccessHasReading

-----------------------------------------------------------------------------
(* The helpers.                                                            *)

LEMMA Fresh == NoCollector \notin Collector /\ NoMeter \notin Meter /\ NoOp \notin Op
BY Zenon, ConstantsAssumption DEF ConstantsAssumption

LEMMA NumbersNamed ==
  ASSUME NEW m, NEW n \in MeterNumbers(m)
  PROVE  n \in {m, NoMeter}
BY Zenon DEF MeterNumbers

\* What the platform answers is about the meter, or nothing; and only then is
\* its collector known.
LEMMA LookupsNamed ==
  ASSUME NEW m \in Meter \cup {NoMeter}, NEW l \in Lookups(m)
  PROVE  /\ l[1] \in {m, NoMeter}
         /\ \/ l[2] = NoCollector
            \/ l[1] = m /\ m \in Meter /\ l[2] = home[m]
<1>1. \/ l = <<NoMeter, NoCollector>>
      \/ m \in Meter /\ l = <<m, home[m]>>
      \/ l = <<m, NoCollector>>
  BY Zenon, Fresh DEF Lookups
<1> QED
  BY <1>1

LEMMA Single ==
  ASSUME NEW m
  PROVE  /\ Head(<<m>>) = m /\ Tail(<<m>>) = <<>>
         /\ Append(<<>>, m) = <<m>> /\ <<m>> # <<>>
OBVIOUS

LEMMA HoldsReply ==
  ASSUME Token, NEW type, Takes(type)
  PROVE  /\ InProgress /\ ReplyOK(Head(toAgent)) /\ Head(toAgent) \in Msg
         /\ Head(toAgent).type = type
         /\ toAgent' = <<>> /\ toMgr = <<>> /\ job = NoJob /\ up /\ ~Quiet
<1>1. toAgent # <<>> /\ Head(toAgent).type = type /\ toAgent' = Tail(toAgent)
  BY DEF Takes
<1>2. InProgress /\ Replying /\ ~Quiet
  BY <1>1 DEF Token, Quiet, Asking, Working
<1>3. PICK m \in Msg : toAgent = <<m>> /\ ReplyOK(m)
  BY <1>2 DEF Replying
<1>4. Head(toAgent) = m /\ Tail(toAgent) = <<>>
  BY <1>3, Single
<1> QED
  BY <1>1, <1>2, <1>3, <1>4 DEF Replying

LEMMA HoldsRequest ==
  ASSUME Token, NEW type, Serves(type)
  PROVE  /\ InProgress /\ RequestOK(Head(toMgr)) /\ Head(toMgr) \in Req
         /\ Head(toMgr).type = type
         /\ Tail(toMgr) = <<>> /\ toAgent = <<>> /\ job = NoJob /\ up /\ ~Quiet
<1>1. toMgr # <<>> /\ Head(toMgr).type = type
  BY DEF Serves
<1>2. InProgress /\ Asking /\ ~Quiet
  BY <1>1 DEF Token, Quiet, Replying, Working
<1>3. PICK m \in Req : toMgr = <<m>> /\ RequestOK(m)
  BY <1>2 DEF Asking
<1>4. Head(toMgr) = m /\ Tail(toMgr) = <<>>
  BY <1>3, Single
<1> QED
  BY <1>1, <1>2, <1>3, <1>4 DEF Asking

LEMMA HoldsJob ==
  ASSUME TypeInv, Token, job.busy
  PROVE  /\ InProgress /\ JobOK /\ toMgr = <<>> /\ toAgent = <<>> /\ ~Quiet
         /\ job.co \in Collector \cup {NoCollector}
         /\ job.me \in Meter \cup {NoMeter} /\ job.ok \in BOOLEAN
<1>1. job # NoJob
  BY DEF NoJob
<1> QED
  BY <1>1 DEF Token, Quiet, Asking, Replying, Working, TypeInv, JobType

\* The operation the token belongs to stays what it is.
LEMMA ProgressKept ==
  ASSUME InProgress, UNCHANGED <<coDid, opsid, home>>,
         status'[Current] = status[Current], meterOf'[Current] = meterOf[Current]
  PROVE  InProgress' /\ Mine' = Mine /\ Current' = Current
BY DEF InProgress, Current, Mine

LEMMA PassesRequest ==
  ASSUME toMgr = <<>>, toAgent' = <<>>, job' = NoJob, up' = up, up \in BOOLEAN,
         NEW m \in Req, Send(m), InProgress', RequestOK(m)'
  PROVE  Token'
<1>1. CASE up
  <2>1. toMgr' = <<m>>
    BY <1>1, Single DEF Send
  <2> QED
    BY <1>1, <2>1 DEF Token, Asking
<1>2. CASE ~up
  BY <1>2 DEF Send, Token, Quiet
<1> QED
  BY <1>1, <1>2

LEMMA PassesReply ==
  ASSUME Tail(toMgr) = <<>>, toAgent = <<>>, job' = NoJob, up',
         NEW m \in Msg, Answer(m), InProgress', ReplyOK(m)'
  PROVE  Token'
<1>1. toMgr' = <<>> /\ toAgent' = <<m>>
  BY Single DEF Answer
<1> QED
  BY <1>1 DEF Token, Replying

-----------------------------------------------------------------------------
(* Counting.                                                               *)

LEMMA CountKept ==
  ASSUME Counted, UNCHANGED <<status, meterOf, readings>>,
         \A m \in Meter : Awaited(m)' => Awaited(m)
  PROVE  Counted'
BY DEF Counted, Begun

LEMMA ReadingsKept ==
  ASSUME SuccessHasReading, UNCHANGED platformVars
  PROVE  SuccessHasReading'
BY DEF SuccessHasReading, platformVars

LEMMA SetsFinite ==
  ASSUME IsFiniteSet(Op), NEW m
  PROVE  /\ IsFiniteSet(Begun(m)) /\ Cardinality(Begun(m)) \in Nat
         /\ Cardinality(Begun(m)) <= Cardinality(Op)
         /\ IsFiniteSet(Succeeded(m)) /\ Cardinality(Succeeded(m)) \in Nat
<1>1. Begun(m) \subseteq Op /\ Succeeded(m) \subseteq Op
  BY DEF Begun, Succeeded
<1> QED
  BY <1>1, FS_Subset, FS_CardinalityType

\* An operation is begun, for one more meter.
LEMMA BeginCounts ==
  ASSUME IsFiniteSet(Op), TypeInv, Counted, NEW o \in Op, IsNew(o),
         NEW m \in Meter, NEW s, s # "PENDING",
         status' = [status EXCEPT ![o] = s],
         meterOf' = [meterOf EXCEPT ![o] = m], readings' = readings,
         \A x \in Meter : Awaited(x)' => Awaited(x) \/ x = m
  PROVE  Counted'
<1> SUFFICES ASSUME NEW x \in Meter
             PROVE  /\ readings[x] <= Cardinality(Begun(x)')
                    /\ Awaited(x)' => readings[x] < Cardinality(Begun(x)')
  BY DEF Counted
<1>1. /\ readings[x] \in Nat /\ readings[x] <= Cardinality(Begun(x))
      /\ Awaited(x) => readings[x] < Cardinality(Begun(x))
      /\ IsFiniteSet(Begun(x)) /\ Cardinality(Begun(x)) \in Nat
  BY SetsFinite DEF TypeInv, PlatformType, Counted
<1>2. o \notin Begun(x)
  BY DEF Begun, IsNew
<1>3. CASE x = m
  <2>1. Begun(x)' = Begun(x) \cup {o}
    BY <1>3 DEF Begun, TypeInv, PlatformType, IsNew
  <2>2. Cardinality(Begun(x)') = Cardinality(Begun(x)) + 1
    BY <1>1, <1>2, <2>1, FS_AddElement
  <2> QED
    BY <1>1, <2>2
<1>4. CASE x # m
  <2>1. Begun(x)' = Begun(x)
    BY <1>4 DEF Begun, TypeInv, PlatformType, IsNew
  <2> QED
    BY <1>1, <1>4, <2>1
<1> QED
  BY <1>3, <1>4

\* Beginning an operation makes no meter successful.
LEMMA BeginSucceedsNone ==
  ASSUME TypeInv, SuccessHasReading, NEW o \in Op, IsNew(o),
         NEW m \in Meter, NEW s, s \notin {"PENDING", "SUCCESSFUL"},
         NEW d, d # "SUCCESSFUL",
         status' = [status EXCEPT ![o] = s],
         device' = [device EXCEPT ![m] = d],
         meterOf' = [meterOf EXCEPT ![o] = m], readings' = readings
  PROVE  SuccessHasReading'
<1> SUFFICES ASSUME NEW x \in Meter
             PROVE  /\ Cardinality(Succeeded(x)') <= readings[x]
                    /\ device'[x] = "SUCCESSFUL" => readings[x] > 0
  BY DEF SuccessHasReading, Succeeded
<1>1. Succeeded(x)' = Succeeded(x)
  BY DEF Succeeded, TypeInv, PlatformType, IsNew
<1>2. device'[x] = "SUCCESSFUL" => device[x] = "SUCCESSFUL"
  BY DEF TypeInv, PlatformType
<1> QED
  BY <1>1, <1>2 DEF SuccessHasReading, Succeeded

-----------------------------------------------------------------------------
(* The actions.                                                            *)

LEMMA InitOK == IsFiniteSet(Op) /\ Init => StepInv
<1> SUFFICES ASSUME IsFiniteSet(Op), Init PROVE StepInv
  OBVIOUS
<1>1. TypeInv /\ Token
  BY DEF Init, TypeInv, PlatformType, SessionType, JobType, Token, Quiet
<1>2. \A m \in Meter : Begun(m) = {} /\ Succeeded(m) = {} /\ readings[m] = 0
  BY DEF Init, Begun, Succeeded
<1>3. Cardinality({}) = 0
  BY FS_EmptySet
<1>4. Quiet
  BY DEF Init, Quiet
<1>5. Counted
  BY <1>2, <1>3, <1>4 DEF Counted, Awaited
<1>6. \A m \in Meter : device[m] = "NONE"
  BY DEF Init
<1>7. SuccessHasReading
  BY <1>2, <1>3, <1>6 DEF SuccessHasReading, Succeeded
<1> QED
  BY <1>1, <1>5, <1>7 DEF StepInv

LEMMA ReadMeterOK ==
  ASSUME Serial, StepInv, NEW o \in Op, NEW m \in Meter, ReadMeter(o, m)
  PROVE  StepInv'
<1>1. /\ IsNew(o) /\ Quiet
      /\ status' = [status EXCEPT ![o] = "EXECUTING"]
      /\ device' = [device EXCEPT ![m] = "EXECUTING"]
      /\ meterOf' = [meterOf EXCEPT ![o] = m]
      /\ opsid' = [opsid EXCEPT ![home[m]] = o] /\ coDid' = home[m]
      /\ UNCHANGED <<readings, agent, home, online, up, job, toAgent, taken>>
  BY Zenon DEF Serial, ReadMeter, SetOpsId, SetCoDid, fixedVars, linkVars
<1>2. PICK n \in {m, NoMeter} : Send(Request("read", home[m], n))
  BY Zenon, NumbersNamed DEF ReadMeter
<1>3. TypeInv'
  BY <1>1 DEF StepInv, TypeInv, PlatformType, SessionType, JobType
<1>4. /\ coDid' = home[m] /\ Current' = o /\ Mine' = m /\ InProgress'
  BY <1>1 DEF InProgress, Current, Mine, StepInv, TypeInv, PlatformType,
              SessionType
<1>5. PICK r : r = Request("read", home[m], n)
  OBVIOUS
<1>6. r \in Req /\ RequestOK(r)'
  BY <1>2, <1>4, <1>5
     DEF RequestOK, Request, Names, Req, StepInv, TypeInv, PlatformType
<1>7. Token'
  BY <1>1, <1>2, <1>4, <1>5, <1>6, PassesRequest
     DEF Quiet, StepInv, TypeInv, SessionType
<1>8. Counted'
  BY <1>1, <1>4, BeginCounts DEF Serial, StepInv, Awaited
<1>9. SuccessHasReading'
  BY <1>1, BeginSucceedsNone DEF StepInv
<1> QED
  BY <1>3, <1>7, <1>8, <1>9 DEF StepInv

\* The operations that are begun and send nothing: what is under way stays, or
\* ends with the process.
LEMMA BeginOK ==
  ASSUME Serial, StepInv, NEW o \in Op, NEW m \in Meter,
         \/ ReadOffline(o, m) \/ ReadUnresolved(o, m)
         \/ ReadOfflineUnreported(o, m) \/ ReadUnresolvedDies(o, m)
  PROVE  StepInv'
<1>1. PICK s \in {"FAILED", "EXECUTING"} :
        /\ IsNew(o)
        /\ status' = [status EXCEPT ![o] = s]
        /\ meterOf' = [meterOf EXCEPT ![o] = m]
        /\ UNCHANGED <<readings, agent, home, taken>>
  BY Zenon DEF ReadOffline, ReadUnresolved, ReadOfflineUnreported,
               ReadUnresolvedDies, OnlyBegun, fixedVars
<1>2. PICK d \in {"FAILED", "EXECUTING"} : device' = [device EXCEPT ![m] = d]
  BY Zenon DEF ReadOffline, ReadUnresolved, ReadOfflineUnreported,
               ReadUnresolvedDies, OnlyBegun
<1>3. \/ UNCHANGED <<linkVars, sessionVars, job, toMgr, toAgent>>
      \/ /\ online' = FALSE /\ up' = FALSE
         /\ opsid' = [c \in Collector |-> NoOp] /\ coDid' = NoCollector
         /\ job' = NoJob /\ toMgr' = <<>> /\ toAgent' = <<>>
  BY Zenon DEF ReadOffline, ReadUnresolved, ReadOfflineUnreported,
               ReadUnresolvedDies
<1>4. PlatformType'
  BY <1>1, <1>2 DEF StepInv, TypeInv, PlatformType
<1>5. SessionType' /\ JobType'
  BY <1>1, <1>3
     DEF StepInv, TypeInv, SessionType, JobType, linkVars, sessionVars
<1>6. Token' /\ \A x \in Meter : Awaited(x)' => Awaited(x)
  <2>1. CASE Quiet'
    BY <2>1 DEF Token, Awaited
  <2>2. CASE ~Quiet'
    <3>1. UNCHANGED <<linkVars, sessionVars, job, toMgr, toAgent>> /\ ~Quiet
      BY <1>3, <2>2 DEF Quiet
    <3>2. InProgress /\ (Asking \/ Replying \/ Working)
      BY <3>1 DEF StepInv, Token
    <3>3. Current # o
      BY <1>1, <3>2 DEF InProgress, IsNew
    <3>4. InProgress' /\ Mine' = Mine /\ Current' = Current
      <4>1. /\ status'[Current] = status[Current]
            /\ meterOf'[Current] = meterOf[Current]
        BY <1>1, <3>2, <3>3
           DEF InProgress, StepInv, TypeInv, PlatformType
      <4> QED
        BY <1>1, <3>1, <3>2, <4>1, ProgressKept DEF sessionVars
    <3>5. \A x : (RequestOK(x) => RequestOK(x)') /\ (ReplyOK(x) => ReplyOK(x)')
      BY <1>1, <3>1, <3>4 DEF RequestOK, ReplyOK, Names, sessionVars
    <3>6. Asking => Asking'
      BY <3>1, <3>5 DEF Asking, linkVars
    <3>7. Replying => Replying'
      BY <3>1, <3>5 DEF Replying, linkVars
    <3>8. Working => Working'
      BY <3>1, <3>4 DEF Working, JobOK, Names, sessionVars
    <3> QED
      BY <3>1, <3>2, <3>4, <3>6, <3>7, <3>8 DEF Token, Awaited
  <2> QED
    BY <2>1, <2>2
<1>7. Counted'
  BY <1>1, <1>6, BeginCounts DEF Serial, StepInv
<1>8. SuccessHasReading'
  BY <1>1, <1>2, BeginSucceedsNone DEF StepInv
<1> QED
  BY <1>4, <1>5, <1>6, <1>7, <1>8 DEF StepInv, TypeInv

LEMMA ReceiveOK ==
  ASSUME StepInv, Receive
  PROVE  StepInv'
<1>1. /\ Takes("receive") /\ Send(Request("pickUp", coDid, NoMeter))
      /\ UNCHANGED <<platformVars, fixedVars, linkVars, sessionVars, job, taken>>
  BY Zenon DEF Receive
<1>2. /\ InProgress /\ ReplyOK(Head(toAgent)) /\ Head(toAgent).type = "receive"
      /\ toAgent' = <<>> /\ toMgr = <<>> /\ job = NoJob /\ ~Quiet
  BY <1>1, HoldsReply DEF StepInv
<1>3. TypeInv'
  BY <1>1 DEF StepInv, TypeInv, PlatformType, SessionType, JobType,
              platformVars, fixedVars, linkVars, sessionVars
<1>4. InProgress' /\ Mine' = Mine
  BY <1>1, <1>2, ProgressKept DEF platformVars, fixedVars, sessionVars
<1>5. PICK r : r = Request("pickUp", coDid, NoMeter)
  OBVIOUS
<1>6. r \in Req /\ RequestOK(r)'
  BY <1>1, <1>2, <1>4, <1>5
     DEF RequestOK, ReplyOK, Request, Names, Req, InProgress, sessionVars
<1>7. Token'
  BY <1>1, <1>2, <1>4, <1>5, <1>6, PassesRequest
     DEF StepInv, TypeInv, SessionType, linkVars
<1>8. Counted' /\ SuccessHasReading'
  BY <1>1, <1>2, <1>4, CountKept, ReadingsKept DEF StepInv, Awaited, platformVars
<1> QED
  BY <1>3, <1>7, <1>8 DEF StepInv

LEMMA ResultOK ==
  ASSUME StepInv, Result
  PROVE  StepInv'
<1>1. /\ Takes("result")
      /\ UNCHANGED <<platformVars, fixedVars, linkVars, sessionVars, toMgr, taken>>
  BY Zenon DEF Result
<1>2. /\ InProgress /\ ReplyOK(Head(toAgent)) /\ Head(toAgent).type = "result"
      /\ Head(toAgent) \in Msg
      /\ toAgent' = <<>> /\ toMgr = <<>> /\ job = NoJob /\ ~Quiet
  BY <1>1, HoldsReply DEF StepInv
<1>3. PICK me \in Meter \cup {NoMeter} : me = Head(toAgent).me /\ Names(me)
  BY <1>2 DEF ReplyOK, Msg
<1>4. PICK l \in Lookups(me) :
        job' = [co |-> l[2], me |-> l[1], ok |-> Head(toAgent).ok, busy |-> TRUE]
  BY <1>3 DEF Result
<1>5. /\ l[1] \in {me, NoMeter}
      /\ \/ l[2] = NoCollector
         \/ l[1] = me /\ me \in Meter /\ l[2] = home[me]
  BY LookupsNamed
<1>6. InProgress' /\ Mine' = Mine
  BY <1>1, <1>2, ProgressKept DEF platformVars, fixedVars, sessionVars
<1>7. JobType' /\ job' # NoJob
  <2>1. /\ l[1] \in Meter \cup {NoMeter} /\ l[2] \in Collector \cup {NoCollector}
        /\ Head(toAgent).ok \in BOOLEAN
    BY <1>2, <1>5 DEF Msg, StepInv, TypeInv, PlatformType
  <2> QED
    BY <1>4, <2>1 DEF JobType, NoJob
<1>8. JobOK'
  BY <1>1, <1>2, <1>3, <1>4, <1>5, <1>6, Fresh
     DEF JobOK, Names, InProgress, sessionVars
<1>9. Token'
  BY <1>1, <1>2, <1>6, <1>7, <1>8 DEF Token, Working
<1>10. TypeInv'
  BY <1>1, <1>7 DEF StepInv, TypeInv, PlatformType, SessionType,
                    platformVars, fixedVars, linkVars, sessionVars
<1>11. Counted' /\ SuccessHasReading'
  BY <1>1, <1>2, <1>6, CountKept, ReadingsKept DEF StepInv, Awaited, platformVars
<1> QED
  BY <1>9, <1>10, <1>11 DEF StepInv

\* What a report does, of the operation and the meter the token belongs to.
LEMMA ReportFacts ==
  ASSUME StepInv, NEW told, ReportTo(told)
  PROVE  /\ InProgress /\ JobOK /\ Quiet' /\ ~Quiet
         /\ job.me \in Meter \cup {NoMeter} /\ job.ok \in BOOLEAN
         /\ \A o \in Op : status'[o] # status[o] =>
              o = Current /\ job.me = Mine /\ status'[o] = Outcome(job.ok)
         /\ job' = NoJob
         /\ readings' = [m \in Meter |->
                           readings[m] + (IF job.ok /\ job.me = m THEN 1 ELSE 0)]
         /\ UNCHANGED <<meterOf, fixedVars, linkVars, sessionVars, taken>>
<1>1. /\ InProgress /\ JobOK /\ toMgr = <<>> /\ toAgent = <<>> /\ ~Quiet
      /\ job.co \in Collector \cup {NoCollector}
      /\ job.me \in Meter \cup {NoMeter} /\ job.ok \in BOOLEAN
  BY HoldsJob DEF StepInv, ReportTo
<1>2. ASSUME NEW o \in Op, status'[o] # status[o]
      PROVE  o = Current /\ job.me = Mine /\ status'[o] = Outcome(job.ok)
  <2>1. /\ job.co # NoCollector /\ opsid[job.co] = o
        /\ status'[o] = Outcome(job.ok)
    BY <1>2 DEF ReportTo
  <2> QED
    BY <1>1, <2>1 DEF JobOK, Current
<1>3. Quiet'
  BY <1>1 DEF ReportTo, Quiet
<1> QED
  BY <1>1, <1>2, <1>3 DEF ReportTo

LEMMA ReportToOK ==
  ASSUME IsFiniteSet(Op), StepInv, NEW told, ReportTo(told),
         \A m \in Meter : m \in told => job.me = m
  PROVE  StepInv'
<1>1. /\ InProgress /\ JobOK /\ Quiet' /\ ~Quiet
      /\ job.me \in Meter \cup {NoMeter} /\ job.ok \in BOOLEAN
      /\ \A o \in Op : status'[o] # status[o] =>
           o = Current /\ job.me = Mine /\ status'[o] = Outcome(job.ok)
      /\ job' = NoJob
      /\ readings' = [m \in Meter |->
                        readings[m] + (IF job.ok /\ job.me = m THEN 1 ELSE 0)]
      /\ UNCHANGED <<meterOf, fixedVars, linkVars, sessionVars, taken>>
  BY ReportFacts
<1>2. Outcome(job.ok) = IF job.ok THEN "SUCCESSFUL" ELSE "FAILED"
  BY DEF Outcome
<1>3. PlatformType'
  <2>1. status' \in [Op -> {"PENDING", "EXECUTING", "SUCCESSFUL", "FAILED"}]
    BY <1>2 DEF ReportTo, StepInv, TypeInv, PlatformType
  <2>2. device' \in [Meter -> {"NONE", "EXECUTING", "SUCCESSFUL", "FAILED"}]
    BY <1>2 DEF ReportTo, StepInv, TypeInv, PlatformType
  <2>3. readings' \in [Meter -> Nat]
    BY <1>1 DEF StepInv, TypeInv, PlatformType
  <2> QED
    BY <1>1, <2>1, <2>2, <2>3 DEF StepInv, TypeInv, PlatformType, fixedVars
<1>4. SessionType' /\ JobType' /\ Token'
  BY <1>1 DEF StepInv, TypeInv, SessionType, JobType, Token, linkVars,
              sessionVars
<1>5. ASSUME NEW m \in Meter
      PROVE  /\ readings[m] \in Nat
             /\ readings'[m] = readings[m]
                  + (IF job.ok /\ job.me = m THEN 1 ELSE 0)
             /\ readings[m] <= Cardinality(Begun(m))
             /\ m = Mine => readings[m] < Cardinality(Begun(m))
             /\ Cardinality(Succeeded(m)) <= readings[m]
             /\ IsFiniteSet(Succeeded(m)) /\ Cardinality(Succeeded(m)) \in Nat
             /\ Cardinality(Begun(m)) \in Nat
  BY <1>1, SetsFinite DEF StepInv, TypeInv, PlatformType, Counted, Awaited,
                          SuccessHasReading, Succeeded
<1>6. ASSUME NEW m \in Meter, job.ok, job.me = m PROVE m = Mine
  BY <1>1, <1>6, Fresh DEF JobOK, Names
<1>7. Counted'
  <2> SUFFICES ASSUME NEW m \in Meter
               PROVE  readings'[m] <= Cardinality(Begun(m)')
    BY <1>1 DEF Counted, Awaited
  <2>1. Begun(m)' = Begun(m)
    BY <1>1, <1>2 DEF Begun, InProgress
  <2> QED
    BY <1>5, <1>6, <2>1
<1>8. SuccessHasReading'
  <2> SUFFICES ASSUME NEW m \in Meter
               PROVE  /\ Cardinality(Succeeded(m)') <= readings'[m]
                      /\ device'[m] = "SUCCESSFUL" => readings'[m] > 0
    BY DEF SuccessHasReading, Succeeded
  <2>1. CASE status'[Current] # status[Current] /\ job.ok /\ m = Mine
    <3>1. Succeeded(m)' = Succeeded(m) \cup {Current} /\ Current \notin Succeeded(m)
      BY <1>1, <1>2, <2>1 DEF Succeeded, InProgress, Mine
    <3>2. Cardinality(Succeeded(m)') = Cardinality(Succeeded(m)) + 1
      BY <1>5, <3>1, FS_AddElement
    <3>3. job.me = m
      BY <1>1, <2>1 DEF InProgress
    <3> QED
      BY <1>5, <2>1, <3>2, <3>3
  <2>2. CASE ~(status'[Current] # status[Current] /\ job.ok /\ m = Mine)
    <3>1. Succeeded(m)' = Succeeded(m)
      BY <1>1, <1>2, <2>2 DEF Succeeded, InProgress, Mine
    <3>2. Cardinality(Succeeded(m)') <= readings'[m]
      BY <1>5, <3>1
    <3>3. ASSUME device'[m] = "SUCCESSFUL" PROVE readings'[m] > 0
      <4>1. \/ device[m] = "SUCCESSFUL"
            \/ m \in told /\ job.ok
        BY <1>2, <3>3 DEF ReportTo
      <4>2. device[m] = "SUCCESSFUL" => readings[m] > 0
        BY DEF StepInv, SuccessHasReading
      <4> QED
        BY <1>5, <4>1, <4>2
    <3> QED
      BY <3>2, <3>3
  <2> QED
    BY <2>1, <2>2, <1>5, <1>1, <1>2
<1> QED
  BY <1>3, <1>4, <1>7, <1>8 DEF StepInv, TypeInv

LEMMA RefusedOK ==
  ASSUME StepInv, Refused
  PROVE  StepInv'
<1>1. /\ Takes("refused")
      /\ UNCHANGED <<platformVars, fixedVars, linkVars, sessionVars, job, toMgr,
                     taken>>
  BY Zenon DEF Refused
<1>2. toAgent' = <<>> /\ toMgr = <<>> /\ job = NoJob
  BY <1>1, HoldsReply DEF StepInv
<1>3. Quiet'
  BY <1>1, <1>2 DEF Quiet
<1>4. TypeInv'
  BY <1>1 DEF StepInv, TypeInv, PlatformType, SessionType, JobType,
              platformVars, fixedVars, linkVars, sessionVars
<1>5. Counted' /\ SuccessHasReading'
  BY <1>1, <1>3, CountKept, ReadingsKept DEF StepInv, Awaited, platformVars
<1> QED
  BY <1>3, <1>4, <1>5 DEF StepInv, Token

\* A request is answered with a reply that is as right.
LEMMA AnswerOK ==
  ASSUME StepInv, NEW type, Serves(type), NEW a \in Msg, Answer(a),
         UNCHANGED <<platformVars, fixedVars, linkVars, sessionVars, job>>,
         taken' \in [Collector -> Meter \cup {NoMeter}],
         ReplyOK(a)'
  PROVE  StepInv'
<1>1. /\ InProgress /\ Tail(toMgr) = <<>> /\ toAgent = <<>> /\ job = NoJob
      /\ up /\ ~Quiet
  BY HoldsRequest DEF StepInv
<1>2. InProgress' /\ Mine' = Mine
  BY <1>1, ProgressKept DEF platformVars, fixedVars, sessionVars
<1>3. Token'
  BY <1>1, <1>2, PassesReply DEF linkVars
<1>4. TypeInv'
  BY DEF StepInv, TypeInv, PlatformType, SessionType, JobType,
         platformVars, fixedVars, linkVars, sessionVars
<1>5. Counted' /\ SuccessHasReading'
  BY <1>1, <1>2, CountKept, ReadingsKept DEF StepInv, Awaited, platformVars
<1> QED
  BY <1>3, <1>4, <1>5 DEF StepInv

LEMMA ManagerOK ==
  ASSUME StepInv, Manager
  PROVE  StepInv'
<1>1. ASSUME NEW type, Serves(type)
      PROVE  /\ InProgress /\ RequestOK(Head(toMgr)) /\ Head(toMgr) \in Req
             /\ Head(toMgr).type = type /\ Head(toMgr).co = coDid
  BY <1>1, HoldsRequest DEF StepInv, RequestOK
<1>2. ASSUME UNCHANGED <<platformVars, fixedVars, linkVars, sessionVars, job>>,
             InProgress
      PROVE  Mine' = Mine /\ coDid' = coDid
  BY <1>2, ProgressKept DEF platformVars, fixedVars, sessionVars
<1>3. CASE MgrRead
  <2>1. /\ Serves("read")
        /\ taken' = [taken EXCEPT ![Head(toMgr).co] = Head(toMgr).me]
        /\ Answer(Reply("receive", NoMeter, FALSE))
        /\ UNCHANGED <<platformVars, fixedVars, linkVars, sessionVars, job>>
    BY <1>3, Zenon DEF MgrRead
  <2>2. PICK a : a = Reply("receive", NoMeter, FALSE)
    OBVIOUS
  <2>3. /\ a \in Msg /\ a.type = "receive"
        /\ taken' \in [Collector -> Meter \cup {NoMeter}]
    BY <1>1, <2>1, <2>2 DEF Reply, Msg, Req, StepInv, TypeInv, SessionType
  <2>4. Names(taken[coDid])'
    BY <1>1, <1>2, <2>1
       DEF RequestOK, Names, InProgress, StepInv, TypeInv, SessionType
  <2> QED
    BY <2>1, <2>2, <2>3, <2>4, AnswerOK DEF ReplyOK
<1>4. CASE MgrPickUp
  <2>1. PICK ok \in BOOLEAN :
          /\ Serves("pickUp")
          /\ Answer(Reply("result", taken[Head(toMgr).co], ok))
          /\ taken' = [taken EXCEPT ![Head(toMgr).co] = NoMeter]
          /\ UNCHANGED <<platformVars, fixedVars, linkVars, sessionVars, job>>
    BY <1>4, Zenon DEF MgrPickUp
  <2>2. PICK a : a = Reply("result", taken[Head(toMgr).co], ok)
    OBVIOUS
  <2>3. /\ a \in Msg /\ a.type = "result" /\ a.me = taken[Head(toMgr).co]
        /\ taken' \in [Collector -> Meter \cup {NoMeter}]
    BY <1>1, <2>1, <2>2 DEF Reply, Msg, Req, StepInv, TypeInv, SessionType
  <2>4. Names(a.me)'
    BY <1>1, <1>2, <2>1, <2>3 DEF RequestOK, Names
  <2> QED
    BY <2>1, <2>2, <2>3, <2>4, AnswerOK DEF ReplyOK
<1>5. CASE MgrReadAtOnce
  <2>1. PICK ok \in BOOLEAN :
          /\ Serves("read")
          /\ Answer(Reply("result", Head(toMgr).me, ok))
          /\ UNCHANGED <<platformVars, fixedVars, linkVars, sessionVars, job, taken>>
    BY <1>5, Zenon DEF MgrReadAtOnce
  <2>2. PICK a : a = Reply("result", Head(toMgr).me, ok)
    OBVIOUS
  <2>3. /\ a \in Msg /\ a.type = "result" /\ a.me = Head(toMgr).me
        /\ taken' \in [Collector -> Meter \cup {NoMeter}]
    BY <1>1, <2>1, <2>2 DEF Reply, Msg, Req, StepInv, TypeInv, SessionType
  <2>4. Names(a.me)'
    BY <1>1, <1>2, <2>1, <2>3 DEF RequestOK, Names
  <2> QED
    BY <2>1, <2>2, <2>3, <2>4, AnswerOK DEF ReplyOK
<1>6. CASE MgrRefuse
  <2>1. /\ Serves("read")
        /\ Answer(Reply("refused", NoMeter, FALSE))
        /\ UNCHANGED <<platformVars, fixedVars, linkVars, sessionVars, job, taken>>
    BY <1>6, Zenon DEF MgrRefuse
  <2>2. PICK a : a = Reply("refused", NoMeter, FALSE)
    OBVIOUS
  <2>3. /\ a \in Msg /\ a.type = "refused"
        /\ taken' \in [Collector -> Meter \cup {NoMeter}]
    BY <2>1, <2>2 DEF Reply, Msg, StepInv, TypeInv, SessionType
  <2> QED
    BY <2>1, <2>2, <2>3, AnswerOK DEF ReplyOK
<1> QED
  BY <1>3, <1>4, <1>5, <1>6 DEF Manager

\* The connection goes, and comes again: the token is kept or lost.
LEMMA LinkOK ==
  ASSUME StepInv, ReadError \/ ConnectionLost \/ Reconnect
  PROVE  StepInv'
<1>1. UNCHANGED <<platformVars, fixedVars, job, taken>>
  BY Zenon DEF ReadError, ConnectionLost, Reconnect
<1>2. SessionType'
  <2>1. online' \in BOOLEAN /\ up' \in BOOLEAN
    BY Zenon DEF ReadError, ConnectionLost, Reconnect, StepInv, TypeInv,
                 SessionType
  <2>2. /\ opsid' \in [Collector -> Op \cup {NoOp}]
        /\ coDid' \in Collector \cup {NoCollector}
    <3>1. \/ UNCHANGED <<opsid, coDid>>
          \/ opsid' = [c \in Collector |-> NoOp] /\ coDid' = NoCollector
      BY Zenon DEF ReadError, ConnectionLost, Reconnect, sessionVars
    <3> QED
      BY <3>1 DEF StepInv, TypeInv, SessionType
  <2> QED
    BY <1>1, <2>1, <2>2, Zenon DEF StepInv, TypeInv, SessionType
<1>3. Token' /\ \A m \in Meter : Awaited(m)' => Awaited(m)
  <2>1. CASE Quiet'
    BY <2>1 DEF Token, Awaited
  <2>2. CASE ~Quiet'
    <3>1. \/ /\ Reconnect \/ ConnectionLost
             /\ UNCHANGED sessionVars
          \/ ReadError /\ ~up /\ job = NoJob /\ UNCHANGED <<toMgr, toAgent>>
      BY Zenon DEF ReadError, ConnectionLost, Reconnect
    <3>2. ~ReadError
      <4> SUFFICES ASSUME ReadError PROVE FALSE
        OBVIOUS
      <4>1. ~up /\ job = NoJob /\ UNCHANGED <<toMgr, toAgent, job>>
        BY Zenon DEF ReadError
      <4> QED
        BY <2>2, <4>1 DEF StepInv, Token, Quiet, Asking, Replying, Working
    <3>3. ~Quiet
      <4>1. CASE Reconnect
        BY <1>1, <2>2, <4>1 DEF Reconnect, Quiet
      <4>2. CASE ConnectionLost
        <5>1. toMgr' = <<>> /\ toAgent' = <<>>
          BY <4>2, Zenon DEF ConnectionLost
        <5> QED
          BY <1>1, <2>2, <5>1 DEF Quiet
      <4> QED
        BY <3>1, <3>2, <4>1, <4>2
    <3>4. InProgress /\ (Asking \/ Replying \/ Working)
      BY <3>3 DEF StepInv, Token
    <3>5. InProgress' /\ Mine' = Mine /\ coDid' = coDid
      BY <1>1, <3>1, <3>2, <3>4, ProgressKept
         DEF platformVars, fixedVars, sessionVars
    <3>6. \A x : (RequestOK(x) => RequestOK(x)') /\ (ReplyOK(x) => ReplyOK(x)')
      BY <1>1, <3>5 DEF RequestOK, ReplyOK, Names
    <3>7. CASE Reconnect
      <4>1. /\ up' /\ UNCHANGED <<toMgr, toAgent>>
        BY <3>7 DEF Reconnect
      <4>2. Asking => Asking'
        BY <1>1, <3>6, <4>1 DEF Asking
      <4>3. Replying => Replying'
        BY <1>1, <3>6, <4>1 DEF Replying
      <4>4. Working => Working'
        BY <1>1, <3>5, <4>1 DEF Working, JobOK, Names, NoJob
      <4> QED
        BY <3>3, <3>4, <3>5, <4>2, <4>3, <4>4 DEF Token, Awaited
    <3>8. CASE ConnectionLost
      <4>1. toMgr' = <<>> /\ toAgent' = <<>>
        BY <3>8, Zenon DEF ConnectionLost
      <4>2. job # NoJob
        BY <1>1, <2>2, <4>1 DEF Quiet, NoJob
      <4>3. Working
        BY <3>4, <4>2 DEF Asking, Replying
      <4>4. Working'
        BY <1>1, <3>5, <4>1, <4>3 DEF Working, JobOK, Names, NoJob
      <4> QED
        BY <3>3, <3>5, <4>4 DEF Token, Awaited
    <3> QED
      BY <3>1, <3>2, <3>7, <3>8
  <2> QED
    BY <2>1, <2>2
<1>4. PlatformType' /\ JobType'
  BY <1>1 DEF StepInv, TypeInv, PlatformType, JobType, NoJob, platformVars,
              fixedVars
<1>5. Counted' /\ SuccessHasReading'
  BY <1>1, <1>3, CountKept, ReadingsKept DEF StepInv, platformVars
<1> QED
  BY <1>2, <1>3, <1>4, <1>5 DEF StepInv, TypeInv

LEMMA NextOK ==
  ASSUME Serial, StepInv, [Next]_vars
  PROVE  StepInv'
<1>1. ASSUME NEW told, ReportTo(told), told = {m \in Meter : job.ok /\ job.me = m}
                                    \/ told = {m \in Meter : job.me = m}
      PROVE  StepInv'
  BY <1>1, ReportToOK DEF Serial
<1>2. Report \/ ReportIntegrated => StepInv'
  BY <1>1 DEF Report, ReportIntegrated
<1>3. MainThread => StepInv'
  BY ReadMeterOK, BeginOK DEF MainThread
<1>4. UNCHANGED vars => StepInv'
  <2> SUFFICES ASSUME UNCHANGED vars PROVE StepInv'
    OBVIOUS
  <2>1. UNCHANGED <<platformVars, fixedVars, linkVars, sessionVars, job, toMgr,
                    toAgent, taken>>
    BY Zenon DEF vars
  <2> USE DEF platformVars, fixedVars, linkVars, sessionVars
  <2>2. TypeInv'
    BY <2>1 DEF StepInv, TypeInv, PlatformType, SessionType, JobType, NoJob
  <2>3. Token' /\ \A m \in Meter : Awaited(m)' => Awaited(m)
    BY <2>1 DEF StepInv, Token, Awaited, InProgress, Current, Mine, Quiet, NoJob,
                Asking, Replying, Working, RequestOK, ReplyOK, JobOK, Names
  <2>4. Counted' /\ SuccessHasReading'
    BY <2>1, <2>3, CountKept, ReadingsKept DEF StepInv
  <2> QED
    BY <2>2, <2>3, <2>4 DEF StepInv
<1> QED
  BY <1>2, <1>3, <1>4, ReceiveOK, RefusedOK, ResultOK, ManagerOK, LinkOK
     DEF Next, ReadChain

-----------------------------------------------------------------------------
(* The theorems.                                                           *)

LEMMA OneToken ==
  ASSUME Serial
  PROVE  Spec => []StepInv
<1>1. Init => StepInv
  BY InitOK DEF Serial
<1>2. StepInv /\ [Next]_vars => StepInv'
  BY NextOK
<1> QED
  BY <1>1, <1>2, PTL DEF Spec

\* Every variable keeps its type; in particular a meter never has more readings
\* than operations were begun for it, whatever is refused, lost or not found.
THEOREM ReadingTyped ==
  ASSUME Serial
  PROVE  Spec => []TypeOK
<1>1. ASSUME StepInv PROVE TypeOK
  <2>1. readings \in [Meter -> 0 .. Cardinality(Op)]
    <3>1. ASSUME NEW m \in Meter PROVE readings[m] \in 0 .. Cardinality(Op)
      <4>1. /\ readings[m] \in Nat /\ Cardinality(Op) \in Nat
            /\ readings[m] <= Cardinality(Begun(m))
        BY <1>1, FS_CardinalityType
           DEF Serial, StepInv, TypeInv, PlatformType, Counted
      <4>2. /\ Cardinality(Begun(m)) \in Nat
            /\ Cardinality(Begun(m)) <= Cardinality(Op)
        BY SetsFinite DEF Serial
      <4> QED
        BY <4>1, <4>2
    <3> QED
      BY <1>1, <3>1 DEF StepInv, TypeInv, PlatformType
  <2>2. job \in [co : Collector \cup {NoCollector}, me : Meter \cup {NoMeter},
                 ok : BOOLEAN, busy : BOOLEAN]
    <3>1. CASE job = NoJob
      BY <3>1 DEF NoJob
    <3>2. CASE job \in [co : Collector \cup {NoCollector},
                       me : Meter \cup {NoMeter}, ok : BOOLEAN, busy : {TRUE}]
      BY <3>2
    <3> QED
      BY <1>1, <3>1, <3>2 DEF StepInv, TypeInv, JobType
  <2>3. toMgr \in Seq(Req) /\ toAgent \in Seq(Msg)
    <3>1. \/ toMgr = <<>> /\ toAgent = <<>>
          \/ toAgent = <<>> /\ \E m \in Req : toMgr = <<m>>
          \/ toMgr = <<>> /\ \E m \in Msg : toAgent = <<m>>
      BY <1>1, Zenon DEF StepInv, Token, Quiet, Asking, Replying, Working
    <3>2. <<>> \in Seq(Req) /\ <<>> \in Seq(Msg)
      OBVIOUS
    <3>3. /\ \A m \in Req : <<m>> \in Seq(Req)
          /\ \A m \in Msg : <<m>> \in Seq(Msg)
      OBVIOUS
    <3> QED
      BY <3>1, <3>2, <3>3, Zenon
  <2>4. PlatformType /\ SessionType
    BY <1>1 DEF StepInv, TypeInv
  <2> QED
    BY <2>1, <2>2, <2>3, <2>4, Zenon
       DEF TypeOK, PlatformType, SessionType, Req, Msg
<1> QED
  BY <1>1, OneToken, PTL

\* A reading that ends SUCCESSFUL has its value stored at its own meter.
THEOREM SuccessSafe ==
  ASSUME Serial
  PROVE  Spec => []SuccessHasReading
BY OneToken, PTL DEF StepInv

\* What ends an operation: its begin, or a report that its own token reached.
LEMMA EndingSteps ==
  ASSUME StepInv, [Next]_vars, NEW o \in Op,
         status[o] # "PENDING", status'[o] # status[o]
  PROVE  \E told : /\ ReportTo(told)
                   /\ agent = "integrated" =>
                        told = {m \in Meter : job.me = m}
<1>1. ASSUME MainThread PROVE FALSE
  <2>1. PICK p, s : p \in Op /\ IsNew(p) /\ status' = [status EXCEPT ![p] = s]
    BY <1>1, Zenon
       DEF MainThread, ReadMeter, ReadOffline, ReadUnresolved,
           ReadOfflineUnreported, ReadUnresolvedDies, OnlyBegun
  <2> QED
    BY <2>1 DEF IsNew, StepInv, TypeInv, PlatformType
<1>2. ASSUME \/ Receive \/ Refused \/ Result \/ ReadError \/ Manager
             \/ ConnectionLost \/ Reconnect \/ UNCHANGED vars
      PROVE  FALSE
  <2>1. status' = status
    BY <1>2, Zenon
       DEF Receive, Refused, Result, ReadError, Manager, MgrRead, MgrPickUp,
           MgrReadAtOnce, MgrRefuse, ConnectionLost, Reconnect, vars,
           platformVars
  <2> QED
    BY <2>1
<1>3. Report \/ ReportIntegrated
  BY <1>1, <1>2 DEF Next, ReadChain
<1> QED
  BY <1>3 DEF Report, ReportIntegrated

\* An operation in progress is ended only by a result of its own meter, and as
\* the result says.
THEOREM EndsSafe ==
  ASSUME Serial
  PROVE  Spec => EndsByOwnResult
<1>1. ASSUME StepInv, [Next]_vars, NEW o \in Op,
             status[o] # "PENDING", status'[o] # status[o]
      PROVE  /\ status[o] = "EXECUTING"
             /\ job.me = meterOf[o]
             /\ (status'[o] = "SUCCESSFUL") <=> job.ok
  <2>1. PICK told : ReportTo(told)
    BY <1>1, EndingSteps
  <2>2. /\ InProgress /\ o = Current /\ job.me = Mine
        /\ status'[o] = Outcome(job.ok) /\ job.ok \in BOOLEAN
    BY <1>1, <2>1, ReportFacts
  <2> QED
    BY <2>2 DEF InProgress, Mine, Outcome
<1>2. StepInv /\ [Next]_vars =>
        [\A o \in Op : (status[o] # "PENDING" /\ status'[o] # status[o]) =>
            /\ status[o] = "EXECUTING"
            /\ job.me = meterOf[o]
            /\ (status'[o] = "SUCCESSFUL") <=> job.ok]_vars
  BY <1>1
<1> QED
  BY <1>2, OneToken, PTL DEF Spec, EndsByOwnResult

\* In the integrated machine the meter shows the outcome of its operation.
THEOREM OutcomeShown ==
  ASSUME Serial
  PROVE  Spec => DeviceShowsOutcome
<1>1. ASSUME StepInv, [Next]_vars, NEW o \in Op, agent = "integrated",
             status[o] = "EXECUTING", status'[o] # status[o]
      PROVE  device'[meterOf[o]] = status'[o]
  <2>1. PICK told : ReportTo(told) /\ told = {m \in Meter : job.me = m}
    BY <1>1, EndingSteps
  <2>2. /\ InProgress /\ o = Current /\ job.me = Mine
        /\ status'[o] = Outcome(job.ok)
    BY <1>1, <2>1, ReportFacts
  <2>3. device' = [m \in Meter |->
                    IF m \in told THEN Outcome(job.ok) ELSE device[m]]
    BY <2>1 DEF ReportTo
  <2> QED
    BY <2>1, <2>2, <2>3 DEF InProgress, Mine
<1>2. StepInv /\ [Next]_vars =>
        [\A o \in Op : (/\ agent = "integrated"
                        /\ status[o] = "EXECUTING"
                        /\ status'[o] # status[o]) =>
            device'[meterOf[o]] = status'[o]]_vars
  BY <1>1
<1> QED
  BY <1>2, OneToken, PTL DEF Spec, DeviceShowsOutcome
=============================================================================
