--------------------------- MODULE CollectAll_proof ---------------------------
(***************************************************************************)
(* Theorems of CollectAll for every number of collectors, operations,      *)
(* blocks and frame numbers, however operations overlap on the session,    *)
(* whatever is misread, refused or lost, and whichever agent it is.        *)
(*                                                                         *)
(* TypeOK is not inductive: that a block is counted within its collector   *)
(* depends on the numbers of fetches not being 0, as lastNo is at first.   *)
(***************************************************************************)
EXTENDS CollectAll, SequenceTheorems, TLAPS

\* Requests as the session sends them: only a fetch has a frame number, and only
\* a start may be addressed to the number 0.
Req == [type : {"start"}, co : Number, no : {0}]
         \cup [type : {"poll"}, co : Collector, no : {0}]
         \cup [type : {"fetch"}, co : Collector, no : 1 .. MaxFrame]

\* Replies as collectors send them: only a data frame has a block.
Ack == [type : {"startAck", "busy", "ready"}, co : Collector, blk : {0}, meters : {0}]
         \cup [type : {"refused"}, co : Number, blk : {0}, meters : {0}]
Msg == Ack \cup [type : DataFrame, co : Collector, blk : 1 .. MaxBlocks,
                 meters : BlockMeters]

LedgerType ==
  /\ status \in [Op -> {"PENDING", "EXECUTING", "SUCCESSFUL", "FAILED"}]
  /\ target \in [Op -> Number]
  /\ size \in [Collector -> 1 .. MaxBlocks]
  /\ uploaded \in [Op -> Seq(1 .. MaxBlocks)]
  /\ incomplete \subseteq Op

SessionType ==
  /\ online \in BOOLEAN /\ up \in BOOLEAN
  /\ opsid \in [Number -> Op \cup {NoOp}]
  /\ frameNo \in [Number -> 0 .. MaxFrame]
  /\ n_flag \in {0, 1}
  /\ framed \in BOOLEAN
  /\ job \in {NoJob} \cup [pc : {"sleep"}, co : Collector, blk : {0}]
               \cup [pc : {"upload", "fetch", "uploadLast", "loop"},
                     co : Collector, blk : 1 .. MaxBlocks]

QueueType == toMgr \in Seq(Req) /\ toAgent \in Seq(Msg)

\* A collector that was asked for a block has sent one of its blocks.
MgrType ==
  /\ pos \in [Collector -> 0 .. MaxBlocks]
  /\ lastNo \in [Collector -> 0 .. MaxFrame]
  /\ \A c \in Collector : pos[c] <= size[c] /\ (lastNo[c] # 0 => pos[c] # 0)

TypeInv == LedgerType /\ SessionType /\ QueueType /\ MgrType

-----------------------------------------------------------------------------
\* allFrameNum gives a number that is never 0 and never the one before.
LEMMA FrameNoChanges ==
  ASSUME NEW n \in 0 .. MaxFrame
  PROVE  NextFrameNo(n) \in 1 .. MaxFrame /\ NextFrameNo(n) # n
  BY ConstantsAssumption DEF NextFrameNo

\* What sendToClient writes is a well-formed request.
LEMMA Sent ==
  ASSUME QueueType, NEW m \in Req, Send(m)
  PROVE  toMgr' \in Seq(Req)
  BY AppendProperties DEF QueueType, Send

\* What a read handler takes is a well-formed reply of a type it is for.
LEMMA Taken ==
  ASSUME QueueType, NEW types, NEW flag, Takes(types, flag)
  PROVE  /\ Head(toAgent) \in Msg
         /\ Head(toAgent).type \in types
         /\ toAgent' \in Seq(Msg)
  BY HeadTailProperties DEF QueueType, Takes, Reading

\* The manager takes a well-formed request and gives a well-formed answer.
LEMMA Answered ==
  ASSUME QueueType, NEW type, Serves(type), NEW m \in Msg, Answer(m)
  PROVE  QueueType'
  BY HeadTailProperties, AppendProperties DEF QueueType, Serves, Answer

LEMMA Asked ==
  ASSUME QueueType, NEW type, Serves(type)
  PROVE  Head(toMgr) \in Req /\ Head(toMgr).type = type
  BY HeadTailProperties DEF QueueType, Serves

\* The next fetch keeps the session and the queue well-formed.
LEMMA Fetched ==
  ASSUME QueueType, frameNo \in [Number -> 0 .. MaxFrame],
         NEW c \in Collector, NEW flag \in {0, 1}, FetchNext(c, flag)
  PROVE  /\ frameNo' \in [Number -> 0 .. MaxFrame]
         /\ n_flag' \in {0, 1}
         /\ toMgr' \in Seq(Req)
<1> DEFINE n == NextFrameNo(frameNo[c])
<1>1. n \in 1 .. MaxFrame
  BY FrameNoChanges DEF Number
<1>2. /\ frameNo' = [frameNo EXCEPT ![c] = n]
      /\ n_flag' = flag
      /\ Send(Request("fetch", c, n))
  BY DEF FetchNext
<1> HIDE DEF n
<1>3. Request("fetch", c, n) \in Req
  BY <1>1 DEF Request, Req
<1> QED
  BY <1>1, <1>2, <1>3, Sent DEF Number

-----------------------------------------------------------------------------
LEMMA InitTyped == Init => TypeInv
  BY ConstantsAssumption, EmptySeq
  DEF Init, Number, TypeInv, LedgerType, SessionType, QueueType, MgrType

\* The main thread's three outcomes of operator().
LEMMA MainThreadTyped ==
  ASSUME TypeInv, MainThread PROVE TypeInv'
<1> USE ConstantsAssumption DEF TypeInv, LedgerType, SessionType, MgrType
<1>1. ASSUME NEW o \in Op, NEW c \in Collector, NEW d \in Number, Collect(o, c, d)
      PROVE  TypeInv'
  <2>1. Request("start", d, 0) \in Req
    BY DEF Request, Req
  <2>2. QueueType'
    BY <1>1, <2>1, Sent DEF Collect, QueueType
  <2>3. LedgerType' /\ MgrType'
    BY <1>1 DEF Collect, mgrVars, Number
  <2>4. SessionType'
    BY <1>1 DEF Collect, RecordOp, linkVars
  <2> QED
    BY <2>2, <2>3, <2>4
<1>2. ASSUME NEW o \in Op, NEW c \in Collector, CollectOffline(o, c)
      PROVE  TypeInv'
  BY <1>2 DEF CollectOffline, QueueType, sessionVars, linkVars, mgrVars, Number
<1>3. ASSUME NEW o \in Op, NEW c \in Collector, CollectUnresolved(o, c)
      PROVE  TypeInv'
  BY <1>3 DEF CollectUnresolved, QueueType, sessionVars, linkVars, mgrVars, Number
<1>4. ASSUME NEW o \in Op, NEW c \in Collector, CollectUnresolvedDies(o, c)
      PROVE  TypeInv'
  <2>1. QueueType'
    BY <1>4, EmptySeq DEF CollectUnresolvedDies, QueueType
  <2>2. online' \in BOOLEAN /\ framed' \in BOOLEAN /\ up' \in BOOLEAN
    BY <1>4, Zenon DEF CollectUnresolvedDies
  <2>3. /\ status' = [status EXCEPT ![o] = "EXECUTING"]
        /\ target' = [target EXCEPT ![o] = c]
        /\ UNCHANGED <<size, uploaded, incomplete, mgrVars>>
    BY <1>4, Zenon DEF CollectUnresolvedDies
  <2>4. /\ opsid' = [x \in Number |-> NoOp]
        /\ frameNo' = [x \in Number |-> 0]
        /\ n_flag' = 0
        /\ job' = NoJob
    BY <1>4, Zenon DEF CollectUnresolvedDies
  <2>5. LedgerType' /\ MgrType'
    BY <2>3 DEF mgrVars, Number
  <2>6. SessionType'
    BY <2>2, <2>4
  <2> QED
    BY <2>1, <2>5, <2>6
<1> QED
  BY <1>1, <1>2, <1>3, <1>4 DEF MainThread

\* The handlers of the read chain and the rest of the jobs they leave.
LEMMA ReadChainTyped ==
  ASSUME TypeInv, ReadChain PROVE TypeInv'
<1> USE ConstantsAssumption DEF TypeInv, ledgerVars, sessionVars, linkVars, mgrVars
<1> DEFINE m == Head(toAgent)
<1>1. CASE StartAck
  <2>1. m \in Msg /\ m.type = "startAck" /\ toAgent' \in Seq(Msg)
    BY <1>1, Taken DEF StartAck
  <2>2. Request("poll", m.co, 0) \in Req
    BY <2>1 DEF Msg, Ack, DataFrame, Req, Request
  <2>3. QueueType'
    BY <1>1, <2>1, <2>2, Sent DEF StartAck, QueueType
  <2> QED
    BY <1>1, <2>3 DEF StartAck, LedgerType, SessionType, MgrType
<1>2. CASE Refused
  <2>1. QueueType'
    BY <1>2, Taken DEF Refused, QueueType
  <2> QED
    BY <1>2, <2>1 DEF Refused, LedgerType, SessionType, MgrType
<1>3. CASE Busy
  <2>1. m \in Msg /\ m.type = "busy" /\ toAgent' \in Seq(Msg)
    BY <1>3, Taken DEF Busy
  <2>2. SessionType'
    BY <1>3, <2>1 DEF Busy, Job, Msg, Ack, DataFrame, SessionType
  <2> QED
    BY <1>3, <2>1, <2>2 DEF Busy, LedgerType, MgrType, QueueType
<1>4. CASE PollAgain
  <2>1. job.co \in Collector
    BY <1>4 DEF PollAgain, SessionType, NoJob
  <2>2. Request("poll", job.co, 0) \in Req
    BY <2>1 DEF Req, Request
  <2>3. QueueType'
    BY <1>4, <2>2, Sent DEF PollAgain, QueueType
  <2> QED
    BY <1>4, <2>3 DEF PollAgain, LedgerType, SessionType, MgrType
<1>5. CASE Ready
  <2>1. m \in Msg /\ m.type = "ready" /\ toAgent' \in Seq(Msg)
    BY <1>5, Taken DEF Ready
  <2>2. m.co \in Collector
    BY <2>1 DEF Msg, Ack, DataFrame
  <2>3. /\ frameNo' \in [Number -> 0 .. MaxFrame]
        /\ n_flag' \in {0, 1}
        /\ toMgr' \in Seq(Req)
    BY <1>5, <2>2, Fetched DEF Ready, SessionType
  <2> QED
    BY <1>5, <2>1, <2>3
    DEF Ready, LedgerType, SessionType, MgrType, QueueType
<1>6. CASE Data
  <2>1. m \in Msg /\ m.type = "data" /\ toAgent' \in Seq(Msg)
    BY <1>6, Taken DEF Data
  <2>2. m.co \in Collector /\ m.blk \in 1 .. MaxBlocks
    BY <2>1 DEF Msg, Ack, DataFrame
  <2>3. SessionType'
    BY <1>6, <2>2 DEF Data, FlagBefore, Job, SessionType
  <2> QED
    BY <1>6, <2>1, <2>3 DEF Data, LedgerType, MgrType, QueueType
<1>7. CASE Last
  <2>1. m \in Msg /\ m.type = "last" /\ toAgent' \in Seq(Msg)
    BY <1>7, Taken DEF Last
  <2>2. m.co \in Collector /\ m.blk \in 1 .. MaxBlocks
    BY <2>1 DEF Msg, Ack, DataFrame
  <2>3. SessionType'
    <3>1. Job("uploadLast", m.co, m.blk)
            \in [pc : {"uploadLast"}, co : Collector, blk : 1 .. MaxBlocks]
      BY <2>2 DEF Job
    <3>2. /\ job' = Job("uploadLast", m.co, m.blk)
          /\ frameNo' = [frameNo EXCEPT ![m.co] = 0]
          /\ n_flag' = FlagBefore
          /\ UNCHANGED <<online, up, opsid, framed>>
      BY <1>7 DEF Last
    <3> HIDE DEF m
    <3>3. frameNo' \in [Number -> 0 .. MaxFrame]
      <4>1. 0 \in 0 .. MaxFrame
        OBVIOUS
      <4> QED
        BY <3>2, <4>1 DEF SessionType
    <3>5. n_flag' \in {0, 1}
      BY <3>2 DEF FlagBefore
    <3>4. online' \in BOOLEAN /\ up' \in BOOLEAN /\ framed' \in BOOLEAN
      BY <3>2, Zenon DEF SessionType
    <3> QED
      BY <3>1, <3>2, <3>3, <3>4, <3>5 DEF SessionType
  <2>4. LedgerType'
    BY <1>7 DEF Last, LedgerType
  <2> QED
    BY <1>7, <2>1, <2>3, <2>4 DEF Last, LedgerType, MgrType, QueueType
<1>13. CASE PrintForever
  <2>1. m \in Msg /\ m.type \in DataFrame /\ toAgent' \in Seq(Msg)
    BY <1>13, Taken DEF PrintForever
  <2>2. m.co \in Collector /\ m.blk \in 1 .. MaxBlocks
    BY <2>1 DEF Msg, Ack, DataFrame
  <2>3. SessionType'
    BY <1>13, <2>2 DEF PrintForever, FlagBefore, Job, SessionType
  <2> QED
    BY <1>13, <2>1, <2>3 DEF PrintForever, LedgerType, MgrType, QueueType
<1>8. CASE Upload
  <2>1. job \in [pc : {"upload", "fetch", "uploadLast", "loop"},
                 co : Collector, blk : 1 .. MaxBlocks]
    BY <1>8 DEF Upload, SessionType, NoJob
  <2>2. ASSUME NEW o \in Op PROVE Append(uploaded[o], job.blk) \in Seq(1 .. MaxBlocks)
    BY <2>1, AppendProperties DEF LedgerType
  <2>3. LedgerType'
    BY <1>8, <2>2 DEF Upload, LedgerType
  <2>4. SessionType'
    <3>1. job' = [job EXCEPT !.pc = "fetch"] \/ job' = NoJob
      BY <1>8 DEF Upload
    <3>2. n_flag' \in {0, 1}
      BY <1>8 DEF Upload, FlagAfter, SessionType
    <3> QED
      BY <1>8, <2>1, <3>1, <3>2 DEF Upload, SessionType
  <2> QED
    BY <1>8, <2>3, <2>4 DEF Upload, LedgerType, MgrType, QueueType
<1>9. CASE FetchMore
  <2>1. job.co \in Collector
    BY <1>9 DEF FetchMore, SessionType, NoJob
  <2>2. /\ frameNo' \in [Number -> 0 .. MaxFrame]
        /\ n_flag' \in {0, 1}
        /\ toMgr' \in Seq(Req)
    BY <1>9, <2>1, Fetched DEF FetchMore, FlagAfter, SessionType
  <2> QED
    BY <1>9, <2>2 DEF FetchMore, LedgerType, SessionType, MgrType, QueueType
<1>10. CASE Misread
  <2>1. QueueType'
    BY <1>10, Taken DEF Misread, QueueType
  <2> QED
    BY <1>10, <2>1 DEF Misread, LedgerType, SessionType, MgrType
<1>11. CASE Discard
  <2>1. QueueType'
    BY <1>11, HeadTailProperties DEF Discard, QueueType
  <2> QED
    BY <1>11, <2>1 DEF Discard, LedgerType, SessionType, MgrType
<1>12. CASE ReadError
  <2>1. LedgerType' /\ QueueType' /\ MgrType'
    BY <1>12 DEF ReadError, LedgerType, MgrType, QueueType
  <2>2. online' \in BOOLEAN /\ framed' \in BOOLEAN /\ up' \in BOOLEAN
    BY <1>12, Zenon DEF ReadError, SessionType
  <2>3. SessionType'
    BY <1>12, <2>2 DEF ReadError, SessionType
  <2> QED
    BY <2>1, <2>3
<1> QED
  BY <1>1, <1>2, <1>3, <1>4, <1>5, <1>6, <1>7, <1>8, <1>9, <1>10, <1>11, <1>12,
     <1>13
  DEF ReadChain

\* The manager and its collectors.
LEMMA ManagerTyped ==
  ASSUME TypeInv, Manager PROVE TypeInv'
<1> USE ConstantsAssumption DEF TypeInv, ledgerVars, sessionVars, linkVars, mgrVars
<1> DEFINE c == Head(toMgr).co
<1>1. ASSUME NEW type, Serves(type)
      PROVE  c \in Number /\ (type # "start" => c \in Collector)
  BY <1>1, Asked DEF Req, Number
<1>2. ASSUME NEW type \in {"startAck", "busy", "ready"}, NEW d \in Collector
      PROVE  Reply(type, d) \in Msg
  BY DEF Reply, Msg, Ack
<1>3. CASE MgrStart
  <2>1. c \in Collector
    BY <1>3 DEF MgrStart
  <2>2. QueueType'
    BY <1>2, <1>3, <2>1, Answered DEF MgrStart
  <2> QED
    BY <1>3, <2>1, <2>2 DEF MgrStart, LedgerType, SessionType, MgrType
<1>8. CASE MgrNobody
  <2>1. QueueType'
    BY <1>8, HeadTailProperties DEF MgrNobody, Serves, QueueType
  <2> QED
    BY <1>8, <2>1 DEF MgrNobody, LedgerType, SessionType, MgrType
<1>4. CASE MgrReady
  <2>1. QueueType'
    BY <1>1, <1>2, <1>4, Answered DEF MgrReady
  <2> QED
    BY <1>4, <2>1 DEF MgrReady, LedgerType, SessionType, MgrType
<1>5. CASE MgrBusy
  <2>1. QueueType'
    BY <1>1, <1>2, <1>5, Answered DEF MgrBusy
  <2> QED
    BY <1>5, <2>1 DEF MgrBusy, LedgerType, SessionType, MgrType
<1>6. CASE MgrRefuse
  <2>1. Reply("refused", c) \in Msg
    BY <1>1, <1>6 DEF MgrRefuse, Reply, Msg, Ack
  <2>2. QueueType'
    BY <1>6, <2>1, Answered DEF MgrRefuse
  <2> QED
    BY <1>6, <2>2 DEF MgrRefuse, LedgerType, SessionType, MgrType
<1>7. CASE MgrFetch
  <2> DEFINE n == Head(toMgr).no
             b == IF n = lastNo[c] \/ pos[c] = size[c] THEN pos[c] ELSE pos[c] + 1
  <2>1. c \in Collector /\ n \in 1 .. MaxFrame
    BY <1>7, Asked DEF MgrFetch, Req
  <2>2. b \in 1 .. size[c] /\ size[c] \in 1 .. MaxBlocks
    BY <2>1 DEF MgrType, LedgerType
  <2>3. PICK k \in BlockMeters :
          Answer(Block(IF b = size[c] THEN "last" ELSE "data", c, b, k))
    BY <1>7 DEF MgrFetch
  <2>7. Block(IF b = size[c] THEN "last" ELSE "data", c, b, k) \in Msg
    BY <2>1, <2>2 DEF Block, Msg, DataFrame
  <2>4. /\ Serves("fetch")
        /\ pos' = [pos EXCEPT ![c] = b]
        /\ lastNo' = [lastNo EXCEPT ![c] = n]
        /\ UNCHANGED <<ledgerVars, sessionVars, linkVars, job>>
    BY <1>7 DEF MgrFetch
  <2> HIDE DEF c, n, b
  <2>5. QueueType'
    BY <2>3, <2>4, <2>7, Answered
  <2>6. MgrType'
    BY <2>1, <2>2, <2>4 DEF MgrType, LedgerType
  <2> QED
    BY <2>4, <2>5, <2>6 DEF LedgerType, SessionType
<1> QED
  BY <1>3, <1>4, <1>5, <1>6, <1>7, <1>8 DEF Manager

\* TypeInv is an invariant of the protocol.
LEMMA Typed == Spec => []TypeInv
<1>1. TypeInv /\ [Next]_vars => TypeInv'
  <2> SUFFICES ASSUME TypeInv, [Next]_vars PROVE TypeInv'
    OBVIOUS
  <2>1. CASE ConnectionLost
    BY <2>1, EmptySeq DEF ConnectionLost, TypeInv, LedgerType, SessionType,
       QueueType, MgrType, ledgerVars, sessionVars, mgrVars
  <2>2. CASE Reconnect
    BY <2>2 DEF Reconnect, TypeInv, LedgerType, SessionType, QueueType,
       MgrType, ledgerVars, sessionVars, mgrVars
  <2>3. CASE UNCHANGED vars
    BY <2>3 DEF vars, TypeInv, LedgerType, SessionType, QueueType, MgrType,
       ledgerVars, sessionVars, linkVars, mgrVars
  <2> QED
    BY <2>1, <2>2, <2>3, MainThreadTyped, ReadChainTyped, ManagerTyped DEF Next
<1> QED
  BY <1>1, InitTyped, PTL DEF Spec

\* Every variable keeps its type; a block that is uploaded is one the collector
\* has, and a frame number stays a number of the protocol.
THEOREM CollectTyped == Spec => []TypeOK
<1>1. TypeInv => TypeOK
  <2> SUFFICES ASSUME TypeInv PROVE TypeOK
    OBVIOUS
  <2> USE ConstantsAssumption
      DEF TypeInv, LedgerType, SessionType, QueueType, MgrType
  <2> DEFINE AnyReq == [type : RequestType, co : Number, no : 0 .. MaxFrame]
             AnyMsg == [type : ReplyType, co : Number, blk : 0 .. MaxBlocks,
                        meters : BlockMeters \cup {0}]
  <2>1. Req \subseteq AnyReq
    BY DEF Req, RequestType, Number
  <2>2. Msg \subseteq AnyMsg
    BY DEF Msg, Ack, ReplyType, DataFrame, Number
  <2>3. toMgr \in Seq(AnyReq) /\ toAgent \in Seq(AnyMsg)
    <3> HIDE DEF AnyReq, AnyMsg
    <3> QED
      BY <2>1, <2>2, SeqMonotonic
  <2>4. job \in {NoJob} \cup [pc : {"sleep", "upload", "fetch", "uploadLast", "loop"},
                              co : Collector, blk : 0 .. MaxBlocks]
    OBVIOUS
  <2> QED
    BY <2>3, <2>4 DEF TypeOK
<1> QED
  BY <1>1, Typed, PTL

-----------------------------------------------------------------------------
\* setOpsId stores an operation that has just been begun, and of those stored
\* only the end of a collection changes the status.
LEMMA NextReports ==
  TypeInv /\ ReportsMatchCollector /\ [Next]_vars => ReportsMatchCollector'
<1> SUFFICES ASSUME TypeInv, ReportsMatchCollector, [Next]_vars
             PROVE  ReportsMatchCollector'
  OBVIOUS
<1> USE ConstantsAssumption
    DEF TypeInv, LedgerType, SessionType, ReportsMatchCollector
<1>1. ASSUME NEW o \in Op, NEW c \in Collector, NEW d \in Number, Collect(o, c, d)
      PROVE  ReportsMatchCollector'
  BY <1>1 DEF Collect, IsNew, RecordOp, Number
<1>2. ASSUME NEW o \in Op, NEW c \in Collector, CollectOffline(o, c)
      PROVE  ReportsMatchCollector'
  BY <1>2 DEF CollectOffline, IsNew, sessionVars
<1>3. ASSUME NEW o \in Op, NEW c \in Collector, CollectUnresolved(o, c)
      PROVE  ReportsMatchCollector'
  <2>1. /\ IsNew(o)
        /\ status' = [status EXCEPT ![o] = "EXECUTING"]
        /\ target' = [target EXCEPT ![o] = c]
        /\ UNCHANGED sessionVars
    BY <1>3, Zenon DEF CollectUnresolved
  <2> QED
    BY <2>1 DEF IsNew, sessionVars
<1>4. ASSUME NEW o \in Op, NEW c \in Collector, CollectUnresolvedDies(o, c)
      PROVE  ReportsMatchCollector'
  <2>1. opsid' = [x \in Number |-> NoOp]
    BY <1>4, Zenon DEF CollectUnresolvedDies
  <2> QED
    BY <2>1 DEF Number
<1>5. CASE Last
  <2> DEFINE c == Head(toAgent).co
  <2>1. /\ status' = [o \in Op |-> IF o = opsid[c] THEN "SUCCESSFUL"
                                                   ELSE status[o]]
        /\ UNCHANGED <<target, opsid>>
    BY <1>5 DEF Last
  <2> HIDE DEF c
  <2> QED
    BY <2>1 DEF Number
<1>6. CASE ReadError
  BY <1>6 DEF ReadError, ledgerVars, Number
<1>7. CASE UNCHANGED <<status, target, opsid>>
  BY <1>7
<1>8. ReadChain => Last \/ ReadError \/ UNCHANGED <<status, target, opsid>>
  BY DEF ReadChain, StartAck, Refused, Busy, PollAgain, Ready, PrintForever,
         Data, Upload,
         FetchMore, Misread, Discard, ledgerVars, sessionVars
<1>9. Manager \/ ConnectionLost \/ Reconnect \/ UNCHANGED vars =>
        UNCHANGED <<status, target, opsid>>
  BY DEF Manager, MgrStart, MgrNobody, MgrReady, MgrBusy, MgrFetch, MgrRefuse,
         ConnectionLost, Reconnect, vars, ledgerVars, sessionVars
<1> QED
  BY <1>1, <1>2, <1>3, <1>5, <1>6, <1>7, <1>8, <1>9, <1>4 DEF Next, MainThread

\* What arrives for a collector is reported for an operation that was begun on
\* it, however operations overlap: setOpsId and getOpsId.
THEOREM ReportsSafe == Spec => []ReportsMatchCollector
<1>1. Init => ReportsMatchCollector
  BY DEF Init, ReportsMatchCollector, Number
<1> QED
  BY <1>1, NextReports, Typed, PTL DEF Spec
=============================================================================
