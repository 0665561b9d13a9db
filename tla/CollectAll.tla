----------------------------- MODULE CollectAll -----------------------------
(***************************************************************************)
(* "collect all data" (群抄) over the session of one residential manager,  *)
(* in the ad-hoc-network agent: AgentMsgHandler starts an operation on the *)
(* main thread; the session's read chain, one handler at a time on some    *)
(* pool thread, answers each reply of the manager with the next request:   *)
(*                                                                         *)
(*     start -> startAck, poll -> busy ... ready, fetch(no) -> data ...    *)
(*                                                                         *)
(* A reply is interpreted by OnRead, or by OnReadSpec when _n_flag says    *)
(* that a long data frame is due; the wrong one cuts the byte stream in    *)
(* the wrong places.  A handler that sleeps, or uploads readings (one HTTP *)
(* call per meter) before it goes on, is a job with a step per part, and   *)
(* the main thread may act in between.                                     *)
(*                                                                         *)
(* The agent of the integrated machine follows the same protocol; its      *)
(* OnReadSpec clears _n_flag after the readings are handled, not before,   *)
(* and its operator() goes on without a session when a lookup fails.       *)
(***************************************************************************)
EXTENDS Naturals, Sequences

CONSTANTS
  Collector,    \* collectors (集中器) behind the manager
  Op,           \* operations the platform creates
  NoCollector,  \* of an operation not begun; the number 0 (co_did unknown)
  NoOp,         \* the empty operation id
  MaxFrame,     \* the largest frame number, 255 in the code
  MaxBlocks,    \* bound on the blocks of readings a collector holds
  Drops,        \* the connection may be lost
  BlockMeters,  \* the numbers of meters a block may have, a byte in the code
  Refusals,     \* a request may be refused
  LookupFails,  \* an HTTP lookup may fail or find nothing
  Overlap,      \* operations are created while another is in progress
  Integrated    \* the agent of the integrated machine

ASSUME ConstantsAssumption ==
  /\ NoCollector \notin Collector
  /\ NoOp \notin Op
  /\ MaxFrame \in Nat /\ MaxFrame >= 2
  /\ MaxBlocks \in Nat \ {0}
  /\ BlockMeters \subseteq 0 .. 255
  /\ {Drops, Refusals, LookupFails, Overlap, Integrated} \subseteq BOOLEAN

VARIABLES
  status, target, size, uploaded, incomplete,  \* as in GroupRead
  online,    \* manager_sid_to_ptr has the session
  up,        \* its connection
  opsid,     \* _codid_to_opsid
  frameNo,   \* _codid_to_framenum
  n_flag,    \* _n_flag
  framed,    \* the read chain is at the start of a frame
  job,       \* the rest of the handler the read chain is in
  toMgr,     \* requests on the connection
  toAgent,   \* replies on the connection
  pos,       \* collector: the last block it sent
  lastNo     \* collector: the frame number it sent it for

ledgerVars  == <<status, target, size, uploaded, incomplete>>
sessionVars == <<opsid, frameNo, n_flag, framed>>
linkVars    == <<online, up>>
mgrVars     == <<pos, lastNo>>
vars == <<ledgerVars, sessionVars, linkVars, job, toMgr, toAgent, mgrVars>>

-----------------------------------------------------------------------------
\* The numbers a request may be addressed to.
Number == Collector \cup {NoCollector}

NoJob == [pc |-> "none", co |-> NoCollector, blk |-> 0]
Job(pc, c, b) == [pc |-> pc, co |-> c, blk |-> b]

Request(type, c, n) == [type |-> type, co |-> c, no |-> n]
Reply(type, c)      == [type |-> type, co |-> c, blk |-> 0, meters |-> 0]
Block(type, c, b, k) == [type |-> type, co |-> c, blk |-> b, meters |-> k]

RequestType == {"start", "poll", "fetch"}
ReplyType   == {"startAck", "refused", "busy", "ready", "data", "last"}
DataFrame   == {"data", "last"}

TypeOK ==
  /\ status \in [Op -> {"PENDING", "EXECUTING", "SUCCESSFUL", "FAILED"}]
  /\ target \in [Op -> Number]
  /\ size \in [Collector -> 1 .. MaxBlocks]
  /\ uploaded \in [Op -> Seq(1 .. MaxBlocks)]
  /\ incomplete \subseteq Op
  /\ online \in BOOLEAN /\ up \in BOOLEAN
  /\ opsid \in [Number -> Op \cup {NoOp}]
  /\ frameNo \in [Number -> 0 .. MaxFrame]
  /\ n_flag \in {0, 1}
  /\ framed \in BOOLEAN
  /\ job \in {NoJob} \cup [pc : {"sleep", "upload", "fetch", "uploadLast", "loop"},
                           co : Collector, blk : 0 .. MaxBlocks]
  /\ toMgr \in Seq([type : RequestType, co : Number, no : 0 .. MaxFrame])
  /\ toAgent \in Seq([type : ReplyType, co : Number, blk : 0 .. MaxBlocks,
                      meters : BlockMeters \cup {0}])
  /\ pos \in [Collector -> 0 .. MaxBlocks]
  /\ lastNo \in [Collector -> 0 .. MaxFrame]

Init ==
  /\ status = [o \in Op |-> "PENDING"]
  /\ target = [o \in Op |-> NoCollector]
  /\ size \in [Collector -> 1 .. MaxBlocks]
  /\ uploaded = [o \in Op |-> <<>>]
  /\ incomplete = {}
  /\ online = TRUE /\ up = TRUE
  /\ opsid = [c \in Number |-> NoOp]
  /\ frameNo = [c \in Number |-> 0]
  /\ n_flag = 0
  /\ framed = TRUE
  /\ job = NoJob
  /\ toMgr = <<>> /\ toAgent = <<>>
  /\ pos = [c \in Collector |-> 0]
  /\ lastNo = [c \in Collector |-> 0]

\* sendToClient: what is written to a broken connection is lost.
Send(m) == toMgr' = IF up THEN Append(toMgr, m) ELSE toMgr

\* Mutants: 255 is passed before the number wraps; the number stays at 255.
NextFrameNo_LateWrap(n) == IF n > MaxFrame THEN 1 ELSE n + 1
NextFrameNo_NoWrap(n) == IF n >= MaxFrame THEN MaxFrame ELSE n + 1

\* allFrameNum
NextFrameNo(n) == IF n >= MaxFrame THEN 1 ELSE n + 1

-----------------------------------------------------------------------------
(* The main thread: operator() for "collect all data".                     *)

\* No request, reply or handler of the session is under way.
Quiet == toMgr = <<>> /\ toAgent = <<>> /\ job = NoJob

\* The platform delivers an operation once.
IsNew(o) == status[o] = "PENDING"

\* Mutant: one _ops_id for the whole session.
RecordOp_OnePerSession(c, o) == opsid' = [x \in Number |-> o]

\* setOpsId
RecordOp(c, o) == opsid' = [opsid EXCEPT ![c] = o]

\* getCoDid finds the manager, and d as the collector's number: 0, which co_did
\* is at first, when "136" fails.
Collect(o, c, d) ==
  /\ IsNew(o)
  /\ online
  /\ Overlap \/ Quiet
  /\ d = c \/ (LookupFails /\ d = NoCollector)
  /\ status' = [status EXCEPT ![o] = "EXECUTING"]
  /\ target' = [target EXCEPT ![o] = c]
  /\ RecordOp(d, o)
  /\ frameNo' = [frameNo EXCEPT ![d] = 0]
  /\ Send(Request("start", d, 0))
  /\ UNCHANGED <<size, uploaded, incomplete, n_flag, framed, linkVars, job,
                 toAgent, mgrVars>>

\* "不在线": the manager has no session.
CollectOffline(o, c) ==
  /\ IsNew(o)
  /\ ~online
  /\ status' = [status EXCEPT ![o] = "FAILED"]
  /\ target' = [target EXCEPT ![o] = c]
  /\ UNCHANGED <<size, uploaded, incomplete, sessionVars, linkVars, job, toMgr,
                 toAgent, mgrVars>>

\* getCoDid fails ("135") after EXECUTING was reported: nothing else happens.
CollectUnresolved(o, c) ==
  /\ LookupFails /\ ~Integrated
  /\ IsNew(o)
  /\ status' = [status EXCEPT ![o] = "EXECUTING"]
  /\ target' = [target EXCEPT ![o] = c]
  /\ UNCHANGED <<size, uploaded, incomplete, sessionVars, linkVars, job, toMgr,
                 toAgent, mgrVars>>

\* In the integrated machine cs->sendToClient is then called with cs NULL: the
\* process dies, with its sessions, and is started again.
CollectUnresolvedDies(o, c) ==
  /\ LookupFails /\ Integrated
  /\ IsNew(o)
  /\ status' = [status EXCEPT ![o] = "EXECUTING"]
  /\ target' = [target EXCEPT ![o] = c]
  /\ online' = FALSE /\ up' = FALSE
  /\ opsid' = [x \in Number |-> NoOp]
  /\ frameNo' = [x \in Number |-> 0]
  /\ n_flag' = 0
  /\ framed' = TRUE
  /\ job' = NoJob
  /\ toMgr' = <<>> /\ toAgent' = <<>>
  /\ UNCHANGED <<size, uploaded, incomplete, mgrVars>>

-----------------------------------------------------------------------------
(* The read chain: OnRead, OnReadSpec and what they call.                  *)

Reading == up /\ framed /\ job = NoJob /\ toAgent # <<>>

\* The next reply is of the given type, and is read as a short frame
\* (flag = 0) or as a long one (flag = 1).
Takes(types, flag) ==
  /\ Reading
  /\ Head(toAgent).type \in types
  /\ n_flag = flag
  /\ toAgent' = Tail(toAgent)

\* sendPollAck, 0x30: the collector has begun, its state is polled.
StartAck ==
  /\ Takes({"startAck"}, 0)
  /\ Send(Request("poll", Head(toAgent).co, 0))
  /\ UNCHANGED <<ledgerVars, sessionVars, linkVars, job, mgrVars>>

\* A refusal: sendPollAck writes zero bytes, SendErrorAck reports an error for
\* the empty operation id.
Refused ==
  /\ Takes({"refused"}, 0)
  /\ UNCHANGED <<ledgerVars, sessionVars, linkVars, job, toMgr, mgrVars>>

\* sendPollAck, 0x36 and busy: the thread sleeps for 15 s before it polls again.
Busy ==
  /\ Takes({"busy"}, 0)
  /\ job' = Job("sleep", Head(toAgent).co, 0)
  /\ UNCHANGED <<ledgerVars, sessionVars, linkVars, toMgr, mgrVars>>

\* Mutant: the thread sleeps and does not poll.
PollAgain_Forgotten ==
  /\ job.pc = "sleep"
  /\ job' = NoJob
  /\ UNCHANGED <<ledgerVars, sessionVars, linkVars, toMgr, toAgent, mgrVars>>

PollAgain ==
  /\ job.pc = "sleep"
  /\ job' = NoJob
  /\ Send(Request("poll", job.co, 0))
  /\ UNCHANGED <<ledgerVars, sessionVars, linkVars, toAgent, mgrVars>>

\* getAllBuf and sendToClient: the next block is requested; _n_flag is left as
\* given.
FetchNext(c, flag) ==
  LET n == NextFrameNo(frameNo[c]) IN
  /\ frameNo' = [frameNo EXCEPT ![c] = n]
  /\ n_flag' = flag
  /\ Send(Request("fetch", c, n))

\* Mutant: the operation is reported when the collector is ready, as in the
\* lines that sendPollAck has commented out.
Ready_Reports ==
  /\ Takes({"ready"}, 0)
  /\ FetchNext(Head(toAgent).co, 1)
  /\ status' = [o \in Op |-> IF o = opsid[Head(toAgent).co] THEN "SUCCESSFUL"
                                                            ELSE status[o]]
  /\ UNCHANGED <<target, size, uploaded, incomplete, opsid, framed, linkVars, job,
                 mgrVars>>

\* sendPollAck, 0x36 and ready: the first block is requested.
Ready ==
  /\ Takes({"ready"}, 0)
  /\ FetchNext(Head(toAgent).co, 1)
  /\ UNCHANGED <<ledgerVars, opsid, framed, linkVars, job, mgrVars>>

\* OnReadSpec with a whole data frame: _n_flag before UpdateAllInfo, and after.
FlagBefore == IF Integrated THEN 1 ELSE 0
FlagAfter(flag) == IF Integrated THEN 0 ELSE flag

\* sendAllAck first prints the frame, with a u8 counter up to 19 bytes per meter.
PrintEnds(k) == k * 19 <= 255

\* With 14 meters or more the counter never gets there: the handler prints for
\* ever, and its thread and its session are lost.
PrintForever ==
  /\ Takes(DataFrame, 1)
  /\ ~PrintEnds(Head(toAgent).meters)
  /\ n_flag' = FlagBefore
  /\ job' = Job("loop", Head(toAgent).co, Head(toAgent).blk)
  /\ UNCHANGED <<ledgerVars, opsid, frameNo, framed, linkVars, toMgr, mgrVars>>

\* sendAllAck, 0x31, goes on with the readings ...
Data ==
  /\ Takes({"data"}, 1)
  /\ PrintEnds(Head(toAgent).meters)
  /\ n_flag' = FlagBefore
  /\ job' = Job("upload", Head(toAgent).co, Head(toAgent).blk)
  /\ UNCHANGED <<ledgerVars, opsid, frameNo, framed, linkVars, toMgr, mgrVars>>

\* Mutant: the end mark's own readings are forgotten.
Last_NoUpload ==
  LET c == Head(toAgent).co IN
  /\ Takes({"last"}, 1)
  /\ PrintEnds(Head(toAgent).meters)
  /\ n_flag' = FlagAfter(FlagBefore)
  /\ frameNo' = [frameNo EXCEPT ![c] = 0]
  /\ status' = [o \in Op |-> IF o = opsid[c] THEN "SUCCESSFUL" ELSE status[o]]
  /\ UNCHANGED <<target, size, uploaded, incomplete, opsid, framed, linkVars, job,
                 toMgr, mgrVars>>

\* ... or, 0x6F, resets the frame number and reports the operation first.
Last ==
  LET c == Head(toAgent).co IN
  /\ Takes({"last"}, 1)
  /\ PrintEnds(Head(toAgent).meters)
  /\ n_flag' = FlagBefore
  /\ frameNo' = [frameNo EXCEPT ![c] = 0]
  /\ status' = [o \in Op |-> IF o = opsid[c] THEN "SUCCESSFUL" ELSE status[o]]
  /\ job' = Job("uploadLast", c, Head(toAgent).blk)
  /\ UNCHANGED <<target, size, uploaded, incomplete, opsid, framed, linkVars,
                 toMgr, mgrVars>>

\* sendMeData: the readings of the block are sent to the platform, which is
\* the end of the handler after the last block.  One whose meter the lookup does
\* not find (me_sid is empty) is thrown away with a notice in the log.
Upload ==
  /\ job.pc \in {"upload", "uploadLast"}
  /\ uploaded' = [o \in Op |-> IF o = opsid[job.co]
                                 THEN Append(uploaded[o], job.blk)
                                 ELSE uploaded[o]]
  /\ \/ UNCHANGED incomplete
     \/ LookupFails /\ incomplete' = incomplete \cup ({opsid[job.co]} \cap Op)
  /\ job' = IF job.pc = "upload" THEN [job EXCEPT !.pc = "fetch"] ELSE NoJob
  /\ n_flag' = IF job.pc = "upload" THEN n_flag ELSE FlagAfter(n_flag)
  /\ UNCHANGED <<status, target, size, opsid, frameNo, framed, linkVars, toMgr,
                 toAgent, mgrVars>>

\* Mutant: setFlag is called for the first block only.
FetchMore_NoSetFlag ==
  /\ job.pc = "fetch"
  /\ job' = NoJob
  /\ FetchNext(job.co, n_flag)
  /\ UNCHANGED <<ledgerVars, opsid, framed, linkVars, toAgent, mgrVars>>

\* sendAllAck calls setFlag and requests the next block.
FetchMore ==
  /\ job.pc = "fetch"
  /\ job' = NoJob
  /\ FetchNext(job.co, FlagAfter(1))
  /\ UNCHANGED <<ledgerVars, opsid, framed, linkVars, toAgent, mgrVars>>

\* A long frame read as a short one, or a short one as a long one.  The latter
\* is so for the refusal of a fetch: OnReadSpec takes its length byte for a
\* number of meters, and what follows for their readings.
Misread ==
  /\ \/ Takes(DataFrame, 0)
     \/ Takes(ReplyType \ DataFrame, 1)
  /\ framed' = FALSE
  /\ n_flag' = 0
  /\ UNCHANGED <<ledgerVars, opsid, frameNo, linkVars, job, toMgr, mgrVars>>

\* The bytes of a reply are discarded in a search for a header, and the chain
\* may then be at the start of a frame again.
Discard ==
  /\ up /\ ~framed /\ toAgent # <<>>
  /\ toAgent' = Tail(toAgent)
  /\ framed' \in BOOLEAN
  /\ UNCHANGED <<ledgerVars, opsid, frameNo, n_flag, linkVars, job, toMgr,
                 mgrVars>>

\* The read fails: clrSession removes the session, and its object goes.
ReadError ==
  /\ online /\ ~up /\ job = NoJob
  /\ online' = FALSE
  /\ opsid' = [c \in Number |-> NoOp]
  /\ frameNo' = [c \in Number |-> 0]
  /\ n_flag' = 0
  /\ framed' = TRUE
  /\ UNCHANGED <<ledgerVars, up, job, toMgr, toAgent, mgrVars>>

ReadChain ==
  \/ StartAck \/ Refused \/ Busy \/ PollAgain \/ Ready
  \/ PrintForever \/ Data \/ Last \/ Upload \/ FetchMore
  \/ Misread \/ Discard \/ ReadError

-----------------------------------------------------------------------------
(* The manager and its collectors, as the agent uses them: a request is    *)
(* answered in turn; a block is sent again for the frame number it was     *)
(* last sent for, and the next one for another.                            *)

Serves(type) == up /\ toMgr # <<>> /\ Head(toMgr).type = type

Answer(m) == toMgr' = Tail(toMgr) /\ toAgent' = Append(toAgent, m)

MgrStart ==
  LET c == Head(toMgr).co IN
  /\ Serves("start")
  /\ c \in Collector
  /\ Answer(Reply("startAck", c))
  /\ pos' = [pos EXCEPT ![c] = 0]
  /\ lastNo' = [lastNo EXCEPT ![c] = 0]
  /\ UNCHANGED <<ledgerVars, sessionVars, linkVars, job>>

\* Nobody has the number 0.
MgrNobody ==
  /\ Serves("start")
  /\ Head(toMgr).co = NoCollector
  /\ toMgr' = Tail(toMgr)
  /\ UNCHANGED <<ledgerVars, sessionVars, linkVars, job, toAgent, mgrVars>>

MgrReady ==
  /\ Serves("poll")
  /\ Answer(Reply("ready", Head(toMgr).co))
  /\ UNCHANGED <<ledgerVars, sessionVars, linkVars, job, mgrVars>>

MgrBusy ==
  /\ Serves("poll")
  /\ Answer(Reply("busy", Head(toMgr).co))
  /\ UNCHANGED <<ledgerVars, sessionVars, linkVars, job, mgrVars>>

MgrFetch ==
  LET c == Head(toMgr).co
      n == Head(toMgr).no
      b == IF n = lastNo[c] \/ pos[c] = size[c] THEN pos[c] ELSE pos[c] + 1
  IN
  /\ Serves("fetch")
  /\ \E k \in BlockMeters :
       Answer(Block(IF b = size[c] THEN "last" ELSE "data", c, b, k))
  /\ pos' = [pos EXCEPT ![c] = b]
  /\ lastNo' = [lastNo EXCEPT ![c] = n]
  /\ UNCHANGED <<ledgerVars, sessionVars, linkVars, job>>

MgrRefuse ==
  /\ Refusals
  /\ \E type \in RequestType : Serves(type)
  /\ Answer(Reply("refused", Head(toMgr).co))
  /\ UNCHANGED <<ledgerVars, sessionVars, linkVars, job, mgrVars>>

Manager ==
  MgrStart \/ MgrNobody \/ MgrReady \/ MgrBusy \/ MgrFetch \/ MgrRefuse

ConnectionLost ==
  /\ Drops
  /\ up
  /\ up' = FALSE
  /\ toMgr' = <<>> /\ toAgent' = <<>>
  /\ UNCHANGED <<ledgerVars, sessionVars, online, job, mgrVars>>

\* The manager connects and registers again, with a new session object.
Reconnect ==
  /\ ~online
  /\ online' = TRUE /\ up' = TRUE
  /\ UNCHANGED <<ledgerVars, sessionVars, job, toMgr, toAgent, mgrVars>>

-----------------------------------------------------------------------------
MainThread ==
  \E o \in Op, c \in Collector :
    \/ \E d \in Number : Collect(o, c, d)
    \/ CollectOffline(o, c)
    \/ CollectUnresolved(o, c) \/ CollectUnresolvedDies(o, c)

Next == MainThread \/ ReadChain \/ Manager \/ ConnectionLost \/ Reconnect

Spec == Init /\ [][Next]_vars

(* The pool runs the read chain's next handler once its bytes are there;   *)
(* the manager answers every request and is not busy for ever.             *)
Fairness ==
  /\ WF_vars(ReadChain)
  /\ WF_vars(Manager)
  /\ SF_vars(MgrReady)

FairSpec == Spec /\ Fairness

-----------------------------------------------------------------------------
(* Properties.                                                             *)

\* Operations on the session end as GroupRead promises: a block is uploaded
\* once and in order, and an operation is reported SUCCESSFUL only when its last
\* block has come, whatever connection is lost, whatever request is refused and
\* whatever lookup fails in between.  The reading of a meter that is not found
\* is missing from a SUCCESSFUL operation, without notice to the platform.
Promise == INSTANCE GroupRead

GroupReadHolds == Promise!Spec

\* As long as one operation is in progress at a time, and nothing else is asked
\* of the manager meanwhile, a long frame is never read as a short one nor a short
\* one as a long one: _n_flag is set exactly when the next reply is a data frame.
\* A refusal is excepted: that of a fetch comes where a block is due, finds
\* _n_flag = 1, and is misread with what follows it.  After that, too, the flag
\* is right for the next operation.
NeverMisread ==
  Reading /\ Head(toAgent).type # "refused" =>
    (n_flag = 1) = (Head(toAgent).type \in DataFrame)

\* The number a block is requested with differs from that of the block before,
\* also after 255, when an operation is repeated, and after a new connection:
\* the collector never takes the request for a repetition.
FetchIsFresh ==
  Serves("fetch") =>
    /\ Head(toMgr).no \in 1 .. MaxFrame
    /\ Head(toMgr).no # lastNo[Head(toMgr).co]

\* However operations overlap: what arrives for a collector is reported for an
\* operation that was begun on that collector, never for another one's.
ReportsMatchCollector ==
  \A c \in Collector : opsid[c] # NoOp =>
    /\ target[opsid[c]] = c
    /\ status[opsid[c]] \in {"EXECUTING", "SUCCESSFUL"}

\* An operation whose start is on its way to its collector ends SUCCESSFUL with
\* every block of that collector given to sendMeData, unless the connection is
\* lost, a request refused, or a block has more meters than sendAllAck can
\* print.
CollectionEnds ==
  \A o \in Op :
    (/\ framed /\ toMgr # <<>>
     /\ Head(toMgr).type = "start" /\ Head(toMgr).co \in Collector
     /\ opsid[Head(toMgr).co] = o)
    ~> \/ status[o] = "SUCCESSFUL" /\ Len(uploaded[o]) = size[target[o]]
       \/ ~up
       \/ toAgent # <<>> /\ Head(toAgent).type = "refused"
       \/ job.pc = "loop"

\* An operation is reported SUCCESSFUL before the block that came with the end
\* mark is uploaded: while one is in progress at a time, that block is uploaded
\* nevertheless, also when the connection is lost meanwhile.
ReportedIsUploaded ==
  \A o \in Op :
    status[o] = "SUCCESSFUL" ~>
      status[o] = "SUCCESSFUL" /\ Len(uploaded[o]) = size[target[o]]
=============================================================================
