------------------------ MODULE CollectAllSerial_proof ------------------------
(***************************************************************************)
(* Theorems of CollectAll while operations do not overlap: in either agent *)
(* no fetch is a repetition and the protocol implements GroupRead, and in  *)
(* the agent of the ad-hoc network _n_flag misleads only at a refusal.     *)
(*                                                                         *)
(* The argument is that of a token.  At most one thing of the session is   *)
(* under way, a request, a reply or a handler's job, and what it is says   *)
(* where the operation, _n_flag, the frame numbers and the collector are.  *)
(* The token is lost with a reply that is misread, which is the refusal of *)
(* a fetch and in the integrated machine a block, with a start that nobody *)
(* answers, and with a connection, and nothing else goes wrong.            *)
(***************************************************************************)
EXTENDS CollectAll_proof

Serial == Overlap = FALSE
AdHoc  == Integrated = FALSE

\* n blocks of c are uploaded for its operation, which is not reported yet.
Progress(c, n) ==
  /\ opsid[c] \in Op
  /\ status[opsid[c]] = "EXECUTING"
  /\ Len(uploaded[opsid[c]]) = n

\* c has begun, and nothing was fetched.
Begun(c) == frameNo[c] = 0 /\ lastNo[c] = 0 /\ pos[c] = 0 /\ Progress(c, 0)

\* The collector sent the block that was asked for last.
InStep(c) == lastNo[c] = frameNo[c] /\ pos[c] \in 1 .. size[c]

RequestOK(m) ==
  \/ m.type = "start" /\ n_flag = 0 /\ frameNo[m.co] = 0 /\ Progress(m.co, 0)
  \/ m.type = "poll" /\ n_flag = 0 /\ Begun(m.co)
  \/ /\ m.type = "fetch" /\ (AdHoc => n_flag = 1)
     /\ m.no = frameNo[m.co] /\ m.no # lastNo[m.co]
     /\ pos[m.co] < size[m.co] /\ Progress(m.co, pos[m.co])

ReplyOK(m) ==
  \/ m.type \in {"startAck", "busy", "ready"} /\ n_flag = 0 /\ Begun(m.co)
  \/ m.type = "refused"
  \/ /\ m.type \in DataFrame /\ (AdHoc => n_flag = 1)
     /\ InStep(m.co) /\ m.blk = pos[m.co] /\ Progress(m.co, pos[m.co] - 1)
     /\ (m.type = "last") = (pos[m.co] = size[m.co])

JobOK ==
  /\ framed
  /\ AdHoc \/ job.pc = "sleep" => n_flag = 0
  /\ \/ job.pc = "loop"
     \/ job.pc = "sleep" /\ Begun(job.co)
     \/ /\ job.pc = "upload" /\ InStep(job.co) /\ pos[job.co] < size[job.co]
        /\ job.blk = pos[job.co] /\ Progress(job.co, pos[job.co] - 1)
     \/ /\ job.pc = "fetch" /\ InStep(job.co) /\ pos[job.co] < size[job.co]
        /\ Progress(job.co, pos[job.co])
     \/ /\ job.pc = "uploadLast" /\ job.blk = size[job.co]
        /\ opsid[job.co] \in Op
        /\ status[opsid[job.co]] = "SUCCESSFUL"
        /\ Len(uploaded[opsid[job.co]]) + 1 = size[job.co]

\* Where the token is: nowhere, in a request, in a reply, in a handler.
AtRest   == Quiet /\ (up => n_flag = 0)
Asking   == /\ \E m \in Req : toMgr = <<m>> /\ RequestOK(m)
            /\ toAgent = <<>> /\ job = NoJob /\ up
Replying == /\ \E m \in Msg : toAgent = <<m>> /\ ReplyOK(m)
            /\ toMgr = <<>> /\ job = NoJob /\ up
Working  == toMgr = <<>> /\ toAgent = <<>> /\ job # NoJob /\ JobOK

Token == AtRest \/ Asking \/ Replying \/ Working

SerialInv ==
  /\ Token
  /\ ~framed => n_flag = 0
  /\ ~online => ~up /\ n_flag = 0 /\ job = NoJob
  /\ \A o \in Op : status[o] = "PENDING" => uploaded[o] = <<>>

\* What every step of the argument starts from.
StepInv == TypeInv /\ ReportsMatchCollector /\ SerialInv

-----------------------------------------------------------------------------
LEMMA Single ==
  ASSUME NEW m
  PROVE  /\ Head(<<m>>) = m /\ Tail(<<m>>) = <<>>
         /\ Append(<<>>, m) = <<m>> /\ <<m>> # <<>>
  OBVIOUS

\* A read handler holds the token: nothing else is under way.
LEMMA HoldsReply ==
  ASSUME StepInv, NEW types, NEW flag, Takes(types, flag)
  PROVE  /\ Head(toAgent) \in Msg /\ ReplyOK(Head(toAgent))
         /\ Head(toAgent).type \in types /\ n_flag = flag
         /\ toAgent' = <<>> /\ toMgr = <<>> /\ job = NoJob /\ up
<1>1. toAgent # <<>> /\ Head(toAgent).type \in types /\ n_flag = flag
      /\ toAgent' = Tail(toAgent)
  BY DEF Takes, Reading
<1>2. Replying
  BY <1>1 DEF StepInv, SerialInv, Token, AtRest, Quiet, Asking, Working
<1>3. PICK m \in Msg : toAgent = <<m>> /\ ReplyOK(m)
  BY <1>2 DEF Replying
<1>4. Head(toAgent) = m /\ Tail(toAgent) = <<>>
  BY <1>3, Single
<1> QED
  BY <1>1, <1>2, <1>3, <1>4 DEF Replying

\* So does the manager when it answers a request ...
LEMMA HoldsRequest ==
  ASSUME StepInv, NEW type, Serves(type)
  PROVE  /\ Head(toMgr) \in Req /\ RequestOK(Head(toMgr))
         /\ Head(toMgr).type = type
         /\ Tail(toMgr) = <<>> /\ toAgent = <<>> /\ job = NoJob /\ up
<1>1. toMgr # <<>> /\ Head(toMgr).type = type
  BY DEF Serves
<1>2. Asking
  BY <1>1 DEF StepInv, SerialInv, Token, AtRest, Quiet, Replying, Working
<1>3. PICK m \in Req : toMgr = <<m>> /\ RequestOK(m)
  BY <1>2 DEF Asking
<1>4. Head(toMgr) = m /\ Tail(toMgr) = <<>>
  BY <1>3, Single
<1> QED
  BY <1>1, <1>2, <1>3, <1>4 DEF Asking

\* ... and a handler that has a job.
LEMMA HoldsJob ==
  ASSUME StepInv, job # NoJob
  PROVE  /\ toMgr = <<>> /\ toAgent = <<>> /\ JobOK
         /\ job.co \in Collector /\ online
  BY DEF StepInv, SerialInv, Token, AtRest, Quiet, Asking, Replying, Working,
         TypeInv, SessionType

\* The token is passed to the manager; on a broken connection it is lost.
LEMMA PassesRequest ==
  ASSUME toMgr = <<>>, toAgent' = <<>>, job' = NoJob, up' = up, up \in BOOLEAN,
         NEW m \in Req, Send(m), up => RequestOK(m)'
  PROVE  Token'
<1>1. CASE up
  <2>1. toMgr' = <<m>>
    BY <1>1, Single DEF Send
  <2> QED
    BY <1>1, <2>1 DEF Token, Asking
<1>2. CASE ~up
  BY <1>2 DEF Send, Token, AtRest, Quiet
<1> QED
  BY <1>1, <1>2

\* The token is passed to the agent.
LEMMA PassesReply ==
  ASSUME Tail(toMgr) = <<>>, toAgent = <<>>, job' = NoJob, up',
         NEW m \in Msg, Answer(m), ReplyOK(m)'
  PROVE  Token'
<1>1. toAgent' = <<m>> /\ toMgr' = <<>>
  BY Single DEF Answer
<1> QED
  BY <1>1 DEF Token, Replying

-----------------------------------------------------------------------------
LEMMA InitSerial == Init => SerialInv
  BY DEF Init, SerialInv, Token, AtRest, Quiet

\* An operation that begins finds the session at rest; one that is refused
\* leaves it alone.
LEMMA MainThreadSerial ==
  ASSUME Serial, StepInv, MainThread PROVE SerialInv'
<1> USE DEF StepInv, TypeInv, LedgerType, SessionType
<1>1. ASSUME NEW o \in Op, NEW c \in Collector, NEW d \in Number, Collect(o, c, d)
      PROVE  SerialInv'
  <2> DEFINE m == Request("start", d, 0)
  <2>1. Quiet /\ m \in Req
    BY <1>1 DEF Collect, Serial, Request, Req
  <2>2. up => n_flag = 0
    BY <2>1 DEF SerialInv, Token, AtRest, Asking, Replying, Working, Quiet
  <2>3. uploaded[o] = <<>>
    BY <1>1 DEF Collect, IsNew, SerialInv
  <2>4. Progress(d, 0)'
    BY <1>1, <2>3 DEF Collect, RecordOp, Progress
  <2>5. up => RequestOK(m)'
    BY <1>1, <2>2, <2>4 DEF Collect, RequestOK, Request
  <2>6. Token'
    <3>1. Send(m) /\ UNCHANGED <<linkVars, job, toAgent>>
      BY <1>1 DEF Collect
    <3> HIDE DEF m
    <3> QED
      BY <2>1, <2>5, <3>1, PassesRequest DEF Quiet, linkVars
  <2> QED
    BY <1>1, <2>6 DEF Collect, SerialInv, linkVars
<1>2. ASSUME NEW o \in Op, NEW c \in Collector,
             CollectOffline(o, c) \/ CollectUnresolved(o, c)
      PROVE  SerialInv'
  <2>1. /\ status[o] = "PENDING"
        /\ status' \in {[status EXCEPT ![o] = s] : s \in {"EXECUTING", "FAILED"}}
        /\ UNCHANGED <<size, uploaded, sessionVars, linkVars, job, toMgr,
                       toAgent, mgrVars>>
    BY <1>2 DEF CollectOffline, CollectUnresolved, IsNew
  <2>2. ASSUME NEW p \in Op, status[p] # "PENDING" PROVE status'[p] = status[p]
    BY <2>1, <2>2
  <2>3. ASSUME NEW p \in Op, status'[p] = "PENDING" PROVE status[p] = "PENDING"
    BY <2>1, <2>3
  <2> USE <2>1 DEF sessionVars, linkVars, mgrVars
  <2>4. ASSUME NEW d, NEW n, Progress(d, n) PROVE Progress(d, n)'
    BY <2>2, <2>4 DEF Progress
  <2>5. ASSUME NEW d, Begun(d) PROVE Begun(d)'
    BY <2>4, <2>5 DEF Begun
  <2>6. ASSUME NEW m \in Req, RequestOK(m) PROVE RequestOK(m)'
    BY <2>4, <2>5, <2>6 DEF RequestOK
  <2>7. ASSUME NEW m \in Msg, ReplyOK(m) PROVE ReplyOK(m)'
    BY <2>4, <2>5, <2>7 DEF ReplyOK, InStep
  <2>8. ASSUME JobOK PROVE JobOK'
    BY <2>2, <2>4, <2>5, <2>8 DEF JobOK, InStep
  <2>9. Token'
    BY <2>6, <2>7, <2>8
    DEF SerialInv, Token, AtRest, Quiet, Asking, Replying, Working
  <2> QED
    BY <2>3, <2>9 DEF SerialInv
<1>3. ASSUME NEW o \in Op, NEW c \in Collector, CollectUnresolvedDies(o, c)
      PROVE  SerialInv'
  <2>1. Token'
    BY <1>3 DEF CollectUnresolvedDies, Token, AtRest, Quiet
  <2>2. ASSUME NEW p \in Op, status'[p] = "PENDING" PROVE uploaded'[p] = <<>>
    BY <1>3, <2>2 DEF CollectUnresolvedDies, SerialInv
  <2> QED
    BY <1>3, <2>1, <2>2 DEF CollectUnresolvedDies, SerialInv
<1> QED
  BY <1>1, <1>2, <1>3 DEF MainThread

\* A handler that takes a reply passes the token on or keeps it in its job.
LEMMA ReadersSerial ==
  ASSUME Serial, StepInv,
         StartAck \/ Refused \/ Busy \/ Ready \/ PrintForever \/ Data \/ Last
  PROVE  SerialInv'
<1> USE ConstantsAssumption
    DEF StepInv, TypeInv, LedgerType, SessionType, MgrType,
        ledgerVars, sessionVars, linkVars, mgrVars
<1>1. CASE StartAck
  <2>1. PICK m \in Msg :
          /\ m = Head(toAgent) /\ ReplyOK(m) /\ m.type = "startAck"
          /\ toAgent' = <<>> /\ toMgr = <<>> /\ job = NoJob /\ up
    BY <1>1, HoldsReply DEF StartAck
  <2> DEFINE c == m.co
  <2>2. Begun(c) /\ n_flag = 0 /\ c \in Collector
    BY <2>1 DEF ReplyOK, Msg, Ack, DataFrame
  <2>3. Request("poll", c, 0) \in Req /\ RequestOK(Request("poll", c, 0))'
    BY <1>1, <2>2 DEF StartAck, Request, Req, RequestOK, Begun, Progress
  <2>4. Token'
    BY <1>1, <2>1, <2>3, PassesRequest, Zenon DEF StartAck, SessionType
  <2> QED
    BY <1>1, <2>4 DEF StartAck, SerialInv
<1>2. CASE Refused
  <2>1. PICK m \in Msg :
          /\ m = Head(toAgent) /\ ReplyOK(m) /\ m.type = "refused"
          /\ toAgent' = <<>> /\ toMgr = <<>> /\ job = NoJob /\ n_flag = 0
    BY <1>2, HoldsReply DEF Refused
  <2>2. Token'
    BY <1>2, <2>1 DEF Refused, Token, AtRest, Quiet
  <2> QED
    BY <1>2, <2>2 DEF Refused, SerialInv
<1>3. CASE Busy
  <2>1. PICK m \in Msg :
          /\ m = Head(toAgent) /\ ReplyOK(m) /\ m.type = "busy"
          /\ toAgent' = <<>> /\ toMgr = <<>> /\ up /\ framed
    BY <1>3, HoldsReply DEF Busy, Takes, Reading
  <2> DEFINE c == m.co
  <2>2. Begun(c) /\ n_flag = 0
    BY <2>1 DEF ReplyOK, DataFrame
  <2>3. job' # NoJob /\ JobOK'
    BY <1>3, <2>1, <2>2 DEF Busy, Job, NoJob, JobOK, Begun, Progress
  <2>4. Token'
    BY <1>3, <2>1, <2>3 DEF Busy, Token, Working
  <2> QED
    BY <1>3, <2>1, <2>4 DEF Busy, SerialInv
<1>4. CASE Ready
  <2>1. PICK m \in Msg :
          /\ m = Head(toAgent) /\ ReplyOK(m) /\ m.type = "ready"
          /\ toAgent' = <<>> /\ toMgr = <<>> /\ job = NoJob /\ up
    BY <1>4, HoldsReply DEF Ready
  <2> DEFINE c == m.co
  <2>2. Begun(c) /\ c \in Collector
    BY <2>1 DEF ReplyOK, Msg, Ack, DataFrame
  <2>3. PICK n \in 1 .. MaxFrame : n = NextFrameNo(frameNo[c])
    BY <2>2, FrameNoChanges DEF Number
  <2> DEFINE r == Request("fetch", c, n)
  <2>4. /\ frameNo' = [frameNo EXCEPT ![c] = n] /\ n_flag' = 1 /\ Send(r)
        /\ framed
        /\ UNCHANGED <<ledgerVars, opsid, framed, linkVars, job, mgrVars>>
    BY <1>4, <2>1, <2>3 DEF Ready, FetchNext, Takes, Reading
  <2> HIDE DEF c
  <2>5. r \in Req /\ RequestOK(r)'
    BY <2>2, <2>3, <2>4 DEF Request, Req, RequestOK, Begun, Progress, Number
  <2>6. Token'
    <3> HIDE DEF r
    <3> QED
      BY <2>1, <2>4, <2>5, PassesRequest
  <2> QED
    BY <2>1, <2>4, <2>6 DEF SerialInv
<1>7. CASE PrintForever
  <2>1. toAgent' = <<>> /\ toMgr = <<>> /\ framed
    BY <1>7, HoldsReply DEF PrintForever, Takes, Reading
  <2>2. online
    BY <1>7, HoldsReply DEF PrintForever, SerialInv
  <2>3. /\ job' # NoJob /\ job'.pc = "loop" /\ (AdHoc => n_flag' = 0)
        /\ UNCHANGED <<framed, toMgr>>
    BY <1>7 DEF PrintForever, FlagBefore, AdHoc, Job, NoJob
  <2>4. Token'
    BY <2>1, <2>3 DEF Token, Working, JobOK
  <2> QED
    BY <1>7, <2>1, <2>2, <2>4 DEF PrintForever, SerialInv
<1>5. CASE Data
  <2>1. PICK m \in Msg :
          /\ m = Head(toAgent) /\ ReplyOK(m) /\ m.type = "data"
          /\ toAgent' = <<>> /\ toMgr = <<>> /\ up
    BY <1>5, HoldsReply DEF Data
  <2> DEFINE c == m.co
  <2>2. /\ InStep(c) /\ pos[c] # size[c] /\ m.blk = pos[c]
        /\ Progress(c, pos[c] - 1) /\ c \in Collector
    BY <2>1 DEF ReplyOK, DataFrame, Msg, Ack
  <2>3. /\ AdHoc => n_flag' = 0
        /\ job' = Job("upload", c, m.blk) /\ toMgr' = toMgr /\ framed
        /\ UNCHANGED <<ledgerVars, opsid, frameNo, framed, linkVars, mgrVars>>
    BY <1>5, <2>1 DEF Data, FlagBefore, AdHoc, Takes, Reading
  <2> HIDE DEF c
  <2>4. job' # NoJob /\ JobOK'
    BY <2>2, <2>3 DEF Job, NoJob, JobOK, InStep, Progress
  <2>5. Token'
    BY <2>1, <2>3, <2>4 DEF Token, Working
  <2> QED
    BY <2>1, <2>3, <2>5 DEF SerialInv
<1>6. CASE Last
  <2>1. PICK m \in Msg :
          /\ m = Head(toAgent) /\ ReplyOK(m) /\ m.type = "last"
          /\ toAgent' = <<>> /\ toMgr = <<>> /\ up
    BY <1>6, HoldsReply DEF Last
  <2> DEFINE c == m.co
  <2>2. /\ pos[c] = size[c] /\ m.blk = pos[c]
        /\ Progress(c, pos[c] - 1) /\ c \in Collector
    BY <2>1 DEF ReplyOK, DataFrame, Msg, Ack
  <2>3. /\ AdHoc => n_flag' = 0
        /\ job' = Job("uploadLast", c, m.blk) /\ toMgr' = toMgr /\ framed
        /\ status' = [o \in Op |-> IF o = opsid[c] THEN "SUCCESSFUL"
                                                   ELSE status[o]]
        /\ UNCHANGED <<target, size, uploaded, opsid, framed, linkVars, mgrVars>>
    BY <1>6, <2>1 DEF Last, FlagBefore, AdHoc, Takes, Reading
  <2> HIDE DEF c
  <2>4. Len(uploaded[opsid[c]]) \in Nat /\ opsid[c] \in Op
    BY <2>2, LenProperties DEF Progress
  <2>5. job' # NoJob /\ JobOK'
    BY <2>2, <2>3, <2>4 DEF Job, NoJob, JobOK, Progress
  <2>6. Token'
    BY <2>1, <2>3, <2>5 DEF Token, Working
  <2> QED
    BY <2>1, <2>3, <2>6 DEF SerialInv
<1> QED
  BY <1>1, <1>2, <1>3, <1>4, <1>5, <1>6, <1>7

\* A handler that goes on with its job passes the token on or drops it.
LEMMA JobsSerial ==
  ASSUME Serial, StepInv, PollAgain \/ Upload \/ FetchMore
  PROVE  SerialInv'
<1> USE ConstantsAssumption
    DEF StepInv, TypeInv, LedgerType, SessionType, MgrType,
        ledgerVars, sessionVars, linkVars, mgrVars
<1>1. PICK c \in Collector :
        /\ c = job.co /\ job # NoJob /\ toMgr = <<>> /\ toAgent = <<>>
        /\ JobOK /\ online
  <2>1. job.pc # "none"
    BY DEF PollAgain, Upload, FetchMore
  <2> QED
    BY <2>1, HoldsJob DEF NoJob
<1>2. CASE PollAgain
  <2>1. Begun(c) /\ n_flag = 0
    BY <1>1, <1>2 DEF PollAgain, JobOK
  <2>2. Request("poll", c, 0) \in Req /\ RequestOK(Request("poll", c, 0))'
    BY <1>1, <1>2, <2>1 DEF PollAgain, Request, Req, RequestOK, Begun, Progress
  <2>3. Token'
    BY <1>1, <1>2, <2>2, PassesRequest DEF PollAgain
  <2> QED
    BY <1>1, <1>2, <2>3 DEF PollAgain, SerialInv
<1>3. CASE Upload /\ job.pc = "upload"
  <2>1. /\ InStep(c) /\ pos[c] < size[c] /\ Progress(c, pos[c] - 1)
        /\ AdHoc => n_flag = 0
        /\ framed
    BY <1>1, <1>3 DEF JobOK
  <2>2. PICK o \in Op : o = opsid[c]
    BY <2>1 DEF Progress
  <2>3. /\ uploaded' = [p \in Op |-> IF p = o THEN Append(uploaded[p], job.blk)
                                              ELSE uploaded[p]]
        /\ job' = [job EXCEPT !.pc = "fetch"] /\ n_flag' = n_flag
        /\ UNCHANGED <<status, target, size, opsid, frameNo, framed, linkVars,
                       toMgr, toAgent, mgrVars>>
    BY <1>1, <1>3, <2>2 DEF Upload
  <2>4. status[o] = "EXECUTING" /\ Len(uploaded[o]) = pos[c] - 1
    BY <2>1, <2>2 DEF Progress
  <2>5. job.blk \in 1 .. MaxBlocks
    BY <1>1, <1>3 DEF NoJob
  <2>6. Len(uploaded'[o]) = pos[c]
    BY <1>1, <2>3, <2>4, <2>5, AppendProperties
  <2>7. job' # NoJob /\ job'.pc = "fetch" /\ job'.co = c
    BY <1>1, <1>3, <2>3 DEF NoJob
  <2>8. JobOK'
    BY <2>1, <2>2, <2>3, <2>4, <2>6, <2>7 DEF JobOK, InStep, Progress
  <2>9. Token'
    BY <1>1, <2>3, <2>7, <2>8 DEF Token, Working
  <2> QED
    BY <1>1, <2>3, <2>4, <2>9 DEF SerialInv
<1>4. CASE Upload /\ job.pc = "uploadLast"
  <2>1. (AdHoc => n_flag = 0) /\ status[opsid[c]] = "SUCCESSFUL"
    BY <1>1, <1>4 DEF JobOK
  <2>2. job' = NoJob /\ n_flag' = 0
    BY <1>4, <2>1 DEF Upload, FlagAfter, AdHoc
  <2>3. Token'
    BY <1>1, <1>4, <2>2 DEF Upload, Token, AtRest, Quiet
  <2> QED
    BY <1>1, <1>4, <2>1, <2>2, <2>3 DEF Upload, SerialInv, AdHoc
<1>5. CASE FetchMore
  <2>1. InStep(c) /\ pos[c] < size[c] /\ Progress(c, pos[c]) /\ framed
    BY <1>1, <1>5 DEF FetchMore, JobOK
  <2>2. PICK n \in 1 .. MaxFrame :
          n = NextFrameNo(frameNo[c]) /\ n # frameNo[c]
    BY <1>1, FrameNoChanges DEF Number
  <2> DEFINE r == Request("fetch", c, n)
  <2>3. /\ frameNo' = [frameNo EXCEPT ![c] = n] /\ Send(r)
        /\ IF Integrated THEN n_flag' = 0 ELSE n_flag' = 1
        /\ job' = NoJob
        /\ UNCHANGED <<ledgerVars, opsid, framed, linkVars, toAgent, mgrVars>>
    BY <1>1, <1>5, <2>2 DEF FetchMore, FetchNext, FlagAfter
  <2>4. r \in Req /\ RequestOK(r)'
    BY <1>1, <2>1, <2>2, <2>3
    DEF Request, Req, RequestOK, InStep, Progress, AdHoc, Number
  <2>5. Token'
    <3> HIDE DEF r
    <3> QED
      BY <1>1, <2>3, <2>4, PassesRequest
  <2> QED
    BY <1>1, <2>1, <2>3, <2>5 DEF SerialInv
<1> QED
  BY <1>2, <1>3, <1>4, <1>5 DEF Upload

\* A reply that is misread or discarded is the token, and nothing is under way
\* after it; a session that ends is at rest.
LEMMA ReadChainSerial ==
  ASSUME Serial, StepInv, ReadChain PROVE SerialInv'
<1>1. CASE Misread
  <2>1. toAgent' = <<>> /\ toMgr = <<>> /\ job = NoJob /\ up
    BY <1>1, HoldsReply DEF Misread
  <2>2. Token'
    BY <1>1, <2>1 DEF Misread, Token, AtRest, Quiet
  <2> QED
    BY <1>1, <2>1, <2>2 DEF Misread, StepInv, SerialInv, ledgerVars, linkVars
<1>2. CASE Discard
  <2>1. toAgent # <<>> /\ ~framed /\ toAgent' = Tail(toAgent)
    BY <1>2 DEF Discard
  <2>2. Replying
    BY <2>1
    DEF StepInv, SerialInv, Token, AtRest, Quiet, Asking, Working
  <2>3. toAgent' = <<>> /\ toMgr = <<>> /\ job = NoJob
    BY <2>1, <2>2, Single DEF Replying
  <2>4. n_flag = 0
    BY <2>1 DEF StepInv, SerialInv
  <2>5. Token'
    BY <1>2, <2>3, <2>4 DEF Discard, Token, AtRest, Quiet
  <2> QED
    BY <1>2, <2>3, <2>4, <2>5 DEF Discard, StepInv, SerialInv, ledgerVars, linkVars
<1>3. CASE ReadError
  <2>1. AtRest
    BY <1>3
    DEF ReadError, StepInv, SerialInv, Token, Asking, Replying, Working
  <2> QED
    BY <1>3, <2>1
    DEF ReadError, StepInv, SerialInv, Token, AtRest, Quiet, ledgerVars
<1> QED
  BY <1>1, <1>2, <1>3, ReadersSerial, JobsSerial DEF ReadChain

\* The manager passes the token back.
LEMMA ManagerSerial ==
  ASSUME StepInv, Manager PROVE SerialInv'
<1> USE ConstantsAssumption
    DEF StepInv, TypeInv, LedgerType, SessionType, MgrType,
        ledgerVars, sessionVars, linkVars, mgrVars
<1>1. CASE MgrStart
  <2>1. PICK q \in Req :
          /\ q = Head(toMgr) /\ RequestOK(q) /\ q.type = "start"
          /\ Tail(toMgr) = <<>> /\ toAgent = <<>> /\ job = NoJob /\ up
    BY <1>1, HoldsRequest DEF MgrStart
  <2> DEFINE c == q.co
  <2>2. n_flag = 0 /\ frameNo[c] = 0 /\ Progress(c, 0) /\ c \in Collector
    BY <1>1, <2>1 DEF MgrStart, RequestOK
  <2>3. ReplyOK(Reply("startAck", c))'
    BY <1>1, <2>1, <2>2 DEF MgrStart, Reply, ReplyOK, Begun, Progress
  <2>4. Reply("startAck", c) \in Msg
    BY <2>2 DEF Reply, Msg, Ack
  <2>5. Token'
    BY <1>1, <2>1, <2>3, <2>4, PassesReply DEF MgrStart
  <2> QED
    BY <1>1, <2>5 DEF MgrStart, SerialInv
<1>2. ASSUME NEW type \in {"ready", "busy"},
             Serves("poll"), Answer(Reply(type, Head(toMgr).co)),
             UNCHANGED <<ledgerVars, sessionVars, linkVars, job, mgrVars>>
      PROVE  SerialInv'
  <2>1. PICK q \in Req :
          /\ q = Head(toMgr) /\ RequestOK(q) /\ q.type = "poll"
          /\ Tail(toMgr) = <<>> /\ toAgent = <<>> /\ job = NoJob /\ up
    BY <1>2, HoldsRequest
  <2> DEFINE c == q.co
  <2>2. n_flag = 0 /\ Begun(c) /\ c \in Collector
    BY <2>1 DEF RequestOK, Req
  <2>3. ReplyOK(Reply(type, c))'
    BY <1>2, <2>2 DEF Reply, ReplyOK, Begun, Progress
  <2>4. Reply(type, c) \in Msg
    BY <2>2 DEF Reply, Msg, Ack
  <2>5. Token'
    BY <1>2, <2>1, <2>3, <2>4, PassesReply
  <2> QED
    BY <1>2, <2>5 DEF SerialInv
<1>3. CASE MgrRefuse
  <2>1. PICK q \in Req :
          /\ q = Head(toMgr)
          /\ Tail(toMgr) = <<>> /\ toAgent = <<>> /\ job = NoJob /\ up
    BY <1>3, HoldsRequest DEF MgrRefuse
  <2> DEFINE m == Reply("refused", q.co)
  <2>2. m \in Msg
    BY DEF Reply, Msg, Ack, Req, Number
  <2>3. ReplyOK(m)'
    BY DEF Reply, ReplyOK
  <2>4. Token'
    BY <1>3, <2>1, <2>2, <2>3, PassesReply DEF MgrRefuse
  <2> QED
    BY <1>3, <2>4 DEF MgrRefuse, SerialInv
<1>5. CASE MgrNobody
  <2>1. /\ RequestOK(Head(toMgr)) /\ Head(toMgr).type = "start"
        /\ Tail(toMgr) = <<>> /\ toAgent = <<>> /\ job = NoJob
    BY <1>5, HoldsRequest DEF MgrNobody
  <2>2. n_flag = 0
    BY <2>1 DEF RequestOK
  <2>3. Token'
    BY <1>5, <2>1, <2>2 DEF MgrNobody, Token, AtRest, Quiet
  <2> QED
    BY <1>5, <2>3 DEF MgrNobody, SerialInv
<1>4. CASE MgrFetch
  <2>1. PICK q \in Req :
          /\ q = Head(toMgr) /\ RequestOK(q) /\ q.type = "fetch"
          /\ Tail(toMgr) = <<>> /\ toAgent = <<>> /\ job = NoJob /\ up
    BY <1>4, HoldsRequest DEF MgrFetch
  <2> DEFINE c == q.co
             n == q.no
  <2>2. /\ AdHoc => n_flag = 1
        /\ n = frameNo[c] /\ n # lastNo[c] /\ c \in Collector
        /\ pos[c] < size[c] /\ Progress(c, pos[c])
    BY <2>1 DEF RequestOK, Req
  <2>3. PICK b \in 1 .. MaxBlocks : b = pos[c] + 1 /\ b <= size[c]
    <3>1. pos[c] \in Nat /\ size[c] \in 1 .. MaxBlocks
      BY <2>2
    <3>2. pos[c] + 1 \in 1 .. MaxBlocks /\ pos[c] + 1 <= size[c]
      BY <2>2, <3>1
    <3> QED
      BY <3>2
  <2>4. PICK t \in DataFrame : t = IF b = size[c] THEN "last" ELSE "data"
    BY DEF DataFrame
  <2>10. PICK k \in BlockMeters :
           Answer(Block(IF b = size[c] THEN "last" ELSE "data", c, b, k))
    <3>1. b = IF n = lastNo[c] \/ pos[c] = size[c] THEN pos[c] ELSE pos[c] + 1
      <4>1. pos[c] # size[c]
        BY <2>2
      <4> HIDE DEF c, n
      <4> QED
        BY <2>2, <2>3, <4>1
    <3> QED
      BY <1>4, <2>1, <3>1 DEF MgrFetch
  <2> DEFINE r == Block(t, c, b, k)
  <2>5. /\ Answer(r) /\ pos' = [pos EXCEPT ![c] = b]
        /\ lastNo' = [lastNo EXCEPT ![c] = n]
        /\ UNCHANGED <<ledgerVars, sessionVars, linkVars, job>>
    <3>1. b = IF n = lastNo[c] \/ pos[c] = size[c] THEN pos[c] ELSE pos[c] + 1
      <4>1. pos[c] # size[c]
        BY <2>2
      <4> HIDE DEF c, n
      <4> QED
        BY <2>2, <2>3, <4>1
    <3> HIDE DEF ledgerVars, sessionVars, linkVars
    <3> QED
      BY <1>4, <2>1, <2>4, <2>10, <3>1 DEF MgrFetch
  <2> HIDE DEF c, n
  <2>6. r \in Msg
    BY <2>2 DEF Block, Msg
  <2>7. r.type = t /\ r.co = c /\ r.blk = b
    BY DEF Block
  <2> HIDE DEF r
  <2>8. ReplyOK(r)'
    <3>1. /\ InStep(c)' /\ Progress(c, b - 1)' /\ pos'[c] = b
          /\ AdHoc => n_flag' = 1
      BY <2>2, <2>3, <2>5 DEF InStep, Progress
    <3>2. (t = "last") = (b = size'[c])
      BY <2>4, <2>5
    <3> QED
      BY <2>7, <3>1, <3>2 DEF ReplyOK
  <2>9. Token'
    BY <2>1, <2>5, <2>6, <2>8, PassesReply
  <2> QED
    BY <2>1, <2>5, <2>9 DEF SerialInv
<1> QED
  BY <1>1, <1>2, <1>3, <1>4, <1>5 DEF Manager, MgrReady, MgrBusy

\* The session's connection is lost, with the token unless a handler holds it,
\* and the manager comes back.
LEMMA LinkSerial ==
  ASSUME StepInv, ConnectionLost \/ Reconnect PROVE SerialInv'
<1> USE DEF StepInv, ledgerVars, sessionVars, linkVars, mgrVars
<1>1. CASE ConnectionLost
  <2>1. JobOK => JobOK'
    BY <1>1 DEF ConnectionLost, JobOK, Begun, InStep, Progress
  <2> QED
    BY <1>1, <2>1
    DEF ConnectionLost, SerialInv, Token, AtRest, Quiet, Asking, Replying, Working
<1>2. CASE Reconnect
  BY <1>2
  DEF Reconnect, SerialInv, Token, AtRest, Quiet, Asking, Replying, Working
<1> QED
  BY <1>1, <1>2

LEMMA StutterSerial ==
  ASSUME SerialInv, UNCHANGED vars PROVE SerialInv'
  BY DEF SerialInv, vars, ledgerVars, sessionVars, linkVars, mgrVars, Token,
     AtRest, Quiet, Asking, Replying, Working, RequestOK, ReplyOK, JobOK,
     Begun, InStep, Progress

\* SerialInv is an invariant of either agent without overlap.
LEMMA OneToken == ASSUME Serial PROVE Spec => []StepInv
<1>1. Init => SerialInv
  BY InitSerial
<1>2. StepInv /\ [Next]_vars => SerialInv'
  BY MainThreadSerial, ReadChainSerial, ManagerSerial, LinkSerial, StutterSerial
  DEF StepInv, Next
<1>3. StepInv <=> TypeInv /\ ReportsMatchCollector /\ SerialInv
  BY DEF StepInv
<1> QED
  BY <1>1, <1>2, <1>3, Typed, ReportsSafe, PTL DEF Spec

-----------------------------------------------------------------------------
\* In the ad-hoc-network agent _n_flag tells a block from every other reply but
\* the refusal of a fetch, where OnReadSpec is given a short frame: the chain is
\* at the start of a frame, and n_flag = 1, only while a block or such a refusal
\* is due.  Other requests to the manager in between are not considered.
THEOREM FramesKept == ASSUME Serial, AdHoc PROVE Spec => []NeverMisread
<1>1. StepInv => NeverMisread
  <2> SUFFICES ASSUME StepInv, Reading, Head(toAgent).type # "refused"
               PROVE  (n_flag = 1) = (Head(toAgent).type \in DataFrame)
    BY DEF NeverMisread
  <2>1. Replying
    BY DEF Reading, StepInv, SerialInv, Token, AtRest, Quiet, Asking, Working
  <2>2. PICK m \in Msg : toAgent = <<m>> /\ ReplyOK(m)
    BY <2>1 DEF Replying
  <2>3. Head(toAgent) = m
    BY <2>2, Single
  <2> QED
    BY <2>2, <2>3 DEF ReplyOK, DataFrame
<1> QED
  BY <1>1, OneToken, PTL

\* A request for a block is never taken for a repetition of the one before, for
\* every MaxFrame of at least 2: allFrameNum after wrapping and after resets.
THEOREM FetchSafe == ASSUME Serial PROVE Spec => []FetchIsFresh
<1>1. StepInv => FetchIsFresh
  <2> SUFFICES ASSUME StepInv, Serves("fetch")
               PROVE  /\ Head(toMgr).no \in 1 .. MaxFrame
                      /\ Head(toMgr).no # lastNo[Head(toMgr).co]
    BY DEF FetchIsFresh
  <2>1. /\ Head(toMgr) \in Req /\ RequestOK(Head(toMgr))
        /\ Head(toMgr).type = "fetch"
    BY HoldsRequest
  <2> QED
    BY <2>1 DEF RequestOK, Req
<1> QED
  BY <1>1, OneToken, PTL

\* The protocol implements GroupRead: sendMeData is given the next block of an
\* operation that is in progress, and sendAllAck reports the operation when
\* there is no more than that block to come.  What sendMeData throws away, the
\* readings of meters that are not found, leaves the operation incomplete, which
\* GroupRead permits of a SUCCESSFUL one where a lookup may fail, and only there.
THEOREM Implements == ASSUME Serial PROVE Spec => GroupReadHolds
<1>1. Init => Promise!Init
  BY ConstantsAssumption DEF Init, Promise!Init
<1>2. StepInv /\ [Next]_vars => [Promise!Next]_(Promise!vars)
  <2> SUFFICES ASSUME StepInv, [Next]_vars
               PROVE  Promise!Next \/ UNCHANGED ledgerVars
    BY DEF Promise!vars, ledgerVars
  <2> USE DEF StepInv, TypeInv, LedgerType, SessionType
  <2>1. ASSUME NEW o \in Op, NEW c \in Collector,
               \/ \E d \in Number : Collect(o, c, d)
               \/ CollectUnresolved(o, c)
               \/ CollectUnresolvedDies(o, c)
        PROVE  Promise!Begin(o, c)
    BY <2>1
    DEF Collect, CollectUnresolved, CollectUnresolvedDies, IsNew, Promise!Begin
  <2>2. ASSUME NEW o \in Op, NEW c \in Collector, CollectOffline(o, c)
        PROVE  Promise!Refuse(o, c)
    BY <2>2 DEF CollectOffline, IsNew, Promise!Refuse
  <2>3. ASSUME Last PROVE \E o \in Op : Promise!Complete(o)
    <3>1. PICK m \in Msg :
            m = Head(toAgent) /\ ReplyOK(m) /\ m.type = "last"
      BY <2>3, HoldsReply DEF Last
    <3>2. /\ pos[m.co] = size[m.co] /\ Progress(m.co, pos[m.co] - 1)
          /\ m.co \in Collector
      BY <3>1 DEF ReplyOK, DataFrame, Msg, Ack
    <3>3. PICK o \in Op : o = opsid[m.co] /\ status[o] = "EXECUTING"
                            /\ Len(uploaded[o]) = pos[m.co] - 1
      BY <3>2 DEF Progress
    <3>4. target[o] = m.co
      BY <3>2, <3>3, ConstantsAssumption DEF ReportsMatchCollector
    <3>5. Len(uploaded[o]) + 1 = size[target[o]]
      BY <3>2, <3>3, <3>4
    <3>6. /\ status' = [p \in Op |-> IF p = o THEN "SUCCESSFUL" ELSE status[p]]
          /\ UNCHANGED <<target, size, uploaded, incomplete>>
      BY <2>3, <3>1, <3>3 DEF Last
    <3>7. status' = [status EXCEPT ![o] = "SUCCESSFUL"]
      BY <3>6
    <3> QED
      BY <3>3, <3>5, <3>6, <3>7 DEF Promise!Complete
  <2>4. ASSUME Upload PROVE \E o \in Op : Promise!Upload(o)
    <3>1. job # NoJob /\ JobOK /\ job.co \in Collector
      BY <2>4, HoldsJob DEF Upload, NoJob
    <3>2. PICK o \in Op :
            /\ o = opsid[job.co] /\ status[o] \in {"EXECUTING", "SUCCESSFUL"}
            /\ job.blk = Len(uploaded[o]) + 1 /\ job.blk <= size[job.co]
      <4>1. opsid[job.co] \in Op
        BY <2>4, <3>1 DEF Upload, JobOK, Progress
      <4>2. Len(uploaded[opsid[job.co]]) \in Nat
        BY <4>1, LenProperties
      <4>3. pos[job.co] \in Nat /\ size[job.co] \in Nat
        BY <3>1 DEF MgrType
      <4> QED
        BY <2>4, <3>1, <4>1, <4>2, <4>3
        DEF Upload, JobOK, Progress, InStep, Number
    <3>3. target[o] = job.co
      BY <3>1, <3>2, ConstantsAssumption DEF ReportsMatchCollector
    <3>4. uploaded' = [p \in Op |-> IF p = o THEN Append(uploaded[p], job.blk)
                                             ELSE uploaded[p]]
      BY <2>4, <3>2 DEF Upload
    <3>5. uploaded' = [uploaded EXCEPT ![o] = Append(@, Len(uploaded[o]) + 1)]
      BY <3>2, <3>4
    <3>6. \/ UNCHANGED incomplete
          \/ LookupFails /\ incomplete' = incomplete \cup {o}
      <4>1. {opsid[job.co]} \cap Op = {o}
        BY <3>2
      <4>2. \/ UNCHANGED incomplete
            \/ /\ LookupFails
               /\ incomplete' = incomplete \cup ({opsid[job.co]} \cap Op)
        BY <2>4, Zenon DEF Upload
      <4> QED
        BY <4>1, <4>2, Zenon
    <3>7. UNCHANGED <<status, target, size>> /\ Len(uploaded[o]) + 1 <= size[target[o]]
      <4>1. UNCHANGED <<status, target, size>>
        BY <2>4, Zenon DEF Upload
      <4> QED
        BY <3>2, <3>3, <4>1
    <3>8. Promise!Upload(o)
      BY <3>2, <3>5, <3>6, <3>7, Zenon DEF Promise!Upload
    <3> QED
      BY <3>8
  <2>5. ReadChain => Last \/ Upload \/ UNCHANGED ledgerVars
    BY DEF ReadChain, StartAck, Refused, Busy, PollAgain, Ready, PrintForever, Data,
           FetchMore, Misread, Discard, ReadError
  <2>6. Manager \/ ConnectionLost \/ Reconnect \/ UNCHANGED vars =>
          UNCHANGED ledgerVars
    BY DEF Manager, MgrStart, MgrNobody, MgrReady, MgrBusy, MgrFetch, MgrRefuse,
           ConnectionLost, Reconnect, vars
  <2> QED
    BY <2>1, <2>2, <2>3, <2>4, <2>5, <2>6 DEF Next, MainThread, Promise!Next
<1> QED
  BY <1>1, <1>2, OneToken, PTL DEF Spec, GroupReadHolds, Promise!Spec
=============================================================================
