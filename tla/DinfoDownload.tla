---------------------------- MODULE DinfoDownload ----------------------------
(***************************************************************************)
(* "download dinfo" over the session of one residential manager, in the    *)
(* ad-hoc-network agent: the main thread sends a collector its table of    *)
(* meters in frames (AgentMsgHandler, SendDinfoAck::getAllBuf); the read   *)
(* chain, on a pool thread, answers the acknowledgement of each frame with *)
(* an end command and reports the operation when that is acknowledged      *)
(* (SendDinfoAck::sendDinfoAck).                                           *)
(*                                                                         *)
(* A meter is its index in me_info; what is read beyond its end is taken   *)
(* to be entries of some other meters.  A write is taken to be carried out *)
(* in the call that starts it, as asio does while the socket has room.     *)
(***************************************************************************)
EXTENDS Integers, Sequences

CONSTANTS
  MaxMeters,     \* bound on the size of a table
  MaxDownloads,  \* bound on the number of operations
  U8, U32,       \* 2^8 and 2^32 (TLC: any modulus above the sizes that occur)
  Drops,         \* the connection may be lost
  Refusals,      \* the collector may refuse a command
  LookupFails    \* HTTP lookups may fail

ASSUME ConstantsAssumption ==
  /\ MaxMeters \in Nat
  /\ MaxDownloads \in Nat
  /\ U8 = 256
  /\ U32 \in Nat /\ U32 > 10 * U8 /\ U32 > 2 * MaxMeters
  /\ {Drops, Refusals, LookupFails} \subseteq BOOLEAN

VARIABLES
  online,    \* manager_sid_to_ptr has the session
  up,        \* its connection
  meters,    \* me_info.size() of the current operation
  found,     \* its co_did is the collector's number, not 0
  t,         \* the loop of operator(): the next frame to build; 0: not in it
  frameNo,   \* _dinfo_frame_number
  toCol,     \* commands on the connection
  toAgent,   \* replies on the connection
  stored,    \* collector: the meters it has
  status,    \* of the current operation
  downloads, \* number of operations begun
  refused,   \* history: a command of the current download was refused
  unanswered \* history: the downloads of this session of which a command was
             \* refused, or addressed to collector 0

linkVars  == <<online, up>>
tableVars == <<meters, found>>
histVars  == <<refused, unanswered>>
vars == <<linkVars, tableVars, t, frameNo, toCol, toAgent, stored, status,
          downloads, histVars>>

-----------------------------------------------------------------------------
\* operator(): u8 times.
Frames(n) ==
  IF n % 10 > 0 THEN (n \div 10 + 1) % U8 ELSE (n \div 10) % U8

\* Mutant: len is signed, as "len <= 0" expects.
Quantity_Signed(k, n) == IF k * 10 <= n THEN 10 ELSE n % U8

\* getAllBuf: len is unsigned, so "len <= 0" is "len = 0".
Quantity(k, n) ==
  LET len == (k * 10 - n) % U32 IN IF len <= 0 THEN 10 ELSE n % U8

\* The entries of me_info that frame k of a table of n meters carries; those
\* from n on are read beyond its end.
Entries(k, n) == {(k - 1) * 10 + i : i \in 0 .. Quantity(k, n) - 1}

Batch(no, entries) == [type |-> "batch", no |-> no, entries |-> entries]
Stop == [type |-> "stop", no |-> 0, entries |-> {}]

\* dinfoFrameNum
NextFrameNo(n) == (n + 1) % U8

\* sendToClient: what is written to a broken connection, or is addressed to
\* collector 0, reaches no collector.
Send(m) == toCol' = IF up /\ found THEN Append(toCol, m) ELSE toCol

Quiet == t = 0 /\ toCol = <<>> /\ toAgent = <<>>

TypeOK ==
  /\ online \in BOOLEAN /\ up \in BOOLEAN
  /\ meters \in 0 .. MaxMeters
  /\ found \in BOOLEAN
  /\ t \in 0 .. Frames(MaxMeters)
  /\ frameNo \in 0 .. U8 - 1
  /\ \A i \in 1 .. Len(toCol) : toCol[i].type \in {"batch", "stop"}
  /\ \A i \in 1 .. Len(toAgent) :
       toAgent[i] \in {"batchAck", "stopAck", "refused"}
  /\ status \in {"NONE", "EXECUTING", "SUCCESSFUL", "FAILED"}
  /\ downloads \in 0 .. MaxDownloads
  /\ refused \in BOOLEAN
  /\ unanswered \subseteq 0 .. downloads

Init ==
  /\ online = TRUE /\ up = TRUE
  /\ meters = 0 /\ found = FALSE
  /\ t = 0
  /\ frameNo = 0
  /\ toCol = <<>> /\ toAgent = <<>>
  /\ stored = {}
  /\ status = "NONE"
  /\ downloads = 0
  /\ refused = FALSE
  /\ unanswered = {}

-----------------------------------------------------------------------------
(* The main thread: operator() for "download dinfo".                       *)

\* The operator of the platform waits until nothing of the last download is
\* under way.
NewDownload ==
  /\ Quiet
  /\ downloads < MaxDownloads
  /\ downloads' = downloads + 1

\* getColChildMeters finds n meters and, unless "136" fails, the number of the
\* collector; the loop begins, if there is a frame to send.
Begin(n) ==
  /\ NewDownload
  /\ online
  /\ meters' = n
  /\ found' \in {TRUE, ~LookupFails}
  /\ status' = "EXECUTING"
  /\ stored' = {}
  /\ t' = IF Frames(n) = 0 THEN 0 ELSE 1
  /\ refused' = FALSE
  /\ UNCHANGED <<linkVars, frameNo, toCol, toAgent, unanswered>>

\* "不在线": the manager has no session, or "135" did not say which it is.
BeginOffline ==
  /\ NewDownload
  /\ ~online \/ LookupFails
  /\ status' = "FAILED"
  /\ UNCHANGED <<linkVars, tableVars, t, frameNo, toCol, toAgent, stored,
                 histVars>>

\* The list of meters, "450", fails after EXECUTING was reported: nothing else
\* happens.
BeginUnresolved ==
  /\ NewDownload
  /\ LookupFails
  /\ status' = "EXECUTING"
  /\ UNCHANGED <<linkVars, tableVars, t, frameNo, toCol, toAgent, stored,
                 histVars>>

\* Mutant: the loop makes one pass too many.
LoopNext_OneMore(k, n) == IF k > Frames(n) THEN 0 ELSE k + 1

\* The loop's next pass, 0 at its end.
LoopNext(k, n) == IF k = Frames(n) THEN 0 ELSE k + 1

\* A pass of the loop: getAllBuf and sendToClient.
SendFrame ==
  /\ t > 0
  /\ frameNo' = NextFrameNo(frameNo)
  /\ Send(Batch(NextFrameNo(frameNo), Entries(t, meters)))
  /\ t' = LoopNext(t, meters)
  /\ unanswered' = IF found THEN unanswered ELSE unanswered \cup {downloads}
  /\ UNCHANGED <<linkVars, tableVars, toAgent, stored, status, downloads,
                 refused>>

-----------------------------------------------------------------------------
(* The read chain: sendDinfoAck, and the end of the session.               *)

Takes(reply) ==
  /\ toAgent # <<>>
  /\ Head(toAgent) = reply
  /\ toAgent' = Tail(toAgent)

\* Mutant: the end command is not sent.
BatchAck_NoStop ==
  /\ Takes("batchAck")
  /\ UNCHANGED <<linkVars, tableVars, t, frameNo, toCol, stored, status,
                 downloads, histVars>>

\* 0x33: a frame is acknowledged, the end command is sent.
BatchAck ==
  /\ Takes("batchAck")
  /\ Send(Stop)
  /\ UNCHANGED <<linkVars, tableVars, t, frameNo, stored, status, downloads,
                 histVars>>

\* Mutant: the frame number is not reset.
FrameNoAfterStop_Kept == frameNo

\* setDinfoFrameNum(0)
FrameNoAfterStop == 0

\* 0x6F: the end is acknowledged, the operation is reported.
StopAck ==
  /\ Takes("stopAck")
  /\ status' = "SUCCESSFUL"
  /\ frameNo' = FrameNoAfterStop
  /\ UNCHANGED <<linkVars, tableVars, t, toCol, stored, downloads, histVars>>

\* An answer that is not "OK" (0x4F) has no effect.
Refused ==
  /\ Takes("refused")
  /\ UNCHANGED <<linkVars, tableVars, t, frameNo, toCol, stored, status,
                 downloads, histVars>>

\* The read fails: clrSession.  The main thread is taken to have finished its
\* loop; ManagerSessions is about pointers to sessions that have gone.
ReadError ==
  /\ online /\ ~up /\ t = 0
  /\ online' = FALSE
  /\ UNCHANGED <<up, tableVars, t, frameNo, toCol, toAgent, stored, status,
                 downloads, histVars>>

-----------------------------------------------------------------------------
(* The collector stores the meters of a frame, and answers commands; the   *)
(* connection may break and the manager come back, with a new session.     *)

Collector ==
  LET ack == IF Head(toCol).type = "batch" THEN "batchAck" ELSE "stopAck" IN
  /\ toCol # <<>>
  /\ toCol' = Tail(toCol)
  /\ \/ /\ stored' = stored \cup Head(toCol).entries
        /\ toAgent' = Append(toAgent, ack)
        /\ UNCHANGED histVars
     \/ /\ Refusals
        /\ toAgent' = Append(toAgent, "refused")
        /\ refused' = TRUE
        /\ unanswered' = unanswered \cup {downloads}
        /\ UNCHANGED stored
  /\ UNCHANGED <<linkVars, tableVars, t, frameNo, status, downloads>>

ConnectionLost ==
  /\ Drops
  /\ up
  /\ up' = FALSE
  /\ toCol' = <<>> /\ toAgent' = <<>>
  /\ UNCHANGED <<online, tableVars, t, frameNo, stored, status, downloads,
                 histVars>>

Reconnect ==
  /\ ~online
  /\ online' = TRUE /\ up' = TRUE
  /\ frameNo' = 0
  /\ unanswered' = {}
  /\ UNCHANGED <<tableVars, t, toCol, toAgent, stored, status, downloads,
                 refused>>

-----------------------------------------------------------------------------
MainThread ==
  (\E n \in 0 .. MaxMeters : Begin(n)) \/ BeginOffline \/ BeginUnresolved
    \/ SendFrame

ReadChain == BatchAck \/ StopAck \/ Refused \/ ReadError

Next == MainThread \/ ReadChain \/ Collector \/ ConnectionLost \/ Reconnect

Spec == Init /\ [][Next]_vars

(* The loop and the read chain go on, and the collector answers.           *)
FairSpec ==
  Spec /\ WF_vars(SendFrame) /\ WF_vars(ReadChain) /\ WF_vars(Collector)

-----------------------------------------------------------------------------
(* Properties.                                                             *)

\* The acknowledgement of any frame ends a download and reports it SUCCESSFUL,
\* that of the first one while others are still being built: the collector has
\* the whole table nevertheless, unless it refused a command of several frames.
\* A table of one frame is also all that it has.  What makes up for the early
\* report is Quantity: the first frame carries the whole table.  With frames of
\* ten meters the early report would be of a part of it.
SuccessMeansStored ==
  status = "SUCCESSFUL" =>
    /\ ~refused \/ Frames(meters) = 1 => 0 .. meters - 1 \subseteq stored
    /\ Frames(meters) = 1 => stored \subseteq 0 .. meters - 1

\* The collector sees the frames of a download numbered from 1 to their number,
\* so that a new table does not continue the last, unless an earlier download of
\* the session had a command refused or addressed to collector 0: although the
\* end of a download may reset the number while its frames are still being
\* built, the last of its ends comes after the last of its frames.
FramesNumberedFromOne ==
  unanswered \subseteq {downloads} =>
    \A i \in 1 .. Len(toCol) :
      toCol[i].type = "batch" => toCol[i].no \in 1 .. Frames(meters)

\* A download whose first frame is on its way is reported SUCCESSFUL, unless
\* the connection is lost or a command refused.
DownloadEnds ==
  (toCol # <<>> /\ Head(toCol).type = "batch")
    ~> \/ status = "SUCCESSFUL"
       \/ ~up
       \/ toAgent # <<>> /\ Head(toAgent) = "refused"
=============================================================================
