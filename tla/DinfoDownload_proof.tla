------------------------- MODULE DinfoDownload_proof -------------------------
(***************************************************************************)
(* Theorems of DinfoDownload: its types, for the tables for which the      *)
(* loop of operator() ends, and, for the tables whose frames fit the       *)
(* buffer they are built in, what a reported success means and how frames  *)
(* are numbered.                                                           *)
(***************************************************************************)
EXTENDS DinfoDownload, TLAPS

\* The u8 counter of the loop exceeds the number of frames.
LoopEnds == MaxMeters <= 2540

\* The frame that carries a whole table fits w_buf: 18 bytes for each meter and
\* up to 51 others, in 1024.
FrameFits == MaxMeters <= 54

Command == [type : {"batch", "stop"}, no : 0 .. U8 - 1, entries : SUBSET Int]
Answer  == {"batchAck", "stopAck", "refused"}

LinkType ==
  /\ online \in BOOLEAN /\ up \in BOOLEAN
  /\ toCol \in Seq(Command) /\ toAgent \in Seq(Answer)

TableType ==
  /\ meters \in 0 .. MaxMeters
  /\ found \in BOOLEAN
  /\ t \in 0 .. Frames(meters)
  /\ frameNo \in 0 .. U8 - 1

LedgerType ==
  /\ status \in {"NONE", "EXECUTING", "SUCCESSFUL", "FAILED"}
  /\ downloads \in 0 .. MaxDownloads

HistType == refused \in BOOLEAN /\ unanswered \subseteq 0 .. downloads

\* All but HistType, which does not matter to the others.
StateType == LinkType /\ TableType /\ LedgerType

TypeInv == StateType /\ HistType

-----------------------------------------------------------------------------
(* The helpers.                                                            *)

LEMMA Numbers ==
  /\ MaxMeters \in Nat /\ MaxDownloads \in Nat /\ U8 = 256
  /\ U32 \in Nat /\ U32 > 10 * U8
BY Zenon, ConstantsAssumption DEF ConstantsAssumption

LEMMA LookupsFailOrNot == found' \in {TRUE, ~LookupFails} => found' \in BOOLEAN
BY Zenon, ConstantsAssumption DEF ConstantsAssumption

LEMMA FramesBounded ==
  ASSUME LoopEnds, NEW n \in 0 .. MaxMeters
  PROVE  Frames(n) \in 0 .. Frames(MaxMeters)
BY Numbers DEF LoopEnds, Frames

LEMMA CommandsTyped ==
  /\ Stop \in Command
  /\ \A n \in 0 .. U8 - 1, k \in Nat, m \in Nat :
       Batch(NextFrameNo(n), Entries(k, m)) \in Command
<1>1. Stop \in Command
  BY Numbers DEF Stop, Command
<1>2. ASSUME NEW n \in 0 .. U8 - 1, NEW k \in Nat, NEW m \in Nat
      PROVE  Batch(NextFrameNo(n), Entries(k, m)) \in Command
  <2>1. NextFrameNo(n) \in 0 .. U8 - 1
    BY Numbers DEF NextFrameNo
  <2>2. Quantity(k, m) \in Int
    BY Numbers DEF Quantity
  <2>3. Entries(k, m) \in SUBSET Int
    BY <2>2 DEF Entries
  <2> QED
    BY <2>1, <2>3 DEF Batch, Command
<1> QED
  BY <1>1, <1>2

\* What is sent is appended or lost.
LEMMA SendTyped ==
  ASSUME LinkType, NEW m \in Command, Send(m)
  PROVE  toCol' \in Seq(Command)
BY DEF LinkType, Send

LEMMA TakesTyped ==
  ASSUME LinkType, NEW r, Takes(r)
  PROVE  toAgent' \in Seq(Answer) /\ toAgent # <<>>
BY DEF LinkType, Takes

-----------------------------------------------------------------------------
LEMMA InitTyped == Init => TypeInv
<1> SUFFICES ASSUME Init PROVE TypeInv
  OBVIOUS
<1>1. LinkType
  BY DEF Init, LinkType
<1>2. Frames(0) = 0
  BY Numbers DEF Frames
<1>3. TableType
  <2>1. /\ meters = 0 /\ t = 0 /\ frameNo = 0 /\ found \in BOOLEAN
        /\ Frames(meters) = 0
    BY <1>2 DEF Init
  <2> QED
    BY <2>1, Numbers DEF TableType
<1>4. LedgerType
  BY Numbers DEF Init, LedgerType
<1>5. HistType
  BY DEF Init, HistType
<1> QED
  BY <1>1, <1>3, <1>4, <1>5 DEF TypeInv, StateType

LEMMA NextTyped ==
  ASSUME LoopEnds, StateType, [Next]_vars
  PROVE  StateType'
<1> USE Numbers DEF StateType
<1>1. ASSUME NEW n \in 0 .. MaxMeters, Begin(n) PROVE StateType'
  <2>1. Frames(n) \in Nat
    BY FramesBounded
  <2>2. TableType'
    <3>1. /\ meters' = n /\ frameNo' = frameNo
          /\ t' = IF Frames(n) = 0 THEN 0 ELSE 1
      BY <1>1 DEF Begin
    <3>2. found' \in BOOLEAN
      BY <1>1, LookupsFailOrNot, Zenon DEF Begin
    <3>3. t' \in 0 .. Frames(meters')
      BY <3>1, <2>1
    <3> QED
      BY <3>1, <3>2, <3>3 DEF TableType, Frames
  <2> QED
    BY <1>1, <2>2 DEF Begin, NewDownload, linkVars, LinkType, LedgerType
<1>2. ASSUME BeginOffline \/ BeginUnresolved PROVE StateType'
  <2>1. /\ downloads < MaxDownloads /\ downloads' = downloads + 1
        /\ status' \in {"FAILED", "EXECUTING"}
        /\ UNCHANGED <<linkVars, tableVars, t, frameNo, toCol, toAgent>>
    BY <1>2, Zenon DEF BeginOffline, BeginUnresolved, NewDownload
  <2> QED
    BY <2>1 DEF linkVars, tableVars, LinkType, TableType, LedgerType, Frames
<1>3. ASSUME SendFrame PROVE StateType'
  <2>1. Batch(NextFrameNo(frameNo), Entries(t, meters)) \in Command
    <3>1. t \in Nat /\ meters \in Nat /\ frameNo \in 0 .. U8 - 1
      BY FramesBounded DEF TableType
    <3> QED
      BY <3>1, CommandsTyped
  <2>2. LinkType'
    BY <1>3, <2>1, SendTyped DEF SendFrame, linkVars, LinkType
  <2>3. Frames(meters) \in Nat
    BY FramesBounded DEF TableType
  <2>4. /\ t' \in 0 .. Frames(meters)
        /\ frameNo' \in 0 .. U8 - 1
        /\ UNCHANGED <<meters, found>>
    BY <1>3, <2>3 DEF SendFrame, LoopNext, NextFrameNo, TableType, tableVars
  <2>5. TableType'
    BY <2>4 DEF TableType, Frames
  <2> QED
    BY <1>3, <2>2, <2>5 DEF SendFrame, LedgerType
<1>4. ASSUME BatchAck PROVE StateType'
  <2>1. LinkType'
    BY <1>4, CommandsTyped, SendTyped, TakesTyped
       DEF BatchAck, linkVars, LinkType
  <2> QED
    BY <1>4, <2>1 DEF BatchAck, tableVars, TableType, LedgerType, Frames
<1>5. ASSUME StopAck PROVE StateType'
  BY <1>5, TakesTyped DEF StopAck, FrameNoAfterStop, linkVars, tableVars,
                          LinkType, TableType, LedgerType, Frames
<1>6. ASSUME Refused PROVE StateType'
  BY <1>6, TakesTyped DEF Refused, linkVars, tableVars,
                          LinkType, TableType, LedgerType, Frames
<1>7. ASSUME Collector PROVE StateType'
  <2>1. toCol' \in Seq(Command) /\ toAgent' \in Seq(Answer)
    <3>1. /\ toCol # <<>> /\ toCol' = Tail(toCol)
          /\ \E a \in Answer : toAgent' = Append(toAgent, a)
      BY <1>7 DEF Collector, Answer
    <3> QED
      BY <3>1 DEF LinkType
  <2>2. UNCHANGED <<linkVars, tableVars, t, frameNo, status, downloads>>
    BY <1>7, Zenon DEF Collector
  <2> QED
    BY <2>1, <2>2 DEF linkVars, tableVars,
                      LinkType, TableType, LedgerType, Frames
<1>8. ASSUME ReadError \/ ConnectionLost PROVE StateType'
  <2>1. /\ online' \in BOOLEAN /\ up' \in BOOLEAN
        /\ UNCHANGED <<tableVars, t, frameNo, status, downloads>>
    BY <1>8, Zenon DEF ReadError, ConnectionLost, LinkType
  <2>2. toCol' \in Seq(Command) /\ toAgent' \in Seq(Answer)
    <3>1. \/ toCol' = toCol /\ toAgent' = toAgent
          \/ toCol' = <<>> /\ toAgent' = <<>>
      BY <1>8, Zenon DEF ReadError, ConnectionLost
    <3>2. <<>> \in Seq(Command) /\ <<>> \in Seq(Answer)
      OBVIOUS
    <3> QED
      BY <3>1, <3>2, Zenon DEF LinkType
  <2>3. LinkType'
    BY <2>1, <2>2, Zenon DEF LinkType
  <2> QED
    BY <2>1, <2>3 DEF tableVars, TableType, LedgerType, Frames
<1>9. ASSUME Reconnect PROVE StateType'
  BY <1>9 DEF Reconnect, tableVars, LinkType, TableType, LedgerType, Frames
<1>10. ASSUME UNCHANGED vars PROVE StateType'
  BY <1>10 DEF vars, linkVars, tableVars, LinkType, TableType, LedgerType,
               Frames
<1> QED
  BY <1>1, <1>2, <1>3, <1>4, <1>5, <1>6, <1>7, <1>8, <1>9, <1>10
     DEF Next, MainThread, ReadChain

LEMMA NextHist ==
  ASSUME LedgerType, HistType, [Next]_vars
  PROVE  HistType'
<1>1. /\ \/ UNCHANGED <<refused, downloads>>
         \/ refused' \in {TRUE, FALSE} /\ downloads' = downloads
         \/ refused' \in {refused, FALSE} /\ downloads' = downloads + 1
      /\ unanswered' \in {unanswered, {}, unanswered \cup {downloads}}
  BY Zenon DEF Next, MainThread, ReadChain, Begin, BeginOffline,
     BeginUnresolved, NewDownload, SendFrame, BatchAck, StopAck, Refused,
     ReadError, Collector, ConnectionLost, Reconnect, vars, histVars
<1>2. refused' \in BOOLEAN
  BY <1>1, Zenon DEF HistType
<1>3. downloads' \in {downloads, downloads + 1}
  BY <1>1, Zenon
<1>4. unanswered' \subseteq 0 .. downloads'
  BY <1>1, <1>3 DEF HistType, LedgerType
<1> QED
  BY <1>2, <1>4 DEF HistType

LEMMA AlwaysTyped ==
  ASSUME LoopEnds
  PROVE  Spec => []TypeInv
<1>1. TypeInv /\ [Next]_vars => TypeInv'
  BY NextTyped, NextHist DEF TypeInv, StateType
<1> QED
  BY <1>1, InitTyped, PTL DEF Spec

LEMMA StateTypeSuffices ==
  ASSUME LoopEnds, TypeInv
  PROVE  TypeOK
<1>1. t \in 0 .. Frames(MaxMeters)
  BY FramesBounded, Numbers DEF TypeInv, StateType, TableType, Frames
<1>2. /\ \A i \in 1 .. Len(toCol) : toCol[i].type \in {"batch", "stop"}
      /\ \A i \in 1 .. Len(toAgent) : toAgent[i] \in Answer
  <2>1. toCol \in Seq(Command) /\ toAgent \in Seq(Answer)
    BY DEF TypeInv, StateType, LinkType
  <2>2. /\ \A i \in 1 .. Len(toCol) : toCol[i] \in Command
        /\ \A i \in 1 .. Len(toAgent) : toAgent[i] \in Answer
    BY <2>1
  <2> QED
    BY <2>2 DEF Command
<1> QED
  BY <1>1, <1>2
  DEF TypeInv, StateType, LinkType, TableType, LedgerType, HistType, TypeOK, Answer

\* Every variable keeps its type while a table has 2540 meters at most; in
\* particular the loop of operator() never goes beyond the last frame.
THEOREM DownloadTyped ==
  ASSUME LoopEnds
  PROVE  Spec => []TypeOK
BY AlwaysTyped, StateTypeSuffices, PTL

-----------------------------------------------------------------------------
(* Tables of several frames.  Commands are answered in the order in which  *)
(* they are sent, so that the first answer is that of the first frame,     *)
(* which carries the whole table; and the last end command comes after the *)
(* last frame, so that the frame number is 0 when all is quiet again.      *)

Table == 0 .. meters - 1

Whole == Table \subseteq stored

\* What has been answered may be relied upon.
Good == ~refused \/ Frames(meters) = 1

\* No download of the session before this one left a frame number behind.
Clean == unanswered \subseteq {downloads}

FrameOf(m) == \E k \in 1 .. Frames(meters) : m.entries = Entries(k, meters)

CommandOK(m) ==
  /\ m.type = "batch" =>
       FrameOf(m) /\ (Clean => m.no \in 1 .. Frames(meters))
  /\ m.type = "stop" => m.entries = {} /\ (Good => Whole)

AnswerOK(a) ==
  /\ a # "refused" /\ Good => Whole
  /\ unanswered = {} => a # "refused"

\* The commands under way, and the answers; without a connection to a collector
\* there are none.
CommandsOK == \A i \in 1 .. Len(toCol) : CommandOK(toCol[i])
AnswersOK  == \A i \in 1 .. Len(toAgent) : AnswerOK(toAgent[i])

LinkInv ==
  /\ ~up \/ ~found => toCol = <<>> /\ toAgent = <<>>
  /\ ~online => ~up /\ t = 0

\* As long as the collector does not have the table, it is to come with the next
\* command.
FirstFrame ==
  Good /\ ~Whole =>
    /\ toCol # <<>> => Table \subseteq toCol[1].entries
    /\ toCol = <<>> => t \in {0, 1} \/ ~up \/ ~found

TableInv ==
  /\ FirstFrame
  /\ status = "SUCCESSFUL" /\ Good => Whole
  /\ Frames(meters) = 1 => stored \subseteq Table

NumberInv ==
  up =>
    /\ unanswered = {} /\ t = 0 /\ frameNo # 0 => toCol # <<>> \/ toAgent # <<>>
    /\ Clean => frameNo <= IF t = 0 THEN Frames(meters) ELSE t - 1

FrameInv == CommandsOK /\ AnswersOK /\ LinkInv /\ TableInv /\ NumberInv

\* The number of frames, and what the first of them carries.
LEMMA FrameFacts ==
  ASSUME FrameFits, NEW n \in 0 .. MaxMeters
  PROVE  /\ Frames(n) \in 0 .. 6 /\ (n = 0 => Frames(n) = 0)
         /\ 0 .. n - 1 \subseteq Entries(1, n)
         /\ Frames(n) = 1 => Entries(1, n) = 0 .. n - 1
<1>1. n \in 0 .. 54
  BY Numbers DEF FrameFits
<1>2. Frames(n) \in 0 .. 6 /\ (n = 0 => Frames(n) = 0)
      /\ (Frames(n) = 1 => n \in 1 .. 10)
  BY <1>1, Numbers DEF Frames
<1>3. n = 10 => (1 * 10 - n) % U32 = 0
  BY Numbers
<1>4. n < 10 => (1 * 10 - n) % U32 = 10 - n
  BY <1>1, Numbers
<1>5. n > 10 => (1 * 10 - n) % U32 = U32 + 10 - n
  <2> SUFFICES ASSUME n > 10 PROVE (1 * 10 - n) % U32 = U32 + 10 - n
    OBVIOUS
  <2>1. U32 + 10 - n \in 0 .. U32 - 1
    BY <1>1, Numbers
  <2> QED
    BY <1>1, <2>1, Numbers
<1>6. Quantity(1, n) = n
  BY <1>1, <1>3, <1>4, <1>5, Numbers DEF Quantity
<1>7. Entries(1, n) = {i : i \in 0 .. n - 1}
  BY <1>6 DEF Entries
<1> QED
  BY <1>2, <1>7

LEMMA FitsEnds == FrameFits => LoopEnds
BY Numbers DEF FrameFits, LoopEnds

LEMMA Heads ==
  ASSUME NEW S, NEW s \in Seq(S), s # <<>>
  PROVE  /\ Head(s) = s[1] /\ 1 \in 1 .. Len(s)
         /\ \A i \in 1 .. Len(Tail(s)) :
              Tail(s)[i] = s[i + 1] /\ i + 1 \in 1 .. Len(s)
         /\ Tail(s) # <<>> => Tail(s)[1] = s[2] /\ 2 \in 1 .. Len(s)
OBVIOUS

LEMMA Appended ==
  ASSUME NEW S, NEW s \in Seq(S), NEW m,
         NEW i \in 1 .. Len(Append(s, m))
  PROVE  \/ i \in 1 .. Len(s) /\ Append(s, m)[i] = s[i]
         \/ Append(s, m)[i] = m
OBVIOUS

LEMMA AppendedFirst ==
  ASSUME NEW S, NEW s \in Seq(S), NEW m
  PROVE  /\ Append(s, m) # <<>>
         /\ s # <<>> => Append(s, m)[1] = s[1]
         /\ s = <<>> => Append(s, m)[1] = m
OBVIOUS

\* What CommandOK and AnswerOK look at.
Kept == UNCHANGED <<meters, stored, downloads, refused, unanswered>>

LEMMA KeptOK ==
  ASSUME Kept, NEW m
  PROVE  (CommandOK(m) => CommandOK(m)') /\ (AnswerOK(m) => AnswerOK(m)')
BY DEF Kept, CommandOK, AnswerOK, FrameOf, Clean, Good, Whole, Table, Frames,
       Entries, Quantity

\* A command is appended, or lost.
LEMMA SendKeeps ==
  ASSUME TypeInv, CommandsOK, Kept, NEW m, Send(m), up /\ found => CommandOK(m)'
  PROVE  CommandsOK'
<1> SUFFICES ASSUME NEW i \in (1 .. Len(toCol))' PROVE CommandOK(toCol[i])'
  BY DEF CommandsOK
<1>1. PICK x : x = toCol'[i]
  OBVIOUS
<1>2. (x = m /\ up /\ found) \/ \E j \in 1 .. Len(toCol) : x = toCol[j]
  <2>1. CASE toCol' = toCol
    BY <1>1, <2>1
  <2>2. CASE toCol' = Append(toCol, m) /\ up /\ found
    BY <1>1, <2>2, Appended DEF TypeInv, StateType, LinkType
  <2> QED
    BY <2>1, <2>2 DEF Send
<1>3. CommandOK(x)'
  BY <1>2, KeptOK DEF CommandsOK
<1> QED
  BY <1>1, <1>3

LEMMA UnsentKeeps ==
  ASSUME CommandsOK, Kept, UNCHANGED toCol
  PROVE  CommandsOK'
<1> SUFFICES ASSUME NEW i \in (1 .. Len(toCol))' PROVE CommandOK(toCol[i])'
  BY DEF CommandsOK
<1>1. PICK x : x = toCol[i]
  OBVIOUS
<1>2. CommandOK(x)'
  BY <1>1, KeptOK DEF CommandsOK
<1> QED
  BY <1>1, <1>2

LEMMA UntakenKeeps ==
  ASSUME AnswersOK, Kept, UNCHANGED toAgent
  PROVE  AnswersOK'
<1> SUFFICES ASSUME NEW i \in (1 .. Len(toAgent))' PROVE AnswerOK(toAgent[i])'
  BY DEF AnswersOK
<1>1. PICK x : x = toAgent[i]
  OBVIOUS
<1>2. AnswerOK(x)'
  BY <1>1, KeptOK DEF AnswersOK
<1> QED
  BY <1>1, <1>2

\* Where nothing is under way there is nothing to be kept.
LEMMA NothingKept ==
  ASSUME toCol' = <<>>, toAgent' = <<>>
  PROVE  CommandsOK' /\ AnswersOK'
BY DEF CommandsOK, AnswersOK

\* The read chain takes an answer: what is left is as it was.
LEMMA TakesKeeps ==
  ASSUME TypeInv, AnswersOK, NEW r, Takes(r), Kept
  PROVE  AnswerOK(r) /\ AnswersOK'
<1>1. /\ toAgent \in Seq(Answer) /\ toAgent # <<>>
      /\ Head(toAgent) = r /\ toAgent' = Tail(toAgent)
  BY DEF TypeInv, StateType, LinkType, Takes
<1>2. AnswerOK(r)
  BY <1>1, Heads DEF AnswersOK
<1>3. ASSUME NEW i \in (1 .. Len(toAgent))' PROVE AnswerOK(toAgent[i])'
  <2>1. PICK x : x = toAgent'[i] /\ x = toAgent[i + 1] /\ i + 1 \in 1 .. Len(toAgent)
    BY <1>1, Heads
  <2>2. AnswerOK(x)'
    BY <2>1, KeptOK DEF AnswersOK
  <2> QED
    BY <2>1, <2>2
<1> QED
  BY <1>2, <1>3 DEF AnswersOK

\* It does so only on a connection to a collector.
LEMMA TakesLinked ==
  ASSUME LinkInv, NEW r, Takes(r)
  PROVE  up /\ found /\ online
BY DEF LinkInv, Takes

-----------------------------------------------------------------------------
(* One lemma for each step.                                                *)

\* What TableInv and NumberInv look at beside the queues.
Defs == UNCHANGED <<Whole, Good, Clean, Table, Frames(meters)>>

LEMMA KeptDefs == Kept => Defs
BY DEF Kept, Defs, Whole, Good, Clean, Table, Frames

LEMMA InitKeeps == Init => FrameInv
<1> SUFFICES ASSUME Init PROVE FrameInv
  OBVIOUS
<1>1. /\ toCol = <<>> /\ toAgent = <<>> /\ t = 0 /\ frameNo = 0 /\ stored = {}
      /\ meters = 0 /\ status = "NONE" /\ online /\ up
  BY Zenon DEF Init
<1>2. Frames(meters) = 0
  BY <1>1, Numbers DEF Frames
<1> QED
  BY <1>1, <1>2 DEF FrameInv, CommandsOK, AnswersOK, LinkInv, TableInv,
                    NumberInv, FirstFrame

LEMMA BeginKeeps ==
  ASSUME FrameFits, TypeInv, FrameInv, NEW n \in 0 .. MaxMeters, Begin(n)
  PROVE  FrameInv'
<1>1. /\ t = 0 /\ toCol = <<>> /\ toAgent = <<>> /\ online
      /\ meters' = n /\ status' = "EXECUTING" /\ stored' = {}
      /\ t' = IF Frames(n) = 0 THEN 0 ELSE 1
      /\ downloads' = downloads + 1
      /\ UNCHANGED <<online, up, frameNo, toCol, toAgent, unanswered>>
  BY Zenon DEF Begin, NewDownload, Quiet, linkVars
<1>2. Frames(n) \in 0 .. 6
  BY FrameFacts
<1>3. Frames(meters)' = Frames(n)
  BY <1>1 DEF Frames
<1>4. Clean' => unanswered = {}
  BY <1>1 DEF Clean, TypeInv, StateType, LedgerType, HistType
<1>5. up /\ unanswered = {} => frameNo = 0
  BY <1>1 DEF FrameInv, NumberInv
<1>6. NumberInv'
  <2>1. unanswered' = {} => Clean'
    BY DEF Clean
  <2>2. t' = 0 => Frames(n) = 0
    BY <1>1
  <2> QED
    BY <1>1, <1>2, <1>3, <1>4, <1>5, <2>1, <2>2 DEF NumberInv
<1>7. TableInv'
  BY <1>1 DEF TableInv, FirstFrame
<1> QED
  BY <1>1, <1>6, <1>7, NothingKept DEF FrameInv, LinkInv

LEMMA OthersBegin ==
  ASSUME TypeInv, FrameInv, BeginOffline \/ BeginUnresolved
  PROVE  FrameInv'
<1>1. /\ t = 0 /\ toCol = <<>> /\ toAgent = <<>> /\ status' # "SUCCESSFUL"
      /\ downloads' = downloads + 1
      /\ UNCHANGED <<online, up, meters, found, t, frameNo, toCol, toAgent,
                     stored, refused, unanswered>>
  BY Zenon DEF BeginOffline, BeginUnresolved, NewDownload, Quiet, linkVars,
               tableVars, histVars
<1>2. Clean' => Clean
  BY <1>1 DEF Clean, TypeInv, StateType, LedgerType, HistType
<1>3. UNCHANGED <<Whole, Good, Table, Frames(meters)>>
  BY <1>1 DEF Whole, Good, Table, Frames
<1>4. TableInv'
  BY <1>1, <1>3 DEF FrameInv, TableInv, FirstFrame
<1>5. NumberInv'
  BY <1>1, <1>2, <1>3 DEF FrameInv, NumberInv
<1> QED
  BY <1>1, <1>4, <1>5, NothingKept DEF FrameInv, LinkInv

LEMMA SendFrameKeeps ==
  ASSUME FrameFits, TypeInv, FrameInv, SendFrame
  PROVE  FrameInv'
<1> DEFINE m == Batch(NextFrameNo(frameNo), Entries(t, meters))
<1>1. /\ t > 0 /\ frameNo' = NextFrameNo(frameNo) /\ Send(m)
      /\ t' = LoopNext(t, meters)
      /\ unanswered' = IF found THEN unanswered ELSE unanswered \cup {downloads}
      /\ UNCHANGED <<online, up, meters, found, toAgent, stored, status,
                     downloads, refused>>
  BY Zenon DEF SendFrame, linkVars, tableVars
<1>2. /\ Frames(meters) \in 1 .. 6 /\ t \in 1 .. Frames(meters)
      /\ meters \in 0 .. MaxMeters
  BY <1>1, FrameFacts DEF TypeInv, StateType, TableType
<1>3. /\ t' \in 0 .. Frames(meters)
      /\ t = (IF t' = 0 THEN Frames(meters) ELSE t' - 1)
  BY <1>1, <1>2 DEF LoopNext
<1>4. UNCHANGED <<Whole, Good, Table, Frames(meters)>>
  BY <1>1 DEF Whole, Good, Table, Frames
<1>5. m.type = "batch" /\ m.no = NextFrameNo(frameNo) /\ m.entries = Entries(t, meters)
  BY DEF Batch
<1> HIDE DEF m
<1>6. CASE up /\ found
  <2>1. Kept /\ Defs
    BY <1>1, <1>6, KeptDefs DEF Kept
  <2>2. Clean => frameNo' \in 1 .. t
    <3> SUFFICES ASSUME Clean PROVE frameNo' \in 1 .. t
      OBVIOUS
    <3>1. frameNo <= t - 1 /\ frameNo \in Nat
      BY <1>2, <1>6, Numbers DEF FrameInv, NumberInv, TypeInv, StateType, TableType
    <3> QED
      BY <1>1, <1>2, <3>1, Numbers DEF NextFrameNo
  <2>3. CommandOK(m)
    BY <1>1, <1>2, <1>5, <2>2 DEF CommandOK, FrameOf
  <2>4. CommandsOK' /\ AnswersOK'
    BY <1>1, <2>1, <2>3, SendKeeps, UntakenKeeps, KeptOK DEF FrameInv
  <2>5. toCol' = Append(toCol, m) /\ toCol \in Seq(Command)
    BY <1>1, <1>6 DEF Send, TypeInv, StateType, LinkType
  <2>6. FirstFrame'
    <3> SUFFICES ASSUME Good, ~Whole
                 PROVE  toCol' # <<>> /\ Table \subseteq toCol'[1].entries
      BY <1>4 DEF FirstFrame
    <3>1. CASE toCol = <<>>
      <4>1. t = 1
        BY <1>2, <1>6, <3>1 DEF FrameInv, TableInv, FirstFrame
      <4>2. Table \subseteq m.entries
        BY <1>2, <1>5, <4>1, FrameFacts DEF Table
      <4> QED
        BY <2>5, <3>1, <4>2, AppendedFirst
    <3>2. CASE toCol # <<>>
      BY <2>5, <3>2, AppendedFirst DEF FrameInv, TableInv, FirstFrame
    <3> QED
      BY <3>1, <3>2
  <2>7. TableInv'
    BY <1>1, <1>4, <2>6 DEF FrameInv, TableInv
  <2>8. NumberInv'
    BY <1>2, <1>3, <2>1, <2>2, <2>5, AppendedFirst DEF NumberInv, Defs
  <2> QED
    BY <1>1, <1>6, <2>4, <2>7, <2>8 DEF FrameInv, LinkInv
<1>7. CASE ~(up /\ found)
  <2>1. toCol = <<>> /\ toAgent = <<>> /\ toCol' = <<>> /\ toAgent' = <<>>
    BY <1>1, <1>7 DEF Send, FrameInv, LinkInv
  <2>2. LinkInv'
    BY <1>1, <1>7, <2>1 DEF FrameInv, LinkInv
  <2>3. TableInv'
    BY <1>1, <1>4, <1>7, <2>1 DEF FrameInv, TableInv, FirstFrame
  <2>4. NumberInv'
    <3> SUFFICES ASSUME up, Clean'
                 PROVE  unanswered' # {} /\ frameNo' <= t
      BY <1>1, <1>3, <1>4 DEF NumberInv, Clean
    <3>1. unanswered' # {} /\ Clean
      BY <1>1, <1>7 DEF Clean
    <3>2. frameNo <= t - 1 /\ frameNo \in Nat
      BY <1>2, <3>1, Numbers DEF FrameInv, NumberInv, TypeInv, StateType, TableType
    <3> QED
      BY <1>1, <1>2, <3>1, <3>2, Numbers DEF NextFrameNo
  <2> QED
    BY <2>1, <2>2, <2>3, <2>4, NothingKept DEF FrameInv
<1> QED
  BY <1>6, <1>7

LEMMA BatchAckKeeps ==
  ASSUME TypeInv, FrameInv, BatchAck
  PROVE  FrameInv'
<1>1. /\ Takes("batchAck") /\ Send(Stop)
      /\ UNCHANGED <<online, up, meters, found, t, frameNo, stored, status,
                     downloads, refused, unanswered>>
  BY Zenon DEF BatchAck, linkVars, tableVars, histVars
<1>2. Kept /\ Defs /\ up /\ found /\ online
  BY <1>1, KeptDefs, TakesLinked DEF Kept, FrameInv
<1>3. (Good => Whole) /\ AnswersOK'
  BY <1>1, <1>2, TakesKeeps DEF FrameInv, AnswerOK
<1>4. CommandOK(Stop)'
  BY <1>2, <1>3 DEF CommandOK, Stop, Defs
<1>5. CommandsOK'
  BY <1>1, <1>2, <1>4, SendKeeps DEF FrameInv
<1>6. toCol' # <<>>
  BY <1>1, <1>2, AppendedFirst DEF Send, TypeInv, StateType, LinkType
<1>7. TableInv' /\ NumberInv'
  BY <1>1, <1>2, <1>3, <1>6 DEF FrameInv, TableInv, FirstFrame, NumberInv, Defs
<1> QED
  BY <1>1, <1>2, <1>3, <1>5, <1>7 DEF FrameInv, LinkInv

LEMMA StopAckKeeps ==
  ASSUME FrameFits, TypeInv, FrameInv, StopAck
  PROVE  FrameInv'
<1>1. /\ Takes("stopAck") /\ frameNo' = 0
      /\ UNCHANGED <<online, up, meters, found, t, toCol, stored,
                     downloads, refused, unanswered>>
  BY Zenon DEF StopAck, FrameNoAfterStop, linkVars, tableVars, histVars
<1>2. Kept /\ Defs /\ up /\ found /\ online
  BY <1>1, KeptDefs, TakesLinked DEF Kept, FrameInv
<1>3. (Good => Whole) /\ AnswersOK'
  BY <1>1, <1>2, TakesKeeps DEF FrameInv, AnswerOK
<1>4. CommandsOK'
  BY <1>1, <1>2, UnsentKeeps DEF FrameInv
<1>5. TableInv'
  BY <1>1, <1>2, <1>3 DEF FrameInv, TableInv, FirstFrame, Defs
<1>6. NumberInv'
  <2>1. Frames(meters) \in Nat /\ t \in Nat
    BY FrameFacts DEF TypeInv, StateType, TableType
  <2> QED
    BY <1>1, <1>2, <2>1 DEF NumberInv, Defs
<1> QED
  BY <1>1, <1>2, <1>3, <1>4, <1>5, <1>6 DEF FrameInv, LinkInv

LEMMA RefusedKeeps ==
  ASSUME TypeInv, FrameInv, Refused
  PROVE  FrameInv'
<1>1. /\ Takes("refused")
      /\ UNCHANGED <<online, up, meters, found, t, frameNo, toCol, stored,
                     status, downloads, refused, unanswered>>
  BY Zenon DEF Refused, linkVars, tableVars, histVars
<1>2. Kept /\ Defs /\ up /\ found /\ online
  BY <1>1, KeptDefs, TakesLinked DEF Kept, FrameInv
<1>3. unanswered # {} /\ AnswersOK'
  BY <1>1, <1>2, TakesKeeps DEF FrameInv, AnswerOK
<1>4. CommandsOK'
  BY <1>1, <1>2, UnsentKeeps DEF FrameInv
<1>5. TableInv' /\ NumberInv'
  BY <1>1, <1>2, <1>3 DEF FrameInv, TableInv, FirstFrame, NumberInv, Defs
<1> QED
  BY <1>1, <1>2, <1>3, <1>4, <1>5 DEF FrameInv, LinkInv

\* A command is answered: what was known of the others is still so.
LEMMA AnsweredKeeps ==
  ASSUME TypeInv, FrameInv, NEW a,
         toCol # <<>>, toCol' = Tail(toCol), toAgent' = Append(toAgent, a),
         UNCHANGED <<meters, downloads>>,
         Good' => Good, Whole => Whole', Clean' => Clean,
         unanswered' = {} => unanswered = {}, AnswerOK(a)'
  PROVE  CommandsOK' /\ AnswersOK'
<1>1. UNCHANGED Frames(meters)
  BY DEF Frames
<1>2. ASSUME NEW i \in (1 .. Len(toCol))' PROVE CommandOK(toCol[i])'
  <2>1. PICK x : x = toCol'[i] /\ x = toCol[i + 1] /\ i + 1 \in 1 .. Len(toCol)
    BY Heads DEF TypeInv, StateType, LinkType
  <2>2. CommandOK(x)
    BY <2>1 DEF FrameInv, CommandsOK
  <2>3. FrameOf(x) => FrameOf(x)'
    BY <1>1 DEF FrameOf, Entries, Quantity
  <2>4. CommandOK(x)'
    BY <1>1, <2>2, <2>3 DEF CommandOK
  <2> QED
    BY <2>1, <2>4
<1>3. ASSUME NEW i \in (1 .. Len(toAgent))' PROVE AnswerOK(toAgent[i])'
  <2>1. PICK x : x = toAgent'[i] /\ (x = a \/ \E j \in 1 .. Len(toAgent) : x = toAgent[j])
    BY Appended DEF TypeInv, StateType, LinkType
  <2>2. x = a \/ AnswerOK(x)
    BY <2>1 DEF FrameInv, AnswersOK
  <2>3. AnswerOK(x)'
    BY <2>2 DEF AnswerOK
  <2> QED
    BY <2>1, <2>3
<1> QED
  BY <1>2, <1>3 DEF CommandsOK, AnswersOK

LEMMA CollectorKeeps ==
  ASSUME FrameFits, TypeInv, FrameInv, Collector
  PROVE  FrameInv'
<1>1. /\ toCol \in Seq(Command) /\ toCol # <<>> /\ toCol' = Tail(toCol)
      /\ toAgent \in Seq(Answer)
      /\ UNCHANGED <<online, up, meters, found, t, frameNo, status, downloads>>
  BY Zenon DEF Collector, TypeInv, StateType, LinkType, linkVars, tableVars
<1>2. up /\ found /\ online
  BY <1>1 DEF FrameInv, LinkInv
<1>3. PICK c : /\ c = Head(toCol) /\ c = toCol[1] /\ CommandOK(c)
               /\ c.type \in {"batch", "stop"}
  <2>1. Head(toCol) \in Command
    BY <1>1
  <2>2. Head(toCol) = toCol[1] /\ CommandOK(Head(toCol))
    BY <1>1, Heads DEF FrameInv, CommandsOK
  <2> QED
    BY <2>1, <2>2 DEF Command
<1>4. UNCHANGED <<Table, Frames(meters)>>
  BY <1>1 DEF Table, Frames
<1>5. ASSUME NEW m, CommandOK(m), m.type \in {"batch", "stop"}, Frames(meters) = 1
      PROVE  \/ m.entries = Table
             \/ m.type = "stop" /\ m.entries = {}
  <2>1. Entries(1, meters) = Table
    BY <1>5, FrameFacts DEF Table, TypeInv, StateType, TableType
  <2>2. m.type = "batch" => \E k \in 1 .. 1 : m.entries = Entries(k, meters)
    BY <1>5 DEF CommandOK, FrameOf
  <2>3. m.type = "batch" => m.entries = Entries(1, meters)
    <3>1. ASSUME NEW k \in 1 .. 1 PROVE k = 1
      OBVIOUS
    <3> QED
      BY <2>2, <3>1
  <2> QED
    BY <1>5, <2>1, <2>3 DEF CommandOK
<1>6. CASE \E a \in {"batchAck", "stopAck"} :
             /\ stored' = stored \cup c.entries /\ toAgent' = Append(toAgent, a)
             /\ UNCHANGED histVars
  <2>1. PICK a \in {"batchAck", "stopAck"} : toAgent' = Append(toAgent, a)
    BY <1>6
  <2>2. /\ stored' = stored \cup c.entries
        /\ UNCHANGED <<refused, unanswered>>
    BY <1>6, Zenon DEF histVars
  <2>3. UNCHANGED <<Good, Clean>> /\ (Whole => Whole')
    BY <1>1, <1>4, <2>2 DEF Good, Clean, Whole
  <2>4. Good => Whole'
    BY <1>1, <1>3, <1>4, <2>2 DEF Whole, FrameInv, TableInv, FirstFrame
  <2>5. AnswerOK(a)'
    BY <2>3, <2>4 DEF AnswerOK
  <2>6. CommandsOK' /\ AnswersOK'
    BY <1>1, <2>1, <2>2, <2>3, <2>5, AnsweredKeeps
  <2>7. Frames(meters) = 1 => stored' \subseteq Table
    BY <1>3, <1>5, <2>2 DEF FrameInv, TableInv
  <2>8. TableInv'
    BY <1>1, <1>4, <2>3, <2>4, <2>7 DEF TableInv, FirstFrame
  <2>9. NumberInv'
    BY <1>1, <1>4, <2>1, <2>3, <2>2, AppendedFirst DEF FrameInv, NumberInv
  <2> QED
    BY <1>1, <1>2, <2>6, <2>8, <2>9 DEF FrameInv, LinkInv
<1>7. CASE /\ toAgent' = Append(toAgent, "refused") /\ stored' = stored
           /\ refused' = TRUE /\ unanswered' = unanswered \cup {downloads}
  <2>1. /\ Good' => Good /\ Frames(meters) = 1
        /\ Clean' = Clean /\ unanswered' # {} /\ Whole' = Whole
    BY <1>1, <1>4, <1>7 DEF Good, Clean, Whole
  <2>2. AnswerOK("refused")'
    BY <2>1 DEF AnswerOK
  <2>3. CommandsOK' /\ AnswersOK'
    BY <1>1, <1>7, <2>1, <2>2, AnsweredKeeps
  <2>4. FirstFrame'
    <3> SUFFICES ASSUME Good, Frames(meters) = 1, ~Whole
                 PROVE  /\ toCol' # <<>> => Table \subseteq toCol'[1].entries
                        /\ t \in {0, 1}
      BY <1>1, <1>4, <2>1 DEF FirstFrame
    <3>1. t \in {0, 1}
      BY DEF TypeInv, StateType, TableType
    <3>2. ASSUME toCol' # <<>> PROVE Table \subseteq toCol'[1].entries
      <4>1. PICK x : x = toCol'[1] /\ x = toCol[2] /\ 2 \in 1 .. Len(toCol)
        BY <1>1, <3>2, Heads
      <4>2. CommandOK(x) /\ x \in Command
        BY <1>1, <4>1 DEF FrameInv, CommandsOK
      <4>3. x.type = "batch"
        BY <4>2 DEF CommandOK, Command
      <4> QED
        BY <1>5, <4>1, <4>2, <4>3
    <3> QED
      BY <3>1, <3>2
  <2>5. TableInv'
    BY <1>1, <1>4, <1>7, <2>1, <2>4 DEF FrameInv, TableInv
  <2>6. NumberInv'
    BY <1>1, <1>4, <2>1 DEF FrameInv, NumberInv
  <2> QED
    BY <1>1, <1>2, <2>3, <2>5, <2>6 DEF FrameInv, LinkInv
<1> QED
  BY <1>3, <1>6, <1>7 DEF Collector

LEMMA ReadErrorKeeps ==
  ASSUME FrameInv, ReadError
  PROVE  FrameInv'
<1>1. /\ online /\ ~up /\ t = 0 /\ online' = FALSE
      /\ UNCHANGED <<up, meters, found, t, frameNo, toCol, toAgent, stored,
                     status, downloads, refused, unanswered>>
  BY Zenon DEF ReadError, tableVars, histVars
<1>2. Kept /\ Defs
  BY <1>1, KeptDefs DEF Kept
<1>3. CommandsOK' /\ AnswersOK'
  BY <1>1, <1>2, UnsentKeeps, UntakenKeeps DEF FrameInv
<1>4. TableInv' /\ NumberInv'
  BY <1>1, <1>2 DEF FrameInv, TableInv, FirstFrame, NumberInv, Defs
<1> QED
  BY <1>1, <1>3, <1>4 DEF FrameInv, LinkInv

LEMMA ConnectionLostKeeps ==
  ASSUME FrameInv, ConnectionLost
  PROVE  FrameInv'
<1>1. /\ up /\ up' = FALSE /\ toCol' = <<>> /\ toAgent' = <<>>
      /\ UNCHANGED <<online, meters, found, t, frameNo, stored, status,
                     downloads, refused, unanswered>>
  BY Zenon DEF ConnectionLost, tableVars, histVars
<1>2. Defs
  BY <1>1, KeptDefs DEF Kept
<1>3. TableInv' /\ NumberInv'
  BY <1>1, <1>2 DEF FrameInv, TableInv, FirstFrame, NumberInv, Defs
<1> QED
  BY <1>1, <1>3, NothingKept DEF FrameInv, LinkInv

LEMMA ReconnectKeeps ==
  ASSUME FrameFits, TypeInv, FrameInv, Reconnect
  PROVE  FrameInv'
<1>1. /\ t = 0 /\ toCol = <<>> /\ toAgent = <<>> /\ online' /\ up'
      /\ frameNo' = 0 /\ unanswered' = {}
      /\ UNCHANGED <<meters, found, t, toCol, toAgent, stored, status,
                     downloads, refused>>
  BY Zenon DEF Reconnect, tableVars, FrameInv, LinkInv
<1>2. UNCHANGED <<Whole, Good, Table, Frames(meters)>>
  BY <1>1 DEF Whole, Good, Table, Frames
<1>3. TableInv'
  BY <1>1, <1>2 DEF FrameInv, TableInv, FirstFrame
<1>4. NumberInv'
  <2>1. Frames(meters) \in Nat
    BY FrameFacts DEF TypeInv, StateType, TableType
  <2> QED
    BY <1>1, <1>2, <2>1 DEF NumberInv
<1> QED
  BY <1>1, <1>3, <1>4, NothingKept DEF FrameInv, LinkInv

LEMMA UnchangedKeeps ==
  ASSUME FrameInv, UNCHANGED vars
  PROVE  FrameInv'
<1>1. UNCHANGED <<online, up, meters, found, t, frameNo, toCol, toAgent, stored,
                  status, downloads, refused, unanswered>>
  BY Zenon DEF vars, linkVars, tableVars, histVars
<1>2. Kept /\ Defs
  BY <1>1, KeptDefs DEF Kept
<1>3. CommandsOK' /\ AnswersOK'
  BY <1>1, <1>2, UnsentKeeps, UntakenKeeps DEF FrameInv
<1> QED
  BY <1>1, <1>2, <1>3
  DEF FrameInv, LinkInv, TableInv, FirstFrame, NumberInv, Defs

LEMMA NextKeeps ==
  ASSUME FrameFits, TypeInv, FrameInv, [Next]_vars
  PROVE  FrameInv'
BY Zenon, BeginKeeps, OthersBegin, SendFrameKeeps, BatchAckKeeps, StopAckKeeps,
   RefusedKeeps, CollectorKeeps, ReadErrorKeeps, ConnectionLostKeeps,
   ReconnectKeeps, UnchangedKeeps DEF Next, MainThread, ReadChain

LEMMA AlwaysFramed ==
  ASSUME FrameFits
  PROVE  Spec => [](TypeInv /\ FrameInv)
<1>1. TypeInv /\ FrameInv /\ [Next]_vars => FrameInv'
  BY NextKeeps
<1>2. Spec => []TypeInv
  BY FitsEnds, AlwaysTyped
<1> QED
  BY <1>1, <1>2, InitKeeps, PTL DEF Spec

-----------------------------------------------------------------------------
\* For tables of up to 54 meters: whatever frame's acknowledgement ended the
\* download, a reported success means that the collector has the whole table,
\* unless it refused a command of several frames; what it has in one frame is
\* nothing but the table.  The first frame carries the whole table and is
\* answered first.
THEOREM SuccessSafe ==
  ASSUME FrameFits
  PROVE  Spec => []SuccessMeansStored
<1>1. FrameInv => SuccessMeansStored
  BY DEF FrameInv, TableInv, SuccessMeansStored, Good, Whole, Table
<1> QED
  BY <1>1, AlwaysFramed, PTL

\* For tables of up to 54 meters: although an end in the middle of a download
\* resets the frame number, its frames are numbered from 1 to their number, if
\* no earlier download of the session had a command refused or addressed to
\* collector 0.  The last end of a download comes after its last frame.
THEOREM NumberingSafe ==
  ASSUME FrameFits
  PROVE  Spec => []FramesNumberedFromOne
<1>1. FrameInv => FramesNumberedFromOne
  BY DEF FrameInv, CommandsOK, CommandOK, FramesNumberedFromOne, Clean
<1> QED
  BY <1>1, AlwaysFramed, PTL
=============================================================================
