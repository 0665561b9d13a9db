----------------------------- MODULE AdHocReader -----------------------------
(***************************************************************************)
(* The read chain of a session in the ad-hoc-network agent, byte for byte, *)
(* and its deadline (client_session.cc).                                   *)
(*                                                                         *)
(* A manager sends its registration, then heartbeats of one byte 0xfe and, *)
(* for each request, a line "OK ... CR LF" and a reply:                    *)
(*                                                                         *)
(*     "ANS 5 ..."  RECEIVE, 26 bytes                                      *)
(*     "ANS D ..."  hexadecimal text; L, its length byte, gives the length *)
(*                                                                         *)
(* async_read_some returns any number of bytes up to the length asked for; *)
(* OnRead and OnReadSpec guess from what they have how many more to ask    *)
(* for.  A block of readings has the number of meters where other replies  *)
(* have their length, so that _n_flag must say which is to come.           *)
(*                                                                         *)
(* _data always holds consecutive bytes of what was sent: the bytes        *)
(* from + 1 .. taken.  Bytes that are not looked at have no value here.    *)
(***************************************************************************)
EXTENDS Integers, Sequences, FiniteSets

CONSTANTS
  OkLines,      \* lengths of the line that confirms a request
  Kinds,        \* the replies other than blocks that occur
  Blocks,       \* numbers of meters in a block of readings
  MaxReplies,   \* bound on the replies
  MaxBeats,     \* bound on the heartbeats
  MaxChunk,     \* a read returns up to MaxChunk bytes, or all there are
  Pipelined,    \* a reply is sent although another has not been handled
  BeatInside,   \* a heartbeat is sent between a line and its reply
  BlockRefused  \* an error is sent where a block is due

ASSUME ConstantsAssumption ==
  /\ Kinds \subseteq {"receive", "refused", "ack", "ready", "result"}
  /\ OkLines \subseteq 4 .. 11
  /\ Blocks \subseteq Nat \ {0}
  /\ {MaxReplies, MaxBeats, MaxChunk} \subseteq Nat
  /\ {Pipelined, BeatInside, BlockRefused} \subseteq BOOLEAN

VARIABLES
  stream,    \* what the manager has sent, in items
  replies,   \* the replies among them
  from,      \* _data begins after this many bytes of the stream
  taken,     \* bytes read from the socket
  data_len,  \* _data_len
  n_flag,    \* _n_flag
  pc,        \* the operation pending on the socket, or the handler running,
             \* which may be in a loop without end
  rd,        \* the length asked for
  link,      \* the socket: "none", "up", "silent" (peer gone, no FIN), "closed"
  wait,      \* async_wait: "none", "pending", "due" (its handler is queued)
  expiry,    \* expires_at: "unset", "running", "past", "never"
  handled    \* kinds of the replies handlers have been called for

wireVars   == <<stream, replies, taken>>
bufferVars == <<from, data_len, n_flag>>
readVars   == <<pc, rd>>
timerVars  == <<wait, expiry>>
vars == <<wireVars, bufferVars, readVars, link, timerVars, handled>>

-----------------------------------------------------------------------------
(* The bytes on the connection.                                            *)

\* struct Regist
REG_LENGTH == 21

BUFSIZE == 1024

\* The length byte of the replies with a length, and of a block.
LengthByte(k) ==
  CASE k = "refused" -> 10
    [] k \in {"ack", "ready"} -> 11
    [] k = "result" -> 21

ShortReply == {"receive", "refused", "ack", "ready", "result"}
BlockReply == {"block", "last"}

\* Items, with the number of bytes before and in them.
Item(k, l, start, size) ==
  [kind |-> k, len |-> l, start |-> start, size |-> size]

Total == IF stream = <<>> THEN 0
         ELSE stream[Len(stream)].start + stream[Len(stream)].size

OkLine(start, size) == Item("ok", 0, start, size)
Beat(start)         == Item("beat", 0, start, 1)
ShortItem(k, start) ==
  IF k = "receive" THEN Item(k, 0, start, 26)
                   ELSE Item(k, LengthByte(k), start, 3 * LengthByte(k) + 5)
BlockItem(k, n, start) == Item(k, n, start, 57 * n + 38)

IsReply(i) == i.kind \in ShortReply \cup BlockReply

\* The kinds of the replies sent so far.
Sent == [n \in 1 .. Len(replies) |-> replies[n].kind]

\* The item that byte j of the stream belongs to.
ItemAt(j) ==
  stream[CHOOSE n \in 1 .. Len(stream) :
           j \in stream[n].start + 1 .. stream[n].start + stream[n].size]

\* What the code can tell of _data[i], when the buffer ends at byte to.
Byte(i, to) ==
  LET it == ItemAt(from + i + 1)
      o  == from + i - it.start
  IN IF from + i >= to THEN "zero"
     ELSE CASE it.kind = "beat" -> "0xfe"
            [] it.kind = "ok" /\ o = 0 -> "O"
            [] it.kind = "ok" /\ o = 1 -> "K"
            [] it.kind = "ok" /\ o = it.size - 2 -> "CR"
            [] it.kind = "ok" /\ o = it.size - 1 -> "LF"
            [] IsReply(it) /\ o = 0 -> "A"
            [] IsReply(it) /\ o = 1 -> "N"
            [] IsReply(it) /\ o = 2 -> "S"
            [] IsReply(it) /\ o = 4 -> IF it.kind = "receive" THEN "5" ELSE "D"
            [] OTHER -> "other"

\* hexToAscii(_data + 7), where _data begins with a reply.
OriginLen == ItemAt(from + 1).len

-----------------------------------------------------------------------------
TypeOK ==
  /\ taken \in 0 .. Total /\ from \in 0 .. taken
  /\ data_len \in Nat
  /\ n_flag \in {0, 1}
  /\ pc \in {"accept", "reg", "read", "spec", "handler", "loop", "none"}
  /\ rd \in Nat
  /\ link \in {"none", "up", "silent", "closed"}
  /\ wait \in {"none", "pending", "due"}
  /\ expiry \in {"unset", "running", "past", "never"}
  /\ \A i \in 1 .. Len(handled) :
       handled[i] \in ShortReply \cup BlockReply \cup {"cut"}

\* The constructor starts a wait without having set an expiry.
Init ==
  /\ stream = <<>> /\ replies = <<>>
  /\ from = 0 /\ taken = 0 /\ data_len = 0
  /\ n_flag = 0
  /\ pc = "accept" /\ rd = 0
  /\ link = "none"
  /\ wait = "pending" /\ expiry = "unset"
  /\ handled = <<>>

-----------------------------------------------------------------------------
(* Starting a read.  expires_from_now cancels the wait, whose handler then *)
(* runs with an error it does not look at.                                 *)

Expires == /\ expiry' = "running"
           /\ wait' = IF wait = "pending" THEN "due" ELSE wait

ReadReg(n) == pc' = "reg" /\ rd' = n /\ UNCHANGED timerVars
Read(n)    == pc' = "read" /\ rd' = n /\ Expires
ReadSpec(n) == pc' = "spec" /\ rd' = n /\ Expires

\* The manager's connection is accepted: ReadReg(REG_LENGTH).
Accept ==
  /\ pc = "accept"
  /\ link' = "up"
  /\ stream' = <<Item("reg", 0, 0, REG_LENGTH)>>
  /\ ReadReg(REG_LENGTH)
  /\ UNCHANGED <<replies, taken, bufferVars, handled>>

\* The numbers of bytes a read returns: a read of no bytes ends at once.
Chunks ==
  LET m == IF rd < Total - taken THEN rd ELSE Total - taken
  IN IF rd = 0 THEN {0} ELSE {n \in 1 .. m : n <= MaxChunk \/ n = m}

Completes(p, n) ==
  /\ pc = p
  /\ link = "up"
  /\ taken' = taken + n
  /\ UNCHANGED <<stream, replies, link>>

OnReadReg(n) ==
  /\ Completes("reg", n)
  /\ IF taken + n < REG_LENGTH
       THEN /\ ReadReg(REG_LENGTH - (taken + n))
            /\ UNCHANGED from
       ELSE /\ pc' = "handler" /\ rd' = 0       \* regDev
            /\ from' = taken + n
            /\ UNCHANGED timerVars
  /\ UNCHANGED <<data_len, n_flag, handled>>

\* memset, _data_pos = _data
Discard(to) == from' = to

\* sendAllAck prints len * 19 bytes with a u8 counter, which is never more than
\* 255.
PrintEnds(len) == len * 19 <= 255

\* The handler of reply k is called; the buffer ends at byte to.  A handler
\* may take long: the chain goes on when it is done (Handled).
Handle(k, flag, to) ==
  /\ handled' = Append(handled, k)
  /\ n_flag' = flag
  /\ Discard(to) /\ data_len' = 0
  /\ pc' = IF pc = "read" \/ PrintEnds(OriginLen) THEN "handler" ELSE "loop"
  /\ rd' = 0
  /\ UNCHANGED timerVars

\* The reply at the buffer's start, if its handler is given all of it.
Whole(size) ==
  LET it == ItemAt(from + 1) IN IF it.size = size THEN it.kind ELSE "cut"

\* Read(1) after a handler.
Handled ==
  /\ pc = "handler"
  /\ Read(1)
  /\ UNCHANGED <<wireVars, bufferVars, link, handled>>

\* Nothing is handled, the buffer has len bytes up to byte to.
Keep(len) ==
  /\ data_len' = len
  /\ UNCHANGED <<from, n_flag, handled>>

Drop(to) ==
  /\ Discard(to) /\ data_len' = 0
  /\ UNCHANGED <<n_flag, handled>>

BeginsOK(to)  == Byte(0, to) = "O" /\ Byte(1, to) = "K"
BeginsANS(to) == Byte(0, to) = "A" /\ Byte(1, to) = "N" /\ Byte(2, to) = "S"

\* The places of an LF after a CR.
LineEnds(len, to) ==
  {i \in 1 .. len - 1 : Byte(i, to) = "LF" /\ Byte(i - 1, to) = "CR"}

\* Mutant: the place of the LF is returned.
FindRN_OneOff(len, to) ==
  LET ends == LineEnds(len, to)
  IN IF ends = {} THEN len - 1
                  ELSE CHOOSE i \in ends : \A j \in ends : i <= j

\* findRN
FindRN(len, to) ==
  LET ends == LineEnds(len, to)
  IN IF ends = {} THEN len - 1
                  ELSE (CHOOSE i \in ends : \A j \in ends : i <= j) - 1

\* The line is removed and what follows it is kept.
RemoveLine(len, to) ==
  LET p_len == FindRN(len, to) + 2 IN
  /\ from' = from + p_len
  /\ data_len' = len - p_len
  /\ UNCHANGED <<n_flag, handled>>

\* u8 total_len
TotalLen == ((OriginLen - 1) * 3 + 4 + 4) % 256

\* u32 total_len
TotalLenSpec == (OriginLen * 19 + 10) * 3 + 4 + 4

\* Mutant: sendPollAck does not call setFlag.
FlagAfter_Forgotten(k) == 0

\* sendPollAck calls setFlag when the collector is ready.
FlagAfter(k) == IF k = "ready" THEN 1 ELSE 0

\* Mutant: one byte more is asked for than the reply has.
Incomplete_OneMore(len, total) == len <= total

\* More bytes are asked for.
Incomplete(len, total) == len < total

CheckMsgType(len, to) ==
  LET ok  == BeginsOK(to)
      ans == BeginsANS(to)
      cmd == Byte(4, to)
  IN
  \/ ok /\ len < 11 /\ Keep(len) /\ Read(11 - len)
  \/ ok /\ len >= 11 /\ RemoveLine(len, to) /\ Read(26)
  \/ ans /\ len < 26 /\ Keep(len) /\ Read(26 - len)
  \/ ans /\ len >= 26 /\ cmd = "5" /\ Handle(Whole(26), 0, to)
  \/ /\ ans /\ len >= 26 /\ cmd = "D" /\ Incomplete(len, TotalLen)
     /\ Keep(len) /\ Read(TotalLen - len)
  \/ /\ ans /\ len >= 26 /\ cmd = "D" /\ ~Incomplete(len, TotalLen)
     /\ Handle(Whole(TotalLen), FlagAfter(ItemAt(from + 1).kind), to)
  \/ ans /\ len >= 26 /\ cmd \notin {"5", "D"} /\ Keep(len) /\ Read(0)
  \/ ~ok /\ ~ans /\ Drop(to) /\ Read(1)

\* checkHeartBeat looks at the first byte of the buffer.
HeartBeat(n, to) == n = 1 /\ Byte(0, to) = "0xfe"

OnRead(n) ==
  LET to  == taken + n
      len == data_len + n
  IN
  /\ Completes("read", n)
  /\ \/ /\ HeartBeat(n, to)
        /\ Discard(to)
        /\ Read(1)
        /\ UNCHANGED <<data_len, n_flag, handled>>
     \/ /\ ~HeartBeat(n, to) /\ len < 3
        /\ Keep(len) /\ Read(1)
     \/ /\ ~HeartBeat(n, to) /\ len >= 3 /\ n_flag = 1
        /\ Keep(len) /\ ReadSpec(8)
     \/ /\ ~HeartBeat(n, to) /\ len >= 3 /\ n_flag = 0
        /\ CheckMsgType(len, to)

\* Mutant: the flag stays set after the last block.
FlagAfterBlock_Kept(k) == 1

\* sendAllAck calls setFlag again unless the block is the last.
FlagAfterBlock(k) == IF k = "block" THEN 1 ELSE 0

OnReadSpec(n) ==
  LET to  == taken + n
      len == data_len + n
      ok  == BeginsOK(to)
      ans == BeginsANS(to)
      cmd == Byte(4, to)
  IN
  /\ Completes("spec", n)
  /\ \/ ok /\ len < 11 /\ Keep(len) /\ ReadSpec(11 - len)
     \/ ok /\ len >= 11 /\ RemoveLine(len, to) /\ ReadSpec(10)
     \/ ans /\ len < 10 /\ Keep(len) /\ ReadSpec(10 - len)
     \/ /\ ans /\ len >= 10 /\ cmd = "D" /\ Incomplete(len, TotalLenSpec)
        /\ Keep(len) /\ ReadSpec(TotalLenSpec - len)
     \/ /\ ans /\ len >= 10 /\ cmd = "D" /\ ~Incomplete(len, TotalLenSpec)
        /\ LET k == Whole(TotalLenSpec) IN Handle(k, FlagAfterBlock(k), to)
     \/ /\ \/ ans /\ len >= 10 /\ cmd # "D"
           \/ ~ok /\ ~ans
        /\ Keep(len) /\ ReadSpec(1)

\* A read fails: the session is cleared and no read is started.
ReadError ==
  /\ pc \in {"reg", "read", "spec"}
  /\ link = "closed"
  /\ pc' = "none" /\ rd' = 0
  /\ UNCHANGED <<wireVars, bufferVars, link, timerVars, handled>>

ReadChain ==
  \/ \E n \in Chunks : OnReadReg(n) \/ OnRead(n) \/ OnReadSpec(n)
  \/ Handled
  \/ ReadError

-----------------------------------------------------------------------------
(* The deadline.                                                           *)

\* 70 seconds pass since the last read was started.
TimePasses ==
  /\ expiry = "running" /\ wait # "none"
  /\ expiry' = "past"
  /\ UNCHANGED <<wireVars, bufferVars, readVars, link, wait, handled>>

\* The wait ends; without an expiry, when the library pleases.
WaitEnds ==
  /\ wait = "pending"
  /\ expiry \in {"unset", "past"}
  /\ wait' = "due"
  /\ UNCHANGED <<wireVars, bufferVars, readVars, link, expiry, handled>>

\* Mutant: no wait is started when the expiry has moved.
CheckDeadline_Once ==
  /\ wait = "due"
  /\ pc # "none"
  /\ IF expiry # "running"
       THEN /\ link' = IF link = "none" THEN "none" ELSE "closed"
            /\ expiry' = "never"
       ELSE UNCHANGED <<link, expiry>>
  /\ wait' = "none"
  /\ UNCHANGED <<wireVars, bufferVars, readVars, handled>>

\* The socket is closed, if it is open, and no wait is started; or else one is.
CheckDeadline ==
  /\ wait = "due"
  /\ pc # "none"
  /\ IF expiry # "running"
       THEN /\ link' = IF link = "none" THEN "none" ELSE "closed"
            /\ expiry' = "never"
            /\ wait' = "none"
       ELSE wait' = "pending" /\ UNCHANGED <<link, expiry>>
  /\ UNCHANGED <<wireVars, bufferVars, readVars, handled>>

-----------------------------------------------------------------------------
(* The manager.                                                            *)

Registered == Len(stream) > 0 /\ link = "up" /\ taken >= REG_LENGTH

\* A block is due when the collector has said it is ready, or has sent one
\* that was not the last.
BlockDue == Sent # <<>> /\ Sent[Len(Sent)] \in {"ready", "block"}

NextItems(start) ==
  IF BlockDue
    THEN {BlockItem(k, n, start) : k \in BlockReply, n \in Blocks}
           \cup (IF BlockRefused THEN {ShortItem("refused", start)} ELSE {})
    ELSE {ShortItem(k, start) : k \in Kinds}

\* The lines of one manager are equally long.
LineFits(l) ==
  \A n \in 1 .. Len(stream) : stream[n].kind = "ok" => stream[n].size = l

\* What may come between a line and its reply.
BeatsBetween(start) == {<<>>} \cup (IF BeatInside THEN {<<Beat(start)>>} ELSE {})

\* A line and the reply to a request.
SendReply ==
  /\ Registered
  /\ Len(Sent) < MaxReplies
  /\ Pipelined \/ Len(handled) = Len(Sent)
  /\ \E l \in {x \in OkLines : LineFits(x)} :
       \E b \in BeatsBetween(Total + l) :
         \E i \in NextItems(Total + l + Len(b)) :
           /\ stream' = Append(stream, OkLine(Total, l)) \o b \o <<i>>
           /\ replies' = Append(replies, i)
  /\ UNCHANGED <<taken, bufferVars, readVars, link, timerVars, handled>>

SendBeat ==
  /\ Registered
  /\ Cardinality({n \in 1 .. Len(stream) : stream[n].kind = "beat"}) < MaxBeats
  /\ stream' = Append(stream, Beat(Total))
  /\ UNCHANGED <<replies, taken, bufferVars, readVars, link, timerVars, handled>>

PeerLost ==
  /\ link = "up"
  /\ link' \in {"silent", "closed"}
  /\ UNCHANGED <<wireVars, bufferVars, readVars, timerVars, handled>>

Manager == SendReply \/ SendBeat \/ PeerLost

-----------------------------------------------------------------------------
Deadline == TimePasses \/ WaitEnds \/ CheckDeadline

Next == Accept \/ ReadChain \/ Deadline \/ Manager

Spec == Init /\ [][Next]_vars

(* What was sent arrives and is read, handlers end, and time passes.       *)
FairSpec == Spec /\ WF_vars(ReadChain) /\ WF_vars(Deadline)

-----------------------------------------------------------------------------
(* Properties.                                                             *)

Channel == INSTANCE ReplyChannel
             WITH Reply <- ShortReply \cup BlockReply, sent <- Sent,
                  handled <- handled

\* Whatever the reads return, handlers are given the manager's replies whole,
\* each once and in order.
RepliesKept == Channel!Spec

\* The number of bytes asked for is positive and fits into _data.
ReadFits ==
  pc \in {"reg", "read", "spec"} =>
    rd > 0 /\ (taken - from) + rd <= BUFSIZE

\* A reply that was sent is handled, unless the connection goes first, as long
\* as a block has 13 meters at most: the handler of a larger one does not end.
RepliesHandled ==
  (Len(handled) < Len(Sent)) ~> (Len(handled) = Len(Sent) \/ link # "up")

\* A session whose manager has gone without a word is closed, once a wait is
\* pending while it reads.
SilentSessionClosed ==
  (link = "silent" /\ pc \in {"read", "spec"} /\ wait # "none")
    ~> link = "closed"

\* "设置recv 超时时间": a session that reads has a wait that ends.
DeadlineArmed ==
  (pc \in {"read", "spec"} /\ link \in {"up", "silent"}) => wait # "none"
=============================================================================
