--------------------------- MODULE IntegratedReader --------------------------
(***************************************************************************)
(* The read chain of a session in the agent of the integrated machine,     *)
(* byte for byte (client_session.cc).                                      *)
(*                                                                         *)
(* A manager sends its registration, then heartbeats of one byte 0xfe and  *)
(* replies, all binary.  A reply has a header of three bytes, the second   *)
(* of which is the number of its bytes; in a block of readings it is the   *)
(* number of meters, so that _n_flag must say which is to come:            *)
(*                                                                         *)
(*     0x25 len ...             len bytes                                  *)
(*     0x25 n ...               11 + 19 n bytes                            *)
(*                                                                         *)
(* async_read_some returns any number of bytes up to the length asked for. *)
(* There is no line before a reply and no deadline, in contrast to         *)
(* AdHocReader; what a session promises is the same ReplyChannel.          *)
(*                                                                         *)
(* _data always holds the bytes from + 1 .. taken of what was sent.        *)
(***************************************************************************)
EXTENDS Naturals, Sequences, FiniteSets

CONSTANTS
  Kinds,        \* the replies other than blocks that occur
  Blocks,       \* numbers of meters in a block of readings
  MaxReplies,   \* bound on the replies
  MaxBeats,     \* bound on the heartbeats
  MaxChunk,     \* a read returns up to MaxChunk bytes, or all there are
  ManyBlocks,   \* a collection has blocks that are not its last
  BlockRefused  \* an error is sent where a block is due

ASSUME ConstantsAssumption ==
  /\ Kinds \subseteq {"refused", "ack", "ready", "time", "result"}
  /\ Blocks \subseteq 1 .. 255
  /\ {MaxReplies, MaxBeats, MaxChunk} \subseteq Nat
  /\ {ManyBlocks, BlockRefused} \subseteq BOOLEAN

VARIABLES
  stream,    \* what the manager has sent, in items
  replies,   \* the replies among them
  from,      \* _data begins after this many bytes of the stream
  taken,     \* bytes read from the socket
  data_len,  \* _data_len
  n_flag,    \* _n_flag
  pc,        \* the operation pending on the socket, or the handler running,
             \* which may be in a loop without end
  rd,        \* the length asked for
  link,      \* the socket: "none", "up", "closed"
  handled    \* kinds of the replies handlers have been called for

wireVars   == <<stream, replies, taken>>
bufferVars == <<from, data_len, n_flag>>
readVars   == <<pc, rd>>
vars == <<wireVars, bufferVars, readVars, link, handled>>

-----------------------------------------------------------------------------
(* The bytes on the connection.                                            *)

\* struct Regist, struct Header
REG_LENGTH == 21
HDR_LENGTH == 3

BUFSIZE == 1024

ShortReply == {"refused", "ack", "ready", "time", "result"}
BlockReply == {"block", "last"}
Reply == ShortReply \cup BlockReply

\* The length byte of a short reply, by which DataProcessing dispatches.
LengthByte(k) ==
  CASE k = "refused" -> 10
    [] k \in {"ack", "ready"} -> 11
    [] k = "time" -> 18
    [] k = "result" -> 21

\* Items, with the number of bytes before and in them.
Item(k, l, start, size) ==
  [kind |-> k, len |-> l, start |-> start, size |-> size]

Total == IF stream = <<>> THEN 0
         ELSE stream[Len(stream)].start + stream[Len(stream)].size

Beat            == Item("beat", 0, Total, 1)
ShortItem(k)    == Item(k, LengthByte(k), Total, LengthByte(k))
BlockItem(k, n) == Item(k, n, Total, 11 + 19 * n)

\* The kinds of the replies sent so far.
Sent == [n \in 1 .. Len(replies) |-> replies[n].kind]

\* The item that _data begins with, or begins inside of.
First ==
  stream[CHOOSE n \in 1 .. Len(stream) :
           from + 1 \in stream[n].start + 1 .. stream[n].start + stream[n].size]

\* _data[1], which may be anything in the middle of a block.
SecondByte == IF First.start = from THEN {First.len} ELSE 0 .. 255

\* What a handler is called with, if it is given size bytes.
Given(size) ==
  IF First.start = from /\ First.size = size THEN First.kind ELSE "cut"

-----------------------------------------------------------------------------
TypeOK ==
  /\ taken \in 0 .. Total /\ from \in 0 .. taken
  /\ data_len \in Nat
  /\ n_flag \in {0, 1}
  /\ pc \in {"accept", "reg", "read", "spec", "handler", "loop", "none"}
  /\ rd \in Nat
  /\ link \in {"none", "up", "closed"}
  /\ \A i \in 1 .. Len(handled) : handled[i] \in Reply \cup {"cut"}
  /\ pc \in {"read", "spec"} => data_len = taken - from

Init ==
  /\ stream = <<>> /\ replies = <<>>
  /\ from = 0 /\ taken = 0 /\ data_len = 0
  /\ n_flag = 0
  /\ pc = "accept" /\ rd = 0
  /\ link = "none"
  /\ handled = <<>>

-----------------------------------------------------------------------------
ReadReg(n)  == pc' = "reg" /\ rd' = n
Read(n)     == pc' = "read" /\ rd' = n
ReadSpec(n) == pc' = "spec" /\ rd' = n

\* The manager's connection is accepted: ReadReg(REG_LENGTH).
Accept ==
  /\ pc = "accept"
  /\ link' = "up"
  /\ stream' = <<Item("reg", 0, 0, REG_LENGTH)>>
  /\ ReadReg(REG_LENGTH)
  /\ UNCHANGED <<replies, taken, bufferVars, handled>>

\* The numbers of bytes a read returns.
Chunks ==
  LET m == IF rd < Total - taken THEN rd ELSE Total - taken
  IN {n \in 1 .. m : n <= MaxChunk \/ n = m}

Completes(p, n) ==
  /\ pc = p
  /\ link = "up"
  /\ taken' = taken + n
  /\ UNCHANGED <<stream, replies, link>>

OnReadReg(n) ==
  /\ Completes("reg", n)
  /\ IF taken + n < REG_LENGTH
       THEN /\ ReadReg(REG_LENGTH - (taken + n))
            /\ UNCHANGED from
       ELSE /\ pc' = "handler" /\ rd' = 0       \* regDev
            /\ from' = taken + n
  /\ UNCHANGED <<data_len, n_flag, handled>>

\* sendAllAck prints len * 19 bytes with a u8 counter, which is never more than
\* 255.
PrintEnds(len) == len * 19 <= 255

\* Mutant: _data_len is not reset.
Handle_KeepsLen(size, flag, to) ==
  /\ handled' = Append(handled, Given(size))
  /\ n_flag' = flag
  /\ from' = to /\ UNCHANGED data_len
  /\ pc' = "handler" /\ rd' = 0

\* A handler is called, and _data is emptied.  It may take long: the chain
\* goes on when it is done (Handled).
Handle(size, flag, to) ==
  /\ handled' = Append(handled, Given(size))
  /\ n_flag' = flag
  /\ from' = to /\ data_len' = 0
  /\ pc' \in {IF pc = "read" \/ PrintEnds(l) THEN "handler" ELSE "loop" :
               l \in SecondByte}
  /\ rd' = 0

\* Read(1) after a handler.
Handled ==
  /\ pc = "handler"
  /\ Read(1)
  /\ UNCHANGED <<wireVars, bufferVars, link, handled>>

\* Nothing is handled, _data has len bytes.
Keep(len) ==
  /\ data_len' = len
  /\ UNCHANGED <<from, n_flag, handled>>

\* Mutant: one byte more is asked for than the reply has.
Incomplete_OneMore(len, total) == len <= total

\* More bytes are asked for.
Incomplete(len, total) == len < total

\* checkHeartBeat
HeartBeat(n) == n = 1 /\ First.kind = "beat"

\* Mutant: sendPollAck does not call setFlag.
FlagAfter_Forgotten(k) == 0

\* sendPollAck calls setFlag when the collector is ready.
FlagAfter(k) == IF k = "ready" THEN 1 ELSE 0

\* The header first, then as many bytes as it says.
OnRead(n) ==
  LET len == data_len + n IN
  /\ Completes("read", n)
  /\ \/ /\ HeartBeat(n)
        /\ from' = taken + n
        /\ Read(1)
        /\ UNCHANGED <<data_len, n_flag, handled>>
     \/ /\ ~HeartBeat(n) /\ Incomplete(len, HDR_LENGTH)
        /\ Keep(len) /\ Read(HDR_LENGTH - len)
     \/ /\ ~HeartBeat(n) /\ ~Incomplete(len, HDR_LENGTH)
        /\ \E l \in SecondByte :
             \/ Incomplete(len, l) /\ Keep(len) /\ Read(l - len)
             \/ ~Incomplete(len, l) /\ n_flag = 1 /\ Keep(len) /\ ReadSpec(9)
             \/ /\ ~Incomplete(len, l) /\ n_flag = 0
                /\ Handle(len, FlagAfter(First.kind), taken + n)

\* Mutant: the flag that sendAllAck set is kept.
FlagAfterBlock_Kept == 1

\* UpdateAllInfo is called before _n_flag = 0.
FlagAfterBlock == 0

\* total_len
TotalLen(l) == 9 + l * 19 + 1 + 1

OnReadSpec(n) ==
  LET len == data_len + n IN
  /\ Completes("spec", n)
  /\ \/ /\ Incomplete(len, 9)
        /\ Keep(len) /\ ReadSpec(9 - len)
     \/ /\ ~Incomplete(len, 9)
        /\ \E l \in SecondByte :
             \/ /\ Incomplete(len, TotalLen(l))
                /\ Keep(len) /\ ReadSpec(TotalLen(l) - len)
             \/ /\ ~Incomplete(len, TotalLen(l))
                /\ Handle(TotalLen(l), FlagAfterBlock, taken + n)

\* A read fails: the session is cleared and no read is started.
ReadError ==
  /\ pc \in {"reg", "read", "spec"}
  /\ link = "closed"
  /\ pc' = "none" /\ rd' = 0
  /\ UNCHANGED <<wireVars, bufferVars, link, handled>>

ReadChain ==
  \/ \E n \in Chunks : OnReadReg(n) \/ OnRead(n) \/ OnReadSpec(n)
  \/ Handled
  \/ ReadError

-----------------------------------------------------------------------------
(* The manager.                                                            *)

Registered == link = "up" /\ taken >= REG_LENGTH

\* The next reply is a block when the collector has said it is ready, or has
\* sent a block that was not the last.
BlockDue == Sent # <<>> /\ Sent[Len(Sent)] \in {"ready", "block"}

NextItems ==
  IF BlockDue
    THEN {BlockItem(k, n) : k \in (IF ManyBlocks THEN BlockReply ELSE {"last"}),
                            n \in Blocks}
           \cup (IF BlockRefused THEN {ShortItem("refused")} ELSE {})
    ELSE {ShortItem(k) : k \in Kinds}

\* A reply is sent although others have not been handled, but a block only
\* when it has been requested by the handler of the reply before it.
SendReply ==
  /\ Registered
  /\ Len(Sent) < MaxReplies
  /\ BlockDue => Len(handled) = Len(Sent)
  /\ \E i \in NextItems :
       stream' = Append(stream, i) /\ replies' = Append(replies, i)
  /\ UNCHANGED <<taken, bufferVars, readVars, link, handled>>

\* A heartbeat, between two replies.
SendBeat ==
  /\ Registered
  /\ Cardinality({n \in 1 .. Len(stream) : stream[n].kind = "beat"}) < MaxBeats
  /\ stream' = Append(stream, Beat)
  /\ UNCHANGED <<replies, taken, bufferVars, readVars, link, handled>>

PeerLost ==
  /\ link = "up"
  /\ link' = "closed"
  /\ UNCHANGED <<wireVars, bufferVars, readVars, handled>>

Manager == SendReply \/ SendBeat \/ PeerLost

-----------------------------------------------------------------------------
Next == Accept \/ ReadChain \/ Manager

Spec == Init /\ [][Next]_vars

(* What was sent arrives and is read, and handlers end.                    *)
FairSpec == Spec /\ WF_vars(ReadChain)

-----------------------------------------------------------------------------
(* Properties.                                                             *)

Channel == INSTANCE ReplyChannel WITH sent <- Sent

\* Whatever the reads return, and although replies and heartbeats queue up,
\* handlers are given the manager's replies whole, each once and in order, in
\* collections of one block.
RepliesKept == Channel!Spec

\* The number of bytes asked for is positive and fits into _data.
ReadFits ==
  pc \in {"reg", "read", "spec"} =>
    rd > 0 /\ (taken - from) + rd <= BUFSIZE

\* A reply that was sent is handled, unless the connection goes first, as long
\* as a block has 13 meters at most: the handler of a larger one does not end.
RepliesHandled ==
  (Len(handled) < Len(Sent)) ~> (Len(handled) = Len(Sent) \/ link # "up")
=============================================================================
