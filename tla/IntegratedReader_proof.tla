------------------------ MODULE IntegratedReader_proof ------------------------
(***************************************************************************)
(* Theorems of IntegratedReader for collections of one block: the types,   *)
(* the bounds of _data, and that the read chain implements ReplyChannel,   *)
(* whatever numbers of bytes the reads return and however many replies and *)
(* heartbeats queue up.                                                    *)
(*                                                                         *)
(* The argument is that _data begins where an item begins, and that no     *)
(* more bytes are asked for than that item has, so that what is discarded  *)
(* after a handler is that item and nothing else.                          *)
(***************************************************************************)
EXTENDS IntegratedReader, TLAPS

\* The conditions on the manager.
OneBlock == ManyBlocks = FALSE /\ BlockRefused = FALSE

\* The blocks that fit into _data.
BlocksFit == \A n \in Blocks : 11 + 19 * n <= BUFSIZE

-----------------------------------------------------------------------------
(* What is sent: items that follow each other.                             *)

End(i) == i.start + i.size

AnItem ==
  [kind : Reply \cup {"reg", "beat"}, len : Nat, start : Nat, size : Nat \ {0}]

\* What an item's length byte says of its size.
WellFormed(i) ==
  /\ i \in AnItem
  /\ i.kind = "reg" => i.start = 0
  /\ i.kind = "beat" => i.size = 1
  /\ i.kind \in ShortReply => i.size = i.len /\ i.len \in 10 .. 21
  /\ i.kind \in BlockReply => i.len \in Blocks /\ i.size = 11 + 19 * i.len

\* An item of the stream begins after b bytes, or the next that is sent will.
Boundary(b) ==
  b = Total \/ \E n \in 1 .. Len(stream) : stream[n].start = b

StreamInv ==
  /\ stream \in Seq(AnItem)
  /\ Total \in Nat
  /\ \A n \in 1 .. Len(stream) :
       /\ WellFormed(stream[n])
       /\ End(stream[n]) <= Total
       /\ Boundary(End(stream[n]))
  /\ \A m, n \in 1 .. Len(stream) :
       m < n => End(stream[m]) <= stream[n].start

\* The replies are those of the stream, and a block is what follows "ready".
RepliesInv ==
  /\ replies \in Seq(AnItem)
  /\ \A i \in 1 .. Len(replies) :
       /\ replies[i].kind \in Reply
       /\ \E n \in 1 .. Len(stream) : replies[i] = stream[n]
       /\ replies[i].kind \in BlockReply
            <=> i > 1 /\ replies[i - 1].kind = "ready"
       /\ replies[i].kind # "block"
  /\ \A i, j \in 1 .. Len(replies) :
       i < j => End(replies[i]) <= replies[j].start
  /\ \A n \in 1 .. Len(stream) : stream[n].kind \in Reply =>
       \E i \in 1 .. Len(replies) : replies[i] = stream[n]

-----------------------------------------------------------------------------
(* What is read and handled.                                               *)

\* The replies that were handled end before _data, the others begin in it or
\* behind it; _n_flag says that a block is next.
HandledInv ==
  /\ handled \in Seq(Reply)
  /\ Len(handled) <= Len(replies)
  /\ \A i \in 1 .. Len(replies) :
       IF i <= Len(handled) THEN End(replies[i]) <= from
                            ELSE from <= replies[i].start
  /\ n_flag \in {0, 1}
  /\ n_flag = 1 <=>
       Len(handled) > 0 /\ replies[Len(handled)].kind = "ready"

\* _data begins with item n, of which some bytes have been read.
Begun(n) ==
  /\ stream[n].start = from
  /\ stream[n].kind \in Reply
  /\ data_len > 0
  /\ data_len + rd <= stream[n].size

RegBuffer ==
  /\ from = 0 /\ data_len = 0 /\ taken < REG_LENGTH
  /\ rd = REG_LENGTH - taken
  /\ replies = <<>> /\ handled = <<>> /\ n_flag = 0

\* OnRead asks for one byte, for a header, or for the rest of a reply.
ReadBuffer ==
  /\ data_len = taken - from /\ rd \in Nat \ {0}
  /\ \/ data_len = 0 /\ rd = 1
     \/ \E n \in 1 .. Len(stream) :
          /\ Begun(n)
          /\ \/ data_len < HDR_LENGTH /\ data_len + rd = HDR_LENGTH
             \/ data_len >= HDR_LENGTH /\ data_len + rd = stream[n].len

\* OnReadSpec is in a block.
SpecBuffer ==
  /\ data_len = taken - from /\ rd \in Nat \ {0}
  /\ n_flag = 1
  /\ \E n \in 1 .. Len(stream) : Begun(n) /\ stream[n].kind \in BlockReply

BufferInv ==
  /\ pc \in {"accept", "reg", "read", "spec", "handler", "loop", "none"}
  /\ link \in {"none", "up", "closed"}
  /\ from \in Nat /\ taken \in Nat /\ data_len \in Nat /\ rd \in Nat
  /\ from <= taken /\ taken <= Total
  /\ pc = "accept" => stream = <<>> /\ replies = <<>> /\ taken = 0 /\ data_len = 0
  /\ pc = "reg" => RegBuffer
  /\ pc # "accept" => Boundary(REG_LENGTH)
  /\ pc \in {"read", "spec", "handler", "loop"} =>
       from >= REG_LENGTH /\ Boundary(from)
  /\ pc = "read" => ReadBuffer
  /\ pc = "spec" => SpecBuffer
  /\ pc \in {"handler", "loop"} => data_len = 0 /\ taken = from

IndInv == StreamInv /\ RepliesInv /\ HandledInv /\ BufferInv

USE DEF Reply, ShortReply, BlockReply, REG_LENGTH, HDR_LENGTH

-----------------------------------------------------------------------------
(* The stream.                                                             *)

LEMMA Numbers ==
  /\ Kinds \subseteq ShortReply
  /\ \A n \in Blocks : n \in 1 .. 255
  /\ MaxReplies \in Nat /\ MaxChunk \in Nat
BY ConstantsAssumption

\* What the manager sends is well formed.
LEMMA ItemsWellFormed ==
  ASSUME Total \in Nat
  PROVE  /\ WellFormed(Beat)
         /\ \A k \in Kinds : WellFormed(ShortItem(k))
         /\ \A k \in BlockReply, n \in Blocks : WellFormed(BlockItem(k, n))
<1>1. WellFormed(Beat)
  BY DEF WellFormed, AnItem, Beat, Item
<1>2. ASSUME NEW k \in Kinds PROVE WellFormed(ShortItem(k))
  <2>1. k \in ShortReply
    BY Numbers
  <2>2. LengthByte(k) \in 10 .. 21
    BY <2>1 DEF LengthByte
  <2> QED
    BY <2>1, <2>2 DEF WellFormed, AnItem, ShortItem, Item
<1>3. ASSUME NEW k \in BlockReply, NEW n \in Blocks
      PROVE  WellFormed(BlockItem(k, n))
  <2>1. n \in 1 .. 255
    BY Numbers
  <2> QED
    BY <2>1 DEF WellFormed, AnItem, BlockItem, Item
<1> QED
  BY <1>1, <1>2, <1>3

\* An item that is sent follows those that were.
LEMMA ItemSent ==
  ASSUME StreamInv, NEW i, WellFormed(i), i.start = Total,
         stream' = Append(stream, i)
  PROVE  /\ StreamInv'
         /\ Total' = End(i)
         /\ \A b : Boundary(b) => Boundary(b)'
         /\ Len(stream') = Len(stream) + 1 /\ stream'[Len(stream) + 1] = i
         /\ \A n \in 1 .. Len(stream) : stream'[n] = stream[n]
<1> DEFINE k == Len(stream) + 1
<1>1. /\ i \in AnItem /\ stream \in Seq(AnItem) /\ Total \in Nat
      /\ i.start \in Nat /\ i.size \in Nat \ {0}
  BY DEF StreamInv, WellFormed, AnItem
<1>2. /\ stream' \in Seq(AnItem) /\ Len(stream') = k /\ stream'[k] = i
      /\ \A n \in 1 .. Len(stream) : stream'[n] = stream[n]
      /\ Len(stream) \in Nat
  BY <1>1
<1>3. Total' = End(i) /\ End(i) \in Nat /\ Total < End(i)
  <2>1. stream' # <<>>
    BY <1>2
  <2> QED
    BY <1>1, <1>2, <2>1 DEF Total, End
<1>4. ASSUME NEW b, Boundary(b) PROVE Boundary(b)'
  BY <1>1, <1>2, <1>4 DEF Boundary
<1>6. ASSUME NEW n \in 1 .. k
      PROVE  /\ WellFormed(stream'[n])
             /\ End(stream'[n]) <= Total'
             /\ Boundary(End(stream[n]))'
  <2>1. CASE n = k
    BY <1>2, <1>3, <2>1 DEF Boundary
  <2>2. CASE n \in 1 .. Len(stream)
    <3>1. /\ WellFormed(stream[n]) /\ End(stream[n]) <= Total
          /\ Boundary(End(stream[n])) /\ stream'[n] = stream[n]
      BY <1>2, <2>2 DEF StreamInv
    <3>2. End(stream[n]) \in Nat
      BY <3>1 DEF WellFormed, AnItem, End
    <3>3. End(stream'[n]) <= Total'
      BY <1>1, <1>3, <3>1, <3>2
    <3>4. Boundary(End(stream[n]))'
      BY <1>4, <3>1 DEF Boundary
    <3> QED
      BY <3>1, <3>3, <3>4
  <2> QED
    BY <1>2, <2>1, <2>2
<1>7. ASSUME NEW m \in 1 .. k, NEW n \in 1 .. k, m < n
      PROVE  End(stream'[m]) <= stream'[n].start
  <2>1. m \in 1 .. Len(stream)
    BY <1>2, <1>7
  <2>2. CASE n = k
    BY <1>1, <1>2, <2>1, <2>2 DEF StreamInv
  <2>3. CASE n \in 1 .. Len(stream)
    BY <1>2, <1>7, <2>1, <2>3 DEF StreamInv
  <2> QED
    BY <1>2, <2>2, <2>3
<1>8. StreamInv'
  BY <1>2, <1>3, <1>6, <1>7 DEF StreamInv
<1> QED
  BY <1>2, <1>3, <1>4, <1>8

\* The item that begins where _data does is the one it begins with.
LEMMA FirstIs ==
  ASSUME StreamInv, from \in Nat,
         NEW n \in 1 .. Len(stream), stream[n].start = from
  PROVE  /\ First = stream[n]
         /\ SecondByte = {stream[n].len}
         /\ Given(stream[n].size) = stream[n].kind
<1> DEFINE In(m) ==
      from + 1 \in stream[m].start + 1 .. stream[m].start + stream[m].size
<1>1. \A m \in 1 .. Len(stream) :
        stream[m].start \in Nat /\ stream[m].size \in Nat \ {0}
  BY DEF StreamInv, WellFormed, AnItem
<1>2. In(n)
  BY <1>1
<1>3. ASSUME NEW m \in 1 .. Len(stream), In(m) PROVE m = n
  <2>1. CASE m < n
    BY <1>1, <1>3, <2>1 DEF StreamInv, End
  <2>2. CASE n < m
    BY <1>1, <1>3, <2>2 DEF StreamInv, End
  <2> QED
    BY <2>1, <2>2
<1>4. n = CHOOSE m \in 1 .. Len(stream) : In(m)
  BY <1>2, <1>3
<1>5. First = stream[n]
  BY <1>4 DEF First
<1> QED
  BY <1>5 DEF SecondByte, Given

\* Numbers of a sequence of items.
LEMMA ItemsTyped ==
  ASSUME NEW s \in Seq(AnItem), NEW j \in 1 .. Len(s)
  PROVE  /\ s[j].start \in Nat /\ s[j].size \in Nat \ {0}
         /\ s[j].len \in Nat /\ End(s[j]) \in Nat
         /\ End(s[j]) > s[j].start
<1>1. s[j] \in AnItem
  OBVIOUS
<1> QED
  BY <1>1 DEF AnItem, End

\* A reply that _data begins with is the next to be handled.
LEMMA NextReply ==
  ASSUME IndInv, NEW n \in 1 .. Len(stream), stream[n].start = from,
         stream[n].kind \in Reply
  PROVE  /\ Len(handled) < Len(replies)
         /\ replies[Len(handled) + 1] = stream[n]
         /\ n_flag = 1 <=> stream[n].kind \in BlockReply
<1>1. PICK i \in 1 .. Len(replies) : replies[i] = stream[n]
  BY DEF IndInv, RepliesInv
<1>2. /\ Len(handled) \in Nat /\ Len(replies) \in Nat /\ from \in Nat
  BY DEF IndInv, HandledInv, RepliesInv, BufferInv
<1>3. \A j \in 1 .. Len(replies) :
        replies[j].start \in Nat /\ replies[j].size \in Nat \ {0}
  BY ItemsTyped DEF IndInv, RepliesInv
<1>4. i > Len(handled)
  BY <1>1, <1>2, <1>3 DEF IndInv, HandledInv, End
<1>5. i = Len(handled) + 1
  <2>1. ASSUME i > Len(handled) + 1 PROVE FALSE
    <3>1. /\ Len(handled) + 1 \in 1 .. Len(replies)
          /\ from <= replies[Len(handled) + 1].start
      BY <1>2, <2>1 DEF IndInv, HandledInv
    <3>2. End(replies[Len(handled) + 1]) <= replies[i].start
      BY <1>2, <2>1, <3>1 DEF IndInv, RepliesInv
    <3> QED
      BY <1>1, <1>2, <1>3, <3>1, <3>2 DEF End
  <2> QED
    BY <1>2, <1>4, <2>1
<1>6. replies[i].kind \in BlockReply <=> i > 1 /\ replies[i - 1].kind = "ready"
  BY DEF IndInv, RepliesInv
<1>7. n_flag = 1 <=> stream[n].kind \in BlockReply
  BY <1>1, <1>2, <1>5, <1>6 DEF IndInv, HandledInv
<1> QED
  BY <1>1, <1>2, <1>5, <1>7

\* What follows the item that _data begins with.
LEMMA Behind ==
  ASSUME IndInv, NEW n \in 1 .. Len(stream), stream[n].start = from,
         NEW i \in 1 .. Len(replies), from <= replies[i].start,
         replies[i] # stream[n]
  PROVE  End(stream[n]) <= replies[i].start
<1>1. PICK m \in 1 .. Len(stream) : replies[i] = stream[m]
  BY DEF IndInv, RepliesInv
<1>2. m # n /\ from \in Nat
  BY <1>1 DEF IndInv, BufferInv
<1>3. \A l \in 1 .. Len(stream) :
        /\ stream[l].start \in Nat /\ End(stream[l]) \in Nat
        /\ End(stream[l]) > stream[l].start
  BY ItemsTyped DEF IndInv, StreamInv
<1>4. ~(m < n)
  <2>1. ASSUME m < n PROVE FALSE
    <3>1. End(stream[m]) <= from
      BY <2>1 DEF IndInv, StreamInv
    <3>2. stream[m].start >= from
      BY <1>1
    <3> QED
      BY <1>2, <1>3, <3>1, <3>2
  <2> QED
    BY <2>1
<1> QED
  BY <1>1, <1>2, <1>4 DEF IndInv, StreamInv

-----------------------------------------------------------------------------
(* What the handlers are promised.                                         *)

\* The replies that were sent, in short.
LEMMA SentIs ==
  ASSUME RepliesInv
  PROVE  /\ Sent \in Seq(Reply) /\ Len(Sent) = Len(replies)
         /\ \A n \in 1 .. Len(replies) : Sent[n] = replies[n].kind
         /\ Sent # <<>> <=> Len(replies) > 0
<1>1. Len(replies) \in Nat /\ \A n \in 1 .. Len(replies) : replies[n].kind \in Reply
  BY DEF RepliesInv
<1>2. Sent \in Seq(Reply) /\ Len(Sent) = Len(replies)
  BY <1>1 DEF Sent
<1>3. Sent # <<>> <=> Len(replies) > 0
  BY <1>1, <1>2
<1> QED
  BY <1>2, <1>3 DEF Sent

\* A handler that is called for the item _data begins with is called for the
\* next reply.
LEMMA ReplyHandled ==
  ASSUME IndInv, UNCHANGED <<stream, replies>>,
         NEW n \in 1 .. Len(stream), stream[n].start = from,
         stream[n].kind \in Reply,
         handled' = Append(handled, stream[n].kind),
         from' = End(stream[n]),
         n_flag' = IF stream[n].kind = "ready" THEN 1 ELSE 0
  PROVE  HandledInv' /\ Channel!HandleNext
<1> DEFINE k == Len(handled) + 1
<1>1. /\ k \in 1 .. Len(replies) /\ replies[k] = stream[n]
      /\ Len(handled) \in Nat /\ Len(replies) \in Nat
  <2>1. Len(handled) \in Nat /\ Len(replies) \in Nat
    BY DEF IndInv, HandledInv, RepliesInv
  <2>2. Len(handled) < Len(replies) /\ replies[k] = stream[n]
    BY NextReply
  <2> QED
    BY <2>1, <2>2
<1>2. /\ handled' \in Seq(Reply) /\ Len(handled') = k
  BY DEF IndInv, HandledInv
<1>3. \A i \in 1 .. Len(replies) :
        replies[i].start \in Nat /\ End(replies[i]) \in Nat
        /\ End(replies[i]) > replies[i].start
  BY ItemsTyped DEF IndInv, RepliesInv
<1>4. ASSUME NEW i \in 1 .. Len(replies)
      PROVE  IF i <= k THEN End(replies[i]) <= from' ELSE from' <= replies[i].start
  <2>1. CASE i = k
    BY <1>1, <1>3, <2>1
  <2>2. CASE i < k
    <3>1. End(replies[i]) <= replies[k].start
      BY <1>1, <2>2 DEF IndInv, RepliesInv
    <3> QED
      BY <1>1, <1>3, <2>2, <3>1
  <2>3. CASE i > k
    <3>1. End(replies[k]) <= replies[i].start
      BY <1>1, <2>3 DEF IndInv, RepliesInv
    <3> QED
      BY <1>1, <1>3, <2>3, <3>1
  <2> QED
    BY <1>1, <2>1, <2>2, <2>3
<1>5. n_flag' = 1 <=> replies[k].kind = "ready"
  BY <1>1
<1>6. HandledInv'
  BY <1>1, <1>2, <1>4, <1>5 DEF HandledInv
<1>7. Channel!HandleNext
  <2>1. Sent' = Sent
    BY DEF Sent
  <2>2. Len(Sent) = Len(replies) /\ Sent[k] = stream[n].kind
    BY <1>1, SentIs DEF IndInv
  <2> QED
    BY <1>1, <2>1, <2>2 DEF Channel!HandleNext
<1> QED
  BY <1>6, <1>7

\* Nothing is sent.
LEMMA WireKept ==
  ASSUME StreamInv, RepliesInv, UNCHANGED <<stream, replies>>
  PROVE  /\ StreamInv' /\ RepliesInv' /\ Total' = Total /\ Sent' = Sent
         /\ \A b : Boundary(b) => Boundary(b)'
<1>1. Total' = Total /\ Sent' = Sent
  BY DEF Total, Sent
<1>2. \A b : Boundary(b)' <=> Boundary(b)
  BY <1>1 DEF Boundary
<1>3. StreamInv'
  BY <1>1, <1>2 DEF StreamInv
<1>4. RepliesInv'
  BY DEF RepliesInv
<1> QED
  BY <1>1, <1>2, <1>3, <1>4

\* What a step does to the invariant and to the promise.
Kept == IndInv' /\ [Channel!Next]_(Channel!vars)

\* Nothing is sent or handled, and _data begins where it did.
LEMMA Quiet ==
  ASSUME IndInv, UNCHANGED <<stream, replies, from, n_flag, handled>>
  PROVE  /\ StreamInv' /\ RepliesInv' /\ HandledInv'
         /\ Total' = Total
         /\ \A b : Boundary(b) => Boundary(b)'
         /\ UNCHANGED Channel!vars
<1>1. /\ StreamInv' /\ RepliesInv' /\ Total' = Total /\ Sent' = Sent
      /\ \A b : Boundary(b) => Boundary(b)'
  BY WireKept DEF IndInv
<1>2. HandledInv'
  BY DEF IndInv, HandledInv
<1> QED
  BY <1>1, <1>2 DEF Channel!vars

-----------------------------------------------------------------------------
(* The steps of the read chain.                                            *)

LEMMA BufferTyped ==
  ASSUME IndInv
  PROVE  /\ from \in Nat /\ taken \in Nat /\ data_len \in Nat /\ rd \in Nat
         /\ Total \in Nat /\ from <= taken /\ taken <= Total
BY DEF IndInv, BufferInv, StreamInv

\* What a read returns.
LEMMA Returned ==
  ASSUME IndInv, pc \in {"reg", "read", "spec"}, NEW n \in Chunks
  PROVE  n \in Nat \ {0} /\ n <= rd /\ taken + n <= Total
BY BufferTyped DEF Chunks

\* A read that OnRead gets the bytes of is within a heartbeat or a reply.
LEMMA Arrived ==
  ASSUME IndInv, pc = "read", NEW n \in Chunks
  PROVE  \E m \in 1 .. Len(stream) :
           /\ stream[m].start = from
           /\ \/ /\ stream[m].kind = "beat" /\ data_len = 0 /\ n = 1
                 /\ taken = from
              \/ /\ stream[m].kind \in Reply
                 /\ data_len + n <= stream[m].size
                 /\ \/ data_len + n <= HDR_LENGTH
                    \/ data_len + n <= stream[m].len
<1>1. /\ n \in Nat \ {0} /\ n <= rd /\ taken + n <= Total
      /\ ReadBuffer /\ from >= REG_LENGTH /\ Boundary(from)
  BY Returned DEF IndInv, BufferInv
<1>2. CASE data_len = 0 /\ rd = 1
  <2>1. n = 1 /\ taken = from /\ from # Total
    BY <1>1, <1>2, BufferTyped DEF ReadBuffer
  <2>2. PICK m \in 1 .. Len(stream) : stream[m].start = from
    BY <1>1, <2>1 DEF Boundary
  <2>3. /\ stream[m].kind \in Reply \cup {"reg", "beat"}
        /\ stream[m].kind # "reg" /\ stream[m].size \in Nat \ {0}
    <3>1. WellFormed(stream[m])
      BY DEF IndInv, StreamInv
    <3> QED
      BY <1>1, <2>2, <3>1 DEF WellFormed, AnItem
  <2> QED
    BY <1>2, <2>1, <2>2, <2>3
<1>3. ASSUME NEW m \in 1 .. Len(stream), Begun(m),
             \/ data_len < HDR_LENGTH /\ data_len + rd = HDR_LENGTH
             \/ data_len >= HDR_LENGTH /\ data_len + rd = stream[m].len
      PROVE  /\ stream[m].start = from /\ stream[m].kind \in Reply
             /\ data_len + n <= stream[m].size
             /\ \/ data_len + n <= HDR_LENGTH
                \/ data_len + n <= stream[m].len
  <2>1. stream[m].size \in Nat /\ stream[m].len \in Nat
    BY ItemsTyped DEF IndInv, StreamInv
  <2> QED
    BY <1>1, <1>3, <2>1, BufferTyped DEF Begun
<1> QED
  BY <1>1, <1>2, <1>3 DEF ReadBuffer

\* The sizes of the replies.
LEMMA Sizes ==
  ASSUME IndInv, NEW m \in 1 .. Len(stream), stream[m].kind \in Reply
  PROVE  /\ stream[m].len \in Nat /\ stream[m].size \in Nat
         /\ stream[m].kind \in ShortReply =>
              stream[m].size = stream[m].len /\ stream[m].len \in 10 .. 21
         /\ stream[m].kind \in BlockReply =>
              /\ stream[m].len \in 1 .. 255
              /\ stream[m].size = TotalLen(stream[m].len)
              /\ HDR_LENGTH <= stream[m].size /\ 9 <= stream[m].size
              /\ stream[m].len <= stream[m].size
              /\ \A x \in Nat : x <= HDR_LENGTH \/ x <= stream[m].len =>
                   x + 9 <= stream[m].size
              /\ stream[m].kind = "last"
<1>1. WellFormed(stream[m])
  BY DEF IndInv, StreamInv
<1>2. stream[m].kind # "block"
  BY DEF IndInv, RepliesInv
<1>3. stream[m].len \in Nat /\ stream[m].size \in Nat
  BY <1>1 DEF WellFormed, AnItem
<1> QED
  <2>1. ASSUME stream[m].kind \in BlockReply
        PROVE  /\ stream[m].len \in 1 .. 255
               /\ stream[m].size = 11 + 19 * stream[m].len
    BY <1>1, <2>1, Numbers DEF WellFormed
  <2>2. ASSUME NEW l \in 1 .. 255
        PROVE  /\ TotalLen(l) = 11 + 19 * l
               /\ HDR_LENGTH <= 11 + 19 * l /\ 9 <= 11 + 19 * l
               /\ l <= 11 + 19 * l
               /\ \A x \in Nat : x <= HDR_LENGTH \/ x <= l => x + 9 <= 11 + 19 * l
    BY DEF TotalLen
  <2>3. stream[m].kind \in ShortReply =>
          stream[m].size = stream[m].len /\ stream[m].len \in 10 .. 21
    BY <1>1 DEF WellFormed
  <2> QED
    BY <1>2, <1>3, <2>1, <2>2, <2>3

\* The registration.
LEMMA OnReadRegStep ==
  ASSUME IndInv, NEW n \in Chunks, OnReadReg(n)
  PROVE  Kept
<1>1. /\ n \in Nat \ {0} /\ n <= rd /\ taken + n <= Total
      /\ pc = "reg" /\ taken' = taken + n
      /\ UNCHANGED <<stream, replies, link, data_len, n_flag, handled>>
      /\ RegBuffer /\ Boundary(REG_LENGTH)
  BY Returned DEF OnReadReg, Completes, IndInv, BufferInv
<1>2. CASE taken + n < REG_LENGTH
  <2>1. pc' = "reg" /\ rd' = REG_LENGTH - (taken + n) /\ from' = from
    BY <1>2 DEF OnReadReg, ReadReg
  <2>2. /\ StreamInv' /\ RepliesInv' /\ HandledInv' /\ Total' = Total
        /\ Boundary(REG_LENGTH)' /\ UNCHANGED Channel!vars
    BY <1>1, <2>1, Quiet
  <2>3. BufferInv'
    BY <1>1, <1>2, <2>1, <2>2, BufferTyped DEF BufferInv, RegBuffer, IndInv
  <2> QED
    BY <2>2, <2>3 DEF Kept, IndInv
<1>3. CASE ~(taken + n < REG_LENGTH)
  <2>1. /\ pc' = "handler" /\ rd' = 0 /\ from' = taken + n
        /\ taken + n = REG_LENGTH
    BY <1>1, <1>3, BufferTyped DEF OnReadReg, RegBuffer
  <2>2. /\ StreamInv' /\ RepliesInv' /\ Total' = Total /\ Sent' = Sent
        /\ Boundary(REG_LENGTH)'
    BY <1>1, WireKept DEF IndInv
  <2>3. HandledInv'
    BY <1>1, <2>1 DEF IndInv, HandledInv, RegBuffer
  <2>4. BufferInv'
    BY <1>1, <2>1, <2>2, BufferTyped DEF BufferInv, RegBuffer, IndInv
  <2> QED
    BY <1>1, <2>2, <2>3, <2>4 DEF Kept, IndInv, Channel!vars
<1> QED
  BY <1>2, <1>3

\* A heartbeat is dropped.
LEMMA BeatStep ==
  ASSUME IndInv, pc = "read",
         NEW m \in 1 .. Len(stream), stream[m].start = from,
         stream[m].kind = "beat", taken = from, taken' = from + 1,
         from' = taken', data_len = 0, pc' = "read", rd' = 1,
         UNCHANGED <<stream, replies, link, data_len, n_flag, handled>>
  PROVE  Kept
<1>1. /\ from \in Nat /\ from >= REG_LENGTH
      /\ End(stream[m]) = from' /\ Boundary(from') /\ from' <= Total
  <2>1. /\ WellFormed(stream[m]) /\ Boundary(End(stream[m]))
        /\ End(stream[m]) <= Total
    BY DEF IndInv, StreamInv
  <2>2. stream[m].size = 1 /\ from \in Nat /\ from >= REG_LENGTH
    BY <2>1 DEF WellFormed, IndInv, BufferInv
  <2> QED
    BY <2>1, <2>2 DEF End
<1>2. /\ StreamInv' /\ RepliesInv' /\ Total' = Total /\ Sent' = Sent
      /\ \A b : Boundary(b) => Boundary(b)'
  BY WireKept DEF IndInv
<1>3. HandledInv'
  <2>1. ASSUME NEW i \in 1 .. Len(replies)
        PROVE  IF i <= Len(handled) THEN End(replies[i]) <= from'
                                    ELSE from' <= replies[i].start
    <3>1. End(replies[i]) \in Nat
      BY ItemsTyped DEF IndInv, RepliesInv
    <3>2. CASE i <= Len(handled)
      BY <1>1, <3>1, <3>2 DEF IndInv, HandledInv
    <3>3. CASE ~(i <= Len(handled))
      <4>1. from <= replies[i].start
        BY <3>3 DEF IndInv, HandledInv
      <4>2. replies[i] # stream[m]
        BY DEF IndInv, RepliesInv
      <4> QED
        BY <1>1, <3>3, <4>1, <4>2, Behind
    <3> QED
      BY <3>2, <3>3
  <2> QED
    BY <2>1 DEF IndInv, HandledInv
<1>4. Boundary(from)' /\ Boundary(REG_LENGTH)'
  <2>1. Boundary(from') /\ Boundary(REG_LENGTH)
    BY <1>1 DEF IndInv, BufferInv
  <2> QED
    BY <1>2, <2>1 DEF Boundary
<1>5. BufferInv'
  BY <1>1, <1>2, <1>4, BufferTyped DEF BufferInv, ReadBuffer, IndInv
<1> QED
  BY <1>2, <1>3, <1>5 DEF Kept, IndInv, Channel!vars

\* More bytes of a reply are asked for.
LEMMA KeepStep ==
  ASSUME IndInv, pc \in {"read", "spec"}, NEW n \in Chunks,
         taken' = taken + n, UNCHANGED <<stream, replies, link>>,
         Keep(data_len + n),
         NEW m \in 1 .. Len(stream), stream[m].start = from,
         stream[m].kind \in Reply,
         rd' \in Nat \ {0}, data_len + n + rd' <= stream[m].size,
         \/ /\ pc' = "read"
            /\ \/ data_len + n < HDR_LENGTH /\ data_len + n + rd' = HDR_LENGTH
               \/ data_len + n >= HDR_LENGTH /\ data_len + n + rd' = stream[m].len
         \/ pc' = "spec" /\ n_flag = 1 /\ stream[m].kind \in BlockReply
  PROVE  Kept
<1>1. /\ n \in Nat \ {0} /\ n <= rd /\ taken + n <= Total
      /\ data_len = taken - from /\ Boundary(REG_LENGTH)
      /\ UNCHANGED <<from, n_flag, handled>> /\ data_len' = data_len + n
  BY Returned DEF IndInv, BufferInv, ReadBuffer, SpecBuffer, Keep
<1>2. /\ StreamInv' /\ RepliesInv' /\ HandledInv' /\ Total' = Total
      /\ \A b : Boundary(b) => Boundary(b)'
      /\ UNCHANGED Channel!vars
  BY <1>1, Quiet
<1>3. Begun(m)'
  BY <1>1, BufferTyped DEF Begun
<1>4. data_len' = taken' - from' /\ data_len' \in Nat /\ taken' \in Nat
  <2>1. /\ n \in Nat /\ taken \in Nat /\ from \in Nat /\ data_len \in Nat
        /\ data_len = taken - from
    BY <1>1, BufferTyped
  <2>2. data_len' = data_len + n /\ taken' = taken + n /\ from' = from
    BY <1>1
  <2> QED
    BY <2>1, <2>2
<1>5. CASE pc' = "read"
  <2>1. ReadBuffer'
    BY <1>1, <1>3, <1>4, <1>5 DEF ReadBuffer
  <2>2. from >= REG_LENGTH /\ Boundary(from)
    BY DEF IndInv, BufferInv
  <2>3. BufferInv'
    BY <1>1, <1>2, <1>4, <1>5, <2>1, <2>2, BufferTyped DEF IndInv, BufferInv
  <2> QED
    BY <1>2, <2>3 DEF Kept, IndInv
<1>6. CASE pc' = "spec"
  <2>1. SpecBuffer'
    BY <1>1, <1>3, <1>4, <1>6 DEF SpecBuffer
  <2>2. from >= REG_LENGTH /\ Boundary(from)
    BY DEF IndInv, BufferInv
  <2>3. BufferInv'
    BY <1>1, <1>2, <1>4, <1>6, <2>1, <2>2, BufferTyped DEF IndInv, BufferInv
  <2> QED
    BY <1>2, <2>3 DEF Kept, IndInv
<1> QED
  BY <1>5, <1>6

\* A reply is handled.
LEMMA HandleStep ==
  ASSUME IndInv, NEW n \in Chunks, pc \in {"read", "spec"},
         taken' = taken + n, UNCHANGED <<stream, replies, link>>,
         NEW m \in 1 .. Len(stream), stream[m].start = from,
         stream[m].kind \in Reply, data_len + n = stream[m].size,
         NEW flag, flag = (IF stream[m].kind = "ready" THEN 1 ELSE 0),
         Handle(stream[m].size, flag, taken + n)
  PROVE  Kept
<1>1. /\ n \in Nat \ {0} /\ n <= rd /\ taken + n <= Total
      /\ data_len = taken - from /\ Boundary(REG_LENGTH)
  BY Returned DEF IndInv, BufferInv, ReadBuffer, SpecBuffer
<1>2. /\ from' = taken' /\ data_len' = 0 /\ rd' = 0 /\ pc' \in {"handler", "loop"}
      /\ n_flag' = flag /\ handled' = Append(handled, stream[m].kind)
  BY FirstIs, BufferTyped DEF Handle, IndInv
<1>3. /\ WellFormed(stream[m]) /\ Boundary(End(stream[m]))
  BY DEF IndInv, StreamInv
<1>4. from' = End(stream[m])
  BY <1>1, <1>2, BufferTyped DEF End
<1>5. from' >= REG_LENGTH
  BY <1>1, <1>2, BufferTyped DEF IndInv, BufferInv
<1>6. HandledInv' /\ Channel!HandleNext
  BY <1>2, <1>4, ReplyHandled
<1>7. /\ StreamInv' /\ RepliesInv' /\ Total' = Total
      /\ Boundary(REG_LENGTH)' /\ Boundary(from)'
  <2>1. /\ StreamInv' /\ RepliesInv' /\ Total' = Total
        /\ \A b : Boundary(b) => Boundary(b)'
    BY WireKept DEF IndInv
  <2>2. Boundary(from)'
    BY <1>3, <1>4, <2>1 DEF Boundary
  <2> QED
    BY <1>1, <2>1, <2>2
<1>8. BufferInv'
  BY <1>1, <1>2, <1>5, <1>7, BufferTyped DEF IndInv, BufferInv
<1> QED
  BY <1>6, <1>7, <1>8 DEF Kept, IndInv, Channel!Next

\* A heartbeat is dropped; a reply is completed and handled, whatever its kind.
LEMMA OnReadStep ==
  ASSUME IndInv, NEW n \in Chunks, OnRead(n)
  PROVE  Kept
<1> DEFINE len == data_len + n
<1>1. /\ pc = "read" /\ taken' = taken + n
      /\ UNCHANGED <<stream, replies, link>>
  BY DEF OnRead, Completes
<1>2. n \in Nat \ {0} /\ len \in Nat \ {0}
  BY <1>1, Returned, BufferTyped
<1>3. PICK m \in 1 .. Len(stream) :
        /\ stream[m].start = from
        /\ \/ /\ stream[m].kind = "beat" /\ data_len = 0 /\ n = 1
              /\ taken = from
           \/ /\ stream[m].kind \in Reply
              /\ len <= stream[m].size
              /\ len <= HDR_LENGTH \/ len <= stream[m].len
  BY <1>1, Arrived
<1>4. First = stream[m] /\ SecondByte = {stream[m].len}
  BY <1>3, FirstIs, BufferTyped DEF IndInv
<1>5. CASE stream[m].kind = "beat"
  <2>1. n = 1 /\ taken = from /\ data_len = 0
    BY <1>3, <1>5
  <2>2. HeartBeat(n)
    BY <1>4, <1>5, <2>1 DEF HeartBeat
  <2>3. /\ from' = taken + n /\ pc' = "read" /\ rd' = 1
        /\ UNCHANGED <<data_len, n_flag, handled>>
    BY <2>2 DEF OnRead, Read
  <2> QED
    BY <1>1, <1>3, <1>5, <2>1, <2>3, BeatStep
<1>6. CASE stream[m].kind \in Reply
  <2> DEFINE l == stream[m].len
  <2>1. ~HeartBeat(n)
    BY <1>4, <1>6 DEF HeartBeat
  <2>2. /\ l \in Nat /\ stream[m].size \in Nat /\ len <= stream[m].size
        /\ len <= HDR_LENGTH \/ len <= l
        /\ stream[m].kind \in ShortReply =>
             stream[m].size = l /\ l \in 10 .. 21
        /\ stream[m].kind \in BlockReply =>
             /\ l \in 1 .. 255 /\ stream[m].size = TotalLen(l)
             /\ HDR_LENGTH <= stream[m].size /\ l <= stream[m].size
             /\ \A x \in Nat : x <= HDR_LENGTH \/ x <= l => x + 9 <= stream[m].size
    BY <1>3, <1>6, Sizes
  <2>3. CASE Incomplete(len, HDR_LENGTH)
    <3>1. Keep(len) /\ pc' = "read" /\ rd' = HDR_LENGTH - len /\ len < HDR_LENGTH
      BY <2>1, <2>3 DEF OnRead, Read, Incomplete
    <3>2. rd' \in Nat \ {0} /\ len + rd' = HDR_LENGTH
      BY <1>2, <3>1
    <3>3. HDR_LENGTH <= stream[m].size
      BY <1>6, <2>2
    <3> QED
      BY <1>1, <1>3, <1>6, <3>1, <3>2, <3>3, KeepStep
  <2>4. CASE ~Incomplete(len, HDR_LENGTH)
    <3>1. \/ Incomplete(len, l) /\ Keep(len) /\ Read(l - len)
          \/ ~Incomplete(len, l) /\ n_flag = 1 /\ Keep(len) /\ ReadSpec(9)
          \/ /\ ~Incomplete(len, l) /\ n_flag = 0
             /\ Handle(len, FlagAfter(stream[m].kind), taken + n)
      BY <1>4, <2>1, <2>4 DEF OnRead
    <3>2. len >= HDR_LENGTH
      BY <1>2, <2>4 DEF Incomplete
    <3>3. CASE Incomplete(len, l) /\ Keep(len) /\ Read(l - len)
      <4>1. pc' = "read" /\ rd' = l - len /\ len < l
        BY <3>3 DEF Read, Incomplete
      <4>2. rd' \in Nat \ {0} /\ len + rd' = l
        BY <1>2, <2>2, <4>1
      <4>3. l <= stream[m].size
        BY <1>6, <2>2
      <4> QED
        BY <1>1, <1>3, <1>6, <3>2, <3>3, <4>1, <4>2, <4>3, KeepStep
    <3>4. CASE ~Incomplete(len, l) /\ n_flag = 1 /\ Keep(len) /\ ReadSpec(9)
      <4>1. pc' = "spec" /\ rd' = 9 /\ ~(len < l)
        BY <3>4 DEF ReadSpec, Incomplete
      <4>2. stream[m].kind \in BlockReply
        BY <1>3, <1>6, <3>4, NextReply
      <4>3. len + 9 <= stream[m].size
        BY <1>2, <2>2, <4>2
      <4> QED
        BY <1>1, <1>3, <1>6, <3>4, <4>1, <4>2, <4>3, KeepStep
    <3>5. CASE /\ ~Incomplete(len, l) /\ n_flag = 0
               /\ Handle(len, FlagAfter(stream[m].kind), taken + n)
      <4>1. stream[m].kind \in ShortReply
        BY <1>3, <1>6, <3>5, NextReply
      <4>2. len = stream[m].size
        BY <1>2, <2>2, <3>5, <4>1 DEF Incomplete
      <4>3. FlagAfter(stream[m].kind) =
              IF stream[m].kind = "ready" THEN 1 ELSE 0
        BY DEF FlagAfter
      <4> QED
        BY <1>1, <1>3, <1>6, <3>5, <4>2, <4>3, HandleStep
    <3> QED
      BY <3>1, <3>3, <3>4, <3>5
  <2> QED
    BY <2>3, <2>4
<1> QED
  BY <1>3, <1>5, <1>6

\* A block is completed and handled.
LEMMA OnReadSpecStep ==
  ASSUME IndInv, NEW n \in Chunks, OnReadSpec(n)
  PROVE  Kept
<1> DEFINE len == data_len + n
<1>1. /\ pc = "spec" /\ taken' = taken + n
      /\ UNCHANGED <<stream, replies, link>>
  BY DEF OnReadSpec, Completes
<1>2. n \in Nat \ {0} /\ n <= rd /\ len \in Nat \ {0}
  BY <1>1, Returned, BufferTyped
<1>3. PICK m \in 1 .. Len(stream) :
        Begun(m) /\ stream[m].kind \in BlockReply
  BY <1>1 DEF IndInv, BufferInv, SpecBuffer
<1>4. /\ SecondByte = {stream[m].len} /\ n_flag = 1
      /\ stream[m].start = from
  BY <1>1, <1>3, FirstIs, BufferTyped DEF IndInv, BufferInv, SpecBuffer, Begun
<1> DEFINE l == stream[m].len
<1>5. /\ l \in 1 .. 255 /\ stream[m].size = TotalLen(l) /\ stream[m].size \in Nat
      /\ 9 <= stream[m].size /\ stream[m].kind = "last"
  BY <1>3, Sizes
<1>6. len <= stream[m].size
  BY <1>2, <1>3, <1>5, BufferTyped DEF Begun
<1>7. CASE Incomplete(len, 9)
  <2>1. Keep(len) /\ pc' = "spec" /\ rd' = 9 - len /\ len < 9
    BY <1>2, <1>7 DEF OnReadSpec, ReadSpec, Incomplete
  <2>2. rd' \in Nat \ {0} /\ len + rd' = 9
    BY <1>2, <2>1
  <2>3. 9 <= stream[m].size
    BY <1>5
  <2> QED
    BY <1>1, <1>3, <1>4, <2>1, <2>2, <2>3, KeepStep
<1>8. CASE ~Incomplete(len, 9)
  <2>1. \/ Incomplete(len, TotalLen(l)) /\ Keep(len) /\ ReadSpec(TotalLen(l) - len)
        \/ /\ ~Incomplete(len, TotalLen(l))
           /\ Handle(TotalLen(l), FlagAfterBlock, taken + n)
    BY <1>4, <1>8 DEF OnReadSpec
  <2>2. CASE Incomplete(len, TotalLen(l)) /\ Keep(len)
               /\ ReadSpec(TotalLen(l) - len)
    <3>1. pc' = "spec" /\ rd' = stream[m].size - len /\ len < stream[m].size
      BY <1>5, <2>2 DEF ReadSpec, Incomplete
    <3>2. rd' \in Nat \ {0} /\ len + rd' <= stream[m].size
      BY <1>2, <1>5, <3>1
    <3> QED
      BY <1>1, <1>3, <1>4, <2>2, <3>1, <3>2, KeepStep
  <2>3. CASE /\ ~Incomplete(len, TotalLen(l))
             /\ Handle(TotalLen(l), FlagAfterBlock, taken + n)
    <3>1. len = stream[m].size
      BY <1>2, <1>5, <1>6, <2>3 DEF Incomplete
    <3>2. FlagAfterBlock = IF stream[m].kind = "ready" THEN 1 ELSE 0
      BY <1>5 DEF FlagAfterBlock
    <3> QED
      BY <1>1, <1>3, <1>4, <1>5, <2>3, <3>1, <3>2, HandleStep
  <2> QED
    BY <2>1, <2>2, <2>3
<1> QED
  BY <1>7, <1>8

\* The next read is started; a read fails; the connection goes.
LEMMA ChainSteps ==
  ASSUME IndInv, Handled \/ ReadError \/ PeerLost
  PROVE  Kept
<1>1. UNCHANGED <<stream, replies, from, taken, data_len, n_flag, handled>>
  BY DEF Handled, ReadError, PeerLost, wireVars, bufferVars
<1>2. /\ StreamInv' /\ RepliesInv' /\ HandledInv' /\ Total' = Total
      /\ \A b : Boundary(b) => Boundary(b)'
      /\ UNCHANGED Channel!vars
  BY <1>1, Quiet
<1>3. pc # "accept" => Boundary(REG_LENGTH)'
  BY <1>2 DEF IndInv, BufferInv
<1>4. CASE Handled
  <2>1. pc = "handler" /\ pc' = "read" /\ rd' = 1 /\ link' = link
    BY <1>4 DEF Handled, Read
  <2>2. from >= REG_LENGTH /\ Boundary(from) /\ data_len = 0 /\ taken = from
    BY <2>1 DEF IndInv, BufferInv
  <2>3. ReadBuffer'
    BY <1>1, <2>1, <2>2, BufferTyped DEF ReadBuffer
  <2>4. Boundary(from)'
    BY <1>1, <1>2, <2>2 DEF Boundary
  <2>5. BufferInv'
    BY <1>1, <1>2, <1>3, <2>1, <2>2, <2>3, <2>4, BufferTyped
       DEF IndInv, BufferInv
  <2> QED
    BY <1>2, <2>5 DEF Kept, IndInv
<1>5. CASE ReadError
  <2>1. pc # "accept" /\ pc' = "none" /\ rd' = 0 /\ link' = link
    BY <1>5 DEF ReadError
  <2>2. BufferInv'
    BY <1>1, <1>2, <1>3, <2>1, BufferTyped DEF IndInv, BufferInv
  <2> QED
    BY <1>2, <2>2 DEF Kept, IndInv
<1>6. CASE PeerLost
  <2>1. link = "up" /\ link' = "closed" /\ pc' = pc /\ rd' = rd
    BY <1>6 DEF PeerLost, readVars
  <2>2. /\ ReadBuffer => ReadBuffer'
        /\ SpecBuffer => SpecBuffer'
        /\ RegBuffer => RegBuffer'
    BY <1>1, <2>1 DEF ReadBuffer, SpecBuffer, RegBuffer, Begun
  <2>3. Boundary(from) => Boundary(from)'
    BY <1>1, <1>2 DEF Boundary
  <2>4. BufferInv'
    BY <1>1, <1>2, <1>3, <2>1, <2>2, <2>3, BufferTyped DEF IndInv, BufferInv
  <2> QED
    BY <1>2, <2>4 DEF Kept, IndInv
<1> QED
  BY <1>4, <1>5, <1>6

-----------------------------------------------------------------------------
(* The steps of the manager.                                               *)

\* The registration is sent.
LEMMA AcceptStep ==
  ASSUME IndInv, Accept
  PROVE  Kept
<1>1. /\ pc = "accept" /\ link' = "up" /\ pc' = "reg" /\ rd' = REG_LENGTH
      /\ stream' = <<Item("reg", 0, 0, REG_LENGTH)>>
      /\ UNCHANGED <<replies, taken, from, data_len, n_flag, handled>>
  BY DEF Accept, ReadReg, bufferVars
<1>2. stream = <<>> /\ replies = <<>> /\ taken = 0 /\ from = 0
  BY <1>1, BufferTyped DEF IndInv, BufferInv
<1> DEFINE i == Item("reg", 0, 0, REG_LENGTH)
<1>3. WellFormed(i) /\ i.start = 0 /\ End(i) = REG_LENGTH /\ i.kind = "reg"
  BY DEF WellFormed, AnItem, Item, End
<1>4. stream' = Append(stream, i) /\ Total = 0
  BY <1>1, <1>2 DEF Total
<1> HIDE DEF i
<1>5. /\ StreamInv' /\ Total' = REG_LENGTH
      /\ Len(stream') = 1 /\ stream'[1] = i
  BY <1>2, <1>3, <1>4, ItemSent DEF IndInv
<1>6. handled = <<>> /\ n_flag = 0
  BY <1>2 DEF IndInv, HandledInv
<1>7. RepliesInv'
  BY <1>1, <1>2, <1>3, <1>5 DEF IndInv, RepliesInv
<1>8. HandledInv'
  BY <1>1, <1>2 DEF IndInv, HandledInv
<1>9. BufferInv'
  <2>1. Boundary(REG_LENGTH)'
    BY <1>5 DEF Boundary
  <2>2. data_len = 0
    BY <1>1 DEF IndInv, BufferInv
  <2>3. RegBuffer'
    BY <1>1, <1>2, <1>6, <2>2 DEF RegBuffer
  <2> QED
    BY <1>1, <1>2, <1>5, <2>1, <2>2, <2>3 DEF BufferInv
<1>10. UNCHANGED Channel!vars
  BY <1>1 DEF Channel!vars, Sent
<1> QED
  BY <1>5, <1>7, <1>8, <1>9, <1>10 DEF Kept, IndInv

\* What is sent later does not touch what has been read.
LEMMA BufferSent ==
  ASSUME IndInv, Registered, NEW i, WellFormed(i), i.start = Total,
         stream' = Append(stream, i),
         UNCHANGED <<taken, bufferVars, readVars, link, handled>>
  PROVE  BufferInv'
<1>1. /\ Total' = End(i) /\ Total <= Total' /\ Total' \in Nat
      /\ \A b : Boundary(b) => Boundary(b)'
      /\ Len(stream') = Len(stream) + 1 /\ Len(stream) \in Nat
      /\ \A n \in 1 .. Len(stream) : stream'[n] = stream[n]
  <2>1. i.size \in Nat
    BY DEF WellFormed, AnItem
  <2>2. stream \in Seq(AnItem) /\ Total \in Nat
    BY DEF IndInv, StreamInv
  <2> QED
    BY <2>1, <2>2, ItemSent DEF IndInv, End
<1>2. /\ UNCHANGED <<taken, from, data_len, n_flag, pc, rd, link, handled>>
      /\ taken >= REG_LENGTH
  BY DEF bufferVars, readVars, Registered
<1>3. pc # "reg" /\ pc # "accept"
  BY <1>2, BufferTyped DEF IndInv, BufferInv, RegBuffer
<1>4. ReadBuffer => ReadBuffer'
  <2>1. ASSUME NEW n \in 1 .. Len(stream), Begun(n)
        PROVE  Begun(n)' /\ n \in 1 .. Len(stream')
    BY <1>1, <1>2, <2>1 DEF Begun
  <2> QED
    BY <1>1, <1>2, <2>1 DEF ReadBuffer
<1>5. SpecBuffer => SpecBuffer'
  <2>1. ASSUME NEW n \in 1 .. Len(stream), Begun(n)
        PROVE  Begun(n)' /\ n \in 1 .. Len(stream')
    BY <1>1, <1>2, <2>1 DEF Begun
  <2> QED
    BY <1>1, <1>2, <2>1 DEF SpecBuffer
<1>6. Boundary(from) => Boundary(from)'
  BY <1>1, <1>2 DEF Boundary
<1> QED
  BY <1>1, <1>2, <1>3, <1>4, <1>5, <1>6, BufferTyped DEF IndInv, BufferInv

LEMMA SendBeatStep ==
  ASSUME IndInv, SendBeat
  PROVE  Kept
<1>1. /\ stream' = Append(stream, Beat) /\ Registered
      /\ UNCHANGED <<replies, taken, bufferVars, readVars, link, handled>>
  BY DEF SendBeat
<1>2. WellFormed(Beat) /\ Beat.start = Total /\ Beat.kind = "beat"
  BY BufferTyped, ItemsWellFormed DEF Beat, Item
<1>3. /\ StreamInv' /\ Len(stream') = Len(stream) + 1
      /\ stream'[Len(stream) + 1] = Beat
      /\ \A n \in 1 .. Len(stream) : stream'[n] = stream[n]
  BY <1>1, <1>2, ItemSent DEF IndInv
<1>4. BufferInv'
  BY <1>1, <1>2, BufferSent
<1>5. Len(stream) \in Nat
  BY DEF IndInv, StreamInv
<1>6. RepliesInv'
  <2>1. ASSUME NEW n \in 1 .. Len(stream'), stream'[n].kind \in Reply
        PROVE  \E i \in 1 .. Len(replies) : replies[i] = stream'[n]
    <3>1. n \in 1 .. Len(stream)
      BY <1>2, <1>3, <1>5, <2>1
    <3> QED
      BY <1>3, <2>1, <3>1 DEF IndInv, RepliesInv
  <2>2. \A i \in 1 .. Len(replies) :
          \E n \in 1 .. Len(stream') : replies[i] = stream'[n]
    BY <1>3, <1>5 DEF IndInv, RepliesInv
  <2> QED
    BY <1>1, <2>1, <2>2 DEF IndInv, RepliesInv
<1>7. HandledInv'
  BY <1>1 DEF IndInv, HandledInv, bufferVars
<1>8. UNCHANGED Channel!vars
  BY <1>1 DEF Channel!vars, Sent
<1> QED
  BY <1>3, <1>4, <1>6, <1>7, <1>8 DEF Kept, IndInv

\* In collections of one block the next reply is a block just after "ready".
LEMMA NextItemsAre ==
  ASSUME IndInv, OneBlock, NEW i \in NextItems
  PROVE  /\ WellFormed(i) /\ i.start = Total
         /\ i.kind \in Reply /\ i.kind # "block"
         /\ i.kind \in BlockReply <=> BlockDue
         /\ BlockDue <=>
              Len(replies) > 0 /\ replies[Len(replies)].kind = "ready"
<1>1. BlockDue <=> Len(replies) > 0 /\ replies[Len(replies)].kind = "ready"
  <2>1. RepliesInv /\ Len(replies) \in Nat
    BY DEF IndInv, RepliesInv
  <2>2. CASE Len(replies) > 0
    <3>1. Len(replies) \in 1 .. Len(replies)
      BY <2>1, <2>2
    <3>2. /\ Sent # <<>> /\ Sent[Len(Sent)] = replies[Len(replies)].kind
          /\ replies[Len(replies)].kind # "block"
      BY <2>1, <2>2, <3>1, SentIs DEF RepliesInv
    <3> QED
      BY <2>2, <3>2 DEF BlockDue
  <2>3. CASE ~(Len(replies) > 0)
    BY <2>1, <2>3, SentIs DEF BlockDue
  <2> QED
    BY <2>2, <2>3
<1>2. CASE BlockDue
  <2>1. PICK n \in Blocks : i = BlockItem("last", n)
    BY <1>2 DEF NextItems, OneBlock
  <2> QED
    BY <1>1, <1>2, <2>1, BufferTyped, ItemsWellFormed DEF BlockItem, Item
<1>3. CASE ~BlockDue
  <2>1. PICK k \in Kinds : i = ShortItem(k)
    BY <1>3 DEF NextItems
  <2>2. k \in ShortReply
    BY Numbers
  <2> QED
    BY <1>1, <1>3, <2>1, <2>2, BufferTyped, ItemsWellFormed DEF ShortItem, Item
<1> QED
  BY <1>2, <1>3

LEMMA SendReplyStep ==
  ASSUME IndInv, OneBlock, SendReply
  PROVE  Kept
<1>1. PICK i \in NextItems :
        stream' = Append(stream, i) /\ replies' = Append(replies, i)
  BY DEF SendReply
<1>2. /\ Registered
      /\ UNCHANGED <<taken, bufferVars, readVars, link, handled>>
  BY DEF SendReply
<1>3. /\ WellFormed(i) /\ i.start = Total
      /\ i.kind \in Reply /\ i.kind # "block"
      /\ i.kind \in BlockReply <=>
           Len(replies) > 0 /\ replies[Len(replies)].kind = "ready"
  BY NextItemsAre
<1> DEFINE k == Len(replies) + 1
<1>4. /\ StreamInv' /\ Len(stream') = Len(stream) + 1
      /\ stream'[Len(stream) + 1] = i
      /\ \A n \in 1 .. Len(stream) : stream'[n] = stream[n]
  BY <1>1, <1>3, ItemSent DEF IndInv
<1>5. /\ replies' \in Seq(AnItem) /\ Len(replies') = k /\ replies'[k] = i
      /\ \A n \in 1 .. Len(replies) : replies'[n] = replies[n]
      /\ Len(replies) \in Nat /\ Len(stream) \in Nat
  BY <1>1, <1>3 DEF IndInv, RepliesInv, StreamInv, WellFormed
<1>6. \A n \in 1 .. Len(replies) :
        replies[n].kind \in Reply /\ End(replies[n]) <= Total
  <2>1. ASSUME NEW n \in 1 .. Len(replies) PROVE End(replies[n]) <= Total
    <3>1. PICK m \in 1 .. Len(stream) : replies[n] = stream[m]
      BY DEF IndInv, RepliesInv
    <3> QED
      BY <3>1 DEF IndInv, StreamInv
  <2> QED
    BY <2>1 DEF IndInv, RepliesInv
<1>7. RepliesInv'
  <2>1. ASSUME NEW n \in 1 .. k
        PROVE  /\ replies'[n].kind \in Reply /\ replies'[n].kind # "block"
               /\ \E m \in 1 .. Len(stream') : replies'[n] = stream'[m]
               /\ replies'[n].kind \in BlockReply
                    <=> n > 1 /\ replies'[n - 1].kind = "ready"
    <3>1. CASE n = k
      BY <1>3, <1>4, <1>5, <3>1
    <3>2. CASE n \in 1 .. Len(replies)
      <4>1. replies'[n] = replies[n] /\ (n > 1 => replies'[n - 1] = replies[n - 1])
        BY <1>5, <3>2
      <4>2. /\ replies[n].kind \in Reply /\ replies[n].kind # "block"
            /\ \E m \in 1 .. Len(stream) : replies[n] = stream[m]
            /\ replies[n].kind \in BlockReply
                 <=> n > 1 /\ replies[n - 1].kind = "ready"
        BY <3>2 DEF IndInv, RepliesInv
      <4>3. \E m \in 1 .. Len(stream') : replies'[n] = stream'[m]
        BY <1>4, <1>5, <4>1, <4>2
      <4> QED
        BY <4>1, <4>2, <4>3
    <3> QED
      BY <1>5, <3>1, <3>2
  <2>2. ASSUME NEW m \in 1 .. k, NEW n \in 1 .. k, m < n
        PROVE  End(replies'[m]) <= replies'[n].start
    <3>1. m \in 1 .. Len(replies)
      BY <1>5, <2>2
    <3>2. CASE n = k
      BY <1>3, <1>5, <1>6, <3>1, <3>2
    <3>3. CASE n \in 1 .. Len(replies)
      BY <1>5, <2>2, <3>1, <3>3 DEF IndInv, RepliesInv
    <3> QED
      BY <1>5, <3>2, <3>3
  <2>3. ASSUME NEW n \in 1 .. Len(stream'), stream'[n].kind \in Reply
        PROVE  \E j \in 1 .. k : replies'[j] = stream'[n]
    <3>1. CASE n = Len(stream) + 1
      BY <1>4, <1>5, <3>1
    <3>2. CASE n \in 1 .. Len(stream)
      <4>1. PICK j \in 1 .. Len(replies) : replies[j] = stream[n]
        BY <1>4, <2>3, <3>2 DEF IndInv, RepliesInv
      <4> QED
        BY <1>4, <1>5, <3>2, <4>1
    <3> QED
      BY <1>4, <1>5, <3>1, <3>2
  <2> QED
    BY <1>5, <2>1, <2>2, <2>3 DEF RepliesInv
<1>8. HandledInv'
  <2>1. /\ UNCHANGED <<from, n_flag, handled>>
        /\ Len(handled) <= Len(replies) /\ Len(handled) \in Nat
        /\ from <= Total /\ from \in Nat /\ Total \in Nat
    BY <1>2, BufferTyped DEF IndInv, HandledInv, bufferVars
  <2>2. ASSUME NEW j \in 1 .. k
        PROVE  IF j <= Len(handled') THEN End(replies'[j]) <= from'
                                     ELSE from' <= replies'[j].start
    <3>1. CASE j = k
      BY <1>3, <1>5, <2>1, <3>1
    <3>2. CASE j \in 1 .. Len(replies)
      BY <1>5, <2>1, <3>2 DEF IndInv, HandledInv
    <3> QED
      BY <1>5, <3>1, <3>2
  <2>3. n_flag' = 1 <=>
          Len(handled') > 0 /\ replies'[Len(handled')].kind = "ready"
    BY <1>5, <2>1 DEF IndInv, HandledInv
  <2> QED
    BY <1>5, <2>1, <2>2, <2>3 DEF IndInv, HandledInv
<1>9. BufferInv'
  BY <1>1, <1>2, <1>3, BufferSent
<1>10. Channel!SendReply(i.kind)
  <2>1. Sent' = [n \in 1 .. k |-> replies'[n].kind]
    BY <1>5 DEF Sent
  <2>2. Sent' = Append(Sent, i.kind)
    <3>1. Sent \in Seq(Reply) /\ Len(Sent) = Len(replies)
      BY SentIs DEF IndInv
    <3> QED
      BY <1>3, <1>5, <2>1, <3>1, SentIs DEF Sent
  <2> QED
    BY <1>2, <2>2 DEF Channel!SendReply
<1> QED
  BY <1>3, <1>4, <1>7, <1>8, <1>9, <1>10 DEF Kept, IndInv, Channel!Next

-----------------------------------------------------------------------------
(* The theorems.                                                           *)

LEMMA InitInv ==
  ASSUME Init
  PROVE  IndInv
<1>1. Total = 0
  BY DEF Init, Total
<1> QED
  BY <1>1 DEF Init, IndInv, StreamInv, RepliesInv, HandledInv, BufferInv

LEMMA NextInv ==
  ASSUME IndInv, OneBlock, [Next]_vars
  PROVE  Kept
<1>1. ASSUME UNCHANGED vars PROVE Kept
  <2>1. UNCHANGED <<stream, replies, from, taken, data_len, n_flag, pc, rd,
                    link, handled>>
    BY <1>1 DEF vars, wireVars, bufferVars, readVars
  <2>2. /\ StreamInv' /\ RepliesInv' /\ HandledInv' /\ Total' = Total
        /\ \A b : Boundary(b) => Boundary(b)'
        /\ UNCHANGED Channel!vars
    BY <2>1, Quiet
  <2>3. /\ ReadBuffer => ReadBuffer'
        /\ SpecBuffer => SpecBuffer'
        /\ RegBuffer => RegBuffer'
    BY <2>1 DEF ReadBuffer, SpecBuffer, RegBuffer, Begun
  <2>4. /\ Boundary(from) => Boundary(from)'
        /\ Boundary(REG_LENGTH) => Boundary(REG_LENGTH)'
    BY <2>1, <2>2 DEF Boundary
  <2>5. BufferInv'
    BY <2>1, <2>2, <2>3, <2>4 DEF IndInv, BufferInv
  <2> QED
    BY <2>2, <2>5 DEF Kept, IndInv
<1>2. ASSUME Next PROVE Kept
  BY <1>2, AcceptStep, OnReadRegStep, OnReadStep, OnReadSpecStep, ChainSteps,
     SendReplyStep, SendBeatStep
     DEF Next, ReadChain, Manager
<1> QED
  BY <1>1, <1>2

LEMMA AlwaysInv ==
  ASSUME OneBlock
  PROVE  Spec => []IndInv
<1>1. IndInv /\ [Next]_vars => IndInv'
  BY NextInv DEF Kept
<1> QED
  BY <1>1, InitInv, PTL DEF Spec

\* Every variable keeps its type; _data_len is the number of bytes in _data
\* while a read is pending, and no more is read than was sent.
THEOREM ReaderTyped ==
  ASSUME OneBlock
  PROVE  Spec => []TypeOK
<1>1. ASSUME IndInv PROVE TypeOK
  <2>1. taken \in 0 .. Total /\ from \in 0 .. taken
    BY <1>1, BufferTyped
  <2>2. \A i \in 1 .. Len(handled) : handled[i] \in Reply \cup {"cut"}
    BY <1>1 DEF IndInv, HandledInv
  <2>3. pc \in {"read", "spec"} => data_len = taken - from
    BY <1>1 DEF IndInv, BufferInv, ReadBuffer, SpecBuffer
  <2> QED
    BY <1>1, <2>1, <2>2, <2>3 DEF TypeOK, IndInv, HandledInv, BufferInv
<1> QED
  BY <1>1, AlwaysInv, PTL

\* No read asks for zero bytes or writes beyond the 1024 bytes of _data, while
\* a block has 53 meters at most.
THEOREM ReadsFit ==
  ASSUME OneBlock, BlocksFit
  PROVE  Spec => []ReadFits
<1>1. ASSUME IndInv, pc = "reg" PROVE ReadFits
  BY <1>1 DEF IndInv, BufferInv, RegBuffer, ReadFits, BUFSIZE
<1>2. ASSUME IndInv, NEW m \in 1 .. Len(stream), stream[m].kind \in Reply
      PROVE  \A x \in Nat : x <= stream[m].size => x <= BUFSIZE
  <2>1. WellFormed(stream[m]) /\ stream[m].size \in Nat
    BY <1>2, Sizes DEF IndInv, StreamInv
  <2>2. CASE stream[m].kind \in ShortReply
    <3>1. stream[m].size \in 10 .. 21
      BY <1>2, <2>2, Sizes
    <3> QED
      BY <3>1 DEF BUFSIZE
  <2>3. CASE stream[m].kind \in BlockReply
    <3>1. /\ stream[m].len \in Blocks
          /\ stream[m].size = 11 + 19 * stream[m].len
      BY <2>1, <2>3 DEF WellFormed
    <3>2. ASSUME NEW l \in Blocks, NEW x \in Nat, x <= 11 + 19 * l
          PROVE  x <= BUFSIZE
      <4>1. l \in 1 .. 255 /\ 11 + 19 * l <= 1024
        BY Numbers DEF BlocksFit, BUFSIZE
      <4> QED
        BY <3>2, <4>1 DEF BUFSIZE
    <3> QED
      BY <3>1, <3>2
  <2> QED
    BY <1>2, <2>2, <2>3
<1>3. ASSUME IndInv, pc \in {"read", "spec"} PROVE ReadFits
  <2>1. /\ rd \in Nat \ {0} /\ data_len = taken - from
        /\ \/ data_len = 0 /\ rd = 1
           \/ \E m \in 1 .. Len(stream) : Begun(m)
    BY <1>3 DEF IndInv, BufferInv, ReadBuffer, SpecBuffer
  <2>2. CASE data_len = 0 /\ rd = 1
    BY <2>1, <2>2 DEF ReadFits, BUFSIZE
  <2>3. ASSUME NEW m \in 1 .. Len(stream), Begun(m) PROVE ReadFits
    <3>1. /\ data_len + rd \in Nat /\ data_len + rd <= stream[m].size
          /\ stream[m].kind \in Reply
      BY <1>3, <2>3, BufferTyped DEF Begun
    <3>2. data_len + rd <= BUFSIZE
      BY <1>2, <1>3, <3>1
    <3> QED
      BY <2>1, <3>2 DEF ReadFits
  <2> QED
    BY <2>1, <2>2, <2>3
<1>4. ASSUME IndInv PROVE ReadFits
  BY <1>1, <1>3, <1>4 DEF ReadFits
<1> QED
  BY <1>4, AlwaysInv, PTL

\* The read chain implements ReplyChannel: the handlers are called with the
\* manager's replies, whole, each once and in the order they were sent.
THEOREM ReaderImplementsChannel ==
  ASSUME OneBlock
  PROVE  Spec => RepliesKept
<1>1. ASSUME Init PROVE Channel!Init
  BY <1>1 DEF Init, Channel!Init, Sent
<1>2. ASSUME IndInv, [Next]_vars PROVE [Channel!Next]_(Channel!vars)
  BY <1>2, NextInv DEF Kept
<1> QED
  BY <1>1, <1>2, AlwaysInv, PTL DEF Spec, RepliesKept, Channel!Spec
=============================================================================
