-------------------------- MODULE AdHocReader_proof --------------------------
(***************************************************************************)
(* Theorems of AdHocReader for a manager that sends one reply at a time,   *)
(* directly after its line: the types, the bounds of _data, and that the   *)
(* read chain implements ReplyChannel, whatever numbers of bytes the reads *)
(* return and however many heartbeats queue up.                            *)
(*                                                                         *)
(* The argument is that _data begins where an item begins and that the     *)
(* bytes it takes up besides that item are known: the first bytes of the   *)
(* reply after a line, and heartbeats after a reply.                       *)
(***************************************************************************)
EXTENDS AdHocReader, TLAPS

\* The conditions on the manager.
OneByOne == Pipelined = FALSE /\ BeatInside = FALSE /\ BlockRefused = FALSE

\* The blocks that fit into _data.
BlocksFit == \A n \in Blocks : 57 * n + 38 <= BUFSIZE

Reply == ShortReply \cup BlockReply

-----------------------------------------------------------------------------
(* What is sent: items that follow each other.                             *)

End(i) == i.start + i.size

AnItem ==
  [kind : Reply \cup {"reg", "beat", "ok"}, len : Nat, start : Nat,
   size : Nat \ {0}]

\* The size of a reply, as its length byte gives it.
ReplySize(i) ==
  IF i.kind = "receive" THEN 26
  ELSE IF i.kind \in BlockReply THEN 57 * i.len + 38 ELSE 3 * i.len + 5

WellFormed(i) ==
  /\ i \in AnItem
  /\ i.kind = "reg" => i.start = 0
  /\ i.kind = "beat" => i.size = 1
  /\ i.kind = "ok" => i.size \in 4 .. 11
  /\ i.kind \in Reply => i.size = ReplySize(i)
  /\ i.kind \in ShortReply \ {"receive"} => i.len \in 10 .. 21
  /\ i.kind \in BlockReply => i.len \in Blocks

\* Byte j of the stream is in the item.
Holds(i, j) == j \in i.start + 1 .. i.start + i.size

\* A heartbeat or a line begins after b bytes, or may be sent next.
Start(b) ==
  \/ b = Total
  \/ \E n \in 1 .. Len(stream) :
       stream[n].start = b /\ stream[n].kind \in {"beat", "ok"}

\* Every byte is in an item, and a line comes before each reply and nowhere
\* else.
StreamInv ==
  /\ stream \in Seq(AnItem)
  /\ Total \in Nat
  /\ \A n \in 1 .. Len(stream) :
       /\ WellFormed(stream[n])
       /\ End(stream[n]) = IF n = Len(stream) THEN Total ELSE stream[n + 1].start
       /\ stream[n].kind = "ok" => n < Len(stream) /\ stream[n + 1].kind \in Reply
       /\ stream[n].kind \in Reply => n > 1 /\ stream[n - 1].kind = "ok"
  /\ \A m, n \in 1 .. Len(stream) :
       m < n => End(stream[m]) <= stream[n].start
  /\ \A j \in 1 .. Total : \E n \in 1 .. Len(stream) : Holds(stream[n], j)

\* The replies are those of the stream, and a block is what follows "ready" or
\* a block that is not the last.
RepliesInv ==
  /\ replies \in Seq(AnItem)
  /\ \A i \in 1 .. Len(replies) :
       /\ replies[i].kind \in Reply
       /\ \E n \in 1 .. Len(stream) : replies[i] = stream[n]
       /\ replies[i].kind \in BlockReply
            <=> i > 1 /\ replies[i - 1].kind \in {"ready", "block"}
  /\ \A i, j \in 1 .. Len(replies) :
       i < j => End(replies[i]) <= replies[j].start
  /\ \A n \in 1 .. Len(stream) : stream[n].kind \in Reply =>
       \E i \in 1 .. Len(replies) : replies[i] = stream[n]

-----------------------------------------------------------------------------
(* What is read and handled.                                               *)

\* The replies that were handled end before _data, the only other one begins
\* in it or behind it; _n_flag says that a block is next.
HandledInv ==
  /\ handled \in Seq(Reply)
  /\ Len(replies) \in {Len(handled), Len(handled) + 1}
  /\ \A i \in 1 .. Len(replies) :
       IF i <= Len(handled) THEN End(replies[i]) <= from
                            ELSE from <= replies[i].start
  /\ n_flag \in {0, 1}
  /\ n_flag = 1 <=>
       Len(handled) > 0 /\ replies[Len(handled)].kind \in {"ready", "block"}

RegBuffer ==
  /\ from = 0 /\ data_len = 0 /\ taken < REG_LENGTH
  /\ rd = REG_LENGTH - taken /\ Total = REG_LENGTH
  /\ replies = <<>> /\ handled = <<>> /\ n_flag = 0

\* _data begins with a line, and more is asked for until it has 11 bytes.
AtLine(n) ==
  /\ stream[n].start = from /\ stream[n].kind = "ok"
  /\ data_len > 0 /\ data_len + rd <= 11

\* _data begins with a reply, which is not complete; the bytes asked for do not
\* go beyond it, or at least not far.
AtReply(n, most) ==
  /\ stream[n].start = from /\ stream[n].kind \in Reply
  /\ data_len < stream[n].size
  /\ data_len + rd <= most \/ data_len + rd = stream[n].size

\* OnRead goes byte by byte until it sees what it has; it leaves a line that
\* comes before a block to OnReadSpec.
ReadBuffer ==
  /\ data_len = taken - from /\ rd \in Nat \ {0}
  /\ \/ data_len = 0 /\ rd = 1 /\ Start(from)
     \/ \E n \in 1 .. Len(stream) :
          /\ AtLine(n)
          /\ data_len < 3 => rd = 1
          /\ n_flag = 1 => data_len < 3
     \/ n_flag = 0 /\ \E n \in 1 .. Len(stream) : AtReply(n, 33)

SpecBuffer ==
  /\ data_len = taken - from /\ rd \in Nat \ {0}
  /\ n_flag = 1
  /\ \/ \E n \in 1 .. Len(stream) : AtLine(n) /\ data_len >= 3
     \/ \E n \in 1 .. Len(stream) : AtReply(n, 17)

BufferInv ==
  /\ pc \in {"accept", "reg", "read", "spec", "handler", "loop", "none"}
  /\ from \in Nat /\ taken \in Nat /\ data_len \in Nat /\ rd \in Nat
  /\ from <= taken /\ taken <= Total
  /\ pc = "accept" => stream = <<>> /\ replies = <<>> /\ taken = 0 /\ data_len = 0
  /\ pc = "reg" => RegBuffer
  /\ pc \in {"read", "spec", "handler", "loop"} => from >= REG_LENGTH
  /\ pc = "read" => ReadBuffer
  /\ pc = "spec" => SpecBuffer
  /\ pc \in {"handler", "loop"} => data_len = 0 /\ taken = from /\ Start(from)

TimerInv ==
  /\ link \in {"none", "up", "silent", "closed"}
  /\ wait \in {"none", "pending", "due"}
  /\ expiry \in {"unset", "running", "past", "never"}

IndInv == StreamInv /\ RepliesInv /\ HandledInv /\ BufferInv /\ TimerInv

USE DEF REG_LENGTH, Reply, ShortReply, BlockReply

-----------------------------------------------------------------------------
(* The stream.                                                             *)

LEMMA Numbers ==
  /\ Kinds \subseteq ShortReply
  /\ \A l \in OkLines : l \in 4 .. 11
  /\ \A n \in Blocks : n \in Nat \ {0}
BY ConstantsAssumption

\* What the manager sends is well formed.
LEMMA ItemsWellFormed ==
  ASSUME NEW s \in Nat
  PROVE  /\ WellFormed(Beat(s))
         /\ \A l \in OkLines : WellFormed(OkLine(s, l))
         /\ \A k \in Kinds : WellFormed(ShortItem(k, s))
         /\ \A k \in BlockReply, n \in Blocks : WellFormed(BlockItem(k, n, s))
<1>1. WellFormed(Beat(s))
  BY DEF WellFormed, AnItem, Beat, Item
<1>2. ASSUME NEW l \in OkLines PROVE WellFormed(OkLine(s, l))
  <2>1. l \in 4 .. 11
    BY Numbers
  <2> QED
    BY <2>1 DEF WellFormed, AnItem, OkLine, Item
<1>3. ASSUME NEW k \in Kinds PROVE WellFormed(ShortItem(k, s))
  <2>1. k \in ShortReply
    BY Numbers
  <2>2. CASE k = "receive"
    BY <2>2 DEF WellFormed, AnItem, ShortItem, Item, ReplySize
  <2>3. CASE k # "receive"
    <3>1. LengthByte(k) \in 10 .. 21
      BY <2>1, <2>3 DEF LengthByte
    <3>2. /\ ShortItem(k, s).kind = k /\ ShortItem(k, s).len = LengthByte(k)
          /\ ShortItem(k, s).size = 3 * LengthByte(k) + 5
          /\ ShortItem(k, s).start = s
      BY <2>3 DEF ShortItem, Item
    <3>3. 3 * LengthByte(k) + 5 \in Nat \ {0}
      BY <3>1
    <3>4. ShortItem(k, s) \in AnItem
      BY <2>1, <2>3, <3>1, <3>3 DEF AnItem, ShortItem, Item
    <3> QED
      BY <2>1, <2>3, <3>1, <3>2, <3>4 DEF WellFormed, ReplySize
  <2> QED
    BY <2>2, <2>3
<1>4. ASSUME NEW k \in BlockReply, NEW n \in Blocks
      PROVE  WellFormed(BlockItem(k, n, s))
  <2>1. n \in Nat \ {0}
    BY Numbers
  <2> QED
    BY <2>1 DEF WellFormed, AnItem, BlockItem, Item, ReplySize
<1> QED
  BY <1>1, <1>2, <1>3, <1>4

\* Numbers of a sequence of items.
LEMMA ItemsTyped ==
  ASSUME NEW s \in Seq(AnItem), NEW j \in 1 .. Len(s)
  PROVE  /\ s[j].start \in Nat /\ s[j].size \in Nat \ {0}
         /\ s[j].len \in Nat /\ End(s[j]) \in Nat
         /\ End(s[j]) > s[j].start
         /\ s[j].kind \in Reply \cup {"reg", "beat", "ok"}
<1>1. s[j] \in AnItem
  OBVIOUS
<1> QED
  BY <1>1 DEF AnItem, End

\* A byte is in one item only.
LEMMA ItemIs ==
  ASSUME StreamInv, NEW j \in Nat,
         NEW n \in 1 .. Len(stream), Holds(stream[n], j)
  PROVE  ItemAt(j) = stream[n]
<1>1. ASSUME NEW m \in 1 .. Len(stream), Holds(stream[m], j)
      PROVE  /\ stream[m].start \in Nat /\ End(stream[m]) \in Nat
             /\ stream[m].start < j /\ j <= End(stream[m])
  <2>1. stream[m].start \in Nat /\ stream[m].size \in Nat
    BY ItemsTyped DEF StreamInv
  <2> QED
    BY <1>1, <2>1 DEF Holds, End
<1>2. ASSUME NEW m \in 1 .. Len(stream), Holds(stream[m], j) PROVE m = n
  <2>1. m < n => End(stream[m]) <= stream[n].start
    BY DEF StreamInv
  <2>2. n < m => End(stream[n]) <= stream[m].start
    BY DEF StreamInv
  <2> QED
    BY <1>1, <1>2, <2>1, <2>2
<1>3. n = CHOOSE m \in 1 .. Len(stream) : Holds(stream[m], j)
  BY <1>2
<1> QED
  BY <1>3 DEF ItemAt, Holds

\* No item goes beyond what was sent.
LEMMA EndsWithin ==
  ASSUME StreamInv, NEW n \in 1 .. Len(stream)
  PROVE  End(stream[n]) <= Total
<1> DEFINE l == Len(stream)
<1>1. l \in 1 .. l /\ Total \in Nat
  BY DEF StreamInv
<1>2. End(stream[l]) = Total
  BY <1>1 DEF StreamInv
<1>3. n < l => End(stream[n]) <= stream[l].start
  BY <1>1 DEF StreamInv
<1>4. /\ End(stream[n]) \in Nat /\ stream[l].start \in Nat
      /\ End(stream[l]) \in Nat /\ End(stream[l]) > stream[l].start
  BY <1>1, ItemsTyped DEF StreamInv
<1>5. n = l \/ n < l
  BY <1>1
<1> QED
  BY <1>1, <1>2, <1>3, <1>4, <1>5

\* What the code sees of the item _data begins with.
LEMMA ByteOf ==
  ASSUME StreamInv, from \in Nat,
         NEW n \in 1 .. Len(stream), stream[n].start = from,
         NEW i \in Nat, i < stream[n].size
  PROVE  ItemAt(from + i + 1) = stream[n]
<1>1. stream[n].start \in Nat /\ stream[n].size \in Nat
  BY ItemsTyped DEF StreamInv
<1>2. Holds(stream[n], from + i + 1)
  BY <1>1 DEF Holds
<1> QED
  BY <1>2, ItemIs

\* The sizes of the replies.
LEMMA ReplyLong ==
  ASSUME NEW i, WellFormed(i), i.kind \in Reply
  PROVE  /\ i.size \in Nat /\ i.len \in Nat
         /\ i.size > 25
         /\ i.kind # "receive" => i.size > 33
         /\ i.kind = "receive" => i.size = 26
         /\ i.kind \in ShortReply \ {"receive"} =>
              i.size = 3 * i.len + 5 /\ i.len \in 10 .. 21
         /\ i.kind \in BlockReply =>
              i.size = 57 * i.len + 38 /\ i.len \in Blocks
<1>1. i.size \in Nat /\ i.len \in Nat /\ i.size = ReplySize(i)
  BY DEF WellFormed, AnItem
<1>2. CASE i.kind = "receive"
  BY <1>1, <1>2 DEF ReplySize
<1>3. CASE i.kind \in ShortReply \ {"receive"}
  <2>1. i.size = 3 * i.len + 5 /\ i.len \in 10 .. 21
    BY <1>1, <1>3 DEF ReplySize, WellFormed
  <2>2. \A l \in 10 .. 21 : 3 * l + 5 > 33
    OBVIOUS
  <2> QED
    BY <1>1, <1>3, <2>1, <2>2
<1>4. CASE i.kind \in BlockReply
  <2>1. i.size = 57 * i.len + 38 /\ i.len \in Blocks
    BY <1>1, <1>4 DEF ReplySize, WellFormed
  <2>2. \A l \in Nat : 57 * l + 38 > 33
    OBVIOUS
  <2> QED
    BY <1>1, <1>4, <2>1, <2>2
<1> QED
  BY <1>2, <1>3, <1>4

\* What the code sees of a line and of a reply.
LEMMA LineShows ==
  ASSUME from \in Nat, NEW i \in Nat, NEW to \in Nat, from + i < to,
         NEW s \in 4 .. 11, NEW it, ItemAt(from + i + 1) = it,
         it.start = from, it.size = s, it.kind = "ok"
  PROVE  /\ i = 0 => Byte(i, to) = "O"
         /\ i = 1 => Byte(i, to) = "K"
         /\ i = s - 2 => Byte(i, to) = "CR"
         /\ i = s - 1 => Byte(i, to) = "LF"
         /\ i # s - 1 => Byte(i, to) # "LF"
<1>1. ~(from + i >= to) /\ from + i - it.start = i
  OBVIOUS
<1>2. Byte(i, to) =
        CASE i = 0 -> "O"
          [] i = 1 -> "K"
          [] i = s - 2 -> "CR"
          [] i = s - 1 -> "LF"
          [] OTHER -> "other"
  BY <1>1 DEF Byte, IsReply
<1> QED
  BY <1>2

LEMMA ReplyShows ==
  ASSUME from \in Nat, NEW i \in 0 .. 4, NEW to \in Nat,
         NEW it, ItemAt(from + i + 1) = it,
         it.start = from, it.kind \in Reply
  PROVE  /\ from + i >= to => Byte(i, to) = "zero"
         /\ from + i < to =>
              /\ i = 0 => Byte(i, to) = "A"
              /\ i = 1 => Byte(i, to) = "N"
              /\ i = 2 => Byte(i, to) = "S"
              /\ i = 4 => Byte(i, to) = IF it.kind = "receive" THEN "5" ELSE "D"
<1>1. from + i - it.start = i
  OBVIOUS
<1>2. IsReply(it) /\ it.kind # "ok" /\ it.kind # "beat"
  BY DEF IsReply
<1>3. CASE from + i >= to
  BY <1>3 DEF Byte
<1>4. CASE ~(from + i >= to)
  <2>1. Byte(i, to) =
          CASE i = 0 -> "A"
            [] i = 1 -> "N"
            [] i = 2 -> "S"
            [] i = 4 -> IF it.kind = "receive" THEN "5" ELSE "D"
            [] OTHER -> "other"
    BY <1>1, <1>2, <1>4 DEF Byte
  <2> QED
    BY <1>4, <2>1
<1> QED
  BY <1>3, <1>4

\* The bytes of a line that _data begins with.
LEMMA LineByte ==
  ASSUME StreamInv, from \in Nat,
         NEW n \in 1 .. Len(stream), stream[n].start = from,
         stream[n].kind = "ok",
         NEW to \in Nat,
         NEW i \in Nat, i < stream[n].size, from + i < to
  PROVE  /\ i = 0 => Byte(i, to) = "O"
         /\ i = 1 => Byte(i, to) = "K"
         /\ i = stream[n].size - 2 => Byte(i, to) = "CR"
         /\ i = stream[n].size - 1 => Byte(i, to) = "LF"
         /\ i # stream[n].size - 1 => Byte(i, to) # "LF"
<1>1. stream[n].size \in 4 .. 11
  BY DEF StreamInv, WellFormed
<1>2. ItemAt(from + i + 1) = stream[n]
  BY ByteOf
<1> QED
  BY <1>1, <1>2, LineShows

\* _data begins with a line.
LEMMA LineBytes ==
  ASSUME StreamInv, from \in Nat,
         NEW n \in 1 .. Len(stream), stream[n].start = from,
         stream[n].kind = "ok",
         NEW to \in Nat, to > from
  PROVE  /\ Byte(0, to) = "O" /\ ~BeginsANS(to)
         /\ to >= from + 3 => BeginsOK(to)
<1>1. stream[n].size \in 4 .. 11
  BY DEF StreamInv, WellFormed
<1>2. Byte(0, to) = "O"
  BY <1>1, LineByte
<1>3. ASSUME to >= from + 3 PROVE Byte(1, to) = "K"
  BY <1>1, <1>3, LineByte
<1> QED
  BY <1>2, <1>3 DEF BeginsOK, BeginsANS

\* findRN finds the end of the line that _data begins with.
LEMMA LineRemoved ==
  ASSUME StreamInv, from \in Nat,
         NEW n \in 1 .. Len(stream), stream[n].start = from,
         stream[n].kind = "ok",
         NEW to \in Nat, NEW len \in Nat, len >= 11, to = from + len
  PROVE  FindRN(len, to) + 2 = stream[n].size
<1> DEFINE s == stream[n].size
<1>1. s \in 4 .. 11
  BY DEF StreamInv, WellFormed
<1>2. s - 1 \in LineEnds(len, to)
  <2>1. ASSUME NEW x \in 4 .. 11
        PROVE  /\ x - 1 \in Nat /\ x - 1 < x /\ from + (x - 1) < to
               /\ x - 2 \in Nat /\ x - 2 < x /\ from + (x - 2) < to
               /\ x - 1 \in 1 .. len - 1 /\ (x - 1) - 1 = x - 2
    OBVIOUS
  <2>2. Byte(s - 1, to) = "LF" /\ Byte(s - 2, to) = "CR"
    BY <1>1, <2>1, LineByte
  <2> QED
    BY <1>1, <2>1, <2>2 DEF LineEnds
<1>3. ASSUME NEW i \in LineEnds(len, to) PROVE s - 1 <= i
  <2>1. i \in 1 .. len - 1 /\ Byte(i, to) = "LF"
    BY DEF LineEnds
  <2>2. ASSUME i < s - 1 PROVE FALSE
    <3>1. i \in Nat /\ i < s /\ from + i < to
      <4>1. i \in Int /\ 1 <= i /\ i <= len - 1
        BY <2>1
      <4>2. i < s
        BY <1>1, <2>2, <4>1
      <4>3. from + i < to
        BY <4>1
      <4> QED
        BY <4>1, <4>2, <4>3
    <3> QED
      BY <1>1, <2>1, <2>2, <3>1, LineByte
  <2> QED
    BY <1>1, <2>1, <2>2
<1>4. \A i \in LineEnds(len, to) : i \in Nat
  BY DEF LineEnds
<1>5. (CHOOSE i \in LineEnds(len, to) : \A j \in LineEnds(len, to) : i <= j)
        = s - 1
  BY <1>1, <1>2, <1>3, <1>4
<1>6. LineEnds(len, to) # {}
  BY <1>2
<1>7. FindRN(len, to) = s - 1 - 1
  BY <1>5, <1>6 DEF FindRN
<1> QED
  BY <1>1, <1>7

\* The bytes of a reply that _data begins with.
LEMMA ReplyByte ==
  ASSUME StreamInv, from \in Nat,
         NEW n \in 1 .. Len(stream), stream[n].start = from,
         stream[n].kind \in Reply,
         NEW to \in Nat, NEW i \in 0 .. 4
  PROVE  /\ from + i >= to => Byte(i, to) = "zero"
         /\ from + i < to =>
              /\ i = 0 => Byte(i, to) = "A"
              /\ i = 1 => Byte(i, to) = "N"
              /\ i = 2 => Byte(i, to) = "S"
              /\ i = 4 => Byte(i, to) =
                            IF stream[n].kind = "receive" THEN "5" ELSE "D"
<1>1. i < stream[n].size
  <2>1. WellFormed(stream[n])
    BY DEF StreamInv
  <2>2. stream[n].size \in Nat /\ stream[n].size > 25
    BY <2>1, ReplyLong
  <2> QED
    BY <2>2
<1>2. ItemAt(from + i + 1) = stream[n]
  BY <1>1, ByteOf
<1> QED
  BY <1>2, ReplyShows

\* _data begins with a reply.
LEMMA ReplyBytes ==
  ASSUME StreamInv, from \in Nat,
         NEW n \in 1 .. Len(stream), stream[n].start = from,
         stream[n].kind \in Reply,
         NEW to \in Nat, to > from
  PROVE  /\ Byte(0, to) = "A" /\ ~BeginsOK(to)
         /\ to >= from + 3 <=> BeginsANS(to)
         /\ to >= from + 5 =>
              Byte(4, to) = IF stream[n].kind = "receive" THEN "5" ELSE "D"
         /\ ItemAt(from + 1) = stream[n] /\ OriginLen = stream[n].len
<1>1. Byte(0, to) = "A"
  BY ReplyByte
<1>2. to >= from + 3 => Byte(1, to) = "N" /\ Byte(2, to) = "S"
  BY ReplyByte
<1>3. ~(to >= from + 3) => Byte(2, to) # "S"
  BY ReplyByte
<1>4. to >= from + 5 =>
        Byte(4, to) = IF stream[n].kind = "receive" THEN "5" ELSE "D"
  BY ReplyByte
<1>5. ItemAt(from + 1) = stream[n]
  <2>1. stream[n].start \in Nat /\ stream[n].size \in Nat \ {0}
    BY ItemsTyped DEF StreamInv
  <2>2. Holds(stream[n], from + 1)
    BY <2>1 DEF Holds
  <2> QED
    BY <2>2, ItemIs
<1> QED
  BY <1>1, <1>2, <1>3, <1>4, <1>5 DEF BeginsOK, BeginsANS, OriginLen

-----------------------------------------------------------------------------
(* What _data begins with, and what follows.                               *)

LEMMA BufferTyped ==
  ASSUME IndInv
  PROVE  /\ from \in Nat /\ taken \in Nat /\ data_len \in Nat /\ rd \in Nat
         /\ Total \in Nat /\ from <= taken /\ taken <= Total
         /\ Len(handled) \in Nat /\ Len(replies) \in Nat /\ Len(stream) \in Nat
BY DEF IndInv, BufferInv, StreamInv, HandledInv, RepliesInv

\* A reply that _data begins with is the only one that is not handled.
LEMMA NextReply ==
  ASSUME IndInv, NEW n \in 1 .. Len(stream), stream[n].start = from,
         stream[n].kind \in Reply
  PROVE  /\ Len(replies) = Len(handled) + 1
         /\ replies[Len(handled) + 1] = stream[n]
         /\ n_flag = 1 <=> stream[n].kind \in BlockReply
<1>1. PICK i \in 1 .. Len(replies) : replies[i] = stream[n]
  BY DEF IndInv, RepliesInv
<1>2. i > Len(handled)
  <2>1. End(replies[i]) \in Nat /\ End(replies[i]) > from
    BY <1>1, ItemsTyped DEF IndInv, RepliesInv
  <2>2. i <= Len(handled) => End(replies[i]) <= from
    BY DEF IndInv, HandledInv
  <2> QED
    BY <2>1, <2>2, BufferTyped
<1>3. Len(replies) = Len(handled) \/ Len(replies) = Len(handled) + 1
  BY DEF IndInv, HandledInv
<1>4. Len(replies) = Len(handled) + 1 /\ i = Len(handled) + 1
  BY <1>2, <1>3, BufferTyped
<1>5. replies[i].kind \in BlockReply
        <=> i > 1 /\ replies[i - 1].kind \in {"ready", "block"}
  BY DEF IndInv, RepliesInv
<1>6. n_flag = 1 <=> stream[n].kind \in BlockReply
  BY <1>1, <1>4, <1>5, BufferTyped DEF IndInv, HandledInv
<1> QED
  BY <1>1, <1>4, <1>6

\* Only heartbeats follow a reply that is not handled.
LEMMA BeatsFollow ==
  ASSUME IndInv, NEW n \in 1 .. Len(stream), stream[n].start = from,
         stream[n].kind \in Reply,
         NEW m \in 1 .. Len(stream), n < m
  PROVE  stream[m].kind = "beat"
<1>1. /\ Len(replies) = Len(handled) + 1
      /\ replies[Len(handled) + 1] = stream[n]
  BY NextReply
<1>2. \A j \in 1 .. Len(stream) :
        /\ stream[j].start \in Nat /\ End(stream[j]) \in Nat
        /\ End(stream[j]) > stream[j].start
        /\ stream[j].kind \in Reply \cup {"reg", "beat", "ok"}
  BY ItemsTyped DEF IndInv, StreamInv
<1>3. ASSUME NEW j \in 1 .. Len(stream), n < j PROVE stream[j].kind \notin Reply
  <2> SUFFICES ASSUME stream[j].kind \in Reply PROVE FALSE
    OBVIOUS
  <2>1. PICK i \in 1 .. Len(replies) : replies[i] = stream[j]
    BY DEF IndInv, RepliesInv
  <2>2. End(stream[n]) <= stream[j].start
    BY <1>3 DEF IndInv, StreamInv
  <2>3. i # Len(handled) + 1
    BY <1>1, <1>2, <2>1, <2>2
  <2>4. i < Len(handled) + 1 /\ Len(handled) + 1 \in 1 .. Len(replies)
    BY <1>1, <2>3, BufferTyped
  <2>5. End(replies[i]) <= replies[Len(handled) + 1].start
    BY <2>4 DEF IndInv, RepliesInv
  <2>6. End(stream[j]) <= stream[n].start
    BY <1>1, <2>1, <2>5
  <2> QED
    BY <1>2, <2>2, <2>6
<1>4. stream[m].kind # "ok"
  <2>1. ASSUME stream[m].kind = "ok" PROVE FALSE
    <3>1. m < Len(stream) /\ stream[m + 1].kind \in Reply
      BY <2>1 DEF IndInv, StreamInv
    <3>2. m + 1 \in 1 .. Len(stream) /\ n < m + 1
      BY <3>1
    <3> QED
      BY <1>3, <3>1, <3>2
  <2> QED
    BY <2>1
<1>5. stream[m].kind # "reg"
  <2>1. End(stream[n]) <= stream[m].start
    BY DEF IndInv, StreamInv
  <2>2. stream[m].start > 0
    BY <1>2, <2>1
  <2>3. WellFormed(stream[m])
    BY DEF IndInv, StreamInv
  <2> QED
    BY <2>2, <2>3 DEF WellFormed
<1> QED
  BY <1>2, <1>3, <1>4, <1>5

\* Wherever a read ends that reads beyond a reply, a heartbeat begins.
LEMMA StartAfterReply ==
  ASSUME IndInv, NEW n \in 1 .. Len(stream), stream[n].start = from,
         stream[n].kind \in Reply,
         NEW to \in Nat, End(stream[n]) <= to, to <= Total
  PROVE  Start(to)
<1>1. CASE to = Total
  BY <1>1 DEF Start
<1>2. CASE to # Total
  <2>1. to + 1 \in 1 .. Total
    BY <1>2, BufferTyped
  <2>2. PICK m \in 1 .. Len(stream) : Holds(stream[m], to + 1)
    BY <2>1 DEF IndInv, StreamInv
  <2>3. /\ stream[m].start \in Nat /\ stream[m].size \in Nat \ {0}
        /\ stream[n].start \in Nat /\ End(stream[n]) \in Nat
        /\ End(stream[n]) > stream[n].start
    BY ItemsTyped DEF IndInv, StreamInv
  <2>4. /\ stream[m].start <= to /\ to < End(stream[m])
        /\ End(stream[m]) \in Nat
    BY <2>2, <2>3 DEF Holds, End
  <2>5. n < m
    <3>1. m # n
      BY <2>3, <2>4
    <3>2. m < n => End(stream[m]) <= stream[n].start
      BY DEF IndInv, StreamInv
    <3> QED
      BY <2>3, <2>4, <3>1, <3>2
  <2>6. stream[m].kind = "beat" /\ WellFormed(stream[m])
    BY <2>5, BeatsFollow DEF IndInv, StreamInv
  <2>7. stream[m].start = to
    BY <2>3, <2>4, <2>6 DEF WellFormed, End
  <2> QED
    BY <2>6, <2>7 DEF Start
<1> QED
  BY <1>1, <1>2

\* A heartbeat or a line follows a heartbeat, if anything.
LEMMA StartAfterBeat ==
  ASSUME IndInv, NEW n \in 1 .. Len(stream), stream[n].kind = "beat"
  PROVE  Start(End(stream[n])) /\ End(stream[n]) <= Total
<1>1. End(stream[n]) = IF n = Len(stream) THEN Total ELSE stream[n + 1].start
  BY DEF IndInv, StreamInv
<1>2. CASE n = Len(stream)
  BY <1>1, <1>2, BufferTyped DEF Start
<1>3. CASE n # Len(stream)
  <2>1. n + 1 \in 1 .. Len(stream) /\ (n + 1) - 1 = n
    BY <1>3, BufferTyped
  <2>2. stream[n + 1].kind \notin Reply
    BY <2>1 DEF IndInv, StreamInv
  <2>3. /\ WellFormed(stream[n + 1]) /\ stream[n + 1].start \in Nat
        /\ stream[n + 1].kind \in Reply \cup {"reg", "beat", "ok"}
    BY <2>1, ItemsTyped DEF IndInv, StreamInv
  <2>4. End(stream[n]) \in Nat /\ End(stream[n]) > 0
    BY ItemsTyped DEF IndInv, StreamInv
  <2>5. stream[n + 1].start = End(stream[n])
    BY <1>1, <1>3
  <2>6. stream[n + 1].kind \in {"beat", "ok"}
    BY <2>2, <2>3, <2>4, <2>5 DEF WellFormed
  <2>7. Start(End(stream[n]))
    BY <2>1, <2>5, <2>6 DEF Start
  <2> QED
    BY <2>7, EndsWithin DEF IndInv
<1> QED
  BY <1>2, <1>3

\* A reply follows a line.
LEMMA AfterLine ==
  ASSUME StreamInv, NEW n \in 1 .. Len(stream), stream[n].kind = "ok"
  PROVE  /\ n + 1 \in 1 .. Len(stream)
         /\ stream[n + 1].start = End(stream[n])
         /\ stream[n + 1].kind \in Reply
<1>1. Len(stream) \in Nat /\ n < Len(stream) /\ stream[n + 1].kind \in Reply
  BY DEF StreamInv
<1>2. End(stream[n]) = IF n = Len(stream) THEN Total ELSE stream[n + 1].start
  BY DEF StreamInv
<1> QED
  BY <1>1, <1>2

-----------------------------------------------------------------------------
(* What the handlers are promised.                                         *)

\* What a step does to the invariant and to the promise.
Kept == IndInv' /\ [Channel!Next]_(Channel!vars)

\* The replies that were sent, in short.
LEMMA SentIs ==
  ASSUME RepliesInv
  PROVE  /\ Sent \in Seq(Reply) /\ Len(Sent) = Len(replies)
         /\ \A n \in 1 .. Len(replies) : Sent[n] = replies[n].kind
         /\ Sent # <<>> <=> Len(replies) > 0
<1>1. Len(replies) \in Nat /\ \A n \in 1 .. Len(replies) : replies[n].kind \in Reply
  BY DEF RepliesInv
<1>2. Sent \in Seq(Reply) /\ Len(Sent) = Len(replies)
  BY <1>1 DEF Sent
<1>3. Sent # <<>> <=> Len(replies) > 0
  BY <1>1, <1>2
<1> QED
  BY <1>2, <1>3 DEF Sent

\* Nothing is sent.
LEMMA WireKept ==
  ASSUME StreamInv, RepliesInv, UNCHANGED <<stream, replies>>
  PROVE  /\ StreamInv' /\ RepliesInv' /\ Total' = Total /\ Sent' = Sent
         /\ \A b : Start(b) => Start(b)'
<1>1. Total' = Total /\ Sent' = Sent
  BY DEF Total, Sent
<1>2. \A b : Start(b) => Start(b)'
  BY <1>1 DEF Start
<1>3. StreamInv'
  BY <1>1 DEF StreamInv
<1>4. RepliesInv'
  BY DEF RepliesInv
<1> QED
  BY <1>1, <1>2, <1>3, <1>4

\* Nothing is sent or handled, and _data begins where it did.
LEMMA Quiet ==
  ASSUME IndInv, UNCHANGED <<stream, replies, from, n_flag, handled>>
  PROVE  /\ StreamInv' /\ RepliesInv' /\ HandledInv'
         /\ Total' = Total
         /\ \A b : Start(b) => Start(b)'
         /\ UNCHANGED Channel!vars
<1>1. /\ StreamInv' /\ RepliesInv' /\ Total' = Total /\ Sent' = Sent
      /\ \A b : Start(b) => Start(b)'
  BY WireKept DEF IndInv
<1>2. HandledInv'
  BY DEF IndInv, HandledInv
<1> QED
  BY <1>1, <1>2 DEF Channel!vars

\* The item _data begins with, which is no reply, is discarded.
LEMMA Passed ==
  ASSUME IndInv, UNCHANGED <<stream, replies, n_flag, handled>>,
         NEW n \in 1 .. Len(stream), stream[n].start = from,
         stream[n].kind \notin Reply, from' = End(stream[n])
  PROVE  /\ StreamInv' /\ RepliesInv' /\ HandledInv'
         /\ Total' = Total
         /\ \A b : Start(b) => Start(b)'
         /\ UNCHANGED Channel!vars
<1>1. /\ StreamInv' /\ RepliesInv' /\ Total' = Total /\ Sent' = Sent
      /\ \A b : Start(b) => Start(b)'
  BY WireKept DEF IndInv
<1>2. \A j \in 1 .. Len(stream) :
        /\ stream[j].start \in Nat /\ End(stream[j]) \in Nat
        /\ End(stream[j]) > stream[j].start
  BY ItemsTyped DEF IndInv, StreamInv
<1>3. ASSUME NEW i \in 1 .. Len(replies)
      PROVE  IF i <= Len(handled) THEN End(replies[i]) <= from'
                                  ELSE from' <= replies[i].start
  <2>1. PICK m \in 1 .. Len(stream) : replies[i] = stream[m]
    BY DEF IndInv, RepliesInv
  <2>2. CASE i <= Len(handled)
    <3>1. End(stream[m]) <= from
      BY <2>1, <2>2 DEF IndInv, HandledInv
    <3>2. End(stream[m]) <= End(stream[n])
      BY <1>2, <3>1
    <3> QED
      BY <2>1, <2>2, <3>2
  <2>3. CASE ~(i <= Len(handled))
    <3>1. from <= stream[m].start
      BY <2>1, <2>3 DEF IndInv, HandledInv
    <3>2. m # n
      BY <2>1 DEF IndInv, RepliesInv
    <3>3. ~(m < n)
      <4>1. m < n => End(stream[m]) <= stream[n].start
        BY DEF IndInv, StreamInv
      <4> QED
        BY <1>2, <3>1, <4>1
    <3>4. n < m
      BY <3>2, <3>3
    <3>5. End(stream[n]) <= stream[m].start
      BY <3>4 DEF IndInv, StreamInv
    <3> QED
      BY <2>1, <2>3, <3>5
  <2> QED
    BY <2>2, <2>3
<1>4. HandledInv'
  BY <1>3 DEF IndInv, HandledInv
<1> QED
  BY <1>1, <1>4 DEF Channel!vars

\* A handler that is called for the reply _data begins with is called for the
\* next reply.
LEMMA ReplyHandled ==
  ASSUME IndInv, UNCHANGED <<stream, replies>>,
         NEW n \in 1 .. Len(stream), stream[n].start = from,
         stream[n].kind \in Reply,
         handled' = Append(handled, stream[n].kind),
         from' \in Nat, End(stream[n]) <= from',
         n_flag' = IF stream[n].kind \in {"ready", "block"} THEN 1 ELSE 0
  PROVE  HandledInv' /\ Channel!HandleNext
<1> DEFINE k == Len(handled) + 1
<1>1. /\ k \in 1 .. Len(replies) /\ replies[k] = stream[n] /\ Len(replies) = k
      /\ Len(handled) \in Nat
  <2>1. Len(replies) = k /\ replies[k] = stream[n]
    BY NextReply
  <2> QED
    BY <2>1, BufferTyped
<1>2. /\ handled' \in Seq(Reply) /\ Len(handled') = k
  BY DEF IndInv, HandledInv
<1>3. ASSUME NEW i \in 1 .. Len(replies)
      PROVE  End(replies[i]) <= from'
  <2>1. CASE i = k
    BY <1>1, <2>1
  <2>2. CASE i < k
    <3>1. End(replies[i]) <= replies[k].start
      BY <1>1, <2>2 DEF IndInv, RepliesInv
    <3>2. /\ End(replies[i]) \in Nat /\ replies[k].start \in Nat
          /\ End(replies[k]) \in Nat /\ End(replies[k]) > replies[k].start
      BY <1>1, ItemsTyped DEF IndInv, RepliesInv
    <3>3. End(replies[k]) <= from'
      BY <1>1
    <3> QED
      BY <3>1, <3>2, <3>3
  <2> QED
    BY <1>1, <2>1, <2>2
<1>4. n_flag' = 1 <=> replies[k].kind \in {"ready", "block"}
  BY <1>1
<1>5. HandledInv'
  BY <1>1, <1>2, <1>3, <1>4 DEF HandledInv
<1>6. Channel!HandleNext
  <2>1. Sent' = Sent
    BY DEF Sent
  <2>2. Len(Sent) = Len(replies) /\ Sent[k] = stream[n].kind
    BY <1>1, SentIs DEF IndInv
  <2> QED
    BY <1>1, <2>1, <2>2 DEF Channel!HandleNext
<1> QED
  BY <1>5, <1>6

-----------------------------------------------------------------------------
(* The steps of the read chain.                                            *)

\* What a read returns.
LEMMA Returned ==
  ASSUME IndInv, pc \in {"reg", "read", "spec"}, NEW k \in Chunks
  PROVE  /\ k \in Nat \ {0} /\ k <= rd /\ taken + k <= Total
         /\ data_len + k \in Nat \ {0} /\ taken + k \in Nat /\ taken + k > from
         /\ pc # "reg" => taken + k = from + (data_len + k)
<1>1. rd \in Nat \ {0}
  BY DEF IndInv, BufferInv, RegBuffer, ReadBuffer, SpecBuffer
<1>2. k \in Nat \ {0} /\ k <= rd /\ taken + k <= Total
  BY <1>1, BufferTyped DEF Chunks
<1>3. pc # "reg" => data_len = taken - from
  BY DEF IndInv, BufferInv, ReadBuffer, SpecBuffer
<1> QED
  BY <1>2, <1>3, BufferTyped

\* The deadline is moved, or nothing happens to it.
LEMMA TimersTyped ==
  ASSUME IndInv, link' = link, Expires \/ UNCHANGED timerVars
  PROVE  TimerInv'
BY DEF IndInv, TimerInv, Expires, timerVars

\* OnRead has the bytes of a heartbeat, of a line or of a reply.
LEMMA Arrived ==
  ASSUME IndInv, pc = "read", NEW k \in Chunks
  PROVE  \E m \in 1 .. Len(stream) :
           /\ stream[m].start = from
           /\ \/ /\ stream[m].kind = "beat" /\ data_len = 0 /\ k = 1
                 /\ taken = from
              \/ /\ stream[m].kind = "ok"
                 /\ data_len + k <= 11 /\ (n_flag = 1 => data_len + k <= 3)
              \/ /\ stream[m].kind \in Reply /\ n_flag = 0
                 /\ data_len + k <= 33 \/ data_len + k <= stream[m].size
<1>1. /\ k \in Nat \ {0} /\ k <= rd /\ taken + k <= Total
      /\ ReadBuffer
  BY Returned DEF IndInv, BufferInv
<1>2. CASE data_len = 0 /\ rd = 1 /\ Start(from)
  <2>1. k = 1 /\ taken = from /\ from # Total
    BY <1>1, <1>2, BufferTyped DEF ReadBuffer
  <2>2. PICK m \in 1 .. Len(stream) :
          stream[m].start = from /\ stream[m].kind \in {"beat", "ok"}
    BY <1>2, <2>1 DEF Start
  <2>3. data_len + k <= 11 /\ data_len + k <= 3
    BY <1>2, <2>1
  <2> QED
    BY <1>2, <2>1, <2>2, <2>3
<1>3. ASSUME NEW m \in 1 .. Len(stream), AtLine(m),
             data_len < 3 => rd = 1, n_flag = 1 => data_len < 3
      PROVE  /\ stream[m].start = from /\ stream[m].kind = "ok"
             /\ data_len + k <= 11 /\ (n_flag = 1 => data_len + k <= 3)
  <2>1. data_len + rd <= 11 /\ (n_flag = 1 => data_len + rd <= 3)
    BY <1>3, BufferTyped DEF AtLine
  <2>2. data_len + k <= data_len + rd
    BY <1>1, BufferTyped
  <2>3. data_len + k <= 11 /\ (n_flag = 1 => data_len + k <= 3)
    BY <1>1, <2>1, <2>2, BufferTyped
  <2> QED
    BY <1>3, <2>3 DEF AtLine
<1>4. ASSUME NEW m \in 1 .. Len(stream), AtReply(m, 33), n_flag = 0
      PROVE  /\ stream[m].start = from /\ stream[m].kind \in Reply
             /\ data_len + k <= 33 \/ data_len + k <= stream[m].size
  <2>1. stream[m].size \in Nat
    BY ItemsTyped DEF IndInv, StreamInv
  <2>2. data_len + k <= data_len + rd
    BY <1>1, BufferTyped
  <2>3. data_len + rd <= 33 => data_len + k <= 33
    BY <1>1, <2>2, BufferTyped
  <2> QED
    BY <1>4, <2>1, <2>2, <2>3 DEF AtReply
<1> QED
  BY <1>1, <1>2, <1>3, <1>4 DEF ReadBuffer

\* OnReadSpec has the bytes of a line or of a block.
LEMMA ArrivedSpec ==
  ASSUME IndInv, pc = "spec", NEW k \in Chunks
  PROVE  /\ n_flag = 1
         /\ \E m \in 1 .. Len(stream) :
              /\ stream[m].start = from
              /\ \/ /\ stream[m].kind = "ok"
                    /\ data_len + k <= 11 /\ data_len + k >= 3
                 \/ /\ stream[m].kind \in Reply
                    /\ data_len + k <= 17 \/ data_len + k <= stream[m].size
<1>1. /\ k \in Nat \ {0} /\ k <= rd /\ SpecBuffer
  BY Returned DEF IndInv, BufferInv
<1>2. data_len + k <= data_len + rd
  BY <1>1, BufferTyped
<1>3. ASSUME NEW m \in 1 .. Len(stream), AtLine(m), data_len >= 3
      PROVE  /\ stream[m].start = from /\ stream[m].kind = "ok"
             /\ data_len + k <= 11 /\ data_len + k >= 3
  <2>1. data_len + rd <= 11
    BY <1>3 DEF AtLine
  <2>2. data_len + k <= 11 /\ data_len + k >= 3
    BY <1>1, <1>2, <1>3, <2>1, BufferTyped
  <2> QED
    BY <1>3, <2>2 DEF AtLine
<1>4. ASSUME NEW m \in 1 .. Len(stream), AtReply(m, 17)
      PROVE  /\ stream[m].start = from /\ stream[m].kind \in Reply
             /\ data_len + k <= 17 \/ data_len + k <= stream[m].size
  <2>1. stream[m].size \in Nat
    BY ItemsTyped DEF IndInv, StreamInv
  <2>2. data_len + rd <= 17 => data_len + k <= 17
    BY <1>1, <1>2, BufferTyped
  <2> QED
    BY <1>2, <1>4, <2>1, <2>2 DEF AtReply
<1> QED
  BY <1>1, <1>3, <1>4 DEF SpecBuffer

\* Bytes are read, and more of them are asked for.
LEMMA MoreAsked ==
  ASSUME IndInv, pc \in {"read", "spec"}, NEW k \in Chunks,
         taken' = taken + k, UNCHANGED <<stream, replies, link>>,
         Keep(data_len + k),
         \/ \E r : Read(r) /\ ReadBuffer'
         \/ \E r : ReadSpec(r) /\ SpecBuffer'
  PROVE  Kept
<1>1. /\ UNCHANGED <<from, n_flag, handled>> /\ data_len' = data_len + k
  BY DEF Keep
<1>2. /\ StreamInv' /\ RepliesInv' /\ HandledInv' /\ Total' = Total
      /\ UNCHANGED Channel!vars
  BY <1>1, Quiet
<1>3. /\ data_len' \in Nat /\ taken' \in Nat /\ taken' <= Total
      /\ from \in Nat /\ from <= taken' /\ from >= REG_LENGTH
  <2>1. from >= REG_LENGTH
    BY DEF IndInv, BufferInv
  <2>2. data_len + k \in Nat /\ taken + k \in Nat /\ taken + k > from /\ taken + k <= Total
    BY Returned
  <2> QED
    BY <1>1, <2>1, <2>2, BufferTyped
<1>4. TimerInv'
  BY TimersTyped DEF Read, ReadSpec
<1>5. \/ pc' = "read" /\ ReadBuffer' /\ rd' \in Nat
      \/ pc' = "spec" /\ SpecBuffer' /\ rd' \in Nat
  BY DEF Read, ReadSpec, ReadBuffer, SpecBuffer
<1>6. BufferInv'
  BY <1>1, <1>2, <1>3, <1>5 DEF BufferInv
<1> QED
  BY <1>2, <1>4, <1>6 DEF Kept, IndInv

\* What the number of bytes read says of the buffer.
LEMMA Lengthened ==
  ASSUME IndInv, pc \in {"read", "spec"}, NEW k \in Chunks,
         taken' = taken + k, Keep(data_len + k)
  PROVE  /\ data_len' = data_len + k /\ from' = from /\ n_flag' = n_flag
         /\ data_len' = taken' - from'
<1>1. /\ taken' = from + (data_len + k) /\ data_len + k \in Nat
      /\ from \in Nat
  BY Returned, BufferTyped
<1>2. data_len' = data_len + k /\ from' = from /\ n_flag' = n_flag
  BY DEF Keep
<1> QED
  BY <1>1, <1>2

\* More bytes are asked for while _data begins with a line.
LEMMA LineContinued ==
  ASSUME IndInv, pc \in {"read", "spec"}, NEW k \in Chunks,
         taken' = taken + k, UNCHANGED <<stream, replies, link>>,
         Keep(data_len + k),
         NEW m \in 1 .. Len(stream), stream[m].start = from,
         stream[m].kind = "ok",
         NEW r \in Nat \ {0}, data_len + k + r <= 11,
         \/ /\ Read(r)
            /\ data_len + k < 3 => r = 1
            /\ n_flag = 1 => data_len + k < 3
         \/ ReadSpec(r) /\ n_flag = 1 /\ data_len + k >= 3
  PROVE  Kept
<1>1. /\ data_len' = data_len + k /\ from' = from /\ n_flag' = n_flag
      /\ data_len' = taken' - from' /\ data_len + k > 0 /\ rd' = r
  BY Lengthened, Returned DEF Read, ReadSpec
<1>2. AtLine(m)'
  BY <1>1 DEF AtLine
<1>3. CASE /\ Read(r)
           /\ data_len + k < 3 => r = 1
           /\ n_flag = 1 => data_len + k < 3
  <2>1. ReadBuffer'
    BY <1>1, <1>2, <1>3 DEF ReadBuffer
  <2> QED
    BY <1>3, <2>1, MoreAsked
<1>4. CASE ReadSpec(r) /\ n_flag = 1 /\ data_len + k >= 3
  <2>1. SpecBuffer'
    BY <1>1, <1>2, <1>4 DEF SpecBuffer
  <2> QED
    BY <1>4, <2>1, MoreAsked
<1> QED
  BY <1>3, <1>4

\* More bytes are asked for while _data begins with a reply.
LEMMA ReplyContinued ==
  ASSUME IndInv, pc \in {"read", "spec"}, NEW k \in Chunks,
         taken' = taken + k, UNCHANGED <<stream, replies, link>>,
         Keep(data_len + k),
         NEW m \in 1 .. Len(stream), stream[m].start = from,
         stream[m].kind \in Reply,
         NEW r \in Nat \ {0}, data_len + k < stream[m].size,
         \/ /\ Read(r) /\ n_flag = 0
            /\ data_len + k + r <= 33 \/ data_len + k + r = stream[m].size
         \/ /\ ReadSpec(r) /\ n_flag = 1
            /\ data_len + k + r <= 17 \/ data_len + k + r = stream[m].size
  PROVE  Kept
<1>1. /\ data_len' = data_len + k /\ from' = from /\ n_flag' = n_flag
      /\ data_len' = taken' - from' /\ rd' = r
  BY Lengthened DEF Read, ReadSpec
<1>2. CASE /\ Read(r) /\ n_flag = 0
           /\ data_len + k + r <= 33 \/ data_len + k + r = stream[m].size
  <2>1. AtReply(m, 33)'
    BY <1>1, <1>2 DEF AtReply
  <2>2. ReadBuffer'
    BY <1>1, <1>2, <2>1 DEF ReadBuffer
  <2> QED
    BY <1>2, <2>2, MoreAsked
<1>3. CASE /\ ReadSpec(r) /\ n_flag = 1
           /\ data_len + k + r <= 17 \/ data_len + k + r = stream[m].size
  <2>1. AtReply(m, 17)'
    BY <1>1, <1>3 DEF AtReply
  <2>2. SpecBuffer'
    BY <1>1, <1>3, <2>1 DEF SpecBuffer
  <2> QED
    BY <1>3, <2>2, MoreAsked
<1> QED
  BY <1>2, <1>3

\* What is left of eleven bytes when a line of x bytes is removed.
LEMMA LineNumbers ==
  ASSUME NEW f \in Int, NEW g \in Nat, f >= g, NEW x \in 4 .. 11
  PROVE  /\ f + 11 - (f + x) = 11 - x /\ 11 - x \in 0 .. 7
         /\ f + x \in Nat /\ f + x <= f + 11 /\ f + x >= g
<1>1. 11 - x \in 0 .. 7
  OBVIOUS
<1>2. f + 11 - (f + x) = 11 - x
  OBVIOUS
<1>3. f + x \in Nat /\ f + x <= f + 11 /\ f + x >= g
  OBVIOUS
<1> QED
  BY <1>1, <1>2, <1>3

\* The line is complete, and is removed with the reply's first bytes kept.
LEMMA LineDone ==
  ASSUME IndInv, pc \in {"read", "spec"}, NEW k \in Chunks,
         taken' = taken + k, UNCHANGED <<stream, replies, link>>,
         NEW m \in 1 .. Len(stream), stream[m].start = from,
         stream[m].kind = "ok", data_len + k = 11,
         RemoveLine(data_len + k, taken + k),
         (Read(26) /\ n_flag = 0) \/ (ReadSpec(10) /\ n_flag = 1)
  PROVE  Kept
<1>1. from >= REG_LENGTH /\ taken + k \in Nat /\ taken + k <= Total
  BY Returned DEF IndInv, BufferInv
<1>2. taken + k = from + 11
  BY Returned
<1>3. FindRN(11, taken + k) + 2 = stream[m].size
  <2>1. StreamInv /\ from \in Nat /\ 11 \in Nat /\ 11 >= 11
    BY BufferTyped DEF IndInv
  <2> QED
    BY <1>1, <1>2, <2>1, LineRemoved
<1>4. /\ from' = from + stream[m].size /\ data_len' = 11 - stream[m].size
      /\ UNCHANGED <<n_flag, handled>>
  BY <1>3 DEF RemoveLine
<1>5. stream[m].size \in 4 .. 11
  BY DEF IndInv, StreamInv, WellFormed
<1>6. /\ data_len' = taken' - from' /\ data_len' \in 0 .. 7
      /\ from' \in Nat /\ from' <= taken' /\ from' >= REG_LENGTH
  <2>1. PICK x \in 4 .. 11 : x = stream[m].size
    BY <1>5
  <2>2. from' = from + x /\ data_len' = 11 - x /\ taken' = from + 11
    BY <1>2, <1>4, <2>1
  <2>3. /\ from + 11 - (from + x) = 11 - x /\ 11 - x \in 0 .. 7
        /\ from + x \in Nat /\ from + x <= from + 11 /\ from + x >= REG_LENGTH
    <3>1. from \in Int /\ from >= REG_LENGTH /\ REG_LENGTH \in Nat
      BY <1>1, BufferTyped DEF REG_LENGTH
    <3> QED
      BY <3>1, LineNumbers
  <2>4. data_len' = taken' - from'
    <3>1. from \in Int /\ x \in Int
      BY BufferTyped
    <3> QED
      BY <2>2, <3>1
  <2>5. data_len' \in 0 .. 7
    BY <2>2, <2>3
  <2>6. from' \in Nat /\ from' <= taken' /\ from' >= REG_LENGTH
    BY <2>2, <2>3
  <2> QED
    BY <2>4, <2>5, <2>6
<1>7. from' = End(stream[m])
  BY <1>4 DEF End
<1>8. /\ StreamInv' /\ RepliesInv' /\ HandledInv' /\ Total' = Total
      /\ UNCHANGED Channel!vars
  BY <1>4, <1>7, Passed
<1>9. /\ m + 1 \in 1 .. Len(stream) /\ stream[m + 1].start = from'
      /\ stream[m + 1].kind \in Reply
  BY <1>7, AfterLine DEF IndInv
<1>10. stream[m + 1].size \in Nat /\ stream[m + 1].size > 25
  <2>1. WellFormed(stream[m + 1])
    BY <1>9 DEF IndInv, StreamInv
  <2> QED
    BY <1>9, <2>1, ReplyLong
<1>11. \/ pc' = "read" /\ rd' = 26 /\ ReadBuffer'
       \/ pc' = "spec" /\ rd' = 10 /\ SpecBuffer'
  <2>1. data_len' < stream[m + 1].size /\ data_len' + 26 <= 33 /\ data_len' + 10 <= 17
    <3>1. PICK d \in 0 .. 7 : data_len' = d
      BY <1>6
    <3>2. PICK z \in Nat : stream[m + 1].size = z /\ z > 25
      BY <1>10
    <3>3. d < z /\ d + 26 <= 33 /\ d + 10 <= 17
      BY <3>2
    <3> QED
      BY <3>1, <3>2, <3>3
  <2>2. CASE Read(26) /\ n_flag = 0
    <3>1. pc' = "read" /\ rd' = 26
      BY <2>2 DEF Read
    <3>2. AtReply(m + 1, 33)'
      BY <1>9, <2>1, <3>1 DEF AtReply
    <3> QED
      BY <1>4, <1>6, <1>9, <2>2, <3>1, <3>2 DEF ReadBuffer
  <2>3. CASE ReadSpec(10) /\ n_flag = 1
    <3>1. pc' = "spec" /\ rd' = 10
      BY <2>3 DEF ReadSpec
    <3>2. AtReply(m + 1, 17)'
      BY <1>9, <2>1, <3>1 DEF AtReply
    <3> QED
      BY <1>4, <1>6, <1>9, <2>3, <3>1, <3>2 DEF SpecBuffer
  <2> QED
    BY <2>2, <2>3
<1>12. TimerInv'
  BY TimersTyped DEF Read, ReadSpec
<1>13. BufferInv'
  BY <1>1, <1>6, <1>8, <1>11 DEF BufferInv
<1> QED
  BY <1>8, <1>12, <1>13 DEF Kept, IndInv

\* A reply is complete and is handled; what was read beyond it is discarded.
LEMMA ReplyDone ==
  ASSUME IndInv, pc \in {"read", "spec"}, NEW k \in Chunks,
         taken' = taken + k, UNCHANGED <<stream, replies, link>>,
         NEW m \in 1 .. Len(stream), stream[m].start = from,
         stream[m].kind \in Reply, stream[m].size <= data_len + k,
         NEW flag,
         flag = (IF stream[m].kind \in {"ready", "block"} THEN 1 ELSE 0),
         Handle(stream[m].kind, flag, taken + k)
  PROVE  Kept
<1>1. /\ from >= REG_LENGTH /\ taken + k > from
      /\ taken + k \in Nat /\ taken + k <= Total
  BY Returned DEF IndInv, BufferInv
<1>2. /\ from' = taken' /\ data_len' = 0 /\ rd' = 0 /\ pc' \in {"handler", "loop"}
      /\ n_flag' = flag /\ handled' = Append(handled, stream[m].kind)
      /\ UNCHANGED timerVars
  BY DEF Handle, Discard
<1>3. End(stream[m]) <= taken + k
  <2>1. stream[m].size \in Nat
    BY ItemsTyped DEF IndInv, StreamInv
  <2>2. taken + k = from + (data_len + k) /\ data_len + k \in Nat
    BY Returned
  <2> QED
    BY <2>1, <2>2, BufferTyped DEF End
<1>4. HandledInv' /\ Channel!HandleNext
  BY <1>1, <1>2, <1>3, ReplyHandled
<1>5. /\ StreamInv' /\ RepliesInv' /\ Total' = Total /\ Start(from)'
  <2>1. Start(taken + k)
    BY <1>1, <1>3, StartAfterReply
  <2>2. /\ StreamInv' /\ RepliesInv' /\ Total' = Total
    BY WireKept DEF IndInv
  <2>3. Start(from)'
    BY <1>2, <2>1, <2>2 DEF Start
  <2> QED
    BY <2>2, <2>3
<1>6. TimerInv'
  BY <1>2, TimersTyped
<1>7. BufferInv'
  BY <1>1, <1>2, <1>5, BufferTyped DEF BufferInv
<1> QED
  BY <1>4, <1>5, <1>6, <1>7 DEF Kept, IndInv, Channel!Next

\* The lengths that the length byte gives.
LEMMA TotalLenIs ==
  ASSUME OriginLen \in 10 .. 21
  PROVE  TotalLen = 3 * OriginLen + 5
<1>1. ASSUME NEW l \in 10 .. 21 PROVE ((l - 1) * 3 + 4 + 4) % 256 = 3 * l + 5
  <2>1. (l - 1) * 3 + 4 + 4 = 3 * l + 5 /\ 3 * l + 5 \in 0 .. 255
    OBVIOUS
  <2>2. ASSUME NEW x \in 0 .. 255 PROVE x % 256 = x
    OBVIOUS
  <2> QED
    BY <2>1, <2>2
<1> QED
  BY <1>1 DEF TotalLen

LEMMA TotalLenSpecIs ==
  ASSUME OriginLen \in Nat
  PROVE  TotalLenSpec = 57 * OriginLen + 38
BY DEF TotalLenSpec

\* The registration.
LEMMA OnReadRegStep ==
  ASSUME IndInv, NEW k \in Chunks, OnReadReg(k)
  PROVE  Kept
<1>1. /\ k \in Nat \ {0} /\ k <= rd /\ taken + k <= Total
      /\ pc = "reg" /\ taken' = taken + k
      /\ UNCHANGED <<stream, replies, link, data_len, n_flag, handled>>
      /\ RegBuffer
  BY Returned DEF OnReadReg, Completes, IndInv, BufferInv
<1>2. CASE taken + k < REG_LENGTH
  <2>1. /\ pc' = "reg" /\ rd' = REG_LENGTH - (taken + k) /\ from' = from
        /\ UNCHANGED timerVars
    BY <1>2 DEF OnReadReg, ReadReg
  <2>2. /\ StreamInv' /\ RepliesInv' /\ HandledInv' /\ Total' = Total
        /\ UNCHANGED Channel!vars
    BY <1>1, <2>1, Quiet
  <2>3. BufferInv'
    BY <1>1, <1>2, <2>1, <2>2, BufferTyped DEF BufferInv, RegBuffer, IndInv
  <2>4. TimerInv'
    BY <1>1, <2>1, TimersTyped
  <2> QED
    BY <2>2, <2>3, <2>4 DEF Kept, IndInv
<1>3. CASE ~(taken + k < REG_LENGTH)
  <2>1. /\ pc' = "handler" /\ rd' = 0 /\ from' = taken + k
        /\ taken + k = REG_LENGTH /\ UNCHANGED timerVars
    BY <1>1, <1>3, BufferTyped DEF OnReadReg, RegBuffer
  <2>2. /\ StreamInv' /\ RepliesInv' /\ Total' = Total /\ Sent' = Sent
    BY <1>1, WireKept DEF IndInv
  <2>3. HandledInv'
    BY <1>1, <2>1 DEF IndInv, HandledInv, RegBuffer
  <2>4. Start(from)'
    BY <1>1, <2>1, <2>2 DEF Start, RegBuffer
  <2>5. BufferInv'
    BY <1>1, <2>1, <2>2, <2>4, BufferTyped DEF BufferInv, RegBuffer, IndInv
  <2>6. TimerInv'
    BY <1>1, <2>1, TimersTyped
  <2> QED
    BY <1>1, <2>2, <2>3, <2>5, <2>6 DEF Kept, IndInv, Channel!vars
<1> QED
  BY <1>2, <1>3

\* A heartbeat is dropped.
LEMMA BeatStep ==
  ASSUME IndInv, pc = "read",
         NEW m \in 1 .. Len(stream), stream[m].start = from,
         stream[m].kind = "beat", taken = from, taken' = taken + 1,
         from' = taken', Read(1), data_len = 0,
         UNCHANGED <<stream, replies, link, data_len, n_flag, handled>>
  PROVE  Kept
<1>1. from' = End(stream[m]) /\ from' <= Total /\ Start(from')
  <2>1. WellFormed(stream[m])
    BY DEF IndInv, StreamInv
  <2>2. from' = End(stream[m])
    BY <2>1 DEF WellFormed, End
  <2>3. Start(End(stream[m])) /\ End(stream[m]) <= Total
    BY StartAfterBeat
  <2> QED
    BY <2>2, <2>3
<1>2. /\ StreamInv' /\ RepliesInv' /\ HandledInv' /\ Total' = Total
      /\ UNCHANGED Channel!vars
  BY <1>1, Passed
<1>3. Start(from)'
  BY <1>1, <1>2 DEF Start
<1>4. /\ pc' = "read" /\ rd' = 1 /\ TimerInv'
  BY TimersTyped DEF Read
<1>5. BufferInv'
  <2>1. from >= REG_LENGTH
    BY DEF IndInv, BufferInv
  <2> QED
    BY <1>1, <1>2, <1>3, <1>4, <2>1, BufferTyped DEF BufferInv, ReadBuffer
<1> QED
  BY <1>2, <1>4, <1>5 DEF Kept, IndInv

\* OnRead has bytes of a line.
LEMMA OnReadLine ==
  ASSUME IndInv, NEW k \in Chunks, OnRead(k),
         NEW m \in 1 .. Len(stream), stream[m].start = from,
         stream[m].kind = "ok", data_len + k <= 11,
         n_flag = 1 => data_len + k <= 3
  PROVE  Kept
<1> DEFINE len == data_len + k
           to == taken + k
<1>1. /\ pc = "read" /\ taken' = to
      /\ UNCHANGED <<stream, replies, link>>
  BY DEF OnRead, Completes
<1>2. /\ len \in Nat \ {0} /\ to \in Nat /\ to > from /\ to = from + len
  BY <1>1, Returned
<1>3. /\ Byte(0, to) = "O" /\ ~BeginsANS(to)
      /\ to >= from + 3 => BeginsOK(to)
  BY <1>2, LineBytes, BufferTyped DEF IndInv
<1>4. ~HeartBeat(k, to)
  BY <1>3 DEF HeartBeat
<1>5. n_flag \in {0, 1}
  BY DEF IndInv, HandledInv
<1>6. CASE len < 3
  <2>1. Keep(len) /\ Read(1)
    BY <1>2, <1>4, <1>6 DEF OnRead
  <2>2. len + 1 <= 11
    BY <1>2, <1>6
  <2> QED
    BY <1>1, <1>6, <2>1, <2>2, LineContinued
<1>7. CASE len >= 3 /\ n_flag = 1
  <2>1. Keep(len) /\ ReadSpec(8)
    BY <1>2, <1>4, <1>7 DEF OnRead
  <2>2. len + 8 <= 11
    BY <1>2, <1>7
  <2> QED
    BY <1>1, <1>7, <2>1, <2>2, LineContinued
<1>8. CASE len >= 3 /\ n_flag = 0
  <2>1. CheckMsgType(len, to)
    BY <1>2, <1>4, <1>8 DEF OnRead
  <2>2. BeginsOK(to)
    BY <1>2, <1>3, <1>8, BufferTyped
  <2>3. CASE len < 11
    <3>1. Keep(len) /\ Read(11 - len)
      BY <1>3, <2>1, <2>2, <2>3, <1>2 DEF CheckMsgType
    <3>2. 11 - len \in Nat \ {0} /\ len + (11 - len) <= 11
      BY <1>2, <2>3
    <3> QED
      BY <1>1, <1>2, <1>8, <3>1, <3>2, LineContinued
  <2>4. CASE len = 11
    <3>1. RemoveLine(len, to) /\ Read(26)
      BY <1>3, <2>1, <2>2, <2>4, <1>2 DEF CheckMsgType
    <3> QED
      BY <1>1, <1>8, <2>4, <3>1, LineDone
  <2> QED
    BY <1>2, <2>3, <2>4
<1> QED
  BY <1>2, <1>5, <1>6, <1>7, <1>8

\* What the code knows of a reply that _data begins with.
LEMMA ReplyKnown ==
  ASSUME IndInv, NEW m \in 1 .. Len(stream), stream[m].start = from,
         stream[m].kind \in Reply
  PROVE  /\ stream[m].size \in Nat /\ stream[m].size > 25
         /\ stream[m].kind = "receive" => stream[m].size = 26
         /\ stream[m].kind # "receive" => stream[m].size > 33
         /\ stream[m].kind \in ShortReply \ {"receive"} =>
              stream[m].size = TotalLen
         /\ stream[m].kind \in BlockReply => stream[m].size = TotalLenSpec
         /\ ItemAt(from + 1) = stream[m]
         /\ Whole(stream[m].size) = stream[m].kind
         /\ n_flag = 1 <=> stream[m].kind \in BlockReply
<1>1. WellFormed(stream[m])
  BY DEF IndInv, StreamInv
<1>2. ItemAt(from + 1) = stream[m] /\ OriginLen = stream[m].len
  <2>1. from + 1 \in Nat /\ from + 1 > from /\ StreamInv /\ from \in Nat
    BY BufferTyped DEF IndInv
  <2> QED
    BY <2>1, ReplyBytes
<1>3. stream[m].kind \in ShortReply \ {"receive"} => stream[m].size = TotalLen
  BY <1>1, <1>2, ReplyLong, TotalLenIs
<1>4. stream[m].kind \in BlockReply => stream[m].size = TotalLenSpec
  BY <1>1, <1>2, ReplyLong, TotalLenSpecIs
<1>5. Whole(stream[m].size) = stream[m].kind
  BY <1>2 DEF Whole
<1> QED
  BY <1>1, <1>2, <1>3, <1>4, <1>5, ReplyLong, NextReply

\* OnRead has bytes of a reply.
LEMMA OnReadReply ==
  ASSUME IndInv, NEW k \in Chunks, OnRead(k),
         NEW m \in 1 .. Len(stream), stream[m].start = from,
         stream[m].kind \in Reply, n_flag = 0,
         data_len + k <= 33 \/ data_len + k <= stream[m].size
  PROVE  Kept
<1> DEFINE len == data_len + k
           to == taken + k
<1>1. /\ pc = "read" /\ taken' = to
      /\ UNCHANGED <<stream, replies, link>>
  BY DEF OnRead, Completes
<1>2. /\ len \in Nat \ {0} /\ to \in Nat /\ to > from /\ to = from + len
      /\ from \in Nat
  BY <1>1, Returned, BufferTyped
<1>3. /\ Byte(0, to) = "A" /\ ~BeginsOK(to)
      /\ to >= from + 3 <=> BeginsANS(to)
      /\ to >= from + 5 =>
           Byte(4, to) = IF stream[m].kind = "receive" THEN "5" ELSE "D"
  BY <1>2, ReplyBytes DEF IndInv
<1>4. ~HeartBeat(k, to)
  BY <1>3 DEF HeartBeat
<1>5. /\ stream[m].size \in Nat /\ stream[m].size > 25
      /\ stream[m].kind = "receive" => stream[m].size = 26
      /\ stream[m].kind # "receive" =>
           stream[m].size > 33 /\ stream[m].size = TotalLen
      /\ ItemAt(from + 1) = stream[m]
      /\ Whole(stream[m].size) = stream[m].kind
      /\ stream[m].kind \in ShortReply
  BY ReplyKnown
<1>6. CASE len < 3
  <2>1. Keep(len) /\ Read(1)
    BY <1>2, <1>4, <1>6 DEF OnRead
  <2>2. len + 1 <= 33 /\ len < stream[m].size
    BY <1>2, <1>5, <1>6
  <2> QED
    BY <1>1, <2>1, <2>2, ReplyContinued
<1>7. CASE len >= 3
  <2>1. CheckMsgType(len, to)
    BY <1>2, <1>4, <1>7 DEF OnRead
  <2>2. BeginsANS(to)
    BY <1>2, <1>3, <1>7
  <2>3. CASE len < 26
    <3>1. Keep(len) /\ Read(26 - len)
      BY <1>2, <1>3, <2>1, <2>2, <2>3 DEF CheckMsgType
    <3>2. /\ 26 - len \in Nat \ {0} /\ len + (26 - len) <= 33
          /\ len < stream[m].size
      BY <1>2, <1>5, <2>3
    <3> QED
      BY <1>1, <3>1, <3>2, ReplyContinued
  <2>4. CASE len >= 26 /\ stream[m].kind = "receive"
    <3>1. Byte(4, to) = "5"
      BY <1>2, <1>3, <2>4
    <3>2. Handle(stream[m].kind, 0, to)
      BY <1>2, <1>3, <1>5, <2>1, <2>2, <2>4, <3>1 DEF CheckMsgType
    <3>3. stream[m].size <= len
      BY <1>5, <2>4
    <3> QED
      BY <1>1, <2>4, <3>2, <3>3, ReplyDone
  <2>5. CASE len >= 26 /\ stream[m].kind # "receive"
    <3>1. Byte(4, to) = "D"
      BY <1>2, <1>3, <2>5
    <3>2. \/ Incomplete(len, stream[m].size) /\ Keep(len)
             /\ Read(stream[m].size - len)
          \/ /\ ~Incomplete(len, stream[m].size)
             /\ Handle(stream[m].kind, FlagAfter(stream[m].kind), to)
      BY <1>2, <1>3, <1>5, <2>1, <2>2, <2>5, <3>1 DEF CheckMsgType
    <3>3. CASE Incomplete(len, stream[m].size) /\ Keep(len)
               /\ Read(stream[m].size - len)
      <4>1. len < stream[m].size
        BY <3>3 DEF Incomplete
      <4>2. /\ stream[m].size - len \in Nat \ {0}
            /\ len + (stream[m].size - len) = stream[m].size
        BY <1>2, <1>5, <4>1
      <4> QED
        BY <1>1, <3>3, <4>1, <4>2, ReplyContinued
    <3>4. CASE /\ ~Incomplete(len, stream[m].size)
               /\ Handle(stream[m].kind, FlagAfter(stream[m].kind), to)
      <4>1. stream[m].size <= len
        BY <1>2, <1>5, <3>4 DEF Incomplete
      <4>2. FlagAfter(stream[m].kind) =
              IF stream[m].kind \in {"ready", "block"} THEN 1 ELSE 0
        BY <1>5 DEF FlagAfter
      <4> QED
        BY <1>1, <3>4, <4>1, <4>2, ReplyDone
    <3> QED
      BY <3>2, <3>3, <3>4
  <2> QED
    BY <1>2, <2>3, <2>4, <2>5
<1> QED
  BY <1>2, <1>6, <1>7

LEMMA OnReadStep ==
  ASSUME IndInv, NEW k \in Chunks, OnRead(k)
  PROVE  Kept
<1>1. pc = "read"
  BY DEF OnRead, Completes
<1>2. PICK m \in 1 .. Len(stream) :
        /\ stream[m].start = from
        /\ \/ /\ stream[m].kind = "beat" /\ data_len = 0 /\ k = 1
              /\ taken = from
           \/ /\ stream[m].kind = "ok"
              /\ data_len + k <= 11 /\ (n_flag = 1 => data_len + k <= 3)
           \/ /\ stream[m].kind \in Reply /\ n_flag = 0
              /\ data_len + k <= 33 \/ data_len + k <= stream[m].size
  BY <1>1, Arrived
<1>3. CASE stream[m].kind = "beat" /\ data_len = 0 /\ k = 1 /\ taken = from
  <2>1. HeartBeat(1, taken + 1)
    <3>1. /\ from \in Nat /\ stream[m].size = 1
      <4>1. WellFormed(stream[m])
        BY DEF IndInv, StreamInv
      <4> QED
        BY <1>3, <4>1, BufferTyped DEF WellFormed
    <3>2. ItemAt(from + 0 + 1) = stream[m]
      BY <1>2, <3>1, ByteOf DEF IndInv
    <3>3. ~(from + 0 >= taken + 1)
      BY <1>3, <3>1
    <3> QED
      BY <1>3, <3>2, <3>3 DEF HeartBeat, Byte, IsReply
  <2>2. /\ taken' = taken + 1 /\ UNCHANGED <<stream, replies, link>>
        /\ from' = taken' /\ Read(1) /\ UNCHANGED <<data_len, n_flag, handled>>
    BY <1>3, <2>1 DEF OnRead, Completes, Discard
  <2> QED
    BY <1>1, <1>2, <1>3, <2>2, BeatStep
<1>4. CASE /\ stream[m].kind = "ok"
           /\ data_len + k <= 11 /\ (n_flag = 1 => data_len + k <= 3)
  BY <1>2, <1>4, OnReadLine
<1>5. CASE /\ stream[m].kind \in Reply /\ n_flag = 0
           /\ data_len + k <= 33 \/ data_len + k <= stream[m].size
  BY <1>2, <1>5, OnReadReply
<1> QED
  BY <1>2, <1>3, <1>4, <1>5

\* OnReadSpec: a line, or a block.
LEMMA OnReadSpecStep ==
  ASSUME IndInv, NEW k \in Chunks, OnReadSpec(k)
  PROVE  Kept
<1> DEFINE len == data_len + k
           to == taken + k
<1>1. /\ pc = "spec" /\ taken' = to
      /\ UNCHANGED <<stream, replies, link>>
  BY DEF OnReadSpec, Completes
<1>2. /\ len \in Nat \ {0} /\ to \in Nat /\ to > from /\ to = from + len
      /\ from \in Nat
  BY <1>1, Returned, BufferTyped
<1>3. n_flag = 1
  BY <1>1, ArrivedSpec
<1>4. PICK m \in 1 .. Len(stream) :
        /\ stream[m].start = from
        /\ \/ stream[m].kind = "ok" /\ len <= 11 /\ len >= 3
           \/ /\ stream[m].kind \in Reply
              /\ len <= 17 \/ len <= stream[m].size
  BY <1>1, ArrivedSpec
<1>5. CASE stream[m].kind = "ok" /\ len <= 11 /\ len >= 3
  <2>1. BeginsOK(to) /\ ~BeginsANS(to)
    <3>1. to >= from + 3
      BY <1>2, <1>5
    <3> QED
      BY <1>2, <1>4, <1>5, <3>1, LineBytes DEF IndInv
  <2>2. CASE len < 11
    <3>1. Keep(len) /\ ReadSpec(11 - len)
      BY <1>2, <2>1, <2>2 DEF OnReadSpec
    <3>2. 11 - len \in Nat \ {0} /\ len + (11 - len) <= 11
      BY <1>2, <2>2
    <3> QED
      BY <1>1, <1>3, <1>4, <1>5, <3>1, <3>2, LineContinued
  <2>3. CASE len = 11
    <3>1. RemoveLine(len, to) /\ ReadSpec(10)
      BY <1>2, <2>1, <2>3 DEF OnReadSpec
    <3> QED
      BY <1>1, <1>3, <1>4, <1>5, <2>3, <3>1, LineDone
  <2> QED
    BY <1>2, <1>5, <2>2, <2>3
<1>6. CASE /\ stream[m].kind \in Reply
           /\ len <= 17 \/ len <= stream[m].size
  <2>1. /\ Byte(0, to) = "A" /\ ~BeginsOK(to)
        /\ to >= from + 3 <=> BeginsANS(to)
        /\ to >= from + 5 =>
             Byte(4, to) = IF stream[m].kind = "receive" THEN "5" ELSE "D"
    BY <1>2, <1>4, <1>6, ReplyBytes DEF IndInv
  <2>2. /\ stream[m].size \in Nat /\ stream[m].size > 25
        /\ stream[m].kind \in BlockReply
        /\ stream[m].size = TotalLenSpec
        /\ Whole(stream[m].size) = stream[m].kind
    BY <1>3, <1>4, <1>6, ReplyKnown
  <2>3. CASE len < 3
    <3>1. ~BeginsANS(to)
      BY <1>2, <2>1, <2>3
    <3>2. Keep(len) /\ ReadSpec(1)
      BY <2>1, <3>1 DEF OnReadSpec
    <3>3. len + 1 <= 17 /\ len < stream[m].size
      BY <1>2, <2>2, <2>3
    <3> QED
      BY <1>1, <1>3, <1>4, <1>6, <3>2, <3>3, ReplyContinued
  <2>4. CASE len >= 3 /\ len < 10
    <3>1. BeginsANS(to)
      BY <1>2, <2>1, <2>4
    <3>2. Keep(len) /\ ReadSpec(10 - len)
      BY <1>2, <2>1, <2>4, <3>1 DEF OnReadSpec
    <3>3. /\ 10 - len \in Nat \ {0} /\ len + (10 - len) <= 17
          /\ len < stream[m].size
      BY <1>2, <2>2, <2>4
    <3> QED
      BY <1>1, <1>3, <1>4, <1>6, <3>2, <3>3, ReplyContinued
  <2>5. CASE len >= 10
    <3>1. BeginsANS(to) /\ Byte(4, to) = "D"
      BY <1>2, <2>1, <2>2, <2>5
    <3>2. \/ Incomplete(len, stream[m].size) /\ Keep(len)
             /\ ReadSpec(stream[m].size - len)
          \/ /\ ~Incomplete(len, stream[m].size)
             /\ Handle(stream[m].kind, FlagAfterBlock(stream[m].kind), to)
      BY <1>2, <2>1, <2>2, <2>5, <3>1 DEF OnReadSpec
    <3>3. CASE Incomplete(len, stream[m].size) /\ Keep(len)
               /\ ReadSpec(stream[m].size - len)
      <4>1. len < stream[m].size
        BY <3>3 DEF Incomplete
      <4>2. /\ stream[m].size - len \in Nat \ {0}
            /\ len + (stream[m].size - len) = stream[m].size
        BY <1>2, <2>2, <4>1
      <4> QED
        BY <1>1, <1>3, <1>4, <1>6, <3>3, <4>1, <4>2, ReplyContinued
    <3>4. CASE /\ ~Incomplete(len, stream[m].size)
               /\ Handle(stream[m].kind, FlagAfterBlock(stream[m].kind), to)
      <4>1. stream[m].size <= len
        BY <1>2, <2>2, <3>4 DEF Incomplete
      <4>2. FlagAfterBlock(stream[m].kind) =
              IF stream[m].kind \in {"ready", "block"} THEN 1 ELSE 0
        BY <2>2 DEF FlagAfterBlock
      <4> QED
        BY <1>1, <1>4, <1>6, <3>4, <4>1, <4>2, ReplyDone
    <3> QED
      BY <3>2, <3>3, <3>4
  <2> QED
    BY <1>2, <2>3, <2>4, <2>5
<1> QED
  BY <1>4, <1>5, <1>6

\* The buffer and the read pending are what they were.
LEMMA BufferSame ==
  ASSUME IndInv,
         UNCHANGED <<stream, replies, from, taken, data_len, n_flag, handled,
                     pc, rd>>
  PROVE  BufferInv'
<1>1. Total' = Total
  BY DEF Total
<1>2. \A b : Start(b) => Start(b)'
  BY <1>1 DEF Start
<1>3. Start(from) => Start(from)'
  BY <1>2 DEF Start
<1>4. /\ RegBuffer => RegBuffer'
      /\ ReadBuffer => ReadBuffer'
      /\ SpecBuffer => SpecBuffer'
  BY <1>1, <1>3 DEF RegBuffer, ReadBuffer, SpecBuffer, AtLine, AtReply
<1> QED
  BY <1>1, <1>3, <1>4, BufferTyped DEF IndInv, BufferInv

\* The next read is started; a read fails; the connection goes; time passes.
LEMMA OtherSteps ==
  ASSUME IndInv, Handled \/ ReadError \/ PeerLost \/ Deadline
  PROVE  Kept
<1>1. UNCHANGED <<stream, replies, from, taken, data_len, n_flag, handled>>
  BY DEF Handled, ReadError, PeerLost, Deadline, TimePasses, WaitEnds,
         CheckDeadline, wireVars, bufferVars
<1>2. /\ StreamInv' /\ RepliesInv' /\ HandledInv' /\ Total' = Total
      /\ \A b : Start(b) => Start(b)'
      /\ UNCHANGED Channel!vars
  BY <1>1, Quiet
<1>3. CASE Handled
  <2>1. pc = "handler" /\ pc' = "read" /\ rd' = 1 /\ link' = link /\ Expires
    BY <1>3 DEF Handled, Read
  <2>2. from >= REG_LENGTH /\ Start(from) /\ data_len = 0 /\ taken = from
    BY <2>1 DEF IndInv, BufferInv
  <2>3. Start(from)'
    BY <1>1, <1>2, <2>2 DEF Start
  <2>4. ReadBuffer'
    BY <1>1, <2>1, <2>2, <2>3, BufferTyped DEF ReadBuffer
  <2>5. BufferInv' /\ TimerInv'
    BY <1>1, <1>2, <2>1, <2>2, <2>4, TimersTyped, BufferTyped DEF BufferInv
  <2> QED
    BY <1>2, <2>5 DEF Kept, IndInv
<1>4. CASE ReadError
  <2>1. pc' = "none" /\ rd' = 0 /\ link' = link /\ UNCHANGED timerVars
    BY <1>4 DEF ReadError
  <2>2. BufferInv' /\ TimerInv'
    BY <1>1, <1>2, <2>1, TimersTyped, BufferTyped DEF BufferInv
  <2> QED
    BY <1>2, <2>2 DEF Kept, IndInv
<1>5. CASE PeerLost \/ Deadline
  <2>1. pc' = pc /\ rd' = rd /\ TimerInv'
    <3>1. TimerInv
      BY DEF IndInv
    <3> QED
      BY <1>5, <3>1 DEF PeerLost, Deadline, TimePasses, WaitEnds, CheckDeadline,
                        readVars, timerVars, TimerInv
  <2>2. BufferInv'
    BY <1>1, <1>2, <2>1, BufferSame
  <2> QED
    BY <1>2, <2>1, <2>2 DEF Kept, IndInv
<1> QED
  BY <1>3, <1>4, <1>5

-----------------------------------------------------------------------------
(* The steps of the manager.                                               *)

\* One more item at the end of a sequence.
LEMMA Appended ==
  ASSUME NEW s \in Seq(AnItem), NEW i \in AnItem
  PROVE  s \o <<>> \o <<i>> = Append(s, i)
<1>1. s \o <<>> = s
  OBVIOUS
<1>2. s \o <<i>> = Append(s, i)
  OBVIOUS
<1> QED
  BY <1>1, <1>2

\* An item that is neither a line nor a reply is sent.
LEMMA ItemSent ==
  ASSUME StreamInv, NEW i, WellFormed(i), i.start = Total,
         i.kind \in {"reg", "beat"}, stream' = Append(stream, i)
  PROVE  /\ StreamInv' /\ Total' = End(i) /\ Total' > Total
         /\ Len(stream') = Len(stream) + 1 /\ stream'[Len(stream) + 1] = i
         /\ \A n \in 1 .. Len(stream) : stream'[n] = stream[n]
<1> DEFINE N == Len(stream)
<1>1. /\ i \in AnItem /\ stream \in Seq(AnItem) /\ Total \in Nat /\ N \in Nat
      /\ i.start \in Nat /\ i.size \in Nat \ {0}
  BY DEF StreamInv, WellFormed, AnItem
<1>2. /\ stream' \in Seq(AnItem) /\ Len(stream') = N + 1 /\ stream'[N + 1] = i
      /\ \A n \in 1 .. N : stream'[n] = stream[n]
  BY <1>1
<1>3. Total' = End(i) /\ End(i) \in Nat /\ Total < End(i)
  <2>1. stream' # <<>>
    BY <1>1, <1>2
  <2> QED
    BY <1>1, <1>2, <2>1 DEF Total, End
<1>4. ASSUME NEW n \in 1 .. N + 1
      PROVE  /\ WellFormed(stream'[n])
             /\ End(stream'[n]) =
                  IF n = N + 1 THEN Total' ELSE stream'[n + 1].start
             /\ stream'[n].kind = "ok" =>
                  n < N + 1 /\ stream'[n + 1].kind \in Reply
             /\ stream'[n].kind \in Reply => n > 1 /\ stream'[n - 1].kind = "ok"
  <2>1. CASE n = N + 1
    BY <1>2, <1>3, <2>1
  <2>2. CASE n \in 1 .. N
    <3>1. /\ WellFormed(stream[n])
          /\ End(stream[n]) = IF n = N THEN Total ELSE stream[n + 1].start
          /\ stream[n].kind = "ok" => n < N /\ stream[n + 1].kind \in Reply
          /\ stream[n].kind \in Reply => n > 1 /\ stream[n - 1].kind = "ok"
          /\ stream'[n] = stream[n]
      BY <1>2, <2>2 DEF StreamInv
    <3>2. n < N => stream'[n + 1] = stream[n + 1]
      BY <1>1, <1>2, <2>2
    <3>3. n > 1 => stream'[n - 1] = stream[n - 1]
      BY <1>1, <1>2, <2>2
    <3>4. n = N => stream'[n + 1] = i
      BY <1>2
    <3>5. n # N + 1 /\ (n = N \/ n < N)
      BY <1>1, <2>2
    <3> QED
      BY <1>1, <3>1, <3>2, <3>3, <3>4, <3>5
  <2> QED
    BY <1>1, <2>1, <2>2
<1>5. ASSUME NEW m \in 1 .. N + 1, NEW n \in 1 .. N + 1, m < n
      PROVE  End(stream'[m]) <= stream'[n].start
  <2>1. m \in 1 .. N
    BY <1>1, <1>5
  <2>2. CASE n = N + 1
    BY <1>1, <1>2, <2>1, <2>2, EndsWithin
  <2>3. CASE n \in 1 .. N
    BY <1>2, <1>5, <2>1, <2>3 DEF StreamInv
  <2> QED
    BY <1>1, <2>2, <2>3
<1>6. ASSUME NEW j \in 1 .. Total'
      PROVE  \E n \in 1 .. N + 1 : Holds(stream'[n], j)
  <2>1. CASE j \in 1 .. Total
    <3>1. PICK n \in 1 .. N : Holds(stream[n], j)
      BY <2>1 DEF StreamInv
    <3> QED
      BY <1>1, <1>2, <3>1
  <2>2. CASE j > Total
    <3>1. Holds(i, j)
      BY <1>1, <1>3, <2>2 DEF Holds, End
    <3> QED
      BY <1>1, <1>2, <3>1
  <2> QED
    BY <1>1, <1>3, <2>1, <2>2
<1>7. StreamInv'
  <2>1. stream' \in Seq(AnItem) /\ stream' # <<>> /\ Total' \in Nat
    BY <1>1, <1>2, <1>3
  <2>2. Len(stream') = N + 1
    BY <1>2
  <2>3. \A n \in 1 .. Len(stream') :
          /\ WellFormed(stream'[n])
          /\ End(stream'[n]) =
               IF n = Len(stream') THEN Total' ELSE stream'[n + 1].start
          /\ stream'[n].kind = "ok" =>
               n < Len(stream') /\ stream'[n + 1].kind \in Reply
          /\ stream'[n].kind \in Reply => n > 1 /\ stream'[n - 1].kind = "ok"
    BY <1>4, <2>2
  <2>4. \A m, n \in 1 .. Len(stream') :
          m < n => End(stream'[m]) <= stream'[n].start
    BY <1>5, <2>2
  <2>5. \A j \in 1 .. Total' : \E n \in 1 .. Len(stream') : Holds(stream'[n], j)
    BY <1>6, <2>2
  <2> QED
    BY <2>1, <2>3, <2>4, <2>5 DEF StreamInv
<1> QED
  BY <1>2, <1>3, <1>7

\* A line and a reply are sent.
LEMMA PairSent ==
  ASSUME StreamInv, NEW o, WellFormed(o), o.start = Total, o.kind = "ok",
         NEW i, WellFormed(i), i.start = End(o), i.kind \in Reply,
         stream' = Append(Append(stream, o), i)
  PROVE  /\ StreamInv' /\ Total' = End(i) /\ Total' > Total
         /\ Len(stream') = Len(stream) + 2
         /\ stream'[Len(stream) + 1] = o /\ stream'[Len(stream) + 2] = i
         /\ \A n \in 1 .. Len(stream) : stream'[n] = stream[n]
<1> DEFINE N == Len(stream)
<1>1. /\ o \in AnItem /\ i \in AnItem /\ stream \in Seq(AnItem)
      /\ Total \in Nat /\ N \in Nat
      /\ o.size \in Nat \ {0} /\ i.size \in Nat \ {0}
      /\ o.start \in Nat /\ i.start \in Nat
  BY DEF StreamInv, WellFormed, AnItem
<1>2. /\ stream' \in Seq(AnItem) /\ Len(stream') = N + 2
      /\ stream'[N + 1] = o /\ stream'[N + 2] = i
      /\ \A n \in 1 .. N : stream'[n] = stream[n]
  <2>1. /\ Append(stream, o) \in Seq(AnItem) /\ Len(Append(stream, o)) = N + 1
        /\ Append(stream, o)[N + 1] = o
        /\ \A n \in 1 .. N : Append(stream, o)[n] = stream[n]
    BY <1>1
  <2> QED
    BY <1>1, <2>1
<1>3. /\ Total' = End(i) /\ End(i) \in Nat /\ End(o) \in Nat
      /\ Total < End(o) /\ End(o) < End(i)
  <2>1. stream' # <<>>
    BY <1>1, <1>2
  <2> QED
    BY <1>1, <1>2, <2>1, SMTT(30) DEF Total, End
<1>4. ASSUME NEW n \in 1 .. N + 2
      PROVE  /\ WellFormed(stream'[n])
             /\ End(stream'[n]) =
                  IF n = N + 2 THEN Total' ELSE stream'[n + 1].start
             /\ stream'[n].kind = "ok" =>
                  n < N + 2 /\ stream'[n + 1].kind \in Reply
             /\ stream'[n].kind \in Reply => n > 1 /\ stream'[n - 1].kind = "ok"
  <2>1. CASE n = N + 2
    <3>1. stream'[n] = i /\ stream'[n - 1] = o /\ n > 1
      BY <1>1, <1>2, <2>1
    <3> QED
      BY <1>3, <2>1, <3>1
  <2>2. CASE n = N + 1
    <3>1. stream'[n] = o /\ stream'[n + 1] = i /\ n # N + 2 /\ n < N + 2
      BY <1>1, <1>2, <2>2
    <3> QED
      BY <3>1
  <2>3. CASE n \in 1 .. N
    <3>1. /\ WellFormed(stream[n])
          /\ End(stream[n]) = IF n = N THEN Total ELSE stream[n + 1].start
          /\ stream[n].kind = "ok" => n < N /\ stream[n + 1].kind \in Reply
          /\ stream[n].kind \in Reply => n > 1 /\ stream[n - 1].kind = "ok"
          /\ stream'[n] = stream[n]
      BY <1>2, <2>3 DEF StreamInv
    <3>2. n < N => stream'[n + 1] = stream[n + 1]
      BY <1>1, <1>2, <2>3
    <3>3. n > 1 => stream'[n - 1] = stream[n - 1]
      BY <1>1, <1>2, <2>3
    <3>4. n = N => stream'[n + 1] = o
      BY <1>2
    <3>5. n # N + 2 /\ n < N + 2 /\ (n = N \/ n < N)
      BY <1>1, <2>3
    <3>6. CASE n = N
      BY <1>3, <3>1, <3>3, <3>4, <3>5, <3>6
    <3>7. CASE n < N
      BY <3>1, <3>2, <3>3, <3>5, <3>7
    <3> QED
      BY <3>5, <3>6, <3>7
  <2> QED
    BY <1>1, <2>1, <2>2, <2>3
<1>5. ASSUME NEW m \in 1 .. N + 2, NEW n \in 1 .. N + 2, m < n
      PROVE  End(stream'[m]) <= stream'[n].start
  <2>1. CASE m = N + 1
    <3>1. n = N + 2
      BY <1>1, <1>5, <2>1
    <3> QED
      BY <1>2, <1>3, <2>1, <3>1
  <2>2. CASE m \in 1 .. N
    <3>1. End(stream'[m]) <= Total /\ End(stream'[m]) \in Nat
      BY <1>2, <2>2, EndsWithin, ItemsTyped DEF StreamInv
    <3>2. CASE n = N + 1
      BY <1>2, <3>1, <3>2
    <3>3. CASE n = N + 2
      BY <1>1, <1>2, <1>3, <3>1, <3>3
    <3>4. CASE n \in 1 .. N
      BY <1>2, <1>5, <2>2, <3>4 DEF StreamInv
    <3> QED
      BY <1>1, <3>2, <3>3, <3>4, SMTT(30)
  <2> QED
    BY <1>1, <1>5, <2>1, <2>2, SMTT(30)
<1>6. ASSUME NEW j \in 1 .. Total'
      PROVE  \E n \in 1 .. N + 2 : Holds(stream'[n], j)
  <2>1. CASE j \in 1 .. Total
    <3>1. PICK n \in 1 .. N : Holds(stream[n], j)
      BY <2>1 DEF StreamInv
    <3> QED
      BY <1>1, <1>2, <3>1
  <2>2. CASE j > Total /\ j <= End(o)
    <3>1. Holds(o, j)
      BY <1>1, <1>3, <2>2 DEF Holds, End
    <3> QED
      BY <1>1, <1>2, <3>1
  <2>3. CASE j > End(o)
    <3>1. Holds(i, j)
      BY <1>1, <1>3, <2>3 DEF Holds, End
    <3> QED
      BY <1>1, <1>2, <3>1
  <2> QED
    BY <1>1, <1>3, <2>1, <2>2, <2>3
<1>7. StreamInv'
  BY <1>2, <1>3, <1>4, <1>5, <1>6 DEF StreamInv
<1> QED
  BY <1>1, <1>2, <1>3, <1>7

\* What is sent later does not touch what has been read.
LEMMA BufferSent ==
  ASSUME IndInv, Registered, NEW N, N = Len(stream),
         Len(stream') >= N, Len(stream') \in Nat,
         \A n \in 1 .. N : stream'[n] = stream[n],
         Total' > Total, Total' \in Nat,
         N + 1 \in 1 .. Len(stream'), stream'[N + 1].start = Total,
         stream'[N + 1].kind \in {"beat", "ok"},
         UNCHANGED <<taken, bufferVars, readVars, link, timerVars, handled>>
  PROVE  BufferInv' /\ TimerInv'
<1>1. /\ UNCHANGED <<taken, from, data_len, n_flag, pc, rd, link, handled>>
      /\ UNCHANGED timerVars /\ taken >= REG_LENGTH
  BY DEF bufferVars, readVars, Registered
<1>2. pc # "reg" /\ pc # "accept"
  BY <1>1, BufferTyped DEF IndInv, BufferInv, RegBuffer
<1>3. \A n \in 1 .. N : n \in 1 .. Len(stream')
  BY BufferTyped
<1>4. Start(from) => Start(from)'
  <2>1. CASE from = Total
    BY <1>1, <2>1 DEF Start
  <2>2. ASSUME NEW n \in 1 .. N, stream[n].start = from,
               stream[n].kind \in {"beat", "ok"}
        PROVE  Start(from)'
    BY <1>1, <1>3, <2>2 DEF Start
  <2> QED
    BY <2>1, <2>2 DEF Start
<1>5. ASSUME NEW n \in 1 .. N
      PROVE  /\ n \in 1 .. Len(stream')
             /\ AtLine(n) => AtLine(n)'
             /\ AtReply(n, 33) => AtReply(n, 33)'
             /\ AtReply(n, 17) => AtReply(n, 17)'
  BY <1>1, <1>3 DEF AtLine, AtReply
<1>6. ReadBuffer => ReadBuffer'
  BY <1>1, <1>4, <1>5 DEF ReadBuffer
<1>7. SpecBuffer => SpecBuffer'
  BY <1>1, <1>5 DEF SpecBuffer
<1>8. taken <= Total'
  BY BufferTyped
<1>9. BufferInv'
  BY <1>1, <1>2, <1>4, <1>6, <1>7, <1>8, BufferTyped DEF IndInv, BufferInv
<1> QED
  BY <1>1, <1>9, TimersTyped

\* The registration is sent.
LEMMA AcceptStep ==
  ASSUME IndInv, Accept
  PROVE  Kept
<1>1. /\ pc = "accept" /\ link' = "up" /\ pc' = "reg" /\ rd' = REG_LENGTH
      /\ stream' = <<Item("reg", 0, 0, REG_LENGTH)>>
      /\ UNCHANGED <<replies, taken, from, data_len, n_flag, handled>>
      /\ UNCHANGED timerVars
  BY DEF Accept, ReadReg, bufferVars
<1>2. /\ stream = <<>> /\ replies = <<>> /\ taken = 0 /\ from = 0
      /\ data_len = 0
  BY <1>1, BufferTyped DEF IndInv, BufferInv
<1> DEFINE i == Item("reg", 0, 0, REG_LENGTH)
<1>3. WellFormed(i) /\ i.start = 0 /\ End(i) = REG_LENGTH /\ i.kind = "reg"
  BY DEF WellFormed, AnItem, Item, End
<1>4. stream' = Append(stream, i) /\ Total = 0
  BY <1>1, <1>2 DEF Total
<1> HIDE DEF i
<1>5. /\ StreamInv' /\ Total' = REG_LENGTH
      /\ Len(stream') = 1 /\ stream'[1] = i
  BY <1>2, <1>3, <1>4, ItemSent DEF IndInv
<1>6. handled = <<>> /\ n_flag = 0
  BY <1>2 DEF IndInv, HandledInv
<1>7. RepliesInv'
  BY <1>1, <1>2, <1>3, <1>5 DEF IndInv, RepliesInv
<1>8. HandledInv'
  BY <1>1, <1>2 DEF IndInv, HandledInv
<1>9. BufferInv'
  <2>1. RegBuffer'
    BY <1>1, <1>2, <1>5, <1>6 DEF RegBuffer
  <2> QED
    BY <1>1, <1>2, <1>5, <2>1 DEF BufferInv
<1>10. TimerInv'
  BY <1>1 DEF IndInv, TimerInv, timerVars
<1>11. UNCHANGED Channel!vars
  BY <1>1 DEF Channel!vars, Sent
<1> QED
  BY <1>5, <1>7, <1>8, <1>9, <1>10, <1>11 DEF Kept, IndInv

LEMMA SendBeatStep ==
  ASSUME IndInv, SendBeat
  PROVE  Kept
<1>1. /\ stream' = Append(stream, Beat(Total)) /\ Registered
      /\ UNCHANGED <<replies, taken, bufferVars, readVars, link, timerVars,
                     handled>>
  BY DEF SendBeat
<1>2. /\ WellFormed(Beat(Total)) /\ Beat(Total).start = Total
      /\ Beat(Total).kind = "beat"
  BY BufferTyped, ItemsWellFormed DEF Beat, Item
<1>3. /\ StreamInv' /\ Len(stream') = Len(stream) + 1 /\ Total' > Total
      /\ stream'[Len(stream) + 1] = Beat(Total)
      /\ \A n \in 1 .. Len(stream) : stream'[n] = stream[n]
  BY <1>1, <1>2, ItemSent DEF IndInv
<1>4. Total' \in Nat /\ Len(stream) \in Nat
  BY <1>3, BufferTyped DEF StreamInv
<1>5. BufferInv' /\ TimerInv'
  <2>1. Len(stream) + 1 \in 1 .. Len(stream') /\ Len(stream') >= Len(stream)
    BY <1>3, <1>4
  <2> QED
    BY <1>1, <1>2, <1>3, <1>4, <2>1, BufferSent
<1>6. RepliesInv'
  <2>1. ASSUME NEW n \in 1 .. Len(stream'), stream'[n].kind \in Reply
        PROVE  \E i \in 1 .. Len(replies) : replies[i] = stream'[n]
    <3>1. n \in 1 .. Len(stream)
      BY <1>2, <1>3, <1>4, <2>1
    <3>2. stream'[n] = stream[n]
      BY <1>3, <3>1
    <3>3. \E i \in 1 .. Len(replies) : replies[i] = stream[n]
      BY <2>1, <3>1, <3>2 DEF IndInv, RepliesInv
    <3> QED
      BY <3>2, <3>3
  <2>2. \A i \in 1 .. Len(replies) :
          \E n \in 1 .. Len(stream') : replies[i] = stream'[n]
    BY <1>3, <1>4 DEF IndInv, RepliesInv
  <2> QED
    BY <1>1, <2>1, <2>2 DEF IndInv, RepliesInv
<1>7. HandledInv'
  BY <1>1 DEF IndInv, HandledInv, bufferVars
<1>8. UNCHANGED Channel!vars
  BY <1>1 DEF Channel!vars, Sent
<1> QED
  BY <1>3, <1>5, <1>6, <1>7, <1>8 DEF Kept, IndInv

\* The next reply is a block just after "ready" or a block that is not the last.
LEMMA NextItemsAre ==
  ASSUME IndInv, OneByOne, NEW start \in Nat, NEW i \in NextItems(start)
  PROVE  /\ WellFormed(i) /\ i.start = start /\ i.kind \in Reply
         /\ i.kind \in BlockReply <=>
              Len(replies) > 0 /\ replies[Len(replies)].kind \in {"ready", "block"}
<1>1. BlockDue <=>
        Len(replies) > 0 /\ replies[Len(replies)].kind \in {"ready", "block"}
  <2>1. RepliesInv /\ Len(replies) \in Nat
    BY DEF IndInv, RepliesInv
  <2>2. CASE Len(replies) > 0
    <3>1. Len(replies) \in 1 .. Len(replies)
      BY <2>1, <2>2
    <3>2. Sent # <<>> /\ Sent[Len(Sent)] = replies[Len(replies)].kind
      BY <2>1, <2>2, <3>1, SentIs
    <3> QED
      BY <2>2, <3>2 DEF BlockDue
  <2>3. CASE ~(Len(replies) > 0)
    BY <2>1, <2>3, SentIs DEF BlockDue
  <2> QED
    BY <2>2, <2>3
<1>2. CASE BlockDue
  <2>1. PICK k \in BlockReply, n \in Blocks : i = BlockItem(k, n, start)
    BY <1>2 DEF NextItems, OneByOne
  <2>2. /\ i.kind = k /\ i.start = start
    BY <2>1 DEF BlockItem, Item
  <2> QED
    BY <1>1, <1>2, <2>1, <2>2, ItemsWellFormed
<1>3. CASE ~BlockDue
  <2>1. PICK k \in Kinds : i = ShortItem(k, start)
    BY <1>3 DEF NextItems
  <2>2. k \in ShortReply
    BY Numbers
  <2>3. i.kind = k /\ i.start = start
    BY <2>1 DEF ShortItem, Item
  <2> QED
    BY <1>1, <1>3, <2>1, <2>2, <2>3, ItemsWellFormed
<1> QED
  BY <1>2, <1>3

LEMMA SendReplyStep ==
  ASSUME IndInv, OneByOne, SendReply
  PROVE  Kept
<1>1. PICK l \in OkLines :
        \E b \in BeatsBetween(Total + l) :
          \E i \in NextItems(Total + l + Len(b)) :
            /\ stream' = Append(stream, OkLine(Total, l)) \o b \o <<i>>
            /\ replies' = Append(replies, i)
  BY DEF SendReply
<1>2. /\ Registered /\ Len(handled) = Len(Sent)
      /\ UNCHANGED <<taken, bufferVars, readVars, link, timerVars, handled>>
  BY DEF SendReply, OneByOne
<1> DEFINE o == OkLine(Total, l)
           N == Len(stream)
           R == Len(replies)
<1>3. /\ WellFormed(o) /\ o.start = Total /\ o.kind = "ok"
      /\ Total + l \in Nat /\ End(o) = Total + l
  <2>1. l \in Nat
    BY Numbers
  <2> QED
    BY <2>1, BufferTyped, ItemsWellFormed DEF OkLine, Item, End
<1>4. PICK i \in NextItems(Total + l) :
        /\ stream' = Append(stream, o) \o <<>> \o <<i>>
        /\ replies' = Append(replies, i)
  <2>1. BeatsBetween(Total + l) = {<<>>}
    BY DEF BeatsBetween, OneByOne
  <2>2. Len(<<>>) = 0 /\ Total + l + 0 = Total + l
    BY <1>3
  <2> QED
    BY <1>1, <2>1, <2>2
<1>5. /\ WellFormed(i) /\ i.start = End(o) /\ i.kind \in Reply
      /\ i.kind \in BlockReply <=>
           R > 0 /\ replies[R].kind \in {"ready", "block"}
  BY <1>3, NextItemsAre
<1> HIDE DEF o
<1>6. stream' = Append(Append(stream, o), i)
  <2>1. stream \in Seq(AnItem) /\ o \in AnItem /\ i \in AnItem
    BY <1>3, <1>5 DEF IndInv, StreamInv, WellFormed
  <2>2. Append(stream, o) \in Seq(AnItem)
    BY <2>1
  <2> QED
    BY <1>4, <2>1, <2>2, Appended
<1>7. /\ StreamInv' /\ Total' > Total /\ Len(stream') = N + 2
      /\ stream'[N + 1] = o /\ stream'[N + 2] = i
      /\ \A n \in 1 .. N : stream'[n] = stream[n]
  BY <1>3, <1>5, <1>6, PairSent DEF IndInv
<1>8. /\ Total' \in Nat /\ N \in Nat /\ R \in Nat
      /\ N + 1 \in 1 .. Len(stream') /\ N + 2 \in 1 .. Len(stream')
      /\ Len(stream') >= N /\ Len(stream') \in Nat
      /\ \A n \in 1 .. N : n \in 1 .. Len(stream')
  BY <1>7, BufferTyped DEF StreamInv
<1>9. BufferInv' /\ TimerInv'
  BY <1>2, <1>3, <1>7, <1>8, BufferSent
<1>10. /\ replies' \in Seq(AnItem) /\ Len(replies') = R + 1 /\ replies'[R + 1] = i
       /\ \A n \in 1 .. R : replies'[n] = replies[n]
  <2>1. replies \in Seq(AnItem) /\ i \in AnItem
    BY <1>5 DEF IndInv, RepliesInv, WellFormed
  <2> QED
    BY <1>4, <2>1
<1>11. \A n \in 1 .. R : /\ End(replies[n]) <= End(o)
                         /\ \E m \in 1 .. N : replies[n] = stream[m]
  <2>1. ASSUME NEW n \in 1 .. R
        PROVE  /\ End(replies[n]) <= End(o)
               /\ \E m \in 1 .. N : replies[n] = stream[m]
    <3>1. PICK m \in 1 .. N : replies[n] = stream[m]
      BY DEF IndInv, RepliesInv
    <3>2. End(stream[m]) <= Total /\ End(stream[m]) \in Nat
      BY EndsWithin, ItemsTyped DEF IndInv, StreamInv
    <3>3. Total <= End(o) /\ End(o) \in Nat
      <4>1. l \in Nat
        BY Numbers
      <4> QED
        BY <1>3, <4>1, BufferTyped
    <3> QED
      BY <3>1, <3>2, <3>3, BufferTyped
  <2> QED
    BY <2>1
<1>12. RepliesInv'
  <2>1. ASSUME NEW n \in 1 .. R + 1
        PROVE  /\ replies'[n].kind \in Reply
               /\ \E m \in 1 .. Len(stream') : replies'[n] = stream'[m]
               /\ replies'[n].kind \in BlockReply
                    <=> n > 1 /\ replies'[n - 1].kind \in {"ready", "block"}
    <3>1. CASE n = R + 1
      <4>1. replies'[n] = i /\ (n > 1 <=> R > 0)
        BY <1>8, <1>10, <3>1
      <4>2. R > 0 => replies'[n - 1] = replies[R]
        BY <1>8, <1>10, <3>1
      <4> QED
        BY <1>5, <1>7, <1>8, <4>1, <4>2
    <3>2. CASE n \in 1 .. R
      <4>1. replies'[n] = replies[n] /\ (n > 1 => replies'[n - 1] = replies[n - 1])
        BY <1>8, <1>10, <3>2
      <4>2. /\ replies[n].kind \in Reply
            /\ replies[n].kind \in BlockReply
                 <=> n > 1 /\ replies[n - 1].kind \in {"ready", "block"}
        BY <3>2 DEF IndInv, RepliesInv
      <4>3. \E m \in 1 .. Len(stream') : replies'[n] = stream'[m]
        BY <1>7, <1>8, <1>11, <3>2, <4>1
      <4> QED
        BY <4>1, <4>2, <4>3
    <3> QED
      BY <1>8, <3>1, <3>2
  <2>2. ASSUME NEW m \in 1 .. R + 1, NEW n \in 1 .. R + 1, m < n
        PROVE  End(replies'[m]) <= replies'[n].start
    <3>1. m \in 1 .. R
      BY <1>8, <2>2
    <3>2. CASE n = R + 1
      BY <1>5, <1>10, <1>11, <3>1, <3>2
    <3>3. CASE n \in 1 .. R
      BY <1>10, <2>2, <3>1, <3>3 DEF IndInv, RepliesInv
    <3> QED
      BY <1>8, <3>2, <3>3
  <2>3. ASSUME NEW n \in 1 .. Len(stream'), stream'[n].kind \in Reply
        PROVE  \E j \in 1 .. R + 1 : replies'[j] = stream'[n]
    <3>1. CASE n = N + 2
      BY <1>7, <1>8, <1>10, <3>1
    <3>2. CASE n = N + 1
      BY <1>3, <1>7, <2>3, <3>2
    <3>3. CASE n \in 1 .. N
      <4>1. PICK j \in 1 .. R : replies[j] = stream[n]
        BY <1>7, <2>3, <3>3 DEF IndInv, RepliesInv
      <4>2. /\ stream'[n] = stream[n] /\ replies'[j] = replies[j]
            /\ j \in 1 .. R + 1
        BY <1>7, <1>8, <1>10, <3>3
      <4> QED
        BY <4>1, <4>2
    <3> QED
      BY <1>7, <1>8, <3>1, <3>2, <3>3
  <2> QED
    BY <1>10, <2>1, <2>2, <2>3 DEF RepliesInv
<1>13. HandledInv'
  <2>1. UNCHANGED <<from, n_flag, handled>> /\ Len(handled) = R
    BY <1>2, SentIs DEF IndInv, bufferVars
  <2>2. from <= i.start
    <3>1. l \in Nat
      BY Numbers
    <3> QED
      BY <1>3, <1>5, <3>1, BufferTyped
  <2>3. ASSUME NEW j \in 1 .. R + 1
        PROVE  IF j <= Len(handled') THEN End(replies'[j]) <= from'
                                     ELSE from' <= replies'[j].start
    <3>1. CASE j = R + 1
      BY <1>8, <1>10, <2>1, <2>2, <3>1
    <3>2. CASE j \in 1 .. R
      <4>1. End(replies[j]) <= from
        BY <2>1, <3>2 DEF IndInv, HandledInv
      <4> QED
        BY <1>10, <2>1, <3>2, <4>1
    <3> QED
      BY <1>8, <3>1, <3>2
  <2>4. n_flag' = 1 <=>
          Len(handled') > 0 /\ replies'[Len(handled')].kind \in {"ready", "block"}
    BY <1>8, <1>10, <2>1 DEF IndInv, HandledInv
  <2> QED
    BY <1>8, <1>10, <2>1, <2>3, <2>4 DEF IndInv, HandledInv
<1>14. Channel!SendReply(i.kind)
  <2>1. Sent' = [n \in 1 .. R + 1 |-> replies'[n].kind]
    BY <1>10 DEF Sent
  <2>2. Sent' = Append(Sent, i.kind)
    <3>1. Sent \in Seq(Reply) /\ Len(Sent) = R
      BY SentIs DEF IndInv
    <3> QED
      BY <1>5, <1>8, <1>10, <2>1, <3>1, SentIs DEF Sent
  <2> QED
    BY <1>2, <2>2 DEF Channel!SendReply
<1> QED
  BY <1>5, <1>7, <1>9, <1>12, <1>13, <1>14 DEF Kept, IndInv, Channel!Next

-----------------------------------------------------------------------------
(* The theorems.                                                           *)

LEMMA InitInv ==
  ASSUME Init
  PROVE  IndInv
<1>1. Total = 0
  BY DEF Init, Total
<1> QED
  BY <1>1 DEF Init, IndInv, StreamInv, RepliesInv, HandledInv, BufferInv, TimerInv

LEMMA NextInv ==
  ASSUME IndInv, OneByOne, [Next]_vars
  PROVE  Kept
<1>1. ASSUME UNCHANGED vars PROVE Kept
  <2>1. /\ UNCHANGED <<stream, replies, from, taken, data_len, n_flag, pc, rd,
                       link, handled>>
        /\ UNCHANGED timerVars
    BY <1>1 DEF vars, wireVars, bufferVars, readVars
  <2>2. StreamInv' /\ RepliesInv' /\ HandledInv' /\ UNCHANGED Channel!vars
    BY <2>1, Quiet
  <2>3. BufferInv' /\ TimerInv'
    BY <2>1, BufferSame, TimersTyped
  <2> QED
    BY <2>2, <2>3 DEF Kept, IndInv
<1>2. ASSUME Next PROVE Kept
  BY <1>2, AcceptStep, OnReadRegStep, OnReadStep, OnReadSpecStep, OtherSteps,
     SendReplyStep, SendBeatStep
     DEF Next, ReadChain, Manager
<1> QED
  BY <1>1, <1>2

LEMMA AlwaysInv ==
  ASSUME OneByOne
  PROVE  Spec => []IndInv
<1>1. IndInv /\ [Next]_vars => IndInv'
  BY NextInv DEF Kept
<1> QED
  BY <1>1, InitInv, PTL DEF Spec

\* Every variable keeps its type; no more is read than was sent, and _data
\* never begins behind what has been read.
THEOREM ReaderTyped ==
  ASSUME OneByOne
  PROVE  Spec => []TypeOK
<1>1. ASSUME IndInv PROVE TypeOK
  <2>1. taken \in 0 .. Total /\ from \in 0 .. taken
    BY <1>1, BufferTyped
  <2>2. \A i \in 1 .. Len(handled) :
          handled[i] \in ShortReply \cup BlockReply \cup {"cut"}
    BY <1>1 DEF IndInv, HandledInv
  <2> QED
    BY <1>1, <2>1, <2>2 DEF TypeOK, IndInv, HandledInv, BufferInv, TimerInv
<1> QED
  BY <1>1, AlwaysInv, PTL

\* No read asks for zero bytes or writes beyond the 1024 bytes of _data, while
\* a block has 17 meters at most.
THEOREM ReadsFit ==
  ASSUME OneByOne, BlocksFit
  PROVE  Spec => []ReadFits
<1>1. ASSUME IndInv, pc = "reg" PROVE ReadFits
  BY <1>1 DEF IndInv, BufferInv, RegBuffer, ReadFits, BUFSIZE
<1>2. ASSUME IndInv, NEW m \in 1 .. Len(stream), stream[m].kind \in Reply,
             NEW x \in Nat, x = stream[m].size
      PROVE  x <= BUFSIZE
  <2>1. WellFormed(stream[m])
    BY <1>2 DEF IndInv, StreamInv
  <2>2. CASE stream[m].kind = "receive"
    BY <1>2, <2>1, <2>2, ReplyLong DEF BUFSIZE
  <2>3. CASE stream[m].kind \in ShortReply \ {"receive"}
    <3>1. PICK l \in 10 .. 21 : x = 3 * l + 5
      BY <1>2, <2>1, <2>3, ReplyLong
    <3> QED
      BY <3>1 DEF BUFSIZE
  <2>4. CASE stream[m].kind \in BlockReply
    <3>1. PICK l \in Blocks : x = 57 * l + 38
      BY <1>2, <2>1, <2>4, ReplyLong
    <3> QED
      BY <3>1 DEF BlocksFit
  <2> QED
    BY <1>2, <2>2, <2>3, <2>4
<1>3. ASSUME IndInv, pc \in {"read", "spec"} PROVE ReadFits
  <2>1. rd \in Nat \ {0} /\ data_len = taken - from
    BY <1>3 DEF IndInv, BufferInv, ReadBuffer, SpecBuffer
  <2>2. \/ data_len + rd <= 33
        \/ \E m \in 1 .. Len(stream) :
             stream[m].kind \in Reply /\ data_len + rd = stream[m].size
    <3>1. \/ data_len = 0 /\ rd = 1
          \/ data_len + rd <= 11
          \/ data_len + rd <= 17
          \/ data_len + rd <= 33
          \/ \E m \in 1 .. Len(stream) :
               stream[m].kind \in Reply /\ data_len + rd = stream[m].size
      BY <1>3 DEF IndInv, BufferInv, ReadBuffer, SpecBuffer, AtLine, AtReply
    <3> QED
      BY <1>3, <3>1, BufferTyped
  <2>3. data_len + rd \in Nat
    BY <1>3, BufferTyped
  <2>4. data_len + rd <= BUFSIZE
    <3>1. CASE data_len + rd <= 33
      BY <2>3, <3>1 DEF BUFSIZE
    <3>2. ASSUME NEW m \in 1 .. Len(stream), stream[m].kind \in Reply,
                 data_len + rd = stream[m].size
          PROVE  data_len + rd <= BUFSIZE
      BY <1>2, <1>3, <2>3, <3>2
    <3> QED
      BY <2>2, <3>1, <3>2
  <2> QED
    BY <2>1, <2>4 DEF ReadFits
<1>4. ASSUME IndInv PROVE ReadFits
  BY <1>1, <1>3, <1>4 DEF ReadFits
<1> QED
  BY <1>4, AlwaysInv, PTL

\* The read chain implements ReplyChannel: the handlers are called with the
\* manager's replies, whole, each once and in the order they were sent.
THEOREM ReaderImplementsChannel ==
  ASSUME OneByOne
  PROVE  Spec => RepliesKept
<1>1. ASSUME Init PROVE Channel!Init
  BY <1>1 DEF Init, Channel!Init, Sent
<1>2. ASSUME IndInv, [Next]_vars PROVE [Channel!Next]_(Channel!vars)
  BY <1>2, NextInv DEF Kept
<1> QED
  BY <1>1, <1>2, AlwaysInv, PTL DEF Spec, RepliesKept, Channel!Spec
=============================================================================
