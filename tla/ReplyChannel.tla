---------------------------- MODULE ReplyChannel ----------------------------
(***************************************************************************)
(* What the read chain of a session promises to the handlers behind it:    *)
(* the replies of the manager are handled whole, each once, in the order   *)
(* in which they were sent, however the connection cuts up their bytes.    *)
(***************************************************************************)
EXTENDS Naturals, Sequences

CONSTANT Reply

VARIABLES
  sent,     \* the replies the manager has sent
  handled   \* the replies a handler has been called for

vars == <<sent, handled>>

Init == sent = <<>> /\ handled = <<>>

SendReply(m) ==
  /\ sent' = Append(sent, m)
  /\ UNCHANGED handled

HandleNext ==
  /\ Len(handled) < Len(sent)
  /\ handled' = Append(handled, sent[Len(handled) + 1])
  /\ UNCHANGED sent

Next == HandleNext \/ \E m \in Reply : SendReply(m)

Spec == Init /\ [][Next]_vars
=============================================================================
