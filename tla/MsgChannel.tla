----------------------------- MODULE MsgChannel -----------------------------
(***************************************************************************)
(* What a NetConnect promises the application: the messages of one side    *)
(* arrive at the other exactly once, in the order of sendMsg, and none     *)
(* after onClose.  The connection may end with messages undelivered.       *)
(***************************************************************************)
EXTENDS Naturals, Sequences

CONSTANT Message

VARIABLES
  sent,       \* the messages passed to sendMsg
  delivered,  \* the messages passed to onMsg
  ended       \* onClose has been called

chanVars == <<sent, delivered, ended>>

Init ==
  /\ sent = <<>>
  /\ delivered = <<>>
  /\ ended = FALSE

Send(m) ==
  /\ sent' = Append(sent, m)
  /\ UNCHANGED <<delivered, ended>>

Deliver ==
  /\ ~ended
  /\ Len(delivered) < Len(sent)
  /\ delivered' = Append(delivered, sent[Len(delivered) + 1])
  /\ UNCHANGED <<sent, ended>>

End ==
  /\ ~ended
  /\ ended' = TRUE
  /\ UNCHANGED <<sent, delivered>>

Next == (\E m \in Message : Send(m)) \/ Deliver \/ End

Spec == Init /\ [][Next]_chanVars

=============================================================================
