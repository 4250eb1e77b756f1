------------------------------- MODULE Mailbox -------------------------------
(***************************************************************************)
(* What the crate promises about notifications (src/src/client.rs:842-922, *)
(* 1039-1061): the handler is shown what the server sent, one message      *)
(* after the other from the first on, and whoever deactivates the client   *)
(* gets the handler back after the last.  No channel, no task, no oneshot: *)
(* those are Notifications'.                                               *)
(***************************************************************************)
EXTENDS Naturals, Sequences

CONSTANT Msg

VARIABLES
  owner,      \* the ActiveClient, or what became of it
  broken,     \* nobody will look after the mailbox any more
  sent,       \* what was put into the mailbox
  delivered   \* what the handler was shown

vars == <<owner, broken, sent, delivered>>

Init ==
  /\ owner = "active" /\ broken = FALSE
  /\ sent = <<>> /\ delivered = <<>>

Send(m) ==
  /\ owner = "active"
  /\ sent' = Append(sent, m)
  /\ UNCHANGED <<owner, broken, delivered>>

Deliver ==
  /\ ~broken
  /\ Len(delivered) < Len(sent)
  /\ delivered' = Append(delivered, sent[Len(delivered) + 1])
  /\ UNCHANGED <<owner, broken, sent>>

(* The mailbox is closed by whoever deactivates the client, or drops it;    *)
Close ==
  /\ owner = "active"
  /\ owner' = "awaiting"
  /\ UNCHANGED <<broken, sent, delivered>>

GiveUp ==
  /\ owner \in {"active", "awaiting"}
  /\ owner' = "dropped"
  /\ UNCHANGED <<broken, sent, delivered>>

(* he is given the handler back when it has seen everything, or a panic.    *)
Return ==
  /\ owner = "awaiting" /\ ~broken /\ delivered = sent
  /\ owner' = "returned"
  /\ UNCHANGED <<broken, sent, delivered>>

Panic ==
  /\ owner = "awaiting" /\ broken
  /\ owner' = "panicked"
  /\ UNCHANGED <<broken, sent, delivered>>

(* A handler that panics, or an executor that is dropped, ends it all early, *)
(* but takes nothing away from a caller who has been given the handler.     *)
Break ==
  /\ ~broken /\ owner # "returned"
  /\ broken' = TRUE
  /\ UNCHANGED <<owner, sent, delivered>>

Next ==
  \/ \E m \in Msg : Send(m)
  \/ Deliver \/ Close \/ GiveUp \/ Return \/ Panic \/ Break

Spec == Init /\ [][Next]_vars

=============================================================================
