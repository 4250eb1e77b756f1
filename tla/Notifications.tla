---------------------------- MODULE Notifications ----------------------------
(***************************************************************************)
(* The way of a notification: the server's thread calls back and sends a   *)
(* message into an unbounded channel, a task on the main thread takes them *)
(* out and runs the NotificationHandler, and ActiveClient::deactivate      *)
(* closes the channel and waits for the task to hand the handler back      *)
(* (src/src/client.rs:842-922, 1039-1061, src/src/callbacks.rs:426-561).   *)
(***************************************************************************)
EXTENDS Naturals, Sequences

CONSTANTS
  Msg,       \* notifications
  MaxSent    \* bound on the notifications of one activation

ASSUME MaxSentAssumption == MaxSent \in Nat

VARIABLES
  pc,         \* the ActiveClient or the future that consumes it
  sender,     \* NotificationData, the only sender, is alive
  queue,      \* the channel
  task,       \* the local task that owns receiver and handler
  handlerAt,  \* who owns the NotificationHandler
  sent,       \* history: what the server called back with
  delivered   \* history: what the handler was given

vars == <<pc, sender, queue, task, handlerAt, sent, delivered>>

TypeOK ==
  /\ pc \in {"active", "awaiting", "returned", "panicked", "dropped"}
  /\ sender \in BOOLEAN
  /\ queue \in Seq(Msg)
  /\ task \in {"running", "done", "killed"}
  /\ handlerAt \in {"task", "oneshot", "caller", "nobody"}
  /\ sent \in Seq(Msg)
  /\ delivered \in Seq(Msg)

(* As InactiveClient::activate leaves it: channel made, task spawned. *)
Init ==
  /\ pc = "active"
  /\ sender = TRUE
  /\ queue = <<>>
  /\ task = "running"
  /\ handlerAt = "task"
  /\ sent = <<>>
  /\ delivered = <<>>

(* A callback on the server's notification thread.  It ignores the error of *)
(* sending to a receiver that is gone.                                      *)
Notify(m) ==
  /\ pc = "active"
  /\ Len(sent) < MaxSent
  /\ sent' = Append(sent, m)
  /\ queue' = IF task = "running" THEN Append(queue, m) ELSE queue
  /\ UNCHANGED <<pc, sender, task, handlerAt, delivered>>

-----------------------------------------------------------------------------
(* The task *)

HandleNewest ==                 \* fault: last in, first out
  /\ task = "running"
  /\ queue # <<>>
  /\ delivered' = Append(delivered, queue[Len(queue)])
  /\ queue' = SubSeq(queue, 1, Len(queue) - 1)
  /\ UNCHANGED <<pc, sender, task, handlerAt, sent>>

Handle ==
  /\ task = "running"
  /\ queue # <<>>
  /\ delivered' = Append(delivered, Head(queue))
  /\ queue' = Tail(queue)
  /\ UNCHANGED <<pc, sender, task, handlerAt, sent>>

TaskEndsOnClose ==              \* fault: what is still queued is dropped
  /\ task = "running"
  /\ ~sender
  /\ task' = "done"
  /\ handlerAt' = IF pc = "awaiting" THEN "oneshot" ELSE "nobody"
  /\ UNCHANGED <<pc, sender, queue, sent, delivered>>

(* Channel closed and drained: the handler is sent to whoever waits for it, *)
(* or dropped if nobody does.                                               *)
TaskEnds ==
  /\ task = "running"
  /\ queue = <<>> /\ ~sender
  /\ task' = "done"
  /\ handlerAt' = IF pc = "awaiting" THEN "oneshot" ELSE "nobody"
  /\ UNCHANGED <<pc, sender, queue, sent, delivered>>

(* A panic of the handler, or the executor dropped with its tasks. *)
TaskKilled ==
  /\ task = "running"
  /\ task' = "killed"
  /\ queue' = <<>>
  /\ handlerAt' = "nobody"
  /\ UNCHANGED <<pc, sender, sent, delivered>>

-----------------------------------------------------------------------------
(* The owner of the client *)

DeactivateKeepsSender ==        \* fault: NotificationData outlives the wait
  /\ pc = "active"
  /\ pc' = "awaiting"
  /\ UNCHANGED <<sender, queue, task, handlerAt, sent, delivered>>

(* jack_deactivate succeeded: no callback runs any more, the sender is      *)
(* dropped, the future waits for the handler.                               *)
Deactivate ==
  /\ pc = "active"
  /\ pc' = "awaiting"
  /\ sender' = FALSE
  /\ UNCHANGED <<queue, task, handlerAt, sent, delivered>>

AwaitReady ==
  /\ pc = "awaiting" /\ handlerAt = "oneshot"
  /\ pc' = "returned"
  /\ handlerAt' = "caller"
  /\ UNCHANGED <<sender, queue, task, sent, delivered>>

(* The other end of the oneshot was dropped with the task: unwrap() panics. *)
AwaitPanics ==
  /\ pc = "awaiting" /\ task = "killed"
  /\ pc' = "panicked"
  /\ UNCHANGED <<sender, queue, task, handlerAt, sent, delivered>>

(* The ActiveClient, or the future of deactivate, is dropped. *)
Drop ==
  /\ pc \in {"active", "awaiting"}
  /\ pc' = "dropped"
  /\ sender' = FALSE
  /\ handlerAt' = IF handlerAt = "oneshot" THEN "nobody" ELSE handlerAt
  /\ UNCHANGED <<queue, task, sent, delivered>>

Terminated ==
  /\ pc \notin {"active", "awaiting"} /\ task # "running"
  /\ UNCHANGED vars

Next ==
  \/ \E m \in Msg : Notify(m)
  \/ Handle
  \/ TaskEnds
  \/ TaskKilled
  \/ Deactivate
  \/ AwaitReady
  \/ AwaitPanics
  \/ Drop
  \/ Terminated

Spec == Init /\ [][Next]_vars

(* The executor polls a task that was woken, and the future that waits.     *)
Fairness == WF_vars(Handle) /\ WF_vars(TaskEnds) /\ WF_vars(AwaitReady \/ AwaitPanics)

FairSpec == Spec /\ Fairness

-----------------------------------------------------------------------------
(* Unless the task was killed, what was handled followed by what is queued  *)
(* is what the server sent: nothing lost, doubled or reordered, also after  *)
(* the client is gone.                                                      *)
InOrderNoLoss == task # "killed" => sent = delivered \o queue

(* What was handled is a beginning of what was sent, also when the task was *)
(* killed over messages it had not taken out yet.                           *)
PrefixDelivered ==
  /\ Len(delivered) <= Len(sent)
  /\ \A i \in DOMAIN delivered : delivered[i] = sent[i]

(* deactivate gives the handler back only when it has been given every      *)
(* notification of the activation.                                          *)
CompleteOnReturn == pc = "returned" => delivered = sent

(* The handler has one owner at every moment: the task while it runs, the   *)
(* oneshot only while somebody waits for it, then the caller or nobody.     *)
HandlerOwned ==
  /\ task = "running" <=> handlerAt = "task"
  /\ task = "killed" => handlerAt = "nobody"
  /\ handlerAt = "oneshot" => pc = "awaiting"
  /\ handlerAt = "caller" <=> pc = "returned"
  /\ pc = "awaiting" /\ task = "done" => handlerAt = "oneshot"

(* A task that ended by itself left nothing in the channel. *)
Drained ==
  /\ task = "done" => queue = <<>> /\ ~sender
  /\ sender <=> pc = "active"
  /\ task = "killed" => pc # "returned"

(* The inductive invariant behind the safety properties. *)
PipeInv == TypeOK /\ InOrderNoLoss /\ PrefixDelivered /\ HandlerOwned /\ Drained

(* Seen from outside, channel, task and oneshot are a mailbox that shows    *)
(* its messages in order and is given back when all were shown              *)
(* (client.rs:906-922, 1053-1061).                                          *)
MB == INSTANCE Mailbox WITH owner <- pc, broken <- task = "killed"

ImplementsMailbox == MB!Spec

(* deactivate comes to an end: with the handler, or with the panic its      *)
(* unwrap() raises if the task was killed.                                  *)
DeactivateEnds == pc = "awaiting" ~> pc # "awaiting"

(* Every notification is handled in the end, even when the client was       *)
(* dropped meanwhile, as long as the task is not killed.                    *)
EverySentIsHandled ==
  \A n \in 1..MaxSent :
    Len(sent) >= n ~> (Len(delivered) >= n \/ task = "killed")

=============================================================================
