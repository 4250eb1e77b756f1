------------------------- MODULE Notifications_proofs -------------------------
(***************************************************************************)
(* TLAPS proofs about Notifications, for every set of messages and every   *)
(* bound on their number.                                                  *)
(***************************************************************************)
EXTENDS Notifications, SequenceTheorems, TLAPS

(* Taking the head of the channel and appending it to what was delivered   *)
(* moves the border between the two and changes nothing else.              *)
LEMMA MoveHead ==
  ASSUME NEW S, NEW d \in Seq(S), NEW q \in Seq(S), q # <<>>
  PROVE  Append(d, Head(q)) \o Tail(q) = d \o q
<1>1. Head(q) \in S /\ Tail(q) \in Seq(S)
  BY HeadTailProperties
<1>2. <<Head(q)>> \in Seq(S) /\ Append(d, Head(q)) = d \o <<Head(q)>>
  BY <1>1
<1>3. q = <<Head(q)>> \o Tail(q)
  BY <1>1
<1>4. (d \o <<Head(q)>>) \o Tail(q) = d \o (<<Head(q)>> \o Tail(q))
  BY <1>1, <1>2, ConcatAssociative
<1> QED
  BY <1>2, <1>3, <1>4

LEMMA AppendBoth ==
  \A d \in Seq(Msg), q \in Seq(Msg), m \in Msg :
    d \o Append(q, m) = Append(d \o q, m)
<1> TAKE d \in Seq(Msg), q \in Seq(Msg), m \in Msg
<1>1. <<m>> \in Seq(Msg) /\ d \o q \in Seq(Msg)
  BY ConcatProperties
<1>2. Append(d \o q, m) = (d \o q) \o <<m>> /\ Append(q, m) = q \o <<m>>
  BY <1>1
<1> QED
  BY <1>1, <1>2, ConcatAssociative

(* The message at the head of the channel is the first one that was sent    *)
(* and not delivered.                                                       *)
LEMMA HeadIsNext ==
  ASSUME NEW d \in Seq(Msg), NEW q \in Seq(Msg), q # <<>>
  PROVE  Len(d) < Len(d \o q) /\ (d \o q)[Len(d) + 1] = Head(q)
BY ConcatProperties

(* A prefix stays one when the sequence grows.                              *)
LEMMA PrefixGrows ==
  ASSUME NEW d \in Seq(Msg), NEW s \in Seq(Msg), NEW m \in Msg,
         Len(d) <= Len(s), \A i \in DOMAIN d : d[i] = s[i]
  PROVE  Len(d) <= Len(Append(s, m)) /\ \A i \in DOMAIN d : d[i] = Append(s, m)[i]
OBVIOUS

LEMMA PrefixOfConcat ==
  ASSUME NEW d \in Seq(Msg), NEW q \in Seq(Msg)
  PROVE  Len(d) <= Len(d \o q) /\ \A i \in DOMAIN d : d[i] = (d \o q)[i]
BY ConcatProperties

LEMMA InitIInv == Init => PipeInv
<1> SUFFICES ASSUME Init PROVE PipeInv
  OBVIOUS
<1>1. TypeOK
  BY DEF Init, TypeOK
<1>2. InOrderNoLoss
  BY ConcatEmptySeq, EmptySeq DEF Init, InOrderNoLoss
<1>3. PrefixDelivered
  BY EmptySeq DEF Init, PrefixDelivered
<1> QED
  BY <1>1, <1>2, <1>3 DEF PipeInv, Init, HandlerOwned, Drained

(* Steps that touch neither channel nor histories. *)
LEMMA QuietStep ==
  ASSUME PipeInv, UNCHANGED <<queue, sent, delivered>>, task = "killed" => task' = "killed"
  PROVE  InOrderNoLoss' /\ PrefixDelivered'
BY DEF PipeInv, TypeOK, InOrderNoLoss, PrefixDelivered

LEMMA StepIInv == PipeInv /\ [Next]_vars => PipeInv'
<1> SUFFICES ASSUME PipeInv, [Next]_vars PROVE PipeInv'
  OBVIOUS
<1>1. ASSUME NEW m \in Msg, Notify(m) PROVE PipeInv'
  <2>1. TypeOK'
    BY <1>1 DEF PipeInv, TypeOK, Notify
  <2>2. InOrderNoLoss'
    <3>1. CASE task = "running"
      <4>1. sent' = Append(sent, m) /\ queue' = Append(queue, m) /\ delivered' = delivered
        BY <1>1, <3>1 DEF Notify
      <4>2. sent = delivered \o queue
        BY <3>1 DEF PipeInv, InOrderNoLoss
      <4>3. Append(delivered \o queue, m) = delivered \o Append(queue, m)
        <5>1. delivered \in Seq(Msg) /\ queue \in Seq(Msg)
          BY DEF PipeInv, TypeOK
        <5> QED
          BY <5>1, AppendBoth
      <4> QED
        BY <4>1, <4>2, <4>3 DEF InOrderNoLoss
    <3>2. CASE task = "killed"
      BY <1>1, <3>2 DEF InOrderNoLoss, Notify
    <3>3. task # "done"
      BY <1>1 DEF PipeInv, Drained, Notify
    <3> QED
      BY <3>1, <3>2, <3>3 DEF PipeInv, TypeOK
  <2>3. PrefixDelivered'
    BY <1>1, PrefixGrows DEF PipeInv, TypeOK, PrefixDelivered, Notify
  <2>4. HandlerOwned' /\ Drained'
    BY <1>1 DEF PipeInv, HandlerOwned, Drained, Notify
  <2> QED
    BY <2>1, <2>2, <2>3, <2>4 DEF PipeInv
<1>2. CASE Handle
  <2>1. TypeOK'
    BY <1>2, HeadTailProperties DEF PipeInv, TypeOK, Handle
  <2>2. InOrderNoLoss'
    BY <1>2, MoveHead DEF PipeInv, TypeOK, InOrderNoLoss, Handle
  <2>3. PrefixDelivered'
    <3>1. (sent = delivered \o queue)'
      BY <1>2, <2>2 DEF InOrderNoLoss, Handle
    <3>2. delivered' \in Seq(Msg) /\ queue' \in Seq(Msg)
      BY <2>1 DEF TypeOK
    <3> QED
      BY <3>1, <3>2, PrefixOfConcat DEF PrefixDelivered
  <2>4. HandlerOwned' /\ Drained'
    BY <1>2 DEF PipeInv, HandlerOwned, Drained, Handle
  <2> QED
    BY <2>1, <2>2, <2>3, <2>4 DEF PipeInv
<1>3. CASE TaskEnds
  BY <1>3, QuietStep DEF PipeInv, TypeOK, HandlerOwned, Drained, TaskEnds
<1>4. CASE TaskKilled
  <2>1. TypeOK'
    BY <1>4, EmptySeq DEF PipeInv, TypeOK, TaskKilled
  <2> QED
    BY <1>4, <2>1 DEF PipeInv, InOrderNoLoss, PrefixDelivered, HandlerOwned, Drained,
                      TaskKilled
<1>5. CASE Deactivate
  <2>1. TypeOK'
    BY <1>5 DEF PipeInv, TypeOK, Deactivate
  <2> QED
    BY <1>5, <2>1, QuietStep DEF PipeInv, HandlerOwned, Drained, Deactivate
<1>6. CASE AwaitReady
  BY <1>6, QuietStep DEF PipeInv, TypeOK, HandlerOwned, Drained, AwaitReady
<1>7. CASE AwaitPanics
  BY <1>7, QuietStep DEF PipeInv, TypeOK, HandlerOwned, Drained, AwaitPanics
<1>8. CASE Drop
  <2>1. TypeOK'
    BY <1>8 DEF PipeInv, TypeOK, Drop
  <2> QED
    BY <1>8, <2>1, QuietStep DEF PipeInv, HandlerOwned, Drained, Drop
<1>9. CASE Terminated \/ UNCHANGED vars
  <2>1. UNCHANGED vars
    BY <1>9 DEF Terminated
  <2>2. TypeOK' /\ InOrderNoLoss' /\ PrefixDelivered'
    BY <2>1 DEF vars, PipeInv, TypeOK, InOrderNoLoss, PrefixDelivered
  <2>3. HandlerOwned' /\ Drained'
    BY <2>1 DEF vars, PipeInv, HandlerOwned, Drained
  <2> QED
    BY <2>2, <2>3 DEF PipeInv
<1> QED
  BY <1>1, <1>2, <1>3, <1>4, <1>5, <1>6, <1>7, <1>8, <1>9 DEF Next

(* The strengthening holds in every reachable state. *)
THEOREM Invariance == Spec => []PipeInv
BY InitIInv, StepIInv, PTL DEF Spec

(* Nothing is lost, doubled or reordered between the server's callback and  *)
(* the handler (callbacks.rs:426-560 against client.rs:917-919).            *)
THEOREM Fifo == Spec => []InOrderNoLoss
BY Invariance, PTL DEF PipeInv

(* At every moment the handler has exactly one owner (client.rs:911-922,    *)
(* 1054-1056).                                                              *)
THEOREM OneOwner == Spec => []HandlerOwned
BY Invariance, PTL DEF PipeInv

(* deactivate returns a handler that has seen every notification.           *)
THEOREM ReturnIsComplete == Spec => []CompleteOnReturn
<1>1. PipeInv => CompleteOnReturn
  <2> SUFFICES ASSUME PipeInv, pc = "returned" PROVE delivered = sent
    BY DEF CompleteOnReturn
  <2>1. task = "done" /\ queue = <<>>
    BY DEF PipeInv, TypeOK, HandlerOwned, Drained
  <2> QED
    BY <2>1, ConcatEmptySeq DEF PipeInv, TypeOK, InOrderNoLoss
<1> QED
  BY <1>1, Invariance, PTL

(* Also when the task is killed over messages it had not taken out yet, the *)
(* handler has seen a beginning of what was sent, in order.                 *)
THEOREM BeginningDelivered == Spec => []PrefixDelivered
BY Invariance, PTL DEF PipeInv

-----------------------------------------------------------------------------
(* Refinement: a notification is shown by the step that takes it out of the *)
(* channel; how the task ends and where the handler waits does not show.    *)
LEMMA InitMaps == Init => MB!Init
BY DEF Init, MB!Init

LEMMA HandleMaps == PipeInv /\ Handle => MB!Deliver
<1> SUFFICES ASSUME PipeInv, Handle PROVE MB!Deliver
  OBVIOUS
<1>1. /\ task = "running" /\ delivered \in Seq(Msg) /\ queue \in Seq(Msg) /\ queue # <<>>
      /\ sent = delivered \o queue /\ delivered' = Append(delivered, Head(queue))
  BY DEF Handle, PipeInv, TypeOK, InOrderNoLoss
<1>2. Len(delivered) < Len(sent) /\ Head(queue) = sent[Len(delivered) + 1]
  BY <1>1, HeadIsNext
<1> QED
  BY <1>1, <1>2 DEF Handle, MB!Deliver

LEMMA ReadyMaps == PipeInv /\ AwaitReady => MB!Return
<1> SUFFICES ASSUME PipeInv, AwaitReady PROVE MB!Return
  OBVIOUS
<1>1. task = "done" /\ queue = <<>>
  BY DEF PipeInv, TypeOK, HandlerOwned, Drained, AwaitReady
<1>2. delivered = sent
  BY <1>1, ConcatEmptySeq DEF PipeInv, TypeOK, InOrderNoLoss
<1> QED
  BY <1>1, <1>2 DEF AwaitReady, MB!Return

LEMMA StepMaps == PipeInv /\ [Next]_vars => [MB!Next]_(MB!vars)
<1> SUFFICES ASSUME PipeInv, [Next]_vars PROVE [MB!Next]_(MB!vars)
  OBVIOUS
<1>1. ASSUME NEW m \in Msg, Notify(m) PROVE MB!Send(m)
  BY <1>1 DEF Notify, MB!Send
<1>2. TaskEnds => UNCHANGED MB!vars
  BY DEF TaskEnds, MB!vars
<1>3. TaskKilled => MB!Break
  BY DEF TaskKilled, MB!Break, PipeInv, HandlerOwned
<1>4. Deactivate => MB!Close
  BY DEF Deactivate, MB!Close
<1>5. AwaitPanics => MB!Panic
  BY DEF AwaitPanics, MB!Panic
<1>6. Drop => MB!GiveUp
  BY DEF Drop, MB!GiveUp
<1>7. Terminated \/ UNCHANGED vars => UNCHANGED MB!vars
  BY DEF Terminated, vars, MB!vars
<1> QED
  BY <1>1, <1>2, <1>3, <1>4, <1>5, <1>6, <1>7, HandleMaps, ReadyMaps DEF Next, MB!Next

(* Channel, task and oneshot implement a mailbox: shown in order, given     *)
(* back after the last message (client.rs:906-922, 1053-1061).              *)
THEOREM MailboxRefinement == Spec => ImplementsMailbox
BY InitMaps, Invariance, StepMaps, PTL DEF Spec, ImplementsMailbox, MB!Spec

=============================================================================
