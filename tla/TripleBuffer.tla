---------------------------- MODULE TripleBuffer ----------------------------
(***************************************************************************)
(* The control word of atb::AtomicTripleBuffer, the lock-free triple buffer *)
(* through which the main thread hands port maps to the process thread.    *)
(* The crate is a dependency: it is modelled from the five calls src/      *)
(* makes on it (front_buffer, back_buffers, back_mut, pending_mut, swap).  *)
(*                                                                         *)
(* Three slots are named by three roles.  The reader owns `front', the     *)
(* writer owns `back', and `pending' is the slot in between.  `dirty' says *)
(* that `pending' holds something the reader has not picked up yet.  Every *)
(* role change is one atomic update of the control word.                   *)
(***************************************************************************)
EXTENDS Naturals

VARIABLES front, pending, back, dirty

tbVars == <<front, pending, back, dirty>>

Slot == 0..2

TBTypeOK ==
  /\ front \in Slot
  /\ pending \in Slot
  /\ back \in Slot
  /\ dirty \in BOOLEAN

TBInit ==
  /\ back = 0
  /\ pending = 1
  /\ front = 2
  /\ dirty = FALSE

(* The slot the reader's next front_buffer() will return. *)
Latest == IF dirty THEN pending ELSE front

(* front_buffer(): take the pending slot if it is newer, keep `front' if not. *)
FrontBuffer ==
  /\ front' = Latest
  /\ pending' = IF dirty THEN front ELSE pending
  /\ dirty' = FALSE
  /\ back' = back

(* BackBufferGuard::swap(): publish the back slot. *)
Swap ==
  /\ back' = pending
  /\ pending' = back
  /\ dirty' = TRUE
  /\ front' = front

PendingMutAlways == TRUE        \* fault: hand out an unread publication

(* pending_mut() is Some: the reader has picked up the latest publication, *)
(* so the pending slot is the reader's previous one and belongs to nobody. *)
PendingMut == ~dirty

=============================================================================
