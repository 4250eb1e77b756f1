------------------------------ MODULE ScopeExample ------------------------------
(***************************************************************************)
(* The oscilloscope of src/examples/scope.rs with one port.  The process   *)
(* callback copies a period of samples into a triple buffer of its own,    *)
(* pushes a message into a bounded ring and unparks a relay thread; the    *)
(* relay moves messages to the main loop's channel and parks; the main     *)
(* loop queues a render, which takes the front slot of the triple buffer.  *)
(* Here the process thread is the writer of the triple buffer and the main *)
(* thread its reader.  Dropping ClientState ends the relay and joins it.   *)
(***************************************************************************)
EXTENDS TripleBuffer, FiniteSets

CONSTANTS
  RingSize,     \* capacity of the ring, 1024 in the source
  Frames,       \* frames per period the server may choose
  MinLen,       \* least length of a sample vector, 8192 in the source
  MaxCycles     \* bound on the callbacks of a behaviour

ASSUME ScopeAssumption ==
  RingSize \in Nat \ {0} /\ MaxCycles \in Nat /\ MinLen \in Nat
    /\ Frames \subseteq Nat /\ Frames # {}

VARIABLES
  phase,      \* "starting", "active", "dropping", "joined"
  present,    \* the port is in the process thread's map and in the window
  frames,     \* frames per period
  len,        \* length of the sample vector in each slot
  nframes,    \* PortBuffer::nframes of each slot
  cb,         \* process callback: "idle", "push", "unpark"
  lastEmpty,  \* ClientState::last_empty
  cycles,     \* callbacks so far
  ring,       \* messages in the ring
  token,      \* park token of the relay thread
  relay,      \* relay thread: "check", "drain", "park", "done"
  quit,       \* ClientState::quit
  chan,       \* messages in the main loop's channel
  redraw      \* a render of the canvas is queued

bufVars == <<front, pending, back, dirty, len, nframes>>
cbVars == <<cb, lastEmpty, cycles>>
relayVars == <<ring, token, relay, quit>>
mainVars == <<phase, present, frames, chan, redraw>>
vars == <<bufVars, cbVars, relayVars, mainVars>>

Larger(a, b) == IF a >= b THEN a ELSE b
Smaller(a, b) == IF a <= b THEN a ELSE b

ScopeTypeOK ==
  /\ TBTypeOK
  /\ phase \in {"starting", "active", "dropping", "joined"}
  /\ present \in BOOLEAN /\ frames \in Frames
  /\ len \in [Slot -> Nat] /\ nframes \in [Slot -> Nat]
  /\ cb \in {"idle", "push", "unpark"}
  /\ lastEmpty \in BOOLEAN /\ cycles \in 0..MaxCycles
  /\ ring \in 0..RingSize /\ token \in BOOLEAN
  /\ relay \in {"check", "drain", "park", "done"}
  /\ quit \in BOOLEAN /\ chan \in 0..MaxCycles /\ redraw \in BOOLEAN

(* ClientState::new has spawned the relay; the client is not open yet. *)
Init ==
  /\ TBInit
  /\ phase = "starting" /\ present = FALSE
  /\ frames \in Frames
  /\ len = [s \in Slot |-> 0]
  /\ nframes = [s \in Slot |-> 0]
  /\ cb = "idle" /\ lastEmpty = FALSE /\ cycles = 0
  /\ ring = 0 /\ token = FALSE /\ relay = "check" /\ quit = FALSE
  /\ chan = 0 /\ redraw = FALSE

-----------------------------------------------------------------------------
(* Process thread. *)

CopyAll(n) == frames            \* fault: the vector may be shorter

(* Frames copied into a vector of length n. *)
Copied(n) == Smaller(frames, n)

CallbackOnChange ==             \* fault: a message only when ports come or go
  /\ phase = "active" /\ cb = "idle" /\ cycles < MaxCycles
  /\ cycles' = cycles + 1
  /\ lastEmpty' = ~present
  /\ IF present
       THEN nframes' = [nframes EXCEPT ![back] = Copied(len[back])] /\ Swap
       ELSE UNCHANGED <<nframes, tbVars>>
  /\ cb' = IF lastEmpty = present THEN "push" ELSE "idle"
  /\ UNCHANGED <<len, relayVars, mainVars>>

(* process(), as far as the loop over the ports; the messages follow. *)
Callback ==
  /\ phase = "active" /\ cb = "idle" /\ cycles < MaxCycles
  /\ cycles' = cycles + 1
  /\ lastEmpty' = ~present
  /\ IF present
       THEN nframes' = [nframes EXCEPT ![back] = Copied(len[back])] /\ Swap
       ELSE UNCHANGED <<nframes, tbVars>>
  /\ cb' = IF present \/ ~lastEmpty THEN "push" ELSE "idle"
  /\ UNCHANGED <<len, relayVars, mainVars>>

(* A full ring refuses the message, which is ignored. *)
Push ==
  /\ cb = "push"
  /\ ring' = Smaller(ring + 1, RingSize)
  /\ cb' = "unpark"
  /\ UNCHANGED <<bufVars, lastEmpty, cycles, token, relay, quit, mainVars>>

Unpark ==
  /\ cb = "unpark"
  /\ token' = TRUE
  /\ cb' = "idle"
  /\ UNCHANGED <<bufVars, lastEmpty, cycles, ring, relay, quit, mainVars>>

-----------------------------------------------------------------------------
(* Relay thread. *)

RelayChecks ==
  /\ relay = "check"
  /\ relay' = IF quit THEN "done" ELSE "drain"
  /\ UNCHANGED <<bufVars, cbVars, ring, token, quit, mainVars>>

RelayPopsOne ==                 \* fault: one message for each unpark
  /\ relay = "drain" /\ ring > 0
  /\ ring' = ring - 1
  /\ chan' = chan + 1
  /\ relay' = "park"
  /\ UNCHANGED <<bufVars, cbVars, token, quit, phase, present, frames, redraw>>

RelayPops ==
  /\ relay = "drain" /\ ring > 0
  /\ ring' = ring - 1
  /\ chan' = chan + 1
  /\ UNCHANGED <<bufVars, cbVars, token, relay, quit, phase, present, frames, redraw>>

RelayParks ==
  /\ relay = "drain" /\ ring = 0
  /\ relay' = "park"
  /\ UNCHANGED <<bufVars, cbVars, ring, token, quit, mainVars>>

RelayWakesToDrain ==            \* fault: the flag is read once only
  /\ relay = "park" /\ token
  /\ token' = FALSE
  /\ relay' = "drain"
  /\ UNCHANGED <<bufVars, cbVars, ring, quit, mainVars>>

(* park() returns at once, or later, with the token; *)
RelayWakes ==
  /\ relay = "park" /\ token
  /\ token' = FALSE
  /\ relay' = "check"
  /\ UNCHANGED <<bufVars, cbVars, ring, quit, mainVars>>

(* it may also return for no reason. *)
RelayWakesSpuriously ==
  /\ relay = "park"
  /\ relay' = "check"
  /\ UNCHANGED <<bufVars, cbVars, ring, token, quit, mainVars>>

-----------------------------------------------------------------------------
(* Main thread. *)

Activate ==
  /\ phase = "starting"
  /\ phase' = "active"
  /\ UNCHANGED <<bufVars, cbVars, relayVars, present, frames, chan, redraw>>

(* add_port(): a new triple buffer, whose vectors fit the current period. *)
AddPort ==
  /\ phase = "active" /\ ~present
  /\ present' = TRUE
  /\ back' = 0 /\ pending' = 1 /\ front' = 2 /\ dirty' = FALSE
  /\ len' = [s \in Slot |-> Larger(frames, MinLen)]
  /\ nframes' = [s \in Slot |-> 0]
  /\ redraw' = TRUE
  /\ UNCHANGED <<cbVars, relayVars, phase, frames, chan>>

RemovePort ==
  /\ phase = "active" /\ present
  /\ present' = FALSE
  /\ redraw' = TRUE
  /\ UNCHANGED <<bufVars, cbVars, relayVars, phase, frames, chan>>

Receive ==
  /\ phase = "active" /\ chan > 0
  /\ chan' = chan - 1
  /\ redraw' = TRUE
  /\ UNCHANGED <<bufVars, cbVars, relayVars, phase, present, frames>>

(* render(): the front slot is shown and grown to the current period. *)
Render ==
  /\ phase = "active" /\ redraw
  /\ redraw' = FALSE
  /\ IF present
       THEN /\ FrontBuffer
            /\ len' = [len EXCEPT ![front'] = Larger(@, frames)]
       ELSE UNCHANGED <<tbVars, len>>
  /\ UNCHANGED <<nframes, cbVars, relayVars, phase, present, frames, chan>>

(* The server changes the buffer size between two callbacks. *)
BufferSize(n) ==
  /\ phase = "active" /\ cb = "idle" /\ n # frames
  /\ frames' = n
  /\ UNCHANGED <<bufVars, cbVars, relayVars, phase, present, chan, redraw>>

(* ClientState is dropped: the client could not be opened or activated, or *)
(* it has been closed.  The flag is set, then the main thread joins.       *)
Drop ==
  /\ phase \in {"starting", "active"} /\ cb = "idle"
  /\ phase' = "dropping"
  /\ quit' = TRUE
  /\ UNCHANGED <<bufVars, cbVars, ring, token, relay, present, frames, chan, redraw>>

Join ==
  /\ phase = "dropping" /\ relay = "done"
  /\ phase' = "joined"
  /\ UNCHANGED <<bufVars, cbVars, relayVars, present, frames, chan, redraw>>

-----------------------------------------------------------------------------
Relay == RelayChecks \/ RelayPops \/ RelayParks \/ RelayWakes

Next ==
  \/ Callback \/ Push \/ Unpark
  \/ Relay \/ RelayWakesSpuriously
  \/ Activate \/ AddPort \/ RemovePort \/ Receive \/ Render
  \/ \E n \in Frames : BufferSize(n)
  \/ Drop \/ Join

Spec == Init /\ [][Next]_vars

(* Callbacks that began return, threads that can run do, the main loop      *)
(* serves its sources; nothing forces another callback or an unpark.        *)
Fairness ==
  /\ WF_vars(Push) /\ WF_vars(Unpark)
  /\ WF_vars(Relay)
  /\ WF_vars(Receive) /\ WF_vars(Render) /\ WF_vars(Join)

FairSpec == Spec /\ Fairness

-----------------------------------------------------------------------------
(* The samples of a slot lie within its vector, although server, render and *)
(* callback change the sizes at different times (scope.rs:77-81, 208-222,   *)
(* 236-238).                                                                *)
SlicesInBounds == \A s \in Slot : nframes[s] <= len[s]

(* A message in the ring is on its way: the relay is awake, or holds the    *)
(* token, or the callback is about to unpark it (scope.rs:44-52, 86-87).    *)
NoSleepOverMessages == ring > 0 /\ relay = "park" => token \/ cb = "unpark"

(* Samples in the triple buffer that were not shown yet are announced: by   *)
(* the message the callback is about to push, by one that is still on its   *)
(* way, although a full ring may have refused their own, or by a queued     *)
(* render (scope.rs:73-89, 538-545).                                        *)
FreshDataAnnounced ==
  phase = "active" /\ present /\ dirty => cb = "push" \/ ring > 0 \/ chan > 0 \/ redraw

(* Every message there is, or is about to be, comes from its own callback,  *)
(* which bounds what the relay can leave in the unbounded channel.          *)
MessagesBounded == ring + chan + (IF cb = "push" THEN 1 ELSE 0) <= cycles

(* A period that was copied is shown unless a newer one replaces it or the  *)
(* port or the client goes away, even when the ring was full and the        *)
(* message about it was refused (scope.rs:73-89, 538-545).                  *)
FreshDataIsRendered ==
  (phase = "active" /\ present /\ dirty) ~> ~(phase = "active" /\ present /\ dirty)

(* The flag is noticed by a relay that is not parked yet, or was unparked.  *)
AwakeRelayIsJoined ==
  (phase = "dropping" /\ (relay = "check" \/ token)) ~> phase = "joined"

=============================================================================
