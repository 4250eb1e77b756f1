------------------------------ MODULE PortBuffers ------------------------------
(***************************************************************************)
(* The buffers of the owned ports inside a process callback: ProcessPort   *)
(* in src/src/process.rs.  An output buffer is handed out as a RefMut on   *)
(* the port's `buffer_lock'; the lock belongs to the port object, which    *)
(* all three port maps share, so a guard that is forgotten (mem::forget)   *)
(* leaves it locked for every later callback.  A failed assertion or a     *)
(* second borrow panics; the panic meets the extern "C" frame of the       *)
(* callback, which ends the process.  Within a callback an iterator        *)
(* (MidiIter) may walk over the events of a MIDI input.                    *)
(***************************************************************************)
EXTENDS MidiIter

CONSTANTS
  Ports,        \* ports in the map of the running callbacks
  Inputs,       \* ports with PortFlags::is_input
  Midi,         \* ports with PortType::Midi; the others are audio ports
  MaxSlices     \* shared slices of an input buffer the caller keeps

ASSUME PortsAssumption ==
  Inputs \subseteq Ports /\ Midi \subseteq Ports /\ MaxSlices \in Nat

VARIABLES
  running,      \* a process callback is running
  aborted,      \* a panic has ended the process
  guards,       \* RefMut values alive, per output port
  forgotten,    \* output ports with a guard that was leaked
  locked,       \* buffer_lock is borrowed
  shared        \* shared slices and MidiInput values alive, per input port

bufVars == <<running, aborted, guards, forgotten, locked, shared>>
vars == <<bufVars, iterVars>>

Outputs == Ports \ Inputs

BufTypeOK ==
  /\ running \in BOOLEAN /\ aborted \in BOOLEAN
  /\ guards \in [Outputs -> 0..1]
  /\ forgotten \subseteq Outputs
  /\ locked \subseteq Outputs
  /\ shared \in [Inputs -> 0..MaxSlices]

Init ==
  /\ IterInit
  /\ running = FALSE /\ aborted = FALSE
  /\ guards = [p \in Outputs |-> 0]
  /\ forgotten = {}
  /\ locked = {}
  /\ shared = [p \in Inputs |-> 0]

Live == running /\ ~aborted

-----------------------------------------------------------------------------
BeginCallback ==
  /\ ~running /\ ~aborted
  /\ running' = TRUE
  /\ Fill
  /\ UNCHANGED <<aborted, guards, forgotten, locked, shared>>

Panic ==
  /\ aborted' = TRUE
  /\ UNCHANGED <<running, guards, forgotten, locked, shared>>

(* audio_in_buffer(), midi_in_buffer(): any number of shared views. *)
InBuffer(p, midi) ==
  /\ Live
  /\ IF p \in Inputs /\ (p \in Midi) = midi
       THEN /\ shared[p] < MaxSlices
            /\ shared' = [shared EXCEPT ![p] = @ + 1]
            /\ UNCHANGED <<running, aborted, guards, forgotten, locked>>
       ELSE Panic

(* A view stays as long as an iterator borrows from it. *)
DropView(p) ==
  /\ Live /\ shared[p] > 0
  /\ shared' = [shared EXCEPT ![p] = @ - 1]
  /\ Iterating => \E q \in Inputs \cap Midi : shared'[q] > 0
  /\ UNCHANGED <<running, aborted, guards, forgotten, locked>>

(* The iterator of MidiIter over the events of a MidiInput. *)
Iterate ==
  /\ Live
  /\ \E p \in Inputs \cap Midi : shared[p] > 0
  /\ OpenIter \/ NextEvent \/ NextBack \/ DropIter
  /\ UNCHANGED bufVars

Locked(p) ==
  /\ locked' = locked \cup {p}
  /\ guards' = [guards EXCEPT ![p] = @ + 1]
  /\ UNCHANGED <<running, aborted, forgotten, shared>>

(* audio_out_buffer() *)
AudioOut(p) ==
  /\ Live
  /\ IF p \in Outputs \ Midi /\ p \notin locked
       THEN Locked(p)
       ELSE Panic

(* midi_out_buffer(); where the writer it returns points is left out.       *)
MidiOut(p) ==
  /\ Live
  /\ IF p \in Outputs \cap Midi /\ p \notin locked
       THEN Locked(p)
       ELSE Panic

DropGuardLocked(p) ==           \* fault: the borrow is not given back
  /\ Live /\ guards[p] > 0
  /\ guards' = [guards EXCEPT ![p] = @ - 1]
  /\ UNCHANGED <<running, aborted, forgotten, locked, shared>>

DropGuard(p) ==
  /\ Live /\ guards[p] > 0
  /\ guards' = [guards EXCEPT ![p] = @ - 1]
  /\ locked' = locked \ {p}
  /\ UNCHANGED <<running, aborted, forgotten, shared>>

ForgetGuard(p) ==
  /\ Live /\ guards[p] > 0
  /\ guards' = [guards EXCEPT ![p] = @ - 1]
  /\ forgotten' = forgotten \cup {p}
  /\ UNCHANGED <<running, aborted, locked, shared>>

(* Every view, iterator and guard borrows from the scope, which ends here. *)
EndCallback ==
  /\ Live
  /\ \A p \in Outputs : guards[p] = 0
  /\ \A p \in Inputs : shared[p] = 0
  /\ running' = FALSE
  /\ UNCHANGED <<aborted, guards, forgotten, locked, shared>>

Aborted == aborted /\ UNCHANGED bufVars

BufStep ==
  \/ \E p \in Ports, midi \in BOOLEAN : InBuffer(p, midi)
  \/ \E p \in Ports : AudioOut(p) \/ MidiOut(p)
  \/ \E p \in Inputs : DropView(p)
  \/ \E p \in Outputs : DropGuard(p) \/ ForgetGuard(p)
  \/ EndCallback
  \/ Aborted

Next ==
  \/ BeginCallback
  \/ BufStep /\ UNCHANGED iterVars
  \/ Iterate

Spec == Init /\ [][Next]_vars

-----------------------------------------------------------------------------
(* The lock is taken exactly while a guard is alive or was forgotten: two   *)
(* guards never share an output buffer and a lock never outlives its guard  *)
(* unless that was leaked (process.rs:181-193, 222-237).                    *)
LockInv ==
  /\ BufTypeOK
  /\ locked = forgotten \cup {p \in Outputs : guards[p] = 1}
  /\ \A p \in forgotten : guards[p] = 0
  /\ ~running => \A p \in Outputs : guards[p] = 0
  /\ Iterating => running /\ \E p \in Inputs \cap Midi : shared[p] > 0

(* From one callback to the next only forgotten guards keep a buffer        *)
(* locked; each later request of that port then panics (process.rs:183).    *)
OnlyLeaksSurvive == ~running => locked = forgotten

=============================================================================
