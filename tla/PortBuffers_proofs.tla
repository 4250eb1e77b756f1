-------------------------- MODULE PortBuffers_proofs --------------------------
(***************************************************************************)
(* TLAPS proofs about the buffers of a port and the iterator over MIDI     *)
(* input: first MidiIter by itself, for buffers of every size, every set   *)
(* of refused events and every order of calls of next and next_back; then  *)
(* PortBuffers, for every set of ports of every kind and any number of     *)
(* callbacks, with the iterator's theorems carried over by a refinement.   *)
(***************************************************************************)
EXTENDS PortBuffers, FiniteSetTheorems, TLAPS

LEMMA InitIterInv == IterInit => IterInv
BY BoundsAssumption DEF IterInit, IterInv, MidiTypeOK, Iterating, AnyEvent

(* A fresh iterator, a refilled buffer, a dropped iterator. *)
LEMMA FrameStep == IterInv /\ (OpenIter \/ Fill \/ DropIter) => IterInv'
<1> SUFFICES ASSUME IterInv, OpenIter \/ Fill \/ DropIter PROVE IterInv'
  OBVIOUS
<1> USE BoundsAssumption
<1>0. MidiTypeOK
  BY DEF IterInv
<1>1. CASE OpenIter
  <2>1. MidiTypeOK'
    BY <1>0, <1>1 DEF OpenIter, MidiTypeOK, AnyEvent
  <2>2. ASSUME NEW e \in AnyEvent
        PROVE  times'[e] = IF e < count' THEN PassedBy(e)' ELSE 0
    BY <1>0, <1>1 DEF OpenIter, MidiTypeOK, AnyEvent, PassedBy
  <2> QED
    BY <1>0, <1>1, <2>1, <2>2 DEF OpenIter, IterInv, MidiTypeOK
<1>2. CASE Fill
  <2>1. count' \in 0..MaxCount /\ bad' \subseteq AnyEvent
    <3>1. count' \in 0..MaxCount /\ bad' \subseteq 0 .. (count' - 1)
      BY <1>2 DEF Fill
    <3>2. \A n \in 0..MaxCount : 0 .. (n - 1) \subseteq 0 .. (MaxCount - 1)
      OBVIOUS
    <3> QED
      BY <3>1, <3>2 DEF AnyEvent
  <2> QED
    BY <1>0, <1>2, <2>1 DEF Fill, IterInv, MidiTypeOK, Iterating
<1>3. CASE DropIter
  BY <1>0, <1>3 DEF DropIter, IterInv, MidiTypeOK, Iterating
<1> QED
  BY <1>1, <1>2, <1>3

(* The front end takes an event it has not passed; what the back end has   *)
(* taken does not matter, so the count is right after a crossing too.       *)
LEMMA FrontStep == IterInv /\ NextEvent => IterInv'
<1> SUFFICES ASSUME IterInv, NextEvent PROVE IterInv'
  OBVIOUS
<1> USE BoundsAssumption
<1>0. /\ MidiTypeOK /\ Iterating
      /\ index <= count /\ len <= count /\ (asked # -1 => asked < count)
  BY DEF IterInv, NextEvent, Iterating
<1>1. CASE index >= len
  BY <1>0, <1>1 DEF NextEvent, Exhausted, IterInv, MidiTypeOK, PassedBy
<1>2. CASE index < len /\ index \in bad
  BY <1>0, <1>2 DEF NextEvent, Get, IterInv, MidiTypeOK, PassedBy, AnyEvent
<1>3. CASE index < len /\ index \notin bad
  <2>1. index \in AnyEvent /\ index < count
    BY <1>0, <1>3 DEF MidiTypeOK, AnyEvent
  <2>2. /\ asked' = index /\ answer' = "some" /\ index' = index + 1
        /\ times' = [times EXCEPT ![index] = @ + 1]
        /\ UNCHANGED <<count, bad, ends, len>>
    BY <2>1, <1>0, <1>3 DEF NextEvent, Get, MidiTypeOK
  <2>3. times[index] = 0
    BY <2>1, <1>0, <1>3 DEF IterInv, PassedBy, MidiTypeOK
  <2>4. MidiTypeOK'
    BY <2>1, <2>2, <2>3, <1>0, <1>3 DEF MidiTypeOK
  <2>5. ASSUME NEW e \in AnyEvent
        PROVE  times'[e] = IF e < count' THEN PassedBy(e)' ELSE 0
    BY <2>1, <2>2, <2>3, <1>0, <1>3 DEF IterInv, PassedBy, MidiTypeOK, AnyEvent
  <2> QED
    BY <2>1, <2>2, <2>4, <2>5, <1>0, <1>3 DEF IterInv, MidiTypeOK, AnyEvent
<1> QED
  BY <1>0, <1>1, <1>2, <1>3 DEF MidiTypeOK

LEMMA BackStep == IterInv /\ NextBack => IterInv'
<1> SUFFICES ASSUME IterInv, NextBack PROVE IterInv'
  OBVIOUS
<1> USE BoundsAssumption
<1>0. /\ MidiTypeOK /\ Iterating
      /\ index <= count /\ len <= count /\ (asked # -1 => asked < count)
  BY DEF IterInv, NextBack, Iterating
<1>1. CASE len = 0
  BY <1>0, <1>1 DEF NextBack, Exhausted, IterInv, MidiTypeOK, PassedBy
<1>2. CASE len > 0 /\ (len - 1) \in bad
  <2>1. /\ asked' = len - 1 /\ answer' = "none" /\ len' = len
        /\ UNCHANGED <<count, bad, ends, index, times>>
    BY <1>0, <1>2 DEF NextBack, Get, MidiTypeOK
  <2>2. len - 1 \in AnyEvent /\ len - 1 < count
    BY <1>0, <1>2 DEF MidiTypeOK, AnyEvent
  <2> QED
    BY <2>1, <2>2, <1>0 DEF IterInv, MidiTypeOK, PassedBy
<1>3. CASE len > 0 /\ (len - 1) \notin bad
  <2> DEFINE last == len - 1
  <2>1. last \in AnyEvent /\ last < count
    BY <1>0, <1>3 DEF MidiTypeOK, AnyEvent
  <2>2. /\ asked' = last /\ answer' = "some" /\ len' = last
        /\ times' = [times EXCEPT ![last] = @ + 1]
        /\ UNCHANGED <<count, bad, ends, index>>
    BY <2>1, <1>0, <1>3 DEF NextBack, Get, MidiTypeOK
  <2>3. times[last] = (IF last < index THEN 1 ELSE 0) /\ times[last] \in 0..1
    BY <2>1, <1>0, <1>3 DEF IterInv, PassedBy, MidiTypeOK
  <2>4. MidiTypeOK'
    BY <2>1, <2>2, <2>3, <1>0, <1>3 DEF MidiTypeOK
  <2>5. ASSUME NEW e \in AnyEvent
        PROVE  times'[e] = IF e < count' THEN PassedBy(e)' ELSE 0
    BY <2>1, <2>2, <2>3, <1>0, <1>3 DEF IterInv, PassedBy, MidiTypeOK, AnyEvent
  <2> QED
    BY <2>1, <2>2, <2>4, <2>5, <1>0, <1>3 DEF IterInv, MidiTypeOK, AnyEvent
<1> QED
  BY <1>0, <1>1, <1>2, <1>3 DEF MidiTypeOK

LEMMA StepIterInv == IterInv /\ [IterNext]_iterVars => IterInv'
<1> SUFFICES ASSUME IterInv, [IterNext]_iterVars PROVE IterInv'
  OBVIOUS
<1>1. CASE UNCHANGED iterVars
  BY <1>1 DEF iterVars, IterInv, MidiTypeOK, PassedBy, AnyEvent, Iterating
<1> QED
  BY <1>1, FrameStep, FrontStep, BackStep DEF IterNext

(* How often an event was handed out is the number of ends that passed it  *)
(* (MidiInputIter, process.rs:321-354).                                    *)
THEOREM IterInvariance == IterSpec => []IterInv
BY InitIterInv, StepIterInv, PTL DEF IterSpec

(* Every event asked of the server is one of the buffer, whatever the      *)
(* caller does (process.rs:331-337, 346-353).                              *)
THEOREM StaysInBounds == IterSpec => []InBounds
<1>1. IterInv => InBounds
  BY DEF IterInv, MidiTypeOK, InBounds, Events, AnyEvent
<1> QED
  BY <1>1, IterInvariance, PTL

(* As long as the ends have not crossed each event an end has passed was   *)
(* handed out once and no other was.                                       *)
THEOREM OnceWhileMeeting == IterSpec => []OnceUntilCrossed
<1>1. IterInv => OnceUntilCrossed
  BY BoundsAssumption
     DEF IterInv, MidiTypeOK, OnceUntilCrossed, Meeting, Events, AnyEvent, PassedBy, Taken
<1> QED
  BY <1>1, IterInvariance, PTL

(* Until the ends cross, the size hint is the number of events still to     *)
(* come, and the subtraction of two u32 does not wrap (process.rs:339-342). *)
THEOREM HintCounts == IterSpec => []HintExact
<1>1. IterInv => HintExact
  <2> SUFFICES ASSUME IterInv, Iterating, Meeting
               PROVE  SizeHint = Cardinality({e \in Events : times[e] = 0})
    BY DEF HintExact
  <2>1. /\ index \in Nat /\ len \in Nat /\ count \in Nat /\ Width \in Nat
        /\ index <= len /\ len <= count /\ count < Width
    BY BoundsAssumption DEF IterInv, MidiTypeOK, Meeting
  <2>2. OnceUntilCrossed
    BY BoundsAssumption
       DEF IterInv, MidiTypeOK, OnceUntilCrossed, Meeting, Events, AnyEvent, PassedBy, Taken
  <2>3. {e \in Events : times[e] = 0} = index .. (len - 1)
    BY <2>1, <2>2 DEF OnceUntilCrossed, Events, Taken
  <2>4. Cardinality(index .. (len - 1)) = len - index
    <3>1. index \in Int /\ len - 1 \in Int
      BY <2>1
    <3> DEFINE b == len - 1
    <3> HIDE DEF b
    <3>2. b \in Int
      BY <3>1 DEF b
    <3>3. Cardinality(index .. b) = IF index > b THEN 0 ELSE b - index + 1
      BY <3>1, <3>2, FS_Interval
    <3>4. Cardinality(index .. (len - 1)) = IF index > len - 1 THEN 0 ELSE (len - 1) - index + 1
      BY <3>3 DEF b
    <3> QED
      BY <2>1, <3>4
  <2>5. (len - index) % Width = len - index
    BY <2>1
  <2> QED
    BY <2>3, <2>4, <2>5 DEF SizeHint
<1> QED
  BY <1>1, IterInvariance, PTL

(* None comes when the ends have met, or at a refused event.                *)
EndedInv ==
  Iterating /\ answer = "none" => index >= len \/ index \in bad \/ (len - 1) \in bad

LEMMA StepEndedInv == IterInv /\ EndedInv /\ [IterNext]_iterVars => EndedInv'
<1> SUFFICES ASSUME IterInv, EndedInv, [IterNext]_iterVars PROVE EndedInv'
  OBVIOUS
<1> USE DEF EndedInv, Iterating
<1>1. index \in Nat /\ len \in Nat
  BY DEF IterInv, MidiTypeOK
<1>2. CASE NextEvent
  BY <1>1, <1>2 DEF NextEvent, Get, Exhausted
<1>3. CASE NextBack
  BY <1>1, <1>3 DEF NextBack, Get, Exhausted
<1>4. CASE OpenIter \/ Fill \/ DropIter \/ UNCHANGED iterVars
  BY <1>4 DEF OpenIter, Fill, DropIter, iterVars
<1> QED
  BY <1>2, <1>3, <1>4 DEF IterNext

(* An iterator that has returned None has handed out every event, unless    *)
(* one next to its ends was refused (process.rs:331-354).                   *)
THEOREM NoneIsTheEnd == IterSpec => []Complete
<1>1. IterInit => EndedInv
  BY DEF IterInit, EndedInv
<1>2. IterInv /\ EndedInv => Complete
  <2> SUFFICES ASSUME IterInv, EndedInv, Iterating, index >= len, NEW e \in Events
               PROVE  times[e] > 0
    BY DEF Complete, EndedInv
  <2>1. index \in Nat /\ len \in Nat /\ e \in Nat /\ e \in AnyEvent /\ e < count
    BY BoundsAssumption DEF IterInv, MidiTypeOK, Events, AnyEvent
  <2>2. times[e] = PassedBy(e)
    BY <2>1 DEF IterInv
  <2> QED
    BY <2>1, <2>2 DEF PassedBy
<1> QED
  BY <1>1, <1>2, StepEndedInv, IterInvariance, PTL DEF IterSpec

(* An iterator used from one end is fused as its marker trait says         *)
(* (process.rs:356), refusals by the server included: such an iterator has *)
(* the other end where it started, so the front test cannot become true    *)
(* again, and a refused event is asked for again.                          *)
FusedInv ==
  /\ answer = "none" /\ ends = {"front"} => index >= len \/ index \in bad
  /\ answer = "none" /\ ends = {"back"} => len = 0 \/ (len - 1) \in bad

LEMMA StepFusedInv == FusedInv /\ [IterNext]_iterVars => FusedInv'
<1> SUFFICES ASSUME FusedInv, [IterNext]_iterVars PROVE FusedInv'
  OBVIOUS
<1> USE DEF FusedInv
<1>1. CASE NextEvent
  BY <1>1 DEF NextEvent, Get, Exhausted
<1>2. CASE NextBack
  BY <1>2 DEF NextBack, Get, Exhausted
<1>3. CASE OpenIter
  BY <1>3 DEF OpenIter
<1>4. CASE Fill
  BY <1>4 DEF Fill, Iterating
<1>5. CASE DropIter
  BY <1>5 DEF DropIter
<1>6. CASE UNCHANGED iterVars
  BY <1>6 DEF iterVars
<1> QED
  BY <1>1, <1>2, <1>3, <1>4, <1>5, <1>6 DEF IterNext

(* An iterator taken from one end that has returned None keeps doing so     *)
(* (process.rs:331-356).                                                    *)
THEOREM StaysEnded == IterSpec => Fused
<1>1. IterInit => FusedInv
  BY DEF IterInit, FusedInv
<1>2. ASSUME IterInv, FusedInv, [IterNext]_iterVars, Cardinality(ends) = 1, answer = "none"
      PROVE  answer' \in {"none", "new"}
  <2>1. ends \subseteq {"front", "back"} /\ ends # {"front", "back"} /\ ends # {}
    <3>1. Cardinality({"front", "back"}) = 2
      <4>1. IsFiniteSet({"front"}) /\ Cardinality({"front"}) = 1
        BY FS_Singleton
      <4>2. {"front", "back"} = {"front"} \cup {"back"} /\ "back" \notin {"front"}
        OBVIOUS
      <4> QED
        BY <4>1, <4>2, FS_AddElement
    <3>2. Cardinality({}) = 0
      BY FS_EmptySet
    <3>3. ends \subseteq {"front", "back"}
      BY <1>2 DEF IterInv, MidiTypeOK
    <3> QED
      BY <3>1, <3>2, <3>3, <1>2
  <2>2. ends = {"front"} \/ ends = {"back"}
    BY <2>1
  <2>3. CASE NextEvent
    BY <2>2, <2>3, <1>2 DEF FusedInv, NextEvent, Get, Exhausted
  <2>4. CASE NextBack
    BY <2>2, <2>4, <1>2 DEF FusedInv, NextBack, Get, Exhausted
  <2> QED
    BY <2>3, <2>4, <1>2 DEF IterNext, OpenIter, Fill, DropIter, iterVars
<1> QED
  BY <1>1, <1>2, StepFusedInv, IterInvariance, PTL DEF IterSpec, Fused

-----------------------------------------------------------------------------
(* PortBuffers. *)

LEMMA InitLockInv == Init => LockInv
<1> SUFFICES ASSUME Init PROVE LockInv
  OBVIOUS
<1>1. running \in BOOLEAN /\ aborted \in BOOLEAN
  BY DEF Init
<1>2. BufTypeOK
  BY <1>1, PortsAssumption DEF Init, BufTypeOK
<1>3. locked = forgotten \cup {p \in Outputs : guards[p] = 1}
  BY DEF Init
<1> QED
  BY <1>2, <1>3 DEF Init, IterInit, Iterating, LockInv

(* Steps of the iterator while the callback holds a MIDI input. *)
LEMMA IterateStep == LockInv /\ Iterate => LockInv'
<1> SUFFICES ASSUME LockInv, Iterate PROVE LockInv'
  OBVIOUS
<1>1. UNCHANGED bufVars /\ running /\ \E p \in Inputs \cap Midi : shared[p] > 0
  BY DEF Iterate, Live
<1> QED
  BY <1>1 DEF LockInv, BufTypeOK, bufVars

(* A guard of a port that is not locked is the only one of that port. *)
LEMMA GuardTaken ==
  ASSUME LockInv, NEW p \in Outputs, p \notin locked, Live, Locked(p), UNCHANGED iterVars
  PROVE  LockInv'
<1>1. guards[p] = 0 /\ guards \in [Outputs -> 0..1]
  BY DEF LockInv, BufTypeOK
<1>2. /\ locked' = locked \cup {p} /\ guards' = [guards EXCEPT ![p] = 1]
      /\ UNCHANGED <<running, aborted, forgotten, shared>>
  BY <1>1 DEF Locked
<1>3. BufTypeOK'
  BY <1>1, <1>2 DEF LockInv, BufTypeOK
<1>4. locked' = forgotten' \cup {q \in Outputs : guards'[q] = 1}
  BY <1>1, <1>2 DEF LockInv
<1>5. \A q \in forgotten' : guards'[q] = 0
  BY <1>1, <1>2 DEF LockInv, BufTypeOK
<1> QED
  BY <1>1, <1>2, <1>3, <1>4, <1>5 DEF LockInv, Live, Iterating, iterVars

LEMMA PanicStep ==
  ASSUME LockInv, Panic, UNCHANGED iterVars
  PROVE  LockInv'
BY DEF LockInv, BufTypeOK, Panic, Iterating, iterVars

LEMMA RequestStep ==
  ASSUME LockInv, UNCHANGED iterVars, NEW p \in Ports, NEW midi \in BOOLEAN,
         InBuffer(p, midi) \/ AudioOut(p) \/ MidiOut(p)
  PROVE  LockInv'
<1>1. CASE InBuffer(p, midi)
  <2>1. CASE Panic
    BY <2>1, PanicStep
  <2>2. CASE /\ p \in Inputs /\ shared[p] < MaxSlices
             /\ shared' = [shared EXCEPT ![p] = @ + 1]
             /\ UNCHANGED <<running, aborted, guards, forgotten, locked>>
    <3>1. shared \in [Inputs -> 0..MaxSlices]
      BY DEF LockInv, BufTypeOK
    <3>2. shared' \in [Inputs -> 0..MaxSlices] /\ \A q \in Inputs : shared'[q] >= shared[q]
      BY <2>2, <3>1, PortsAssumption
    <3>3. Iterating' => \E q \in Inputs \cap Midi : shared'[q] > 0
      <4> SUFFICES ASSUME Iterating' PROVE \E q \in Inputs \cap Midi : shared'[q] > 0
        OBVIOUS
      <4>1. PICK q \in Inputs \cap Midi : shared[q] > 0
        BY DEF LockInv, Iterating, iterVars
      <4>2. shared'[q] > 0
        BY <3>1, <3>2, <4>1, PortsAssumption
      <4> QED
        BY <4>2
    <3> QED
      BY <2>2, <3>2, <3>3 DEF LockInv, BufTypeOK, Iterating, iterVars
  <2> QED
    BY <1>1, <2>1, <2>2 DEF InBuffer
<1>2. CASE AudioOut(p)
  BY <1>2, PanicStep, GuardTaken DEF AudioOut
<1>3. CASE MidiOut(p)
  BY <1>3, PanicStep, GuardTaken DEF MidiOut
<1> QED
  BY <1>1, <1>2, <1>3

LEMMA ReleaseStep ==
  ASSUME LockInv, UNCHANGED iterVars, NEW p \in Outputs,
         DropGuard(p) \/ ForgetGuard(p)
  PROVE  LockInv'
<1>1. guards[p] = 1 /\ guards \in [Outputs -> 0..1] /\ p \notin forgotten
  BY DEF LockInv, BufTypeOK, DropGuard, ForgetGuard
<1>2. /\ guards' = [guards EXCEPT ![p] = 0]
      /\ UNCHANGED <<running, aborted, shared>>
  BY <1>1 DEF DropGuard, ForgetGuard
<1>3. BufTypeOK'
  BY <1>1, <1>2 DEF LockInv, BufTypeOK, DropGuard, ForgetGuard
<1>4. locked' = forgotten' \cup {q \in Outputs : guards'[q] = 1}
  BY <1>1, <1>2 DEF LockInv, DropGuard, ForgetGuard
<1>5. \A q \in forgotten' : guards'[q] = 0
  BY <1>1, <1>2 DEF LockInv, BufTypeOK, DropGuard, ForgetGuard
<1>6. running
  BY DEF DropGuard, ForgetGuard, Live
<1> QED
  BY <1>2, <1>3, <1>4, <1>5, <1>6 DEF LockInv, Iterating, iterVars

LEMMA StepLockInv == LockInv /\ [Next]_vars => LockInv'
<1> SUFFICES ASSUME LockInv, [Next]_vars PROVE LockInv'
  OBVIOUS
<1>1. CASE BeginCallback
  BY <1>1 DEF BeginCallback, Fill, Iterating, LockInv, BufTypeOK
<1>2. CASE BufStep /\ UNCHANGED iterVars
  <2>1. ASSUME NEW p \in Ports, NEW midi \in BOOLEAN, InBuffer(p, midi) PROVE LockInv'
    BY <1>2, <2>1, RequestStep
  <2>2. ASSUME NEW p \in Ports, AudioOut(p) \/ MidiOut(p) PROVE LockInv'
    BY <1>2, <2>2, RequestStep
  <2>3. ASSUME NEW p \in Inputs, DropView(p) PROVE LockInv'
    <3>1. shared' \in [Inputs -> 0..MaxSlices]
      BY <2>3, PortsAssumption DEF LockInv, BufTypeOK, DropView
    <3> QED
      BY <1>2, <2>3, <3>1 DEF LockInv, BufTypeOK, DropView, Live, Iterating, iterVars
  <2>4. ASSUME NEW p \in Outputs, DropGuard(p) \/ ForgetGuard(p) PROVE LockInv'
    BY <1>2, <2>4, ReleaseStep
  <2>5. CASE EndCallback
    <3>1. ~Iterating
      BY <2>5 DEF EndCallback, LockInv, BufTypeOK
    <3>2. BufTypeOK'
      BY <2>5 DEF EndCallback, LockInv, BufTypeOK
    <3> QED
      BY <1>2, <2>5, <3>1, <3>2 DEF EndCallback, LockInv, Iterating, iterVars
  <2>6. CASE Aborted
    BY <1>2, <2>6 DEF Aborted, LockInv, BufTypeOK, bufVars, Iterating, iterVars
  <2> QED
    BY <1>2, <2>1, <2>2, <2>3, <2>4, <2>5, <2>6 DEF BufStep
<1>3. CASE Iterate
  BY <1>3, IterateStep
<1>4. CASE UNCHANGED vars
  BY <1>4 DEF vars, bufVars, iterVars, LockInv, BufTypeOK, Iterating
<1> QED
  BY <1>1, <1>2, <1>3, <1>4 DEF Next

(* The lock of an output port is taken exactly while a guard is alive or    *)
(* was forgotten, and an iterator lives no longer than the callback and a   *)
(* view of its buffer (process.rs:171-237).                                 *)
THEOREM LockInvariance == Spec => []LockInv
BY InitLockInv, StepLockInv, PTL DEF Spec

(* Between callbacks only leaked guards keep a buffer locked, however many  *)
(* callbacks ran and whatever they requested.                               *)
THEOREM LeaksOnly == Spec => []OnlyLeaksSurvive
<1>1. LockInv => OnlyLeaksSurvive
  BY DEF LockInv, BufTypeOK, OnlyLeaksSurvive
<1> QED
  BY <1>1, LockInvariance, PTL

(* The iterator inside the callbacks behaves as MidiIter says: the buffer   *)
(* is refilled only when no iterator is left over from the callback before. *)
LEMMA IteratorSteps == Spec => IterSpec
<1>1. Init => IterInit
  BY DEF Init
<1>2. [Next]_vars => [IterNext]_iterVars
  BY DEF Next, BeginCallback, Iterate, IterNext, vars
<1> QED
  BY <1>1, <1>2, PTL DEF Spec, IterSpec

(* Hence what holds of the iterator holds of it in every callback: each     *)
(* event comes once until the ends cross,                                   *)
THEOREM OnceInCallbacks == Spec => []OnceUntilCrossed
BY IteratorSteps, OnceWhileMeeting, PTL

(* the server is asked for events of the buffer only,                       *)
THEOREM BoundsInCallbacks == Spec => []InBounds
BY IteratorSteps, StaysInBounds, PTL

(* the hint is exact,                                                       *)
THEOREM HintInCallbacks == Spec => []HintExact
BY IteratorSteps, HintCounts, PTL

(* None says that everything was handed out,                                *)
THEOREM CompleteInCallbacks == Spec => []Complete
BY IteratorSteps, NoneIsTheEnd, PTL

(* and an iterator taken from one end that has ended stays ended.           *)
THEOREM FusedInCallbacks == Spec => Fused
BY IteratorSteps, StaysEnded, PTL

=============================================================================
