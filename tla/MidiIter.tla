------------------------------- MODULE MidiIter -------------------------------
(***************************************************************************)
(* The iterator over the events of a MIDI input buffer, MidiInputIter in   *)
(* src/src/process.rs.  It walks the buffer from both ends with two u32:   *)
(* `index', the next event from the front, and `len', one past the next    *)
(* from the back.  The server refuses some events (`bad'); the first       *)
(* refusal ends the iteration at that end without moving it.               *)
(***************************************************************************)
EXTENDS Integers, FiniteSets

CONSTANTS
  MaxCount,   \* most events a buffer may hold
  Width       \* number of values of a u32

ASSUME BoundsAssumption == MaxCount \in Nat /\ Width \in Nat /\ MaxCount < Width

VARIABLES
  count,      \* events in the buffer, jack_midi_get_event_count
  bad,        \* events jack_midi_event_get refuses
  ends,       \* the ends the caller takes from; {} while there is no iterator
  index, len, \* MidiInputIter
  times,      \* how often the iterator handed out each event
  asked,      \* event last asked of the server, or -1
  answer      \* what the last call returned, "new" before the first

iterVars == <<count, bad, ends, index, len, times, asked, answer>>

AnyEvent == 0 .. (MaxCount - 1)
Events == 0 .. (count - 1)
Iterating == ends # {}

MidiTypeOK ==
  /\ count \in 0..MaxCount
  /\ bad \subseteq AnyEvent
  /\ ends \subseteq {"front", "back"}
  /\ index \in 0..MaxCount
  /\ len \in 0..MaxCount
  /\ times \in [AnyEvent -> 0..2]
  /\ asked \in AnyEvent \cup {-1}
  /\ answer \in {"new", "some", "none"}

IterInit ==
  /\ count = 0 /\ bad = {} /\ ends = {}
  /\ index = 0 /\ len = 0
  /\ times = [e \in AnyEvent |-> 0]
  /\ asked = -1 /\ answer = "new"

-----------------------------------------------------------------------------
(* The server fills the buffer for another cycle. *)
Fill ==
  /\ ~Iterating
  /\ count' \in 0..MaxCount
  /\ bad' \in SUBSET (0 .. (count' - 1))
  /\ UNCHANGED <<ends, index, len, times, asked, answer>>

(* MidiInput::iter and into_iter; how the caller will use the iterator is   *)
(* settled here.                                                            *)
OpenIter ==
  /\ ~Iterating
  /\ ends' \in SUBSET {"front", "back"} \ {{}}
  /\ index' = 0
  /\ len' = count
  /\ times' = [e \in AnyEvent |-> 0]
  /\ asked' = -1
  /\ answer' = "new"
  /\ UNCHANGED <<count, bad>>

DropIter ==
  /\ Iterating
  /\ ends' = {}
  /\ UNCHANGED <<count, bad, index, len, times, asked, answer>>

(* buffer_get(e): on success the caller gets the event. *)
Get(e) ==
  /\ asked' = e
  /\ answer' = IF e \in bad THEN "none" ELSE "some"
  /\ times' = IF e \in AnyEvent \ bad THEN [times EXCEPT ![e] = @ + 1] ELSE times

Exhausted == answer' = "none" /\ UNCHANGED <<index, len, times, asked>>

NextSkipsErrors ==              \* fault: a refused event is stepped over
  /\ "front" \in ends
  /\ IF index >= len THEN Exhausted
       ELSE Get(index) /\ index' = index + 1 /\ UNCHANGED len
  /\ UNCHANGED <<count, bad, ends>>

NextReadsOn ==                  \* fault: an off-by-one at the end
  /\ "front" \in ends
  /\ IF index > len THEN Exhausted
       ELSE /\ Get(index)
            /\ index' = IF index \in bad THEN index ELSE index + 1
            /\ UNCHANGED len
  /\ UNCHANGED <<count, bad, ends>>

(* next() *)
NextEvent ==
  /\ "front" \in ends
  /\ IF index >= len THEN Exhausted
       ELSE /\ Get(index)
            /\ index' = IF index \in bad THEN index ELSE index + 1
            /\ UNCHANGED len
  /\ UNCHANGED <<count, bad, ends>>

NextBackStays ==                \* fault: the end does not move
  /\ "back" \in ends
  /\ IF len = 0 THEN Exhausted ELSE Get(len - 1) /\ UNCHANGED <<index, len>>
  /\ UNCHANGED <<count, bad, ends>>

NextBackLeavesOne ==            \* fault: the last index is taken for the end
  /\ "back" \in ends
  /\ IF len <= 1 THEN Exhausted
       ELSE Get(len - 1) /\ len' = len - Cardinality({len - 1} \ bad) /\ UNCHANGED index
  /\ UNCHANGED <<count, bad, ends>>

(* next_back(): the end of the iteration is tested against 0, not index. *)
NextBack ==
  /\ "back" \in ends
  /\ IF len = 0 THEN Exhausted
       ELSE /\ Get(len - 1)
            /\ len' = IF (len - 1) \in bad THEN len ELSE len - 1
            /\ UNCHANGED index
  /\ UNCHANGED <<count, bad, ends>>

SizeHintOfBuffer == len         \* fault: events already taken are counted

(* size_hint(): u32 subtraction, in a build without overflow checks. *)
SizeHint == (len - index) % Width

IterNext == Fill \/ OpenIter \/ NextEvent \/ NextBack \/ DropIter

IterSpec == IterInit /\ [][IterNext]_iterVars

-----------------------------------------------------------------------------
(* The ends have not passed each other. *)
Meeting == index <= len

Taken(e) == e < index \/ e >= len

(* The server is only ever asked for an event of the buffer                 *)
(* (process.rs:331-337, 346-353), even after the ends have crossed.         *)
InBounds == Iterating /\ asked # -1 => asked \in Events

(* The count behind the safety properties, which crossing does not disturb. *)
PassedBy(e) == (IF e < index THEN 1 ELSE 0) + (IF e >= len THEN 1 ELSE 0)

IterInv ==
  /\ MidiTypeOK
  /\ Iterating =>
       /\ index <= count /\ len <= count
       /\ asked # -1 => asked < count
       /\ \A e \in AnyEvent : times[e] = IF e < count THEN PassedBy(e) ELSE 0

(* Until the ends cross, an event has been handed out exactly once if an    *)
(* end has passed it, and never otherwise (process.rs:331-337, 346-353).    *)
OnceUntilCrossed ==
  Iterating /\ Meeting => \A e \in Events : times[e] = IF Taken(e) THEN 1 ELSE 0

(* Until the ends cross, the size hint counts the events not handed out     *)
(* (process.rs:339-342).                                                    *)
HintExact ==
  Iterating /\ Meeting => SizeHint = Cardinality({e \in Events : times[e] = 0})

(* An iterator that has returned None has handed out every event, whichever *)
(* ends it was taken from and whether they have crossed or not, unless the  *)
(* server refused the event next to one of its ends (process.rs:331-354).   *)
Complete ==
  Iterating /\ answer = "none"
    => (\A e \in Events : times[e] > 0) \/ index \in bad \/ (len - 1) \in bad

(* An iterator taken from one end that has returned None keeps doing so,    *)
(* errors of the server included (FusedIterator, process.rs:356).           *)
Fused ==
  [][Cardinality(ends) = 1 /\ answer = "none" => answer' \in {"none", "new"}]_iterVars

=============================================================================
