------------------------- MODULE ScopeExample_proofs -------------------------
(***************************************************************************)
(* TLAPS proofs about ScopeExample, for every ring size, period and number *)
(* of callbacks.                                                           *)
(***************************************************************************)
EXTENDS ScopeExample, TLAPS

USE DEF Slot, Larger, Smaller

(* Sizes: the vectors only grow, and what was copied fits the vector it was *)
(* copied to.                                                               *)
SizesInv ==
  /\ TBTypeOK
  /\ frames \in Nat
  /\ len \in [Slot -> Nat] /\ nframes \in [Slot -> Nat]
  /\ SlicesInBounds

RelayInv == ring \in Nat /\ NoSleepOverMessages

LEMMA ScopeInit == Init => SizesInv /\ RelayInv
<1> SUFFICES ASSUME Init PROVE SizesInv /\ RelayInv
  OBVIOUS
<1> USE ScopeAssumption DEF Init, TBInit
<1>1. dirty \in BOOLEAN
  OBVIOUS
<1>2. TBTypeOK
  BY <1>1 DEF TBTypeOK
<1>3. SizesInv
  BY <1>2 DEF SizesInv, SlicesInBounds
<1>4. RelayInv
  BY DEF RelayInv, NoSleepOverMessages
<1> QED
  BY <1>3, <1>4

(* The callback writes the back slot, and no more frames than fit. *)
LEMMA CallbackSizes == SizesInv /\ Callback => SizesInv'
<1> SUFFICES ASSUME SizesInv, Callback PROVE SizesInv'
  OBVIOUS
<1> USE DEF SizesInv, TBTypeOK, SlicesInBounds
<1>1. len' = len /\ frames' = frames
  BY DEF Callback, mainVars
<1>2. CASE present
  <2>1. nframes' = [nframes EXCEPT ![back] = Copied(len[back])] /\ Swap
    BY <1>2 DEF Callback
  <2>2. Copied(len[back]) \in Nat /\ Copied(len[back]) <= len[back]
    BY DEF Copied
  <2>3. /\ nframes' \in [Slot -> Nat]
        /\ \A s \in Slot : nframes'[s] = IF s = back THEN Copied(len[back]) ELSE nframes[s]
    BY <2>1, <2>2
  <2>4. TBTypeOK'
    <3>1. dirty' \in BOOLEAN
      BY <2>1 DEF Swap
    <3> QED
      BY <2>1, <3>1 DEF Swap
  <2>5. \A s \in Slot : nframes'[s] <= len'[s]
    BY <1>1, <2>2, <2>3
  <2> QED
    BY <1>1, <2>3, <2>4, <2>5
<1>3. CASE ~present
  BY <1>1, <1>3 DEF Callback, tbVars
<1> QED
  BY <1>2, <1>3

(* The render grows the vector of the slot it shows. *)
LEMMA RenderSizes == SizesInv /\ Render => SizesInv'
<1> SUFFICES ASSUME SizesInv, Render PROVE SizesInv'
  OBVIOUS
<1> USE DEF SizesInv, TBTypeOK, SlicesInBounds
<1>1. nframes' = nframes /\ frames' = frames
  BY DEF Render
<1>2. CASE present
  <2>1. FrontBuffer /\ len' = [len EXCEPT ![front'] = Larger(@, frames)]
    BY <1>2 DEF Render
  <2>2. TBTypeOK'
    <3>1. dirty' \in BOOLEAN
      BY <2>1 DEF FrontBuffer
    <3> QED
      BY <2>1, <3>1 DEF FrontBuffer, Latest
  <2>3. len' \in [Slot -> Nat] /\ \A s \in Slot : len[s] <= len'[s]
    BY <2>1, <2>2
  <2>4. \A s \in Slot : nframes'[s] <= len'[s]
    BY <1>1, <2>3
  <2> QED
    BY <1>1, <2>2, <2>3, <2>4
<1>3. CASE ~present
  BY <1>1, <1>3 DEF Render, tbVars
<1> QED
  BY <1>2, <1>3

LEMMA AddPortSizes == SizesInv /\ AddPort => SizesInv'
<1> SUFFICES ASSUME SizesInv, AddPort PROVE SizesInv'
  OBVIOUS
<1> USE ScopeAssumption DEF AddPort, SizesInv
<1>1. dirty' \in BOOLEAN
  OBVIOUS
<1>2. TBTypeOK'
  BY <1>1 DEF TBTypeOK
<1>3. len' \in [Slot -> Nat] /\ nframes' \in [Slot -> Nat] /\ \A s \in Slot : nframes'[s] = 0
  OBVIOUS
<1> QED
  BY <1>2, <1>3 DEF SlicesInBounds

LEMMA SizesStep == SizesInv /\ [Next]_vars => SizesInv'
<1> SUFFICES ASSUME SizesInv, [Next]_vars PROVE SizesInv'
  OBVIOUS
<1>1. CASE Callback \/ Render \/ AddPort
  BY <1>1, CallbackSizes, RenderSizes, AddPortSizes
<1>2. ASSUME NEW n \in Frames, BufferSize(n) PROVE SizesInv'
  BY <1>2, ScopeAssumption DEF BufferSize, bufVars, SizesInv, TBTypeOK, SlicesInBounds
<1>3. CASE ~(Callback \/ Render \/ AddPort) /\ ~(\E n \in Frames : BufferSize(n))
  <2>1. UNCHANGED bufVars /\ UNCHANGED frames
    BY <1>3 DEF Next, Push, Unpark, Relay, RelayChecks, RelayPops, RelayParks, RelayWakes,
       RelayWakesSpuriously, Activate, RemovePort, Receive, Drop, Join, mainVars, vars
  <2> QED
    BY <2>1 DEF bufVars, SizesInv, TBTypeOK, SlicesInBounds
<1> QED
  BY <1>1, <1>2, <1>3

LEMMA RelayStep == RelayInv /\ [Next]_vars => RelayInv'
<1> SUFFICES ASSUME RelayInv, [Next]_vars PROVE RelayInv'
  OBVIOUS
<1> USE ScopeAssumption DEF RelayInv, NoSleepOverMessages
<1>1. CASE Callback
  BY <1>1 DEF Callback, relayVars
<1>2. CASE Push \/ Unpark
  BY <1>2 DEF Push, Unpark
<1>3. CASE Relay \/ RelayWakesSpuriously
  BY <1>3 DEF Relay, RelayChecks, RelayPops, RelayParks, RelayWakes, RelayWakesSpuriously,
              cbVars
<1>4. CASE ~(Callback \/ Push \/ Unpark \/ Relay \/ RelayWakesSpuriously)
  <2>1. UNCHANGED <<ring, relay, token>> \/ Drop
    BY <1>4 DEF Next, Activate, AddPort, RemovePort, Receive, Render, BufferSize, Join,
                relayVars, vars
  <2>2. UNCHANGED <<ring, relay, token, cb>>
    BY <1>4, <2>1 DEF Next, Activate, AddPort, RemovePort, Receive, Render, BufferSize, Join,
                Drop, cbVars, vars
  <2> QED
    BY <2>2
<1> QED
  BY <1>1, <1>2, <1>3, <1>4

(* A render or a transform never reads past the vector of its slot, however *)
(* server, callback and window change the sizes (scope.rs:77-81, 208-222).  *)
THEOREM Bounds == Spec => []SlicesInBounds
<1>1. SizesInv => SlicesInBounds
  BY DEF SizesInv
<1> QED
  BY <1>1, ScopeInit, SizesStep, PTL DEF Spec

(* The relay never parks over a message with no unpark to come              *)
(* (scope.rs:44-52, 86-87).                                                 *)
THEOREM NoLostMessage == Spec => []NoSleepOverMessages
<1>1. RelayInv => NoSleepOverMessages
  BY DEF RelayInv
<1> QED
  BY <1>1, ScopeInit, RelayStep, PTL DEF Spec

-----------------------------------------------------------------------------
(* Messages: each comes from a callback of its own, and samples that were   *)
(* not shown yet have one, or a render, on the way.                         *)
MessagesInv ==
  /\ ScopeTypeOK
  /\ MessagesBounded
  /\ phase = "starting" => ~present
  /\ FreshDataAnnounced

LEMMA MessagesInit == Init => MessagesInv
<1> SUFFICES ASSUME Init PROVE MessagesInv
  OBVIOUS
<1>1. TBTypeOK
  BY ScopeInit DEF SizesInv
<1>2. /\ ring = 0 /\ chan = 0 /\ cycles = 0 /\ cb = "idle" /\ phase = "starting"
      /\ present = FALSE /\ 0 \in 0..MaxCycles /\ 0 \in 0..RingSize
  BY ScopeAssumption DEF Init
<1>3. ScopeTypeOK
  BY <1>1, <1>2 DEF Init, ScopeTypeOK
<1> QED
  BY <1>2, <1>3 DEF MessagesInv, MessagesBounded, FreshDataAnnounced

LEMMA CallbackMessages == MessagesInv /\ SizesInv' /\ Callback => MessagesInv'
<1> SUFFICES ASSUME MessagesInv, SizesInv', Callback PROVE MessagesInv'
  OBVIOUS
<1> USE ScopeAssumption DEF MessagesInv, ScopeTypeOK, Callback, relayVars, mainVars
<1>1. lastEmpty' \in BOOLEAN /\ cb' \in {"idle", "push"} /\ cycles' \in 0..MaxCycles
  OBVIOUS
<1>2. ScopeTypeOK'
  BY <1>1 DEF SizesInv
<1>3. MessagesBounded'
  BY DEF MessagesBounded
<1>4. FreshDataAnnounced'
  BY DEF FreshDataAnnounced
<1> QED
  BY <1>2, <1>3, <1>4

LEMMA PushMessages == MessagesInv /\ SizesInv' /\ (Push \/ Unpark) => MessagesInv'
<1> SUFFICES ASSUME MessagesInv, SizesInv', Push \/ Unpark PROVE MessagesInv'
  OBVIOUS
<1> USE ScopeAssumption DEF MessagesInv, ScopeTypeOK, Push, Unpark, bufVars, mainVars
<1>1. ring' \in 0..RingSize /\ ring' <= ring + 1 /\ (Push => ring' > 0)
      /\ (Unpark => ring' = ring)
  OBVIOUS
<1>2. ScopeTypeOK'
  BY <1>1 DEF SizesInv
<1>3. MessagesBounded'
  BY <1>1 DEF MessagesBounded
<1>4. FreshDataAnnounced'
  BY <1>1 DEF FreshDataAnnounced
<1> QED
  BY <1>2, <1>3, <1>4

LEMMA RelayMessages ==
  MessagesInv /\ SizesInv' /\ (Relay \/ RelayWakesSpuriously) => MessagesInv'
<1> SUFFICES ASSUME MessagesInv, SizesInv', Relay \/ RelayWakesSpuriously PROVE MessagesInv'
  OBVIOUS
<1> USE ScopeAssumption DEF MessagesInv, ScopeTypeOK, Relay, RelayWakesSpuriously,
        RelayChecks, RelayPops, RelayParks, RelayWakes, bufVars, cbVars, mainVars
<1>1. UNCHANGED <<ring, chan>> \/ (ring > 0 /\ ring' = ring - 1 /\ chan' = chan + 1)
  OBVIOUS
<1>2. MessagesBounded'
  BY <1>1 DEF MessagesBounded
<1>3. ring' \in 0..RingSize /\ chan' \in 0..MaxCycles
  BY <1>1 DEF MessagesBounded
<1>4. token' \in BOOLEAN /\ relay' \in {"check", "drain", "park", "done"}
  OBVIOUS
<1>5. ScopeTypeOK'
  BY <1>3, <1>4 DEF SizesInv
<1>6. UNCHANGED <<phase, present, dirty, cb, redraw>>
  OBVIOUS
<1>7. ring > 0 \/ chan > 0 => ring' > 0 \/ chan' > 0
  BY <1>1
<1>8. FreshDataAnnounced'
  BY <1>6, <1>7 DEF FreshDataAnnounced
<1> QED
  BY <1>2, <1>5, <1>6, <1>8

(* The main loop turns a message into a render and shows what is newest;    *)
(* a new port starts with a triple buffer that nothing was written to.      *)
LEMMA MainMessages ==
  ASSUME MessagesInv, SizesInv', Receive \/ Render \/ AddPort \/ RemovePort PROVE MessagesInv'
<1> USE ScopeAssumption DEF MessagesInv, ScopeTypeOK, Receive, Render, AddPort, RemovePort,
        bufVars, cbVars, relayVars
<1>1. chan' \in 0..MaxCycles /\ chan' <= chan
  <2>1. CASE Receive
    BY <2>1
  <2>2. CASE ~Receive
    BY <2>2
  <2> QED
    BY <2>1, <2>2
<1>2. ScopeTypeOK'
  <2>1. CASE Receive
    BY <1>1, <2>1 DEF SizesInv
  <2>2. CASE Render
    BY <1>1, <2>2 DEF SizesInv
  <2>3. CASE AddPort \/ RemovePort
    BY <1>1, <2>3 DEF SizesInv
  <2> QED
    BY <2>1, <2>2, <2>3
<1>3. MessagesBounded'
  BY <1>1 DEF MessagesBounded
<1>4. FreshDataAnnounced'
  BY DEF FreshDataAnnounced, FrontBuffer
<1> QED
  BY <1>2, <1>3, <1>4

LEMMA OtherMessages ==
  ASSUME MessagesInv, SizesInv',
         Activate \/ Drop \/ Join \/ UNCHANGED vars \/ \E n \in Frames : BufferSize(n)
  PROVE  MessagesInv'
<1> USE ScopeAssumption DEF MessagesInv, ScopeTypeOK, Activate, Drop, Join, BufferSize,
        bufVars, cbVars, relayVars, mainVars, vars
<1>1. /\ quit' \in BOOLEAN /\ frames' \in Frames
      /\ phase' \in {"starting", "active", "dropping", "joined"}
      /\ UNCHANGED <<present, dirty, cb, lastEmpty, cycles, ring, token, relay, chan, redraw>>
      /\ phase' = "starting" => phase = "starting"
      /\ phase' = "active" => phase \in {"starting", "active"}
  OBVIOUS
<1>2. ScopeTypeOK'
  BY <1>1 DEF SizesInv
<1>3. MessagesBounded'
  BY <1>1 DEF MessagesBounded
<1>4. FreshDataAnnounced'
  BY <1>1 DEF FreshDataAnnounced
<1> QED
  BY <1>1, <1>2, <1>3, <1>4

LEMMA MessagesStep == MessagesInv /\ SizesInv' /\ [Next]_vars => MessagesInv'
BY CallbackMessages, PushMessages, RelayMessages, MainMessages, OtherMessages DEF Next

(* Every variable keeps its range; in particular the ring never holds more  *)
(* than it can, and the channel no more than there were callbacks.          *)
THEOREM ScopeTypeCorrect == Spec => []ScopeTypeOK
<1>1. MessagesInv => ScopeTypeOK
  BY DEF MessagesInv
<1> QED
  BY <1>1, ScopeInit, SizesStep, MessagesInit, MessagesStep, PTL DEF Spec

(* Fresh samples are announced although the ring may refuse the message     *)
(* about them (scope.rs:73-89, 538-545).                                    *)
THEOREM FreshDataHasAMessage == Spec => []FreshDataAnnounced
<1>1. MessagesInv => FreshDataAnnounced
  BY DEF MessagesInv
<1> QED
  BY <1>1, ScopeInit, SizesStep, MessagesInit, MessagesStep, PTL DEF Spec

=============================================================================
