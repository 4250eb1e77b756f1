-------------------------- MODULE Activation_proofs --------------------------
(***************************************************************************)
(* TLAPS proofs about Activation, for every list of notification setters.  *)
(***************************************************************************)
EXTENDS Activation, SequenceTheorems, TLAPS

-----------------------------------------------------------------------------
(* The plan of an activation. *)

LEMMA NotifyKindsShape ==
  /\ DOMAIN NotifyKinds = 1..Len(NotifyKinds)
  /\ \E S : NotifyKinds \in Seq(S)
  /\ Len(NotifyKinds) = Len(NotifySetters) + 1 /\ Len(NotifySetters) \in Nat
  /\ NotifyKinds[1] = "shutdown"
  /\ \A i \in 2..Len(NotifyKinds) :
       /\ NotifyKinds[i] = NotifySetters[i - 1]
       /\ NotifyKinds[i] \notin {"thread_init", "process", "shutdown", "latency",
                                 "sync", "timebase"}
<1> USE NotifySettersAssumption
<1> DEFINE S == {"shutdown"} \cup Elems(NotifySetters)
<1>1. Len(NotifySetters) \in Nat /\ DOMAIN NotifySetters = 1..Len(NotifySetters)
  OBVIOUS
<1>2. <<"shutdown">> \in Seq(S) /\ Len(<<"shutdown">>) = 1
  OBVIOUS
<1>3. NotifySetters \in Seq(S)
  <2>1. \A i \in 1..Len(NotifySetters) : NotifySetters[i] \in S
    BY <1>1 DEF Elems
  <2> QED
    BY <2>1
<1> HIDE DEF S
<1>4. /\ NotifyKinds \in Seq(S)
      /\ Len(NotifyKinds) = Len(<<"shutdown">>) + Len(NotifySetters)
      /\ \A i \in 1 .. (Len(<<"shutdown">>) + Len(NotifySetters)) :
           NotifyKinds[i] = IF i <= Len(<<"shutdown">>)
                              THEN <<"shutdown">>[i]
                              ELSE NotifySetters[i - Len(<<"shutdown">>)]
  BY <1>2, <1>3, ConcatProperties DEF NotifyKinds
<1>5. DOMAIN NotifyKinds = 1..Len(NotifyKinds)
  BY <1>4
<1>6. ASSUME NEW i \in 2..Len(NotifyKinds)
      PROVE  NotifyKinds[i] = NotifySetters[i - 1] /\ i - 1 \in DOMAIN NotifySetters
  BY <1>1, <1>2, <1>4
<1> QED
  <2>1. \E T : NotifyKinds \in Seq(T)
    BY <1>4
  <2>2. NotifyKinds[1] = "shutdown"
    BY <1>1, <1>2, <1>4
  <2>3. ASSUME NEW i \in 2..Len(NotifyKinds)
        PROVE  NotifyKinds[i] \notin {"thread_init", "process", "shutdown", "latency",
                                      "sync", "timebase"}
    BY <1>6
  <2> QED
    BY <1>1, <1>2, <1>4, <1>5, <1>6, <2>1, <2>2, <2>3

(* Kinds by name: the two of the process group, those of the notification   *)
(* group, and the three optional ones.                                      *)
LEMMA KindSets ==
  /\ Elems(ProcessKinds) = {"thread_init", "process"}
  /\ "shutdown" \in Elems(NotifyKinds)
  /\ {"thread_init", "process", "latency", "sync", "timebase"} \cap Elems(NotifyKinds) = {}
<1>1. DOMAIN ProcessKinds = {1, 2} /\ ProcessKinds[1] = "thread_init" /\ ProcessKinds[2] = "process"
  BY DEF ProcessKinds
<1>2. DOMAIN NotifyKinds = 1..Len(NotifyKinds) /\ 1 \in DOMAIN NotifyKinds
  BY NotifyKindsShape
<1> QED
  BY <1>1, <1>2, NotifyKindsShape DEF Elems

(* A sequence with or without another element. *)
Plus(s, b, x) == IF b THEN Append(s, x) ELSE s

LEMMA PlusConcat ==
  ASSUME NEW S, NEW s \in Seq(S), NEW x \in S, NEW b \in BOOLEAN
  PROVE  s \o (IF b THEN <<x>> ELSE <<>>) = Plus(s, b, x)
<1>1. s \o <<x>> = Append(s, x)
  OBVIOUS
<1>2. s \o <<>> = s
  BY ConcatEmptySeq
<1> QED
  BY <1>1, <1>2 DEF Plus

(* What the plan of an activation begins with, what may follow, and what    *)
(* must be in it.                                                           *)
LEMMA PlanShape ==
  ASSUME NEW o \in Options
  PROVE  /\ Plan(o) \in Seq(Kinds)
         /\ Len(Plan(o)) \in (Len(NotifyKinds) + 2) .. (Len(NotifyKinds) + 5)
         /\ Plan(o)[1] = "thread_init" /\ Plan(o)[2] = "process"
         /\ \A i \in 1..Len(NotifyKinds) : Plan(o)[i + 2] = NotifyKinds[i]
         /\ o.notify => \E i \in 1..Len(Plan(o)) : Plan(o)[i] = "latency"
         /\ o.process => \E i \in 1..Len(Plan(o)) : Plan(o)[i] = "sync"
         /\ \A i \in (Len(NotifyKinds) + 3) .. Len(Plan(o)) :
              \/ Plan(o)[i] = "latency" /\ o.notify
              \/ Plan(o)[i] = "sync" /\ o.process
              \/ Plan(o)[i] = "timebase" /\ o.process /\ o.timebase
<1> DEFINE base == ProcessKinds \o NotifyKinds
           withLatency == Plus(base, o.notify, "latency")
           withSync == Plus(withLatency, o.process, "sync")
<1>1. /\ o.notify \in BOOLEAN /\ o.process \in BOOLEAN
      /\ (o.process /\ o.timebase) \in BOOLEAN
  BY DEF Options
<1>2. {"latency", "sync", "timebase"} \subseteq Kinds
  BY DEF Kinds
<1>3. /\ ProcessKinds \in Seq(Kinds) /\ Len(ProcessKinds) = 2
      /\ ProcessKinds[1] = "thread_init" /\ ProcessKinds[2] = "process"
  BY KindSets DEF ProcessKinds, Kinds
<1>4. NotifyKinds \in Seq(Kinds) /\ Len(NotifyKinds) \in Nat
  <2>1. DOMAIN NotifyKinds = 1..Len(NotifyKinds) /\ Len(NotifyKinds) \in Nat
    BY NotifyKindsShape
  <2>2. \A i \in 1..Len(NotifyKinds) : NotifyKinds[i] \in Kinds
    BY <2>1 DEF Kinds, Elems
  <2> QED
    <3>1. PICK S : NotifyKinds \in Seq(S)
      BY NotifyKindsShape
    <3> QED
      BY <2>1, <2>2, <3>1
<1>5. /\ base \in Seq(Kinds) /\ Len(base) = Len(NotifyKinds) + 2
      /\ base[1] = "thread_init" /\ base[2] = "process"
      /\ \A i \in 1..Len(NotifyKinds) : base[i + 2] = NotifyKinds[i]
  <2>1. /\ base \in Seq(Kinds) /\ Len(base) = Len(ProcessKinds) + Len(NotifyKinds)
        /\ \A i \in 1 .. (Len(ProcessKinds) + Len(NotifyKinds)) :
             base[i] = IF i <= Len(ProcessKinds) THEN ProcessKinds[i]
                       ELSE NotifyKinds[i - Len(ProcessKinds)]
    BY <1>3, <1>4, ConcatProperties
  <2> HIDE DEF base
  <2> QED
    BY <2>1, <1>3, <1>4
<1> HIDE DEF base
<1>6. /\ withLatency \in Seq(Kinds)
      /\ Len(withLatency) = Len(base) + (IF o.notify THEN 1 ELSE 0)
      /\ \A i \in 1..Len(base) : withLatency[i] = base[i]
      /\ o.notify => withLatency[Len(base) + 1] = "latency"
  BY <1>1, <1>2, <1>5 DEF Plus, withLatency
<1> HIDE DEF withLatency
<1>7. /\ withSync \in Seq(Kinds)
      /\ Len(withSync) = Len(withLatency) + (IF o.process THEN 1 ELSE 0)
      /\ \A i \in 1..Len(withLatency) : withSync[i] = withLatency[i]
      /\ o.process => withSync[Len(withLatency) + 1] = "sync"
  <2>1. withLatency \in Seq(Kinds) /\ "sync" \in Kinds
    BY <1>2, <1>6
  <2> QED
    BY <1>1, <2>1 DEF Plus, withSync
<1> HIDE DEF withSync
<1>8. /\ Plan(o) \in Seq(Kinds)
      /\ Len(Plan(o)) = Len(withSync) + (IF o.process /\ o.timebase THEN 1 ELSE 0)
      /\ \A i \in 1..Len(withSync) : Plan(o)[i] = withSync[i]
      /\ o.process /\ o.timebase => Plan(o)[Len(withSync) + 1] = "timebase"
  <2>1. withLatency = base \o (IF o.notify THEN <<"latency">> ELSE <<>>)
    BY <1>1, <1>2, <1>5, PlusConcat DEF withLatency
  <2>2. withSync = withLatency \o (IF o.process THEN <<"sync">> ELSE <<>>)
    BY <1>1, <1>2, <1>6, PlusConcat DEF withSync
  <2>3. Plan(o) = withSync \o (IF o.process /\ o.timebase THEN <<"timebase">> ELSE <<>>)
    BY <2>1, <2>2 DEF Plan, base
  <2>4. Plan(o) = Plus(withSync, o.process /\ o.timebase, "timebase")
    BY <2>3, <1>1, <1>2, <1>7, PlusConcat
  <2>5. withSync \in Seq(Kinds) /\ "timebase" \in Kinds
    BY <1>2, <1>7
  <2> QED
    BY <2>4, <2>5, <1>1 DEF Plus
<1> USE <1>1, <1>4, <1>5, <1>6, <1>7, <1>8
<1>9. Len(Plan(o)) \in (Len(NotifyKinds) + 2) .. (Len(NotifyKinds) + 5)
  OBVIOUS
<1>10. \A i \in 1..Len(base) : Plan(o)[i] = base[i]
  OBVIOUS
<1>11. o.notify => Plan(o)[Len(base) + 1] = "latency"
  OBVIOUS
<1>12. o.process => Plan(o)[Len(withLatency) + 1] = "sync"
  OBVIOUS
<1>13. /\ Plan(o)[1] = "thread_init" /\ Plan(o)[2] = "process"
       /\ \A i \in 1..Len(NotifyKinds) : Plan(o)[i + 2] = NotifyKinds[i]
  BY <1>10
<1>14. o.notify => \E i \in 1..Len(Plan(o)) : Plan(o)[i] = "latency"
  BY <1>11
<1>15. o.process => \E i \in 1..Len(Plan(o)) : Plan(o)[i] = "sync"
  BY <1>12
<1>16. ASSUME NEW i \in (Len(NotifyKinds) + 3) .. Len(Plan(o))
       PROVE  \/ Plan(o)[i] = "latency" /\ o.notify
              \/ Plan(o)[i] = "sync" /\ o.process
              \/ Plan(o)[i] = "timebase" /\ o.process /\ o.timebase
  <2>1. CASE i = Len(base) + 1 /\ o.notify
    BY <2>1, <1>11
  <2>2. CASE i = Len(withLatency) + 1 /\ o.process
    BY <2>2, <1>12
  <2>3. CASE i = Len(withSync) + 1 /\ o.process /\ o.timebase
    BY <2>3
  <2> QED
    BY <2>1, <2>2, <2>3
<1> QED
  BY <1>8, <1>9, <1>13, <1>14, <1>15, <1>16

-----------------------------------------------------------------------------
(* Kinds, boxes and what an activation wants, by name. *)
LEMMA KindFacts ==
  /\ Kinds = Always \cup {"latency", "sync", "timebase"}
  /\ \A k \in Elems(ProcessKinds) \cup {"sync", "timebase"} : BoxOf(k) = "process"
  /\ \A k \in Elems(NotifyKinds) \cup {"latency"} : BoxOf(k) = "notify"
  /\ {"latency", "sync", "timebase"} \cap Always = {}
BY KindSets DEF Kinds, Always, BoxOf

LEMMA WantedFacts ==
  ASSUME NEW o \in Options
  PROVE  /\ \A k \in Elems(ProcessKinds) : Wanted(o, k) = o.process
         /\ \A k \in Elems(NotifyKinds) : Wanted(o, k) = o.notify
         /\ Wanted(o, "latency") = o.latency
         /\ Wanted(o, "sync") = o.sync
         /\ Wanted(o, "timebase") = o.timebase
BY KindSets DEF Wanted

LEMMA OptionFacts ==
  ASSUME NEW o \in Options
  PROVE  /\ o.process \in BOOLEAN /\ o.notify \in BOOLEAN /\ o.latency \in BOOLEAN
         /\ o.sync \in BOOLEAN /\ o.timebase \in BOOLEAN /\ o.force \in BOOLEAN
         /\ o.force => o.timebase
BY DEF Options

LEMMA NoOptionsFacts ==
  /\ NoOptions \in Options
  /\ ~NoOptions.process /\ ~NoOptions.notify /\ ~NoOptions.timebase
BY DEF Options, NoOptions

(* The callback a step of the plan installs: a kind, third of all that of   *)
(* jack_on_shutdown, and leading to a box the activation has by then.       *)
LEMMA PlanEntry ==
  ASSUME NEW o \in Options, NEW i \in 1..Len(Plan(o))
  PROVE  /\ Plan(o)[i] \in Kinds
         /\ Plan(o)[i] = "shutdown" <=> i = 3
         /\ Wanted(o, Plan(o)[i]) \in BOOLEAN
         /\ Wanted(o, Plan(o)[i]) =>
              \/ BoxOf(Plan(o)[i]) = "process" /\ o.process
              \/ BoxOf(Plan(o)[i]) = "notify" /\ o.notify /\ i >= 3
         /\ Plan(o)[i] = "timebase" => o.process /\ o.timebase
<1>0. /\ DOMAIN NotifyKinds = 1..Len(NotifyKinds) /\ Len(NotifyKinds) \in Nat \ {0}
      /\ Len(Plan(o)) \in Nat
  BY NotifyKindsShape, PlanShape
<1>1. CASE i \in {1, 2}
  <2>1. Plan(o)[i] \in Elems(ProcessKinds) /\ Plan(o)[i] \in {"thread_init", "process"}
    BY <1>1, PlanShape, KindSets
  <2> QED
    BY <1>1, <2>1, KindFacts, WantedFacts, OptionFacts DEF Always
<1>2. CASE i \in 3..(Len(NotifyKinds) + 2)
  <2>1. i - 2 \in 1..Len(NotifyKinds) /\ Plan(o)[(i - 2) + 2] = NotifyKinds[i - 2]
    BY <1>0, <1>2, PlanShape
  <2>2. Plan(o)[i] = NotifyKinds[i - 2] /\ Plan(o)[i] \in Elems(NotifyKinds)
    BY <1>0, <1>2, <2>1 DEF Elems
  <2>3. Plan(o)[i] = "shutdown" <=> i = 3
    BY <1>0, <1>2, <2>1, <2>2, NotifyKindsShape
  <2>4. Plan(o)[i] # "timebase"
    BY <2>2, KindSets
  <2> QED
    BY <1>2, <2>2, <2>3, <2>4, KindFacts, WantedFacts, OptionFacts DEF Always
<1>3. CASE i \in (Len(NotifyKinds) + 3) .. Len(Plan(o))
  <2>1. \/ Plan(o)[i] = "latency" /\ o.notify
        \/ Plan(o)[i] = "sync" /\ o.process
        \/ Plan(o)[i] = "timebase" /\ o.process /\ o.timebase
    BY <1>3, PlanShape
  <2>2. i > 3
    BY <1>0, <1>3
  <2> QED
    BY <2>1, <2>2, KindFacts, WantedFacts, OptionFacts
<1> QED
  BY <1>0, <1>1, <1>2, <1>3

(* A plan that was carried out has set all of these. *)
LEMMA PlanComplete ==
  ASSUME NEW o \in Options
  PROVE  /\ \A k \in Always : \E i \in 1..Len(Plan(o)) : Plan(o)[i] = k
         /\ o.notify => \E i \in 1..Len(Plan(o)) : Plan(o)[i] = "latency"
         /\ o.process => \E i \in 1..Len(Plan(o)) : Plan(o)[i] = "sync"
<1>0. /\ DOMAIN NotifyKinds = 1..Len(NotifyKinds) /\ Len(NotifyKinds) \in Nat \ {0}
      /\ Len(Plan(o)) \in Nat /\ Len(Plan(o)) >= Len(NotifyKinds) + 2
  BY NotifyKindsShape, PlanShape
<1>1. ASSUME NEW k \in Elems(ProcessKinds)
      PROVE  \E i \in 1..Len(Plan(o)) : Plan(o)[i] = k
  BY <1>0, <1>1, PlanShape, KindSets
<1>2. ASSUME NEW k \in Elems(NotifyKinds)
      PROVE  \E i \in 1..Len(Plan(o)) : Plan(o)[i] = k
  <2>1. PICK j \in 1..Len(NotifyKinds) : NotifyKinds[j] = k
    BY <1>0, <1>2 DEF Elems
  <2>2. Plan(o)[j + 2] = k /\ j + 2 \in 1..Len(Plan(o))
    BY <1>0, <2>1, PlanShape
  <2> QED
    BY <2>2
<1> QED
  BY <1>1, <1>2, PlanShape DEF Always

-----------------------------------------------------------------------------
(* The steps.  What does not touch pc, opt, step and the boxes keeps most   *)
(* of the invariant; the lemmas below say so once.                          *)

LEMMA ActTypes ==
  ActInv => /\ opt \in Options /\ cb \in [Kinds -> Pointers] /\ boxes \subseteq {"process", "notify"}
            /\ step \in Nat /\ step >= 1 /\ Len(NotifyKinds) \in Nat
            /\ "process" \in boxes <=> opt.process
            /\ "notify" \in boxes <=> opt.notify /\ (pc = "active" \/ step > 3)
BY NotifyKindsShape, OptionFacts DEF ActInv, TypeOK, Options, BoxesExact

(* An active client's setters: one optional entry changes, to null or live. *)
LEMMA EntryStep ==
  ASSUME ActInv, pc = "active",
         NEW k \in {"sync", "timebase"}, NEW p \in {"null", "live"},
         cb' = [cb EXCEPT ![k] = p], p = "live" => "process" \in boxes,
         k = "timebase" /\ p = "live" => ~otherMaster',
         otherMaster' = otherMaster \/ (k = "timebase" /\ otherMaster' = FALSE),
         UNCHANGED <<pc, opt, step, boxes, serverActive>>
  PROVE  ActInv'
<1>1. k \in Kinds /\ cb \in [Kinds -> Pointers] /\ k \notin Always /\ k # "latency"
  BY KindFacts, ActTypes
<1>2. otherMaster' \in BOOLEAN
  BY DEF ActInv, TypeOK
<1>3. cb' \in [Kinds -> Pointers] /\ cb'[k] = p /\ \A j \in Kinds \ {k} : cb'[j] = cb[j]
  BY <1>1 DEF Pointers
<1>4. TypeOK'
  BY <1>2, <1>3 DEF ActInv, TypeOK
<1>5. LiveOwned'
  BY <1>3, KindFacts DEF ActInv, LiveOwned
<1>6. ActiveExact'
  <2>1. \A j \in Always : cb'[j] = Pointer(Wanted(opt, j))
    BY <1>1, <1>3, KindFacts DEF ActInv, ActiveExact
  <2>2. opt.notify => cb'["latency"] # "freed"
    BY <1>1, <1>3, KindFacts DEF ActInv, ActiveExact
  <2>3. opt.process => cb'["sync"] # "freed"
    BY <1>3, KindFacts DEF ActInv, ActiveExact
  <2> QED
    BY <2>1, <2>2, <2>3 DEF ActiveExact, Wanted, BoxOf
<1>7. TimebaseExact'
  BY <1>3, KindFacts DEF ActInv, TimebaseExact
<1> QED
  BY <1>4, <1>5, <1>6, <1>7 DEF ActInv, BoxesExact, InstalledSoFar

(* Dropping the boxes leaves no live pointer; the timebase is given up      *)
(* before, so its entry is not left to a freed box.                         *)
LEMMA DropStep ==
  ASSUME NEW t \in [Kinds -> Pointers], NEW bs,
         \A k \in Kinds : t[k] = "live" => BoxOf(k) \in bs
  PROVE  /\ Freed(t, bs) \in [Kinds -> Pointers]
         /\ \A k \in Kinds : Freed(t, bs)[k] # "live"
         /\ \A k \in Kinds : t[k] = "null" => Freed(t, bs)[k] = "null"
BY DEF Freed, Pointers

LEMMA ReleaseFacts ==
  ASSUME NEW t \in [Kinds -> Pointers]
  PROVE  /\ ReleasedTimebase(t) \in [Kinds -> Pointers]
         /\ ReleasedTimebase(t)["timebase"] = "null"
         /\ \A k \in Kinds \ {"timebase"} : ReleasedTimebase(t)[k] = t[k]
BY KindFacts DEF ReleasedTimebase, Pointers

LEMMA InitInv == Init => ActInv
<1> SUFFICES ASSUME Init PROVE ActInv
  OBVIOUS
<1>1. TypeOK
  <2>1. serverActive \in BOOLEAN /\ otherMaster \in BOOLEAN
    BY DEF Init
  <2>2. step \in 1..(Len(NotifyKinds) + 6)
    BY NotifyKindsShape DEF Init
  <2>3. cb \in [Kinds -> Pointers]
    BY DEF Init, Pointers
  <2>4. boxes \subseteq {"process", "notify"} /\ pc \in PCs
    BY DEF Init, PCs
  <2>5. /\ opt \in [process : BOOLEAN, notify : BOOLEAN, latency : BOOLEAN,
                    sync : BOOLEAN, timebase : BOOLEAN, force : BOOLEAN]
        /\ opt.force => opt.timebase
    BY DEF Init, NoOptions
  <2> QED
    BY <2>1, <2>2, <2>3, <2>4, <2>5 DEF TypeOK
<1>2. BoxesExact
  BY NoOptionsFacts DEF Init, BoxesExact
<1>3. LiveOwned /\ TimebaseExact
  BY KindFacts DEF Init, LiveOwned, TimebaseExact
<1> QED
  BY <1>1, <1>2, <1>3 DEF Init, ActInv, InstalledSoFar, ActiveExact

(* Every path on which the boxes are dropped. *)
LEMMA DroppedInv ==
  ASSUME ActInv, cb' \in [Kinds -> Pointers], \A k \in Kinds : cb'[k] # "live",
         cb'["timebase"] # "freed", boxes' = {}, opt' = NoOptions,
         pc' \in {"inactive", "deactivated", "closed"},
         step' = step \/ step' = 1, serverActive' = FALSE, UNCHANGED otherMaster
  PROVE  ActInv'
<1>1. TypeOK'
  <2>1. serverActive' \in BOOLEAN
    OBVIOUS
  <2>2. step' \in 1..(Len(NotifyKinds) + 6)
    BY NotifyKindsShape DEF ActInv, TypeOK
  <2>3. /\ opt' \in [process : BOOLEAN, notify : BOOLEAN, latency : BOOLEAN,
                     sync : BOOLEAN, timebase : BOOLEAN, force : BOOLEAN]
        /\ opt'.force => opt'.timebase
    BY DEF NoOptions
  <2>4. otherMaster' \in BOOLEAN /\ pc' \in PCs
    BY DEF ActInv, TypeOK, PCs
  <2> QED
    BY <2>1, <2>2, <2>3, <2>4 DEF TypeOK
<1>2. BoxesExact'
  BY NoOptionsFacts DEF BoxesExact
<1>3. LiveOwned' /\ TimebaseExact'
  BY KindFacts DEF LiveOwned, TimebaseExact
<1> QED
  BY <1>1, <1>2, <1>3 DEF ActInv, InstalledSoFar, ActiveExact

LEMMA GiveBackInv == ActInv /\ GiveBack => ActInv'
<1> SUFFICES ASSUME ActInv, GiveBack PROVE ActInv'
  OBVIOUS
<1> DEFINE t == IF opt.timebase THEN ReleasedTimebase(cb) ELSE cb
<1>1. cb \in [Kinds -> Pointers] /\ "timebase" \in Kinds
  BY ActTypes, KindFacts
<1>2. t \in [Kinds -> Pointers] /\ \A k \in Kinds : t[k] = "live" => BoxOf(k) \in boxes
  BY <1>1, ReleaseFacts DEF ActInv, LiveOwned
<1>3. t["timebase"] = "null"
  <2>1. CASE opt.timebase
    BY <2>1, <1>1, ReleaseFacts
  <2>2. CASE ~opt.timebase
    BY <2>2, <1>1 DEF ActInv, TimebaseExact, GiveBack, Pointers
  <2> QED
    BY <2>1, <2>2
<1> HIDE DEF t
<1>4. cb' = Freed(t, boxes)
  BY DEF GiveBack, t
<1>5. /\ cb' \in [Kinds -> Pointers] /\ \A k \in Kinds : cb'[k] # "live"
      /\ cb'["timebase"] = "null"
  BY <1>1, <1>2, <1>3, <1>4, DropStep
<1>6. ~serverActive /\ serverActive \in BOOLEAN
  BY DEF ActInv, TypeOK, GiveBack
<1> QED
  BY <1>5, <1>6, DroppedInv DEF GiveBack

LEMMA DeactivateInv == ActInv /\ Deactivate => ActInv'
<1> SUFFICES ASSUME ActInv, Deactivate PROVE ActInv'
  OBVIOUS
<1> DEFINE t == ReleasedTimebase(cb)
<1>1. cb \in [Kinds -> Pointers] /\ "timebase" \in Kinds
  BY ActTypes, KindFacts
<1>2. /\ t \in [Kinds -> Pointers] /\ t["timebase"] = "null"
      /\ \A k \in Kinds : t[k] = "live" => BoxOf(k) \in boxes
  BY <1>1, ReleaseFacts DEF ActInv, LiveOwned
<1> HIDE DEF t
<1>3. cb' = Freed(t, boxes)
  BY DEF Deactivate, t
<1>4. /\ cb' \in [Kinds -> Pointers] /\ \A k \in Kinds : cb'[k] # "live"
      /\ cb'["timebase"] = "null"
  BY <1>1, <1>2, <1>3, DropStep
<1> QED
  BY <1>4, DroppedInv DEF Deactivate

LEMMA CloseInv == ActInv /\ Close => ActInv'
<1> SUFFICES ASSUME ActInv, Close PROVE ActInv'
  OBVIOUS
<1>1. cb' \in [Kinds -> Pointers] /\ \A k \in Kinds : cb'[k] = "null"
  BY DEF Close, Pointers
<1>2. "timebase" \in Kinds
  BY KindFacts
<1> QED
  BY <1>1, <1>2, DroppedInv DEF Close

LEMMA ActivateInv == ASSUME ActInv, NEW o \in Options, Activate(o) PROVE ActInv'
<1>1. TypeOK'
  <2>1. /\ pc' = "installing" /\ step' = 1 /\ opt' = o /\ o \in Options
        /\ boxes' = (IF o.process THEN {"process"} ELSE {})
        /\ UNCHANGED <<cb, serverActive, otherMaster>>
    BY DEF Activate
  <2>2. step' \in 1..(Len(NotifyKinds) + 6)
    BY <2>1, NotifyKindsShape
  <2>3. boxes' \subseteq {"process", "notify"} /\ pc' \in PCs
    BY <2>1 DEF PCs
  <2>4. /\ opt' \in [process : BOOLEAN, notify : BOOLEAN, latency : BOOLEAN,
                     sync : BOOLEAN, timebase : BOOLEAN, force : BOOLEAN]
        /\ opt'.force => opt'.timebase
    BY <2>1 DEF Options
  <2>5. cb' \in [Kinds -> Pointers] /\ serverActive' \in BOOLEAN /\ otherMaster' \in BOOLEAN
    BY <2>1 DEF ActInv, TypeOK
  <2> QED
    BY <2>2, <2>3, <2>4, <2>5 DEF TypeOK
<1>2. boxes = {} /\ opt = NoOptions
  BY NoOptionsFacts DEF ActInv, Activate, BoxesExact, TypeOK
<1>3. ~serverActive' /\ pc' = "installing"
  BY DEF ActInv, Activate, TypeOK
<1>4. BoxesExact'
  BY DEF Activate, BoxesExact
<1>5. \A k \in Kinds : cb'[k] # "live"
  BY <1>2 DEF ActInv, LiveOwned, Activate
<1>6. LiveOwned' /\ TimebaseExact'
  BY <1>5, KindFacts DEF ActInv, Activate, LiveOwned, TimebaseExact
<1>7. InstalledSoFar'
  BY PlanShape, NotifyKindsShape DEF Activate, InstalledSoFar
<1> QED
  BY <1>1, <1>3, <1>4, <1>6, <1>7 DEF ActInv, ActiveExact

LEMMA InstallInv == ActInv /\ Install => ActInv'
<1> SUFFICES ASSUME ActInv, Install PROVE ActInv'
  OBVIOUS
<1> DEFINE k == Plan(opt)[step]
<1>1. /\ opt \in Options /\ step \in 1..Len(Plan(opt)) /\ Len(Plan(opt)) \in Nat
      /\ Len(Plan(opt)) <= Len(NotifyKinds) + 5 /\ Len(NotifyKinds) \in Nat
  BY ActTypes, PlanShape, NotifyKindsShape DEF Install
<1>2. /\ k \in Kinds /\ (k = "shutdown" <=> step = 3)
      /\ Wanted(opt, k) \in BOOLEAN
      /\ Wanted(opt, k) => \/ BoxOf(k) = "process" /\ opt.process
                           \/ BoxOf(k) = "notify" /\ opt.notify /\ step >= 3
      /\ k = "timebase" => opt.process /\ opt.timebase
  BY <1>1, PlanEntry
<1>3. /\ pc = "installing" /\ pc' = "installing" /\ opt' = opt /\ step' = step + 1
      /\ serverActive' = serverActive
      /\ cb' = [cb EXCEPT ![k] = Pointer(Wanted(opt, k))]
      /\ otherMaster' = IF k = "timebase" THEN FALSE ELSE otherMaster
      /\ boxes' = IF opt.notify /\ step = 3 THEN boxes \cup {"notify"} ELSE boxes
  <2>1. NotifyKinds[1] = "shutdown"
    BY NotifyKindsShape
  <2> QED
    BY <1>2, <2>1 DEF Install, Allocated
<1> HIDE DEF k
<1>4. /\ cb' \in [Kinds -> Pointers] /\ cb'[k] = Pointer(Wanted(opt, k))
      /\ \A j \in Kinds \ {k} : cb'[j] = cb[j]
  BY <1>2, <1>3, ActTypes DEF Pointer, Pointers
<1>5. TypeOK'
  <2>1. otherMaster' \in BOOLEAN
    <3>1. otherMaster \in BOOLEAN
      BY DEF ActInv, TypeOK
    <3>2. CASE k = "timebase"
      BY <3>2, <1>3
    <3>3. CASE k # "timebase"
      BY <3>1, <3>3, <1>3
    <3> QED
      BY <3>2, <3>3
  <2>2. step' \in 1..(Len(NotifyKinds) + 6)
    BY <1>1, <1>3
  <2>3. boxes' \subseteq {"process", "notify"}
    BY <1>3, ActTypes
  <2>4. /\ opt' = opt /\ pc' \in PCs /\ serverActive' \in BOOLEAN
        /\ opt \in [process : BOOLEAN, notify : BOOLEAN, latency : BOOLEAN,
                    sync : BOOLEAN, timebase : BOOLEAN, force : BOOLEAN]
        /\ opt.force => opt.timebase
    BY <1>3 DEF ActInv, TypeOK
  <2> QED
    BY <2>1, <2>2, <2>3, <2>4, <1>4 DEF TypeOK
<1>6. BoxesExact'
  <2>1. boxes = (IF opt.process THEN {"process"} ELSE {})
                  \cup (IF opt.notify /\ step > 3 THEN {"notify"} ELSE {})
    BY <1>3 DEF ActInv, BoxesExact
  <2>2. step' > 3 <=> step > 3 \/ step = 3
    BY <1>1, <1>3
  <2> QED
    BY <1>3, <2>1, <2>2 DEF BoxesExact
<1>7. LiveOwned'
  <2>1. boxes \subseteq boxes'
    BY <1>3
  <2>2. \A j \in Kinds \ {k} : cb'[j] = "live" => BoxOf(j) \in boxes'
    BY <1>4, <2>1 DEF ActInv, LiveOwned
  <2>3. Wanted(opt, k) => BoxOf(k) \in boxes'
    BY <1>1, <1>2, <1>3, ActTypes
  <2>4. cb'[k] = "live" => BoxOf(k) \in boxes'
    BY <1>4, <2>3 DEF Pointer
  <2> QED
    BY <2>2, <2>4 DEF LiveOwned
<1>8. InstalledSoFar'
  <2>1. /\ step' <= Len(Plan(opt)) + 1
        /\ \A i \in 1..(step - 1) :
             Plan(opt)[i] # "timebase" => cb[Plan(opt)[i]] = Pointer(Wanted(opt, Plan(opt)[i]))
    BY <1>1, <1>3 DEF ActInv, InstalledSoFar
  <2>2. \A i \in 1..step : Plan(opt)[i] \in Kinds
    BY <1>1, PlanEntry
  <2>3. ASSUME NEW i \in 1..step, Plan(opt)[i] # "timebase"
        PROVE  cb'[Plan(opt)[i]] = Pointer(Wanted(opt, Plan(opt)[i]))
    <3>1. CASE Plan(opt)[i] = k
      BY <3>1, <1>4
    <3>2. CASE Plan(opt)[i] # k
      <4>1. i \in 1..(step - 1)
        BY <3>2, <1>1 DEF k
      <4> QED
        BY <3>2, <4>1, <2>1, <2>2, <2>3, <1>4
    <3> QED
      BY <3>1, <3>2
  <2>4. step' - 1 = step
    BY <1>1, <1>3
  <2> QED
    BY <2>1, <2>3, <2>4, <1>3 DEF InstalledSoFar
<1>9. TimebaseExact'
  <2>1. CASE k = "timebase"
    BY <2>1, <1>2, <1>3, <1>4 DEF TimebaseExact, Pointer
  <2>2. CASE k # "timebase"
    BY <2>2, <1>3, <1>4, KindFacts DEF ActInv, TimebaseExact
  <2> QED
    BY <2>1, <2>2
<1> QED
  BY <1>3, <1>5, <1>6, <1>7, <1>8, <1>9 DEF ActInv, ActiveExact

LEMMA JackActivateInv ==
  ASSUME ActInv, NEW ok \in BOOLEAN, JackActivate(ok) PROVE ActInv'
<1>1. /\ opt \in Options /\ step >= 1 /\ step \in Nat /\ Len(Plan(opt)) \in Nat
      /\ Len(NotifyKinds) \in Nat /\ step > 3
      /\ pc = "installing" /\ step = Len(Plan(opt)) + 1
      /\ \A i \in 1..Len(Plan(opt)) :
             Plan(opt)[i] # "timebase" => cb[Plan(opt)[i]] = Pointer(Wanted(opt, Plan(opt)[i]))
  <2>1. opt \in Options /\ step \in Nat /\ step >= 1 /\ pc = "installing"
    BY ActTypes DEF JackActivate
  <2>2. Len(Plan(opt)) \in Nat /\ Len(Plan(opt)) >= 3 /\ Len(NotifyKinds) \in Nat
    BY <2>1, PlanShape, NotifyKindsShape
  <2>3. step = Len(Plan(opt)) + 1
    BY <2>1, <2>2 DEF ActInv, InstalledSoFar, JackActivate
  <2> QED
    BY <2>1, <2>2, <2>3 DEF ActInv, InstalledSoFar
<1>2. /\ pc' = "active" /\ step' = 1 /\ serverActive' = ok
      /\ UNCHANGED <<opt, cb, boxes, otherMaster>>
  BY DEF JackActivate
<1>3. TypeOK'
  <2>1. pc' \in PCs /\ step' \in 1..(Len(NotifyKinds) + 6)
    BY <1>1, <1>2 DEF PCs
  <2>2. serverActive' \in BOOLEAN
    BY <1>2
  <2> QED
    BY <1>2, <2>1, <2>2 DEF ActInv, TypeOK
<1>4. BoxesExact'
  BY <1>1, <1>2 DEF ActInv, BoxesExact
<1>5. LiveOwned' /\ TimebaseExact'
  BY <1>1, <1>2 DEF ActInv, LiveOwned, TimebaseExact
<1>6. \A k \in Always : cb[k] = Pointer(Wanted(opt, k))
  <2>1. ASSUME NEW k \in Always PROVE cb[k] = Pointer(Wanted(opt, k))
    <3>1. PICK i \in 1..Len(Plan(opt)) : Plan(opt)[i] = k
      BY <1>1, <2>1, PlanComplete
    <3> QED
      BY <1>1, <2>1, <3>1, KindFacts
  <2> QED
    BY <2>1
<1>7. opt.notify => cb["latency"] # "freed"
  <2> SUFFICES ASSUME opt.notify PROVE cb["latency"] # "freed"
    OBVIOUS
  <2>1. PICK i \in 1..Len(Plan(opt)) : Plan(opt)[i] = "latency"
    BY <1>1, PlanComplete
  <2> QED
    BY <1>1, <2>1 DEF Pointer
<1>8. opt.process => cb["sync"] # "freed"
  <2> SUFFICES ASSUME opt.process PROVE cb["sync"] # "freed"
    OBVIOUS
  <2>1. PICK i \in 1..Len(Plan(opt)) : Plan(opt)[i] = "sync"
    BY <1>1, PlanComplete
  <2> QED
    BY <1>1, <2>1 DEF Pointer
<1>9. ActiveExact'
  BY <1>2, <1>6, <1>7, <1>8 DEF ActiveExact, Wanted, BoxOf
<1> QED
  BY <1>2, <1>3, <1>4, <1>5, <1>9 DEF ActInv, InstalledSoFar

(* Steps that only touch the timebase entry and who is the master. *)
LEMMA TimebaseStep ==
  ASSUME ActInv, cb' = cb \/ cb' = ReleasedTimebase(cb),
         otherMaster' \in BOOLEAN, otherMaster' => otherMaster \/ cb' = ReleasedTimebase(cb),
         UNCHANGED <<pc, opt, step, boxes, serverActive>>
  PROVE  ActInv'
<1>1. cb \in [Kinds -> Pointers]
  BY ActTypes
<1>2. /\ cb' \in [Kinds -> Pointers] /\ \A k \in Kinds \ {"timebase"} : cb'[k] = cb[k]
      /\ cb' = cb \/ cb'["timebase"] = "null"
      /\ otherMaster' => otherMaster \/ cb'["timebase"] = "null"
  BY <1>1, ReleaseFacts
<1>3. TypeOK'
  BY <1>2 DEF ActInv, TypeOK
<1>4. LiveOwned'
  BY <1>2, KindFacts DEF ActInv, LiveOwned
<1>5. InstalledSoFar'
  <2> SUFFICES ASSUME pc = "installing", NEW i \in 1..(step - 1), Plan(opt)[i] # "timebase"
               PROVE  cb'[Plan(opt)[i]] = Pointer(Wanted(opt, Plan(opt)[i]))
    BY DEF ActInv, InstalledSoFar
  <2>1. opt \in Options /\ step \in Nat /\ Len(Plan(opt)) \in Nat /\ step <= Len(Plan(opt)) + 1
    BY ActTypes, PlanShape, NotifyKindsShape DEF ActInv, InstalledSoFar
  <2>2. Plan(opt)[i] \in Kinds
    BY <2>1, PlanEntry
  <2> QED
    BY <2>2, <1>2 DEF ActInv, InstalledSoFar
<1>6. ActiveExact'
  <2>1. \A k \in Always \cup {"latency", "sync"} : cb'[k] = cb[k]
    BY <1>2, KindFacts
  <2> QED
    BY <2>1 DEF ActInv, ActiveExact, Wanted, BoxOf
<1>7. TimebaseExact'
  BY <1>2, KindFacts DEF ActInv, TimebaseExact
<1> QED
  BY <1>3, <1>4, <1>5, <1>6, <1>7 DEF ActInv, BoxesExact

(* Through every activation, refusal, deactivation and drop the server's    *)
(* callback entries match the boxes that are alive and what the plan has    *)
(* set so far (client.rs:818-928, 1024-1061).                               *)
THEOREM ActInvariance == Spec => []ActInv
<1>1. ActInv /\ [Next]_vars => ActInv'
  <2> SUFFICES ASSUME ActInv, [Next]_vars PROVE ActInv'
    OBVIOUS
  <2>0. /\ cb \in [Kinds -> Pointers] /\ otherMaster \in BOOLEAN
        /\ TRUE \in BOOLEAN /\ FALSE \in BOOLEAN
    BY ActTypes DEF ActInv, TypeOK
  <2>1. ASSUME NEW o \in Options, Activate(o) PROVE ActInv'
    BY <2>1, ActivateInv
  <2>2. CASE Install
    BY <2>2, InstallInv
  <2>3. CASE InstallRefused
    <3>1. /\ pc = "installing" /\ pc' = "refused"
          /\ UNCHANGED <<opt, step, cb, boxes, serverActive, otherMaster>>
      BY <2>3 DEF InstallRefused
    <3>2. TypeOK'
      BY <3>1 DEF ActInv, TypeOK, PCs
    <3> QED
      BY <3>1, <3>2 DEF ActInv, BoxesExact, LiveOwned, InstalledSoFar, ActiveExact,
                        TimebaseExact
  <2>4. ASSUME NEW ok \in BOOLEAN, JackActivate(ok) PROVE ActInv'
    BY <2>4, JackActivateInv
  <2>5. CASE GiveBack
    BY <2>5, GiveBackInv
  <2>6. CASE RegisterSync
    BY <2>6, EntryStep DEF RegisterSync
  <2>7. CASE UnregisterSync
    BY <2>7, EntryStep DEF UnregisterSync
  <2>8. ASSUME NEW force \in BOOLEAN, AcquireTimebase(force) PROVE ActInv'
    BY <2>8, EntryStep DEF AcquireTimebase
  <2>9. CASE ReleaseTimebase
    BY <2>0, <2>9, TimebaseStep DEF ReleaseTimebase
  <2>10. CASE DeactivateFails
    BY <2>0, <2>10, TimebaseStep DEF DeactivateFails
  <2>11. CASE Deactivate
    BY <2>11, DeactivateInv
  <2>12. CASE Close
    BY <2>12, CloseInv
  <2>13. CASE OtherTakesTimebase
    BY <2>0, <2>13, TimebaseStep DEF OtherTakesTimebase
  <2>14. CASE OtherReleasesTimebase
    BY <2>0, <2>14, TimebaseStep DEF OtherReleasesTimebase
  <2>15. CASE UNCHANGED vars
    BY <2>0, <2>15, TimebaseStep DEF vars
  <2> QED
    BY <2>1, <2>2, <2>3, <2>4, <2>5, <2>6, <2>7, <2>8, <2>9, <2>10, <2>11, <2>12,
       <2>13, <2>14, <2>15 DEF Next, Terminated
<1> QED
  BY InitInv, <1>1, PTL DEF Spec

-----------------------------------------------------------------------------
(* The variables stay in their types: every callback entry is null, live or *)
(* freed, and TIMEBASE_FORCE is never without TIMEBASE.                     *)
THEOREM TypesKept == Spec => []TypeOK
<1>1. ActInv => TypeOK
  BY DEF ActInv
<1> QED
  BY <1>1, ActInvariance, PTL

(* While callbacks may run, the callbacks every activation sets lead to the *)
(* handlers of this activation or nowhere (client.rs:841-905).              *)
THEOREM OwnHandlers == Spec => []OwnHandlersCalled
<1>1. ActInv => OwnHandlersCalled
  <2> SUFFICES ASSUME ActInv, serverActive, NEW k \in Always
               PROVE  /\ cb[k] = Pointer(BoxOf(k) \in boxes)
                      /\ Wanted(opt, k) <=> BoxOf(k) \in boxes
    BY DEF OwnHandlersCalled, Always
  <2>1. opt \in Options /\ pc = "active" /\ cb[k] = Pointer(Wanted(opt, k))
    BY ActTypes DEF ActInv, ActiveExact
  <2>2. opt.process \in BOOLEAN /\ opt.notify \in BOOLEAN
    BY <2>1, OptionFacts
  <2>3. ("process" \in boxes <=> opt.process) /\ ("notify" \in boxes <=> opt.notify)
    BY <2>1, ActTypes
  <2>4. CASE k \in Elems(ProcessKinds)
    BY <2>1, <2>2, <2>3, <2>4, KindFacts, WantedFacts DEF Pointer
  <2>5. CASE k \in Elems(NotifyKinds)
    BY <2>1, <2>2, <2>3, <2>5, KindFacts, WantedFacts DEF Pointer
  <2> QED
    BY <2>4, <2>5 DEF Always
<1> QED
  BY <1>1, ActInvariance, PTL

(* An active client's entry that leads to a freed box is latency or sync,   *)
(* and its activation was without the handler (client.rs:857-873).          *)
THEOREM Leftovers == Spec => []LeftoversOnlyWithoutHandler
<1>1. ActInv => LeftoversOnlyWithoutHandler
  <2> SUFFICES ASSUME ActInv, serverActive, NEW k \in Kinds, cb[k] = "freed"
               PROVE  (k = "latency" /\ ~opt.notify) \/ (k = "sync" /\ ~opt.process)
    BY DEF LeftoversOnlyWithoutHandler
  <2>1. k \notin Always
    BY DEF ActInv, ActiveExact, Pointer
  <2>2. k # "timebase"
    BY DEF ActInv, TimebaseExact
  <2>3. k = "latency" \/ k = "sync"
    BY <2>1, <2>2, KindFacts
  <2>4. opt.notify => cb["latency"] # "freed"
    BY DEF ActInv, ActiveExact
  <2>5. opt.process => cb["sync"] # "freed"
    BY DEF ActInv, ActiveExact
  <2> QED
    BY <2>3, <2>4, <2>5
<1> QED
  BY <1>1, ActInvariance, PTL

(* The timebase entry never outlives ProcessData, and an entry of ours      *)
(* means that no other client is the master (client.rs:874-900, 1044-1060). *)
THEOREM TimebaseMaster == Spec => []TimebaseOwned
<1>1. ActInv => TimebaseOwned
  <2> SUFFICES ASSUME ActInv, cb["timebase"] # "null"
               PROVE  cb["timebase"] = "live" /\ "process" \in boxes /\ ~otherMaster
    BY DEF TimebaseOwned
  <2>1. "timebase" \in Kinds /\ BoxOf("timebase") = "process" /\ cb \in [Kinds -> Pointers]
    BY KindFacts, ActTypes
  <2>2. cb["timebase"] = "live"
    BY <2>1 DEF ActInv, TimebaseExact, Pointers
  <2> QED
    BY <2>1, <2>2 DEF ActInv, LiveOwned, TimebaseExact
<1> QED
  BY <1>1, ActInvariance, PTL

=============================================================================
