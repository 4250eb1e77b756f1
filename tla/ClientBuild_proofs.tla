-------------------------- MODULE ClientBuild_proofs --------------------------
(***************************************************************************)
(* TLAPS proofs about ClientBuild, for any set of threads and any number   *)
(* of calls.                                                               *)
(***************************************************************************)
EXTENDS ClientBuild, TLAPS

(* The inductive invariant: who fills which cell, and what the answers      *)
(* given so far say about the cells.                                        *)
BuildInv == CellInv /\ HooksBeforeOpen /\ SameAnswer

(* pc and answer change at the place of one thread. *)
LEMMA GotoFacts ==
  ASSUME BuildTypeOK, NEW t \in Threads, NEW l \in PCs, Goto(t, l)
  PROVE  /\ pc' \in [Threads -> PCs] /\ calls' \in [Threads -> 0..MaxCalls]
         /\ answer' \in [Threads -> Answers]
         /\ pc'[t] = l /\ \A u \in Threads \ {t} : pc'[u] = pc[u]
         /\ \A u \in Threads : answer'[u] = answer[u]
BY DEF Goto, BuildTypeOK

LEMMA ReturnFacts ==
  ASSUME BuildTypeOK, NEW t \in Threads, NEW a \in Answers, Return(t, a)
  PROVE  /\ pc' \in [Threads -> PCs] /\ calls' \in [Threads -> 0..MaxCalls]
         /\ answer' \in [Threads -> Answers]
         /\ pc'[t] = "idle" /\ answer'[t] = a
         /\ \A u \in Threads \ {t} : pc'[u] = pc[u] /\ answer'[u] = answer[u]
BY DEF Return, BuildTypeOK, PCs

LEMMA InitInv == Init => BuildInv
BY ThreadsAssumption DEF Init, BuildInv, CellInv, BuildTypeOK, HooksBeforeOpen, SameAnswer,
   PCs, Answers

LEMMA CallInv == ASSUME BuildInv, NEW t \in Threads, Call(t) PROVE BuildInv'
<1>1. PICK l \in {"weak", "lib"} : pc' = [pc EXCEPT ![t] = l]
  BY DEF Call
<1>2. /\ pc' \in [Threads -> PCs] /\ answer' \in [Threads -> Answers]
      /\ calls' \in [Threads -> 0..MaxCalls]
  <2>1. /\ pc \in [Threads -> PCs] /\ answer \in [Threads -> Answers]
        /\ calls \in [Threads -> 0..MaxCalls]
    BY DEF BuildInv, CellInv, BuildTypeOK
  <2>2. calls[t] + 1 \in 0..MaxCalls
    BY <2>1, ThreadsAssumption DEF Call
  <2> QED
    BY <1>1, <2>1, <2>2 DEF Call, PCs, Answers
<1>3. /\ pc'[t] = l /\ pc[t] = "idle" /\ answer'[t] = "none" /\ UNCHANGED cells
      /\ \A u \in Threads \ {t} : pc'[u] = pc[u] /\ answer'[u] = answer[u]
  BY <1>1 DEF Call, BuildInv, CellInv, BuildTypeOK
<1> QED
  BY <1>2, <1>3 DEF cells, BuildInv, CellInv, BuildTypeOK, HooksBeforeOpen, SameAnswer

LEMMA FillWeakInv == ASSUME BuildInv, NEW t \in Threads, FillWeak(t) PROVE BuildInv'
<1> DEFINE l == IF pc[t] = "weak" THEN "load" ELSE "libLoad"
<1>1. l \in PCs /\ Goto(t, l) /\ BuildTypeOK
  BY DEF FillWeak, PCs, BuildInv, CellInv
<1>2. /\ pc' \in [Threads -> PCs] /\ calls' \in [Threads -> 0..MaxCalls]
      /\ answer' \in [Threads -> Answers]
      /\ pc'[t] = l /\ \A u \in Threads \ {t} : pc'[u] = pc[u]
      /\ \A u \in Threads : answer'[u] = answer[u]
  BY <1>1, GotoFacts
<1>3. BuildTypeOK'
  BY <1>2 DEF FillWeak, BuildInv, CellInv, BuildTypeOK
<1> QED
  BY <1>2, <1>3, ThreadsAssumption
     DEF FillWeak, BuildInv, CellInv, BuildTypeOK, HooksBeforeOpen, SameAnswer

LEMMA FillLibInv == ASSUME BuildInv, NEW t \in Threads, FillLib(t) PROVE BuildInv'
<1>1. "libWeak" \in PCs /\ Goto(t, "libWeak") /\ BuildTypeOK
  BY DEF FillLib, PCs, BuildInv, CellInv
<1>2. /\ pc' \in [Threads -> PCs] /\ calls' \in [Threads -> 0..MaxCalls]
      /\ answer' \in [Threads -> Answers]
      /\ pc'[t] = "libWeak" /\ \A u \in Threads \ {t} : pc'[u] = pc[u]
      /\ \A u \in Threads : answer'[u] = answer[u]
  BY <1>1, GotoFacts
<1>3. BuildTypeOK'
  BY <1>2 DEF FillLib, BuildInv, CellInv, BuildTypeOK
<1> QED
  BY <1>2, <1>3, ThreadsAssumption
     DEF FillLib, BuildInv, CellInv, BuildTypeOK, HooksBeforeOpen, SameAnswer

(* What a thread makes of the content of the cell of weak_library(), the    *)
(* cell being full after the step.                                          *)
LEMMA UseWeakInv ==
  ASSUME BuildInv, NEW t \in Threads, NEW r \in Loaded, UseWeak(t, r),
         pc[t] \in {"weak", "libWeak", "load", "libLoad"},
         weak' = r, weak \in {"empty", r},
         pc[t] \in {"load", "libLoad"} => weakBy' = Nobody,
         pc[t] \in {"weak", "libWeak"} => weakBy' = weakBy /\ weak = r,
         loads' = IF weak = "empty" THEN loads + 1 ELSE loads,
         UNCHANGED <<log, logBy, hooks>>
  PROVE  BuildInv'
<1>1. BuildTypeOK /\ "idle" \in PCs /\ "log" \in PCs /\ {"error", "panic", "library"} \subseteq Answers
  BY DEF BuildInv, CellInv, PCs, Answers
<1>2. CASE pc[t] \in {"weak", "load"} /\ r = "error"
  <2>1. Return(t, "error") /\ UNCHANGED <<lib, libBy>>
    BY <1>2 DEF UseWeak
  <2>2. /\ pc' \in [Threads -> PCs] /\ calls' \in [Threads -> 0..MaxCalls]
        /\ answer' \in [Threads -> Answers]
        /\ pc'[t] = "idle" /\ answer'[t] = "error"
        /\ \A u \in Threads \ {t} : pc'[u] = pc[u] /\ answer'[u] = answer[u]
    BY <1>1, <2>1, ReturnFacts
  <2>3. BuildTypeOK'
    BY <2>1, <2>2 DEF BuildInv, CellInv, BuildTypeOK
  <2> QED
    BY <1>2, <2>1, <2>2, <2>3, ThreadsAssumption
       DEF BuildInv, CellInv, BuildTypeOK, HooksBeforeOpen, SameAnswer, Loaded
<1>3. CASE pc[t] \in {"weak", "load"} /\ r # "error"
  <2>1. Goto(t, "log") /\ UNCHANGED <<lib, libBy>> /\ r \in {"ok", "partial"}
    BY <1>3 DEF UseWeak, Loaded
  <2>2. /\ pc' \in [Threads -> PCs] /\ calls' \in [Threads -> 0..MaxCalls]
        /\ answer' \in [Threads -> Answers]
        /\ pc'[t] = "log" /\ \A u \in Threads \ {t} : pc'[u] = pc[u]
        /\ \A u \in Threads : answer'[u] = answer[u]
    BY <1>1, <2>1, GotoFacts
  <2>3. BuildTypeOK'
    BY <2>1, <2>2 DEF BuildInv, CellInv, BuildTypeOK
  <2> QED
    BY <1>3, <2>1, <2>2, <2>3, ThreadsAssumption
       DEF BuildInv, CellInv, BuildTypeOK, HooksBeforeOpen, SameAnswer
<1>4. CASE pc[t] \in {"libWeak", "libLoad"}
  <2>1. PICK a \in {"panic", "library"} :
          /\ Return(t, a) /\ libBy' = Nobody
          /\ r = "error" => a = "panic" /\ lib' = lib
          /\ r # "error" => a = "library" /\ lib' = "set"
    BY <1>4 DEF UseWeak
  <2>2. /\ pc' \in [Threads -> PCs] /\ calls' \in [Threads -> 0..MaxCalls]
        /\ answer' \in [Threads -> Answers]
        /\ pc'[t] = "idle" /\ answer'[t] = a
        /\ \A u \in Threads \ {t} : pc'[u] = pc[u] /\ answer'[u] = answer[u]
    BY <1>1, <2>1, ReturnFacts
  <2>3. BuildTypeOK'
    BY <2>1, <2>2 DEF BuildInv, CellInv, BuildTypeOK
  <2> QED
    BY <1>4, <2>1, <2>2, <2>3, ThreadsAssumption
       DEF BuildInv, CellInv, BuildTypeOK, HooksBeforeOpen, SameAnswer, Loaded
<1> QED
  BY <1>2, <1>3, <1>4

LEMMA WeakInv ==
  ASSUME BuildInv, NEW t \in Threads, ReadWeak(t) \/ Load(t) PROVE BuildInv'
<1>1. CASE ReadWeak(t)
  <2>1. weak \in Loaded
    BY <1>1 DEF ReadWeak, BuildInv, CellInv, BuildTypeOK
  <2> QED
    BY <1>1, <2>1, UseWeakInv DEF ReadWeak, Loaded
<1>2. CASE Load(t)
  <2>1. PICK r \in Loaded : weak' = r /\ UseWeak(t, r)
    BY <1>2 DEF Load
  <2>2. weak = "empty"
    BY <1>2, ThreadsAssumption DEF Load, BuildInv, CellInv
  <2> QED
    BY <1>2, <2>1, <2>2, UseWeakInv DEF Load
<1> QED
  BY <1>1, <1>2

(* The steps that leave the cells alone and go on to open or return.        *)
LEMMA ReadLibInv == ASSUME BuildInv, NEW t \in Threads, ReadLib(t) PROVE BuildInv'
<1>1. BuildTypeOK /\ "library" \in Answers /\ Return(t, "library")
  BY DEF ReadLib, Answers, BuildInv, CellInv
<1>2. /\ pc' \in [Threads -> PCs] /\ calls' \in [Threads -> 0..MaxCalls]
      /\ answer' \in [Threads -> Answers]
      /\ pc'[t] = "idle" /\ answer'[t] = "library"
      /\ \A u \in Threads \ {t} : pc'[u] = pc[u] /\ answer'[u] = answer[u]
  BY <1>1, ReturnFacts
<1>3. BuildTypeOK'
  BY <1>2 DEF ReadLib, cells, BuildInv, CellInv, BuildTypeOK
<1> QED
  BY <1>2, <1>3 DEF ReadLib, cells, BuildInv, CellInv, HooksBeforeOpen, SameAnswer

LEMMA EnterOnceInv == ASSUME BuildInv, NEW t \in Threads, EnterOnce(t) PROVE BuildInv'
<1>1. "install" \in PCs /\ Goto(t, "install") /\ BuildTypeOK
  BY DEF EnterOnce, PCs, BuildInv, CellInv
<1>2. /\ pc' \in [Threads -> PCs] /\ calls' \in [Threads -> 0..MaxCalls]
      /\ answer' \in [Threads -> Answers]
      /\ pc'[t] = "install" /\ \A u \in Threads \ {t} : pc'[u] = pc[u]
      /\ \A u \in Threads : answer'[u] = answer[u]
  BY <1>1, GotoFacts
<1>3. BuildTypeOK'
  BY <1>2 DEF EnterOnce, BuildInv, CellInv, BuildTypeOK
<1> QED
  BY <1>2, <1>3, ThreadsAssumption
     DEF EnterOnce, BuildInv, CellInv, BuildTypeOK, HooksBeforeOpen, SameAnswer

LEMMA PassOnceInv == ASSUME BuildInv, NEW t \in Threads, PassOnce(t) PROVE BuildInv'
<1>1. BuildTypeOK /\ "panic" \in Answers /\ "open" \in PCs
  BY DEF BuildInv, CellInv, Answers, PCs
<1>2. CASE log = "poisoned"
  <2>1. /\ pc' \in [Threads -> PCs] /\ calls' \in [Threads -> 0..MaxCalls]
        /\ answer' \in [Threads -> Answers]
        /\ pc'[t] = "idle" /\ answer'[t] = "panic"
        /\ \A u \in Threads \ {t} : pc'[u] = pc[u] /\ answer'[u] = answer[u]
    BY <1>1, <1>2, ReturnFacts DEF PassOnce
  <2>2. BuildTypeOK'
    BY <2>1 DEF PassOnce, cells, BuildInv, CellInv, BuildTypeOK
  <2> QED
    BY <1>2, <2>1, <2>2 DEF PassOnce, cells, BuildInv, CellInv, HooksBeforeOpen, SameAnswer
<1>3. CASE log # "poisoned"
  <2>1. /\ pc' \in [Threads -> PCs] /\ calls' \in [Threads -> 0..MaxCalls]
        /\ answer' \in [Threads -> Answers]
        /\ pc'[t] = "open" /\ \A u \in Threads \ {t} : pc'[u] = pc[u]
        /\ \A u \in Threads : answer'[u] = answer[u]
    BY <1>1, <1>3, GotoFacts DEF PassOnce
  <2>2. BuildTypeOK'
    BY <2>1 DEF PassOnce, cells, BuildInv, CellInv, BuildTypeOK
  <2>3. log = "done"
    BY <1>1, <1>3 DEF PassOnce, BuildTypeOK
  <2> QED
    BY <2>1, <2>2, <2>3 DEF PassOnce, cells, BuildInv, CellInv, HooksBeforeOpen, SameAnswer
<1> QED
  BY <1>2, <1>3

LEMMA InstallInv == ASSUME BuildInv, NEW t \in Threads, Install(t) PROVE BuildInv'
<1>1. BuildTypeOK /\ "panic" \in Answers /\ "open" \in PCs
  BY DEF BuildInv, CellInv, Answers, PCs
<1>2. /\ logBy = t /\ log = "new" /\ hooks = 0 /\ weak \in {"ok", "partial"}
      /\ pc[t] = "install"
  BY ThreadsAssumption DEF Install, BuildInv, CellInv
<1>3. CASE weak = "ok"
  <2>1. /\ pc' \in [Threads -> PCs] /\ calls' \in [Threads -> 0..MaxCalls]
        /\ answer' \in [Threads -> Answers]
        /\ pc'[t] = "open" /\ \A u \in Threads \ {t} : pc'[u] = pc[u]
        /\ \A u \in Threads : answer'[u] = answer[u]
    BY <1>1, <1>3, GotoFacts DEF Install
  <2>2. BuildTypeOK'
    BY <1>2, <1>3, <2>1 DEF Install, BuildInv, CellInv, BuildTypeOK
  <2> QED
    BY <1>2, <1>3, <2>1, <2>2, ThreadsAssumption
       DEF Install, BuildInv, CellInv, BuildTypeOK, HooksBeforeOpen, SameAnswer
<1>4. CASE weak = "partial"
  <2>1. /\ pc' \in [Threads -> PCs] /\ calls' \in [Threads -> 0..MaxCalls]
        /\ answer' \in [Threads -> Answers]
        /\ pc'[t] = "idle" /\ answer'[t] = "panic"
        /\ \A u \in Threads \ {t} : pc'[u] = pc[u] /\ answer'[u] = answer[u]
    BY <1>1, <1>4, ReturnFacts DEF Install
  <2>2. BuildTypeOK'
    BY <1>2, <1>4, <2>1 DEF Install, BuildInv, CellInv, BuildTypeOK
  <2> QED
    BY <1>2, <1>4, <2>1, <2>2, ThreadsAssumption
       DEF Install, BuildInv, CellInv, BuildTypeOK, HooksBeforeOpen, SameAnswer
<1> QED
  BY <1>2, <1>3, <1>4

LEMMA OpenInv == ASSUME BuildInv, NEW t \in Threads, Open(t) PROVE BuildInv'
<1>1. PICK a \in {"client", "error"} : Return(t, a)
  BY DEF Open
<1>2. BuildTypeOK /\ a \in Answers
  BY DEF BuildInv, CellInv, Answers
<1>3. /\ pc' \in [Threads -> PCs] /\ calls' \in [Threads -> 0..MaxCalls]
      /\ answer' \in [Threads -> Answers]
      /\ pc'[t] = "idle" /\ answer'[t] = a
      /\ \A u \in Threads \ {t} : pc'[u] = pc[u] /\ answer'[u] = answer[u]
  BY <1>1, <1>2, ReturnFacts
<1>4. BuildTypeOK'
  BY <1>3 DEF Open, cells, BuildInv, CellInv, BuildTypeOK
<1> QED
  BY <1>3, <1>4 DEF Open, cells, BuildInv, CellInv, HooksBeforeOpen, SameAnswer

(* Who is inside which cell, and what the cells, the Once and the answers of *)
(* all threads imply of each other (sys.rs:48-63, client.rs:144-165).        *)
THEOREM Invariance == Spec => []BuildInv
<1>1. BuildInv /\ [Next]_vars => BuildInv'
  <2> SUFFICES ASSUME BuildInv, [Next]_vars PROVE BuildInv'
    OBVIOUS
  <2>1. ASSUME NEW t \in Threads, Call(t) \/ Step(t) PROVE BuildInv'
    BY <2>1, CallInv, FillWeakInv, WeakInv, FillLibInv, ReadLibInv, EnterOnceInv,
       PassOnceInv, InstallInv, OpenInv DEF Step
  <2>2. CASE UNCHANGED vars
    BY <2>2 DEF vars, cells, BuildInv, CellInv, BuildTypeOK, HooksBeforeOpen, SameAnswer
  <2> QED
    BY <2>1, <2>2 DEF Next
<1> QED
  BY InitInv, <1>1, PTL DEF Spec

-----------------------------------------------------------------------------
(* However many threads ask first, the shared library is loaded at most     *)
(* once, a failure included (sys.rs:34-53).                                 *)
THEOREM LibraryLoadedOnce == Spec => []LoadedOnce
<1>1. BuildInv => LoadedOnce
  BY DEF BuildInv, CellInv, LoadedOnce
<1> QED
  BY <1>1, Invariance, PTL

(* Nobody opens a client before the log functions are installed, which      *)
(* happens once (client.rs:144-165).                                        *)
THEOREM HooksComeFirst == Spec => []HooksBeforeOpen
<1>1. BuildInv => HooksBeforeOpen
  BY DEF BuildInv
<1> QED
  BY <1>1, Invariance, PTL

(* No caller gets a library where another one got a failure to load.        *)
THEOREM AnswersAgree == Spec => []SameAnswer
<1>1. BuildInv => SameAnswer
  BY DEF BuildInv
<1> QED
  BY <1>1, Invariance, PTL

(* What weak_library() has cached never changes (sys.rs:49-53).             *)
THEOREM CacheNeverChanges == Spec => CacheFinal
<1>1. BuildInv /\ [Next]_vars => (weak # "empty" => weak' = weak)
  <2> SUFFICES ASSUME BuildInv, [Next]_vars, weak # "empty" PROVE weak' = weak
    OBVIOUS
  <2>1. ASSUME NEW t \in Threads, Call(t) \/ Step(t) PROVE weak' = weak
    <3>1. ~Load(t)
      BY ThreadsAssumption DEF Load, BuildInv, CellInv
    <3> QED
      BY <2>1, <3>1 DEF Step, Call, FillWeak, ReadWeak, FillLib, ReadLib, EnterOnce,
                        PassOnce, Install, Open, cells
  <2> QED
    BY <2>1 DEF Next, vars, cells
<1> QED
  BY <1>1, Invariance, PTL DEF Spec, CacheFinal

-----------------------------------------------------------------------------
(* Nobody is stuck: whoever fills the cell of weak_library() or passes the  *)
(* Once can go on by itself, and whoever fills the cell of library() waits  *)
(* for the former at most, because nobody fills it and then asks for it     *)
(* (sys.rs:52-62, client.rs:145).                                           *)
THEOREM SomebodyGoesOn == Spec => []NobodyStuck
<1>1. BuildInv => NobodyStuck
  <2> SUFFICES ASSUME BuildInv, NEW t \in Threads, pc[t] # "idle"
               PROVE  \E u \in Threads : CanStep(u)
    BY DEF NobodyStuck
  <2> USE DEF BuildInv, CellInv
  <2>1. pc \in [Threads -> PCs] /\ weakBy \in Threads \cup {Nobody}
        /\ libBy \in Threads \cup {Nobody} /\ logBy \in Threads \cup {Nobody}
    BY DEF BuildTypeOK
  <2>2. CASE weakBy # Nobody
    BY <2>1, <2>2 DEF CanStep
  <2>3. CASE weakBy = Nobody /\ libBy # Nobody
    BY <2>1, <2>3 DEF CanStep
  <2>4. CASE weakBy = Nobody /\ libBy = Nobody /\ logBy # Nobody
    BY <2>1, <2>4 DEF CanStep
  <2>5. CASE weakBy = Nobody /\ libBy = Nobody /\ logBy = Nobody
    BY <2>1, <2>5 DEF CanStep, PCs
  <2> QED
    BY <2>2, <2>3, <2>4, <2>5
<1> QED
  BY <1>1, Invariance, PTL

-----------------------------------------------------------------------------
(* Refinement: loading is decided by the step that fills the cell, and a    *)
(* call answers by the step that returns.                                   *)
Asked == [t \in Threads |-> CallKind(pc[t])]

LEMMA AskedKept ==
  ASSUME BuildInv, NEW t \in Threads, NEW l \in PCs, Goto(t, l), CallKind(l) = CallKind(pc[t])
  PROVE  Asked' = Asked /\ answer' = answer
<1>1. pc' = [pc EXCEPT ![t] = l] /\ answer' = answer /\ pc \in [Threads -> PCs]
  BY DEF Goto, BuildInv, CellInv, BuildTypeOK
<1>2. \A u \in Threads : CallKind(pc[u])' = CallKind(pc[u])
  BY <1>1
<1> QED
  BY <1>1, <1>2 DEF Asked

LEMMA AskedReturn ==
  ASSUME BuildInv, NEW t \in Threads, NEW a, Return(t, a), pc[t] # "idle",
         weak' \in Loaded, weak \in {"empty", weak'},
         a \in LO!Outcomes[CallKind(pc[t])][weak']
  PROVE  LO!Answer(t)
<1>1. /\ pc' = [pc EXCEPT ![t] = "idle"] /\ pc \in [Threads -> PCs]
      /\ answer' = [answer EXCEPT ![t] = a]
  BY DEF Return, BuildInv, CellInv, BuildTypeOK
<1>2. CallKind("idle") = "nothing" /\ CallKind(pc[t]) # "nothing"
  BY DEF CallKind
<1>3. Asked' = [Asked EXCEPT ![t] = "nothing"]
  BY <1>1, <1>2 DEF Asked
<1> QED
  BY <1>1, <1>2, <1>3 DEF LO!Answer, LO!Loaded, Loaded, Asked

LEMMA InitMaps == Init => LO!Init
BY DEF Init, LO!Init, CallKind

LEMMA CallMaps == ASSUME BuildInv, NEW t \in Threads, Call(t) PROVE LO!Ask(t)
<1>1. PICK l \in {"weak", "lib"} : pc' = [pc EXCEPT ![t] = l]
  BY DEF Call
<1>2. pc[t] = "idle" /\ weak' = weak /\ pc \in [Threads -> PCs]
      /\ answer' = [answer EXCEPT ![t] = "none"]
  BY DEF Call, cells, BuildInv, CellInv, BuildTypeOK
<1>3. Asked' = [Asked EXCEPT ![t] = CallKind(l)] /\ CallKind(l) \in LO!CallKinds
  BY <1>1, <1>2 DEF Asked, CallKind, LO!CallKinds
<1>4. Asked[t] = "nothing"
  BY <1>2 DEF Asked, CallKind
<1> QED
  BY <1>2, <1>3, <1>4 DEF LO!Ask, Asked

(* The steps that fill or pass a cell do not show. *)
LEMMA HiddenMaps ==
  ASSUME BuildInv, NEW t \in Threads, FillWeak(t) \/ FillLib(t) \/ EnterOnce(t)
  PROVE  UNCHANGED LO!vars
<1>1. weak' = weak
  BY DEF FillWeak, FillLib, EnterOnce
<1>2. PICK l \in PCs : Goto(t, l) /\ CallKind(l) = CallKind(pc[t])
  BY DEF FillWeak, FillLib, EnterOnce, CallKind, PCs
<1> QED
  BY <1>1, <1>2, AskedKept DEF LO!vars, Asked

(* What a thread makes of the content of the cell of weak_library(). *)
LEMMA UseWeakMaps ==
  ASSUME BuildInv, NEW t \in Threads, NEW r \in Loaded, UseWeak(t, r),
         pc[t] \in {"weak", "libWeak", "load", "libLoad"},
         weak' = r, weak \in {"empty", r}
  PROVE  [LO!Next]_(LO!vars)
<1>1. CASE pc[t] \in {"weak", "load"} /\ r # "error"
  <2>1. Goto(t, "log") /\ CallKind("log") = CallKind(pc[t]) /\ "log" \in PCs
    BY <1>1 DEF UseWeak, CallKind, PCs
  <2>2. Asked' = Asked /\ answer' = answer /\ Asked[t] # "nothing"
    BY <1>1, <2>1, AskedKept DEF Asked, CallKind
  <2>3. CASE weak = "empty"
    BY <2>2, <2>3 DEF LO!Next, LO!Decide, LO!Loaded, Loaded, Asked
  <2>4. CASE weak = r
    BY <2>2, <2>4 DEF LO!vars, Asked
  <2> QED
    BY <2>3, <2>4
<1>2. CASE pc[t] \in {"weak", "load"} /\ r = "error"
  <2>1. Return(t, "error") /\ "error" \in LO!Outcomes[CallKind(pc[t])][weak']
    BY <1>2 DEF UseWeak, CallKind, LO!Outcomes
  <2> QED
    BY <1>2, <2>1, AskedReturn DEF LO!Next
<1>3. CASE pc[t] \in {"libWeak", "libLoad"}
  <2>1. PICK a \in {"panic", "library"} :
          Return(t, a) /\ (a = "panic" <=> r = "error")
    BY <1>3 DEF UseWeak
  <2>2. a \in LO!Outcomes[CallKind(pc[t])][weak']
    BY <1>3, <2>1 DEF CallKind, LO!Outcomes, Loaded
  <2> QED
    BY <1>3, <2>1, <2>2, AskedReturn DEF LO!Next
<1> QED
  BY <1>1, <1>2, <1>3

LEMMA WeakMaps ==
  ASSUME BuildInv, NEW t \in Threads, ReadWeak(t) \/ Load(t) PROVE [LO!Next]_(LO!vars)
<1>1. CASE ReadWeak(t)
  <2>1. weak \in Loaded
    BY <1>1 DEF ReadWeak, BuildInv, CellInv, BuildTypeOK
  <2> QED
    BY <1>1, <2>1, UseWeakMaps DEF ReadWeak
<1>2. CASE Load(t)
  <2>1. PICK r \in Loaded : weak' = r /\ UseWeak(t, r)
    BY <1>2 DEF Load
  <2>2. weak = "empty"
    BY <1>2, ThreadsAssumption DEF Load, BuildInv, CellInv
  <2> QED
    BY <1>2, <2>1, <2>2, UseWeakMaps DEF Load
<1> QED
  BY <1>1, <1>2

LEMMA LibMaps == ASSUME BuildInv, NEW t \in Threads, ReadLib(t) PROVE [LO!Next]_(LO!vars)
<1>1. weak \in {"ok", "partial"} /\ weak' = weak /\ pc[t] = "lib" /\ Return(t, "library")
  BY DEF ReadLib, cells, BuildInv, CellInv
<1>2. "library" \in LO!Outcomes[CallKind(pc[t])][weak']
  BY <1>1 DEF CallKind, LO!Outcomes
<1> QED
  BY <1>1, <1>2, AskedReturn DEF LO!Next, Loaded

(* A library without the log functions panics in every build(): in the one  *)
(* that tries to install them and in those that find the Once poisoned.     *)
LEMMA OnceMaps ==
  ASSUME BuildInv, NEW t \in Threads, PassOnce(t) \/ Install(t) PROVE [LO!Next]_(LO!vars)
<1>1. weak \in {"ok", "partial"} /\ weak' = weak /\ pc[t] \in {"log", "install"}
  BY DEF PassOnce, Install, cells, BuildInv, CellInv
<1>2. Goto(t, "open") \/ (weak = "partial" /\ Return(t, "panic"))
  BY <1>1 DEF PassOnce, Install, BuildInv, CellInv
<1>3. CASE Goto(t, "open")
  <2>1. CallKind("open") = CallKind(pc[t]) /\ "open" \in PCs
    BY <1>1 DEF CallKind, PCs
  <2> QED
    BY <1>1, <1>3, <2>1, AskedKept DEF LO!vars, Asked
<1>4. CASE weak = "partial" /\ Return(t, "panic")
  <2>1. "panic" \in LO!Outcomes[CallKind(pc[t])][weak']
    BY <1>1, <1>4 DEF CallKind, LO!Outcomes
  <2> QED
    BY <1>1, <1>4, <2>1, AskedReturn DEF LO!Next, Loaded
<1> QED
  BY <1>2, <1>3, <1>4

LEMMA OpenMaps == ASSUME BuildInv, NEW t \in Threads, Open(t) PROVE [LO!Next]_(LO!vars)
<1>1. PICK a \in {"client", "error"} : Return(t, a)
  BY DEF Open
<1>2. weak = "ok" /\ weak' = weak /\ pc[t] = "open"
  BY DEF Open, cells, BuildInv, CellInv
<1>3. a \in LO!Outcomes[CallKind(pc[t])][weak']
  BY <1>2 DEF CallKind, LO!Outcomes
<1> QED
  BY <1>1, <1>2, <1>3, AskedReturn DEF LO!Next, Loaded

LEMMA StepMaps == BuildInv /\ [Next]_vars => [LO!Next]_(LO!vars)
<1> SUFFICES ASSUME BuildInv, [Next]_vars PROVE [LO!Next]_(LO!vars)
  OBVIOUS
<1>1. ASSUME NEW t \in Threads, Call(t) PROVE [LO!Next]_(LO!vars)
  BY <1>1, CallMaps DEF LO!Next
<1>2. ASSUME NEW t \in Threads, Step(t) PROVE [LO!Next]_(LO!vars)
  BY <1>2, HiddenMaps, WeakMaps, LibMaps, OnceMaps, OpenMaps DEF Step
<1>3. CASE UNCHANGED vars
  BY <1>3 DEF vars, cells, LO!vars
<1> QED
  BY <1>1, <1>2, <1>3 DEF Next

(* However many threads race for the library, its functions and for clients *)
(* they behave as if loading were one atomic decision (sys.rs:30-63,        *)
(* client.rs:139-205).                                                      *)
THEOREM LibraryRefinement == Spec => ImplementsLibraryOnce
BY InitMaps, Invariance, StepMaps, PTL DEF Spec, ImplementsLibraryOnce, LO!Spec

=============================================================================
