------------------------- MODULE ForeignMemory_proofs -------------------------
(***************************************************************************)
(* TLAPS proofs about ForeignMemory, for any number of allocations and     *)
(* names of any length.                                                    *)
(***************************************************************************)
EXTENDS ForeignMemory, FiniteSetTheorems, TLAPS

(* What a call in progress holds. *)
CallExact ==
  /\ call \in {"names", "crashed"} <=> array # Null
  /\ call \in {"idle", "names", "crashed"} => strs = {}
  /\ call = "uuid" => \E a \in Addrs : strs = {a}

MemInv == OneOwnerEach /\ OnlyNameIsWrong /\ CallExact

(* OneOwnerEach apart from its types, with the owners as sets. *)
Owned ==
  /\ live = Held \cup descs \cup InLists \cup Parts(dropping) \cup leaked
  /\ Held \cap (descs \cup InLists \cup Parts(dropping) \cup leaked) = {}
  /\ descs \cap (InLists \cup Parts(dropping) \cup leaked) = {}
  /\ Parts(dropping) \cap (InLists \cup leaked) = {}
  /\ InLists \cap leaked = {}

ListsApart ==
  /\ \A l \in lists : l.array \notin l.elems
  /\ \A l, m \in lists : l # m => Parts(l) \cap Parts(m) = {}

DroppingApart == dropping # NoList => dropping.array \notin dropping.elems

LEMMA MemParts ==
  MemInv <=> MemTypeOK /\ Owned /\ ListsApart /\ DroppingApart /\ OnlyNameIsWrong /\ CallExact
BY DEF MemInv, OneOwnerEach, Owned, ListsApart, DroppingApart

LEMMA MemNext ==
  ASSUME MemTypeOK', Owned', ListsApart', DroppingApart', OnlyNameIsWrong', CallExact'
  PROVE  MemInv'
BY DEF MemInv, OneOwnerEach, Owned, ListsApart, DroppingApart

LEMMA MemInit == Init => MemInv
<1> SUFFICES ASSUME Init PROVE MemInv
  OBVIOUS
<1>1. MemTypeOK
  BY AddrsAssumption DEF Init, MemTypeOK, Calls
<1>2. Owned
  BY DEF Init, Owned, Held, InLists, Parts, ArrayOf, NoList
<1> QED
  BY <1>1, <1>2, MemParts DEF Init, ListsApart, DroppingApart, OnlyNameIsWrong, CallExact

(* Steps of a call: the lists and what is being dropped stay. *)
LEMMA ListsKept ==
  ASSUME ListsApart, DroppingApart, UNCHANGED <<lists, dropping>>
  PROVE  /\ ListsApart' /\ DroppingApart'
         /\ InLists' = InLists /\ Parts(dropping)' = Parts(dropping)
BY DEF ListsApart, DroppingApart, InLists, Parts, ArrayOf

LEMMA StringsCallMem == ASSUME MemInv, NEW S \in SUBSET Addrs, StringsCall(S) PROVE MemInv'
<1> USE MemParts
<1>1. ListsApart' /\ DroppingApart' /\ InLists' = InLists /\ Parts(dropping)' = Parts(dropping)
  BY ListsKept DEF StringsCall, valueVars
<1>2. MemTypeOK'
  BY DEF StringsCall, valueVars, MemTypeOK, Calls
<1>3. Owned'
  BY <1>1, AddrsAssumption DEF StringsCall, valueVars, Owned, Held, Fresh, CallExact, MemTypeOK
<1>4. OnlyNameIsWrong' /\ CallExact'
  BY DEF StringsCall, OnlyNameIsWrong, CallExact
<1> QED
  BY <1>1, <1>2, <1>3, <1>4, MemNext

(* The lent string is none of the allocations. *)
LEMMA NameCallMem == MemInv /\ NameCall => MemInv'
<1> SUFFICES ASSUME MemInv, NameCall PROVE MemInv'
  OBVIOUS
<1> USE MemParts
<1>1. ListsApart' /\ DroppingApart' /\ InLists' = InLists /\ Parts(dropping)' = Parts(dropping)
  BY ListsKept DEF NameCall, valueVars
<1>2. MemTypeOK'
  BY DEF NameCall, valueVars, MemTypeOK, Calls
<1>3. Owned'
  BY <1>1 DEF NameCall, valueVars, Owned, Held, CallExact
<1>4. OnlyNameIsWrong' /\ CallExact'
  BY DEF NameCall, OnlyNameIsWrong, CallExact
<1> QED
  BY <1>1, <1>2, <1>3, <1>4, MemNext

LEMMA StringsDropMem == ASSUME MemInv, NEW a \in strs, StringsDrop(a) PROVE MemInv'
<1> USE MemParts
<1>1. ListsApart' /\ DroppingApart' /\ InLists' = InLists /\ Parts(dropping)' = Parts(dropping)
  BY ListsKept DEF StringsDrop, valueVars
<1>2. a \in live \/ a = ClientName
  BY DEF StringsDrop, Owned, Held
<1>3. wrong' \subseteq {ClientName}
  BY <1>2 DEF StringsDrop, Free, OnlyNameIsWrong
<1>4. MemTypeOK'
  BY <1>3 DEF StringsDrop, Free, valueVars, MemTypeOK, Calls
<1>5. Owned'
  <2>1. Held' = Held \ {a}
    BY <1>1, <1>2, AddrsAssumption DEF StringsDrop, valueVars, Held, CallExact, MemTypeOK
  <2>2. live' = live \ {a} /\ (a \in Held \/ a \notin live)
    BY <1>2, AddrsAssumption DEF StringsDrop, Free, Held, MemTypeOK
  <2> QED
    BY <1>1, <2>1, <2>2 DEF StringsDrop, valueVars, Owned
<1>6. OnlyNameIsWrong' /\ CallExact'
  BY <1>3 DEF StringsDrop, OnlyNameIsWrong, CallExact
<1> QED
  BY <1>1, <1>4, <1>5, <1>6, MemNext

LEMMA UuidCallMem == ASSUME MemInv, NEW a \in Addrs, UuidCall(a) PROVE MemInv'
<1> USE MemParts
<1>1. ListsApart' /\ DroppingApart' /\ InLists' = InLists /\ Parts(dropping)' = Parts(dropping)
  BY ListsKept DEF UuidCall, valueVars
<1>2. MemTypeOK'
  BY DEF UuidCall, valueVars, MemTypeOK, Calls
<1>3. Owned'
  BY <1>1, AddrsAssumption DEF UuidCall, valueVars, Owned, Held, Fresh, CallExact, MemTypeOK
<1>4. OnlyNameIsWrong' /\ CallExact'
  BY DEF UuidCall, OnlyNameIsWrong, CallExact
<1> QED
  BY <1>1, <1>2, <1>3, <1>4, MemNext

LEMMA UuidParsedMem == MemInv /\ UuidParsed => MemInv'
<1> SUFFICES ASSUME MemInv, UuidParsed PROVE MemInv'
  OBVIOUS
<1> USE MemParts
<1>1. ListsApart' /\ DroppingApart' /\ InLists' = InLists /\ Parts(dropping)' = Parts(dropping)
  BY ListsKept DEF UuidParsed, valueVars
<1>2. PICK a \in strs : Free(a) /\ strs = {a} /\ a \in live
  BY AddrsAssumption DEF UuidParsed, CallExact, Owned, Held
<1>3. wrong' = wrong
  BY <1>2 DEF Free, OnlyNameIsWrong, MemTypeOK
<1>4. MemTypeOK'
  BY <1>2, <1>3 DEF UuidParsed, Free, valueVars, MemTypeOK, Calls
<1>5. Owned'
  <2>1. Held = {a} /\ Held' = {} /\ live' = live \ {a}
    BY <1>2, AddrsAssumption DEF UuidParsed, Free, Held, CallExact, MemTypeOK
  <2> QED
    BY <1>1, <2>1 DEF UuidParsed, valueVars, Owned
<1>6. OnlyNameIsWrong' /\ CallExact'
  BY <1>3 DEF UuidParsed, OnlyNameIsWrong, CallExact
<1> QED
  BY <1>1, <1>4, <1>5, <1>6, MemNext

(* The string of a panic has no owner any more. *)
LEMMA UuidPanicsMem == MemInv /\ UuidPanics => MemInv'
<1> SUFFICES ASSUME MemInv, UuidPanics PROVE MemInv'
  OBVIOUS
<1> USE MemParts
<1>1. ListsApart' /\ DroppingApart' /\ InLists' = InLists /\ Parts(dropping)' = Parts(dropping)
  BY ListsKept DEF UuidPanics, valueVars
<1>0. PICK a \in Addrs : strs = {a}
  BY DEF UuidPanics, CallExact
<1>2. MemTypeOK'
  BY <1>0 DEF UuidPanics, valueVars, MemTypeOK, Calls
<1>3. Owned'
  <2>1. Held = {a} /\ Held' = {} /\ leaked' = leaked \cup {a}
    BY <1>0, AddrsAssumption DEF UuidPanics, Held, CallExact
  <2> QED
    BY <1>1, <2>1 DEF UuidPanics, valueVars, Owned
<1>4. OnlyNameIsWrong' /\ CallExact'
  BY DEF UuidPanics, OnlyNameIsWrong, CallExact
<1> QED
  BY <1>1, <1>2, <1>3, <1>4, MemNext

LEMMA NamesCallMem ==
  ASSUME MemInv, NEW a \in Addrs, NEW n \in 0..MaxNames, NamesCall(a, n) PROVE MemInv'
<1> USE MemParts
<1>1. ListsApart' /\ DroppingApart' /\ InLists' = InLists /\ Parts(dropping)' = Parts(dropping)
  BY ListsKept DEF NamesCall, valueVars
<1>2. MemTypeOK'
  BY AddrsAssumption DEF NamesCall, valueVars, MemTypeOK, Calls
<1>3. Owned'
  BY <1>1, AddrsAssumption DEF NamesCall, valueVars, Owned, Held, Fresh, CallExact
<1>4. OnlyNameIsWrong' /\ CallExact'
  BY AddrsAssumption DEF NamesCall, OnlyNameIsWrong, CallExact
<1> QED
  BY <1>1, <1>2, <1>3, <1>4, MemNext

LEMMA ReadNameMem == MemInv /\ ReadName => MemInv'
<1> SUFFICES ASSUME MemInv, ReadName PROVE MemInv'
  OBVIOUS
<1> USE MemParts
<1>1. ListsApart' /\ DroppingApart' /\ InLists' = InLists /\ Parts(dropping)' = Parts(dropping)
  BY ListsKept DEF ReadName, valueVars
<1>2. MemTypeOK'
  BY AddrsAssumption DEF ReadName, valueVars, MemTypeOK, Calls
<1>3. Owned'
  BY <1>1 DEF ReadName, valueVars, Owned, Held
<1>4. OnlyNameIsWrong' /\ CallExact'
  BY DEF ReadName, OnlyNameIsWrong, CallExact
<1> QED
  BY <1>1, <1>2, <1>3, <1>4, MemNext

LEMMA ReadNullMem == MemInv /\ ReadNull => MemInv'
<1> SUFFICES ASSUME MemInv, ReadNull PROVE MemInv'
  OBVIOUS
<1> USE MemParts
<1>1. ListsApart' /\ DroppingApart' /\ InLists' = InLists /\ Parts(dropping)' = Parts(dropping)
  BY ListsKept DEF ReadNull, valueVars
<1>2. MemTypeOK'
  BY DEF ReadNull, valueVars, MemTypeOK, Calls
<1>3. Owned'
  BY <1>1 DEF ReadNull, valueVars, Owned, Held
<1>4. OnlyNameIsWrong' /\ CallExact'
  BY DEF ReadNull, OnlyNameIsWrong, CallExact
<1> QED
  BY <1>1, <1>2, <1>3, <1>4, MemNext

-----------------------------------------------------------------------------
(* The values that outlive their calls. *)

LEMMA PropertiesCallMem == ASSUME MemInv, NEW a \in Addrs, PropertiesCall(a) PROVE MemInv'
<1> USE MemParts
<1>1. ListsApart' /\ DroppingApart' /\ InLists' = InLists /\ Parts(dropping)' = Parts(dropping)
  BY ListsKept DEF PropertiesCall
<1>2. MemTypeOK'
  BY DEF PropertiesCall, callVars, MemTypeOK, Calls
<1>3. Owned'
  BY <1>1 DEF PropertiesCall, callVars, Owned, Held, Fresh
<1>4. OnlyNameIsWrong' /\ CallExact'
  BY DEF PropertiesCall, callVars, OnlyNameIsWrong, CallExact
<1> QED
  BY <1>1, <1>2, <1>3, <1>4, MemNext

LEMMA DescDropMem == ASSUME MemInv, NEW a \in Addrs, DescDrop(a) PROVE MemInv'
<1> USE MemParts
<1>1. ListsApart' /\ DroppingApart' /\ InLists' = InLists /\ Parts(dropping)' = Parts(dropping)
  BY ListsKept DEF DescDrop
<1>2. a \in live
  BY DEF DescDrop, Owned
<1>3. wrong' = wrong
  BY <1>2 DEF DescDrop, Free, OnlyNameIsWrong, MemTypeOK
<1>4. MemTypeOK'
  BY <1>3 DEF DescDrop, Free, callVars, MemTypeOK, Calls
<1>5. Owned'
  BY <1>1 DEF DescDrop, Free, callVars, Owned, Held
<1>6. OnlyNameIsWrong' /\ CallExact'
  BY <1>3 DEF DescDrop, callVars, OnlyNameIsWrong, CallExact
<1> QED
  BY <1>1, <1>4, <1>5, <1>6, MemNext

(* The parts of a list, and which sets they make up. *)
LEMMA PartsFacts ==
  ASSUME NEW l \in List
  PROVE  Parts(l) = {l.array} \cup l.elems /\ Parts(l) \subseteq Addrs /\ l # NoList
BY AddrsAssumption DEF List, NoList, Parts, ArrayOf

LEMMA NoListFacts == Parts(NoList) = {} /\ NoList \notin List
BY AddrsAssumption DEF List, NoList, Parts, ArrayOf

LEMMA AllPropertiesCallMem ==
  ASSUME MemInv, NEW a \in Addrs, NEW E \in SUBSET Addrs, AllPropertiesCall(a, E)
  PROVE  MemInv'
<1> USE MemParts
<1> DEFINE l == [array |-> a, elems |-> E]
<1>1. l \in List /\ l.array = a /\ l.elems = E /\ a \notin E
  BY DEF List, AllPropertiesCall
<1>2. Parts(l) = {a} \cup E
  BY <1>1, PartsFacts
<1>3. lists' = lists \cup {l} /\ UNCHANGED <<callVars, descs, dropping, leaked, wrong>>
  BY DEF AllPropertiesCall
<1> HIDE DEF l
<1>4. InLists' = InLists \cup {a} \cup E
  BY <1>2, <1>3 DEF InLists, Parts, ArrayOf
<1>5. live' = live \cup {a} \cup E /\ ({a} \cup E) \cap live = {}
  BY DEF AllPropertiesCall, Fresh
<1>6. MemTypeOK'
  BY <1>1, <1>3, <1>5 DEF callVars, MemTypeOK, Calls
<1>7. Owned'
  <2>1. Parts(dropping)' = Parts(dropping)
    BY <1>3 DEF Parts, ArrayOf
  <2> QED
    BY <2>1, <1>3, <1>4, <1>5 DEF callVars, Owned, Held
<1>8. ListsApart' /\ DroppingApart'
  <2>1. \A m \in lists : Parts(m) \subseteq live
    BY DEF Owned, InLists
  <2>2. \A m \in lists : Parts(m) \cap Parts(l) = {}
    BY <2>1, <1>2, <1>5
  <2>3. \A m \in lists' : m.array \notin m.elems
    BY <1>1, <1>3 DEF ListsApart
  <2>4. \A m, n \in lists' : m # n => Parts(m) \cap Parts(n) = {}
    BY <2>2, <1>3 DEF ListsApart
  <2> QED
    BY <2>3, <2>4, <1>3 DEF ListsApart, DroppingApart, Parts, ArrayOf
<1>9. OnlyNameIsWrong' /\ CallExact'
  BY <1>3 DEF callVars, OnlyNameIsWrong, CallExact
<1> QED
  BY <1>6, <1>7, <1>8, <1>9, MemNext

LEMMA ListDropMem == ASSUME MemInv, NEW l \in lists, ListDrop(l) PROVE MemInv'
<1> USE MemParts
<1>1. l \in List
  BY DEF MemTypeOK
<1>2. /\ dropping = NoList /\ dropping' = l /\ lists' = lists \ {l}
      /\ UNCHANGED <<live, callVars, descs, leaked, wrong>>
  BY DEF ListDrop
<1>3. Parts(dropping) = {} /\ Parts(dropping)' = Parts(l)
  BY <1>2, NoListFacts DEF Parts, ArrayOf
<1>4. InLists' = InLists \ Parts(l)
  <2>1. \A m \in lists \ {l} : Parts(m) \cap Parts(l) = {}
    BY DEF ListsApart
  <2>2. InLists' = UNION {Parts(m) : m \in lists \ {l}}
    BY <1>2 DEF InLists, Parts, ArrayOf
  <2>3. UNION {Parts(m) : m \in lists \ {l}} = (UNION {Parts(m) : m \in lists}) \ Parts(l)
    BY <2>1
  <2> QED
    BY <2>2, <2>3 DEF InLists
<1>5. Parts(l) \subseteq InLists
  BY DEF InLists
<1>6. MemTypeOK'
  BY <1>1, <1>2 DEF callVars, MemTypeOK, Calls
<1>7. Owned'
  BY <1>2, <1>3, <1>4, <1>5 DEF callVars, Owned, Held
<1>8. ListsApart' /\ DroppingApart'
  BY <1>2 DEF ListsApart, DroppingApart, Parts, ArrayOf
<1>9. OnlyNameIsWrong' /\ CallExact'
  BY <1>2 DEF callVars, OnlyNameIsWrong, CallExact
<1> QED
  BY <1>6, <1>7, <1>8, <1>9, MemNext

LEMMA ListDropElemMem == ASSUME MemInv, NEW a \in Addrs, ListDropElem(a) PROVE MemInv'
<1> USE MemParts
<1>1. dropping \in List /\ a \in dropping.elems /\ dropping.array \notin dropping.elems
  BY NoListFacts DEF ListDropElem, MemTypeOK, NoList, DroppingApart
<1>2. /\ dropping' \in List /\ dropping'.array = dropping.array
      /\ dropping'.elems = dropping.elems \ {a}
  BY <1>1 DEF ListDropElem, List
<1>3. /\ Parts(dropping) = {dropping.array} \cup dropping.elems
      /\ Parts(dropping)' = Parts(dropping) \ {a}
  <2>1. Parts(dropping) = {dropping.array} \cup dropping.elems
    BY <1>1, PartsFacts
  <2>2. Parts(dropping') = {dropping.array} \cup (dropping.elems \ {a})
    BY <1>2, PartsFacts
  <2> QED
    BY <1>1, <2>1, <2>2 DEF Parts, ArrayOf
<1>4. a \in live /\ a \in Parts(dropping)
  BY <1>1, <1>3 DEF Owned
<1>5. live' = live \ {a} /\ wrong' = wrong
  BY <1>4 DEF ListDropElem, Free, OnlyNameIsWrong, MemTypeOK
<1>6. MemTypeOK'
  BY <1>2, <1>5 DEF ListDropElem, callVars, MemTypeOK, Calls
<1>7. Owned'
  <2>1. InLists' = InLists
    BY DEF ListDropElem, InLists, Parts, ArrayOf
  <2> QED
    BY <2>1, <1>3, <1>4, <1>5 DEF ListDropElem, callVars, Owned, Held
<1>8. ListsApart' /\ DroppingApart'
  <2>1. lists' = lists
    BY DEF ListDropElem
  <2> QED
    BY <2>1, <1>1, <1>2 DEF ListsApart, DroppingApart, Parts, ArrayOf
<1>9. OnlyNameIsWrong' /\ CallExact'
  BY <1>5 DEF ListDropElem, callVars, OnlyNameIsWrong, CallExact
<1> QED
  BY <1>6, <1>7, <1>8, <1>9, MemNext

LEMMA ListDropArrayMem == MemInv /\ ListDropArray => MemInv'
<1> SUFFICES ASSUME MemInv, ListDropArray PROVE MemInv'
  OBVIOUS
<1> USE MemParts
<1>1. dropping \in List /\ dropping.elems = {} /\ dropping' = NoList
  BY DEF ListDropArray, MemTypeOK
<1>2. Parts(dropping) = {dropping.array} /\ Parts(dropping)' = {}
  <2>1. Parts(dropping) = {dropping.array}
    BY <1>1, PartsFacts
  <2> QED
    BY <2>1, <1>1, NoListFacts DEF Parts, ArrayOf
<1>3. dropping.array \in live
  BY <1>2 DEF Owned
<1>4. live' = live \ {dropping.array} /\ wrong' = wrong
  BY <1>3 DEF ListDropArray, Free, OnlyNameIsWrong, MemTypeOK
<1>5. MemTypeOK'
  BY <1>1, <1>4 DEF ListDropArray, callVars, MemTypeOK, Calls
<1>6. Owned'
  <2>1. InLists' = InLists
    BY DEF ListDropArray, InLists, Parts, ArrayOf
  <2> QED
    BY <2>1, <1>2, <1>3, <1>4 DEF ListDropArray, callVars, Owned, Held
<1>7. ListsApart' /\ DroppingApart'
  <2>1. lists' = lists
    BY DEF ListDropArray
  <2> QED
    BY <2>1, <1>1 DEF ListsApart, DroppingApart, Parts, ArrayOf
<1>8. OnlyNameIsWrong' /\ CallExact'
  BY <1>4 DEF ListDropArray, callVars, OnlyNameIsWrong, CallExact
<1> QED
  BY <1>5, <1>6, <1>7, <1>8, MemNext

(* Every allocation has one owner, and each kind of call holds what it got  *)
(* until it returns (lib.rs:216-234, properties.rs:26-151, port.rs:303-337). *)
THEOREM MemInvariance == Spec => []MemInv
<1>1. MemInv /\ [Next]_vars => MemInv'
  <2> SUFFICES ASSUME MemInv, [Next]_vars PROVE MemInv'
    OBVIOUS
  <2>1. CASE Next
    BY <2>1, StringsCallMem, StringsDropMem, UuidCallMem, UuidParsedMem, UuidPanicsMem,
       NameCallMem, NamesCallMem, ReadNameMem, ReadNullMem, PropertiesCallMem, DescDropMem,
       AllPropertiesCallMem, ListDropMem, ListDropElemMem, ListDropArrayMem
       DEF Next, Step
  <2>2. CASE UNCHANGED vars
    <3> USE MemParts DEF vars, callVars, valueVars
    <3>1. ListsApart' /\ DroppingApart' /\ InLists' = InLists /\ Parts(dropping)' = Parts(dropping)
      BY <2>2, ListsKept
    <3>2. MemTypeOK'
      BY <2>2 DEF MemTypeOK, Calls
    <3>3. Owned'
      BY <2>2, <3>1 DEF Owned, Held
    <3>4. OnlyNameIsWrong' /\ CallExact'
      BY <2>2 DEF OnlyNameIsWrong, CallExact
    <3> QED
      BY <3>1, <3>2, <3>3, <3>4, MemNext
  <2> QED
    BY <2>1, <2>2
<1> QED
  BY MemInit, <1>1, PTL DEF Spec

-----------------------------------------------------------------------------
(* Every allocation the server handed out has one owner at every moment     *)
(* (lib.rs:216-234, properties.rs:101-151, port.rs:330-337).                *)
THEOREM OneOwner == Spec => []OneOwnerEach
<1>1. MemInv => OneOwnerEach
  BY DEF MemInv
<1> QED
  BY <1>1, MemInvariance, PTL

(* But for the lent name nothing is freed that is not owned, in whatever     *)
(* order values are dropped (client.rs:610-614, lib.rs:216-234).             *)
THEOREM NoForeignFree == Spec => []OnlyNameIsWrong
<1>1. MemInv => OnlyNameIsWrong
  BY DEF MemInv
<1> QED
  BY <1>1, MemInvariance, PTL

(* Without values nothing is left but what a panic leaked (lib.rs:161-171). *)
THEOREM NothingRemains == Spec => []NothingLeft
<1>1. MemInv => NothingLeft
  BY MemParts, NoListFacts DEF NothingLeft, CallExact, Owned, Held, InLists
<1> QED
  BY <1>1, MemInvariance, PTL

=============================================================================
