---------------------------- MODULE UpdateProofs ----------------------------
(***************************************************************************)
(* A label that a call has set stays as it was set until a call sets out   *)
(* to change it, and what others write is lost only to labels that are     *)
(* older than the object they are written with -- for any keys, number of  *)
(* attempts, lag of the cache, maps held, failed Updates, lost answers and *)
(* crashes, if every call for a label verifies the label that it sets.     *)
(*                                                                         *)
(* The argument: an Update succeeds only with the resourceVersion of the   *)
(* newest version, and that was read from the cache.  So the cache was     *)
(* up to date, and what it shows from then on is what was written.         *)
(***************************************************************************)
EXTENDS UpdateProperties, TLAPS

(* What the calls for labels must be like.                                 *)
VerifiesItsLabel ==
    \A c \in Calls : c.kind = "label" =>
        c.verify = c.key /\ (c.type = "deletion" => c.value = Absent)

OnLabels == op.call.kind = "label"
HasMap == op.pc \in {"update", "refetch", "fetch", "verify"}
HasWritten == op.pc \in {"fetch", "verify"}

(* A copy in memory has the labels of others as they were when it was read *)
(* from the cache ...                                                      *)
Faithful(m) ==
    m.at # 0 => m.at \in 1..seen /\ \A k \in ForeignLabels : m.is[k] = versions[m.at][k]

(* ... it may have the operator's as they were set ...                     *)
Knows(m) == \A k \in LabelKeys : told[k] # Unknown => m.is[k] = told[k]

(* ... and an object that can be written does.                             *)
Sound(o) == o.rv \in 0..seen /\ Faithful(o) /\ (o.rv = Len(versions) => Knows(o))

MemorySound == Sound(op.node) /\ Sound(op.callers) /\ Faithful(op.map) /\ Faithful(op.held)

NoCallersYet == op.pc \in {"idle", "read"} => op.callers = NoObject

Began == op.from \in 1..Len(versions)

(* The label of a call under way is in doubt ...                           *)
InDoubt == op.pc # "idle" /\ OnLabels => told[op.call.key] = Unknown

(* ... and the call's map has the others as they were set.                 *)
MapKnows == HasMap /\ OnLabels => op.map.is[op.call.key] = op.call.value /\ Knows(op.map)

(* The object that is written carries the map, as the caller's does.       *)
CarriesMap ==
    /\ op.pc \in {"update", "refetch"} /\ OnLabels =>
          \A k \in Labels : op.node.is[k] = op.map.is[k]
    /\ HasMap /\ OnLabels /\ op.callers # NoObject =>
          op.callers.is[op.call.key] = op.call.value

(* The object that is verified has been fetched.                           *)
AsFetched == op.pc = "verify" => op.node.rv # 0 /\ op.node.is = versions[op.node.rv]

(* The newest version, and all newer than the cache, have what a call has  *)
(* just written.                                                           *)
KeyWritten ==
    HasWritten /\ OnLabels =>
        /\ Store[op.call.key] = op.call.value
        /\ \A i \in seen + 1..Len(versions) : versions[i][op.call.key] = op.call.value

MapWritten == (HasWritten \/ op.result = "ok") /\ OnLabels => WroteItsMap

NoResultYet == op.pc # "idle" => op.result = "none"

UpdateInv ==
    /\ TypeOK
    /\ NoResultYet /\ NoCallersYet /\ Began /\ MemorySound
    /\ InDoubt /\ MapKnows /\ CarriesMap /\ AsFetched /\ KeyWritten /\ MapWritten
    /\ AcknowledgedStays

-----------------------------------------------------------------------------
LEMMA TypesKnown ==
    ASSUME TypeOK
    PROVE  /\ Len(versions) \in Nat \ {0} /\ seen \in 1..Len(versions)
           /\ Store \in Contents /\ Cached \in Contents
           /\ \A i \in 1..Len(versions) : versions[i] \in Contents
           /\ op \in Workers /\ op.call \in CallTypes
           /\ op.node \in Objects /\ op.callers \in Objects
           /\ op.map \in Copies /\ op.held \in Copies
           /\ OnLabels => op.call.key \in LabelKeys
           /\ op.call.key \in Keys
BY UpdateAssumption DEF TypeOK, Store, Cached, Workers, OnLabels, CallTypes

LEMMA KeysApart ==
    /\ LabelKeys \subseteq Labels /\ ForeignLabels \subseteq Labels
    /\ Labels \subseteq Keys /\ AnnotationKeys \subseteq Keys
    /\ Labels \cap AnnotationKeys = {} /\ LabelKeys \cap ForeignLabels = {}
BY UpdateAssumption DEF Labels, Keys

LEMMA EmptyCopies ==
    /\ Nothing \in Contents
    /\ NoCopy \in Copies /\ NoCopy.at = 0 /\ NoCopy.is = Nothing
    /\ NoObject \in Objects /\ NoObject.rv = 0 /\ NoObject.at = 0 /\ NoObject.is = Nothing
BY DEF Nothing, Contents, NoCopy, Copies, NoObject, Objects

LEMMA NoObjectIsSound == ASSUME TypeOK PROVE Sound(NoObject) /\ Faithful(NoCopy)
BY TypesKnown, EmptyCopies DEF Sound, Faithful

(* What comes from the cache is sound.                                     *)
LEMMA NodeAtSound ==
    ASSUME TypeOK, AcknowledgedStays, NEW i \in 1..seen
    PROVE  /\ NodeAt(i) \in Objects /\ Sound(NodeAt(i))
           /\ NodeAt(i).rv = i /\ NodeAt(i).is = versions[i]
<1>1. i \in 1..Len(versions) /\ i \in Nat /\ i # 0 /\ versions[i] \in Contents
  BY TypesKnown
<1>2. NodeAt(i) = [rv |-> i, at |-> i, is |-> versions[i]]
  BY DEF NodeAt
<1>3. NodeAt(i) \in Objects /\ NodeAt(i).rv = i /\ NodeAt(i).at = i
      /\ NodeAt(i).is = versions[i]
  BY <1>1, <1>2 DEF Objects
<1>4. Faithful(NodeAt(i))
  BY <1>3 DEF Faithful
<1>5. ASSUME i = Len(versions) PROVE Knows(NodeAt(i))
  BY <1>3, <1>5, TypesKnown DEF Knows, AcknowledgedStays
<1>6. i \in 0..seen
  BY TypesKnown
<1> QED
  BY <1>3, <1>4, <1>5, <1>6 DEF Sound

LEMMA CacheIsFaithful ==
    ASSUME TypeOK, AcknowledgedStays, NEW m \in Copies, m.at = seen, m.is = Cached
    PROVE  Faithful(m) /\ Knows(m)
BY TypesKnown DEF Faithful, Knows, Cached, AcknowledgedStays

(* A map with the key of the call changed, ...                             *)
LEMMA ChangedMap ==
    ASSUME NEW m \in Copies, NEW c \in CallTypes,
           c.key \in IF c.kind = "label" THEN LabelKeys ELSE AnnotationKeys
    PROVE  /\ Changed(m, c) \in Copies /\ Changed(m, c).at = m.at
           /\ Changed(m, c).is[c.key] = c.value
           /\ \A k \in Keys \ {c.key} : Changed(m, c).is[k] = m.is[k]
           /\ Faithful(m) => Faithful(Changed(m, c))
<1>1. c.key \in Keys /\ c.key \notin ForeignLabels
  BY KeysApart
<1>2. /\ Changed(m, c) \in Copies /\ Changed(m, c).at = m.at
      /\ Changed(m, c).is = [m.is EXCEPT ![c.key] = c.value]
  BY DEF Changed, Copies, Contents, CallTypes
<1>3. /\ Changed(m, c).is[c.key] = c.value
      /\ \A k \in Keys \ {c.key} : Changed(m, c).is[k] = m.is[k]
  BY <1>1, <1>2 DEF Copies, Contents
<1> QED
  BY <1>1, <1>2, <1>3, KeysApart DEF Faithful

(* ... and an object that carries a map.                                   *)
LEMMA CarriedMap ==
    ASSUME NEW o \in Objects, NEW m \in Copies, NEW kind \in {"label", "annotation"}
    PROVE  LET c == Carrying(o, kind, m)
           IN  /\ c \in Objects /\ c.rv = o.rv
               /\ kind = "label" => c.at = m.at /\ \A k \in Labels : c.is[k] = m.is[k]
               /\ kind = "annotation" => c.at = o.at /\ \A k \in Labels : c.is[k] = o.is[k]
<1> DEFINE is == [k \in Keys |-> IF k \in Part(kind) THEN m.is[k] ELSE o.is[k]]
           at == IF kind = "label" THEN m.at ELSE o.at
           c == Carrying(o, kind, m)
<1>1. is \in Contents /\ at \in Nat
  BY DEF Objects, Copies, Contents
<1>2. c = [o EXCEPT !.at = at, !.is = is]
  BY DEF Carrying
<1>3. c \in Objects /\ c.rv = o.rv /\ c.at = at /\ c.is = is
  BY <1>1, <1>2 DEF Objects
<1>4. kind = "label" => \A k \in Labels : is[k] = m.is[k]
  BY KeysApart DEF Part
<1>5. kind = "annotation" => \A k \in Labels : is[k] = o.is[k]
  BY KeysApart DEF Part
<1> QED
  BY <1>3, <1>4, <1>5

LEMMA CarryingSound ==
    ASSUME NEW o \in Objects, NEW m \in Copies, NEW kind \in {"label", "annotation"},
           Sound(o), Faithful(m), kind = "label" => Knows(m)
    PROVE  Sound(Carrying(o, kind, m))
<1> DEFINE c == Carrying(o, kind, m)
<1>1. CASE kind = "label"
  <2>1. c.rv = o.rv /\ c.at = m.at /\ \A k \in Labels : c.is[k] = m.is[k]
    BY <1>1, CarriedMap
  <2> HIDE DEF c
  <2> QED
    BY <1>1, <2>1, KeysApart DEF Sound, Faithful, Knows, c
<1>2. CASE kind = "annotation"
  <2>1. c.rv = o.rv /\ c.at = o.at /\ \A k \in Labels : c.is[k] = o.is[k]
    BY <1>2, CarriedMap
  <2> HIDE DEF c
  <2> QED
    BY <1>2, <2>1, KeysApart DEF Sound, Faithful, Knows, c
<1> QED
  BY <1>1, <1>2

-----------------------------------------------------------------------------
(* Versions are added, the cache moves on, and no label becomes known.     *)
Grows ==
    /\ versions' \in Seq(Contents) /\ Len(versions) <= Len(versions')
    /\ \A i \in 1..Len(versions) : versions'[i] = versions[i]
    /\ seen' \in seen..Len(versions')
    /\ \A k \in LabelKeys : told'[k] \in {told[k], Unknown}

(* What is in memory stays sound.                                          *)
LEMMA FaithfulStays ==
    ASSUME TypeOK, Grows, NEW m, Faithful(m)
    PROVE  Faithful(m)'
BY TypesKnown DEF Faithful, Grows

LEMMA SoundStays ==
    ASSUME TypeOK, Grows, NEW o \in Objects, Sound(o)
    PROVE  Sound(o)'
<1>1. o.rv \in 0..seen' /\ Len(versions') \in Nat
  BY TypesKnown DEF Sound, Grows
<1>2. Faithful(o)'
  BY FaithfulStays DEF Sound
<1>3. ASSUME o.rv = Len(versions') PROVE Knows(o)'
  <2>1. o.rv = Len(versions)
    BY <1>1, <1>3, TypesKnown DEF Sound, Grows
  <2> QED
    BY <2>1 DEF Sound, Knows, Grows
<1> QED
  BY <1>1, <1>2, <1>3 DEF Sound

(* A step that leaves the versions, the cache and what is known.           *)
Unmoved == UNCHANGED <<versions, seen, told>>

LEMMA UnmovedGrows == ASSUME TypeOK, Unmoved PROVE Grows
BY TypesKnown DEF TypeOK, Unmoved, Grows

LEMMA MemorySoundNext ==
    ASSUME UpdateInv, Grows, op' \in Workers,
           Sound(op'.node), Sound(op'.callers), Faithful(op'.map), Faithful(op'.held)
    PROVE  MemorySound'
<1>1. TypeOK /\ op'.node \in Objects /\ op'.callers \in Objects
  BY DEF UpdateInv, Workers
<1> QED
  BY <1>1, SoundStays, FaithfulStays DEF MemorySound, Sound, Faithful, Knows

LEMMA SpendBudget ==
    ASSUME TypeOK, NEW e \in Events, Spend(e) PROVE budget' \in [Events -> Nat]
BY DEF TypeOK, Spend

LEMMA InitUpdateInv == Init => UpdateInv
<1> SUFFICES ASSUME Init PROVE UpdateInv
  OBVIOUS
<1>1. PICK c \in Calls :
        op = [ pc |-> "idle", call |-> c, node |-> NoObject, callers |-> NoObject,
               map |-> NoCopy, held |-> NoCopy, from |-> 1, attempt |-> 1, result |-> "none" ]
  BY DEF Init
<1>2. /\ versions = <<Nothing>> /\ seen = 1
      /\ versions \in Seq(Contents) /\ Len(versions) = 1 /\ Store = Nothing
  BY EmptyCopies DEF Init, Store
<1>3. op \in Workers
  <2>1. 1 \in 1..MaxAttempts /\ 1 \in Nat
    BY UpdateAssumption
  <2> QED
    BY <1>1, <2>1, EmptyCopies DEF Workers
<1>4. TypeOK
  BY <1>2, <1>3, UpdateAssumption DEF Init, TypeOK
<1>5. AcknowledgedStays
  BY <1>2, KeysApart DEF Init, AcknowledgedStays, Nothing
<1>6. MemorySound
  BY <1>1, <1>4, NoObjectIsSound DEF MemorySound
<1> QED
  BY <1>1, <1>2, <1>4, <1>5, <1>6
     DEF UpdateInv, NoResultYet, NoCallersYet, Began, InDoubt, MapKnows, CarriesMap,
         AsFetched, KeyWritten, MapWritten, HasMap, HasWritten

(* Between calls.                                                          *)
LEMMA IdleInv ==
    ASSUME op'.pc = "idle", op'.result # "ok", TypeOK', MemorySound', AcknowledgedStays',
           op'.callers = NoObject, op'.from \in 1..Len(versions')
    PROVE  UpdateInv'
BY DEF UpdateInv, NoResultYet, NoCallersYet, Began, InDoubt, MapKnows, CarriesMap,
       AsFetched, KeyWritten, MapWritten, HasMap, HasWritten

LEMMA HoldInv == ASSUME UpdateInv, Hold PROVE UpdateInv'
<1> DEFINE copy == [at |-> seen, is |-> Cached]
<1>1. TypeOK /\ AcknowledgedStays /\ op.pc = "idle" /\ Unmoved
  BY DEF UpdateInv, Hold, Unmoved
<1>2. copy \in Copies /\ Faithful(copy)
  <2>1. copy \in Copies
    BY <1>1, TypesKnown DEF Copies
  <2> QED
    BY <1>1, <2>1, CacheIsFaithful
<1>3. op' = [op EXCEPT !.held = copy]
  BY DEF Hold
<1>4. /\ op' \in Workers /\ op'.pc = op.pc /\ op'.call = op.call /\ op'.node = op.node
      /\ op'.callers = op.callers /\ op'.map = op.map /\ op'.held = copy
      /\ op'.from = op.from /\ op'.result = op.result
  BY <1>1, <1>2, <1>3, TypesKnown DEF Workers
<1>5. MemorySound'
  BY <1>1, <1>2, <1>4, UnmovedGrows, MemorySoundNext DEF UpdateInv, MemorySound
<1>6. TypeOK' /\ AcknowledgedStays'
  BY <1>1, <1>4 DEF TypeOK, AcknowledgedStays, Hold
<1>7. MapWritten'
  BY <1>1, <1>4
     DEF UpdateInv, MapWritten, HasWritten, OnLabels, WroteItsMap, Part, Unmoved
<1> QED
  BY <1>1, <1>4, <1>5, <1>6, <1>7
     DEF UpdateInv, NoResultYet, NoCallersYet, Began, InDoubt, MapKnows, CarriesMap,
         AsFetched, KeyWritten, HasMap, HasWritten, Unmoved

(* The object of a call is sound.                                          *)
LEMMA AtHandIsSound ==
    ASSUME UpdateInv, NEW o \in ObjectsAtHand PROVE o \in Objects /\ Sound(o)
<1>1. TypeOK /\ AcknowledgedStays /\ MemorySound
  BY DEF UpdateInv
<1>2. CASE o = NodeAt(seen)
  BY <1>1, <1>2, NodeAtSound, TypesKnown
<1>3. CASE o = op.node
  BY <1>1, <1>3, TypesKnown DEF MemorySound
<1>4. ASSUME NEW i \in {op.held.at} \ {0}, o = NodeAt(i) PROVE o \in Objects /\ Sound(o)
  <2>1. i \in 1..seen
    BY <1>1, <1>4 DEF MemorySound, Faithful
  <2> QED
    BY <1>1, <1>4, <2>1, NodeAtSound
<1> QED
  BY <1>2, <1>3, <1>4 DEF ObjectsAtHand

LEMMA CallIsKnown ==
    ASSUME NEW c \in Calls
    PROVE  /\ c \in CallTypes /\ c.kind \in {"label", "annotation"}
           /\ c.key \in IF c.kind = "label" THEN LabelKeys ELSE AnnotationKeys
BY UpdateAssumption DEF CallTypes

LEMMA BeginInv == ASSUME UpdateInv, NEW c \in Calls, Begin(c) PROVE UpdateInv'
<1>1. TypeOK /\ AcknowledgedStays /\ MemorySound /\ op.pc = "idle" /\ NoCallersYet
  BY DEF UpdateInv, Begin
<1>2. PICK o \in ObjectsAtHand :
          op' = [op EXCEPT !.pc = "read", !.call = c, !.node = o,
                           !.from = Len(versions), !.attempt = 1, !.result = "none"]
  BY DEF Begin
<1>3. o \in Objects /\ Sound(o)
  BY AtHandIsSound
<1>4. /\ op' \in Workers /\ op'.pc = "read" /\ op'.call = c /\ op'.node = o
      /\ op'.callers = op.callers /\ op'.map = op.map /\ op'.held = op.held
      /\ op'.from = Len(versions) /\ op'.result = "none"
  <2>1. 1 \in 1..MaxAttempts /\ Len(versions) \in Nat
    BY <1>1, UpdateAssumption, TypesKnown
  <2> QED
    BY <1>1, <1>2, <1>3, <2>1, TypesKnown DEF Workers
<1>5. UNCHANGED <<versions, seen>>
  BY DEF Begin
<1>6. /\ told' \in [LabelKeys -> Values \cup {Absent, Unknown}]
      /\ \A k \in LabelKeys : told'[k] \in {told[k], Unknown}
      /\ c.kind = "label" => told'[c.key] = Unknown
  BY <1>1, CallIsKnown DEF Begin, TypeOK
<1>7. Grows
  BY <1>1, <1>5, <1>6, TypesKnown DEF Grows, TypeOK
<1>8. TypeOK'
  BY <1>1, <1>4, <1>5, <1>6, SpendBudget DEF Begin, TypeOK, Events
<1>9. MemorySound'
  BY <1>1, <1>3, <1>4, <1>7, MemorySoundNext DEF MemorySound
<1>10. AcknowledgedStays'
  BY <1>1, <1>5, <1>6 DEF AcknowledgedStays
<1>11. InDoubt'
  BY <1>4, <1>6 DEF InDoubt, OnLabels
<1> QED
  BY <1>1, <1>4, <1>5, <1>8, <1>9, <1>10, <1>11, TypesKnown
     DEF UpdateInv, NoResultYet, NoCallersYet, Began, MapKnows, CarriesMap,
         AsFetched, KeyWritten, MapWritten, HasMap, HasWritten

LEMMA BeginWithHeldInv ==
    ASSUME UpdateInv, NEW c \in Calls, BeginWithHeld(c) PROVE UpdateInv'
<1> DEFINE map == Changed(op.held, c)
<1>1. /\ TypeOK /\ AcknowledgedStays /\ MemorySound /\ op.pc = "idle" /\ NoCallersYet
      /\ c.kind = "label" /\ c.key \in LabelKeys
  BY CallIsKnown DEF UpdateInv, BeginWithHeld
<1>2. PICK o \in ObjectsAtHand :
          op' = [op EXCEPT !.pc = "update", !.call = c, !.node = Carrying(o, "label", map),
                           !.map = map, !.held = map,
                           !.from = Len(versions), !.attempt = 1, !.result = "none"]
  BY DEF BeginWithHeld
<1>3. /\ map \in Copies /\ Faithful(map) /\ map.is[c.key] = c.value
      /\ \A k \in LabelKeys \ {c.key} : map.is[k] = op.held.is[k]
  BY <1>1, CallIsKnown, ChangedMap, TypesKnown, KeysApart DEF MemorySound
<1> HIDE DEF map
<1>4. UNCHANGED <<versions, seen>>
  BY DEF BeginWithHeld
<1>5. told' = [k \in LabelKeys |-> IF k = c.key \/ k \in Outdated(op.held) THEN Unknown
                                   ELSE told[k]]
  BY DEF BeginWithHeld
<1>6. /\ told' \in [LabelKeys -> Values \cup {Absent, Unknown}]
      /\ \A k \in LabelKeys : told'[k] \in {told[k], Unknown}
      /\ told'[c.key] = Unknown
  BY <1>1, <1>5 DEF TypeOK
<1>7. \A k \in LabelKeys : told'[k] # Unknown => map.is[k] = told'[k]
  BY <1>3, <1>5 DEF Outdated
<1>8. Grows
  BY <1>1, <1>4, <1>6, TypesKnown DEF Grows, TypeOK
<1> DEFINE n == Carrying(o, "label", map)
<1>9. /\ o \in Objects /\ Sound(o) /\ n \in Objects /\ n.rv = o.rv /\ n.at = map.at
      /\ \A k \in Labels : n.is[k] = map.is[k]
  BY <1>3, AtHandIsSound, CarriedMap
<1> HIDE DEF n
<1>10. /\ op' \in Workers /\ op'.pc = "update" /\ op'.call = c /\ op'.node = n
       /\ op'.callers = op.callers /\ op'.map = map /\ op'.held = map
       /\ op'.from = Len(versions) /\ op'.result = "none"
  <2>1. 1 \in 1..MaxAttempts /\ Len(versions) \in Nat
    BY <1>1, UpdateAssumption, TypesKnown
  <2> QED
    BY <1>1, <1>2, <1>3, <1>9, <2>1, TypesKnown DEF Workers, n
<1>11. TypeOK'
  BY <1>1, <1>4, <1>6, <1>10, SpendBudget DEF BeginWithHeld, TypeOK, Events
<1>12. MemorySound'
  <2>1. Faithful(op.map)' /\ Faithful(op.held)'
    BY <1>3, <1>4, <1>10 DEF Faithful
  <2>2. Sound(op.callers)'
    <3>1. op.callers \in Objects /\ op'.callers = op.callers
      BY <1>1, <1>10, TypesKnown
    <3> QED
      BY <1>1, <1>8, <3>1, SoundStays DEF MemorySound, Sound, Faithful, Knows
  <2>3. Sound(op.node)'
    <3>1. op'.node.rv \in 0..seen'
      BY <1>4, <1>9, <1>10 DEF Sound
    <3>2. Faithful(op.node)'
      BY <1>3, <1>4, <1>9, <1>10, KeysApart DEF Faithful
    <3>3. Knows(op.node)'
      BY <1>7, <1>9, <1>10, KeysApart DEF Knows
    <3> QED
      BY <3>1, <3>2, <3>3 DEF Sound
  <2> QED
    BY <2>1, <2>2, <2>3 DEF MemorySound
<1>13. AcknowledgedStays'
  BY <1>1, <1>4, <1>6 DEF AcknowledgedStays
<1>14. InDoubt' /\ MapKnows' /\ CarriesMap'
  BY <1>1, <1>3, <1>6, <1>7, <1>9, <1>10
     DEF InDoubt, MapKnows, Knows, CarriesMap, NoCallersYet, OnLabels
<1> QED
  BY <1>1, <1>4, <1>10, <1>11, <1>12, <1>13, <1>14, TypesKnown
     DEF UpdateInv, NoResultYet, NoCallersYet, Began, AsFetched, KeyWritten, MapWritten,
         HasWritten

LEMMA ReadMapInv == ASSUME UpdateInv, ReadMap PROVE UpdateInv'
<1> DEFINE source == IF op.call.kind = "label" THEN [at |-> seen, is |-> Cached]
                     ELSE [at |-> op.node.at, is |-> op.node.is]
           map == Changed(source, op.call)
           node == Carrying(op.node, op.call.kind, map)
<1>1. /\ TypeOK /\ AcknowledgedStays /\ MemorySound /\ op.pc = "read" /\ NoCallersYet
      /\ NoResultYet /\ Began /\ InDoubt /\ Unmoved
  BY DEF UpdateInv, ReadMap, Unmoved
<1>2. op.call \in Calls
  BY <1>1 DEF TypeOK, Workers
<1>3. source \in Copies /\ Faithful(source) /\ (OnLabels => Knows(source))
  <2>1. CASE OnLabels
    <3>1. source = [at |-> seen, is |-> Cached]
      BY <2>1 DEF OnLabels
    <3>2. source \in Copies /\ source.at = seen /\ source.is = Cached
      BY <1>1, <3>1, TypesKnown DEF Copies
    <3> QED
      BY <1>1, <3>2, CacheIsFaithful
  <2>2. CASE ~OnLabels
    <3>1. source = [at |-> op.node.at, is |-> op.node.is] /\ op.node \in Objects
      BY <1>1, <2>2, TypesKnown DEF OnLabels
    <3>2. source \in Copies /\ source.at = op.node.at /\ source.is = op.node.is
      BY <3>1 DEF Copies, Objects
    <3> QED
      BY <1>1, <2>2, <3>2 DEF MemorySound, Sound, Faithful
  <2> QED
    BY <2>1, <2>2
<1> HIDE DEF source
<1>4. /\ map \in Copies /\ Faithful(map) /\ map.is[op.call.key] = op.call.value
      /\ \A k \in Keys \ {op.call.key} : map.is[k] = source.is[k]
  BY <1>2, <1>3, CallIsKnown, ChangedMap
<1>5. OnLabels => Knows(map)
  BY <1>1, <1>3, <1>4, KeysApart DEF Knows, InDoubt
<1>6. op' = [op EXCEPT !.pc = "update", !.map = map, !.node = node]
  BY DEF ReadMap, source
<1> HIDE DEF map
<1>7. /\ node \in Objects /\ Sound(node)
      /\ OnLabels => \A k \in Labels : node.is[k] = map.is[k]
  BY <1>1, <1>2, <1>4, <1>5, CallIsKnown, CarriedMap, CarryingSound, TypesKnown
     DEF MemorySound, OnLabels
<1> HIDE DEF node
<1>8. /\ op' \in Workers /\ op'.pc = "update" /\ op'.call = op.call /\ op'.node = node
      /\ op'.callers = op.callers /\ op'.map = map /\ op'.held = op.held
      /\ op'.from = op.from /\ op'.result = op.result
  BY <1>1, <1>4, <1>6, <1>7, TypesKnown DEF Workers
<1>9. TypeOK'
  BY <1>1, <1>8 DEF ReadMap, TypeOK
<1>10. MemorySound'
  BY <1>1, <1>4, <1>7, <1>8, UnmovedGrows, MemorySoundNext DEF MemorySound
<1>11. MapKnows' /\ CarriesMap'
  BY <1>1, <1>4, <1>5, <1>7, <1>8
     DEF MapKnows, CarriesMap, NoCallersYet, OnLabels, Knows, Unmoved
<1>12. InDoubt' /\ Began' /\ AcknowledgedStays'
  BY <1>1, <1>8 DEF InDoubt, Began, AcknowledgedStays, OnLabels, Unmoved
<1> QED
  BY <1>1, <1>8, <1>9, <1>10, <1>11, <1>12
     DEF UpdateInv, NoResultYet, NoCallersYet, AsFetched, KeyWritten, MapWritten, HasWritten

-----------------------------------------------------------------------------
(* A call goes on, or gives up, and nothing is written.                    *)
SameCall == op'.call = op.call /\ op'.map = op.map /\ op'.held = op.held /\ op'.from = op.from

(* What a step of a call leaves in memory: the object in hand and the      *)
(* caller's are sound, and as the place in the call has them.              *)
ObjectsFit ==
    /\ Sound(op'.node) /\ Sound(op'.callers)
    /\ op'.pc = "idle" => op'.callers = NoObject
    /\ op'.pc \in {"update", "refetch"} /\ OnLabels =>
          \A k \in Labels : op'.node.is[k] = op.map.is[k]
    /\ OnLabels /\ op'.callers # NoObject => op'.callers.is[op.call.key] = op.call.value
    /\ op'.pc = "verify" => op'.node.rv # 0 /\ op'.node.is = versions[op'.node.rv]

LEMMA CallGoesOn ==
    ASSUME UpdateInv, HasMap, Unmoved,
           budget' \in [Events -> Nat], op' \in Workers, SameCall, ObjectsFit,
           op'.pc \in {"idle", "update", "refetch", "fetch", "verify"},
           HasWritten' => HasWritten \/ ~OnLabels,
           op'.result = IF op'.pc = "idle" THEN "failed" ELSE "none"
    PROVE  UpdateInv'
<1>1. /\ TypeOK /\ AcknowledgedStays /\ MemorySound /\ Began /\ InDoubt /\ MapKnows
      /\ KeyWritten /\ MapWritten /\ op.pc # "idle"
  BY DEF UpdateInv, HasMap
<1>2. TypeOK' /\ NoResultYet' /\ Began' /\ AcknowledgedStays' /\ NoCallersYet'
  BY <1>1
     DEF TypeOK, NoResultYet, Began, AcknowledgedStays, NoCallersYet, SameCall, ObjectsFit,
         Unmoved
<1>3. MemorySound'
  BY <1>1, UnmovedGrows, MemorySoundNext DEF MemorySound, ObjectsFit, SameCall
<1>4. InDoubt' /\ MapKnows' /\ KeyWritten'
  BY <1>1
     DEF InDoubt, MapKnows, Knows, KeyWritten, HasMap, HasWritten, OnLabels, SameCall,
         Store, Unmoved
<1>5. CarriesMap' /\ AsFetched'
  BY DEF CarriesMap, AsFetched, ObjectsFit, OnLabels, SameCall, Unmoved
<1>6. MapWritten'
  <2> SUFFICES ASSUME HasWritten', OnLabels PROVE WroteItsMap'
    BY DEF MapWritten, OnLabels, SameCall
  <2>1. WroteItsMap
    BY <1>1 DEF MapWritten
  <2> QED
    BY <2>1 DEF WroteItsMap, Part, SameCall, Unmoved
<1> QED
  BY <1>2, <1>3, <1>4, <1>5, <1>6 DEF UpdateInv

LEMMA MaxIsNat == MaxAttempts \in Nat \ {0}
BY UpdateAssumption

(* The worker in an attempt, with its objects.                             *)
WorkingOn(w) ==
    /\ w \in Workers /\ w.call = op.call /\ w.map = op.map /\ w.held = op.held
    /\ w.from = op.from /\ w.result = "none"
    /\ Sound(w.node) /\ Sound(w.callers)
    /\ OnLabels /\ w.callers # NoObject => w.callers.is[op.call.key] = op.call.value

LEMMA Working ==
    ASSUME UpdateInv, HasMap
    PROVE  /\ TypeOK /\ op \in Workers /\ op.result = "none" /\ op.pc # "idle"
           /\ op.call \in Calls /\ op.call.kind \in {"label", "annotation"}
           /\ budget \in [Events -> Nat] /\ WorkingOn(op)
           /\ Faithful(op.map) /\ (OnLabels => Knows(op.map))
<1>1. /\ TypeOK /\ MemorySound /\ NoResultYet /\ MapKnows /\ CarriesMap
  BY DEF UpdateInv
<1>2. op \in Workers /\ op.call \in Calls /\ budget \in [Events -> Nat] /\ op.pc # "idle"
  BY <1>1 DEF TypeOK, Workers, HasMap
<1> QED
  BY <1>1, <1>2, CallIsKnown
     DEF MemorySound, NoResultYet, MapKnows, CarriesMap, WorkingOn, HasMap

LEMMA RetryChanges ==
    ASSUME UpdateInv, HasMap, NEW w, WorkingOn(w), Retry(w)
    PROVE  /\ op' \in Workers /\ SameCall /\ ObjectsFit
           /\ op'.pc \in {"idle", "update"}
           /\ op'.result = IF op'.pc = "idle" THEN "failed" ELSE "none"
<1>1. /\ w.node \in Objects /\ w.callers \in Objects /\ w.map \in Copies
      /\ w.map = op.map /\ w.call = op.call
  BY DEF WorkingOn, Workers
<1>2. CASE w.attempt < MaxAttempts
  <2> DEFINE n == Carrying(w.node, w.call.kind, w.map)
  <2>1. w.attempt + 1 \in 1..MaxAttempts
    BY <1>2, MaxIsNat DEF WorkingOn, Workers
  <2>2. op' = [w EXCEPT !.pc = "update", !.node = n, !.attempt = w.attempt + 1]
    BY <1>2 DEF Retry, Again
  <2>3. /\ n \in Objects /\ Sound(n)
        /\ OnLabels => \A k \in Labels : n.is[k] = op.map.is[k]
    BY <1>1, Working, CarriedMap, CarryingSound DEF WorkingOn, OnLabels
  <2> HIDE DEF n
  <2>4. /\ op' \in Workers /\ op'.pc = "update" /\ op'.node = n /\ op'.callers = w.callers
        /\ op'.result = w.result /\ op'.call = w.call /\ op'.map = w.map
        /\ op'.held = w.held /\ op'.from = w.from
    BY <2>1, <2>2, <2>3 DEF WorkingOn, Workers
  <2> QED
    BY <2>3, <2>4 DEF WorkingOn, SameCall, ObjectsFit
<1>3. CASE ~(w.attempt < MaxAttempts)
  <2> DEFINE n == IF w.callers = NoObject THEN w.node ELSE w.callers
  <2>1. op' = [w EXCEPT !.pc = "idle", !.result = "failed", !.node = n,
                        !.callers = NoObject]
    BY <1>3 DEF Retry, Returned
  <2>2. n \in Objects /\ Sound(n) /\ NoObject \in Objects /\ Sound(NoObject)
    BY <1>1, Working, EmptyCopies, NoObjectIsSound DEF WorkingOn
  <2> HIDE DEF n
  <2>3. /\ op' \in Workers /\ op'.pc = "idle" /\ op'.node = n /\ op'.callers = NoObject
        /\ op'.result = "failed" /\ op'.call = w.call /\ op'.map = w.map
        /\ op'.held = w.held /\ op'.from = w.from
    BY <2>1, <2>2 DEF WorkingOn, Workers
  <2> QED
    BY <2>2, <2>3 DEF WorkingOn, SameCall, ObjectsFit
<1> QED
  BY <1>2, <1>3

LEMMA AfterErrorChanges ==
    ASSUME UpdateInv, HasMap, NEW w, WorkingOn(w), AfterError(w)
    PROVE  /\ op' \in Workers /\ SameCall /\ ObjectsFit
           /\ op'.pc \in {"idle", "update", "fetch"}
           /\ HasWritten' => ~OnLabels
           /\ op'.result = IF op'.pc = "idle" THEN "failed" ELSE "none"
<1>1. w.call = op.call
  BY DEF WorkingOn
<1>2. CASE OnLabels
  BY <1>1, <1>2, RetryChanges DEF AfterError, OnLabels, HasWritten
<1>3. CASE ~OnLabels
  <2>1. op' = [w EXCEPT !.pc = "fetch"]
    BY <1>1, <1>3 DEF AfterError, OnLabels
  <2>2. /\ op' \in Workers /\ op'.pc = "fetch" /\ op'.node = w.node /\ op'.callers = w.callers
        /\ op'.result = w.result /\ op'.call = w.call /\ op'.map = w.map
        /\ op'.held = w.held /\ op'.from = w.from
    BY <2>1 DEF WorkingOn, Workers
  <2> QED
    BY <1>3, <2>2 DEF WorkingOn, SameCall, ObjectsFit, OnLabels
<1> QED
  BY <1>2, <1>3

LEMMA ConflictInv == ASSUME UpdateInv, Conflict PROVE UpdateInv'
<1>1. HasMap /\ op.pc = "update" /\ CarriesMap /\ Unmoved /\ UNCHANGED budget
  BY DEF Conflict, HasMap, UpdateInv, Unmoved
<1>2. /\ op' \in Workers /\ SameCall /\ op'.pc = "refetch" /\ op'.result = "none"
      /\ op'.node = op.node /\ op'.callers = op.callers
  BY <1>1, Working DEF Conflict, At, Workers, SameCall
<1>3. ObjectsFit
  BY <1>1, <1>2, Working DEF ObjectsFit, WorkingOn, CarriesMap
<1> QED
  BY <1>1, <1>2, <1>3, Working, CallGoesOn DEF HasWritten

LEMMA RefetchInv == ASSUME UpdateInv, Refetch PROVE UpdateInv'
<1> DEFINE callers == IF op.callers = NoObject THEN op.node ELSE op.callers
           w == [op EXCEPT !.node = NodeAt(seen), !.callers = callers]
<1>1. /\ HasMap /\ op.pc = "refetch" /\ Unmoved /\ UNCHANGED budget
      /\ AcknowledgedStays /\ CarriesMap /\ MapKnows
  BY DEF Refetch, HasMap, UpdateInv, Unmoved
<1>2. AfterError(w)
  BY DEF Refetch
<1>3. /\ NodeAt(seen) \in Objects /\ Sound(NodeAt(seen))
      /\ callers \in Objects /\ Sound(callers)
  BY <1>1, Working, NodeAtSound, TypesKnown DEF WorkingOn
<1>4. OnLabels => callers.is[op.call.key] = op.call.value
  BY <1>1, Working, TypesKnown, KeysApart DEF CarriesMap, MapKnows
<1> HIDE DEF callers
<1>5. /\ w \in Workers /\ w.call = op.call /\ w.map = op.map /\ w.held = op.held
      /\ w.from = op.from /\ w.result = op.result
      /\ w.node = NodeAt(seen) /\ w.callers = callers
  BY <1>1, <1>3, Working DEF Workers
<1>6. WorkingOn(w)
  BY <1>1, <1>3, <1>4, <1>5, Working DEF WorkingOn
<1> HIDE DEF w
<1> QED
  BY <1>1, <1>2, <1>6, Working, AfterErrorChanges, CallGoesOn

LEMMA FetchInv == ASSUME UpdateInv, Fetch PROVE UpdateInv'
<1>1. /\ HasMap /\ HasWritten /\ Unmoved /\ UNCHANGED budget /\ AcknowledgedStays
  BY DEF Fetch, HasMap, HasWritten, UpdateInv, Unmoved
<1>2. /\ NodeAt(seen) \in Objects /\ Sound(NodeAt(seen)) /\ NodeAt(seen).rv # 0
      /\ NodeAt(seen).is = versions[NodeAt(seen).rv]
  BY <1>1, Working, NodeAtSound, TypesKnown
<1>3. op' = [op EXCEPT !.pc = "verify", !.node = NodeAt(seen)]
  BY DEF Fetch
<1>4. /\ op' \in Workers /\ SameCall /\ op'.pc = "verify" /\ op'.result = "none"
      /\ op'.node = NodeAt(seen) /\ op'.callers = op.callers
  BY <1>1, <1>2, <1>3, Working DEF Workers, SameCall
<1>5. ObjectsFit
  BY <1>1, <1>2, <1>4, Working DEF ObjectsFit, WorkingOn
<1> QED
  BY <1>1, <1>4, <1>5, Working, CallGoesOn DEF HasWritten

-----------------------------------------------------------------------------
(* An Update that reaches the API server has the newest resourceVersion,   *)
(* so that the cache is up to date, and it writes what is known as it was. *)
LEMMA CacheIsUpToDate ==
    ASSUME UpdateInv, UpToDate
    PROVE  seen = Len(versions) /\ Knows(op.node)
<1>1. TypeOK /\ Sound(op.node)
  BY DEF UpdateInv, MemorySound
<1> QED
  BY <1>1, TypesKnown DEF Sound, UpToDate

(* WriteNode adds a version or none.                                       *)
LEMMA WriteNodeAppends ==
    ASSUME TypeOK, WriteNode
    PROVE  /\ versions' \in Seq(Contents)
           /\ Len(versions') \in {Len(versions), Len(versions) + 1}
           /\ \A i \in 1..Len(versions) : versions'[i] = versions[i]
           /\ \A i \in Len(versions) + 1..Len(versions') : versions'[i] = op.node.is
           /\ Store' = op.node.is
<1>1. op.node.is \in Contents
  BY TypesKnown DEF Objects
<1>2. CASE op.node.is = Store
  BY <1>2, TypesKnown DEF WriteNode, TypeOK, Store
<1>3. CASE op.node.is # Store
  BY <1>1, <1>3, TypesKnown DEF WriteNode, TypeOK, Store
<1> QED
  BY <1>2, <1>3

LEMMA WriteNodeKeepsKnown ==
    ASSUME UpdateInv, UpToDate, WriteNode, UNCHANGED <<seen, told>>
    PROVE  AcknowledgedStays' /\ Grows
<1>1. TypeOK /\ AcknowledgedStays /\ Knows(op.node) /\ Len(versions) \in Nat
  BY CacheIsUpToDate, TypesKnown DEF UpdateInv
<1>2. ASSUME NEW k \in LabelKeys, told[k] # Unknown, NEW i \in seen..Len(versions')
      PROVE  versions'[i][k] = told[k]
  <2>1. CASE i \in 1..Len(versions)
    BY <1>1, <1>2, <2>1, WriteNodeAppends, TypesKnown DEF AcknowledgedStays
  <2>2. CASE i \in Len(versions) + 1..Len(versions')
    BY <1>1, <1>2, <2>2, WriteNodeAppends DEF Knows
  <2> QED
    BY <1>1, <2>1, <2>2, WriteNodeAppends, TypesKnown
<1>3. Grows
  BY <1>1, WriteNodeAppends, TypesKnown DEF Grows
<1> QED
  BY <1>2, <1>3 DEF AcknowledgedStays

LEMMA WriteNodeWrites ==
    ASSUME UpdateInv, op.pc = "update", UpToDate, WriteNode, OnLabels, UNCHANGED seen, SameCall
    PROVE  /\ WroteItsMap' /\ Store'[op.call.key] = op.call.value
           /\ \A i \in seen + 1..Len(versions') :
                  versions'[i][op.call.key] = op.call.value
<1>1. /\ TypeOK /\ seen = Len(versions) /\ Len(versions) \in Nat /\ HasMap /\ MapKnows
      /\ CarriesMap /\ Began
  BY CacheIsUpToDate, TypesKnown DEF UpdateInv, HasMap
<1>2. \A k \in Labels : op.node.is[k] = op.map.is[k]
  BY <1>1 DEF CarriesMap
<1>3. op.node.is[op.call.key] = op.call.value
  BY <1>1, <1>2, TypesKnown, KeysApart DEF MapKnows
<1>4. /\ Store'[op.call.key] = op.call.value
      /\ \A i \in seen + 1..Len(versions') : versions'[i][op.call.key] = op.call.value
  BY <1>1, <1>3, WriteNodeAppends
<1>5. \A k \in Labels : versions'[Len(versions')][k] = op.map.is[k]
  BY <1>1, <1>2, WriteNodeAppends DEF Store
<1>6. Len(versions') \in op.from..Len(versions')
  BY <1>1, WriteNodeAppends DEF Began
<1> QED
  BY <1>4, <1>5, <1>6 DEF WroteItsMap, Part, OnLabels, SameCall

(* A step that writes, but for what a successful Update promises.          *)
LEMMA WriteNodeKeepsRest ==
    ASSUME UpdateInv, op.pc = "update", UpToDate, WriteNode, UNCHANGED <<seen, told>>,
           budget' \in [Events -> Nat], op' \in Workers, SameCall, ObjectsFit,
           op'.pc \in {"idle", "update", "fetch"},
           op'.result = IF op'.pc = "idle" THEN "failed" ELSE "none"
    PROVE  /\ TypeOK' /\ NoResultYet' /\ NoCallersYet' /\ Began' /\ MemorySound'
           /\ InDoubt' /\ MapKnows' /\ CarriesMap' /\ AsFetched' /\ AcknowledgedStays'
<1>1. /\ TypeOK /\ MemorySound /\ Began /\ InDoubt /\ MapKnows /\ HasMap /\ op.pc # "idle"
      /\ Grows /\ AcknowledgedStays'
  BY WriteNodeKeepsKnown DEF UpdateInv, HasMap
<1>2. TypeOK' /\ NoResultYet' /\ NoCallersYet' /\ Began'
  BY <1>1, WriteNodeAppends, TypesKnown
     DEF TypeOK, NoResultYet, NoCallersYet, Began, SameCall, ObjectsFit
<1>3. MemorySound'
  BY <1>1, MemorySoundNext DEF MemorySound, ObjectsFit, SameCall
<1>4. InDoubt' /\ MapKnows' /\ CarriesMap' /\ AsFetched'
  BY <1>1
     DEF InDoubt, MapKnows, Knows, CarriesMap, AsFetched, OnLabels, SameCall, ObjectsFit
<1> QED
  BY <1>1, <1>2, <1>3, <1>4

LEMMA UpdateStepInv == ASSUME UpdateInv, Update PROVE UpdateInv'
<1>1. /\ op.pc = "update" /\ HasMap /\ UpToDate /\ WriteNode /\ CarriesMap
      /\ UNCHANGED <<seen, told, budget>>
  BY DEF Update, HasMap, UpdateInv
<1>2. /\ op' \in Workers /\ SameCall /\ op'.pc = "fetch" /\ op'.result = "none"
      /\ op'.node = op.node /\ op'.callers = op.callers
  BY <1>1, Working DEF Update, At, Workers, SameCall
<1>3. ObjectsFit
  BY <1>1, <1>2, Working DEF ObjectsFit, WorkingOn
<1>4. KeyWritten' /\ MapWritten'
  BY <1>1, <1>2, WriteNodeWrites DEF KeyWritten, MapWritten, OnLabels, SameCall
<1> QED
  BY <1>1, <1>2, <1>3, <1>4, Working, WriteNodeKeepsRest DEF UpdateInv

LEMMA UpdateFailsInv == ASSUME UpdateInv, UpdateFails PROVE UpdateInv'
<1>1. op.pc = "update" /\ HasMap /\ AfterError(op) /\ UNCHANGED <<seen, told>>
  BY DEF UpdateFails, HasMap
<1>2. budget' \in [Events -> Nat]
  BY <1>1, Working, SpendBudget DEF UpdateFails, Events
<1>3. /\ op' \in Workers /\ SameCall /\ ObjectsFit
      /\ op'.pc \in {"idle", "update", "fetch"}
      /\ HasWritten' => ~OnLabels
      /\ op'.result = IF op'.pc = "idle" THEN "failed" ELSE "none"
  BY <1>1, Working, AfterErrorChanges
<1>4. CASE UNCHANGED versions
  BY <1>1, <1>2, <1>3, <1>4, CallGoesOn DEF Unmoved
<1>5. CASE UpToDate /\ WriteNode
  <2>1. KeyWritten' /\ MapWritten'
    BY <1>3 DEF KeyWritten, MapWritten, OnLabels, SameCall
  <2> QED
    BY <1>1, <1>2, <1>3, <1>5, <2>1, WriteNodeKeepsRest DEF UpdateInv
<1> QED
  BY <1>4, <1>5 DEF UpdateFails

(* A successful call: the key is as the caller meant it.                   *)
LEMMA VerifiedKey ==
    ASSUME VerifiesItsLabel, UpdateInv, op.pc = "verify", OnLabels, Verified
    PROVE  Cached[op.call.key] = op.call.value
BY Working
   DEF VerifiesItsLabel, Verified, OnLabels, HasMap, UpdateInv, MapKnows

LEMMA VerifyInv == ASSUME VerifiesItsLabel, UpdateInv, Verify PROVE UpdateInv'
<1>1. /\ op.pc = "verify" /\ HasMap /\ HasWritten /\ UNCHANGED <<versions, seen, budget>>
      /\ CarriesMap /\ AsFetched /\ KeyWritten /\ MapWritten /\ MemorySound /\ Began
      /\ AcknowledgedStays /\ TypeOK
  BY DEF Verify, HasMap, HasWritten, UpdateInv
<1>2. CASE ~Verified
  <2>1. Retry(op) /\ UNCHANGED told
    BY <1>2 DEF Verify
  <2> QED
    BY <1>1, <2>1, Working, RetryChanges, CallGoesOn DEF HasWritten, Unmoved
<1>3. CASE Verified
  <2> DEFINE n == IF op.callers = NoObject THEN op.node ELSE op.callers
  <2>1. op' = [op EXCEPT !.pc = "idle", !.result = "ok", !.node = n, !.callers = NoObject]
    BY <1>3 DEF Verify, Returned
  <2>2. n \in Objects /\ NoObject \in Objects
    BY <1>1, Working, TypesKnown, EmptyCopies
  <2>3. Sound(n) /\ Sound(NoObject)
    BY <1>1, Working, NoObjectIsSound DEF MemorySound
  <2>4. ASSUME OnLabels, n.rv = Len(versions) PROVE n.is[op.call.key] = op.call.value
    <3>1. CASE op.callers = NoObject
      BY <1>1, <2>4, <3>1 DEF AsFetched, KeyWritten, Store
    <3>2. CASE op.callers # NoObject
      BY <1>1, <2>4, <3>2 DEF CarriesMap
    <3> QED
      BY <3>1, <3>2
  <2> HIDE DEF n
  <2>5. /\ op' \in Workers /\ SameCall /\ op'.pc = "idle" /\ op'.result = "ok"
        /\ op'.node = n /\ op'.callers = NoObject
    BY <1>1, <2>1, <2>2, Working DEF Workers, SameCall
  <2>6. /\ ~OnLabels => told' = told
        /\ OnLabels => told' = [told EXCEPT ![op.call.key] = op.call.value]
    BY <1>3 DEF Verify, OnLabels
  <2>7. TypeOK'
    BY <1>1, <2>5, <2>6, Working, TypesKnown DEF TypeOK, CallTypes
  <2>8. MemorySound'
    <3>1. Faithful(op.map)' /\ Faithful(op.held)'
      BY <1>1, <2>5 DEF MemorySound, Faithful, SameCall
    <3>2. Sound(op.callers)'
      BY <1>1, <2>5, Working, EmptyCopies, TypesKnown DEF Sound, Faithful
    <3>3. ASSUME n.rv = Len(versions) PROVE Knows(op.node)'
      <4>1. Knows(n)
        BY <2>3, <3>3 DEF Sound
      <4> QED
        BY <1>1, <2>4, <2>5, <2>6, <3>3, <4>1, TypesKnown DEF Knows, TypeOK
    <3>4. Sound(op.node)'
      BY <1>1, <2>3, <2>5, <3>3 DEF Sound, Faithful
    <3> QED
      BY <3>1, <3>2, <3>4 DEF MemorySound
  <2>9. MapWritten'
    BY <1>1, <2>5 DEF MapWritten, WroteItsMap, Part, OnLabels, SameCall
  <2>10. AcknowledgedStays'
    <3> SUFFICES ASSUME NEW k \in LabelKeys, told'[k] # Unknown,
                        NEW i \in seen..Len(versions)
                 PROVE  versions[i][k] = told'[k]
      BY <1>1 DEF AcknowledgedStays
    <3>1. CASE OnLabels /\ k = op.call.key
      <4>1. told'[k] = op.call.value
        BY <1>1, <2>6, <3>1, TypesKnown DEF TypeOK
      <4>2. CASE i = seen
        BY <1>1, <1>3, <3>1, <4>1, <4>2, VerifiedKey DEF Cached
      <4>3. CASE i # seen
        <5>1. i \in seen + 1..Len(versions)
          <6>1. seen \in Nat /\ Len(versions) \in Nat
            BY <1>1, TypesKnown
          <6> QED
            BY <4>3, <6>1
        <5> QED
          BY <1>1, <3>1, <4>1, <5>1 DEF KeyWritten
      <4> QED
        BY <4>2, <4>3
    <3>2. CASE ~(OnLabels /\ k = op.call.key)
      <4>1. told'[k] = told[k]
        BY <1>1, <2>6, <3>2, TypesKnown DEF TypeOK
      <4> QED
        BY <1>1, <4>1 DEF AcknowledgedStays
    <3> QED
      BY <3>1, <3>2
  <2> QED
    BY <1>1, <2>5, <2>7, <2>8, <2>9, <2>10
       DEF UpdateInv, NoResultYet, NoCallersYet, Began, InDoubt, MapKnows, CarriesMap,
           AsFetched, KeyWritten, HasMap, HasWritten, SameCall
<1> QED
  BY <1>2, <1>3

-----------------------------------------------------------------------------
(* The surroundings.                                                       *)
LEMMA ForeignWriteInv == ASSUME UpdateInv, ForeignWrite PROVE UpdateInv'
<1>1. TypeOK /\ UNCHANGED <<seen, op, told>> /\ Len(versions) \in Nat /\ seen \in 1..Len(versions)
      /\ AcknowledgedStays /\ MemorySound /\ KeyWritten /\ MapWritten /\ Began /\ AsFetched
  BY TypesKnown DEF UpdateInv, ForeignWrite
<1>2. PICK k \in ForeignLabels, v \in Values \cup {Absent} :
          versions' = Append(versions, [Store EXCEPT ![k] = v])
  BY DEF ForeignWrite
<1> DEFINE new == [Store EXCEPT ![k] = v]
<1>3. new \in Contents /\ \A j \in LabelKeys : new[j] = Store[j]
  BY <1>1, TypesKnown, KeysApart DEF Contents
<1>4. /\ versions' \in Seq(Contents) /\ Len(versions') = Len(versions) + 1
      /\ \A i \in 1..Len(versions) : versions'[i] = versions[i]
      /\ versions'[Len(versions')] = new /\ Store' = new
  BY <1>1, <1>2, <1>3, TypesKnown DEF TypeOK, Store
<1> HIDE DEF new
<1>5. budget' \in [Events -> Nat]
  BY <1>1, SpendBudget DEF ForeignWrite, Events
<1>6. Grows
  BY <1>1, <1>4 DEF Grows
<1>7. TypeOK' /\ NoResultYet' /\ NoCallersYet' /\ Began' /\ InDoubt' /\ MapKnows' /\ CarriesMap'
  BY <1>1, <1>4, <1>5
     DEF UpdateInv, TypeOK, NoResultYet, NoCallersYet, Began, InDoubt, MapKnows, Knows,
         CarriesMap, HasMap, OnLabels
<1>8. MemorySound'
  BY <1>1, <1>6, MemorySoundNext, TypesKnown DEF MemorySound
<1>9. AsFetched'
  BY <1>1, <1>4 DEF AsFetched, MemorySound, Sound
<1>10. KeyWritten'
  <2> SUFFICES ASSUME HasWritten, OnLabels
               PROVE  /\ Store'[op.call.key] = op.call.value
                      /\ \A i \in seen + 1..Len(versions') :
                             versions'[i][op.call.key] = op.call.value
    BY <1>1 DEF KeyWritten, HasWritten, OnLabels
  <2>1. new[op.call.key] = op.call.value
    BY <1>1, <1>3, TypesKnown DEF KeyWritten
  <2>2. ASSUME NEW i \in seen + 1..Len(versions')
        PROVE  versions'[i][op.call.key] = op.call.value
    <3>1. CASE i = Len(versions')
      BY <1>4, <2>1, <3>1
    <3>2. CASE i # Len(versions')
      <4>1. i \in seen + 1..Len(versions) /\ i \in 1..Len(versions)
        BY <1>1, <1>4, <3>2
      <4> QED
        BY <1>1, <1>4, <4>1 DEF KeyWritten
    <3> QED
      BY <3>1, <3>2
  <2> QED
    BY <1>4, <2>1, <2>2
<1>11. MapWritten'
  <2> SUFFICES ASSUME HasWritten \/ op.result = "ok", OnLabels PROVE WroteItsMap'
    BY <1>1 DEF MapWritten, HasWritten, OnLabels
  <2>1. WroteItsMap
    BY <1>1 DEF MapWritten
  <2> QED
    BY <1>1, <1>4, <2>1 DEF Began, WroteItsMap, Part
<1>12. AcknowledgedStays'
  <2> SUFFICES ASSUME NEW j \in LabelKeys, told[j] # Unknown,
                      NEW i \in seen..Len(versions')
               PROVE  versions'[i][j] = told[j]
    BY <1>1 DEF AcknowledgedStays
  <2>1. Store[j] = told[j]
    BY <1>1 DEF AcknowledgedStays, Store
  <2>2. CASE i = Len(versions')
    BY <1>3, <1>4, <2>1, <2>2
  <2>3. CASE i # Len(versions')
    <3>1. i \in seen..Len(versions) /\ i \in 1..Len(versions)
      BY <1>1, <1>4, <2>3
    <3> QED
      BY <1>1, <1>4, <3>1 DEF AcknowledgedStays
  <2> QED
    BY <2>2, <2>3
<1> QED
  BY <1>7, <1>8, <1>9, <1>10, <1>11, <1>12 DEF UpdateInv

LEMMA CacheMoves ==
    ASSUME UpdateInv, seen' \in seen..Len(versions), UNCHANGED <<versions, op, told>>,
           budget' \in [Events -> Nat]
    PROVE  UpdateInv'
<1>1. TypeOK /\ AcknowledgedStays /\ MemorySound /\ KeyWritten
  BY DEF UpdateInv
<1>2. TypeOK' /\ AcknowledgedStays' /\ Grows
  BY <1>1, TypesKnown DEF TypeOK, AcknowledgedStays, Grows
<1>3. MemorySound'
  BY <1>1, <1>2, MemorySoundNext, TypesKnown DEF MemorySound
<1>4. KeyWritten'
  <2> DEFINE n == Len(versions)  next == seen'
  <2>1. seen \in Nat /\ n \in Nat /\ next \in Nat /\ seen <= next
    BY <1>1, TypesKnown
  <2> HIDE DEF n, next
  <2>2. \A i \in next + 1..n : i \in seen + 1..n
    BY <2>1
  <2> QED
    BY <1>1, <2>2 DEF KeyWritten, HasWritten, OnLabels, Store, n, next
<1> QED
  BY <1>2, <1>3, <1>4
     DEF UpdateInv, NoResultYet, NoCallersYet, Began, InDoubt, MapKnows, Knows, CarriesMap,
         AsFetched, MapWritten, HasMap, HasWritten, OnLabels, WroteItsMap, Part

LEMMA SyncInv == ASSUME UpdateInv, Sync PROVE UpdateInv'
<1>1. TypeOK
  BY DEF UpdateInv
<1> QED
  BY <1>1, TypesKnown, CacheMoves DEF Sync, TypeOK

LEMMA CrashInv == ASSUME UpdateInv, OperatorCrashes PROVE UpdateInv'
<1>1. TypeOK /\ AcknowledgedStays /\ MemorySound /\ Began
  BY DEF UpdateInv
<1>2. budget' \in [Events -> Nat] /\ UNCHANGED <<versions, told>> /\ seen' = Len(versions)
  BY <1>1, SpendBudget DEF OperatorCrashes, Events
<1>3. op' = [op EXCEPT !.pc = "idle", !.node = NoObject, !.callers = NoObject,
                       !.held = NoCopy, !.result = "none"]
  BY DEF OperatorCrashes
<1>4. /\ op' \in Workers /\ op'.pc = "idle" /\ op'.node = NoObject
      /\ op'.callers = NoObject /\ op'.map = op.map /\ op'.held = NoCopy
      /\ op'.from = op.from /\ op'.result = "none"
  BY <1>1, <1>3, TypesKnown, EmptyCopies DEF Workers
<1>5. TypeOK' /\ AcknowledgedStays' /\ Grows
  BY <1>1, <1>2, <1>4, TypesKnown DEF TypeOK, AcknowledgedStays, Grows
<1>6. MemorySound'
  BY <1>1, <1>4, <1>5, MemorySoundNext, NoObjectIsSound DEF MemorySound
<1> QED
  BY <1>1, <1>2, <1>4, <1>5, <1>6, IdleInv DEF Began

LEMMA StutterInv == ASSUME UpdateInv, UNCHANGED vars PROVE UpdateInv'
<1>1. TypeOK
  BY DEF UpdateInv
<1> QED
  BY <1>1, CacheMoves, TypesKnown DEF vars, TypeOK

LEMMA StepInv == ASSUME VerifiesItsLabel, UpdateInv, [Next]_vars PROVE UpdateInv'
BY HoldInv, BeginInv, BeginWithHeldInv, ReadMapInv, UpdateStepInv, ConflictInv, RefetchInv,
   UpdateFailsInv, FetchInv, VerifyInv, ForeignWriteInv, SyncInv, CrashInv, StutterInv
   DEF Next, CallStep

THEOREM UpdateInvHolds == ASSUME VerifiesItsLabel PROVE Spec => []UpdateInv
BY InitUpdateInv, StepInv, PTL DEF Spec

(* The types of NodeUpdate.                                                *)
THEOREM UpdateTypes == ASSUME VerifiesItsLabel PROVE Spec => []TypeOK
<1>1. UpdateInv => TypeOK
  BY DEF UpdateInv
<1> QED
  BY <1>1, UpdateInvHolds, PTL

(* A successful setX100NodeLabels has written the map it was given, be it  *)
(* read for the call or held since an earlier one.                         *)
THEOREM SuccessMeansWritten == ASSUME VerifiesItsLabel PROVE Spec => []WrittenOnSuccess
<1>1. UpdateInv => WrittenOnSuccess
  BY DEF UpdateInv, MapWritten, OnLabels, WrittenOnSuccess
<1> QED
  BY <1>1, UpdateInvHolds, PTL

(* What a successful setX100NodeLabels has set stays until a call sets out *)
(* to change it, by its key or by an older map that has it otherwise.      *)
THEOREM SetLabelsStay == ASSUME VerifiesItsLabel PROVE Spec => []AcknowledgedStays
<1>1. UpdateInv => AcknowledgedStays
  BY DEF UpdateInv
<1> QED
  BY <1>1, UpdateInvHolds, PTL

(* Others' labels are overwritten only by a map that is older than the     *)
(* node object it is written with: one held over an earlier call, or one   *)
(* in its second attempt.                                                  *)
THEOREM OldMapsOnly == ASSUME VerifiesItsLabel PROVE Spec => OnlyOldMapsOverwrite
<1>1. ASSUME UpdateInv, Update \/ UpdateFails, ~(op.node.at < op.node.rv)
      PROVE  \A k \in ForeignLabels : Store'[k] = Store[k]
  <2>1. CASE UNCHANGED versions
    BY <2>1 DEF Store
  <2>2. CASE UpToDate /\ WriteNode
    <3>1. TypeOK /\ Faithful(op.node)
      BY <1>1 DEF UpdateInv, MemorySound, Sound
    <3>2. op.node.at = Len(versions) /\ op.node.at # 0
      <4>1. op.node.at \in Nat /\ op.node.rv = Len(versions)
        BY <2>2, <3>1, TypesKnown DEF Objects, UpToDate
      <4> QED
        BY <1>1, <3>1, <4>1, TypesKnown DEF Faithful
    <3> QED
      BY <2>2, <3>1, <3>2, WriteNodeAppends DEF Faithful, Store
  <2> QED
    BY <1>1, <2>1, <2>2 DEF Update, UpdateFails
<1> QED
  BY <1>1, UpdateInvHolds, PTL DEF OnlyOldMapsOverwrite
=============================================================================
