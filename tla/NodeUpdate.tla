------------------------------ MODULE NodeUpdate ------------------------------
(***************************************************************************)
(* setX100NodeLabels and setX100NodeAnnotations: how the operator writes   *)
(* the labels and annotations of a node.                                   *)
(*                                                                         *)
(* The caller reads the map from the informer cache, which lags the API    *)
(* server, changes a key and hands the whole map over, with a node object; *)
(* both may be from before an earlier call.  Up to five times the object   *)
(* is updated with that map; a conflict makes the operator fetch the       *)
(* object again, but the map stays the caller's.  A call succeeds when the *)
(* cache shows one key, the one to verify, as meant.                       *)
(* The kubelet, NFD and users write their own keys at any time.            *)
(*                                                                         *)
(* The node is the sequence of its versions; a resourceVersion is an index *)
(* into it, and the cache is at the version it has come to.                *)
(***************************************************************************)
EXTENDS Integers, Sequences

CONSTANTS
    LabelKeys,          \* label keys ...
    AnnotationKeys,     \* ... and annotation keys that the operator writes
    ForeignLabels,      \* label keys that others write
    Values,
    Absent,             \* the key is not there
    Unknown,            \* the operator does not know
    Calls,              \* what the handlers ask for
    MaxAttempts,        \* maxRetryCount
    Budgets             \* how often each event below may happen

Labels == LabelKeys \cup ForeignLabels
Keys == Labels \cup AnnotationKeys
Contents == [Keys -> Values \cup {Absent}]
Events == {"call", "foreign", "glitch", "lost", "crash"}

Part(kind) == IF kind = "label" THEN Labels ELSE AnnotationKeys

(* A call gives a key a value and verifies a key, most often the same: it  *)
(* must have the value of the caller's map, or be gone.                    *)
CallTypes ==
    [ kind : {"label", "annotation"}, key : Keys, value : Values \cup {Absent},
      verify : Keys, type : {"addition", "deletion"} ]

ASSUME UpdateAssumption ==
    /\ Unknown \notin Values \cup {Absent}
    /\ LabelKeys \cap ForeignLabels = {} /\ Labels \cap AnnotationKeys = {}
    /\ MaxAttempts \in Nat \ {0}
    /\ Calls \subseteq CallTypes
    /\ \A c \in Calls :
          c.key \in IF c.kind = "label" THEN LabelKeys ELSE AnnotationKeys
    /\ Budgets \subseteq [Events -> Nat]

VARIABLES
    versions,   \* the contents of the node, version by version
    seen,       \* the version in the informer cache
    op,         \* the worker in its call, or after it
    told,       \* the value of each label that a call last succeeded to set
    budget

vars == <<versions, seen, op, told, budget>>

Store == versions[Len(versions)]
Cached == versions[seen]

(* What the operator has in memory: labels and annotations, with the       *)
(* version the labels were read at; and node objects, which carry a        *)
(* resourceVersion besides.  Both are 0 if there is none.                  *)
Copies == [at : Nat, is : Contents]
Objects == [rv : Nat, at : Nat, is : Contents]

Nothing == [k \in Keys |-> Absent]
NoCopy == [at |-> 0, is |-> Nothing]
NoObject == [rv |-> 0, at |-> 0, is |-> Nothing]
NodeAt(i) == [rv |-> i, at |-> i, is |-> versions[i]]

(* The call, the node object in hand, the caller's own once it is another  *)
(* one, the map to be written, the label map the handler has kept, the     *)
(* version the call began at and the attempts made.                        *)
Workers ==
    [ pc : {"idle", "read", "update", "refetch", "fetch", "verify"},
      call : Calls, node : Objects, callers : Objects, map : Copies, held : Copies,
      from : Nat, attempt : 1..MaxAttempts, result : {"none", "ok", "failed"} ]

TypeOK ==
    /\ versions \in Seq(Contents) /\ seen \in 1..Len(versions)
    /\ op \in Workers
    /\ told \in [LabelKeys -> Values \cup {Absent, Unknown}]
    /\ budget \in [Events -> Nat]

Init ==
    /\ versions = <<Nothing>> /\ seen = 1
    /\ \E c \in Calls :
          op = [ pc |-> "idle", call |-> c, node |-> NoObject, callers |-> NoObject,
                 map |-> NoCopy, held |-> NoCopy, from |-> 1, attempt |-> 1, result |-> "none" ]
    /\ told = [k \in LabelKeys |-> Absent]
    /\ budget \in Budgets

-----------------------------------------------------------------------------
Spend(e) == budget[e] > 0 /\ budget' = [budget EXCEPT ![e] = @ - 1]

At(pc) == op' = [op EXCEPT !.pc = pc]

Changed(m, c) == [m EXCEPT !.is[c.key] = c.value]

(* SetLabels and SetAnnotations: object o carries map m from now on.       *)
Carrying(o, kind, m) ==
    [ o EXCEPT !.at = IF kind = "label" THEN m.at ELSE @,
               !.is = [k \in Keys |-> IF k \in Part(kind) THEN m.is[k] ELSE o.is[k]] ]

(* A handler reads the labels of a node and keeps them, over the calls     *)
(* that follow.                                                            *)
Hold ==
    /\ op.pc = "idle"
    /\ op' = [op EXCEPT !.held = [at |-> seen, is |-> Cached]]
    /\ UNCHANGED <<versions, seen, told, budget>>

(* The object of a call is fetched for it, is the one that the call before *)
(* has left, or was listed together with the labels that are held.         *)
ObjectsAtHand ==
    {NodeAt(seen)} \cup {o \in {op.node} : o.rv # 0} \cup {NodeAt(i) : i \in {op.held.at} \ {0}}

(* The map is read for the call; what was set before is about to change:   *)
(* the key of the call ...                                                 *)
Begin(c) ==
    /\ op.pc = "idle" /\ Spend("call")
    /\ \E o \in ObjectsAtHand :
          op' = [op EXCEPT !.pc = "read", !.call = c, !.node = o,
                           !.from = Len(versions), !.attempt = 1, !.result = "none"]
    /\ told' = IF c.kind = "label" THEN [told EXCEPT ![c.key] = Unknown] ELSE told
    /\ UNCHANGED <<versions, seen>>

(* ... or the map held is handed over, and changed by that; then every     *)
(* label changes that the map has otherwise.                               *)
Outdated(m) == {k \in LabelKeys : told[k] # m.is[k]}

BeginWithHeld(c) ==
    LET map == Changed(op.held, c)
    IN  /\ op.pc = "idle" /\ op.held.at # 0 /\ c.kind = "label" /\ Spend("call")
        /\ \E o \in ObjectsAtHand :
              op' = [op EXCEPT !.pc = "update", !.call = c, !.node = Carrying(o, "label", map),
                               !.map = map, !.held = map,
                               !.from = Len(versions), !.attempt = 1, !.result = "none"]
        /\ told' = [k \in LabelKeys |-> IF k = c.key \/ k \in Outdated(op.held) THEN Unknown
                                        ELSE told[k]]
        /\ UNCHANGED <<versions, seen>>

(* Labels are read from the cache, annotations from the object in hand.    *)
ReadMap ==
    LET source == IF op.call.kind = "label" THEN [at |-> seen, is |-> Cached]
                  ELSE [at |-> op.node.at, is |-> op.node.is]
        map == Changed(source, op.call)
    IN  /\ op.pc = "read"
        /\ op' = [op EXCEPT !.pc = "update", !.map = map, !.node = Carrying(@, op.call.kind, map)]
        /\ UNCHANGED <<versions, seen, told, budget>>

(* The call is over: the caller has its own object again.                  *)
Returned(w, result) ==
    [w EXCEPT !.pc = "idle", !.result = result, !.node = IF w.callers = NoObject THEN @ ELSE w.callers,
              !.callers = NoObject]

(* Another attempt of worker w, or failure.                                *)
Again(w) ==
    [w EXCEPT !.pc = "update", !.node = Carrying(@, w.call.kind, w.map), !.attempt = @ + 1]

Retry_OnceMore(w) == op' = IF w.attempt <= MaxAttempts THEN Again(w) ELSE Returned(w, "failed")

Retry(w) == op' = IF w.attempt < MaxAttempts THEN Again(w) ELSE Returned(w, "failed")

(* After a failed Update labels are retried; annotations go on to verify.  *)
AfterError_Verifies(w) == op' = [w EXCEPT !.pc = "fetch"]

AfterError(w) == IF w.call.kind = "label" THEN Retry(w) ELSE op' = [w EXCEPT !.pc = "fetch"]

UpToDate_Anyway == TRUE
UpToDate == op.node.rv = Len(versions)

(* The node is as the object has it; nothing new, no new version.          *)
WriteNode == versions' = IF op.node.is = Store THEN versions ELSE Append(versions, op.node.is)

Update ==
    /\ op.pc = "update" /\ UpToDate
    /\ WriteNode /\ At("fetch")
    /\ UNCHANGED <<seen, told, budget>>

Conflict ==
    /\ op.pc = "update" /\ ~UpToDate
    /\ At("refetch")
    /\ UNCHANGED <<versions, seen, told, budget>>

(* From here on the object in hand is no longer the caller's.              *)
Refetch ==
    /\ op.pc = "refetch"
    /\ AfterError([op EXCEPT !.node = NodeAt(seen),
                             !.callers = IF @ = NoObject THEN op.node ELSE @])
    /\ UNCHANGED <<versions, seen, told, budget>>

(* Another error: the API server did not get the Update, or its answer was *)
(* lost.                                                                   *)
UpdateFails ==
    /\ op.pc = "update"
    /\ \/ Spend("glitch") /\ UNCHANGED versions
       \/ Spend("lost") /\ UpToDate /\ WriteNode
    /\ AfterError(op)
    /\ UNCHANGED <<seen, told>>

(* The object in hand becomes the cache's ...                              *)
Fetch ==
    /\ op.pc = "fetch"
    /\ op' = [op EXCEPT !.pc = "verify", !.node = NodeAt(seen)]
    /\ UNCHANGED <<versions, seen, told, budget>>

(* ... and the key is looked up: a label in the cache, by its value; an    *)
(* annotation in the object, where any value will do.                      *)
Verified_AnyKey == TRUE
Verified ==
    LET k == op.call.verify
    IN  CASE op.call.type = "deletion" /\ op.call.kind = "label" -> Cached[k] = Absent
          [] op.call.type = "deletion" -> op.node.is[k] = Absent
          [] op.call.kind = "label" -> Cached[k] # Absent /\ Cached[k] = op.map.is[k]
          [] OTHER -> op.node.is[k] # Absent

Verify ==
    /\ op.pc = "verify"
    /\ IF Verified
       THEN /\ op' = Returned(op, "ok")
            /\ told' = IF op.call.kind = "label"
                       THEN [told EXCEPT ![op.call.key] = op.call.value] ELSE told
       ELSE Retry(op) /\ UNCHANGED told
    /\ UNCHANGED <<versions, seen, budget>>

-----------------------------------------------------------------------------
ForeignWrite ==
    /\ Spend("foreign")
    /\ \E k \in ForeignLabels, v \in Values \cup {Absent} :
          v # Store[k] /\ versions' = Append(versions, [Store EXCEPT ![k] = v])
    /\ UNCHANGED <<seen, op, told>>

(* The informer receives the next version.                                 *)
Sync ==
    /\ seen < Len(versions) /\ seen' = seen + 1
    /\ UNCHANGED <<versions, op, told, budget>>

(* A new operator starts with a full cache.                                *)
OperatorCrashes ==
    /\ Spend("crash")
    /\ op' = [op EXCEPT !.pc = "idle", !.node = NoObject, !.callers = NoObject,
                        !.held = NoCopy, !.result = "none"]
    /\ seen' = Len(versions)
    /\ UNCHANGED <<versions, told>>

CallStep ==
    \/ ReadMap \/ Update \/ Conflict \/ Refetch \/ UpdateFails \/ Fetch \/ Verify

Next ==
    \/ Hold
    \/ \E c \in Calls : Begin(c) \/ BeginWithHeld(c)
    \/ CallStep
    \/ ForeignWrite \/ Sync \/ OperatorCrashes

Spec == Init /\ [][Next]_vars
=============================================================================
