-------------------------- MODULE UpdateProperties --------------------------
(* What makes NodeUpdate correct.                                          *)
EXTENDS NodeUpdate

(* A call that reports success has written its whole map at some time      *)
(* since it began ("Successful update", setX100NodeLabels).                *)
WroteItsMap ==
    \E i \in op.from..Len(versions) :
        \A k \in Part(op.call.kind) : versions[i][k] = op.map.is[k]

WrittenOnSuccess == op.result = "ok" /\ op.call.kind = "label" => WroteItsMap

(* A label that a call has set stays as it was set until a call sets out   *)
(* to change it, by its key or by a map held since earlier that has it     *)
(* otherwise: at the API server and in the cache that every handler reads. *)
(* Until then no call brings an older value back, though each writes all   *)
(* labels from a cache that lags, and writes them again after a conflict,  *)
(* and the next call may write what a failed one has left in the object.   *)
AcknowledgedStays ==
    \A k \in LabelKeys : told[k] # Unknown =>
        \A i \in seen..Len(versions) : versions[i][k] = told[k]

(* An Update loses what others have written only if its labels were read   *)
(* before its object was fetched: with a map that a handler has held over  *)
(* an earlier call, or at a later attempt of a call.  The first Update of  *)
(* a map read for the call never does, a conflict being detected.          *)
OnlyOldMapsOverwrite ==
    [][ Update \/ UpdateFails =>
            op.node.at < op.node.rv \/ \A k \in ForeignLabels : Store'[k] = Store[k] ]_vars
=============================================================================
