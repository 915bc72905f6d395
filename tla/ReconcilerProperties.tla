------------------------ MODULE ReconcilerProperties ------------------------
(* What makes PolicyReconciler correct.                                    *)
EXTENDS PolicyReconciler

(* A policy is only reported Operational once all of its assets exist and  *)
(* every node under it has its boot status marked, none of them on its way *)
(* back from a reboot, whatever failed in between (endState).              *)
OperationalIsEarned ==
    [][ \A p \in Policies : status[p] # "ready" /\ status'[p] = "ready" =>
           /\ created[p] = Assets
           /\ \A n \in Listed(p) : node[n].adopted => Is(n, "marked") /\ ~Is(n, "rebooted") ]_vars

(* When the worker, the queue and the timers have nothing left to do, then *)
(* nothing is left to be done: a policy is Operational with the nodes under*)
(* it judged, unless one of them is down or cordoned and will be heard of. *)
(* ("Success case, no need to requeue the request", and the returns of     *)
(* Reconcile that requeue nothing.)                                        *)
Quiet == op.pc = "idle" /\ queue = {} /\ delayed = {}
Available(n) == node[n].ready /\ ~node[n].cordoned
Reported(p) ==
    status[p] = "ready" /\ \A n \in Listed(p) : node[n].adopted => Is(n, "marked")

NothingForgotten ==
    Quiet => \A p \in Policies :
        Listed(p) # {} /\ (\A n \in Listed(p) : Available(n)) => Reported(p)

(* Once the nodes stay up, every policy becomes Operational for good.      *)
BecomesOperational ==
    <>[](\A n \in Nodes : Available(n)) =>
        <>[](\A p \in Policies : Listed(p) # {} =>
                status[p] = "ready" /\ \A n \in Listed(p) : Is(n, "marked"))

(* A node that goes down is labelled for its recovery while it is down,    *)
(* unless it comes up sooner, a node is cordoned, or a failed upgrade under*)
(* the same policy has to be rolled back first (UpdateFunc, Reconcile).    *)
Down(n) ==
    ~node[n].ready /\ \A m \in Listed(listed[n]) : ~node[m].cordoned /\ ~Is(m, "failed")

DownIsNoticed == \A n \in Nodes : Down(n) ~> (Is(n, "rebooted") \/ ~Down(n))
=============================================================================
