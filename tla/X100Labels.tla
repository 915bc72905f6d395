----------------------------- MODULE X100Labels -----------------------------
(***************************************************************************)
(* The labels the operator keeps on a node.  They are its only memory: a   *)
(* reconcile reads them, decides, and writes the whole label map back.     *)
(*                                                                         *)
(* A label map is a record.  Labels that are only ever "true" or absent    *)
(* are members of "flags"; the four pod selectors are members of "sel".    *)
(* A software version is named by the policy that carries it: the webhook  *)
(* keeps SwVersion unique across policies.                                 *)
(***************************************************************************)
EXTENDS Naturals

CONSTANTS
    Policies,   \* the X100ManagementPolicy objects
    None        \* a label that is absent or empty

ASSUME NoneIsNoPolicy == None \notin Policies

PolicyOrNone == Policies \cup {None}

(* The four components whose pods run on a node, in creation order.        *)
Comps == {"firmware", "HwManager", "kmodules", "devicePlugin"}

Position == [firmware |-> 0, HwManager |-> 1, kmodules |-> 2, devicePlugin |-> 3]

Earlier(c) == {d \in Comps : Position[d] < Position[c]}

Flags ==
    { "bootStatusMarked", "upgrading", "swUpgradeFailed", "rollingBackUpgrade",
      "rolledBack", "ownerPolicyDeleted", "teardownCompleted",
      "enablingFirstPolicy", "rebooted" }

(* Flags of a change in progress, which a boot verdict brings to its end.  *)
InProgress ==
    {"upgrading", "rolledBack", "enablingFirstPolicy", "rebooted", "teardownCompleted"}

NodeLabels ==
    [ present : {"absent", "true", "false"},
      isolate : BOOLEAN,
      pci     : BOOLEAN,            \* set by Node Feature Discovery
      active  : PolicyOrNone,
      prior   : PolicyOrNone,
      sw      : PolicyOrNone,
      blocked : PolicyOrNone,
      boot    : {"absent", "unknown", "true", "false"},
      flags   : SUBSET Flags,
      sel     : SUBSET Comps ]

(* A node before any policy has touched it.                                *)
BareLabels ==
    [ present |-> "absent", isolate |-> FALSE, pci |-> TRUE,
      active |-> None, prior |-> None, sw |-> None, blocked |-> None,
      boot |-> "absent", flags |-> {}, sel |-> {} ]

-----------------------------------------------------------------------------
(* Clean-ups, one per label list of constants.go.                          *)

cleanupStaleCRLabels_KeepsActive(l) ==
    [l EXCEPT !.present = "absent", !.prior = None, !.blocked = None,
              !.boot = "absent", !.flags = {}]

cleanupStaleCRLabels(l) ==
    [l EXCEPT !.present = "absent", !.active = None, !.prior = None, !.sw = None,
              !.blocked = None, !.boot = "absent", !.flags = {}]

cleanupStaleSelectorLabels_KeepsFirmware(l) == [l EXCEPT !.sel = @ \cap {"firmware"}]

cleanupStaleSelectorLabels(l) == [l EXCEPT !.sel = {}]

StatusCleaned_KeepsMark(l) ==
    [l EXCEPT !.boot = "absent", !.flags = @ \ {"swUpgradeFailed", "teardownCompleted"}]

StatusCleaned(l) ==
    [l EXCEPT !.boot = "absent",
              !.flags = @ \ {"bootStatusMarked", "swUpgradeFailed", "teardownCompleted"}]

cleanupLabelsOnReboot_KeepsUpgrading(l) ==
    [l EXCEPT !.boot = "absent", !.flags = @ \cap {"rebooted", "upgrading"},
              !.sel = @ \ {"kmodules"}]

cleanupLabelsOnReboot_KeepsMark(l) ==
    [l EXCEPT !.boot = "absent", !.flags = @ \cap {"rebooted", "bootStatusMarked"},
              !.sel = @ \ {"kmodules"}]

cleanupLabelsOnReboot(l) ==
    [l EXCEPT !.boot = "absent", !.flags = @ \cap {"rebooted"}, !.sel = @ \ {"kmodules"}]

-----------------------------------------------------------------------------
(* The policy responsible for a node is the one it is being moved to, if a *)
(* move has begun, and the active one otherwise.                           *)
isX100RunningWithPolicy(l, p) ==
    IF l.blocked # None THEN l.blocked = p ELSE l.active = p

(* c is the first selector, in creation order, that the node lacks.        *)
IsNextSelector(c, l) == c \notin l.sel /\ Earlier(c) \subseteq l.sel

(* The boot status of the node may be looked at for policy p, as far as    *)
(* the labels tell (the device-plugin pod is the caller's business).       *)
LabelsEligibleForBootStatusCheck(l, p) ==
    /\ isX100RunningWithPolicy(l, p)
    /\ l.present = "true"
    /\ l.boot # "true"
    /\ l.flags \cap {"bootStatusMarked", "swUpgradeFailed", "rollingBackUpgrade"} = {}
    /\ l.flags \cap {"rebooted", "upgrading"} # {} => "teardownCompleted" \in l.flags
=============================================================================
