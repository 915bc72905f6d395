--------------------------- MODULE ResourceProofs ---------------------------
(***************************************************************************)
(* The webhook keeps versions apart when its cache is up to date: proved   *)
(* for any policies, versions, edits, deletions, failures and crashes.     *)
(* From this, where versions stay what they were, that what a policy needs *)
(* stands when all is quiet, though the collector takes what others leave. *)
(***************************************************************************)
EXTENDS ResourceProperties, TLAPS

(* The first policies have different versions, and no request is validated *)
(* while the cache is behind.                                              *)
CacheInTime ==
    \A s \in Scenarios :
        /\ s.budget["stale"] = 0
        /\ \A p \in Policies : \A q \in Policies \ {p} :
              s.policy[p].phase # "absent" /\ s.policy[q].phase # "absent"
                  => s.policy[p].version # s.policy[q].version

ApartInv ==
    /\ policy \in [Policies -> Instances]
    /\ budget \in [Events -> Nat] /\ budget["stale"] = 0
    /\ uids \in Nat
    /\ VersionsApart

(* Spending leaves a budget, and never brings one back.                    *)
LEMMA SpendKeeps ==
    ASSUME budget \in [Events -> Nat], budget["stale"] = 0,
           NEW E \in SUBSET Events, Spend(E)
    PROVE  budget' \in [Events -> Nat] /\ budget'["stale"] = 0 /\ "stale" \notin E
  <1>1. \A e \in E : budget[e] \in Nat /\ budget[e] > 0
    BY DEF Spend
  <1>2. "stale" \notin E
    BY <1>1
  <1>3. \A e \in Events : (IF e \in E THEN budget[e] - 1 ELSE budget[e]) \in Nat
    BY <1>1
  <1>4. "stale" \in Events
    BY DEF Events
  <1> QED BY <1>2, <1>3, <1>4 DEF Spend

(* What is admitted has a version that no other policy has.                *)
LEMMA AdmittedIsApart ==
    ASSUME ApartInv, NEW e \in {"create", "edit"}, NEW p \in Policies, NEW v \in Versions,
           Admitted(e, p, v)
    PROVE  /\ budget' \in [Events -> Nat] /\ budget'["stale"] = 0
           /\ \A q \in Policies \ {p} : policy[q].version # v
  <1> DEFINE E == IF seen = policy THEN {e} ELSE {e, "stale"}
  <1>1. E \in SUBSET Events /\ Spend(E)
    BY DEF Admitted, Events
  <1>2. budget' \in [Events -> Nat] /\ budget'["stale"] = 0 /\ "stale" \notin E
    BY <1>1, SpendKeeps DEF ApartInv
  <1>3. seen = policy
    BY <1>2
  <1> QED BY <1>2, <1>3 DEF Admitted, ValidateSwVersionUniqueness

(* A policy that becomes what no other one clashes with.                   *)
LEMMA BecomesApart ==
    ASSUME ApartInv, NEW p \in Policies, NEW i \in Instances,
           policy' = [policy EXCEPT ![p] = i],
           i.phase # "absent" => \A q \in Policies \ {p} :
                policy[q].phase # "absent" => policy[q].version # i.version
    PROVE  policy' \in [Policies -> Instances] /\ VersionsApart'
  <1>1. policy \in [Policies -> Instances] /\ VersionsApart
    BY DEF ApartInv
  <1>2. policy' \in [Policies -> Instances]
    BY <1>1
  <1>3. policy'[p] = i /\ \A q \in Policies \ {p} : policy'[q] = policy[q]
    BY <1>1
  <1>4. ASSUME NEW q \in Policies, NEW r \in Policies \ {q},
               policy'[q].phase # "absent", policy'[r].phase # "absent"
        PROVE  policy'[q].version # policy'[r].version
    <2>1. CASE q = p
      BY <1>3, <1>4, <2>1
    <2>2. CASE r = p
      BY <1>3, <1>4, <2>2
    <2>3. CASE q # p /\ r # p
      BY <1>1, <1>3, <1>4, <2>3 DEF VersionsApart
    <2> QED BY <2>1, <2>2, <2>3
  <1> QED BY <1>2, <1>4 DEF VersionsApart

LEMMA ApartInit == ASSUME CacheInTime, Init PROVE ApartInv
  <1>1. PICK s \in Scenarios : policy = s.policy /\ budget = s.budget
    BY DEF Init
  <1>2. s.policy \in [Policies -> Instances] /\ s.budget \in [Events -> Nat]
    BY ResourcesAssumption
  <1> QED BY <1>1, <1>2 DEF CacheInTime, ApartInv, VersionsApart, Init

LEMMA ApartNext == ASSUME ApartInv, [Next]_vars PROVE ApartInv'
  <1>0. /\ policy \in [Policies -> Instances] /\ uids \in Nat
        /\ budget \in [Events -> Nat] /\ budget["stale"] = 0
    BY DEF ApartInv
  <1>a. \A p \in Policies : policy[p] \in Instances
    BY <1>0
  <1>b. Absent \in Instances
    BY DEF Absent, Instances
  <1>1. ASSUME NEW p \in Policies, NEW v \in Versions, CreatePolicy(p, v)
        PROVE  ApartInv'
    <2> DEFINE i == [phase |-> "live", uid |-> uids', version |-> v, finalizer |-> FALSE]
    <2>1. policy' = [policy EXCEPT ![p] = i] /\ Admitted("create", p, v) /\ uids' = uids + 1
      BY <1>1 DEF CreatePolicy
    <2>2. uids' \in Nat
      BY <1>0, <2>1
    <2>3. i \in Instances
      BY <2>2 DEF Instances
    <2>4. /\ budget' \in [Events -> Nat] /\ budget'["stale"] = 0
          /\ \A q \in Policies \ {p} : policy[q].version # v
      BY <2>1, AdmittedIsApart
    <2>5. policy' \in [Policies -> Instances] /\ VersionsApart'
      BY <2>1, <2>3, <2>4, BecomesApart
    <2> QED BY <2>2, <2>4, <2>5 DEF ApartInv
  <1>2. ASSUME NEW p \in Policies, NEW v \in Versions, EditVersion(p, v)
        PROVE  ApartInv'
    <2> DEFINE i == [policy[p] EXCEPT !.version = v]
    <2>1. policy' = [policy EXCEPT ![p] = i] /\ Admitted("edit", p, v) /\ uids' = uids
      BY <1>2 DEF EditVersion
    <2>2. i \in Instances
      BY <1>a, Zenon DEF Instances
    <2>3. i.version = v
      BY <1>a DEF Instances
    <2>4. /\ budget' \in [Events -> Nat] /\ budget'["stale"] = 0
          /\ \A q \in Policies \ {p} : policy[q].version # v
      BY <2>1, AdmittedIsApart
    <2>5. policy' \in [Policies -> Instances] /\ VersionsApart'
      BY <2>1, <2>2, <2>3, <2>4, BecomesApart
    <2> QED BY <1>0, <2>1, <2>4, <2>5 DEF ApartInv
  (* A policy that stays what it is but for its phase or its finalizer, or *)
  (* that goes.                                                            *)
  <1>3. ASSUME NEW p \in Policies, NEW i \in Instances,
               policy' = [policy EXCEPT ![p] = i],
               i.phase # "absent" => policy[p].phase # "absent" /\ i.version = policy[p].version,
               budget' \in [Events -> Nat] /\ budget'["stale"] = 0, uids' = uids
        PROVE  ApartInv'
    <2>1. i.phase # "absent" => \A q \in Policies \ {p} :
             policy[q].phase # "absent" => policy[q].version # i.version
      BY <1>3 DEF ApartInv, VersionsApart
    <2>2. policy' \in [Policies -> Instances] /\ VersionsApart'
      BY <1>3, <2>1, BecomesApart
    <2> QED BY <1>0, <1>3, <2>2 DEF ApartInv
  <1>4. ASSUME NEW p \in Policies, DeletePolicy(p)
        PROVE  ApartInv'
    <2> DEFINE dying == [policy[p] EXCEPT !.phase = "dying"]
               i == IF policy[p].finalizer THEN dying ELSE Absent
    <2>1. policy' = [policy EXCEPT ![p] = i] /\ policy[p].phase = "live" /\ Spend({"delete"})
          /\ uids' = uids
      BY <1>4 DEF DeletePolicy
    <2>2. dying \in Instances
      BY <1>a, Zenon DEF Instances
    <2>3. dying.version = policy[p].version
      BY <1>a DEF Instances
    <2>4. i \in Instances /\ (i.phase # "absent" => i.version = policy[p].version)
      BY <1>b, <2>2, <2>3 DEF Absent
    <2>5. {"delete"} \in SUBSET Events
      BY DEF Events
    <2>6. budget' \in [Events -> Nat] /\ budget'["stale"] = 0
      BY <1>0, <2>1, <2>5, SpendKeeps
    <2> QED BY <2>1, <2>4, <2>6, <1>3
  <1>5. ASSUME UNCHANGED <<policy, uids>>, budget' \in [Events -> Nat], budget'["stale"] = 0
        PROVE  ApartInv'
    BY <1>5 DEF ApartInv, VersionsApart
  <1>6. ASSUME NEW e \in {"glitch", "crash"}, Spend({e}), UNCHANGED <<policy, uids>>
        PROVE  ApartInv'
    <2>1. {e} \in SUBSET Events
      BY DEF Events
    <2> QED BY <1>0, <1>5, <1>6, <2>1, SpendKeeps
  <1>7. ASSUME UNCHANGED <<policy, uids, budget>> PROVE ApartInv'
    BY <1>0, <1>5, <1>7
  <1>8. ASSUME NEW p \in Policies, Observe(p) \/ Take(p) PROVE ApartInv'
    BY <1>7, <1>8 DEF Observe, Take
  <1>9. ASSUME NEW o \in Objects, Collect(o) PROVE ApartInv'
    BY <1>7, <1>9 DEF Collect
  <1>10. ASSUME AddFinalizer PROVE ApartInv'
    <2>1. CASE UNCHANGED policy
      BY <1>7, <1>10, <2>1 DEF AddFinalizer
    <2>2. CASE ~UNCHANGED policy
      <3> DEFINE i == [policy[Me] EXCEPT !.finalizer = TRUE]
      <3>1. policy' = [policy EXCEPT ![Me] = i] /\ UNCHANGED <<uids, budget>>
        BY <1>10, <2>2 DEF AddFinalizer
      <3>2. Me \in Policies
        BY <1>0, <2>2, <3>1
      <3>3. i \in Instances
        BY <1>a, <3>2, Zenon DEF Instances
      <3>4. i.version = policy[Me].version /\ i.phase = policy[Me].phase
        BY <1>a, <3>2 DEF Instances
      <3> QED BY <1>0, <1>3, <3>1, <3>2, <3>3, <3>4
    <2> QED BY <2>1, <2>2
  <1>11. ASSUME RemoveFinalizer PROVE ApartInv'
    <2>1. CASE UNCHANGED policy
      BY <1>7, <1>11, <2>1 DEF RemoveFinalizer
    <2>2. CASE ~UNCHANGED policy
      <3>1. policy' = [policy EXCEPT ![Me] = Absent] /\ UNCHANGED <<uids, budget>>
        BY <1>11, <2>2 DEF RemoveFinalizer
      <3>2. Me \in Policies
        BY <1>0, <2>2, <3>1
      <3>3. Absent.phase = "absent"
        BY DEF Absent
      <3> QED BY <1>0, <1>b, <1>3, <3>1, <3>2, <3>3
    <2> QED BY <2>1, <2>2
  <1>12. ASSUME createKindResource \/ PodsNotReady \/ Finish \/ deletePolicyOwnedResources
         PROVE  ApartInv'
    BY <1>7, <1>12 DEF createKindResource, PodsNotReady, Finish, deletePolicyOwnedResources
  <1>13. ASSUME UpdateIsLost \/ ApiFails \/ OperatorCrashes PROVE ApartInv'
    BY <1>6, <1>13 DEF UpdateIsLost, ApiFails, OperatorCrashes
  <1>14. CASE UNCHANGED vars
    BY <1>7, <1>14 DEF vars
  <1>15. CASE Next
    BY <1>15, <1>1, <1>2, <1>4, <1>8, <1>9, <1>10, <1>11, <1>12, <1>13 DEF Next, WorkerStep
  <1> QED BY <1>14, <1>15

(* As long as no request is validated while the webhook's cache is behind, *)
(* no two policies have one version, dying ones included                   *)
(* (ValidateSwVersionUniqueness; AddFinalizer and RemoveFinalizer in       *)
(* Reconcile).                                                             *)
THEOREM VersionsStayApart == ASSUME CacheInTime PROVE Spec => []VersionsApart
  <1>1. Init => ApartInv
    BY ApartInit
  <1>2. ApartInv /\ [Next]_vars => ApartInv'
    BY ApartNext
  <1>3. ApartInv => VersionsApart
    BY DEF ApartInv
  <1> QED BY <1>1, <1>2, <1>3, PTL DEF Spec

-----------------------------------------------------------------------------
(* Objects.  As long as nobody edits a version, an object of a version is  *)
(* owned by a policy of that version, by the CRD, or by a policy that is   *)
(* gone.  Since versions stay apart, a policy that finds its objects       *)
(* standing at the end of a pass owns them itself (or the CRD does), and   *)
(* nobody else's deletion takes them.                                      *)

(* No version is edited; at first there is at most one policy, that of the *)
(* first uid, and what it owns is of its version.                          *)
VersionsStay ==
    \A s \in Scenarios :
        /\ s.budget["edit"] = 0
        /\ \A o \in Objects : s.owner[o] \in {None, Crd, 1}
        /\ \A p \in Policies :
              \/ s.policy[p] = Absent
              \/ /\ s.policy[p].phase # "absent" /\ s.policy[p].uid = 1
                 /\ s.policy[p].version \in Versions
                 /\ s.policy[p].phase = "dying" => s.policy[p].finalizer
                 /\ \A q \in Policies \ {p} : s.policy[q] = Absent
                 /\ \A k \in Kinds, v \in Versions :
                       s.owner[<<k, v>>] = 1 => v = s.policy[p].version

Workers ==
    [ pc : {"idle", "register", "create", "release", "unregister"},
      policy : Policies \cup {Idle.policy}, got : Instances, at : Nat ]

WorkerTypes ==
    /\ seen \in [Policies -> Instances]
    /\ owner \in [Objects -> Nat \cup {None, Crd}]
    /\ op \in Workers /\ (op.pc # "idle" => Me \in Policies /\ op.at > 0)

There(p) == policy[p].phase # "absent"

(* What there is of a policy: nothing, or a uid given out and a version.   *)
Sound(i) ==
    \/ i = Absent
    \/ /\ i.phase # "absent" /\ i.uid \in 1..uids /\ i.version \in Versions
       /\ i.phase = "dying" => i.finalizer

PoliciesSound == \A p \in Policies : Sound(policy[p]) /\ Sound(seen[p])

UidsApart ==
    \A p \in Policies : \A q \in Policies \ {p} :
        There(p) /\ There(q) => policy[p].uid # policy[q].uid

OwnersKnown == \A o \in Objects : owner[o] \in {None, Crd} \cup (1..uids)

OwnVersion ==
    \A p \in Policies : There(p) => \A k \in Kinds, v \in Versions :
        owner[<<k, v>>] = policy[p].uid => v = policy[p].version

(* A pass works for a policy that is still there: only the worker removes  *)
(* a policy with a finalizer, and it does one thing at a time.             *)
PassIsOwn ==
    /\ op.pc = "register" => op.got.phase = "live"
    /\ op.pc = "create" => /\ policy[Me].uid = op.got.uid /\ policy[Me].version = op.got.version
                           /\ policy[Me].finalizer

ReleaseIsOwn ==
    op.pc \in {"release", "unregister"} =>
        /\ policy[Me].phase = "dying" /\ seen[Me] = policy[Me] /\ Me \notin queue

SeenIsThere ==
    \A p \in Policies : seen[p].phase = "live" /\ seen[p].finalizer =>
        /\ policy[p].uid = seen[p].uid /\ policy[p].version = seen[p].version
        /\ policy[p].finalizer

(* A policy that the cache still takes for dying, but which is gone, is    *)
(* not taken up again before the cache knows.                              *)
GoneIsLeftAlone ==
    \A p \in Policies : seen[p].phase = "dying" /\ seen[p] # policy[p] =>
        p \notin queue /\ ~(op.pc # "idle" /\ Me = p)

(* The objects of a policy are its own or the CRD's.                       *)
OwnObjects(p) == \A k \in Kinds : owner[<<k, policy[p].version>>] \in {policy[p].uid, Crd}

(* A policy will be taken up, is being worked on, or has what it needs.    *)
Served ==
    \A p \in Policies : policy[p].phase = "live" =>
        \/ p \in queue \/ seen[p] # policy[p]
        \/ op.pc \in {"register", "create"} /\ Me = p
        \/ OwnObjects(p)

(* Policies and owners; the worker and the cache.                          *)
OwnersInv == PoliciesSound /\ UidsApart /\ OwnersKnown /\ OwnVersion /\ SeenIsThere

WorkInv == WorkerTypes /\ PassIsOwn /\ ReleaseIsOwn /\ GoneIsLeftAlone /\ Served

StandInv == ApartInv /\ budget["edit"] = 0 /\ OwnersInv /\ WorkInv

(* Spending does not bring edits back.                                     *)
LEMMA NoEdits ==
    ASSUME StandInv, [Next]_vars
    PROVE  /\ budget'["edit"] = 0
           /\ \A p \in Policies, v \in Versions : ~EditVersion(p, v)
<1>1. budget \in [Events -> Nat] /\ budget["edit"] = 0 /\ "edit" \in Events
  BY DEF StandInv, ApartInv, Events
<1>2. ASSUME NEW E \in SUBSET Events, Spend(E) PROVE budget'["edit"] = 0 /\ "edit" \notin E
  BY <1>1, <1>2 DEF Spend
<1>3. ASSUME NEW e \in {"create", "edit"}, NEW p, NEW v, Admitted(e, p, v)
      PROVE  budget'["edit"] = 0 /\ e # "edit"
  <2>. DEFINE E == IF seen = policy THEN {e} ELSE {e, "stale"}
  <2>1. E \in SUBSET Events /\ Spend(E) BY <1>3 DEF Admitted, Events
  <2>. QED BY <2>1, <1>2
<1>4. \A p \in Policies, v \in Versions : ~EditVersion(p, v)
  BY <1>3 DEF EditVersion
<1>5. ASSUME NEW e \in Events, Spend({e}) PROVE budget'["edit"] = 0
  BY <1>2, <1>5
<1>6. budget'["edit"] = 0
  <2>1. CASE \E p \in Policies, v \in Versions : CreatePolicy(p, v)
    <3>1. PICK p \in Policies, v \in Versions : Admitted("create", p, v)
      BY <2>1 DEF CreatePolicy
    <3>. QED BY <3>1, <1>3
  <2>2. CASE \/ \E p \in Policies : DeletePolicy(p)
             \/ UpdateIsLost \/ ApiFails \/ OperatorCrashes
    <3>1. PICK e \in {"delete", "glitch", "crash"} : Spend({e})
      BY <2>2 DEF DeletePolicy, UpdateIsLost, ApiFails, OperatorCrashes
    <3>. QED BY <3>1, <1>5 DEF Events
  <2>3. CASE \/ \E p \in Policies : Observe(p) \/ Take(p)
             \/ \E o \in Objects : Collect(o)
             \/ WorkerStep \/ UNCHANGED vars
    <3>1. budget' = budget
      BY <2>3 DEF Observe, Take, Collect, WorkerStep, AddFinalizer, createKindResource,
                  PodsNotReady, Finish, deletePolicyOwnedResources, RemoveFinalizer, vars
    <3>. QED BY <1>1, <3>1
  <2>. QED BY <1>4, <2>1, <2>2, <2>3 DEF Next
<1>. QED BY <1>4, <1>6

-----------------------------------------------------------------------------
(* Facts.                                                                  *)

LEMMA AbsentIs ==
    /\ Absent \in Instances /\ Absent.phase = "absent" /\ ~Absent.finalizer /\ Absent.uid = 0
    /\ \A k \in Kinds, v \in Versions : <<k, v>> \in Objects
BY DEF Absent, Instances, Objects

LEMMA IdleIs == Idle \in Workers /\ Idle.pc = "idle"
BY AbsentIs DEF Idle, Workers

(* A policy that is there has a uid and a version.                         *)
LEMMA ThereIs ==
    ASSUME StandInv, NEW p \in Policies
    PROVE  /\ policy[p] \in Instances /\ seen[p] \in Instances
           /\ There(p) <=> policy[p] # Absent
           /\ There(p) => /\ policy[p].uid \in 1..uids /\ policy[p].version \in Versions
                          /\ policy[p].phase = "dying" => policy[p].finalizer
           /\ policy[p].finalizer => There(p)
           /\ policy[p].phase = "live" => There(p)
<1>1. Sound(policy[p]) BY DEF StandInv, OwnersInv, PoliciesSound
<1>2. policy[p] \in Instances /\ seen[p] \in Instances
  BY DEF StandInv, ApartInv, WorkInv, WorkerTypes
<1>. QED BY <1>1, <1>2, AbsentIs DEF Sound, There

(* Steps that leave policies, cache and objects as they are.               *)
LEMMA OwnersStay ==
    ASSUME StandInv, UNCHANGED <<policy, seen, owner, uids>>
    PROVE  OwnersInv'
BY DEF StandInv, OwnersInv, PoliciesSound, Sound, UidsApart, OwnersKnown, OwnVersion, SeenIsThere, There

(* The worker gives up and puts its policy into the queue again.           *)
LEMMA RequeueStands ==
    ASSUME StandInv, op.pc # "idle", Requeue, UNCHANGED <<policy, seen, owner, uids>>
    PROVE  OwnersInv' /\ WorkInv'
<1>1. Me \in Policies /\ op' = Idle /\ queue' = queue \cup {Me}
  BY DEF StandInv, WorkInv, WorkerTypes, Requeue, Ends
<1>2. WorkerTypes' BY <1>1, IdleIs DEF StandInv, WorkInv, WorkerTypes
<1>3. PassIsOwn' /\ ReleaseIsOwn' BY <1>1, IdleIs DEF PassIsOwn, ReleaseIsOwn
<1>4. GoneIsLeftAlone' BY <1>1, IdleIs DEF StandInv, WorkInv, GoneIsLeftAlone
<1>5. Served' BY <1>1, IdleIs DEF StandInv, WorkInv, Served, OwnObjects
<1>. QED BY <1>2, <1>3, <1>4, <1>5, OwnersStay DEF WorkInv

(* The pass moves on.                                                      *)
LEMMA PassGoesOn ==
    ASSUME StandInv, op.pc = "create", op' = [op EXCEPT !.at = @ + 1],
           UNCHANGED <<policy, seen, queue, uids>>,
           owner' \in [Objects -> Nat \cup {None, Crd}],
           \A p \in Policies \ {Me} : policy[p].phase = "live" /\ OwnObjects(p) => OwnObjects(p)'
    PROVE  WorkInv'
<1>1. op \in Workers /\ Me \in Policies BY DEF StandInv, WorkInv, WorkerTypes
<1>2. op' \in Workers /\ op'.pc = "create" /\ Me' = Me /\ op'.got = op.got /\ op'.at > 0
  <2>. DEFINE at == op.at + 1
  <2>1. at \in Nat /\ at > 0 BY <1>1 DEF Workers
  <2>2. op' = [op EXCEPT !.at = at] BY <1>1 DEF Workers
  <2>. HIDE DEF at
  <2>. QED BY <1>1, <2>1, <2>2 DEF Workers, Me
<1>3. WorkerTypes' BY <1>1, <1>2 DEF StandInv, WorkInv, WorkerTypes
<1>4. PassIsOwn' /\ ReleaseIsOwn' BY <1>2 DEF StandInv, WorkInv, PassIsOwn, ReleaseIsOwn
<1>5. GoneIsLeftAlone' BY <1>2 DEF StandInv, WorkInv, GoneIsLeftAlone
<1>6. Served' BY <1>1, <1>2 DEF StandInv, WorkInv, Served
<1>. QED BY <1>3, <1>4, <1>5, <1>6 DEF WorkInv

-----------------------------------------------------------------------------
(* Users and the cache.                                                    *)

LEMMA CreateStands ==
    ASSUME StandInv, NEW p \in Policies, NEW v \in Versions, CreatePolicy(p, v),
           policy' \in [Policies -> Instances]
    PROVE  OwnersInv' /\ WorkInv'
<1>1. /\ policy[p] = Absent /\ uids' = uids + 1 /\ uids \in Nat
      /\ UNCHANGED <<seen, owner, queue, op>>
  BY DEF CreatePolicy, StandInv, ApartInv
<1>2. /\ policy'[p] = [phase |-> "live", uid |-> uids + 1, version |-> v, finalizer |-> FALSE]
      /\ \A q \in Policies \ {p} : policy'[q] = policy[q]
  BY <1>1 DEF CreatePolicy, StandInv, ApartInv
<1>3. \A i : Sound(i) => Sound(i)' BY <1>1 DEF Sound
<1>4. Sound(policy[p])' BY <1>1, <1>2 DEF Sound
<1>5. PoliciesSound' BY <1>1, <1>2, <1>3, <1>4 DEF StandInv, OwnersInv, PoliciesSound, Sound
<1>6. UidsApart'
  BY <1>1, <1>2, ThereIs DEF StandInv, OwnersInv, UidsApart, There
<1>7. OwnersKnown' BY <1>1 DEF StandInv, OwnersInv, OwnersKnown
<1>8. OwnVersion'
  <2>1. \A o \in Objects : owner[o] # uids + 1
    <3>1. uids + 1 \in Nat /\ uids + 1 \notin 1..uids BY <1>1
    <3>. QED BY <3>1, OwnersAssumption DEF StandInv, OwnersInv, OwnersKnown
  <2>2. \A k \in Kinds, w \in Versions : owner[<<k, w>>] # uids + 1
    BY <2>1, AbsentIs
  <2>. QED BY <1>1, <1>2, <2>2 DEF StandInv, OwnersInv, OwnVersion, There
<1>9. SeenIsThere' BY <1>1, <1>2, AbsentIs DEF StandInv, OwnersInv, SeenIsThere
<1>10. WorkerTypes' BY <1>1 DEF StandInv, WorkInv, WorkerTypes, Me
<1>11. PassIsOwn' BY <1>1, <1>2, AbsentIs DEF StandInv, WorkInv, WorkerTypes, PassIsOwn, Me
<1>12. ReleaseIsOwn' BY <1>1, <1>2, AbsentIs DEF StandInv, WorkInv, WorkerTypes, ReleaseIsOwn, Me
<1>13. GoneIsLeftAlone' BY <1>1, <1>2, AbsentIs DEF StandInv, WorkInv, GoneIsLeftAlone, Me
<1>14. Served'
  <2>1. seen[p] # policy'[p]
    <3>1. Sound(seen[p]) BY DEF StandInv, OwnersInv, PoliciesSound
    <3>. QED BY <1>1, <1>2, <3>1, AbsentIs DEF Sound
  <2>. QED BY <1>1, <1>2, <2>1 DEF StandInv, WorkInv, Served, OwnObjects, Me
<1>. QED BY <1>5, <1>6, <1>7, <1>8, <1>9, <1>10, <1>11, <1>12, <1>13, <1>14 DEF OwnersInv, WorkInv

(* A policy that goes, or is marked for it: what it owns stays its own.    *)
LEMMA DeleteStands ==
    ASSUME StandInv, NEW p \in Policies, DeletePolicy(p), policy' \in [Policies -> Instances]
    PROVE  OwnersInv' /\ WorkInv'
<1>1. /\ policy[p].phase = "live" /\ policy[p] \in Instances
      /\ UNCHANGED <<seen, owner, queue, op, uids>>
  BY ThereIs DEF DeletePolicy
<1>2. /\ \A q \in Policies \ {p} : policy'[q] = policy[q]
      /\ ~policy[p].finalizer => policy'[p] = Absent
      /\ policy[p].finalizer => /\ policy'[p].phase = "dying" /\ policy'[p].uid = policy[p].uid
                                /\ policy'[p].version = policy[p].version
                                /\ policy'[p].finalizer
  BY <1>1 DEF DeletePolicy, StandInv, ApartInv, Instances
<1>3. PoliciesSound'
  BY <1>1, <1>2, ThereIs DEF StandInv, OwnersInv, PoliciesSound, Sound
<1>4. UidsApart'
  BY <1>1, <1>2, AbsentIs DEF StandInv, OwnersInv, UidsApart, There
<1>5. OwnersKnown' /\ OwnVersion'
  BY <1>1, <1>2, AbsentIs DEF StandInv, OwnersInv, OwnersKnown, OwnVersion, There
<1>6. SeenIsThere' BY <1>1, <1>2 DEF StandInv, OwnersInv, SeenIsThere
<1>7. WorkerTypes' BY <1>1 DEF StandInv, WorkInv, WorkerTypes, Me
<1>8. PassIsOwn' BY <1>1, <1>2 DEF StandInv, WorkInv, WorkerTypes, PassIsOwn, Me
<1>9. ReleaseIsOwn' BY <1>1, <1>2 DEF StandInv, WorkInv, WorkerTypes, ReleaseIsOwn, Me
<1>10. GoneIsLeftAlone'
  BY <1>1, <1>2 DEF StandInv, WorkInv, GoneIsLeftAlone, Me
<1>11. Served'
  BY <1>1, <1>2, AbsentIs DEF StandInv, WorkInv, Served, OwnObjects, Me
<1>. QED BY <1>3, <1>4, <1>5, <1>6, <1>7, <1>8, <1>9, <1>10, <1>11 DEF OwnersInv, WorkInv

LEMMA ObserveStands ==
    ASSUME StandInv, NEW p \in Policies, Observe(p)
    PROVE  OwnersInv' /\ WorkInv'
<1>1. /\ seen[p] # policy[p] /\ seen' = [seen EXCEPT ![p] = policy[p]]
      /\ queue' = queue \cup {p} /\ UNCHANGED <<policy, owner, op, uids>>
  BY DEF Observe
<1>2. seen'[p] = policy[p] /\ \A q \in Policies \ {p} : seen'[q] = seen[q]
  BY <1>1 DEF StandInv, WorkInv, WorkerTypes
<1>3. PoliciesSound' /\ UidsApart' /\ OwnersKnown' /\ OwnVersion'
  BY <1>1, <1>2 DEF StandInv, OwnersInv, PoliciesSound, Sound, UidsApart, OwnersKnown,
                    OwnVersion, There
<1>4. SeenIsThere' BY <1>1, <1>2 DEF StandInv, OwnersInv, SeenIsThere
<1>5. WorkerTypes' BY <1>1, ThereIs DEF StandInv, WorkInv, WorkerTypes, Me
<1>6. PassIsOwn' BY <1>1 DEF StandInv, WorkInv, PassIsOwn, Me
<1>7. ReleaseIsOwn' BY <1>1, <1>2 DEF StandInv, WorkInv, WorkerTypes, ReleaseIsOwn, Me
<1>8. GoneIsLeftAlone' BY <1>1, <1>2 DEF StandInv, WorkInv, GoneIsLeftAlone, Me
<1>9. Served' BY <1>1, <1>2 DEF StandInv, WorkInv, Served, OwnObjects, Me
<1>. QED BY <1>3, <1>4, <1>5, <1>6, <1>7, <1>8, <1>9 DEF OwnersInv, WorkInv

(* What is collected is nobody's.                                          *)
LEMMA CollectStands ==
    ASSUME StandInv, NEW o \in Objects, Collect(o)
    PROVE  OwnersInv' /\ WorkInv'
<1>1. /\ Gone(owner[o]) /\ owner' = [owner EXCEPT ![o] = None]
      /\ UNCHANGED <<policy, seen, queue, op, uids>>
  BY DEF Collect
<1>2. owner'[o] = None /\ \A q \in Objects \ {o} : owner'[q] = owner[q]
  BY <1>1 DEF StandInv, WorkInv, WorkerTypes
<1>3. \A p \in Policies : policy[p].uid \in Nat BY ThereIs DEF Instances
<1>4. PoliciesSound' /\ UidsApart' /\ SeenIsThere'
  BY <1>1 DEF StandInv, OwnersInv, PoliciesSound, Sound, UidsApart, There, SeenIsThere
<1>5. OwnersKnown' BY <1>1, <1>2 DEF StandInv, OwnersInv, OwnersKnown
<1>6. OwnVersion'
  BY <1>1, <1>2, <1>3, AbsentIs, OwnersAssumption DEF StandInv, OwnersInv, OwnVersion, There
<1>7. \A p \in Policies : policy[p].phase = "live" /\ OwnObjects(p) => OwnObjects(p)'
  <2>. SUFFICES ASSUME NEW p \in Policies, policy[p].phase = "live", OwnObjects(p), NEW k \in Kinds
                PROVE  owner'[<<k, policy[p].version>>] \in {policy[p].uid, Crd}
    BY <1>1 DEF OwnObjects
  <2>1. owner[<<k, policy[p].version>>] \in {policy[p].uid, Crd} BY DEF OwnObjects
  <2>2. <<k, policy[p].version>> # o BY <1>1, <2>1 DEF Gone
  <2>3. <<k, policy[p].version>> \in Objects BY ThereIs, AbsentIs
  <2>. QED BY <1>2, <2>1, <2>2, <2>3
<1>8. WorkerTypes' BY <1>1 DEF StandInv, WorkInv, WorkerTypes, Me
<1>9. PassIsOwn' /\ ReleaseIsOwn' /\ GoneIsLeftAlone'
  BY <1>1 DEF StandInv, WorkInv, PassIsOwn, ReleaseIsOwn, GoneIsLeftAlone, Me
<1>10. Served' BY <1>1, <1>7 DEF StandInv, WorkInv, Served, Me
<1>. QED BY <1>4, <1>5, <1>6, <1>8, <1>9, <1>10 DEF OwnersInv, WorkInv

-----------------------------------------------------------------------------
(* The operator.                                                           *)

(* A policy is taken up as the cache has it.                               *)
LEMMA TakeStands ==
    ASSUME StandInv, NEW p \in Policies, Take(p)
    PROVE  OwnersInv' /\ WorkInv'
<1>. DEFINE i == seen[p]
            next == CASE i.phase = "live" -> IF i.finalizer THEN "create" ELSE "register"
                      [] i.phase = "dying" /\ i.finalizer -> "release"
                      [] OTHER -> "idle"
<1>1. /\ op.pc = "idle" /\ p \in queue /\ queue' = queue \ {p}
      /\ UNCHANGED <<policy, seen, owner, uids>>
      /\ op' = IF next = "idle" THEN Idle ELSE [pc |-> next, policy |-> p, got |-> i, at |-> 1]
  BY DEF Take
<1>2. i \in Instances BY ThereIs
<1>3. \/ next = "create" /\ i.phase = "live" /\ i.finalizer
      \/ next = "register" /\ i.phase = "live" /\ ~i.finalizer
      \/ next = "release" /\ i.phase = "dying" /\ i.finalizer
      \/ next = "idle" /\ i.phase # "live"
  BY <1>2 DEF Instances
<1>. HIDE DEF next
<1>4. CASE next = "idle"
  <2>1. op' = Idle /\ i.phase # "live" BY <1>1, <1>3, <1>4
  <2>2. WorkerTypes' BY <1>1, <2>1, IdleIs DEF StandInv, WorkInv, WorkerTypes
  <2>3. PassIsOwn' /\ ReleaseIsOwn' BY <2>1, IdleIs DEF PassIsOwn, ReleaseIsOwn
  <2>4. GoneIsLeftAlone' BY <1>1, <2>1, IdleIs DEF StandInv, WorkInv, GoneIsLeftAlone
  <2>5. Served' BY <1>1, <2>1, IdleIs DEF StandInv, WorkInv, Served, OwnObjects
  <2>. QED BY <1>1, <2>2, <2>3, <2>4, <2>5, OwnersStay DEF WorkInv
<1>5. CASE next # "idle"
  <2>1. op' = [pc |-> next, policy |-> p, got |-> i, at |-> 1] BY <1>1, <1>5
  <2>2. op'.pc = next /\ Me' = p /\ op'.got = i /\ op'.at = 1 BY <2>1 DEF Me
  <2>3. WorkerTypes' BY <1>1, <1>2, <1>3, <2>1, <2>2 DEF StandInv, WorkInv, WorkerTypes, Workers
  <2>4. PassIsOwn' BY <1>1, <1>3, <2>2 DEF StandInv, OwnersInv, SeenIsThere, PassIsOwn
  <2>5. i.phase = "dying" => i = policy[p] BY <1>1 DEF StandInv, WorkInv, GoneIsLeftAlone
  <2>6. ReleaseIsOwn' BY <1>1, <1>3, <2>2, <2>5 DEF ReleaseIsOwn
  <2>7. GoneIsLeftAlone' BY <1>1, <2>2, <2>5 DEF StandInv, WorkInv, GoneIsLeftAlone
  <2>8. Served' BY <1>1, <1>3, <2>2 DEF StandInv, WorkInv, Served, OwnObjects
  <2>. QED BY <1>1, <2>3, <2>4, <2>6, <2>7, <2>8, OwnersStay DEF WorkInv
<1>. QED BY <1>4, <1>5

LEMMA AddFinalizerStands ==
    ASSUME StandInv, AddFinalizer, policy' \in [Policies -> Instances]
    PROVE  OwnersInv' /\ WorkInv'
<1>1. /\ op.pc = "register" /\ UNCHANGED <<seen, owner, uids>>
      /\ Me \in Policies /\ op \in Workers /\ op.got.phase = "live" /\ op.at > 0
  BY DEF AddFinalizer, StandInv, WorkInv, WorkerTypes, PassIsOwn
<1>2. CASE Requeue /\ UNCHANGED policy BY <1>1, <1>2, RequeueStands
<1>3. CASE /\ Accepted(Me, op.got) /\ policy' = [policy EXCEPT ![Me].finalizer = TRUE]
           /\ op' = [op EXCEPT !.pc = "create"] /\ UNCHANGED queue
  <2>1. /\ policy[Me] = op.got /\ policy[Me].phase = "live" /\ policy[Me] \in Instances
        /\ There(Me)
    BY <1>1, <1>3, ThereIs DEF Accepted
  <2>2. /\ \A q \in Policies \ {Me} : policy'[q] = policy[q]
        /\ policy'[Me] = [policy[Me] EXCEPT !.finalizer = TRUE]
    BY <1>1, <1>3 DEF StandInv, ApartInv
  <2>3. /\ policy'[Me].phase = "live" /\ policy'[Me].finalizer
        /\ policy'[Me].uid = policy[Me].uid /\ policy'[Me].version = policy[Me].version
    BY <2>1, <2>2 DEF Instances
  <2>4. op' \in Workers /\ op'.pc = "create" /\ Me' = Me /\ op'.got = op.got /\ op'.at = op.at
    BY <1>1, <1>3 DEF Workers, Me
  <2>5. PoliciesSound'
    <3>1. \A q \in Policies : Sound(policy[q]) /\ Sound(seen[q])
      BY DEF StandInv, OwnersInv, PoliciesSound
    <3>2. policy[Me].uid \in 1..uids /\ policy[Me].version \in Versions
      BY <1>1, <2>1, ThereIs
    <3>3. uids' = uids /\ seen' = seen BY <1>1
    <3>4. ASSUME NEW q \in Policies PROVE Sound(policy[q])'
      <4>1. CASE q = Me
        <5>1. /\ policy'[q].phase = "live" /\ policy'[q].finalizer
              /\ policy'[q].uid \in 1..uids /\ policy'[q].version \in Versions
          BY <2>3, <3>2, <4>1
        <5>. QED BY <3>3, <5>1 DEF Sound
      <4>2. CASE q # Me
        <5>1. policy'[q] = policy[q] BY <2>2, <4>2
        <5>2. Sound(policy[q]) BY <3>1
        <5>. QED BY <3>3, <5>1, <5>2 DEF Sound
      <4>. QED BY <4>1, <4>2
    <3>5. ASSUME NEW q \in Policies PROVE Sound(seen[q])'
      BY <3>1, <3>3 DEF Sound
    <3>. QED BY <3>4, <3>5 DEF PoliciesSound
  <2>14. \A q \in Policies : /\ policy'[q].phase = policy[q].phase
                            /\ policy'[q].uid = policy[q].uid
                            /\ policy'[q].version = policy[q].version
    BY <2>1, <2>2, <2>3
  <2>6. UidsApart' BY <2>14 DEF StandInv, OwnersInv, UidsApart, There
  <2>7. OwnersKnown' /\ OwnVersion'
    BY <1>1, <2>14 DEF StandInv, OwnersInv, OwnersKnown, OwnVersion, There
  <2>8. SeenIsThere'
    <3>1. SeenIsThere /\ seen' = seen BY <1>1 DEF StandInv, OwnersInv
    <3>2. \A q \in Policies : policy[q].finalizer => policy'[q].finalizer BY <2>2, <2>3
    <3>. QED BY <2>14, <3>1, <3>2 DEF SeenIsThere
  <2>9. WorkerTypes' BY <1>1, <2>4 DEF StandInv, WorkInv, WorkerTypes
  <2>10. PassIsOwn' /\ ReleaseIsOwn' BY <2>1, <2>3, <2>4 DEF PassIsOwn, ReleaseIsOwn
  <2>11. seen[Me].phase # "dying"
    BY <1>1, <2>1 DEF StandInv, WorkInv, GoneIsLeftAlone
  <2>12. GoneIsLeftAlone' BY <1>1, <1>3, <2>2, <2>4, <2>11 DEF StandInv, WorkInv, GoneIsLeftAlone
  <2>13. Served' BY <1>1, <1>3, <2>2, <2>4 DEF StandInv, WorkInv, Served, OwnObjects
  <2>. QED BY <2>5, <2>6, <2>7, <2>8, <2>9, <2>10, <2>12, <2>13 DEF OwnersInv, WorkInv
<1>. QED BY <1>2, <1>3 DEF AddFinalizer

(* An object keeps its owner, or becomes the policy's own or the CRD's.    *)
LEMMA OwnerIs ==
    ASSUME NEW k \in {"rule", "init", "daemon", "config"}, NEW uid, NEW has
    PROVE  Owner(k, uid, has) \in {has, uid, Crd}
BY DEF Owner, OwnerOfInitTask, OwnerOfRule, OwnerOfWorkload, OwnerOfConfigMap

LEMMA CreateResourceStands ==
    ASSUME StandInv, createKindResource
    PROVE  OwnersInv' /\ WorkInv'
<1>. DEFINE k == Steps[op.at]
            o == Object(k, op.got.version)
            has == Owner(k, op.got.uid, owner[o])
<1>1. /\ op.pc = "create" /\ op.at <= Len(Steps) /\ op' = [op EXCEPT !.at = @ + 1]
      /\ owner' = [owner EXCEPT ![o] = has] /\ UNCHANGED <<policy, seen, queue, uids>>
  BY DEF createKindResource
<1>2. /\ Me \in Policies /\ policy[Me].uid = op.got.uid /\ policy[Me].version = op.got.version
      /\ There(Me) /\ op.got.uid \in 1..uids
  BY <1>1, ThereIs DEF StandInv, WorkInv, WorkerTypes, PassIsOwn
<1>3. k \in {"rule", "init", "daemon", "config"}
  <2>1. op.at \in Nat /\ op.at > 0 BY <1>1 DEF StandInv, WorkInv, WorkerTypes, Workers
  <2>2. op.at \in 1..5 BY <1>1, <2>1 DEF Steps
  <2>. QED BY <2>2 DEF Steps
<1>4. has \in {owner[o], op.got.uid, Crd} BY <1>3, OwnerIs
<1>. HIDE DEF has
<1>5. \A x \in Objects : owner'[x] = IF x = o THEN has ELSE owner[x]
  BY <1>1 DEF StandInv, WorkInv, WorkerTypes
<1>6. uids \in Nat BY DEF StandInv, ApartInv
<1>7. OwnersKnown' BY <1>1, <1>2, <1>4, <1>5 DEF StandInv, OwnersInv, OwnersKnown
<1>8. owner' \in [Objects -> Nat \cup {None, Crd}]
  <2>1. DOMAIN owner' = Objects /\ owner' = [x \in Objects |-> owner'[x]]
    BY <1>1 DEF StandInv, WorkInv, WorkerTypes
  <2>2. \A x \in Objects : owner'[x] \in Nat \cup {None, Crd} BY <1>1, <1>6, <1>7 DEF OwnersKnown
  <2>. QED BY <2>1, <2>2
<1>9. OwnVersion'
  <2>. SUFFICES ASSUME NEW p \in Policies, There(p), NEW j \in Kinds, NEW v \in Versions,
                       owner'[<<j, v>>] = policy[p].uid
                PROVE  v = policy[p].version
    BY <1>1 DEF OwnVersion, There
  <2>1. <<j, v>> \in Objects BY AbsentIs
  <2>2. CASE owner'[<<j, v>>] = owner[<<j, v>>] BY <2>2 DEF StandInv, OwnersInv, OwnVersion
  <2>3. CASE owner'[<<j, v>>] = Crd BY <2>3, ThereIs, OwnersAssumption DEF Instances
  <2>4. CASE owner'[<<j, v>>] = op.got.uid /\ <<j, v>> = o
    <3>1. p = Me BY <1>2, <2>4 DEF StandInv, OwnersInv, UidsApart
    <3>2. v = op.got.version BY <2>4 DEF Object, Kinds, Shared
    <3>. QED BY <1>2, <3>1, <3>2
  <2>. QED BY <1>4, <1>5, <2>1, <2>2, <2>3, <2>4
<1>10. PoliciesSound' /\ UidsApart' /\ SeenIsThere'
  BY <1>1 DEF StandInv, OwnersInv, PoliciesSound, Sound, UidsApart, There, SeenIsThere
<1>11. ASSUME NEW p \in Policies \ {Me}, policy[p].phase = "live", OwnObjects(p)
       PROVE  OwnObjects(p)'
  <2>. SUFFICES ASSUME NEW j \in Kinds
                PROVE  owner'[<<j, policy[p].version>>] \in {policy[p].uid, Crd}
    BY <1>1 DEF OwnObjects
  <2>1. There(p) /\ policy[p].version \in Versions BY <1>11, ThereIs
  <2>2. policy[p].version # op.got.version
    BY <1>2, <2>1 DEF StandInv, ApartInv, VersionsApart, There
  <2>3. <<j, policy[p].version>> # o BY <2>2 DEF Object, Kinds, Shared
  <2>4. <<j, policy[p].version>> \in Objects BY <2>1, AbsentIs
  <2>. QED BY <1>5, <1>11, <2>3, <2>4 DEF OwnObjects
<1>12. WorkInv' BY <1>1, <1>8, <1>11, PassGoesOn
<1>. QED BY <1>7, <1>9, <1>10, <1>12 DEF OwnersInv

LEMMA UpdateIsLostStands ==
    ASSUME StandInv, UpdateIsLost
    PROVE  OwnersInv' /\ WorkInv'
<1>1. /\ op.pc = "create" /\ op' = [op EXCEPT !.at = @ + 1]
      /\ UNCHANGED <<policy, seen, owner, queue, uids>>
  BY DEF UpdateIsLost
<1>2. owner' \in [Objects -> Nat \cup {None, Crd}] BY <1>1 DEF StandInv, WorkInv, WorkerTypes
<1>3. \A p \in Policies : OwnObjects(p) => OwnObjects(p)' BY <1>1 DEF OwnObjects
<1>. QED BY <1>1, <1>2, <1>3, PassGoesOn, OwnersStay

(* What stands at the end of a pass is the policy's own: its version is    *)
(* no other policy's.                                                      *)
LEMMA StandingIsOwn ==
    ASSUME StandInv, op.pc = "create", Stands(op.got.version)
    PROVE  OwnObjects(Me)
<1>. DEFINE v == op.got.version
<1>1. Me \in Policies /\ There(Me) /\ policy[Me].version = v /\ v \in Versions
  BY ThereIs DEF StandInv, WorkInv, WorkerTypes, PassIsOwn
<1>. SUFFICES ASSUME NEW k \in Kinds PROVE owner[<<k, v>>] \in {policy[Me].uid, Crd}
  BY <1>1 DEF OwnObjects
<1>2. owner[<<k, v>>] # None /\ ~Gone(owner[<<k, v>>]) BY DEF Stands
<1>3. owner[<<k, v>>] \in {Crd} \cup (1..uids)
  BY <1>1, <1>2, AbsentIs DEF StandInv, OwnersInv, OwnersKnown
<1>4. CASE owner[<<k, v>>] = Crd BY <1>4
<1>5. CASE owner[<<k, v>>] # Crd
  <2>1. PICK r \in Policies : owner[<<k, v>>] = policy[r].uid BY <1>2, <1>5 DEF Gone
  <2>2. policy[r].uid # 0
    <3>1. uids \in Nat BY DEF StandInv, ApartInv
    <3>. QED BY <1>3, <1>5, <2>1, <3>1
  <2>3. There(r) BY <2>2, ThereIs, AbsentIs
  <2>4. policy[r].version = v BY <1>1, <2>1, <2>3 DEF StandInv, OwnersInv, OwnVersion
  <2>5. r = Me BY <1>1, <2>3, <2>4 DEF StandInv, ApartInv, VersionsApart, There
  <2>. QED BY <2>1, <2>5
<1>. QED BY <1>4, <1>5

LEMMA FinishStands ==
    ASSUME StandInv, Finish
    PROVE  OwnersInv' /\ WorkInv'
<1>1. op.pc = "create" /\ UNCHANGED <<policy, seen, owner, uids>> BY DEF Finish
<1>2. CASE Requeue BY <1>1, <1>2, RequeueStands
<1>3. CASE Stands(op.got.version) /\ Ends /\ UNCHANGED queue
  <2>1. op' = Idle /\ OwnObjects(Me) BY <1>1, <1>3, StandingIsOwn DEF Ends
  <2>2. WorkerTypes' BY <1>1, <2>1, IdleIs DEF StandInv, WorkInv, WorkerTypes
  <2>3. PassIsOwn' /\ ReleaseIsOwn' BY <2>1, IdleIs DEF PassIsOwn, ReleaseIsOwn
  <2>4. GoneIsLeftAlone' BY <1>1, <1>3, <2>1, IdleIs DEF StandInv, WorkInv, GoneIsLeftAlone
  <2>5. \A p \in Policies : OwnObjects(p) => OwnObjects(p)' BY <1>1 DEF OwnObjects
  <2>6. Served' BY <1>1, <1>3, <2>1, <2>5, IdleIs DEF StandInv, WorkInv, Served
  <2>. QED BY <1>1, <2>2, <2>3, <2>4, <2>6, OwnersStay DEF WorkInv
<1>. QED BY <1>2, <1>3 DEF Finish

LEMMA ReleaseStands ==
    ASSUME StandInv, deletePolicyOwnedResources
    PROVE  OwnersInv' /\ WorkInv'
<1>1. /\ op.pc = "release" /\ op' = [op EXCEPT !.pc = "unregister"] /\ op \in Workers
      /\ UNCHANGED <<policy, seen, owner, queue, uids>>
  BY DEF deletePolicyOwnedResources, StandInv, WorkInv, WorkerTypes
<1>2. op' \in Workers /\ op'.pc = "unregister" /\ Me' = Me /\ op'.at = op.at
  BY <1>1 DEF Workers, Me
<1>3. WorkerTypes' BY <1>1, <1>2 DEF StandInv, WorkInv, WorkerTypes
<1>4. PassIsOwn' /\ ReleaseIsOwn' BY <1>1, <1>2 DEF StandInv, WorkInv, PassIsOwn, ReleaseIsOwn
<1>5. GoneIsLeftAlone' BY <1>1, <1>2 DEF StandInv, WorkInv, GoneIsLeftAlone
<1>6. Served' BY <1>1, <1>2 DEF StandInv, WorkInv, Served, OwnObjects
<1>. QED BY <1>1, <1>3, <1>4, <1>5, <1>6, OwnersStay DEF WorkInv

LEMMA RemoveFinalizerStands ==
    ASSUME StandInv, RemoveFinalizer, policy' \in [Policies -> Instances]
    PROVE  OwnersInv' /\ WorkInv'
<1>1. /\ op.pc = "unregister" /\ UNCHANGED <<seen, owner, uids>> /\ Me \in Policies
      /\ seen[Me].phase = "dying" /\ Me \notin queue
  BY DEF RemoveFinalizer, StandInv, WorkInv, WorkerTypes, ReleaseIsOwn
<1>2. CASE Requeue /\ UNCHANGED policy BY <1>1, <1>2, RequeueStands
<1>3. CASE policy' = [policy EXCEPT ![Me] = Absent] /\ Ends /\ UNCHANGED queue
  <2>1. /\ policy'[Me] = Absent /\ \A q \in Policies \ {Me} : policy'[q] = policy[q]
        /\ op' = Idle
    BY <1>1, <1>3 DEF StandInv, ApartInv, Ends
  <2>2. PoliciesSound' BY <1>1, <2>1 DEF StandInv, OwnersInv, PoliciesSound, Sound
  <2>3. UidsApart' BY <2>1, AbsentIs DEF StandInv, OwnersInv, UidsApart, There
  <2>4. OwnersKnown' /\ OwnVersion'
    BY <1>1, <2>1, AbsentIs DEF StandInv, OwnersInv, OwnersKnown, OwnVersion, There
  <2>5. SeenIsThere' BY <1>1, <2>1 DEF StandInv, OwnersInv, SeenIsThere
  <2>6. WorkerTypes' BY <1>1, <2>1, IdleIs DEF StandInv, WorkInv, WorkerTypes
  <2>7. PassIsOwn' /\ ReleaseIsOwn' BY <2>1, IdleIs DEF PassIsOwn, ReleaseIsOwn
  <2>8. GoneIsLeftAlone' BY <1>1, <1>3, <2>1, IdleIs DEF StandInv, WorkInv, GoneIsLeftAlone
  <2>9. Served' BY <1>1, <1>3, <2>1, IdleIs, AbsentIs DEF StandInv, WorkInv, Served, OwnObjects
  <2>. QED BY <2>2, <2>3, <2>4, <2>5, <2>6, <2>7, <2>8, <2>9 DEF OwnersInv, WorkInv
<1>. QED BY <1>2, <1>3 DEF RemoveFinalizer

LEMMA CrashStands ==
    ASSUME StandInv, OperatorCrashes
    PROVE  OwnersInv' /\ WorkInv'
<1>1. /\ seen' = policy /\ queue' = {p \in Policies : policy[p] # Absent} /\ op' = Idle
      /\ UNCHANGED <<policy, owner, uids>>
  BY DEF OperatorCrashes, Ends
<1>2. OwnersInv'
  BY <1>1 DEF StandInv, OwnersInv, PoliciesSound, Sound, UidsApart, OwnersKnown, OwnVersion,
              SeenIsThere, There
<1>3. WorkerTypes' BY <1>1, IdleIs DEF StandInv, ApartInv, WorkInv, WorkerTypes
<1>4. PassIsOwn' /\ ReleaseIsOwn' BY <1>1, IdleIs DEF PassIsOwn, ReleaseIsOwn
<1>5. GoneIsLeftAlone' BY <1>1 DEF GoneIsLeftAlone
<1>6. Served' BY <1>1, AbsentIs DEF Served
<1>. QED BY <1>2, <1>3, <1>4, <1>5, <1>6 DEF WorkInv

-----------------------------------------------------------------------------
LEMMA InitStands == ASSUME CacheInTime, VersionsStay, Init PROVE StandInv
<1>1. PICK s \in Scenarios : policy = s.policy /\ owner = s.owner /\ budget = s.budget
  BY DEF Init
<1>2. /\ seen = policy /\ queue = {p \in Policies : policy[p] # Absent} /\ op = Idle /\ uids = 1
  BY DEF Init
<1>3. owner \in [Objects -> Nat \cup {None, Crd}] /\ policy \in [Policies -> Instances]
  BY <1>1, ResourcesAssumption
<1>4. budget["edit"] = 0 /\ \A o \in Objects : owner[o] \in {None, Crd, 1}
  BY <1>1 DEF VersionsStay
<1>5. \A p \in Policies :
         \/ policy[p] = Absent
         \/ /\ policy[p].phase # "absent" /\ policy[p].uid = 1 /\ policy[p].version \in Versions
            /\ policy[p].phase = "dying" => policy[p].finalizer
            /\ \A q \in Policies \ {p} : policy[q] = Absent
            /\ \A k \in Kinds, v \in Versions : owner[<<k, v>>] = 1 => v = policy[p].version
  BY <1>1 DEF VersionsStay
<1>6. PoliciesSound
  <2>1. 1 \in 1..uids BY <1>2
  <2>2. \A p \in Policies : Sound(policy[p]) BY <1>5, <2>1 DEF Sound
  <2>. QED BY <1>2, <2>2 DEF PoliciesSound
<1>7. UidsApart BY <1>5, AbsentIs DEF UidsApart, There
<1>8. OwnersKnown BY <1>2, <1>4 DEF OwnersKnown
<1>9. OwnVersion BY <1>5, AbsentIs DEF OwnVersion, There
<1>10. SeenIsThere BY <1>2 DEF SeenIsThere
<1>11. WorkerTypes BY <1>2, <1>3, IdleIs DEF WorkerTypes
<1>12. PassIsOwn /\ ReleaseIsOwn /\ GoneIsLeftAlone /\ Served
  BY <1>2, IdleIs, AbsentIs DEF PassIsOwn, ReleaseIsOwn, GoneIsLeftAlone, Served
<1>. QED BY <1>4, <1>6, <1>7, <1>8, <1>9, <1>10, <1>11, <1>12, ApartInit
         DEF StandInv, OwnersInv, WorkInv

LEMMA NextStands == ASSUME StandInv, [Next]_vars PROVE StandInv'
<1>1. ApartInv' /\ policy' \in [Policies -> Instances]
  BY ApartNext DEF StandInv, ApartInv
<1>2. budget'["edit"] = 0 /\ \A p \in Policies, v \in Versions : ~EditVersion(p, v)
  BY NoEdits
<1>3. OwnersInv' /\ WorkInv'
  <2>1. CASE \E p \in Policies : \/ \E v \in Versions : CreatePolicy(p, v)
                                 \/ DeletePolicy(p) \/ Observe(p) \/ Take(p)
    BY <1>1, <2>1, CreateStands, DeleteStands, ObserveStands, TakeStands
  <2>2. CASE \E o \in Objects : Collect(o) BY <2>2, CollectStands
  <2>3. CASE AddFinalizer \/ RemoveFinalizer
    BY <1>1, <2>3, AddFinalizerStands, RemoveFinalizerStands
  <2>4. CASE PodsNotReady \/ ApiFails
    BY <2>4, RequeueStands DEF PodsNotReady, ApiFails
  <2>5. CASE createKindResource \/ UpdateIsLost \/ Finish \/ deletePolicyOwnedResources
    BY <2>5, CreateResourceStands, UpdateIsLostStands, FinishStands, ReleaseStands
  <2>6. CASE OperatorCrashes BY <2>6, CrashStands
  <2>7. CASE UNCHANGED vars
    <3>1. WorkInv'
      BY <2>7 DEF vars, StandInv, WorkInv, WorkerTypes, PassIsOwn, ReleaseIsOwn,
                  GoneIsLeftAlone, Served, OwnObjects, Me
    <3>. QED BY <2>7, <3>1, OwnersStay DEF vars
  <2>. QED BY <1>2, <2>1, <2>2, <2>3, <2>4, <2>5, <2>6, <2>7 DEF Next, WorkerStep
<1>. QED BY <1>1, <1>2, <1>3 DEF StandInv

(* When all is quiet, a policy's objects are its own, or the CRD's.        *)
LEMMA QuietStands == StandInv => AssetsStand
<1>. SUFFICES ASSUME StandInv, Quiet, NEW p \in Policies, policy[p].phase = "live",
                     NEW k \in Kinds
              PROVE  /\ owner[<<k, policy[p].version>>] # None
                     /\ ~Gone(owner[<<k, policy[p].version>>])
  BY DEF AssetsStand, Stands
<1>1. OwnObjects(p) BY DEF Quiet, StandInv, WorkInv, Served
<1>2. owner[<<k, policy[p].version>>] \in {policy[p].uid, Crd} BY <1>1 DEF OwnObjects
<1>3. policy[p].uid \in Nat BY ThereIs DEF Instances
<1>. QED BY <1>2, <1>3, OwnersAssumption DEF Gone

(* When all is quiet, every policy has its DaemonSets, its Module and its  *)
(* ConfigMap, whichever policies came and went at whatever moment, with    *)
(* crashes and failures: no deletion takes what another policy needs       *)
(* (SetControllerReference, getUniqueNameForResource, RemoveFinalizer).    *)
THEOREM AssetsStayStanding ==
    ASSUME CacheInTime, VersionsStay PROVE Spec => []AssetsStand
<1>1. Init => StandInv BY InitStands
<1>2. StandInv /\ [Next]_vars => StandInv' BY NextStands
<1>3. StandInv => AssetsStand BY QuietStands
<1>. QED BY <1>1, <1>2, <1>3, PTL DEF Spec
=============================================================================
