------------------------------ MODULE PodRepo ------------------------------
(***************************************************************************)
(* The pod repository of the backend (server/internal/data/pod.go).        *)
(*                                                                         *)
(* A client-go informer watches the cluster's pods.  It keeps a store of   *)
(* them by name and queues one notification per change; its goroutine      *)
(* calls onAddPod, onUpdatePod or onDeletedPod for each in turn, and these *)
(* maintain `pods', keyed by UID.  When the watch breaks the informer      *)
(* misses changes; it lists the pods again and notifies the differences by *)
(* name: a pod that is gone becomes a tombstone, one that was deleted and  *)
(* created again under its name becomes an update.                         *)
(*                                                                         *)
(* A handler that panics takes the process with it; kubelet restarts it.   *)
(***************************************************************************)
EXTENDS FiniteSets, Functions, Naturals, Sequences

CONSTANTS
    Name,         \* pod names
    Short,        \* UIDs of pods whose annotation decodes to too few entries
    WatchBreaks,  \* can the watch break?
    MaxPods,      \* bound: pods ever created; their UIDs are 1, 2, ...
    MaxQueue      \* bound: length of the queue when a change can still come

UID == 1..MaxPods

ASSUME PodRepoAssumption ==
    /\ IsFiniteSet(Name)
    /\ Short \subseteq UID
    /\ WatchBreaks \in BOOLEAN
    /\ MaxPods \in Nat /\ MaxQueue \in Nat

(* A pod object: its UID, 0 for no pod; is it annotated with the node it   *)
(* was assigned to; its phase ("over" is Failed or Succeeded).             *)
Phase  == {"pending", "running", "over"}
Object == [uid : 0..MaxPods, assigned : BOOLEAN, phase : Phase]
NoPod  == [uid |-> 0, assigned |-> FALSE, phase |-> "pending"]
Event  == [kind : {"add", "update", "delete", "tombstone"},
           name : Name, pod : Object]

VARIABLES
    api,       \* the pods of the cluster, by name
    created,   \* how many pods were ever created
    store,     \* the informer's store
    watching,  \* the watch is up
    queue,     \* notifications not yet handled
    up,        \* the backend runs
    pods       \* r.pods: UID -> the object it was made from

(* History, not in the code.                                               *)
VARIABLES
    missed,    \* UIDs deleted while the watch was down
    removed    \* UIDs r.pods no longer has

cluster == <<api, created>>
process == <<store, watching, queue, up, pods, removed>>
vars    == <<cluster, process, missed>>

(* What the informer notifies when its entry for n changes from o to o2: a *)
(* pod that is gone with a "delete", or with a "tombstone" if its deletion *)
(* was not seen.                                                           *)
Notification(n, o, o2, gone) ==
    [kind |-> IF o.uid = 0 THEN "add"
              ELSE IF o2.uid # 0 THEN "update"
              ELSE gone,
     name |-> n,
     pod  |-> IF o2.uid = 0 THEN o ELSE o2]

(* What a list notifies: the names whose entry differs, in any order.      *)
Changed(from) == {n \in Name : from[n] # api[n]}
Orders(S)     == Bijection(1..Cardinality(S), S)
Differences(from, order) ==
    [i \in 1..Cardinality(Changed(from)) |->
        Notification(order[i], from[order[i]], api[order[i]], "tombstone")]

-----------------------------------------------------------------------------

Init ==
    /\ api = [n \in Name |-> NoPod]
    /\ created = 0
    /\ store = api /\ watching = TRUE /\ queue = <<>>
    /\ up = TRUE
    /\ pods = [u \in {} |-> NoPod]
    /\ missed = {} /\ removed = {}

(* The pod of a name changes in the cluster; a watching informer sees it.  *)
Change(n, o) ==
    /\ Len(queue) < MaxQueue
    /\ api' = [api EXCEPT ![n] = o]
    /\ IF up /\ watching
          THEN /\ store' = api'
               /\ queue' = Append(queue, Notification(n, store[n], o, "delete"))
          ELSE UNCHANGED <<store, queue>>
    /\ UNCHANGED <<watching, up, pods, removed>>

Create(n) ==
    /\ api[n].uid = 0 /\ created < MaxPods
    /\ created' = created + 1
    /\ Change(n, [NoPod EXCEPT !.uid = created + 1])
    /\ UNCHANGED missed

(* The scheduler annotates the pod with its node and devices.              *)
Assign(n) ==
    /\ api[n].uid # 0 /\ ~api[n].assigned /\ api[n].phase = "pending"
    /\ Change(n, [api[n] EXCEPT !.assigned = TRUE])
    /\ UNCHANGED <<created, missed>>

Advance(n, phase) ==
    /\ api[n].uid # 0
    /\ <<api[n].phase, phase>> \in
          {<<"pending", "running">>, <<"pending", "over">>, <<"running", "over">>}
    /\ Change(n, [api[n] EXCEPT !.phase = phase])
    /\ UNCHANGED <<created, missed>>

Delete(n) ==
    /\ api[n].uid # 0
    /\ Change(n, NoPod)
    /\ missed' = IF up /\ ~watching THEN missed \cup {api[n].uid} ELSE missed
    /\ UNCHANGED created

BreakWatch ==
    /\ WatchBreaks /\ up /\ watching
    /\ watching' = FALSE
    /\ UNCHANGED <<cluster, store, queue, up, pods, missed, removed>>

(* List and watch again.                                                   *)
Relist ==
    /\ up /\ ~watching
    /\ store' = api
    /\ \E order \in Orders(Changed(store)) : queue' = queue \o Differences(store, order)
    /\ watching' = TRUE
    /\ UNCHANGED <<cluster, up, pods, missed, removed>>

(* The hourly resync notifies an update of a pod that did not change.      *)
Resync(n) ==
    /\ up /\ store[n].uid # 0 /\ Len(queue) < MaxQueue
    /\ queue' = Append(queue, [kind |-> "update", name |-> n, pod |-> store[n]])
    /\ UNCHANGED <<cluster, store, watching, up, pods, missed, removed>>

(* Fault: the entry of a deleted pod is set to nil.                        *)
DelPodToNil(u) ==
    pods' = [v \in DOMAIN pods |-> IF v = u THEN NoPod ELSE pods[v]]

AddPod(u, o) == pods' = [v \in DOMAIN pods \cup {u} |-> IF v = u THEN o ELSE pods[v]]
DelPod(u)    == pods' = Restrict(pods, DOMAIN pods \ {u})

(* fetchContainerInfo indexes the decoded devices by container.            *)
Panics(u, o) == u \in Short /\ o.assigned /\ o.phase # "over"

(* Faults: a known pod is not updated; a finished one is kept; a finished  *)
(* one is removed only if it is there, and added otherwise.                *)
OnAddPodOnce(u, o) ==
    IF ~o.assigned \/ u \in DOMAIN pods THEN UNCHANGED pods
    ELSE IF o.phase = "over" THEN DelPod(u)
    ELSE AddPod(u, o)
OnAddPodAnyPhase(u, o) ==
    IF ~o.assigned THEN UNCHANGED pods ELSE AddPod(u, o)
OnAddPodToggling(u, o) ==
    IF ~o.assigned THEN UNCHANGED pods
    ELSE IF o.phase = "over" /\ u \in DOMAIN pods THEN DelPod(u)
    ELSE AddPod(u, o)

OnAddPod(u, o) ==
    IF ~o.assigned THEN UNCHANGED pods
    ELSE IF o.phase = "over" THEN DelPod(u)
    ELSE AddPod(u, o)

(* onDeletedPod does not take the pod out of a tombstone.                  *)
OnDeletedPod(u, o, kind) ==
    IF kind = "tombstone" \/ ~o.assigned THEN UNCHANGED pods ELSE DelPod(u)

Handle ==
    /\ up /\ queue # <<>>
    /\ LET e == Head(queue)
           u == e.pod.uid
       IN /\ ~(e.kind \in {"add", "update"} /\ Panics(u, e.pod))
          /\ IF e.kind \in {"add", "update"}
                THEN OnAddPod(u, e.pod)
                ELSE OnDeletedPod(u, e.pod, e.kind)
    /\ queue' = Tail(queue)
    /\ removed' = removed \cup (DOMAIN pods \ DOMAIN pods')
    /\ UNCHANGED <<cluster, store, watching, up, missed>>

(* The process dies with everything it had in memory.                      *)
Panic ==
    /\ up /\ queue # <<>>
    /\ LET e == Head(queue) IN
       e.kind \in {"add", "update"} /\ Panics(e.pod.uid, e.pod)
    /\ up' = FALSE
    /\ store' = [n \in Name |-> NoPod] /\ watching' = FALSE /\ queue' = <<>>
    /\ removed' = removed \cup DOMAIN pods
    /\ pods' = [u \in {} |-> NoPod]
    /\ missed' = {}
    /\ UNCHANGED cluster

(* Fault: the new process fills its store but is notified of nothing.      *)
RestartUnnotified ==
    /\ ~up
    /\ up' = TRUE
    /\ store' = api /\ watching' = TRUE /\ queue' = <<>>
    /\ removed' = {}
    /\ UNCHANGED <<cluster, pods, missed>>

(* init of the new process: list, then a notification per pod.             *)
Restart ==
    /\ ~up
    /\ up' = TRUE
    /\ store' = api /\ watching' = TRUE
    /\ \E order \in Orders(Changed(store)) : queue' = Differences(store, order)
    /\ removed' = {}
    /\ UNCHANGED <<cluster, pods, missed>>

Environment ==
    \/ \E n \in Name : \/ Create(n) \/ Assign(n) \/ Delete(n) \/ Resync(n)
                       \/ \E phase \in Phase : Advance(n, phase)
    \/ BreakWatch

Backend == Handle \/ Panic \/ Relist \/ Restart

(* With nothing to handle the backend waits; the bounds may leave the      *)
(* cluster nothing to do either.                                           *)
Idle == up /\ watching /\ queue = <<>> /\ UNCHANGED vars

Next == Environment \/ Backend \/ Idle

Spec == Init /\ [][Next]_vars

(* The informer's goroutines run, a broken watch is set up again and       *)
(* kubelet restarts the process.                                           *)
FairSpec == Spec /\ WF_vars(Handle \/ Panic) /\ WF_vars(Relist) /\ WF_vars(Restart)

-----------------------------------------------------------------------------

TypeOK ==
    /\ api \in [Name -> Object] /\ store \in [Name -> Object]
    /\ created \in 0..MaxPods
    /\ watching \in BOOLEAN /\ up \in BOOLEAN
    /\ queue \in Seq(Event)
    /\ \A i \in 1..Len(queue) : queue[i].pod.uid # 0
    /\ DOMAIN pods \subseteq UID /\ \A u \in DOMAIN pods : pods[u] \in Object /\ pods[u].uid = u
    /\ missed \subseteq UID /\ removed \subseteq UID

Holds(o) == o.uid # 0 /\ o.assigned /\ o.phase # "over"
Using(n) == Holds(api[n])
Settled  == up /\ watching /\ queue = <<>>

(* Once every notification is handled, each pod of the cluster that holds  *)
(* devices is served, as it is now: no order of changes, broken watches,   *)
(* recreations under the same name and restarts hides one or leaves an     *)
(* old status behind.                                                      *)
NothingMissing ==
    Settled => \A n \in Name :
        Using(n) => api[n].uid \in DOMAIN pods /\ pods[api[n].uid] = api[n]

(* Everything else that is served is a pod whose deletion a broken watch   *)
(* hid: for it the informer notifies a tombstone, or, if another pod took  *)
(* the name, an update with another UID; neither removes it.               *)
GhostsAreMissedDeletes ==
    Settled => DOMAIN pods \subseteq {api[n].uid : n \in {m \in Name : Using(m)}} \cup missed

(* A pod that was removed from the repository (it ended or was deleted)    *)
(* does not come back, however old the notifications still queued.         *)
NeverResurrected == [][(DOMAIN pods' \ DOMAIN pods) \cap removed = {}]_vars

(* Why, as parts of an inductive invariant.  An entry without a pod is     *)
(* NoPod, UIDs are those of pods created so far, a UID lives under one     *)
(* name, and an older view of a pod is not ahead of a newer one.           *)
Known(o, c) == o.uid <= c /\ (o.uid = 0 => o = NoPod)
OneName(f, g) == \A m, n \in Name : f[m].uid = g[n].uid /\ f[m].uid # 0 => m = n
Follows(o, o2) == o.uid = o2.uid => /\ o.assigned => o2.assigned
                                    /\ o.phase = "over" => o2.phase = "over"
Identities ==
    /\ \A n \in Name : /\ Known(api[n], created) /\ Known(store[n], created)
                       /\ Follows(store[n], api[n])
    /\ OneName(api, api) /\ OneName(store, store) /\ OneName(store, api)
    /\ \A i \in 1..Len(queue) : queue[i].pod.uid <= created
    /\ \A u \in removed \cup DOMAIN pods : u <= created

(* A watching informer knows the cluster, a dead one nothing; a pod that   *)
(* it alone still knows was deleted unseen.                                *)
StoreFollows ==
    /\ up /\ watching => store = api
    /\ ~up => ~watching /\ queue = <<>> /\ DOMAIN pods = {} /\ \A n \in Name : store[n] = NoPod
    /\ \A n \in Name : store[n].uid # 0 =>
          store[n].uid = api[n].uid \/ store[n].uid \in missed

(* The two effects a notification can have when it is handled.             *)
Sets(e) == e.kind \in {"add", "update"} /\ Holds(e.pod)
Ends(e) == /\ e.pod.assigned
           /\ e.kind = "delete" \/ (e.kind \in {"add", "update"} /\ e.pod.phase = "over")

(* A pod the informer knows is served as it is, or its last notification   *)
(* will see to it.                                                         *)
Pending(u, i) == queue[i].pod.uid = u
Served(o) ==
    \/ /\ o.uid \in DOMAIN pods /\ pods[o.uid] = o
       /\ \A i \in 1..Len(queue) : ~Pending(o.uid, i)
    \/ \E i \in 1..Len(queue) :
          /\ queue[i].pod = o /\ queue[i].kind \in {"add", "update"}
          /\ \A j \in 1..Len(queue) : j > i => ~Pending(o.uid, j)
StoreServed == \A n \in Name : Holds(store[n]) => Served(store[n])

(* What has ended is over everywhere, and no later notification sets it.   *)
Over(u) == \A n \in Name : /\ api[n].uid = u => api[n].phase = "over"
                           /\ store[n].uid = u => store[n].phase = "over"
Final(u, i) ==
    Over(u) /\ \A j \in 1..Len(queue) : j > i /\ Sets(queue[j]) => ~Pending(u, j)
EndsAreFinal ==
    /\ \A i \in 1..Len(queue) : Ends(queue[i]) => Final(queue[i].pod.uid, i)
    /\ up => \A u \in removed : Final(u, 0)

(* What is served, or will be once notification i is handled, holds its    *)
(* devices, is ended by a later notification, or was deleted unseen.       *)
Justified(u, i) ==
    \/ u \in missed
    \/ \E j \in 1..Len(queue) : j > i /\ Ends(queue[j]) /\ Pending(u, j)
    \/ \E n \in Name : store[n].uid = u /\ Holds(store[n])
ServedJustified ==
    /\ \A u \in DOMAIN pods : Justified(u, 0)
    /\ \A i \in 1..Len(queue) : Sets(queue[i]) => Justified(queue[i].pod.uid, i)

(* When the pods of the cluster stay as they are and none of them has a    *)
(* short annotation, all of them are served for good: a crash loop ends    *)
(* with the pod that caused it, and the restarted process catches up.      *)
Recovers ==
    <>[][FALSE]_cluster /\ <>[](\A n \in Name : Using(n) => api[n].uid \notin Short)
        => <>[](\A n \in Name : Using(n) => api[n].uid \in DOMAIN pods)

=============================================================================
