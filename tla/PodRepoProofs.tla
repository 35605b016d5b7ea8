---------------------------- MODULE PodRepoProofs ----------------------------
(* Proofs about the pod repository, for every set of names and of short    *)
(* annotations and every bound on pods and queue.                          *)
EXTENDS PodRepo, SequenceTheorems, FiniteSetTheorems, TLAPS

(* The objects the cluster makes are objects.                              *)
LEMMA ObjectTypes ==
    /\ NoPod \in Object
    /\ \A u \in UID : [NoPod EXCEPT !.uid = u] \in Object
    /\ \A o \in Object : [o EXCEPT !.assigned = TRUE] \in Object
    /\ \A o \in Object, phase \in Phase : [o EXCEPT !.phase = phase] \in Object
<1>1. 0 \in 0..MaxPods /\ UID \subseteq 0..MaxPods
  BY PodRepoAssumption DEF UID
<1>2. TRUE \in BOOLEAN /\ FALSE \in BOOLEAN
  OBVIOUS
<1>3. NoPod \in Object
  BY <1>1, <1>2 DEF Object, NoPod, Phase
<1>4. \A u \in UID : [NoPod EXCEPT !.uid = u] \in Object
  BY <1>1, <1>2 DEF Object, NoPod, Phase
<1>5. \A o \in Object, b \in BOOLEAN : [o EXCEPT !.assigned = b] \in Object
  BY DEF Object
<1>6. \A o \in Object, phase \in Phase : [o EXCEPT !.phase = phase] \in Object
  BY DEF Object
<1>. QED
  BY <1>2, <1>3, <1>4, <1>5, <1>6, Zenon

(* What a notification is.                                                 *)
LEMMA NotificationType ==
    ASSUME NEW n \in Name, NEW o \in Object, NEW o2 \in Object,
           NEW gone \in {"delete", "tombstone"}
    PROVE  /\ Notification(n, o, o2, gone) \in Event
           /\ Notification(n, o, o2, gone).name = n
           /\ Notification(n, o, o2, gone).pod = IF o2.uid = 0 THEN o ELSE o2
           /\ Notification(n, o, o2, gone).kind = IF o.uid = 0 THEN "add"
                                                  ELSE IF o2.uid # 0 THEN "update"
                                                  ELSE gone
BY DEF Notification, Event

(* A list notifies each name that differs once.                            *)
LEMMA DifferencesType ==
    ASSUME TypeOK, NEW order \in Orders(Changed(store))
    PROVE  LET d == Differences(store, order)
               k == Cardinality(Changed(store))
           IN  /\ k \in Nat /\ d \in Seq(Event) /\ Len(d) = k
               /\ \A i \in 1..k : /\ order[i] \in Changed(store)
                                  /\ d[i] = Notification(order[i], store[order[i]], api[order[i]], "tombstone")
               /\ \A n \in Changed(store) : \E i \in 1..k : order[i] = n
               /\ \A i, j \in 1..k : order[i] = order[j] => i = j
<1> DEFINE d == Differences(store, order)
           k == Cardinality(Changed(store))
<1>1. k \in Nat
  BY PodRepoAssumption, FS_Subset, FS_CardinalityType DEF Changed
<1>2. /\ order \in [1..k -> Changed(store)]
      /\ \A n \in Changed(store) : \E i \in 1..k : order[i] = n
      /\ \A i, j \in 1..k : order[i] = order[j] => i = j
  BY DEF Orders, Bijection, Injection, Surjection, IsInjective
<1>3. /\ d = [i \in 1..k |-> Notification(order[i], store[order[i]], api[order[i]], "tombstone")]
      /\ \A i \in 1..k : order[i] \in Changed(store)
  BY <1>2 DEF Differences
<1>4. \A i \in 1..k : Notification(order[i], store[order[i]], api[order[i]], "tombstone") \in Event
  BY <1>3, NotificationType DEF TypeOK, Changed
<1> HIDE DEF d, k
<1>5. d \in [1..k -> Event]
  BY <1>3, <1>4
<1>6. d \in Seq(Event) /\ Len(d) = k
  BY <1>1, <1>5, SeqDef, LenProperties
<1>. QED
  BY <1>1, <1>2, <1>3, <1>6 DEF d, k

(* Of a queue that a notification leaves.                                  *)
LEMMA QueueTail ==
    ASSUME TypeOK, queue # <<>>
    PROVE  /\ Head(queue) = queue[1] /\ queue[1] \in Event /\ Len(queue) \in Nat \ {0}
           /\ Tail(queue) \in Seq(Event) /\ Len(Tail(queue)) = Len(queue) - 1
           /\ \A i \in 1..Len(Tail(queue)) : Tail(queue)[i] = queue[i + 1]
<1>1. queue \in Seq(Event)
  BY DEF TypeOK
<1>2. Len(queue) \in Nat \ {0}
  BY <1>1, EmptySeq
<1>3. queue[1] \in Event
  BY <1>1, <1>2, ElementOfSeq
<1>4. Head(queue) = queue[1]
  BY <1>1, <1>2
<1>. QED
  BY <1>1, <1>2, <1>3, <1>4, HeadTailProperties

(* What handling a notification does to r.pods.                            *)
LEMMA Handled ==
    ASSUME TypeOK, Handle
    PROVE  LET e == queue[1] IN
           /\ Sets(e) => pods' = [v \in DOMAIN pods \cup {e.pod.uid} |->
                                    IF v = e.pod.uid THEN e.pod ELSE pods[v]]
           /\ Ends(e) => pods' = [v \in DOMAIN pods \ {e.pod.uid} |-> pods[v]]
           /\ ~Sets(e) /\ ~Ends(e) => pods' = pods
<1> DEFINE e == queue[1]
<1>1. e \in Event /\ e.pod.uid # 0 /\ Head(queue) = e
  BY QueueTail DEF Handle, TypeOK
<1>2. IF e.kind \in {"add", "update"}
         THEN OnAddPod(e.pod.uid, e.pod)
         ELSE OnDeletedPod(e.pod.uid, e.pod, e.kind)
  BY <1>1 DEF Handle
<1>3. e.kind \in {"add", "update", "delete", "tombstone"}
  BY <1>1 DEF Event
<1> HIDE DEF e
<1>. QED
  BY <1>1, <1>2, <1>3
     DEF Sets, Ends, Holds, OnAddPod, OnDeletedPod, AddPod, DelPod, Restrict, e

-----------------------------------------------------------------------------

(* A pod o that the cluster may have next under name n.                    *)
MayBecome(n, o) ==
    /\ o \in Object /\ (o.uid = 0 => o = NoPod)
    /\ \/ /\ api[n].uid = 0 /\ created < MaxPods /\ created' = created + 1
          /\ o.uid = created' /\ o.phase # "over"
       \/ /\ api[n].uid # 0 /\ created' = created
          /\ o.uid = api[n].uid /\ o # api[n]
          /\ Follows(api[n], o) /\ api[n].phase # "over"
       \/ /\ api[n].uid # 0 /\ created' = created
          /\ o.uid = 0
    /\ missed' = missed \/ (o.uid = 0 /\ missed' = missed \cup {api[n].uid})
    /\ up /\ ~watching /\ o.uid = 0 => api[n].uid \in missed'

(* A step of the cluster replaces one pod by what it may become.           *)
LEMMA ClusterStep ==
    ASSUME TypeOK, NEW n \in Name,
           Create(n) \/ Assign(n) \/ Delete(n) \/ \E phase \in Phase : Advance(n, phase)
    PROVE  \E o : Change(n, o) /\ MayBecome(n, o)
<1>. USE DEF MayBecome
<1>a. api[n] \in Object /\ created \in Nat /\ MaxPods \in Nat
  BY PodRepoAssumption DEF TypeOK
<1>1. CASE Create(n)
  <2> DEFINE o == [NoPod EXCEPT !.uid = created + 1]
  <2>1. o \in Object /\ o.uid = created + 1 /\ o.phase # "over"
    BY <1>1, <1>a, ObjectTypes DEF Create, UID, NoPod
  <2> HIDE DEF o
  <2>2. Change(n, o)
    BY <1>1 DEF Create, o
  <2>. QED
    BY <1>1, <1>a, <2>1, <2>2 DEF Create
<1>2. CASE Assign(n)
  <2> DEFINE o == [api[n] EXCEPT !.assigned = TRUE]
  <2>1. o \in Object /\ o.uid = api[n].uid /\ o.phase = api[n].phase /\ o.assigned
    BY <1>a, ObjectTypes DEF Object
  <2> HIDE DEF o
  <2>2. Change(n, o) /\ o # api[n] /\ api[n].phase # "over"
    BY <1>2, <2>1 DEF Assign, o
  <2>. QED
    BY <1>2, <2>1, <2>2 DEF Assign, Follows
<1>3. CASE Delete(n)
  <2>1. NoPod \in Object /\ NoPod.uid = 0
    BY ObjectTypes DEF NoPod
  <2>. QED
    BY <1>3, <2>1 DEF Delete
<1>4. ASSUME NEW phase \in Phase, Advance(n, phase)
      PROVE  \E o : Change(n, o) /\ MayBecome(n, o)
  <2> DEFINE o == [api[n] EXCEPT !.phase = phase]
  <2>1. o \in Object /\ o.uid = api[n].uid /\ o.phase = phase /\ o.assigned = api[n].assigned
    BY <1>a, ObjectTypes DEF Object
  <2> HIDE DEF o
  <2>2. Change(n, o) /\ api[n].phase # phase /\ api[n].phase # "over"
    BY <1>4 DEF Advance, o
  <2>. QED
    BY <1>4, <2>1, <2>2 DEF Advance, Follows
<1>. QED
  BY <1>1, <1>2, <1>3, <1>4

(* What Change does when the informer sees it, and when it does not.       *)
LEMMA ChangeSeen ==
    ASSUME TypeOK, NEW n \in Name, NEW o \in Object, Change(n, o)
    PROVE  /\ api' = [api EXCEPT ![n] = o] /\ api' \in [Name -> Object]
           /\ UNCHANGED <<watching, up, pods, removed>>
           /\ up /\ watching => /\ store' = api'
                                /\ queue' = Append(queue, Notification(n, store[n], o, "delete"))
                                /\ Notification(n, store[n], o, "delete") \in Event
           /\ ~(up /\ watching) => UNCHANGED <<store, queue>>
<1>1. api' = [api EXCEPT ![n] = o]
  BY DEF Change
<1>2. Notification(n, store[n], o, "delete") \in Event
  BY NotificationType DEF TypeOK
<1>. QED
  BY <1>1, <1>2 DEF Change, TypeOK

(* The three parts of the inductive invariant that the others rest on.     *)
Basic == TypeOK /\ Identities /\ StoreFollows

(* The identities survive what the cluster does to a name.                 *)
LEMMA ClusterIdentities ==
    ASSUME Basic, NEW n \in Name, NEW o, Change(n, o), MayBecome(n, o)
    PROVE  /\ created' \in 0..MaxPods /\ created <= created'
           /\ missed' \subseteq UID
           /\ \A m \in Name : /\ Known(api'[m], created') /\ Known(store[m], created')
                              /\ Follows(store[m], api'[m])
           /\ OneName(api', api') /\ OneName(store, api')
           /\ o # api[n]
<1>1. /\ o \in Object /\ api \in [Name -> Object] /\ store \in [Name -> Object]
      /\ created \in Nat /\ created <= MaxPods /\ MaxPods \in Nat
      /\ api' = [api EXCEPT ![n] = o]
  BY PodRepoAssumption, ChangeSeen DEF MayBecome, Basic, TypeOK
<1>2. created' \in Nat /\ created' <= MaxPods /\ created <= created'
  BY <1>1 DEF MayBecome
<1>3. \A m \in Name : api[m].uid \in Nat /\ store[m].uid \in Nat /\ api[m].uid <= MaxPods
  BY <1>1 DEF Object
<1>4. missed' \subseteq UID
  <2>1. o.uid = 0 => api[n].uid \in UID
    BY <1>1, <1>3 DEF MayBecome, UID
  <2>. QED
    BY <2>1 DEF MayBecome, Basic, TypeOK
<1>5. o.uid \in Nat /\ o.uid <= created'
  BY <1>1, <1>2, <1>3 DEF MayBecome, Object, Basic, Identities, Known
<1>6. ASSUME NEW m \in Name
      PROVE  Known(api'[m], created') /\ Known(store[m], created')
  <2>1. Known(api[m], created') /\ Known(store[m], created')
    BY <1>1, <1>2, <1>3 DEF Basic, Identities, Known
  <2>2. Known(o, created')
    BY <1>5 DEF MayBecome, Known
  <2>. QED
    BY <1>1, <2>1, <2>2
<1>7. ASSUME NEW m \in Name
      PROVE  Follows(store[m], api'[m])
  <2>1. CASE m # n
    BY <1>1, <2>1 DEF Basic, Identities
  <2>2. CASE m = n /\ o.uid = 0
    <3>1. ~NoPod.assigned /\ NoPod.phase # "over"
      BY DEF NoPod
    <3>. QED
      BY <1>1, <2>2, <3>1 DEF Basic, Identities, Known, Follows
  <2>3. CASE m = n /\ o.uid # 0 /\ api[n].uid = 0
    <3>1. store[n].uid <= created /\ o.uid = created + 1
      BY <1>1, <2>3 DEF MayBecome, Basic, Identities, Known
    <3>. QED
      BY <1>1, <1>3, <2>3, <3>1 DEF Follows
  <2>4. CASE m = n /\ o.uid # 0 /\ api[n].uid # 0
    <3>1. o.uid = api[n].uid /\ Follows(api[n], o) /\ Follows(store[n], api[n])
      BY <1>1, <2>4 DEF MayBecome, Basic, Identities
    <3>. QED
      BY <1>1, <2>4, <3>1 DEF Follows
  <2>. QED
    BY <2>1, <2>2, <2>3, <2>4
<1>8. ASSUME NEW m \in Name
      PROVE  /\ o.uid = api[m].uid /\ o.uid # 0 => m = n
             /\ o.uid = store[m].uid /\ o.uid # 0 => m = n
  <2>1. CASE api[n].uid = 0 /\ o.uid # 0
    <3>1. store[m].uid <= created /\ api[m].uid <= created /\ o.uid = created + 1
      BY <1>1, <2>1 DEF MayBecome, Basic, Identities, Known
    <3>. QED
      BY <1>1, <1>3, <3>1
  <2>2. CASE api[n].uid # 0 /\ o.uid # 0
    <3>1. o.uid = api[n].uid
      BY <1>1, <2>2 DEF MayBecome
    <3>. QED
      BY <3>1, <2>2 DEF Basic, Identities, OneName
  <2>. QED
    BY <2>1, <2>2
<1>9. OneName(api', api') /\ OneName(store, api')
  BY <1>1, <1>8 DEF Basic, Identities, OneName
<1>10. o # api[n]
  BY <1>1 DEF MayBecome
<1>. QED
  BY <1>1, <1>2, <1>4, <1>6, <1>7, <1>9, <1>10

-----------------------------------------------------------------------------

(* An informer that sees a change or lists takes over the cluster's pods   *)
(* and queues one notification for each name that differs.                 *)
Gone == IF watching THEN "delete" ELSE "tombstone"
Informed(new) ==
    /\ up' = TRUE /\ watching' = TRUE /\ store' = api'
    /\ pods' = pods /\ removed' \subseteq removed /\ (up \/ removed' = {})
    /\ missed \subseteq missed' /\ missed' \subseteq UID
    /\ api' \in [Name -> Object] /\ created' \in 0..MaxPods /\ created <= created'
    /\ \A n \in Name : Known(api'[n], created') /\ Follows(store[n], store'[n])
    /\ OneName(store', store') /\ OneName(store, store')
    /\ \A n \in Name : store[n].uid # 0 /\ store'[n].uid # store[n].uid =>
          store[n].uid \in missed \/ (watching /\ store'[n].uid = 0)
    /\ new \in Seq(Event) /\ queue' = queue \o new
    /\ \A k \in 1..Len(new) : \E n \in Name :
          store'[n] # store[n] /\ new[k] = Notification(n, store[n], store'[n], Gone)
    /\ \A n \in Name : store'[n] # store[n] =>
          \E k \in 1..Len(new) : new[k] = Notification(n, store[n], store'[n], Gone)
    /\ \A k, l \in 1..Len(new) : new[k].name = new[l].name => k = l

(* A change the watch sees is informed of by its one notification.         *)
LEMMA ChangeInforms ==
    ASSUME Basic, NEW n \in Name, NEW o, Change(n, o), MayBecome(n, o), up, watching
    PROVE  \E new : Informed(new)
<1> DEFINE e   == Notification(n, store[n], o, "delete")
           new == <<e>>
<1>1. /\ o \in Object /\ store = api /\ queue \in Seq(Event)
  BY DEF MayBecome, Basic, StoreFollows, TypeOK
<1>2. /\ api' = [api EXCEPT ![n] = o] /\ store' = api' /\ api' \in [Name -> Object]
      /\ UNCHANGED <<watching, up, pods, removed>>
      /\ queue' = Append(queue, e) /\ e \in Event
  BY <1>1, ChangeSeen DEF Basic
<1>3. store' = [store EXCEPT ![n] = o] /\ o # store[n]
  BY <1>1, <1>2, ClusterIdentities
<1>4. store[n].uid # 0 /\ o.uid # store[n].uid => o.uid = 0
  BY <1>1 DEF MayBecome
<1>5. missed \subseteq missed'
  BY DEF MayBecome
<1>6. queue' = queue \o new /\ new \in Seq(Event) /\ Len(new) = 1 /\ new[1] = e
  BY <1>1, <1>2, AppendIsConcat
<1>7. store'[n] = o /\ \A m \in Name : m # n => store'[m] = store[m]
  BY <1>1, <1>3 DEF Basic, TypeOK
<1> HIDE DEF e, new
<1>8. /\ \A k \in 1..Len(new) : \E m \in Name :
            store'[m] # store[m] /\ new[k] = Notification(m, store[m], store'[m], Gone)
      /\ \A m \in Name : store'[m] # store[m] =>
            \E k \in 1..Len(new) : new[k] = Notification(m, store[m], store'[m], Gone)
      /\ \A k, l \in 1..Len(new) : new[k].name = new[l].name => k = l
  BY <1>3, <1>6, <1>7 DEF e, Gone
<1>9. \A m \in Name : store[m].uid # 0 /\ store'[m].uid # store[m].uid =>
          store[m].uid \in missed \/ (watching /\ store'[m].uid = 0)
  BY <1>4, <1>7
<1>. QED
  BY <1>2, <1>5, <1>6, <1>8, <1>9, ClusterIdentities DEF Informed

(* A relist and a restart inform of all they find changed.                 *)
LEMMA ListInforms ==
    ASSUME Basic, Relist \/ Restart
    PROVE  \E new : Informed(new)
<1> PICK order \in Orders(Changed(store)) : queue' = queue \o Differences(store, order)
  <2>1. CASE Relist
    BY <2>1 DEF Relist
  <2>2. CASE Restart
    <3> PICK order \in Orders(Changed(store)) : queue' = Differences(store, order)
      BY <2>2 DEF Restart
    <3>1. queue = <<>> /\ Differences(store, order) \in Seq(Event)
      BY <2>2, DifferencesType DEF Restart, Basic, StoreFollows
    <3>. QED
      BY <3>1, ConcatEmptySeq
  <2>. QED
    BY <2>1, <2>2
<1> DEFINE new == Differences(store, order)
<1>1. /\ ~watching /\ up' /\ watching' /\ store' = api /\ api' = api
      /\ created' = created /\ pods' = pods /\ missed' = missed
      /\ removed' \subseteq removed /\ (up \/ removed' = {})
  BY DEF Relist, Restart, cluster, Basic, StoreFollows
<1>2. /\ new \in Seq(Event) /\ Len(new) \in Nat
      /\ \A i \in 1..Len(new) : /\ order[i] \in Changed(store)
                                /\ new[i] = Notification(order[i], store[order[i]], api[order[i]], "tombstone")
      /\ \A n \in Changed(store) : \E i \in 1..Len(new) : order[i] = n
      /\ \A i, j \in 1..Len(new) : order[i] = order[j] => i = j
  BY DifferencesType DEF Basic
<1> HIDE DEF new
<1>3. ASSUME NEW i \in 1..Len(new)
      PROVE  new[i].name = order[i]
  BY <1>2, NotificationType DEF Basic, TypeOK, Changed
<1>4. ASSUME NEW k \in 1..Len(new)
      PROVE  /\ order[k] \in Name
             /\ store'[order[k]] # store[order[k]]
             /\ new[k] = Notification(order[k], store[order[k]], store'[order[k]], Gone)
  BY <1>1, <1>2 DEF Changed, Gone
<1>8. ASSUME NEW k \in 1..Len(new)
      PROVE  \E n \in Name :
                store'[n] # store[n] /\ new[k] = Notification(n, store[n], store'[n], Gone)
  BY <1>4
<1>9. ASSUME NEW n \in Name, store'[n] # store[n]
      PROVE  \E k \in 1..Len(new) : new[k] = Notification(n, store[n], store'[n], Gone)
  <2> PICK k \in 1..Len(new) : order[k] = n
    BY <1>1, <1>2, <1>9 DEF Changed
  <2>. QED
    BY <1>4
<1>10. ASSUME NEW k \in 1..Len(new), NEW l \in 1..Len(new), new[k].name = new[l].name
       PROVE  k = l
  BY <1>2, <1>3, <1>10
<1>5. \A n \in Name : store[n].uid # 0 /\ store'[n].uid # store[n].uid => store[n].uid \in missed
  BY <1>1 DEF Basic, StoreFollows
<1>6. /\ api \in [Name -> Object] /\ created \in Nat /\ created \in 0..MaxPods /\ missed \subseteq UID
      /\ \A n \in Name : Known(api[n], created) /\ Follows(store[n], api[n])
      /\ OneName(api, api) /\ OneName(store, api)
  BY PodRepoAssumption DEF Basic, TypeOK, Identities
<1>7. queue' = queue \o new
  BY DEF new
<1>11. /\ up' = TRUE /\ watching' = TRUE /\ store' = api'
       /\ pods' = pods /\ removed' \subseteq removed /\ (up \/ removed' = {})
       /\ missed \subseteq missed' /\ missed' \subseteq UID
  BY <1>1, <1>6
<1>12. /\ api' \in [Name -> Object] /\ created' \in 0..MaxPods /\ created <= created'
       /\ \A n \in Name : Known(api'[n], created') /\ Follows(store[n], store'[n])
       /\ OneName(store', store') /\ OneName(store, store')
  BY <1>1, <1>6
<1>. QED
  BY <1>2, <1>5, <1>7, <1>8, <1>9, <1>10, <1>11, <1>12 DEF Informed

(* What is behind the old end of the queue after such a step.              *)
Reports(i, n) ==
    store'[n] # store[n] /\ queue'[i] = Notification(n, store[n], store'[n], Gone)

(* The queue keeps what it held; what is behind its old end is about pods  *)
(* that changed, each once.                                                *)
LEMMA Reported ==
    ASSUME Basic, NEW new, Informed(new)
    PROVE  /\ Len(queue) \in Nat /\ Len(queue') \in Nat /\ Len(queue) <= Len(queue')
           /\ queue' \in Seq(Event)
           /\ \A i \in 1..Len(queue) : queue'[i] = queue[i] /\ i \in 1..Len(queue')
           /\ \A i \in Len(queue)+1..Len(queue') :
                 /\ \E n \in Name : Reports(i, n)
                 /\ queue'[i].pod.uid \in 1..created'
                 /\ \A j \in Len(queue)+1..Len(queue') :
                       queue'[i].pod.uid = queue'[j].pod.uid => i = j
                 /\ \A n \in Name : queue'[i].pod.uid \in {store[n].uid, store'[n].uid} => Reports(i, n)
           /\ \A n \in Name : store'[n] # store[n] =>
                 \E i \in Len(queue)+1..Len(queue') : Reports(i, n)
<1>1. queue \in Seq(Event) /\ new \in Seq(Event)
  BY DEF Basic, TypeOK, Informed
<1>2. /\ Len(queue) \in Nat /\ Len(new) \in Nat
      /\ queue' \in Seq(Event) /\ Len(queue') = Len(queue) + Len(new)
      /\ \A i \in 1..Len(queue) : queue'[i] = queue[i]
      /\ \A i \in Len(queue)+1..Len(queue') : queue'[i] = new[i - Len(queue)]
  BY <1>1, ConcatProperties, LenProperties DEF Informed
<1> DEFINE old == Len(queue)
<1>3. ASSUME NEW i \in old+1..Len(queue')
      PROVE  i - old \in 1..Len(new) /\ i = old + (i - old)
  BY <1>2
<1>4. ASSUME NEW k \in 1..Len(new)
      PROVE  k + old \in old+1..Len(queue') /\ (k + old) - old = k
  BY <1>2
<1>5. ASSUME NEW i \in Len(queue)+1..Len(queue')
      PROVE  \E n \in Name : Reports(i, n)
  <2>1. i - old \in 1..Len(new) /\ queue'[i] = new[i - old]
    BY <1>2, <1>3
  <2> PICK n \in Name : store'[n] # store[n] /\ new[i - old] = Notification(n, store[n], store'[n], Gone)
    BY <2>1 DEF Informed
  <2>. QED
    BY <2>1 DEF Reports
<1>6. ASSUME NEW n \in Name, store'[n] # store[n]
      PROVE  \E i \in Len(queue)+1..Len(queue') : Reports(i, n)
  <2> PICK k \in 1..Len(new) : new[k] = Notification(n, store[n], store'[n], Gone)
    BY <1>6 DEF Informed
  <2>. QED
    BY <1>2, <1>4, <1>6 DEF Reports
<1>8. ASSUME NEW n \in Name
      PROVE  /\ store[n] \in Object /\ store'[n] \in Object
             /\ Known(store[n], created') /\ Known(store'[n], created')
             /\ created' \in Nat
  BY PodRepoAssumption DEF Basic, TypeOK, Identities, Informed, Known, Object
<1>7. ASSUME NEW n \in Name, NEW i, Reports(i, n)
      PROVE  /\ queue'[i].name = n
             /\ queue'[i].pod = IF store'[n].uid = 0 THEN store[n] ELSE store'[n]
  BY <1>7, <1>8, NotificationType DEF Reports, Gone
<1>9. ASSUME NEW i \in Len(queue)+1..Len(queue')
      PROVE  queue'[i].pod.uid \in 1..created'
  <2> PICK n \in Name : Reports(i, n)
    BY <1>5
  <2>1. store'[n].uid # 0 \/ store[n].uid # 0
    BY <1>8 DEF Known, Reports
  <2>2. store[n].uid \in Nat /\ store'[n].uid \in Nat
    BY <1>8 DEF Object
  <2>. QED
    BY <1>7, <1>8, <2>1, <2>2 DEF Known
<1>10. ASSUME NEW i \in Len(queue)+1..Len(queue'), NEW n \in Name,
              queue'[i].pod.uid \in {store[n].uid, store'[n].uid}
       PROVE  Reports(i, n)
  <2> PICK m \in Name : Reports(i, m)
    BY <1>5
  <2>1. queue'[i].pod.uid # 0 /\ queue'[i].pod.uid \in {store[m].uid, store'[m].uid}
    BY <1>7, <1>9
  <2>2. m = n
    BY <1>10, <2>1 DEF Informed, OneName, Basic, Identities
  <2>. QED
    BY <2>2
<1>11. ASSUME NEW i \in Len(queue)+1..Len(queue'), NEW j \in Len(queue)+1..Len(queue'),
              queue'[i].pod.uid = queue'[j].pod.uid
       PROVE  i = j
  <2> PICK n \in Name : Reports(j, n)
    BY <1>5
  <2>1. Reports(i, n)
    BY <1>7, <1>10, <1>11
  <2>2. queue'[i].name = n /\ queue'[j].name = n
    BY <1>7, <2>1
  <2>3. /\ i - old \in 1..Len(new) /\ queue'[i] = new[i - old]
        /\ j - old \in 1..Len(new) /\ queue'[j] = new[j - old]
    BY <1>2, <1>3
  <2>4. \A k, l \in 1..Len(new) : new[k].name = new[l].name => k = l
    BY DEF Informed
  <2>5. i - old = j - old
    BY <2>2, <2>3, <2>4
  <2>. QED
    BY <1>3, <2>5
<1>. QED
  BY <1>2, <1>5, <1>6, <1>9, <1>10, <1>11

-----------------------------------------------------------------------------

(* The steps there are, as the proofs tell them apart.                     *)
LEMMA Steps ==
    ASSUME Basic, [Next]_vars
    PROVE  \/ \E n \in Name : \E o : ~(up /\ watching) /\ Change(n, o) /\ MayBecome(n, o)
           \/ \E new : Informed(new)
           \/ BreakWatch
           \/ \E n \in Name : Resync(n)
           \/ Handle
           \/ Panic
           \/ UNCHANGED vars
<1>1. CASE Environment
  <2>1. ASSUME NEW n \in Name,
               Create(n) \/ Assign(n) \/ Delete(n) \/ \E phase \in Phase : Advance(n, phase)
        PROVE  \/ \E o : ~(up /\ watching) /\ Change(n, o) /\ MayBecome(n, o)
               \/ \E new : Informed(new)
    <3> PICK o : Change(n, o) /\ MayBecome(n, o)
      BY <2>1, ClusterStep DEF Basic
    <3>. QED
      BY ChangeInforms
  <2>. QED
    BY <1>1, <2>1 DEF Environment
<1>2. CASE Backend
  BY <1>2, ListInforms DEF Backend
<1>. QED
  BY <1>1, <1>2 DEF Next, Idle

(* Notifications are about pods that were created.                         *)
LEMMA QueuedPods ==
    ASSUME Basic, NEW i \in 1..Len(queue)
    PROVE  /\ queue[i] \in Event /\ queue[i].pod \in Object
           /\ queue[i].pod.uid \in UID /\ queue[i].pod.uid \in 1..created
<1>1. queue \in Seq(Event)
  BY DEF Basic, TypeOK
<1>2. queue[i] \in Event
  BY <1>1, ElementOfSeq
<1>3. queue[i].pod \in Object
  BY <1>2 DEF Event
<1>4. queue[i].pod.uid # 0 /\ queue[i].pod.uid <= created
  BY DEF Basic, TypeOK, Identities
<1>5. queue[i].pod.uid \in 0..MaxPods
  BY <1>3 DEF Object
<1>6. created \in 0..MaxPods /\ MaxPods \in Nat
  BY PodRepoAssumption DEF Basic, TypeOK
<1>. QED
  BY <1>2, <1>3, <1>4, <1>5, <1>6 DEF UID

(* Types, identities and what the informer's store has to do with the      *)
(* cluster, through every step.                                            *)
LEMMA BasicInductive == Basic /\ [Next]_vars => Basic'
<1> SUFFICES ASSUME Basic, [Next]_vars
             PROVE  TypeOK' /\ Identities' /\ StoreFollows'
  BY DEF Basic
<1>a. /\ created \in Nat /\ MaxPods \in Nat /\ created <= MaxPods
      /\ \A u \in UID : u \in Nat
      /\ \A n \in Name : api[n] \in Object /\ store[n] \in Object
  BY PodRepoAssumption DEF Basic, TypeOK, UID
<1>1. ASSUME NEW n \in Name, NEW o, ~(up /\ watching), Change(n, o), MayBecome(n, o)
      PROVE  TypeOK' /\ Identities' /\ StoreFollows'
  <2>1. /\ o \in Object /\ api' = [api EXCEPT ![n] = o] /\ api' \in [Name -> Object]
        /\ UNCHANGED <<store, watching, queue, up, pods, removed>>
        /\ missed \subseteq missed'
    BY <1>1, ChangeSeen DEF Basic, MayBecome
  <2>2. /\ created' \in 0..MaxPods /\ created <= created' /\ missed' \subseteq UID
        /\ \A m \in Name : /\ Known(api'[m], created') /\ Known(store[m], created')
                           /\ Follows(store[m], api'[m])
        /\ OneName(api', api') /\ OneName(store, api')
    BY <1>1, ClusterIdentities
  <2>3. TypeOK'
    BY <2>1, <2>2 DEF Basic, TypeOK
  <2>4. ASSUME NEW i \in 1..Len(queue)
        PROVE  queue[i].pod.uid <= created'
    <3>1. queue[i].pod.uid \in 1..created
      BY QueuedPods
    <3>. QED
      BY <1>a, <2>2, <3>1
  <2>5. \A u \in removed \cup DOMAIN pods : u <= created'
    BY <1>a, <2>2 DEF Basic, Identities, TypeOK
  <2>6. Identities'
    BY <2>1, <2>2, <2>4, <2>5 DEF Basic, Identities
  <2>7. ASSUME NEW m \in Name, store[m].uid # 0
        PROVE  store[m].uid = api'[m].uid \/ store[m].uid \in missed'
    <3>1. store[m].uid = api[m].uid \/ store[m].uid \in missed
      BY <2>7 DEF Basic, StoreFollows
    <3>2. CASE m # n
      BY <2>1, <3>1, <3>2
    <3>3. CASE m = n /\ store[n].uid \notin missed /\ o.uid # 0
      BY <1>1, <2>1, <2>7, <3>1, <3>3 DEF MayBecome
    <3>4. CASE m = n /\ store[n].uid \notin missed /\ o.uid = 0
      <4>1. up /\ ~watching
        BY <1>1, <2>7 DEF Basic, StoreFollows, NoPod
      <4>. QED
        BY <1>1, <3>1, <3>4, <4>1 DEF MayBecome
    <3>. QED
      BY <2>1, <3>2, <3>3, <3>4
  <2>8. StoreFollows'
    BY <1>1, <2>1, <2>7 DEF Basic, StoreFollows
  <2>. QED
    BY <2>3, <2>6, <2>8
<1>2. ASSUME NEW new, Informed(new)
      PROVE  TypeOK' /\ Identities' /\ StoreFollows'
  <2>1. up' \in BOOLEAN /\ watching' \in BOOLEAN
    BY <1>2, Zenon DEF Informed
  <2>2. queue' \in Seq(Event)
        /\ \A i \in 1..Len(queue') : queue'[i].pod.uid # 0 /\ queue'[i].pod.uid <= created'
    <3>1. ASSUME NEW i \in 1..Len(queue), queue'[i] = queue[i]
          PROVE  queue'[i].pod.uid # 0 /\ queue'[i].pod.uid <= created'
      <4>1. queue[i].pod.uid \in 1..created
        BY QueuedPods
      <4>2. created <= created' /\ created' \in Nat
        BY <1>2, <1>a DEF Informed
      <4>. QED
        BY <1>a, <3>1, <4>1, <4>2
    <3>2. ASSUME NEW i \in Len(queue)+1..Len(queue')
          PROVE  queue'[i].pod.uid # 0 /\ queue'[i].pod.uid <= created'
      <4>1. queue'[i].pod.uid \in 1..created'
        BY <1>2, Reported
      <4>. QED
        BY <4>1
    <3>. QED
      BY <1>2, <3>1, <3>2, Reported
  <2>3. TypeOK'
    BY <1>2, <2>1, <2>2 DEF Informed, Basic, TypeOK
  <2>4. \A u \in removed' \cup DOMAIN pods' : u <= created'
    BY <1>a, <1>2 DEF Informed, Basic, Identities, TypeOK
  <2>5. Identities'
    BY <1>2, <2>2, <2>4 DEF Informed, Identities, Follows
  <2>6. StoreFollows'
    BY <1>2 DEF Informed, StoreFollows
  <2>. QED
    BY <2>3, <2>5, <2>6
<1> USE DEF Basic, cluster, process, vars
<1>3. CASE BreakWatch
  <2>1. watching' \in BOOLEAN
    BY <1>3, Zenon DEF BreakWatch
  <2>2. TypeOK'
    BY <1>3, <2>1 DEF BreakWatch, TypeOK
  <2>. QED
    BY <1>3, <2>2 DEF BreakWatch, Identities, StoreFollows
<1>4. ASSUME NEW n \in Name, Resync(n)
      PROVE  TypeOK' /\ Identities' /\ StoreFollows'
  <2> DEFINE e == [kind |-> "update", name |-> n, pod |-> store[n]]
  <2>1. e \in Event /\ e.pod = store[n] /\ e.pod.uid # 0 /\ queue' = Append(queue, e)
    BY <1>4, <1>a DEF Resync, Event
  <2> HIDE DEF e
  <2>2. e.pod.uid <= created
    BY <2>1 DEF Identities, Known
  <2>3. /\ queue' \in Seq(Event)
        /\ \A i \in 1..Len(queue') : queue'[i].pod.uid # 0 /\ queue'[i].pod.uid <= created
    BY <2>1, <2>2, AppendProperties, LenProperties DEF TypeOK, Identities
  <2>. QED
    BY <1>4, <2>3 DEF Resync, TypeOK, Identities, StoreFollows
<1>5. CASE Handle
  <2>1. /\ queue' \in Seq(Event)
        /\ \A i \in 1..Len(queue') : queue'[i].pod.uid # 0 /\ queue'[i].pod.uid <= created
    BY <1>5, QueueTail DEF Handle, TypeOK, Identities
  <2>2. /\ queue[1].pod \in Object /\ queue[1].pod.uid # 0
        /\ queue[1].pod.uid \in UID /\ queue[1].pod.uid <= created
    <3>1. 1 \in 1..Len(queue)
      <4>1. queue # <<>>
        BY <1>5 DEF Handle
      <4>2. Len(queue) \in Nat \ {0}
        BY <4>1, QueueTail
      <4>. QED
        BY <4>2
    <3>2. queue[1].pod \in Object /\ queue[1].pod.uid \in UID /\ queue[1].pod.uid \in 1..created
      BY <3>1, QueuedPods
    <3>. QED
      BY <1>a, <3>2
  <2>3. /\ DOMAIN pods' \subseteq DOMAIN pods \cup {queue[1].pod.uid}
        /\ \A u \in DOMAIN pods' : pods'[u] \in Object /\ pods'[u].uid = u
    BY <1>5, <2>2, Handled DEF TypeOK
  <2>4. TypeOK'
    BY <1>5, <2>1, <2>2, <2>3 DEF Handle, TypeOK
  <2>5. Identities'
    BY <1>5, <2>1, <2>2, <2>3 DEF Handle, Identities
  <2>. QED
    BY <1>5, <2>4, <2>5 DEF Handle, StoreFollows
<1>6. CASE Panic
  <2>1. up' \in BOOLEAN /\ watching' \in BOOLEAN
    BY <1>6, Zenon DEF Panic
  <2>2. queue' \in Seq(Event) /\ Len(queue') = 0
    BY <1>6, EmptySeq DEF Panic
  <2>3. TypeOK'
    BY <1>6, <2>1, <2>2, ObjectTypes DEF Panic, TypeOK
  <2>4. ~NoPod.assigned /\ NoPod.phase # "over" /\ NoPod.uid = 0
    BY DEF NoPod
  <2>5. Identities'
    BY <1>6, <1>a, <2>2, <2>4 DEF Panic, Identities, Known, Follows, OneName
  <2>6. StoreFollows'
    BY <1>6, <2>4 DEF Panic, StoreFollows
  <2>. QED
    BY <2>3, <2>5, <2>6
<1>7. CASE UNCHANGED vars
  BY <1>7 DEF TypeOK, Identities, StoreFollows
<1>. QED
  BY <1>1, <1>2, <1>3, <1>4, <1>5, <1>6, <1>7, Steps

(* It holds at first.                                                      *)
LEMMA BasicInit == Init => Basic
<1> SUFFICES ASSUME Init
             PROVE  Basic
  OBVIOUS
<1>1. up \in BOOLEAN /\ watching \in BOOLEAN
  BY Zenon DEF Init
<1>2. created = 0 /\ 0 \in 0..MaxPods
  BY PodRepoAssumption DEF Init
<1>3. queue \in Seq(Event) /\ Len(queue) = 0
  BY EmptySeq DEF Init
<1>4. NoPod.uid = 0
  BY DEF NoPod
<1>5. TypeOK
  BY <1>1, <1>2, <1>3, ObjectTypes DEF Init, TypeOK
<1>6. Identities
  BY <1>2, <1>3, <1>4 DEF Init, Identities, Known, Follows, OneName
<1>7. StoreFollows
  BY <1>4 DEF Init, StoreFollows
<1>. QED
  BY <1>5, <1>6, <1>7 DEF Basic

(* So it holds always.                                                     *)
LEMMA BasicAlways == Spec => []Basic
BY BasicInit, BasicInductive, PTL DEF Spec

(* The pods, the store, the queue and r.pods have their types, and a UID   *)
(* served is that of the object it was made from.                          *)
THEOREM TypeCorrect == Spec => []TypeOK
<1>1. Basic => TypeOK
  BY DEF Basic
<1>. QED
  BY <1>1, BasicAlways, PTL

-----------------------------------------------------------------------------

(* Behind the old queue, a report of a name whose new entry holds devices  *)
(* sets it, and nothing after it is about the same pod.                    *)
LEMMA ReportedEntry ==
    ASSUME Basic, NEW new, Informed(new), NEW n \in Name, NEW i, Reports(i, n)
    PROVE  /\ queue'[i].pod = IF store'[n].uid = 0 THEN store[n] ELSE store'[n]
           /\ queue'[i].kind = IF store[n].uid = 0 THEN "add"
                               ELSE IF store'[n].uid # 0 THEN "update" ELSE Gone
<1>1. store[n] \in Object /\ store'[n] \in Object /\ Gone \in {"delete", "tombstone"}
  BY DEF Basic, TypeOK, Informed, Gone
<1>. QED
  BY <1>1, NotificationType DEF Reports

(* A pod stays served while the queue grows by what is not about it.       *)
LEMMA Extended ==
    ASSUME NEW n \in Name, Served(store[n]), store'[n] = store[n], pods' = pods,
           Len(queue) \in Nat, Len(queue') \in Nat, Len(queue) <= Len(queue'),
           \A i \in 1..Len(queue) : queue'[i] = queue[i],
           \A i \in Len(queue)+1..Len(queue') : queue'[i].pod.uid # store[n].uid
    PROVE  Served(store[n])'
<1> DEFINE o == store[n]
<1>1. CASE /\ o.uid \in DOMAIN pods /\ pods[o.uid] = o
           /\ \A i \in 1..Len(queue) : ~Pending(o.uid, i)
  <2>1. ASSUME NEW i \in 1..Len(queue')
        PROVE  queue'[i].pod.uid # o.uid
    BY <1>1 DEF Pending
  <2>. QED
    BY <1>1, <2>1 DEF Served, Pending
<1>2. ASSUME NEW i \in 1..Len(queue),
             queue[i].pod = o, queue[i].kind \in {"add", "update"},
             \A j \in 1..Len(queue) : j > i => ~Pending(o.uid, j)
      PROVE  Served(store[n])'
  <2>1. i \in 1..Len(queue') /\ queue'[i] = queue[i]
    OBVIOUS
  <2>2. ASSUME NEW j \in 1..Len(queue'), j > i
        PROVE  queue'[j].pod.uid # o.uid
    BY <1>2, <2>2 DEF Pending
  <2>. QED
    BY <1>2, <2>1, <2>2 DEF Served, Pending
<1>. QED
  BY <1>1, <1>2 DEF Served

(* What the informer knows is served, or will be: preserved by every step. *)
LEMMA StoreServedInductive == Basic /\ StoreServed /\ [Next]_vars => StoreServed'
<1> SUFFICES ASSUME Basic, StoreServed, [Next]_vars,
                    NEW n \in Name, Holds(store'[n])
             PROVE  Served(store[n])'
  BY DEF StoreServed, Holds
<1> DEFINE o == store[n]
<1>a. Len(queue) \in Nat
  BY LenProperties DEF Basic, TypeOK
<1>b. Basic'
  BY BasicInductive
<1>1. CASE UNCHANGED <<store, queue, pods>>
  BY <1>1 DEF StoreServed, Served, Pending
<1>2. ASSUME NEW new, Informed(new)
      PROVE  Served(store[n])'
  <2>1. CASE store'[n] = store[n]
    <3>1. Served(store[n])
      BY <2>1 DEF StoreServed
    <3>2. ASSUME NEW i \in Len(queue)+1..Len(queue')
          PROVE  queue'[i].pod.uid # store[n].uid
      BY <1>2, <2>1, Reported DEF Reports
    <3>3. pods' = pods
      BY <1>2 DEF Informed
    <3>4. /\ Len(queue) \in Nat /\ Len(queue') \in Nat /\ Len(queue) <= Len(queue')
          /\ \A i \in 1..Len(queue) : queue'[i] = queue[i]
      BY <1>2, Reported
    <3>. QED
      BY <2>1, <3>1, <3>2, <3>3, <3>4, Extended
  <2>2. CASE store'[n] # store[n]
    <3>1. PICK i \in Len(queue)+1..Len(queue') : Reports(i, n)
      BY <1>2, <2>2, Reported
    <3>2. queue'[i].pod = store'[n] /\ queue'[i].kind \in {"add", "update"}
      BY <1>2, <3>1, ReportedEntry DEF Holds
    <3>3. ASSUME NEW j \in 1..Len(queue'), j > i
          PROVE  queue'[j].pod.uid # store'[n].uid
      <4>1. j \in Len(queue)+1..Len(queue')
        BY <1>2, <3>3, Reported
      <4>2. queue'[i].pod.uid = queue'[j].pod.uid => i = j
        BY <1>2, <4>1, Reported
      <4>. QED
        BY <3>2, <3>3, <4>2
    <3>4. i \in 1..Len(queue')
      BY <1>2, Reported
    <3>. QED
      BY <3>2, <3>3, <3>4 DEF Served, Pending
  <2>. QED
    BY <2>1, <2>2
<1>3. ASSUME NEW m \in Name, Resync(m)
      PROVE  Served(store[n])'
  <2> DEFINE e == [kind |-> "update", name |-> m, pod |-> store[m]]
  <2>1. /\ e \in Event /\ e.kind = "update" /\ e.pod = store[m] /\ store[m].uid # 0
        /\ queue' = Append(queue, e)
        /\ store' = store /\ pods' = pods
    BY <1>3 DEF Resync, Event, Basic, TypeOK
  <2> HIDE DEF e
  <2>2. /\ Len(queue') = Len(queue) + 1 /\ queue'[Len(queue) + 1] = e
        /\ \A i \in 1..Len(queue) : queue'[i] = queue[i]
    BY <2>1, AppendProperties DEF Basic, TypeOK
  <2>3. CASE m = n
    <3>1. /\ Len(queue) + 1 \in 1..Len(queue')
          /\ queue'[Len(queue) + 1].pod = store'[n]
          /\ queue'[Len(queue) + 1].kind = "update"
          /\ \A j \in 1..Len(queue') : ~(j > Len(queue) + 1)
      BY <1>a, <2>1, <2>2, <2>3
    <3>. QED
      BY <3>1 DEF Served, Pending
  <2>4. CASE m # n
    <3>1. e.pod.uid # store[n].uid
      BY <2>1, <2>4 DEF Basic, Identities, OneName
    <3>2. Served(store[n])
      BY <2>1 DEF StoreServed
    <3>3. ASSUME NEW i \in Len(queue)+1..Len(queue')
          PROVE  queue'[i].pod.uid # store[n].uid
      BY <1>a, <2>2, <3>1
    <3>. QED
      BY <1>a, <2>1, <2>2, <3>2, <3>3, Extended
  <2>. QED
    BY <2>3, <2>4
<1>4. CASE Handle
  <2> DEFINE e == queue[1]
  <2>1. queue # <<>> /\ store' = store /\ queue' = Tail(queue)
    BY <1>4 DEF Handle, process
  <2>2. /\ Len(queue) \in Nat \ {0} /\ Len(queue') = Len(queue) - 1
        /\ \A i \in 1..Len(queue') : queue'[i] = queue[i + 1]
    BY <2>1, QueueTail DEF Basic
  <2>3. /\ Sets(e) => pods' = [v \in DOMAIN pods \cup {e.pod.uid} |->
                                 IF v = e.pod.uid THEN e.pod ELSE pods[v]]
        /\ Ends(e) => pods' = [v \in DOMAIN pods \ {e.pod.uid} |-> pods[v]]
        /\ ~Sets(e) /\ ~Ends(e) => pods' = pods
    BY <1>4, Handled DEF Basic
  <2>4. ASSUME NEW j \in 1..Len(queue')
        PROVE  j + 1 \in 1..Len(queue) /\ queue'[j] = queue[j + 1] /\ j + 1 > 1
    BY <2>2
  <2>5. CASE /\ o.uid \in DOMAIN pods /\ pods[o.uid] = o
             /\ \A i \in 1..Len(queue) : ~Pending(o.uid, i)
    <3>1. e.pod.uid # o.uid
      BY <2>2, <2>5 DEF Pending
    <3>2. o.uid \in DOMAIN pods' /\ pods'[o.uid] = o
      BY <2>3, <2>5, <3>1
    <3>3. ASSUME NEW j \in 1..Len(queue')
          PROVE  queue'[j].pod.uid # o.uid
      BY <2>4, <2>5 DEF Pending
    <3>. QED
      BY <2>1, <3>2, <3>3 DEF Served, Pending
  <2>6. ASSUME NEW i \in 1..Len(queue),
               queue[i].pod = o, queue[i].kind \in {"add", "update"},
               \A j \in 1..Len(queue) : j > i => ~Pending(o.uid, j)
        PROVE  Served(store[n])'
    <3>1. CASE i = 1
      <4>1. Sets(e) /\ e.pod = o
        BY <2>1, <2>6, <3>1 DEF Sets
      <4>2. o.uid \in DOMAIN pods' /\ pods'[o.uid] = o
        BY <2>3, <4>1
      <4>3. ASSUME NEW j \in 1..Len(queue')
            PROVE  queue'[j].pod.uid # o.uid
        BY <2>4, <2>6, <3>1 DEF Pending
      <4>. QED
        BY <2>1, <4>2, <4>3 DEF Served, Pending
    <3>2. CASE i # 1
      <4>1. i - 1 \in 1..Len(queue') /\ queue'[i - 1] = queue[i]
        BY <2>2, <3>2
      <4>2. ASSUME NEW j \in 1..Len(queue'), j > i - 1
            PROVE  queue'[j].pod.uid # o.uid
        BY <2>4, <2>6, <4>2 DEF Pending
      <4>. QED
        BY <2>1, <2>6, <4>1, <4>2 DEF Served, Pending
    <3>. QED
      BY <3>1, <3>2
  <2>7. Served(o)
    BY <2>1 DEF StoreServed
  <2>. QED
    BY <2>5, <2>6, <2>7 DEF Served
<1>5. CASE Panic
  BY <1>5 DEF Panic, Holds, NoPod
<1>6. ASSUME NEW m \in Name, NEW p, ~(up /\ watching), Change(m, p)
      PROVE  Served(store[n])'
  BY <1>1, <1>6 DEF Change
<1>. QED
  BY <1>1, <1>2, <1>3, <1>4, <1>5, <1>6, Steps DEF BreakWatch, vars, process

(* With every notification handled, each pod of the cluster that holds     *)
(* devices is served as it is now.                                         *)
THEOREM NothingIsMissing == Spec => []NothingMissing
<1>1. Init => StoreServed
  BY DEF Init, StoreServed, Holds, NoPod
<1>2. Basic /\ StoreServed => NothingMissing
  <2> SUFFICES ASSUME Basic, StoreServed, Settled, NEW n \in Name, Using(n)
               PROVE  api[n].uid \in DOMAIN pods /\ pods[api[n].uid] = api[n]
    BY DEF NothingMissing
  <2>1. store = api /\ Len(queue) = 0
    BY EmptySeq DEF Settled, Basic, StoreFollows
  <2>2. Served(api[n])
    BY <2>1 DEF Using, StoreServed
  <2>. QED
    BY <2>1, <2>2 DEF Served
<1>. QED
  BY <1>1, <1>2, BasicAlways, StoreServedInductive, PTL DEF Spec

-----------------------------------------------------------------------------

(* A pod that is over stays over in the cluster and in the informer.       *)
LEMMA OverStays ==
    ASSUME Basic, [Next]_vars, NEW u \in 1..created, Over(u)
    PROVE  Over(u)'
<1> USE DEF cluster, process, vars
<1>1. \/ api' = api
      \/ \E n \in Name : \E o : Change(n, o) /\ MayBecome(n, o)
  BY ClusterStep
     DEF Next, Environment, Backend, Idle, Basic, BreakWatch, Resync, Handle, Panic, Relist, Restart
<1>2. \/ store' = store \/ store' = api'
      \/ store' = [n \in Name |-> NoPod]
  <2>1. \A n \in Name : \A o : Change(n, o) => store' = store \/ store' = api'
    BY DEF Change
  <2>2. CASE Environment
    BY <2>1, <2>2, ClusterStep DEF Environment, BreakWatch, Resync, Basic
  <2>3. CASE Backend
    BY <2>3 DEF Backend, Handle, Panic, Relist, Restart
  <2>. QED
    BY <2>2, <2>3 DEF Next, Idle
<1>3. ASSUME NEW m \in Name, api'[m].uid = u
      PROVE  api'[m].phase = "over"
  <2>1. ASSUME NEW n \in Name, NEW o, Change(n, o), MayBecome(n, o)
        PROVE  api'[m].phase = "over"
    <3>1. api' = [api EXCEPT ![n] = o] /\ api \in [Name -> Object] /\ created \in Nat
      BY <2>1, PodRepoAssumption, ChangeSeen DEF Basic, MayBecome, TypeOK
    <3>2. CASE m # n
      BY <1>3, <3>1, <3>2 DEF Over
    <3>3. CASE m = n
      BY <1>3, <2>1, <3>1, <3>3 DEF Over, MayBecome
    <3>. QED
      BY <3>2, <3>3
  <2>. QED
    BY <1>1, <1>3, <2>1 DEF Over
<1>4. ASSUME NEW m \in Name, store'[m].uid = u
      PROVE  store'[m].phase = "over"
  BY <1>2, <1>3, <1>4 DEF Over, NoPod
<1>. QED
  BY <1>3, <1>4 DEF Over

(* To establish the invariant, UID by UID.                                 *)
LEMMA FinalEverywhere ==
    ASSUME \A i \in 1..Len(queue') : \A u :
              Ends(queue'[i]) /\ u = queue'[i].pod.uid => Final(u, i)',
           up' => \A u \in removed' : Final(u, 0)'
    PROVE  EndsAreFinal'
BY DEF EndsAreFinal, Final, Pending, Over

(* A pod that was removed had been created.                                *)
LEMMA RemovedPods ==
    ASSUME Basic, NEW u \in removed
    PROVE  u \in 1..created
BY PodRepoAssumption DEF Basic, TypeOK, Identities, UID

(* A pod the informer knows had been created.                              *)
LEMMA KnownPods ==
    ASSUME Basic, NEW n \in Name, store[n].uid # 0
    PROVE  store[n].uid \in 1..created
<1>1. store[n] \in Object /\ created \in Nat /\ store[n].uid <= created
  BY PodRepoAssumption DEF Basic, TypeOK, Identities, Known
<1>. QED
  BY <1>1 DEF Object

(* What a step appends to the queue does not set a pod that is over, and   *)
(* what ends a pod there finds it over.                                    *)
LEMMA FinalInformed ==
    ASSUME Basic, EndsAreFinal, [Next]_vars, NEW new, Informed(new)
    PROVE  EndsAreFinal'
<1>1. ASSUME NEW i \in Nat, i <= Len(queue), NEW u \in 1..created, Final(u, i)
      PROVE  Final(u, i)'
  <2>1. Over(u)'
    BY <1>1, OverStays DEF Final
  <2>2. ASSUME NEW j \in 1..Len(queue'), j > i, Sets(queue'[j])
        PROVE  queue'[j].pod.uid # u
    <3>1. CASE j \in 1..Len(queue)
      BY <1>1, <2>2, <3>1, Reported DEF Final, Pending
    <3>2. CASE j \notin 1..Len(queue)
      <4>1. j \in Len(queue)+1..Len(queue')
        BY <3>2, Reported
      <4> PICK n \in Name : Reports(j, n)
        BY <4>1, Reported
      <4>2. queue'[j].pod = store'[n]
        BY <2>2, ReportedEntry DEF Sets, Holds, Gone
      <4>. QED
        BY <2>1, <2>2, <4>2 DEF Sets, Holds, Over
    <3>. QED
      BY <3>1, <3>2
  <2>. QED
    BY <2>1, <2>2 DEF Final, Pending
<1>2. ASSUME NEW i \in Len(queue)+1..Len(queue'), Ends(queue'[i]),
             NEW u, u = queue'[i].pod.uid
      PROVE  Final(u, i)'
  <2> PICK n \in Name : Reports(i, n)
    BY <1>2, Reported
  <2>a. u \in 1..created'
    BY <1>2, Reported
  <2>1. /\ store' = api' /\ OneName(store', store') /\ OneName(store, store')
        /\ u # 0
    BY <2>a DEF Informed
  <2>2. /\ queue'[i].pod = IF store'[n].uid = 0 THEN store[n] ELSE store'[n]
        /\ queue'[i].kind = IF store[n].uid = 0 THEN "add"
                            ELSE IF store'[n].uid # 0 THEN "update" ELSE Gone
    BY ReportedEntry
  <2>3. ASSUME NEW m \in Name, store'[m].uid = u
        PROVE  store'[m].phase = "over"
    <3>1. m = n
      BY <1>2, <2>1, <2>2, <2>3 DEF OneName
    <3>2. u = store'[n].uid /\ queue'[i].pod = store'[n] /\ queue'[i].kind # "delete"
      BY <2>1, <2>2, <2>3, <3>1
    <3>. QED
      BY <1>2, <3>1, <3>2 DEF Ends
  <2>4. ASSUME NEW j \in 1..Len(queue'), j > i
        PROVE  queue'[j].pod.uid # u
    <3>1. j \in Len(queue)+1..Len(queue')
      BY <2>4, Reported
    <3>2. queue'[i].pod.uid = queue'[j].pod.uid => i = j
      BY <3>1, Reported
    <3>. QED
      BY <1>2, <2>4, <3>2
  <2>. QED
    BY <2>1, <2>3, <2>4 DEF Final, Pending, Over
<1>3. ASSUME NEW i \in 1..Len(queue'), Ends(queue'[i]), NEW u, u = queue'[i].pod.uid
      PROVE  Final(u, i)'
  <2>1. CASE i \in 1..Len(queue)
    <3>1. queue'[i] = queue[i] /\ i \in Nat /\ i <= Len(queue)
      BY <2>1, Reported
    <3>2. u \in 1..created /\ Final(u, i)
      BY <1>3, <2>1, <3>1, QueuedPods DEF EndsAreFinal
    <3>. QED
      BY <1>1, <3>1, <3>2
  <2>2. CASE i \notin 1..Len(queue)
    <3>1. i \in Len(queue)+1..Len(queue')
      BY <2>2, Reported
    <3>. QED
      BY <1>2, <1>3, <3>1
  <2>. QED
    BY <2>1, <2>2
<1>4. ASSUME NEW u \in removed'
      PROVE  Final(u, 0)'
  <2>1. u \in removed /\ up
    BY <1>4 DEF Informed
  <2>2. u \in 1..created
    BY <2>1, RemovedPods
  <2>3. Final(u, 0) /\ 0 <= Len(queue)
    BY <2>1, Reported DEF EndsAreFinal
  <2>. QED
    BY <1>1, <2>2, <2>3
<1>. QED
  BY <1>3, <1>4, FinalEverywhere

(* No pod comes back: preserved by every step.                             *)
LEMMA EndsAreFinalInductive == Basic /\ EndsAreFinal /\ [Next]_vars => EndsAreFinal'
<1> SUFFICES ASSUME Basic, EndsAreFinal, [Next]_vars
             PROVE  EndsAreFinal'
  OBVIOUS
<1>a. Len(queue) \in Nat
  BY LenProperties DEF Basic, TypeOK
<1>1. ASSUME UNCHANGED queue, up' = up, removed' = removed
      PROVE  EndsAreFinal'
  <2>1. ASSUME NEW i \in Nat, NEW u \in 1..created, Final(u, i)
        PROVE  Final(u, i)'
    BY <1>1, <2>1, OverStays DEF Final, Pending, Sets
  <2>2. ASSUME NEW i \in 1..Len(queue'), Ends(queue'[i]), NEW u, u = queue'[i].pod.uid
        PROVE  Final(u, i)'
    BY <1>1, <2>1, <2>2, QueuedPods DEF EndsAreFinal
  <2>3. ASSUME up', NEW u \in removed'
        PROVE  Final(u, 0)'
    BY <1>1, <2>1, <2>3, RemovedPods DEF EndsAreFinal
  <2>. QED
    BY <2>2, <2>3, FinalEverywhere
<1>2. ASSUME NEW new, Informed(new)
      PROVE  EndsAreFinal'
  BY <1>2, FinalInformed
<1>3. ASSUME NEW m \in Name, Resync(m)
      PROVE  EndsAreFinal'
  <2> DEFINE e == [kind |-> "update", name |-> m, pod |-> store[m]]
  <2>1. /\ e \in Event /\ e.kind = "update" /\ e.pod = store[m] /\ store[m].uid # 0
        /\ queue' = Append(queue, e)
        /\ removed' = removed /\ up' = up
    BY <1>3 DEF Resync, Event, Basic, TypeOK
  <2> HIDE DEF e
  <2>2. /\ Len(queue') = Len(queue) + 1 /\ queue'[Len(queue) + 1] = e
        /\ \A i \in 1..Len(queue) : queue'[i] = queue[i]
    BY <2>1, AppendProperties DEF Basic, TypeOK
  <2>3. ASSUME NEW i \in Nat, NEW u \in 1..created, Final(u, i)
        PROVE  Final(u, i)'
    <3>1. Over(u) /\ Over(u)'
      BY <2>3, OverStays DEF Final
    <3>2. ASSUME NEW j \in 1..Len(queue'), j > i, Sets(queue'[j])
          PROVE  queue'[j].pod.uid # u
      <4>1. CASE j \in 1..Len(queue)
        BY <2>2, <2>3, <3>2, <4>1 DEF Final, Pending
      <4>2. CASE j = Len(queue) + 1
        BY <2>1, <2>2, <3>1, <3>2, <4>2 DEF Sets, Holds, Over
      <4>. QED
        BY <1>a, <2>2, <4>1, <4>2
    <3>. QED
      BY <3>1, <3>2 DEF Final, Pending
  <2>4. ASSUME NEW i \in 1..Len(queue'), Ends(queue'[i]), NEW u, u = queue'[i].pod.uid
        PROVE  Final(u, i)'
    <3>1. CASE i \in 1..Len(queue)
      <4>1. u \in 1..created /\ Final(u, i)
        BY <2>2, <2>4, <3>1, QueuedPods DEF EndsAreFinal
      <4>. QED
        BY <2>3, <4>1
    <3>2. CASE i = Len(queue) + 1
      <4>1. u = store[m].uid /\ store[m].phase = "over"
        BY <2>1, <2>2, <2>4, <3>2 DEF Ends
      <4>2. Over(u)
        <5>1. ASSUME NEW k \in Name, store[k].uid = u \/ api[k].uid = u
              PROVE  k = m
          BY <2>1, <4>1, <5>1 DEF Basic, Identities, OneName
        <5>. QED
          BY <4>1, <5>1 DEF Over, Basic, Identities, Follows
      <4>3. u \in 1..created
        BY <2>1, <4>1, KnownPods
      <4>4. Over(u)'
        BY <4>2, <4>3, OverStays
      <4>5. \A j \in 1..Len(queue') : ~(j > i)
        BY <1>a, <2>2, <3>2
      <4>. QED
        BY <4>4, <4>5 DEF Final
    <3>. QED
      BY <1>a, <2>2, <3>1, <3>2
  <2>5. ASSUME up', NEW u \in removed'
        PROVE  Final(u, 0)'
    BY <2>1, <2>3, <2>5, RemovedPods DEF EndsAreFinal
  <2>. QED
    BY <2>4, <2>5, FinalEverywhere
<1>4. CASE Handle
  <2> DEFINE e == queue[1]
  <2>1. /\ queue # <<>> /\ queue' = Tail(queue) /\ up' = up
        /\ removed' = removed \cup (DOMAIN pods \ DOMAIN pods')
    BY <1>4 DEF Handle
  <2>2. /\ Len(queue) \in Nat \ {0} /\ Len(queue') = Len(queue) - 1
        /\ \A i \in 1..Len(queue') : queue'[i] = queue[i + 1]
    BY <2>1, QueueTail DEF Basic
  <2>3. ASSUME NEW i \in Nat, NEW u \in 1..created, Final(u, i + 1)
        PROVE  Final(u, i)'
    <3>1. Over(u)'
      BY <2>3, OverStays DEF Final
    <3>2. ASSUME NEW j \in 1..Len(queue'), j > i, Sets(queue'[j])
          PROVE  queue'[j].pod.uid # u
      <4>1. j + 1 \in 1..Len(queue) /\ j + 1 > i + 1 /\ queue'[j] = queue[j + 1]
        BY <2>2, <3>2
      <4>. QED
        BY <2>3, <3>2, <4>1 DEF Final, Pending
    <3>. QED
      BY <3>1, <3>2 DEF Final, Pending
  <2>4. ASSUME NEW i \in 1..Len(queue'), Ends(queue'[i]), NEW u, u = queue'[i].pod.uid
        PROVE  Final(u, i)'
    <3>1. i + 1 \in 1..Len(queue) /\ queue'[i] = queue[i + 1] /\ i \in Nat
      BY <2>2
    <3>2. u \in 1..created /\ Final(u, i + 1)
      BY <2>4, <3>1, QueuedPods DEF EndsAreFinal
    <3>. QED
      BY <2>3, <3>1, <3>2
  <2>5. ASSUME up', NEW u \in removed'
        PROVE  Final(u, 0)'
    <3>1. CASE u \in removed
      <4>1. Final(u, 0) /\ u \in 1..created
        BY <2>1, <2>5, <3>1, RemovedPods DEF EndsAreFinal
      <4>2. Final(u, 0 + 1)
        BY <4>1 DEF Final
      <4>. QED
        BY <2>3, <4>1, <4>2
    <3>2. CASE u \in DOMAIN pods \ DOMAIN pods'
      <4>1. Ends(e) /\ u = e.pod.uid
        BY <1>4, <3>2, Handled DEF Basic
      <4>2. 1 \in 1..Len(queue)
        BY <2>2
      <4>3. u \in 1..created /\ Final(u, 0 + 1)
        BY <4>1, <4>2, QueuedPods DEF EndsAreFinal
      <4>. QED
        BY <2>3, <4>3
    <3>. QED
      BY <2>1, <2>5, <3>1, <3>2
  <2>. QED
    BY <2>4, <2>5, FinalEverywhere
<1>5. CASE Panic
  <2>1. Len(queue') = 0 /\ ~up'
    BY <1>5, EmptySeq DEF Panic
  <2>. QED
    BY <2>1 DEF EndsAreFinal
<1>6. ASSUME NEW m \in Name, NEW p, ~(up /\ watching), Change(m, p)
      PROVE  EndsAreFinal'
  BY <1>1, <1>6 DEF Change
<1>. QED
  BY <1>1, <1>2, <1>3, <1>4, <1>5, <1>6, Steps DEF BreakWatch, vars, process

(* A pod that was removed is never served again.                           *)
THEOREM NoneResurrected == Spec => NeverResurrected
<1>1. Init => EndsAreFinal
  BY EmptySeq DEF Init, EndsAreFinal
<1>2. Basic /\ EndsAreFinal /\ [Next]_vars
         => [(DOMAIN pods' \ DOMAIN pods) \cap removed = {}]_vars
  <2> SUFFICES ASSUME Basic, EndsAreFinal, [Next]_vars,
                      NEW u \in DOMAIN pods' \ DOMAIN pods
               PROVE  u \notin removed
    OBVIOUS
  <2>1. CASE Handle
    <3> DEFINE e == queue[1]
    <3>1. Sets(e) /\ u = e.pod.uid
      BY <2>1, Handled DEF Basic
    <3>2. up /\ 1 \in 1..Len(queue)
      <4>1. up /\ queue # <<>>
        BY <2>1 DEF Handle
      <4>. QED
        BY <4>1, QueueTail DEF Basic
    <3>. QED
      BY <3>1, <3>2 DEF EndsAreFinal, Final, Pending
  <2>2. CASE Panic
    BY <2>2 DEF Panic
  <2>3. CASE UNCHANGED pods
    BY <2>3
  <2>. QED
    BY <2>1, <2>2, <2>3, Steps
    DEF Informed, Change, BreakWatch, Resync, vars, process
<1>. QED
  BY <1>1, <1>2, BasicAlways, EndsAreFinalInductive, PTL DEF Spec, NeverResurrected

-----------------------------------------------------------------------------

(* To establish the invariant, UID by UID.                                 *)
LEMMA JustifiedEverywhere ==
    ASSUME \A u \in DOMAIN pods' : Justified(u, 0)',
           \A i \in 1..Len(queue') : \A u :
              Sets(queue'[i]) /\ u = queue'[i].pod.uid => Justified(u, i)'
    PROVE  ServedJustified'
BY DEF ServedJustified, Justified, Pending

(* Whatever is served can be accounted for: preserved by every step.       *)
LEMMA ServedJustifiedInductive == Basic /\ ServedJustified /\ [Next]_vars => ServedJustified'
<1> SUFFICES ASSUME Basic, ServedJustified, [Next]_vars
             PROVE  ServedJustified'
  OBVIOUS
<1>a. Len(queue) \in Nat
  BY LenProperties DEF Basic, TypeOK
<1>1. ASSUME UNCHANGED <<queue, store, pods>>, missed \subseteq missed'
      PROVE  ServedJustified'
  BY <1>1 DEF ServedJustified, Justified, Pending, Sets, Ends
<1>2. ASSUME NEW new, Informed(new)
      PROVE  ServedJustified'
  <2>1. ASSUME NEW i \in Nat, i <= Len(queue), NEW u, Justified(u, i)
        PROVE  Justified(u, i)'
    <3>1. CASE u \in missed
      BY <1>2, <3>1 DEF Informed, Justified
    <3>2. ASSUME NEW j \in 1..Len(queue), j > i, Ends(queue[j]), Pending(u, j)
          PROVE  Justified(u, i)'
      <4>1. j \in 1..Len(queue') /\ queue'[j] = queue[j]
        BY <1>2, Reported
      <4>. QED
        BY <3>2, <4>1 DEF Justified, Pending
    <3>3. ASSUME NEW n \in Name, store[n].uid = u, Holds(store[n]), u \notin missed
          PROVE  Justified(u, i)'
      <4>1. CASE Holds(store'[n]) /\ store'[n].uid = u
        BY <4>1 DEF Justified
      <4>2. CASE ~(Holds(store'[n]) /\ store'[n].uid = u)
        <5> PICK j \in Len(queue)+1..Len(queue') : Reports(j, n)
          BY <1>2, <3>3, <4>2, Reported
        <5>1. j \in 1..Len(queue') /\ j > i
          BY <1>2, <2>1, Reported
        <5>2. /\ queue'[j].pod = IF store'[n].uid = 0 THEN store[n] ELSE store'[n]
              /\ queue'[j].kind = IF store[n].uid = 0 THEN "add"
                                  ELSE IF store'[n].uid # 0 THEN "update" ELSE Gone
          BY <1>2, ReportedEntry
        <5>3. CASE store'[n].uid = u
          <6>1. store'[n].assigned /\ store'[n].phase = "over"
            BY <1>2, <3>3, <4>2, <5>3 DEF Holds, Informed, Follows
          <6>2. queue'[j].pod = store'[n] /\ queue'[j].kind = "update"
            BY <3>3, <5>2, <5>3 DEF Holds
          <6>. QED
            BY <5>1, <5>3, <6>1, <6>2 DEF Justified, Pending, Ends
        <5>4. CASE store'[n].uid # u
          <6>1. watching /\ store'[n].uid = 0
            BY <1>2, <3>3, <5>4 DEF Informed, Holds
          <6>2. queue'[j].pod = store[n] /\ queue'[j].kind = "delete"
            BY <3>3, <5>2, <6>1 DEF Holds, Gone
          <6>. QED
            BY <3>3, <5>1, <6>2 DEF Justified, Pending, Ends, Holds
        <5>. QED
          BY <5>3, <5>4
      <4>. QED
        BY <4>1, <4>2
    <3>. QED
      BY <2>1, <3>1, <3>2, <3>3 DEF Justified
  <2>2. ASSUME NEW u \in DOMAIN pods'
        PROVE  Justified(u, 0)'
    <3>1. Justified(u, 0) /\ 0 <= Len(queue)
      BY <1>a, <1>2 DEF Informed, ServedJustified
    <3>. QED
      BY <2>1, <3>1
  <2>3. ASSUME NEW i \in 1..Len(queue'), Sets(queue'[i]), NEW u, u = queue'[i].pod.uid
        PROVE  Justified(u, i)'
    <3>1. CASE i \in 1..Len(queue)
      <4>1. queue'[i] = queue[i] /\ i \in Nat /\ i <= Len(queue)
        BY <1>2, <3>1, Reported
      <4>. QED
        BY <2>1, <2>3, <3>1, <4>1 DEF ServedJustified
    <3>2. CASE i \notin 1..Len(queue)
      <4>1. i \in Len(queue)+1..Len(queue')
        BY <1>2, <3>2, Reported
      <4> PICK n \in Name : Reports(i, n)
        BY <1>2, <4>1, Reported
      <4>2. queue'[i].pod = store'[n]
        BY <1>2, <2>3, ReportedEntry DEF Sets, Holds, Gone
      <4>. QED
        BY <2>3, <4>2 DEF Justified, Sets
    <3>. QED
      BY <3>1, <3>2
  <2>. QED
    BY <2>2, <2>3, JustifiedEverywhere
<1>3. ASSUME NEW m \in Name, Resync(m)
      PROVE  ServedJustified'
  <2> DEFINE e == [kind |-> "update", name |-> m, pod |-> store[m]]
  <2>1. /\ e \in Event /\ e.kind = "update" /\ e.pod = store[m] /\ store[m].uid # 0
        /\ queue' = Append(queue, e)
        /\ store' = store /\ pods' = pods /\ missed' = missed
    BY <1>3 DEF Resync, Event, Basic, TypeOK
  <2> HIDE DEF e
  <2>2. /\ Len(queue') = Len(queue) + 1 /\ queue'[Len(queue) + 1] = e
        /\ \A i \in 1..Len(queue) : queue'[i] = queue[i]
    BY <2>1, AppendProperties DEF Basic, TypeOK
  <2>3. ASSUME NEW i, NEW u, Justified(u, i)
        PROVE  Justified(u, i)'
    BY <1>a, <2>1, <2>2, <2>3 DEF Justified, Pending
  <2>4. ASSUME NEW i \in 1..Len(queue'), Sets(queue'[i]), NEW u, u = queue'[i].pod.uid
        PROVE  Justified(u, i)'
    <3>1. CASE i \in 1..Len(queue)
      BY <2>2, <2>3, <2>4, <3>1 DEF ServedJustified
    <3>2. CASE i = Len(queue) + 1
      BY <2>1, <2>2, <2>4, <3>2 DEF Justified, Sets
    <3>. QED
      BY <1>a, <2>2, <3>1, <3>2
  <2>5. ASSUME NEW u \in DOMAIN pods'
        PROVE  Justified(u, 0)'
    BY <2>1, <2>3 DEF ServedJustified
  <2>. QED
    BY <2>4, <2>5, JustifiedEverywhere
<1>4. CASE Handle
  <2> DEFINE e == queue[1]
  <2>1. /\ queue # <<>> /\ queue' = Tail(queue) /\ store' = store /\ missed' = missed
    BY <1>4 DEF Handle, process
  <2>2. /\ Len(queue) \in Nat \ {0} /\ Len(queue') = Len(queue) - 1
        /\ \A i \in 1..Len(queue') : queue'[i] = queue[i + 1]
    BY <2>1, QueueTail DEF Basic
  <2>3. /\ Sets(e) => pods' = [v \in DOMAIN pods \cup {e.pod.uid} |->
                                 IF v = e.pod.uid THEN e.pod ELSE pods[v]]
        /\ Ends(e) => pods' = [v \in DOMAIN pods \ {e.pod.uid} |-> pods[v]]
        /\ ~Sets(e) /\ ~Ends(e) => pods' = pods
    BY <1>4, Handled DEF Basic
  <2>4. ASSUME NEW i \in Nat, NEW u, Justified(u, i + 1)
        PROVE  Justified(u, i)'
    <3>1. ASSUME NEW j \in 1..Len(queue), j > i + 1, Ends(queue[j]), Pending(u, j)
          PROVE  Justified(u, i)'
      <4>1. j - 1 \in 1..Len(queue') /\ j - 1 > i /\ queue'[j - 1] = queue[j]
        BY <2>2, <3>1
      <4>. QED
        BY <3>1, <4>1 DEF Justified, Pending
    <3>. QED
      BY <2>1, <2>4, <3>1 DEF Justified
  <2>5. ASSUME NEW i \in 1..Len(queue'), Sets(queue'[i]), NEW u, u = queue'[i].pod.uid
        PROVE  Justified(u, i)'
    <3>1. i + 1 \in 1..Len(queue) /\ queue'[i] = queue[i + 1] /\ i \in Nat
      BY <2>2
    <3>. QED
      BY <2>4, <2>5, <3>1 DEF ServedJustified
  <2>6. ASSUME NEW u \in DOMAIN pods'
        PROVE  Justified(u, 0)'
    <3>1. Justified(u, 0 + 1)
      <4>1. CASE Sets(e) /\ u = e.pod.uid
        BY <2>2, <4>1 DEF ServedJustified
      <4>2. CASE ~(Sets(e) /\ u = e.pod.uid)
        <5>1. u \in DOMAIN pods /\ ~(Ends(e) /\ u = e.pod.uid)
          BY <2>3, <2>6, <4>2
        <5>2. Justified(u, 0)
          BY <5>1 DEF ServedJustified
        <5>3. ASSUME NEW j \in 1..Len(queue), j > 0, Ends(queue[j]), Pending(u, j)
              PROVE  j > 0 + 1
          BY <2>2, <5>1, <5>3 DEF Pending
        <5>. QED
          BY <5>2, <5>3 DEF Justified
      <4>. QED
        BY <4>1, <4>2
    <3>. QED
      BY <2>4, <3>1
  <2>. QED
    BY <2>5, <2>6, JustifiedEverywhere
<1>5. CASE Panic
  <2>1. Len(queue') = 0 /\ DOMAIN pods' = {}
    BY <1>5, EmptySeq DEF Panic
  <2>. QED
    BY <2>1 DEF ServedJustified
<1>6. ASSUME NEW m \in Name, NEW p, ~(up /\ watching), Change(m, p), MayBecome(m, p)
      PROVE  ServedJustified'
  BY <1>1, <1>6 DEF Change, MayBecome
<1>. QED
  BY <1>1, <1>2, <1>3, <1>4, <1>5, <1>6, Steps DEF BreakWatch, vars, process

(* What is served beyond the pods that hold devices was deleted unseen.    *)
THEOREM GhostsWereMissed == Spec => []GhostsAreMissedDeletes
<1>1. Init => ServedJustified
  BY EmptySeq DEF Init, ServedJustified
<1>2. Basic /\ ServedJustified => GhostsAreMissedDeletes
  <2> SUFFICES ASSUME Basic, ServedJustified, Settled,
                      NEW u \in DOMAIN pods, u \notin missed
               PROVE  \E n \in Name : Using(n) /\ api[n].uid = u
    BY DEF GhostsAreMissedDeletes
  <2>1. store = api /\ Len(queue) = 0
    BY EmptySeq DEF Settled, Basic, StoreFollows
  <2>. QED
    BY <2>1 DEF ServedJustified, Justified, Using
<1>. QED
  BY <1>1, <1>2, BasicAlways, ServedJustifiedInductive, PTL DEF Spec

=============================================================================
