-------------------------- MODULE PodDeviceCodec --------------------------
(***************************************************************************)
(* How the device annotation of a pod becomes the devices of its           *)
(* containers: DecodePodDevices and the vendors' decoders                  *)
(* (server/internal/provider/util/util.go), and fetchContainerInfo         *)
(* (server/internal/data/pod.go), which indexes what they return by        *)
(* container.  One behaviour decodes one annotation, a loop iteration a    *)
(* step.                                                                   *)
(*                                                                         *)
(* The annotation is a sequence of segments (separated by ";", one per     *)
(* container, as the scheduler writes it), a segment a sequence of items   *)
(* (separated by ":"), an item a number of comma-separated fields, the     *)
(* first of which is the UUID.  Types, memory and cores are left out.  A   *)
(* pod has the annotation of one vendor.                                   *)
(***************************************************************************)
EXTENDS FiniteSets, Naturals, Sequences, SequencesExt

CONSTANTS
    Device,      \* device UUIDs; each contains a dash
    Blank,       \* the empty UUID
    MaxCtrs,     \* bound: containers of the pod
    MaxSegs,     \* bound: segments of the annotation
    MaxItems,    \* bound: items of a segment
    MaxFields    \* bound: underscore-separated fields of an MLU annotation

ASSUME CodecAssumption ==
    /\ Blank \notin Device
    /\ {MaxCtrs, MaxSegs, MaxItems, MaxFields} \subseteq Nat

PerContainer == {"nvidia", "hygon", "metax"}
Vendor == PerContainer \cup {"ascend", "mlu"}

(* Four fields and more are a device; two or three are too few; one is     *)
(* text without a comma, such as what follows the last ":".                *)
Item ==
    [fields : {4}, uuid : Device \cup {Blank}] \cup [fields : {1, 3}, uuid : {Blank}]
Segment == BoundedSeq(Item, MaxItems)

VARIABLES
    vendor,      \* the vendor whose annotation the pod has
    ctrCount,    \* len(pod.Spec.Containers)
    annotation,  \* its segments; strings.Split returns at least one
    mluFields,   \* number of "_"-separated fields, for an MLU pod
    pc,          \* "decode", "build", "done" or "panic"
    i,           \* the segment or the container the loop is at
    entries,     \* pd[devType]: the devices of one segment each
    ctrs         \* the devices of the containers built

input == <<vendor, ctrCount, annotation, mluFields>>
vars  == <<input, pc, i, entries, ctrs>>

(* The devices of a segment: the UUIDs of its items with a comma, in order. *)
Listed(segment) == {k \in DOMAIN segment : segment[k].fields > 1}
Nth(n, K) == CHOOSE k \in K : Cardinality({j \in K : j <= k}) = n
Devices(segment) ==
    [n \in 1..Cardinality(Listed(segment)) |-> segment[Nth(n, Listed(segment))].uuid]

(* A decoder goes through the items in order and stops at the first that   *)
(* has too few fields (an error) or, for Hygon, a UUID without a dash (an  *)
(* index out of range).                                                    *)
TooShort(item) == item.fields \in 2..3
Undashed(item) == vendor = "hygon" /\ item.fields >= 4 /\ item.uuid = Blank
Trouble(segment, Bad(_)) ==
    \E k \in DOMAIN segment :
        /\ Bad(segment[k])
        /\ \A j \in 1..k : TooShort(segment[j]) \/ Undashed(segment[j]) => j = k
DecodeFails(segment)  == Trouble(segment, TooShort)
DecodePanics(segment) == Trouble(segment, Undashed)

-----------------------------------------------------------------------------

Init ==
    /\ vendor \in Vendor
    /\ ctrCount \in 1..MaxCtrs
    /\ IF vendor = "mlu"
          THEN mluFields \in 2..MaxFields /\ annotation = <<<<>>>>
          ELSE mluFields = 0 /\ annotation \in BoundedSeq(Segment, MaxSegs) \ {<<>>}
    /\ pc = "decode" /\ i = 1
    /\ entries = <<>> /\ ctrs = <<>>

(* A pod that cannot be decoded is shown without containers.               *)
GiveUp == pc' = "done" /\ entries' = <<>> /\ UNCHANGED <<i, ctrs>>
Crash  == pc' = "panic" /\ UNCHANGED <<i, entries, ctrs>>

(* Fault: the loop does not stop at the last container.                    *)
InLoopAllSegments == i <= Len(annotation)

(* The loop ends with the segments; for most vendors also when there is    *)
(* one for every container.                                                *)
InLoop == i <= Len(annotation) /\ (vendor \in PerContainer => i <= ctrCount)

(* Fault: containers without devices are skipped.                          *)
KeepsOccupied(segment) == Devices(segment) # <<>>

(* An empty segment counts as a container without devices, except for      *)
(* Ascend; a segment without a device in it counts for nothing.            *)
Keeps(segment) ==
    Devices(segment) # <<>> \/ (vendor \in PerContainer /\ segment = <<>>)

DecodeSegment ==
    /\ pc = "decode" /\ vendor # "mlu"
    /\ InLoop
    /\ LET s == annotation[i] IN
       \/ DecodeFails(s) /\ GiveUp
       \/ DecodePanics(s) /\ Crash
       \/ /\ ~DecodeFails(s) /\ ~DecodePanics(s)
          /\ entries' = IF Keeps(s) THEN Append(entries, Devices(s)) ELSE entries
          /\ i' = i + 1
          /\ UNCHANGED <<pc, ctrs>>
    /\ UNCHANGED input

(* An MLU pod has one device, whose index is the sixth field.              *)
DecodeMLU ==
    /\ pc = "decode" /\ vendor = "mlu" /\ i = 1
    /\ \/ mluFields < 3 /\ GiveUp
       \/ mluFields \in 3..5 /\ Crash
       \/ /\ mluFields >= 6
          /\ \E d \in Device : entries' = <<<<d>>>>
          /\ i' = i + 1
          /\ UNCHANGED <<pc, ctrs>>
    /\ UNCHANGED input

EndDecode ==
    /\ pc = "decode"
    /\ IF vendor = "mlu" THEN i > 1 ELSE ~InLoop
    /\ pc' = IF entries = <<>> THEN "done" ELSE "build"
    /\ i' = 1
    /\ UNCHANGED <<input, entries, ctrs>>

(* Fault: the loop goes over the entries.                                  *)
BuildsEveryEntry == i <= Len(entries)

BuildsMore == i <= ctrCount

(* Container i gets entry i.                                               *)
BuildContainer ==
    /\ pc = "build" /\ BuildsMore
    /\ IF i <= Len(entries)
          THEN ctrs' = Append(ctrs, entries[i]) /\ i' = i + 1 /\ UNCHANGED <<pc, entries>>
          ELSE Crash
    /\ UNCHANGED input

EndBuild ==
    /\ pc = "build" /\ ~BuildsMore
    /\ pc' = "done"
    /\ UNCHANGED <<input, i, entries, ctrs>>

Decided == pc \in {"done", "panic"} /\ UNCHANGED vars

Next == DecodeSegment \/ DecodeMLU \/ EndDecode \/ BuildContainer \/ EndBuild \/ Decided

Spec == Init /\ [][Next]_vars

-----------------------------------------------------------------------------

TypeOK ==
    /\ vendor \in Vendor /\ ctrCount \in 1..MaxCtrs
    /\ annotation \in Seq(Segment) /\ mluFields \in 0..MaxFields
    /\ pc \in {"decode", "build", "done", "panic"}
    /\ i \in 1..(MaxSegs + MaxCtrs + 1)
    /\ entries \in Seq(Seq(Device \cup {Blank}))
    /\ ctrs \in Seq(Seq(Device \cup {Blank})) /\ Len(ctrs) <= ctrCount

(* What the scheduler writes: per container a segment, empty or with its   *)
(* devices, and nothing after the last ";".                                *)
WellFormed ==
    /\ Len(annotation) = ctrCount + 1 /\ annotation[ctrCount + 1] = <<>>
    /\ \A k \in 1..ctrCount :
          /\ \A j \in DOMAIN annotation[k] :
                annotation[k][j].fields = 1 \/ annotation[k][j].uuid # Blank
          /\ annotation[k] # <<>> => Devices(annotation[k]) # <<>>
Uneven ==
    /\ \E k \in 1..ctrCount : annotation[k] = <<>>
    /\ \E k \in 1..ctrCount : annotation[k] # <<>>

(* A device is never shown on the wrong container: a pod that is shown at  *)
(* all has on every container the devices of that container's segment,     *)
(* although decoders skip segments and number the rest consecutively.      *)
(* Whatever the annotation says, for the vendors whose loop stops at the   *)
(* last container; for Ascend, whose loop does not, if no segment past the *)
(* last container has devices.                                             *)
NothingPast ==
    vendor = "ascend" => \A k \in DOMAIN annotation :
                            k > ctrCount => Devices(annotation[k]) = <<>>
NeverMisattributed ==
    pc = "done" /\ ctrs # <<>> /\ vendor # "mlu" /\ NothingPast
        => /\ Len(ctrs) = ctrCount
           /\ \A k \in 1..ctrCount : k <= Len(annotation) /\ ctrs[k] = Devices(annotation[k])

(* Which pods take the process down when the scheduler wrote their         *)
(* annotation: Ascend pods with a device on some containers only, and MLU  *)
(* pods with more containers than one; of the other vendors, none.         *)
PanicsOnGapsOnly ==
    /\ vendor # "mlu" /\ WellFormed /\ pc \in {"done", "panic"}
          => (pc = "panic" <=> vendor = "ascend" /\ Uneven)
    /\ vendor = "mlu" /\ mluFields >= 6 /\ pc \in {"done", "panic"}
          => (pc = "panic" <=> ctrCount > 1)

-----------------------------------------------------------------------------
(* The parts of the inductive invariants behind these.                     *)

(* How far the loops are.                                                  *)
Progress ==
    /\ IF vendor = "mlu" THEN Len(annotation) = 1 ELSE Len(annotation) <= MaxSegs
    /\ pc = "decode" => /\ i <= Len(annotation) + 1 /\ Len(entries) < i
                        /\ vendor \in PerContainer => i <= ctrCount + 1
                        /\ ctrs = <<>>
    /\ pc = "build" => i <= ctrCount + 1 /\ Len(ctrs) = i - 1
    /\ pc = "done" /\ ctrs # <<>> => Len(ctrs) = ctrCount

(* Container k has been given entry k.                                     *)
Copied == \A k \in DOMAIN ctrs : k <= Len(entries) /\ ctrs[k] = entries[k]

(* The containers whose segments have been gone through; a decoder that    *)
(* found an entry for each of them has skipped none of their segments.     *)
Reached == IF pc = "decode" /\ i <= ctrCount THEN i - 1 ELSE ctrCount
Numbered ==
    vendor # "mlu" /\ NothingPast =>
        /\ Len(entries) <= Reached /\ Len(entries) <= Len(annotation)
        /\ Len(entries) = Reached =>
              \A k \in DOMAIN entries : entries[k] = Devices(annotation[k])

(* With a well-formed annotation a decoder has found an entry for every    *)
(* container it reached, Ascend's for those with devices; what is left of  *)
(* the pod is right for the containers that have been built.               *)
Tallied ==
    vendor # "mlu" /\ WellFormed =>
        /\ pc \in {"decode", "build"} =>
              /\ Len(entries) <= Reached
              /\ Len(entries) = Reached <=>
                    vendor \in PerContainer \/ \A k \in 1..Reached : annotation[k] # <<>>
              /\ vendor = "ascend" =>
                    (entries = <<>> <=> \A k \in 1..Reached : annotation[k] = <<>>)
              /\ pc = "build" => entries # <<>> /\ i <= Len(entries) + 1
        /\ pc \in {"done", "panic"} => (pc = "panic" <=> vendor = "ascend" /\ Uneven)

(* The one entry of an MLU pod goes to its first container.                *)
SingleEntry ==
    vendor = "mlu" /\ mluFields >= 6 =>
        /\ pc = "decode" => Len(entries) = i - 1
        /\ pc = "build" => Len(entries) = 1 /\ i <= 2
        /\ pc \in {"done", "panic"} => (pc = "panic" <=> ctrCount > 1)

=============================================================================
