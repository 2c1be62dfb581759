------------------------- MODULE ActivationOffload -------------------------
(***************************************************************************)
(* AsyncDoubleBufferGroupOffloadHandler (src/verl/utils/                   *)
(* activation_offload.py): what a layer saves for its backward pass is     *)
(* copied to the host while the next layers run and copied back ahead of   *)
(* its use.  The host only queues work: the compute, d2h and h2d streams   *)
(* run it later, each in its own order and held back by the waits alone.   *)
(* A group is what one layer saves.                                        *)
(***************************************************************************)
EXTENDS Integers, Sequences, FiniteSets

CONSTANTS
  NumLayers,      \* layers wrapped by enable_activation_offloading
  MicroBatches,   \* bound: micro-batches
  ComputeSlots,   \* blocks of device memory the compute stream allocates from
  ReloadSlots,    \* those the h2d stream allocates from
  NoSlot, OnHost, Nothing

ASSUME OffloadAssumption ==
  /\ NumLayers \in Nat /\ NumLayers >= 3 /\ MicroBatches \in Nat \ {0}
  /\ ComputeSlots \cap ReloadSlots = {}
  /\ {NoSlot, OnHost} \cap (ComputeSlots \cup ReloadSlots) = {} /\ NoSlot # OnHost

VARIABLES
  pc_host,        \* what the host does next
  micro,          \* the micro-batch under way
  layer,          \* the layer it is at
  current_group,
  offloaded_group_count,
  state,          \* tensor_tag_to_state: where the tensors of a group are
  buf,            \* tensor_tag_to_buf: the block kept until it is copied
  offloaded,      \* the groups of group_offload_mapping
  queue,          \* work queued on each stream
  finished,       \* work each stream has finished
  content,        \* what each block of device memory holds
  host            \* what the host's copy of a group holds

book == <<current_group, offloaded_group_count, state, buf, offloaded>>
device == <<finished, content, host>>
offload == <<pc_host, micro, layer, book, queue, device>>

Groups == 0..(NumLayers - 1)
\* enable_activation_offloading passes len(layers) - 1: the last layer's
\* tensors are needed at once.
num_offload_group == NumLayers - 1
Offloadable == 0..(num_offload_group - 1)
Slots == ComputeSlots \cup ReloadSlots
Device == {"compute", "d2h", "h2d"}

\* The layer after which a group has been copied and the next one follows.
\* (Faulty variant: a layer later.)
WindowLate(i) == i + 2
Window(i) ==
  LET more == NumLayers % num_offload_group
  IN  (NumLayers \div num_offload_group) * (i + 1) - 1 + (IF i < more THEN i + 1 ELSE more)

OffloadInit ==
  /\ pc_host = "forward" /\ micro = 1 /\ layer = 0
  /\ current_group = 0 /\ offloaded_group_count = 0
  /\ state = [g \in Groups |-> NoSlot] /\ buf = [g \in Groups |-> NoSlot]
  /\ offloaded = {}
  /\ queue = [d \in Device |-> <<>>] /\ finished = [d \in Device |-> 0]
  /\ content = [s \in Slots |-> Nothing] /\ host = [g \in Groups |-> Nothing]

(* Queued work *)

Write(s, v) == [op |-> "write", slot |-> s, value |-> v]
Read(s, v) == [op |-> "read", slot |-> s, value |-> v]
Save(s, g) == [op |-> "save", slot |-> s, group |-> g]
Load(s, g) == [op |-> "load", slot |-> s, group |-> g]

Queued(q, d, work) == [q EXCEPT ![d] = Append(@, work)]
\* d.wait_stream(e): what is queued on d from now on waits for what is on e now.
WaitFor(q, d, e) == Queued(q, d, [op |-> "wait", on |-> e, upto |-> finished[e] + Len(q[e])])

\* Device memory nobody refers to any more is given out again at once, although the
\* work on it may still be queued.
Live == {s \in Slots : \E g \in Groups : state[g] = s \/ buf[g] = s}
Own == <<micro, layer>>

(* Forward *)

\* A layer runs, and tensor_push.
ForwardLayer ==
  /\ pc_host = "forward"
  /\ \E s \in ComputeSlots \ Live :
       /\ queue' = Queued(queue, "compute", Write(s, Own))
       /\ state' = [state EXCEPT ![current_group] = s]
       /\ buf' = IF current_group < num_offload_group THEN [buf EXCEPT ![current_group] = s] ELSE buf
  /\ pc_host' = "commit"
  /\ UNCHANGED <<micro, layer, current_group, offloaded_group_count, offloaded, device>>

\* bulk_offload_group.
Offload(q, g) == Queued(q, "d2h", Save(state[g], g))

\* on_group_commit_forward.
AtWindow == Window(offloaded_group_count) = current_group
Kickstart(q) == IF current_group = 0 THEN Offload(WaitFor(q, "d2h", "compute"), 0) ELSE q
Meet(q) == WaitFor(WaitFor(q, "d2h", "compute"), "compute", "d2h")
NextGroups ==
  (IF current_group = 0 THEN {0} ELSE {})
  \cup (IF AtWindow /\ offloaded_group_count < num_offload_group - 1
        THEN {offloaded_group_count + 1} ELSE {})

CommitForward ==
  /\ pc_host = "commit"
  /\ LET q == Kickstart(queue)
         next == offloaded_group_count + 1
     IN  queue' = IF ~AtWindow THEN q
                  ELSE IF next \in NextGroups THEN Offload(Meet(q), next) ELSE Meet(q)
  /\ state' = [g \in Groups |-> IF g \in NextGroups THEN OnHost ELSE state[g]]
  /\ offloaded' = offloaded \cup NextGroups
  /\ IF AtWindow
     THEN /\ buf' = [buf EXCEPT ![offloaded_group_count] = NoSlot]
          /\ offloaded_group_count' = offloaded_group_count + 1
     ELSE UNCHANGED <<buf, offloaded_group_count>>
  /\ current_group' = current_group + 1
  /\ IF layer = NumLayers - 1
     THEN pc_host' = "reload" /\ layer' = layer
     ELSE pc_host' = "forward" /\ layer' = layer + 1
  /\ UNCHANGED <<micro, device>>

(* Backward *)

\* on_group_commit_backward, with bulk_reload_group.
Reloads(group) == Window(offloaded_group_count - 1) = group
\* (Faulty variant: the layer does not wait for the copy begun a layer earlier.)
BeforeReloadUnwaited(q) == WaitFor(q, "h2d", "compute")
BeforeReload(q) == WaitFor(WaitFor(q, "h2d", "compute"), "compute", "h2d")
AfterReload(q, group) == IF group = 0 THEN WaitFor(q, "compute", "h2d") ELSE q

CommitBackward ==
  /\ pc_host = "reload"
  /\ current_group' = current_group - 1
  /\ LET group == current_group - 1
         g == offloaded_group_count - 1
     IN  IF Reloads(group)
         THEN /\ g \in offloaded
              /\ \E s \in ReloadSlots \ Live :
                   /\ queue' = AfterReload(Queued(BeforeReload(queue), "h2d", Load(s, g)), group)
                   /\ state' = [state EXCEPT ![g] = s]
              /\ offloaded' = offloaded \ {g}
              /\ offloaded_group_count' =
                   IF group = 0 THEN 0
                   ELSE IF offloaded_group_count > 1 THEN offloaded_group_count - 1
                   ELSE offloaded_group_count
         ELSE /\ queue' = AfterReload(queue, group)
              /\ offloaded_group_count' = IF group = 0 THEN 0 ELSE offloaded_group_count
              /\ UNCHANGED <<state, offloaded>>
  /\ pc_host' = "backward"
  /\ UNCHANGED <<micro, layer, buf, device>>

\* tensor_pop, and the backward pass of the layer, whose tensors are then dropped.
BackwardLayer ==
  /\ pc_host = "backward"
  /\ state[current_group] \in Slots
  /\ queue' = Queued(queue, "compute", Read(state[current_group], Own))
  /\ state' = [state EXCEPT ![current_group] = NoSlot]
  /\ buf' = [buf EXCEPT ![current_group] = NoSlot]
  /\ IF layer > 0
     THEN pc_host' = "reload" /\ layer' = layer - 1 /\ micro' = micro
     ELSE IF micro < MicroBatches
          THEN pc_host' = "forward" /\ layer' = 0 /\ micro' = micro + 1
          ELSE pc_host' = "done" /\ UNCHANGED <<layer, micro>>
  /\ UNCHANGED <<current_group, offloaded_group_count, offloaded, device>>

(* The device *)

\* The first work of a stream is carried out.
Execute(d) ==
  /\ queue[d] # <<>>
  /\ LET work == Head(queue[d]) IN
       /\ work.op = "wait" => finished[work.on] >= work.upto
       /\ content' = CASE work.op = "write" -> [content EXCEPT ![work.slot] = work.value]
                       [] work.op = "load" -> [content EXCEPT ![work.slot] = host[work.group]]
                       [] OTHER -> content
       /\ host' = IF work.op = "save" THEN [host EXCEPT ![work.group] = content[work.slot]] ELSE host
  /\ queue' = [queue EXCEPT ![d] = Tail(@)]
  /\ finished' = [finished EXCEPT ![d] = @ + 1]
  /\ UNCHANGED <<pc_host, micro, layer, book>>

Drained == pc_host = "done" /\ (\A d \in Device : queue[d] = <<>>) /\ UNCHANGED offload

OffloadNext ==
  \/ ForwardLayer \/ CommitForward \/ CommitBackward \/ BackwardLayer \/ Drained
  \/ \E d \in Device : Execute(d)

OffloadSpec == OffloadInit /\ [][OffloadNext]_offload

(* Properties *)

\* Whenever a layer's backward pass may start on the device, the block it was given
\* holds what that layer saved in this micro-batch: it has been copied back in time,
\* the copy was made from finished values, and the block was given to nobody else
\* while work on it was queued.
ReadsOwnActivation ==
  queue["compute"] # <<>> =>
    LET work == Head(queue["compute"])
    IN  work.op = "read" => content[work.slot] = work.value

\* "there are at most two activation groups in GPU memory"
\* (enable_activation_offloading), in the forward and in the backward pass.
AtMostTwoGroups == Cardinality(Live) <= 2
=============================================================================
