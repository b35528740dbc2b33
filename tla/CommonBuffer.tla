---------------------------- MODULE CommonBuffer ----------------------------
(***************************************************************************)
(* src/src/network/common_buffer.c between its two users: the download     *)
(* task checks the free count and pushes (http_download_process.c 557-616),*)
(* the decoder's input callback checks the count and pops                  *)
(* (audio_player_process.c 393-427).  The counts are read without the      *)
(* mutex, so they may be seen in the middle of a push or a pop: an action  *)
(* is one iteration of the loop of common_buffer_push or _pop.             *)
(*                                                                         *)
(* An operator marked MUTATION is a faulty variant of the one after it.    *)
(***************************************************************************)
EXTENDS Integers, Sequences, SequencesExt

CONSTANTS NodeSize,     \* com_buffer->node_size
          MaxSize,      \* com_buffer->max_size
          NumBytes,     \* bound: pushed bytes are numbered modulo NumBytes
          MaxChunk      \* bound: bytes in one push or asked for in one pop

ASSUME SizesAssumption == NodeSize \in Nat \ {0} /\ MaxSize \in Nat \ {0}
ASSUME BoundAssumption == NumBytes \in Nat /\ NumBytes > MaxSize /\ MaxChunk \in 1..MaxSize

Index == 0..NodeSize - 1
Bytes == 0..NumBytes - 1

VARIABLES nodes,        \* the nodes from head to tail
          tail,         \* com_buffer->tail is not NULL
          count,        \* com_buffer->count
          mutex,        \* who holds com_buffer->mutex: "push", "pop" or "none"
          push,         \* the producer: its place and the locals of its push
          pop,          \* the consumer: its place and the locals of its pop
          next,         \* the number of the next byte that is downloaded
          last          \* the bytes the last iteration of a pop delivered

vars == <<nodes, tail, count, mutex, push, pop, next, last>>

Nodes == [buffer : [Index -> Bytes], beg : Index, end : Index, count : 0..NodeSize]
NoPush == [pc |-> "idle", size |-> 0, pos |-> 0, ret |-> "SUCCESS"]
NoPop  == [pc |-> "idle", seen |-> 0, asked |-> 0, size |-> 0, pos |-> 0, ret |-> "SUCCESS"]

Init ==
  /\ nodes = <<>> /\ tail = FALSE
  /\ count = 0
  /\ mutex = "none"
  /\ push = NoPush /\ pop = NoPop
  /\ next = 0
  /\ last = <<>>

Least(a, b) == IF a < b THEN a ELSE b

-----------------------------------------------------------------------------
(* One node, used as a ring *)

NewNode == [buffer |-> [k \in Index |-> 0], beg |-> 0, end |-> 0, count |-> 0]

\* The bytes of a node in their order.
Content(node) ==
  [k \in 1..node.count |-> node.buffer[(node.beg + k - 1) % NodeSize]]

\* How many of n bytes go into a node.
Room(node, n) == Least(n, NodeSize - node.count)

\* common_buffer_push_node: the next n bytes of the stream go in at end.
PushNode(node, n) ==
  LET offset(k) == (k - node.end) % NodeSize
  IN  [node EXCEPT
         !.buffer = [k \in Index |-> IF offset(k) < n THEN (next + offset(k)) % NumBytes
                                     ELSE node.buffer[k]],
         !.end = (@ + n) % NodeSize,
         !.count = @ + n]

\* MUTATION (FifoSpec): beg is not wrapped but reset when the end is reached.
PopNodeResets(node, n) == [node EXCEPT !.beg = IF @ + n >= NodeSize THEN 0 ELSE @ + n,
                                       !.count = @ - n]

\* common_buffer_pop_node: n bytes are taken at beg.
PopNode(node, n) == [node EXCEPT !.beg = (@ + n) % NodeSize, !.count = @ - n]

-----------------------------------------------------------------------------
(* The producer: http_download_wait_free, http_download_proc_push_data *)

\* common_buffer_get_free_count, read without the mutex
Fits(n) == MaxSize - count >= n

CheckFree(n) ==
  /\ push.pc = "idle"
  /\ Fits(n)
  /\ push' = [NoPush EXCEPT !.pc = "lock", !.size = n]
  /\ UNCHANGED <<nodes, tail, count, mutex, pop, next, last>>

PushLock ==
  /\ push.pc = "lock"
  /\ mutex = "none"
  /\ IF push.size > MaxSize - count
     THEN /\ push' = [push EXCEPT !.pc = "done", !.ret = "ERR_SIZE"]
          /\ UNCHANGED mutex
     ELSE push' = [push EXCEPT !.pc = "loop"] /\ mutex' = "push"
  /\ UNCHANGED <<nodes, tail, count, pop, next, last>>

\* Without a tail, or behind a full one, a node is created first; the push ends
\* half done when there is no memory for it.
NeedsNode == IF tail THEN nodes[Len(nodes)].count >= NodeSize ELSE TRUE

PushPass ==
  /\ push.pc = "loop"
  /\ push.pos < push.size
  /\ LET list == IF NeedsNode THEN Append(nodes, NewNode) ELSE nodes
         n    == Room(list[Len(list)], push.size - push.pos)
     IN  /\ nodes' = [list EXCEPT ![Len(list)] = PushNode(@, n)]
         /\ push' = [push EXCEPT !.pos = @ + n]
         /\ count' = count + n
         /\ next' = (next + n) % NumBytes
  /\ tail' = TRUE
  /\ UNCHANGED <<mutex, pop, last>>

PushNoMemory ==
  /\ push.pc = "loop"
  /\ push.pos < push.size
  /\ NeedsNode
  /\ push' = [push EXCEPT !.pc = "done", !.ret = "ERR_MALLOC"]
  /\ mutex' = "none"
  /\ UNCHANGED <<nodes, tail, count, pop, next, last>>

PushUnlock ==
  /\ push.pc = "loop"
  /\ push.pos = push.size
  /\ push' = [push EXCEPT !.pc = "done"]
  /\ mutex' = "none"
  /\ UNCHANGED <<nodes, tail, count, pop, next, last>>

PushReturn ==
  /\ push.pc = "done"
  /\ push' = NoPush
  /\ UNCHANGED <<nodes, tail, count, mutex, pop, next, last>>

-----------------------------------------------------------------------------
(* The consumer: __player_input_callback, http_download_wait_buffer *)

\* common_buffer_get_count, read without the mutex; then the pop.
SeeCount(n) ==
  /\ pop.pc = "idle"
  /\ pop' = [NoPop EXCEPT !.pc = "lock", !.seen = count, !.asked = n]
  /\ UNCHANGED <<nodes, tail, count, mutex, push, next, last>>

PopLock ==
  /\ pop.pc = "lock"
  /\ mutex = "none"
  /\ LET n == Least(pop.asked, count)
     IN  IF nodes = <<>>
         THEN /\ pop' = [pop EXCEPT !.pc = "done", !.size = n, !.ret = "ERR_EMPTY"]
              /\ UNCHANGED mutex
         ELSE pop' = [pop EXCEPT !.pc = "loop", !.size = n] /\ mutex' = "pop"
  /\ UNCHANGED <<nodes, tail, count, push, next, last>>

\* MUTATION (ListSound): tail keeps pointing to the node that is destroyed.
PopPassKeepsTail ==
  /\ pop.pc = "loop"
  /\ pop.pos < pop.size
  /\ nodes # <<>>
  /\ LET n    == Least(pop.size - pop.pos, Head(nodes).count)
         node == PopNode(Head(nodes), n)
     IN  /\ last' = SubSeq(Content(Head(nodes)), 1, n)
         /\ nodes' = IF node.count = 0 THEN Tail(nodes) ELSE <<node>> \o Tail(nodes)
         /\ count' = count - n
         /\ pop' = [pop EXCEPT !.pos = @ + n]
  /\ UNCHANGED <<tail, mutex, push, next>>

\* Bytes come from the head, which is destroyed once it is empty.
PopPass ==
  /\ pop.pc = "loop"
  /\ pop.pos < pop.size
  /\ nodes # <<>>
  /\ LET n    == Least(pop.size - pop.pos, Head(nodes).count)
         node == PopNode(Head(nodes), n)
     IN  /\ last' = SubSeq(Content(Head(nodes)), 1, n)
         /\ nodes' = IF node.count = 0 THEN Tail(nodes) ELSE <<node>> \o Tail(nodes)
         /\ tail' = (nodes' # <<>>)
         /\ count' = count - n
         /\ pop' = [pop EXCEPT !.pos = @ + n]
  /\ UNCHANGED <<mutex, push, next>>

\* MUTATION (SizesKept): the loop ends with its first node.
PopUnlockEarly ==
  /\ pop.pc = "loop"
  /\ pop.pos > 0 \/ pop.size = 0 \/ nodes = <<>>
  /\ pop' = [pop EXCEPT !.pc = "done"]
  /\ mutex' = "none"
  /\ UNCHANGED <<nodes, tail, count, push, next, last>>

\* The loop is over, or has run out of nodes; *p_size is size in both cases.
PopUnlock ==
  /\ pop.pc = "loop"
  /\ pop.pos = pop.size \/ nodes = <<>>
  /\ pop' = [pop EXCEPT !.pc = "done",
                        !.ret = IF pop.pos = pop.size THEN @ ELSE "ERR_EMPTY"]
  /\ mutex' = "none"
  /\ UNCHANGED <<nodes, tail, count, push, next, last>>

PopReturn ==
  /\ pop.pc = "done"
  /\ pop' = NoPop
  /\ UNCHANGED <<nodes, tail, count, mutex, push, next, last>>

\* common_buffer_clear: audio_player_proc_stop, when both threads are gone.
Clear ==
  /\ push.pc = "idle" /\ pop.pc = "idle"
  /\ nodes' = <<>> /\ tail' = FALSE /\ count' = 0
  /\ UNCHANGED <<mutex, push, pop, next, last>>

Next ==
  \/ \E n \in 1..MaxChunk : CheckFree(n) \/ SeeCount(n)
  \/ PushLock \/ PushPass \/ PushNoMemory \/ PushUnlock \/ PushReturn
  \/ PopLock \/ PopPass \/ PopUnlock \/ PopReturn
  \/ Clear

Spec == Init /\ [][Next]_vars

-----------------------------------------------------------------------------
(* Properties *)

TypeOK ==
  /\ nodes \in Seq(Nodes)
  /\ tail \in BOOLEAN
  /\ count \in 0..MaxSize
  /\ mutex \in {"none", "push", "pop"}
  /\ push \in [pc : {"idle", "lock", "loop", "done"}, size : 0..MaxSize, pos : 0..MaxSize,
               ret : {"SUCCESS", "ERR_SIZE", "ERR_MALLOC"}]
  /\ pop \in [pc : {"idle", "lock", "loop", "done"}, seen : 0..MaxSize, asked : 0..MaxSize,
              size : 0..MaxSize, pos : 0..MaxSize, ret : {"SUCCESS", "ERR_EMPTY"}]
  /\ next \in Bytes
  /\ last \in Seq(Bytes)

Stored == FlattenSeq([k \in 1..Len(nodes) |-> Content(nodes[k])])

\* The list is sound whenever the counts are read: count is the number of bytes
\* in the nodes, tail is NULL just when the list is empty, no node is empty,
\* only the head has been popped from and only the tail and the head have room
\* (lines 159-182 and 208-233).
ListSound ==
  /\ TypeOK
  /\ count = Len(Stored)
  /\ tail <=> nodes # <<>>
  /\ \A k \in 1..Len(nodes) : nodes[k].count > 0
  /\ \A k \in 2..Len(nodes) : nodes[k].beg = 0
  /\ \A k \in 2..Len(nodes) - 1 : nodes[k].count = NodeSize

\* After http_download_wait_free the push is never refused for its size, though
\* the free count was read before the mutex was taken: only a failing malloc can
\* cut it short (http_download_process.c 562-568 ignores its result).
PushFits == push.ret # "ERR_SIZE"

\* A pop returns as many bytes as were asked for or seen, whichever is less, and
\* *p_size is what it has copied.
PopExact ==
  pop.pc = "done" => pop.pos = pop.size /\ pop.size >= Least(pop.asked, pop.seen)

\* What was looked at before the mutex was taken still holds under it.
SizesKept == PushFits /\ PopExact

Fifo == INSTANCE ByteFifo WITH stored <- Stored, Capacity <- MaxSize

\* Across nodes and around each node bytes come out as they went in.
FifoSpec == Fifo!Spec
=============================================================================
