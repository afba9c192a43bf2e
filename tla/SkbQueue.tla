------------------------------ MODULE SkbQueue ------------------------------
(***************************************************************************)
(* A socket's receive queue as the memory sees it: skb_queue_tail and      *)
(* skb_dequeue of core/skbuff.c on the doubly linked list of a             *)
(* struct sk_buff_head, called by the receive loop (sock_queue_rcv_skb)    *)
(* and by the threads that block in skb_recv_datagram.  The list is        *)
(* circular and the head is a node of it.  There is no lock, so every      *)
(* load and store of a link is a step of its own, in the order the         *)
(* unoptimised build performs them: a chained assignment a = b->x = v      *)
(* stores b->x and then loads it again for a.                              *)
(***************************************************************************)
EXTENDS Naturals, Sequences

CONSTANTS Skbs,       \* packets
          List,       \* the list head
          Rx,         \* the receive loop, which appends
          Receivers,  \* application threads, which take
          NULL

ASSUME NodesAssumption == List \notin Skbs /\ NULL \notin Skbs \cup {List}
ASSUME ThreadsAssumption == Rx \notin Receivers

Nodes == Skbs \cup {List}
Threads == Receivers \cup {Rx}

VARIABLES
  next, prev,   \* the links of every node
  pc,           \* where each thread stands
  a, b,         \* its locals: prev and the value reloaded (append),
                \* next and the value reloaded (take)
  cur,          \* newsk or result
  arrived,      \* packets passed to sock_queue_rcv_skb, in order
  got,          \* packets skb_recv_datagram returned, in order
  overlapped,   \* some operation has begun while another was under way
  contended     \* some receiver has begun to take while another one was

links == <<next, prev>>
vars == <<next, prev, pc, a, b, cur, arrived, got, overlapped, contended>>

Init ==
  /\ next = [n \in Nodes |-> IF n = List THEN List ELSE NULL]
  /\ prev = [n \in Nodes |-> IF n = List THEN List ELSE NULL]
  /\ pc = [t \in Threads |-> "idle"]
  /\ a = [t \in Threads |-> NULL]
  /\ b = [t \in Threads |-> NULL]
  /\ cur = [t \in Threads |-> NULL]
  /\ arrived = <<>>
  /\ got = <<>>
  /\ overlapped = FALSE
  /\ contended = FALSE

Quiet == \A t \in Threads : pc[t] = "idle"

Jump(t, l) == pc' = [pc EXCEPT ![t] = l]

\* Local and ghost state that only the first and the last step of an operation change.
Inside == UNCHANGED <<cur, arrived, got, overlapped, contended>>

-----------------------------------------------------------------------------
(* skb_queue_tail(list, newsk) *)

Append0(s) ==                          \* prev = list->prev
  /\ pc[Rx] = "idle"
  /\ \A i \in DOMAIN arrived : arrived[i] # s
  /\ cur' = [cur EXCEPT ![Rx] = s]
  /\ arrived' = Append(arrived, s)
  /\ a' = [a EXCEPT ![Rx] = prev[List]]
  /\ overlapped' = (overlapped \/ ~ Quiet)
  /\ Jump(Rx, "append1")
  /\ UNCHANGED <<links, b, got, contended>>

Append1 ==                             \* prev->next = newsk
  /\ pc[Rx] = "append1"
  /\ a[Rx] # NULL
  /\ next' = [next EXCEPT ![a[Rx]] = cur[Rx]]
  /\ Jump(Rx, "append2")
  /\ UNCHANGED <<prev, a, b>> /\ Inside

Append2 ==                             \* load prev->next
  /\ pc[Rx] = "append2"
  /\ b' = [b EXCEPT ![Rx] = next[a[Rx]]]
  /\ Jump(Rx, "append3")
  /\ UNCHANGED <<links, a>> /\ Inside

Append3 ==                             \* list->prev = the value loaded
  /\ pc[Rx] = "append3"
  /\ prev' = [prev EXCEPT ![List] = b[Rx]]
  /\ Jump(Rx, "append4")
  /\ UNCHANGED <<next, a, b>> /\ Inside

\* Mutant: newsk->prev is not set.
Append4_NoPrev ==
  /\ pc[Rx] = "append4"
  /\ Jump(Rx, "append5")
  /\ UNCHANGED <<links, a, b>> /\ Inside

Append4 ==                             \* newsk->prev = prev
  /\ pc[Rx] = "append4"
  /\ prev' = [prev EXCEPT ![cur[Rx]] = a[Rx]]
  /\ Jump(Rx, "append5")
  /\ UNCHANGED <<next, a, b>> /\ Inside

Append5 ==                             \* newsk->next = list
  /\ pc[Rx] = "append5"
  /\ next' = [next EXCEPT ![cur[Rx]] = List]
  /\ cur' = [cur EXCEPT ![Rx] = NULL]
  /\ a' = [a EXCEPT ![Rx] = NULL]
  /\ b' = [b EXCEPT ![Rx] = NULL]
  /\ Jump(Rx, "idle")
  /\ UNCHANGED <<prev, arrived, got, overlapped, contended>>

-----------------------------------------------------------------------------
(* skb_dequeue(list), repeated by skb_recv_datagram until it yields a packet *)

\* Mutant: the test for the empty list is lost.
Take0_NoTest(t) ==
  /\ pc[t] = "idle"
  /\ cur' = [cur EXCEPT ![t] = next[List]]
  /\ overlapped' = (overlapped \/ ~ Quiet)
  /\ contended' = (contended \/ \E u \in Receivers : pc[u] # "idle")
  /\ Jump(t, "take1")
  /\ UNCHANGED <<links, a, b, arrived, got>>

Take0(t) ==                            \* next = list->next, unless it is the list
  /\ pc[t] = "idle"
  /\ next[List] # List
  /\ cur' = [cur EXCEPT ![t] = next[List]]
  /\ overlapped' = (overlapped \/ ~ Quiet)
  /\ contended' = (contended \/ \E u \in Receivers : pc[u] # "idle")
  /\ Jump(t, "take1")
  /\ UNCHANGED <<links, a, b, arrived, got>>

Take1(t) ==                            \* next = result->next
  /\ pc[t] = "take1"
  /\ cur[t] # NULL
  /\ a' = [a EXCEPT ![t] = next[cur[t]]]
  /\ Jump(t, "take2")
  /\ UNCHANGED <<links, b>> /\ Inside

Take2(t) ==                            \* next->prev = list
  /\ pc[t] = "take2"
  /\ a[t] # NULL
  /\ prev' = [prev EXCEPT ![a[t]] = List]
  /\ Jump(t, "take3")
  /\ UNCHANGED <<next, a, b>> /\ Inside

\* Mutant: list->next stays at the packet taken.
Take3_Stays(t) ==
  /\ pc[t] = "take3"
  /\ Jump(t, "take4")
  /\ UNCHANGED <<links, a, b>> /\ Inside

Take3(t) ==                            \* list->next = next
  /\ pc[t] = "take3"
  /\ next' = [next EXCEPT ![List] = a[t]]
  /\ Jump(t, "take4")
  /\ UNCHANGED <<prev, a, b>> /\ Inside

Take4(t) ==                            \* result->prev = NULL
  /\ pc[t] = "take4"
  /\ prev' = [prev EXCEPT ![cur[t]] = NULL]
  /\ Jump(t, "take5")
  /\ UNCHANGED <<next, a, b>> /\ Inside

Take5(t) ==                            \* load result->prev
  /\ pc[t] = "take5"
  /\ b' = [b EXCEPT ![t] = prev[cur[t]]]
  /\ Jump(t, "take6")
  /\ UNCHANGED <<links, a>> /\ Inside

Take6(t) ==                            \* result->next = the value loaded; return
  /\ pc[t] = "take6"
  /\ next' = [next EXCEPT ![cur[t]] = b[t]]
  /\ got' = Append(got, cur[t])
  /\ cur' = [cur EXCEPT ![t] = NULL]
  /\ a' = [a EXCEPT ![t] = NULL]
  /\ b' = [b EXCEPT ![t] = NULL]
  /\ Jump(t, "idle")
  /\ UNCHANGED <<prev, arrived, overlapped, contended>>

\* A thread about to go through a NULL pointer: the process ends here.
Faults == \/ pc[Rx] = "append1" /\ a[Rx] = NULL
          \/ \E t \in Receivers : \/ pc[t] = "take1" /\ cur[t] = NULL
                                  \/ pc[t] = "take2" /\ a[t] = NULL

Next ==
  /\ ~ Faults
  /\ \/ \E s \in Skbs : Append0(s)
     \/ Append1 \/ Append2 \/ Append3 \/ Append4 \/ Append5
     \/ \E t \in Receivers : \/ Take0(t) \/ Take1(t) \/ Take2(t) \/ Take3(t)
                             \/ Take4(t) \/ Take5(t) \/ Take6(t)

Spec == Init /\ [][Next]_vars

-----------------------------------------------------------------------------
(* Properties *)

\* Links point to nodes or are NULL, and locals hold what was loaded.
TypeOK ==
  /\ next \in [Nodes -> Nodes \cup {NULL}]
  /\ prev \in [Nodes -> Nodes \cup {NULL}]
  /\ a \in [Threads -> Nodes \cup {NULL}]
  /\ b \in [Threads -> Nodes \cup {NULL}]
  /\ cur \in [Threads -> Nodes \cup {NULL}]
  /\ arrived \in Seq(Skbs)
  /\ got \in Seq(Skbs)
  /\ overlapped \in BOOLEAN /\ contended \in BOOLEAN

Waiting == SubSeq(arrived, Len(got) + 1, Len(arrived))

\* As long as operations have not overlapped, the list is the queue: from the
\* head the next links visit the packets that arrived and were not taken, oldest
\* first, the prev links the same packets newest first, and both end at the head.
ListIsQueue ==
  Quiet /\ ~ overlapped =>
    LET n == Len(Waiting)
        node == [i \in 0 .. n + 1 |-> IF i \in 1 .. n THEN Waiting[i] ELSE List]
    IN  /\ \A i \in 1 .. Len(got) : got[i] = arrived[i]
        /\ \A i \in 0 .. n : next[node[i]] = node[i + 1] /\ prev[node[i + 1]] = node[i]

Position(s) == CHOOSE i \in DOMAIN arrived : arrived[i] = s

\* Whatever the receive loop appends meanwhile, what the receivers get has arrived
\* and they get it in the order of arrival and at most once, as long as no two of
\* them have been inside skb_dequeue together: packets may be lost, not repeated.
InOrder ==
  /\ \A i \in DOMAIN got : \E j \in DOMAIN arrived : got[i] = arrived[j]
  /\ ~ contended => \A i, j \in DOMAIN got : i < j => Position(got[i]) < Position(got[j])

\* The comment on udp_recvmsg: "if there is something there we return it".  A
\* packet whose sock_queue_rcv_skb has returned, and that nobody received, is
\* there when a receiver looks at the list.
ReturnsWhatIsThere ==
  Quiet /\ Len(got) < Len(arrived) => next[List] # List
=============================================================================
