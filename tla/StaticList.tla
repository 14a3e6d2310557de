----------------------------- MODULE StaticList -----------------------------
(***************************************************************************)
(* The StaticList of summerrpc/helper/list.py: a linked list inside an     *)
(* array of nodes, whose unused nodes form a second list, the space.  It   *)
(* is the queue of pending writes of a connection; the methods it has are  *)
(* insert_left and pop_left, so it is a bounded stack, module BoundedStack.*)
(***************************************************************************)
EXTENDS Integers, Sequences

CONSTANTS Elements, \* what callers insert
          MaxSize   \* max_size of __init__

ASSUME StaticListAssumption == MaxSize \in Nat \ {0}

Nil   == -1                  \* "no node" in a next field
Nodes == 0..(MaxSize - 1)

VARIABLES element, \* element of each node, "unset" before its first use
          next,    \* next of each node
          head,    \* _head.next
          space,   \* _space.next
          size,    \* _current_size
          raised   \* the exception of the last call

listVars == <<element, next, head, space, size, raised>>

ListInit ==
    /\ element = [n \in Nodes |-> "unset"]
    /\ next = [n \in Nodes |-> IF n = MaxSize - 1 THEN Nil ELSE n + 1]
    /\ head = Nil
    /\ space = 0
    /\ size = 0
    /\ raised = "none"

\* insert_left takes the first node of the space.
InsertLeft(e) ==
    \/ /\ space = Nil
       /\ raised' = "ListFullError"
       /\ UNCHANGED <<element, next, head, space, size>>
    \/ /\ space # Nil
       /\ element' = [element EXCEPT ![space] = e]
       /\ next' = [next EXCEPT ![space] = head]
       /\ head' = space
       /\ space' = next[space]
       /\ size' = size + 1
       /\ raised' = "none"

PopLeft_NotRecycled ==
    /\ size > 0
    /\ head' = next[head]
    /\ size' = size - 1
    /\ raised' = "none"
    /\ UNCHANGED <<element, next, space>>

PopLeft_SpaceFirst ==
    /\ size > 0
    /\ next' = [next EXCEPT ![head] = space]
    /\ space' = head
    /\ head' = next'[head]
    /\ size' = size - 1
    /\ raised' = "none"
    /\ UNCHANGED element

\* pop_left gives the node back to the space.
PopLeft ==
    \/ /\ size <= 0
       /\ raised' = "ListEmptyError"
       /\ UNCHANGED <<element, next, head, space, size>>
    \/ /\ size > 0
       /\ head' = next[head]
       /\ size' = size - 1
       /\ next' = [next EXCEPT ![head] = space]
       /\ space' = head
       /\ raised' = "none"
       /\ UNCHANGED element

ListNext == PopLeft \/ \E e \in Elements : InsertLeft(e)

\* is_full asks whether _space.next is None.  None is no index: -2 stands for
\* it, a value no next field is ever given.
None   == -2
IsFull == space = None

-----------------------------------------------------------------------------
\* The nodes met from a given one, as many as asked for; past the end, Nil.
Walk(first, length) ==
    LET node[k \in 1..length] ==
            IF k = 1 THEN first
            ELSE IF node[k - 1] = Nil THEN Nil ELSE next[node[k - 1]]
    IN  node

Used == Walk(head, size)
Free == Walk(space, MaxSize - size)

\* Every node is either in the list or in the space, once, and both chains end
\* where the counter says: no call loses a node or links one twice.
NodesPartitioned ==
    /\ size \in 0..MaxSize
    /\ \A n \in Nodes : \/ n \in {Used[i] : i \in 1..size}
                        \/ n \in {Free[i] : i \in 1..(MaxSize - size)}
    /\ Walk(head, size + 1)[size + 1] = Nil
    /\ Walk(space, MaxSize - size + 1)[MaxSize - size + 1] = Nil

\* The list is the bounded stack its callers take it for: what is popped is the
\* last element inserted, and only a full or an empty list raises.
Content == [i \in 1..size |-> element[Used[i]]]
Stack == INSTANCE BoundedStack WITH content <- Content
ImplementsStack == Stack!Spec

\* connection.py:107 relies on is_full to refuse a write when there is no room.
FullWhenNoRoom == size = MaxSize => IsFull
=============================================================================
