---------------------------- MODULE BoundedStack ----------------------------
(***************************************************************************)
(* A stack of at most MaxSize elements; a call that cannot be served       *)
(* raises and changes nothing.  StaticList implements it.                  *)
(***************************************************************************)
EXTENDS Naturals, Sequences

CONSTANTS Elements, MaxSize

VARIABLES content, raised

vars == <<content, raised>>

Init == content = <<>> /\ raised = "none"

Push(e) ==
    IF Len(content) = MaxSize
    THEN raised' = "ListFullError" /\ UNCHANGED content
    ELSE raised' = "none" /\ content' = <<e>> \o content

Pop ==
    IF content = <<>>
    THEN raised' = "ListEmptyError" /\ UNCHANGED content
    ELSE raised' = "none" /\ content' = Tail(content)

Next == Pop \/ \E e \in Elements : Push(e)

Spec == Init /\ [][Next]_vars
=============================================================================
