---------------------------- MODULE AtomicUpdate ----------------------------
(***************************************************************************)
(* What update_doc promises about one document: each change of it is one   *)
(* caller's change to what the document says at that moment.               *)
(***************************************************************************)
EXTENDS Naturals

CONSTANT Calls      \* calls of update_doc, each with a change of its own

VARIABLE content    \* content[c]: how often c's change is in the document

Init == content = [c \in Calls |-> 0]

Change(c) == content' = [content EXCEPT ![c] = @ + 1]

Next == \E c \in Calls : Change(c)

Spec == Init /\ [][Next]_content
=============================================================================
