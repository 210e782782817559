---------------------------- MODULE DigestLedger ----------------------------
(***************************************************************************)
(* What the weekly digest promises whoever reads it: first an episode is   *)
(* in a week's file, then the week's document names it, then the week      *)
(* claims it, so that no later digest takes it.  What a file lists it      *)
(* keeps, and a claim is never handed on: somebody clears it in between.   *)
(***************************************************************************)
CONSTANTS Episodes, Weeks, NONE

VARIABLES
    files,      \* files[e]: the weeks whose files list e
    named,      \* named[w]: the episodes that the document of w names
    claims      \* claims[e]: the week that has claimed e, NONE without one

Init ==
    /\ files = [e \in Episodes |-> {}]
    /\ named = [w \in Weeks |-> {}]
    /\ claims = [e \in Episodes |-> NONE]

File(w, S) ==
    /\ files' = [e \in Episodes |-> IF e \in S THEN files[e] \cup {w} ELSE files[e]]
    /\ UNCHANGED <<named, claims>>

Document(w, S) ==
    /\ \A e \in S : w \in files[e]
    /\ named' = [named EXCEPT ![w] = S]
    /\ UNCHANGED <<files, claims>>

Claim(e, w) ==
    /\ claims[e] = NONE /\ e \in named[w]
    /\ claims' = [claims EXCEPT ![e] = w]
    /\ UNCHANGED <<files, named>>

Clear(S) ==
    /\ claims' = [e \in Episodes |-> IF e \in S THEN NONE ELSE claims[e]]
    /\ UNCHANGED <<files, named>>

Next ==
    \/ \E w \in Weeks, S \in SUBSET Episodes : File(w, S) \/ Document(w, S)
    \/ \E e \in Episodes, w \in Weeks : Claim(e, w)
    \/ \E S \in SUBSET Episodes : Clear(S)

Spec == Init /\ [][Next]_<<files, named, claims>>
=============================================================================
