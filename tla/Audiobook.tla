----------------------------- MODULE Audiobook ------------------------------
(***************************************************************************)
(* What narrating promises whoever listens: a file that can be played is a *)
(* whole reading.  It is never taken away, and only a reading that is not  *)
(* older replaces it, at once.                                             *)
(***************************************************************************)
EXTENDS Naturals

CONSTANTS
    Files,          \* the files of the digests
    Versions,       \* of the summaries that are read out, as numbers
    NONE

VARIABLE audio      \* audio[f]: the reading that can be played, NONE before the first

Reading(v) == [whole |-> TRUE, said |-> v]

Init == audio = [f \in Files |-> NONE]

Publish(f, v) ==
    /\ audio[f] # NONE => audio[f].said <= v
    /\ audio' = [audio EXCEPT ![f] = Reading(v)]

Next == \E f \in Files, v \in Versions : Publish(f, v)

Spec == Init /\ [][Next]_audio
=============================================================================
