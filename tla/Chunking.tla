------------------------------ MODULE Chunking ------------------------------
(***************************************************************************)
(* How long texts are cut: transcripts for the model's context             *)
(* (podcast_agent/summarize/chunking.py) and scripts for the speech        *)
(* server's cap (chunk_script of digest/narrate.py).                       *)
(*                                                                         *)
(* A text is a sequence of paragraphs, a paragraph a sequence of           *)
(* sentences, a sentence its length.  A piece of text is its length, the   *)
(* separators counted, and the stretches of sentences it holds; paragraphs *)
(* are joined by two characters, sentences by one.                         *)
(***************************************************************************)
EXTENDS Integers, SequencesExt

Stretch(p, s, from, to) == [p |-> p, s |-> s, from |-> from, to |-> to]

Nothing == [len |-> 0, holds |-> <<>>]

Joined(a, b, sep) ==
    IF a = Nothing THEN b ELSE [len |-> a.len + sep + b.len, holds |-> a.holds \o b.holds]

\* The sentences of paragraph p of a text, each a piece.
Sentences(text, p) ==
    [s \in DOMAIN text[p] |-> [len   |-> text[p][s],
                               holds |-> <<Stretch(p, s, 1, text[p][s])>>]]

\* The paragraph they make, sentence by sentence.
Paragraph(text, p) ==
    LET upto[n \in 0..Len(text[p])] ==
            IF n = 0 THEN Nothing ELSE Joined(upto[n - 1], Sentences(text, p)[n], 1)
    IN  upto[Len(text[p])]

\* A sentence longer than the cap, cut every cap characters.
Slices(sentence, cap) ==
    LET st == sentence.holds[1]
        n  == (sentence.len + cap - 1) \div cap
        To(i) == IF i = n THEN sentence.len ELSE i * cap
    IN  [i \in 1..n |-> [len   |-> To(i) - (i - 1) * cap,
                         holds |-> <<Stretch(st.p, st.s, (i - 1) * cap + 1, To(i))>>]]

Sliced(sentences, cap) == [s \in DOMAIN sentences |-> Slices(sentences[s], cap)]

Flush(acc) ==
    IF acc.current = Nothing THEN acc
    ELSE [out |-> Append(acc.out, acc.current), current |-> Nothing]

\* One turn of the loop all four functions share: a piece is joined to the current one if
\* that fits; over the cap, it is cut.
Packed(acc, piece, cut, cap, sep, slack) ==
    IF piece.len > cap
    THEN [out |-> Flush(acc).out \o cut, current |-> Nothing]
    ELSE IF acc.current = Nothing \/ acc.current.len + sep + piece.len + slack <= cap
    THEN [out |-> acc.out, current |-> Joined(acc.current, piece, sep)]
    ELSE [out |-> Flush(acc).out, current |-> piece]

\* The loop: cuts[i] is what pieces[i] is cut into.  The transcript's loops count a separator
\* after the last piece as well: that is their slack.
Greedy(pieces, cuts, cap, sep, slack) ==
    LET acc[n \in 0..Len(pieces)] ==
            IF n = 0 THEN [out |-> <<>>, current |-> Nothing]
            ELSE Packed(acc[n - 1], pieces[n], cuts[n], cap, sep, slack)
    IN  Flush(acc[Len(pieces)]).out

-----------------------------------------------------------------------------
(* Scripts                                                                 *)

split_piece(text, p, max_chars) ==
    IF Paragraph(text, p).len <= max_chars THEN <<Paragraph(text, p)>>
    ELSE Greedy(Sentences(text, p), Sliced(Sentences(text, p), max_chars), max_chars, 1, 0)

Parts(text, max_chars) ==
    FlattenSeq([p \in DOMAIN text |-> split_piece(text, p, max_chars)])

\* Mutant: the blank line between two parts is not counted.
chunk_script_NoSeparator(text, max_chars) ==
    LET parts == Parts(text, max_chars)
    IN  Greedy(parts, [i \in DOMAIN parts |-> <<parts[i]>>], max_chars, 2, -2)

chunk_script(text, max_chars) ==
    LET parts == Parts(text, max_chars)
    IN  Greedy(parts, [i \in DOMAIN parts |-> <<parts[i]>>], max_chars, 2, 0)

-----------------------------------------------------------------------------
(* Transcripts                                                             *)

split_oversized(text, p, target) ==
    Greedy(Sentences(text, p), Sliced(Sentences(text, p), target), target, 1, 1)

\* A transcript of one paragraph (any that was transcribed here) is cut at its sentences first.
chunk_transcript(text, target) ==
    LET units == IF Len(text) = 1 THEN split_oversized(text, 1, target)
                 ELSE [p \in DOMAIN text |-> Paragraph(text, p)]
        cuts == [i \in DOMAIN units |-> split_oversized(text, units[i].holds[1].p, target)]
    IN  Greedy(units, cuts, target, 2, 2)

-----------------------------------------------------------------------------
(* What both promise                                                       *)

\* Where a piece begins and where it ends: a paragraph, a sentence of it and a character.
Start(piece) ==
    LET st == Head(piece.holds) IN <<st.p, st.s, st.from>>

End(piece) ==
    LET st == Last(piece.holds) IN <<st.p, st.s, st.to>>

\* The character of the text that comes after another.
After(text, e) ==
    IF e[3] < text[e[1]][e[2]] THEN <<e[1], e[2], e[3] + 1>>
    ELSE IF e[2] < Len(text[e[1]]) THEN <<e[1], e[2] + 1, 1>>
    ELSE <<e[1] + 1, 1, 1>>

\* A piece holds stretches of the text that follow one another.
Sound(text, piece) ==
    /\ piece.holds # <<>>
    /\ \A j \in DOMAIN piece.holds :
          LET st == piece.holds[j] IN st.to \in st.from..text[st.p][st.s]
    /\ \A j \in 1..(Len(piece.holds) - 1) :
          LET st == piece.holds[j]
              next == piece.holds[j + 1]
          IN  <<next.p, next.s, next.from>> = After(text, <<st.p, st.s, st.to>>)

\* b goes on where a ends, in another paragraph unless this one alone is over the cap.
Seam(text, a, b, cap) ==
    /\ Start(b) = After(text, End(a))
    /\ Start(b)[1] = End(a)[1] => Paragraph(text, End(a)[1]).len > cap

\* Every chunk is within the cap and none is empty, nothing is lost, repeated or out of
\* order, and a paragraph is divided only when it alone is over the cap.
CutsWell(text, chunks, cap) ==
    /\ \A i \in DOMAIN chunks : chunks[i].len \in 1..cap /\ Sound(text, chunks[i])
    /\ \A i \in 1..(Len(chunks) - 1) : Seam(text, chunks[i], chunks[i + 1], cap)
    /\ chunks # <<>>
    /\ Start(Head(chunks)) = <<1, 1, 1>>
    /\ After(text, End(Last(chunks))) = <<Len(text) + 1, 1, 1>>
=============================================================================
