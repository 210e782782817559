--------------------------- MODULE NarrateProofs ----------------------------
(***************************************************************************)
(* Of the cutting of texts, for any text and any cap: the loops lose and   *)
(* repeat nothing, keep to the cap and divide no paragraph that fits.  Of  *)
(* the narration, for any weeks, scripts and deaths: a file that can be    *)
(* played is whole, and the hourly job reads the latest week.              *)
(*                                                                         *)
(* The loops are recursive functions on an interval of numbers.  That such *)
(* a function exists, and that what holds of its first value and from each *)
(* to the next holds of all, is had from the least number it fails at.     *)
(***************************************************************************)
EXTENDS Narrate, FiniteSetTheorems, SequenceTheorems, WellFoundedInduction, TLAPS

-----------------------------------------------------------------------------
(* Counting up                                                             *)

\* A set of numbers that is not empty has a least one.
LEMMA LeastOf ==
    ASSUME NEW S, S \subseteq Nat, S # {}
    PROVE  \E a \in S : \A b \in S : a =< b
<1>1. \E a \in S : \A b \in S : ~(<<b, a>> \in OpToRel(<, Nat))
  BY NatLessThanWellFounded, WFMin
<1>2. PICK a \in S : \A b \in S : ~(b < a)
  BY <1>1 DEF OpToRel
<1> QED
  BY <1>2

\* What has zero, and every next number up to n, has all up to n.
LEMMA CountUp ==
    ASSUME NEW n \in Nat, NEW S, 0 \in S,
           \A i \in 1..n : i - 1 \in S => i \in S
    PROVE  0..n \subseteq S
<1> SUFFICES ASSUME (0..n) \ S # {} PROVE FALSE
  OBVIOUS
<1>0. (0..n) \ S \subseteq Nat
  OBVIOUS
<1>1. PICK a \in (0..n) \ S : \A b \in (0..n) \ S : a =< b
  <2> DEFINE T == (0..n) \ S
  <2>1. T \subseteq Nat /\ T # {}
    BY <1>0
  <2> HIDE DEF T
  <2>2. \E a \in T : \A b \in T : a =< b
    BY <2>1, LeastOf
  <2> QED
    BY <2>2 DEF T
<1>2. a \in 1..n /\ a - 1 \in 0..n /\ ~(a =< a - 1)
  BY <1>1
<1>3. a - 1 \in S
  BY <1>1, <1>2
<1> QED
  BY <1>1, <1>2, <1>3

\* A function on 0..n given by its first value and from each value to the next.
Follows(f, n, V, base, step) ==
    f \in [0..n -> V] /\ f[0] = base /\ \A i \in 1..n : f[i] = step[i][f[i - 1]]

\* There is one.
LEMMA Recursion ==
    ASSUME NEW n \in Nat, NEW V, NEW base \in V, NEW step \in [1..n -> [V -> V]]
    PROVE  \E f : Follows(f, n, V, base, step)
<1> DEFINE Upto(m) == \E f \in [0..m -> V] :
              f[0] = base /\ \A i \in 1..m : f[i] = step[i][f[i - 1]]
           S == {m \in 0..n : Upto(m)}
<1>1. 0 \in S
  <2> DEFINE g == [i \in 0..0 |-> base]
  <2>1. g \in [0..0 -> V] /\ g[0] = base
    OBVIOUS
  <2>2. \A i \in 1..0 : g[i] = step[i][g[i - 1]]
    OBVIOUS
  <2> HIDE DEF g
  <2>3. Upto(0)
    BY <2>1, <2>2
  <2> QED
    BY <2>3
<1>2. ASSUME NEW m \in 1..n, m - 1 \in S PROVE m \in S
  <2>1. PICK f \in [0..(m - 1) -> V] :
           f[0] = base /\ \A i \in 1..(m - 1) : f[i] = step[i][f[i - 1]]
    BY <1>2
  <2> DEFINE g == [i \in 0..m |-> IF i = m THEN step[m][f[m - 1]] ELSE f[i]]
  <2>2. f[m - 1] \in V /\ step[m][f[m - 1]] \in V
    OBVIOUS
  <2>3. g \in [0..m -> V]
    BY <2>2
  <2>4. g[0] = base
    BY <2>1
  <2>5. ASSUME NEW i \in 1..m PROVE g[i] = step[i][g[i - 1]]
    BY <2>1
  <2> HIDE DEF g
  <2>6. Upto(m)
    BY <2>3, <2>4, <2>5
  <2> HIDE DEF Upto
  <2> QED
    BY <2>6
<1> HIDE DEF S
<1>3. 0..n \subseteq S
  BY <1>1, <1>2, CountUp
<1>4. Upto(n)
  BY <1>3 DEF S
<1> QED
  BY <1>4 DEF Follows

-----------------------------------------------------------------------------
(* Pieces of text                                                          *)

Stretches == [p : Nat, s : Nat, from : Nat, to : Nat]

Pieces == [len : Nat, holds : Seq(Stretches)]

\* Pieces that follow one another, divided where they may be.
Cutting(text, pieces, cap) ==
    /\ pieces \in Seq(Pieces)
    /\ \A i \in 1..Len(pieces) : pieces[i].len >= 1 /\ Sound(text, pieces[i])
    /\ \A i \in 1..(Len(pieces) - 1) : Seam(text, pieces[i], pieces[i + 1], cap)

\* Where a sequence of pieces begins and ends.
From(pieces) == Start(pieces[1])
To(pieces) == End(pieces[Len(pieces)])

LEMMA SoundFacts ==
    ASSUME NEW text, NEW a \in Pieces, Sound(text, a)
    PROVE  /\ a # Nothing
           /\ a.holds \in Seq(Stretches) /\ a.holds # <<>>
           /\ Len(a.holds) \in Nat /\ Len(a.holds) >= 1
           /\ Start(a) = <<a.holds[1].p, a.holds[1].s, a.holds[1].from>>
           /\ End(a) = <<a.holds[Len(a.holds)].p, a.holds[Len(a.holds)].s,
                         a.holds[Len(a.holds)].to>>
<1>1. a.holds \in Seq(Stretches) /\ a.holds # <<>>
  BY DEF Pieces, Sound
<1>2. Len(a.holds) \in Nat /\ Len(a.holds) >= 1
  BY <1>1, EmptySeq
<1>3. Head(a.holds) = a.holds[1] /\ Last(a.holds) = a.holds[Len(a.holds)]
  BY <1>1 DEF Last
<1> QED
  BY <1>1, <1>2, <1>3 DEF Nothing, Start, End

\* Two pieces that follow one another make one.
LEMMA JoinFacts ==
    ASSUME NEW text, NEW a \in Pieces, NEW b \in Pieces, NEW sep \in Nat,
           Sound(text, a), Sound(text, b), Start(b) = After(text, End(a))
    PROVE  /\ Joined(a, b, sep) \in Pieces
           /\ Joined(a, b, sep).len = a.len + sep + b.len
           /\ Sound(text, Joined(a, b, sep))
           /\ Start(Joined(a, b, sep)) = Start(a)
           /\ End(Joined(a, b, sep)) = End(b)
<1> DEFINE h == a.holds \o b.holds
           j == [len |-> a.len + sep + b.len, holds |-> h]
           n == Len(a.holds)
           m == Len(b.holds)
<1>1. Joined(a, b, sep) = j
  BY SoundFacts DEF Joined
<1>2. /\ a.holds \in Seq(Stretches) /\ b.holds \in Seq(Stretches)
      /\ n \in Nat /\ n >= 1 /\ m \in Nat /\ m >= 1
  BY SoundFacts
<1>3. /\ h \in Seq(Stretches) /\ Len(h) = n + m
      /\ \A i \in 1..n : h[i] = a.holds[i]
      /\ \A i \in (n + 1)..(n + m) : h[i] = b.holds[i - n]
  <2>1. /\ h \in Seq(Stretches) /\ Len(h) = n + m
        /\ \A i \in 1..(n + m) : h[i] = IF i <= n THEN a.holds[i] ELSE b.holds[i - n]
    BY <1>2, ConcatProperties
  <2> HIDE DEF h, n, m
  <2> QED
    BY <1>2, <2>1
<1>4. h # <<>>
  BY <1>2, <1>3
<1>5. j \in Pieces /\ j.len = a.len + sep + b.len /\ j.holds = h
  BY <1>3 DEF Pieces
<1> HIDE DEF h, j, n, m
<1>6. \A i \in 1..(n + m) :
         LET st == h[i] IN st.to \in st.from..text[st.p][st.s]
  <2> SUFFICES ASSUME NEW i \in 1..(n + m)
               PROVE  LET st == h[i] IN st.to \in st.from..text[st.p][st.s]
    OBVIOUS
  <2>0. DOMAIN a.holds = 1..n /\ DOMAIN b.holds = 1..m
    BY <1>2 DEF n, m
  <2>1. CASE i \in 1..n
    BY <1>3, <2>0, <2>1 DEF Sound
  <2>2. CASE i \in (n + 1)..(n + m)
    <3>1. i - n \in DOMAIN b.holds
      BY <1>2, <2>0, <2>2
    <3> QED
      BY <1>3, <2>2, <3>1 DEF Sound
  <2> QED
    BY <1>2, <2>1, <2>2
<1>7. \A i \in 1..(n + m - 1) :
         LET st == h[i]
             next == h[i + 1]
         IN  <<next.p, next.s, next.from>> = After(text, <<st.p, st.s, st.to>>)
  <2> SUFFICES ASSUME NEW i \in 1..(n + m - 1)
               PROVE  LET st == h[i]
                          next == h[i + 1]
                      IN  <<next.p, next.s, next.from>> = After(text, <<st.p, st.s, st.to>>)
    OBVIOUS
  <2>1. CASE i \in 1..(n - 1)
    <3>1. h[i] = a.holds[i] /\ h[i + 1] = a.holds[i + 1]
      BY <1>2, <1>3, <2>1
    <3> QED
      BY <2>1, <3>1 DEF Sound, n
  <2>2. CASE i = n
    <3>0. i + 1 \in (n + 1)..(n + m) /\ i + 1 - n = 1
      BY <1>2, <2>2
    <3>1. h[i] = a.holds[n] /\ h[i + 1] = b.holds[1]
      BY <1>2, <1>3, <2>2, <3>0
    <3> QED
      BY <2>2, <3>1, SoundFacts DEF n
  <2>3. CASE i \in (n + 1)..(n + m - 1)
    <3>1. i - n \in 1..(m - 1) /\ h[i] = b.holds[i - n] /\ h[i + 1] = b.holds[i - n + 1]
      BY <1>2, <1>3, <2>3
    <3> QED
      BY <2>3, <3>1 DEF Sound, m
  <2> QED
    BY <1>2, <2>1, <2>2, <2>3
<1>8. Sound(text, j)
  <2>1. DOMAIN h = 1..(n + m)
    BY <1>3
  <2>2. ASSUME NEW i \in 1..(Len(h) - 1)
        PROVE  <<h[i + 1].p, h[i + 1].s, h[i + 1].from>>
                  = After(text, <<h[i].p, h[i].s, h[i].to>>)
    <3>1. i \in 1..(n + m - 1)
      BY <1>2, <1>3
    <3> QED
      BY <1>7, <3>1
  <2>3. \A i \in DOMAIN h : h[i].to \in h[i].from..text[h[i].p][h[i].s]
    BY <1>6, <2>1
  <2> QED
    BY <1>4, <1>5, <2>2, <2>3 DEF Sound
<1>9. Start(j) = Start(a) /\ End(j) = End(b)
  <2>1. h[1] = a.holds[1] /\ h[n + m] = b.holds[m]
    BY <1>2, <1>3
  <2>2. /\ Start(j) = <<h[1].p, h[1].s, h[1].from>>
        /\ End(j) = <<h[n + m].p, h[n + m].s, h[n + m].to>>
    BY <1>3, <1>5, <1>8, SoundFacts
  <2> QED
    BY <2>1, <2>2, SoundFacts DEF m
<1> QED
  BY <1>1, <1>5, <1>8, <1>9

Capped(pieces, cap) == \A i \in 1..Len(pieces) : pieces[i].len <= cap

\* One piece is a cutting.
LEMMA OnePiece ==
    ASSUME NEW text, NEW cap, NEW a \in Pieces, a.len >= 1, Sound(text, a)
    PROVE  /\ Cutting(text, <<a>>, cap)
           /\ <<a>> # <<>> /\ From(<<a>>) = Start(a) /\ To(<<a>>) = End(a)
           /\ a.len <= cap => Capped(<<a>>, cap)
<1>1. <<a>> \in Seq(Pieces) /\ Len(<<a>>) = 1 /\ <<a>>[1] = a
  OBVIOUS
<1>2. 1..Len(<<a>>) = {1} /\ 1..(Len(<<a>>) - 1) = {}
  BY <1>1
<1> QED
  BY <1>1, <1>2 DEF Cutting, From, To, Capped

\* Two cuttings with a seam between them make one.
LEMMA Spliced ==
    ASSUME NEW text, NEW cap, NEW s, NEW t,
           Cutting(text, s, cap), Cutting(text, t, cap), s # <<>>, t # <<>>,
           Seam(text, s[Len(s)], t[1], cap)
    PROVE  /\ Cutting(text, s \o t, cap)
           /\ s \o t # <<>> /\ From(s \o t) = From(s) /\ To(s \o t) = To(t)
           /\ Capped(s, cap) /\ Capped(t, cap) => Capped(s \o t, cap)
<1> DEFINE h == s \o t
           n == Len(s)
           m == Len(t)
<1>1. /\ s \in Seq(Pieces) /\ t \in Seq(Pieces)
      /\ n \in Nat /\ n >= 1 /\ m \in Nat /\ m >= 1
  BY EmptySeq DEF Cutting
<1>2. /\ h \in Seq(Pieces) /\ Len(h) = n + m
      /\ \A i \in 1..n : h[i] = s[i]
      /\ \A i \in (n + 1)..(n + m) : h[i] = t[i - n]
  <2>1. /\ h \in Seq(Pieces) /\ Len(h) = n + m
        /\ \A i \in 1..(n + m) : h[i] = IF i <= n THEN s[i] ELSE t[i - n]
    BY <1>1, ConcatProperties
  <2> HIDE DEF h, n, m
  <2> QED
    BY <1>1, <2>1
<1>3. /\ \A i \in 1..n : s[i].len >= 1 /\ Sound(text, s[i])
      /\ \A i \in 1..m : t[i].len >= 1 /\ Sound(text, t[i])
      /\ \A i \in 1..(n - 1) : Seam(text, s[i], s[i + 1], cap)
      /\ \A i \in 1..(m - 1) : Seam(text, t[i], t[i + 1], cap)
      /\ Seam(text, s[n], t[1], cap)
  BY DEF Cutting
<1>4. /\ From(s) = Start(s[1]) /\ To(t) = End(t[m])
      /\ From(h) = Start(h[1]) /\ To(h) = End(h[Len(h)])
  BY DEF From, To
<1>5. /\ Capped(s, cap) <=> \A i \in 1..n : s[i].len <= cap
      /\ Capped(t, cap) <=> \A i \in 1..m : t[i].len <= cap
  BY DEF Capped
<1> HIDE DEF h, n, m
<1>6. ASSUME NEW i \in 1..(n + m) PROVE h[i].len >= 1 /\ Sound(text, h[i])
  <2>1. CASE i \in 1..n
    BY <1>2, <1>3, <2>1
  <2>2. CASE i \in (n + 1)..(n + m)
    <3>1. i - n \in 1..m
      BY <1>1, <2>2
    <3> QED
      BY <1>2, <1>3, <2>2, <3>1
  <2> QED
    BY <1>1, <2>1, <2>2
<1>7. ASSUME NEW i \in 1..(n + m - 1) PROVE Seam(text, h[i], h[i + 1], cap)
  <2>1. CASE i \in 1..(n - 1)
    <3>1. h[i] = s[i] /\ h[i + 1] = s[i + 1]
      BY <1>1, <1>2, <2>1
    <3> QED
      BY <1>3, <2>1, <3>1
  <2>2. CASE i = n
    <3>0. i + 1 \in (n + 1)..(n + m) /\ i + 1 - n = 1
      BY <1>1, <2>2
    <3>1. h[i] = s[n] /\ h[i + 1] = t[1]
      BY <1>1, <1>2, <2>2, <3>0
    <3> QED
      BY <1>3, <3>1
  <2>3. CASE i \in (n + 1)..(n + m - 1)
    <3>0. /\ i - n \in 1..(m - 1) /\ i + 1 - n = i - n + 1
          /\ i + 1 \in (n + 1)..(n + m) /\ i \in (n + 1)..(n + m)
      BY <1>1, <2>3
    <3>1. h[i] = t[i - n] /\ h[i + 1] = t[i - n + 1]
      BY <1>1, <1>2, <3>0
    <3>2. Seam(text, t[i - n], t[i - n + 1], cap)
      BY <1>3, <3>0
    <3> QED
      BY <3>1, <3>2
  <2> QED
    BY <1>1, <2>1, <2>2, <2>3
<1>8. Cutting(text, h, cap)
  <2>1. Len(h) - 1 = n + m - 1
    BY <1>1, <1>2
  <2> QED
    BY <1>2, <1>6, <1>7, <2>1 DEF Cutting
<1>9. h # <<>> /\ From(h) = From(s) /\ To(h) = To(t)
  <2>1. h[1] = s[1]
    BY <1>1, <1>2
  <2>2. n + m \in (n + 1)..(n + m) /\ n + m - n = m
    BY <1>1
  <2>3. h[Len(h)] = t[m]
    <3> QED
      BY <1>1, <1>2, <2>2
  <2>4. Len(h) >= 1
    BY <1>1, <1>2
  <2> QED
    BY <1>4, <2>1, <2>3, <2>4, EmptySeq
<1>10. Capped(s, cap) /\ Capped(t, cap) => Capped(h, cap)
  <2> SUFFICES ASSUME Capped(s, cap), Capped(t, cap), NEW i \in 1..(n + m)
               PROVE  h[i].len <= cap
    BY <1>2 DEF Capped
  <2>1. CASE i \in 1..n
    BY <1>2, <1>5, <2>1
  <2>2. CASE i \in (n + 1)..(n + m)
    <3>1. i - n \in 1..m
      BY <1>1, <2>2
    <3> QED
      BY <1>2, <1>5, <2>2, <3>1
  <2> QED
    BY <1>1, <2>1, <2>2
<1> QED
  BY <1>8, <1>9, <1>10 DEF h

\* A seam is between the end of one piece and the start of the next, whatever lies around.
LEMMA SeamEnds ==
    ASSUME NEW text, NEW cap, NEW a, NEW b, NEW c, NEW d,
           Seam(text, a, b, cap), End(c) = End(a), Start(d) = Start(b)
    PROVE  Seam(text, c, d, cap)
BY DEF Seam

\* The last piece of a cutting may be longer.
LEMMA LastReplaced ==
    ASSUME NEW text, NEW cap, NEW s \in Seq(Pieces), NEW a \in Pieces, NEW b \in Pieces,
           Cutting(text, Append(s, a), cap), b.len >= 1, Sound(text, b), Start(b) = Start(a)
    PROVE  /\ Cutting(text, Append(s, b), cap)
           /\ Append(s, b) # <<>>
           /\ From(Append(s, b)) = From(Append(s, a)) /\ To(Append(s, b)) = End(b)
           /\ Capped(Append(s, a), cap) /\ b.len <= cap => Capped(Append(s, b), cap)
<1> DEFINE x == Append(s, a)
           y == Append(s, b)
           n == Len(s)
<1>1. /\ x \in Seq(Pieces) /\ y \in Seq(Pieces) /\ n \in Nat
      /\ Len(x) = n + 1 /\ Len(y) = n + 1 /\ x[n + 1] = a /\ y[n + 1] = b
      /\ \A i \in 1..n : x[i] = s[i] /\ y[i] = s[i]
  OBVIOUS
<1>2. /\ Cutting(text, x, cap)
      /\ From(x) = Start(x[1]) /\ From(y) = Start(y[1]) /\ To(y) = End(y[Len(y)])
      /\ Capped(x, cap) <=> \A i \in 1..Len(x) : x[i].len <= cap
      /\ Capped(y, cap) <=> \A i \in 1..Len(y) : y[i].len <= cap
  BY DEF From, To, Capped
<1> HIDE DEF x, y, n
<1>3. ASSUME NEW i \in 1..(n + 1)
      PROVE  /\ y[i].len >= 1 /\ Sound(text, y[i]) /\ Start(y[i]) = Start(x[i])
             /\ Capped(x, cap) /\ b.len <= cap => y[i].len <= cap
  <2>1. CASE i = n + 1
    BY <1>1, <2>1
  <2>2. CASE i \in 1..n
    <3>1. y[i] = x[i]
      BY <1>1, <2>2
    <3> QED
      BY <1>1, <1>2, <3>1 DEF Cutting
  <2> QED
    BY <1>1, <2>1, <2>2
<1>4. ASSUME NEW i \in 1..n PROVE Seam(text, y[i], y[i + 1], cap)
  <2>1. y[i] = x[i] /\ i + 1 \in 1..(n + 1)
    BY <1>1
  <2>2. Seam(text, x[i], x[i + 1], cap)
    <3>1. i \in 1..(Len(x) - 1)
      BY <1>1
    <3> QED
      BY <1>2, <3>1 DEF Cutting
  <2> QED
    BY <1>3, <2>1, <2>2, SeamEnds
<1>5. Cutting(text, y, cap)
  <2>1. Len(y) - 1 = n
    BY <1>1
  <2> QED
    BY <1>1, <1>3, <1>4, <2>1 DEF Cutting
<1>6. y # <<>> /\ From(y) = From(x) /\ To(y) = End(b)
  <2>1. 1 \in 1..(n + 1)
    BY <1>1
  <2>2. Start(y[1]) = Start(x[1])
    BY <1>3, <2>1
  <2>3. Len(y) # 0
    BY <1>1
  <2> QED
    BY <1>1, <1>2, <2>2, <2>3, EmptySeq
<1> QED
  BY <1>1, <1>2, <1>3, <1>5, <1>6 DEF x, y

-----------------------------------------------------------------------------
(* The loop of the cutting                                                 *)

Acc == [out : Seq(Pieces), current : Pieces]

Empty == [out |-> <<>>, current |-> Nothing]

\* What the loop has made so far, the current piece included.
Filled(acc) == Flush(acc).out

LEMMA FilledFacts ==
    ASSUME NEW acc \in Acc
    PROVE  /\ Flush(acc) = [out |-> Filled(acc), current |-> Nothing]
           /\ Filled(acc) \in Seq(Pieces)
           /\ acc.current = Nothing => Filled(acc) = acc.out
           /\ acc.current # Nothing => Filled(acc) = Append(acc.out, acc.current)
BY DEF Acc, Filled, Flush

\* A piece, or what it is cut into if it is over the cap.
Cuttable(text, piece, cut, cap) ==
    /\ piece \in Pieces /\ piece.len >= 1 /\ Sound(text, piece)
    /\ piece.len > cap => /\ Cutting(text, cut, cap) /\ Capped(cut, cap) /\ cut # <<>>
                          /\ From(cut) = Start(piece) /\ To(cut) = End(piece)

LEMMA PackedType ==
    ASSUME NEW text, NEW cap \in Nat, NEW sep \in Nat, NEW slack \in Nat,
           NEW acc \in Acc, NEW piece, NEW cut, Cuttable(text, piece, cut, cap)
    PROVE  Packed(acc, piece, cut, cap, sep, slack) \in Acc
<1>1. Nothing \in Pieces
  BY EmptySeq DEF Nothing, Pieces
<1>2. piece \in Pieces /\ (piece.len > cap => cut \in Seq(Pieces))
  BY DEF Cuttable, Cutting
<1>3. Joined(acc.current, piece, sep) \in Pieces
  <2>1. acc.current \in Pieces
    BY DEF Acc
  <2>2. /\ acc.current.len \in Nat /\ acc.current.holds \in Seq(Stretches)
        /\ piece.len \in Nat /\ piece.holds \in Seq(Stretches)
    BY <1>2, <2>1 DEF Pieces
  <2>3. acc.current.holds \o piece.holds \in Seq(Stretches)
    BY <2>2, ConcatProperties
  <2> QED
    BY <1>2, <2>2, <2>3 DEF Joined, Pieces
<1>4. Filled(acc) \in Seq(Pieces) /\ Flush(acc).out = Filled(acc) /\ acc.out \in Seq(Pieces)
  BY FilledFacts DEF Acc, Filled
<1>5. piece.len > cap => Filled(acc) \o cut \in Seq(Pieces)
  BY <1>2, <1>4, ConcatProperties
<1> QED
  BY <1>1, <1>2, <1>3, <1>4, <1>5 DEF Packed, Acc

\* One turn of the loop: what is made is a cutting within the cap, and now ends with the
\* piece.
LEMMA PackedStep ==
    ASSUME NEW text, NEW cap \in Nat, NEW sep \in Nat, NEW slack \in Nat,
           NEW acc \in Acc, NEW piece, NEW cut, Cuttable(text, piece, cut, cap),
           \/ acc = Empty
           \/ /\ Cutting(text, Filled(acc), cap) /\ Capped(Filled(acc), cap)
              /\ Filled(acc) # <<>>
              /\ Seam(text, Filled(acc)[Len(Filled(acc))], piece, cap),
           NEW new, new = Packed(acc, piece, cut, cap, sep, slack)
    PROVE  /\ Cutting(text, Filled(new), cap) /\ Capped(Filled(new), cap)
           /\ Filled(new) # <<>>
           /\ From(Filled(new)) = IF acc = Empty THEN Start(piece) ELSE From(Filled(acc))
           /\ To(Filled(new)) = End(piece)
<1> DEFINE F == Filled(acc)
<1>1. /\ piece \in Pieces /\ piece.len >= 1 /\ Sound(text, piece) /\ piece # Nothing
      /\ piece.len \in Nat
  BY SoundFacts DEF Cuttable, Pieces
<1>2. /\ new \in Acc /\ acc.out \in Seq(Pieces) /\ acc.current \in Pieces
      /\ F \in Seq(Pieces) /\ Flush(acc).out = F
      /\ acc.current = Nothing => F = acc.out
      /\ acc.current # Nothing => F = Append(acc.out, acc.current)
  BY PackedType, FilledFacts DEF Acc, Filled
<1>3. acc = Empty => acc.current = Nothing /\ F = <<>>
  BY <1>2 DEF Empty
<1>4. acc # Empty => /\ Cutting(text, F, cap) /\ Capped(F, cap) /\ F # <<>>
                     /\ Seam(text, F[Len(F)], piece, cap)
  OBVIOUS
<1> HIDE DEF F
\* What is made, and a cutting of the piece after it.
<1>5. ASSUME NEW t, Cutting(text, t, cap), Capped(t, cap), t # <<>>,
             From(t) = Start(piece), To(t) = End(piece), Filled(new) = F \o t
      PROVE  /\ Cutting(text, Filled(new), cap) /\ Capped(Filled(new), cap)
             /\ Filled(new) # <<>>
             /\ From(Filled(new)) = IF acc = Empty THEN Start(piece) ELSE From(F)
             /\ To(Filled(new)) = End(piece)
  <2>1. CASE acc = Empty
    <3>1. F \o t = t
      <4>1. t \in Seq(Pieces)
        BY <1>5 DEF Cutting
      <4> QED
        BY <1>3, <2>1, <4>1, ConcatEmptySeq
    <3> QED
      BY <1>5, <2>1, <3>1
  <2>2. CASE acc # Empty
    <3>1. Seam(text, F[Len(F)], t[1], cap)
      BY <1>4, <1>5, <2>2, SeamEnds DEF From
    <3> QED
      BY <1>4, <1>5, <2>2, <3>1, Spliced
  <2> QED
    BY <2>1, <2>2
<1>6. CASE piece.len > cap
  <2>1. new = [out |-> F \o cut, current |-> Nothing]
    BY <1>2, <1>6 DEF Packed
  <2>2. Filled(new) = F \o cut
    BY <2>1 DEF Filled, Flush
  <2> QED
    BY <1>5, <1>6, <2>2 DEF Cuttable, F
\* The piece by itself.
<1>7. ASSUME ~(piece.len > cap), Filled(new) = Append(F, piece)
      PROVE  /\ Cutting(text, Filled(new), cap) /\ Capped(Filled(new), cap)
             /\ Filled(new) # <<>>
             /\ From(Filled(new)) = IF acc = Empty THEN Start(piece) ELSE From(F)
             /\ To(Filled(new)) = End(piece)
  <2>1. Append(F, piece) = F \o <<piece>>
    BY <1>1, <1>2, AppendIsConcat
  <2>2. piece.len <= cap
    BY <1>1, <1>7
  <2> QED
    BY <1>1, <1>5, <1>7, <2>1, <2>2, OnePiece
<1>8. CASE ~(piece.len > cap) /\ acc.current = Nothing
  <2>1. new = [out |-> acc.out, current |-> piece]
    BY <1>8 DEF Packed, Joined
  <2>2. Filled(new) = Append(F, piece)
    BY <1>1, <1>2, <1>8, <2>1 DEF Filled, Flush
  <2> QED
    BY <1>7, <1>8, <2>2 DEF F
<1>9. CASE /\ ~(piece.len > cap) /\ acc.current # Nothing
           /\ ~(acc.current.len + sep + piece.len + slack <= cap)
  <2>1. new = [out |-> F, current |-> piece]
    BY <1>2, <1>9 DEF Packed
  <2>2. Filled(new) = Append(F, piece)
    BY <1>1, <2>1 DEF Filled, Flush
  <2> QED
    BY <1>7, <1>9, <2>2 DEF F
<1>10. CASE /\ ~(piece.len > cap) /\ acc.current # Nothing
            /\ acc.current.len + sep + piece.len + slack <= cap
  <2> DEFINE j == Joined(acc.current, piece, sep)
  <2>1. new = [out |-> acc.out, current |-> j]
    BY <1>10 DEF Packed
  <2>2. acc # Empty /\ F = Append(acc.out, acc.current)
    BY <1>2, <1>3, <1>10
  <2>3. /\ Len(F) \in 1..Len(F) /\ F[Len(F)] = acc.current
    BY <1>2, <2>2
  <2>4. Sound(text, acc.current) /\ Start(piece) = After(text, End(acc.current))
    BY <1>4, <2>2, <2>3 DEF Cutting, Seam
  <2>5. /\ j \in Pieces /\ j.len = acc.current.len + sep + piece.len
        /\ Sound(text, j) /\ Start(j) = Start(acc.current) /\ End(j) = End(piece)
    BY <1>1, <1>2, <2>4, JoinFacts
  <2> HIDE DEF j
  <2>6. j.len >= 1 /\ j.len <= cap /\ j # Nothing
    <3>1. acc.current.len \in Nat
      BY <1>2 DEF Pieces
    <3> QED
      BY <1>1, <1>10, <2>5, <3>1, SoundFacts
  <2>7. Filled(new) = Append(acc.out, j)
    BY <2>1, <2>6 DEF Filled, Flush
  <2>8. Cutting(text, Append(acc.out, acc.current), cap)
    BY <1>4, <2>2
  <2>9. /\ Cutting(text, Append(acc.out, j), cap)
        /\ Append(acc.out, j) # <<>>
        /\ From(Append(acc.out, j)) = From(Append(acc.out, acc.current))
        /\ To(Append(acc.out, j)) = End(j)
        /\ Capped(Append(acc.out, acc.current), cap) => Capped(Append(acc.out, j), cap)
    <3> DEFINE o == acc.out
               a == acc.current
    <3>1. /\ o \in Seq(Pieces) /\ a \in Pieces /\ j \in Pieces
          /\ j.len >= 1 /\ j.len <= cap /\ Sound(text, j) /\ Start(j) = Start(a)
          /\ Cutting(text, Append(o, a), cap)
      BY <1>2, <2>5, <2>6, <2>8
    <3> HIDE DEF o, a
    <3>2. /\ Cutting(text, Append(o, j), cap)
          /\ Append(o, j) # <<>>
          /\ From(Append(o, j)) = From(Append(o, a)) /\ To(Append(o, j)) = End(j)
          /\ Capped(Append(o, a), cap) /\ j.len <= cap => Capped(Append(o, j), cap)
      BY <3>1, LastReplaced, Zenon
    <3> QED
      BY <3>1, <3>2 DEF o, a
  <2>10. Capped(Append(acc.out, acc.current), cap)
    BY <1>4, <2>2
  <2>11. From(Filled(new)) = From(Filled(acc))
    BY <2>2, <2>7, <2>9 DEF F
  <2> QED
    BY <2>2, <2>5, <2>7, <2>9, <2>10, <2>11
<1> QED
  BY <1>6, <1>8, <1>9, <1>10

\* What the loop is given: pieces that follow one another.
InRow(text, pieces, cuts, cap) ==
    /\ pieces \in Seq(Pieces) /\ pieces # <<>>
    /\ \A i \in 1..Len(pieces) : Cuttable(text, pieces[i], cuts[i], cap)
    /\ \A i \in 1..(Len(pieces) - 1) : Seam(text, pieces[i], pieces[i + 1], cap)

\* The loop: pieces that follow one another come out cut, from where the first of them begins
\* to where the last of them ends.
LEMMA GreedyCuts ==
    ASSUME NEW text, NEW cap \in Nat, NEW sep \in Nat, NEW slack \in Nat,
           NEW pieces, NEW cuts, InRow(text, pieces, cuts, cap),
           NEW made, made = Greedy(pieces, cuts, cap, sep, slack)
    PROVE  /\ Cutting(text, made, cap) /\ Capped(made, cap) /\ made # <<>>
           /\ From(made) = From(pieces) /\ To(made) = To(pieces)
<1> DEFINE N == Len(pieces)
           Turn(i, a) == Packed(a, pieces[i], cuts[i], cap, sep, slack)
           step == [i \in 1..N |-> [a \in Acc |-> Turn(i, a)]]
<1>0. /\ pieces \in Seq(Pieces) /\ pieces # <<>>
      /\ \A i \in 1..N : Cuttable(text, pieces[i], cuts[i], cap)
      /\ \A i \in 1..(N - 1) : Seam(text, pieces[i], pieces[i + 1], cap)
  BY DEF InRow
<1>1. N \in Nat /\ N >= 1 /\ Empty \in Acc
  <2>1. Nothing \in Pieces
    BY EmptySeq DEF Nothing, Pieces
  <2> QED
    BY <1>0, <2>1, EmptySeq DEF Empty, Acc
<1>3. \A i \in 1..N : \A a \in Acc : Turn(i, a) \in Acc
  BY <1>0, PackedType
<1> HIDE DEF Turn
<1>4. step \in [1..N -> [Acc -> Acc]]
  BY <1>3
<1>5. PICK g \in [0..N -> Acc] : g[0] = Empty /\ \A i \in 1..N : g[i] = step[i][g[i - 1]]
  <2> HIDE DEF step, N
  <2>1. PICK h : Follows(h, N, Acc, Empty, step)
    BY <1>1, <1>4, Recursion
  <2> QED
    BY <2>1 DEF Follows
<1> DEFINE Loop(h) == h = [i \in 0..N |-> IF i = 0 THEN Empty ELSE Turn(i, h[i - 1])]
           f == CHOOSE h : Loop(h)
<1>2. made = Filled(f[N])
  BY DEF Greedy, Filled, Empty, Turn
<1>6. Loop(g)
  <2>1. ASSUME NEW i \in 0..N PROVE g[i] = IF i = 0 THEN Empty ELSE Turn(i, g[i - 1])
    <3>1. CASE i # 0
      <4>1. i \in 1..N /\ g[i - 1] \in Acc
        BY <1>1, <3>1
      <4> QED
        BY <1>5, <3>1, <4>1
    <3> QED
      BY <1>5, <3>1
  <2>2. g = [i \in 0..N |-> g[i]]
    OBVIOUS
  <2> QED
    BY <2>1, <2>2
<1>7. Loop(f)
  BY <1>6
<1> HIDE DEF f, step, N
<1>8. f[0] = Empty /\ \A i \in 1..N : f[i] = Turn(i, f[i - 1])
  BY <1>1, <1>7
<1> HIDE DEF Loop
\* After each piece.
<1> DEFINE Right(i) ==
              /\ f[i] \in Acc
              /\ i = 0 => f[i] = Empty
              /\ i > 0 => /\ Cutting(text, Filled(f[i]), cap) /\ Capped(Filled(f[i]), cap)
                          /\ Filled(f[i]) # <<>>
                          /\ From(Filled(f[i])) = Start(pieces[1])
                          /\ To(Filled(f[i])) = End(pieces[i])
           S == {i \in 0..N : Right(i)}
<1>9. 0 \in S
  BY <1>1, <1>8
<1>10. ASSUME NEW i \in 1..N, i - 1 \in S PROVE i \in S
  <2>1. f[i - 1] \in Acc /\ f[i] = Turn(i, f[i - 1]) /\ Cuttable(text, pieces[i], cuts[i], cap)
    BY <1>0, <1>8, <1>10
  <2>2. CASE i = 1
    <3>1. f[i - 1] = Empty
      BY <1>8, <2>2
    <3>2. /\ Cutting(text, Filled(f[i]), cap) /\ Capped(Filled(f[i]), cap)
          /\ Filled(f[i]) # <<>>
          /\ From(Filled(f[i])) = Start(pieces[i]) /\ To(Filled(f[i])) = End(pieces[i])
      BY <2>1, <3>1, PackedStep DEF Turn
    <3> QED
      BY <1>3, <2>1, <2>2, <3>2
  <2>3. CASE i # 1
    <3> DEFINE a == f[i - 1]
    <3>1. /\ i - 1 > 0 /\ i - 1 \in 1..(N - 1) /\ i - 1 # 0
          /\ Cutting(text, Filled(a), cap) /\ Capped(Filled(a), cap) /\ Filled(a) # <<>>
          /\ From(Filled(a)) = Start(pieces[1]) /\ To(Filled(a)) = End(pieces[i - 1])
      BY <1>1, <1>10, <2>3
    <3>2. Seam(text, pieces[i - 1], pieces[i], cap)
      <4>1. i - 1 + 1 = i
        BY <1>1
      <4> QED
        BY <1>0, <3>1, <4>1
    <3>3. Seam(text, Filled(a)[Len(Filled(a))], pieces[i], cap)
      BY <3>1, <3>2, SeamEnds DEF To
    <3>4. a # Empty
      BY <3>1 DEF Empty, Filled, Flush
    <3> HIDE DEF a
    <3>5. /\ Cutting(text, Filled(f[i]), cap) /\ Capped(Filled(f[i]), cap)
          /\ Filled(f[i]) # <<>>
          /\ From(Filled(f[i])) = From(Filled(a)) /\ To(Filled(f[i])) = End(pieces[i])
      <4>1. a \in Acc /\ f[i] = Packed(a, pieces[i], cuts[i], cap, sep, slack)
        BY <2>1 DEF a, Turn
      <4> QED
        BY <2>1, <3>1, <3>3, <3>4, <4>1, PackedStep
    <3>6. f[i] \in Acc
      BY <1>3, <2>1
    <3> QED
      BY <1>1, <3>1, <3>5, <3>6
  <2> QED
    BY <2>2, <2>3
<1> HIDE DEF S
<1>11. 0..N \subseteq S
  BY <1>1, <1>9, <1>10, CountUp
<1>12. Right(N)
  BY <1>1, <1>11 DEF S
<1> QED
  BY <1>1, <1>2, <1>12 DEF From, To, N


-----------------------------------------------------------------------------
(* Sentences and paragraphs                                                *)

\* Paragraphs of sentences of characters, none of them empty.
AllTexts == Seq(Seq(Nat \ {0}) \ {<<>>}) \ {<<>>}

LEMMA TextFacts ==
    ASSUME NEW text \in AllTexts
    PROVE  /\ Len(text) \in Nat /\ Len(text) >= 1 /\ DOMAIN text = 1..Len(text)
           /\ \A p \in 1..Len(text) :
                 /\ text[p] \in Seq(Nat \ {0}) /\ DOMAIN text[p] = 1..Len(text[p])
                 /\ Len(text[p]) \in Nat /\ Len(text[p]) >= 1
                 /\ \A s \in 1..Len(text[p]) : text[p][s] \in Nat /\ text[p][s] >= 1
<1>1. text \in Seq(Seq(Nat \ {0}) \ {<<>>}) /\ text # <<>>
  BY DEF AllTexts
<1>2. Len(text) \in Nat /\ Len(text) >= 1 /\ DOMAIN text = 1..Len(text)
  BY <1>1, EmptySeq
<1>3. ASSUME NEW p \in 1..Len(text)
      PROVE  /\ text[p] \in Seq(Nat \ {0}) /\ DOMAIN text[p] = 1..Len(text[p])
             /\ Len(text[p]) \in Nat /\ Len(text[p]) >= 1
             /\ \A s \in 1..Len(text[p]) : text[p][s] \in Nat /\ text[p][s] >= 1
  <2>1. text[p] \in Seq(Nat \ {0}) \ {<<>>}
    BY <1>1
  <2>2. text[p] \in Seq(Nat \ {0}) /\ text[p] # <<>>
    BY <2>1
  <2>3. Len(text[p]) \in Nat /\ Len(text[p]) >= 1 /\ DOMAIN text[p] = 1..Len(text[p])
    BY <2>2, EmptySeq
  <2>4. \A s \in 1..Len(text[p]) : text[p][s] \in Nat \ {0}
    BY <2>2, <2>3
  <2> QED
    BY <2>2, <2>3, <2>4
<1> QED
  BY <1>2, <1>3

\* The sentences of a paragraph are pieces that follow one another.
LEMMA SentenceFacts ==
    ASSUME NEW text \in AllTexts, NEW p \in 1..Len(text)
    PROVE  /\ Sentences(text, p) \in Seq(Pieces)
           /\ Len(Sentences(text, p)) = Len(text[p]) /\ Sentences(text, p) # <<>>
           /\ \A s \in 1..Len(text[p]) :
                 LET piece == Sentences(text, p)[s]
                 IN  /\ piece \in Pieces /\ piece.len = text[p][s] /\ piece.len >= 1
                     /\ piece.holds[1] = Stretch(p, s, 1, text[p][s])
                     /\ Sound(text, piece)
                     /\ Start(piece) = <<p, s, 1>> /\ End(piece) = <<p, s, text[p][s]>>
           /\ \A s \in 1..(Len(text[p]) - 1) :
                 After(text, <<p, s, text[p][s]>>) = <<p, s + 1, 1>>
<1> DEFINE n == Len(text[p])
           st(s) == Stretch(p, s, 1, text[p][s])
           piece(s) == [len |-> text[p][s], holds |-> <<st(s)>>]
<1>1. /\ n \in Nat /\ n >= 1 /\ DOMAIN text[p] = 1..n /\ p \in Nat
      /\ \A s \in 1..n : text[p][s] \in Nat /\ text[p][s] >= 1
  BY TextFacts
<1>2. ASSUME NEW s \in 1..n
      PROVE  /\ piece(s) \in Pieces /\ piece(s).len = text[p][s] /\ piece(s).len >= 1
             /\ piece(s).holds[1] = st(s) /\ Sound(text, piece(s))
             /\ Start(piece(s)) = <<p, s, 1>> /\ End(piece(s)) = <<p, s, text[p][s]>>
  <2>1. st(s) \in Stretches /\ text[p][s] \in Nat /\ text[p][s] >= 1
    BY <1>1 DEF Stretch, Stretches
  <2>2. /\ st(s).p = p /\ st(s).s = s /\ st(s).from = 1 /\ st(s).to = text[p][s]
    BY DEF Stretch
  <2> HIDE DEF st
  <2>3. <<st(s)>> \in Seq(Stretches) /\ Len(<<st(s)>>) = 1 /\ <<st(s)>>[1] = st(s)
    BY <2>1
  <2>4. piece(s) \in Pieces /\ piece(s).holds = <<st(s)>>
    BY <2>1, <2>3 DEF Pieces
  <2>5. Sound(text, piece(s))
    <3>1. DOMAIN piece(s).holds = {1} /\ 1..(Len(piece(s).holds) - 1) = {}
      BY <2>3, <2>4
    <3>2. piece(s).holds # <<>> /\ piece(s).holds[1] = st(s)
      BY <2>3, <2>4
    <3>3. text[p][s] \in 1..text[p][s]
      BY <2>1
    <3> HIDE DEF piece
    <3> QED
      BY <2>2, <3>1, <3>2, <3>3 DEF Sound
  <2>6. Len(piece(s).holds) = 1
    BY <2>3, <2>4
  <2>7. Start(piece(s)) = <<p, s, 1>> /\ End(piece(s)) = <<p, s, text[p][s]>>
    BY <2>2, <2>3, <2>4, <2>5, <2>6, SoundFacts
  <2> QED
    BY <2>1, <2>3, <2>4, <2>5, <2>7
<1>3. Sentences(text, p) = [s \in 1..n |-> piece(s)]
  BY <1>1 DEF Sentences
<1> HIDE DEF piece
<1>4. Sentences(text, p) \in Seq(Pieces) /\ Len(Sentences(text, p)) = n
  BY <1>1, <1>2, <1>3
<1>5. Sentences(text, p) # <<>>
  BY <1>1, <1>4, EmptySeq
<1>6. ASSUME NEW s \in 1..(n - 1)
      PROVE  After(text, <<p, s, text[p][s]>>) = <<p, s + 1, 1>>
  <2>1. s < n /\ ~(text[p][s] < text[p][s])
    BY <1>1
  <2> QED
    BY <2>1 DEF After
<1> QED
  BY <1>2, <1>3, <1>4, <1>5, <1>6


\* A paragraph is a piece, from its first character to its last.
LEMMA ParagraphFacts ==
    ASSUME NEW text \in AllTexts, NEW p \in 1..Len(text)
    PROVE  LET piece == Paragraph(text, p)
               last == Len(text[p])
           IN  /\ piece \in Pieces /\ piece.len >= 1 /\ Sound(text, piece)
               /\ Start(piece) = <<p, 1, 1>> /\ End(piece) = <<p, last, text[p][last]>>
<1> DEFINE N == Len(text[p])
           Turn(i, a) == Joined(a, Sentences(text, p)[i], 1)
           step == [i \in 1..N |-> [a \in Pieces |-> Turn(i, a)]]
           piece(i) == Sentences(text, p)[i]
<1>1. N \in Nat /\ N >= 1 /\ Nothing \in Pieces
  <2>1. Nothing \in Pieces
    BY EmptySeq DEF Nothing, Pieces
  <2> QED
    BY <2>1, TextFacts
<1>2. \A i \in 1..N : /\ piece(i) \in Pieces /\ piece(i).len >= 1 /\ Sound(text, piece(i))
                      /\ Start(piece(i)) = <<p, i, 1>> /\ End(piece(i)) = <<p, i, text[p][i]>>
  BY SentenceFacts
<1>3. \A i \in 1..(N - 1) : After(text, <<p, i, text[p][i]>>) = <<p, i + 1, 1>>
  BY SentenceFacts
<1> HIDE DEF piece
<1>4. \A i \in 1..N : \A a \in Pieces : Turn(i, a) \in Pieces
  <2> SUFFICES ASSUME NEW i \in 1..N, NEW a \in Pieces PROVE Turn(i, a) \in Pieces
    OBVIOUS
  <2>1. Turn(i, a) = Joined(a, piece(i), 1)
    BY DEF piece
  <2>2. /\ a.len \in Nat /\ a.holds \in Seq(Stretches) /\ piece(i) \in Pieces
        /\ piece(i).len \in Nat /\ piece(i).holds \in Seq(Stretches)
    BY <1>2 DEF Pieces
  <2>3. a.holds \o piece(i).holds \in Seq(Stretches)
    BY <2>2, ConcatProperties
  <2>4. [len |-> a.len + 1 + piece(i).len, holds |-> a.holds \o piece(i).holds] \in Pieces
    BY <2>2, <2>3 DEF Pieces
  <2> QED
    BY <2>1, <2>2, <2>4 DEF Joined
<1> HIDE DEF Turn
<1>5. step \in [1..N -> [Pieces -> Pieces]]
  BY <1>4
<1>6. PICK g \in [0..N -> Pieces] : g[0] = Nothing /\ \A i \in 1..N : g[i] = step[i][g[i - 1]]
  <2> HIDE DEF step, N
  <2>1. PICK h : Follows(h, N, Pieces, Nothing, step)
    BY <1>1, <1>5, Recursion
  <2> QED
    BY <2>1 DEF Follows
<1> DEFINE Loop(h) == h = [i \in 0..N |-> IF i = 0 THEN Nothing ELSE Turn(i, h[i - 1])]
           f == CHOOSE h : Loop(h)
<1>7. Paragraph(text, p) = f[N]
  BY DEF Paragraph, Turn
<1>8. Loop(g)
  <2>1. ASSUME NEW i \in 0..N PROVE g[i] = IF i = 0 THEN Nothing ELSE Turn(i, g[i - 1])
    <3>1. CASE i # 0
      <4>1. i \in 1..N /\ g[i - 1] \in Pieces
        BY <1>1, <3>1
      <4> QED
        BY <1>6, <3>1, <4>1
    <3> QED
      BY <1>6, <3>1
  <2>2. g = [i \in 0..N |-> g[i]]
    OBVIOUS
  <2> QED
    BY <2>1, <2>2
<1>9. Loop(f)
  BY <1>8
<1> HIDE DEF f, step, N
<1>10. f[0] = Nothing /\ \A i \in 1..N : f[i] = Turn(i, f[i - 1])
  BY <1>1, <1>9
<1> HIDE DEF Loop
\* After each sentence.
<1> DEFINE Right(i) ==
              /\ i = 0 => f[i] = Nothing
              /\ i > 0 => /\ f[i] \in Pieces /\ f[i].len >= 1 /\ Sound(text, f[i])
                          /\ Start(f[i]) = <<p, 1, 1>> /\ End(f[i]) = <<p, i, text[p][i]>>
           S == {i \in 0..N : Right(i)}
<1>11. 0 \in S
  BY <1>1, <1>10
<1>12. ASSUME NEW i \in 1..N, i - 1 \in S PROVE i \in S
  <2>1. f[i] = Joined(f[i - 1], piece(i), 1)
    BY <1>10 DEF Turn, piece
  <2>2. CASE i = 1
    <3>1. f[i] = piece(i)
      BY <1>10, <2>1, <2>2 DEF Joined
    <3> QED
      BY <1>1, <1>2, <2>2, <3>1
  <2>3. CASE i # 1
    <3> DEFINE a == f[i - 1]
    <3>1. /\ i - 1 \in 1..(N - 1) /\ i - 1 + 1 = i
          /\ a \in Pieces /\ a.len >= 1 /\ Sound(text, a)
          /\ Start(a) = <<p, 1, 1>> /\ End(a) = <<p, i - 1, text[p][i - 1]>>
      BY <1>1, <1>12, <2>3
    <3>2. f[i] = Joined(a, piece(i), 1)
      BY <2>1
    <3>3. /\ piece(i) \in Pieces /\ piece(i).len >= 1 /\ Sound(text, piece(i))
          /\ Start(piece(i)) = After(text, End(a)) /\ End(piece(i)) = <<p, i, text[p][i]>>
      BY <1>2, <1>3, <3>1
    <3> HIDE DEF a
    <3>4. /\ f[i] \in Pieces /\ f[i].len = a.len + 1 + piece(i).len /\ Sound(text, f[i])
          /\ Start(f[i]) = Start(a) /\ End(f[i]) = End(piece(i))
      BY <3>1, <3>2, <3>3, JoinFacts
    <3>5. f[i].len >= 1
      <4>1. a.len \in Nat /\ piece(i).len \in Nat
        BY <3>1, <3>3 DEF Pieces
      <4> QED
        BY <3>1, <3>4, <4>1
    <3> QED
      BY <1>1, <3>1, <3>3, <3>4, <3>5
  <2> QED
    BY <2>2, <2>3
<1> HIDE DEF S
<1>13. 0..N \subseteq S
  BY <1>1, <1>11, <1>12, CountUp
<1>14. Right(N)
  BY <1>1, <1>13 DEF S
<1> QED
  BY <1>1, <1>7, <1>14 DEF N


-----------------------------------------------------------------------------
(* A sentence over the cap                                                 *)

LEMMA Division ==
    ASSUME NEW a \in Nat, NEW b \in Nat, b >= 1
    PROVE  a \div b \in Nat /\ (a \div b) * b <= a /\ a < ((a \div b) + 1) * b
OBVIOUS

\* The pieces a length is cut into, all full but the last.
LEMMA Slots ==
    ASSUME NEW L \in Nat, NEW cap \in Nat, L >= 1, cap >= 1,
           NEW n, n = (L + cap - 1) \div cap
    PROVE  /\ n \in Nat /\ n >= 1 /\ (n - 1) * cap < L /\ L <= n * cap
           /\ \A i \in 1..n : (i - 1) * cap \in Nat /\ (i - 1) * cap < L
           /\ \A i \in 1..(n - 1) : i * cap \in Nat /\ i * cap < L
           /\ \A i \in 1..n : i * cap = (i - 1) * cap + cap
<1>1. /\ L + cap - 1 \in Nat
      /\ n \in Nat /\ n * cap <= L + cap - 1 /\ L + cap - 1 < (n + 1) * cap
  <2>1. L + cap - 1 \in Nat
    OBVIOUS
  <2> QED
    BY <2>1, Division
<1>2. ASSUME NEW i \in Nat
      PROVE  i * cap \in Nat /\ (i + 1) * cap = i * cap + cap
  OBVIOUS
<1>3. n * cap \in Nat /\ (n + 1) * cap = n * cap + cap
  BY <1>1, <1>2
<1>4. L <= n * cap
  BY <1>1, <1>3
<1>5. n >= 1
  <2>1. n = 0 => n * cap = 0
    OBVIOUS
  <2> QED
    BY <1>1, <1>4, <2>1
<1>6. n - 1 \in Nat /\ n - 1 + 1 = n
  BY <1>1, <1>5
<1>7. (n - 1) * cap \in Nat /\ n * cap = (n - 1) * cap + cap
  BY <1>2, <1>6
<1>8. (n - 1) * cap < L
  BY <1>1, <1>3, <1>7
<1>9. ASSUME NEW i \in Nat, i <= n - 1 PROVE i * cap <= (n - 1) * cap
  <2>1. ASSUME NEW a \in Nat, NEW b \in Nat, a <= b PROVE a * cap <= b * cap
    <3>1. b - a \in Nat /\ b = a + (b - a)
      BY <2>1
    <3>2. ASSUME NEW c \in Nat PROVE (a + c) * cap = a * cap + c * cap /\ c * cap >= 0
      OBVIOUS
    <3> QED
      BY <1>2, <3>1, <3>2
  <2> QED
    BY <1>6, <1>9, <2>1
<1>10. ASSUME NEW i \in Nat, i <= n - 1 PROVE i * cap \in Nat /\ i * cap < L
  BY <1>2, <1>7, <1>8, <1>9, <1>10
<1>11. ASSUME NEW i \in 1..n PROVE i - 1 \in Nat /\ i - 1 <= n - 1 /\ i - 1 + 1 = i
  BY <1>1
<1>12. ASSUME NEW i \in 1..(n - 1) PROVE i \in Nat /\ i <= n - 1
  BY <1>1
<1> QED
  BY <1>1, <1>2, <1>4, <1>5, <1>8, <1>10, <1>11, <1>12


\* A sentence of a paragraph over the cap, cut every cap characters.
LEMMA SliceFacts ==
    ASSUME NEW text \in AllTexts, NEW p \in 1..Len(text), NEW s \in 1..Len(text[p]),
           NEW cap \in Nat, cap >= 1, Paragraph(text, p).len > cap,
           NEW piece, piece = Sentences(text, p)[s], NEW cut, cut = Slices(piece, cap)
    PROVE  /\ Cutting(text, cut, cap) /\ Capped(cut, cap) /\ cut # <<>>
           /\ From(cut) = Start(piece) /\ To(cut) = End(piece)
<1> DEFINE L == text[p][s]
           n == (L + cap - 1) \div cap
           lo(i) == (i - 1) * cap
           hi(i) == IF i = n THEN L ELSE i * cap
           st(i) == Stretch(p, s, lo(i) + 1, hi(i))
           slice(i) == [len |-> hi(i) - lo(i), holds |-> <<st(i)>>]
<1>1. /\ p \in Nat /\ s \in Nat /\ L \in Nat /\ L >= 1
      /\ piece.len = L /\ piece.holds[1] = Stretch(p, s, 1, L)
      /\ Start(piece) = <<p, s, 1>> /\ End(piece) = <<p, s, L>>
  <2>1. Len(text) \in Nat /\ Len(text[p]) \in Nat /\ L \in Nat /\ L >= 1
    BY TextFacts
  <2> QED
    BY <2>1, SentenceFacts
<1>2. cut = [i \in 1..n |-> slice(i)]
  BY <1>1 DEF Slices, Stretch
<1>3. /\ n \in Nat /\ n >= 1 /\ (n - 1) * cap < L /\ L <= n * cap
      /\ \A i \in 1..n : lo(i) \in Nat /\ lo(i) < L
      /\ \A i \in 1..(n - 1) : i * cap \in Nat /\ i * cap < L
      /\ \A i \in 1..n : i * cap = lo(i) + cap
  BY <1>1, Slots
<1>4. lo(1) = 0 /\ hi(n) = L
  OBVIOUS
<1>5. ASSUME NEW i \in 1..(n - 1) PROVE hi(i) = lo(i + 1) /\ hi(i) < L
  <2>1. i + 1 - 1 = i /\ i # n
    BY <1>3
  <2> QED
    BY <1>3, <2>1
<1> HIDE DEF L, n
<1>6. ASSUME NEW i \in 1..n
      PROVE  /\ lo(i) \in Nat /\ hi(i) \in Nat /\ hi(i) - lo(i) \in Nat
             /\ hi(i) >= lo(i) + 1 /\ hi(i) - lo(i) <= cap /\ hi(i) <= L
  <2>1. CASE i = n
    <3> HIDE DEF lo
    <3>1. hi(i) = L /\ lo(i) \in Nat /\ lo(i) < L /\ L <= lo(i) + cap
      BY <1>3, <2>1
    <3> HIDE DEF hi
    <3> QED
      BY <1>1, <3>1
  <2>2. CASE i # n
    <3>0. i \in 1..(n - 1)
      BY <1>3, <2>2
    <3>1. /\ hi(i) = i * cap /\ i * cap \in Nat /\ i * cap < L
          /\ i * cap = lo(i) + cap /\ lo(i) \in Nat
      BY <1>3, <2>2, <3>0
    <3> HIDE DEF hi, lo
    <3>2. hi(i) \in Nat /\ hi(i) < L /\ hi(i) = lo(i) + cap /\ lo(i) \in Nat
      BY <3>1
    <3> QED
      BY <1>1, <3>2
  <2> QED
    BY <2>1, <2>2
<1> HIDE DEF lo, hi
<1>7. ASSUME NEW i \in 1..n
      PROVE  /\ slice(i) \in Pieces /\ slice(i).len >= 1 /\ slice(i).len <= cap
             /\ Sound(text, slice(i))
             /\ Start(slice(i)) = <<p, s, lo(i) + 1>> /\ End(slice(i)) = <<p, s, hi(i)>>
  <2>1. /\ st(i) \in Stretches /\ st(i).p = p /\ st(i).s = s
        /\ st(i).from = lo(i) + 1 /\ st(i).to = hi(i)
    BY <1>1, <1>6 DEF Stretch, Stretches
  <2>2. hi(i) \in (lo(i) + 1)..text[p][s]
    BY <1>1, <1>6 DEF L
  <2> HIDE DEF st
  <2>3. <<st(i)>> \in Seq(Stretches) /\ Len(<<st(i)>>) = 1 /\ <<st(i)>>[1] = st(i)
    BY <2>1
  <2>4. /\ slice(i) \in Pieces /\ slice(i).holds = <<st(i)>> /\ slice(i).len = hi(i) - lo(i)
    BY <1>6, <2>3 DEF Pieces
  <2>5. hi(i) - lo(i) >= 1
    BY <1>6
  <2> HIDE DEF slice
  <2>6. /\ DOMAIN slice(i).holds = {1} /\ 1..(Len(slice(i).holds) - 1) = {}
        /\ slice(i).holds # <<>> /\ slice(i).holds[1] = st(i) /\ Len(slice(i).holds) = 1
    BY <2>3, <2>4
  <2>7. Sound(text, slice(i))
    BY <2>1, <2>2, <2>6 DEF Sound
  <2>8. Start(slice(i)) = <<p, s, lo(i) + 1>> /\ End(slice(i)) = <<p, s, hi(i)>>
    BY <2>1, <2>4, <2>6, <2>7, SoundFacts
  <2> QED
    BY <1>6, <2>4, <2>5, <2>7, <2>8
<1> HIDE DEF slice
<1>8. cut \in Seq(Pieces) /\ Len(cut) = n /\ \A i \in 1..n : cut[i] = slice(i)
  BY <1>2, <1>3, <1>7
<1>9. ASSUME NEW i \in 1..(n - 1) PROVE Seam(text, cut[i], cut[i + 1], cap)
  <2>1. i \in 1..n /\ i + 1 \in 1..n
    BY <1>3
  <2>2. /\ Start(cut[i + 1]) = <<p, s, lo(i + 1) + 1>>
        /\ End(cut[i]) = <<p, s, hi(i)>>
    BY <1>7, <1>8, <2>1
  <2>3. After(text, <<p, s, hi(i)>>) = <<p, s, hi(i) + 1>>
    BY <1>5 DEF After, L
  <2> QED
    BY <1>5, <2>2, <2>3 DEF Seam
<1>10. Cutting(text, cut, cap) /\ Capped(cut, cap)
  BY <1>7, <1>8, <1>9 DEF Cutting, Capped
<1>11. cut # <<>>
  BY <1>3, <1>8, EmptySeq
<1>12. From(cut) = <<p, s, 1>> /\ To(cut) = <<p, s, L>>
  <2>1. 1 \in 1..n /\ n \in 1..n
    BY <1>3
  <2>2. From(cut) = <<p, s, lo(1) + 1>> /\ To(cut) = <<p, s, hi(n)>>
    BY <1>7, <1>8, <2>1 DEF From, To
  <2> QED
    BY <1>4, <2>2
<1> QED
  BY <1>1, <1>10, <1>11, <1>12


-----------------------------------------------------------------------------
(* A paragraph over the cap                                                *)

\* Where a paragraph begins and ends.
Whole(text, pieces, p) ==
    /\ From(pieces) = <<p, 1, 1>>
    /\ To(pieces) = <<p, Len(text[p]), text[p][Len(text[p])]>>

\* Its sentences come out of the loop cut, all of them.
LEMMA SplitFacts ==
    ASSUME NEW text \in AllTexts, NEW p \in 1..Len(text), NEW slack \in Nat,
           NEW cap \in Nat, cap >= 1, Paragraph(text, p).len > cap, NEW made,
           made = Greedy(Sentences(text, p), Sliced(Sentences(text, p), cap), cap, 1, slack)
    PROVE  /\ Cutting(text, made, cap) /\ Capped(made, cap) /\ made # <<>>
           /\ Whole(text, made, p)
<1> DEFINE sentences == Sentences(text, p)
           n == Len(text[p])
           cuts == Sliced(sentences, cap)
<1>1. /\ n \in Nat /\ n >= 1
      /\ sentences \in Seq(Pieces) /\ Len(sentences) = n /\ sentences # <<>>
      /\ \A s \in 1..n : /\ sentences[s] \in Pieces /\ sentences[s].len >= 1
                         /\ Sound(text, sentences[s]) /\ Start(sentences[s]) = <<p, s, 1>>
                         /\ End(sentences[s]) = <<p, s, text[p][s]>>
      /\ \A s \in 1..(n - 1) : After(text, <<p, s, text[p][s]>>) = <<p, s + 1, 1>>
  BY TextFacts, SentenceFacts
<1>2. ASSUME NEW s \in 1..n PROVE Cuttable(text, sentences[s], cuts[s], cap)
  <2>1. s \in DOMAIN sentences
    BY <1>1
  <2>2. cuts[s] = Slices(sentences[s], cap)
    BY <2>1 DEF Sliced
  <2> HIDE DEF cuts
  <2>3. sentences[s].len > cap =>
           /\ Cutting(text, cuts[s], cap) /\ Capped(cuts[s], cap) /\ cuts[s] # <<>>
           /\ From(cuts[s]) = Start(sentences[s]) /\ To(cuts[s]) = End(sentences[s])
    BY <2>2, SliceFacts
  <2> HIDE DEF sentences
  <2> QED
    BY <1>1, <2>3 DEF Cuttable
<1>3. made = Greedy(sentences, cuts, cap, 1, slack)
  OBVIOUS
<1> HIDE DEF sentences, cuts, n
<1>4. ASSUME NEW s \in 1..(n - 1) PROVE Seam(text, sentences[s], sentences[s + 1], cap)
  <2>1. s \in 1..n /\ s + 1 \in 1..n
    BY <1>1
  <2>2. End(sentences[s]) = <<p, s, text[p][s]>> /\ Start(sentences[s + 1]) = <<p, s + 1, 1>>
    BY <1>1, <2>1
  <2> QED
    BY <1>1, <2>2 DEF Seam
<1>5. /\ Cutting(text, made, cap) /\ Capped(made, cap) /\ made # <<>>
      /\ From(made) = From(sentences) /\ To(made) = To(sentences)
  <2>1. InRow(text, sentences, cuts, cap)
    BY <1>1, <1>2, <1>4 DEF InRow
  <2> QED
    BY <1>1, <1>3, <2>1, GreedyCuts
<1>6. From(sentences) = <<p, 1, 1>> /\ To(sentences) = <<p, n, text[p][n]>>
  <2>1. 1 \in 1..n /\ n \in 1..n
    BY <1>1
  <2> QED
    BY <1>1, <2>1 DEF From, To
<1> QED
  BY <1>5, <1>6 DEF Whole, n

\* The parts of a script.
LEMMA PieceFacts ==
    ASSUME NEW text \in AllTexts, NEW p \in 1..Len(text), NEW cap \in Nat, cap >= 1,
           NEW made, made = split_piece(text, p, cap)
    PROVE  /\ Cutting(text, made, cap) /\ Capped(made, cap) /\ made # <<>>
           /\ Whole(text, made, p)
<1> DEFINE piece == Paragraph(text, p)
           last == Len(text[p])
<1>1. /\ piece \in Pieces /\ piece.len >= 1 /\ Sound(text, piece) /\ piece.len \in Nat
      /\ Start(piece) = <<p, 1, 1>> /\ End(piece) = <<p, last, text[p][last]>>
  BY ParagraphFacts DEF Pieces
<1>2. CASE piece.len <= cap
  <2>1. made = <<piece>>
    BY <1>2 DEF split_piece
  <2> HIDE DEF piece
  <2> QED
    BY <1>1, <1>2, <2>1, OnePiece DEF Whole
<1>3. CASE ~(piece.len <= cap)
  <2>1. made = Greedy(Sentences(text, p), Sliced(Sentences(text, p), cap), cap, 1, 0)
    BY <1>3 DEF split_piece
  <2>2. Paragraph(text, p).len > cap
    BY <1>1, <1>3
  <2> QED
    BY <2>1, <2>2, SplitFacts
<1> QED
  BY <1>2, <1>3

\* What a transcript's paragraph is cut into.
LEMMA OversizedFacts ==
    ASSUME NEW text \in AllTexts, NEW p \in 1..Len(text), NEW cap \in Nat, cap >= 1,
           Paragraph(text, p).len > cap, NEW made, made = split_oversized(text, p, cap)
    PROVE  /\ Cutting(text, made, cap) /\ Capped(made, cap) /\ made # <<>>
           /\ Whole(text, made, p)
BY SplitFacts DEF split_oversized


-----------------------------------------------------------------------------
(* Scripts                                                                 *)

LEMMA NextParagraph ==
    ASSUME NEW text \in AllTexts, NEW p \in 1..Len(text)
    PROVE  After(text, <<p, Len(text[p]), text[p][Len(text[p])]>>) = <<p + 1, 1, 1>>
<1>1. Len(text[p]) \in Nat /\ text[p][Len(text[p])] \in Nat
  BY TextFacts
<1> QED
  BY <1>1 DEF After

\* Between two paragraphs a text may be divided.
LEMMA ParagraphSeam ==
    ASSUME NEW text \in AllTexts, NEW p \in 1..Len(text), NEW cap, NEW a, NEW b,
           End(a) = <<p, Len(text[p]), text[p][Len(text[p])]>>, Start(b) = <<p + 1, 1, 1>>
    PROVE  Seam(text, a, b, cap)
<1>1. p \in Nat /\ p + 1 # p
  BY TextFacts
<1> QED
  BY <1>1, NextParagraph DEF Seam

\* What two of the loops are given in the end: the whole text.
Covers(text, pieces) ==
    From(pieces) = <<1, 1, 1>> /\ After(text, To(pieces)) = <<Len(text) + 1, 1, 1>>

\* The parts of all paragraphs, one after the other.
LEMMA PartsFacts ==
    ASSUME NEW text \in AllTexts, NEW cap \in Nat, cap >= 1,
           NEW parts, parts = Parts(text, cap)
    PROVE  /\ Cutting(text, parts, cap) /\ Capped(parts, cap) /\ parts # <<>>
           /\ Covers(text, parts)
<1> DEFINE N == Len(text)
           cut == [p \in 1..N |-> split_piece(text, p, cap)]
           step == [i \in 1..N |-> [a \in Seq(Pieces) |-> a \o cut[i]]]
<1>1. N \in Nat /\ N >= 1 /\ DOMAIN text = 1..N /\ <<>> \in Seq(Pieces)
  BY TextFacts, EmptySeq
<1>2. \A p \in 1..N : /\ Cutting(text, cut[p], cap) /\ Capped(cut[p], cap)
                      /\ cut[p] # <<>> /\ Whole(text, cut[p], p)
  BY PieceFacts
<1>3. cut = [p \in 1..N |-> cut[p]] /\ parts = FlattenSeq(cut)
  BY <1>1 DEF Parts
<1> HIDE DEF cut
<1>4. \A p \in 1..N : cut[p] \in Seq(Pieces)
  BY <1>2 DEF Cutting
<1>5. cut \in Seq(Seq(Pieces)) /\ Len(cut) = N
  BY <1>1, <1>3, <1>4
<1>6. step \in [1..N -> [Seq(Pieces) -> Seq(Pieces)]]
  <2>1. \A i \in 1..N : \A a \in Seq(Pieces) : a \o cut[i] \in Seq(Pieces)
    BY <1>4, ConcatProperties
  <2> QED
    BY <2>1
<1>7. PICK g \in [0..N -> Seq(Pieces)] :
         g[0] = <<>> /\ \A i \in 1..N : g[i] = g[i - 1] \o cut[i]
  <2>1. PICK h : Follows(h, N, Seq(Pieces), <<>>, step)
    <3> HIDE DEF step, N
    <3> QED
      BY <1>1, <1>6, Recursion
  <2>2. h \in [0..N -> Seq(Pieces)] /\ h[0] = <<>> /\ \A i \in 1..N : h[i] = step[i][h[i - 1]]
    BY <2>1 DEF Follows
  <2>3. ASSUME NEW i \in 1..N PROVE h[i] = h[i - 1] \o cut[i]
    <3>1. h[i - 1] \in Seq(Pieces)
      BY <1>1, <2>2
    <3> QED
      BY <2>2, <3>1
  <2> QED
    BY <2>2, <2>3
<1> DEFINE Loop(h) == h = [i \in 1..N |-> IF i = 1 THEN cut[i] ELSE h[i - 1] \o cut[i]]
           f == CHOOSE h : Loop(h)
           d == [i \in 1..N |-> g[i]]
<1>8. parts = f[N]
  <2>1. Len(cut) = N /\ N # 0
    BY <1>1, <1>5
  <2> HIDE DEF N
  <2> QED
    BY <1>3, <2>1 DEF FlattenSeq
<1>9. Loop(d)
  <2>1. ASSUME NEW i \in 1..N PROVE d[i] = IF i = 1 THEN cut[i] ELSE d[i - 1] \o cut[i]
    <3>1. CASE i = 1
      <4>0. i - 1 = 0 /\ d[i] = g[i]
        BY <3>1
      <4>1. d[i] = <<>> \o cut[i]
        BY <1>7, <4>0
      <4> QED
        BY <1>4, <3>1, <4>1, ConcatEmptySeq
    <3>2. CASE i # 1
      <4>1. i - 1 \in 1..N
        BY <1>1, <3>2
      <4> QED
        BY <1>7, <3>2, <4>1
    <3> QED
      BY <3>1, <3>2
  <2>2. d = [i \in 1..N |-> d[i]]
    OBVIOUS
  <2> QED
    BY <2>1, <2>2
<1>10. Loop(f)
  BY <1>9
<1> HIDE DEF f, step, N
<1>11. \A i \in 1..N : f[i] = IF i = 1 THEN cut[i] ELSE f[i - 1] \o cut[i]
  BY <1>10
<1> HIDE DEF Loop
\* After each paragraph.
<1> DEFINE Right(i) ==
              i > 0 => /\ Cutting(text, f[i], cap) /\ Capped(f[i], cap) /\ f[i] # <<>>
                       /\ From(f[i]) = <<1, 1, 1>>
                       /\ To(f[i]) = <<i, Len(text[i]), text[i][Len(text[i])]>>
           S == {i \in 0..N : Right(i)}
<1>12. 0 \in S
  BY <1>1
<1>13. ASSUME NEW i \in 1..N, i - 1 \in S PROVE i \in S
  <2>1. /\ Cutting(text, cut[i], cap) /\ Capped(cut[i], cap) /\ cut[i] # <<>>
        /\ From(cut[i]) = <<i, 1, 1>>
        /\ To(cut[i]) = <<i, Len(text[i]), text[i][Len(text[i])]>>
    BY <1>2 DEF Whole
  <2>2. CASE i = 1
    <3>1. f[i] = cut[i]
      BY <1>11, <2>2
    <3> QED
      BY <1>1, <2>1, <2>2, <3>1
  <2>3. CASE i # 1
    <3> DEFINE a == f[i - 1]
    <3>1. /\ i - 1 \in 1..N /\ i - 1 + 1 = i
          /\ Cutting(text, a, cap) /\ Capped(a, cap) /\ a # <<>> /\ From(a) = <<1, 1, 1>>
          /\ To(a) = <<i - 1, Len(text[i - 1]), text[i - 1][Len(text[i - 1])]>>
      BY <1>1, <1>13, <2>3
    <3>2. f[i] = a \o cut[i]
      BY <1>11, <2>3
    <3> HIDE DEF a
    <3>3. Seam(text, a[Len(a)], cut[i][1], cap)
      <4>1. /\ Start(cut[i][1]) = <<i - 1 + 1, 1, 1>>
            /\ End(a[Len(a)]) = <<i - 1, Len(text[i - 1]), text[i - 1][Len(text[i - 1])]>>
        BY <2>1, <3>1 DEF From, To
      <4>2. i - 1 \in 1..Len(text)
        BY <3>1 DEF N
      <4> QED
        BY <4>1, <4>2, ParagraphSeam
    <3>4. /\ Cutting(text, f[i], cap) /\ f[i] # <<>> /\ From(f[i]) = From(a)
          /\ To(f[i]) = To(cut[i]) /\ Capped(f[i], cap)
      <4> DEFINE c == cut[i]
      <4>1. /\ Cutting(text, a, cap) /\ Cutting(text, c, cap) /\ a # <<>> /\ c # <<>>
            /\ Seam(text, a[Len(a)], c[1], cap) /\ f[i] = a \o c
        BY <2>1, <3>1, <3>2, <3>3
      <4> HIDE DEF c
      <4>2. /\ Cutting(text, a \o c, cap) /\ a \o c # <<>>
            /\ From(a \o c) = From(a) /\ To(a \o c) = To(c)
            /\ Capped(a, cap) /\ Capped(c, cap) => Capped(a \o c, cap)
        BY <4>1, Spliced
      <4> QED
        BY <2>1, <3>1, <4>1, <4>2 DEF c
    <3> QED
      BY <1>1, <2>1, <3>1, <3>4
  <2> QED
    BY <2>2, <2>3
<1> HIDE DEF S
<1>14. 0..N \subseteq S
  BY <1>1, <1>12, <1>13, CountUp
<1>15. Right(N) /\ N \in 1..Len(text)
  BY <1>1, <1>14 DEF S, N
<1>16. After(text, To(parts)) = <<Len(text) + 1, 1, 1>>
  BY <1>1, <1>8, <1>15, NextParagraph DEF N
<1> QED
  BY <1>1, <1>8, <1>15, <1>16 DEF Covers

\* What is promised of the chunks.
LEMMA CutsWellFacts ==
    ASSUME NEW text, NEW cap \in Nat, NEW chunks, Cutting(text, chunks, cap),
           Capped(chunks, cap), chunks # <<>>, Covers(text, chunks)
    PROVE  CutsWell(text, chunks, cap)
<1>1. chunks \in Seq(Pieces) /\ DOMAIN chunks = 1..Len(chunks) /\ Len(chunks) \in Nat
  BY DEF Cutting
<1>2. Head(chunks) = chunks[1] /\ Last(chunks) = chunks[Len(chunks)]
  BY <1>1 DEF Last
<1>3. ASSUME NEW i \in 1..Len(chunks) PROVE chunks[i].len \in 1..cap /\ Sound(text, chunks[i])
  <2>1. chunks[i] \in Pieces
    BY <1>1
  <2>2. chunks[i].len \in Nat
    BY <2>1 DEF Pieces
  <2> QED
    BY <2>2 DEF Cutting, Capped
<1> QED
  BY <1>1, <1>2, <1>3 DEF Cutting, Covers, CutsWell, From, To


\* Pieces within the cap are not cut again.
LEMMA RowOfParts ==
    ASSUME NEW text, NEW cap \in Nat, NEW pieces, NEW cuts,
           Cutting(text, pieces, cap), Capped(pieces, cap), pieces # <<>>
    PROVE  InRow(text, pieces, cuts, cap)
<1>1. pieces \in Seq(Pieces)
  BY DEF Cutting
<1>2. ASSUME NEW i \in 1..Len(pieces) PROVE Cuttable(text, pieces[i], cuts[i], cap)
  <2>1. pieces[i] \in Pieces /\ pieces[i].len <= cap
    BY <1>1 DEF Capped
  <2>2. ~(pieces[i].len > cap)
    BY <2>1 DEF Pieces
  <2> QED
    BY <2>1, <2>2 DEF Cuttable, Cutting
<1> QED
  BY <1>1, <1>2 DEF InRow, Cutting

\* A script: the chunks keep within the cap of the speech server, lose nothing and divide no
\* paragraph that fits.
THEOREM ScriptCutsWell ==
    ASSUME NEW text \in AllTexts, NEW cap \in Nat, cap >= 1
    PROVE  /\ CutsWell(text, chunk_script(text, cap), cap)
           /\ Len(chunk_script(text, cap)) \in Nat
<1> DEFINE parts == Parts(text, cap)
           cuts == [i \in DOMAIN parts |-> <<parts[i]>>]
           made == chunk_script(text, cap)
<1>1. /\ Cutting(text, parts, cap) /\ Capped(parts, cap) /\ parts # <<>>
      /\ Covers(text, parts)
  BY PartsFacts
<1>2. made = Greedy(parts, cuts, cap, 2, 0)
  BY DEF chunk_script
<1> HIDE DEF parts, cuts, made
<1>3. InRow(text, parts, cuts, cap)
  BY <1>1, RowOfParts
<1>4. /\ Cutting(text, made, cap) /\ Capped(made, cap) /\ made # <<>>
      /\ From(made) = From(parts) /\ To(made) = To(parts)
  BY <1>2, <1>3, GreedyCuts
<1>5. Covers(text, made)
  BY <1>1, <1>4 DEF Covers
<1>6. CutsWell(text, made, cap) /\ Len(made) \in Nat
  <2>1. Len(made) \in Nat
    BY <1>4 DEF Cutting
  <2> QED
    BY <1>4, <1>5, <2>1, CutsWellFacts
<1> QED
  BY <1>6 DEF made

\* A transcript over the budget, as one that is cut is.
THEOREM TranscriptCutsWell ==
    ASSUME NEW text \in AllTexts, NEW cap \in Nat, cap >= 1,
           Len(text) > 1 \/ Paragraph(text, 1).len > cap
    PROVE  CutsWell(text, chunk_transcript(text, cap), cap)
<1> DEFINE N == Len(text)
           units == IF N = 1 THEN split_oversized(text, 1, cap)
                    ELSE [p \in DOMAIN text |-> Paragraph(text, p)]
           cuts == [i \in DOMAIN units |-> split_oversized(text, units[i].holds[1].p, cap)]
           made == chunk_transcript(text, cap)
<1>1. N \in Nat /\ N >= 1 /\ DOMAIN text = 1..N
  BY TextFacts
<1>2. made = Greedy(units, cuts, cap, 2, 2)
  BY DEF chunk_transcript
<1>3. InRow(text, units, cuts, cap) /\ Covers(text, units)
  <2>1. CASE N = 1
    <3> DEFINE sole == split_oversized(text, 1, cap)
    <3>0. 1 \in 1..Len(text) /\ Paragraph(text, 1).len > cap
      BY <1>1, <2>1
    <3>1. /\ Cutting(text, sole, cap) /\ Capped(sole, cap) /\ sole # <<>>
          /\ Whole(text, sole, 1)
      BY <3>0, OversizedFacts
    <3>2. units = sole
      BY <2>1
    <3> HIDE DEF units, cuts, sole, N
    <3>3. InRow(text, units, cuts, cap)
      BY <3>1, <3>2, RowOfParts
    <3>4. Covers(text, units)
      BY <2>1, <3>0, <3>1, <3>2, NextParagraph DEF Whole, Covers, N
    <3> QED
      BY <3>3, <3>4
  <2>2. CASE N # 1
    <3>1. units = [p \in 1..N |-> Paragraph(text, p)]
      BY <1>1, <2>2
    <3> HIDE DEF units
    <3>2. \A p \in 1..N :
             /\ units[p] \in Pieces /\ units[p].len >= 1 /\ Sound(text, units[p])
             /\ Start(units[p]) = <<p, 1, 1>>
             /\ End(units[p]) = <<p, Len(text[p]), text[p][Len(text[p])]>>
      BY <3>1, ParagraphFacts
    <3>3. units \in Seq(Pieces) /\ Len(units) = N /\ DOMAIN units = 1..N
      BY <1>1, <3>1, <3>2
    <3>4. units # <<>>
      BY <1>1, <3>3, EmptySeq
    <3>5. ASSUME NEW p \in 1..N PROVE Cuttable(text, units[p], cuts[p], cap)
      <4>1. units[p].holds[1].p = p
        <5>1. Start(units[p]) = <<units[p].holds[1].p, units[p].holds[1].s,
                                  units[p].holds[1].from>>
          BY <3>2, SoundFacts
        <5> QED
          BY <3>2, <5>1
      <4>2. cuts[p] = split_oversized(text, p, cap)
        BY <3>3, <4>1
      <4> HIDE DEF cuts
      <4>3. units[p] = Paragraph(text, p)
        BY <3>1
      <4>4. units[p].len > cap =>
               /\ Cutting(text, cuts[p], cap) /\ Capped(cuts[p], cap) /\ cuts[p] # <<>>
               /\ Whole(text, cuts[p], p)
        BY <4>2, <4>3, OversizedFacts
      <4> QED
        BY <3>2, <4>4 DEF Cuttable, Whole
    <3> HIDE DEF cuts
    <3>6. ASSUME NEW p \in 1..(N - 1) PROVE Seam(text, units[p], units[p + 1], cap)
      <4>1. p \in 1..N /\ p + 1 \in 1..N
        BY <1>1
      <4> QED
        BY <3>2, <4>1, ParagraphSeam DEF N
    <3>7. InRow(text, units, cuts, cap)
      BY <3>3, <3>4, <3>5, <3>6 DEF InRow
    <3>8. Covers(text, units)
      <4>1. 1 \in 1..N /\ N \in 1..N
        BY <1>1
      <4>2. /\ From(units) = <<1, 1, 1>>
            /\ To(units) = <<N, Len(text[N]), text[N][Len(text[N])]>>
        BY <3>2, <3>3, <4>1 DEF From, To
      <4> QED
        BY <4>1, <4>2, NextParagraph DEF Covers, N
    <3> QED
      BY <3>7, <3>8
  <2> QED
    BY <2>1, <2>2
<1> HIDE DEF units, cuts, made, N
<1>4. /\ Cutting(text, made, cap) /\ Capped(made, cap) /\ made # <<>>
      /\ From(made) = From(units) /\ To(made) = To(units)
  BY <1>2, <1>3, GreedyCuts
<1>5. Covers(text, made)
  BY <1>3, <1>4 DEF Covers
<1>6. CutsWell(text, made, cap)
  BY <1>4, <1>5, CutsWellFacts
<1> QED
  BY <1>6 DEF made

\* Whatever the script of a digest and whatever the transcript that is cut, in every state of
\* every narration.
THEOREM EveryTextCutsWell == Spec => []TextsCutWell
<1>1. ASSUME NEW t \in Texts PROVE CutWell(t)
  <2>1. t \in AllTexts /\ max_chars \in Nat /\ max_chars >= 1
    BY NarrateAssumption DEF AllTexts
  <2> QED
    BY <2>1, ScriptCutsWell, TranscriptCutsWell DEF CutWell
<1>2. TextsCutWell
  BY <1>1 DEF TextsCutWell, AllCutWell
<1> QED
  BY <1>2, PTL


-----------------------------------------------------------------------------
(* The week the hourly job reads                                           *)

\* Numbers that are not infinitely many have a largest one: of the sets without, take a
\* smallest, and remove an element.
LEMMA LargestOf ==
    ASSUME NEW S, IsFiniteSet(S), S \subseteq Nat, S # {}
    PROVE  \E m \in S : \A x \in S : m >= x
<1> DEFINE Top(T) == \E m \in T : \A x \in T : m >= x
           Bad == {c \in Nat : \E T \in SUBSET S : T # {} /\ Cardinality(T) = c /\ ~Top(T)}
<1> SUFFICES ASSUME ~Top(S) PROVE FALSE
  OBVIOUS
<1>1. \A T \in SUBSET S : IsFiniteSet(T) /\ Cardinality(T) \in Nat
  BY FS_Subset, FS_CardinalityType
<1>2. Cardinality(S) \in Bad
  BY <1>1
<1> HIDE DEF Top
<1>3. PICK c \in Bad : \A b \in Bad : c =< b
  <2>1. Bad \subseteq Nat /\ Bad # {}
    BY <1>2
  <2> HIDE DEF Bad
  <2> QED
    BY <2>1, LeastOf
<1>4. PICK T \in SUBSET S : T # {} /\ Cardinality(T) = c /\ ~Top(T)
  BY <1>3
<1>5. PICK x \in T : TRUE
  BY <1>4
<1> DEFINE U == T \ {x}
<1>6. Cardinality(U) = c - 1 /\ Cardinality(U) \in Nat /\ c \in Nat /\ U \in SUBSET S
  BY <1>1, <1>3, <1>4, <1>5, FS_RemoveElement
<1>7. Top(U) \/ U = {}
  <2>1. c - 1 \notin Bad
    BY <1>3, <1>6
  <2> QED
    BY <1>6, <2>1
<1>8. CASE U = {}
  <2>1. T = {x} /\ x \in Nat
    BY <1>5, <1>8
  <2> QED
    BY <1>4, <2>1 DEF Top
<1>9. CASE Top(U)
  <2>1. PICK m \in U : \A y \in U : m >= y
    BY <1>9 DEF Top
  <2>2. T = U \cup {x} /\ T \subseteq Nat
    BY <1>5
  <2>3. CASE m >= x
    <3>1. m \in T /\ \A y \in T : m >= y
      BY <2>1, <2>2, <2>3
    <3> QED
      BY <1>4, <3>1 DEF Top
  <2>4. CASE ~(m >= x)
    <3>0. m \in Nat /\ x \in Nat /\ \A y \in U : y \in Nat
      BY <2>2
    <3>1. x \in T /\ \A y \in T : x >= y
      BY <2>1, <2>2, <2>4, <3>0
    <3> QED
      BY <1>4, <3>1 DEF Top
  <2> QED
    BY <2>3, <2>4
<1> QED
  BY <1>7, <1>8, <1>9

LEMMA MaxFacts ==
    ASSUME NEW S, IsFiniteSet(S), S \subseteq Nat, S # {}
    PROVE  Max(S) \in S /\ \A x \in S : Max(S) >= x
BY LargestOf DEF Max

LEMMA DocumentFacts == IsFiniteSet(Documents) /\ Documents \subseteq Nat
BY NarrateAssumption, FS_Subset DEF Documents

\* There is one it looks at: after the one generated last, none is.
LEMMA NewestIsDocument ==
    ASSUME generated \in [Periods -> Nat], Documents # {}
    PROVE  Newest \in Documents
<1> DEFINE times == {generated[p] : p \in Documents}
           scanned == {p \in Documents : Cardinality(GeneratedSince(p)) < NEWEST_SCAN}
<1>1. IsFiniteSet(times)
  <2> DEFINE f == [p \in Documents |-> generated[p]]
  <2>1. f \in Surjection(Documents, times)
    BY DEF Surjection
  <2> QED
    BY <2>1, DocumentFacts, FS_Surjection
<1>2. times \subseteq Nat /\ times # {}
  BY DEF Documents
<1> HIDE DEF times
<1>3. PICK t \in times : \A x \in times : t >= x
  BY <1>1, <1>2, LargestOf
<1>4. PICK p \in Documents : t = generated[p]
  BY <1>3 DEF times
<1>5. \A q \in Documents : ~(generated[q] > generated[p])
  BY <1>3, <1>4, <1>2 DEF times
<1>6. GeneratedSince(p) = {}
  BY <1>5 DEF GeneratedSince
<1>7. p \in scanned
  <2>1. Cardinality(GeneratedSince(p)) = 0
    BY <1>6, FS_EmptySet
  <2>2. 0 < NEWEST_SCAN
    BY NarrateAssumption
  <2> QED
    BY <2>1, <2>2
<1>8. IsFiniteSet(scanned) /\ scanned \subseteq Nat /\ scanned # {} /\ scanned \subseteq Documents
  BY <1>7, DocumentFacts, FS_Subset
<1>9. Newest = Max(scanned)
  BY DEF Newest
<1> HIDE DEF scanned
<1> QED
  BY <1>8, <1>9, MaxFacts

\* What the hourly job takes is the latest week, if that is among those it looks at.
LEMMA NewestIsMax ==
    ASSUME Documents # {}, Cardinality(GeneratedSince(Max(Documents))) < NEWEST_SCAN
    PROVE  Newest = Max(Documents)
<1> DEFINE m == Max(Documents)
           scanned == {p \in Documents : Cardinality(GeneratedSince(p)) < NEWEST_SCAN}
<1>1. IsFiniteSet(Documents) /\ Documents \subseteq Nat
  BY DocumentFacts
<1>2. m \in Documents /\ \A p \in Documents : m >= p
  BY <1>1, MaxFacts
<1> HIDE DEF m
<1>3. m \in scanned /\ scanned \subseteq Documents
  BY <1>2 DEF m
<1>4. IsFiniteSet(scanned) /\ scanned \subseteq Nat /\ scanned # {}
  BY <1>1, <1>3, FS_Subset
<1>5. Newest = Max(scanned)
  BY DEF Newest
<1> HIDE DEF scanned
<1>6. Newest \in scanned /\ \A p \in scanned : Newest >= p
  BY <1>4, <1>5, MaxFacts
<1>7. Newest \in Nat /\ m \in Nat /\ Newest >= m /\ m >= Newest
  BY <1>2, <1>3, <1>4, <1>6
<1>8. Newest = m
  BY <1>7
<1> QED
  BY <1>8 DEF m

-----------------------------------------------------------------------------
(* The audio                                                               *)

\* A file that can be played holds the whole script, whatever failed or died on the way.
AudioIsWhole == \A f \in Files : audio[f] # NONE => audio[f].whole

\* At the speech server the partial file holds the chunks that the loop has counted; a file
\* in hand is one of the model's, so that what is written of it is written.
NarrateInv ==
    /\ runs \in [Periods -> Nat] /\ clock \in 0..MaxRuns
    /\ \A p \in Periods : runs[p] <= clock
    /\ generated \in [Periods -> Nat]
    /\ summaries \in 0..MaxSummaries
    /\ DOMAIN audio = Files
    /\ tmp \in [Files -> Nat \cup {NONE}]
    /\ work \in [at : {"idle", "episodes", "synth", "embed", "record"}, f : Files \cup {NONE},
                 hourly : BOOLEAN, total : Nat, spoken : Nat, said : 0..MaxSummaries]
    /\ work.at # "idle" => work.f \in Files
    /\ work.at = "episodes" => work.spoken = 0
    /\ work.at = "synth" => tmp[work.f] = work.spoken
    /\ AudioIsWhole

LEMMA NarrateInvariant == Spec => []NarrateInv
<1>1. Init => NarrateInv
  <2> SUFFICES ASSUME Init PROVE NarrateInv
    OBVIOUS
  <2>1. MaxRuns \in Nat /\ MaxSummaries \in Nat
    BY NarrateAssumption
  <2> QED
    BY <2>1 DEF Init, NarrateInv, AudioIsWhole, Idle
<1>2. NarrateInv /\ [Next]_vars => NarrateInv'
  <2> SUFFICES ASSUME NarrateInv, [Next]_vars PROVE NarrateInv'
    OBVIOUS
  <2>0. /\ MaxRuns \in Nat /\ MaxSummaries \in Nat /\ NONE \notin Nat
        /\ Files = Periods \X (1..MaxRuns)
    BY NarrateAssumption DEF Files
  <2> USE DEF NarrateInv, AudioIsWhole
  <2>1. CASE UNCHANGED vars
    BY <2>1 DEF vars
  <2>2. ASSUME NEW p \in Periods, Generate(p) PROVE NarrateInv'
    <3>1. runs'[p] = runs[p] + 1 /\ \A q \in Periods : q # p => runs'[q] = runs[q]
      BY <2>2 DEF Generate
    <3>2. /\ runs' \in [Periods -> Nat] /\ clock' \in 0..MaxRuns
          /\ \A q \in Periods : runs'[q] <= clock'
      BY <2>0, <2>2, <3>1 DEF Generate
    <3> QED
      BY <2>2, <3>2 DEF Generate
  <2>3. CASE Resummarize
    BY <2>0, <2>3 DEF Resummarize
  <2>4. ASSUME NEW p \in Periods, NEW force \in BOOLEAN, NEW hourly \in BOOLEAN,
               Begins(p, force, hourly)
        PROVE  NarrateInv'
    <3>1. LatestFile(p) \in Files
      BY <2>0, <2>4 DEF Begins, LatestFile
    <3>2. work' = [at |-> "episodes", f |-> LatestFile(p), hourly |-> hourly, total |-> 0,
                   spoken |-> 0, said |-> 0]
      BY <2>4 DEF Begins, Idle
    <3>3. /\ work' \in [at : {"idle", "episodes", "synth", "embed", "record"},
                         f : Files \cup {NONE}, hourly : BOOLEAN, total : Nat,
                         spoken : Nat, said : 0..MaxSummaries]
          /\ work'.at = "episodes" /\ work'.f \in Files /\ work'.spoken = 0
      BY <2>0, <3>1, <3>2
    <3> QED
      BY <2>4, <3>3 DEF Begins
  <2>5. CASE Episodes
    <3>1. ASSUME NEW s \in Scripts,
                 work' = [work EXCEPT !.at = "synth", !.said = summaries,
                                      !.total = Len(chunk_script(s, max_chars))],
                 tmp' = [tmp EXCEPT ![work.f] = Opened(work.f)]
          PROVE  NarrateInv'
      <4>1. Len(chunk_script(s, max_chars)) \in Nat
        BY NarrateAssumption, ScriptCutsWell DEF AllTexts
      <4> QED
        BY <2>5, <3>1, <4>1 DEF Episodes, Works, Opened
    <3>2. CASE work' = Idle /\ UNCHANGED tmp
      BY <2>0, <2>5, <3>2 DEF Episodes, Idle
    <3> QED
      BY <2>5, <3>1, <3>2 DEF Episodes
  <2>6. CASE Speaks
    BY <2>6 DEF Speaks, Works
  <2>7. CASE SpeechFails
    BY <2>0, <2>7 DEF SpeechFails, Works, Idle
  <2>8. CASE Replaces
    BY <2>0, <2>8 DEF Replaces, Works
  <2>9. CASE Embeds
    BY <2>9 DEF Embeds, Works
  <2>10. CASE Records
    BY <2>0, <2>10 DEF Records, Works, Idle
  <2>11. CASE Dies
    BY <2>0, <2>11 DEF Dies, Works, Idle
  <2>12. CASE Hourly
    <3>1. Newest \in Periods
      BY <2>12, NewestIsDocument DEF Hourly, Documents
    <3> QED
      BY <2>4, <2>12, <3>1 DEF Hourly
  <2> QED
    BY <2>1, <2>2, <2>3, <2>4, <2>5, <2>6, <2>7, <2>8, <2>9, <2>10, <2>11, <2>12
       DEF Next, Narration, OwnerAsks
<1> QED
  BY <1>1, <1>2, PTL DEF Spec

\* What is read out is of a version there has been, and of none older than what can be
\* played: one narration at a time.
HeardInv ==
    /\ \A f \in Files : audio[f] # NONE => audio[f] \in [whole : {TRUE}, said : 0..summaries]
    /\ work.at = "synth" =>
          /\ work.said <= summaries
          /\ \A f \in Files : audio[f] # NONE => audio[f].said <= work.said

\* The narration, seen by who listens, is an audiobook: whole readings in the place of none
\* or of older ones, each in one step.
THEOREM NarrationIsAnAudiobook == Spec => ImplementsAudiobook
<1>1. Init => HeardInv /\ Listener!Init
  BY DEF Init, HeardInv, Idle, Listener!Init
<1>2. NarrateInv /\ HeardInv /\ [Next]_vars => HeardInv' /\ [Listener!Next]_audio
  <2> SUFFICES ASSUME NarrateInv, HeardInv, [Next]_vars
               PROVE  HeardInv' /\ [Listener!Next]_audio
    OBVIOUS
  <2>0. summaries \in 0..MaxSummaries /\ MaxSummaries \in Nat
    BY NarrateAssumption DEF NarrateInv
  <2>1. ASSUME UNCHANGED <<audio, summaries>>, work' = work \/ work'.at # "synth"
        PROVE  HeardInv' /\ [Listener!Next]_audio
    BY <2>1 DEF HeardInv
  <2>2. CASE UNCHANGED vars
    BY <2>1, <2>2 DEF vars
  <2>3. ASSUME NEW p \in Periods, Generate(p) PROVE HeardInv' /\ [Listener!Next]_audio
    BY <2>1, <2>3 DEF Generate
  <2>4. CASE Resummarize
    <3>1. summaries' = summaries + 1 /\ UNCHANGED <<audio, work>>
      BY <2>4 DEF Resummarize
    <3>2. \A s \in 0..summaries : s \in 0..summaries'
      BY <2>0, <3>1
    <3>3. work.at = "synth" => work.said <= summaries'
      BY <2>0, <3>1 DEF HeardInv, NarrateInv
    <3> QED
      BY <3>1, <3>2, <3>3 DEF HeardInv
  <2>5. ASSUME NEW p \in Periods, NEW force \in BOOLEAN, NEW hourly \in BOOLEAN,
               Begins(p, force, hourly)
        PROVE  HeardInv' /\ [Listener!Next]_audio
    <3>1. work'.at = "episodes" /\ UNCHANGED <<audio, summaries>>
      BY <2>5 DEF Begins, Idle
    <3> QED
      BY <2>1, <3>1
  <2>6. CASE Episodes
    <3>1. UNCHANGED <<audio, summaries>>
      BY <2>6 DEF Episodes
    <3>2. ASSUME NEW n, work' = [work EXCEPT !.at = "synth", !.said = summaries, !.total = n]
          PROVE  HeardInv' /\ [Listener!Next]_audio
      <4>1. work'.said = summaries
        BY <3>2 DEF NarrateInv
      <4>2. \A f \in Files : audio[f] # NONE => audio[f].said <= summaries
        <5> SUFFICES ASSUME NEW f \in Files, audio[f] # NONE PROVE audio[f].said <= summaries
          OBVIOUS
        <5>1. audio[f].said \in 0..summaries
          BY DEF HeardInv
        <5> QED
          BY <2>0, <5>1
      <4>3. summaries <= summaries
        BY <2>0
      <4> QED
        BY <3>1, <4>1, <4>2, <4>3 DEF HeardInv
    <3>3. CASE work' = Idle
      BY <2>1, <3>1, <3>3 DEF Idle
    <3> QED
      BY <2>6, <3>2, <3>3 DEF Episodes
  <2>7. CASE Speaks
    <3>1. /\ UNCHANGED <<audio, summaries>>
          /\ work.at = "synth" /\ work'.at = work.at /\ work'.said = work.said
      BY <2>7 DEF Speaks, Works, NarrateInv
    <3> QED
      BY <3>1 DEF HeardInv
  <2>8. CASE SpeechFails
    BY <2>1, <2>8 DEF SpeechFails, Idle
  <2>9. CASE Replaces
    <3> DEFINE f == work.f
               v == work.said
    <3>1. /\ f \in Files /\ v \in 0..MaxSummaries /\ v <= summaries
          /\ audio' = [audio EXCEPT ![f] = [whole |-> TRUE, said |-> v]]
          /\ audio[f] # NONE => audio[f].said <= v
      BY <2>9 DEF Replaces, Works, NarrateInv, HeardInv
    <3>2. work'.at = "embed" /\ UNCHANGED summaries
      BY <2>9 DEF Replaces, NarrateInv
    <3> HIDE DEF f, v
    <3>3. [whole |-> TRUE, said |-> v] \in [whole : {TRUE}, said : 0..summaries]
      BY <2>0, <3>1
    <3>4. HeardInv'
      BY <3>1, <3>2, <3>3 DEF HeardInv, NarrateInv
    <3>5. Listener!Publish(f, v)
      BY <3>1 DEF Listener!Publish, Listener!Reading
    <3> QED
      BY <3>1, <3>4, <3>5 DEF Listener!Next
  <2>10. CASE Embeds
    <3>1. work'.at = "record" /\ UNCHANGED <<audio, summaries>>
      BY <2>10 DEF Embeds, NarrateInv
    <3> QED
      BY <2>1, <3>1
  <2>11. CASE Records
    BY <2>1, <2>11 DEF Records, Idle
  <2>12. CASE Dies
    BY <2>1, <2>12 DEF Dies, Idle
  <2>13. CASE Hourly
    <3>1. Newest \in Periods
      BY <2>13, NewestIsDocument DEF Hourly, Documents, NarrateInv
    <3> QED
      BY <2>5, <2>13, <3>1 DEF Hourly
  <2> QED
    BY <2>2, <2>3, <2>4, <2>5, <2>6, <2>7, <2>8, <2>9, <2>10, <2>11, <2>12, <2>13
       DEF Next, Narration, OwnerAsks
<1> QED
  BY <1>1, <1>2, NarrateInvariant, PTL DEF Spec, ImplementsAudiobook, Listener!Spec


-----------------------------------------------------------------------------
(* Types                                                                   *)

\* Every variable has its type, in every narration.
THEOREM NarrateTypes == Spec => []NarrateTypeOK
<1> DEFINE Reading == [whole : BOOLEAN, said : 0..MaxSummaries]
           Rest ==
              /\ generated \in [Periods -> 0..MaxRuns]
              /\ embedded \subseteq Files
              /\ written \in [Files -> 0..MaxSummaries]
              /\ \A f \in Files : audio[f] = NONE \/ audio[f] \in Reading
              /\ deaths \in 0..MaxDeaths
<1>1. Init => Rest
  BY NarrateAssumption DEF Init
<1>2. NarrateInv /\ Rest /\ [Next]_vars => Rest'
  <2> SUFFICES ASSUME NarrateInv, Rest, [Next]_vars PROVE Rest'
    OBVIOUS
  <2>0. {MaxRuns, MaxSummaries, MaxDeaths} \subseteq Nat
    BY NarrateAssumption
  <2> USE DEF NarrateInv
  <2>1. CASE UNCHANGED vars
    BY <2>1 DEF vars
  <2>2. ASSUME NEW p \in Periods, Generate(p) PROVE Rest'
    <3>1. clock + 1 \in 0..MaxRuns
      BY <2>0, <2>2 DEF Generate
    <3> QED
      BY <2>2, <3>1 DEF Generate
  <2>3. CASE Resummarize
    BY <2>3 DEF Resummarize
  <2>4. ASSUME NEW p \in Periods, NEW force \in BOOLEAN, NEW hourly \in BOOLEAN,
               Begins(p, force, hourly)
        PROVE  Rest'
    BY <2>4 DEF Begins
  <2>5. CASE Episodes \/ Speaks \/ SpeechFails \/ Records
    BY <2>5 DEF Episodes, Speaks, SpeechFails, Records
  <2>6. CASE Replaces
    <3> DEFINE r == [whole |-> tmp[work.f] = work.total, said |-> work.said]
    <3>1. r \in Reading
      OBVIOUS
    <3>2. UNCHANGED <<generated, embedded, written, deaths>> /\ audio' = [audio EXCEPT ![work.f] = r]
      BY <2>6 DEF Replaces
    <3> HIDE DEF r
    <3> QED
      BY <3>1, <3>2
  <2>7. CASE Embeds
    BY <2>7 DEF Embeds, Works
  <2>8. CASE Dies
    BY <2>0, <2>8 DEF Dies
  <2>9. CASE Hourly
    <3>1. Newest \in Periods
      BY <2>9, NewestIsDocument DEF Hourly, Documents
    <3> QED
      BY <2>4, <2>9, <3>1 DEF Hourly
  <2> QED
    BY <2>1, <2>2, <2>3, <2>4, <2>5, <2>6, <2>7, <2>8, <2>9
       DEF Next, Narration, OwnerAsks
<1>3. NarrateInv /\ Rest => NarrateTypeOK
  <2> SUFFICES ASSUME NarrateInv, Rest PROVE NarrateTypeOK
    OBVIOUS
  <2>1. runs \in [Periods -> 0..MaxRuns]
    <3>1. ASSUME NEW p \in Periods PROVE runs[p] \in 0..MaxRuns
      <4>1. runs[p] \in Nat /\ runs[p] <= clock /\ clock \in 0..MaxRuns /\ MaxRuns \in Nat
        BY NarrateAssumption DEF NarrateInv
      <4> QED
        BY <4>1
    <3> QED
      BY <3>1 DEF NarrateInv
  <2>2. work.at \in {"idle", "episodes", "synth", "embed", "record"} /\ work.f \in Files \cup {NONE}
    BY DEF NarrateInv
  <2> QED
    BY <2>1, <2>2 DEF NarrateInv, NarrateTypeOK
<1> QED
  BY <1>1, <1>2, <1>3, NarrateInvariant, PTL DEF Spec

-----------------------------------------------------------------------------
(* The hourly job                                                          *)

\* It reads the latest week, also when older ones have been generated again since, as long as
\* they are fewer than it looks at.  Nothing else begins a narration of the hourly job.
THEOREM HourlyNewest == Spec => HourlyIsNewest
<1> DEFINE A == LET newest == Max(Documents)
                IN  HourlyBegins /\ Cardinality(GeneratedSince(newest)) < NEWEST_SCAN
                       => work'.f[1] = newest
<1>1. [Next]_vars => [A]_vars
  <2> SUFFICES ASSUME Next, HourlyBegins,
                      Cardinality(GeneratedSince(Max(Documents))) < NEWEST_SCAN
               PROVE  work'.f[1] = Max(Documents)
    OBVIOUS
  <2>1. work.at = "idle" /\ work'.at # "idle" /\ work'.hourly
    BY DEF HourlyBegins
  <2>2. CASE Hourly
    <3>1. work' = [Idle EXCEPT !.at = "episodes", !.f = LatestFile(Newest), !.hourly = TRUE]
      BY <2>2 DEF Hourly, Begins
    <3>2. work'.f = LatestFile(Newest)
      BY <3>1 DEF Idle
    <3>3. Newest = Max(Documents)
      BY <2>2, NewestIsMax DEF Hourly
    <3> QED
      BY <3>2, <3>3 DEF LatestFile
  <2>3. CASE Narration
    BY <2>1, <2>3 DEF Narration, Episodes, Speaks, SpeechFails, Replaces, Embeds, Records, Works
  <2>4. CASE Dies
    BY <2>1, <2>4 DEF Dies, Works
  <2>5. CASE Resummarize
    BY <2>1, <2>5 DEF Resummarize
  <2>6. ASSUME NEW p \in Periods, Generate(p) PROVE FALSE
    BY <2>1, <2>6 DEF Generate
  <2>7. ASSUME NEW p \in Periods, OwnerAsks(p) PROVE FALSE
    BY <2>1, <2>7 DEF OwnerAsks, Begins, Idle
  <2> QED
    BY <2>2, <2>3, <2>4, <2>5, <2>6, <2>7 DEF Next
<1> QED
  BY <1>1, PTL DEF Spec, HourlyIsNewest


=============================================================================
