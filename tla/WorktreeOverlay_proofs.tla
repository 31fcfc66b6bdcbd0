------------------------- MODULE WorktreeOverlay_proofs -------------------------
(***************************************************************************)
(* Proofs about the worktree management overlay and its path picker.       *)
(* First the picker's reading of what fzf writes, for a list of any length *)
(* and reads that are cut anywhere: what the parent shows as highlighted   *)
(* is what fzf last reported, once everything is read.  Then the overlay,  *)
(* for every registry, every announced list of trays and every input: its  *)
(* stages, its children and what was entered agree, the list on the screen *)
(* is the one its indexes are resolved with, what is shown as highlighted  *)
(* follows fzf, and nothing opens that was not chosen.                     *)
(***************************************************************************)
EXTENDS WorktreeOverlay, SequenceTheorems, NaturalsInduction, WellFoundedInduction, TLAPS

-----------------------------------------------------------------------------
(* The path picker *)

Parts == {"screen", "prefix", "focus", "value", "end"}
Pieces == [part : Parts, index : Nat]
Pickers(Entries) ==
  [process : {"null", "running", "chose", "failed"}, listed : Seq(Entries), focus : Nat,
   output : Seq(Pieces), pending : Seq(Pieces), highlighted : Nat]

\* What the parent has kept and what it has still to read.
Stream(picker) == picker.pending \o picker.output

\* Which part of a notification comes before which, screens lying between them.
Precedes(a, b) ==
  /\ (a.part = "prefix") = (b.part = "focus")
  /\ (a.part = "focus") = (b.part = "value")
  /\ (a.part = "value") = (b.part = "end")

\* A stream of screens and whole notifications, whose indexes are in a list of n.
IsWhole(s, n) ==
  /\ Len(s) > 0 => s[1].part \in {"screen", "prefix"} /\ s[Len(s)].part \in {"screen", "end"}
  /\ \A k \in 1 .. Len(s) - 1 : Precedes(s[k], s[k + 1])
  /\ \A k \in 1 .. Len(s) : s[k].part = "value" => s[k].index < n

\* The last value of a stream is the focus; without one it is what is shown.
Tells(s, shown, focus) ==
  /\ (\A k \in 1 .. Len(s) : s[k].part # "value") => shown = focus
  /\ \A k \in 1 .. Len(s) :
       s[k].part = "value" /\ (\A j \in k + 1 .. Len(s) : s[j].part # "value") =>
         s[k].index = focus

Follows(picker) ==
  /\ picker.focus < Len(picker.listed) /\ picker.highlighted < Len(picker.listed)
  /\ IsWhole(Stream(picker), Len(picker.listed))
  /\ Tells(Stream(picker), picker.highlighted, picker.focus)
  /\ \A k \in 1 .. Len(picker.pending) : picker.pending[k].part # "end"

PickerOK(picker, Entries) ==
  /\ picker \in Pickers(Entries)
  /\ picker.process # "null"
  /\ Follows(picker)

------------------------------------------------------------------------------
(* Sets of naturals have a least element; bounded ones a greatest.         *)

\* The numbers are well-founded under <, which stands in for an induction.
LEMMA LeastElement ==
  ASSUME NEW S, S \subseteq Nat, S # {}
  PROVE  \E m \in S : \A k \in S : m <= k
<1> DEFINE R == OpToRel(<, Nat)
<1>1. IsWellFoundedOn(R, Nat)
  BY NatLessThanWellFounded
<1>2. R = {ss \in Nat \X Nat : ss[1] < ss[2]}
  BY DEF OpToRel
<1> HIDE DEF R
<1>3. PICK m \in S : \A k \in S : <<k, m>> \notin R
  BY <1>1, WFMin
<1>4. \A k \in S : k \in Nat /\ m \in Nat /\ ~ (k < m)
  BY <1>2, <1>3
<1> QED  BY <1>3, <1>4

\* Min, of the community modules, is the least element.
LEMMA MinIsLeast ==
  ASSUME NEW S, S \subseteq Nat, S # {}
  PROVE  Min(S) \in S /\ \A k \in S : Min(S) <= k
  BY LeastElement DEF Min

\* Max, of the community modules, is the greatest element.
LEMMA MaxIsGreatest ==
  ASSUME NEW n \in Nat, NEW S, S \subseteq 0 .. n, S # {}
  PROVE  Max(S) \in S /\ \A k \in S : k <= Max(S)
<1> DEFINE D == {n - k : k \in S}
<1>1. D \subseteq Nat /\ D # {}
  <2>1. \A k \in S : n - k \in Nat
    OBVIOUS
  <2> QED  BY <2>1
<1>2. PICK d \in D : \A e \in D : d <= e
  BY <1>1, LeastElement
<1>3. PICK m \in S : d = n - m
  OBVIOUS
<1>4. \A k \in S : n - m <= n - k
  BY <1>2, <1>3
<1>5. \A k \in S : m >= k
  <2> SUFFICES ASSUME NEW k \in S PROVE m >= k
    OBVIOUS
  <2>1. m \in 0 .. n /\ k \in 0 .. n /\ n - m <= n - k
    BY <1>3, <1>4
  <2> QED  BY <2>1
<1>6. \E x \in S : \A y \in S : x >= y
  BY <1>3, <1>5
<1>7. Max(S) \in S /\ \A k \in S : Max(S) >= k
  BY <1>6 DEF Max
<1>8. \A a, b \in 0 .. n : a >= b => b <= a
  OBVIOUS
<1> QED  BY <1>7, <1>8

------------------------------------------------------------------------------
(* Streams                                                                 *)

\* A notification is four pieces that make a whole.
LEMMA NotificationPieces ==
  ASSUME NEW i \in Nat
  PROVE  /\ Notification(i) \in Seq(Pieces) /\ Len(Notification(i)) = 4
         /\ Notification(i)[1].part = "prefix" /\ Notification(i)[2].part = "focus"
         /\ Notification(i)[3].part = "value"  /\ Notification(i)[4].part = "end"
         /\ Notification(i)[3].index = i
<1>1. /\ Piece("prefix", 0) \in Pieces /\ Piece("focus", 0) \in Pieces
      /\ Piece("value", i) \in Pieces /\ Piece("end", 0) \in Pieces
  BY DEF Piece, Pieces, Parts
<1>2. Notification(i) \in Seq(Pieces) /\ Len(Notification(i)) = 4
  BY <1>1 DEF Notification
<1> QED  BY <1>2 DEF Notification, Piece

\* What a value in a whole stream stands between.
LEMMA ValueIsEnclosed ==
  ASSUME NEW n \in Nat, NEW s \in Seq(Pieces), IsWhole(s, n), NEW k \in 1 .. Len(s),
         s[k].part = "value"
  PROVE  /\ k > 2 /\ s[k - 1].part = "focus" /\ s[k - 2].part = "prefix"
         /\ k < Len(s) /\ s[k + 1].part = "end"
<1>1. Len(s) \in Nat /\ k \in Nat
  BY LenProperties
<1>2. k # 1 /\ k # Len(s)
  BY DEF IsWhole
<1>3. k - 1 \in 1 .. Len(s) - 1 /\ k \in 1 .. Len(s) - 1 /\ k - 1 + 1 = k
  BY <1>1, <1>2
<1>4. s[k - 1].part = "focus" /\ s[k + 1].part = "end"
  BY <1>3 DEF IsWhole, Precedes
<1>5. k - 1 # 1
  BY <1>4 DEF IsWhole
<1>6. k - 2 \in 1 .. Len(s) - 1 /\ k - 2 + 1 = k - 1
  BY <1>1, <1>3, <1>5
<1>7. s[k - 2].part = "prefix"
  BY <1>4, <1>6 DEF IsWhole, Precedes
<1> QED  BY <1>1, <1>3, <1>4, <1>6, <1>7

\* Behind a terminator or a screen, a whole stream begins or nothing does.
LEMMA SuffixIsWhole ==
  ASSUME NEW n \in Nat, NEW s \in Seq(Pieces), IsWhole(s, n), NEW m \in 0 .. Len(s),
         m < Len(s) => s[m + 1].part \in {"screen", "prefix"}
  PROVE  /\ SubSeq(s, m + 1, Len(s)) \in Seq(Pieces)
         /\ Len(SubSeq(s, m + 1, Len(s))) = Len(s) - m
         /\ \A k \in 1 .. Len(s) - m : SubSeq(s, m + 1, Len(s))[k] = s[m + k]
         /\ IsWhole(SubSeq(s, m + 1, Len(s)), n)
<1> DEFINE t == SubSeq(s, m + 1, Len(s))
<1>1. Len(s) \in Nat /\ \A i \in m + 1 .. Len(s) : s[i] \in Pieces
  BY ElementOfSeq, LenProperties
<1>2. /\ t \in Seq(Pieces) /\ Len(t) = Len(s) - m
      /\ \A k \in 1 .. Len(s) - m : t[k] = s[m + k]
  BY <1>1, SubSeqProperties
<1> HIDE DEF t
<1>3. ASSUME Len(t) > 0
      PROVE  t[1].part \in {"screen", "prefix"} /\ t[Len(t)].part \in {"screen", "end"}
  <2>0. /\ m < Len(s) /\ Len(s) > 0 /\ 1 \in 1 .. Len(s) - m
        /\ Len(t) \in 1 .. Len(s) - m /\ m + Len(t) = Len(s)
    BY <1>1, <1>2, <1>3
  <2>1. t[1] = s[m + 1] /\ t[Len(t)] = s[m + Len(t)]
    BY <1>2, <2>0
  <2> QED  BY <2>0, <2>1 DEF IsWhole
<1>4. ASSUME NEW k \in 1 .. Len(t) - 1 PROVE Precedes(t[k], t[k + 1])
  <2>1. m + k \in 1 .. Len(s) - 1 /\ t[k] = s[m + k] /\ t[k + 1] = s[(m + k) + 1]
    BY <1>1, <1>2
  <2> QED  BY <2>1 DEF IsWhole
<1>5. ASSUME NEW k \in 1 .. Len(t), t[k].part = "value" PROVE t[k].index < n
  <2>1. m + k \in 1 .. Len(s) /\ t[k] = s[m + k]
    BY <1>1, <1>2
  <2> QED  BY <2>1, <1>5 DEF IsWhole
<1>6. IsWhole(t, n)
  BY <1>3, <1>4, <1>5 DEF IsWhole
<1> QED  BY <1>2, <1>6 DEF t

\* Two whole streams, one behind the other, are a whole stream.
LEMMA ConcatIsWhole ==
  ASSUME NEW n \in Nat, NEW s \in Seq(Pieces), IsWhole(s, n),
         NEW u \in Seq(Pieces), IsWhole(u, n)
  PROVE  /\ s \o u \in Seq(Pieces) /\ Len(s \o u) = Len(s) + Len(u)
         /\ \A k \in 1 .. Len(s) : (s \o u)[k] = s[k]
         /\ \A k \in 1 .. Len(u) : (s \o u)[Len(s) + k] = u[k]
         /\ IsWhole(s \o u, n)
<1> DEFINE t == s \o u
<1>1. Len(s) \in Nat /\ Len(u) \in Nat
  BY LenProperties
<1>2. /\ t \in Seq(Pieces) /\ Len(t) = Len(s) + Len(u)
      /\ \A k \in 1 .. Len(s) + Len(u) :
           t[k] = IF k <= Len(s) THEN s[k] ELSE u[k - Len(s)]
  BY ConcatProperties
<1> HIDE DEF t
<1>3. \A k \in 1 .. Len(s) : t[k] = s[k]
  BY <1>1, <1>2
<1>4. \A k \in 1 .. Len(u) : t[Len(s) + k] = u[k]
  <2> SUFFICES ASSUME NEW k \in 1 .. Len(u) PROVE t[Len(s) + k] = u[k]
    OBVIOUS
  <2>1. Len(s) + k \in 1 .. Len(s) + Len(u) /\ ~ (Len(s) + k <= Len(s))
        /\ (Len(s) + k) - Len(s) = k
    BY <1>1
  <2> QED  BY <1>2, <2>1
<1>5. ASSUME NEW k \in 1 .. Len(t)
      PROVE  \/ k \in 1 .. Len(s) /\ t[k] = s[k]
             \/ k - Len(s) \in 1 .. Len(u) /\ t[k] = u[k - Len(s)]
  BY <1>1, <1>2
<1>6. ASSUME Len(t) > 0
      PROVE  t[1].part \in {"screen", "prefix"} /\ t[Len(t)].part \in {"screen", "end"}
  <2>1. \/ Len(s) > 0 /\ t[1] = s[1]
        \/ Len(u) > 0 /\ t[1] = u[1]
    BY <1>1, <1>2, <1>6
  <2>2. \/ Len(u) > 0 /\ t[Len(t)] = u[Len(u)]
        \/ Len(s) > 0 /\ t[Len(t)] = s[Len(s)]
    BY <1>1, <1>2, <1>6
  <2> QED  BY <2>1, <2>2 DEF IsWhole
<1>7. ASSUME NEW k \in 1 .. Len(t) - 1 PROVE Precedes(t[k], t[k + 1])
  <2>1. CASE k < Len(s)
    <3>1. k \in 1 .. Len(s) - 1 /\ t[k] = s[k] /\ t[k + 1] = s[k + 1]
      BY <1>1, <1>2, <2>1
    <3> QED  BY <3>1 DEF IsWhole
  <2>2. CASE k = Len(s)
    <3>0. /\ Len(s) > 0 /\ Len(u) > 0 /\ Len(s) \in 1 .. Len(s) /\ 1 \in 1 .. Len(u)
          /\ Len(s) + 1 = k + 1
      BY <1>1, <1>2, <2>2
    <3>1. Len(s) > 0 /\ Len(u) > 0 /\ t[k] = s[Len(s)] /\ t[k + 1] = u[1]
      BY <1>3, <1>4, <2>2, <3>0
    <3>2. s[Len(s)].part \in {"screen", "end"} /\ u[1].part \in {"screen", "prefix"}
      BY <3>1 DEF IsWhole
    <3> QED  BY <3>1, <3>2 DEF Precedes
  <2>3. CASE k > Len(s)
    <3>1. /\ k - Len(s) \in 1 .. Len(u) - 1 /\ t[k] = u[k - Len(s)]
          /\ t[k + 1] = u[(k - Len(s)) + 1]
      BY <1>1, <1>2, <2>3
    <3> QED  BY <3>1 DEF IsWhole
  <2> QED  BY <2>1, <2>2, <2>3, <1>1, <1>2
<1>8. ASSUME NEW k \in 1 .. Len(t), t[k].part = "value" PROVE t[k].index < n
  BY <1>5, <1>8 DEF IsWhole
<1>9. IsWhole(t, n)
  BY <1>6, <1>7, <1>8 DEF IsWhole
<1> QED  BY <1>2, <1>3, <1>4, <1>9 DEF t

\* Behind a notification that fzf adds, the stream is whole and tells its index.
LEMMA NotificationExtends ==
  ASSUME NEW n \in Nat, NEW s \in Seq(Pieces), IsWhole(s, n), NEW i \in Nat, i < n,
         NEW shown
  PROVE  /\ s \o Notification(i) \in Seq(Pieces)
         /\ IsWhole(s \o Notification(i), n)
         /\ Tells(s \o Notification(i), shown, i)
<1> DEFINE u == Notification(i)
           t == s \o Notification(i)
<1>1. /\ u \in Seq(Pieces) /\ Len(u) = 4
      /\ u[1].part = "prefix" /\ u[2].part = "focus" /\ u[3].part = "value"
      /\ u[4].part = "end" /\ u[3].index = i
  BY NotificationPieces
<1> HIDE DEF u
<1>2. IsWhole(u, n)
  <2>1. \A k \in 1 .. Len(u) - 1 : k = 1 \/ k = 2 \/ k = 3
    BY <1>1
  <2>2. \A k \in 1 .. Len(u) - 1 : Precedes(u[k], u[k + 1])
    BY <1>1, <2>1 DEF Precedes
  <2>3. \A k \in 1 .. Len(u) : k = 1 \/ k = 2 \/ k = 3 \/ k = 4
    BY <1>1
  <2>4. \A k \in 1 .. Len(u) : u[k].part = "value" => u[k].index < n
    BY <1>1, <2>3
  <2> QED  BY <1>1, <2>2, <2>4 DEF IsWhole
<1>3. /\ t \in Seq(Pieces) /\ Len(t) = Len(s) + 4 /\ Len(s) \in Nat
      /\ t[Len(s) + 3] = u[3] /\ t[Len(s) + 4] = u[4] /\ IsWhole(t, n)
  <2>1. t = s \o u
    BY DEF u
  <2> HIDE DEF t
  <2>2. /\ t \in Seq(Pieces) /\ Len(t) = Len(s) + Len(u) /\ IsWhole(t, n)
        /\ \A k \in 1 .. Len(u) : t[Len(s) + k] = u[k]
    BY <1>1, <1>2, <2>1, ConcatIsWhole
  <2>3. 3 \in 1 .. Len(u) /\ 4 \in 1 .. Len(u) /\ Len(s) \in Nat
    BY <1>1, LenProperties
  <2> QED  BY <1>1, <2>2, <2>3
<1> HIDE DEF t
<1>4. Len(s) + 3 \in 1 .. Len(t) /\ t[Len(s) + 3].part = "value"
  BY <1>1, <1>3
<1>5. ASSUME NEW k \in 1 .. Len(t), t[k].part = "value",
             \A j \in k + 1 .. Len(t) : t[j].part # "value"
      PROVE  t[k].index = i
  <2>1. ~ (k < Len(s) + 3)
    BY <1>3, <1>4, <1>5
  <2>2. k = Len(s) + 3 \/ k = Len(s) + 4
    BY <1>3, <2>1
  <2> QED  BY <1>1, <1>3, <1>5, <2>2
<1>6. Tells(t, shown, i)
  BY <1>4, <1>5 DEF Tells
<1> QED  BY <1>3, <1>6 DEF t

\* What fzf draws changes nothing that a stream tells.
LEMMA ScreenExtends ==
  ASSUME NEW n \in Nat, NEW s \in Seq(Pieces), IsWhole(s, n), NEW shown, NEW focus,
         Tells(s, shown, focus)
  PROVE  /\ s \o <<Screen>> \in Seq(Pieces)
         /\ IsWhole(s \o <<Screen>>, n)
         /\ Tells(s \o <<Screen>>, shown, focus)
<1> DEFINE u == <<Screen>>
           t == s \o <<Screen>>
<1>1. u \in Seq(Pieces) /\ Len(u) = 1 /\ u[1].part = "screen"
  BY DEF Screen, Piece, Pieces, Parts
<1> HIDE DEF u
<1>2. IsWhole(u, n)
  <2>1. \A k \in 1 .. Len(u) : k = 1
    BY <1>1
  <2>2. 1 .. Len(u) - 1 = {}
    BY <1>1
  <2> QED  BY <1>1, <2>1, <2>2 DEF IsWhole
<1>3. /\ t \in Seq(Pieces) /\ Len(t) = Len(s) + 1 /\ Len(s) \in Nat
      /\ \A k \in 1 .. Len(s) : t[k] = s[k]
      /\ t[Len(s) + 1] = u[1] /\ IsWhole(t, n)
  <2>1. t = s \o u
    BY DEF u
  <2> HIDE DEF t
  <2>2. /\ t \in Seq(Pieces) /\ Len(t) = Len(s) + Len(u) /\ IsWhole(t, n)
        /\ \A k \in 1 .. Len(s) : t[k] = s[k]
        /\ \A k \in 1 .. Len(u) : t[Len(s) + k] = u[k]
    BY <1>1, <1>2, <2>1, ConcatIsWhole
  <2>3. 1 \in 1 .. Len(u) /\ Len(s) \in Nat
    BY <1>1, LenProperties
  <2> QED  BY <1>1, <2>2, <2>3
<1> HIDE DEF t
<1>4. \A k \in 1 .. Len(t) : t[k].part = "value" => k \in 1 .. Len(s)
  <2>1. \A k \in 1 .. Len(t) : k \in 1 .. Len(s) \/ k = Len(s) + 1
    BY <1>3
  <2> QED  BY <1>1, <1>3, <2>1
<1>5. (\A k \in 1 .. Len(t) : t[k].part # "value") => shown = focus
  BY <1>3 DEF Tells
<1>6. ASSUME NEW k \in 1 .. Len(t), t[k].part = "value",
             \A j \in k + 1 .. Len(t) : t[j].part # "value"
      PROVE  t[k].index = focus
  <2>1. k \in 1 .. Len(s) /\ t[k] = s[k]
    BY <1>3, <1>4, <1>6
  <2>2. \A j \in k + 1 .. Len(s) : s[j].part # "value"
    BY <1>3, <1>6, <2>1
  <2> QED  BY <1>6, <2>1, <2>2 DEF Tells
<1>7. Tells(t, shown, focus)
  BY <1>5, <1>6 DEF Tells
<1> QED  BY <1>3, <1>7 DEF t

------------------------------------------------------------------------------
(* A read cuts the stream; what is kept starts between two notifications.  *)

\* A sequence of one piece is that piece.
LEMMA OneElement ==
  ASSUME NEW t \in Seq(Pieces), Len(t) = 1
  PROVE  t = <<t[1]>>
<1> DEFINE u == <<t[1]>>
<1>1. t[1] \in Pieces
  <2>1. 1 \in 1 .. Len(t)
    OBVIOUS
  <2> QED  BY <2>1, ElementOfSeq
<1>2. u \in Seq(Pieces) /\ Len(u) = 1 /\ u[1] = t[1]
  BY <1>1
<1> HIDE DEF u
<1>3. \A i \in 1 .. Len(t) : t[i] = u[i]
  BY <1>2
<1>4. t = u
  BY <1>2, <1>3, SeqEqual
<1> QED  BY <1>4 DEF u

\* In what has been read of a whole stream, every terminator has its prefix.
LEMMA EndsAreTerminators ==
  ASSUME NEW n \in Nat, NEW s \in Seq(Pieces), IsWhole(s, n), NEW b \in Seq(Pieces),
         Len(b) <= Len(s), \A k \in 1 .. Len(b) : b[k] = s[k]
  PROVE  Ends(b) = {k \in 1 .. Len(b) : b[k].part = "end"}
<1>1. Len(s) \in Nat /\ Len(b) \in Nat /\ DOMAIN b = 1 .. Len(b)
  BY LenProperties
<1>2. ASSUME NEW k \in 1 .. Len(b), b[k].part = "end"
      PROVE  \E j \in 1 .. k : Opens(b, j)
  <2>1. k \in 1 .. Len(s) /\ s[k].part = "end"
    BY <1>1, <1>2
  <2>2. k # 1
    BY <2>1 DEF IsWhole
  <2>3. k - 1 \in 1 .. Len(s) /\ k - 1 \in 1 .. Len(s) - 1 /\ k - 1 + 1 = k
    BY <1>1, <2>1, <2>2
  <2>4. s[k - 1].part = "value"
    BY <2>1, <2>3 DEF IsWhole, Precedes
  <2>5. /\ k - 1 > 2 /\ s[(k - 1) - 1].part = "focus" /\ s[(k - 1) - 2].part = "prefix"
    BY <2>3, <2>4, ValueIsEnclosed
  <2>6. /\ k - 3 \in 1 .. k /\ k - 3 \in 1 .. Len(b) /\ k - 3 + 1 \in 1 .. Len(b)
        /\ (k - 1) - 2 = k - 3 /\ (k - 1) - 1 = k - 3 + 1
    BY <1>1, <2>5
  <2>7. b[k - 3].part = "prefix" /\ b[k - 3 + 1].part = "focus"
    BY <2>5, <2>6
  <2>8. Opens(b, k - 3)
    BY <1>1, <2>6, <2>7 DEF Opens
  <2> QED  BY <2>6, <2>8
<1> QED  BY <1>1, <1>2 DEF Ends

\* What is kept of the rest b after the last terminator starts with a prefix
\* or a screen, and no value is dropped with what lies before it.
LEMMA KeptIsSuffix ==
  ASSUME NEW n \in Nat, NEW s \in Seq(Pieces), IsWhole(s, n), NEW done \in Nat,
         NEW b \in Seq(Pieces), done + Len(b) <= Len(s),
         \A k \in 1 .. Len(b) : b[k] = s[done + k] /\ b[k].part # "end",
         done < Len(s) => s[done + 1].part \in {"screen", "prefix"}
  PROVE  \E m \in 0 .. Len(b) :
           /\ Kept(b) = SubSeq(b, m + 1, Len(b))
           /\ done + m < Len(s) => s[done + m + 1].part \in {"screen", "prefix"}
           /\ \A k \in 1 .. m : b[k].part # "value"
<1> DEFINE starts == {k \in DOMAIN b : Opens(b, k)}
<1>1. Len(s) \in Nat /\ Len(b) \in Nat /\ DOMAIN b = 1 .. Len(b)
  BY LenProperties
<1>2. ASSUME NEW k \in 1 .. Len(b), b[k].part \in {"focus", "value"}
      PROVE  \E j \in starts : j < k
  <2>1. ASSUME NEW j \in 1 .. Len(b), b[j].part = "focus"
        PROVE  j > 1 /\ j - 1 \in starts
    <3>1. done + j \in 1 .. Len(s) /\ s[done + j].part = "focus"
      BY <1>1, <2>1
    <3>2. j # 1
      <4>1. done < Len(s)
        BY <1>1, <2>1
      <4> QED  BY <3>1, <4>1
    <3>3. /\ (done + j) - 1 \in 1 .. Len(s) - 1 /\ ((done + j) - 1) + 1 = done + j
          /\ j - 1 \in 1 .. Len(b) /\ done + (j - 1) = (done + j) - 1
          /\ j - 1 + 1 = j
      BY <1>1, <3>1, <3>2
    <3>4. s[(done + j) - 1].part = "prefix"
      BY <3>1, <3>3 DEF IsWhole, Precedes
    <3>5. b[j - 1].part = "prefix"
      BY <3>3, <3>4
    <3> QED  BY <1>1, <2>1, <3>2, <3>3, <3>5 DEF Opens
  <2>2. CASE b[k].part = "focus"
    <3>1. k > 1 /\ k - 1 \in starts
      BY <2>1, <2>2
    <3> HIDE DEF starts
    <3> QED  BY <3>1
  <2>3. CASE b[k].part = "value"
    <3>1. done + k \in 1 .. Len(s) /\ s[done + k].part = "value"
      BY <1>1, <2>3
    <3>2. done + k > 2 /\ s[(done + k) - 1].part = "focus"
      BY <3>1, ValueIsEnclosed
    <3>3. k # 1
      <4>1. done < Len(s)
        BY <1>1
      <4> QED  BY <3>1, <4>1
    <3>4. k - 1 \in 1 .. Len(b) /\ done + (k - 1) = (done + k) - 1
      BY <1>1, <3>3
    <3>5. b[k - 1].part = "focus"
      BY <3>2, <3>4
    <3>6. k - 1 > 1 /\ (k - 1) - 1 \in starts
      BY <2>1, <3>4, <3>5
    <3> HIDE DEF starts
    <3> QED  BY <3>6
  <2> QED  BY <1>2, <2>2, <2>3
<1>3. CASE starts # {}
  <2>1. starts \subseteq Nat /\ starts \subseteq 1 .. Len(b)
    BY <1>1
  <2>2. Min(starts) \in starts /\ \A k \in starts : Min(starts) <= k
    BY <1>3, <2>1, MinIsLeast
  <2>3. Kept(b) = SubSeq(b, Min(starts), Len(b))
    BY <1>3 DEF Kept
  <2>4. b[Min(starts)].part = "prefix"
    BY <2>2 DEF Opens
  <2> HIDE DEF starts
  <2>5. PICK j \in 1 .. Len(b) : j = Min(starts)
    BY <2>1, <2>2
  <2>6. /\ j - 1 \in 0 .. Len(b) /\ (j - 1) + 1 = j /\ done + (j - 1) + 1 = done + j
    BY <1>1
  <2>7. s[done + j].part = "prefix"
    BY <2>4, <2>5
  <2>8. ASSUME NEW k \in 1 .. j - 1 PROVE b[k].part # "value"
    <3>1. k \in 1 .. Len(b) /\ \A i \in starts : ~ (i < k)
      BY <1>1, <2>1, <2>2, <2>5
    <3> QED  BY <1>2, <3>1
  <2>9. Kept(b) = SubSeq(b, (j - 1) + 1, Len(b))
    BY <2>3, <2>5, <2>6
  <2>10. s[done + (j - 1) + 1].part = "prefix"
    BY <2>6, <2>7
  <2> QED  BY <2>6, <2>8, <2>9, <2>10
<1>4. CASE starts = {}
  <2>1. \A k \in 1 .. Len(b) : b[k].part \notin {"focus", "value"}
    BY <1>2, <1>4
  <2>2. Kept(b) = Retained(b)
    BY <1>4 DEF Kept
  <2> HIDE DEF starts
  <2>3. CASE b = <<>>
    <3>1. Len(b) = 0 /\ Kept(b) = <<>>
      BY <2>2, <2>3 DEF Retained
    <3>2. SubSeq(b, 0 + 1, Len(b)) = <<>>
      BY <3>1, SubSeqEmpty
    <3> QED  BY <3>1, <3>2
  <2>4. CASE b # <<>>
    <3>1. Len(b) \in Nat \ {0} /\ Kept(b) = <<b[Len(b)]>>
      BY <2>2, <2>4, EmptySeq DEF Retained
    <3>2. /\ Len(b) - 1 \in 0 .. Len(b) /\ (Len(b) - 1) + 1 = Len(b) /\ Len(b) \in 1 .. Len(b)
          /\ done + (Len(b) - 1) + 1 = done + Len(b)
      BY <3>1
    <3>3. SubSeq(b, Len(b), Len(b)) = <<b[Len(b)]>>
      <4>1. b[Len(b)] \in Pieces
        BY <3>2, ElementOfSeq
      <4>2. \A i \in Len(b) .. Len(b) : b[i] \in Pieces
        BY <3>1, <4>1
      <4>3. /\ SubSeq(b, Len(b), Len(b)) \in Seq(Pieces)
            /\ Len(SubSeq(b, Len(b), Len(b))) = Len(b) - Len(b) + 1
            /\ \A i \in 1 .. Len(b) - Len(b) + 1 :
                 SubSeq(b, Len(b), Len(b))[i] = b[Len(b) + i - 1]
        BY <1>1, <4>2, SubSeqProperties
      <4>4. Len(b) - Len(b) + 1 = 1 /\ Len(b) + 1 - 1 = Len(b)
        BY <1>1
      <4> DEFINE u == SubSeq(b, Len(b), Len(b))
      <4>5. u \in Seq(Pieces) /\ Len(u) = 1 /\ u[1] = b[Len(b)]
        BY <4>3, <4>4
      <4> HIDE DEF u
      <4>6. u = <<u[1]>>
        BY <4>5, OneElement
      <4> QED  BY <4>5, <4>6 DEF u
    <3>4. s[done + Len(b)].part \in {"screen", "prefix"}
      <4>1. b[Len(b)] \in Pieces /\ b[Len(b)].part \notin {"focus", "value", "end"}
        BY <2>1, <3>2, ElementOfSeq
      <4>2. b[Len(b)].part \in {"screen", "prefix"}
        BY <4>1 DEF Pieces, Parts
      <4> QED  BY <3>2, <4>2
    <3>5. \A k \in 1 .. Len(b) - 1 : b[k].part # "value"
      BY <1>1, <2>1
    <3>6. Kept(b) = SubSeq(b, (Len(b) - 1) + 1, Len(b))
      BY <3>1, <3>2, <3>3
    <3>7. s[done + (Len(b) - 1) + 1].part \in {"screen", "prefix"}
      BY <3>2, <3>4
    <3> QED  BY <3>2, <3>5, <3>6, <3>7
  <2> QED  BY <2>3, <2>4
<1> QED  BY <1>3, <1>4

\* The first i pieces of a sequence.
LEMMA HeadPieces ==
  ASSUME NEW q \in Seq(Pieces), NEW i \in 0 .. Len(q)
  PROVE  /\ SubSeq(q, 1, i) \in Seq(Pieces) /\ Len(SubSeq(q, 1, i)) = i
         /\ \A k \in 1 .. i : SubSeq(q, 1, i)[k] = q[k]
<1>1. Len(q) \in Nat /\ i \in Int /\ \A k \in 1 .. i : q[k] \in Pieces
  BY ElementOfSeq, LenProperties
<1>2. (IF 1 <= i THEN i - 1 + 1 ELSE 0) = i /\ i - 1 + 1 = i /\ \A k \in 1 .. i : 1 + k - 1 = k
  OBVIOUS
<1>3. /\ SubSeq(q, 1, i) \in Seq(Pieces)
      /\ Len(SubSeq(q, 1, i)) = IF 1 <= i THEN i - 1 + 1 ELSE 0
      /\ \A k \in 1 .. i - 1 + 1 : SubSeq(q, 1, i)[k] = q[1 + k - 1]
  BY <1>1, SubSeqProperties
<1> QED  BY <1>2, <1>3

\* What a sequence has behind its first i pieces.
LEMMA TailPieces ==
  ASSUME NEW q \in Seq(Pieces), NEW i \in 0 .. Len(q)
  PROVE  /\ SubSeq(q, i + 1, Len(q)) \in Seq(Pieces)
         /\ Len(SubSeq(q, i + 1, Len(q))) = Len(q) - i
         /\ \A k \in 1 .. Len(q) - i : SubSeq(q, i + 1, Len(q))[k] = q[i + k]
<1>1. Len(q) \in Nat /\ \A k \in i + 1 .. Len(q) : q[k] \in Pieces
  BY ElementOfSeq, LenProperties
<1> QED  BY <1>1, SubSeqProperties

Joins(s, p, q) ==
  /\ s \in Seq(Pieces) /\ Len(s) = Len(p) + Len(q)
  /\ \A k \in 1 .. Len(p) + Len(q) : s[k] = IF k <= Len(p) THEN p[k] ELSE q[k - Len(p)]

Begins(head, q, n) ==
  head \in Seq(Pieces) /\ Len(head) = n /\ \A k \in 1 .. n : head[k] = q[k]

Continues(tail, q, n) ==
  /\ tail \in Seq(Pieces) /\ Len(tail) = Len(q) - n
  /\ \A k \in 1 .. Len(q) - n : tail[k] = q[n + k]

\* A stream in two pieces, pend and out, of which out is cut after n: b, up to
\* the cut, and left, behind it, are the two parts of the stream s.
LEMMA CutInTwo ==
  ASSUME NEW pend \in Seq(Pieces), NEW out \in Seq(Pieces), NEW n \in 0 .. Len(out),
         NEW s, Joins(s, pend, out), NEW read, Begins(read, out, n),
         NEW b, Joins(b, pend, read), NEW left, Continues(left, out, n)
  PROVE  Len(b) <= Len(s) /\ Begins(b, s, Len(b)) /\ Continues(left, s, Len(b))
<1>1. Len(out) \in Nat /\ Len(pend) \in Nat /\ Len(read) = n
  BY LenProperties DEF Begins
<1>2. /\ Len(s) - Len(b) = Len(out) - n /\ Len(b) = Len(pend) + n
      /\ Len(b) \in Nat /\ Len(s) \in Nat /\ Len(b) <= Len(s)
      /\ Len(s) = Len(pend) + Len(out)
  <2>1. Len(b) = Len(pend) + Len(read) /\ Len(s) = Len(pend) + Len(out)
    BY DEF Joins
  <2> QED  BY <1>1, <2>1
<1>3. ASSUME NEW k \in 1 .. Len(b) PROVE b[k] = s[k]
  <2>1. k \in 1 .. Len(pend) + Len(out) /\ k \in 1 .. Len(pend) + Len(read)
    BY <1>1, <1>2
  <2>2. CASE k <= Len(pend)
    BY <2>1, <2>2 DEF Joins
  <2>3. CASE ~ (k <= Len(pend))
    <3>1. k - Len(pend) \in 1 .. n
      BY <1>1, <1>2, <2>3
    <3>2. b[k] = read[k - Len(pend)] /\ s[k] = out[k - Len(pend)]
      BY <2>1, <2>3 DEF Joins
    <3> QED  BY <3>1, <3>2 DEF Begins
  <2> QED  BY <2>2, <2>3
<1>4. ASSUME NEW k \in 1 .. Len(s) - Len(b) PROVE left[k] = s[Len(b) + k]
  <2>1. k \in 1 .. Len(out) - n
    BY <1>2
  <2>2. /\ Len(b) + k \in 1 .. Len(pend) + Len(out) /\ ~ (Len(b) + k <= Len(pend))
        /\ (Len(b) + k) - Len(pend) = n + k
    BY <1>1, <1>2, <2>1
  <2>3. s[Len(b) + k] = out[(Len(b) + k) - Len(pend)]
    BY <2>2 DEF Joins
  <2> QED  BY <2>1, <2>2, <2>3 DEF Continues
<1>5. b \in Seq(Pieces) /\ left \in Seq(Pieces) /\ Len(left) = Len(s) - Len(b)
  BY <1>2 DEF Joins, Continues
<1> QED  BY <1>2, <1>3, <1>4, <1>5 DEF Begins, Continues

\* What a read of n pieces takes, b, and what it leaves, are the stream's two parts.
LEMMA ReadSplits ==
  ASSUME NEW pend \in Seq(Pieces), NEW out \in Seq(Pieces), NEW n \in 0 .. Len(out)
  PROVE  \E s, b, left \in Seq(Pieces) :
           /\ s = pend \o out
           /\ b = pend \o SubSeq(out, 1, n)
           /\ left = SubSeq(out, n + 1, Len(out))
           /\ Len(b) <= Len(s) /\ Begins(b, s, Len(b)) /\ Continues(left, s, Len(b))
<1> DEFINE s == pend \o out
           read == SubSeq(out, 1, n)
           b == pend \o read
           left == SubSeq(out, n + 1, Len(out))
<1>1. Joins(s, pend, out)
  BY ConcatProperties DEF Joins
<1>2. Begins(read, out, n)
  BY HeadPieces DEF Begins
<1>3. Continues(left, out, n)
  BY TailPieces DEF Continues
<1> HIDE DEF read
<1>4. Joins(b, pend, read)
  <2>1. read \in Seq(Pieces)
    BY <1>2 DEF Begins
  <2> QED  BY <2>1, ConcatProperties DEF Joins
<1> HIDE DEF s, b, left
<1>5. Len(b) <= Len(s) /\ Begins(b, s, Len(b)) /\ Continues(left, s, Len(b))
  BY <1>1, <1>2, <1>3, <1>4, CutInTwo
<1>6. s = pend \o out /\ b = pend \o SubSeq(out, 1, n) /\ left = SubSeq(out, n + 1, Len(out))
  BY DEF s, b, left, read
<1>7. s \in Seq(Pieces) /\ b \in Seq(Pieces) /\ left \in Seq(Pieces)
  BY <1>1, <1>4, <1>5 DEF Joins, Continues
<1> QED  BY <1>5, <1>6, <1>7

\* The last terminator of what was read, b, is at done.
CutAt(b, s, done) ==
  /\ done \in 0 .. Len(b)
  /\ \A k \in 1 .. Len(b) : b[k].part = "end" => k <= done
  /\ done < Len(s) => s[done + 1].part \in {"screen", "prefix"}

\* What is kept of it starts behind a place from, with no value between.
KeptFrom(kept, b, s, done, from) ==
  /\ from \in done .. Len(b)
  /\ kept \in Seq(Pieces) /\ Len(kept) = Len(b) - from
  /\ \A k \in 1 .. Len(b) - from : kept[k] = s[from + k] /\ kept[k].part # "end"
  /\ from < Len(s) => s[from + 1].part \in {"screen", "prefix"}
  /\ \A k \in done + 1 .. from : s[k].part # "value"

LastHeard(b, done, N, old) ==
  LET heard == {k \in 1 .. done : b[k].part = "value" /\ b[k].index < N} IN
  IF heard = {} THEN old ELSE b[Max(heard)].index

\* What is shown is the last value before from, or old when there is none.
Shows(shown, s, from, old) ==
  LET heard == {k \in 1 .. from : s[k].part = "value"} IN
  /\ heard = {} => shown = old
  /\ heard # {} => \E k \in heard : shown = s[k].index /\ \A j \in heard : j <= k

\* The last terminator of what was read: behind it another notification begins,
\* or a screen.
LEMMA LastTerminator ==
  ASSUME NEW N \in Nat, NEW s \in Seq(Pieces), IsWhole(s, N), NEW b \in Seq(Pieces),
         Len(b) <= Len(s), Begins(b, s, Len(b)),
         NEW done, done = IF Ends(b) = {} THEN 0 ELSE Max(Ends(b))
  PROVE  CutAt(b, s, done)
<1> USE DEF Begins
<1>1. Len(s) \in Nat /\ Len(b) \in Nat
  BY LenProperties
<1>2. PICK ends : ends = Ends(b) /\ ends = {k \in 1 .. Len(b) : b[k].part = "end"}
  BY EndsAreTerminators
<1>3. /\ done \in 0 .. Len(b)
      /\ \A k \in 1 .. Len(b) : b[k].part = "end" => k <= done
      /\ done # 0 => s[done].part = "end"
  <2>1. CASE ends = {}
    BY <1>1, <1>2, <2>1
  <2>2. CASE ends # {}
    <3>1. ends \subseteq 0 .. Len(b)
      BY <1>1, <1>2
    <3>2. Max(ends) \in ends /\ \A k \in ends : k <= Max(ends)
      BY <1>1, <2>2, <3>1, MaxIsGreatest
    <3>3. done = Max(ends)
      BY <1>2, <2>2
    <3>4. done \in ends /\ \A k \in ends : k <= done
      BY <3>2, <3>3
    <3>5. done \in 1 .. Len(b) /\ b[done].part = "end"
      BY <1>2, <3>4
    <3>6. done \in 0 .. Len(b)
      BY <1>1, <3>5
    <3>7. s[done].part = "end"
      BY <3>5
    <3>8. \A k \in 1 .. Len(b) : b[k].part = "end" => k \in ends
      BY <1>2
    <3> QED  BY <3>4, <3>6, <3>7, <3>8
  <2> QED  BY <2>1, <2>2
<1>4. ASSUME done < Len(s) PROVE s[done + 1].part \in {"screen", "prefix"}
  <2>1. CASE done = 0
    <3>1. Len(s) > 0 /\ done + 1 = 1
      BY <1>1, <1>4, <2>1
    <3>2. s[1].part \in {"screen", "prefix"}
      BY <3>1 DEF IsWhole
    <3> QED  BY <3>1, <3>2
  <2>2. CASE done # 0
    <3>1. done \in 1 .. Len(s) - 1 /\ done + 1 \in 1 .. Len(s)
      BY <1>1, <1>3, <1>4, <2>2
    <3>2. Precedes(s[done], s[done + 1]) /\ s[done].part = "end"
      BY <1>3, <2>2, <3>1 DEF IsWhole
    <3>3. s[done + 1] \in Pieces
      BY <3>1, ElementOfSeq
    <3> QED  BY <3>2, <3>3 DEF Precedes, Pieces, Parts
  <2> QED  BY <2>1, <2>2
<1> QED  BY <1>3, <1>4 DEF CutAt

\* What is kept of a read starts at a place from which the stream is whole, and
\* no value lies between the last terminator and that place.
LEMMA KeptContinues ==
  ASSUME NEW N \in Nat, NEW s \in Seq(Pieces), IsWhole(s, N), NEW b \in Seq(Pieces),
         Len(b) <= Len(s), Begins(b, s, Len(b)),
         NEW done, CutAt(b, s, done),
         NEW kept, kept = Kept(SubSeq(b, done + 1, Len(b)))
  PROVE  \E from : KeptFrom(kept, b, s, done, from)
<1> USE DEF Begins, CutAt
<1>1. Len(s) \in Nat /\ Len(b) \in Nat
  BY LenProperties
<1>2. PICK rest \in Seq(Pieces) :
        /\ rest = SubSeq(b, done + 1, Len(b)) /\ Len(rest) = Len(b) - done
        /\ \A k \in 1 .. Len(b) - done : rest[k] = b[done + k]
  <2> DEFINE q == SubSeq(b, done + 1, Len(b))
  <2>1. /\ q \in Seq(Pieces) /\ Len(q) = Len(b) - done
        /\ \A k \in 1 .. Len(b) - done : q[k] = b[done + k]
    BY TailPieces
  <2>2. q = SubSeq(b, done + 1, Len(b))
    OBVIOUS
  <2> HIDE DEF q
  <2> QED  BY <2>1, <2>2
<1>3. \A k \in 1 .. Len(rest) : rest[k] = s[done + k] /\ rest[k].part # "end"
  <2> SUFFICES ASSUME NEW k \in 1 .. Len(rest)
               PROVE  rest[k] = s[done + k] /\ rest[k].part # "end"
    OBVIOUS
  <2>1. k \in 1 .. Len(b) - done
    BY <1>2
  <2>2. done + k \in 1 .. Len(b) /\ ~ (done + k <= done)
    BY <1>1, <2>1
  <2> QED  BY <1>2, <2>1, <2>2
<1>4. done \in Nat /\ done + Len(rest) <= Len(s)
  BY <1>1, <1>2
<1>5. PICK m \in 0 .. Len(rest) :
        /\ Kept(rest) = SubSeq(rest, m + 1, Len(rest))
        /\ done + m < Len(s) => s[done + m + 1].part \in {"screen", "prefix"}
        /\ \A k \in 1 .. m : rest[k].part # "value"
  BY <1>3, <1>4, KeptIsSuffix
<1>6. PICK from \in done .. Len(b) : from = done + m
  <2>1. done \in Nat /\ m \in Nat /\ m <= Len(b) - done
    BY <1>1, <1>2
  <2>2. done + m \in done .. Len(b)
    BY <1>1, <2>1
  <2> QED  BY <2>2
<1>7. /\ kept \in Seq(Pieces) /\ Len(kept) = Len(b) - from
      /\ \A k \in 1 .. Len(b) - from : kept[k] = rest[m + k]
  <2>1. kept = SubSeq(rest, m + 1, Len(rest))
    BY <1>2, <1>5
  <2>2. /\ kept \in Seq(Pieces) /\ Len(kept) = Len(rest) - m
        /\ \A k \in 1 .. Len(rest) - m : kept[k] = rest[m + k]
    BY <2>1, TailPieces
  <2>3. Len(rest) - m = Len(b) - from
    BY <1>1, <1>2, <1>6
  <2> QED  BY <2>2, <2>3
<1>8. ASSUME NEW k \in 1 .. Len(b) - from
      PROVE  kept[k] = s[from + k] /\ kept[k].part # "end"
  <2>1. m + k \in 1 .. Len(rest) /\ done + (m + k) = from + k
    BY <1>1, <1>2, <1>6, SMTT(30)
  <2> QED  BY <1>3, <1>7, <2>1
<1>9. ASSUME NEW k \in done + 1 .. from PROVE s[k].part # "value"
  <2>1. k - done \in 1 .. m /\ k - done \in 1 .. Len(rest) /\ done + (k - done) = k
    BY <1>1, <1>2, <1>6, SMTT(30)
  <2> QED  BY <1>3, <1>5, <2>1
<1>10. from < Len(s) => s[from + 1].part \in {"screen", "prefix"}
  BY <1>5, <1>6
<1> QED  BY <1>7, <1>8, <1>9, <1>10 DEF KeptFrom

\* What is shown after a read is the last value before the place the stream is
\* cut at, or what was shown when there is none.
LEMMA HearsLast ==
  ASSUME NEW N \in Nat, NEW s \in Seq(Pieces), IsWhole(s, N), NEW b \in Seq(Pieces),
         Len(b) <= Len(s), Begins(b, s, Len(b)),
         NEW done, CutAt(b, s, done), NEW kept, NEW from, KeptFrom(kept, b, s, done, from),
         NEW old \in Nat, old < N, NEW shown, shown = LastHeard(b, done, N, old)
  PROVE  shown \in Nat /\ shown < N /\ Shows(shown, s, from, old)
<1> USE DEF Begins, CutAt, KeptFrom
<1>0. PICK heard :
        /\ heard = {k \in 1 .. done : b[k].part = "value" /\ b[k].index < N}
        /\ shown = IF heard = {} THEN old ELSE b[Max(heard)].index
  BY DEF LastHeard
<1>1. Len(s) \in Nat /\ Len(b) \in Nat /\ done \in Nat /\ from \in Nat
  BY LenProperties
<1>2. ASSUME NEW k \in 1 .. done
      PROVE  /\ k \in 1 .. Len(b) /\ k \in 1 .. Len(s) /\ k \in 1 .. from
             /\ b[k] = s[k]
  <2>1. k \in 1 .. Len(b) /\ k \in 1 .. Len(s) /\ k \in 1 .. from
    BY <1>1
  <2> QED  BY <2>1
<1>3. \A k \in 1 .. done : s[k].part = "value" => s[k].index < N
  BY <1>2 DEF IsWhole
<1>4. ASSUME NEW k \in 1 .. from, s[k].part = "value" PROVE k \in 1 .. done
  <2>1. k \in 1 .. done \/ k \in done + 1 .. from
    BY <1>1
  <2> QED  BY <1>4, <2>1
<1>5. heard = {k \in 1 .. from : s[k].part = "value"}
  BY <1>0, <1>2, <1>3, <1>4
<1>6. CASE heard = {}
  BY <1>0, <1>5, <1>6 DEF Shows
<1>7. CASE heard # {}
  <2>1. heard \subseteq 1 .. done /\ heard \subseteq 0 .. done
    BY <1>0, <1>1
  <2>2. Max(heard) \in heard /\ \A k \in heard : k <= Max(heard)
    BY <1>1, <1>7, <2>1, MaxIsGreatest
  <2>3. PICK k \in heard : k = Max(heard)
    BY <2>2
  <2>4. shown = b[k].index
    BY <1>0, <1>7, <2>3
  <2>5. k \in 1 .. done /\ b[k].index < N
    BY <1>0
  <2>6. b[k] \in Pieces /\ b[k] = s[k]
    BY <1>2, <2>5, ElementOfSeq
  <2>7. b[k].index \in Nat
    BY <2>6 DEF Pieces
  <2> QED  BY <1>5, <1>7, <2>2, <2>3, <2>4, <2>5, <2>6, <2>7 DEF Shows
<1> QED  BY <1>6, <1>7

\* What is shown and what is left of the stream tell the same together.
LEMMA TellsTheSame ==
  ASSUME NEW s \in Seq(Pieces), NEW old, NEW focus, Tells(s, old, focus),
         NEW from \in 0 .. Len(s), NEW t, Continues(t, s, from),
         NEW shown, Shows(shown, s, from, old)
  PROVE  Tells(t, shown, focus)
<1>0. PICK heard :
        /\ heard = {k \in 1 .. from : s[k].part = "value"}
        /\ heard = {} => shown = old
        /\ heard # {} => \E k \in heard : shown = s[k].index /\ \A j \in heard : j <= k
  BY DEF Shows
<1>1. /\ Len(s) \in Nat /\ from \in Nat /\ Len(t) = Len(s) - from
      /\ \A k \in 1 .. Len(s) - from : t[k] = s[from + k]
  BY LenProperties DEF Continues
<1>2. ASSUME \A k \in 1 .. Len(t) : t[k].part # "value"
      PROVE  shown = focus
  <2>1. ASSUME NEW k \in 1 .. Len(s), s[k].part = "value" PROVE k \in heard
    <3>1. CASE k <= from
      <4>1. k \in 1 .. from
        BY <1>1, <3>1
      <4> QED  BY <1>0, <2>1, <4>1
    <3>2. CASE ~ (k <= from)
      <4>1. k - from \in 1 .. Len(s) - from /\ k - from \in 1 .. Len(t) /\ from + (k - from) = k
        BY <1>1, <3>2
      <4>2. t[k - from] = s[k]
        BY <1>1, <4>1
      <4> QED  BY <1>2, <2>1, <4>1, <4>2
    <3> QED  BY <3>1, <3>2
  <2>2. CASE heard = {}
    BY <1>0, <2>1, <2>2 DEF Tells
  <2>3. CASE heard # {}
    <3>1. PICK k \in heard : shown = s[k].index /\ \A j \in heard : j <= k
      BY <1>0, <2>3
    <3>2. k \in 1 .. from /\ s[k].part = "value"
      BY <1>0
    <3>3. k \in 1 .. Len(s)
      BY <1>1, <3>2
    <3>4. \A j \in k + 1 .. Len(s) : s[j].part # "value"
      <4> SUFFICES ASSUME NEW j \in k + 1 .. Len(s), s[j].part = "value" PROVE FALSE
        OBVIOUS
      <4>1. j \in 1 .. Len(s) /\ ~ (j <= k)
        BY <1>1, <3>3
      <4> QED  BY <2>1, <3>1, <4>1
    <3> QED  BY <3>1, <3>2, <3>3, <3>4 DEF Tells
  <2> QED  BY <2>2, <2>3
<1>3. ASSUME NEW k \in 1 .. Len(t), t[k].part = "value",
             \A j \in k + 1 .. Len(t) : t[j].part # "value"
      PROVE  t[k].index = focus
  <2>1. from + k \in 1 .. Len(s) /\ k \in 1 .. Len(s) - from
    BY <1>1
  <2>2. t[k] = s[from + k]
    BY <1>1, <2>1
  <2>3. ASSUME NEW j \in (from + k) + 1 .. Len(s) PROVE s[j].part # "value"
    <3>1. /\ j - from \in k + 1 .. Len(t) /\ j - from \in 1 .. Len(s) - from
          /\ from + (j - from) = j
      BY <1>1
    <3>2. t[j - from] = s[j]
      BY <1>1, <3>1
    <3> QED  BY <1>3, <3>1, <3>2
  <2> QED  BY <1>3, <2>1, <2>2, <2>3 DEF Tells
<1> QED  BY <1>2, <1>3 DEF Tells

\* What is kept and what is still to be read join again where they were cut.
LEMMA JoinsAgain ==
  ASSUME NEW s \in Seq(Pieces), NEW b, Len(b) \in Nat, Len(b) <= Len(s),
         NEW left, Continues(left, s, Len(b)), NEW done \in Nat, NEW kept, NEW from,
         KeptFrom(kept, b, s, done, from)
  PROVE  kept \o left = SubSeq(s, from + 1, Len(s)) /\ Continues(kept \o left, s, from)
<1>0. /\ from \in 0 .. Len(b) /\ kept \in Seq(Pieces) /\ Len(kept) = Len(b) - from
      /\ \A k \in 1 .. Len(b) - from : kept[k] = s[from + k]
  BY DEF KeptFrom
<1>1. /\ left \in Seq(Pieces) /\ Len(left) = Len(s) - Len(b) /\ Len(s) \in Nat
      /\ \A k \in 1 .. Len(s) - Len(b) : left[k] = s[Len(b) + k]
  BY LenProperties DEF Continues
<1> DEFINE t == kept \o left
           u == SubSeq(s, from + 1, Len(s))
<1>2. /\ t \in Seq(Pieces) /\ Len(t) = Len(kept) + Len(left)
      /\ \A k \in 1 .. Len(kept) + Len(left) :
           t[k] = IF k <= Len(kept) THEN kept[k] ELSE left[k - Len(kept)]
  BY <1>0, <1>1, ConcatProperties
<1>3. from \in 0 .. Len(s)
  BY <1>0, <1>1
<1>4. Continues(u, s, from)
  BY <1>3, TailPieces DEF Continues
<1> HIDE DEF t, u
<1>5. Len(t) = Len(s) - from /\ Len(kept) + Len(left) = Len(s) - from
  BY <1>0, <1>1, <1>2
<1>6. ASSUME NEW k \in 1 .. Len(s) - from PROVE t[k] = s[from + k]
  <2>1. CASE k <= Len(kept)
    <3>1. k \in 1 .. Len(b) - from
      BY <1>0, <1>1, <2>1
    <3>2. t[k] = kept[k]
      BY <1>0, <1>2, <1>5, <2>1
    <3> QED  BY <1>0, <3>1, <3>2
  <2>2. CASE ~ (k <= Len(kept))
    <3>1. k - Len(kept) \in 1 .. Len(s) - Len(b) /\ Len(b) + (k - Len(kept)) = from + k
      BY <1>0, <1>1, <2>2
    <3>2. t[k] = left[k - Len(kept)]
      BY <1>0, <1>2, <1>5, <2>2
    <3> QED  BY <1>1, <3>1, <3>2
  <2> QED  BY <2>1, <2>2
<1>7. Continues(t, s, from)
  BY <1>2, <1>5, <1>6 DEF Continues
<1>8. t = u
  <2>1. /\ t \in Seq(Pieces) /\ u \in Seq(Pieces) /\ Len(t) = Len(u)
        /\ \A k \in 1 .. Len(t) : t[k] = u[k]
    BY <1>4, <1>5, <1>6, <1>7 DEF Continues
  <2> QED  BY <2>1, SeqEqual
<1> QED  BY <1>7, <1>8 DEF t, u

\* Wherever a read of read_process_output ends, ingest_focus_notifications keeps what
\* the next one has to complete and applies the last index that is whole: the stream
\* still to be ingested stays one of whole reports, and what is shown together with it
\* stays what fzf highlights.
THEOREM ReadFollows ==
  ASSUME NEW Entries, NEW picker \in Pickers(Entries), Follows(picker),
         NEW n \in 0 .. Len(picker.output)
  PROVE  /\ Read(picker, n) \in Pickers(Entries)
         /\ Follows(Read(picker, n))
         /\ Read(picker, n).process = picker.process
         /\ Read(picker, n).focus = picker.focus
         /\ Read(picker, n).listed = picker.listed
<1>1. /\ picker.listed \in Seq(Entries) /\ picker.output \in Seq(Pieces)
      /\ picker.pending \in Seq(Pieces) /\ picker.highlighted \in Nat /\ picker.focus \in Nat
  BY DEF Pickers
<1>2. PICK N \in Nat : N = Len(picker.listed)
  BY <1>1, LenProperties
<1>3. PICK s, b, left \in Seq(Pieces) :
        /\ s = picker.pending \o picker.output
        /\ b = picker.pending \o SubSeq(picker.output, 1, n)
        /\ left = SubSeq(picker.output, n + 1, Len(picker.output))
        /\ Len(b) <= Len(s) /\ Begins(b, s, Len(b)) /\ Continues(left, s, Len(b))
  BY <1>1, ReadSplits
<1>4. Len(b) <= Len(s) /\ Begins(b, s, Len(b)) /\ Continues(left, s, Len(b))
  BY <1>3
<1>5. /\ IsWhole(s, N) /\ Tells(s, picker.highlighted, picker.focus)
      /\ picker.highlighted < N /\ picker.focus < N
  BY <1>2, <1>3 DEF Follows, Stream
<1>6. Len(b) \in Nat /\ Len(s) \in Nat
  BY <1>3, LenProperties
<1>7. PICK done : done = IF Ends(b) = {} THEN 0 ELSE Max(Ends(b))
  OBVIOUS
<1>8. CutAt(b, s, done)
  BY <1>4, <1>5, <1>7, LastTerminator
<1>9. PICK kept : kept = Kept(SubSeq(b, done + 1, Len(b)))
  OBVIOUS
<1>10. PICK from : KeptFrom(kept, b, s, done, from)
  BY <1>4, <1>5, <1>8, <1>9, KeptContinues
<1>11. PICK shown : shown = LastHeard(b, done, N, picker.highlighted)
  OBVIOUS
<1>12. shown \in Nat /\ shown < N /\ Shows(shown, s, from, picker.highlighted)
  BY <1>1, <1>4, <1>5, <1>8, <1>10, <1>11, HearsLast
<1>13. Ingested(picker, SubSeq(picker.output, 1, n)) =
         [picker EXCEPT !.pending = kept, !.highlighted = shown]
  BY <1>2, <1>3, <1>7, <1>9, <1>11 DEF Ingested, LastHeard
<1>14. Read(picker, n) =
         [process |-> picker.process, listed |-> picker.listed, focus |-> picker.focus,
          output |-> left, pending |-> kept, highlighted |-> shown]
  <2>1. Read(picker, n) =
          [[picker EXCEPT !.pending = kept, !.highlighted = shown] EXCEPT !.output = left]
    BY <1>1, <1>3, <1>13 DEF Read, Pickers
  <2> QED  BY <2>1 DEF Pickers
<1>15. done \in Nat /\ from \in 0 .. Len(s)
  <2>1. done \in 0 .. Len(b)
    BY <1>8 DEF CutAt
  <2>2. from \in done .. Len(b)
    BY <1>10 DEF KeptFrom
  <2> QED  BY <1>6, <1>4, <2>1, <2>2
<1>16. kept \o left = SubSeq(s, from + 1, Len(s)) /\ Continues(kept \o left, s, from)
  BY <1>6, <1>10, <1>15, <1>4, JoinsAgain
<1>17. Stream(Read(picker, n)) = kept \o left
  BY <1>14 DEF Stream
<1>18. IsWhole(kept \o left, N)
  <2>1. from < Len(s) => s[from + 1].part \in {"screen", "prefix"}
    BY <1>10 DEF KeptFrom
  <2> QED  BY <1>5, <1>15, <1>16, <2>1, SuffixIsWhole
<1>19. Tells(kept \o left, shown, picker.focus)
  BY <1>5, <1>12, <1>15, <1>16, TellsTheSame
<1>20. kept \in Seq(Pieces) /\ \A k \in 1 .. Len(kept) : kept[k].part # "end"
  BY <1>10 DEF KeptFrom
<1>21. Read(picker, n) \in Pickers(Entries)
  BY <1>1, <1>3, <1>12, <1>14, <1>20 DEF Pickers
<1>22. Follows(Read(picker, n))
  <2>1. /\ Read(picker, n).focus < N /\ Read(picker, n).highlighted < N
        /\ N = Len(Read(picker, n).listed)
    BY <1>2, <1>5, <1>12, <1>14
  <2>2. Tells(Stream(Read(picker, n)), Read(picker, n).highlighted, Read(picker, n).focus)
    <3>1. Read(picker, n).highlighted = shown /\ Read(picker, n).focus = picker.focus
      BY <1>14
    <3> QED  BY <1>17, <1>19, <3>1
  <2>3. \A k \in 1 .. Len(Read(picker, n).pending) : Read(picker, n).pending[k].part # "end"
    BY <1>14, <1>20
  <2> QED  BY <1>17, <1>18, <2>1, <2>2, <2>3 DEF Follows
<1> QED  BY <1>14, <1>21, <1>22

------------------------------------------------------------------------------
(* Every operation on a picker keeps it in order.                          *)

\* A picker that was started for a list highlights its first entry.
LEMMA StartedIsOK ==
  ASSUME NEW Entries, NEW entries \in Seq(Entries), entries # <<>>
  PROVE  /\ PickerOK(Started(entries), Entries)
         /\ Started(entries).listed = entries /\ Started(entries).process = "running"
<1>1. Started(entries) = [process |-> "running", listed |-> entries, focus |-> 0,
                          output |-> <<>>, pending |-> <<>>, highlighted |-> 0]
  <2>1. PICK none : none = <<>>
    OBVIOUS
  <2>2. NoPicker = [process |-> "null", listed |-> none, focus |-> 0, output |-> none,
                    pending |-> none, highlighted |-> 0]
    BY <2>1 DEF NoPicker
  <2>3. Started(entries) = [NoPicker EXCEPT !.process = "running", !.listed = entries]
    BY DEF Started
  <2>4. Started(entries) = [process |-> "running", listed |-> entries, focus |-> 0,
                            output |-> none, pending |-> none, highlighted |-> 0]
    BY <2>2, <2>3
  <2> QED  BY <2>1, <2>4
<1>2. Len(entries) \in Nat /\ Len(entries) # 0
  BY EmptySeq, LenProperties
<1>3. <<>> \in Seq(Pieces) /\ <<>> \o <<>> \in Seq(Pieces) /\ Len(<<>> \o <<>>) = 0
  BY ConcatEmptySeq, EmptySeq
<1>4. Stream(Started(entries)) = <<>> \o <<>>
  BY <1>1 DEF Stream
<1>5. Started(entries) \in Pickers(Entries)
  BY <1>1, <1>3 DEF Pickers
<1> DEFINE s == <<>> \o <<>>
<1>6. Len(s) = 0
  BY <1>3
<1> HIDE DEF s
<1>7. IsWhole(s, Len(entries)) /\ Tells(s, 0, 0)
  BY <1>6 DEF IsWhole, Tells
<1>8. Follows(Started(entries))
  <2>1. 0 < Len(entries)
    BY <1>2
  <2>2. Stream(Started(entries)) = s
    BY <1>4 DEF s
  <2>3. \A k \in 1 .. Len(<<>>) : FALSE
    BY <1>3, EmptySeq
  <2> QED  BY <1>1, <1>7, <2>1, <2>2, <2>3 DEF Follows
<1> QED  BY <1>1, <1>5, <1>8 DEF PickerOK

\* What fzf adds to its output comes behind the stream.
LEMMA OutputExtends ==
  ASSUME NEW pend \in Seq(Pieces), NEW out \in Seq(Pieces), NEW more \in Seq(Pieces)
  PROVE  pend \o (out \o more) = (pend \o out) \o more
  BY ConcatAssociative

\* The picker follows a highlight that fzf moves and reports.
LEMMA FocusedIsOK ==
  ASSUME NEW Entries, NEW picker, PickerOK(picker, Entries), NEW i \in Nat,
         i < Len(picker.listed)
  PROVE  /\ PickerOK(Focused(picker, i), Entries)
         /\ Focused(picker, i).listed = picker.listed
         /\ Focused(picker, i).process = picker.process
<1>1. /\ picker \in Pickers(Entries) /\ picker.output \in Seq(Pieces)
      /\ picker.pending \in Seq(Pieces) /\ picker.listed \in Seq(Entries)
  BY DEF PickerOK, Pickers
<1>2. Notification(i) \in Seq(Pieces) /\ Len(picker.listed) \in Nat
  BY <1>1, NotificationPieces, LenProperties
<1>3. PICK out \in Seq(Pieces) : out = picker.output \o Notification(i)
  BY <1>1, <1>2, ConcatProperties
<1>4. Focused(picker, i) =
        [process |-> picker.process, listed |-> picker.listed, focus |-> i,
         output |-> out, pending |-> picker.pending, highlighted |-> picker.highlighted]
  <2>1. Focused(picker, i) = [picker EXCEPT !.focus = i, !.output = out]
    BY <1>3 DEF Focused
  <2>2. picker \in Pickers(Entries)
    BY <1>1
  <2> QED  BY <2>1, <2>2 DEF Pickers
<1>5. /\ Focused(picker, i).process = picker.process /\ Focused(picker, i).listed = picker.listed
       /\ Focused(picker, i).focus = i /\ Focused(picker, i).output = out
       /\ Focused(picker, i).pending = picker.pending
       /\ Focused(picker, i).highlighted = picker.highlighted
  BY <1>4
<1>6. Stream(Focused(picker, i)) = Stream(picker) \o Notification(i)
  <2>1. Stream(Focused(picker, i)) = picker.pending \o out
    BY <1>5 DEF Stream
  <2>2. picker.pending \o out = (picker.pending \o picker.output) \o Notification(i)
    BY <1>1, <1>2, <1>3, OutputExtends
  <2> QED  BY <2>1, <2>2 DEF Stream
<1>7. Stream(picker) \in Seq(Pieces) /\ IsWhole(Stream(picker), Len(picker.listed))
  BY <1>1, ConcatProperties DEF PickerOK, Follows, Stream
<1>8. /\ IsWhole(Stream(picker) \o Notification(i), Len(picker.listed))
      /\ Tells(Stream(picker) \o Notification(i), picker.highlighted, i)
  BY <1>2, <1>7, NotificationExtends
<1>9. Focused(picker, i) \in Pickers(Entries)
  BY <1>1, <1>4 DEF Pickers
<1>10. Follows(Focused(picker, i))
  BY <1>6, <1>8, <1>5 DEF PickerOK, Follows
<1> QED  BY <1>9, <1>10, <1>5 DEF PickerOK

\* What fzf draws changes nothing else.
LEMMA DrawnIsOK ==
  ASSUME NEW Entries, NEW picker, PickerOK(picker, Entries)
  PROVE  /\ PickerOK(Drawn(picker), Entries)
         /\ Drawn(picker).listed = picker.listed
         /\ Drawn(picker).process = picker.process
<1>1. /\ picker \in Pickers(Entries) /\ picker.output \in Seq(Pieces)
      /\ picker.pending \in Seq(Pieces) /\ picker.listed \in Seq(Entries)
  BY DEF PickerOK, Pickers
<1>2. Screen \in Pieces /\ <<Screen>> \in Seq(Pieces) /\ Len(picker.listed) \in Nat
  <2>1. Screen \in Pieces
    BY DEF Screen, Piece, Pieces, Parts
  <2>2. Len(picker.listed) \in Nat
    BY <1>1, LenProperties
  <2> QED  BY <2>1, <2>2
<1>3. PICK out \in Seq(Pieces) :
        out = Append(picker.output, Screen) /\ out = picker.output \o <<Screen>>
  BY <1>1, <1>2, AppendIsConcat, AppendProperties
<1>4. Drawn(picker) =
        [process |-> picker.process, listed |-> picker.listed, focus |-> picker.focus,
         output |-> out, pending |-> picker.pending, highlighted |-> picker.highlighted]
  <2>1. Drawn(picker) = [picker EXCEPT !.output = out]
    BY <1>3 DEF Drawn
  <2>2. picker \in Pickers(Entries)
    BY <1>1
  <2> QED  BY <2>1, <2>2 DEF Pickers
<1>5. /\ Drawn(picker).process = picker.process /\ Drawn(picker).listed = picker.listed
       /\ Drawn(picker).focus = picker.focus /\ Drawn(picker).output = out
       /\ Drawn(picker).pending = picker.pending
       /\ Drawn(picker).highlighted = picker.highlighted
  BY <1>4
<1>6. Stream(Drawn(picker)) = Stream(picker) \o <<Screen>>
  <2>1. Stream(Drawn(picker)) = picker.pending \o out
    BY <1>5 DEF Stream
  <2>2. picker.pending \o out = (picker.pending \o picker.output) \o <<Screen>>
    <3>1. picker.pending \o (picker.output \o <<Screen>>) =
            (picker.pending \o picker.output) \o <<Screen>>
      BY <1>1, <1>2, OutputExtends
    <3>2. out = picker.output \o <<Screen>>
      BY <1>3
    <3> QED  BY <3>1, <3>2
  <2> QED  BY <2>1, <2>2 DEF Stream
<1>7. /\ Stream(picker) \in Seq(Pieces) /\ IsWhole(Stream(picker), Len(picker.listed))
      /\ Tells(Stream(picker), picker.highlighted, picker.focus)
  BY <1>1, ConcatProperties DEF PickerOK, Follows, Stream
<1>8. /\ IsWhole(Stream(picker) \o <<Screen>>, Len(picker.listed))
      /\ Tells(Stream(picker) \o <<Screen>>, picker.highlighted, picker.focus)
  BY <1>2, <1>7, ScreenExtends
<1>9. Drawn(picker) \in Pickers(Entries)
  BY <1>1, <1>4 DEF Pickers
<1>10. Follows(Drawn(picker))
  BY <1>6, <1>8, <1>5 DEF PickerOK, Follows
<1> QED  BY <1>9, <1>10, <1>5 DEF PickerOK

\* The exit of fzf leaves what it wrote.
LEMMA ExitedIsOK ==
  ASSUME NEW Entries, NEW picker, PickerOK(picker, Entries), NEW how \in {"chose", "failed"}
  PROVE  /\ PickerOK(Exited(picker, how), Entries)
         /\ Exited(picker, how).listed = picker.listed
<1>1. picker \in Pickers(Entries)
  BY DEF PickerOK
<1>2. Exited(picker, how) =
        [process |-> how, listed |-> picker.listed, focus |-> picker.focus,
         output |-> picker.output, pending |-> picker.pending,
         highlighted |-> picker.highlighted]
  BY <1>1 DEF Exited, Pickers
<1>3. Exited(picker, how) \in Pickers(Entries)
  BY <1>1, <1>2 DEF Pickers
<1>4. /\ Exited(picker, how).process = how /\ Exited(picker, how).listed = picker.listed
      /\ Exited(picker, how).focus = picker.focus /\ Exited(picker, how).output = picker.output
      /\ Exited(picker, how).pending = picker.pending
      /\ Exited(picker, how).highlighted = picker.highlighted
  BY <1>2
<1>5. Stream(Exited(picker, how)) = Stream(picker)
  BY <1>4 DEF Stream
<1>6. Follows(Exited(picker, how))
  BY <1>4, <1>5 DEF PickerOK, Follows
<1> QED  BY <1>3, <1>4, <1>6 DEF PickerOK

\* A read takes any number of the pieces, and keeps the picker in order.
LEMMA ReadIsOK ==
  ASSUME NEW Entries, NEW picker, PickerOK(picker, Entries),
         NEW n \in 0 .. Len(picker.output)
  PROVE  /\ PickerOK(Read(picker, n), Entries)
         /\ Read(picker, n).listed = picker.listed /\ Read(picker, n).focus = picker.focus
         /\ Read(picker, n).process = picker.process
  BY ReadFollows DEF PickerOK

\* Without a picker there is nothing to read.
LEMMA NothingToRead ==
  ASSUME NEW n \in 0 .. Len(NoPicker.output)
  PROVE  Read(NoPicker, n) = NoPicker
<1>1. NoPicker.output = <<>> /\ NoPicker.pending = <<>> /\ n = 0
  BY EmptySeq DEF NoPicker
<1>2. SubSeq(<<>>, 1, 0) = <<>> /\ SubSeq(<<>>, 0 + 1, Len(<<>>)) = <<>>
  OBVIOUS
<1>3. <<>> \o <<>> = <<>>
  OBVIOUS
<1>4. Ends(<<>>) = {}
  BY DEF Ends
<1>5. Kept(<<>>) = <<>>
  BY DEF Kept, Retained, Opens
<1>6. PICK none : none = <<>>
  OBVIOUS
<1>7. NoPicker = [process |-> "null", listed |-> none, focus |-> 0, output |-> none,
                  pending |-> none, highlighted |-> 0]
  BY <1>6 DEF NoPicker
<1>8. /\ SubSeq(none, 1, 0) = none /\ SubSeq(none, 0 + 1, Len(none)) = none
      /\ none \o none = none /\ Ends(none) = {} /\ Kept(none) = none
  BY <1>2, <1>3, <1>4, <1>5, <1>6
<1>9. 1 .. 0 = {}
  OBVIOUS
<1>10. Ingested(NoPicker, none) = [NoPicker EXCEPT !.pending = none, !.highlighted = 0]
  BY <1>7, <1>8, <1>9 DEF Ingested
<1>11. Ingested(NoPicker, none) = NoPicker
  BY <1>7, <1>10
<1>12. Read(NoPicker, 0) = [NoPicker EXCEPT !.output = SubSeq(none, 0 + 1, Len(none))]
  <2>1. NoPicker.output = none
    BY <1>7
  <2>2. Ingested(NoPicker, SubSeq(NoPicker.output, 1, 0)) = NoPicker
    BY <1>8, <1>11, <2>1
  <2> QED  BY <2>1, <2>2 DEF Read
<1>13. Read(NoPicker, 0) = NoPicker
  BY <1>7, <1>8, <1>12
<1> QED  BY <1>1, <1>13

\* Once read_process_output has read everything, the parent shows what fzf highlights:
\* what ingest_focus_notifications keeps of the stream can hold no index, which would
\* have its terminator behind it.
THEOREM AllReadIsShown ==
  ASSUME NEW Entries, NEW picker, PickerOK(picker, Entries), picker.output = <<>>
  PROVE  picker.highlighted = picker.focus
<1> DEFINE s == Stream(picker)
<1>1. picker.pending \in Seq(Pieces) /\ picker.listed \in Seq(Entries)
  BY DEF PickerOK, Pickers
<1>2. s = picker.pending
  BY <1>1, ConcatEmptySeq DEF Stream
<1>3. /\ s \in Seq(Pieces) /\ Len(picker.listed) \in Nat /\ Len(s) \in Nat
      /\ IsWhole(s, Len(picker.listed))
      /\ Tells(s, picker.highlighted, picker.focus)
      /\ \A k \in 1 .. Len(s) : s[k].part # "end"
  BY <1>1, <1>2, LenProperties DEF PickerOK, Follows
<1> HIDE DEF s
<1>4. ASSUME NEW k \in 1 .. Len(s), s[k].part = "value" PROVE FALSE
  <2>1. k < Len(s) /\ s[k + 1].part = "end"
    BY <1>3, <1>4, ValueIsEnclosed
  <2>2. k + 1 \in 1 .. Len(s)
    BY <1>3, <2>1
  <2> QED  BY <1>3, <2>1, <2>2
<1> QED  BY <1>3, <1>4 DEF Tells

-----------------------------------------------------------------------------
(* The overlay *)

TrayIds ==
  ListedTrays \cup {NoTray} \cup {WorktreeTray(r, b) : r \in Repositories, b \in Names}
Candidate == [tray : ListedTrays, available : BOOLEAN]
Entries == ListedTrays \cup Repositories

Overlays ==
  [mode : Mode,
   worktree_stage : {"WORKTREE_REPOSITORY", "WORKTREE_BRANCH", "RUNNING", "RESULT"},
   repository_stage : {"REPOSITORY_ROOT", "REPOSITORY_CLONE_URL", "RUNNING", "RESULT"},
   explained : SUBSET Mode, text : [Field -> Text],
   repositories : Seq(Repositories), selected_repository : Repositories \cup {NoPath},
   repository_root : Text \cup {NoPath}, pending_worktree_path : TrayIds,
   candidates : Seq(Candidate), session_trays : Seq(ListedTrays),
   picker : Pickers(Entries),
   helper : [process : {"null", "running", "succeeded", "failed"}, path : TrayIds,
             result : {"none", "succeeded", "failed"}],
   confirmation : TrayIds, tray_to_open : TrayIds, keys : Seq(Key),
   editing : {"NORMAL", "ESCAPE", "CONTROL_SEQUENCE"}]

\* The stages whose keys go to a picker.
Selecting(o) == Stage(o) \in {"SWITCH_WORKTREE", "WORKTREE_REPOSITORY"}

\* The stage, the helper and what the stages before collected agree.
HelperRuns(o) == (Stage(o) = "RUNNING") = (o.helper.process # "null")
HasInputs(o) ==
  /\ o.worktree_stage = "WORKTREE_REPOSITORY" => o.selected_repository = NoPath
  /\ Stage(o) = "WORKTREE_BRANCH" => o.selected_repository \in Repositories
  /\ Stage(o) = "REPOSITORY_CLONE_URL" => o.repository_root \in Names
  /\ Stage(o) = "RUNNING" /\ o.mode = AddWorktree =>
       /\ o.helper.path = o.pending_worktree_path
       /\ o.pending_worktree_path =
            WorktreeTray(o.selected_repository, o.text["WORKTREE_BRANCH"])
  /\ Stage(o) = "RUNNING" /\ o.mode = AddRepository => o.repository_root \in Names
  /\ Stage(o) = "RESULT" => o.helper.result # "none"
WorkflowOK(o) == HelperRuns(o) /\ HasInputs(o)

\* A picker is where its stage wants one, and lists what its indexes stand for.
PickerFits(o) ==
  o.picker # NoPicker =>
    /\ Selecting(o)
    /\ PickerOK(o.picker, Entries)
    /\ o.mode = Switch => /\ o.picker.listed = Trays(o.candidates)
                          /\ IsSuffix(o.session_trays, o.picker.listed)
    /\ o.mode = AddWorktree => o.picker.listed \in Seq(Repositories)

\* A selector that shows no picker says why.
Says(o) ==
  Selecting(o) /\ o.picker = NoPicker /\ o.tray_to_open = NoTray => o.mode \in o.explained

Fine(o) == o \in Overlays /\ WorkflowOK(o) /\ PickerFits(o)

\* The inductive invariant.
OverlayInv ==
  /\ open \in BOOLEAN /\ inbox \in Seq(Key) /\ sequence \in Seq(Key)
  /\ Fine(overlay)
  /\ open => Says(overlay)

------------------------------------------------------------------------------
(* Lists                                                                   *)

\* A function on 1 .. n is a sequence.
LEMMA FunctionIsSequence ==
  ASSUME NEW S, NEW n \in Nat, NEW f \in [1 .. n -> S]
  PROVE  f \in Seq(S) /\ Len(f) = n /\ DOMAIN f = 1 .. n
<1>1. f \in Seq(S)
  BY SeqDef
<1>2. DOMAIN f = 1 .. n /\ DOMAIN f = 1 .. Len(f) /\ Len(f) \in Nat
  BY <1>1, LenProperties
<1> QED  BY <1>1, <1>2, LenProperties

\* A sequence is one of every larger set.
LEMMA SequenceWidens ==
  ASSUME NEW S, NEW T, S \subseteq T, NEW s \in Seq(S)
  PROVE  s \in Seq(T)
<1>1. Len(s) \in Nat /\ s \in [1 .. Len(s) -> S]
  BY LenProperties
<1>2. s \in [1 .. Len(s) -> T]
  BY <1>1
<1> QED  BY <1>1, <1>2, FunctionIsSequence

\* Mapping a sequence keeps its length.
LEMMA TraysOfCandidates ==
  ASSUME NEW c \in Seq(Candidate)
  PROVE  /\ Trays(c) \in Seq(ListedTrays) /\ Len(Trays(c)) = Len(c) /\ Len(c) \in Nat
         /\ \A i \in 1 .. Len(c) : Trays(c)[i] = c[i].tray
         /\ c # <<>> => Trays(c) # <<>>
<1>1. Len(c) \in Nat /\ DOMAIN c = 1 .. Len(c) /\ \A i \in 1 .. Len(c) : c[i] \in Candidate
  BY LenProperties, ElementOfSeq
<1>2. Trays(c) = [i \in 1 .. Len(c) |-> c[i].tray]
  BY <1>1 DEF Trays
<1>3. Trays(c) \in [1 .. Len(c) -> ListedTrays]
  BY <1>1, <1>2 DEF Candidate
<1>4. Trays(c) \in Seq(ListedTrays) /\ Len(Trays(c)) = Len(c)
  BY <1>1, <1>3, FunctionIsSequence
<1>5. c # <<>> => Trays(c) # <<>>
  BY <1>4, EmptySeq
<1> QED  BY <1>1, <1>2, <1>4, <1>5

\* The first i elements of a sequence.
LEMMA HeadOfSequence ==
  ASSUME NEW S, NEW q \in Seq(S), NEW i \in 0 .. Len(q)
  PROVE  /\ SubSeq(q, 1, i) \in Seq(S) /\ Len(SubSeq(q, 1, i)) = i
         /\ \A k \in 1 .. i : SubSeq(q, 1, i)[k] = q[k]
<1>1. Len(q) \in Nat /\ i \in Int /\ \A k \in 1 .. i : q[k] \in S
  BY ElementOfSeq, LenProperties
<1>2. (IF 1 <= i THEN i - 1 + 1 ELSE 0) = i /\ i - 1 + 1 = i /\ \A k \in 1 .. i : 1 + k - 1 = k
  OBVIOUS
<1>3. /\ SubSeq(q, 1, i) \in Seq(S)
      /\ Len(SubSeq(q, 1, i)) = IF 1 <= i THEN i - 1 + 1 ELSE 0
      /\ \A k \in 1 .. i - 1 + 1 : SubSeq(q, 1, i)[k] = q[1 + k - 1]
  BY <1>1, SubSeqProperties
<1> QED  BY <1>2, <1>3

\* The second of two parts is a suffix, in the sense of the community modules.
LEMMA ConcatHasSuffix ==
  ASSUME NEW S, NEW p \in Seq(S), NEW s \in Seq(S), NEW t \in Seq(S), t = p \o s
  PROVE  IsSuffix(s, t)
<1>1. /\ Len(p) \in Nat /\ Len(s) \in Nat /\ Len(t) = Len(p) + Len(s)
      /\ \A i \in 1 .. Len(p) + Len(s) : t[i] = IF i <= Len(p) THEN p[i] ELSE s[i - Len(p)]
  BY ConcatProperties, LenProperties
<1> DEFINE rs == Reverse(s)
           rt == Reverse(t)
<1>2. rs \in Seq(S) /\ Len(rs) = Len(s) /\ \A i \in 1 .. Len(s) : rs[i] = s[(Len(s) - i) + 1]
  <2>1. ASSUME NEW i \in 1 .. Len(s) PROVE s[(Len(s) - i) + 1] \in S
    <3>1. (Len(s) - i) + 1 \in 1 .. Len(s)
      BY <1>1
    <3> QED  BY <3>1, ElementOfSeq
  <2>2. rs \in [1 .. Len(s) -> S] /\ \A i \in 1 .. Len(s) : rs[i] = s[(Len(s) - i) + 1]
    BY <2>1 DEF Reverse
  <2> QED  BY <1>1, <2>2, FunctionIsSequence
<1>3. rt \in Seq(S) /\ Len(rt) = Len(t) /\ \A i \in 1 .. Len(t) : rt[i] = t[(Len(t) - i) + 1]
  <2>1. ASSUME NEW i \in 1 .. Len(t) PROVE t[(Len(t) - i) + 1] \in S
    <3>1. (Len(t) - i) + 1 \in 1 .. Len(t)
      BY <1>1
    <3> QED  BY <3>1, ElementOfSeq
  <2>2. rt \in [1 .. Len(t) -> S] /\ \A i \in 1 .. Len(t) : rt[i] = t[(Len(t) - i) + 1]
    BY <2>1 DEF Reverse
  <2>3. Len(t) \in Nat
    BY <1>1
  <2> QED  BY <2>2, <2>3, FunctionIsSequence
<1> HIDE DEF rs, rt
<1>4. ASSUME NEW i \in 1 .. Len(s) PROVE rs[i] = rt[i]
  <2>1. /\ i \in 1 .. Len(t) /\ (Len(t) - i) + 1 \in 1 .. Len(p) + Len(s)
        /\ ~ ((Len(t) - i) + 1 <= Len(p))
        /\ ((Len(t) - i) + 1) - Len(p) = (Len(s) - i) + 1
    BY <1>1
  <2>2. t[(Len(t) - i) + 1] = s[((Len(t) - i) + 1) - Len(p)]
    BY <1>1, <2>1
  <2> QED  BY <1>2, <1>3, <2>1, <2>2
<1>5. Len(rs) \in 0 .. Len(rs) /\ Len(rs) \in 0 .. Len(rt) /\ Len(rs) <= Len(rt)
  BY <1>1, <1>2, <1>3
<1>6. SubSeq(rs, 1, Len(rs)) = SubSeq(rt, 1, Len(rs))
  <2> DEFINE u == SubSeq(rs, 1, Len(rs))
             v == SubSeq(rt, 1, Len(rs))
  <2>1. /\ u \in Seq(S) /\ Len(u) = Len(rs)
        /\ \A i \in 1 .. Len(rs) : u[i] = rs[i]
    BY <1>2, <1>5, HeadOfSequence
  <2>2. /\ v \in Seq(S) /\ Len(v) = Len(rs)
        /\ \A i \in 1 .. Len(rs) : v[i] = rt[i]
    BY <1>3, <1>5, HeadOfSequence
  <2> HIDE DEF u, v
  <2>3. \A i \in 1 .. Len(u) : u[i] = v[i]
    BY <1>2, <1>4, <2>1, <2>2
  <2>4. u = v
    BY <2>1, <2>2, <2>3, SeqEqual
  <2> QED  BY <2>4 DEF u, v
<1> QED  BY <1>5, <1>6 DEF IsSuffix, IsPrefix, rs, rt

------------------------------------------------------------------------------
(* The operators of the overlay                                            *)

USE DEF Switch, AddWorktree, AddRepository, Mode

\* The stage of each mode.
LEMMA StageOf ==
  ASSUME NEW o, o \in Overlays
  PROVE  /\ o.mode \in {"SWITCH_WORKTREE", "ADD_WORKTREE", "ADD_REPOSITORY"}
         /\ o.mode = "SWITCH_WORKTREE" => Stage(o) = "SWITCH_WORKTREE"
         /\ o.mode = "ADD_WORKTREE" => Stage(o) = o.worktree_stage
         /\ o.mode = "ADD_REPOSITORY" => Stage(o) = o.repository_stage
         /\ o.worktree_stage \in
              {"WORKTREE_REPOSITORY", "WORKTREE_BRANCH", "RUNNING", "RESULT"}
         /\ o.repository_stage \in
              {"REPOSITORY_ROOT", "REPOSITORY_CLONE_URL", "RUNNING", "RESULT"}
  BY DEF Stage, Overlays

\* What the workflow's agreement is about.
SameWorkflow(o, p) ==
  /\ p.mode = o.mode /\ p.worktree_stage = o.worktree_stage
  /\ p.repository_stage = o.repository_stage /\ p.text = o.text
  /\ p.selected_repository = o.selected_repository
  /\ p.repository_root = o.repository_root
  /\ p.pending_worktree_path = o.pending_worktree_path /\ p.helper = o.helper

\* The workflow's agreement depends on nothing else.
LEMMA WorkflowDepends ==
  ASSUME NEW o, NEW p, SameWorkflow(o, p), WorkflowOK(o)
  PROVE  WorkflowOK(p) /\ Stage(p) = Stage(o)
<1>1. Stage(p) = Stage(o)
  BY DEF Stage, SameWorkflow
<1> QED  BY <1>1 DEF WorkflowOK, HelperRuns, HasInputs, SameWorkflow

\* What a picker has to fit.
SameLists(o, p) ==
  /\ p.mode = o.mode /\ Stage(p) = Stage(o)
  /\ p.candidates = o.candidates /\ p.session_trays = o.session_trays

\* A picker with the same list fits where the other did.
LEMMA PickerDepends ==
  ASSUME NEW o, NEW p, SameLists(o, p), PickerFits(o),
         p.picker = NoPicker \/ /\ o.picker # NoPicker
                                /\ PickerOK(p.picker, Entries)
                                /\ p.picker.listed = o.picker.listed
  PROVE  PickerFits(p)
  BY DEF PickerFits, SameLists, Selecting

\* What a load of the registry returns.
LEMMA EnvHolds ==
  ASSUME NEW env \in Env
  PROVE  /\ env.started \in BOOLEAN
         /\ env.registry # Unreadable => env.registry.worktrees \in Seq(ListedTrays)
<1>1. PICK registry \in Load :
        env \in [registry : {registry}, started : BOOLEAN,
                 live : SUBSET {registry.worktrees[i] : i \in DOMAIN registry.worktrees}]
  BY DEF Env
<1>2. env.registry = registry /\ env.started \in BOOLEAN
  BY <1>1
<1>3. env.registry # Unreadable => env.registry \in Registries
  BY <1>2 DEF Load
<1> QED  BY <1>2, <1>3, ListsAssumption

\* The candidates are the registry's trays and behind them the session's.
LEMMA CandidatesAreListed ==
  ASSUME NEW o, o.session_trays \in Seq(ListedTrays),
         NEW env, env.registry.worktrees \in Seq(ListedTrays)
  PROVE  /\ Candidates(o, env) \in Seq(Candidate)
         /\ IsSuffix(o.session_trays, Trays(Candidates(o, env)))
<1> DEFINE w == env.registry.worktrees
           s == o.session_trays
           a == [i \in DOMAIN w |-> [tray |-> w[i], available |-> w[i] \in env.live]]
           b == [i \in DOMAIN s |-> [tray |-> s[i], available |-> TRUE]]
<1>1. /\ Len(w) \in Nat /\ DOMAIN w = 1 .. Len(w) /\ \A i \in 1 .. Len(w) : w[i] \in ListedTrays
      /\ Len(s) \in Nat /\ DOMAIN s = 1 .. Len(s) /\ \A i \in 1 .. Len(s) : s[i] \in ListedTrays
  BY LenProperties, ElementOfSeq
<1>2. a \in [1 .. Len(w) -> Candidate] /\ b \in [1 .. Len(s) -> Candidate]
  BY <1>1 DEF Candidate
<1>3. \A i \in 1 .. Len(s) : b[i].tray = s[i]
  BY <1>1
<1>4. Candidates(o, env) = a \o b
  BY DEF Candidates
<1> HIDE DEF a, b, w, s
<1>5. a \in Seq(Candidate) /\ Len(a) = Len(w) /\ b \in Seq(Candidate) /\ Len(b) = Len(s)
  BY <1>1, <1>2, FunctionIsSequence
<1> DEFINE c == a \o b
<1>6. /\ c \in Seq(Candidate) /\ Len(c) = Len(a) + Len(b)
      /\ \A i \in 1 .. Len(a) + Len(b) : c[i] = IF i <= Len(a) THEN a[i] ELSE b[i - Len(a)]
  BY <1>5, ConcatProperties
<1>7. /\ Trays(a) \in Seq(ListedTrays) /\ Len(Trays(a)) = Len(a)
      /\ \A i \in 1 .. Len(a) : Trays(a)[i] = a[i].tray
  BY <1>5, TraysOfCandidates
<1>8. s \in Seq(ListedTrays)
  BY DEF s
<1> DEFINE t == Trays(a) \o s
<1>9. /\ t \in Seq(ListedTrays) /\ Len(t) = Len(Trays(a)) + Len(s)
      /\ \A i \in 1 .. Len(Trays(a)) + Len(s) :
           t[i] = IF i <= Len(Trays(a)) THEN Trays(a)[i] ELSE s[i - Len(Trays(a))]
  BY <1>7, <1>8, ConcatProperties
<1> HIDE DEF c, t
<1>10. /\ Trays(c) \in Seq(ListedTrays) /\ Len(Trays(c)) = Len(c)
       /\ \A i \in 1 .. Len(c) : Trays(c)[i] = c[i].tray
  BY <1>6, TraysOfCandidates
<1>11. Len(Trays(c)) = Len(t)
  BY <1>5, <1>6, <1>7, <1>9, <1>10
<1>12. ASSUME NEW i \in 1 .. Len(Trays(c)) PROVE Trays(c)[i] = t[i]
  <2>1. i \in 1 .. Len(a) + Len(b) /\ i \in 1 .. Len(c) /\ i \in 1 .. Len(Trays(a)) + Len(s)
    BY <1>5, <1>6, <1>7, <1>10
  <2>2. CASE i <= Len(a)
    <3>1. i \in 1 .. Len(a)
      BY <1>1, <1>5, <2>1, <2>2
    <3> QED  BY <1>6, <1>7, <1>9, <1>10, <2>1, <2>2, <3>1
  <2>3. CASE ~ (i <= Len(a))
    <3>1. i - Len(a) \in 1 .. Len(s)
      BY <1>1, <1>5, <2>1, <2>3
    <3>2. c[i] = b[i - Len(a)] /\ t[i] = s[i - Len(a)]
      BY <1>6, <1>7, <1>9, <2>1, <2>3
    <3> QED  BY <1>3, <1>10, <2>1, <3>1, <3>2
  <2> QED  BY <2>2, <2>3
<1>13. Trays(c) = t
  BY <1>9, <1>10, <1>11, <1>12, SeqEqual
<1>14. IsSuffix(s, Trays(c))
  BY <1>7, <1>8, <1>10, <1>13, ConcatHasSuffix DEF t
<1> QED  BY <1>4, <1>6, <1>14 DEF c, s

\* Before a picker is started there is one that says nothing.
LEMMA NoPickerIsTyped == NoPicker \in Pickers(Entries)
<1>1. PICK none : none = <<>>
  OBVIOUS
<1>2. NoPicker = [process |-> "null", listed |-> none, focus |-> 0, output |-> none,
                  pending |-> none, highlighted |-> 0]
  BY <1>1 DEF NoPicker
<1>3. none \in Seq(Entries) /\ none \in Seq(Pieces)
  BY <1>1
<1> QED  BY <1>2, <1>3 DEF Pickers

\* A list that is built anew touches the messages, the candidates and the picker.
Listing(o, r, explained, candidates, picker) ==
  r = [o EXCEPT !.explained = explained, !.candidates = candidates, !.picker = picker]

\* Everything else of the overlay stays.
LEMMA ListingKeeps ==
  ASSUME NEW o, o \in Overlays, WorkflowOK(o), NEW e \in SUBSET Mode,
         NEW c \in Seq(Candidate), NEW p \in Pickers(Entries),
         NEW r, Listing(o, r, e, c, p)
  PROVE  /\ r \in Overlays /\ WorkflowOK(r) /\ Stage(r) = Stage(o) /\ r.mode = o.mode
         /\ r.session_trays = o.session_trays /\ r.tray_to_open = o.tray_to_open
         /\ r.explained = e /\ r.candidates = c /\ r.picker = p
<1>1. /\ r.mode = o.mode /\ r.session_trays = o.session_trays
      /\ r.tray_to_open = o.tray_to_open
      /\ r.explained = e /\ r.candidates = c /\ r.picker = p
  BY DEF Listing, Overlays
<1>2. r \in Overlays
  BY DEF Listing, Overlays
<1>3. SameWorkflow(o, r)
  BY DEF Listing, Overlays, SameWorkflow
<1> QED  BY <1>1, <1>2, <1>3, WorkflowDepends

\* A message for a mode is such a change, with the list and the picker as they were.
LEMMA ExplainLists ==
  ASSUME NEW o, o \in Overlays, NEW m \in Mode
  PROVE  Listing(o, Explain(o, m), o.explained \cup {m}, o.candidates, o.picker)
  BY DEF Listing, Explain, Overlays

\* So is a picker that starts, with the message taken away.
LEMMA OpenLists ==
  ASSUME NEW o, o \in Overlays, NEW m \in Mode, NEW entries
  PROVE  Listing(o, OpenPicker(o, m, entries, TRUE), o.explained \ {m}, o.candidates,
                 Started(entries))
  BY DEF Listing, OpenPicker, Clear, Overlays

\* So is either one after the candidates were replaced.
LEMMA CandidatesList ==
  ASSUME NEW o, o \in Overlays, NEW c, NEW p, NEW e, NEW r,
         Listing([o EXCEPT !.candidates = c], r, e, c, p)
  PROVE  Listing(o, r, e, c, p)
  BY DEF Listing, Overlays

\* A list that is built anew, by start_switch_worktree_picker, shows the trays or
\* says why it does not.
LEMMA ListCandidatesOK ==
  ASSUME NEW o, o \in Overlays, WorkflowOK(o), o.mode = Switch, o.picker = NoPicker,
         NEW c \in Seq(Candidate), IsSuffix(o.session_trays, Trays(c)),
         NEW started \in BOOLEAN, NEW r, r = ListCandidates(o, c, started)
  PROVE  Fine(r) /\ Says(r) /\ r.mode = o.mode /\ r.tray_to_open = o.tray_to_open
<1> DEFINE p == [o EXCEPT !.candidates = c]
<1>1. p \in Overlays /\ p.candidates = c /\ p.picker = NoPicker /\ p.explained = o.explained
  BY DEF Overlays
<1>2. Switch \in Mode /\ o.explained \cup {Switch} \in SUBSET Mode
      /\ o.explained \ {Switch} \in SUBSET Mode
  BY DEF Overlays
<1>3. Stage(o) = "SWITCH_WORKTREE"
  BY StageOf
<1>4. CASE c = <<>> \/ ~started
  <2>1. Listing(p, Explain(p, Switch), o.explained \cup {Switch}, c, NoPicker)
    BY <1>1, <1>2, ExplainLists
  <2>2. r = Explain(p, Switch)
    BY <1>4 DEF ListCandidates, OpenPicker
  <2> HIDE DEF p
  <2>3. Listing(o, r, o.explained \cup {Switch}, c, NoPicker)
    BY <2>1, <2>2, CandidatesList DEF p
  <2>4. /\ r \in Overlays /\ WorkflowOK(r) /\ Stage(r) = Stage(o) /\ r.mode = o.mode
        /\ r.tray_to_open = o.tray_to_open /\ r.explained = o.explained \cup {Switch}
        /\ r.picker = NoPicker
    BY <1>2, <2>3, NoPickerIsTyped, ListingKeeps
  <2> QED  BY <2>4 DEF Fine, PickerFits, Says
<1>5. CASE c # <<>> /\ started
  <2>1. Trays(c) \in Seq(ListedTrays) /\ Trays(c) # <<>>
    BY <1>5, TraysOfCandidates
  <2>2. Trays(c) \in Seq(Entries)
    BY <2>1, SequenceWidens DEF Entries
  <2>3. /\ PickerOK(Started(Trays(c)), Entries) /\ Started(Trays(c)).listed = Trays(c)
        /\ Started(Trays(c)).process = "running"
    BY <2>1, <2>2, StartedIsOK
  <2>4. Started(Trays(c)) \in Pickers(Entries) /\ Started(Trays(c)) # NoPicker
    BY <2>3 DEF PickerOK, NoPicker
  <2>5. Listing(p, OpenPicker(p, Switch, Trays(c), TRUE), o.explained \ {Switch}, c,
                Started(Trays(c)))
    BY <1>1, <1>2, OpenLists
  <2>6. r = OpenPicker(p, Switch, Trays(c), TRUE)
    BY <1>5 DEF ListCandidates
  <2> HIDE DEF p
  <2>7. Listing(o, r, o.explained \ {Switch}, c, Started(Trays(c)))
    BY <2>5, <2>6, CandidatesList DEF p
  <2>8. /\ r \in Overlays /\ WorkflowOK(r) /\ Stage(r) = Stage(o) /\ r.mode = o.mode
        /\ r.session_trays = o.session_trays /\ r.tray_to_open = o.tray_to_open
        /\ r.candidates = c /\ r.picker = Started(Trays(c))
    BY <1>2, <2>4, <2>7, ListingKeeps
  <2>9. PickerFits(r)
    BY <1>3, <2>3, <2>8 DEF PickerFits, Selecting
  <2>10. Says(r)
    BY <2>4, <2>8 DEF Says
  <2> QED  BY <2>8, <2>9, <2>10 DEF Fine
<1> QED  BY <1>4, <1>5

\* The Worktrees mode starts its picker, or says why not: start_switch_worktree_picker.
LEMMA SwitchPickerOK ==
  ASSUME NEW o, o \in Overlays, WorkflowOK(o), o.mode = Switch, o.picker = NoPicker,
         NEW env \in Env, NEW r, r = StartSwitchPicker(o, env)
  PROVE  Fine(r) /\ Says(r) /\ r.mode = o.mode /\ r.tray_to_open = o.tray_to_open
<1>1. CASE env.registry = Unreadable
  <2>1. r = Explain(o, Switch) /\ Switch \in Mode /\ o.explained \cup {Switch} \in SUBSET Mode
    BY <1>1 DEF StartSwitchPicker, Overlays
  <2>2. Listing(o, r, o.explained \cup {Switch}, o.candidates, NoPicker)
    BY <2>1, ExplainLists
  <2>3. o.candidates \in Seq(Candidate)
    BY DEF Overlays
  <2>4. /\ r \in Overlays /\ WorkflowOK(r) /\ r.mode = o.mode /\ r.picker = NoPicker
        /\ r.tray_to_open = o.tray_to_open /\ r.explained = o.explained \cup {Switch}
    BY <2>1, <2>2, <2>3, NoPickerIsTyped, ListingKeeps
  <2> QED  BY <2>4 DEF Fine, PickerFits, Says
<1>2. CASE env.registry # Unreadable
  <2>1. env.registry.worktrees \in Seq(ListedTrays) /\ env.started \in BOOLEAN
    BY <1>2, EnvHolds
  <2>2. o.session_trays \in Seq(ListedTrays)
    BY DEF Overlays
  <2>3. /\ Candidates(o, env) \in Seq(Candidate)
        /\ IsSuffix(o.session_trays, Trays(Candidates(o, env)))
    BY <2>1, <2>2, CandidatesAreListed
  <2>4. r = ListCandidates(o, Candidates(o, env), env.started)
    BY <1>2 DEF StartSwitchPicker
  <2> QED  BY <2>1, <2>3, <2>4, ListCandidatesOK
<1> QED  BY <1>1, <1>2

\* The form starts the picker of repositories, or says why not: start_repository_picker.
LEMMA RepositoryPickerOK ==
  ASSUME NEW o, Fine(o), o.mode = AddWorktree, Stage(o) = "WORKTREE_REPOSITORY",
         NEW started \in BOOLEAN, NEW r, r = StartRepositoryPicker(o, started)
  PROVE  Fine(r) /\ Says(r) /\ r.mode = o.mode /\ r.tray_to_open = o.tray_to_open
<1>1. /\ o \in Overlays /\ WorkflowOK(o) /\ PickerFits(o) /\ AddWorktree \in Mode
      /\ o.explained \cup {AddWorktree} \in SUBSET Mode
      /\ o.explained \ {AddWorktree} \in SUBSET Mode
      /\ o.candidates \in Seq(Candidate) /\ o.picker \in Pickers(Entries)
      /\ o.repositories \in Seq(Repositories)
  BY DEF Fine, Overlays
<1>2. CASE o.repositories = <<>> \/ ~started
  <2>1. r = Explain(o, AddWorktree)
    BY <1>2 DEF StartRepositoryPicker, OpenPicker
  <2>2. Listing(o, r, o.explained \cup {AddWorktree}, o.candidates, o.picker)
    BY <1>1, <2>1, ExplainLists
  <2>3. /\ r \in Overlays /\ WorkflowOK(r) /\ Stage(r) = Stage(o) /\ r.mode = o.mode
        /\ r.session_trays = o.session_trays /\ r.tray_to_open = o.tray_to_open
        /\ r.explained = o.explained \cup {AddWorktree} /\ r.candidates = o.candidates
        /\ r.picker = o.picker
    BY <1>1, <2>2, ListingKeeps
  <2>4. PickerFits(r)
    BY <1>1, <2>3 DEF PickerFits, Selecting
  <2> QED  BY <2>3, <2>4 DEF Fine, Says
<1>3. CASE o.repositories # <<>> /\ started
  <2>1. o.repositories \in Seq(Entries)
    BY <1>1, SequenceWidens DEF Entries
  <2>2. /\ PickerOK(Started(o.repositories), Entries)
        /\ Started(o.repositories).listed = o.repositories
        /\ Started(o.repositories).process = "running"
    BY <1>3, <2>1, StartedIsOK
  <2>3. Started(o.repositories) \in Pickers(Entries) /\ Started(o.repositories) # NoPicker
    BY <2>2 DEF PickerOK, NoPicker
  <2>4. r = OpenPicker(o, AddWorktree, o.repositories, TRUE)
    BY <1>3 DEF StartRepositoryPicker
  <2>5. Listing(o, r, o.explained \ {AddWorktree}, o.candidates, Started(o.repositories))
    BY <1>1, <2>4, OpenLists
  <2>6. /\ r \in Overlays /\ WorkflowOK(r) /\ Stage(r) = Stage(o) /\ r.mode = o.mode
        /\ r.tray_to_open = o.tray_to_open /\ r.picker = Started(o.repositories)
    BY <1>1, <2>3, <2>5, ListingKeeps
  <2>7. PickerFits(r)
    BY <1>1, <2>2, <2>6 DEF PickerFits, Selecting
  <2>8. Says(r)
    BY <2>3, <2>6 DEF Says
  <2> QED  BY <2>6, <2>7, <2>8 DEF Fine
<1> QED  BY <1>2, <1>3

\* A load brings repositories, or none.
LEMMA LoadOK ==
  ASSUME NEW o, o \in Overlays, NEW registry \in Load, NEW r, r = LoadRepositories(o, registry)
  PROVE  /\ r \in Overlays /\ SameWorkflow(o, r)
         /\ r.tray_to_open = o.tray_to_open /\ r.session_trays = o.session_trays
<1>1. registry.repositories \in Seq(Repositories)
  <2>1. CASE registry = Unreadable
    BY <2>1 DEF Unreadable
  <2>2. CASE registry \in Registries
    BY <2>2, ListsAssumption
  <2> QED  BY <2>1, <2>2 DEF Load
<1>2. PICK list \in Seq(Repositories) : list = registry.repositories
  BY <1>1
<1>3. PICK e \in SUBSET Mode :
        r = [o EXCEPT !.explained = e, !.repositories = list]
  <2>1. CASE list = <<>>
    <3>1. r = [o EXCEPT !.explained = o.explained \cup {AddWorktree}, !.repositories = list]
      BY <1>2, <2>1 DEF LoadRepositories, Explain
    <3>2. o.explained \cup {AddWorktree} \in SUBSET Mode
      BY DEF Overlays
    <3> QED  BY <3>1, <3>2
  <2>2. CASE list # <<>>
    <3>1. r = [o EXCEPT !.explained = o.explained \ {AddWorktree}, !.repositories = list]
      BY <1>2, <2>2 DEF LoadRepositories, Clear
    <3>2. o.explained \ {AddWorktree} \in SUBSET Mode
      BY DEF Overlays
    <3> QED  BY <3>1, <3>2
  <2> QED  BY <2>1, <2>2
<1>4. r \in Overlays
  BY <1>3, ZenonT(60) DEF Overlays
<1> QED  BY <1>3, <1>4 DEF Overlays, SameWorkflow

\* A mode that is entered has its picker where it needs one: activate_mode.
LEMMA ActivateOK ==
  ASSUME NEW o, o \in Overlays, WorkflowOK(o), NEW env \in Env, NEW r, r = ActivateMode(o, env)
  PROVE  Fine(r) /\ Says(r) /\ r.tray_to_open = o.tray_to_open
<1>1. PICK entered : entered = [o EXCEPT !.picker = NoPicker, !.keys = <<>>, !.editing = "NORMAL"]
  OBVIOUS
<1>2. PICK none \in Seq(Key) : none = <<>>
  <2>1. <<>> \in Seq(Key)
    OBVIOUS
  <2> QED  BY <2>1
<1>3. entered = [o EXCEPT !.picker = NoPicker, !.keys = none, !.editing = "NORMAL"]
  BY <1>1, <1>2
<1>4. entered \in Overlays /\ entered.picker = NoPicker /\ entered.mode = o.mode
      /\ entered.tray_to_open = o.tray_to_open /\ SameWorkflow(o, entered)
  BY <1>3, NoPickerIsTyped DEF Overlays, SameWorkflow
<1>5. WorkflowOK(entered) /\ Stage(entered) = Stage(o)
  BY <1>4, WorkflowDepends
<1>6. PickerFits(entered) /\ Fine(entered)
  BY <1>4, <1>5 DEF PickerFits, Fine
<1>7. env.started \in BOOLEAN
  BY EnvHolds
<1>8. CASE o.mode = Switch
  <2>1. r = StartSwitchPicker(entered, env)
    BY <1>1, <1>8 DEF ActivateMode
  <2> QED  BY <1>4, <1>5, <1>8, <2>1, SwitchPickerOK
<1>9. CASE o.mode = AddWorktree /\ Stage(o) = "WORKTREE_REPOSITORY"
  <2>1. r = StartRepositoryPicker(entered, env.started)
    BY <1>1, <1>9 DEF ActivateMode
  <2> QED  BY <1>4, <1>5, <1>6, <1>7, <1>9, <2>1, RepositoryPickerOK
<1>10. CASE o.mode # Switch /\ ~ (o.mode = AddWorktree /\ Stage(o) = "WORKTREE_REPOSITORY")
  <2>1. r = entered
    BY <1>1, <1>10 DEF ActivateMode
  <2>2. ~ Selecting(entered)
    BY <1>4, <1>5, <1>10, StageOf DEF Selecting
  <2> QED  BY <1>4, <1>6, <2>1, <2>2 DEF Says
<1> QED  BY <1>8, <1>9, <1>10

\* The modes follow each other in a circle.
LEMMA CycledModeIsAMode ==
  ASSUME NEW mode \in Mode, NEW direction
  PROVE  CycledMode(mode, direction) \in Mode
<1> DEFINE next == [m \in Mode |-> CASE m = Switch -> AddWorktree
                                     [] m = AddWorktree -> AddRepository
                                     [] m = AddRepository -> Switch]
<1>1. /\ next["SWITCH_WORKTREE"] = "ADD_WORKTREE" /\ next["ADD_WORKTREE"] = "ADD_REPOSITORY"
      /\ next["ADD_REPOSITORY"] = "SWITCH_WORKTREE"
  OBVIOUS
<1>2. CycledMode(mode, direction) =
        IF direction = "NEXT" THEN next[mode] ELSE CHOOSE m \in Mode : next[m] = mode
  BY DEF CycledMode
<1> HIDE DEF next
<1>3. \E m \in Mode : next[m] = mode
  BY <1>1
<1>4. next[mode] \in Mode
  BY <1>1
<1> QED  BY <1>2, <1>3, <1>4

\* The form that is left takes everything with it that it collected, and its helper.
LEMMA FreshOK ==
  ASSUME NEW o, o \in Overlays, NEW mode \in Mode, NEW r, r = FreshWorkflow(Abandon(o), mode)
  PROVE  r \in Overlays /\ WorkflowOK(r) /\ r.tray_to_open = o.tray_to_open
<1>1. PICK p : p = Abandon(o)
  OBVIOUS
<1>2. /\ NoTray \in TrayIds
      /\ NoHelper \in [process : {"null", "running", "succeeded", "failed"}, path : TrayIds,
                       result : {"none", "succeeded", "failed"}]
      /\ NoHelper.process = "null"
  BY DEF TrayIds, NoHelper
<1>3. p \in Overlays /\ p.selected_repository = NoPath /\ p.helper.process = "null"
      /\ p.tray_to_open = o.tray_to_open
  BY <1>1, <1>2 DEF Abandon, Overlays
<1>4. PICK text \in [Field -> Text] : text = [f \in Field |-> "empty"]
  BY DEF Text
<1>5. r = [p EXCEPT !.mode = mode, !.worktree_stage = "WORKTREE_REPOSITORY",
                    !.repository_stage = "REPOSITORY_ROOT", !.explained = {}, !.text = text]
  BY <1>1, <1>4 DEF FreshWorkflow
<1>6. r \in Overlays
  <2>1. PICK e \in SUBSET Mode : e = {}
    OBVIOUS
  <2>2. r = [p EXCEPT !.mode = mode, !.worktree_stage = "WORKTREE_REPOSITORY",
                      !.repository_stage = "REPOSITORY_ROOT", !.explained = e, !.text = text]
    BY <1>5, <2>1
  <2>3. PICK q : q = [p EXCEPT !.mode = mode, !.worktree_stage = "WORKTREE_REPOSITORY",
                               !.repository_stage = "REPOSITORY_ROOT"]
    OBVIOUS
  <2>4. r = [q EXCEPT !.explained = e, !.text = text]
    BY <2>2, <2>3
  <2>5. p \in Overlays
    BY <1>3
  <2>6. q \in Overlays
    BY <2>3, <2>5, ZenonT(60) DEF Overlays
  <2> QED  BY <2>4, <2>6, ZenonT(60) DEF Overlays
<1>7. /\ r.mode = mode /\ r.worktree_stage = "WORKTREE_REPOSITORY"
      /\ r.repository_stage = "REPOSITORY_ROOT" /\ r.selected_repository = NoPath
      /\ r.helper.process = "null" /\ r.tray_to_open = o.tray_to_open
  BY <1>3, <1>5 DEF Overlays
<1>8. Stage(r) \in {"SWITCH_WORKTREE", "WORKTREE_REPOSITORY", "REPOSITORY_ROOT"}
  BY <1>6, <1>7, StageOf
<1> QED  BY <1>6, <1>7, <1>8 DEF WorkflowOK, HelperRuns, HasInputs

\* Tab and Shift-Tab leave a mode and enter another one: cycle_mode.
LEMMA CycleOK ==
  ASSUME NEW o, o \in Overlays, NEW direction, NEW registry \in Load, NEW env \in Env,
         NEW r, r = CycleMode(o, direction, registry, env)
  PROVE  Fine(r) /\ Says(r) /\ r.tray_to_open = o.tray_to_open
<1>1. o.mode \in Mode
  BY DEF Overlays
<1>2. PICK fresh : fresh = FreshWorkflow(Abandon(o), CycledMode(o.mode, direction))
  OBVIOUS
<1>3. fresh \in Overlays /\ WorkflowOK(fresh) /\ fresh.tray_to_open = o.tray_to_open
  BY <1>1, <1>2, CycledModeIsAMode, FreshOK
<1>4. PICK loaded : loaded = LoadRepositories(fresh, registry)
  OBVIOUS
<1>5. loaded \in Overlays /\ SameWorkflow(fresh, loaded)
      /\ loaded.tray_to_open = fresh.tray_to_open
  BY <1>3, <1>4, LoadOK
<1>6. WorkflowOK(loaded)
  BY <1>3, <1>5, WorkflowDepends
<1>7. r = ActivateMode(loaded, env)
  BY <1>2, <1>4 DEF CycleMode
<1> QED  BY <1>3, <1>5, <1>6, <1>7, ActivateOK

\* An overlay that is not open is blank, but for the session's trays when it starts.
LEMMA BlankOK ==
  ASSUME NEW trays \in Seq(ListedTrays), NEW o, o = [Blank EXCEPT !.session_trays = trays]
  PROVE  /\ o \in Overlays /\ WorkflowOK(o) /\ o.picker = NoPicker /\ o.tray_to_open = NoTray
         /\ Fine(Blank) /\ Blank.tray_to_open = NoTray
<1>1. PICK none : none = <<>>
  OBVIOUS
<1>2. PICK text \in [Field -> Text] : text = [f \in Field |-> "empty"]
  BY DEF Text
<1>3. none \in Seq(Repositories) /\ none \in Seq(Candidate) /\ none \in Seq(ListedTrays)
      /\ none \in Seq(Key)
  BY <1>1
<1>4. /\ NoTray \in TrayIds
      /\ NoHelper \in [process : {"null", "running", "succeeded", "failed"}, path : TrayIds,
                       result : {"none", "succeeded", "failed"}]
      /\ NoHelper.process = "null"
  BY DEF TrayIds, NoHelper
<1>5. Blank =
        [mode |-> "SWITCH_WORKTREE", worktree_stage |-> "WORKTREE_REPOSITORY",
         repository_stage |-> "REPOSITORY_ROOT", explained |-> {}, text |-> text,
         repositories |-> none, selected_repository |-> NoPath, repository_root |-> NoPath,
         pending_worktree_path |-> NoTray, candidates |-> none, session_trays |-> none,
         picker |-> NoPicker, helper |-> NoHelper, confirmation |-> NoTray,
         tray_to_open |-> NoTray, keys |-> none, editing |-> "NORMAL"]
  BY <1>1, <1>2 DEF Blank
<1>6. Blank \in Overlays
  BY <1>3, <1>4, <1>5, NoPickerIsTyped DEF Overlays
<1>7. /\ Blank.mode = "SWITCH_WORKTREE" /\ Blank.picker = NoPicker
      /\ Blank.tray_to_open = NoTray /\ Blank.helper = NoHelper
      /\ Blank.selected_repository = NoPath
  BY <1>5
<1>8. Stage(Blank) = "SWITCH_WORKTREE"
  BY <1>6, <1>7, StageOf
<1>9. WorkflowOK(Blank)
  BY <1>4, <1>7, <1>8 DEF WorkflowOK, HelperRuns, HasInputs
<1>10. Fine(Blank)
  BY <1>6, <1>7, <1>9 DEF Fine, PickerFits
<1>11. /\ o \in Overlays /\ o.picker = NoPicker /\ o.tray_to_open = NoTray
       /\ SameWorkflow(Blank, o)
  BY <1>6, <1>7, ZenonT(60) DEF Overlays, SameWorkflow
<1> QED  BY <1>7, <1>9, <1>10, <1>11, WorkflowDepends

------------------------------------------------------------------------------
(* The forms and the helper                                                *)

\* What the invariant is about, and nothing else.
SameOverlay(o, p) ==
  /\ SameWorkflow(o, p) /\ p.picker = o.picker /\ p.candidates = o.candidates
  /\ p.session_trays = o.session_trays

\* A change of anything else keeps the overlay in order.
LEMMA Unaffected ==
  ASSUME NEW o, Fine(o), NEW p \in Overlays, SameOverlay(o, p)
  PROVE  /\ Fine(p) /\ Stage(p) = Stage(o)
         /\ Says(o) /\ o.explained \subseteq p.explained /\ p.tray_to_open = o.tray_to_open =>
              Says(p)
<1>1. WorkflowOK(p) /\ Stage(p) = Stage(o) /\ p.mode = o.mode /\ p.picker = o.picker
  BY WorkflowDepends DEF Fine, SameOverlay, SameWorkflow
<1>2. PickerFits(p)
  <2>1. SameLists(o, p)
    BY <1>1 DEF SameOverlay, SameLists
  <2>2. o.picker # NoPicker => PickerOK(o.picker, Entries)
    BY DEF Fine, PickerFits
  <2> QED  BY <1>1, <2>1, <2>2, PickerDepends DEF Fine
<1>3. Selecting(p) = Selecting(o)
  BY <1>1 DEF Selecting
<1> QED  BY <1>1, <1>2, <1>3 DEF Fine, Says

\* Text is entered in the field of the stage.
Entered(o, p, text, editing, e) ==
  p = [o EXCEPT !.editing = editing, !.text = [o.text EXCEPT ![Stage(o)] = text],
                !.explained = e]

\* Text that is entered concerns no helper that runs.
LEMMA TextOK ==
  ASSUME NEW o, Fine(o), Stage(o) \in Field, NEW text \in Text,
         NEW e \in SUBSET Mode, NEW editing \in {"NORMAL", "ESCAPE", "CONTROL_SEQUENCE"},
         NEW p, Entered(o, p, text, editing, e)
  PROVE  Fine(p) /\ Says(p) /\ p.tray_to_open = o.tray_to_open
<1>1. o \in Overlays /\ o.text \in [Field -> Text]
  BY DEF Fine, Overlays
<1>2. PICK texts \in [Field -> Text] : texts = [o.text EXCEPT ![Stage(o)] = text]
  BY <1>1
<1>3. p = [o EXCEPT !.editing = editing, !.text = texts, !.explained = e]
  BY <1>2 DEF Entered
<1>4. p \in Overlays
  BY <1>1, <1>3 DEF Overlays
<1>5. /\ p.mode = o.mode /\ p.worktree_stage = o.worktree_stage
      /\ p.repository_stage = o.repository_stage
      /\ p.selected_repository = o.selected_repository
      /\ p.repository_root = o.repository_root /\ p.helper = o.helper
      /\ p.tray_to_open = o.tray_to_open /\ p.picker = o.picker
  BY <1>1, <1>3 DEF Overlays
<1>6. Stage(p) = Stage(o)
  BY <1>5 DEF Stage
<1>7. Stage(o) \in {"WORKTREE_BRANCH", "REPOSITORY_ROOT", "REPOSITORY_CLONE_URL"}
  BY DEF Field
<1>8. WorkflowOK(p)
  BY <1>5, <1>6, <1>7 DEF Fine, WorkflowOK, HelperRuns, HasInputs
<1>9. o.picker = NoPicker
  BY <1>7 DEF Fine, PickerFits, Selecting
<1>10. PickerFits(p) /\ Says(p)
  BY <1>5, <1>6, <1>7, <1>9 DEF PickerFits, Says, Selecting
<1> QED  BY <1>4, <1>5, <1>8, <1>10 DEF Fine

\* A message changes nothing else.
LEMMA MessageOK ==
  ASSUME NEW o, Fine(o), NEW e \in SUBSET Mode, NEW p, p = [o EXCEPT !.explained = e]
  PROVE  /\ Fine(p) /\ Stage(p) = Stage(o) /\ p.tray_to_open = o.tray_to_open
         /\ SameOverlay(o, p) /\ p.explained = e
<1>1. o \in Overlays
  BY DEF Fine
<1>2. p \in Overlays /\ SameOverlay(o, p) /\ p.tray_to_open = o.tray_to_open /\ p.explained = e
  BY <1>1 DEF Overlays, SameOverlay, SameWorkflow
<1> QED  BY <1>2, Unaffected

\* Explain and Clear are such changes.
LEMMA ExplainOK ==
  ASSUME NEW o, Fine(o), NEW m \in Mode
  PROVE  /\ Fine(Explain(o, m)) /\ Stage(Explain(o, m)) = Stage(o)
         /\ Explain(o, m).tray_to_open = o.tray_to_open /\ SameOverlay(o, Explain(o, m))
         /\ m = o.mode => Says(Explain(o, m))
         /\ Fine(Clear(o, m)) /\ Stage(Clear(o, m)) = Stage(o)
         /\ Clear(o, m).tray_to_open = o.tray_to_open /\ SameOverlay(o, Clear(o, m))
<1>1. o.explained \cup {m} \in SUBSET Mode /\ o.explained \ {m} \in SUBSET Mode
  BY DEF Fine, Overlays
<1>2. /\ Fine(Explain(o, m)) /\ Stage(Explain(o, m)) = Stage(o)
      /\ Explain(o, m).tray_to_open = o.tray_to_open /\ SameOverlay(o, Explain(o, m))
      /\ Explain(o, m).explained = o.explained \cup {m}
  BY <1>1, MessageOK DEF Explain
<1>3. /\ Fine(Clear(o, m)) /\ Stage(Clear(o, m)) = Stage(o)
      /\ Clear(o, m).tray_to_open = o.tray_to_open /\ SameOverlay(o, Clear(o, m))
  BY <1>1, MessageOK DEF Clear
<1>4. m = o.mode => Says(Explain(o, m))
  BY <1>2 DEF Says, SameOverlay, SameWorkflow
<1> QED  BY <1>2, <1>3, <1>4

\* A helper is started for what the form holds, or the form says why it is not.
LEMMA StartHelperOK ==
  ASSUME NEW o, Fine(o), ~ Selecting(o), o.mode \in {AddWorktree, AddRepository},
         NEW path \in TrayIds, NEW started \in BOOLEAN,
         o.mode = AddWorktree => /\ o.pending_worktree_path = path
                                 /\ path = WorktreeTray(o.selected_repository,
                                                        o.text["WORKTREE_BRANCH"]),
         o.mode = AddRepository => o.repository_root \in Names,
         NEW r, r = StartHelper(o, path, started)
  PROVE  Fine(r) /\ Says(r) /\ r.tray_to_open = o.tray_to_open
<1>1. o \in Overlays /\ o.picker = NoPicker /\ o.mode \in Mode /\ WorkflowOK(o)
  BY DEF Fine, PickerFits
<1>2. CASE ~ started
  BY <1>1, <1>2, ExplainOK DEF StartHelper
<1>3. CASE started
  <2>1. PICK helper \in [process : {"null", "running", "succeeded", "failed"}, path : TrayIds,
                         result : {"none", "succeeded", "failed"}] :
          /\ helper = [o.helper EXCEPT !.process = "running", !.path = path]
          /\ helper.process = "running" /\ helper.path = path
    <3>1. o.helper \in [process : {"null", "running", "succeeded", "failed"}, path : TrayIds,
                        result : {"none", "succeeded", "failed"}]
      BY <1>1 DEF Overlays
    <3>2. PICK helper : helper = [o.helper EXCEPT !.process = "running", !.path = path]
      OBVIOUS
    <3>3. helper \in [process : {"null", "running", "succeeded", "failed"}, path : TrayIds,
                      result : {"none", "succeeded", "failed"}]
      BY <3>1, <3>2
    <3>4. helper.process = "running" /\ helper.path = path
      BY <3>1, <3>2
    <3> QED  BY <3>2, <3>3, <3>4
  <2>2. PICK p : p = [o EXCEPT !.helper = helper]
    OBVIOUS
  <2>3. p \in Overlays /\ p.helper = helper
    BY <1>1, <2>2 DEF Overlays
  <2>4. /\ p.mode = o.mode /\ p.worktree_stage = o.worktree_stage
        /\ p.repository_stage = o.repository_stage /\ p.text = o.text
        /\ p.selected_repository = o.selected_repository /\ p.picker = NoPicker
        /\ p.repository_root = o.repository_root /\ p.tray_to_open = o.tray_to_open
        /\ p.pending_worktree_path = o.pending_worktree_path
    BY <1>1, <2>2 DEF Overlays
  <2>5. r = SetStage(p, "RUNNING")
    <3>1. p = [o EXCEPT !.helper.process = "running", !.helper.path = path]
      BY <1>1, <2>1, <2>2
    <3> QED  BY <1>3, <3>1 DEF StartHelper
  <2>6. CASE o.mode = AddWorktree
    <3>1. r = [p EXCEPT !.worktree_stage = "RUNNING"]
      BY <2>4, <2>5, <2>6 DEF SetStage
    <3>2. r \in Overlays
      BY <2>3, <3>1 DEF Overlays
    <3>3. /\ r.mode = AddWorktree /\ r.worktree_stage = "RUNNING" /\ r.text = o.text
          /\ r.selected_repository = o.selected_repository /\ r.picker = NoPicker
          /\ r.tray_to_open = o.tray_to_open
          /\ r.pending_worktree_path = o.pending_worktree_path /\ r.helper = helper
      BY <2>3, <2>4, <2>6, <3>1 DEF Overlays
    <3>4. Stage(r) = "RUNNING"
      BY <3>3 DEF Stage
    <3>5. WorkflowOK(r)
      BY <2>1, <2>6, <3>3, <3>4 DEF WorkflowOK, HelperRuns, HasInputs
    <3> QED  BY <3>2, <3>3, <3>4, <3>5 DEF Fine, PickerFits, Says, Selecting
  <2>7. CASE o.mode = AddRepository
    <3>1. r = [p EXCEPT !.repository_stage = "RUNNING"]
      BY <2>4, <2>5, <2>7 DEF SetStage
    <3>2. r \in Overlays
      BY <2>3, <3>1 DEF Overlays
    <3>3. /\ r.mode = AddRepository /\ r.repository_stage = "RUNNING"
          /\ r.repository_root = o.repository_root /\ r.picker = NoPicker
          /\ r.worktree_stage = o.worktree_stage
          /\ r.selected_repository = o.selected_repository
          /\ r.tray_to_open = o.tray_to_open /\ r.helper = helper
      BY <2>3, <2>4, <2>7, <3>1 DEF Overlays
    <3>4. Stage(r) = "RUNNING"
      BY <3>3 DEF Stage
    <3>5. WorkflowOK(r)
      BY <1>1, <2>1, <2>7, <3>3, <3>4 DEF WorkflowOK, HelperRuns, HasInputs
    <3> QED  BY <3>2, <3>3, <3>4, <3>5 DEF Fine, PickerFits, Says, Selecting
  <2> QED  BY <2>6, <2>7
<1> QED  BY <1>2, <1>3

------------------------------------------------------------------------------
(* The children                                                            *)

\* A stage that is entered from another one, in a form, touches that form only.
LEMMA SetStageKeeps ==
  ASSUME NEW o, o \in Overlays, o.mode \in {AddWorktree, AddRepository}, NEW stage,
         o.mode = AddWorktree => stage \in {"WORKTREE_BRANCH", "RUNNING", "RESULT"},
         o.mode = AddRepository => stage \in {"REPOSITORY_CLONE_URL", "RUNNING", "RESULT"},
         NEW r, r = SetStage(o, stage)
  PROVE  /\ r \in Overlays /\ Stage(r) = stage /\ r.mode = o.mode /\ r.text = o.text
         /\ r.selected_repository = o.selected_repository
         /\ r.repository_root = o.repository_root /\ r.helper = o.helper
         /\ r.pending_worktree_path = o.pending_worktree_path
         /\ r.picker = o.picker /\ r.tray_to_open = o.tray_to_open
         /\ r.worktree_stage = IF o.mode = AddWorktree THEN stage ELSE o.worktree_stage
<1>1. CASE o.mode = AddWorktree
  <2>1. r = [o EXCEPT !.worktree_stage = stage]
    BY <1>1 DEF SetStage
  <2>2. r \in Overlays
    BY <1>1, <2>1 DEF Overlays
  <2>3. /\ r.worktree_stage = stage /\ r.mode = o.mode /\ r.text = o.text
        /\ r.selected_repository = o.selected_repository
        /\ r.repository_root = o.repository_root /\ r.helper = o.helper
        /\ r.pending_worktree_path = o.pending_worktree_path
        /\ r.picker = o.picker /\ r.tray_to_open = o.tray_to_open
    BY <1>1, <2>1 DEF Overlays
  <2> QED  BY <1>1, <2>2, <2>3 DEF Stage
<1>2. CASE o.mode = AddRepository
  <2>1. r = [o EXCEPT !.repository_stage = stage]
    BY <1>2 DEF SetStage
  <2>2. r \in Overlays
    BY <1>2, <2>1 DEF Overlays
  <2>3. /\ r.repository_stage = stage /\ r.mode = o.mode /\ r.text = o.text
        /\ r.worktree_stage = o.worktree_stage
        /\ r.selected_repository = o.selected_repository
        /\ r.repository_root = o.repository_root /\ r.helper = o.helper
        /\ r.pending_worktree_path = o.pending_worktree_path
        /\ r.picker = o.picker /\ r.tray_to_open = o.tray_to_open
    BY <1>2, <2>1 DEF Overlays
  <2> QED  BY <1>2, <2>2, <2>3 DEF Stage
<1> QED  BY <1>1, <1>2

\* The chosen entry of the Worktrees mode opens, unless it is unavailable.
LEMMA ChosenOK ==
  ASSUME NEW o, Fine(o), o.mode = Switch, o.picker = NoPicker, NEW picker,
         PickerOK(picker, Entries), picker.listed = Trays(o.candidates), NEW env \in Env,
         NEW r, r = Chosen(o, picker, env)
  PROVE  /\ Fine(r) /\ Says(r)
         /\ \/ r.tray_to_open = o.tray_to_open
            \/ /\ r.tray_to_open = picker.listed[picker.focus + 1]
               /\ o.candidates[picker.focus + 1].available
<1>1. /\ o \in Overlays /\ WorkflowOK(o) /\ o.candidates \in Seq(Candidate) /\ Switch \in Mode
      /\ picker.focus \in Nat /\ Stage(o) = "SWITCH_WORKTREE"
  BY StageOf DEF Fine, Overlays, PickerOK, Pickers
<1>2. PICK k : k = picker.focus + 1
  OBVIOUS
<1>3. CASE picker.focus >= Len(o.candidates)
  <2>1. r = Explain(o, Switch)
    BY <1>3 DEF Chosen
  <2> QED  BY <1>1, <2>1, ExplainOK
<1>4. CASE ~ (picker.focus >= Len(o.candidates)) /\ ~ o.candidates[k].available
  <2>1. PICK p : p = [o EXCEPT !.confirmation = NoTray]
    OBVIOUS
  <2>2. r = StartSwitchPicker(p, env)
    BY <1>2, <1>4, <2>1 DEF Chosen
  <2>3. NoTray \in TrayIds
    BY DEF TrayIds
  <2>4. p \in Overlays /\ SameWorkflow(o, p) /\ p.mode = o.mode /\ p.picker = NoPicker
        /\ p.tray_to_open = o.tray_to_open
    BY <1>1, <2>1, <2>3 DEF Overlays, SameWorkflow
  <2>5. WorkflowOK(p)
    BY <1>1, <2>4, WorkflowDepends
  <2> QED  BY <2>2, <2>4, <2>5, SwitchPickerOK
<1>5. CASE ~ (picker.focus >= Len(o.candidates)) /\ o.candidates[k].available
  <2>1. PICK tray : tray = o.candidates[k].tray
    OBVIOUS
  <2>2. Len(o.candidates) \in Nat /\ k \in 1 .. Len(o.candidates)
    BY <1>1, <1>2, <1>5, LenProperties
  <2>3. o.candidates[k] \in Candidate
    BY <1>1, <2>2, ElementOfSeq
  <2>4. tray \in ListedTrays /\ tray \in TrayIds /\ tray # NoTray
    BY <2>1, <2>3, ListsAssumption DEF Candidate, TrayIds
  <2>5. tray = picker.listed[k]
    BY <1>1, <2>1, <2>2, TraysOfCandidates
  <2>6. PICK p : p = [o EXCEPT !.tray_to_open = tray]
    OBVIOUS
  <2>7. p \in Overlays /\ SameOverlay(o, p) /\ p.tray_to_open = tray
    BY <1>1, <2>4, <2>6 DEF Overlays, SameOverlay, SameWorkflow
  <2>8. Fine(p)
    BY <2>7, Unaffected
  <2>9. r = Clear(p, Switch)
    BY <1>2, <1>5, <2>1, <2>6 DEF Chosen
  <2>10. Fine(r) /\ r.tray_to_open = tray
    BY <1>1, <2>7, <2>8, <2>9, ExplainOK
  <2>11. Says(r)
    BY <2>4, <2>10 DEF Says
  <2> QED  BY <1>2, <1>5, <2>5, <2>10, <2>11
<1> QED  BY <1>3, <1>4, <1>5

\* The chosen repository leads to the branch.
LEMMA ChosenRepositoryOK ==
  ASSUME NEW o, Fine(o), o.mode = AddWorktree, Stage(o) = "WORKTREE_REPOSITORY",
         o.picker = NoPicker, NEW path \in Repositories, NEW r, r = ChosenRepository(o, path)
  PROVE  Fine(r) /\ Says(r) /\ r.tray_to_open = o.tray_to_open
<1>1. /\ o \in Overlays /\ WorkflowOK(o) /\ AddWorktree \in Mode
      /\ o.explained \ {AddWorktree} \in SUBSET Mode
  BY DEF Fine, Overlays
<1>2. PICK p : p = [o EXCEPT !.selected_repository = path,
                             !.explained = o.explained \ {AddWorktree}]
  OBVIOUS
<1>3. p \in Overlays /\ p.mode = AddWorktree /\ p.selected_repository = path
      /\ p.helper = o.helper /\ p.picker = NoPicker /\ p.tray_to_open = o.tray_to_open
  BY <1>1, <1>2 DEF Overlays
<1>4. r = SetStage(p, "WORKTREE_BRANCH")
  BY <1>2 DEF ChosenRepository, Clear
<1>5. /\ r \in Overlays /\ Stage(r) = "WORKTREE_BRANCH" /\ r.mode = AddWorktree
      /\ r.selected_repository = path /\ r.helper = o.helper
      /\ r.picker = NoPicker /\ r.tray_to_open = o.tray_to_open
      /\ r.worktree_stage = "WORKTREE_BRANCH"
  BY <1>3, <1>4, SetStageKeeps
<1>6. o.helper.process = "null"
  BY <1>1 DEF WorkflowOK, HelperRuns
<1> QED  BY <1>5, <1>6 DEF Fine, WorkflowOK, HelperRuns, HasInputs, PickerFits, Says, Selecting

\* A list of repositories of which one was chosen.
LEMMA ChosenEntry ==
  ASSUME NEW picker, PickerOK(picker, Entries), Selects(picker),
         picker.listed \in Seq(Repositories)
  PROVE  picker.listed[picker.focus + 1] \in Repositories
<1>1. picker.focus \in Nat /\ Len(picker.listed) \in Nat /\ picker.focus < Len(picker.listed)
  BY LenProperties DEF PickerOK, Pickers, Selects
<1>2. picker.focus + 1 \in 1 .. Len(picker.listed)
  BY <1>1
<1> QED  BY <1>2, ElementOfSeq

\* What refresh_process_state does with a picker that it has taken out of the overlay.
LEMMA PickerLeftOK ==
  ASSUME NEW p, Fine(p), Selecting(p), p.picker = NoPicker, NEW picker,
         PickerOK(picker, Entries), p.mode = Switch => picker.listed = Trays(p.candidates),
         p.mode = AddWorktree => picker.listed \in Seq(Repositories), NEW env \in Env
  PROVE  /\ Fine(PickerDone(p, picker, env)) /\ Says(PickerDone(p, picker, env))
         /\ \/ PickerDone(p, picker, env).tray_to_open = p.tray_to_open
            \/ /\ p.mode = Switch /\ picker.process = "chose"
               /\ PickerDone(p, picker, env).tray_to_open = picker.listed[picker.focus + 1]
               /\ p.candidates[picker.focus + 1].available
<1>1. PICK r : r = PickerDone(p, picker, env)
  OBVIOUS
<1>2. p \in Overlays /\ p.mode \in Mode
  BY DEF Fine, Overlays
<1>3. CASE ~ Selects(picker)
  <2>1. PICK m \in Mode : m = p.mode
    BY <1>2
  <2>2. r = Explain(p, m)
    BY <1>1, <1>3, <2>1 DEF PickerDone
  <2>3. Fine(r) /\ Says(r) /\ r.tray_to_open = p.tray_to_open
    BY <2>1, <2>2, ExplainOK
  <2> QED  BY <1>1, <2>3
<1>4. CASE Selects(picker) /\ p.mode = Switch
  <2>1. r = Chosen(p, picker, env)
    BY <1>1, <1>4 DEF PickerDone
  <2>2. picker.process = "chose"
    BY <1>4 DEF Selects
  <2>3. /\ Fine(r) /\ Says(r)
        /\ \/ r.tray_to_open = p.tray_to_open
           \/ /\ r.tray_to_open = picker.listed[picker.focus + 1]
              /\ p.candidates[picker.focus + 1].available
    BY <1>4, <2>1, ChosenOK
  <2> QED  BY <1>1, <1>4, <2>2, <2>3
<1>5. CASE Selects(picker) /\ p.mode = AddWorktree
  <2>1. PICK path : path = picker.listed[picker.focus + 1]
    OBVIOUS
  <2>2. r = ChosenRepository(p, path)
    BY <1>1, <1>5, <2>1 DEF PickerDone
  <2>3. path \in Repositories
    BY <1>5, <2>1, ChosenEntry
  <2>4. Stage(p) = "WORKTREE_REPOSITORY"
    BY <1>2, <1>5, StageOf DEF Selecting
  <2> QED  BY <1>1, <1>5, <2>2, <2>3, <2>4, ChosenRepositoryOK
<1>6. p.mode \in {Switch, AddWorktree}
  BY <1>2, StageOf DEF Selecting
<1> QED  BY <1>3, <1>4, <1>5, <1>6

\* A picker that is done leaves its mode with a choice, or with the reason for none.
LEMMA PickerDoneOK ==
  ASSUME NEW o, Fine(o), o.picker # NoPicker, NEW env \in Env
  PROVE  LET r == PickerDone([o EXCEPT !.picker = NoPicker], o.picker, env) IN
         /\ Fine(r) /\ Says(r)
         /\ \/ r.tray_to_open = o.tray_to_open
            \/ /\ o.mode = Switch /\ o.picker.process = "chose"
               /\ r.tray_to_open = o.picker.listed[o.picker.focus + 1]
               /\ o.candidates[o.picker.focus + 1].available
<1>1. PICK picker : picker = o.picker
  OBVIOUS
<1>2. PICK p : p = [o EXCEPT !.picker = NoPicker]
  OBVIOUS
<1>3. /\ o \in Overlays /\ WorkflowOK(o) /\ Selecting(o) /\ PickerOK(picker, Entries)
      /\ o.mode = Switch => picker.listed = Trays(o.candidates)
      /\ o.mode = AddWorktree => picker.listed \in Seq(Repositories)
  BY <1>1 DEF Fine, PickerFits
<1>4. /\ p \in Overlays /\ p.picker = NoPicker /\ p.mode = o.mode /\ p.candidates = o.candidates
      /\ p.tray_to_open = o.tray_to_open /\ SameWorkflow(o, p)
  BY <1>2, <1>3, NoPickerIsTyped DEF Overlays, SameWorkflow
<1>5. WorkflowOK(p) /\ Stage(p) = Stage(o) /\ Fine(p)
  BY <1>3, <1>4, WorkflowDepends DEF Fine, PickerFits
<1>6. Selecting(p)
  BY <1>3, <1>5 DEF Selecting
<1>7. PICK r : r = PickerDone(p, picker, env)
  OBVIOUS
<1>8. /\ Fine(r) /\ Says(r)
      /\ \/ r.tray_to_open = p.tray_to_open
         \/ /\ p.mode = Switch /\ picker.process = "chose"
            /\ r.tray_to_open = picker.listed[picker.focus + 1]
            /\ p.candidates[picker.focus + 1].available
  <2>1. p.mode = Switch => picker.listed = Trays(p.candidates)
    BY <1>3, <1>4
  <2>2. p.mode = AddWorktree => picker.listed \in Seq(Repositories)
    BY <1>3, <1>4
  <2>3. p.picker = NoPicker
    BY <1>4
  <2>4. PickerOK(picker, Entries)
    BY <1>3
  <2> HIDE <1>2
  <2> QED  BY <1>5, <1>6, <1>7, <2>1, <2>2, <2>3, <2>4, PickerLeftOK
<1>9. r = PickerDone([o EXCEPT !.picker = NoPicker], o.picker, env)
  BY <1>1, <1>2, <1>7
<1> QED  BY <1>1, <1>4, <1>8, <1>9

\* A helper that is done leaves its result, and its worktree to open.
LEMMA HelperDoneOK ==
  ASSUME NEW o, Fine(o), Stage(o) = "RUNNING", NEW how \in {"succeeded", "failed"},
         NEW r, r = HelperDone(o, how)
  PROVE  /\ Fine(r) /\ Says(r)
         /\ \/ r.tray_to_open = o.tray_to_open
            \/ /\ o.mode = AddWorktree /\ how = "succeeded"
               /\ r.tray_to_open = o.pending_worktree_path
<1>1. /\ o \in Overlays /\ WorkflowOK(o) /\ o.mode \in {AddWorktree, AddRepository}
      /\ o.picker = NoPicker
  BY StageOf DEF Fine, PickerFits, Selecting
<1>2. PICK tray \in TrayIds :
        tray = IF how = "succeeded" /\ o.mode = AddWorktree THEN o.pending_worktree_path
               ELSE o.tray_to_open
  BY <1>1 DEF Overlays
<1>3. PICK helper : helper = [o.helper EXCEPT !.process = "null", !.result = how]
  OBVIOUS
<1>4. o.helper \in [process : {"null", "running", "succeeded", "failed"}, path : TrayIds,
                    result : {"none", "succeeded", "failed"}]
  BY <1>1 DEF Overlays
<1>5. helper \in [process : {"null", "running", "succeeded", "failed"}, path : TrayIds,
                  result : {"none", "succeeded", "failed"}]
  BY <1>3, <1>4
<1>6. helper.process = "null" /\ helper.result = how
  BY <1>3, <1>4
<1>7. PICK p : p = [o EXCEPT !.helper = helper, !.tray_to_open = tray]
  OBVIOUS
<1>8. /\ p \in Overlays /\ p.helper = helper /\ p.tray_to_open = tray /\ p.mode = o.mode
      /\ p.picker = NoPicker /\ p.selected_repository = o.selected_repository
      /\ p.worktree_stage = o.worktree_stage
  BY <1>1, <1>5, <1>7 DEF Overlays
<1>9. r = SetStage(p, "RESULT")
  <2>1. p = [o EXCEPT !.helper.process = "null", !.helper.result = how,
                      !.tray_to_open = IF how = "succeeded" /\ o.mode = AddWorktree
                                       THEN o.pending_worktree_path ELSE @]
    BY <1>1, <1>2, <1>3, <1>7
  <2> QED  BY <2>1 DEF HelperDone
<1>10. /\ r \in Overlays /\ Stage(r) = "RESULT" /\ r.mode = o.mode /\ r.helper = helper
       /\ r.picker = NoPicker /\ r.tray_to_open = tray
       /\ r.selected_repository = o.selected_repository
       /\ r.worktree_stage = IF o.mode = AddWorktree THEN "RESULT" ELSE o.worktree_stage
  BY <1>1, <1>8, <1>9, SetStageKeeps
<1>11. WorkflowOK(r)
  BY <1>1, <1>6, <1>10 DEF WorkflowOK, HelperRuns, HasInputs
<1> QED  BY <1>2, <1>10, <1>11 DEF Fine, PickerFits, Says, Selecting

------------------------------------------------------------------------------
(* The actions.  Each keeps the invariant, and none but ServeChild gives the *)
(* parent another tray to open.                                            *)

TrayKept == overlay'.tray_to_open \in {overlay.tray_to_open, NoTray}

\* A step of an overlay that stays open, or stays closed.
LEMMA StepKeeps ==
  ASSUME OverlayInv, open' = open, inbox' \in Seq(Key), sequence' \in Seq(Key),
         Fine(overlay'), open => Says(overlay'), overlay'.tray_to_open = overlay.tray_to_open
  PROVE  OverlayInv' /\ TrayKept
BY DEF OverlayInv, TrayKept

\* A step that changes what no stage, child or list depends on.
LEMMA UnaffectedStep ==
  ASSUME OverlayInv, open' = open, inbox' \in Seq(Key), sequence' \in Seq(Key),
         overlay' \in Overlays, SameOverlay(overlay, overlay'),
         overlay.explained \subseteq overlay'.explained,
         overlay'.tray_to_open = overlay.tray_to_open
  PROVE  OverlayInv' /\ TrayKept
<1>1. Fine(overlay) /\ (open => Says(overlay))
  BY DEF OverlayInv
<1>2. Fine(overlay') /\ (Says(overlay) => Says(overlay'))
  BY <1>1, Unaffected
<1> QED  BY <1>1, <1>2, StepKeeps

\* What is left of an input is an input.
LEMMA TailOfKeys ==
  ASSUME NEW keys \in Seq(Key), keys # <<>>
  PROVE  Head(keys) \in Key /\ Tail(keys) \in Seq(Key)
BY HeadTailProperties

\* An overlay opens blank, with what its registry and its tray manager list.
LEMMA OpenKeeps ==
  ASSUME OverlayInv, NEW trays \in SessionLists, NEW registry \in Load, NEW env \in Env,
         Open(trays, registry, env)
  PROVE  OverlayInv' /\ overlay'.tray_to_open = NoTray
<1>1. PICK o : o = [Blank EXCEPT !.session_trays = trays]
  OBVIOUS
<1>2. trays \in Seq(ListedTrays)
  BY ListsAssumption
<1>3. o \in Overlays /\ WorkflowOK(o) /\ o.tray_to_open = NoTray
  BY <1>1, <1>2, BlankOK
<1>4. PICK p : p = LoadRepositories(o, registry)
  OBVIOUS
<1>5. p \in Overlays /\ SameWorkflow(o, p) /\ p.tray_to_open = NoTray
  BY <1>3, <1>4, LoadOK
<1>6. WorkflowOK(p)
  BY <1>3, <1>5, WorkflowDepends
<1>7. PICK r : r = ActivateMode(p, env)
  OBVIOUS
<1>8. Fine(r) /\ Says(r) /\ r.tray_to_open = NoTray
  BY <1>5, <1>6, <1>7, ActivateOK
<1>9. /\ overlay' = r /\ open' = TRUE /\ inbox' = inbox /\ sequence' = sequence
  BY <1>1, <1>4, <1>7 DEF Open
<1> QED  BY <1>8, <1>9 DEF OverlayInv

\* A closed overlay is blank.
LEMMA CloseKeeps ==
  ASSUME OverlayInv, Close
  PROVE  OverlayInv' /\ TrayKept
<1>1. PICK none \in Seq(ListedTrays) : none = <<>>
  BY EmptySeq
<1>2. Fine(Blank) /\ Blank.tray_to_open = NoTray
  BY <1>1, BlankOK
<1>3. overlay' = Blank /\ open' = FALSE /\ inbox' = inbox /\ sequence' = sequence
  BY DEF Close
<1> QED  BY <1>2, <1>3 DEF OverlayInv, TrayKept

\* An input is kept, or dropped while a helper runs.
LEMMA WriteInputKeeps ==
  ASSUME OverlayInv, NEW keys \in Batches, WriteInput(keys)
  PROVE  OverlayInv' /\ TrayKept
<1>1. keys \in Seq(Key) /\ <<>> \in Seq(Key)
  BY ListsAssumption, EmptySeq
<1>2. /\ inbox' \in Seq(Key) /\ open' = open /\ overlay' = overlay /\ sequence' = sequence
  BY <1>1 DEF WriteInput
<1> QED  BY <1>2 DEF OverlayInv, TrayKept

\* Every step of the loop over an input takes its first byte.
LEMMA ConsumeKeeps ==
  ASSUME OverlayInv, Consume
  PROVE  /\ Head(inbox) \in Key /\ inbox' \in Seq(Key) /\ open' = open
         /\ Fine(overlay) /\ overlay \in Overlays /\ (open => Says(overlay))
         /\ overlay.keys \in Seq(Key) /\ PassedOn \in Seq(Key) /\ sequence \in Seq(Key)
<1>1. Fine(overlay) /\ overlay \in Overlays /\ (open => Says(overlay))
      /\ inbox \in Seq(Key) /\ sequence \in Seq(Key)
  BY DEF OverlayInv, Fine
<1>2. Head(inbox) \in Key /\ Tail(inbox) \in Seq(Key) /\ inbox' = Tail(inbox) /\ open' = open
  BY <1>1, TailOfKeys DEF Consume
<1>3. overlay.keys \in Seq(Key)
  BY <1>1 DEF Overlays
<1>4. PassedOn \in Seq(Key)
  BY <1>2, <1>3, AppendProperties DEF PassedOn
<1> QED  BY <1>1, <1>2, <1>3, <1>4

\* A change of mode starts the next one afresh.
LEMMA CycleByKeyKeeps ==
  ASSUME OverlayInv, NEW direction, NEW registry \in Load, NEW env \in Env,
         CycleByKey(direction, registry, env)
  PROVE  OverlayInv' /\ TrayKept
<1>1. Consume /\ overlay' = CycleMode(overlay, direction, registry, env) /\ sequence' = sequence
  BY DEF CycleByKey
<1>2. overlay \in Overlays /\ inbox' \in Seq(Key) /\ open' = open /\ sequence' \in Seq(Key)
  BY <1>1, ConsumeKeeps
<1>3. PICK r : r = CycleMode(overlay, direction, registry, env)
  OBVIOUS
<1>4. Fine(r) /\ Says(r) /\ r.tray_to_open = overlay.tray_to_open
  BY <1>2, <1>3, CycleOK
<1>5. overlay' = r
  BY <1>1, <1>3
<1> QED  BY <1>2, <1>4, <1>5, StepKeeps

\* The bytes of an escape sequence are kept aside.
LEMMA KeysOK ==
  ASSUME NEW o, o \in Overlays, NEW keys \in Seq(Key), NEW p, p = [o EXCEPT !.keys = keys]
  PROVE  /\ p \in Overlays /\ SameOverlay(o, p) /\ p.explained = o.explained
         /\ p.tray_to_open = o.tray_to_open
<1>1. p \in Overlays
  BY DEF Overlays
<1> QED  BY <1>1 DEF Overlays, SameOverlay, SameWorkflow

\* Collecting a byte touches nothing else.
LEMMA CollectKeyKeeps ==
  ASSUME OverlayInv, CollectKey
  PROVE  OverlayInv' /\ TrayKept
<1>1. Consume /\ sequence' = sequence
  BY DEF CollectKey
<1>2. /\ overlay \in Overlays /\ inbox' \in Seq(Key) /\ open' = open /\ sequence' \in Seq(Key)
      /\ PassedOn \in Seq(Key) /\ overlay.keys \in Seq(Key)
  BY <1>1, ConsumeKeeps
<1>3. PICK keys \in Seq(Key) :
        keys = IF Len(overlay.keys) < MaxSequence THEN PassedOn ELSE overlay.keys
  BY <1>2
<1>4. overlay' = [overlay EXCEPT !.keys = keys]
  BY <1>2, <1>3 DEF CollectKey, PassedOn, Overlays
<1>5. /\ overlay' \in Overlays /\ SameOverlay(overlay, overlay')
      /\ overlay'.explained = overlay.explained
      /\ overlay'.tray_to_open = overlay.tray_to_open
  BY <1>2, <1>4, KeysOK
<1> QED  BY <1>2, <1>5, UnaffectedStep

\* Neither does passing an input on to fzf or to the form.
LEMMA PassKeysKeeps ==
  ASSUME OverlayInv, PassKeys
  PROVE  OverlayInv' /\ TrayKept
<1>1. Consume
  BY DEF PassKeys, Passes
<1>2. PICK none \in Seq(Key) : none = <<>>
  BY EmptySeq
<1>3. /\ overlay \in Overlays /\ inbox' \in Seq(Key) /\ open' = open /\ PassedOn \in Seq(Key)
  BY <1>1, ConsumeKeeps
<1>4. overlay' = [overlay EXCEPT !.keys = none] /\ sequence' \in Seq(Key)
  BY <1>2, <1>3 DEF PassKeys
<1>5. /\ overlay' \in Overlays /\ SameOverlay(overlay, overlay')
      /\ overlay'.explained = overlay.explained
      /\ overlay'.tray_to_open = overlay.tray_to_open
  BY <1>3, <1>4, KeysOK
<1> QED  BY <1>3, <1>4, <1>5, UnaffectedStep

\* Enter in the closed selector of the Worktrees mode lists the trays again.
LEMMA ReopenSelectorKeeps ==
  ASSUME OverlayInv, NEW env \in Env, ReopenSelector(env)
  PROVE  OverlayInv' /\ TrayKept
<1>1. Consume /\ sequence' = sequence /\ Stage(overlay) = "SWITCH_WORKTREE"
      /\ overlay.picker = NoPicker
  BY DEF ReopenSelector, Passes
<1>2. PICK none \in Seq(Key) : none = <<>>
  BY EmptySeq
<1>3. /\ overlay \in Overlays /\ inbox' \in Seq(Key) /\ open' = open /\ sequence' \in Seq(Key)
      /\ Fine(overlay)
  BY <1>1, ConsumeKeeps
<1>4. PICK p : p = [overlay EXCEPT !.keys = none]
  OBVIOUS
<1>5. /\ p \in Overlays /\ SameOverlay(overlay, p) /\ p.tray_to_open = overlay.tray_to_open
  BY <1>3, <1>4, KeysOK
<1>6. /\ WorkflowOK(p) /\ p.mode = Switch /\ p.picker = NoPicker
  BY <1>1, <1>3, <1>5, StageOf, Unaffected DEF Fine, SameOverlay, SameWorkflow
<1>7. PICK r : r = StartSwitchPicker(p, env)
  OBVIOUS
<1>8. Fine(r) /\ Says(r) /\ r.tray_to_open = p.tray_to_open
  BY <1>5, <1>6, <1>7, SwitchPickerOK
<1>9. overlay' = r
  BY <1>2, <1>4, <1>7 DEF ReopenSelector
<1> QED  BY <1>3, <1>5, <1>8, <1>9, StepKeeps

\* Every step of the form takes the first byte of what was passed on.
LEMMA EditsKeeps ==
  ASSUME OverlayInv, Edits
  PROVE  /\ inbox' \in Seq(Key) /\ sequence' \in Seq(Key) /\ open' = open
         /\ Fine(overlay) /\ overlay \in Overlays /\ (open => Says(overlay))
<1>1. Fine(overlay) /\ overlay \in Overlays /\ (open => Says(overlay))
      /\ inbox \in Seq(Key) /\ sequence \in Seq(Key)
  BY DEF OverlayInv, Fine
<1>2. /\ Tail(sequence) \in Seq(Key) /\ sequence' = Tail(sequence) /\ inbox' = inbox
      /\ open' = open
  BY <1>1, TailOfKeys DEF Edits
<1> QED  BY <1>1, <1>2

\* The state of the editor concerns nothing else.
LEMMA EditingOK ==
  ASSUME NEW o, o \in Overlays, NEW editing \in {"NORMAL", "ESCAPE", "CONTROL_SEQUENCE"},
         NEW p, p = [o EXCEPT !.editing = editing]
  PROVE  /\ p \in Overlays /\ SameOverlay(o, p) /\ p.explained = o.explained
         /\ p.tray_to_open = o.tray_to_open
<1>1. p \in Overlays
  BY DEF Overlays
<1> QED  BY <1>1, ZenonT(60) DEF Overlays, SameOverlay, SameWorkflow

\* Escape sequences are only followed.
LEMMA EditSequenceKeeps ==
  ASSUME OverlayInv, Edits, NEW key, EditSequence(key)
  PROVE  OverlayInv' /\ TrayKept
<1>1. /\ inbox' \in Seq(Key) /\ sequence' \in Seq(Key) /\ open' = open /\ overlay \in Overlays
      /\ Fine(overlay) /\ (open => Says(overlay))
  BY EditsKeeps
<1>2. CASE \E editing \in {"NORMAL", "ESCAPE", "CONTROL_SEQUENCE"} : SetEditing(editing)
  <2>1. PICK editing \in {"NORMAL", "ESCAPE", "CONTROL_SEQUENCE"} :
          overlay' = [overlay EXCEPT !.editing = editing]
    BY <1>2 DEF SetEditing
  <2>2. /\ overlay' \in Overlays /\ SameOverlay(overlay, overlay')
        /\ overlay'.explained = overlay.explained
        /\ overlay'.tray_to_open = overlay.tray_to_open
    BY <1>1, <2>1, EditingOK
  <2> QED  BY <1>1, <2>2, UnaffectedStep
<1>3. CASE overlay' = overlay
  BY <1>1, <1>3, StepKeeps
<1>4. \/ overlay' = overlay
      \/ \E editing \in {"NORMAL", "ESCAPE", "CONTROL_SEQUENCE"} : SetEditing(editing)
  BY DEF EditSequence
<1> QED  BY <1>2, <1>3, <1>4

\* A cursor key or Delete leaves the messages as they are.
LEMMA EditAtCursorKeeps ==
  ASSUME OverlayInv, Edits, NEW key, NEW text \in Text, EditAtCursor(key, text)
  PROVE  OverlayInv' /\ TrayKept
<1>1. /\ inbox' \in Seq(Key) /\ sequence' \in Seq(Key) /\ open' = open /\ overlay \in Overlays
      /\ Fine(overlay)
  BY EditsKeeps
<1>2. CASE Stage(overlay) \in Field
  <2>1. PICK texts \in [Field -> Text] : texts = [overlay.text EXCEPT ![Stage(overlay)] = text]
    BY <1>1 DEF Overlays
  <2>2. PICK e \in SUBSET Mode : e = overlay.explained
    BY <1>1 DEF Overlays
  <2>3. overlay' = [overlay EXCEPT !.editing = "NORMAL", !.text[Stage(overlay)] = text]
    BY <1>2 DEF EditAtCursor
  <2>4. overlay' = [overlay EXCEPT !.editing = "NORMAL", !.text = texts]
    BY <2>1, <2>3
  <2>5. overlay' = [overlay EXCEPT !.editing = "NORMAL", !.text = texts, !.explained = e]
    BY <1>1, <2>2, <2>4 DEF Overlays
  <2>6. PICK editing \in {"NORMAL", "ESCAPE", "CONTROL_SEQUENCE"} : editing = "NORMAL"
    OBVIOUS
  <2>7. Entered(overlay, overlay', text, editing, e)
    BY <2>1, <2>5, <2>6 DEF Entered
  <2>8. Fine(overlay') /\ Says(overlay') /\ overlay'.tray_to_open = overlay.tray_to_open
    BY <1>1, <1>2, <2>7, TextOK
  <2> QED  BY <1>1, <2>8, StepKeeps
<1>3. CASE ~ (Stage(overlay) \in Field)
  <2>1. overlay' = [overlay EXCEPT !.editing = "NORMAL"]
    BY <1>3 DEF EditAtCursor
  <2>2. /\ overlay' \in Overlays /\ SameOverlay(overlay, overlay')
        /\ overlay'.explained = overlay.explained
        /\ overlay'.tray_to_open = overlay.tray_to_open
    BY <1>1, <2>1, EditingOK
  <2> QED  BY <1>1, <2>2, UnaffectedStep
<1> QED  BY <1>2, <1>3

\* Text that is entered or erased takes the message of the form away.
LEMMA EditTextKeeps ==
  ASSUME OverlayInv, Edits, NEW key, NEW text \in Text, EditText(key, text)
  PROVE  OverlayInv' /\ TrayKept
<1>1. /\ inbox' \in Seq(Key) /\ sequence' \in Seq(Key) /\ open' = open /\ overlay \in Overlays
      /\ Fine(overlay) /\ (open => Says(overlay))
  BY EditsKeeps
<1>2. CASE Stage(overlay) \in Field /\ key # "tab"
  <2>1. PICK texts \in [Field -> Text] : texts = [overlay.text EXCEPT ![Stage(overlay)] = text]
    BY <1>1 DEF Overlays
  <2>2. PICK e \in SUBSET Mode : e = overlay.explained \ {overlay.mode}
    BY <1>1 DEF Overlays
  <2>3. PICK editing \in {"NORMAL", "ESCAPE", "CONTROL_SEQUENCE"} : editing = overlay.editing
    BY <1>1 DEF Overlays
  <2>4. overlay' = Clear([overlay EXCEPT !.text[Stage(overlay)] = text], overlay.mode)
    BY <1>2 DEF EditText
  <2>5. overlay' = Clear([overlay EXCEPT !.text = texts], overlay.mode)
    BY <2>1, <2>4
  <2>6. overlay' = [overlay EXCEPT !.text = texts, !.explained = e]
    BY <1>1, <2>2, <2>5 DEF Clear, Overlays
  <2>7. overlay' = [overlay EXCEPT !.editing = editing, !.text = texts, !.explained = e]
    BY <1>1, <2>3, <2>6 DEF Overlays
  <2>8. Entered(overlay, overlay', text, editing, e)
    BY <2>1, <2>7 DEF Entered
  <2>9. Fine(overlay') /\ Says(overlay') /\ overlay'.tray_to_open = overlay.tray_to_open
    BY <1>1, <1>2, <2>8, TextOK
  <2> QED  BY <1>1, <2>9, StepKeeps
<1>3. CASE ~ (Stage(overlay) \in Field /\ key # "tab")
  <2>1. overlay' = overlay
    BY <1>3 DEF EditText
  <2> QED  BY <1>1, <2>1, StepKeeps
<1> QED  BY <1>2, <1>3

\* So every byte of the form does.
LEMMA EditFormKeeps ==
  ASSUME OverlayInv, EditForm
  PROVE  OverlayInv' /\ TrayKept
<1>1. PICK key : key = Head(sequence)
  OBVIOUS
<1>2. Edits
  BY DEF EditForm
<1>3. CASE EditSequence(key)
  BY <1>2, <1>3, EditSequenceKeeps
<1>4. ASSUME NEW text \in Text, EditAtCursor(key, text) PROVE OverlayInv' /\ TrayKept
  BY <1>2, <1>4, EditAtCursorKeeps
<1>5. ASSUME NEW text \in Text, EditText(key, text) PROVE OverlayInv' /\ TrayKept
  BY <1>2, <1>5, EditTextKeeps
<1>6. \/ EditSequence(key)
      \/ \E text \in Text : EditAtCursor(key, text) \/ EditText(key, text)
  BY <1>1 DEF EditForm
<1> QED  BY <1>3, <1>4, <1>5, <1>6

\* Enter where nothing is asked.
LEMMA SubmitNothingKeeps ==
  ASSUME OverlayInv, SubmitNothing
  PROVE  OverlayInv' /\ TrayKept
<1>1. Edits /\ overlay' = overlay
  BY DEF SubmitNothing, Submits
<1> QED  BY <1>1, EditsKeeps, StepKeeps

\* Enter on the list of repositories that is not shown shows it.
LEMMA SubmitWorktreeRepositoryKeeps ==
  ASSUME OverlayInv, NEW started \in BOOLEAN, SubmitWorktreeRepository(started)
  PROVE  OverlayInv' /\ TrayKept
<1>1. Edits /\ Stage(overlay) = "WORKTREE_REPOSITORY"
  BY DEF SubmitWorktreeRepository, Submits
<1>2. /\ inbox' \in Seq(Key) /\ sequence' \in Seq(Key) /\ open' = open /\ overlay \in Overlays
      /\ Fine(overlay)
  BY <1>1, EditsKeeps
<1>3. overlay.mode = AddWorktree /\ overlay.worktree_stage = "WORKTREE_REPOSITORY"
  BY <1>1, <1>2, StageOf
<1>4. overlay.selected_repository = NoPath
  BY <1>2, <1>3 DEF Fine, WorkflowOK, HasInputs
<1>5. PICK r : r = StartRepositoryPicker(overlay, started)
  OBVIOUS
<1>6. Fine(r) /\ Says(r) /\ r.tray_to_open = overlay.tray_to_open
  BY <1>1, <1>2, <1>3, <1>5, RepositoryPickerOK
<1>7. overlay' = r
  BY <1>4, <1>5 DEF SubmitWorktreeRepository
<1> QED  BY <1>2, <1>6, <1>7, StepKeeps

\* What a submitted form puts aside.
Promises(o, p, path) == p = [o EXCEPT !.pending_worktree_path = path]
Resolves(o, p, root) == p = [o EXCEPT !.repository_root = root]

\* The worktree that a helper will be started for is no one's before.
LEMMA PendingOK ==
  ASSUME NEW o, Fine(o), Stage(o) = "WORKTREE_BRANCH", NEW path \in TrayIds,
         NEW p, Promises(o, p, path)
  PROVE  /\ Fine(p) /\ Stage(p) = "WORKTREE_BRANCH" /\ p.mode = AddWorktree
         /\ p.pending_worktree_path = path /\ p.tray_to_open = o.tray_to_open
         /\ p.selected_repository = o.selected_repository /\ p.text = o.text
<1>1. o \in Overlays /\ o.mode = AddWorktree /\ o.picker = NoPicker
  BY StageOf DEF Fine, PickerFits, Selecting
<1>2. p \in Overlays /\ p.pending_worktree_path = path
  BY <1>1 DEF Overlays, Promises
<1>3. /\ p.mode = o.mode /\ p.worktree_stage = o.worktree_stage
      /\ p.repository_stage = o.repository_stage /\ p.picker = o.picker
      /\ p.selected_repository = o.selected_repository /\ p.text = o.text
      /\ p.repository_root = o.repository_root /\ p.helper = o.helper
      /\ p.tray_to_open = o.tray_to_open
  BY <1>1 DEF Overlays, Promises
<1>4. Stage(p) = "WORKTREE_BRANCH"
  BY <1>3 DEF Stage
<1>5. WorkflowOK(p)
  BY <1>1, <1>3, <1>4 DEF Fine, WorkflowOK, HelperRuns, HasInputs
<1> QED  BY <1>1, <1>2, <1>3, <1>4, <1>5 DEF Fine, PickerFits

\* Enter after a branch starts the helper that provisions its worktree.
LEMMA SubmitWorktreeBranchKeeps ==
  ASSUME OverlayInv, NEW started \in BOOLEAN, SubmitWorktreeBranch(started)
  PROVE  OverlayInv' /\ TrayKept
<1>1. Edits /\ Stage(overlay) = "WORKTREE_BRANCH"
  BY DEF SubmitWorktreeBranch, Submits
<1>2. /\ inbox' \in Seq(Key) /\ sequence' \in Seq(Key) /\ open' = open /\ overlay \in Overlays
      /\ Fine(overlay)
  BY <1>1, EditsKeeps
<1>3. PICK branch : branch = overlay.text["WORKTREE_BRANCH"]
  OBVIOUS
<1>4. PICK path : path = WorktreeTray(overlay.selected_repository, branch)
  OBVIOUS
<1>5. overlay.mode = AddWorktree /\ AddWorktree \in Mode
      /\ overlay.selected_repository \in Repositories
  BY <1>1, <1>2, StageOf DEF Fine, WorkflowOK, HasInputs
<1>6. CASE overlay.selected_repository = NoPath \/ branch \notin Names
  <2>1. overlay' = Explain(overlay, AddWorktree)
    BY <1>3, <1>6 DEF SubmitWorktreeBranch
  <2>2. /\ Fine(Explain(overlay, AddWorktree)) /\ Says(Explain(overlay, AddWorktree))
        /\ Explain(overlay, AddWorktree).tray_to_open = overlay.tray_to_open
    BY <1>2, <1>5, ExplainOK
  <2> QED  BY <1>2, <2>1, <2>2, StepKeeps
<1>7. CASE ~ (overlay.selected_repository = NoPath \/ branch \notin Names)
  <2>1. path \in TrayIds
    BY <1>4, <1>5, <1>7 DEF TrayIds
  <2>2. PICK p : Promises(overlay, p, path)
    BY DEF Promises
  <2>3. /\ Fine(p) /\ Stage(p) = "WORKTREE_BRANCH" /\ p.mode = AddWorktree
        /\ p.pending_worktree_path = path /\ p.tray_to_open = overlay.tray_to_open
        /\ p.selected_repository = overlay.selected_repository /\ p.text = overlay.text
    BY <1>1, <1>2, <2>1, <2>2, PendingOK
  <2>4. PICK q : q = Clear(p, AddWorktree)
    OBVIOUS
  <2>5. Fine(q) /\ Stage(q) = Stage(p) /\ SameOverlay(p, q) /\ q.tray_to_open = p.tray_to_open
    BY <1>5, <2>3, <2>4, ExplainOK
  <2>6. /\ ~ Selecting(q) /\ q.mode = AddWorktree /\ q.pending_worktree_path = path
        /\ path = WorktreeTray(q.selected_repository, q.text["WORKTREE_BRANCH"])
    BY <1>3, <1>4, <2>3, <2>5 DEF Selecting, SameOverlay, SameWorkflow
  <2>7. PICK r : r = StartHelper(q, path, started)
    OBVIOUS
  <2>8. Fine(r) /\ Says(r) /\ r.tray_to_open = q.tray_to_open
    BY <2>1, <2>5, <2>6, <2>7, StartHelperOK
  <2>9. overlay' = r
    BY <1>3, <1>4, <1>7, <2>2, <2>4, <2>7 DEF SubmitWorktreeBranch, Promises
  <2> QED  BY <1>2, <2>3, <2>5, <2>8, <2>9, StepKeeps
<1> QED  BY <1>6, <1>7

\* The root that was entered is kept for the stage after it.
LEMMA RootOK ==
  ASSUME NEW o, Fine(o), Stage(o) = "REPOSITORY_ROOT", NEW root \in Names,
         NEW p, Resolves(o, p, root)
  PROVE  /\ Fine(p) /\ Stage(p) = "REPOSITORY_ROOT" /\ p.mode = AddRepository
         /\ p.repository_root = root /\ p.tray_to_open = o.tray_to_open
<1>1. o \in Overlays /\ o.mode = AddRepository /\ o.picker = NoPicker
  BY StageOf DEF Fine, PickerFits, Selecting
<1>2. p \in Overlays /\ p.repository_root = root
  BY <1>1 DEF Overlays, Text, Resolves
<1>3. /\ p.mode = o.mode /\ p.worktree_stage = o.worktree_stage
      /\ p.repository_stage = o.repository_stage /\ p.picker = o.picker
      /\ p.selected_repository = o.selected_repository /\ p.helper = o.helper
      /\ p.tray_to_open = o.tray_to_open
  BY <1>1 DEF Overlays, Resolves
<1>4. Stage(p) = "REPOSITORY_ROOT"
  BY <1>3 DEF Stage
<1>5. WorkflowOK(p)
  BY <1>1, <1>3, <1>4 DEF Fine, WorkflowOK, HelperRuns, HasInputs
<1> QED  BY <1>1, <1>2, <1>3, <1>4, <1>5 DEF Fine, PickerFits

\* An empty root leads to the URL to clone from.
LEMMA AskUrlOK ==
  ASSUME NEW o, Fine(o), Stage(o) = "REPOSITORY_ROOT", o.repository_root \in Names,
         NEW r, r = SetStage(o, "REPOSITORY_CLONE_URL")
  PROVE  Fine(r) /\ Says(r) /\ r.tray_to_open = o.tray_to_open
<1>1. o \in Overlays /\ o.mode = AddRepository /\ o.picker = NoPicker /\ WorkflowOK(o)
  BY StageOf DEF Fine, PickerFits, Selecting
<1>2. /\ r \in Overlays /\ Stage(r) = "REPOSITORY_CLONE_URL" /\ r.mode = o.mode
      /\ r.repository_root = o.repository_root /\ r.helper = o.helper
      /\ r.selected_repository = o.selected_repository
      /\ r.picker = o.picker /\ r.tray_to_open = o.tray_to_open
      /\ r.worktree_stage = o.worktree_stage
  BY <1>1, SetStageKeeps
<1>3. WorkflowOK(r)
  BY <1>1, <1>2 DEF WorkflowOK, HelperRuns, HasInputs
<1> QED  BY <1>1, <1>2, <1>3 DEF Fine, PickerFits, Says, Selecting

\* Enter after a root asks for the URL, starts the helper that registers, or says why not.
LEMMA SubmitRepositoryRootKeeps ==
  ASSUME OverlayInv, NEW inspected \in {"EMPTY", "other", "throws"}, NEW started \in BOOLEAN,
         SubmitRepositoryRoot(inspected, started)
  PROVE  OverlayInv' /\ TrayKept
<1>1. Edits /\ Stage(overlay) = "REPOSITORY_ROOT"
  BY DEF SubmitRepositoryRoot, Submits
<1>2. /\ inbox' \in Seq(Key) /\ sequence' \in Seq(Key) /\ open' = open /\ overlay \in Overlays
      /\ Fine(overlay)
  BY <1>1, EditsKeeps
<1>3. PICK root : root = overlay.text["REPOSITORY_ROOT"]
  OBVIOUS
<1>4. overlay.mode = AddRepository /\ AddRepository \in Mode
  BY <1>1, <1>2, StageOf
<1>5. CASE root \notin Names
  <2>1. overlay' = Explain(overlay, AddRepository)
    BY <1>3, <1>5 DEF SubmitRepositoryRoot
  <2>2. /\ Fine(Explain(overlay, AddRepository)) /\ Says(Explain(overlay, AddRepository))
        /\ Explain(overlay, AddRepository).tray_to_open = overlay.tray_to_open
    BY <1>2, <1>4, ExplainOK
  <2> QED  BY <1>2, <2>1, <2>2, StepKeeps
<1>6. CASE root \in Names
  <2>1. PICK p : Resolves(overlay, p, root)
    BY DEF Resolves
  <2>2. /\ Fine(p) /\ Stage(p) = "REPOSITORY_ROOT" /\ p.mode = AddRepository
        /\ p.repository_root = root /\ p.tray_to_open = overlay.tray_to_open
    BY <1>1, <1>2, <1>6, <2>1, RootOK
  <2>3. PICK q : q = Clear(p, AddRepository)
    OBVIOUS
  <2>4. Fine(q) /\ Stage(q) = Stage(p) /\ SameOverlay(p, q) /\ q.tray_to_open = p.tray_to_open
    BY <1>4, <2>2, <2>3, ExplainOK
  <2>5. /\ ~ Selecting(q) /\ q.mode = AddRepository /\ q.repository_root \in Names
        /\ Stage(q) = "REPOSITORY_ROOT"
    BY <1>6, <2>2, <2>4 DEF Selecting, SameOverlay, SameWorkflow
  <2>6. CASE inspected = "throws"
    <3>1. overlay' = Explain(p, AddRepository)
      BY <1>3, <1>6, <2>1, <2>6 DEF SubmitRepositoryRoot, Resolves
    <3>2. /\ Fine(Explain(p, AddRepository)) /\ Says(Explain(p, AddRepository))
          /\ Explain(p, AddRepository).tray_to_open = p.tray_to_open
      BY <1>4, <2>2, ExplainOK
    <3> QED  BY <1>2, <2>2, <3>1, <3>2, StepKeeps
  <2>7. CASE inspected = "EMPTY"
    <3>1. PICK r : r = SetStage(q, "REPOSITORY_CLONE_URL")
      OBVIOUS
    <3>2. Fine(r) /\ Says(r) /\ r.tray_to_open = q.tray_to_open
      BY <2>4, <2>5, <3>1, AskUrlOK
    <3>3. overlay' = r
      BY <1>3, <1>6, <2>1, <2>3, <2>7, <3>1 DEF SubmitRepositoryRoot, Resolves
    <3> QED  BY <1>2, <2>2, <2>4, <3>2, <3>3, StepKeeps
  <2>8. CASE inspected = "other"
    <3>1. PICK r : r = StartHelper(q, NoTray, started)
      OBVIOUS
    <3>2. NoTray \in TrayIds
      BY DEF TrayIds
    <3>3. Fine(r) /\ Says(r) /\ r.tray_to_open = q.tray_to_open
      BY <2>4, <2>5, <3>1, <3>2, StartHelperOK
    <3>4. overlay' = r
      BY <1>3, <1>6, <2>1, <2>3, <2>8, <3>1 DEF SubmitRepositoryRoot, Resolves
    <3> QED  BY <1>2, <2>2, <2>4, <3>3, <3>4, StepKeeps
  <2> QED  BY <2>6, <2>7, <2>8
<1> QED  BY <1>5, <1>6

\* Enter after the URL starts the helper that clones and registers.
LEMMA SubmitCloneUrlKeeps ==
  ASSUME OverlayInv, NEW started \in BOOLEAN, SubmitCloneUrl(started)
  PROVE  OverlayInv' /\ TrayKept
<1>1. Edits /\ Stage(overlay) = "REPOSITORY_CLONE_URL"
  BY DEF SubmitCloneUrl, Submits
<1>2. /\ inbox' \in Seq(Key) /\ sequence' \in Seq(Key) /\ open' = open /\ overlay \in Overlays
      /\ Fine(overlay)
  BY <1>1, EditsKeeps
<1>3. overlay.mode = AddRepository /\ AddRepository \in Mode /\ overlay.repository_root \in Names
  BY <1>1, <1>2, StageOf DEF Fine, WorkflowOK, HasInputs
<1>4. CASE overlay.text["REPOSITORY_CLONE_URL"] = "empty"
  <2>1. overlay' = Explain(overlay, AddRepository)
    BY <1>4 DEF SubmitCloneUrl
  <2>2. /\ Fine(Explain(overlay, AddRepository)) /\ Says(Explain(overlay, AddRepository))
        /\ Explain(overlay, AddRepository).tray_to_open = overlay.tray_to_open
    BY <1>2, <1>3, ExplainOK
  <2> QED  BY <1>2, <2>1, <2>2, StepKeeps
<1>5. CASE overlay.text["REPOSITORY_CLONE_URL"] # "empty"
  <2>1. PICK q : q = Clear(overlay, AddRepository)
    OBVIOUS
  <2>2. /\ Fine(q) /\ Stage(q) = Stage(overlay) /\ SameOverlay(overlay, q)
        /\ q.tray_to_open = overlay.tray_to_open
    BY <1>2, <1>3, <2>1, ExplainOK
  <2>3. ~ Selecting(q) /\ q.mode = AddRepository /\ q.repository_root \in Names
    BY <1>1, <1>3, <2>2 DEF Selecting, SameOverlay, SameWorkflow
  <2>4. PICK r : r = StartHelper(q, NoTray, started)
    OBVIOUS
  <2>5. NoTray \in TrayIds
    BY DEF TrayIds
  <2>6. Fine(r) /\ Says(r) /\ r.tray_to_open = q.tray_to_open
    BY <2>2, <2>3, <2>4, <2>5, StartHelperOK
  <2>7. overlay' = r
    BY <1>5, <2>1, <2>4 DEF SubmitCloneUrl
  <2> QED  BY <1>2, <2>2, <2>6, <2>7, StepKeeps
<1> QED  BY <1>4, <1>5

\* The step replaces the picker, and nothing else.
Holds(o, p, picker) == p = [o EXCEPT !.picker = picker]

\* A picker is told from none by its process.
LEMMA PickerIsOne ==
  ASSUME NEW o, Fine(o)
  PROVE  /\ PickerOK(o.picker, Entries) <=> o.picker # NoPicker
         /\ o.picker.process # "null" <=> o.picker # NoPicker
BY DEF Fine, PickerFits, PickerOK, NoPicker

\* Another picker of the same list is in place where the other was.
LEMMA PickerReplaced ==
  ASSUME NEW o, Fine(o), o.picker # NoPicker, NEW picker, PickerOK(picker, Entries),
         picker.listed = o.picker.listed, NEW p, Holds(o, p, picker)
  PROVE  /\ Fine(p) /\ Says(p) /\ p.picker = picker /\ Stage(p) = Stage(o)
         /\ p.tray_to_open = o.tray_to_open /\ p.candidates = o.candidates
         /\ SameWorkflow(o, p)
<1>1. o \in Overlays /\ picker \in Pickers(Entries) /\ WorkflowOK(o) /\ PickerFits(o)
  BY DEF Fine, PickerOK
<1>2. p \in Overlays /\ p.picker = picker
  BY <1>1 DEF Holds, Overlays
<1>3. /\ SameWorkflow(o, p) /\ p.candidates = o.candidates
      /\ p.session_trays = o.session_trays /\ p.tray_to_open = o.tray_to_open
  BY <1>1 DEF Holds, Overlays, SameWorkflow
<1>4. WorkflowOK(p) /\ Stage(p) = Stage(o)
  BY <1>1, <1>3, WorkflowDepends
<1>5. SameLists(o, p)
  BY <1>3, <1>4 DEF SameLists, SameWorkflow
<1>6. PickerFits(p)
  BY <1>1, <1>2, <1>5, PickerDepends
<1>7. Fine(p)
  BY <1>2, <1>4, <1>6 DEF Fine
<1>8. Says(p)
  BY <1>2, <1>7, PickerIsOne DEF Says
<1> QED  BY <1>2, <1>3, <1>4, <1>7, <1>8

\* So does every step of fzf.
LEMMA PickerStep ==
  ASSUME OverlayInv, overlay.picker # NoPicker, NEW picker, PickerOK(picker, Entries),
         picker.listed = overlay.picker.listed, Child([overlay EXCEPT !.picker = picker])
  PROVE  OverlayInv' /\ TrayKept
<1>1. Fine(overlay) /\ inbox \in Seq(Key) /\ sequence \in Seq(Key)
  BY DEF OverlayInv
<1>2. /\ Holds(overlay, overlay', picker)
      /\ open' = open /\ inbox' \in Seq(Key) /\ sequence' \in Seq(Key)
  BY <1>1 DEF Child, Holds
<1>3. Fine(overlay') /\ Says(overlay') /\ overlay'.tray_to_open = overlay.tray_to_open
  BY <1>1, <1>2, PickerReplaced
<1> QED  BY <1>2, <1>3, StepKeeps

\* fzf moves the highlight.
LEMMA FzfFocusesKeeps ==
  ASSUME OverlayInv, NEW i \in Nat, FzfFocuses(i)
  PROVE  OverlayInv' /\ TrayKept
<1>1. /\ overlay.picker.process = "running" /\ i < Len(overlay.picker.listed)
      /\ Child([overlay EXCEPT !.picker = Focused(overlay.picker, i)])
  BY DEF FzfFocuses, Writes
<1>2. PickerOK(overlay.picker, Entries) /\ overlay.picker # NoPicker
  BY <1>1, PickerIsOne DEF OverlayInv
<1>3. PICK picker : picker = Focused(overlay.picker, i)
  OBVIOUS
<1>4. PickerOK(picker, Entries) /\ picker.listed = overlay.picker.listed
  BY <1>1, <1>2, <1>3, FocusedIsOK
<1>5. Child([overlay EXCEPT !.picker = picker])
  BY <1>1, <1>3
<1> QED  BY <1>2, <1>4, <1>5, PickerStep

\* fzf draws.
LEMMA FzfDrawsKeeps ==
  ASSUME OverlayInv, FzfDraws
  PROVE  OverlayInv' /\ TrayKept
<1>1. /\ overlay.picker.process = "running"
      /\ Child([overlay EXCEPT !.picker = Drawn(overlay.picker)])
  BY DEF FzfDraws, Writes
<1>2. PickerOK(overlay.picker, Entries) /\ overlay.picker # NoPicker
  BY <1>1, PickerIsOne DEF OverlayInv
<1>3. PICK picker : picker = Drawn(overlay.picker)
  OBVIOUS
<1>4. PickerOK(picker, Entries) /\ picker.listed = overlay.picker.listed
  BY <1>2, <1>3, DrawnIsOK
<1>5. Child([overlay EXCEPT !.picker = picker])
  BY <1>1, <1>3
<1> QED  BY <1>2, <1>4, <1>5, PickerStep

\* fzf exits.
LEMMA FzfExitsKeeps ==
  ASSUME OverlayInv, NEW how \in {"chose", "failed"}, FzfExits(how)
  PROVE  OverlayInv' /\ TrayKept
<1>1. /\ overlay.picker.process = "running"
      /\ Child([overlay EXCEPT !.picker = Exited(overlay.picker, how)])
  BY DEF FzfExits
<1>2. PickerOK(overlay.picker, Entries) /\ overlay.picker # NoPicker
  BY <1>1, PickerIsOne DEF OverlayInv
<1>3. PICK picker : picker = Exited(overlay.picker, how)
  OBVIOUS
<1>4. PickerOK(picker, Entries) /\ picker.listed = overlay.picker.listed
  BY <1>2, <1>3, ExitedIsOK
<1>5. Child([overlay EXCEPT !.picker = picker])
  BY <1>1, <1>3
<1> QED  BY <1>2, <1>4, <1>5, PickerStep

\* The helper exits.
LEMMA HelperExitsKeeps ==
  ASSUME OverlayInv, NEW how \in {"succeeded", "failed"}, HelperExits(how)
  PROVE  OverlayInv' /\ TrayKept
<1> DEFINE Helpers == [process : {"null", "running", "succeeded", "failed"}, path : TrayIds,
                       result : {"none", "succeeded", "failed"}]
<1>1. /\ Fine(overlay) /\ overlay \in Overlays /\ WorkflowOK(overlay) /\ PickerFits(overlay)
      /\ open' = open /\ inbox' \in Seq(Key) /\ sequence' \in Seq(Key)
  BY DEF OverlayInv, HelperExits, Child, Fine
<1>2. overlay.helper \in Helpers /\ Stage(overlay) = "RUNNING"
  BY <1>1 DEF Overlays, HelperExits, WorkflowOK, HelperRuns
<1>3. PICK helper : helper = [overlay.helper EXCEPT !.process = how]
  OBVIOUS
<1>4. helper \in Helpers /\ helper.process = how /\ helper.path = overlay.helper.path
  BY <1>2, <1>3
<1>5. overlay' = [overlay EXCEPT !.helper = helper]
  BY <1>3 DEF HelperExits, Child
<1>6. overlay' \in Overlays /\ overlay'.helper = helper
  BY <1>1, <1>4, <1>5 DEF Overlays
<1>7. /\ overlay'.mode = overlay.mode /\ overlay'.worktree_stage = overlay.worktree_stage
      /\ overlay'.repository_stage = overlay.repository_stage
      /\ overlay'.text = overlay.text /\ overlay'.picker = overlay.picker
      /\ overlay'.selected_repository = overlay.selected_repository
      /\ overlay'.repository_root = overlay.repository_root
      /\ overlay'.pending_worktree_path = overlay.pending_worktree_path
      /\ overlay'.tray_to_open = overlay.tray_to_open
  BY <1>1, <1>5 DEF Overlays
<1>8. Stage(overlay') = "RUNNING"
  BY <1>2, <1>7 DEF Stage
<1>9. HelperRuns(overlay')
  BY <1>4, <1>6, <1>8 DEF HelperRuns
<1>10. HasInputs(overlay')
  BY <1>1, <1>2, <1>4, <1>6, <1>7, <1>8 DEF WorkflowOK, HasInputs
<1>11. overlay.picker = NoPicker
  BY <1>1, <1>2 DEF PickerFits, Selecting
<1>12. Fine(overlay') /\ Says(overlay')
  BY <1>6, <1>7, <1>8, <1>9, <1>10, <1>11 DEF Fine, WorkflowOK, PickerFits, Says, Selecting
<1> QED  BY <1>1, <1>7, <1>12, StepKeeps

------------------------------------------------------------------------------
(* The loop serves the child                                               *)

\* What the parent reads from the picker's terminal, none when there is no picker.
LEMMA ReadKeeps ==
  ASSUME NEW o, Fine(o), Says(o), NEW n \in 0 .. Len(o.picker.output),
         NEW p, Holds(o, p, Read(o.picker, n))
  PROVE  /\ Fine(p) /\ Says(p) /\ Stage(p) = Stage(o)
         /\ p.tray_to_open = o.tray_to_open /\ p.candidates = o.candidates
         /\ SameWorkflow(o, p)
         /\ p.picker.process = o.picker.process /\ p.picker.listed = o.picker.listed
         /\ p.picker.focus = o.picker.focus
<1>1. PICK picker : picker = Read(o.picker, n)
  OBVIOUS
<1>2. Holds(o, p, picker)
  BY <1>1
<1>3. CASE o.picker # NoPicker
  <2>1. /\ PickerOK(picker, Entries) /\ picker.listed = o.picker.listed
        /\ picker.focus = o.picker.focus /\ picker.process = o.picker.process
    BY <1>1, <1>3, PickerIsOne, ReadIsOK
  <2> QED  BY <1>2, <1>3, <2>1, PickerReplaced
<1>4. CASE o.picker = NoPicker
  <2>1. picker = o.picker
    BY <1>1, <1>4, NothingToRead
  <2>2. p = o
    BY <1>2, <2>1 DEF Holds, Fine, Overlays
  <2> QED  BY <2>2 DEF SameWorkflow
<1> QED  BY <1>3, <1>4

\* refresh_process_state opens nothing that was not chosen.
LEMMA RefreshedOK ==
  ASSUME NEW o, Fine(o), Says(o), NEW env \in Env, NEW r, r = Refreshed(o, env)
  PROVE  /\ Fine(r) /\ Says(r)
         /\ \/ r.tray_to_open = o.tray_to_open
            \/ /\ o.mode = Switch /\ o.picker.process = "chose"
               /\ r.tray_to_open = o.picker.listed[o.picker.focus + 1]
               /\ o.candidates[o.picker.focus + 1].available
            \/ /\ o.mode = AddWorktree /\ o.helper.process = "succeeded"
               /\ Stage(o) = "RUNNING" /\ r.tray_to_open = o.pending_worktree_path
<1>1. CASE Finished(o.picker)
  <2>1. o.picker # NoPicker
    BY <1>1 DEF Finished, NoPicker
  <2>2. r = PickerDone([o EXCEPT !.picker = NoPicker], o.picker, env)
    BY <1>1, <2>1 DEF Refreshed
  <2> QED  BY <2>1, <2>2, PickerDoneOK
<1>2. CASE /\ ~ Finished(o.picker) /\ o.picker = NoPicker /\ Stage(o) = "RUNNING"
           /\ o.helper.process \in {"succeeded", "failed"}
  <2>1. PICK how \in {"succeeded", "failed"} : how = o.helper.process
    BY <1>2
  <2>2. r = HelperDone(o, how)
    BY <1>2, <2>1 DEF Refreshed
  <2> QED  BY <1>2, <2>1, <2>2, HelperDoneOK
<1>3. CASE /\ ~ Finished(o.picker)
           /\ ~ (o.picker = NoPicker /\ Stage(o) = "RUNNING"
                 /\ o.helper.process \in {"succeeded", "failed"})
  <2>1. r = o
    BY <1>3 DEF Refreshed
  <2> QED  BY <2>1
<1> QED  BY <1>1, <1>2, <1>3

\* Serving the child keeps the invariant, and what it gives the parent to open was chosen.
LEMMA ServeChildKeeps ==
  ASSUME OverlayInv, NEW n \in 0 .. Len(overlay.picker.output), NEW env \in Env,
         ServeChild(n, env)
  PROVE  OverlayInv' /\ (TrayKept \/ ATrayWasChosen)
<1>1. /\ Fine(overlay) /\ Says(overlay) /\ WorkflowOK(overlay)
      /\ open' = open /\ inbox' \in Seq(Key) /\ sequence' \in Seq(Key)
  BY DEF OverlayInv, ServeChild, Ready, Fine
<1>2. PICK p : Holds(overlay, p, Read(overlay.picker, n))
  BY DEF Holds
<1>3. /\ Fine(p) /\ Says(p) /\ Stage(p) = Stage(overlay)
      /\ p.tray_to_open = overlay.tray_to_open /\ p.candidates = overlay.candidates
      /\ SameWorkflow(overlay, p)
      /\ p.picker.process = overlay.picker.process /\ p.picker.listed = overlay.picker.listed
      /\ p.picker.focus = overlay.picker.focus
  BY <1>1, <1>2, ReadKeeps
<1>4. PICK r : r = Refreshed(p, env)
  OBVIOUS
<1>5. /\ Fine(r) /\ Says(r)
      /\ \/ r.tray_to_open = p.tray_to_open
         \/ /\ p.mode = Switch /\ p.picker.process = "chose"
            /\ r.tray_to_open = p.picker.listed[p.picker.focus + 1]
            /\ p.candidates[p.picker.focus + 1].available
         \/ /\ p.mode = AddWorktree /\ p.helper.process = "succeeded"
            /\ Stage(p) = "RUNNING" /\ r.tray_to_open = p.pending_worktree_path
  BY <1>3, <1>4, RefreshedOK
<1>6. overlay' = r
  BY <1>2, <1>4 DEF ServeChild, Holds
<1>7. OverlayInv'
  BY <1>1, <1>5, <1>6 DEF OverlayInv
<1>8. /\ p.mode = overlay.mode /\ p.helper = overlay.helper
      /\ p.pending_worktree_path = overlay.pending_worktree_path
  BY <1>3 DEF SameWorkflow
<1>9. Stage(overlay) = "RUNNING" /\ overlay.mode = AddWorktree =>
        /\ overlay.helper.path = overlay.pending_worktree_path
        /\ overlay.pending_worktree_path =
             WorktreeTray(overlay.selected_repository, overlay.text["WORKTREE_BRANCH"])
  BY <1>1 DEF WorkflowOK, HasInputs
<1>10. TrayKept \/ ATrayWasChosen
  BY <1>3, <1>5, <1>6, <1>8, <1>9 DEF TrayKept, ATrayWasChosen
<1> QED  BY <1>7, <1>10

------------------------------------------------------------------------------
(* The dispatcher and the tray manager                                     *)

\* A step of the dispatcher or of the tray manager.
LEMMA UpdateKeeps ==
  ASSUME OverlayInv, NEW r, Update(r), Fine(r), Says(r), r.tray_to_open = overlay.tray_to_open
  PROVE  OverlayInv' /\ TrayKept
<1>1. /\ overlay' = r /\ open' = open /\ inbox' \in Seq(Key) /\ sequence' \in Seq(Key)
  BY DEF OverlayInv, Update
<1> QED  BY <1>1, StepKeeps

\* An overlay that the loop leaves alone for another event is in order.
LEMMA UpdateFinds ==
  ASSUME OverlayInv, NEW r, Update(r)
  PROVE  Fine(overlay) /\ Says(overlay) /\ overlay \in Overlays /\ WorkflowOK(overlay)
BY DEF OverlayInv, Update, Ready, Fine

\* The tray manager announces other trays.
Announces(o, p, trays) == p = [o EXCEPT !.session_trays = trays]

\* They concern the list of the Worktrees mode only.
LEMMA AnnouncedOK ==
  ASSUME NEW o, Fine(o), Says(o), ~ (o.mode = Switch /\ o.picker # NoPicker),
         NEW trays \in Seq(ListedTrays), NEW p, Announces(o, p, trays)
  PROVE  Fine(p) /\ Says(p) /\ p.tray_to_open = o.tray_to_open
<1>1. o \in Overlays /\ WorkflowOK(o) /\ PickerFits(o)
  BY DEF Fine
<1>2. p \in Overlays
  BY <1>1 DEF Overlays, Announces
<1>3. /\ SameWorkflow(o, p) /\ p.picker = o.picker /\ p.explained = o.explained
      /\ p.tray_to_open = o.tray_to_open
  BY <1>1 DEF Overlays, Announces, SameWorkflow
<1>4. WorkflowOK(p) /\ Stage(p) = Stage(o) /\ p.mode = o.mode
  BY <1>1, <1>3, WorkflowDepends DEF SameWorkflow
<1>5. PickerFits(p) /\ Says(p)
  BY <1>1, <1>3, <1>4 DEF PickerFits, Says, Selecting
<1> QED  BY <1>2, <1>3, <1>4, <1>5 DEF Fine

\* A list that is built anew, whatever list was on the screen.
LEMMA RebuiltOK ==
  ASSUME NEW o, o \in Overlays, WorkflowOK(o), o.mode = Switch,
         NEW p, Holds(o, p, NoPicker), NEW env \in Env, NEW r, r = StartSwitchPicker(p, env)
  PROVE  Fine(r) /\ Says(r) /\ r.tray_to_open = o.tray_to_open
<1>1. p \in Overlays /\ p.picker = NoPicker
  BY NoPickerIsTyped DEF Holds, Overlays
<1>2. SameWorkflow(o, p) /\ p.tray_to_open = o.tray_to_open
  BY DEF Holds, Overlays, SameWorkflow
<1>3. WorkflowOK(p) /\ p.mode = Switch
  BY <1>2, WorkflowDepends DEF SameWorkflow
<1> QED  BY <1>1, <1>2, <1>3, SwitchPickerOK

\* A tray list that differs rebuilds the list on the screen.
LEMMA UpdateSessionTraysKeeps ==
  ASSUME OverlayInv, NEW trays \in SessionLists, NEW env \in Env,
         UpdateSessionTrays(trays, env)
  PROVE  OverlayInv' /\ TrayKept
<1>1. PICK r : r = SessionTrays(overlay, trays, env)
  OBVIOUS
<1>2. Update(r)
  BY <1>1 DEF UpdateSessionTrays
<1>3. Fine(overlay) /\ Says(overlay) /\ overlay \in Overlays /\ WorkflowOK(overlay)
  BY <1>2, UpdateFinds
<1>4. trays \in Seq(ListedTrays)
  BY ListsAssumption
<1>5. PICK told : Announces(overlay, told, trays)
  BY DEF Announces
<1>6. Fine(r) /\ Says(r) /\ r.tray_to_open = overlay.tray_to_open
  <2>1. CASE ~ (overlay.mode = Switch /\ overlay.picker # NoPicker)
    <3>1. r = told
      BY <1>1, <1>5, <2>1 DEF SessionTrays, Announces
    <3> QED  BY <1>3, <1>4, <1>5, <2>1, <3>1, AnnouncedOK
  <2>2. CASE overlay.mode = Switch /\ overlay.picker # NoPicker
    <3>1. told \in Overlays /\ SameWorkflow(overlay, told)
          /\ told.tray_to_open = overlay.tray_to_open
      BY <1>3, <1>4, <1>5 DEF Announces, Overlays, SameWorkflow
    <3>2. WorkflowOK(told) /\ told.mode = Switch
      BY <1>3, <2>2, <3>1, WorkflowDepends DEF SameWorkflow
    <3>3. PICK p : Holds(told, p, NoPicker)
      BY DEF Holds
    <3>4. r = StartSwitchPicker(p, env)
      BY <1>1, <1>5, <2>2, <3>3 DEF SessionTrays, Announces, Holds
    <3> QED  BY <3>1, <3>2, <3>3, <3>4, RebuiltOK
  <2> QED  BY <2>1, <2>2
<1> QED  BY <1>2, <1>6, UpdateKeeps

\* The question is about one tray.
Asks(o, p, tray) == p = [o EXCEPT !.confirmation = tray]

\* It concerns nothing else.
LEMMA AskedOK ==
  ASSUME NEW o, Fine(o), Says(o), NEW tray \in TrayIds, NEW p, Asks(o, p, tray)
  PROVE  Fine(p) /\ Says(p) /\ p.tray_to_open = o.tray_to_open /\ p.mode = o.mode
<1>1. o \in Overlays
  BY DEF Fine
<1>2. p \in Overlays
  BY <1>1 DEF Overlays, Asks
<1>3. SameOverlay(o, p) /\ p.explained = o.explained /\ p.tray_to_open = o.tray_to_open
  BY <1>1 DEF Overlays, Asks, SameOverlay, SameWorkflow
<1> QED  BY <1>2, <1>3, Unaffected DEF SameOverlay, SameWorkflow

\* The highlighted tray is one of the list.
LEMMA HighlightedIsListed ==
  ASSUME Fine(overlay)
  PROVE  HighlightedTray \in TrayIds
<1>1. CASE /\ overlay.mode = Switch /\ overlay.picker # NoPicker
           /\ overlay.picker.highlighted < Len(overlay.candidates)
  <2>1. PICK k : k = overlay.picker.highlighted + 1
    OBVIOUS
  <2>2. overlay.candidates \in Seq(Candidate) /\ overlay.picker.highlighted \in Nat
    BY DEF Fine, Overlays, Pickers
  <2>3. Len(overlay.candidates) \in Nat
    BY <2>2, LenProperties
  <2>4. k \in 1 .. Len(overlay.candidates)
    BY <1>1, <2>1, <2>2, <2>3
  <2>5. overlay.candidates[k] \in Candidate
    BY <2>2, <2>4, ElementOfSeq
  <2>6. HighlightedTray = overlay.candidates[k].tray
    BY <1>1, <2>1 DEF HighlightedTray
  <2> QED  BY <2>5, <2>6 DEF Candidate, TrayIds
<1>2. CASE ~ /\ overlay.mode = Switch /\ overlay.picker # NoPicker
             /\ overlay.picker.highlighted < Len(overlay.candidates)
  <2>1. HighlightedTray = NoTray
    BY <1>2 DEF HighlightedTray
  <2> QED  BY <2>1 DEF TrayIds
<1> QED  BY <1>1, <1>2

\* The question is asked.
LEMMA BeginTrayActionKeeps ==
  ASSUME OverlayInv, BeginTrayAction
  PROVE  OverlayInv' /\ TrayKept
<1>1. PICK r : Asks(overlay, r, HighlightedTray)
  BY DEF Asks
<1>2. Update(r)
  BY <1>1 DEF BeginTrayAction, Asks
<1>3. Fine(overlay) /\ Says(overlay)
  BY <1>2, UpdateFinds
<1>4. Fine(r) /\ Says(r) /\ r.tray_to_open = overlay.tray_to_open
  BY <1>1, <1>3, HighlightedIsListed, AskedOK
<1> QED  BY <1>2, <1>4, UpdateKeeps

\* It is refused.
LEMMA SetPickerActionErrorKeeps ==
  ASSUME OverlayInv, SetPickerActionError
  PROVE  OverlayInv' /\ TrayKept
<1>1. PICK r : Asks(overlay, r, NoTray)
  BY DEF Asks
<1>2. Update(r)
  BY <1>1 DEF SetPickerActionError, Asks
<1>3. Fine(overlay) /\ Says(overlay) /\ NoTray \in TrayIds
  BY <1>2, UpdateFinds DEF TrayIds
<1>4. Fine(r) /\ Says(r) /\ r.tray_to_open = overlay.tray_to_open
  BY <1>1, <1>3, AskedOK
<1> QED  BY <1>2, <1>4, UpdateKeeps

\* It is answered; the list is built anew after a tray that was ended.
LEMMA ResolveTrayActionKeeps ==
  ASSUME OverlayInv, NEW confirmed \in BOOLEAN, NEW env \in Env,
         ResolveTrayAction(confirmed, env)
  PROVE  OverlayInv' /\ TrayKept
<1>1. PICK asked : Asks(overlay, asked, NoTray)
  BY DEF Asks
<1>2. PICK r : r = IF confirmed THEN RefreshedPicker(asked, env) ELSE asked
  OBVIOUS
<1>3. Update(r)
  BY <1>1, <1>2 DEF ResolveTrayAction, Asks
<1>4. Fine(overlay) /\ Says(overlay) /\ NoTray \in TrayIds
  BY <1>3, UpdateFinds DEF TrayIds
<1>5. Fine(asked) /\ Says(asked) /\ asked.tray_to_open = overlay.tray_to_open
  BY <1>1, <1>4, AskedOK
<1>6. Fine(r) /\ Says(r) /\ r.tray_to_open = overlay.tray_to_open
  <2>1. CASE ~ confirmed \/ asked.mode # Switch
    <3>1. r = asked
      BY <1>2, <2>1 DEF RefreshedPicker
    <3> QED  BY <1>5, <3>1
  <2>2. CASE confirmed /\ asked.mode = Switch
    <3>1. PICK q : Asks(asked, q, NoTray)
      BY DEF Asks
    <3>2. Fine(q) /\ q.tray_to_open = asked.tray_to_open /\ q.mode = Switch
      BY <1>4, <1>5, <2>2, <3>1, AskedOK
    <3>3. PICK p : Holds(q, p, NoPicker)
      BY DEF Holds
    <3>4. asked \in Overlays
      BY <1>5 DEF Fine
    <3>5. p = [asked EXCEPT !.confirmation = NoTray, !.picker = NoPicker]
      BY <3>1, <3>3, <3>4 DEF Asks, Holds, Overlays
    <3>6. r = StartSwitchPicker(p, env)
      BY <1>2, <2>2, <3>5 DEF RefreshedPicker
    <3>7. q \in Overlays /\ WorkflowOK(q)
      BY <3>2 DEF Fine
    <3>8. Fine(r) /\ Says(r) /\ r.tray_to_open = q.tray_to_open
      BY <3>2, <3>3, <3>6, <3>7, RebuiltOK
    <3> QED  BY <1>5, <3>2, <3>8
  <2> QED  BY <2>1, <2>2
<1> QED  BY <1>3, <1>6, UpdateKeeps

------------------------------------------------------------------------------
(* The theorems                                                            *)

\* Every step keeps the invariant, and a tray to open is one that was chosen.
LEMMA EveryStepKeeps ==
  ASSUME OverlayInv, [Next]_vars
  PROVE  OverlayInv' /\ (TrayKept \/ ATrayWasChosen)
<1>1. CASE UNCHANGED vars
  BY <1>1 DEF vars, OverlayInv, TrayKept
<1>2. ASSUME OpenOverlay PROVE OverlayInv' /\ TrayKept
  BY <1>2, OpenKeeps DEF OpenOverlay, TrayKept
<1>3. ASSUME Dismiss \/ TakeTrayToOpen PROVE OverlayInv' /\ TrayKept
  BY <1>3, CloseKeeps DEF Dismiss, TakeTrayToOpen
<1>4. ASSUME Keys PROVE OverlayInv' /\ TrayKept
  BY <1>4, WriteInputKeeps, CycleByKeyKeeps, CollectKeyKeeps, PassKeysKeeps, ReopenSelectorKeeps
     DEF Keys
<1>5. ASSUME Form PROVE OverlayInv' /\ TrayKept
  BY <1>5, EditFormKeeps, SubmitNothingKeeps, SubmitWorktreeRepositoryKeeps,
     SubmitWorktreeBranchKeeps, SubmitRepositoryRootKeeps, SubmitCloneUrlKeeps DEF Form
<1>6. ASSUME Children PROVE OverlayInv' /\ TrayKept
  <2>1. ASSUME NEW i \in 0 .. Len(overlay.picker.listed) - 1, FzfFocuses(i)
        PROVE  OverlayInv' /\ TrayKept
    BY <2>1, FzfFocusesKeeps
  <2> QED  BY <1>6, <2>1, FzfDrawsKeeps, FzfExitsKeeps, HelperExitsKeeps DEF Children
<1>7. ASSUME Served PROVE OverlayInv' /\ (TrayKept \/ ATrayWasChosen)
  BY <1>7, ServeChildKeeps DEF Served
<1>8. ASSUME Commands PROVE OverlayInv' /\ TrayKept
  BY <1>8, UpdateSessionTraysKeeps, BeginTrayActionKeeps, SetPickerActionErrorKeeps,
     ResolveTrayActionKeeps DEF Commands
<1> QED  BY <1>1, <1>2, <1>3, <1>4, <1>5, <1>6, <1>7, <1>8 DEF Next

\* A tray starts without an overlay.
LEMMA OverlayInit == Init => OverlayInv
<1>1. PICK none \in Seq(ListedTrays) : none = <<>>
  BY EmptySeq
<1>2. Fine(Blank)
  BY <1>1, BlankOK
<1>3. <<>> \in Seq(Key)
  BY EmptySeq
<1> QED  BY <1>2, <1>3 DEF Init, OverlayInv

\* The invariant is inductive: after every input, read, exit and announcement the
\* overlay's fields have their types, and its stage, its child and its lists agree.
THEOREM OverlayStaysInOrder == Spec => []OverlayInv
<1>1. OverlayInv /\ [Next]_vars => OverlayInv'
  BY EveryStepKeeps
<1> QED  BY OverlayInit, <1>1, PTL DEF Spec

\* The overlay's stage, its child and what the stages before collected agree, whatever
\* the order of keys, exits and failures to start a child: write_input finds a helper
\* in the stage RUNNING and nowhere else, and no stage misses what it dereferences.
THEOREM TheWorkflowIsSound == Spec => []WorkflowIsSound
<1>1. ASSUME OverlayInv PROVE WorkflowIsSound
  <2>1. Fine(overlay) /\ overlay \in Overlays /\ WorkflowOK(overlay) /\ (open => Says(overlay))
    BY <1>1 DEF OverlayInv, Fine
  <2>2. TypesAreRight
    BY <1>1, <2>1 DEF TypesAreRight, OverlayInv, Overlays
  <2>3. RunningMeansAHelper
    BY <2>1 DEF RunningMeansAHelper, WorkflowOK, HelperRuns
  <2>4. WorktreeTray(overlay.selected_repository, overlay.text["WORKTREE_BRANCH"]) # NoTray
    BY DEF WorktreeTray, NoTray
  <2>5. StagesHaveTheirInputs
    BY <2>1, <2>4 DEF StagesHaveTheirInputs, WorkflowOK, HasInputs
  <2>6. PickersAreWhereTheyBelong
    BY <2>1 DEF PickersAreWhereTheyBelong, Fine, PickerFits, Says, Selecting
  <2> QED  BY <2>2, <2>3, <2>5, <2>6 DEF WorkflowIsSound
<1> QED  BY OverlayStaysInOrder, <1>1, PTL

\* The list on the screen is the one its indexes are resolved with, and it ends with the
\* session's trays as they were last announced, through every rebuilt list of
\* update_session_trays, refresh_worktree_picker and start_switch_worktree_picker.
THEOREM ThePickerShowsTheTrays == Spec => []PickerShowsTheTrays
<1>1. ASSUME OverlayInv PROVE PickerShowsTheTrays
  <2>1. Fine(overlay) /\ overlay.candidates \in Seq(Candidate)
    BY <1>1 DEF OverlayInv, Fine, Overlays
  <2>2. ASSUME overlay.mode = Switch, overlay.picker # NoPicker
        PROVE  /\ overlay.picker.listed = Trays(overlay.candidates)
               /\ overlay.picker.highlighted < Len(overlay.candidates)
               /\ IsSuffix(overlay.session_trays, overlay.picker.listed)
    <3>1. /\ PickerOK(overlay.picker, Entries) /\ overlay.picker.listed = Trays(overlay.candidates)
          /\ IsSuffix(overlay.session_trays, overlay.picker.listed)
      BY <2>1, <2>2 DEF Fine, PickerFits
    <3>2. Len(overlay.picker.listed) = Len(overlay.candidates)
      BY <2>1, <3>1, TraysOfCandidates
    <3>3. overlay.picker.highlighted < Len(overlay.picker.listed)
      BY <3>1 DEF PickerOK, Follows
    <3> QED  BY <3>1, <3>2, <3>3
  <2> QED  BY <2>2 DEF PickerShowsTheTrays
<1> QED  BY OverlayStaysInOrder, <1>1, PTL

\* Once the parent has read all that fzf wrote, the highlighted entry it acts on is the
\* one that fzf highlights, wherever the reads that ingest_focus_notifications joins
\* were cut.
THEOREM TheHighlightFollowsFocus == Spec => []HighlightFollowsFocus
<1>1. ASSUME OverlayInv PROVE HighlightFollowsFocus
  <2>1. Fine(overlay)
    BY <1>1 DEF OverlayInv
  <2>2. CASE overlay.picker # NoPicker
    BY <2>1, <2>2, PickerIsOne, AllReadIsShown DEF HighlightFollowsFocus
  <2>3. CASE overlay.picker = NoPicker
    BY <2>3 DEF HighlightFollowsFocus, NoPicker
  <2> QED  BY <2>2, <2>3
<1> QED  BY OverlayStaysInOrder, <1>1, PTL

\* refresh_process_state gives the parent a tray to open only when it was offered as
\* available under the index that fzf printed, or when the helper that succeeded was
\* started for it, from the repository and the branch of the form.
THEOREM OnlyWhatWasChosenOpens == Spec => OpensOnlyWhatWasChosen
<1>1. OverlayInv /\ [Next]_vars =>
        [overlay'.tray_to_open # overlay.tray_to_open =>
           overlay'.tray_to_open = NoTray \/ ATrayWasChosen]_vars
  BY EveryStepKeeps DEF TrayKept
<1> QED  BY OverlayStaysInOrder, <1>1, PTL DEF Spec, OpensOnlyWhatWasChosen

=============================================================================
