------------------------- MODULE BrowserBridge_proofs -------------------------
(***************************************************************************)
(* Proofs about BrowserBridge, for any clients, payloads and capacities:   *)
(* what the parent reads is one whole payload after the other, and what    *)
(* the parent writes is on its way to every registered browser without a   *)
(* gap, whoever joins and wherever a read ends.                            *)
(***************************************************************************)
EXTENDS BrowserBridge, SequenceTheorems, NaturalsInduction, WellFoundedInduction, TLAPS

InputPiece == [to : Inputs, from : Clients, half : {1, 2}]
Half(d, c, h) == [to |-> d, from |-> c, half |-> h]

Stream(d) == taken[d] \o inbox[d]
Even(d) == Len(Stream(d)) % 2 = 0
Whole(s) ==
  \A i \in DOMAIN s : /\ s[i].half = IF i % 2 = 1 THEN 1 ELSE 2
                      /\ i % 2 = 0 => s[i].from = s[i - 1].from

ThreadState == {"absent", "joining", "greeting", "serving", "writing", "gone", "dead"}

InputTypes ==
  /\ inbox \in [Inputs -> Seq(InputPiece)]
  /\ taken \in [Inputs -> Seq(InputPiece)]
  /\ \A d \in Inputs : Len(taken[d]) <= 1
  /\ outgoing \in [Clients -> Seq(InputPiece)]
  /\ thread \in [Clients -> ThreadState]

\* parent_input_mutex: one thread at a time is handling a payload.
OneWriter ==
  \A c, e \in Clients : thread[c] = "writing" /\ thread[e] = "writing" => c = e

\* Nothing of the payload of c has been written.
NotBegun(c) ==
  /\ \A d \in Inputs : Even(d)
  /\ \E d \in Inputs : outgoing[c] = <<Half(d, c, 1), Half(d, c, 2)>>

\* Its first piece has been written, after everything else.
HalfWritten(c) ==
  \E d \in Inputs :
    /\ outgoing[c] = <<Half(d, c, 2)>>
    /\ Len(Stream(d)) % 2 = 1
    /\ Stream(d)[Len(Stream(d))].from = c
    /\ \A e \in Inputs \ {d} : Even(e)

WritersAreWhole ==
  /\ \A c \in Clients : thread[c] = "writing" => NotBegun(c) \/ HalfWritten(c)
  /\ (\A c \in Clients : thread[c] # "writing") => \A d \in Inputs : Even(d)

InputInv ==
  /\ InputTypes
  /\ OneWriter
  /\ WritersAreWhole
  /\ \A d \in Inputs : Whole(Stream(d))

PipeTypes ==
  /\ produced \in [Channels -> Nat]
  /\ ready \subseteq Channels
  /\ channel \in [Channels -> Seq([channel : Channels, number : Nat, last : BOOLEAN])]
  /\ \A k \in Channels : Len(channel[k]) <= Capacity[k]
  /\ open \in [Clients -> BOOLEAN]
  /\ uplink \in [Clients -> Seq(Payloads)]
  /\ writing \in Seq([channel : Channels, number : Nat, last : BOOLEAN])

IInv == InputInv /\ PipeTypes

------------------------------------------------------------------------------
\* Steps that touch no input and start or end no writing.
LEMMA Elsewhere ==
  ASSUME InputInv, UNCHANGED <<outgoing, inputVars>>, thread' \in [Clients -> ThreadState],
         \A c \in Clients : (thread'[c] = "writing") = (thread[c] = "writing")
  PROVE  InputInv'
<1>1. \A d \in Inputs : Stream(d)' = Stream(d)
  BY DEF Stream, inputVars
<1>2. InputTypes'
  BY DEF InputInv, InputTypes, inputVars
<1>3. OneWriter'
  BY DEF InputInv, OneWriter
<1>4. \A c \in Clients : (NotBegun(c) \/ HalfWritten(c)) => (NotBegun(c) \/ HalfWritten(c))'
  BY <1>1 DEF NotBegun, HalfWritten, Even
<1>5. WritersAreWhole'
  BY <1>1, <1>4 DEF InputInv, WritersAreWhole, Even
<1>6. \A d \in Inputs : Whole(Stream(d))'
  BY <1>1 DEF InputInv, Whole
<1> QED BY <1>2, <1>3, <1>5, <1>6 DEF InputInv

\* A stream as the parent finds it: a held piece is a first half, and what follows it
\* the second half of the same payload.
LEMMA Reading ==
  ASSUME InputInv, NEW d \in Inputs, ParentReads(d)
  PROVE  InputInv'
<1> DEFINE P == InputPiece
           t == taken[d]
           b == inbox[d]
           s == Stream(d)
<1>1. t \in Seq(P) /\ b \in Seq(P) /\ b # <<>> /\ Len(t) <= 1
  BY DEF InputInv, InputTypes, ParentReads
<1>2. /\ Head(b) \in P /\ Tail(b) \in Seq(P) /\ Len(Tail(b)) = Len(b) - 1
      /\ Head(b) = b[1] /\ \A i \in 1 .. Len(Tail(b)) : Tail(b)[i] = b[i + 1]
      /\ Len(b) \in Nat \ {0}
  BY <1>1, HeadTailProperties
<1>3. /\ s \in Seq(P) /\ Len(s) = Len(t) + Len(b)
      /\ \A i \in 1 .. Len(s) : s[i] = IF i <= Len(t) THEN t[i] ELSE b[i - Len(t)]
  BY <1>1, ConcatProperties, ZenonT(60) DEF Stream
<1>4. DOMAIN s = 1 .. Len(s) /\ Len(t) \in {0, 1}
  <2>1. DOMAIN s = 1 .. Len(s)
    BY <1>3, LenProperties
  <2>2. Len(t) \in Nat
    BY <1>1, LenProperties
  <2>3. Len(t) <= 1
    BY <1>1
  <2>4. \A n \in Nat : n <= 1 => n \in {0, 1}
    OBVIOUS
  <2> QED BY <2>1, <2>2, <2>3, <2>4, Zenon
<1>5. \A i \in 1 .. Len(s) : /\ s[i].half = IF i % 2 = 1 THEN 1 ELSE 2
                             /\ i % 2 = 0 => s[i].from = s[i - 1].from
  BY <1>4 DEF InputInv, Whole
<1>6. /\ taken' = [taken EXCEPT ![d] = Held(Head(b))]
      /\ inbox' = [inbox EXCEPT ![d] = Tail(b)]
      /\ UNCHANGED <<thread, outgoing>>
  BY DEF ParentReads, threadVars
<1>7. taken'[d] = Held(Head(b)) /\ inbox'[d] = Tail(b)
  BY <1>6 DEF InputInv, InputTypes
<1>8. \A e \in Inputs \ {d} : Stream(e)' = Stream(e)
  BY <1>6 DEF Stream, InputInv, InputTypes
<1>9. CASE Len(t) = 0
  <2>1. Head(b).half = 1
    BY <1>2, <1>3, <1>5, <1>9
  <2>2. taken'[d] = <<Head(b)>>
    BY <1>7, <2>1 DEF Held
  <2>3. Stream(d)' = <<Head(b)>> \o Tail(b)
    BY <2>2, <1>7 DEF Stream
  <2>4. /\ <<Head(b)>> \in Seq(P) /\ Len(<<Head(b)>>) = 1
        /\ <<Head(b)>>[1] = Head(b)
    BY <1>2
  <2>5. /\ Stream(d)' \in Seq(P) /\ Len(Stream(d)') = 1 + Len(Tail(b))
        /\ \A i \in 1 .. 1 + Len(Tail(b)) :
             Stream(d)'[i] = IF i <= 1 THEN <<Head(b)>>[i] ELSE Tail(b)[i - 1]
    BY <2>3, <2>4, <1>2, ConcatProperties
  <2>6. \A i \in 1 .. Len(s) : Stream(d)'[i] = s[i]
    BY <2>4, <2>5, <1>2, <1>3, <1>9
  <2>7. Stream(d)' = s
    BY <2>5, <2>6, <1>2, <1>3, <1>9, SeqEqual
  <2>8. \A e \in Inputs : Stream(e)' = Stream(e)
    BY <2>7, <1>8
  <2>9. InputTypes'
    <3>1. \A e \in Inputs : taken'[e] \in Seq(P) /\ Len(taken'[e]) <= 1
      <4>1. taken'[d] \in Seq(P) /\ Len(taken'[d]) <= 1
        BY <2>2, <2>4
      <4>2. \A e \in Inputs \ {d} : taken'[e] = taken[e]
        BY <1>6 DEF InputInv, InputTypes
      <4> QED BY <4>1, <4>2 DEF InputInv, InputTypes
    <3> QED BY <3>1, <1>2, <1>6 DEF InputInv, InputTypes
  <2>10. OneWriter'
    BY <1>6 DEF InputInv, OneWriter
  <2>11. WritersAreWhole'
    BY <1>6, <2>8 DEF InputInv, WritersAreWhole, NotBegun, HalfWritten, Even
  <2>12. \A e \in Inputs : Whole(Stream(e))'
    BY <2>8 DEF InputInv, Whole
  <2> QED BY <2>9, <2>10, <2>11, <2>12 DEF InputInv
<1>10. CASE Len(t) = 1
  <2>1. Head(b).half = 2
    <3>1. 2 \in 1 .. Len(s) /\ ~(2 <= Len(t)) /\ 2 - Len(t) = 1
      BY <1>2, <1>3, <1>10
    <3>2. s[2] = b[1]
      BY <1>3, <3>1
    <3>3. s[2].half = 2
      BY <1>5, <3>1
    <3> QED BY <3>2, <3>3, <1>2
  <2>2. taken'[d] = <<>>
    BY <1>7, <2>1 DEF Held
  <2>3. Stream(d)' = Tail(b)
    BY <2>2, <1>2, <1>7, ConcatEmptySeq DEF Stream
  <2>4. /\ Len(Tail(b)) = Len(s) - 2 /\ Len(s) >= 2 /\ Len(s) \in Nat
        /\ \A i \in 1 .. Len(Tail(b)) : Tail(b)[i] = s[i + 2]
    <3>1. Len(Tail(b)) = Len(s) - 2 /\ Len(s) >= 2 /\ Len(s) \in Nat
      BY <1>2, <1>3, <1>10
    <3>2. ASSUME NEW i \in 1 .. Len(Tail(b)) PROVE Tail(b)[i] = s[i + 2]
      <4>1. i + 2 \in 1 .. Len(s) /\ ~(i + 2 <= Len(t)) /\ (i + 2) - Len(t) = i + 1
        BY <3>1, <1>10
      <4>2. s[i + 2] = b[(i + 2) - Len(t)]
        BY <1>3, <4>1
      <4> QED BY <1>2, <4>1, <4>2
    <3> QED BY <3>1, <3>2
  <2>5. (Len(s) - 2) % 2 = Len(s) % 2
    BY <2>4
  <2>6. \A e \in Inputs : Even(e)' = Even(e)
    BY <2>3, <2>4, <2>5, <1>8 DEF Even
  <2>7. \A e \in Inputs : Len(Stream(e)') % 2 = Len(Stream(e)) % 2
    BY <2>3, <2>4, <2>5, <1>8
  <2>8. Len(s) % 2 = 1 => Stream(d)'[Len(Stream(d)')] = s[Len(s)]
    <3> SUFFICES ASSUME Len(s) % 2 = 1 PROVE Tail(b)[Len(s) - 2] = s[Len(s)]
      BY <2>3, <2>4
    <3>1. Len(s) >= 3
      BY <2>4
    <3> QED BY <3>1, <2>4
  <2>9. InputTypes'
    <3>1. <<>> \in Seq(P) /\ Len(<<>>) = 0
      BY EmptySeq
    <3>2. \A e \in Inputs : taken'[e] \in Seq(P) /\ Len(taken'[e]) <= 1
      <4>1. taken'[d] \in Seq(P) /\ Len(taken'[d]) <= 1
        BY <2>2, <3>1
      <4>2. \A e \in Inputs \ {d} : taken'[e] = taken[e]
        BY <1>6 DEF InputInv, InputTypes
      <4> QED BY <4>1, <4>2 DEF InputInv, InputTypes
    <3> QED BY <3>2, <1>2, <1>6 DEF InputInv, InputTypes
  <2>10. OneWriter'
    BY <1>6 DEF InputInv, OneWriter
  <2>11. \A c \in Clients : NotBegun(c) => NotBegun(c)'
    BY <1>6, <2>6 DEF NotBegun
  <2>12. \A c \in Clients : HalfWritten(c) => HalfWritten(c)'
    <3> SUFFICES ASSUME NEW c \in Clients, HalfWritten(c) PROVE HalfWritten(c)'
      OBVIOUS
    <3>1. PICK e \in Inputs : /\ outgoing[c] = <<Half(e, c, 2)>>
                              /\ Len(Stream(e)) % 2 = 1
                              /\ Stream(e)[Len(Stream(e))].from = c
                              /\ \A f \in Inputs \ {e} : Even(f)
      BY DEF HalfWritten
    <3>2. Stream(e)'[Len(Stream(e)')].from = c
      BY <3>1, <2>8, <1>8
    <3> QED BY <3>1, <3>2, <2>6, <2>7, <1>6 DEF HalfWritten
  <2>13. WritersAreWhole'
    BY <1>6, <2>6, <2>11, <2>12 DEF InputInv, WritersAreWhole
  <2>14. \A e \in Inputs \ {d} : Whole(Stream(e))'
    BY <1>8 DEF InputInv, Whole
  <2>15. Whole(Stream(d))'
    <3>1. DOMAIN Stream(d)' = 1 .. Len(s) - 2
      BY <2>3, <2>4, <1>2, LenProperties
    <3>2. ASSUME NEW i \in 1 .. Len(s) - 2
          PROVE  /\ Stream(d)'[i].half = IF i % 2 = 1 THEN 1 ELSE 2
                 /\ i % 2 = 0 => Stream(d)'[i].from = Stream(d)'[i - 1].from
      <4>1. Stream(d)'[i] = s[i + 2]
        BY <2>3, <2>4
      <4>2. (i + 2) % 2 = i % 2 /\ i + 2 \in 1 .. Len(s)
        BY <2>4
      <4>3. i % 2 = 0 => i - 1 \in 1 .. Len(s) - 2
        BY <2>4
      <4>4. i % 2 = 0 => Stream(d)'[i - 1] = s[i + 1]
        BY <2>3, <2>4, <4>3
      <4>5. s[i + 2].half = IF (i + 2) % 2 = 1 THEN 1 ELSE 2
        BY <1>5, <4>2
      <4>6. (i + 2) % 2 = 0 => s[i + 2].from = s[i + 1].from
        BY <1>5, <4>2
      <4> QED BY <4>1, <4>2, <4>4, <4>5, <4>6
    <3> QED BY <3>1, <3>2 DEF Whole
  <2> QED BY <2>9, <2>10, <2>13, <2>14, <2>15 DEF InputInv
<1> QED BY <1>4, <1>9, <1>10

\* The next half keeps a stream whole: a first one after a whole payload, a second one
\* after a first one of the same client.
LEMMA Appending ==
  ASSUME NEW s \in Seq(InputPiece), Whole(s), NEW p \in InputPiece,
         \/ Len(s) % 2 = 0 /\ p.half = 1
         \/ Len(s) % 2 = 1 /\ p.half = 2 /\ s[Len(s)].from = p.from
  PROVE  Whole(Append(s, p))
<1> DEFINE a == Append(s, p)
           n == Len(s)
<1>1. /\ n \in Nat /\ a \in Seq(InputPiece) /\ Len(a) = n + 1
      /\ a[n + 1] = p /\ \A i \in 1 .. n : a[i] = s[i]
  BY AppendProperties, LenProperties
<1>2. DOMAIN a = 1 .. n + 1 /\ DOMAIN s = 1 .. n
  BY <1>1, LenProperties
<1>3. ASSUME NEW i \in 1 .. n
      PROVE  /\ a[i].half = IF i % 2 = 1 THEN 1 ELSE 2
             /\ i % 2 = 0 => a[i].from = a[i - 1].from
  <2>1. i % 2 = 0 => i - 1 \in 1 .. n
    BY <1>1
  <2> QED BY <1>1, <1>2, <2>1 DEF Whole
<1>4. CASE n % 2 = 0 /\ p.half = 1
  <2>1. (n + 1) % 2 = 1
    BY <1>1, <1>4
  <2> QED BY <1>1, <1>2, <1>3, <1>4, <2>1 DEF Whole
<1>5. CASE n % 2 = 1 /\ p.half = 2 /\ s[n].from = p.from
  <2>1. (n + 1) % 2 = 0 /\ n \in 1 .. n /\ (n + 1) - 1 = n
    BY <1>1, <1>5
  <2>2. a[n] = s[n]
    BY <1>1, <2>1
  <2> QED BY <1>1, <1>2, <1>3, <1>5, <2>1, <2>2 DEF Whole
<1> QED BY <1>4, <1>5

\* A thread writes the next half of its payload.
LEMMA Writing ==
  ASSUME InputInv, NEW c \in Clients, Writes(c)
  PROVE  InputInv'
<1>1. /\ thread[c] = "writing" /\ taken' = taken
      /\ inbox' = [inbox EXCEPT ![Head(outgoing[c]).to] = Append(@, Head(outgoing[c]))]
      /\ outgoing' = [outgoing EXCEPT ![c] = Tail(@)]
      /\ thread' = [thread EXCEPT ![c] = IF outgoing'[c] = <<>> THEN "serving" ELSE "writing"]
  BY DEF Writes
<1>2. \A e \in Clients \ {c} : thread[e] # "writing" /\ thread'[e] # "writing"
  BY <1>1 DEF InputInv, OneWriter, InputTypes
<1>3. PICK d \in Inputs :
        \/ /\ \A e \in Inputs : Even(e)
           /\ outgoing[c] = <<Half(d, c, 1), Half(d, c, 2)>>
        \/ /\ outgoing[c] = <<Half(d, c, 2)>>
           /\ Len(Stream(d)) % 2 = 1
           /\ Stream(d)[Len(Stream(d))].from = c
           /\ \A e \in Inputs \ {d} : Even(e)
  BY <1>1 DEF InputInv, WritersAreWhole, NotBegun, HalfWritten
<1> DEFINE p == Head(outgoing[c])
<1>4. p \in InputPiece /\ p.to = d /\ p.from = c
  BY <1>3 DEF Half, InputPiece
<1>5. \A e \in Inputs : /\ taken[e] \in Seq(InputPiece) /\ inbox[e] \in Seq(InputPiece)
                        /\ Stream(e) \in Seq(InputPiece)
                        /\ Len(Stream(e)) \in Nat
  BY ConcatProperties, LenProperties DEF InputInv, InputTypes, Stream
<1>6. inbox'[d] = Append(inbox[d], p) /\ \A e \in Inputs \ {d} : inbox'[e] = inbox[e]
  BY <1>1, <1>4 DEF InputInv, InputTypes
<1>7. Stream(d)' = Append(Stream(d), p)
  <2>1. <<p>> \in Seq(InputPiece)
    BY <1>4
  <2>2. Stream(d)' = taken[d] \o (inbox[d] \o <<p>>)
    BY <1>1, <1>4, <1>5, <1>6, AppendIsConcat DEF Stream
  <2>3. Append(Stream(d), p) = (taken[d] \o inbox[d]) \o <<p>>
    BY <1>4, <1>5, AppendIsConcat DEF Stream
  <2>4. taken[d] \o (inbox[d] \o <<p>>) = (taken[d] \o inbox[d]) \o <<p>>
    <3>1. \A x, y, z \in Seq(InputPiece) : x \o (y \o z) = (x \o y) \o z
      BY ConcatAssociative
    <3>2. taken[d] \in Seq(InputPiece) /\ inbox[d] \in Seq(InputPiece)
      BY <1>5
    <3> QED BY <2>1, <3>1, <3>2, Zenon
  <2> QED BY <2>2, <2>3, <2>4
<1>8. \A e \in Inputs \ {d} : Stream(e)' = Stream(e)
  BY <1>1, <1>6 DEF Stream
<1>9. Len(Stream(d)') = Len(Stream(d)) + 1 /\ Stream(d)'[Len(Stream(d)) + 1] = p
  BY <1>4, <1>5, <1>7, AppendProperties
<1>10. inbox' \in [Inputs -> Seq(InputPiece)]
  BY <1>1, <1>4, <1>5, AppendProperties DEF InputInv, InputTypes
<1>11. OneWriter'
  BY <1>2 DEF OneWriter
<1>12. CASE (\A e \in Inputs : Even(e)) /\ outgoing[c] = <<Half(d, c, 1), Half(d, c, 2)>>
  <2>1. p = Half(d, c, 1) /\ Tail(outgoing[c]) = <<Half(d, c, 2)>>
    BY <1>12
  <2>2. outgoing'[c] = <<Half(d, c, 2)>> /\ outgoing'[c] # <<>>
    <3>1. outgoing'[c] = Tail(outgoing[c])
      BY <1>1 DEF InputInv, InputTypes
    <3> QED BY <2>1, <3>1
  <2>3. thread'[c] = "writing" /\ thread' \in [Clients -> ThreadState]
    BY <1>1, <2>2 DEF InputInv, InputTypes, ThreadState
  <2>4. <<Half(d, c, 2)>> \in Seq(InputPiece)
    BY DEF Half, InputPiece
  <2>5. InputTypes'
    BY <1>1, <1>10, <2>1, <2>3, <2>4 DEF InputInv, InputTypes
  <2>6. Len(Stream(d)) % 2 = 0 /\ p.half = 1
    BY <1>12, <2>1 DEF Even, Half
  <2>7. Len(Stream(d)') % 2 = 1
    BY <1>5, <1>9, <2>6
  <2>8. Stream(d)'[Len(Stream(d)')].from = c
    BY <1>4, <1>9
  <2>9. HalfWritten(c)'
    BY <1>8, <1>12, <2>2, <2>7, <2>8 DEF HalfWritten, Even
  <2>10. WritersAreWhole'
    BY <1>2, <2>3, <2>9 DEF WritersAreWhole
  <2>11. Whole(Stream(d))'
    BY <1>4, <1>5, <1>7, <2>6, Appending DEF InputInv
  <2>12. \A e \in Inputs : Whole(Stream(e))'
    BY <1>8, <2>11 DEF InputInv, Whole
  <2> QED BY <2>5, <1>11, <2>10, <2>12 DEF InputInv
<1>13. CASE /\ outgoing[c] = <<Half(d, c, 2)>>
            /\ Len(Stream(d)) % 2 = 1
            /\ Stream(d)[Len(Stream(d))].from = c
            /\ \A e \in Inputs \ {d} : Even(e)
  <2>1. p = Half(d, c, 2) /\ Tail(outgoing[c]) = <<>>
    BY <1>13
  <2>2. outgoing'[c] = <<>>
    BY <1>1, <2>1 DEF InputInv, InputTypes
  <2>3. thread'[c] = "serving" /\ thread' \in [Clients -> ThreadState]
    BY <1>1, <2>2 DEF InputInv, InputTypes, ThreadState
  <2>4. <<>> \in Seq(InputPiece)
    BY EmptySeq
  <2>5. InputTypes'
    BY <1>1, <1>10, <2>1, <2>3, <2>4 DEF InputInv, InputTypes
  <2>6. p.half = 2
    BY <2>1 DEF Half
  <2>7. Len(Stream(d)') % 2 = 0
    <3>1. \A n \in Nat : n % 2 = 1 => (n + 1) % 2 = 0
      OBVIOUS
    <3> QED BY <3>1, <1>5, <1>9, <1>13
  <2>8. \A e \in Inputs : Even(e)'
    BY <1>8, <1>13, <2>7 DEF Even
  <2>9. WritersAreWhole'
    BY <1>2, <2>3, <2>8 DEF WritersAreWhole
  <2>10. Whole(Stream(d))'
    BY <1>4, <1>5, <1>7, <1>13, <2>6, Appending DEF InputInv
  <2>11. \A e \in Inputs : Whole(Stream(e))'
    BY <1>8, <2>10 DEF InputInv, Whole
  <2> QED BY <2>5, <1>11, <2>9, <2>11 DEF InputInv
<1> QED BY <1>3, <1>12, <1>13

\* A payload is taken up when no other is being written.
LEMMA Handling ==
  ASSUME InputInv, NEW c \in Clients, Handles(c)
  PROVE  InputInv'
<1> DEFINE w == Written(c, NextFrame(c))
<1>1. /\ InputFree /\ taken' = taken /\ inbox' = inbox
      /\ outgoing' = [outgoing EXCEPT ![c] = w]
      /\ thread' = [thread EXCEPT ![c] = IF Throws(NextFrame(c)) THEN "dead"
                                        ELSE IF outgoing'[c] = <<>> THEN "serving"
                                        ELSE "writing"]
  BY DEF Handles, inputVars
<1>2. w = <<>> \/ \E d \in Inputs : w = <<Half(d, c, 1), Half(d, c, 2)>>
  BY DEF Written, Half, Inputs
<1>3. w \in Seq(InputPiece)
  <2>1. ASSUME NEW d \in Inputs PROVE <<Half(d, c, 1), Half(d, c, 2)>> \in Seq(InputPiece)
    BY DEF Half, InputPiece
  <2> QED BY <1>2, <2>1, EmptySeq
<1>4. outgoing'[c] = w /\ outgoing' \in [Clients -> Seq(InputPiece)]
  BY <1>1, <1>3 DEF InputInv, InputTypes
<1>5. thread' \in [Clients -> ThreadState]
  BY <1>1 DEF InputInv, InputTypes, ThreadState
<1>6. \A e \in Clients \ {c} : thread'[e] # "writing"
  BY <1>1 DEF InputFree, InputInv, InputTypes
<1>7. \A d \in Inputs : Even(d) /\ Stream(d)' = Stream(d)
  BY <1>1 DEF InputFree, InputInv, WritersAreWhole, Stream
<1>8. thread'[c] = "writing" => w # <<>>
  BY <1>1, <1>4 DEF InputInv, InputTypes
<1>9. thread'[c] = "writing" => NotBegun(c)'
  BY <1>2, <1>4, <1>7, <1>8 DEF NotBegun, Even
<1>10. InputTypes'
  BY <1>1, <1>4, <1>5 DEF InputInv, InputTypes
<1>11. OneWriter'
  BY <1>6 DEF OneWriter
<1>12. WritersAreWhole'
  BY <1>6, <1>7, <1>9 DEF WritersAreWhole, Even
<1>13. \A d \in Inputs : Whole(Stream(d))'
  BY <1>7 DEF InputInv, Whole
<1> QED BY <1>10, <1>11, <1>12, <1>13 DEF InputInv

------------------------------------------------------------------------------
\* Nothing has been sent yet.
LEMMA InitIInv == Init => IInv
<1> SUFFICES ASSUME Init PROVE IInv
  OBVIOUS
<1>1. \A S : <<>> \in Seq(S) /\ Len(<<>>) = 0
  BY EmptySeq
<1>2. \A d \in Inputs : Stream(d) = <<>>
  BY <1>1, ConcatEmptySeq DEF Init, Stream
<1>3. DOMAIN <<>> = {} /\ 0 % 2 = 0
  OBVIOUS
<1>4. InputTypes
  BY <1>1 DEF Init, InputTypes, ThreadState
<1>5. OneWriter
  BY DEF Init, OneWriter
<1>6. WritersAreWhole
  BY <1>1, <1>2, <1>3 DEF Init, WritersAreWhole, Even
<1>7. \A d \in Inputs : Whole(Stream(d))
  BY <1>2, <1>3 DEF Whole
<1>8. Capacity \in [Channels \cup Inputs -> Nat \ {0}]
  BY BridgeAssumption
<1>9. PipeTypes
  BY <1>1, <1>8 DEF Init, PipeTypes
<1> QED BY <1>4, <1>5, <1>6, <1>7, <1>9 DEF IInv, InputInv

\* What the parent reads stays whole, whichever step is taken.
LEMMA NextInputInv == InputInv /\ [Next]_vars => InputInv'
<1> SUFFICES ASSUME InputInv, [Next]_vars PROVE InputInv'
  OBVIOUS
<1>1. thread \in [Clients -> ThreadState]
  BY DEF InputInv, InputTypes
<1>2. ASSUME UNCHANGED <<thread, outgoing, inputVars>> PROVE InputInv'
  BY <1>1, <1>2, Elsewhere
<1>3. ASSUME NEW c \in Clients, NEW state \in ThreadState \ {"writing"},
             thread[c] # "writing", thread' = [thread EXCEPT ![c] = state],
             UNCHANGED <<outgoing, inputVars>>
      PROVE  InputInv'
  <2>1. thread' \in [Clients -> ThreadState]
    BY <1>1, <1>3
  <2>2. \A e \in Clients : (thread'[e] = "writing") = (thread[e] = "writing")
    BY <1>1, <1>3
  <2> QED BY <1>3, <2>1, <2>2, Elsewhere
<1>4. ASSUME NEW k \in Channels, ParentBegins(k) PROVE InputInv'
  BY <1>2, <1>4 DEF ParentBegins, threadVars
<1>5. CASE ParentWrites
  BY <1>2, <1>5 DEF ParentWrites, threadVars
<1>6. ASSUME NEW d \in Inputs, ParentReads(d) PROVE InputInv'
  BY <1>6, Reading
<1>7. CASE ReaderPolls
  BY <1>2, <1>7 DEF ReaderPolls, threadVars
<1>8. ASSUME NEW k \in Channels, ReaderReads(k) PROVE InputInv'
  BY <1>2, <1>8 DEF ReaderReads, threadVars
<1>9. CASE ReaderBroadcasts
  BY <1>2, <1>9 DEF ReaderBroadcasts, threadVars
<1>10. CASE ReaderSends
  BY <1>2, <1>10 DEF ReaderSends, threadVars
<1>11. ASSUME NEW c \in Clients, Added(c) PROVE InputInv'
  <2>1. PICK state \in {"serving", "greeting"} : thread' = [thread EXCEPT ![c] = state]
    BY <1>11 DEF Added
  <2> QED BY <1>3, <1>11, <2>1 DEF Added, ThreadState
<1>12. ASSUME NEW c \in Clients, Greeted(c) PROVE InputInv'
  <2>1. PICK state \in {"serving", "greeting"} : thread' = [thread EXCEPT ![c] = state]
    BY <1>12 DEF Greeted
  <2> QED BY <1>3, <1>12, <2>1 DEF Greeted, ThreadState
<1>13. ASSUME NEW c \in Clients, Handles(c) PROVE InputInv'
  BY <1>13, Handling
<1>14. ASSUME NEW c \in Clients, Writes(c) PROVE InputInv'
  BY <1>14, Writing
<1>15. ASSUME NEW c \in Clients, Leaves(c) PROVE InputInv'
  BY <1>3, <1>15 DEF Leaves, ThreadState
<1>16. ASSUME NEW c \in Clients, Connects(c) PROVE InputInv'
  BY <1>3, <1>16 DEF Connects, ThreadState
<1>17. ASSUME NEW c \in Clients, Receives(c) PROVE InputInv'
  BY <1>2, <1>17 DEF Receives, threadVars
<1>18. ASSUME NEW c \in Clients, NEW payload \in Payloads, Sends(c, payload) PROVE InputInv'
  BY <1>2, <1>18 DEF Sends, threadVars
<1>19. ASSUME NEW c \in Clients, Closes(c) PROVE InputInv'
  BY <1>2, <1>19 DEF Closes, threadVars
<1>20. CASE UNCHANGED vars
  BY <1>2, <1>20 DEF vars, threadVars
<1> QED BY <1>4, <1>5, <1>6, <1>7, <1>8, <1>9, <1>10, <1>11, <1>12, <1>13, <1>14, <1>15,
          <1>16, <1>17, <1>18, <1>19, <1>20
        DEF Next, ParentStep, ReaderStep, ThreadStep

\* The pipes hold pieces and never more than they can.
LEMMA NextPipeTypes == PipeTypes /\ [Next]_vars => PipeTypes'
<1> SUFFICES ASSUME PipeTypes, [Next]_vars PROVE PipeTypes'
  OBVIOUS
<1> DEFINE P == [channel : Channels, number : Nat, last : BOOLEAN]
<1> USE DEF PipeTypes
<1>1. Capacity \in [Channels \cup Inputs -> Nat \ {0}]
  BY BridgeAssumption
<1>2. ASSUME NEW k \in Channels, ParentBegins(k) PROVE PipeTypes'
  <2>1. produced' \in [Channels -> Nat] /\ produced'[k] \in Nat
    BY <1>2 DEF ParentBegins
  <2>2. Pieces(k, produced'[k]) \in Seq(P)
    <3>1. \A b \in BOOLEAN : [channel |-> k, number |-> produced'[k], last |-> b] \in P
      BY <2>1
    <3>2. \A x, y \in P : <<x>> \in Seq(P) /\ <<x, y>> \in Seq(P)
      OBVIOUS
    <3> HIDE DEF P
    <3> QED BY <3>1, <3>2 DEF Pieces
  <2> QED BY <1>2, <2>1, <2>2 DEF ParentBegins, readerVars, browserVars
<1>3. CASE ParentWrites
  <2> DEFINE piece == Head(writing)
  <2>1. piece \in P /\ Tail(writing) \in Seq(P) /\ piece.channel \in Channels
    <3>1. writing \in Seq(P) /\ writing # <<>>
      BY <1>3 DEF ParentWrites
    <3>2. piece \in P /\ Tail(writing) \in Seq(P)
      BY <3>1, HeadTailProperties
    <3> QED BY <3>2
  <2>2. /\ channel' = [channel EXCEPT ![piece.channel] = Append(@, piece)]
        /\ Len(channel[piece.channel]) < Capacity[piece.channel]
    BY <1>3 DEF ParentWrites
  <2>3. /\ Append(channel[piece.channel], piece) \in Seq(P)
        /\ Len(Append(channel[piece.channel], piece)) = Len(channel[piece.channel]) + 1
    <3>1. channel[piece.channel] \in Seq(P) /\ piece \in P
      BY <2>1
    <3> HIDE DEF P, piece
    <3> QED BY <3>1, AppendProperties
  <2>4. Len(channel[piece.channel]) \in Nat
    BY <2>1, LenProperties
  <2>5. /\ channel'[piece.channel] = Append(channel[piece.channel], piece)
        /\ \A k \in Channels \ {piece.channel} : channel'[k] = channel[k]
    BY <2>1, <2>2
  <2>6. Len(channel'[piece.channel]) <= Capacity[piece.channel]
    BY <1>1, <2>1, <2>2, <2>3, <2>4, <2>5
  <2>7. channel' \in [Channels -> Seq(P)]
    BY <2>1, <2>2, <2>3
  <2>8. \A k \in Channels : Len(channel'[k]) <= Capacity[k]
    BY <2>5, <2>6
  <2> QED BY <1>3, <2>1, <2>7, <2>8 DEF ParentWrites, readerVars, browserVars
<1>4. ASSUME NEW d \in Inputs, ParentReads(d) PROVE PipeTypes'
  BY <1>4 DEF ParentReads, parentVars, readerVars, browserVars
<1>5. CASE ReaderPolls
  BY <1>5 DEF ReaderPolls, parentVars, browserVars
<1>6. ASSUME NEW k \in Channels, ReaderReads(k) PROVE PipeTypes'
  <2>1. PICK n \in 1 .. Len(channel[k]) :
          channel' = [channel EXCEPT ![k] = SubSeq(@, n + 1, Len(@))]
    BY <1>6 DEF ReaderReads
  <2> DEFINE l == Len(channel[k])
             rest == SubSeq(channel[k], n + 1, l)
  <2>2. l \in Nat /\ \A i \in 1 .. l : channel[k][i] \in P
    BY LenProperties, ElementOfSeq
  <2>3. \A i \in (n + 1) .. l : channel[k][i] \in P
    BY <2>1, <2>2
  <2>4. rest \in Seq(P) /\ Len(rest) = IF n + 1 <= l THEN l - (n + 1) + 1 ELSE 0
    BY <2>1, <2>2, <2>3, SubSeqProperties
  <2>5. Len(rest) <= Capacity[k]
    BY <1>1, <2>1, <2>2, <2>4
  <2>6. channel'[k] = rest /\ \A e \in Channels \ {k} : channel'[e] = channel[e]
    BY <2>1
  <2>7. channel' \in [Channels -> Seq(P)] /\ \A e \in Channels : Len(channel'[e]) <= Capacity[e]
    BY <2>1, <2>4, <2>5, <2>6
  <2> QED BY <1>6, <2>7 DEF ReaderReads, parentVars, browserVars
<1>7. CASE ReaderBroadcasts
  BY <1>7 DEF ReaderBroadcasts, parentVars, browserVars
<1>8. CASE ReaderSends
  BY <1>8 DEF ReaderSends, parentVars, browserVars
<1>9. ASSUME NEW c \in Clients, Added(c) \/ Greeted(c) \/ Writes(c) PROVE PipeTypes'
  BY <1>9 DEF Added, Greeted, Writes, parentVars, readerVars, browserVars
<1>10. ASSUME NEW c \in Clients, Handles(c) PROVE PipeTypes'
  <2>1. Tail(uplink[c]) \in Seq(Payloads)
    BY <1>10, HeadTailProperties DEF Handles
  <2> QED BY <1>10, <2>1 DEF Handles, parentVars, readerVars
<1>11. ASSUME NEW c \in Clients, Leaves(c) PROVE PipeTypes'
  BY <1>11, EmptySeq DEF Leaves, parentVars, readerVars
<1>12. ASSUME NEW c \in Clients, Connects(c) \/ Closes(c) PROVE PipeTypes'
  BY <1>12 DEF Connects, Closes, parentVars, readerVars
<1>13. ASSUME NEW c \in Clients, Receives(c) PROVE PipeTypes'
  BY <1>13 DEF Receives, parentVars, readerVars
<1>14. ASSUME NEW c \in Clients, NEW payload \in Payloads, Sends(c, payload) PROVE PipeTypes'
  BY <1>14, AppendProperties DEF Sends, parentVars, readerVars
<1>15. CASE UNCHANGED vars
  BY <1>15 DEF vars, parentVars, readerVars, browserVars
<1> QED BY <1>2, <1>3, <1>4, <1>5, <1>6, <1>7, <1>8, <1>9, <1>10, <1>11, <1>12, <1>13,
          <1>14, <1>15
        DEF Next, ParentStep, ReaderStep, ThreadStep

\* The invariant holds of the bridge.
LEMMA Invariance == Spec => []IInv
<1>1. IInv /\ [Next]_vars => IInv'
  BY NextInputInv, NextPipeTypes DEF IInv
<1> QED BY InitIInv, <1>1, PTL DEF Spec

(***************************************************************************)
(* Payloads of any number of clients reach the parent one after the other  *)
(* and whole, however long a write blocks half-way through one (the        *)
(* parent_input_mutex of serve_client, pty_websocket_hub.cc:69), and no    *)
(* pipe ever holds more than its capacity.                                 *)
(***************************************************************************)
THEOREM PayloadsStayWhole == Spec => []BridgeIsSound
<1>1. IInv => BridgeIsSound
  BY DEF IInv, InputInv, InputTypes, PipeTypes, BridgeIsSound, TypesAreRight, ThreadState,
         InputIsWhole, Whole, Stream
<1> QED BY Invariance, <1>1, PTL

------------------------------------------------------------------------------
(***************************************************************************)
(* From the parent to the browsers.  A channel is a run of numbered messages:*)
(* a sequence of WebSocket messages carries the part of it from one number *)
(* to another when each of them leads a step further, and the proof shows  *)
(* that what is shown, sent, greeted with, pending and flowing carry parts *)
(* that follow each other.                                                 *)
(***************************************************************************)

Packet == [channel : Channels, numbers : Seq(Nat)]
PipePiece == [channel : Channels, number : Nat, last : BOOLEAN]

\* The messages a + 1 to b, in order.
Run(a, b) == [j \in 1 .. b - a |-> a + j]

\* Packet p leads channel k from message lo to message hi.
Steps(k, p, lo, hi) ==
  IF p.channel = k THEN lo < hi /\ p.numbers = Run(lo, hi) ELSE lo = hi

\* The packets m carry the messages lo + 1 to hi of channel k, in order and each of
\* them once: e says how far each packet leads.
Marks(k, m, e) ==
  /\ e \in [0 .. Len(m) -> Nat]
  /\ \A i, j \in 0 .. Len(m) : i <= j => e[i] <= e[j]
  /\ \A i \in 1 .. Len(m) : Steps(k, m[i], e[i - 1], e[i])
Carries(k, m, lo, hi) == \E e : Marks(k, m, e) /\ e[0] = lo /\ e[Len(m)] = hi

(* Runs of messages *)

\* The numbers are well-founded under <, which stands in for an induction.
LEMMA LeastElement ==
  ASSUME NEW S, S \subseteq Nat, S # {}
  PROVE  \E m \in S : \A k \in S : m <= k
<1> DEFINE R == OpToRel(<, Nat)
<1>1. IsWellFoundedOn(R, Nat)
  BY NatLessThanWellFounded
<1>2. R = {ss \in Nat \X Nat : ss[1] < ss[2]}
  BY DEF OpToRel
<1> HIDE DEF R
<1>3. PICK m \in S : \A k \in S : <<k, m>> \notin R
  BY <1>1, WFMin
<1>4. \A k \in S : k \in Nat /\ m \in Nat /\ ~ (k < m)
  BY <1>2, <1>3
<1> QED BY <1>3, <1>4

\* What a run of messages is.
LEMMA RunIs ==
  ASSUME NEW a \in Nat, NEW b \in Nat, a <= b
  PROVE  /\ Run(a, b) \in Seq(Nat) /\ Len(Run(a, b)) = b - a
         /\ \A j \in 1 .. b - a : Run(a, b)[j] = a + j
<1>1. b - a \in Nat /\ \A j \in 1 .. b - a : a + j \in Nat
  OBVIOUS
<1>2. Run(a, b) \in [1 .. b - a -> Nat] /\ \A j \in 1 .. b - a : Run(a, b)[j] = a + j
  BY <1>1 DEF Run
<1>3. Run(a, b) \in Seq(Nat)
  BY <1>1, <1>2, SeqDef
<1> QED BY <1>1, <1>2, <1>3, LenProperties

\* From a number to itself there is no message.
LEMMA RunNone == ASSUME NEW a \in Nat PROVE Run(a, a) = <<>>
<1>1. Run(a, a) \in Seq(Nat) /\ Len(Run(a, a)) = 0
  BY RunIs
<1> QED BY <1>1, EmptySeq

\* Only such a run is empty.
LEMMA RunSome ==
  ASSUME NEW a \in Nat, NEW b \in Nat, a < b
  PROVE  Run(a, b) # <<>> /\ Len(Run(a, b)) \in Nat \ {0} /\ Last(Run(a, b)) = b
<1>1. a <= b /\ b - a \in Nat \ {0} /\ b - a \in 1 .. b - a /\ a + (b - a) = b
  OBVIOUS
<1>2. Len(Run(a, b)) = b - a /\ Run(a, b)[b - a] = a + (b - a)
  BY <1>1, RunIs
<1>3. Len(<<>>) = 0
  OBVIOUS
<1> QED BY <1>1, <1>2, <1>3 DEF Last

\* Two runs that follow each other are one.
LEMMA RunConcat ==
  ASSUME NEW a \in Nat, NEW b \in Nat, NEW c \in Nat, a <= b, b <= c
  PROVE  Run(a, b) \o Run(b, c) = Run(a, c)
<1> DEFINE x == Run(a, b)
           y == Run(b, c)
           z == Run(a, c)
<1>1. x \in Seq(Nat) /\ Len(x) = b - a /\ \A j \in 1 .. b - a : x[j] = a + j
  BY RunIs
<1>2. y \in Seq(Nat) /\ Len(y) = c - b /\ \A j \in 1 .. c - b : y[j] = b + j
  BY RunIs
<1>3. z \in Seq(Nat) /\ Len(z) = c - a /\ \A j \in 1 .. c - a : z[j] = a + j
  <2>1. a <= c
    OBVIOUS
  <2> QED BY <2>1, RunIs
<1> HIDE DEF x, y, z
<1>4. /\ x \o y \in Seq(Nat) /\ Len(x \o y) = c - a
      /\ \A i \in 1 .. c - a : (x \o y)[i] = IF i <= b - a THEN x[i] ELSE y[i - (b - a)]
  <2>1. /\ x \o y \in Seq(Nat) /\ Len(x \o y) = Len(x) + Len(y)
        /\ \A i \in 1 .. Len(x) + Len(y) :
             (x \o y)[i] = IF i <= Len(x) THEN x[i] ELSE y[i - Len(x)]
    BY <1>1, <1>2, ConcatProperties
  <2>2. Len(x) + Len(y) = c - a
    BY <1>1, <1>2
  <2> QED BY <1>1, <2>1, <2>2
<1>5. \A i \in 1 .. c - a : (x \o y)[i] = z[i]
  <2> TAKE i \in 1 .. c - a
  <2>1. CASE i <= b - a
    BY <1>1, <1>3, <1>4, <2>1
  <2>2. CASE ~(i <= b - a)
    <3>1. i - (b - a) \in 1 .. c - b /\ b + (i - (b - a)) = a + i
      BY <2>2
    <3> QED BY <1>2, <1>3, <1>4, <2>2, <3>1
  <2> QED BY <2>1, <2>2
<1>6. x \o y = z
  BY <1>3, <1>4, <1>5, SeqEqual
<1> QED BY <1>6 DEF x, y, z

\* One message is a run.
LEMMA RunOne == ASSUME NEW n \in Nat PROVE <<n + 1>> = Run(n, n + 1)
<1>1. Run(n, n + 1) \in Seq(Nat) /\ Len(Run(n, n + 1)) = 1 /\ Run(n, n + 1)[1] = n + 1
  <2>1. n + 1 \in Nat /\ n <= n + 1 /\ (n + 1) - n = 1 /\ 1 \in 1 .. (n + 1) - n
    OBVIOUS
  <2> QED BY <2>1, RunIs
<1>2. <<n + 1>> \in Seq(Nat) /\ Len(<<n + 1>>) = 1 /\ <<n + 1>>[1] = n + 1
  OBVIOUS
<1> HIDE DEF Run
<1>3. \A i \in 1 .. 1 : <<n + 1>>[i] = Run(n, n + 1)[i]
  BY <1>1, <1>2
<1> QED BY <1>1, <1>2, <1>3, SeqEqual

\* A backlog, keep_latest of it, still ends with the newest message.
LEMMA LatestOfRun ==
  ASSUME NEW a \in Nat, NEW b \in Nat, a < b, NEW limit \in Nat \ {0}
  PROVE  \E x \in Nat : x < b /\ Latest(Run(a, b), limit) = Run(x, b)
<1> DEFINE r == Run(a, b)
           m == IF Len(r) > limit THEN Len(r) - limit + 1 ELSE 1
           x == a + m - 1
<1>1. r \in Seq(Nat) /\ Len(r) = b - a /\ \A j \in 1 .. b - a : r[j] = a + j
  BY RunIs
<1>2. m \in 1 .. b - a /\ x \in Nat /\ x < b /\ x <= b /\ b - x = b - a - m + 1
  BY <1>1
<1> HIDE DEF r
<1>3. \A i \in m .. b - a : r[i] \in Nat
  BY <1>1, <1>2
<1> HIDE DEF m
<1>4. /\ SubSeq(r, m, b - a) \in Seq(Nat)
      /\ Len(SubSeq(r, m, b - a)) = b - a - m + 1
      /\ \A i \in 1 .. b - a - m + 1 : SubSeq(r, m, b - a)[i] = r[m + i - 1]
  BY <1>2, <1>3, SubSeqProperties
<1>5. /\ Run(x, b) \in Seq(Nat) /\ Len(Run(x, b)) = b - x
      /\ \A j \in 1 .. b - x : Run(x, b)[j] = x + j
  <2> HIDE DEF x
  <2> QED BY <1>2, RunIs
<1>6. \A i \in 1 .. b - x : SubSeq(r, m, b - a)[i] = Run(x, b)[i]
  BY <1>1, <1>2, <1>4, <1>5
<1>7. SubSeq(r, m, b - a) = Run(x, b)
  BY <1>2, <1>4, <1>5, <1>6, SeqEqual
<1>8. Latest(r, limit) = SubSeq(r, m, Len(r))
  BY DEF Latest, m
<1> QED BY <1>1, <1>2, <1>7, <1>8 DEF r

------------------------------------------------------------------------------
(* Packets *)

\* What packets carry goes forward.
LEMMA CarriesBounds ==
  ASSUME NEW k, NEW m \in Seq(Packet), NEW lo, NEW hi, Carries(k, m, lo, hi)
  PROVE  lo \in Nat /\ hi \in Nat /\ lo <= hi
<1>1. Len(m) \in Nat
  BY LenProperties
<1> QED BY <1>1 DEF Carries, Marks

\* No packet leads nowhere.
LEMMA CarriesNone ==
  ASSUME NEW k, NEW lo \in Nat PROVE Carries(k, <<>>, lo, lo)
<1> DEFINE e == [i \in 0 .. 0 |-> lo]
<1>1. Len(<<>>) = 0
  OBVIOUS
<1>2. Marks(k, <<>>, e) /\ e[0] = lo
  BY <1>1 DEF Marks
<1> QED BY <1>1, <1>2 DEF Carries

\* And what leads somewhere is some packet.
LEMMA CarriesNoneOnly ==
  ASSUME NEW k, NEW lo, NEW hi, Carries(k, <<>>, lo, hi) PROVE lo = hi
  BY DEF Carries

\* One more packet leads one step further.
LEMMA CarriesAppend ==
  ASSUME NEW k, NEW m \in Seq(Packet), NEW p \in Packet, NEW lo, NEW mid, NEW hi \in Nat,
         Carries(k, m, lo, mid), Steps(k, p, mid, hi)
  PROVE  Carries(k, Append(m, p), lo, hi)
<1> DEFINE n == Len(m)
           a == Append(m, p)
<1>1. PICK e : Marks(k, m, e) /\ e[0] = lo /\ e[n] = mid
  BY DEF Carries
<1>2. /\ n \in Nat /\ Len(a) = n + 1 /\ a[n + 1] = p
      /\ \A i \in 1 .. n : a[i] = m[i]
  BY AppendProperties, LenProperties
<1>3. /\ e \in [0 .. n -> Nat] /\ \A i, j \in 0 .. n : i <= j => e[i] <= e[j]
      /\ \A i \in 1 .. n : Steps(k, m[i], e[i - 1], e[i])
  BY <1>1 DEF Marks
<1> HIDE DEF n, a
<1>4. mid \in Nat /\ mid <= hi
  BY <1>1, <1>2, <1>3 DEF Steps
<1> DEFINE f == [i \in 0 .. n + 1 |-> IF i = n + 1 THEN hi ELSE e[i]]
<1>5. /\ f \in [0 .. n + 1 -> Nat] /\ f[n + 1] = hi /\ \A i \in 0 .. n : f[i] = e[i]
  BY <1>2, <1>3
<1> HIDE DEF f
<1>6. \A i \in 0 .. n : e[i] <= hi
  <2> TAKE i \in 0 .. n
  <2>1. e[i] <= e[n] /\ e[i] \in Nat
    BY <1>2, <1>3
  <2> QED BY <1>1, <1>4, <2>1
<1>7. \A i, j \in 0 .. n + 1 : i <= j => f[i] <= f[j]
  <2> SUFFICES ASSUME NEW i \in 0 .. n + 1, NEW j \in 0 .. n + 1, i <= j PROVE f[i] <= f[j]
    OBVIOUS
  <2>1. CASE j = n + 1
    BY <1>2, <1>5, <1>6, <2>1
  <2>2. CASE j # n + 1
    BY <1>2, <1>3, <1>5, <2>2
  <2> QED BY <2>1, <2>2
<1>8. \A i \in 1 .. n + 1 : Steps(k, a[i], f[i - 1], f[i])
  <2> TAKE i \in 1 .. n + 1
  <2>1. CASE i = n + 1
    BY <1>1, <1>2, <1>5, <2>1
  <2>2. CASE i # n + 1
    <3>1. i \in 1 .. n /\ i - 1 \in 0 .. n /\ i \in 0 .. n
      BY <1>2, <2>2
    <3> QED BY <1>2, <1>3, <1>5, <3>1
  <2> QED BY <2>1, <2>2
<1>9. Marks(k, a, f) /\ f[0] = lo /\ f[Len(a)] = hi
  BY <1>1, <1>2, <1>5, <1>7, <1>8 DEF Marks
<1> QED BY <1>9 DEF Carries, a

\* The first packet leads the first step.
LEMMA CarriesTail ==
  ASSUME NEW k, NEW m \in Seq(Packet), m # <<>>, NEW lo, NEW hi, Carries(k, m, lo, hi)
  PROVE  \E mid \in Nat : Steps(k, Head(m), lo, mid) /\ Carries(k, Tail(m), mid, hi)
<1> DEFINE n == Len(m)
           t == Tail(m)
<1>1. PICK e : Marks(k, m, e) /\ e[0] = lo /\ e[n] = hi
  BY DEF Carries
<1>2. /\ n \in Nat \ {0} /\ Len(t) = n - 1 /\ Head(m) = m[1]
      /\ \A i \in 1 .. n - 1 : t[i] = m[i + 1]
  BY HeadTailProperties, EmptySeq
<1>3. /\ e \in [0 .. n -> Nat] /\ \A i, j \in 0 .. n : i <= j => e[i] <= e[j]
      /\ \A i \in 1 .. n : Steps(k, m[i], e[i - 1], e[i])
  BY <1>1 DEF Marks
<1> HIDE DEF n, t
<1> DEFINE f == [i \in 0 .. n - 1 |-> e[i + 1]]
<1>4. /\ f \in [0 .. n - 1 -> Nat] /\ \A i \in 0 .. n - 1 : f[i] = e[i + 1]
  BY <1>2, <1>3
<1> HIDE DEF f
<1>5. \A i, j \in 0 .. n - 1 : i <= j => f[i] <= f[j]
  BY <1>2, <1>3, <1>4
<1>6. \A i \in 1 .. n - 1 : Steps(k, t[i], f[i - 1], f[i])
  <2> TAKE i \in 1 .. n - 1
  <2>1. Steps(k, m[i + 1], e[(i + 1) - 1], e[i + 1])
    BY <1>2, <1>3
  <2>2. f[i - 1] = e[(i + 1) - 1] /\ f[i] = e[i + 1] /\ t[i] = m[i + 1]
    BY <1>2, <1>4
  <2> QED BY <2>1, <2>2
<1>7. Marks(k, t, f) /\ f[0] = e[1] /\ f[Len(t)] = hi
  BY <1>1, <1>2, <1>4, <1>5, <1>6 DEF Marks
<1>8. Steps(k, Head(m), lo, e[1]) /\ e[1] \in Nat
  <2>1. Steps(k, m[1], e[1 - 1], e[1])
    BY <1>2, <1>3
  <2> QED BY <1>1, <1>2, <1>3, <2>1
<1>9. Carries(k, t, e[1], hi)
  BY <1>7 DEF Carries
<1> QED BY <1>8, <1>9 DEF t

\* What follows leads on from where what went before has led.
LEMMA CarriesConcat ==
  ASSUME NEW k, NEW a \in Seq(Packet), NEW b \in Seq(Packet), NEW lo, NEW mid, NEW hi,
         Carries(k, a, lo, mid), Carries(k, b, mid, hi)
  PROVE  Carries(k, a \o b, lo, hi)
<1> DEFINE x == Len(a)
           y == Len(b)
           c == a \o b
<1>1. PICK e : Marks(k, a, e) /\ e[0] = lo /\ e[x] = mid
  BY DEF Carries
<1>2. PICK f : Marks(k, b, f) /\ f[0] = mid /\ f[y] = hi
  BY DEF Carries
<1>3. /\ x \in Nat /\ y \in Nat /\ Len(c) = x + y
      /\ \A i \in 1 .. x + y : c[i] = IF i <= x THEN a[i] ELSE b[i - x]
  BY ConcatProperties, LenProperties
<1>4. /\ e \in [0 .. x -> Nat] /\ \A i, j \in 0 .. x : i <= j => e[i] <= e[j]
      /\ \A i \in 1 .. x : Steps(k, a[i], e[i - 1], e[i])
  BY <1>1 DEF Marks
<1>5. /\ f \in [0 .. y -> Nat] /\ \A i, j \in 0 .. y : i <= j => f[i] <= f[j]
      /\ \A i \in 1 .. y : Steps(k, b[i], f[i - 1], f[i])
  BY <1>2 DEF Marks
<1> HIDE DEF x, y, c
<1> DEFINE g == [i \in 0 .. x + y |-> IF i <= x THEN e[i] ELSE f[i - x]]
<1>6. /\ g \in [0 .. x + y -> Nat] /\ \A i \in 0 .. x : g[i] = e[i]
      /\ \A i \in x .. x + y : g[i] = f[i - x]
  <2>1. ASSUME NEW i \in 0 .. x + y PROVE (IF i <= x THEN e[i] ELSE f[i - x]) \in Nat
    <3>1. i <= x => i \in 0 .. x
      BY <1>3
    <3>2. ~(i <= x) => i - x \in 0 .. y
      BY <1>3
    <3> QED BY <1>4, <1>5, <3>1, <3>2
  <2>2. \A i \in 0 .. x : g[i] = e[i]
    BY <1>3
  <2>3. ASSUME NEW i \in x .. x + y PROVE g[i] = f[i - x]
    <3>1. CASE i = x
      <4>1. i - x = 0 /\ i \in 0 .. x
        BY <1>3, <3>1
      <4> QED BY <1>1, <1>2, <2>2, <3>1, <4>1
    <3>2. CASE i # x
      BY <1>3, <3>2
    <3> QED BY <3>1, <3>2
  <2> QED BY <2>1, <2>2, <2>3
<1> HIDE DEF g
<1>7. \A i, j \in 0 .. x + y : i <= j => g[i] <= g[j]
  <2> SUFFICES ASSUME NEW i \in 0 .. x + y, NEW j \in 0 .. x + y, i <= j PROVE g[i] <= g[j]
    OBVIOUS
  <2>1. CASE j <= x
    <3>1. i \in 0 .. x /\ j \in 0 .. x
      BY <1>3, <2>1
    <3> QED BY <1>4, <1>6, <3>1
  <2>2. CASE i >= x
    <3>1. i \in x .. x + y /\ j \in x .. x + y /\ i - x \in 0 .. y /\ j - x \in 0 .. y /\ i - x <= j - x
      BY <1>3, <2>2
    <3> QED BY <1>5, <1>6, <3>1
  <2>3. CASE i < x /\ j > x
    <3>1. /\ i \in 0 .. x /\ x \in 0 .. x /\ x \in x .. x + y /\ j \in x .. x + y
          /\ 0 \in 0 .. y /\ j - x \in 0 .. y /\ 0 <= j - x /\ i <= x
      BY <1>3, <2>3
    <3>2. e[i] <= e[x] /\ f[0] <= f[j - x]
      BY <1>4, <1>5, <3>1
    <3>3. g[i] = e[i] /\ g[j] = f[j - x]
      BY <1>6, <3>1
    <3>4. e[i] \in Nat /\ e[x] \in Nat /\ f[j - x] \in Nat
      BY <1>4, <1>5, <3>1
    <3> QED BY <1>1, <1>2, <3>2, <3>3, <3>4
  <2> QED BY <1>3, <2>1, <2>2, <2>3
<1>8. \A i \in 1 .. x + y : Steps(k, c[i], g[i - 1], g[i])
  <2> TAKE i \in 1 .. x + y
  <2>1. CASE i <= x
    <3>1. i \in 1 .. x /\ i \in 0 .. x /\ i - 1 \in 0 .. x
      BY <1>3, <2>1
    <3> QED BY <1>3, <1>4, <1>6, <2>1, <3>1
  <2>2. CASE ~(i <= x)
    <3>1. /\ i - x \in 1 .. y /\ i \in x .. x + y /\ i - 1 \in x .. x + y
          /\ (i - 1) - x = (i - x) - 1
      BY <1>3, <2>2
    <3>2. g[i - 1] = f[(i - x) - 1] /\ g[i] = f[i - x] /\ c[i] = b[i - x]
      BY <1>3, <1>6, <2>2, <3>1
    <3> QED BY <1>5, <3>1, <3>2
  <2> QED BY <2>1, <2>2
<1>9. Marks(k, c, g) /\ g[0] = lo /\ g[Len(c)] = hi
  <2>1. 0 \in 0 .. x /\ x + y \in x .. x + y /\ (x + y) - x = y
    BY <1>3
  <2> QED BY <1>1, <1>2, <1>3, <1>6, <1>7, <1>8, <2>1 DEF Marks
<1> QED BY <1>9 DEF Carries, c

\* A packet for each message, as broadcast_pane_output and the statuses are sent.
LEMMA CarriesOneByOne ==
  ASSUME NEW k \in Channels, NEW a \in Nat, NEW b \in Nat, a <= b
  PROVE  /\ OneByOne(k, Run(a, b)) \in Seq(Packet)
         /\ Carries(k, OneByOne(k, Run(a, b)), a, b)
         /\ \A j : \A lo \in Nat : j # k => Carries(j, OneByOne(k, Run(a, b)), lo, lo)
<1> DEFINE r == Run(a, b)
           m == OneByOne(k, r)
<1>1. /\ r \in Seq(Nat) /\ Len(r) = b - a /\ \A j \in 1 .. b - a : r[j] = a + j
      /\ DOMAIN r = 1 .. b - a /\ b - a \in Nat
  BY RunIs, LenProperties
<1> HIDE DEF r
<1>2. \A i \in 1 .. b - a : Message(k, <<r[i]>>) \in Packet
  <2> TAKE i \in 1 .. b - a
  <2>1. r[i] \in Nat
    BY <1>1
  <2>2. <<r[i]>> \in Seq(Nat)
    BY <2>1
  <2> QED BY <2>2 DEF Message, Packet
<1>3. m = [i \in 1 .. b - a |-> Message(k, <<r[i]>>)]
  BY <1>1 DEF OneByOne
<1>4. /\ m \in [1 .. b - a -> Packet]
      /\ \A i \in 1 .. b - a : m[i] = Message(k, <<r[i]>>)
  BY <1>2, <1>3
<1> HIDE DEF m
<1>5. m \in Seq(Packet) /\ Len(m) = b - a
  <2>1. m \in Seq(Packet)
    BY <1>1, <1>4, SeqDef
  <2> QED BY <1>1, <1>4, <2>1, LenProperties
<1>6. \A i \in 1 .. b - a : Steps(k, m[i], a + i - 1, a + i)
  <2> TAKE i \in 1 .. b - a
  <2>1. a + i - 1 \in Nat /\ (a + i - 1) + 1 = a + i
    BY <1>1
  <2>2. <<a + i>> = Run(a + i - 1, a + i)
    BY <2>1, RunOne
  <2>3. m[i].channel = k /\ m[i].numbers = <<a + i>>
    BY <1>1, <1>4 DEF Message
  <2> QED BY <2>1, <2>2, <2>3 DEF Steps
<1>7. Carries(k, m, a, b)
  <2> DEFINE e == [i \in 0 .. b - a |-> a + i]
  <2>1. e \in [0 .. b - a -> Nat] /\ \A i \in 0 .. b - a : e[i] = a + i
    BY <1>1
  <2> HIDE DEF e
  <2>2. \A i, j \in 0 .. b - a : i <= j => e[i] <= e[j]
    BY <1>1, <2>1
  <2>3. \A i \in 1 .. b - a : Steps(k, m[i], e[i - 1], e[i])
    <3> TAKE i \in 1 .. b - a
    <3>1. e[i - 1] = a + i - 1 /\ e[i] = a + i
      BY <1>1, <2>1
    <3> QED BY <1>6, <3>1
  <2>4. e[0] = a /\ e[b - a] = b
    BY <1>1, <2>1
  <2>5. Marks(k, m, e)
    BY <1>5, <2>1, <2>2, <2>3 DEF Marks
  <2> QED BY <1>5, <2>4, <2>5 DEF Carries
<1>8. ASSUME NEW j, NEW lo \in Nat, j # k PROVE Carries(j, m, lo, lo)
  <2> DEFINE e == [i \in 0 .. b - a |-> lo]
  <2>1. e \in [0 .. b - a -> Nat] /\ \A i \in 0 .. b - a : e[i] = lo
    BY <1>1
  <2> HIDE DEF e
  <2>2. \A i \in 1 .. b - a : m[i].channel # j /\ i - 1 \in 0 .. b - a /\ i \in 0 .. b - a
    BY <1>1, <1>4, <1>8 DEF Message
  <2>3. \A i \in 1 .. b - a : Steps(j, m[i], e[i - 1], e[i])
    BY <2>1, <2>2 DEF Steps
  <2>4. Marks(j, m, e)
    BY <1>5, <2>1, <2>3 DEF Marks
  <2>5. e[0] = lo /\ e[b - a] = lo
    BY <1>1, <2>1
  <2> QED BY <1>5, <2>4, <2>5 DEF Carries
<1> QED BY <1>5, <1>7, <1>8 DEF m, r

\* Two functions agree from a to n.
Same(f, w, a, n) == \A i \in a .. n : f[i] = w[i]

\* A function that is equal to another one wherever it is so far is equal to it.
LEMMA SameFromStart ==
  ASSUME NEW a \in Nat, NEW n \in Nat, NEW f, NEW w,
         f[a] = w[a],
         \A i \in Nat : a < i /\ i <= n /\ f[i - 1] = w[i - 1] => f[i] = w[i]
  PROVE  Same(f, w, a, n)
<1> DEFINE D == {i \in a .. n : f[i] # w[i]}
<1> SUFFICES ASSUME D # {} PROVE FALSE
  BY DEF Same
<1>1. D \subseteq Nat
  OBVIOUS
<1>2. PICK i \in D : \A j \in D : i <= j
  BY <1>1, LeastElement
<1>3. i \in Nat /\ a < i /\ i <= n /\ i - 1 \in a .. n /\ ~(i <= i - 1)
  <2>1. i \in Nat /\ a <= i /\ i <= n /\ f[i] # w[i]
    BY <1>2
  <2>2. i # a
    BY <2>1
  <2> QED BY <2>1, <2>2
<1>4. f[i - 1] = w[i - 1]
  BY <1>2, <1>3
<1> QED BY <1>2, <1>3, <1>4

\* What packets carry of a channel is the run of messages from where they lead to
\* where they lead.
LEMMA OfRun ==
  ASSUME NEW k, NEW m \in Seq(Packet), NEW lo, NEW hi, Carries(k, m, lo, hi)
  PROVE  Of(k, m) = Run(lo, hi)
<1> DEFINE n == Len(m)
           s == [i \in DOMAIN m |-> IF m[i].channel = k THEN m[i].numbers ELSE <<>>]
<1>1. PICK e : Marks(k, m, e) /\ e[0] = lo /\ e[n] = hi
  BY DEF Carries
<1>2. n \in Nat /\ DOMAIN m = 1 .. n
  BY LenProperties
<1>3. /\ e \in [0 .. n -> Nat] /\ \A i, j \in 0 .. n : i <= j => e[i] <= e[j]
      /\ \A i \in 1 .. n : Steps(k, m[i], e[i - 1], e[i])
  BY <1>1 DEF Marks
<1>4. \A i \in 1 .. n : /\ i - 1 \in 0 .. n /\ i \in 0 .. n /\ e[i - 1] \in Nat /\ e[i] \in Nat
                        /\ e[i - 1] <= e[i] /\ lo \in Nat /\ lo <= e[i - 1]
  <2> TAKE i \in 1 .. n
  <2>1. i - 1 \in 0 .. n /\ i \in 0 .. n /\ 0 \in 0 .. n /\ i - 1 <= i /\ 0 <= i - 1
    BY <1>2
  <2> QED BY <1>1, <1>3, <2>1
<1>5. \A i \in 1 .. n : s[i] = Run(e[i - 1], e[i]) /\ s[i] \in Seq(Nat)
  <2> TAKE i \in 1 .. n
  <2>1. Steps(k, m[i], e[i - 1], e[i]) /\ e[i - 1] \in Nat /\ e[i] \in Nat /\ e[i - 1] <= e[i]
    BY <1>3, <1>4
  <2>2. s[i] = IF m[i].channel = k THEN m[i].numbers ELSE <<>>
    BY <1>2
  <2>3. CASE m[i].channel = k
    <3>1. s[i] = Run(e[i - 1], e[i])
      BY <2>1, <2>2, <2>3 DEF Steps
    <3> HIDE DEF s
    <3> QED BY <2>1, <3>1, RunIs
  <2>4. CASE m[i].channel # k
    <3>1. Run(e[i - 1], e[i]) = <<>>
      BY <2>1, <2>4, RunNone DEF Steps
    <3> QED BY <2>1, <2>2, <2>4, <3>1, RunIs
  <2> QED BY <2>3, <2>4
<1>6. DOMAIN s = 1 .. n
  BY <1>2
<1> HIDE DEF s, n
<1>7. s \in Seq(Seq(Nat)) /\ Len(s) = n
  <2>1. s = [i \in DOMAIN s |-> s[i]]
    BY DEF s
  <2>2. s \in [1 .. n -> Seq(Nat)]
    BY <1>5, <1>6, <2>1
  <2>3. s \in Seq(Seq(Nat))
    BY <1>2, <2>2, SeqDef
  <2>4. DOMAIN s = 1 .. Len(s) /\ Len(s) \in Nat
    BY <2>3, LenProperties
  <2> QED BY <1>2, <1>6, <2>3, <2>4
<1>8. Of(k, m) = FlattenSeq(s)
  BY DEF Of, s
<1>9. CASE n = 0
  <2>1. FlattenSeq(s) = s
    BY <1>7, <1>9 DEF FlattenSeq
  <2>2. s = <<>>
    BY <1>7, <1>9, EmptySeq
  <2>3. lo = hi /\ lo \in Nat
    <3>1. e[0] \in Nat
      BY <1>3, <1>9
    <3> QED BY <1>1, <1>9, <3>1
  <2> QED BY <1>8, <2>1, <2>2, <2>3, RunNone
<1>10. CASE n # 0
  <2> DEFINE step(f) == [i \in 1 .. Len(s) |-> IF i = 1 THEN s[i] ELSE f[i - 1] \o s[i]]
             w == [i \in 1 .. n |-> Run(lo, e[i])]
             flat == CHOOSE f : f = step(f)
  <2>1. \A i \in 1 .. n : w[i] = Run(lo, e[i])
    OBVIOUS
  <2>2. w[1] = s[1]
    <3>1. 1 \in 1 .. n /\ 1 - 1 = 0
      BY <1>2, <1>10
    <3> QED BY <1>1, <1>5, <2>1, <3>1
  <2>3. \A i \in 2 .. n : w[i] = w[i - 1] \o s[i]
    <3> TAKE i \in 2 .. n
    <3>1. i \in 1 .. n /\ i - 1 \in 1 .. n
      BY <1>2
    <3>2. w[i - 1] = Run(lo, e[i - 1]) /\ w[i] = Run(lo, e[i]) /\ s[i] = Run(e[i - 1], e[i])
      BY <1>5, <2>1, <3>1
    <3>3. Run(lo, e[i - 1]) \o Run(e[i - 1], e[i]) = Run(lo, e[i])
      BY <1>4, <3>1, RunConcat
    <3> QED BY <3>2, <3>3
  <2>4. w = step(w)
    <3>1. \A i \in 1 .. n : w[i] = IF i = 1 THEN s[i] ELSE w[i - 1] \o s[i]
      <4> TAKE i \in 1 .. n
      <4>1. i # 1 => i \in 2 .. n
        BY <1>2
      <4> QED BY <2>2, <2>3, <4>1
    <3>2. w = [i \in 1 .. n |-> w[i]]
      OBVIOUS
    <3> HIDE DEF w
    <3> QED BY <1>7, <3>1, <3>2
  <2>5. flat = step(flat)
    BY <2>4
  <2>6. FlattenSeq(s) = flat[n]
    BY <1>7, <1>10 DEF FlattenSeq
  <2> HIDE DEF w, flat
  <2>7. \A i \in 1 .. n : flat[i] = IF i = 1 THEN s[i] ELSE flat[i - 1] \o s[i]
    BY <1>7, <2>5
  <2>8. flat[1] = w[1]
    <3>1. 1 \in 1 .. n
      BY <1>2, <1>10
    <3> QED BY <2>2, <2>7, <3>1
  <2>9. ASSUME NEW i \in Nat, 1 < i, i <= n, flat[i - 1] = w[i - 1] PROVE flat[i] = w[i]
    <3>1. i \in 1 .. n /\ i # 1 /\ i \in 2 .. n
      BY <1>2, <2>9
    <3> QED BY <2>3, <2>7, <2>9, <3>1
  <2>10. Same(flat, w, 1, n)
    <3>1. \A i \in Nat : 1 < i /\ i <= n /\ flat[i - 1] = w[i - 1] => flat[i] = w[i]
      BY <2>9
    <3>2. 1 \in Nat
      OBVIOUS
    <3> QED BY <1>2, <2>8, <3>1, <3>2, SameFromStart
  <2>11. n \in 1 .. n
    BY <1>2, <1>10
  <2> QED BY <1>1, <1>8, <2>1, <2>6, <2>10, <2>11 DEF Same
<1> QED BY <1>9, <1>10

------------------------------------------------------------------------------
(* Pieces *)

\* The last message that is complete when p is the last piece.
Begun(p) == IF p.last THEN p.number ELSE p.number - 1

\* Pieces as the parent writes them: message after message, a message of two pieces
\* at most.
InOrder(s) ==
  /\ \A i \in 1 .. Len(s) : s[i].number \in Nat \ {0}
  /\ \A i \in 1 .. Len(s) - 1 :
       s[i + 1].number = Begun(s[i]) + 1 /\ (s[i].last \/ s[i + 1].last)
  /\ \A i, j \in 1 .. Len(s) : i <= j => s[i].number <= s[j].number

\* The messages that pieces complete are the run from the first of them on.
LEMMA CompleteRun ==
  ASSUME NEW s \in Seq(PipePiece), s # <<>>, InOrder(s)
  PROVE  /\ s[1].number - 1 \in Nat /\ Begun(s[Len(s)]) \in Nat
         /\ s[1].number - 1 <= Begun(s[Len(s)])
         /\ s[Len(s)].last => s[1].number - 1 < Begun(s[Len(s)])
         /\ Complete(s) = Run(s[1].number - 1, Begun(s[Len(s)]))
<1> DEFINE n == Len(s)
           a == s[1].number - 1
<1>1. n \in Nat \ {0} /\ \A i \in 1 .. n : s[i] \in PipePiece
  BY EmptySeq, ElementOfSeq
<1>2. \A i \in 1 .. n : s[i].number \in Nat \ {0} /\ s[i].last \in BOOLEAN
  BY <1>1 DEF PipePiece, InOrder
<1>3. a \in Nat
  <2>1. s[1].number \in Nat \ {0}
    BY <1>1, <1>2
  <2> QED BY <2>1
<1>4. \A i \in 1 .. n : /\ Begun(s[i]) \in Nat /\ a <= Begun(s[i])
                        /\ s[i].last => Begun(s[i]) = s[i].number /\ a < Begun(s[i])
                        /\ ~s[i].last => Begun(s[i]) = s[i].number - 1
  <2> TAKE i \in 1 .. n
  <2>1. s[1].number <= s[i].number /\ s[1].number \in Nat \ {0} /\ s[i].number \in Nat \ {0}
    <3>1. 1 \in 1 .. n /\ 1 <= i
      BY <1>1
    <3> QED BY <1>2, <3>1 DEF InOrder
  <2>2. CASE s[i].last
    BY <2>1, <2>2 DEF Begun
  <2>3. CASE ~s[i].last
    BY <2>1, <2>3 DEF Begun
  <2> QED BY <2>2, <2>3
<1>5. \A i \in 2 .. n : s[i].number = Begun(s[i - 1]) + 1
  <2> TAKE i \in 2 .. n
  <2>1. i - 1 \in 1 .. n - 1 /\ (i - 1) + 1 = i
    BY <1>1
  <2>2. s[(i - 1) + 1].number = Begun(s[i - 1]) + 1
    BY <2>1 DEF InOrder
  <2> QED BY <2>1, <2>2
<1> HIDE DEF n, a
<1> DEFINE step(f) == [i \in 0 .. Len(s) |->
                         IF i = 0 THEN <<>>
                         ELSE IF s[i].last THEN Append(f[i - 1], s[i].number)
                         ELSE f[i - 1]]
           w == [i \in 0 .. n |-> IF i = 0 THEN <<>> ELSE Run(a, Begun(s[i]))]
           all == CHOOSE f : f = step(f)
<1>6. w[0] = <<>> /\ \A i \in 1 .. n : w[i] = Run(a, Begun(s[i]))
  <2>1. 0 \in 0 .. n /\ \A i \in 1 .. n : i \in 0 .. n /\ i # 0
    BY <1>1
  <2> QED BY <2>1
<1>7. \A i \in 1 .. n : w[i] = IF s[i].last THEN Append(w[i - 1], s[i].number) ELSE w[i - 1]
  <2> TAKE i \in 1 .. n
  <2> DEFINE b == s[i].number - 1
  <2>1. b \in Nat /\ a <= b /\ s[i].number = b + 1 /\ w[i - 1] = Run(a, b)
    <3>1. CASE i = 1
      <4>1. w[i - 1] = <<>> /\ b = a
        BY <1>6, <3>1 DEF a
      <4> QED BY <1>2, <1>3, <3>1, <4>1, RunNone
    <3>2. CASE i # 1
      <4>1. i \in 2 .. n /\ i - 1 \in 1 .. n
        BY <1>1, <3>2
      <4>2. Begun(s[i - 1]) \in Nat /\ a <= Begun(s[i - 1]) /\ s[i].number = Begun(s[i - 1]) + 1
        BY <1>4, <1>5, <4>1
      <4>3. b = Begun(s[i - 1])
        BY <4>2
      <4> QED BY <1>6, <4>1, <4>2, <4>3
    <3> QED BY <3>1, <3>2
  <2>2. w[i] = Run(a, Begun(s[i]))
    BY <1>6
  <2>3. CASE s[i].last
    <3>1. Begun(s[i]) = b + 1
      BY <1>4, <2>1, <2>3
    <3> HIDE DEF b
    <3>2. Append(Run(a, b), b + 1) = Run(a, b) \o <<b + 1>>
      <4>1. Run(a, b) \in Seq(Nat) /\ b + 1 \in Nat
        BY <1>3, <2>1, RunIs
      <4> QED BY <4>1, AppendIsConcat
    <3>3. Run(a, b) \o Run(b, b + 1) = Run(a, b + 1)
      <4>1. b + 1 \in Nat /\ b <= b + 1
        BY <2>1
      <4> QED BY <1>3, <2>1, <4>1, RunConcat
    <3> QED BY <2>1, <2>2, <2>3, <3>1, <3>2, <3>3, RunOne
  <2>4. CASE ~s[i].last
    <3>1. Begun(s[i]) = b
      BY <1>4, <2>4
    <3> QED BY <2>1, <2>2, <2>4, <3>1
  <2> QED BY <2>3, <2>4
<1>8. w = step(w)
  <2>1. \A i \in 0 .. n : w[i] = IF i = 0 THEN <<>>
                                 ELSE IF s[i].last THEN Append(w[i - 1], s[i].number)
                                 ELSE w[i - 1]
    <3> TAKE i \in 0 .. n
    <3>1. i # 0 => i \in 1 .. n
      BY <1>1
    <3> QED BY <1>6, <1>7, <3>1
  <2>2. w = [i \in 0 .. n |-> w[i]]
    OBVIOUS
  <2> HIDE DEF w
  <2> QED BY <2>1, <2>2 DEF n
<1>9. all = step(all)
  BY <1>8
<1>10. Complete(s) = all[n]
  BY DEF Complete, n
<1> HIDE DEF w, all
<1>11. all[0] = <<>> /\ \A i \in 1 .. n :
         all[i] = IF s[i].last THEN Append(all[i - 1], s[i].number) ELSE all[i - 1]
  <2>1. 0 \in 0 .. Len(s) /\ \A i \in 1 .. n : i \in 0 .. Len(s) /\ i # 0
    BY <1>1 DEF n
  <2> QED BY <1>9, <2>1
<1>12. all[0] = w[0]
  BY <1>6, <1>11
<1>13. ASSUME NEW i \in Nat, 0 < i, i <= n, all[i - 1] = w[i - 1] PROVE all[i] = w[i]
  <2>1. i \in 1 .. n
    BY <1>1, <1>13
  <2> QED BY <1>7, <1>11, <1>13, <2>1
<1>14. Same(all, w, 0, n)
  <2>1. \A i \in Nat : 0 < i /\ i <= n /\ all[i - 1] = w[i - 1] => all[i] = w[i]
    BY <1>13
  <2>2. 0 \in Nat /\ n \in Nat
    BY <1>1
  <2> QED BY <1>12, <2>1, <2>2, SameFromStart
<1>15. Complete(s) = Run(a, Begun(s[n]))
  <2>1. n \in 0 .. n /\ n \in 1 .. n
    BY <1>1
  <2> QED BY <1>6, <1>10, <1>14, <2>1 DEF Same
<1> QED BY <1>1, <1>3, <1>4, <1>15 DEF a, n

\* A read leaves the first half of a message or nothing.
LEMMA RestIs ==
  ASSUME NEW s \in Seq(PipePiece), s # <<>>, InOrder(s)
  PROVE  \E t \in {Len(s) - 1, Len(s)} :
           /\ Rest(s) = SubSeq(s, t + 1, Len(s))
           /\ (t = Len(s)) <=> s[Len(s)].last
<1> DEFINE n == Len(s)
           ends == {i \in DOMAIN s : s[i].last}
<1>1. n \in Nat \ {0} /\ DOMAIN s = 1 .. n
  BY EmptySeq, LenProperties
<1>2. Rest(s) = SubSeq(s, (IF ends = {} THEN 0 ELSE Max(ends)) + 1, n)
  BY DEF Rest
<1>3. ASSUME NEW t \in 1 .. n, t \in ends, \A i \in ends : t >= i PROVE ends # {} /\ Max(ends) = t
  <2>1. \A u \in ends : (\A i \in ends : u >= i) => u = t
    BY <1>1, <1>3
  <2> QED BY <1>3, <2>1 DEF Max
<1>4. CASE s[n].last
  <2>1. n \in ends /\ \A i \in ends : n >= i
    BY <1>1, <1>4
  <2>2. ends # {} /\ Max(ends) = n
    BY <1>1, <1>3, <2>1
  <2> QED BY <1>2, <1>4, <2>2
<1>5. CASE ~s[n].last /\ n = 1
  <2>1. ends = {}
    BY <1>1, <1>5
  <2> QED BY <1>2, <1>5, <2>1
<1>6. CASE ~s[n].last /\ n # 1
  <2>1. n - 1 \in 1 .. n - 1 /\ (n - 1) + 1 = n /\ n - 1 \in 1 .. n
    BY <1>1, <1>6
  <2>2. s[n - 1].last
    BY <1>6, <2>1 DEF InOrder
  <2>3. n - 1 \in ends /\ \A i \in ends : n - 1 >= i
    BY <1>1, <1>6, <2>1, <2>2
  <2>4. ends # {} /\ Max(ends) = n - 1
    BY <1>3, <2>1, <2>3
  <2>5. n - 1 # n
    <3> HIDE DEF n, ends
    <3> QED BY <1>1
  <2>6. Rest(s) = SubSeq(s, (n - 1) + 1, n)
    BY <1>2, <2>4
  <2> QED BY <1>6, <2>5, <2>6
<1> QED BY <1>4, <1>5, <1>6

\* What flows on channel k, up to the newest message, whole and in order.
Flowing(k, s, newest) ==
  /\ s \in Seq(PipePiece)
  /\ InOrder(s)
  /\ \A i \in 1 .. Len(s) : s[i].channel = k
  /\ k = "terminal" => \A i \in 1 .. Len(s) : s[i].last
  /\ s # <<>> => s[Len(s)].last /\ s[Len(s)].number = newest

\* The message in front of what flows.
Before(s, newest) == IF s = <<>> THEN newest ELSE s[1].number - 1

\* It is older than all that flows.
LEMMA BeforeIs ==
  ASSUME NEW k, NEW newest \in Nat, NEW s, Flowing(k, s, newest)
  PROVE  /\ Before(s, newest) \in Nat /\ Before(s, newest) <= newest
         /\ s # <<>> => Before(s, newest) < newest
<1>1. CASE s = <<>>
  BY <1>1 DEF Before
<1>2. CASE s # <<>>
  <2>1. s \in Seq(PipePiece) /\ Len(s) \in Nat \ {0}
    BY <1>2, EmptySeq DEF Flowing
  <2>2. 1 \in 1 .. Len(s) /\ Len(s) \in 1 .. Len(s) /\ 1 <= Len(s)
    BY <2>1
  <2>3. /\ s[1].number \in Nat \ {0} /\ s[1].number <= s[Len(s)].number
        /\ s[Len(s)].number = newest
    BY <1>2, <2>2 DEF Flowing, InOrder
  <2> QED BY <1>2, <2>3 DEF Before
<1> QED BY <1>1, <1>2

\* What is left when the first pieces have been taken.
LEMMA FlowingDrop ==
  ASSUME NEW k, NEW newest \in Nat, NEW s, Flowing(k, s, newest), NEW t \in 0 .. Len(s),
         NEW u \in Seq(PipePiece), Len(u) = Len(s) - t,
         \A i \in 1 .. Len(u) : u[i] = s[i + t]
  PROVE  Flowing(k, u, newest)
<1> DEFINE n == Len(s)
           m == Len(u)
<1>1. s \in Seq(PipePiece) /\ n \in Nat /\ m \in Nat /\ m = n - t
  BY LenProperties DEF Flowing
<1>2. \A i \in 1 .. m : i + t \in 1 .. n /\ u[i] = s[i + t]
  BY <1>1
<1>3. \A i \in 1 .. m - 1 : /\ i + t \in 1 .. n - 1 /\ u[i] = s[i + t]
                            /\ i + 1 \in 1 .. m /\ u[i + 1] = s[(i + t) + 1]
  <2> TAKE i \in 1 .. m - 1
  <2>1. i + t \in 1 .. n - 1 /\ i + 1 \in 1 .. m /\ i \in 1 .. m /\ (i + 1) + t = (i + t) + 1
    BY <1>1
  <2>2. u[i] = s[i + t] /\ u[i + 1] = s[(i + 1) + t]
    BY <1>2, <2>1
  <2> QED BY <2>1, <2>2
<1>4. /\ \A i \in 1 .. n : s[i].number \in Nat \ {0} /\ s[i].channel = k
      /\ \A i \in 1 .. n - 1 :
           s[i + 1].number = Begun(s[i]) + 1 /\ (s[i].last \/ s[i + 1].last)
      /\ \A i, j \in 1 .. n : i <= j => s[i].number <= s[j].number
      /\ k = "terminal" => \A i \in 1 .. n : s[i].last
      /\ s # <<>> => s[n].last /\ s[n].number = newest
  BY DEF Flowing, InOrder
<1>5. u # <<>> => m \in Nat \ {0} /\ s # <<>> /\ u[m] = s[n]
  <2> SUFFICES ASSUME u # <<>> PROVE m \in Nat \ {0} /\ s # <<>> /\ u[m] = s[n]
    OBVIOUS
  <2>1. m \in Nat \ {0}
    BY EmptySeq
  <2>2. m \in 1 .. m /\ m + t = n /\ n # 0
    BY <1>1, <2>1
  <2>3. Len(<<>>) = 0
    OBVIOUS
  <2> QED BY <1>2, <2>1, <2>2, <2>3
<1> HIDE DEF n, m
<1>6. \A i, j \in 1 .. m : i <= j => u[i].number <= u[j].number
  <2> SUFFICES ASSUME NEW i \in 1 .. m, NEW j \in 1 .. m, i <= j
               PROVE  u[i].number <= u[j].number
    OBVIOUS
  <2>1. i + t \in 1 .. n /\ j + t \in 1 .. n /\ i + t <= j + t
    BY <1>1, <1>2
  <2> QED BY <1>2, <1>4, <2>1
<1>7. InOrder(u)
  BY <1>2, <1>3, <1>4, <1>6 DEF InOrder, m
<1> QED BY <1>2, <1>4, <1>5, <1>7 DEF Flowing, m

\* The parent begins its next message.
LEMMA FlowingMore ==
  ASSUME NEW k \in Channels, NEW newest \in Nat, NEW s, Flowing(k, s, newest)
  PROVE  /\ Flowing(k, s \o Pieces(k, newest + 1), newest + 1)
         /\ Before(s \o Pieces(k, newest + 1), newest + 1) = Before(s, newest)
<1> DEFINE p == Pieces(k, newest + 1)
           n == Len(s)
           l == Len(p)
           u == s \o p
<1>1. /\ p \in Seq(PipePiece) /\ l \in {1, 2}
      /\ \A i \in 1 .. l : /\ p[i].channel = k /\ p[i].number = newest + 1
                           /\ i = l => p[i].last
                           /\ i # l => ~p[i].last
      /\ k = "terminal" => l = 1
  <2> DEFINE piece(last) == [channel |-> k, number |-> newest + 1, last |-> last]
  <2>1. piece(TRUE) \in PipePiece /\ piece(FALSE) \in PipePiece
    BY DEF PipePiece
  <2>2. p = IF k = "terminal" THEN <<piece(TRUE)>> ELSE <<piece(FALSE), piece(TRUE)>>
    BY DEF Pieces
  <2>3. piece(TRUE).channel = k /\ piece(TRUE).number = newest + 1 /\ piece(TRUE).last
    OBVIOUS
  <2>4. piece(FALSE).channel = k /\ piece(FALSE).number = newest + 1 /\ ~piece(FALSE).last
    OBVIOUS
  <2> HIDE DEF p, piece
  <2>7. \A x, y \in PipePiece :
          /\ <<x>> \in Seq(PipePiece) /\ Len(<<x>>) = 1 /\ <<x>>[1] = x
          /\ <<x, y>> \in Seq(PipePiece) /\ Len(<<x, y>>) = 2
          /\ <<x, y>>[1] = x /\ <<x, y>>[2] = y
    OBVIOUS
  <2>5. CASE k = "terminal"
    <3>1. p = <<piece(TRUE)>>
      BY <2>2, <2>5
    <3>2. p \in Seq(PipePiece) /\ l = 1 /\ p[1] = piece(TRUE)
      BY <2>1, <2>7, <3>1
    <3>3. \A i \in 1 .. 1 : i = 1
      OBVIOUS
    <3> QED BY <2>3, <3>2, <3>3
  <2>6. CASE k # "terminal"
    <3>1. p = <<piece(FALSE), piece(TRUE)>>
      BY <2>2, <2>6
    <3>2. p \in Seq(PipePiece) /\ l = 2 /\ p[1] = piece(FALSE) /\ p[2] = piece(TRUE)
      BY <2>1, <2>7, <3>1
    <3>3. \A i \in 1 .. 2 : i = 1 \/ i = 2
      OBVIOUS
    <3> QED BY <2>3, <2>4, <2>6, <3>2, <3>3
  <2> QED BY <2>5, <2>6
<1>2. s \in Seq(PipePiece) /\ n \in Nat
  BY LenProperties DEF Flowing
<1>3. /\ u \in Seq(PipePiece) /\ Len(u) = n + l
      /\ \A i \in 1 .. n + l : u[i] = IF i <= n THEN s[i] ELSE p[i - n]
  BY <1>1, <1>2, ConcatProperties
<1>4. /\ \A i \in 1 .. n : s[i].number \in Nat \ {0} /\ s[i].channel = k
      /\ \A i \in 1 .. n - 1 :
           s[i + 1].number = Begun(s[i]) + 1 /\ (s[i].last \/ s[i + 1].last)
      /\ \A i, j \in 1 .. n : i <= j => s[i].number <= s[j].number
      /\ k = "terminal" => \A i \in 1 .. n : s[i].last
      /\ n # 0 => s[n].last /\ s[n].number = newest
  <2>1. Len(<<>>) = 0
    OBVIOUS
  <2> QED BY <2>1 DEF Flowing, InOrder
<1> HIDE DEF p, n, l, u
<1>5. \A i \in 1 .. n : u[i] = s[i]
  BY <1>1, <1>2, <1>3
<1>6. \A i \in n + 1 .. n + l : u[i] = p[i - n] /\ i - n \in 1 .. l
  BY <1>1, <1>2, <1>3
<1>7. \A i \in n + 1 .. n + l : /\ u[i].number = newest + 1 /\ u[i].channel = k
                                /\ i = n + l => u[i].last
                                /\ i # n + l => ~u[i].last
  <2> TAKE i \in n + 1 .. n + l
  <2>1. i - n = l <=> i = n + l
    BY <1>1, <1>2
  <2> QED BY <1>1, <1>6, <2>1
<1>8. \A i \in 1 .. n + l : i \in 1 .. n \/ i \in n + 1 .. n + l
  BY <1>1, <1>2
<1>9. \A i \in 1 .. n + l : u[i].number \in Nat \ {0} /\ u[i].channel = k
  BY <1>4, <1>5, <1>7, <1>8
<1>10. \A i \in 1 .. n + l - 1 :
         u[i + 1].number = Begun(u[i]) + 1 /\ (u[i].last \/ u[i + 1].last)
  <2> TAKE i \in 1 .. n + l - 1
  <2>1. CASE i <= n - 1
    <3>1. i \in 1 .. n - 1 /\ i \in 1 .. n /\ i + 1 \in 1 .. n
      BY <1>2, <2>1
    <3> QED BY <1>4, <1>5, <3>1
  <2>2. CASE i = n
    <3>1. i \in 1 .. n /\ i + 1 \in n + 1 .. n + l /\ n # 0
      BY <1>1, <1>2, <2>2
    <3>2. u[i].last /\ u[i].number = newest /\ u[i + 1].number = newest + 1
      BY <1>4, <1>5, <1>7, <2>2, <3>1
    <3> QED BY <3>2 DEF Begun
  <2>3. CASE i > n
    <3>1. i = n + 1 /\ l = 2 /\ i + 1 = n + l /\ i # n + l
      BY <1>1, <1>2, <2>3
    <3>2. i \in n + 1 .. n + l /\ i + 1 \in n + 1 .. n + l
      BY <1>2, <3>1
    <3>3. ~u[i].last /\ u[i].number = newest + 1 /\ u[i + 1].last /\ u[i + 1].number = newest + 1
      BY <1>7, <3>1, <3>2
    <3> QED BY <3>3 DEF Begun
  <2> QED BY <1>2, <2>1, <2>2, <2>3
<1>11. \A i \in 1 .. n : s[i].number <= newest
  <2> TAKE i \in 1 .. n
  <2>1. n \in 1 .. n /\ i <= n /\ n # 0
    BY <1>2
  <2> QED BY <1>4, <2>1
<1>12. \A i, j \in 1 .. n + l : i <= j => u[i].number <= u[j].number
  <2> SUFFICES ASSUME NEW i \in 1 .. n + l, NEW j \in 1 .. n + l, i <= j
               PROVE  u[i].number <= u[j].number
    OBVIOUS
  <2>1. CASE j \in 1 .. n
    <3>1. i \in 1 .. n
      BY <1>2, <2>1
    <3> QED BY <1>4, <1>5, <2>1, <3>1
  <2>2. CASE j \in n + 1 .. n + l
    <3>1. u[j].number = newest + 1
      BY <1>7, <2>2
    <3>2. CASE i \in 1 .. n
      <4>1. u[i] = s[i] /\ s[i].number <= newest /\ s[i].number \in Nat
        BY <1>4, <1>5, <1>11, <3>2
      <4> QED BY <3>1, <4>1
    <3>3. CASE i \in n + 1 .. n + l
      BY <1>7, <3>1, <3>3
    <3> QED BY <1>8, <3>2, <3>3
  <2> QED BY <1>8, <2>1, <2>2
<1>13. InOrder(u)
  <2>1. \A i \in 1 .. Len(u) : u[i].number \in Nat \ {0}
    BY <1>3, <1>9
  <2>2. \A i \in 1 .. Len(u) - 1 :
          u[i + 1].number = Begun(u[i]) + 1 /\ (u[i].last \/ u[i + 1].last)
    <3> TAKE i \in 1 .. Len(u) - 1
    <3>1. i \in 1 .. n + l - 1
      BY <1>1, <1>2, <1>3
    <3> QED BY <1>10, <3>1, Zenon
  <2>3. \A i, j \in 1 .. Len(u) : i <= j => u[i].number <= u[j].number
    BY <1>3, <1>12
  <2> QED BY <2>1, <2>2, <2>3, Zenon DEF InOrder
<1>14. k = "terminal" => \A i \in 1 .. n + l : u[i].last
  <2> SUFFICES ASSUME k = "terminal", NEW i \in 1 .. n + l PROVE u[i].last
    OBVIOUS
  <2>1. CASE i \in 1 .. n
    BY <1>4, <1>5, <2>1
  <2>2. CASE i \in n + 1 .. n + l
    <3>1. l = 1
      BY <1>1
    <3>2. i = n + l
      BY <1>2, <2>2, <3>1
    <3> QED BY <1>7, <2>2, <3>2
  <2> QED BY <1>8, <2>1, <2>2
<1>15. n + l \in n + 1 .. n + l /\ n + l # 0
  BY <1>1, <1>2
<1>16. u[n + l].last /\ u[n + l].number = newest + 1
  BY <1>7, <1>15
<1>17. Flowing(k, u, newest + 1)
  BY <1>3, <1>9, <1>13, <1>14, <1>16 DEF Flowing
<1>18. Before(u, newest + 1) = Before(s, newest)
  <2>1. u # <<>>
    <3>1. Len(<<>>) = 0
      OBVIOUS
    <3> QED BY <1>3, <1>15, <3>1
  <2>2. CASE s = <<>>
    <3>1. n = 0
      BY <2>2 DEF n
    <3>2. 1 \in n + 1 .. n + l
      BY <1>1, <3>1
    <3>3. u[1].number = newest + 1
      BY <1>7, <3>2
    <3> QED BY <2>1, <2>2, <3>3 DEF Before
  <2>3. CASE s # <<>>
    <3>1. n \in Nat \ {0}
      BY <1>2, <2>3, EmptySeq DEF n
    <3>2. 1 \in 1 .. n
      BY <3>1
    <3> QED BY <1>5, <2>1, <2>3, <3>2 DEF Before
  <2> QED BY <2>2, <2>3
<1> QED BY <1>17, <1>18 DEF u, p

\* One read of channel k: it completes the messages up to where what is left begins.
LEMMA FlowingRead ==
  ASSUME NEW k \in Channels, NEW newest \in Nat,
         NEW a \in Seq(PipePiece), NEW b \in Seq(PipePiece), NEW w \in Seq(PipePiece),
         NEW n \in 1 .. Len(b), Flowing(k, (a \o b) \o w, newest)
  PROVE  LET pieces == a \o SubSeq(b, 1, n)
             left == (Rest(pieces) \o SubSeq(b, n + 1, Len(b))) \o w
             from == Before((a \o b) \o w, newest)
             to == Before(left, newest)
         IN  /\ Rest(pieces) \in Seq(PipePiece)
             /\ SubSeq(b, n + 1, Len(b)) \in Seq(PipePiece)
             /\ Flowing(k, left, newest)
             /\ from \in Nat /\ to \in Nat /\ from <= to
             /\ Complete(pieces) = Run(from, to)
             /\ k = "terminal" => from < to
<1> DEFINE s == (a \o b) \o w
           q == SubSeq(b, 1, n)
           r == SubSeq(b, n + 1, Len(b))
           pieces == a \o q
           left == (Rest(pieces) \o r) \o w
           la == Len(a)
           lb == Len(b)
           lw == Len(w)
           lp == la + n
<1>1. /\ la \in Nat /\ lb \in Nat /\ lw \in Nat /\ n \in Nat \ {0} /\ n <= lb
      /\ \A i \in 1 .. lb : b[i] \in PipePiece
  BY LenProperties, ElementOfSeq
<1>2. /\ q \in Seq(PipePiece) /\ Len(q) = n /\ \A i \in 1 .. n : q[i] = b[i]
  <2>1. \A i \in 1 .. n : b[i] \in PipePiece
    BY <1>1
  <2>2. 1 <= n /\ n - 1 + 1 = n /\ \A i \in 1 .. n : 1 + i - 1 = i
    BY <1>1
  <2>3. /\ q \in Seq(PipePiece) /\ Len(q) = IF 1 <= n THEN n - 1 + 1 ELSE 0
        /\ \A i \in 1 .. n - 1 + 1 : q[i] = b[1 + i - 1]
    BY <1>1, <2>1, SubSeqProperties
  <2> QED BY <2>2, <2>3
<1>3. /\ r \in Seq(PipePiece) /\ Len(r) = lb - n /\ \A i \in 1 .. lb - n : r[i] = b[n + i]
  <2>1. \A i \in n + 1 .. lb : b[i] \in PipePiece
    BY <1>1
  <2>2. /\ lb - (n + 1) + 1 = lb - n /\ (~(n + 1 <= lb) => lb - n = 0)
        /\ \A i \in 1 .. lb - n : (n + 1) + i - 1 = n + i
    BY <1>1
  <2>3. /\ r \in Seq(PipePiece) /\ Len(r) = IF n + 1 <= lb THEN lb - (n + 1) + 1 ELSE 0
        /\ \A i \in 1 .. lb - (n + 1) + 1 : r[i] = b[(n + 1) + i - 1]
    BY <1>1, <2>1, SubSeqProperties
  <2> QED BY <2>2, <2>3
<1>4. /\ a \o b \in Seq(PipePiece) /\ Len(a \o b) = la + lb
      /\ \A i \in 1 .. la + lb : (a \o b)[i] = IF i <= la THEN a[i] ELSE b[i - la]
  BY ConcatProperties
<1>5. /\ s \in Seq(PipePiece) /\ Len(s) = la + lb + lw
      /\ \A i \in 1 .. la + lb + lw : s[i] = IF i <= la + lb THEN (a \o b)[i] ELSE w[i - (la + lb)]
  BY <1>4, ConcatProperties
<1>6. /\ pieces \in Seq(PipePiece) /\ Len(pieces) = lp
      /\ \A i \in 1 .. lp : pieces[i] = IF i <= la THEN a[i] ELSE q[i - la]
  BY <1>2, ConcatProperties
<1> HIDE DEF s, q, r, pieces, la, lb, lw
<1>7. \A i \in 1 .. lp : pieces[i] = s[i] /\ i \in 1 .. Len(s)
  <2> TAKE i \in 1 .. lp
  <2>1. i \in 1 .. la + lb + lw /\ i \in 1 .. la + lb /\ i <= la + lb
    BY <1>1
  <2>2. s[i] = IF i <= la THEN a[i] ELSE b[i - la]
    BY <1>4, <1>5, <2>1
  <2>3. ~(i <= la) => i - la \in 1 .. n
    BY <1>1
  <2> QED BY <1>2, <1>5, <1>6, <2>1, <2>2, <2>3
<1>8. Flowing(k, s, newest)
  BY DEF s
<1>9. lp \in Nat \ {0} /\ pieces # <<>> /\ s # <<>> /\ lp <= Len(s) /\ Len(s) \in Nat
  <2>1. lp \in Nat \ {0} /\ lp <= Len(s) /\ Len(s) \in Nat /\ Len(s) # 0
    BY <1>1, <1>5
  <2>2. Len(<<>>) = 0
    OBVIOUS
  <2> QED BY <1>6, <2>1, <2>2
<1>10. InOrder(pieces)
  <2>1. \A i \in 1 .. lp : pieces[i].number \in Nat \ {0}
    BY <1>7, <1>8 DEF Flowing, InOrder
  <2>2. \A i \in 1 .. lp - 1 :
          pieces[i + 1].number = Begun(pieces[i]) + 1 /\ (pieces[i].last \/ pieces[i + 1].last)
    <3> TAKE i \in 1 .. lp - 1
    <3>1. i \in 1 .. lp /\ i + 1 \in 1 .. lp /\ i \in 1 .. Len(s) - 1
      BY <1>9
    <3>2. s[i + 1].number = Begun(s[i]) + 1 /\ (s[i].last \/ s[i + 1].last)
      BY <1>8, <3>1 DEF Flowing, InOrder
    <3> QED BY <1>7, <3>1, <3>2
  <2>3. \A i, j \in 1 .. lp : i <= j => pieces[i].number <= pieces[j].number
    BY <1>7, <1>8 DEF Flowing, InOrder
  <2> QED BY <1>6, <2>1, <2>2, <2>3 DEF InOrder
<1> DEFINE begun == Begun(pieces[lp])
           from == Before(s, newest)
           to == Before(left, newest)
<1>11. /\ pieces[1].number - 1 \in Nat /\ begun \in Nat
       /\ pieces[1].number - 1 <= begun
       /\ pieces[lp].last => pieces[1].number - 1 < begun
       /\ Complete(pieces) = Run(pieces[1].number - 1, begun)
  BY <1>6, <1>9, <1>10, CompleteRun
<1>12. from = pieces[1].number - 1
  <2>1. 1 \in 1 .. lp
    BY <1>9
  <2> QED BY <1>7, <1>9, <2>1 DEF Before
<1>13. PICK t \in {lp - 1, lp} : Rest(pieces) = SubSeq(pieces, t + 1, lp) /\ ((t = lp) <=> pieces[lp].last)
  BY <1>6, <1>9, <1>10, RestIs
<1>14. t \in Nat /\ t <= lp /\ lp - t \in Nat
  BY <1>9
<1> DEFINE rest == Rest(pieces)
<1>15. /\ rest \in Seq(PipePiece) /\ Len(rest) = lp - t
       /\ \A i \in 1 .. lp - t : rest[i] = pieces[t + i]
  <2>1. \A i \in t + 1 .. lp : pieces[i] \in PipePiece
    <3>1. \A i \in t + 1 .. lp : i \in 1 .. Len(pieces)
      BY <1>6, <1>9, <1>14
    <3> QED BY <1>6, <3>1, ElementOfSeq
  <2>2. /\ lp - (t + 1) + 1 = lp - t /\ (~(t + 1 <= lp) => lp - t = 0)
        /\ \A i \in 1 .. lp - t : (t + 1) + i - 1 = t + i
        /\ t + 1 \in Int /\ lp \in Int
    BY <1>9, <1>14
  <2> HIDE DEF lp
  <2>3. /\ SubSeq(pieces, t + 1, lp) \in Seq(PipePiece)
        /\ Len(SubSeq(pieces, t + 1, lp)) = IF t + 1 <= lp THEN lp - (t + 1) + 1 ELSE 0
        /\ \A i \in 1 .. lp - (t + 1) + 1 : SubSeq(pieces, t + 1, lp)[i] = pieces[(t + 1) + i - 1]
    BY <2>1, <2>2, SubSeqProperties
  <2> QED BY <1>13, <2>2, <2>3
<1> HIDE DEF rest
<1> DEFINE lr == lp - t
           d == rest \o r
<1>16. /\ d \in Seq(PipePiece) /\ Len(d) = lr + (lb - n)
       /\ \A i \in 1 .. lr + (lb - n) : d[i] = IF i <= lr THEN rest[i] ELSE r[i - lr]
  <2>1. Len(rest) = lr /\ Len(r) = lb - n
    BY <1>3, <1>15
  <2> HIDE DEF lr
  <2>2. /\ d \in Seq(PipePiece) /\ Len(d) = Len(rest) + Len(r)
        /\ \A i \in 1 .. Len(rest) + Len(r) :
             d[i] = IF i <= Len(rest) THEN rest[i] ELSE r[i - Len(rest)]
    BY <1>3, <1>15, ConcatProperties
  <2> HIDE DEF d
  <2> QED BY <2>1, <2>2
<1>17. /\ left \in Seq(PipePiece) /\ Len(left) = (lr + (lb - n)) + lw
       /\ \A i \in 1 .. (lr + (lb - n)) + lw :
            left[i] = IF i <= lr + (lb - n) THEN d[i] ELSE w[i - (lr + (lb - n))]
  <2>1. left = d \o w
    BY DEF rest
  <2> HIDE DEF d
  <2> QED BY <1>16, <2>1, ConcatProperties, SMTT(30) DEF lw
<1> HIDE DEF left, d
<1>18. Len(left) = Len(s) - t
  BY <1>1, <1>5, <1>9, <1>14, <1>17
<1>19. \A i \in 1 .. Len(left) : left[i] = s[i + t]
  <2> TAKE i \in 1 .. Len(left)
  <2>1. i \in 1 .. (lr + (lb - n)) + lw /\ i + t \in 1 .. la + lb + lw
    BY <1>1, <1>5, <1>14, <1>17, <1>18
  <2>2. CASE i <= lr
    <3>1. i \in 1 .. lr /\ i \in 1 .. lr + (lb - n) /\ t + i \in 1 .. lp /\ t + i = i + t
          /\ i <= lr + (lb - n)
      BY <1>1, <1>14, <2>1, <2>2
    <3>2. left[i] = d[i] /\ d[i] = rest[i]
      BY <1>16, <1>17, <2>1, <2>2, <3>1
    <3>3. rest[i] = pieces[t + i] /\ pieces[t + i] = s[t + i]
      BY <1>7, <1>15, <3>1
    <3> QED BY <3>1, <3>2, <3>3
  <2>3. CASE ~(i <= lr) /\ i <= lr + (lb - n)
    <3>1. /\ i \in 1 .. lr + (lb - n) /\ i - lr \in 1 .. lb - n
          /\ n + (i - lr) = (i + t) - la /\ i + t \in 1 .. la + lb /\ ~(i + t <= la)
          /\ i + t <= la + lb
      BY <1>1, <1>14, <2>1, <2>3
    <3>2. left[i] = r[i - lr]
      BY <1>16, <1>17, <2>1, <2>3, <3>1
    <3>3. r[i - lr] = b[n + (i - lr)]
      BY <1>3, <3>1
    <3>4. s[i + t] = b[(i + t) - la]
      BY <1>4, <1>5, <2>1, <3>1
    <3> QED BY <3>1, <3>2, <3>3, <3>4
  <2>4. CASE ~(i <= lr + (lb - n))
    <3>1. ~(i + t <= la + lb) /\ i - (lr + (lb - n)) = (i + t) - (la + lb)
      BY <1>1, <1>14, <2>1, <2>4
    <3> QED BY <1>5, <1>17, <2>1, <2>4, <3>1
  <2> QED BY <2>2, <2>3, <2>4
<1>20. Flowing(k, left, newest)
  <2>1. t \in 0 .. Len(s)
    BY <1>9, <1>14
  <2> QED BY <1>8, <1>17, <1>18, <1>19, <2>1, FlowingDrop
<1>21. to = begun
  <2>1. CASE left = <<>>
    <3>1. Len(left) = 0
      BY <2>1
    <3>2. t = Len(s) /\ lp = Len(s) /\ t = lp
      BY <1>9, <1>14, <1>18, <3>1
    <3>3. pieces[lp].last /\ pieces[lp] = s[Len(s)]
      <4>1. lp \in 1 .. lp
        BY <1>9
      <4> QED BY <1>7, <1>13, <3>2, <4>1
    <3>4. s[Len(s)].number = newest
      BY <1>8, <1>9 DEF Flowing
    <3> QED BY <2>1, <3>3, <3>4 DEF Before, Begun
  <2>2. CASE left # <<>> /\ t = lp
    <3>1. Len(left) \in Nat \ {0}
      BY <1>17, <2>2, EmptySeq
    <3>2. 1 \in 1 .. Len(left) /\ lp \in 1 .. Len(s) - 1 /\ lp \in 1 .. lp
      BY <1>9, <1>18, <2>2, <3>1
    <3>3. left[1] = s[1 + lp] /\ 1 + lp = lp + 1
      BY <1>9, <1>19, <2>2, <3>2
    <3>4. s[lp + 1].number = Begun(s[lp]) + 1
      BY <1>8, <3>2 DEF Flowing, InOrder
    <3>5. begun = Begun(s[lp]) /\ begun \in Nat
      BY <1>7, <1>11, <3>2
    <3> HIDE DEF begun, lp
    <3> QED BY <2>2, <3>3, <3>4, <3>5 DEF Before
  <2>3. CASE left # <<>> /\ t = lp - 1
    <3>1. Len(left) \in Nat \ {0}
      BY <1>17, <2>3, EmptySeq
    <3>2. 1 \in 1 .. Len(left) /\ 1 + t = lp /\ t # lp /\ lp \in 1 .. lp
      BY <1>9, <2>3, <3>1
    <3>3. left[1] = s[lp] /\ ~pieces[lp].last /\ pieces[lp] = s[lp]
      BY <1>7, <1>13, <1>19, <3>2
    <3> QED BY <2>3, <3>3 DEF Before, Begun
  <2> QED BY <1>13, <2>1, <2>2, <2>3
<1>22. k = "terminal" => pieces[lp].last
  <2>1. lp \in 1 .. lp
    BY <1>9
  <2> QED BY <1>7, <1>8, <2>1 DEF Flowing
<1>23. /\ rest \in Seq(PipePiece) /\ r \in Seq(PipePiece) /\ Flowing(k, left, newest)
       /\ from \in Nat /\ to \in Nat /\ from <= to /\ Complete(pieces) = Run(from, to)
       /\ k = "terminal" => from < to
  <2> HIDE DEF begun, from, to
  <2> QED BY <1>3, <1>11, <1>12, <1>15, <1>20, <1>21, <1>22
<1> QED BY <1>23 DEF rest, r, left, pieces, q, s

------------------------------------------------------------------------------
(* The invariant *)

\* What the parent has begun and the bridge has not read to the end of a message.
Flow(k) == (partial[k] \o channel[k]) \o Unwritten(k)
ReadTo(k) == Before(Flow(k), produced[k])

\* On every channel the pieces read in part, in the pipe and still to be written are one
\* flow of messages that ends with the newest.
FlowInv ==
  /\ produced \in [Channels -> Nat]
  /\ writing \in Seq(PipePiece)
  /\ channel \in [Channels -> Seq(PipePiece)]
  /\ partial \in [Channels -> Seq(PipePiece)]
  /\ \A i \in 1 .. Len(writing) : writing[i].channel = writing[1].channel
  /\ \A k \in Channels : Flowing(k, Flow(k), produced[k])

\* What the reader has read and not yet kept for later clients.
Unkept == IF todo # <<>> THEN Tail(queue) ELSE queue

\* What is kept is a run of messages that ends where the unkept ones begin.
KeptRun(k, list, rest, upTo) ==
  \E x, y \in Nat :
    /\ list = Run(x, y) /\ x <= y /\ (x = y => y = 0)
    /\ Carries(k, rest, y, upTo)

\* On every channel a new client would be greeted with a run up to what is unkept.
HubInv ==
  /\ queue \in Seq(Packet)
  /\ kept \in [Channels -> Seq(Nat)]
  /\ \A k \in Channels : KeptRun(k, kept[k], Unkept, ReadTo(k))

\* A client that add_client has registered and whose browser is still there.
Joined(c) == open[c] /\ thread[c] \notin {"absent", "joining"}

\* No client is in a list twice.
NoRepeat(s) == \A i, j \in 1 .. Len(s) : s[i] = s[j] => i = j

ListsInv ==
  /\ todo \in Seq(Clients) /\ NoRepeat(todo)
  /\ clients \in Seq(Clients) /\ NoRepeat(clients)

\* state_mutex: a broadcast and an add_client exclude each other, and so do two
\* add_clients.
LockInv ==
  /\ todo # <<>> => queue # <<>> /\ \A c \in Clients : thread[c] # "greeting"
  /\ \A c \in Clients : thread[c] = "greeting" => greeting # <<>>
  /\ \A c, d \in Clients : thread[c] = "greeting" /\ thread[d] = "greeting" => c = d

\* Before it is registered a client is sent nothing.
StrangersInv ==
  \A c \in Clients : thread[c] \in {"absent", "joining"} =>
    /\ ~Contains(clients, c) /\ ~Contains(todo, c)
    /\ socket[c] = <<>> /\ \A k \in Channels : shown[c][k] = 0
    /\ thread[c] = "absent" => ~open[c]

\* Who is registered, sent to and greeted.
RegisterInv ==
  /\ open \in [Clients -> BOOLEAN]
  /\ thread \in [Clients -> ThreadState]
  /\ ListsInv /\ LockInv /\ StrangersInv
  /\ \A c \in Clients : Joined(c) => Contains(clients, c)

\* What c is still to be sent of what was kept when it was added.
Greets(c) == IF thread[c] = "greeting" THEN greeting ELSE <<>>

\* From what the browser shows, or where it began, the messages sent to it, those of
\* its greeting and those that are pending follow each other without a gap.
Unbroken(k, shows, sending, greets, pending, newest, upTo) ==
  \E lo, x, y \in Nat :
    /\ Carries(k, sending, lo, x) /\ Carries(k, greets, x, y) /\ Carries(k, pending, y, upTo)
    /\ shows \in {0, lo}
    /\ shows = 0 => lo < newest \/ newest = 0

\* To every registered browser an unbroken run is on its way, on every channel.
ClientInv ==
  /\ greeting \in Seq(Packet)
  /\ socket \in [Clients -> Seq(Packet)]
  /\ shown \in [Clients -> [Channels -> Nat]]
  /\ \A c \in Clients : Joined(c) => \A k \in Channels :
       Unbroken(k, shown[c][k], socket[c], Greets(c), Pending(c), produced[k], ReadTo(k))

WayInv == FlowInv /\ HubInv /\ RegisterInv /\ ClientInv

------------------------------------------------------------------------------
(* What the invariant says *)

\* Nothing completes nothing.
LEMMA CompleteNone == Complete(<<>>) = <<>>
<1> DEFINE step(f) == [i \in 0 .. Len(<<>>) |->
                         IF i = 0 THEN <<>>
                         ELSE IF <<>>[i].last THEN Append(f[i - 1], <<>>[i].number)
                         ELSE f[i - 1]]
           w == [i \in 0 .. 0 |-> <<>>]
           all == CHOOSE f : f = step(f)
<1>1. Len(<<>>) = 0 /\ \A i \in 0 .. 0 : i = 0
  OBVIOUS
<1>2. w = step(w)
  BY <1>1
<1>3. all = step(all)
  BY <1>2
<1>4. Complete(<<>>) = all[Len(<<>>)]
  BY DEF Complete
<1> HIDE DEF all
<1>5. all[0] = <<>>
  BY <1>1, <1>3
<1> QED BY <1>1, <1>4, <1>5

\* What flows completes the messages up to the newest.
LEMMA FlowComplete ==
  ASSUME NEW k, NEW newest \in Nat, NEW s, Flowing(k, s, newest)
  PROVE  /\ Before(s, newest) \in Nat /\ Before(s, newest) <= newest
         /\ Complete(s) = Run(Before(s, newest), newest)
<1>1. Before(s, newest) \in Nat /\ Before(s, newest) <= newest
  BY BeforeIs
<1>2. CASE s = <<>>
  <2>1. Before(s, newest) = newest
    BY <1>2 DEF Before
  <2> QED BY <1>1, <1>2, <2>1, CompleteNone, RunNone
<1>3. CASE s # <<>>
  <2>1. s \in Seq(PipePiece) /\ InOrder(s) /\ s[Len(s)].last /\ s[Len(s)].number = newest
    BY <1>3 DEF Flowing
  <2>2. Complete(s) = Run(s[1].number - 1, Begun(s[Len(s)]))
    BY <1>3, <2>1, CompleteRun
  <2>3. Begun(s[Len(s)]) = newest /\ Before(s, newest) = s[1].number - 1
    BY <1>3, <2>1 DEF Begun, Before
  <2> QED BY <1>1, <2>2, <2>3
<1> QED BY <1>2, <1>3

\* What is on the way to a registered client is one run of messages.
LEMMA OnTheWayRun ==
  ASSUME WayInv, NEW c \in Clients, Joined(c), NEW k \in Channels
  PROVE  \E z \in Nat : /\ z <= produced[k] /\ OnTheWay(c, k) = Run(z, produced[k])
                        /\ z = produced[k] => z = 0
<1> DEFINE p == produced[k]
           r == ReadTo(k)
<1>1. p \in Nat /\ Flowing(k, Flow(k), p)
  BY DEF WayInv, FlowInv
<1>2. r \in Nat /\ r <= p /\ Complete(Flow(k)) = Run(r, p)
  BY <1>1, FlowComplete DEF ReadTo
<1>3. Complete(partial[k] \o channel[k] \o Unwritten(k)) = Run(r, p)
  BY <1>2 DEF Flow
<1> HIDE DEF p, r
<1>4. PICK lo \in Nat, x \in Nat, y \in Nat :
        /\ Carries(k, socket[c], lo, x) /\ Carries(k, Greets(c), x, y)
        /\ Carries(k, Pending(c), y, r)
        /\ shown[c][k] \in {0, lo}
        /\ shown[c][k] = 0 => lo < p \/ p = 0
  BY DEF WayInv, ClientInv, Unbroken, p, r
<1>5. /\ socket[c] \in Seq(Packet) /\ greeting \in Seq(Packet)
      /\ Greets(c) \in Seq(Packet) /\ Pending(c) \in Seq(Packet)
  <2>1. socket[c] \in Seq(Packet) /\ greeting \in Seq(Packet) /\ queue \in Seq(Packet)
    BY DEF WayInv, ClientInv, HubInv
  <2>2. <<>> \in Seq(Packet)
    BY EmptySeq
  <2>3. queue # <<>> => Tail(queue) \in Seq(Packet)
    BY <2>1, HeadTailProperties
  <2>4. todo # <<>> => queue # <<>>
    BY DEF WayInv, RegisterInv, LockInv
  <2> QED BY <2>1, <2>2, <2>3, <2>4 DEF Greets, Pending
<1>6. lo <= x /\ x <= y /\ y <= r
  BY <1>4, <1>5, CarriesBounds
<1>7. Of(k, socket[c]) = Run(lo, x)
  BY <1>4, <1>5, OfRun
<1>8. (IF thread[c] = "greeting" THEN Of(k, greeting) ELSE <<>>) = Run(x, y)
  <2>1. CASE thread[c] = "greeting"
    <3>1. Carries(k, greeting, x, y)
      BY <1>4, <2>1 DEF Greets
    <3> QED BY <1>5, <2>1, <3>1, OfRun
  <2>2. CASE thread[c] # "greeting"
    <3>1. Carries(k, <<>>, x, y)
      BY <1>4, <2>2 DEF Greets
    <3>2. x = y
      BY <3>1, CarriesNoneOnly
    <3> QED BY <2>2, <3>2, RunNone
  <2> QED BY <2>1, <2>2
<1>9. Of(k, Pending(c)) = Run(y, r)
  BY <1>2, <1>4, <1>5, OfRun
<1>10. PICK z \in Nat : /\ z <= lo /\ (z = p => z = 0)
                        /\ (IF shown[c][k] = 0 THEN <<>> ELSE <<shown[c][k]>>) = Run(z, lo)
  <2>1. CASE shown[c][k] = 0
    <3>1. lo = p => lo = 0
      BY <1>1, <1>4, <2>1 DEF p
    <3> QED BY <2>1, <3>1, RunNone
  <2>2. CASE shown[c][k] # 0
    <3>1. shown[c][k] = lo /\ lo # 0
      BY <1>4, <2>2
    <3> DEFINE z == lo - 1
    <3>2. z \in Nat /\ z + 1 = lo /\ z <= lo
      BY <3>1
    <3>3. z < p
      BY <1>1, <1>2, <1>6, <3>2 DEF p
    <3>4. z # p
      BY <1>1, <3>2, <3>3 DEF p
    <3> HIDE DEF z
    <3>5. <<z + 1>> = Run(z, z + 1)
      BY <3>2, RunOne
    <3>6. <<lo>> = Run(z, lo)
      BY <3>2, <3>5
    <3> QED BY <2>2, <3>1, <3>2, <3>4, <3>6
  <2> QED BY <2>1, <2>2
<1>11. OnTheWay(c, k) = (((Run(z, lo) \o Run(lo, x)) \o Run(x, y)) \o Run(y, r)) \o Run(r, p)
  BY <1>3, <1>7, <1>8, <1>9, <1>10 DEF OnTheWay
<1>12. z <= x /\ z <= y /\ z <= r /\ z <= p /\ p \in Nat
  BY <1>1, <1>2, <1>6, <1>10 DEF p
<1>13. Run(z, lo) \o Run(lo, x) = Run(z, x)
  BY <1>6, <1>10, RunConcat
<1>14. Run(z, x) \o Run(x, y) = Run(z, y)
  BY <1>6, <1>12, RunConcat
<1>15. Run(z, y) \o Run(y, r) = Run(z, r)
  BY <1>2, <1>6, <1>12, RunConcat
<1>16. Run(z, r) \o Run(r, p) = Run(z, p)
  BY <1>2, <1>12, RunConcat
<1>17. OnTheWay(c, k) = Run(z, p)
  BY <1>11, <1>13, <1>14, <1>15, <1>16
<1> QED BY <1>10, <1>12, <1>17 DEF p

\* The property: of the newest messages, as many as are on the way.
LEMMA WayIsWhole == WayInv => NothingIsLostOnTheWay
<1> SUFFICES ASSUME WayInv, NEW c \in Clients, open[c], thread[c] # "joining"
             PROVE  /\ Contains(clients, c)
                    /\ \A k \in Channels :
                         LET run == OnTheWay(c, k)
                         IN  /\ run = [i \in 1 .. Len(run) |-> produced[k] - Len(run) + i]
                             /\ run = <<>> => produced[k] = 0
  BY DEF NothingIsLostOnTheWay
<1>1. Joined(c)
  BY DEF WayInv, RegisterInv, StrangersInv, Joined
<1>2. Contains(clients, c)
  BY <1>1 DEF WayInv, RegisterInv
<1>3. ASSUME NEW k \in Channels
      PROVE  LET run == OnTheWay(c, k)
             IN  /\ run = [i \in 1 .. Len(run) |-> produced[k] - Len(run) + i]
                 /\ run = <<>> => produced[k] = 0
  <2> DEFINE run == OnTheWay(c, k)
             p == produced[k]
  <2>1. p \in Nat
    BY DEF WayInv, FlowInv
  <2>2. PICK z \in Nat : z <= p /\ run = Run(z, p) /\ (z = p => z = 0)
    BY <1>1, OnTheWayRun
  <2> HIDE DEF run, p
  <2>3. Len(run) = p - z
    BY <2>1, <2>2, RunIs
  <2>4. \A i \in 1 .. p - z : p - (p - z) + i = z + i
    BY <2>1, <2>2
  <2>5. run = [i \in 1 .. Len(run) |-> p - Len(run) + i]
    <3>1. run = [i \in 1 .. p - z |-> z + i]
      BY <2>2 DEF Run
    <3>2. [i \in 1 .. p - z |-> p - (p - z) + i] = [i \in 1 .. p - z |-> z + i]
      BY <2>4
    <3> QED BY <2>3, <3>1, <3>2
  <2>6. run = <<>> => p = 0
    <3>1. Len(<<>>) = 0
      OBVIOUS
    <3> QED BY <2>1, <2>2, <2>3, <3>1
  <2> QED BY <2>5, <2>6 DEF run, p
<1> QED BY <1>2, <1>3

\* What only the parent writes to and the reader reads from.
flowVars == <<produced, writing, channel, partial>>

------------------------------------------------------------------------------
(* What steps leave alone *)

\* On every channel the bridge has read as far as before, and nothing new has begun.
SameFlow == \A k \in Channels : ReadTo(k)' = ReadTo(k) /\ produced'[k] = produced[k]

\* A step that neither writes nor reads a pipe leaves what flows as it is.
LEMMA FlowSame ==
  ASSUME UNCHANGED flowVars
  PROVE  /\ FlowInv => FlowInv'
         /\ \A k : Flow(k)' = Flow(k) /\ ReadTo(k)' = ReadTo(k)
         /\ SameFlow
<1>1. \A k : Flow(k)' = Flow(k)
  BY DEF Flow, Unwritten, flowVars
<1>2. \A k : ReadTo(k)' = ReadTo(k)
  BY <1>1 DEF ReadTo, flowVars
<1>3. FlowInv => FlowInv'
  BY <1>1 DEF FlowInv, flowVars
<1>4. SameFlow
  BY <1>2 DEF SameFlow, flowVars
<1> QED BY <1>1, <1>2, <1>3, <1>4

\* A step that keeps nothing new and takes nothing to keep leaves the backlogs as they are.
LEMMA HubSame ==
  ASSUME HubInv, UNCHANGED kept, \A k \in Channels : ReadTo(k)' = ReadTo(k),
         queue' \in Seq(Packet), Unkept' = Unkept
  PROVE  HubInv'
<1>1. \A k \in Channels : KeptRun(k, kept[k], Unkept, ReadTo(k))'
  <2> TAKE k \in Channels
  <2>1. KeptRun(k, kept[k], Unkept, ReadTo(k))
    BY DEF HubInv
  <2> QED BY <2>1 DEF KeptRun
<1> QED BY <1>1 DEF HubInv

\* What is on the way to client c stays as it is.
SameWay(c) ==
  /\ shown'[c] = shown[c] /\ socket'[c] = socket[c]
  /\ Greets(c)' = Greets(c) /\ Pending(c)' = Pending(c)

\* All that is on the way to client c.
Way(c) ==
  \A k \in Channels :
    Unbroken(k, shown[c][k], socket[c], Greets(c), Pending(c), produced[k], ReadTo(k))

\* Then it is still unbroken.
LEMMA WaySame ==
  ASSUME NEW c, Way(c), SameFlow, SameWay(c)
  PROVE  Way(c)'
<1>1. \A k \in Channels :
        Unbroken(k, shown[c][k], socket[c], Greets(c), Pending(c), produced[k], ReadTo(k))'
  <2> TAKE k \in Channels
  <2>1. Unbroken(k, shown[c][k], socket[c], Greets(c), Pending(c), produced[k], ReadTo(k))
    BY DEF Way
  <2>2. /\ shown'[c][k] = shown[c][k] /\ produced'[k] = produced[k] /\ ReadTo(k)' = ReadTo(k)
        /\ socket'[c] = socket[c] /\ Greets(c)' = Greets(c) /\ Pending(c)' = Pending(c)
    BY DEF SameWay, SameFlow
  <2> QED BY <2>1, <2>2 DEF Unbroken
<1> QED BY <1>1 DEF Way

\* Steps beside the way: they change the state of a thread that stays registered.
LEMMA Beside ==
  ASSUME WayInv, UNCHANGED <<flowVars, queue, todo, clients, kept, greeting, socket, shown, open>>,
         thread' \in [Clients -> ThreadState],
         \A c \in Clients : thread'[c] = thread[c] \/
           {thread[c], thread'[c]} \subseteq ThreadState \ {"absent", "joining", "greeting"}
  PROVE  WayInv'
<1>1. FlowInv'
  BY FlowSame DEF WayInv
<1>2. Unkept' = Unkept
  BY DEF Unkept
<1>3. HubInv'
  BY <1>2, FlowSame, HubSame DEF WayInv, HubInv
<1>4. \A c \in Clients : /\ (thread'[c] = "greeting") <=> (thread[c] = "greeting")
                         /\ (thread'[c] = "absent") <=> (thread[c] = "absent")
                         /\ (thread'[c] = "joining") <=> (thread[c] = "joining")
  OBVIOUS
<1>5. \A c \in Clients : Joined(c)' <=> Joined(c)
  BY <1>4 DEF Joined
<1>6. ListsInv' /\ LockInv' /\ StrangersInv'
  <2>1. ListsInv'
    BY DEF WayInv, RegisterInv, ListsInv, NoRepeat
  <2>2. LockInv'
    BY <1>4 DEF WayInv, RegisterInv, LockInv
  <2>3. StrangersInv'
    BY <1>4 DEF WayInv, RegisterInv, StrangersInv, Contains
  <2> QED BY <2>1, <2>2, <2>3
<1>7. RegisterInv'
  BY <1>5, <1>6 DEF WayInv, RegisterInv, Contains
<1>8. \A c \in Clients : SameWay(c)
  BY <1>4 DEF SameWay, Greets, Pending, Contains
<1>9. ClientInv'
  <2>1. \A c \in Clients : Joined(c)' => Way(c)'
    BY <1>5, <1>8, FlowSame, WaySame DEF WayInv, ClientInv, Way
  <2> QED BY <2>1 DEF WayInv, ClientInv, Way
<1> QED BY <1>1, <1>3, <1>7, <1>9 DEF WayInv

------------------------------------------------------------------------------
(* The parent *)

\* A message that has been begun is on its way.
LEMMA BeginKeeps ==
  ASSUME WayInv, NEW k \in Channels, ParentBegins(k)
  PROVE  WayInv'
<1> DEFINE n == produced[k]
           p == Pieces(k, n + 1)
<1>1. /\ writing = <<>> /\ produced' = [produced EXCEPT ![k] = n + 1]
      /\ writing' = Pieces(k, produced'[k])
      /\ UNCHANGED <<channel, partial, queue, todo, clients, kept, thread, greeting,
                     socket, open, shown>>
  BY DEF ParentBegins, readerVars, hubVars, threadVars, browserVars
<1>2. n \in Nat /\ produced' \in [Channels -> Nat] /\ produced'[k] = n + 1
  BY <1>1 DEF WayInv, FlowInv
<1>3. writing' = p
  BY <1>1, <1>2
<1> HIDE DEF n
<1>4. /\ p \in Seq(PipePiece) /\ p # <<>> /\ Head(p).channel = k
      /\ \A i \in 1 .. Len(p) : p[i].channel = k
      /\ p[1].channel = k
  <2> DEFINE piece(last) == [channel |-> k, number |-> n + 1, last |-> last]
  <2>1. piece(TRUE) \in PipePiece /\ piece(FALSE) \in PipePiece
    BY <1>2 DEF PipePiece
  <2>2. p = IF k = "terminal" THEN <<piece(TRUE)>> ELSE <<piece(FALSE), piece(TRUE)>>
    BY DEF Pieces
  <2>3. piece(TRUE).channel = k /\ piece(FALSE).channel = k
    OBVIOUS
  <2> HIDE DEF p, piece
  <2>4. \A x, y \in PipePiece :
          /\ <<x>> \in Seq(PipePiece) /\ Len(<<x>>) = 1 /\ <<x>>[1] = x
          /\ <<x, y>> \in Seq(PipePiece) /\ Len(<<x, y>>) = 2
          /\ <<x, y>>[1] = x /\ <<x, y>>[2] = y
          /\ Head(<<x>>) = x /\ Head(<<x, y>>) = x /\ <<x>> # <<>> /\ <<x, y>> # <<>>
    OBVIOUS
  <2>5. \A i \in 1 .. 1 : i = 1
    OBVIOUS
  <2>6. \A i \in 1 .. 2 : i = 1 \/ i = 2
    OBVIOUS
  <2>7. CASE k = "terminal"
    BY <2>1, <2>2, <2>3, <2>4, <2>5, <2>7
  <2>8. CASE k # "terminal"
    <3>1. p = <<piece(FALSE), piece(TRUE)>>
      BY <2>2, <2>8
    <3>2. /\ p \in Seq(PipePiece) /\ Len(p) = 2 /\ p[1] = piece(FALSE) /\ p[2] = piece(TRUE)
          /\ Head(p) = piece(FALSE) /\ p # <<>>
      BY <2>1, <2>4, <3>1
    <3> QED BY <2>3, <2>6, <3>2
  <2> QED BY <2>7, <2>8
<1> HIDE DEF p
<1>5. \A j \in Channels : Unwritten(j) = <<>> /\ Unwritten(j)' = IF j = k THEN p ELSE <<>>
  BY <1>1, <1>3, <1>4 DEF Unwritten
<1>6. \A j \in Channels : /\ partial[j] \in Seq(PipePiece) /\ channel[j] \in Seq(PipePiece)
                          /\ partial[j] \o channel[j] \in Seq(PipePiece)
  BY ConcatProperties DEF WayInv, FlowInv
<1>7. \A j \in Channels : Flow(j) = partial[j] \o channel[j]
  BY <1>5, <1>6, ConcatEmptySeq DEF Flow
<1>8. Flow(k)' = Flow(k) \o p
  BY <1>1, <1>5, <1>7 DEF Flow
<1>9. \A j \in Channels \ {k} : Flow(j)' = Flow(j) /\ produced'[j] = produced[j]
  BY <1>1, <1>5 DEF Flow, WayInv, FlowInv
<1>10. /\ Flowing(k, Flow(k)', n + 1)
       /\ Before(Flow(k)', n + 1) = Before(Flow(k), n)
  <2>1. Flowing(k, Flow(k), n)
    BY DEF WayInv, FlowInv, n
  <2> QED BY <1>2, <1>8, <2>1, FlowingMore DEF p
<1>11. \A j \in Channels : Flowing(j, Flow(j)', produced'[j]) /\ ReadTo(j)' = ReadTo(j)
  <2> TAKE j \in Channels
  <2>1. CASE j = k
    BY <1>2, <1>10, <2>1 DEF ReadTo, n
  <2>2. CASE j # k
    BY <1>9, <2>2 DEF ReadTo, WayInv, FlowInv
  <2> QED BY <2>1, <2>2
<1>12. FlowInv'
  BY <1>1, <1>2, <1>3, <1>4, <1>11 DEF WayInv, FlowInv
<1>13. HubInv'
  <2>1. Unkept' = Unkept
    BY <1>1 DEF Unkept
  <2> QED BY <1>1, <1>11, <2>1, HubSame DEF WayInv, HubInv
<1>14. RegisterInv'
  BY <1>1 DEF WayInv, RegisterInv, ListsInv, LockInv, StrangersInv, Joined, NoRepeat, Contains
<1>15. ClientInv'
  <2>1. \A c \in Clients : SameWay(c) /\ (Joined(c)' <=> Joined(c))
    BY <1>1 DEF SameWay, Greets, Pending, Joined, Contains
  <2>2. ASSUME NEW c \in Clients, Joined(c), NEW j \in Channels
        PROVE  Unbroken(j, shown[c][j], socket[c], Greets(c), Pending(c), produced[j], ReadTo(j))'
    <3>1. PICK lo \in Nat, x \in Nat, y \in Nat :
            /\ Carries(j, socket[c], lo, x) /\ Carries(j, Greets(c), x, y)
            /\ Carries(j, Pending(c), y, ReadTo(j))
            /\ shown[c][j] \in {0, lo}
            /\ shown[c][j] = 0 => lo < produced[j] \/ produced[j] = 0
      BY <2>2 DEF WayInv, ClientInv, Unbroken
    <3>2. lo <= ReadTo(j) /\ ReadTo(j) \in Nat /\ ReadTo(j) <= produced[j] /\ produced[j] \in Nat
      <4>1. /\ socket[c] \in Seq(Packet) /\ Greets(c) \in Seq(Packet) /\ Pending(c) \in Seq(Packet)
        <5>1. socket[c] \in Seq(Packet) /\ greeting \in Seq(Packet) /\ queue \in Seq(Packet)
          BY DEF WayInv, ClientInv, HubInv
        <5>2. <<>> \in Seq(Packet)
          BY EmptySeq
        <5>3. queue # <<>> => Tail(queue) \in Seq(Packet)
          BY <5>1, HeadTailProperties
        <5>4. todo # <<>> => queue # <<>>
          BY DEF WayInv, RegisterInv, LockInv
        <5> QED BY <5>1, <5>2, <5>3, <5>4 DEF Greets, Pending
      <4>2. lo <= x /\ x <= y /\ y <= ReadTo(j) /\ ReadTo(j) \in Nat
        BY <3>1, <4>1, CarriesBounds
      <4>3. Flowing(j, Flow(j), produced[j]) /\ produced[j] \in Nat
        BY DEF WayInv, FlowInv
      <4>4. ReadTo(j) <= produced[j]
        BY <4>3, BeforeIs DEF ReadTo
      <4> QED BY <3>1, <4>2, <4>3, <4>4
    <3>3. produced'[j] \in {produced[j], produced[j] + 1}
      BY <1>2, <1>9 DEF n
    <3>4. shown[c][j] = 0 => lo < produced'[j] \/ produced'[j] = 0
      BY <3>1, <3>2, <3>3
    <3>5. /\ shown'[c][j] = shown[c][j] /\ ReadTo(j)' = ReadTo(j)
          /\ socket'[c] = socket[c] /\ Greets(c)' = Greets(c) /\ Pending(c)' = Pending(c)
      BY <1>11, <2>1 DEF SameWay
    <3> QED BY <3>1, <3>4, <3>5 DEF Unbroken
  <2> QED BY <1>1, <2>1, <2>2 DEF WayInv, ClientInv
<1> QED BY <1>12, <1>13, <1>14, <1>15 DEF WayInv

\* A piece that is written stays on its way.
LEMMA WriteKeeps ==
  ASSUME WayInv, ParentWrites
  PROVE  WayInv'
<1> DEFINE w == writing
<1>0. PICK k : k = Head(w).channel
  OBVIOUS
<1>1. /\ w # <<>> /\ channel' = [channel EXCEPT ![k] = Append(@, Head(w))]
      /\ writing' = Tail(w)
      /\ UNCHANGED <<produced, partial, queue, todo, clients, kept, thread, greeting,
                     socket, open, shown>>
  BY <1>0 DEF ParentWrites, readerVars, hubVars, threadVars, browserVars
<1>2. w \in Seq(PipePiece) /\ \A i \in 1 .. Len(w) : w[i].channel = w[1].channel
  BY DEF WayInv, FlowInv
<1>3. /\ Head(w) \in PipePiece /\ Tail(w) \in Seq(PipePiece) /\ Len(Tail(w)) = Len(w) - 1
      /\ \A i \in 1 .. Len(Tail(w)) : Tail(w)[i] = w[i + 1]
      /\ Head(w) = w[1] /\ Len(w) \in Nat \ {0}
  BY <1>1, <1>2, HeadTailProperties, EmptySeq
<1>4. k \in Channels
  BY <1>0, <1>3 DEF PipePiece
<1>5. \A i \in 1 .. Len(Tail(w)) : Tail(w)[i].channel = k
  <2> TAKE i \in 1 .. Len(Tail(w))
  <2>1. i + 1 \in 1 .. Len(w)
    BY <1>3
  <2> QED BY <1>0, <1>2, <1>3, <2>1
<1>6. Tail(w) # <<>> => Head(Tail(w)).channel = k /\ 1 \in 1 .. Len(Tail(w))
  <2> SUFFICES ASSUME Tail(w) # <<>>
               PROVE  Head(Tail(w)).channel = k /\ 1 \in 1 .. Len(Tail(w))
    OBVIOUS
  <2>1. Len(Tail(w)) \in Nat \ {0}
    BY <1>3, EmptySeq
  <2>2. Head(Tail(w)) = Tail(w)[1] /\ 1 \in 1 .. Len(Tail(w))
    BY <1>3, <2>1
  <2> QED BY <1>5, <2>2
<1> HIDE DEF w
<1>7. Unwritten(k) = w /\ Unwritten(k)' = Tail(w)
  BY <1>0, <1>1, <1>6 DEF Unwritten, w
<1>8. \A j \in Channels \ {k} : Unwritten(j) = <<>> /\ Unwritten(j)' = <<>>
  BY <1>0, <1>1, <1>6 DEF Unwritten, w
<1>9. \A j \in Channels : partial[j] \in Seq(PipePiece) /\ channel[j] \in Seq(PipePiece)
  BY DEF WayInv, FlowInv
<1>10. channel'[k] = Append(channel[k], Head(w)) /\ \A j \in Channels \ {k} : channel'[j] = channel[j]
  BY <1>1, <1>4 DEF WayInv, FlowInv
<1>11. Append(channel[k], Head(w)) \in Seq(PipePiece)
  BY <1>3, <1>4, <1>9, AppendProperties
<1>12. (partial[k] \o Append(channel[k], Head(w))) \o Tail(w) = (partial[k] \o channel[k]) \o w
  <2> DEFINE S == PipePiece
             a == partial[k]
             b == channel[k]
             h == Head(w)
             t == Tail(w)
  <2>1. a \in Seq(S) /\ b \in Seq(S) /\ h \in S /\ t \in Seq(S) /\ w \in Seq(S) /\ w # <<>>
    BY <1>1, <1>2, <1>3, <1>4, <1>9 DEF w
  <2>2. w = <<h>> \o t
    <3>1. /\ <<h>> \in Seq(S) /\ Len(<<h>>) = 1 /\ <<h>>[1] = h
      BY <2>1
    <3>2. /\ <<h>> \o t \in Seq(S) /\ Len(<<h>> \o t) = 1 + Len(t)
          /\ \A i \in 1 .. 1 + Len(t) : (<<h>> \o t)[i] = IF i <= 1 THEN <<h>>[i] ELSE t[i - 1]
      BY <2>1, <3>1, ConcatProperties
    <3>3. Len(w) = 1 + Len(t) /\ \A i \in 1 .. Len(w) : w[i] = (<<h>> \o t)[i]
      <4>1. Len(w) = 1 + Len(t)
        BY <1>3
      <4>2. ASSUME NEW i \in 1 .. Len(w) PROVE w[i] = (<<h>> \o t)[i]
        <5>1. CASE i = 1
          BY <1>3, <3>1, <3>2, <4>1, <5>1
        <5>2. CASE i # 1
          <6>1. i - 1 \in 1 .. Len(t) /\ (i - 1) + 1 = i /\ ~(i <= 1)
            BY <1>3, <5>2
          <6> QED BY <1>3, <3>2, <4>1, <6>1
        <5> QED BY <5>1, <5>2
      <4> QED BY <4>1, <4>2
    <3> QED BY <2>1, <3>2, <3>3, SeqEqual
  <2>3. Append(b, h) = b \o <<h>> /\ <<h>> \in Seq(S)
    BY <2>1, AppendIsConcat
  <2> HIDE DEF a, b, h, t
  <2>4. (a \o b) \in Seq(S) /\ b \o <<h>> \in Seq(S)
    BY <2>1, <2>3, ConcatProperties
  <2>5. a \o (b \o <<h>>) = (a \o b) \o <<h>>
    BY <2>1, <2>3, ConcatAssociative
  <2>6. ((a \o b) \o <<h>>) \o t = (a \o b) \o (<<h>> \o t)
    BY <2>1, <2>3, <2>4, ConcatAssociative
  <2>7. (a \o Append(b, h)) \o t = (a \o b) \o w
    BY <2>2, <2>3, <2>5, <2>6
  <2> QED BY <2>7 DEF a, b, h, t
<1>13. \A j \in Channels : Flow(j)' = Flow(j)
  <2> TAKE j \in Channels
  <2>1. CASE j = k
    BY <1>1, <1>7, <1>10, <1>12, <2>1 DEF Flow
  <2>2. CASE j # k
    BY <1>1, <1>8, <1>10, <2>2 DEF Flow
  <2> QED BY <2>1, <2>2
<1>14. \A j \in Channels : ReadTo(j)' = ReadTo(j)
  BY <1>1, <1>13 DEF ReadTo
<1>15. channel' \in [Channels -> Seq(PipePiece)]
  BY <1>1, <1>4, <1>11 DEF WayInv, FlowInv
<1>16. FlowInv'
  <2>1. \A i \in 1 .. Len(Tail(w)) : Tail(w)[i].channel = Tail(w)[1].channel
    <3> TAKE i \in 1 .. Len(Tail(w))
    <3>1. 1 \in 1 .. Len(Tail(w))
      BY <1>3
    <3> QED BY <1>5, <3>1
  <2> QED BY <1>1, <1>3, <1>13, <1>15, <2>1 DEF WayInv, FlowInv
<1>17. HubInv'
  <2>1. Unkept' = Unkept
    BY <1>1 DEF Unkept
  <2> QED BY <1>1, <1>14, <2>1, HubSame DEF WayInv, HubInv
<1>18. RegisterInv'
  BY <1>1 DEF WayInv, RegisterInv, ListsInv, LockInv, StrangersInv, Joined, NoRepeat, Contains
<1>19. ClientInv'
  <2>1. \A c \in Clients : SameWay(c) /\ (Joined(c)' <=> Joined(c))
    BY <1>1 DEF SameWay, Greets, Pending, Joined, Contains
  <2>2. SameFlow
    BY <1>1, <1>14 DEF SameFlow
  <2>3. \A c \in Clients : Joined(c)' => Way(c)'
    BY <2>1, <2>2, WaySame DEF WayInv, ClientInv, Way
  <2> QED BY <1>1, <2>3 DEF WayInv, ClientInv, Way
<1> QED BY <1>16, <1>17, <1>18, <1>19 DEF WayInv

------------------------------------------------------------------------------
(* The register *)

\* Unregistering a client, which is registered once, keeps the others in their places.
LEMMA FirstRemoved ==
  ASSUME NEW s \in Seq(Clients), NoRepeat(s), NEW e
  PROVE  /\ RemoveFirst(s, e) \in Seq(Clients) /\ NoRepeat(RemoveFirst(s, e))
         /\ \A d : Contains(RemoveFirst(s, e), d) => Contains(s, d)
         /\ \A d : d # e /\ Contains(s, d) => Contains(RemoveFirst(s, e), d)
<1> DEFINE n == Len(s)
           at == {i \in 1 .. n : s[i] = e}
           r == RemoveFirst(s, e)
<1>1. n \in Nat /\ \A i \in 1 .. n : s[i] \in Clients
  BY LenProperties, ElementOfSeq
<1>2. CASE \E i \in 1 .. n : s[i] = e
  <2> DEFINE m == Min(at)
             u == SubSeq(s, 1, m - 1)
             v == SubSeq(s, m + 1, n)
  <2>1. SelectInSeq(s, LAMBDA w : w = e) = m
    BY <1>2 DEF SelectInSeq
  <2>2. r = u \o v
    BY <1>2, <2>1 DEF RemoveFirst, RemoveAt
  <2>3. m \in at
    <3>1. at \subseteq Nat /\ at # {}
      BY <1>1, <1>2
    <3>2. PICK z \in at : \A j \in at : z <= j
      BY <3>1, LeastElement
    <3> QED BY <3>2 DEF Min
  <2>4. m \in 1 .. n /\ s[m] = e /\ m - 1 \in Nat /\ m + 1 \in Int /\ n \in Int /\ 1 \in Int
    BY <1>1, <2>3
  <2> HIDE DEF at, m
  <2>5. /\ u \in Seq(Clients) /\ Len(u) = m - 1 /\ \A i \in 1 .. m - 1 : u[i] = s[i]
    <3>1. \A i \in 1 .. m - 1 : s[i] \in Clients
      BY <1>1, <2>4
    <3>2. /\ SubSeq(s, 1, m - 1) \in Seq(Clients)
          /\ Len(SubSeq(s, 1, m - 1)) = IF 1 <= m - 1 THEN (m - 1) - 1 + 1 ELSE 0
          /\ \A i \in 1 .. (m - 1) - 1 + 1 : SubSeq(s, 1, m - 1)[i] = s[1 + i - 1]
      BY <2>4, <3>1, SubSeqProperties
    <3>3. (IF 1 <= m - 1 THEN (m - 1) - 1 + 1 ELSE 0) = m - 1 /\ (m - 1) - 1 + 1 = m - 1
      BY <2>4
    <3>4. \A i \in 1 .. m - 1 : 1 + i - 1 = i
      BY <2>4
    <3> QED BY <3>2, <3>3, <3>4
  <2>6. /\ v \in Seq(Clients) /\ Len(v) = n - m /\ \A i \in 1 .. n - m : v[i] = s[m + i]
    <3>1. \A i \in m + 1 .. n : s[i] \in Clients
      BY <1>1, <2>4
    <3>2. /\ SubSeq(s, m + 1, n) \in Seq(Clients)
          /\ Len(SubSeq(s, m + 1, n)) = IF m + 1 <= n THEN n - (m + 1) + 1 ELSE 0
          /\ \A i \in 1 .. n - (m + 1) + 1 : SubSeq(s, m + 1, n)[i] = s[(m + 1) + i - 1]
      BY <2>4, <3>1, SubSeqProperties
    <3>3. (IF m + 1 <= n THEN n - (m + 1) + 1 ELSE 0) = n - m /\ n - (m + 1) + 1 = n - m
      BY <1>1, <2>4
    <3>4. \A i \in 1 .. n - m : (m + 1) + i - 1 = m + i
      BY <2>4
    <3> QED BY <3>2, <3>3, <3>4
  <2> HIDE DEF u, v
  <2>7. /\ r \in Seq(Clients) /\ Len(r) = n - 1
        /\ \A i \in 1 .. n - 1 : r[i] = s[IF i < m THEN i ELSE i + 1]
    <3>1. /\ u \o v \in Seq(Clients) /\ Len(u \o v) = Len(u) + Len(v)
          /\ \A i \in 1 .. Len(u) + Len(v) :
               (u \o v)[i] = IF i <= Len(u) THEN u[i] ELSE v[i - Len(u)]
      BY <2>5, <2>6, ConcatProperties
    <3>2. Len(u) + Len(v) = n - 1
      BY <1>1, <2>4, <2>5, <2>6
    <3>3. ASSUME NEW i \in 1 .. n - 1 PROVE (u \o v)[i] = s[IF i < m THEN i ELSE i + 1]
      <4>1. CASE i < m
        <5>1. i \in 1 .. m - 1 /\ i <= m - 1
          BY <1>1, <2>4, <4>1
        <5> QED BY <2>5, <3>1, <3>2, <4>1, <5>1
      <4>2. CASE ~(i < m)
        <5>1. i - (m - 1) \in 1 .. n - m /\ ~(i <= m - 1) /\ m + (i - (m - 1)) = i + 1
          BY <1>1, <2>4, <4>2
        <5>2. (u \o v)[i] = v[i - (m - 1)]
          BY <2>5, <3>1, <3>2, <5>1
        <5>3. v[i - (m - 1)] = s[i + 1]
          BY <2>6, <5>1
        <5> QED BY <4>2, <5>2, <5>3
      <4> QED BY <4>1, <4>2
    <3> QED BY <2>2, <3>1, <3>2, <3>3
  <2> HIDE DEF r
  <2>8. NoRepeat(r)
    <3> SUFFICES ASSUME NEW i \in 1 .. n - 1, NEW j \in 1 .. n - 1, r[i] = r[j] PROVE i = j
      BY <2>7 DEF NoRepeat
    <3> DEFINE f(x) == IF x < m THEN x ELSE x + 1
    <3>1. s[f(i)] = s[f(j)]
      BY <2>7
    <3>2. f(i) \in 1 .. n /\ f(j) \in 1 .. n
      BY <1>1, <2>4
    <3>3. f(i) = f(j)
      <4> HIDE DEF f
      <4> QED BY <3>1, <3>2 DEF NoRepeat
    <3> QED BY <2>4, <3>3
  <2>9. \A d : Contains(r, d) => Contains(s, d)
    <3> SUFFICES ASSUME NEW d, NEW i \in 1 .. n - 1, r[i] = d PROVE \E j \in 1 .. n : s[j] = d
      BY <2>7 DEF Contains
    <3>1. (IF i < m THEN i ELSE i + 1) \in 1 .. n
      BY <1>1, <2>4
    <3> QED BY <2>7, <3>1
  <2>10. \A d : d # e /\ Contains(s, d) => Contains(r, d)
    <3> SUFFICES ASSUME NEW d, d # e, NEW i \in 1 .. n, s[i] = d
                 PROVE  \E j \in 1 .. n - 1 : r[j] = d
      BY <2>7 DEF Contains
    <3>1. i # m
      BY <2>4
    <3>2. CASE i < m
      <4>1. i \in 1 .. n - 1
        BY <1>1, <2>4, <3>2
      <4> QED BY <2>7, <3>2, <4>1
    <3>3. CASE ~(i < m)
      <4>1. i - 1 \in 1 .. n - 1 /\ ~(i - 1 < m) /\ (i - 1) + 1 = i
        BY <1>1, <2>4, <3>1, <3>3
      <4> QED BY <2>7, <4>1
    <3> QED BY <3>2, <3>3
  <2> QED BY <2>7, <2>8, <2>9, <2>10 DEF r
<1>3. CASE ~\E i \in 1 .. n : s[i] = e
  BY <1>3 DEF RemoveFirst
<1> QED BY <1>2, <1>3

\* A client that is not registered can be registered once.
LEMMA OneMore ==
  ASSUME NEW s \in Seq(Clients), NoRepeat(s), NEW e \in Clients, ~Contains(s, e)
  PROVE  /\ Append(s, e) \in Seq(Clients) /\ NoRepeat(Append(s, e))
         /\ \A d : Contains(Append(s, e), d) <=> (d = e \/ Contains(s, d))
<1> DEFINE n == Len(s)
           r == Append(s, e)
<1>1. /\ n \in Nat /\ r \in Seq(Clients) /\ Len(r) = n + 1
      /\ \A i \in 1 .. n : r[i] = s[i]
      /\ r[n + 1] = e
  BY LenProperties, AppendProperties
<1> HIDE DEF n, r
<1>2. \A i \in 1 .. n + 1 : i \in 1 .. n \/ i = n + 1
  BY <1>1
<1>3. \A i \in 1 .. n : i \in 1 .. n + 1 /\ s[i] # e
  BY <1>1 DEF Contains, n
<1>4. n + 1 \in 1 .. n + 1
  BY <1>1
<1>5. NoRepeat(r)
  BY <1>1, <1>2, <1>3 DEF NoRepeat, n
<1>6. \A d : Contains(r, d) <=> (d = e \/ Contains(s, d))
  BY <1>1, <1>2, <1>3, <1>4 DEF Contains, n
<1> QED BY <1>1, <1>5, <1>6 DEF r

\* All that is on the way are sequences of messages.
LEMMA WayTypes ==
  ASSUME WayInv
  PROVE  /\ queue \in Seq(Packet) /\ greeting \in Seq(Packet) /\ Unkept \in Seq(Packet)
         /\ \A c \in Clients : /\ socket[c] \in Seq(Packet) /\ Greets(c) \in Seq(Packet)
                               /\ Pending(c) \in Seq(Packet)
<1>1. queue \in Seq(Packet) /\ greeting \in Seq(Packet) /\ \A c \in Clients : socket[c] \in Seq(Packet)
  BY DEF WayInv, ClientInv, HubInv
<1>2. <<>> \in Seq(Packet)
  BY EmptySeq
<1>3. queue # <<>> => Tail(queue) \in Seq(Packet)
  BY <1>1, HeadTailProperties
<1>4. todo # <<>> => queue # <<>>
  BY DEF WayInv, RegisterInv, LockInv
<1> QED BY <1>1, <1>2, <1>3, <1>4 DEF Greets, Pending, Unkept

\* Steps of one client that is not, or no longer, sent anything.
LEMMA Aside ==
  ASSUME WayInv, UNCHANGED <<flowVars, queue, todo, kept, greeting>>, RegisterInv',
         socket' \in [Clients -> Seq(Packet)], shown' \in [Clients -> [Channels -> Nat]],
         NEW c \in Clients, ~Joined(c)',
         \A d \in Clients \ {c} : SameWay(d) /\ (Joined(d)' => Joined(d))
  PROVE  WayInv'
<1>1. FlowInv' /\ SameFlow
  BY FlowSame DEF WayInv
<1>2. HubInv'
  <2>1. Unkept' = Unkept
    BY DEF Unkept
  <2> QED BY <2>1, FlowSame, HubSame DEF WayInv, HubInv
<1>3. ClientInv'
  <2>1. \A d \in Clients : Joined(d)' => Way(d)'
    BY <1>1, WaySame DEF WayInv, ClientInv, Way
  <2> QED BY <2>1 DEF WayInv, ClientInv, Way
<1> QED BY <1>1, <1>2, <1>3 DEF WayInv

\* A browser connects: its thread has yet to register it.
LEMMA ConnectKeeps ==
  ASSUME WayInv, NEW c \in Clients, Connects(c)
  PROVE  WayInv'
<1>1. /\ thread[c] = "absent" /\ open' = [open EXCEPT ![c] = TRUE]
      /\ thread' = [thread EXCEPT ![c] = "joining"]
      /\ UNCHANGED <<flowVars, queue, todo, clients, kept, greeting, socket, shown>>
  BY DEF Connects, flowVars, parentVars, readerVars, hubVars
<1>2. /\ open \in [Clients -> BOOLEAN] /\ thread \in [Clients -> ThreadState]
  BY DEF WayInv, RegisterInv
<1>3. /\ open' \in [Clients -> BOOLEAN] /\ thread' \in [Clients -> ThreadState]
      /\ thread'[c] = "joining"
      /\ \A d \in Clients \ {c} : open'[d] = open[d] /\ thread'[d] = thread[d]
  BY <1>1, <1>2 DEF ThreadState
<1>4. ~Joined(c)' /\ \A d \in Clients \ {c} : Joined(d)' = Joined(d)
  BY <1>3 DEF Joined
<1>5. \A d \in Clients : Pending(d)' = Pending(d) /\ Greets(d)' = Greets(d)
  BY <1>1, <1>3 DEF Pending, Greets, Contains
<1>6. ListsInv'
  BY <1>1 DEF WayInv, RegisterInv, ListsInv, NoRepeat
<1>7. LockInv'
  BY <1>1, <1>3 DEF WayInv, RegisterInv, LockInv
<1>8. StrangersInv'
  BY <1>1, <1>3 DEF WayInv, RegisterInv, StrangersInv, Contains
<1>9. RegisterInv'
  BY <1>1, <1>3, <1>4, <1>6, <1>7, <1>8 DEF WayInv, RegisterInv, Contains
<1> QED BY <1>1, <1>4, <1>5, <1>9, Aside DEF SameWay, WayInv, ClientInv

\* A browser closes: nothing is on the way to it any more.
LEMMA CloseKeeps ==
  ASSUME WayInv, NEW c \in Clients, Closes(c)
  PROVE  WayInv'
<1>1. /\ open' = [open EXCEPT ![c] = FALSE] /\ socket' = [socket EXCEPT ![c] = <<>>]
      /\ shown' = [shown EXCEPT ![c] = [k \in Channels |-> 0]]
      /\ UNCHANGED <<flowVars, queue, todo, clients, kept, greeting, thread>>
  BY DEF Closes, flowVars, parentVars, readerVars, hubVars, threadVars
<1>2. /\ open \in [Clients -> BOOLEAN] /\ socket \in [Clients -> Seq(Packet)]
      /\ shown \in [Clients -> [Channels -> Nat]]
  BY DEF WayInv, RegisterInv, ClientInv
<1>3. /\ open' \in [Clients -> BOOLEAN] /\ ~open'[c]
      /\ \A d \in Clients \ {c} : open'[d] = open[d]
  BY <1>1, <1>2
<1>4. /\ socket' \in [Clients -> Seq(Packet)] /\ socket'[c] = <<>>
      /\ \A d \in Clients \ {c} : socket'[d] = socket[d]
  BY <1>1, <1>2, EmptySeq
<1>5. /\ shown' \in [Clients -> [Channels -> Nat]] /\ \A k \in Channels : shown'[c][k] = 0
      /\ \A d \in Clients \ {c} : shown'[d] = shown[d]
  <2>1. [k \in Channels |-> 0] \in [Channels -> Nat]
    OBVIOUS
  <2> QED BY <1>1, <1>2, <2>1
<1>6. ~Joined(c)' /\ \A d \in Clients \ {c} : Joined(d)' = Joined(d)
  BY <1>1, <1>3 DEF Joined
<1>7. \A d \in Clients : Pending(d)' = Pending(d) /\ Greets(d)' = Greets(d)
  BY <1>1 DEF Pending, Greets, Contains
<1>8. ListsInv' /\ LockInv'
  BY <1>1 DEF WayInv, RegisterInv, ListsInv, NoRepeat, LockInv
<1>9. StrangersInv'
  BY <1>1, <1>3, <1>4, <1>5 DEF WayInv, RegisterInv, StrangersInv, Contains
<1>10. RegisterInv'
  BY <1>1, <1>3, <1>6, <1>8, <1>9 DEF WayInv, RegisterInv, Contains
<1> QED BY <1>1, <1>4, <1>5, <1>6, <1>7, <1>10, Aside DEF SameWay

\* The thread of a client whose browser is gone unregisters it.
LEMMA LeaveKeeps ==
  ASSUME WayInv, NEW c \in Clients, Leaves(c)
  PROVE  WayInv'
<1>1. /\ thread[c] = "serving" /\ ~open[c] /\ clients' = RemoveFirst(clients, c)
      /\ thread' = [thread EXCEPT ![c] = "gone"]
      /\ UNCHANGED <<flowVars, queue, todo, kept, greeting, socket, shown, open>>
  BY DEF Leaves, Ended, flowVars, parentVars, readerVars
<1>2. thread \in [Clients -> ThreadState] /\ clients \in Seq(Clients) /\ NoRepeat(clients)
  BY DEF WayInv, RegisterInv, ListsInv
<1>3. /\ thread' \in [Clients -> ThreadState] /\ thread'[c] = "gone"
      /\ \A d \in Clients \ {c} : thread'[d] = thread[d]
  BY <1>1, <1>2 DEF ThreadState
<1>4. /\ clients' \in Seq(Clients) /\ NoRepeat(clients')
      /\ \A d : Contains(clients', d) => Contains(clients, d)
      /\ \A d : d # c /\ Contains(clients, d) => Contains(clients', d)
  BY <1>1, <1>2, FirstRemoved
<1>5. ~Joined(c)' /\ \A d \in Clients \ {c} : Joined(d)' = Joined(d)
  BY <1>1, <1>3 DEF Joined
<1>6. \A d \in Clients : Pending(d)' = Pending(d) /\ Greets(d)' = Greets(d)
  BY <1>1, <1>3 DEF Pending, Greets, Contains
<1>7. ListsInv'
  BY <1>1, <1>4 DEF WayInv, RegisterInv, ListsInv, NoRepeat
<1>8. LockInv'
  BY <1>1, <1>3 DEF WayInv, RegisterInv, LockInv
<1>9. StrangersInv'
  <2> SUFFICES ASSUME NEW d \in Clients, thread'[d] \in {"absent", "joining"}
               PROVE  /\ ~Contains(clients', d) /\ ~Contains(todo, d)
                      /\ socket[d] = <<>> /\ \A k \in Channels : shown[d][k] = 0
                      /\ thread'[d] = "absent" => ~open[d]
    BY <1>1 DEF StrangersInv, Contains
  <2>1. d # c /\ thread'[d] = thread[d]
    BY <1>3
  <2> QED BY <1>4, <2>1 DEF WayInv, RegisterInv, StrangersInv
<1>10. \A d \in Clients : Joined(d)' => Contains(clients', d)
  BY <1>4, <1>5 DEF WayInv, RegisterInv
<1>11. RegisterInv'
  BY <1>1, <1>3, <1>7, <1>8, <1>9, <1>10 DEF WayInv, RegisterInv, Contains
<1> QED BY <1>1, <1>5, <1>6, <1>11, Aside DEF SameWay, WayInv, ClientInv

------------------------------------------------------------------------------
(* The clients *)

\* What is sent moves from what was to be sent next to the end of what was sent.
LEMMA MovesOn ==
  ASSUME NEW k, NEW a \in Seq(Packet), NEW b \in Seq(Packet), b # <<>>,
         NEW lo, NEW x, NEW y, Carries(k, a, lo, x), Carries(k, b, x, y)
  PROVE  \E mid \in Nat : Carries(k, Append(a, Head(b)), lo, mid) /\ Carries(k, Tail(b), mid, y)
<1>1. PICK mid \in Nat : Steps(k, Head(b), x, mid) /\ Carries(k, Tail(b), mid, y)
  BY CarriesTail
<1>2. Head(b) \in Packet
  BY HeadTailProperties
<1>3. Carries(k, Append(a, Head(b)), lo, mid)
  BY <1>1, <1>2, CarriesAppend
<1> QED BY <1>1, <1>3

\* Only client c is sent something, and for it the run stays unbroken.
LEMMA OneWay ==
  ASSUME WayInv, SameFlow, greeting' \in Seq(Packet),
         socket' \in [Clients -> Seq(Packet)], shown' \in [Clients -> [Channels -> Nat]],
         NEW c \in Clients, Joined(c)' => Way(c)',
         \A d \in Clients \ {c} : (Joined(d)' => Joined(d)) /\ (Joined(d) => SameWay(d))
  PROVE  ClientInv'
<1>1. \A d \in Clients : Joined(d)' => Way(d)'
  BY WaySame DEF WayInv, ClientInv, Way
<1> QED BY <1>1 DEF ClientInv, Way

\* A browser shows the next message: what it shows and what is on the way still join.
LEMMA ReceiveKeeps ==
  ASSUME WayInv, NEW c \in Clients, Receives(c)
  PROVE  WayInv'
<1> DEFINE m == Head(socket[c])
           ch == m.channel
           v == Last(m.numbers)
<1>1. /\ open[c] /\ socket[c] # <<>>
      /\ shown' = [shown EXCEPT ![c][ch] = v]
      /\ socket' = [socket EXCEPT ![c] = Tail(@)]
      /\ UNCHANGED <<flowVars, queue, todo, clients, kept, thread, greeting, open>>
  BY DEF Receives, flowVars, parentVars, readerVars, hubVars, threadVars
<1>2. /\ socket \in [Clients -> Seq(Packet)] /\ shown \in [Clients -> [Channels -> Nat]]
      /\ greeting \in Seq(Packet) /\ socket[c] \in Seq(Packet)
  BY DEF WayInv, ClientInv
<1>3. m \in Packet /\ Tail(socket[c]) \in Seq(Packet)
  BY <1>1, <1>2, HeadTailProperties
<1>4. ch \in Channels
  BY <1>3 DEF Packet
<1>5. Joined(c)
  BY <1>1 DEF WayInv, RegisterInv, StrangersInv, Joined
<1>6. \A k \in Channels : \E lo, mid, x, y \in Nat :
        /\ Steps(k, m, lo, mid)
        /\ Carries(k, Tail(socket[c]), mid, x) /\ Carries(k, Greets(c), x, y)
        /\ Carries(k, Pending(c), y, ReadTo(k))
        /\ shown[c][k] \in {0, lo}
        /\ shown[c][k] = 0 => lo < produced[k] \/ produced[k] = 0
  <2> TAKE k \in Channels
  <2>1. PICK lo \in Nat, x \in Nat, y \in Nat :
          /\ Carries(k, socket[c], lo, x) /\ Carries(k, Greets(c), x, y)
          /\ Carries(k, Pending(c), y, ReadTo(k))
          /\ shown[c][k] \in {0, lo}
          /\ shown[c][k] = 0 => lo < produced[k] \/ produced[k] = 0
    BY <1>5 DEF WayInv, ClientInv, Unbroken
  <2>2. PICK mid \in Nat : Steps(k, m, lo, mid) /\ Carries(k, Tail(socket[c]), mid, x)
    BY <1>1, <1>2, <2>1, CarriesTail
  <2> QED BY <2>1, <2>2
<1>7. v \in Nat /\ v # 0
  <2>1. PICK lo \in Nat, mid \in Nat : Steps(ch, m, lo, mid)
    BY <1>4, <1>6
  <2>2. lo < mid /\ m.numbers = Run(lo, mid)
    BY <2>1 DEF Steps
  <2>3. v = mid
    BY <2>2, RunSome
  <2> QED BY <2>2, <2>3
<1> HIDE DEF m, ch, v
<1>8. /\ shown' \in [Clients -> [Channels -> Nat]] /\ shown'[c] = [shown[c] EXCEPT ![ch] = v]
      /\ \A d \in Clients \ {c} : shown'[d] = shown[d]
  BY <1>1, <1>2, <1>4, <1>7
<1>9. /\ socket' \in [Clients -> Seq(Packet)] /\ socket'[c] = Tail(socket[c])
      /\ \A d \in Clients \ {c} : socket'[d] = socket[d]
  BY <1>1, <1>2, <1>3
<1>10. \A d \in Clients : /\ Joined(d)' = Joined(d)
                          /\ Pending(d)' = Pending(d) /\ Greets(d)' = Greets(d)
  BY <1>1 DEF Joined, Pending, Greets, Contains
<1>11. FlowInv' /\ SameFlow /\ \A k : ReadTo(k)' = ReadTo(k)
  BY <1>1, FlowSame DEF WayInv
<1>12. HubInv'
  <2>1. Unkept' = Unkept
    BY <1>1 DEF Unkept
  <2> QED BY <1>1, <1>11, <2>1, HubSame DEF WayInv, HubInv
<1>13. RegisterInv'
  <2>1. ListsInv' /\ LockInv'
    BY <1>1 DEF WayInv, RegisterInv, ListsInv, NoRepeat, LockInv
  <2>2. StrangersInv'
    <3>1. \A d \in Clients : thread[d] \in {"absent", "joining"} => d # c
      BY <1>5 DEF Joined
    <3> QED BY <1>1, <1>8, <1>9, <3>1 DEF WayInv, RegisterInv, StrangersInv, Contains
  <2> QED BY <1>1, <1>10, <2>1, <2>2 DEF WayInv, RegisterInv, Contains
<1>14. Way(c)'
  <2>1. ASSUME NEW k \in Channels
        PROVE  Unbroken(k, shown'[c][k], socket'[c], Greets(c)', Pending(c)', produced'[k], ReadTo(k)')
    <3>1. PICK lo \in Nat, mid \in Nat, x \in Nat, y \in Nat :
            /\ Steps(k, m, lo, mid)
            /\ Carries(k, Tail(socket[c]), mid, x) /\ Carries(k, Greets(c), x, y)
            /\ Carries(k, Pending(c), y, ReadTo(k))
            /\ shown[c][k] \in {0, lo}
            /\ shown[c][k] = 0 => lo < produced[k] \/ produced[k] = 0
      BY <1>6
    <3>2. /\ Carries(k, socket'[c], mid, x) /\ Carries(k, Greets(c)', x, y)
          /\ Carries(k, Pending(c)', y, ReadTo(k)') /\ produced'[k] = produced[k]
      BY <1>1, <1>9, <1>10, <1>11, <3>1 DEF flowVars
    <3>3. /\ shown'[c][k] \in {0, mid}
          /\ shown'[c][k] = 0 => mid < produced[k] \/ produced[k] = 0
      <4>1. CASE k = ch
        <5>1. lo < mid /\ m.numbers = Run(lo, mid)
          BY <3>1, <4>1 DEF Steps, ch
        <5>2. v = mid
          BY <5>1, RunSome DEF v
        <5>3. shown'[c][k] = v
          BY <1>2, <1>8, <4>1
        <5> QED BY <1>7, <5>2, <5>3
      <4>2. CASE k # ch
        <5>1. lo = mid
          BY <3>1, <4>2 DEF Steps, ch
        <5>2. shown'[c][k] = shown[c][k]
          BY <1>2, <1>8, <4>2
        <5> QED BY <3>1, <5>1, <5>2
      <4> QED BY <4>1, <4>2
    <3> QED BY <3>2, <3>3 DEF Unbroken
  <2> QED BY <2>1 DEF Way
<1>15. ClientInv'
  <2>1. \A d \in Clients \ {c} : SameWay(d)
    BY <1>8, <1>9, <1>10 DEF SameWay
  <2>2. greeting' \in Seq(Packet)
    BY <1>1, <1>2
  <2> QED BY <1>8, <1>9, <1>10, <1>11, <1>14, <2>1, <2>2, OneWay
<1> QED BY <1>11, <1>12, <1>13, <1>15 DEF WayInv

\* A message of the greeting of a new client is sent.
LEMMA GreetKeeps ==
  ASSUME WayInv, NEW c \in Clients, Greeted(c)
  PROVE  WayInv'
<1>1. /\ thread[c] = "greeting" /\ Send(c, Head(greeting)) /\ greeting' = Tail(greeting)
      /\ thread' = [thread EXCEPT ![c] = IF greeting' = <<>> THEN "serving" ELSE "greeting"]
      /\ UNCHANGED <<flowVars, queue, todo, clients, kept, shown, open>>
  BY DEF Greeted, flowVars, parentVars, readerVars, hubVars, browserVars
<1>2. /\ greeting \in Seq(Packet) /\ socket \in [Clients -> Seq(Packet)]
      /\ thread \in [Clients -> ThreadState]
  BY DEF WayInv, ClientInv, RegisterInv
<1>3. /\ greeting # <<>> /\ todo = <<>>
      /\ \A d \in Clients \ {c} : thread[d] # "greeting"
  BY <1>1 DEF WayInv, RegisterInv, LockInv
<1>4. Head(greeting) \in Packet /\ greeting' \in Seq(Packet)
  BY <1>1, <1>2, <1>3, HeadTailProperties
<1>5. /\ thread' \in [Clients -> ThreadState]
      /\ thread'[c] = IF greeting' = <<>> THEN "serving" ELSE "greeting"
      /\ \A d \in Clients \ {c} : thread'[d] = thread[d]
  BY <1>1, <1>2 DEF ThreadState
<1>6. /\ socket' \in [Clients -> Seq(Packet)]
      /\ \A d \in Clients \ {c} : socket'[d] = socket[d]
      /\ open[c] => socket'[c] = Append(socket[c], Head(greeting))
  <2>1. Append(socket[c], Head(greeting)) \in Seq(Packet)
    BY <1>2, <1>4, AppendProperties
  <2> QED BY <1>1, <1>2, <2>1 DEF Send
<1>7. Greets(c) = greeting /\ Greets(c)' = Tail(greeting)
  BY <1>1, <1>5 DEF Greets
<1>8. \A d \in Clients : Joined(d)' = Joined(d) /\ Pending(d)' = Pending(d)
  BY <1>1, <1>5 DEF Joined, Pending, Contains
<1>9. \A d \in Clients \ {c} : SameWay(d)
  BY <1>1, <1>3, <1>5, <1>6, <1>8 DEF SameWay, Greets
<1>10. FlowInv' /\ SameFlow /\ \A k : ReadTo(k)' = ReadTo(k)
  BY <1>1, FlowSame DEF WayInv
<1>11. HubInv'
  <2>1. Unkept' = Unkept
    BY <1>1 DEF Unkept
  <2> QED BY <1>1, <1>10, <2>1, HubSame DEF WayInv, HubInv
<1>12. RegisterInv'
  <2>1. ListsInv'
    BY <1>1 DEF WayInv, RegisterInv, ListsInv, NoRepeat
  <2>2. LockInv'
    BY <1>1, <1>3, <1>5 DEF LockInv
  <2>3. StrangersInv'
    <3> SUFFICES ASSUME NEW d \in Clients, thread'[d] \in {"absent", "joining"}
                 PROVE  /\ ~Contains(clients, d) /\ ~Contains(todo, d)
                        /\ socket'[d] = <<>> /\ \A k \in Channels : shown[d][k] = 0
                        /\ thread'[d] = "absent" => ~open[d]
      BY <1>1 DEF StrangersInv, Contains
    <3>1. d # c /\ thread'[d] = thread[d] /\ socket'[d] = socket[d]
      BY <1>5, <1>6
    <3> QED BY <3>1 DEF WayInv, RegisterInv, StrangersInv
  <2> QED BY <1>1, <1>5, <1>8, <2>1, <2>2, <2>3 DEF WayInv, RegisterInv, Contains
<1>13. Joined(c)' => Way(c)'
  <2> SUFFICES ASSUME Joined(c) PROVE Way(c)'
    BY <1>8
  <2>1. ASSUME NEW k \in Channels
        PROVE  Unbroken(k, shown'[c][k], socket'[c], Greets(c)', Pending(c)', produced'[k], ReadTo(k)')
    <3>1. PICK lo \in Nat, x \in Nat, y \in Nat :
            /\ Carries(k, socket[c], lo, x) /\ Carries(k, greeting, x, y)
            /\ Carries(k, Pending(c), y, ReadTo(k))
            /\ shown[c][k] \in {0, lo}
            /\ shown[c][k] = 0 => lo < produced[k] \/ produced[k] = 0
      BY <1>7 DEF WayInv, ClientInv, Unbroken
    <3>2. PICK mid \in Nat : /\ Carries(k, Append(socket[c], Head(greeting)), lo, mid)
                             /\ Carries(k, Tail(greeting), mid, y)
      BY <1>2, <1>3, <3>1, MovesOn
    <3>3. /\ socket'[c] = Append(socket[c], Head(greeting)) /\ Greets(c)' = Tail(greeting)
          /\ Pending(c)' = Pending(c) /\ ReadTo(k)' = ReadTo(k)
          /\ shown' = shown /\ produced' = produced
      BY <1>1, <1>6, <1>7, <1>8, <1>10 DEF Joined, flowVars
    <3> QED BY <3>1, <3>2, <3>3 DEF Unbroken
  <2> QED BY <2>1 DEF Way
<1>14. ClientInv'
  <2>1. shown' \in [Clients -> [Channels -> Nat]]
    BY <1>1 DEF WayInv, ClientInv
  <2> QED BY <1>4, <1>6, <1>8, <1>9, <1>10, <1>13, <2>1, OneWay
<1> QED BY <1>10, <1>11, <1>12, <1>14 DEF WayInv

\* The kept status lines and pane frames of a channel, sent one by one, lead that channel
\* over what is kept and no other channel anywhere.
LEMMA GreetingPart ==
  ASSUME NEW j \in Channels, NEW a \in Nat, NEW b \in Nat, a <= b,
         NEW k \in Channels, NEW x \in Nat, NEW y \in Nat, k = j => x = a /\ y = b
  PROVE  /\ OneByOne(j, Run(a, b)) \in Seq(Packet)
         /\ k = j => Carries(k, OneByOne(j, Run(a, b)), x, y)
         /\ k # j => Carries(k, OneByOne(j, Run(a, b)), x, x)
BY CarriesOneByOne

\* The kept terminal output is sent as one message, or not at all when there is none.
LEMMA GreetingTerminal ==
  ASSUME NEW a \in Nat, NEW b \in Nat, a <= b,
         NEW k \in Channels, NEW x \in Nat, NEW y \in Nat, k = "terminal" => x = a /\ y = b
  PROVE  LET part == IF Run(a, b) = <<>> THEN <<>> ELSE <<Message("terminal", Run(a, b))>>
         IN  /\ part \in Seq(Packet)
             /\ k = "terminal" => Carries(k, part, x, y)
             /\ k # "terminal" => Carries(k, part, x, x)
<1> DEFINE r == Run(a, b)
           p == Message("terminal", r)
           part == IF r = <<>> THEN <<>> ELSE <<p>>
<1>1. r \in Seq(Nat) /\ (r = <<>> <=> a = b)
  <2>1. a = b => r = <<>>
    BY RunNone
  <2>2. a # b => r # <<>>
    <3> SUFFICES ASSUME a # b PROVE r # <<>>
      OBVIOUS
    <3>1. a < b
      OBVIOUS
    <3> QED BY <3>1, RunSome
  <2> QED BY <2>1, <2>2, RunIs
<1>2. p \in Packet /\ p.channel = "terminal" /\ p.numbers = r
  <2> HIDE DEF r
  <2>1. "terminal" \in Channels
    BY DEF Channels
  <2>2. p = [channel |-> "terminal", numbers |-> r]
    BY DEF Message
  <2> HIDE DEF p
  <2> QED BY <1>1, <2>1, <2>2 DEF Packet
<1>3. Steps("terminal", p, a, b) \/ a = b
  BY <1>2 DEF Steps
<1>4. \A j \in Channels : j # "terminal" => Steps(j, p, x, x)
  BY <1>2 DEF Steps
<1>5. <<>> \in Seq(Packet) /\ <<p>> \in Seq(Packet) /\ Append(<<>>, p) = <<p>>
  BY <1>2
<1> HIDE DEF p, r
<1>6. part \in Seq(Packet)
  BY <1>5
<1>7. k = "terminal" => Carries(k, part, x, y)
  <2> SUFFICES ASSUME k = "terminal" PROVE Carries(k, part, a, b)
    OBVIOUS
  <2>1. Carries(k, <<>>, a, a)
    BY CarriesNone
  <2>2. CASE a = b
    BY <1>1, <2>1, <2>2
  <2>3. CASE a # b
    <3>1. Carries(k, Append(<<>>, p), a, b)
      BY <1>2, <1>3, <1>5, <2>1, <2>3, CarriesAppend
    <3> QED BY <1>1, <1>5, <2>3, <3>1
  <2> QED BY <2>2, <2>3
<1>8. k # "terminal" => Carries(k, part, x, x)
  <2> SUFFICES ASSUME k # "terminal" PROVE Carries(k, part, x, x)
    OBVIOUS
  <2>1. Carries(k, <<>>, x, x)
    BY CarriesNone
  <2>2. Carries(k, Append(<<>>, p), x, x)
    BY <1>2, <1>4, <1>5, <2>1, CarriesAppend
  <2> QED BY <1>5, <2>1, <2>2
<1> QED BY <1>6, <1>7, <1>8 DEF p, r

\* On every channel the greeting of add_client is what is kept, in order.
LEMMA GreetingCarries ==
  ASSUME HubInv, NEW k \in Channels, NEW x \in Nat, NEW y \in Nat, x <= y, kept[k] = Run(x, y)
  PROVE  Greeting \in Seq(Packet) /\ Carries(k, Greeting, x, y)
<1>1. \A j \in Channels : \E a, b \in Nat : /\ kept[j] = Run(a, b) /\ a <= b
                                            /\ k = j => x = a /\ y = b
  <2> TAKE j \in Channels
  <2>1. PICK a \in Nat, b \in Nat : kept[j] = Run(a, b) /\ a <= b
    BY DEF HubInv, KeptRun
  <2> QED BY <2>1
<1>2. "terminal" \in Channels /\ "status" \in Channels /\ "view" \in Channels
  BY DEF Channels
<1>3. PICK ta \in Nat, tb \in Nat : /\ kept["terminal"] = Run(ta, tb) /\ ta <= tb
                                    /\ k = "terminal" => x = ta /\ y = tb
  BY <1>1, <1>2
<1>4. PICK sa \in Nat, sb \in Nat : /\ kept["status"] = Run(sa, sb) /\ sa <= sb
                                    /\ k = "status" => x = sa /\ y = sb
  BY <1>1, <1>2
<1>5. PICK va \in Nat, vb \in Nat : /\ kept["view"] = Run(va, vb) /\ va <= vb
                                    /\ k = "view" => x = va /\ y = vb
  BY <1>1, <1>2
<1> DEFINE t == IF kept["terminal"] = <<>> THEN <<>>
                ELSE <<Message("terminal", kept["terminal"])>>
           s == OneByOne("status", kept["status"])
           v == OneByOne("view", kept["view"])
<1>6. /\ t \in Seq(Packet)
      /\ k = "terminal" => Carries(k, t, x, y)
      /\ k # "terminal" => Carries(k, t, x, x) /\ Carries(k, t, y, y)
  BY <1>3, GreetingTerminal
<1>7. /\ s \in Seq(Packet)
      /\ k = "status" => Carries(k, s, x, y)
      /\ k # "status" => Carries(k, s, x, x) /\ Carries(k, s, y, y)
  BY <1>2, <1>4, GreetingPart
<1>8. /\ v \in Seq(Packet)
      /\ k = "view" => Carries(k, v, x, y)
      /\ k # "view" => Carries(k, v, x, x) /\ Carries(k, v, y, y)
  BY <1>2, <1>5, GreetingPart
<1>9. Greeting = (t \o s) \o v
  BY DEF Greeting
<1> HIDE DEF t, s, v
<1>10. t \o s \in Seq(Packet) /\ (t \o s) \o v \in Seq(Packet)
  BY <1>6, <1>7, <1>8, ConcatProperties
<1>11. k \in {"terminal", "status", "view"}
  BY DEF Channels
<1>12. CASE k = "terminal"
  <2>1. Carries(k, t \o s, x, y)
    BY <1>6, <1>7, <1>12, CarriesConcat
  <2>2. Carries(k, (t \o s) \o v, x, y)
    BY <1>8, <1>10, <1>12, <2>1, CarriesConcat
  <2> QED BY <1>9, <1>10, <2>2
<1>13. CASE k = "status"
  <2>1. Carries(k, t \o s, x, y)
    BY <1>6, <1>7, <1>13, CarriesConcat
  <2>2. Carries(k, (t \o s) \o v, x, y)
    BY <1>8, <1>10, <1>13, <2>1, CarriesConcat
  <2> QED BY <1>9, <1>10, <2>2
<1>14. CASE k = "view"
  <2>1. Carries(k, t \o s, x, x)
    BY <1>6, <1>7, <1>14, CarriesConcat
  <2>2. Carries(k, (t \o s) \o v, x, y)
    BY <1>8, <1>10, <1>14, <2>1, CarriesConcat
  <2> QED BY <1>9, <1>10, <2>2
<1> QED BY <1>11, <1>12, <1>13, <1>14

\* add_client registers a client and holds what it is to be sent: all that is kept, and
\* what the reader has not kept yet follows it.
LEMMA AddKeeps ==
  ASSUME WayInv, NEW c \in Clients, Added(c)
  PROVE  WayInv'
<1>1. /\ thread[c] = "joining" /\ todo = <<>> /\ \A d \in Clients : thread[d] # "greeting"
      /\ clients' = Append(clients, c) /\ greeting' = Greeting
      /\ thread' = [thread EXCEPT ![c] = IF greeting' = <<>> THEN "serving" ELSE "greeting"]
      /\ UNCHANGED <<flowVars, queue, todo, kept, socket, shown, open>>
  BY DEF Added, StateFree, flowVars, parentVars, readerVars, browserVars
<1>2. /\ thread \in [Clients -> ThreadState] /\ clients \in Seq(Clients) /\ NoRepeat(clients)
      /\ socket \in [Clients -> Seq(Packet)] /\ shown \in [Clients -> [Channels -> Nat]]
  BY DEF WayInv, RegisterInv, ListsInv, ClientInv
<1>3. /\ ~Contains(clients, c) /\ ~Contains(todo, c)
      /\ socket[c] = <<>> /\ \A k \in Channels : shown[c][k] = 0
  BY <1>1 DEF WayInv, RegisterInv, StrangersInv
<1>4. /\ thread' \in [Clients -> ThreadState]
      /\ thread'[c] = IF greeting' = <<>> THEN "serving" ELSE "greeting"
      /\ \A d \in Clients \ {c} : thread'[d] = thread[d]
  BY <1>1, <1>2 DEF ThreadState
<1>5. /\ clients' \in Seq(Clients) /\ NoRepeat(clients')
      /\ \A d : Contains(clients', d) <=> (d = c \/ Contains(clients, d))
  BY <1>1, <1>2, <1>3, OneMore
<1>6. greeting' \in Seq(Packet)
  <2>1. "view" \in Channels
    BY DEF Channels
  <2>2. PICK x \in Nat, y \in Nat : kept["view"] = Run(x, y) /\ x <= y
    BY <2>1 DEF WayInv, HubInv, KeptRun
  <2> QED BY <1>1, <2>1, <2>2, GreetingCarries DEF WayInv
<1>7. Greets(c)' = Greeting /\ \A d \in Clients \ {c} : Greets(d)' = Greets(d)
  BY <1>1, <1>4 DEF Greets
<1>8. \A d \in Clients : Pending(d)' = Pending(d) /\ Pending(d) = queue
  BY <1>1 DEF Pending
<1>9. \A d \in Clients \ {c} : SameWay(d) /\ Joined(d)' = Joined(d)
  BY <1>1, <1>4, <1>7, <1>8 DEF SameWay, Joined
<1>10. FlowInv' /\ SameFlow /\ \A k : ReadTo(k)' = ReadTo(k)
  BY <1>1, FlowSame DEF WayInv
<1>11. HubInv'
  <2>1. Unkept' = Unkept
    BY <1>1 DEF Unkept
  <2> QED BY <1>1, <1>10, <2>1, HubSame DEF WayInv, HubInv
<1>12. RegisterInv'
  <2>1. ListsInv'
    BY <1>1, <1>5 DEF WayInv, RegisterInv, ListsInv, NoRepeat
  <2>2. LockInv'
    BY <1>1, <1>4 DEF LockInv
  <2>3. StrangersInv'
    <3> SUFFICES ASSUME NEW d \in Clients, thread'[d] \in {"absent", "joining"}
                 PROVE  /\ ~Contains(clients', d) /\ ~Contains(todo, d)
                        /\ socket[d] = <<>> /\ \A k \in Channels : shown[d][k] = 0
                        /\ thread'[d] = "absent" => ~open[d]
      BY <1>1 DEF StrangersInv, Contains
    <3>1. d # c /\ thread'[d] = thread[d]
      BY <1>4
    <3> QED BY <1>5, <3>1 DEF WayInv, RegisterInv, StrangersInv
  <2>4. \A d \in Clients : Joined(d)' => Contains(clients', d)
    BY <1>5, <1>9 DEF WayInv, RegisterInv
  <2> QED BY <1>1, <1>4, <2>1, <2>2, <2>3, <2>4 DEF WayInv, RegisterInv, Contains
<1>13. Way(c)'
  <2>1. ASSUME NEW k \in Channels
        PROVE  Unbroken(k, shown'[c][k], socket'[c], Greets(c)', Pending(c)', produced'[k], ReadTo(k)')
    <3>1. PICK x \in Nat, y \in Nat : /\ kept[k] = Run(x, y) /\ x <= y /\ (x = y => y = 0)
                                      /\ Carries(k, queue, y, ReadTo(k))
      BY <1>1 DEF WayInv, HubInv, KeptRun, Unkept
    <3>2. Carries(k, Greeting, x, y)
      BY <3>1, GreetingCarries DEF WayInv
    <3>3. Carries(k, <<>>, x, x)
      BY <3>1, CarriesNone
    <3>4. x < produced[k] \/ produced[k] = 0
      <4>1. y <= ReadTo(k) /\ ReadTo(k) \in Nat
        BY <3>1, CarriesBounds, WayTypes
      <4>2. produced[k] \in Nat /\ ReadTo(k) <= produced[k]
        BY BeforeIs DEF WayInv, FlowInv, ReadTo
      <4> QED BY <3>1, <4>1, <4>2
    <3>5. /\ socket'[c] = <<>> /\ Greets(c)' = Greeting /\ Pending(c)' = queue
          /\ shown'[c][k] = 0 /\ produced'[k] = produced[k] /\ ReadTo(k)' = ReadTo(k)
      BY <1>1, <1>3, <1>7, <1>8, <1>10 DEF flowVars
    <3> QED BY <3>1, <3>2, <3>3, <3>4, <3>5 DEF Unbroken
  <2> QED BY <2>1 DEF Way
<1>14. ClientInv'
  <2>1. socket' \in [Clients -> Seq(Packet)] /\ shown' \in [Clients -> [Channels -> Nat]]
    BY <1>1, <1>2
  <2> QED BY <1>6, <1>9, <1>10, <1>13, <2>1, OneWay
<1> QED BY <1>10, <1>11, <1>12, <1>14 DEF WayInv

------------------------------------------------------------------------------
(* The reader *)

\* A broadcast starts: the message is kept, and sent to those who are registered now.
LEMMA BroadcastKeeps ==
  ASSUME WayInv, ReaderBroadcasts
  PROVE  WayInv'
<1> DEFINE m == Head(queue)
           ch == m.channel
<1>1. /\ queue # <<>> /\ todo = <<>> /\ \A c \in Clients : thread[c] # "greeting"
      /\ kept' = [kept EXCEPT ![ch] = Latest(@ \o m.numbers, Backlog[ch])]
      /\ todo' = clients /\ queue' = IF clients = <<>> THEN Tail(queue) ELSE queue
      /\ UNCHANGED <<flowVars, clients, thread, greeting, socket, shown, open>>
  BY DEF ReaderBroadcasts, StateFree, flowVars, parentVars, threadVars, browserVars
<1>2. /\ queue \in Seq(Packet) /\ kept \in [Channels -> Seq(Nat)]
      /\ m \in Packet /\ Tail(queue) \in Seq(Packet)
  BY <1>1, HeadTailProperties DEF WayInv, HubInv
<1>3. ch \in Channels /\ Backlog[ch] \in Nat \ {0}
  BY <1>2, BridgeAssumption DEF Packet
<1> HIDE DEF m
<1>4. FlowInv' /\ SameFlow /\ \A k : ReadTo(k)' = ReadTo(k)
  BY <1>1, FlowSame DEF WayInv
<1>5. Unkept = queue /\ Unkept' = Tail(queue)
  BY <1>1 DEF Unkept
<1>6. /\ kept'[ch] = Latest(kept[ch] \o m.numbers, Backlog[ch])
      /\ kept' = [kept EXCEPT ![ch] = kept'[ch]]
      /\ \A k \in Channels \ {ch} : kept'[k] = kept[k]
  BY <1>1, <1>2, <1>3
<1>7. \A k \in Channels : \E x, mid \in Nat :
        /\ kept'[k] = Run(x, mid) /\ x <= mid /\ (x = mid => mid = 0)
        /\ Carries(k, Tail(queue), mid, ReadTo(k))
  <2> TAKE k \in Channels
  <2>1. PICK x \in Nat, y \in Nat : /\ kept[k] = Run(x, y) /\ x <= y /\ (x = y => y = 0)
                                    /\ Carries(k, queue, y, ReadTo(k))
    BY <1>5 DEF WayInv, HubInv, KeptRun
  <2>2. PICK mid \in Nat : Steps(k, m, y, mid) /\ Carries(k, Tail(queue), mid, ReadTo(k))
    BY <1>1, <1>2, <2>1, CarriesTail DEF m
  <2>3. CASE k = ch
    <3>1. y < mid /\ m.numbers = Run(y, mid)
      BY <2>2, <2>3 DEF Steps
    <3>2. x < mid /\ y <= mid
      BY <2>1, <3>1
    <3>3. Run(x, y) \o Run(y, mid) = Run(x, mid)
      BY <2>1, <3>2, RunConcat
    <3>4. PICK z \in Nat : z < mid /\ Latest(Run(x, mid), Backlog[ch]) = Run(z, mid)
      BY <1>3, <3>2, LatestOfRun
    <3>5. kept'[k] = Run(z, mid)
      BY <1>6, <2>1, <2>3, <3>1, <3>3, <3>4
    <3>6. z <= mid /\ z # mid
      BY <3>4
    <3> QED BY <2>2, <3>5, <3>6
  <2>4. CASE k # ch
    <3>1. y = mid
      BY <2>2, <2>4 DEF Steps
    <3> QED BY <1>6, <2>1, <2>2, <2>4, <3>1
  <2> QED BY <2>3, <2>4
<1>8. HubInv'
  <2>1. queue' \in Seq(Packet)
    BY <1>1, <1>2
  <2>2. kept' \in [Channels -> Seq(Nat)]
    <3>1. kept'[ch] \in Seq(Nat)
      BY <1>3, <1>7, RunIs
    <3> QED BY <1>2, <1>6, <3>1
  <2>3. \A k \in Channels : KeptRun(k, kept'[k], Unkept', ReadTo(k)')
    BY <1>4, <1>5, <1>7 DEF KeptRun
  <2> QED BY <2>1, <2>2, <2>3 DEF HubInv
<1>9. RegisterInv'
  <2>1. ListsInv'
    BY <1>1 DEF WayInv, RegisterInv, ListsInv, NoRepeat
  <2>2. LockInv'
    BY <1>1 DEF LockInv
  <2>3. StrangersInv'
    BY <1>1 DEF WayInv, RegisterInv, StrangersInv, Contains
  <2>4. \A d \in Clients : Joined(d)' = Joined(d)
    BY <1>1 DEF Joined
  <2> QED BY <1>1, <2>1, <2>2, <2>3, <2>4 DEF WayInv, RegisterInv, Contains
<1>10. ClientInv'
  <2>1. ASSUME NEW d \in Clients, Joined(d)
        PROVE  SameWay(d)
    <3>1. Contains(clients, d)
      BY <2>1 DEF WayInv, RegisterInv
    <3>2. clients # <<>>
      <4>1. Len(<<>>) = 0
        OBVIOUS
      <4> QED BY <3>1, <4>1 DEF Contains
    <3>3. Contains(todo, d)'
      BY <1>1, <3>1 DEF Contains
    <3>4. Pending(d)' = queue /\ Pending(d) = queue
      BY <1>1, <3>2, <3>3 DEF Pending
    <3> QED BY <1>1, <3>4 DEF SameWay, Greets
  <2>2. \A d \in Clients : Joined(d)' = Joined(d)
    BY <1>1 DEF Joined
  <2>3. \A d \in Clients : Joined(d)' => Way(d)'
    BY <1>4, <2>1, <2>2, WaySame DEF WayInv, ClientInv, Way
  <2> QED BY <1>1, <2>3 DEF WayInv, ClientInv, Way
<1> QED BY <1>4, <1>8, <1>9, <1>10 DEF WayInv

\* The rest of a list without repetition is the list without its head.
LEMMA TailIs ==
  ASSUME NEW s \in Seq(Clients), s # <<>>, NoRepeat(s)
  PROVE  /\ Head(s) \in Clients /\ Contains(s, Head(s))
         /\ Tail(s) \in Seq(Clients) /\ NoRepeat(Tail(s))
         /\ \A d : Contains(Tail(s), d) <=> (Contains(s, d) /\ d # Head(s))
<1> DEFINE n == Len(s)
           t == Tail(s)
<1>1. /\ Head(s) \in Clients /\ t \in Seq(Clients) /\ Len(t) = n - 1 /\ Head(s) = s[1]
      /\ \A i \in 1 .. n - 1 : t[i] = s[i + 1]
      /\ n \in Nat \ {0}
  BY HeadTailProperties, EmptySeq
<1> HIDE DEF n, t
<1>2. /\ 1 \in 1 .. n /\ \A i \in 1 .. n - 1 : i + 1 \in 1 .. n /\ i + 1 # 1
      /\ \A i \in 1 .. n : i = 1 \/ (i - 1 \in 1 .. n - 1 /\ (i - 1) + 1 = i)
      /\ \A i, j \in 1 .. n - 1 : i + 1 = j + 1 => i = j
  BY <1>1
<1>3. NoRepeat(t)
  <2> SUFFICES ASSUME NEW i \in 1 .. n - 1, NEW j \in 1 .. n - 1, t[i] = t[j] PROVE i = j
    BY <1>1 DEF NoRepeat
  <2>1. s[i + 1] = s[j + 1] /\ i + 1 \in 1 .. n /\ j + 1 \in 1 .. n
    BY <1>1, <1>2
  <2>2. i + 1 = j + 1
    BY <2>1 DEF NoRepeat, n
  <2> QED BY <2>2
<1>4. Contains(s, Head(s))
  BY <1>1, <1>2 DEF Contains, n
<1>5. ASSUME NEW d, Contains(t, d) PROVE Contains(s, d) /\ d # Head(s)
  <2>1. PICK i \in 1 .. n - 1 : t[i] = d
    BY <1>1, <1>5 DEF Contains
  <2>2. s[i + 1] = d /\ i + 1 \in 1 .. n /\ i + 1 # 1
    BY <1>1, <1>2, <2>1
  <2>3. d # s[1]
    BY <1>2, <2>2 DEF NoRepeat, n
  <2> QED BY <1>1, <2>2, <2>3 DEF Contains, n
<1>6. ASSUME NEW d, Contains(s, d), d # Head(s) PROVE Contains(t, d)
  <2>1. PICK i \in 1 .. n : s[i] = d
    BY <1>6 DEF Contains, n
  <2>2. i - 1 \in 1 .. n - 1 /\ (i - 1) + 1 = i
    BY <1>1, <1>2, <1>6, <2>1
  <2>3. t[i - 1] = d
    BY <1>1, <2>1, <2>2
  <2> QED BY <1>1, <2>2, <2>3 DEF Contains
<1> QED BY <1>1, <1>3, <1>4, <1>5, <1>6 DEF t

\* The message that is broadcast is sent to the next of the clients.
LEMMA SendKeeps ==
  ASSUME WayInv, ReaderSends
  PROVE  WayInv'
<1>0. PICK c, m : c = Head(todo) /\ m = Head(queue)
  OBVIOUS
<1>1. /\ todo # <<>> /\ Send(c, m) /\ todo' = Tail(todo)
      /\ clients' \in IF open[c] THEN {clients} ELSE {clients, RemoveFirst(clients, c)}
      /\ queue' = IF todo' = <<>> THEN Tail(queue) ELSE queue
      /\ UNCHANGED <<flowVars, kept, thread, greeting, shown, open>>
  BY <1>0 DEF ReaderSends, flowVars, parentVars, threadVars, browserVars
<1>2. /\ queue \in Seq(Packet) /\ socket \in [Clients -> Seq(Packet)]
      /\ todo \in Seq(Clients) /\ NoRepeat(todo) /\ clients \in Seq(Clients) /\ NoRepeat(clients)
  BY DEF WayInv, HubInv, ClientInv, RegisterInv, ListsInv
<1>3. queue # <<>> /\ \A d \in Clients : thread[d] # "greeting"
  BY <1>1 DEF WayInv, RegisterInv, LockInv
<1>4. m \in Packet /\ Tail(queue) \in Seq(Packet) /\ queue' \in Seq(Packet)
  BY <1>0, <1>1, <1>2, <1>3, HeadTailProperties
<1>5. /\ c \in Clients /\ Contains(todo, c)
      /\ todo' \in Seq(Clients) /\ NoRepeat(todo')
      /\ \A d : Contains(todo', d) <=> (Contains(todo, d) /\ d # c)
  BY <1>0, <1>1, <1>2, TailIs
<1>6. /\ clients' \in Seq(Clients) /\ NoRepeat(clients')
      /\ \A d : Contains(clients', d) => Contains(clients, d)
      /\ \A d : Contains(clients, d) /\ (d # c \/ open[c]) => Contains(clients', d)
  <2>1. CASE clients' = clients
    BY <1>2, <2>1
  <2>2. CASE clients' = RemoveFirst(clients, c) /\ ~open[c]
    BY <1>2, <2>2, FirstRemoved
  <2> QED BY <1>1, <2>1, <2>2
<1>7. /\ socket' \in [Clients -> Seq(Packet)]
      /\ \A d \in Clients \ {c} : socket'[d] = socket[d]
      /\ open[c] => socket'[c] = Append(socket[c], m)
  <2>1. Append(socket[c], m) \in Seq(Packet)
    BY <1>2, <1>4, <1>5, AppendProperties
  <2> QED BY <1>1, <1>2, <1>5, <2>1 DEF Send
<1>8. FlowInv' /\ SameFlow /\ \A k : ReadTo(k)' = ReadTo(k)
  BY <1>1, FlowSame DEF WayInv
<1>9. \A d : ~Contains(<<>>, d)
  <2>1. Len(<<>>) = 0
    OBVIOUS
  <2> QED BY <2>1 DEF Contains
<1>10. HubInv'
  <2>1. Unkept' = Unkept
    BY <1>1 DEF Unkept
  <2> QED BY <1>1, <1>4, <1>8, <2>1, HubSame DEF WayInv, HubInv
<1>11. \A d \in Clients : /\ Pending(d) = IF Contains(todo, d) THEN queue ELSE Tail(queue)
                          /\ Pending(d)' = IF Contains(todo', d) THEN queue ELSE Tail(queue)
  <2> TAKE d \in Clients
  <2>1. Pending(d) = IF Contains(todo, d) THEN queue ELSE Tail(queue)
    BY <1>1 DEF Pending
  <2>2. Contains(todo, d)' <=> Contains(todo', d)
    BY DEF Contains
  <2>3. Pending(d)' = IF Contains(todo', d) THEN queue ELSE Tail(queue)
    BY <1>1, <1>9, <2>2 DEF Pending
  <2> QED BY <2>1, <2>3
<1>12. \A d \in Clients : /\ Joined(d)' = Joined(d)
                          /\ Greets(d) = <<>> /\ Greets(d)' = <<>>
  BY <1>1, <1>3 DEF Joined, Greets
<1>13. \A d \in Clients \ {c} : SameWay(d)
  BY <1>1, <1>5, <1>7, <1>11, <1>12 DEF SameWay
<1>14. thread[c] \notin {"absent", "joining"}
  BY <1>5 DEF WayInv, RegisterInv, StrangersInv
<1>15. RegisterInv'
  <2>1. ListsInv'
    BY <1>5, <1>6 DEF ListsInv, NoRepeat
  <2>2. LockInv'
    BY <1>1, <1>3 DEF LockInv
  <2>3. StrangersInv'
    <3> SUFFICES ASSUME NEW d \in Clients, thread[d] \in {"absent", "joining"}
                 PROVE  /\ ~Contains(clients', d) /\ ~Contains(todo', d)
                        /\ socket'[d] = <<>> /\ \A k \in Channels : shown[d][k] = 0
                        /\ thread[d] = "absent" => ~open[d]
      BY <1>1 DEF StrangersInv, Contains
    <3>1. d # c
      BY <1>14
    <3> QED BY <1>5, <1>6, <1>7, <3>1 DEF WayInv, RegisterInv, StrangersInv
  <2>4. \A d \in Clients : Joined(d)' => Contains(clients', d)
    BY <1>6, <1>12 DEF WayInv, RegisterInv, Joined
  <2> QED BY <1>1, <2>1, <2>2, <2>3, <2>4 DEF WayInv, RegisterInv, Contains
<1>16. Joined(c)' => Way(c)'
  <2> SUFFICES ASSUME Joined(c) PROVE Way(c)'
    BY <1>5, <1>12
  <2>1. ASSUME NEW k \in Channels
        PROVE  Unbroken(k, shown'[c][k], socket'[c], Greets(c)', Pending(c)', produced'[k], ReadTo(k)')
    <3>1. PICK lo \in Nat, x \in Nat, y \in Nat :
            /\ Carries(k, socket[c], lo, x) /\ Carries(k, <<>>, x, y)
            /\ Carries(k, queue, y, ReadTo(k))
            /\ shown[c][k] \in {0, lo}
            /\ shown[c][k] = 0 => lo < produced[k] \/ produced[k] = 0
      <4>1. Pending(c) = queue /\ Greets(c) = <<>>
        BY <1>5, <1>11, <1>12
      <4>2. Unbroken(k, shown[c][k], socket[c], Greets(c), Pending(c), produced[k], ReadTo(k))
        BY <1>5 DEF WayInv, ClientInv
      <4> QED BY <4>1, <4>2 DEF Unbroken
    <3>2. x = y
      BY <3>1, CarriesNoneOnly
    <3>3. PICK mid \in Nat : /\ Carries(k, Append(socket[c], m), lo, mid)
                             /\ Carries(k, Tail(queue), mid, ReadTo(k))
      <4>1. socket[c] \in Seq(Packet) /\ Carries(k, queue, x, ReadTo(k))
        BY <1>2, <1>5, <3>1, <3>2
      <4> QED BY <1>0, <1>2, <1>3, <3>1, <4>1, MovesOn
    <3>4. Carries(k, <<>>, mid, mid)
      BY <3>3, CarriesNone
    <3>5. /\ socket'[c] = Append(socket[c], m) /\ Greets(c)' = <<>>
          /\ Pending(c)' = Tail(queue) /\ ReadTo(k)' = ReadTo(k)
          /\ shown' = shown /\ produced' = produced
      BY <1>1, <1>5, <1>7, <1>8, <1>11, <1>12 DEF Joined, flowVars
    <3> QED BY <3>1, <3>3, <3>4, <3>5 DEF Unbroken
  <2> QED BY <2>1 DEF Way
<1>17. ClientInv'
  <2>1. shown' \in [Clients -> [Channels -> Nat]] /\ greeting' \in Seq(Packet)
    BY <1>1 DEF WayInv, ClientInv
  <2> QED BY <1>5, <1>7, <1>8, <1>12, <1>13, <1>16, <2>1, OneWay
<1> QED BY <1>8, <1>10, <1>15, <1>17 DEF WayInv

\* A read, wherever it ends, turns what it completes into what is to be broadcast next.
LEMMA ReadKeeps ==
  ASSUME WayInv, NEW k \in Channels, ReaderReads(k)
  PROVE  WayInv'
<1>1. /\ queue = <<>>
      /\ UNCHANGED <<produced, writing, todo, clients, kept, thread, greeting, socket, shown, open>>
  BY DEF ReaderReads, parentVars, hubVars, threadVars, browserVars
<1>2. todo = <<>>
  BY <1>1 DEF WayInv, RegisterInv, LockInv
<1>3. PICK n \in 1 .. Len(channel[k]) :
        LET pieces == partial[k] \o SubSeq(channel[k], 1, n)
        IN  /\ partial' = [partial EXCEPT ![k] = Rest(pieces)]
            /\ queue' = IF k = "terminal"
                          THEN <<Message(k, Complete(pieces))>>
                          ELSE OneByOne(k, Complete(pieces))
            /\ channel' = [channel EXCEPT ![k] = SubSeq(@, n + 1, Len(@))]
  BY DEF ReaderReads
<1>4. PICK a, b, w, p : a = partial[k] /\ b = channel[k] /\ w = Unwritten(k) /\ p = produced[k]
  OBVIOUS
<1> DEFINE pieces == a \o SubSeq(b, 1, n)
           rest == Rest(pieces)
           left == SubSeq(b, n + 1, Len(b))
<1>5. /\ p \in Nat /\ a \in Seq(PipePiece) /\ b \in Seq(PipePiece) /\ w \in Seq(PipePiece)
      /\ Flowing(k, (a \o b) \o w, p)
  <2>1. <<>> \in Seq(PipePiece)
    BY EmptySeq
  <2> QED BY <1>4, <2>1 DEF WayInv, FlowInv, Flow, Unwritten
<1>6. PICK from, to : from = Before((a \o b) \o w, p) /\ to = Before((rest \o left) \o w, p)
  OBVIOUS
<1>7. /\ rest \in Seq(PipePiece) /\ left \in Seq(PipePiece)
      /\ Flowing(k, (rest \o left) \o w, p)
      /\ from \in Nat /\ to \in Nat /\ from <= to
      /\ Complete(pieces) = Run(from, to)
      /\ k = "terminal" => from < to
  <2>1. n \in 1 .. Len(b)
    BY <1>4
  <2> QED BY <1>5, <1>6, <2>1, FlowingRead
<1>8. /\ partial' = [partial EXCEPT ![k] = rest] /\ channel' = [channel EXCEPT ![k] = left]
      /\ queue' = IF k = "terminal" THEN <<Message(k, Run(from, to))>>
                  ELSE OneByOne(k, Run(from, to))
  BY <1>3, <1>4, <1>7
<1> HIDE DEF pieces, rest, left
<1>9. /\ partial' \in [Channels -> Seq(PipePiece)] /\ partial'[k] = rest
      /\ channel' \in [Channels -> Seq(PipePiece)] /\ channel'[k] = left
      /\ \A j \in Channels \ {k} : partial'[j] = partial[j] /\ channel'[j] = channel[j]
  BY <1>7, <1>8 DEF WayInv, FlowInv
<1>10. \A j : Unwritten(j)' = Unwritten(j)
  BY <1>1 DEF Unwritten
<1>11. /\ Flow(k) = (a \o b) \o w /\ Flow(k)' = (rest \o left) \o w
       /\ \A j \in Channels \ {k} : Flow(j)' = Flow(j)
  BY <1>4, <1>9, <1>10 DEF Flow
<1>12. /\ ReadTo(k) = from /\ ReadTo(k)' = to
       /\ \A j \in Channels \ {k} : ReadTo(j)' = ReadTo(j)
  BY <1>1, <1>4, <1>6, <1>11 DEF ReadTo
<1>13. FlowInv'
  <2>1. \A j \in Channels : Flowing(j, Flow(j)', produced[j])
    <3> TAKE j \in Channels
    <3>1. CASE j = k
      BY <1>4, <1>7, <1>11, <3>1
    <3>2. CASE j # k
      BY <1>11, <3>2 DEF WayInv, FlowInv
    <3> QED BY <3>1, <3>2
  <2> QED BY <1>1, <1>9, <2>1 DEF WayInv, FlowInv
<1>14. \A j \in Channels : ReadTo(j) \in Nat /\ ReadTo(j) <= produced[j] /\ produced[j] \in Nat
  BY BeforeIs DEF WayInv, FlowInv, ReadTo
<1>15. queue' \in Seq(Packet) /\ \A j \in Channels : Carries(j, queue', ReadTo(j), ReadTo(j)')
  <2>1. CASE k = "terminal"
    <3> DEFINE q == Message(k, Run(from, to))
    <3>1. q = [channel |-> k, numbers |-> Run(from, to)] /\ Run(from, to) \in Seq(Nat)
      BY <1>7, RunIs DEF Message
    <3> HIDE DEF q
    <3>2. q \in Packet /\ q.channel = k /\ q.numbers = Run(from, to)
      BY <3>1 DEF Packet
    <3>3. <<q>> \in Seq(Packet) /\ Append(<<>>, q) = <<q>> /\ <<>> \in Seq(Packet)
      BY <3>2
    <3>4. queue' = <<q>>
      BY <1>8, <2>1 DEF q
    <3>5. ASSUME NEW j \in Channels PROVE Carries(j, Append(<<>>, q), ReadTo(j), ReadTo(j)')
      <4>1. Carries(j, <<>>, ReadTo(j), ReadTo(j))
        BY <1>14, CarriesNone
      <4>2. Steps(j, q, ReadTo(j), ReadTo(j)') /\ ReadTo(j)' \in Nat
        BY <1>7, <1>12, <1>14, <2>1, <3>2 DEF Steps
      <4> QED BY <3>2, <3>3, <4>1, <4>2, CarriesAppend
    <3> QED BY <3>3, <3>4, <3>5
  <2>2. CASE k # "terminal"
    <3>1. queue' = OneByOne(k, Run(from, to))
      BY <1>8, <2>2
    <3>2. /\ queue' \in Seq(Packet) /\ Carries(k, queue', from, to)
          /\ \A j : \A lo \in Nat : j # k => Carries(j, queue', lo, lo)
      BY <1>7, <3>1, CarriesOneByOne
    <3> QED BY <1>12, <1>14, <3>2
  <2> QED BY <2>1, <2>2
<1>16. HubInv'
  <2>1. Unkept = <<>> /\ Unkept' = queue'
    BY <1>1, <1>2 DEF Unkept
  <2>2. ASSUME NEW j \in Channels
        PROVE  KeptRun(j, kept[j], queue', ReadTo(j)')
    <3>1. PICK x \in Nat, y \in Nat : /\ kept[j] = Run(x, y) /\ x <= y /\ (x = y => y = 0)
                                      /\ Carries(j, <<>>, y, ReadTo(j))
      BY <2>1 DEF WayInv, HubInv, KeptRun
    <3>2. y = ReadTo(j)
      BY <3>1, CarriesNoneOnly
    <3>3. Carries(j, queue', y, ReadTo(j)')
      BY <1>15, <3>2
    <3> QED BY <3>1, <3>3 DEF KeptRun
  <2> QED BY <1>1, <1>15, <2>1, <2>2 DEF WayInv, HubInv
<1>17. RegisterInv'
  BY <1>1, <1>2 DEF WayInv, RegisterInv, ListsInv, LockInv, StrangersInv, Joined, NoRepeat, Contains
<1>18. ClientInv'
  <2>1. \A d \in Clients : /\ Joined(d)' = Joined(d) /\ Greets(d)' = Greets(d)
                           /\ Pending(d) = <<>> /\ Pending(d)' = queue'
    BY <1>1, <1>2 DEF Joined, Greets, Pending
  <2>2. ASSUME NEW d \in Clients, Joined(d), NEW j \in Channels
        PROVE  Unbroken(j, shown[d][j], socket[d], Greets(d), queue', produced[j], ReadTo(j)')
    <3>1. PICK lo \in Nat, x \in Nat, y \in Nat :
            /\ Carries(j, socket[d], lo, x) /\ Carries(j, Greets(d), x, y)
            /\ Carries(j, <<>>, y, ReadTo(j))
            /\ shown[d][j] \in {0, lo}
            /\ shown[d][j] = 0 => lo < produced[j] \/ produced[j] = 0
      BY <2>1, <2>2 DEF WayInv, ClientInv, Unbroken
    <3>2. y = ReadTo(j)
      BY <3>1, CarriesNoneOnly
    <3>3. Carries(j, queue', y, ReadTo(j)')
      BY <1>15, <3>2
    <3> QED BY <3>1, <3>3 DEF Unbroken
  <2> QED BY <1>1, <2>1, <2>2 DEF WayInv, ClientInv
<1> QED BY <1>13, <1>16, <1>17, <1>18 DEF WayInv

------------------------------------------------------------------------------
(* Nothing is lost on the way *)

\* Before anything is begun, nothing is on the way.
LEMMA WayStarts == Init => WayInv
<1> SUFFICES ASSUME Init PROVE WayInv
  OBVIOUS
<1>1. <<>> \in Seq(PipePiece) /\ <<>> \in Seq(Packet) /\ <<>> \in Seq(Clients) /\ <<>> \in Seq(Nat)
  BY EmptySeq
<1>2. Len(<<>>) = 0
  OBVIOUS
<1>3. \A k \in Channels : Flow(k) = <<>> /\ ReadTo(k) = 0
  <2> TAKE k \in Channels
  <2>1. partial[k] = <<>> /\ channel[k] = <<>> /\ Unwritten(k) = <<>> /\ produced[k] = 0
    BY DEF Init, Unwritten
  <2>2. (<<>> \o <<>>) \o <<>> = <<>>
    OBVIOUS
  <2> QED BY <2>1, <2>2 DEF Flow, ReadTo, Before
<1>4. FlowInv
  <2>1. \A k \in Channels : Flowing(k, <<>>, 0)
    BY <1>1, <1>2 DEF Flowing, InOrder
  <2> QED BY <1>1, <1>2, <1>3, <2>1 DEF Init, FlowInv
<1>5. HubInv
  <2>1. \A k \in Channels : KeptRun(k, <<>>, <<>>, 0)
    <3> TAKE k \in Channels
    <3>1. <<>> = Run(0, 0) /\ Carries(k, <<>>, 0, 0)
      BY RunNone, CarriesNone
    <3> QED BY <3>1 DEF KeptRun
  <2> QED BY <1>1, <1>3, <2>1 DEF Init, HubInv, Unkept
<1>6. RegisterInv
  BY <1>1, <1>2 DEF Init, RegisterInv, ListsInv, LockInv, StrangersInv, Joined, NoRepeat,
       Contains, ThreadState
<1>7. ClientInv
  BY <1>1 DEF Init, ClientInv, Joined
<1> QED BY <1>4, <1>5, <1>6, <1>7 DEF WayInv

\* Every step of the parent, of the bridge's threads and of the browsers keeps it.
LEMMA WayStays == WayInv /\ [Next]_vars => WayInv'
<1> SUFFICES ASSUME WayInv, [Next]_vars PROVE WayInv'
  OBVIOUS
<1>0. thread \in [Clients -> ThreadState]
  BY DEF WayInv, RegisterInv
<1>1. ASSUME NEW k \in Channels, ParentBegins(k) PROVE WayInv'
  BY <1>1, BeginKeeps
<1>2. CASE ParentWrites
  BY <1>2, WriteKeeps
<1>3. ASSUME NEW d \in Inputs, ParentReads(d) PROVE WayInv'
  BY <1>0, <1>3, Beside DEF ParentReads, flowVars, parentVars, readerVars, hubVars, threadVars,
       browserVars
<1>4. CASE ReaderPolls
  BY <1>0, <1>4, Beside DEF ReaderPolls, flowVars, parentVars, hubVars, threadVars, browserVars
<1>5. ASSUME NEW k \in Channels, ReaderReads(k) PROVE WayInv'
  BY <1>5, ReadKeeps
<1>6. CASE ReaderBroadcasts
  BY <1>6, BroadcastKeeps
<1>7. CASE ReaderSends
  BY <1>7, SendKeeps
<1>8. ASSUME NEW c \in Clients, ThreadStep(c) PROVE WayInv'
  <2>1. CASE Added(c)
    BY <2>1, AddKeeps
  <2>2. CASE Greeted(c)
    BY <2>2, GreetKeeps
  <2>3. CASE Handles(c)
    <3>1. thread' \in [Clients -> ThreadState]
      BY <1>0, <2>3 DEF Handles, ThreadState
    <3>2. \A d \in Clients : thread'[d] = thread[d] \/
            {thread[d], thread'[d]} \subseteq ThreadState \ {"absent", "joining", "greeting"}
      BY <1>0, <2>3 DEF Handles, ThreadState
    <3> QED BY <2>3, <3>1, <3>2, Beside DEF Handles, flowVars, parentVars, readerVars, hubVars
  <2>4. CASE Writes(c)
    <3>1. thread' \in [Clients -> ThreadState]
      BY <1>0, <2>4 DEF Writes, ThreadState
    <3>2. \A d \in Clients : thread'[d] = thread[d] \/
            {thread[d], thread'[d]} \subseteq ThreadState \ {"absent", "joining", "greeting"}
      BY <1>0, <2>4 DEF Writes, ThreadState
    <3> QED BY <2>4, <3>1, <3>2, Beside DEF Writes, flowVars, parentVars, readerVars, hubVars,
              browserVars
  <2>5. CASE Leaves(c)
    BY <2>5, LeaveKeeps
  <2> QED BY <1>8, <2>1, <2>2, <2>3, <2>4, <2>5 DEF ThreadStep
<1>9. ASSUME NEW c \in Clients, Connects(c) PROVE WayInv'
  BY <1>9, ConnectKeeps
<1>10. ASSUME NEW c \in Clients, Receives(c) PROVE WayInv'
  BY <1>10, ReceiveKeeps
<1>11. ASSUME NEW c \in Clients, Closes(c) PROVE WayInv'
  BY <1>11, CloseKeeps
<1>12. ASSUME NEW c \in Clients, NEW payload \in Payloads, Sends(c, payload) PROVE WayInv'
  BY <1>0, <1>12, Beside DEF Sends, flowVars, parentVars, readerVars, hubVars, threadVars
<1>13. CASE UNCHANGED vars
  BY <1>0, <1>13, Beside DEF vars, flowVars, parentVars, readerVars, hubVars, threadVars, browserVars
<1> QED BY <1>1, <1>2, <1>3, <1>4, <1>5, <1>6, <1>7, <1>8, <1>9, <1>10, <1>11, <1>12, <1>13
        DEF Next, ParentStep, ReaderStep

(***************************************************************************)
(* However many browsers join in the middle of a broadcast, close and send *)
(* what does not parse, wherever a read ends and however much a backlog is *)
(* trimmed: what a registered browser shows of a channel and all that is   *)
(* under way to it is one run of messages up to the newest, without a gap, *)
(* a repetition or a change of order (add_client, broadcast_* and read_*   *)
(* of pty_websocket_hub.cc).                                               *)
(***************************************************************************)
THEOREM NothingIsEverLost == Spec => []NothingIsLostOnTheWay
<1>1. Spec => []WayInv
  BY WayStarts, WayStays, PTL DEF Spec
<1> QED BY <1>1, WayIsWhole, PTL

==============================================================================
