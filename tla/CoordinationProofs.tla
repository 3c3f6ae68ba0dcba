------------------------- MODULE CoordinationProofs -------------------------
(***************************************************************************)
(* Agreement, for any clients and any numbers.                             *)
(***************************************************************************)
EXTENDS Coordination, SequenceTheorems, TLAPS

\* A call to both keeps the one's view an ending of the other's.
LEMMA LateViewAppend ==
    ASSUME NEW s \in Seq(Numbers), NEW t \in Seq(Numbers), NEW n \in Numbers,
           IsLateView(s, t)
    PROVE  IsLateView(Append(s, n), Append(t, n))
<1> DEFINE a == Append(s, n)
           b == Append(t, n)
<1>1. /\ Len(s) \in Nat /\ Len(t) \in Nat
      /\ Len(a) = Len(s) + 1 /\ Len(b) = Len(t) + 1
      /\ \A k \in 1..Len(s) : a[k] = s[k]
      /\ \A k \in 1..Len(t) : b[k] = t[k]
      /\ a[Len(s) + 1] = n /\ b[Len(t) + 1] = n
  BY AppendProperties, LenProperties
<1> HIDE DEF a, b
<1>2. ASSUME NEW k \in 1..Len(a) PROVE a[k] = b[Len(b) - Len(a) + k]
  <2>1. CASE k = Len(s) + 1
    <3>1. Len(b) - Len(a) + k = Len(t) + 1
      BY <1>1, <2>1
    <3> QED BY <1>1, <2>1, <3>1
  <2>2. CASE k # Len(s) + 1
    <3>1. k \in 1..Len(s)
      BY <1>1, <2>2
    <3>2. /\ Len(b) - Len(a) + k = Len(t) - Len(s) + k
          /\ Len(t) - Len(s) + k \in 1..Len(t)
      BY <1>1, <3>1 DEF IsLateView
    <3> QED BY <1>1, <3>1, <3>2 DEF IsLateView
  <2> QED BY <2>1, <2>2
<1>3. Len(a) <= Len(b)
  BY <1>1 DEF IsLateView
<1>4. IsLateView(a, b)
  BY <1>2, <1>3 DEF IsLateView
<1> QED BY <1>4 DEF a, b

\* Nothing is an ending of everything.
LEMMA LateViewEmpty ==
    ASSUME NEW t \in Seq(Numbers)
    PROVE  IsLateView(<<>>, t)
BY LenProperties DEF IsLateView

\* Everything is an ending of itself.
LEMMA LateViewSame ==
    ASSUME NEW t \in Seq(Numbers)
    PROVE  IsLateView(t, t)
BY LenProperties DEF IsLateView

\* Adding a call at the end and taking the first one off the front, as sequences
\* joined together.
LEMMA HeardFacts ==
    ASSUME NEW d \in Seq(Numbers), NEW o \in Seq(Numbers)
    PROVE  /\ d \o o \in Seq(Numbers)
           /\ \A n \in Numbers : d \o Append(o, n) = Append(d \o o, n)
           /\ o # <<>> => Append(d, Head(o)) \o Tail(o) = d \o o
<1>1. d \o o \in Seq(Numbers)
  BY ConcatProperties
<1>2. ASSUME NEW n \in Numbers PROVE d \o Append(o, n) = Append(d \o o, n)
  <2>1. <<n>> \in Seq(Numbers)
    OBVIOUS
  <2>2. Append(o, n) = o \o <<n>>
    BY AppendIsConcat
  <2>3. Append(d \o o, n) = (d \o o) \o <<n>>
    BY <1>1, AppendIsConcat
  <2> QED BY <2>1, <2>2, <2>3, ConcatAssociative
<1>3. ASSUME o # <<>> PROVE Append(d, Head(o)) \o Tail(o) = d \o o
  <2>1. Head(o) \in Numbers /\ Tail(o) \in Seq(Numbers) /\ <<Head(o)>> \in Seq(Numbers)
    BY <1>3, HeadTailProperties
  <2>2. Append(d, Head(o)) = d \o <<Head(o)>>
    BY <2>1, AppendIsConcat
  <2>3. <<Head(o)>> \o Tail(o) = o
    <3>1. o \in Seq(Numbers) /\ Len(o) \in Nat \ {0} /\ Head(o) = o[1]
          /\ Len(Tail(o)) = Len(o) - 1
          /\ \A k \in 1..(Len(o) - 1) : Tail(o)[k] = o[k + 1]
      BY <1>3, HeadTailProperties, LenProperties, EmptySeq
    <3>2. /\ <<Head(o)>> \o Tail(o) \in Seq(Numbers)
          /\ Len(<<Head(o)>> \o Tail(o)) = 1 + Len(Tail(o))
          /\ \A k \in 1..(1 + Len(Tail(o))) :
                (<<Head(o)>> \o Tail(o))[k] =
                    IF k <= 1 THEN <<Head(o)>>[k] ELSE Tail(o)[k - 1]
      BY <2>1, ConcatProperties
    <3>3. Len(<<Head(o)>> \o Tail(o)) = Len(o)
      BY <3>1, <3>2
    <3>4. \A k \in 1..Len(o) : (<<Head(o)>> \o Tail(o))[k] = o[k]
      BY <3>1, <3>2
    <3> QED BY <3>1, <3>2, <3>3, <3>4, SeqEqual
  <2> QED BY <2>1, <2>2, <2>3, ConcatAssociative
<1> QED BY <1>1, <1>2, <1>3

-----------------------------------------------------------------------------

\* The initial state is well typed, and so is what a step leads to.
LEMMA InitType == Init => TypeOK
BY EmptySeq DEF Init, NobodyCalled, TypeOK

\* What a client is promised is a sequence of numbers.
LEMMA PromisedType ==
    ASSUME TypeOK
    PROVE  \A c \in Clients : Promised(c) \in Seq(Numbers)
BY ConcatProperties DEF TypeOK, Promised

\* Every step keeps the types.
LEMMA NextType == TypeOK /\ [Next]_vars => TypeOK'
<1> SUFFICES ASSUME TypeOK, [Next]_vars PROVE TypeOK'
  OBVIOUS
<1>0. <<>> \in Seq(Numbers)
  BY EmptySeq
<1>1. ASSUME NEW n \in Numbers, Ask(n) \/ Call(n) PROVE TypeOK'
  <2>1. CASE Ask(n)
    BY <2>1 DEF Ask, TypeOK
  <2>2. CASE Call(n)
    <3>1. <<n>> \in Seq(Numbers)
      OBVIOUS
    <3>2. coming' \in [Clients -> Seq(Numbers)]
      BY <1>0, <2>2, <3>1 DEF Call, TypeOK
    <3> QED BY <2>2, <3>2 DEF Call, TypeOK
  <2> QED BY <1>1, <2>1, <2>2
<1>2. ASSUME NEW c \in Clients, Join(c) \/ Leave(c) PROVE TypeOK'
  <2>1. CASE Join(c)
    BY <2>1 DEF Join, TypeOK
  <2>2. CASE Leave(c)
    <3>1. owed' \in [Clients -> Seq(Numbers)] /\ coming' \in [Clients -> Seq(Numbers)]
      BY <1>0, <2>2 DEF Leave, TypeOK
    <3> QED BY <2>2, <3>1 DEF Leave, TypeOK
  <2> QED BY <1>2, <2>1, <2>2
<1>3. ASSUME NEW c \in Clients, Count(c) PROVE TypeOK'
  <2>1. owed[c] \in Seq(Numbers) /\ done[c] \in Seq(Numbers) /\ owed[c] # <<>>
    BY <1>3 DEF Count, TypeOK
  <2>2. Append(done[c], Head(owed[c])) \in Seq(Numbers) /\ Tail(owed[c]) \in Seq(Numbers)
    BY <2>1, HeadTailProperties, AppendProperties
  <2> QED BY <1>3, <2>2 DEF Count, TypeOK
<1>4. ASSUME NEW c \in Clients, Reach(c) PROVE TypeOK'
  <2>1. owed[c] \in Seq(Numbers) /\ coming[c] \in Seq(Numbers) /\ coming[c] # <<>>
    BY <1>4 DEF Reach, TypeOK
  <2>2. Append(owed[c], Head(coming[c])) \in Seq(Numbers) /\ Tail(coming[c]) \in Seq(Numbers)
    BY <2>1, HeadTailProperties, AppendProperties
  <2> QED BY <1>4, <2>2 DEF Reach, TypeOK
<1>5. CASE Lose
  BY <1>5 DEF Lose, TypeOK
<1>6. CASE Stop
  <2>1. coming' \in [Clients -> Seq(Numbers)]
    BY <1>0, <1>6 DEF Stop
  <2> QED BY <1>6, <2>1 DEF Stop, TypeOK
<1>7. CASE UNCHANGED vars
  BY <1>7 DEF vars, TypeOK
<1> QED BY <1>1, <1>2, <1>3, <1>4, <1>5, <1>6, <1>7 DEF Next

\* Two clients agree as one's calls end with the other's.
Agree(c, d) == IsLateView(Promised(c), Promised(d)) \/ IsLateView(Promised(d), Promised(c))

\* Agreement survives every step: a call is to all who are present, reaching a
\* client or being counted down changes nobody's promises, and a newcomer has
\* none.
LEMMA NextAgrees == TypeOK /\ Agreement /\ [Next]_vars => Agreement'
<1> SUFFICES ASSUME TypeOK, Agreement, [Next]_vars, up',
                    NEW c \in present', NEW d \in present'
             PROVE  Agree(c, d)'
  BY DEF Agreement, Agree
<1>0. /\ up \in BOOLEAN
      /\ present \subseteq Clients
      /\ \A e \in Clients : /\ owed[e] \in Seq(Numbers) /\ done[e] \in Seq(Numbers)
                            /\ coming[e] \in Seq(Numbers)
                            /\ Promised(e) \in Seq(Numbers)
  BY PromisedType DEF TypeOK
<1>same. ASSUME up, c \in present, d \in present,
                Promised(c)' = Promised(c), Promised(d)' = Promised(d)
         PROVE  Agree(c, d)'
  <2>1. Agree(c, d)
    BY <1>same DEF Agreement, Agree
  <2> QED BY <1>same, <2>1 DEF Agree, IsLateView
<1>1. ASSUME NEW n \in Numbers, Ask(n) PROVE Agree(c, d)'
  <2>1. up /\ c \in present /\ d \in present
        /\ Promised(c)' = Promised(c) /\ Promised(d)' = Promised(d)
    BY <1>1 DEF Ask, Promised
  <2> QED BY <1>same, <2>1
<1>2. ASSUME NEW n \in Numbers, Call(n) PROVE Agree(c, d)'
  <2>1. c \in present /\ d \in present /\ c \in Clients /\ d \in Clients /\ up
    BY <1>2 DEF Call, TypeOK
  <2>2. \A e \in {c, d} : Promised(e)' = Append(Promised(e), n)
    <3> SUFFICES ASSUME NEW e \in {c, d} PROVE Promised(e)' = Append(Promised(e), n)
      OBVIOUS
    <3>1. /\ e \in Clients /\ e \in present
          /\ done[e] \in Seq(Numbers) /\ owed[e] \in Seq(Numbers)
      BY <1>0, <2>1
    <3>2. done'[e] = done[e] /\ owed'[e] = owed[e] /\ coming[e] = <<>> /\ coming'[e] = <<n>>
      BY <1>2, <3>1 DEF Call, NobodyCalled
    <3>3. done[e] \o owed[e] \in Seq(Numbers)
      BY <3>1, HeardFacts
    <3>4. (done[e] \o owed[e]) \o <<>> = done[e] \o owed[e]
      BY <3>3, ConcatEmptySeq
    <3>5. (done[e] \o owed[e]) \o <<n>> = Append(done[e] \o owed[e], n)
      BY <3>3, AppendIsConcat
    <3> QED BY <3>2, <3>4, <3>5 DEF Promised
  <2>3. Agree(c, d)
    BY <2>1 DEF Agreement, Agree
  <2>4. \/ IsLateView(Append(Promised(c), n), Append(Promised(d), n))
        \/ IsLateView(Append(Promised(d), n), Append(Promised(c), n))
    BY <1>0, <2>1, <2>3, LateViewAppend DEF Agree
  <2> QED BY <2>2, <2>4 DEF Agree, IsLateView
<1>3. ASSUME NEW e \in Clients, Join(e) PROVE Agree(c, d)'
  <2>1. /\ c \in Clients /\ d \in Clients /\ up
        /\ Promised(c)' = Promised(c) /\ Promised(d)' = Promised(d)
        /\ present' = present \cup {e}
    BY <1>3 DEF Join, TypeOK, Promised
  <2>2. Promised(e) = <<>>
    <3>1. owed[e] = <<>> /\ done[e] = <<>> /\ coming[e] = <<>>
      BY <1>3 DEF Join, NobodyCalled
    <3> QED BY <3>1, EmptySeq, ConcatEmptySeq DEF Promised
  <2>3. Agree(c, d)
    <3>1. CASE c = e
      BY <1>0, <2>1, <2>2, <3>1, LateViewEmpty DEF Agree
    <3>2. CASE d = e
      BY <1>0, <2>1, <2>2, <3>2, LateViewEmpty DEF Agree
    <3>3. CASE c # e /\ d # e
      BY <2>1, <3>3 DEF Agreement, Agree
    <3> QED BY <3>1, <3>2, <3>3
  <2> QED BY <2>1, <2>3 DEF Agree, IsLateView
<1>4. ASSUME NEW e \in Clients, Count(e) PROVE Agree(c, d)'
  <2>1. c \in present /\ d \in present /\ c \in Clients /\ d \in Clients /\ up
    BY <1>4 DEF Count, TypeOK
  <2>2. \A f \in {c, d} : Promised(f)' = Promised(f)
    <3> SUFFICES ASSUME NEW f \in {c, d} PROVE Promised(f)' = Promised(f)
      OBVIOUS
    <3>1. CASE f = e
      <4>1. owed[e] # <<>> /\ done'[e] = Append(done[e], Head(owed[e]))
            /\ owed'[e] = Tail(owed[e]) /\ coming'[e] = coming[e]
        BY <1>4 DEF Count, TypeOK
      <4>2. Append(done[e], Head(owed[e])) \o Tail(owed[e]) = done[e] \o owed[e]
        BY <1>0, <4>1, HeardFacts
      <4> QED BY <3>1, <4>1, <4>2 DEF Promised
    <3>2. CASE f # e
      BY <1>4, <2>1, <3>2 DEF Count, TypeOK, Promised
    <3> QED BY <3>1, <3>2
  <2> QED BY <1>same, <2>1, <2>2
<1>5. ASSUME NEW e \in Clients, Reach(e) PROVE Agree(c, d)'
  <2>1. c \in present /\ d \in present /\ c \in Clients /\ d \in Clients /\ up
    BY <1>5 DEF Reach, TypeOK
  <2>2. \A f \in {c, d} : Promised(f)' = Promised(f)
    <3> SUFFICES ASSUME NEW f \in {c, d} PROVE Promised(f)' = Promised(f)
      OBVIOUS
    <3>1. CASE f = e
      <4>1. coming[e] # <<>> /\ owed'[e] = Append(owed[e], Head(coming[e]))
            /\ coming'[e] = Tail(coming[e]) /\ done'[e] = done[e]
        BY <1>5 DEF Reach, TypeOK
      <4>2. done[e] \in Seq(Numbers) /\ owed[e] \in Seq(Numbers) /\ coming[e] \in Seq(Numbers)
        BY <1>0
      <4>3. Head(coming[e]) \in Numbers
        BY <4>1, <4>2, HeadTailProperties
      <4>4. done[e] \o Append(owed[e], Head(coming[e])) = Append(done[e] \o owed[e], Head(coming[e]))
        BY <4>2, <4>3, HeardFacts
      <4>5. done[e] \o owed[e] \in Seq(Numbers)
        BY <4>2, HeardFacts
      <4>6. Append(done[e] \o owed[e], Head(coming[e])) \o Tail(coming[e])
              = (done[e] \o owed[e]) \o coming[e]
        BY <4>1, <4>2, <4>5, HeardFacts
      <4> QED BY <3>1, <4>1, <4>4, <4>6 DEF Promised
    <3>2. CASE f # e
      BY <1>5, <2>1, <3>2 DEF Reach, TypeOK, Promised
    <3> QED BY <3>1, <3>2
  <2> QED BY <1>same, <2>1, <2>2
<1>6. ASSUME NEW e \in Clients, Leave(e) PROVE Agree(c, d)'
  <2>1. c \in present \ {e} /\ d \in present \ {e} /\ c \in Clients /\ d \in Clients /\ up
    BY <1>6 DEF Leave, TypeOK
  <2>2. Promised(c)' = Promised(c) /\ Promised(d)' = Promised(d)
    BY <1>6, <2>1 DEF Leave, TypeOK, Promised
  <2> QED BY <1>same, <2>1, <2>2
<1>7. CASE Lose \/ UNCHANGED vars
  <2>1. up /\ c \in present /\ d \in present
        /\ Promised(c)' = Promised(c) /\ Promised(d)' = Promised(d)
    BY <1>7 DEF Lose, vars, Promised
  <2> QED BY <1>same, <2>1
<1>8. CASE Stop
  BY <1>8 DEF Stop
<1> QED BY <1>1, <1>2, <1>3, <1>4, <1>5, <1>6, <1>7, <1>8 DEF Next

\* However countdowns are asked for, lost and called, whoever joins, leaves or
\* lags behind, and wherever a call under way is stuck: what has been called to
\* one client present is an ending of what has been called to any other, so
\* nobody counts down something that is not also meant for the others.
THEOREM AllAgree == Spec => []Agreement
<1>1. Init => Agreement
  <2> SUFFICES ASSUME Init, NEW c \in present, NEW d \in present
               PROVE  IsLateView(Promised(c), Promised(d))
    BY DEF Agreement
  <2>1. Promised(c) = <<>> /\ Promised(d) = <<>>
    BY EmptySeq, ConcatEmptySeq DEF Init, NobodyCalled, Promised
  <2> QED BY <2>1, EmptySeq, LateViewEmpty
<1> QED BY <1>1, InitType, NextType, NextAgrees, PTL DEF Spec
=============================================================================
