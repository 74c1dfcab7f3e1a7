------------------------------- MODULE Counting -------------------------------
(* How often a value is in a sequence, as queues and lists grow at the tail  *)
(* and are taken from the head.                                              *)
EXTENDS Integers, Sequences, FiniteSets, FiniteSetTheorems, FunctionTheorems, TLAPS

\* How often v is in q.
Times(q, v) == Cardinality({i \in 1 .. Len(q) : q[i] = v})

\* A natural number of times.
LEMMA TimesType ==
    ASSUME NEW S, NEW q \in Seq(S), NEW v
    PROVE  IsFiniteSet({i \in 1 .. Len(q) : q[i] = v}) /\ Times(q, v) \in Nat
<1>1. IsFiniteSet(1 .. Len(q))
    BY FS_Interval
<1>2. IsFiniteSet({i \in 1 .. Len(q) : q[i] = v})
    BY <1>1, FS_Subset
<1>. QED BY <1>2, FS_CardinalityType DEF Times

\* Once more if it is appended.
LEMMA TimesAppend ==
    ASSUME NEW S, NEW q \in Seq(S), NEW e \in S, NEW v
    PROVE  Times(Append(q, e), v) = IF e = v THEN Times(q, v) + 1 ELSE Times(q, v)
<1> DEFINE Before == {i \in 1 .. Len(q) : q[i] = v}
           Now    == {i \in 1 .. Len(Append(q, e)) : Append(q, e)[i] = v}
<1>1. PICK len \in Nat : len = Len(q)
    OBVIOUS
<1>2. /\ Len(Append(q, e)) = len + 1 /\ Append(q, e)[len + 1] = e
      /\ 1 .. len + 1 = 1 .. len \cup {len + 1}
      /\ \A i \in 1 .. len : Append(q, e)[i] = q[i]
    BY <1>1
<1>3. CASE e = v
    <2>1. Now = Before \cup {len + 1} /\ len + 1 \notin Before
        BY <1>1, <1>2, <1>3
    <2>2. IsFiniteSet(Before)
        BY TimesType
    <2>3. Cardinality(Now) = Cardinality(Before) + 1
        BY <2>1, <2>2, FS_AddElement
    <2>. QED BY <1>3, <2>3 DEF Times
<1>4. CASE e # v
    <2>1. Now = Before
        BY <1>1, <1>2, <1>4
    <2>. QED BY <1>4, <2>1 DEF Times
<1>. QED BY <1>3, <1>4

\* Once less if it was the first and is taken away.
LEMMA TimesTail ==
    ASSUME NEW S, NEW q \in Seq(S), q # <<>>, NEW v
    PROVE  Times(q, v) = IF Head(q) = v THEN Times(Tail(q), v) + 1 ELSE Times(Tail(q), v)
<1> DEFINE Before == {i \in 1 .. Len(q) : q[i] = v}
           Now    == {i \in 1 .. Len(Tail(q)) : Tail(q)[i] = v}
           Kept   == {i \in Before : i # 1}
           shift  == [i \in Now |-> i + 1]
<1>1. PICK len \in Nat : Len(q) = len + 1
    <2>1. Len(q) - 1 \in Nat /\ Len(q) = (Len(q) - 1) + 1
        OBVIOUS
    <2>. QED BY <2>1
<1>2. /\ Len(Tail(q)) = len /\ Head(q) = q[1] /\ 1 \in 1 .. len + 1
      /\ \A i \in 1 .. len : Tail(q)[i] = q[i + 1] /\ i + 1 \in 1 .. len + 1
    BY <1>1
<1>3. IsFiniteSet(Now) /\ Cardinality(Now) = Times(Tail(q), v) /\ Times(Tail(q), v) \in Nat
    <2>1. Tail(q) \in Seq(S)
        OBVIOUS
    <2>2. IsFiniteSet(Now) /\ Times(Tail(q), v) \in Nat
        BY <2>1, TimesType
    <2>3. Cardinality(Now) = Times(Tail(q), v)
        BY DEF Times
    <2>. QED BY <2>2, <2>3
<1>4. shift \in Bijection(Now, Kept)
    <2>1. ASSUME NEW i \in Kept PROVE \E j \in Now : shift[j] = i
        <3>1. i - 1 \in 1 .. len /\ (i - 1) + 1 = i
            BY <1>1
        <3>. QED BY <1>2, <3>1
    <2>2. shift \in [Now -> Kept] /\ \A i, j \in Now : shift[i] = shift[j] => i = j
        BY <1>1, <1>2
    <2>. QED BY <2>1, <2>2, Fun_IsBij
<1>5. IsFiniteSet(Kept) /\ Cardinality(Kept) = Cardinality(Now)
    <2>1. ExistsBijection(Now, Kept)
        BY <1>4, Fun_ExistsBij
    <2>. HIDE DEF Now, Kept
    <2>. QED BY <1>3, <2>1, FS_Bijection
<1>6. CASE Head(q) = v
    <2>1. Before = Kept \cup {1} /\ 1 \notin Kept
        BY <1>1, <1>2, <1>6
    <2>. QED BY <1>3, <1>5, <1>6, <2>1, FS_AddElement DEF Times
<1>7. CASE Head(q) # v
    <2>1. Before = Kept
        BY <1>1, <1>2, <1>7
    <2>. QED BY <1>3, <1>5, <1>7, <2>1 DEF Times
<1>. QED BY <1>6, <1>7

\* No value is in the empty sequence.
LEMMA TimesNone == ASSUME NEW v PROVE Times(<<>>, v) = 0
<1>1. {i \in 1 .. Len(<<>>) : <<>>[i] = v} = {}
    OBVIOUS
<1>. QED BY <1>1, FS_EmptySet DEF Times

\* A value that is not there is there no time.
LEMMA TimesAbsent ==
    ASSUME NEW q, NEW v, \A i \in 1 .. Len(q) : q[i] # v
    PROVE  Times(q, v) = 0
<1>1. {i \in 1 .. Len(q) : q[i] = v} = {}
    OBVIOUS
<1>. QED BY <1>1, FS_EmptySet DEF Times
===============================================================================
