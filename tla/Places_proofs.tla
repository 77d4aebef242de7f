---------------------------- MODULE Places_proofs ----------------------------
(***************************************************************************)
(* What appending an event to a queue, taking its first one and replacing  *)
(* the first one by a recalled one do to the places of the events of one   *)
(* kind, to their number, to the messages they carry and to their order.   *)
(***************************************************************************)
EXTENDS Places, Integers, FiniteSets, SequenceTheorems, FiniteSetTheorems, TLAPS

-----------------------------------------------------------------------------
(* Sequences, place by place *)

LEMMA AppendPlaces ==
    ASSUME NEW S, NEW s \in Seq(S), NEW e \in S, NEW P
    PROVE  /\ Append(s, e) \in Seq(S) /\ Len(Append(s, e)) = Len(s) + 1
           /\ \A i \in DOMAIN s : Append(s, e)[i] = s[i]
           /\ Append(s, e)[Len(s) + 1] = e
           /\ DOMAIN Append(s, e) = DOMAIN s \cup {Len(s) + 1}
           /\ Len(s) + 1 \notin DOMAIN s /\ Len(s) \in Nat
           /\ Positions(Append(s, e), P) =
                 Positions(s, P) \cup (IF e \in P THEN {Len(s) + 1} ELSE {})
<1>1. /\ Append(s, e) \in Seq(S) /\ Len(Append(s, e)) = Len(s) + 1
      /\ \A i \in 1 .. Len(s) : Append(s, e)[i] = s[i]
      /\ Append(s, e)[Len(s) + 1] = e
      /\ DOMAIN s = 1 .. Len(s) /\ Len(s) \in Nat
      /\ DOMAIN Append(s, e) = 1 .. Len(s) + 1
  BY AppendProperties, LenProperties
<1>2. 1 .. Len(s) + 1 = 1 .. Len(s) \cup {Len(s) + 1} /\ Len(s) + 1 \notin 1 .. Len(s)
  BY <1>1
<1>. QED BY <1>1, <1>2 DEF Positions

LEMMA TailPlaces ==
    ASSUME NEW S, NEW s \in Seq(S), s # <<>>
    PROVE  /\ Tail(s) \in Seq(S) /\ Len(Tail(s)) = Len(s) - 1
           /\ Head(s) = s[1] /\ s[1] \in S /\ 1 \in DOMAIN s
           /\ \A i \in DOMAIN Tail(s) :
                 i \in Nat \ {0} /\ i + 1 \in DOMAIN s /\ Tail(s)[i] = s[i + 1]
           /\ \A i \in DOMAIN s \ {1} :
                 i \in Nat /\ i - 1 \in DOMAIN Tail(s) /\ Tail(s)[i - 1] = s[i]
<1>1. /\ Tail(s) \in Seq(S) /\ Len(Tail(s)) = Len(s) - 1
      /\ \A i \in 1 .. Len(Tail(s)) : Tail(s)[i] = s[i + 1]
      /\ DOMAIN s = 1 .. Len(s) /\ Len(s) \in Nat \ {0}
      /\ DOMAIN Tail(s) = 1 .. Len(Tail(s))
  BY HeadTailProperties, LenProperties, EmptySeq
<1>2. Head(s) = s[1] /\ s[1] \in S
  BY <1>1
<1>. QED BY <1>1, <1>2

\* The next event is replaced by a recalled one.
LEMMA FrontPlaces ==
    ASSUME NEW S, NEW s \in Seq(S), s # <<>>, NEW e \in S
    PROVE  /\ <<e>> \o Tail(s) \in Seq(S)
           /\ <<e>> \o Tail(s) = [s EXCEPT ![1] = e]
           /\ DOMAIN (<<e>> \o Tail(s)) = DOMAIN s
<1>1. /\ Tail(s) \in Seq(S) /\ Len(Tail(s)) = Len(s) - 1
      /\ \A i \in 1 .. Len(Tail(s)) : Tail(s)[i] = s[i + 1]
      /\ DOMAIN s = 1 .. Len(s) /\ Len(s) \in Nat \ {0}
      /\ <<e>> \in Seq(S) /\ Len(<<e>>) = 1 /\ <<e>>[1] = e
  BY HeadTailProperties, LenProperties, EmptySeq
<1>2. /\ <<e>> \o Tail(s) \in Seq(S) /\ Len(<<e>> \o Tail(s)) = Len(s)
      /\ \A i \in 1 .. Len(s) :
            (<<e>> \o Tail(s))[i] = IF i <= 1 THEN e ELSE Tail(s)[i - 1]
  BY <1>1, ConcatProperties, 1 + (Len(s) - 1) = Len(s)
<1>3. /\ [s EXCEPT ![1] = e] \in Seq(S) /\ Len([s EXCEPT ![1] = e]) = Len(s)
      /\ \A i \in 1 .. Len(s) : [s EXCEPT ![1] = e][i] = IF i = 1 THEN e ELSE s[i]
  BY <1>1, ExceptSeq
<1>4. \A i \in 1 .. Len(s) : (<<e>> \o Tail(s))[i] = [s EXCEPT ![1] = e][i]
  BY <1>1, <1>2, <1>3
<1>5. <<e>> \o Tail(s) = [s EXCEPT ![1] = e]
  BY <1>2, <1>3, <1>4, SeqEqual
<1>. QED BY <1>1, <1>2, <1>5, LenProperties

-----------------------------------------------------------------------------
(* The number of places *)

LEMMA PositionsFinite ==
    ASSUME NEW S, NEW s \in Seq(S), NEW P
    PROVE  IsFiniteSet(Positions(s, P)) /\ Cardinality(Positions(s, P)) \in Nat
<1>1. Positions(s, P) \in SUBSET (1 .. Len(s)) /\ Len(s) \in Nat
  BY LenProperties DEF Positions
<1>2. IsFiniteSet(1 .. Len(s))
  BY <1>1, FS_Interval
<1>3. IsFiniteSet(Positions(s, P))
  BY <1>1, <1>2, FS_Subset
<1>. QED BY <1>3, FS_CardinalityType

LEMMA CountAppend ==
    ASSUME NEW S, NEW s \in Seq(S), NEW e \in S, NEW P
    PROVE  /\ e \in P => Cardinality(Positions(Append(s, e), P)) =
                            Cardinality(Positions(s, P)) + 1
           /\ e \notin P => Cardinality(Positions(Append(s, e), P)) =
                               Cardinality(Positions(s, P))
<1>1. /\ Positions(Append(s, e), P) =
            Positions(s, P) \cup (IF e \in P THEN {Len(s) + 1} ELSE {})
      /\ Len(s) + 1 \notin Positions(s, P)
  BY AppendPlaces DEF Positions
<1>2. IsFiniteSet(Positions(s, P)) /\ Cardinality(Positions(s, P)) \in Nat
  BY PositionsFinite
<1>3. Cardinality(Positions(s, P) \cup {Len(s) + 1}) = Cardinality(Positions(s, P)) + 1
  BY <1>1, <1>2, FS_AddElement
<1>4. CASE e \in P
  BY <1>1, <1>3, <1>4
<1>5. CASE e \notin P
  <2>1. Positions(Append(s, e), P) = Positions(s, P)
    BY <1>1, <1>5
  <2>. QED BY <1>2, <1>5, <2>1
<1>. QED BY <1>4, <1>5

\* Shifting places by one does not change their number.
LEMMA CountTail ==
    ASSUME NEW S, NEW s \in Seq(S), s # <<>>, NEW P
    PROVE  /\ Head(s) \in P => Cardinality(Positions(Tail(s), P)) =
                                  Cardinality(Positions(s, P)) - 1
           /\ Head(s) \notin P => Cardinality(Positions(Tail(s), P)) =
                                     Cardinality(Positions(s, P))
<1>. DEFINE A == Positions(Tail(s), P)
            B == Positions(s, P) \ {1}
            f == [i \in A |-> i + 1]
<1>1. f \in Bijection(A, B)
  <2>1. \A i \in A : i \in Nat /\ i + 1 \in B
    BY TailPlaces DEF Positions
  <2>2. \A j \in B : j \in Nat /\ j - 1 \in A
    BY TailPlaces DEF Positions
  <2>3. f \in [A -> B] /\ \A i, j \in A : f[i] = f[j] => i = j
    BY <2>1
  <2>4. \A j \in B : \E i \in A : f[i] = j
    <3>1. ASSUME NEW j \in B PROVE \E i \in A : f[i] = j
      <4>1. j \in Nat /\ j - 1 \in A
        BY <2>2
      <4>2. f[j - 1] = j - 1 + 1
        BY <4>1
      <4>. QED BY <4>1, <4>2
    <3>. QED BY <3>1
  <2>. QED BY <2>3, <2>4 DEF Bijection, Injection, Surjection, IsInjective
<1>2. IsFiniteSet(A)
  BY TailPlaces, PositionsFinite
<1>3. Cardinality(B) = Cardinality(A)
  BY <1>1, <1>2, FS_Bijection DEF ExistsBijection
<1>4. 1 \in Positions(s, P) <=> Head(s) \in P
  BY TailPlaces DEF Positions
<1>5. IsFiniteSet(Positions(s, P)) /\ Cardinality(Positions(s, P)) \in Nat
  BY PositionsFinite
<1>6. 1 \in Positions(s, P) => Cardinality(B) = Cardinality(Positions(s, P)) - 1
  BY <1>5, FS_RemoveElement
<1>7. 1 \notin Positions(s, P) => B = Positions(s, P)
  OBVIOUS
<1>. HIDE DEF A, B, f
<1>8. /\ Head(s) \in P => Cardinality(A) = Cardinality(Positions(s, P)) - 1
      /\ Head(s) \notin P => Cardinality(A) = Cardinality(Positions(s, P))
  BY <1>3, <1>4, <1>6, <1>7
<1>. QED BY <1>8 DEF A

LEMMA CountFront ==
    ASSUME NEW S, NEW s \in Seq(S), s # <<>>, NEW e \in S, NEW P, e \notin P
    PROVE  /\ Head(s) \in P => Cardinality(Positions([s EXCEPT ![1] = e], P)) =
                                  Cardinality(Positions(s, P)) - 1
           /\ Head(s) \notin P => Cardinality(Positions([s EXCEPT ![1] = e], P)) =
                                     Cardinality(Positions(s, P))
<1>1. s \in [DOMAIN s -> S] /\ 1 \in DOMAIN s /\ Head(s) = s[1]
  BY TailPlaces, LenProperties
<1>2. Positions([s EXCEPT ![1] = e], P) = Positions(s, P) \ {1}
  BY <1>1 DEF Positions
<1>3. 1 \in Positions(s, P) <=> Head(s) \in P
  BY <1>1 DEF Positions
<1>4. IsFiniteSet(Positions(s, P)) /\ Cardinality(Positions(s, P)) \in Nat
  BY PositionsFinite
<1>5. 1 \in Positions(s, P) =>
        Cardinality(Positions(s, P) \ {1}) = Cardinality(Positions(s, P)) - 1
  BY <1>4, FS_RemoveElement
<1>6. 1 \notin Positions(s, P) => Positions(s, P) \ {1} = Positions(s, P)
  OBVIOUS
<1>. QED BY <1>2, <1>3, <1>5, <1>6

-----------------------------------------------------------------------------
(* The messages carried *)

LEMMA CarriedAppend ==
    ASSUME NEW S, NEW s \in Seq(S), NEW e \in S, NEW P
    PROVE  /\ e \notin P => /\ Carried(Append(s, e), P) = Carried(s, P)
                            /\ OnceIn(s, P) => OnceIn(Append(s, e), P)
           /\ e \in P => Carried(Append(s, e), P) = Carried(s, P) \cup {e.msg}
           /\ e \in P /\ OnceIn(s, P) /\ e.msg \notin Carried(s, P)
                => OnceIn(Append(s, e), P)
<1>. DEFINE t == Append(s, e)
            n == Len(s) + 1
<1>1. /\ \A i \in DOMAIN s : t[i] = s[i]
      /\ t[n] = e /\ n \notin DOMAIN s
      /\ Positions(t, P) = Positions(s, P) \cup (IF e \in P THEN {n} ELSE {})
  BY AppendPlaces
<1>2. \A i \in Positions(s, P) : i \in DOMAIN s /\ t[i] = s[i]
  BY <1>1 DEF Positions
<1>. HIDE DEF t, n
<1>3. CASE e \notin P
  <2>1. Positions(t, P) = Positions(s, P)
    BY <1>1, <1>3
  <2>2. Carried(t, P) = Carried(s, P)
    BY <1>2, <2>1 DEF Carried
  <2>3. OnceIn(s, P) => OnceIn(t, P)
    BY <1>2, <2>1 DEF OnceIn
  <2>. QED BY <1>3, <2>2, <2>3 DEF t
<1>4. CASE e \in P
  <2>1. Positions(t, P) = Positions(s, P) \cup {n}
    BY <1>1, <1>4
  <2>2. Carried(t, P) = Carried(s, P) \cup {e.msg}
    BY <1>1, <1>2, <2>1 DEF Carried
  <2>3. ASSUME OnceIn(s, P), e.msg \notin Carried(s, P) PROVE OnceIn(t, P)
    <3>1. \A i \in Positions(s, P) : s[i].msg # e.msg
      BY <2>3 DEF Carried
    <3>. QED BY <1>1, <1>2, <2>1, <2>3, <3>1 DEF OnceIn
  <2>. QED BY <1>4, <2>2, <2>3 DEF t
<1>. QED BY <1>3, <1>4

LEMMA CarriedTail ==
    ASSUME NEW S, NEW s \in Seq(S), s # <<>>, NEW P, OnceIn(s, P)
    PROVE  /\ OnceIn(Tail(s), P)
           /\ Head(s) \notin P => Carried(Tail(s), P) = Carried(s, P)
           /\ Head(s) \in P => /\ Carried(Tail(s), P) = Carried(s, P) \ {Head(s).msg}
                               /\ Head(s).msg \in Carried(s, P)
<1>1. /\ Head(s) = s[1] /\ 1 \in DOMAIN s
      /\ \A i \in Positions(Tail(s), P) :
            i \in Nat \ {0} /\ i + 1 \in Positions(s, P) /\ Tail(s)[i] = s[i + 1]
      /\ \A i \in Positions(s, P) \ {1} :
            i \in Nat /\ i - 1 \in Positions(Tail(s), P) /\ Tail(s)[i - 1] = s[i]
      /\ 1 \in Positions(s, P) <=> Head(s) \in P
  BY TailPlaces DEF Positions
<1>2. Carried(Tail(s), P) = {s[i].msg : i \in Positions(s, P) \ {1}}
  <2>1. ASSUME NEW i \in Positions(Tail(s), P)
        PROVE  i + 1 \in Positions(s, P) \ {1} /\ Tail(s)[i].msg = s[i + 1].msg
    <3>1. i \in Nat \ {0} /\ i + 1 \in Positions(s, P) /\ Tail(s)[i] = s[i + 1]
      BY <1>1
    <3>2. i + 1 # 1
      BY <3>1
    <3>. QED BY <3>1, <3>2, Zenon
  <2>2. \A i \in Positions(s, P) \ {1} :
           i - 1 \in Positions(Tail(s), P) /\ Tail(s)[i - 1].msg = s[i].msg
    BY <1>1
  <2>3. ASSUME NEW m \in Carried(Tail(s), P)
        PROVE  m \in {s[i].msg : i \in Positions(s, P) \ {1}}
    BY <2>1 DEF Carried
  <2>4. ASSUME NEW m \in {s[i].msg : i \in Positions(s, P) \ {1}}
        PROVE  m \in Carried(Tail(s), P)
    <3>1. PICK j \in Positions(s, P) \ {1} : m = s[j].msg
      OBVIOUS
    <3>. QED BY <2>2, <3>1 DEF Carried
  <2>. QED BY <2>3, <2>4
<1>3. OnceIn(Tail(s), P)
  <2>. SUFFICES ASSUME NEW i \in Positions(Tail(s), P), NEW j \in Positions(Tail(s), P),
                       Tail(s)[i].msg = Tail(s)[j].msg
                PROVE  i = j
    BY DEF OnceIn
  <2>1. /\ i \in Nat /\ i + 1 \in Positions(s, P) /\ Tail(s)[i] = s[i + 1]
        /\ j \in Nat /\ j + 1 \in Positions(s, P) /\ Tail(s)[j] = s[j + 1]
    BY <1>1
  <2>2. i + 1 = j + 1
    BY <2>1 DEF OnceIn
  <2>. QED BY <2>1, <2>2
<1>4. CASE Head(s) \notin P
  BY <1>1, <1>2, <1>3, <1>4 DEF Carried
<1>5. CASE Head(s) \in P
  <2>1. \A i \in Positions(s, P) \ {1} : s[i].msg # Head(s).msg
    BY <1>1, <1>5 DEF OnceIn
  <2>2. Head(s).msg \in Carried(s, P)
    BY <1>1, <1>5 DEF Carried
  <2>3. {s[i].msg : i \in Positions(s, P) \ {1}} = Carried(s, P) \ {Head(s).msg}
    BY <1>1, <2>1 DEF Carried
  <2>. QED BY <1>2, <1>3, <1>5, <2>2, <2>3
<1>. QED BY <1>4, <1>5

LEMMA CarriedFront ==
    ASSUME NEW S, NEW s \in Seq(S), s # <<>>, NEW e \in S, NEW P,
           OnceIn(s, P), Head(s) \notin P, e \in P, e.msg \notin Carried(s, P)
    PROVE  /\ OnceIn([s EXCEPT ![1] = e], P)
           /\ Carried([s EXCEPT ![1] = e], P) = Carried(s, P) \cup {e.msg}
<1>. DEFINE t == [s EXCEPT ![1] = e]
<1>1. s \in [DOMAIN s -> S] /\ 1 \in DOMAIN s /\ Head(s) = s[1]
  BY TailPlaces, LenProperties
<1>2. Positions(t, P) = Positions(s, P) \cup {1} /\ 1 \notin Positions(s, P)
  BY <1>1 DEF Positions
<1>3. t[1] = e /\ \A i \in Positions(s, P) : t[i] = s[i]
  BY <1>1, <1>2 DEF Positions
<1>. HIDE DEF t
<1>4. Carried(t, P) = Carried(s, P) \cup {e.msg}
  BY <1>2, <1>3 DEF Carried
<1>5. \A i \in Positions(s, P) : s[i].msg # e.msg
  BY DEF Carried
<1>6. OnceIn(t, P)
  BY <1>2, <1>3, <1>5 DEF OnceIn
<1>. QED BY <1>4, <1>6 DEF t

LEMMA CarriedFrontOther ==
    ASSUME NEW S, NEW s \in Seq(S), s # <<>>, NEW e \in S, NEW P,
           OnceIn(s, P), Head(s) \notin P, e \notin P
    PROVE  /\ OnceIn([s EXCEPT ![1] = e], P)
           /\ Carried([s EXCEPT ![1] = e], P) = Carried(s, P)
<1>. DEFINE t == [s EXCEPT ![1] = e]
<1>1. s \in [DOMAIN s -> S] /\ 1 \in DOMAIN s /\ Head(s) = s[1]
  BY TailPlaces, LenProperties
<1>2. Positions(t, P) = Positions(s, P) /\ 1 \notin Positions(s, P)
  BY <1>1 DEF Positions
<1>3. \A i \in Positions(s, P) : t[i] = s[i]
  BY <1>1, <1>2 DEF Positions
<1>. HIDE DEF t
<1>4. Carried(t, P) = Carried(s, P)
  BY <1>2, <1>3 DEF Carried
<1>5. OnceIn(t, P)
  BY <1>2, <1>3 DEF OnceIn
<1>. QED BY <1>4, <1>5 DEF t

-----------------------------------------------------------------------------
(* Five places that have nothing in common *)

Apart(A, B, C, D, E) ==
    /\ A \cap B = {} /\ A \cap C = {} /\ A \cap D = {} /\ A \cap E = {}
    /\ B \cap C = {} /\ B \cap D = {} /\ B \cap E = {}
    /\ C \cap D = {} /\ C \cap E = {}
    /\ D \cap E = {}

LEMMA FivePlaces ==
    ASSUME NEW A, NEW B, NEW C, NEW D, NEW E, NEW U
    PROVE  EachInOnePlace(U, <<A, B, C, D, E>>) <=>
              /\ A \cup B \cup C \cup D \cup E = U
              /\ Apart(A, B, C, D, E)
<1>. DEFINE w == <<A, B, C, D, E>>
<1>1. /\ DOMAIN w = {1, 2, 3, 4, 5}
      /\ w[1] = A /\ w[2] = B /\ w[3] = C /\ w[4] = D /\ w[5] = E
  OBVIOUS
<1>. HIDE DEF w
<1>2. UNION {w[i] : i \in DOMAIN w} = A \cup B \cup C \cup D \cup E
  <2>1. {w[i] : i \in DOMAIN w} = {A, B, C, D, E}
    BY <1>1
  <2>. QED BY <2>1
<1>3. (\A i, j \in DOMAIN w : i # j => w[i] \cap w[j] = {}) <=> Apart(A, B, C, D, E)
  BY <1>1 DEF Apart
<1>. QED BY <1>2, <1>3 DEF EachInOnePlace, w

\* The message at hand leaves A for C, and what C held goes to D.
LEMMA OneLeavesOneGoes ==
    ASSUME NEW A, NEW B, NEW C, NEW D, NEW E, NEW m \in A, Apart(A, B, C, D, E)
    PROVE  /\ Apart(A \ {m}, B, {m}, D \cup C, E)
           /\ (A \ {m}) \cup B \cup {m} \cup (D \cup C) \cup E
                 = A \cup B \cup C \cup D \cup E
BY DEF Apart

-----------------------------------------------------------------------------
(* Messages in the order of their numbers *)

Older(S, T)     == \A m \in S, n \in T : m < n
Ascending(s, P) == \A i, j \in Positions(s, P) : i < j => s[i].msg < s[j].msg

LEMMA AscendingAppend ==
    ASSUME NEW S, NEW s \in Seq(S), NEW e \in S, NEW P, Ascending(s, P),
           e \in P => Older(Carried(s, P), {e.msg})
    PROVE  Ascending(Append(s, e), P)
<1>. DEFINE t == Append(s, e)
            n == Len(s) + 1
<1>1. /\ \A i \in DOMAIN s : t[i] = s[i]
      /\ t[n] = e /\ n \notin DOMAIN s
      /\ Positions(t, P) = Positions(s, P) \cup (IF e \in P THEN {n} ELSE {})
  BY AppendPlaces
<1>2. \A i \in Positions(s, P) : i \in Nat /\ i < n /\ t[i] = s[i]
  BY <1>1, LenProperties DEF Positions
<1>3. n \in Nat
  BY LenProperties
<1>. HIDE DEF t, n
<1>4. \A i \in Positions(s, P) : e \in P => s[i].msg < e.msg
  BY DEF Carried, Older
<1>5. ASSUME NEW i \in Positions(t, P), NEW j \in Positions(t, P), i < j
      PROVE  t[i].msg < t[j].msg
  <2>1. i \in Positions(s, P)
    BY <1>1, <1>2, <1>3, <1>5
  <2>2. CASE j \in Positions(s, P)
    BY <1>2, <1>5, <2>1, <2>2 DEF Ascending
  <2>3. CASE j \notin Positions(s, P)
    BY <1>1, <1>2, <1>4, <2>1, <2>3
  <2>. QED BY <2>2, <2>3
<1>. QED BY <1>5 DEF Ascending, t

LEMMA AscendingTail ==
    ASSUME NEW S, NEW s \in Seq(S), s # <<>>, NEW P, Ascending(s, P)
    PROVE  /\ Ascending(Tail(s), P)
           /\ Head(s) \in P => Older({Head(s).msg}, Carried(Tail(s), P))
<1>1. /\ Head(s) = s[1]
      /\ \A i \in Positions(Tail(s), P) :
            i \in Nat \ {0} /\ i + 1 \in Positions(s, P) /\ Tail(s)[i] = s[i + 1]
      /\ Head(s) \in P => 1 \in Positions(s, P)
  BY TailPlaces DEF Positions
<1>2. ASSUME NEW i \in Positions(Tail(s), P), NEW j \in Positions(Tail(s), P), i < j
      PROVE  Tail(s)[i].msg < Tail(s)[j].msg
  <2>1. /\ i \in Nat /\ i + 1 \in Positions(s, P) /\ Tail(s)[i] = s[i + 1]
        /\ j \in Nat /\ j + 1 \in Positions(s, P) /\ Tail(s)[j] = s[j + 1]
    BY <1>1
  <2>2. i + 1 < j + 1
    BY <1>2, <2>1
  <2>. QED BY <2>1, <2>2 DEF Ascending
<1>3. ASSUME Head(s) \in P, NEW i \in Positions(Tail(s), P)
      PROVE  Head(s).msg < Tail(s)[i].msg
  <2>1. i \in Nat \ {0} /\ i + 1 \in Positions(s, P) /\ Tail(s)[i] = s[i + 1]
    BY <1>1
  <2>2. 1 < i + 1
    BY <2>1
  <2>. QED BY <1>1, <1>3, <2>1, <2>2 DEF Ascending
<1>. QED BY <1>2, <1>3 DEF Ascending, Older, Carried

LEMMA AscendingFront ==
    ASSUME NEW S, NEW s \in Seq(S), s # <<>>, NEW e \in S, NEW P,
           Ascending(s, P), Head(s) \notin P, Older({e.msg}, Carried(s, P))
    PROVE  Ascending([s EXCEPT ![1] = e], P)
<1>. DEFINE t == [s EXCEPT ![1] = e]
<1>1. /\ s \in [DOMAIN s -> S] /\ 1 \in DOMAIN s /\ Head(s) = s[1]
      /\ \A i \in DOMAIN s : i \in Nat \ {0}
  BY TailPlaces, LenProperties
<1>2. Positions(t, P) \subseteq Positions(s, P) \cup {1} /\ 1 \notin Positions(s, P)
  BY <1>1 DEF Positions
<1>3. t[1] = e /\ \A i \in Positions(s, P) : t[i] = s[i] /\ i \in Nat \ {0}
  BY <1>1, <1>2 DEF Positions
<1>4. \A i \in Positions(s, P) : e.msg < s[i].msg
  BY DEF Older, Carried
<1>. HIDE DEF t
<1>5. ASSUME NEW i \in Positions(t, P), NEW j \in Positions(t, P), i < j
      PROVE  t[i].msg < t[j].msg
  <2>1. j \in Positions(s, P)
    BY <1>2, <1>3, <1>5
  <2>. QED BY <1>2, <1>3, <1>4, <1>5, <2>1 DEF Ascending
<1>. QED BY <1>5 DEF Ascending, t

\* Recalling an event leaves the rest of the queue as it was.
LEMMA TailOfFront ==
    ASSUME NEW S, NEW s \in Seq(S), s # <<>>, NEW e \in S
    PROVE  /\ Tail([s EXCEPT ![1] = e]) = Tail(s)
           /\ Head([s EXCEPT ![1] = e]) = e
<1>. DEFINE t == [s EXCEPT ![1] = e]
<1>1. /\ s \in Seq(S) /\ Len(s) \in Nat \ {0}
      /\ t \in Seq(S) /\ Len(t) = Len(s)
      /\ \A i \in 1 .. Len(s) : t[i] = IF i = 1 THEN e ELSE s[i]
  BY ExceptSeq, LenProperties, EmptySeq
<1>2. t # <<>>
  BY <1>1
<1>. HIDE DEF t
<1>3. /\ Tail(s) \in Seq(S) /\ Len(Tail(s)) = Len(s) - 1
      /\ \A i \in 1 .. Len(Tail(s)) : Tail(s)[i] = s[i + 1]
  BY HeadTailProperties
<1>4. /\ Tail(t) \in Seq(S) /\ Len(Tail(t)) = Len(s) - 1 /\ Head(t) = t[1]
      /\ \A i \in 1 .. Len(Tail(t)) : Tail(t)[i] = t[i + 1]
  BY <1>1, <1>2, HeadTailProperties
<1>5. \A i \in 1 .. Len(Tail(s)) : Tail(s)[i] = Tail(t)[i]
  BY <1>1, <1>3, <1>4
<1>6. Tail(s) = Tail(t)
  BY <1>3, <1>4, <1>5, SeqEqual
<1>. QED BY <1>1, <1>4, <1>6 DEF t
=============================================================================
