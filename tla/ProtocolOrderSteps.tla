------------------------- MODULE ProtocolOrderSteps -------------------------
(***************************************************************************)
(* A step keeps the messages of a task in the order they were sent, as     *)
(* module ProtocolOrder says.                                              *)
(***************************************************************************)
EXTENDS ProtocolOrder, ProtocolSteps

-----------------------------------------------------------------------------
(***************************************************************************)
(* Sequences of messages that come in the order they were sent, and the    *)
(* stages of their way.                                                    *)
(***************************************************************************)
\* What DataIn collects.
LEMMA DataInDef ==
    ASSUME NEW s, NEW m
    PROVE  m \in DataIn(s) <=> m.type = "Data" /\ \E i \in 1..Len(s) : s[i] = m
BY Zenon DEF DataIn

\* A message that was sent after those of s is appended.
LEMMA AppendFalls ==
    ASSUME NEW S, NEW s \in Seq(S), NEW m \in S, Falling(s),
           m.type = "Data" => Ahead(DataIn(s), {m})
    PROVE  /\ Falling(Append(s, m))
           /\ \A x \in DataIn(Append(s, m)) :
                 x \in DataIn(s) \/ (x = m /\ m.type = "Data")
<1> DEFINE t == Append(s, m)
<1>1. /\ Len(s) \in Nat /\ Len(t) = Len(s) + 1 /\ t[Len(s) + 1] = m
      /\ \A i \in 1..Len(s) : t[i] = s[i]
  OBVIOUS
<1> HIDE DEF t
<1>2. ASSUME NEW j \in 1..Len(t), NEW i \in 1..(j - 1),
             t[i].type = "Data", t[j].type = "Data"
      PROVE  Precedes(t[i], t[j])
  <2>1. i \in 1..Len(s) /\ t[i] = s[i]
    BY <1>1
  <2>2. CASE j \in 1..Len(s)
    BY <1>1, <1>2, <2>1, <2>2, Zenon DEF Falling
  <2>3. CASE j = Len(s) + 1
    <3>1. t[i] \in DataIn(s)
      BY <1>2, <2>1, DataInDef, Zenon
    <3> QED
      BY <1>1, <1>2, <2>3, <3>1, Zenon DEF Ahead
  <2> QED
    BY <1>1, <2>2, <2>3
<1>3. ASSUME NEW x \in DataIn(t)
      PROVE  x \in DataIn(s) \/ (x = m /\ m.type = "Data")
  <2>1. PICK i \in 1..Len(t) : t[i] = x /\ x.type = "Data"
    BY <1>3, DataInDef, Zenon
  <2>2. i \in 1..Len(s) \/ i = Len(s) + 1
    BY <1>1
  <2> QED
    BY <1>1, <2>1, <2>2, DataInDef, Zenon
<1> QED
  BY <1>2, <1>3, Zenon DEF Falling, t

\* The first of s is taken.
LEMMA TailFalls ==
    ASSUME NEW S, NEW s \in Seq(S), s # <<>>, Falling(s)
    PROVE  /\ Falling(Tail(s)) /\ DataIn(Tail(s)) \subseteq DataIn(s)
           /\ Head(s).type = "Data" =>
                 Head(s) \in DataIn(s) /\ Ahead({Head(s)}, DataIn(Tail(s)))
<1> DEFINE t == Tail(s)
<1>1. /\ Len(s) \in Nat /\ Len(s) >= 1 /\ Len(t) = Len(s) - 1 /\ Head(s) = s[1]
      /\ \A i \in 1..Len(t) : t[i] = s[i + 1]
  OBVIOUS
<1> HIDE DEF t
<1>2. Falling(t)
  <2> SUFFICES ASSUME NEW j \in 1..Len(t), NEW i \in 1..(j - 1),
                      t[i].type = "Data", t[j].type = "Data"
               PROVE  Precedes(t[i], t[j])
    BY Zenon DEF Falling
  <2>1. /\ i \in 1..Len(t)
        /\ j + 1 \in 1..Len(s) /\ i + 1 \in 1..((j + 1) - 1)
    BY <1>1
  <2>2. t[i] = s[i + 1] /\ t[j] = s[j + 1]
    BY <1>1, <2>1, Zenon
  <2> QED
    BY <2>1, <2>2, Zenon DEF Falling
<1>3. ASSUME NEW x \in DataIn(t)
      PROVE  x.type = "Data" /\ \E i \in 2..Len(s) : s[i] = x
  <2>1. PICK i \in 1..Len(t) : t[i] = x /\ x.type = "Data"
    BY <1>3, DataInDef, Zenon
  <2>2. i + 1 \in 2..Len(s) /\ s[i + 1] = x
    BY <1>1, <2>1
  <2> QED
    BY <2>1, <2>2, Zenon
<1>4. 1 \in 1..Len(s) /\ \A i \in 2..Len(s) : i \in 1..Len(s) /\ 1 \in 1..(i - 1)
  BY <1>1
<1>5. DataIn(t) \subseteq DataIn(s)
  BY <1>3, <1>4, DataInDef, Zenon
<1>6. Head(s).type = "Data" => Head(s) \in DataIn(s) /\ Ahead({Head(s)}, DataIn(t))
  <2>1. Head(s).type = "Data" => Head(s) \in DataIn(s)
    BY <1>1, <1>4, DataInDef, Zenon
  <2>2. ASSUME Head(s).type = "Data", NEW x \in DataIn(t)
        PROVE  Precedes(Head(s), x)
    BY <1>1, <1>3, <1>4, <2>2, Zenon DEF Falling
  <2> QED
    BY <2>1, <2>2, Zenon DEF Ahead
<1> QED
  BY <1>2, <1>5, <1>6, Zenon DEF t

\* The messages of b, sent after those of a, are appended to them.
LEMMA ConcatFalls ==
    ASSUME NEW S, NEW s \in Seq(S), NEW u \in Seq(S), Falling(s), Falling(u),
           Ahead(DataIn(s), DataIn(u))
    PROVE  Falling(s \o u) /\ DataIn(s \o u) \subseteq DataIn(s) \cup DataIn(u)
<1> DEFINE t == s \o u
<1>1. /\ Len(s) \in Nat /\ Len(u) \in Nat /\ Len(t) = Len(s) + Len(u)
      /\ \A i \in 1..Len(s) : t[i] = s[i]
      /\ \A i \in (Len(s) + 1)..Len(t) : t[i] = u[i - Len(s)]
  OBVIOUS
<1> HIDE DEF t
<1>2. \A i \in 1..Len(t) : \/ i \in 1..Len(s)
                           \/ /\ i \in (Len(s) + 1)..Len(t)
                              /\ i - Len(s) \in 1..Len(u)
  BY <1>1
<1>3. ASSUME NEW j \in 1..Len(t), NEW i \in 1..(j - 1),
             t[i].type = "Data", t[j].type = "Data"
      PROVE  Precedes(t[i], t[j])
  <2>0. i \in 1..Len(t)
    BY <1>1
  <2>1. CASE j \in 1..Len(s)
    <3>1. i \in 1..Len(s)
      BY <1>1, <2>1
    <3> QED
      BY <1>1, <1>3, <2>1, <3>1, Zenon DEF Falling
  <2>2. CASE j \in (Len(s) + 1)..Len(t) /\ i \in 1..Len(s)
    <3>1. j - Len(s) \in 1..Len(u)
      BY <1>1, <2>2
    <3>2. t[i] \in DataIn(s) /\ t[j] \in DataIn(u)
      BY <1>1, <1>3, <2>2, <3>1, DataInDef, Zenon
    <3> QED
      BY <3>2, Zenon DEF Ahead
  <2>3. CASE j \in (Len(s) + 1)..Len(t) /\ i \in (Len(s) + 1)..Len(t)
    <3>1. j - Len(s) \in 1..Len(u) /\ i - Len(s) \in 1..(j - Len(s) - 1)
      BY <1>1, <2>3
    <3>2. t[i] = u[i - Len(s)] /\ t[j] = u[j - Len(s)]
      BY <1>1, <2>3, Zenon
    <3> QED
      BY <1>3, <3>1, <3>2, Zenon DEF Falling
  <2> QED
    BY <1>2, <2>0, <2>1, <2>2, <2>3, Zenon
<1>4. ASSUME NEW x \in DataIn(t)
      PROVE  x \in DataIn(s) \cup DataIn(u)
  <2>1. PICK i \in 1..Len(t) : t[i] = x /\ x.type = "Data"
    BY <1>4, DataInDef, Zenon
  <2> QED
    BY <1>1, <1>2, <2>1, DataInDef, Zenon
<1> QED
  BY <1>3, <1>4, Zenon DEF Falling, t

\* The first k of s are taken.
LEMMA SplitFalls ==
    ASSUME NEW S, NEW s \in Seq(S), NEW n \in 1..Len(s), Falling(s)
    PROVE  /\ Falling(SubSeq(s, 1, n)) /\ DataIn(SubSeq(s, 1, n)) \subseteq DataIn(s)
           /\ Falling(SubSeq(s, n + 1, Len(s)))
           /\ DataIn(SubSeq(s, n + 1, Len(s))) \subseteq DataIn(s)
           /\ Ahead(DataIn(SubSeq(s, 1, n)), DataIn(SubSeq(s, n + 1, Len(s))))
<1> DEFINE a == SubSeq(s, 1, n)
           b == SubSeq(s, n + 1, Len(s))
<1>1. /\ Len(s) \in Nat /\ Len(a) = n /\ Len(b) = Len(s) - n
      /\ \A i \in 1..n : a[i] = s[i]
      /\ \A i \in 1..Len(b) : b[i] = s[n + i]
  OBVIOUS
<1> HIDE DEF a, b
<1>2. Falling(a)
  <2>1. \A j \in 1..Len(a) : /\ j \in 1..Len(s) /\ a[j] = s[j]
                            /\ \A i \in 1..(j - 1) : a[i] = s[i]
    BY <1>1
  <2> QED
    BY <2>1, Zenon DEF Falling
<1>3. Falling(b)
  <2> SUFFICES ASSUME NEW j \in 1..Len(b), NEW i \in 1..(j - 1),
                      b[i].type = "Data", b[j].type = "Data"
               PROVE  Precedes(b[i], b[j])
    BY Zenon DEF Falling
  <2>1. /\ n + j \in 1..Len(s) /\ n + i \in 1..((n + j) - 1)
        /\ b[i] = s[n + i] /\ b[j] = s[n + j]
    BY <1>1
  <2> QED
    BY <2>1, Zenon DEF Falling
<1>4. ASSUME NEW x \in DataIn(a)
      PROVE  x.type = "Data" /\ \E i \in 1..n : s[i] = x
  <2>1. PICK i \in 1..Len(a) : a[i] = x /\ x.type = "Data"
    BY <1>4, DataInDef, Zenon
  <2> QED
    BY <1>1, <2>1, Zenon
<1>5. ASSUME NEW x \in DataIn(b)
      PROVE  x.type = "Data" /\ \E j \in (n + 1)..Len(s) : s[j] = x
  <2>1. PICK i \in 1..Len(b) : b[i] = x /\ x.type = "Data"
    BY <1>5, DataInDef, Zenon
  <2>2. n + i \in (n + 1)..Len(s) /\ s[n + i] = x
    BY <1>1, <2>1
  <2> QED
    BY <2>1, <2>2, Zenon
<1>6. /\ \A i \in 1..n : i \in 1..Len(s)
      /\ \A j \in (n + 1)..Len(s) : j \in 1..Len(s) /\ \A i \in 1..n : i \in 1..(j - 1)
  BY <1>1
<1>7. DataIn(a) \subseteq DataIn(s) /\ DataIn(b) \subseteq DataIn(s)
  BY <1>4, <1>5, <1>6, DataInDef, Zenon
<1>8. Ahead(DataIn(a), DataIn(b))
  <2> SUFFICES ASSUME NEW x \in DataIn(a), NEW y \in DataIn(b)
               PROVE  Precedes(x, y)
    BY Zenon DEF Ahead
  <2>1. PICK i \in 1..n : s[i] = x /\ x.type = "Data"
    BY <1>4, Zenon
  <2>2. PICK j \in (n + 1)..Len(s) : s[j] = y /\ y.type = "Data"
    BY <1>5, Zenon
  <2> QED
    BY <1>6, <2>1, <2>2, Zenon DEF Falling
<1> QED
  BY <1>2, <1>3, <1>7, <1>8, Zenon DEF a, b

\* What DataInAll collects.
LEMMA DataInAllDef ==
    ASSUME NEW ss, NEW m
    PROVE  m \in DataInAll(ss) <=> \E i \in 1..Len(ss) : m \in DataIn(ss[i])
BY Zenon DEF DataInAll

\* The same of sequences: one more comes, and the first goes.
LEMMA AppendFallsAll ==
    ASSUME NEW S, NEW ss \in Seq(S), NEW b \in S, FallingAll(ss), Falling(b),
           Ahead(DataInAll(ss), DataIn(b))
    PROVE  /\ FallingAll(Append(ss, b))
           /\ DataInAll(Append(ss, b)) \subseteq DataInAll(ss) \cup DataIn(b)
<1> DEFINE t == Append(ss, b)
<1>1. /\ Len(ss) \in Nat /\ Len(t) = Len(ss) + 1 /\ t[Len(ss) + 1] = b
      /\ \A i \in 1..Len(ss) : t[i] = ss[i]
  OBVIOUS
<1> HIDE DEF t
<1>2. \A j \in 1..Len(t) : /\ j \in 1..Len(ss) \/ j = Len(ss) + 1
                           /\ \A i \in 1..(j - 1) : i \in 1..Len(ss)
  BY <1>1
<1>3. \A j \in 1..Len(t) : Falling(t[j])
  BY <1>1, <1>2, Zenon DEF FallingAll
<1>4. ASSUME NEW j \in 1..Len(t), NEW i \in 1..(j - 1)
      PROVE  Ahead(DataIn(t[i]), DataIn(t[j]))
  <2>1. CASE j \in 1..Len(ss)
    BY <1>1, <1>2, <2>1, Zenon DEF FallingAll
  <2>2. CASE j = Len(ss) + 1
    BY <1>1, <1>2, <2>2, DataInAllDef, Zenon DEF Ahead
  <2> QED
    BY <1>2, <2>1, <2>2, Zenon
<1>5. ASSUME NEW x \in DataInAll(t)
      PROVE  x \in DataInAll(ss) \cup DataIn(b)
  <2>1. PICK i \in 1..Len(t) : x \in DataIn(t[i])
    BY <1>5, DataInAllDef, Zenon
  <2> QED
    BY <1>1, <1>2, <2>1, DataInAllDef, Zenon
<1> QED
  BY <1>3, <1>4, <1>5, Zenon DEF FallingAll, t

LEMMA TailFallsAll ==
    ASSUME NEW S, NEW ss \in Seq(S), ss # <<>>, FallingAll(ss)
    PROVE  /\ FallingAll(Tail(ss)) /\ DataInAll(Tail(ss)) \subseteq DataInAll(ss)
           /\ Falling(Head(ss)) /\ DataIn(Head(ss)) \subseteq DataInAll(ss)
           /\ Ahead(DataIn(Head(ss)), DataInAll(Tail(ss)))
<1> DEFINE t == Tail(ss)
<1>1. /\ Len(ss) \in Nat /\ Len(ss) >= 1 /\ Len(t) = Len(ss) - 1 /\ Head(ss) = ss[1]
      /\ \A i \in 1..Len(t) : t[i] = ss[i + 1]
  OBVIOUS
<1> HIDE DEF t
<1>2. /\ 1 \in 1..Len(ss)
      /\ \A j \in 1..Len(t) : /\ j + 1 \in 1..Len(ss) /\ 1 \in 1..((j + 1) - 1)
                              /\ \A i \in 1..(j - 1) : /\ i + 1 \in 1..((j + 1) - 1)
                                                       /\ i \in 1..Len(t)
  BY <1>1
<1>3. /\ \A j \in 1..Len(t) : Falling(t[j])
      /\ \A j \in 1..Len(t) : \A i \in 1..(j - 1) : Ahead(DataIn(t[i]), DataIn(t[j]))
  <2>1. \A j \in 1..Len(t) : Falling(t[j])
    BY <1>1, <1>2, Zenon DEF FallingAll
  <2>2. ASSUME NEW j \in 1..Len(t), NEW i \in 1..(j - 1)
        PROVE  Ahead(DataIn(t[i]), DataIn(t[j]))
    <3>1. t[i] = ss[i + 1] /\ t[j] = ss[j + 1]
      BY <1>1, <1>2, Zenon
    <3> QED
      BY <1>2, <3>1, Zenon DEF FallingAll
  <2> QED
    BY <2>1, <2>2, Zenon
<1>4. Falling(Head(ss)) /\ DataIn(Head(ss)) \subseteq DataInAll(ss)
  BY <1>1, <1>2, DataInAllDef, Zenon DEF FallingAll
<1>5. ASSUME NEW x \in DataInAll(t)
      PROVE  /\ x \in DataInAll(ss)
             /\ \A y \in DataIn(Head(ss)) : Precedes(y, x)
  <2>1. PICK i \in 1..Len(t) : x \in DataIn(t[i])
    BY <1>5, DataInAllDef, Zenon
  <2>2. x \in DataIn(ss[i + 1]) /\ i + 1 \in 1..Len(ss) /\ 1 \in 1..((i + 1) - 1)
    BY <1>1, <1>2, <2>1, Zenon
  <2> QED
    BY <1>1, <2>2, DataInAllDef, Zenon DEF FallingAll, Ahead
<1> QED
  BY <1>3, <1>4, <1>5, Zenon DEF FallingAll, Ahead, t

\* The first message of the first sequence is taken: s is what remains.
LEMMA FirstFallsAll ==
    ASSUME NEW S, NEW ss \in Seq(Seq(S)), ss # <<>>, Head(ss) # <<>>, FallingAll(ss),
           NEW ts, ts = <<Tail(Head(ss))>> \o Tail(ss)
    PROVE  /\ FallingAll(ts) /\ DataInAll(ts) \subseteq DataInAll(ss)
           /\ Head(Head(ss)).type = "Data" =>
                 /\ Head(Head(ss)) \in DataInAll(ss)
                 /\ Ahead({Head(Head(ss))}, DataInAll(ts))
<1> DEFINE a == Head(ss)
           r == Tail(a)
           t == Tail(ss)
<1>1. /\ a \in Seq(S) /\ t \in Seq(Seq(S)) /\ r \in Seq(S) /\ Len(t) \in Nat
  OBVIOUS
<1>2. /\ FallingAll(t) /\ DataInAll(t) \subseteq DataInAll(ss)
      /\ Falling(a) /\ DataIn(a) \subseteq DataInAll(ss)
      /\ Ahead(DataIn(a), DataInAll(t))
  BY TailFallsAll, Zenon
<1>3. /\ Falling(r) /\ DataIn(r) \subseteq DataIn(a)
      /\ Head(a).type = "Data" =>
            Head(a) \in DataIn(a) /\ Ahead({Head(a)}, DataIn(r))
  BY <1>1, <1>2, TailFalls, Zenon
<1>4. /\ Len(ts) = Len(t) + 1 /\ ts[1] = r
      /\ \A i \in 1..Len(t) : ts[i + 1] = t[i]
  BY <1>1
<1> HIDE DEF a, r, t
<1>5. \A j \in 1..Len(ts) :
         \/ j = 1
         \/ /\ j - 1 \in 1..Len(t) /\ ts[j] = t[j - 1]
            /\ \A i \in 1..(j - 1) :
                  i = 1 \/ (i - 1 \in 1..((j - 1) - 1) /\ ts[i] = t[i - 1])
  <2> SUFFICES ASSUME NEW j \in 1..Len(ts), j # 1
               PROVE  /\ j - 1 \in 1..Len(t) /\ ts[j] = t[j - 1]
                      /\ \A i \in 1..(j - 1) :
                            i = 1 \/ (i - 1 \in 1..((j - 1) - 1) /\ ts[i] = t[i - 1])
    BY Zenon
  <2>1. j - 1 \in 1..Len(t) /\ (j - 1) + 1 = j
    BY <1>1, <1>4
  <2>2. ASSUME NEW i \in 1..(j - 1), i # 1
        PROVE  /\ i - 1 \in 1..((j - 1) - 1) /\ i - 1 \in 1..Len(t)
               /\ (i - 1) + 1 = i
    BY <1>1, <1>4, <2>1, <2>2
  <2> QED
    BY <1>4, <2>1, <2>2, Zenon
<1>6. \A i \in 1..(1 - 1) : FALSE
  OBVIOUS
<1>7. ASSUME NEW x \in DataInAll(ts)
      PROVE  x \in DataIn(r) \/ x \in DataInAll(t)
  <2>1. PICK j \in 1..Len(ts) : x \in DataIn(ts[j])
    BY <1>7, DataInAllDef, Zenon
  <2>2. CASE j = 1
    BY <1>4, <2>1, <2>2, Zenon
  <2>3. CASE j - 1 \in 1..Len(t) /\ ts[j] = t[j - 1]
    BY <2>1, <2>3, DataInAllDef, Zenon
  <2> QED
    BY <1>5, <2>2, <2>3, Zenon
<1>8. FallingAll(ts)
  <2>1. \A j \in 1..Len(ts) : Falling(ts[j])
    BY <1>2, <1>3, <1>4, <1>5, Zenon DEF FallingAll
  <2>2. ASSUME NEW j \in 1..Len(ts), NEW i \in 1..(j - 1)
        PROVE  Ahead(DataIn(ts[i]), DataIn(ts[j]))
    <3>1. j - 1 \in 1..Len(t) /\ ts[j] = t[j - 1]
      BY <1>5, <1>6, <2>2, Zenon
    <3>2. CASE i = 1
      BY <1>2, <1>3, <1>4, <3>1, <3>2, DataInAllDef, Zenon DEF Ahead
    <3>3. CASE i - 1 \in 1..((j - 1) - 1) /\ ts[i] = t[i - 1]
      BY <1>2, <3>1, <3>3, Zenon DEF FallingAll
    <3> QED
      BY <1>5, <1>6, <3>2, <3>3, Zenon
  <2> QED
    BY <2>1, <2>2, Zenon DEF FallingAll
<1>9. DataInAll(ts) \subseteq DataInAll(ss)
  BY <1>2, <1>3, <1>7, Zenon
<1>10. Head(a).type = "Data" =>
          Head(a) \in DataInAll(ss) /\ Ahead({Head(a)}, DataInAll(ts))
  BY <1>2, <1>3, <1>7, Zenon DEF Ahead
<1> QED
  BY <1>8, <1>9, <1>10, Zenon DEF a

\* Messages M move one stage on.
LEMMA Flow ==
    ASSUME NEW S, NEW T, NEW unsent, StagesFall(S, unsent),
           NEW k \in 1..4, NEW M, M \subseteq S[k + 1], Ahead(M, T[k + 1]),
           T[k] \subseteq S[k] \cup M,
           \A l \in 1..5 : l # k => T[l] \subseteq S[l]
    PROVE  StagesFall(T, unsent)
<1>1. /\ k \in 1..5 /\ k + 1 \in 1..5 /\ k < k + 1
      /\ \A i \in 1..5 : /\ i < k => i < k + 1
                         /\ k < i => i = k + 1 \/ k + 1 < i
  OBVIOUS
<1>2. ASSUME NEW i \in 1..5, NEW j \in 1..5, i < j, NEW a \in T[i], NEW b \in T[j]
      PROVE  Precedes(a, b)
  <2>0. i # j
    BY <1>2
  <2>1. CASE i # k /\ j # k
    BY <1>2, <2>1, Zenon DEF StagesFall, Ahead
  <2>2. CASE j = k
    BY <1>1, <1>2, <2>0, <2>2, Zenon DEF StagesFall, Ahead
  <2>3. CASE i = k
    BY <1>1, <1>2, <2>0, <2>3, Zenon DEF StagesFall, Ahead
  <2> QED
    BY <2>1, <2>2, <2>3, Zenon
<1>3. ASSUME NEW l \in 1..5, NEW m \in T[l]
      PROVE  m.body.left >= unsent
  BY <1>1, <1>3, Zenon DEF StagesFall
<1> QED
  BY <1>2, <1>3, Zenon DEF StagesFall, Ahead

\* M moves to the first stage, to the second, to the third and to the fourth.
LEMMA FlowToChannel ==
    ASSUME NEW A1, NEW A2, NEW A3, NEW A4, NEW A5, NEW B1, NEW B2, NEW unsent,
           StagesFall(<<A1, A2, A3, A4, A5>>, unsent),
           NEW M, M \subseteq A2, Ahead(M, B2), B1 \subseteq A1 \cup M,
           B2 \subseteq A2
    PROVE  StagesFall(<<B1, B2, A3, A4, A5>>, unsent)
<1> DEFINE S == <<A1, A2, A3, A4, A5>>
           T == <<B1, B2, A3, A4, A5>>
<1>1. /\ M \subseteq S[1 + 1] /\ T[1] \subseteq S[1] \cup M
      /\ \A l \in 1..5 : l # 1 => T[l] \subseteq S[l]
      /\ T[1 + 1] = B2 /\ 1 \in 1..4
  OBVIOUS
<1>2. StagesFall(S, unsent) /\ Ahead(M, T[1 + 1])
  BY <1>1, Zenon
<1> HIDE DEF S, T
<1>3. StagesFall(T, unsent)
  BY <1>1, <1>2, Flow, Zenon
<1> QED
  BY <1>3, Zenon DEF T

LEMMA FlowToFrame ==
    ASSUME NEW A1, NEW A2, NEW A3, NEW A4, NEW A5, NEW B2, NEW B3, NEW unsent,
           StagesFall(<<A1, A2, A3, A4, A5>>, unsent),
           NEW M, M \subseteq A3, Ahead(M, B3), B2 \subseteq A2 \cup M,
           B3 \subseteq A3
    PROVE  StagesFall(<<A1, B2, B3, A4, A5>>, unsent)
<1> DEFINE S == <<A1, A2, A3, A4, A5>>
           T == <<A1, B2, B3, A4, A5>>
<1>1. /\ M \subseteq S[2 + 1] /\ T[2] \subseteq S[2] \cup M
      /\ \A l \in 1..5 : l # 2 => T[l] \subseteq S[l]
      /\ T[2 + 1] = B3 /\ 2 \in 1..4
  OBVIOUS
<1>2. StagesFall(S, unsent) /\ Ahead(M, T[2 + 1])
  BY <1>1, Zenon
<1> HIDE DEF S, T
<1>3. StagesFall(T, unsent)
  BY <1>1, <1>2, Flow
<1> QED
  BY <1>3, Zenon DEF T

LEMMA FlowToWriting ==
    ASSUME NEW A1, NEW A2, NEW A3, NEW A4, NEW A5, NEW B3, NEW B4, NEW unsent,
           StagesFall(<<A1, A2, A3, A4, A5>>, unsent),
           NEW M, M \subseteq A4, Ahead(M, B4), B3 \subseteq A3 \cup M,
           B4 \subseteq A4
    PROVE  StagesFall(<<A1, A2, B3, B4, A5>>, unsent)
<1> DEFINE S == <<A1, A2, A3, A4, A5>>
           T == <<A1, A2, B3, B4, A5>>
<1>1. /\ M \subseteq S[3 + 1] /\ T[3] \subseteq S[3] \cup M
      /\ \A l \in 1..5 : l # 3 => T[l] \subseteq S[l]
      /\ T[3 + 1] = B4 /\ 3 \in 1..4
  OBVIOUS
<1>2. StagesFall(S, unsent) /\ Ahead(M, T[3 + 1])
  BY <1>1, Zenon
<1> HIDE DEF S, T
<1>3. StagesFall(T, unsent)
  BY <1>1, <1>2, Flow
<1> QED
  BY <1>3, Zenon DEF T

LEMMA FlowToSent ==
    ASSUME NEW A1, NEW A2, NEW A3, NEW A4, NEW A5, NEW B4, NEW B5, NEW unsent,
           StagesFall(<<A1, A2, A3, A4, A5>>, unsent),
           NEW M, M \subseteq A5, Ahead(M, B5), B4 \subseteq A4 \cup M,
           B5 \subseteq A5
    PROVE  StagesFall(<<A1, A2, A3, B4, B5>>, unsent)
<1> DEFINE S == <<A1, A2, A3, A4, A5>>
           T == <<A1, A2, A3, B4, B5>>
<1>1. /\ M \subseteq S[4 + 1] /\ T[4] \subseteq S[4] \cup M
      /\ \A l \in 1..5 : l # 4 => T[l] \subseteq S[l]
      /\ T[4 + 1] = B5 /\ 4 \in 1..4
  OBVIOUS
<1>2. StagesFall(S, unsent) /\ Ahead(M, T[4 + 1])
  BY <1>1, Zenon
<1> HIDE DEF S, T
<1>3. StagesFall(T, unsent)
  BY <1>1, <1>2, Flow
<1> QED
  BY <1>3, Zenon DEF T

\* Some of what is unsent, M, gets to the last stage.
LEMMA FlowToTask ==
    ASSUME NEW A1, NEW A2, NEW A3, NEW A4, NEW A5, NEW B5,
           NEW unsent \in Int, NEW rest \in Int, rest <= unsent,
           StagesFall(<<A1, A2, A3, A4, A5>>, unsent),
           \A m \in A1 \cup A2 \cup A3 \cup A4 \cup A5 : m.body.left \in Int,
           NEW M, B5 \subseteq A5 \cup M,
           \A m \in M : m.body.left \in rest..(unsent - 1)
    PROVE  StagesFall(<<A1, A2, A3, A4, B5>>, rest)
<1> DEFINE S == <<A1, A2, A3, A4, A5>>
           T == <<A1, A2, A3, A4, B5>>
<1>1. /\ \A l \in 1..5 : l # 5 => T[l] = S[l]
      /\ T[5] \subseteq S[5] \cup M
      /\ \A l \in 1..5 : \A m \in S[l] : m.body.left \in Int
      /\ \A k, l \in 1..5 : k < l => k # 5
  OBVIOUS
<1> HIDE DEF S, T
<1>2. ASSUME NEW l \in 1..5, NEW m \in S[l]
      PROVE  m.body.left >= rest /\ m.body.left >= unsent
  <2>1. m.body.left >= unsent /\ m.body.left \in Int
    BY <1>1, Zenon DEF StagesFall, S
  <2> QED
    BY <2>1
<1>3. \A m \in M : m.body.left >= rest /\ m.body.left \in Int /\ m.body.left < unsent
  OBVIOUS
<1>4. ASSUME NEW l \in 1..5, NEW m \in S[l], NEW n \in M
      PROVE  Precedes(m, n)
  <2>1. m.body.left > n.body.left
    BY <1>1, <1>2, <1>3
  <2> QED
    BY <2>1, Zenon DEF Precedes
<1>5. \A k, l \in 1..5 : k < l => Ahead(T[k], T[l])
  BY <1>1, <1>4, StagesFall(S, unsent), Zenon DEF StagesFall, Ahead, S
<1>6. \A l \in 1..5 : \A m \in T[l] : m.body.left >= rest
  BY <1>1, <1>2, <1>3, Zenon
<1> QED
  BY <1>5, <1>6, Zenon DEF StagesFall, T

-----------------------------------------------------------------------------
(***************************************************************************)
(* The way of the messages to an endpoint, as it moves them on.            *)
(***************************************************************************)
\* The messages of frames, when some come and the first goes.
LEMMA ContentsOf ==
    ASSUME NEW A, NEW F, \A f \in F : f.messages \in Seq(A), NEW fs \in Seq(F)
    PROVE  /\ Contents(fs) \in Seq(Seq(A))
           /\ fs # <<>> => /\ Contents(fs) # <<>>
                           /\ Head(Contents(fs)) = Head(fs).messages
                           /\ Contents(Tail(fs)) = Tail(Contents(fs))
<1>1. Contents(fs) \in Seq(Seq(A)) /\ Len(Contents(fs)) = Len(fs)
  BY DEF Contents
<1>2. ASSUME fs # <<>>
      PROVE  /\ Contents(fs) # <<>>
             /\ Head(Contents(fs)) = Head(fs).messages
             /\ Contents(Tail(fs)) = Tail(Contents(fs))
  BY <1>2 DEF Contents
<1> QED
  BY <1>1, <1>2, Zenon

LEMMA ContentsAppend ==
    ASSUME NEW A, NEW F, \A f \in F : f.messages \in Seq(A), NEW fs \in Seq(F),
           NEW g \in F
    PROVE  Contents(Append(fs, g)) = Append(Contents(fs), g.messages)
BY DEF Contents

LEMMA ContentsCons ==
    ASSUME NEW A, NEW F, \A f \in F : f.messages \in Seq(A), NEW fs \in Seq(F),
           NEW g \in F
    PROVE  Contents(<<g>> \o fs) = <<g.messages>> \o Contents(fs)
<1> DEFINE gs == <<g>> \o fs
           c == Contents(fs)
           d == <<g.messages>> \o c
<1>1. /\ gs \in Seq(F) /\ Len(gs) = Len(fs) + 1 /\ gs[1] = g
      /\ \A i \in 2..Len(gs) : gs[i] = fs[i - 1] /\ i - 1 \in 1..Len(fs)
  OBVIOUS
<1>2. /\ c \in Seq(Seq(A)) /\ Len(c) = Len(fs)
      /\ \A i \in 1..Len(fs) : c[i] = fs[i].messages
  BY DEF Contents
<1> HIDE DEF c, gs
<1>3. /\ d \in Seq(Seq(A)) /\ Len(d) = Len(c) + 1 /\ d[1] = g.messages
      /\ \A i \in 2..Len(d) : d[i] = c[i - 1]
  BY <1>2
<1> HIDE DEF d
<1>4. /\ Contents(gs) \in Seq(Seq(A)) /\ Len(Contents(gs)) = Len(gs)
      /\ \A i \in 1..Len(gs) : Contents(gs)[i] = gs[i].messages
  BY <1>1 DEF Contents
<1>5. \A i \in 1..Len(gs) : Contents(gs)[i] = d[i]
  <2>1. \A i \in 1..Len(gs) : i = 1 \/ i \in 2..Len(gs)
    BY <1>1
  <2>2. Len(d) = Len(gs) /\ 1 \in 1..Len(gs)
    BY <1>1, <1>2, <1>3
  <2>3. ASSUME NEW i \in 2..Len(gs)
        PROVE  i \in 1..Len(gs) /\ Contents(gs)[i] = d[i]
    <3>1. i \in 1..Len(gs) /\ i \in 2..Len(d)
      BY <2>2, <2>3, <1>1
    <3> QED
      <4>1. gs[i] = fs[i - 1] /\ i - 1 \in 1..Len(fs)
        BY ONLY <1>1, <2>3, Zenon
      <4>2. d[i] = c[i - 1] /\ c[i - 1] = fs[i - 1].messages
        BY ONLY <1>2, <1>3, <3>1, <4>1, Zenon
      <4>3. Contents(gs)[i] = gs[i].messages
        BY ONLY <1>4, <3>1, Zenon
      <4> QED
        BY ONLY <3>1, <4>1, <4>2, <4>3, Zenon
  <2> QED
    BY <1>1, <1>3, <1>4, <2>1, <2>2, <2>3, Zenon
<1>6. Contents(gs) = d
  BY <1>1, <1>2, <1>3, <1>4, <1>5
<1> QED
  BY <1>6, Zenon DEF gs, c, d

\* The frames that are left when the first message of the first is taken: they
\* hold what comes after it.
LEMMA TakenFalls ==
    ASSUME NEW A, NEW F, \A f \in F : f.messages \in Seq(A), NEW fs \in Seq(F),
           \A s \in Seq(A) : Frame(s) \in F,
           fs # <<>>, Head(fs).messages # <<>>, FallingAll(Contents(fs)),
           NEW rest, rest = Tail(Head(fs).messages),
           NEW gs, gs = IF rest = <<>> THEN Tail(fs) ELSE <<Frame(rest)>> \o Tail(fs),
           NEW m, m = Head(Head(fs).messages)
    PROVE  /\ FallingAll(Contents(gs))
           /\ DataInAll(Contents(gs)) \subseteq DataInAll(Contents(fs))
           /\ m.type = "Data" => /\ m \in DataInAll(Contents(fs))
                                 /\ Ahead({m}, DataInAll(Contents(gs)))
<1> DEFINE cs == Contents(fs)
<1>1. /\ cs \in Seq(Seq(A)) /\ cs # <<>> /\ Head(cs) = Head(fs).messages
      /\ Contents(Tail(fs)) = Tail(cs)
  BY ContentsOf, Zenon
<1>2. /\ Head(fs) \in F /\ Tail(fs) \in Seq(F) /\ Head(cs) \in Seq(A) /\ Head(cs) # <<>>
  BY <1>1
<1>3. rest \in Seq(A)
  BY <1>1, <1>2
<1>4. CASE rest = <<>>
  <2>1. Contents(gs) = Tail(cs)
    BY <1>1, <1>4, Zenon
  <2>2. Head(cs) \in {Head(cs)} /\ 1 \in 1..Len(Head(cs)) /\ m = Head(cs)[1]
    BY <1>1, <1>2
  <2> HIDE DEF cs
  <2>3. m.type = "Data" => m \in DataIn(Head(cs))
    BY <2>2, DataInDef, Zenon
  <2>4. /\ FallingAll(Tail(cs)) /\ DataInAll(Tail(cs)) \subseteq DataInAll(cs)
        /\ DataIn(Head(cs)) \subseteq DataInAll(cs)
        /\ Ahead(DataIn(Head(cs)), DataInAll(Tail(cs)))
    BY <1>1, TailFallsAll, Zenon DEF cs
  <2> QED
    BY <2>1, <2>3, <2>4, Zenon DEF cs, Ahead
<1>5. CASE rest # <<>>
  <2> HIDE DEF cs
  <2>1. gs = <<Frame(rest)>> \o Tail(fs) /\ Frame(rest).messages = rest
    BY <1>5, Zenon DEF Frame
  <2>2. Contents(gs) = <<rest>> \o Contents(Tail(fs))
    <3>1. Frame(rest) \in F /\ Tail(fs) \in Seq(F)
      BY <1>2, <1>3, Zenon
    <3>2. Contents(<<Frame(rest)>> \o Tail(fs)) =
              <<Frame(rest).messages>> \o Contents(Tail(fs))
      BY <3>1, ContentsCons, Zenon
    <3> QED
      BY <2>1, <3>2, Zenon
  <2>3. Contents(gs) = <<Tail(Head(cs))>> \o Tail(cs) /\ m = Head(Head(cs))
    BY <1>1, <2>2, Zenon
  <2>4. FallingAll(cs)
    BY Zenon DEF cs
  <2>5. /\ FallingAll(Contents(gs)) /\ DataInAll(Contents(gs)) \subseteq DataInAll(cs)
        /\ Head(Head(cs)).type = "Data" =>
              /\ Head(Head(cs)) \in DataInAll(cs)
              /\ Ahead({Head(Head(cs))}, DataInAll(Contents(gs)))
    BY <1>1, <1>2, <2>3, <2>4, FirstFallsAll, Zenon
  <2> QED
    BY <2>3, <2>5, Zenon DEF cs
<1> QED
  BY <1>4, <1>5, Zenon

-----------------------------------------------------------------------------
(***************************************************************************)
(* What may happen on the way of messages.                                 *)
(***************************************************************************)
\* Some messages, M, get from the frames to the queues; or none, and some of the
\* frames are lost.
LEMMA WayReceives ==
    ASSUME NEW queues, NEW frames, NEW writing, NEW sent, NEW ts, NEW unsent,
           WayOK(queues, frames, writing, sent, ts, unsent),
           NEW qs, \A n \in 1..Len(qs) : Falling(qs[n]),
           NEW fs, FallingAll(Contents(fs)),
           DataInAll(Contents(fs)) \subseteq DataInAll(Contents(frames)),
           NEW M, M \subseteq DataInAll(Contents(frames)),
           Ahead(M, DataInAll(Contents(fs))),
           DataInAll(qs) \subseteq DataInAll(queues) \cup M
    PROVE  WayOK(qs, fs, writing, sent, ts, unsent)
<1>1. StagesFall(Stages(qs, fs, writing, sent, ts), unsent)
  BY FlowToChannel, Zenon DEF WayOK, Stages
<1> QED
  BY <1>1, Zenon DEF WayOK

\* A frame f is written, with a part M of what was to be written.
LEMMA WayWrites ==
    ASSUME NEW queues, NEW frames, NEW writing, NEW sent, NEW ts, NEW unsent,
           WayOK(queues, frames, writing, sent, ts, unsent),
           NEW fs, FallingAll(Contents(fs)), NEW ws, Falling(ws),
           DataIn(ws) \subseteq DataIn(writing),
           NEW M, M \subseteq DataIn(writing), Ahead(M, DataIn(ws)),
           DataInAll(Contents(fs)) \subseteq DataInAll(Contents(frames)) \cup M
    PROVE  WayOK(queues, fs, ws, sent, ts, unsent)
<1>1. StagesFall(Stages(queues, fs, ws, sent, ts), unsent)
  BY FlowToFrame, Zenon DEF WayOK, Stages
<1> QED
  BY <1>1, Zenon DEF WayOK

\* The first batch of those sent, or nothing of it, is to be written.
LEMMA WayPops ==
    ASSUME NEW queues, NEW frames, NEW writing, NEW sent, NEW ts, NEW unsent,
           WayOK(queues, frames, writing, sent, ts, unsent),
           NEW S, sent \in Seq(S), sent # <<>>, NEW ws, Falling(ws),
           DataIn(ws) \subseteq DataIn(writing) \cup DataIn(Head(sent))
    PROVE  WayOK(queues, frames, ws, Tail(sent), ts, unsent)
<1>1. /\ FallingAll(Tail(sent)) /\ DataInAll(Tail(sent)) \subseteq DataInAll(sent)
      /\ DataIn(Head(sent)) \subseteq DataInAll(sent)
      /\ Ahead(DataIn(Head(sent)), DataInAll(Tail(sent)))
  BY TailFallsAll, Zenon DEF WayOK
<1>2. StagesFall(Stages(queues, frames, ws, Tail(sent), ts), unsent)
  BY <1>1, FlowToWriting, Zenon DEF WayOK, Stages
<1> QED
  BY <1>1, <1>2, Zenon DEF WayOK

\* What Batched collects.
LEMMA BatchedDef ==
    ASSUME NEW ts, NEW m
    PROVE  m \in Batched(ts) <=>
               \E t \in Tasks : ts[t] # Idle /\ m \in DataIn(ts[t].batch)
BY Zenon DEF Batched

\* Nothing is under way at first.
LEMMA NewWay ==
    ASSUME NEW ts, \A t \in Tasks : ts[t] = Idle, NEW unsent
    PROVE  WayOK(<<>>, <<>>, <<>>, <<>>, ts, unsent)
<1>1. DataInAll(<<>>) = {} /\ DataIn(<<>>) = {}
  BY DEF DataInAll, DataIn
<1>2. Contents(<<>>) = <<>>
  BY DEF Contents
<1>3. Batched(ts) = {} /\ BatchesFall(ts)
  BY BatchedDef, Zenon DEF BatchesFall
<1>4. Falling(<<>>) /\ FallingAll(<<>>) /\ \A n \in 1..Len(<<>>) : Falling(<<>>[n])
  BY DEF Falling, FallingAll
<1> DEFINE S == <<{}, {}, {}, {}, {}>>
<1>5. \A k \in 1..5 : S[k] = {}
  OBVIOUS
<1> HIDE DEF S
<1>6. StagesFall(S, unsent)
  BY <1>5, Zenon DEF StagesFall, Ahead
<1> QED
  BY <1>1, <1>2, <1>3, <1>4, <1>6, Zenon DEF WayOK, Stages, S

\* The batch of task t is sent.
LEMMA WaySends ==
    ASSUME NEW queues, NEW frames, NEW writing, NEW sent, NEW ts, NEW unsent,
           WayOK(queues, frames, writing, sent, ts, unsent),
           NEW S, sent \in Seq(S), NEW t \in Tasks, ts[t] # Idle, ts[t].batch \in S,
           DOMAIN ts = Tasks, NEW w, w.batch = <<>>
    PROVE  WayOK(queues, frames, writing, Append(sent, ts[t].batch),
                 [ts EXCEPT ![t] = w], unsent)
<1> DEFINE us == [ts EXCEPT ![t] = w]
           b == ts[t].batch
           ss == Append(sent, b)
<1>0. Falling(<<>>) /\ DataIn(<<>>) = {}
  BY DEF Falling, DataIn
<1>1. /\ Falling(us[t].batch) /\ DataIn(us[t].batch) = {}
      /\ \A u \in Tasks : u # t => us[u] = ts[u]
  BY <1>0, Zenon
<1> HIDE DEF us
<1>2. BatchesFall(us) /\ Batched(us) \subseteq Batched(ts)
  <2>1. BatchesFall(us)
    BY <1>1, Zenon DEF WayOK, BatchesFall
  <2>2. ASSUME NEW m \in Batched(us)
        PROVE  m \in Batched(ts)
    <3>1. PICK u \in Tasks : us[u] # Idle /\ m \in DataIn(us[u].batch)
      BY <2>2, BatchedDef, Zenon
    <3>2. m \in DataIn(ts[u].batch) /\ ts[u] # Idle
      BY <1>1, <3>1, Zenon
    <3> QED
      BY <3>2, BatchedDef, Zenon
  <2> QED
    BY <2>1, <2>2, Zenon
<1>3. /\ DataIn(b) \subseteq Batched(ts) /\ Falling(b)
      /\ \A m \in DataIn(b) : m.body.task = t
  BY Zenon DEF WayOK, BatchesFall, Batched
<1>4. ASSUME NEW m \in Batched(us)
      PROVE  m.body.task # t
  <2>1. PICK u \in Tasks : us[u] # Idle /\ m \in DataIn(us[u].batch)
    BY <1>4, BatchedDef, Zenon
  <2>2. u # t /\ m \in DataIn(ts[u].batch) /\ ts[u] # Idle
    BY <1>1, <2>1, Zenon
  <2> QED
    BY <2>2, Zenon DEF WayOK, BatchesFall
<1>5. Ahead(DataIn(b), Batched(us))
  BY <1>3, <1>4, Zenon DEF Ahead, Precedes
<1>6. Ahead(DataInAll(sent), DataIn(b))
  <2>1. /\ 4 \in 1..5 /\ 5 \in 1..5 /\ 4 < 5
        /\ Stages(queues, frames, writing, sent, ts)[4] = DataInAll(sent)
        /\ Stages(queues, frames, writing, sent, ts)[5] = Batched(ts)
    BY DEF Stages
  <2>2. Ahead(DataInAll(sent), Batched(ts))
    BY <2>1, Zenon DEF WayOK, StagesFall
  <2> QED
    BY <1>3, <2>2, Zenon DEF Ahead
<1>7. FallingAll(ss) /\ DataInAll(ss) \subseteq DataInAll(sent) \cup DataIn(b)
  BY <1>3, <1>6, AppendFallsAll, Zenon DEF WayOK
<1> HIDE DEF b, ss
<1>8. StagesFall(Stages(queues, frames, writing, ss, us), unsent)
  BY <1>2, <1>3, <1>5, <1>7, FlowToSent, Zenon DEF WayOK, Stages
<1> QED
  BY <1>2, <1>7, <1>8, Zenon DEF WayOK, us, b, ss

\* Task t is about to send a batch.
LEMMA WayBegins ==
    ASSUME NEW queues, NEW frames, NEW writing, NEW sent, NEW ts,
           NEW unsent \in Int, NEW rest \in Int, rest <= unsent,
           WayOK(queues, frames, writing, sent, ts, unsent),
           \A l \in 1..5 : \A m \in Stages(queues, frames, writing, sent, ts)[l] :
               m.body.left \in Int,
           NEW t \in Tasks, NEW w, DOMAIN ts = Tasks, Falling(w.batch),
           \A m \in DataIn(w.batch) : /\ m.body.task = t
                                      /\ m.body.left \in rest..(unsent - 1)
    PROVE  WayOK(queues, frames, writing, sent, [ts EXCEPT ![t] = w], rest)
<1> DEFINE us == [ts EXCEPT ![t] = w]
           S == Stages(queues, frames, writing, sent, ts)
<1>1. us[t] = w /\ \A u \in Tasks : u # t => us[u] = ts[u]
  BY Zenon
<1> HIDE DEF us
<1>2. BatchesFall(us) /\ Batched(us) \subseteq Batched(ts) \cup DataIn(w.batch)
  BY <1>1, Zenon DEF WayOK, BatchesFall, Batched
<1>3. /\ 1 \in 1..5 /\ 2 \in 1..5 /\ 3 \in 1..5 /\ 4 \in 1..5 /\ 5 \in 1..5
      /\ S[1] = DataInAll(queues) /\ S[2] = DataInAll(Contents(frames))
      /\ S[3] = DataIn(writing) /\ S[4] = DataInAll(sent) /\ S[5] = Batched(ts)
  BY DEF Stages
<1>4. \A m \in DataInAll(queues) \cup DataInAll(Contents(frames)) \cup DataIn(writing)
                 \cup DataInAll(sent) \cup Batched(ts) : m.body.left \in Int
  BY <1>3, Zenon
<1>5. StagesFall(Stages(queues, frames, writing, sent, us), rest)
  BY <1>2, <1>4, FlowToTask, Zenon DEF WayOK, Stages
<1> QED
  BY <1>2, <1>5, Zenon DEF WayOK, us

\* A message m gets to queue n.
LEMMA DeliverFalls ==
    ASSUME NEW S, NEW queues \in Seq(Seq(S)), NEW n \in 1..Len(queues), NEW m \in S,
           \A i \in 1..Len(queues) : Falling(queues[i]),
           m.type = "Data" => Ahead(DataInAll(queues), {m})
    PROVE  LET qs == [queues EXCEPT ![n] = Append(queues[n], m)]
           IN  /\ \A i \in 1..Len(qs) : Falling(qs[i])
               /\ DataInAll(qs) \subseteq
                      DataInAll(queues) \cup {x \in {m} : x.type = "Data"}
<1> DEFINE qs == [queues EXCEPT ![n] = Append(queues[n], m)]
<1>1. /\ Len(qs) = Len(queues) /\ qs[n] = Append(queues[n], m) /\ queues[n] \in Seq(S)
      /\ \A i \in 1..Len(queues) : i # n => qs[i] = queues[i]
  OBVIOUS
<1> HIDE DEF qs
<1>2. DataIn(queues[n]) \subseteq DataInAll(queues)
  BY DataInAllDef, Zenon
<1>3. m.type = "Data" => Ahead(DataIn(queues[n]), {m})
  BY <1>2, Zenon DEF Ahead
<1>4. /\ Falling(qs[n])
      /\ \A x \in DataIn(qs[n]) : x \in DataIn(queues[n]) \/ (x = m /\ m.type = "Data")
  <2>1. queues[n] \in Seq(S) /\ Falling(queues[n])
    BY <1>1, Zenon
  <2>2. /\ Falling(Append(queues[n], m))
        /\ \A x \in DataIn(Append(queues[n], m)) :
              x \in DataIn(queues[n]) \/ (x = m /\ m.type = "Data")
    BY <1>3, <2>1, AppendFalls, Zenon
  <2> QED
    BY <1>1, <2>2, Zenon
<1>5. ASSUME NEW x \in DataInAll(qs)
      PROVE  x \in DataInAll(queues) \cup {y \in {m} : y.type = "Data"}
  <2>1. PICK i \in 1..Len(qs) : x \in DataIn(qs[i])
    BY <1>5, DataInAllDef, Zenon
  <2>2. CASE i = n
    BY <1>2, <1>4, <2>1, <2>2, Zenon
  <2>3. CASE i # n
    BY <1>1, <2>1, <2>3, DataInAllDef, Zenon
  <2> QED
    BY <2>2, <2>3, Zenon
<1>6. \A i \in 1..Len(qs) : Falling(qs[i])
  BY <1>1, <1>4, Zenon
<1> QED
  BY <1>5, <1>6, Zenon DEF qs

\* A new queue is empty.
LEMMA NewQueueFalls ==
    ASSUME NEW S, NEW queues \in Seq(Seq(S)),
           \A i \in 1..Len(queues) : Falling(queues[i]),
           NEW qs, qs = Append(queues, <<>>)
    PROVE  /\ \A i \in 1..Len(qs) : Falling(qs[i])
           /\ DataInAll(qs) \subseteq DataInAll(queues)
<1>1. /\ Len(qs) = Len(queues) + 1 /\ Len(queues) \in Nat /\ qs[Len(qs)] = <<>>
      /\ \A i \in 1..Len(qs) : \/ i = Len(qs)
                               \/ i \in 1..Len(queues) /\ qs[i] = queues[i]
  OBVIOUS
<1>2. Falling(<<>>) /\ DataIn(<<>>) = {}
  BY DEF Falling, DataIn
<1>3. ASSUME NEW x \in DataInAll(qs)
      PROVE  x \in DataInAll(queues)
  <2>1. PICK i \in 1..Len(qs) : x \in DataIn(qs[i])
    BY <1>3, DataInAllDef, Zenon
  <2>2. i \in 1..Len(queues) /\ qs[i] = queues[i]
    BY <1>1, <1>2, <2>1, Zenon
  <2> QED
    BY <2>1, <2>2, DataInAllDef, Zenon
<1>4. \A i \in 1..Len(qs) : Falling(qs[i])
  BY <1>1, <1>2, Zenon
<1> QED
  BY <1>3, <1>4, Zenon

-----------------------------------------------------------------------------
(***************************************************************************)
(* The receiver.  poll_inbound_read takes the messages of a frame one by   *)
(* one, and hands each to the queue of a Channel or to no queue.           *)
(***************************************************************************)
\* What the receiver of a way does not touch
SenderSide(q) == <<write_queue[q], outbound[q], task[q], left[q].send>>

\* The message at hand is one for queue n, of a handle which a Close removes.
IsFor(p, n) ==
    \E dk \in DOMAIN cm[p].channels :
        /\ cm[p].channels[dk].inbound_tx = n
        /\ Message(p).type = "Close" => cm'[p] = remove(cm[p], dk)

\* What a step of p does at the end of the way to p ...
ReceiverChange(p) ==
    /\ UNCHANGED SenderSide(Other(p))
    /\ \/ UNCHANGED <<inbound[p], wire[p]>>
       \/ /\ Reading(p) /\ wire'[p] = Tail(wire[p])
          /\ UNCHANGED inbound[p]
       \/ /\ HasMessage(p) /\ wire'[p] = Consumed(p)[p]
          /\ \/ UNCHANGED inbound[p]
             \/ inbound'[p] = Append(inbound[p], <<>>)
             \/ \E n \in Cids(p) :
                   /\ IsFor(p, n)
                   /\ inbound'[p] = [inbound[p] EXCEPT ![n] = Append(@, Message(p))]
       \/ /\ UNCHANGED wire[p]
          /\ \/ inbound'[p] = Append(inbound[p], <<>>)
             \/ \E n \in Cids(p), m \in Signals :
                   inbound'[p] = [inbound[p] EXCEPT ![n] = Append(@, m)]

\* The queues and frames of an endpoint
LEMMA WayTypes ==
    ASSUME IoOK, HandshakeOK, InboundOK, NEW p \in Peers
    PROVE  /\ inbound[p] \in Seq(Seq(ToChannels \cup Messages))
           /\ Len(inbound[p]) = Len(chans[p])
           /\ wire[p] \in Seq(Frames)
           /\ \A f \in Frames : f.messages \in Seq(Messages)
           /\ \A s \in Seq(Messages) : Frame(s) \in Frames
<1>1. inbound[p] \in Seq(Seq(ToChannels)) /\ Len(inbound[p]) = Len(chans[p])
  BY Zenon DEF InboundOK, ToChannels
<1>2. \A s \in Seq(ToChannels) : s \in Seq(ToChannels \cup Messages)
  BY SeqSubset, Zenon
<1>3. inbound[p] \in Seq(Seq(ToChannels \cup Messages))
  BY <1>1, <1>2, SeqSubset, Zenon
<1>4. wire[p] \in Seq(Frames)
  BY Zenon DEF IoOK
<1>5. \A f \in Frames : f.messages \in Seq(Messages)
  <2>1. Handshake.messages = <<>> /\ <<>> \in Seq(Messages)
    BY DEF Handshake
  <2>2. \A f \in [handshake : {FALSE}, messages : Seq(Messages)] :
            f.messages \in Seq(Messages)
    BY Zenon
  <2> QED
    BY <2>1, <2>2, Zenon DEF Frames
<1>6. \A s \in Seq(Messages) : Frame(s) \in Frames
  BY Zenon DEF Frame, Frames
<1> QED
  BY <1>1, <1>3, <1>4, <1>5, <1>6, Zenon

\* ... keeps the order.
LEMMA ReceiverStep ==
    ASSUME Shape, IoOK, HandshakeOK, InboundOK, NEW p \in Peers, WayTo(p),
           ReceiverChange(p)
    PROVE  WayTo(p)'
<1> DEFINE q == Other(p)
           Falls(qs, fs) == WayOK(qs, fs, write_queue[q], outbound[q], task[q],
                                  left[q].send)
           S == ToChannels \cup Messages
<1>1. Falls(inbound[p], wire[p])
  BY Zenon DEF WayTo
<1>2. SUFFICES Falls(inbound'[p], wire'[p])
  BY Zenon DEF WayTo, ReceiverChange, SenderSide
<1>3. /\ inbound[p] \in Seq(Seq(S)) /\ Len(inbound[p]) = Len(chans[p])
      /\ wire[p] \in Seq(Frames)
      /\ \A f \in Frames : f.messages \in Seq(Messages)
      /\ \A s \in Seq(Messages) : Frame(s) \in Frames
  BY WayTypes, Zenon
<1>4. /\ \A n \in 1..Len(inbound[p]) : Falling(inbound[p][n])
      /\ FallingAll(Contents(wire[p]))
  BY <1>1, Zenon DEF WayOK
<1>5. ASSUME NEW qs, NEW fs, \A i \in 1..Len(qs) : Falling(qs[i]),
             DataInAll(qs) \subseteq DataInAll(inbound[p]), FallingAll(Contents(fs)),
             DataInAll(Contents(fs)) \subseteq DataInAll(Contents(wire[p]))
      PROVE  Falls(qs, fs)
  <2>1. /\ Ahead({}, DataInAll(Contents(fs))) /\ {} \subseteq DataInAll(Contents(wire[p]))
        /\ DataInAll(qs) \subseteq DataInAll(inbound[p]) \cup {}
    BY <1>5, Zenon DEF Ahead
  <2> QED
    BY <1>1, <1>5, <2>1, WayReceives, Zenon
<1>6. CASE UNCHANGED <<inbound[p], wire[p]>>
  BY <1>1, <1>6, Zenon
<1>7. CASE Reading(p) /\ wire'[p] = Tail(wire[p]) /\ UNCHANGED inbound[p]
  <2>1. /\ Contents(wire[p]) \in Seq(Seq(Messages)) /\ Contents(wire[p]) # <<>>
        /\ Contents(wire'[p]) = Tail(Contents(wire[p]))
    BY <1>3, <1>7, ContentsOf, Zenon DEF Reading
  <2>2. /\ FallingAll(Contents(wire'[p]))
        /\ DataInAll(Contents(wire'[p])) \subseteq DataInAll(Contents(wire[p]))
    BY <1>4, <2>1, TailFallsAll, Zenon
  <2> QED
    BY <1>4, <1>5, <1>7, <2>2, Zenon
<1>8. CASE /\ HasMessage(p) /\ wire'[p] = Consumed(p)[p]
           /\ \/ UNCHANGED inbound[p]
              \/ inbound'[p] = Append(inbound[p], <<>>)
              \/ \E n \in Cids(p) :
                    inbound'[p] = [inbound[p] EXCEPT ![n] = Append(@, Message(p))]
  <2> DEFINE m == Message(p)
             M == {x \in {m} : x.type = "Data"}
             fs == wire[p]
             gs == wire'[p]
             rest == Tail(Head(fs).messages)
  <2>1. fs # <<>> /\ Head(fs).messages # <<>> /\ m = Head(Head(fs).messages)
    BY <1>8, Zenon DEF HasMessage, Reading, Message
  <2>2. gs = IF rest = <<>> THEN Tail(fs) ELSE <<Frame(rest)>> \o Tail(fs)
    BY <1>8, Zenon DEF Consumed, Shape
  <2> HIDE DEF m, rest
  <2>3. /\ FallingAll(Contents(gs))
        /\ DataInAll(Contents(gs)) \subseteq DataInAll(Contents(fs))
        /\ m.type = "Data" => /\ m \in DataInAll(Contents(fs))
                              /\ Ahead({m}, DataInAll(Contents(gs)))
    <3>1. rest = Tail(Head(fs).messages)
      BY Zenon DEF rest
    <3> QED
      BY <1>3, <1>4, <2>1, <2>2, <3>1, TakenFalls, ZenonT(30)
  <2>4. M \subseteq DataInAll(Contents(fs)) /\ Ahead(M, DataInAll(Contents(gs)))
    BY <2>3, Zenon DEF Ahead
  <2>5. ASSUME NEW qs, \A i \in 1..Len(qs) : Falling(qs[i]),
               DataInAll(qs) \subseteq DataInAll(inbound[p]) \cup M
        PROVE  Falls(qs, gs)
    BY <1>1, <2>3, <2>4, <2>5, WayReceives, Zenon
  <2>6. CASE UNCHANGED inbound[p]
    BY <1>4, <2>5, <2>6, Zenon
  <2>7. CASE inbound'[p] = Append(inbound[p], <<>>)
    BY <1>3, <1>4, <2>5, <2>7, NewQueueFalls, Zenon
  <2>8. ASSUME NEW n \in Cids(p),
               inbound'[p] = [inbound[p] EXCEPT ![n] = Append(@, Message(p))]
        PROVE  Falls(inbound'[p], gs)
    <3>1. n \in 1..Len(inbound[p])
      BY <1>3, <2>8, Zenon DEF Cids
    <3>2. m \in S
      BY <1>8, MessageAtHand, Zenon DEF m
    <3>3. m.type = "Data" => Ahead(DataInAll(inbound[p]), {m})
      <4>1. Ahead(DataInAll(inbound[p]), DataInAll(Contents(fs)))
        <5>1. /\ 1 \in 1..5 /\ 2 \in 1..5 /\ 1 < 2
              /\ \A A, B, C, D, E : /\ <<A, B, C, D, E>>[1] = A
                                    /\ <<A, B, C, D, E>>[2] = B
          OBVIOUS
        <5> QED
          BY <1>1, <5>1, Zenon DEF WayOK, StagesFall, Stages
      <4> QED
        BY <2>3, <4>1, Zenon DEF Ahead
    <3>4. inbound'[p] = [inbound[p] EXCEPT ![n] = Append(inbound[p][n], m)]
      BY <2>8, Zenon DEF m
    <3>5. LET qs == [inbound[p] EXCEPT ![n] = Append(inbound[p][n], m)]
          IN  /\ \A i \in 1..Len(qs) : Falling(qs[i])
              /\ DataInAll(qs) \subseteq
                     DataInAll(inbound[p]) \cup {x \in {m} : x.type = "Data"}
      BY <1>3, <1>4, <3>1, <3>2, <3>3, DeliverFalls, Zenon
    <3> QED
      BY <2>5, <3>4, <3>5, Zenon
  <2> QED
    BY <1>8, <2>6, <2>7, <2>8, Zenon
<1>9. CASE UNCHANGED wire[p] /\ inbound'[p] = Append(inbound[p], <<>>)
  BY <1>3, <1>4, <1>5, <1>9, NewQueueFalls, Zenon
<1>10. ASSUME UNCHANGED wire[p], NEW n \in Cids(p), NEW m \in Signals,
              inbound'[p] = [inbound[p] EXCEPT ![n] = Append(@, m)]
       PROVE  Falls(inbound'[p], wire'[p])
  <2>1. m.type # "Data" /\ m \in S
    BY <1>10, Zenon DEF Signals, ToChannels
  <2>2. n \in 1..Len(inbound[p])
    BY <1>3, <1>10, Zenon DEF Cids
  <2>3. inbound'[p] = [inbound[p] EXCEPT ![n] = Append(inbound[p][n], m)]
    BY <1>10, Zenon
  <2>4. LET qs == [inbound[p] EXCEPT ![n] = Append(inbound[p][n], m)]
        IN  /\ \A i \in 1..Len(qs) : Falling(qs[i])
            /\ DataInAll(qs) \subseteq
                   DataInAll(inbound[p]) \cup {x \in {m} : x.type = "Data"}
    BY <1>3, <1>4, <2>1, <2>2, DeliverFalls, Zenon
  <2>5. DataInAll(inbound'[p]) \subseteq DataInAll(inbound[p])
    BY <2>1, <2>3, <2>4, Zenon
  <2>6. \A i \in 1..Len(inbound'[p]) : Falling(inbound'[p][i])
    BY <2>3, <2>4, Zenon
  <2> QED
    BY <1>4, <1>5, <1>10, <2>5, <2>6, Zenon
<1> QED
  BY <1>6, <1>7, <1>8, <1>9, <1>10, Zenon DEF ReceiverChange

-----------------------------------------------------------------------------
\* What a batch decodes to is a part of it, in its order.
LEMMA ReceivedFalls ==
    ASSUME PartsOK, NEW msgs \in Seq(Messages), msgs # <<>>, Falling(msgs),
           NEW f \in Received(msgs)
    PROVE  Falling(f.messages) /\ DataIn(f.messages) \subseteq DataIn(msgs)
<1> DEFINE n == SameChannelLen(msgs)
<1>1. n \in 1..Len(msgs)
  BY Zenon DEF PartsOK
<1>2. f \in {Frame(msgs), Frame(SubSeq(msgs, 1, n)), Frame(<<>>)}
  BY Zenon DEF Received
<1> HIDE DEF n
<1>3. \A s : Frame(s).messages = s
  BY Zenon DEF Frame
<1>4. Falling(SubSeq(msgs, 1, n)) /\ DataIn(SubSeq(msgs, 1, n)) \subseteq DataIn(msgs)
  BY <1>1, SplitFalls, Zenon
<1>5. Falling(<<>>) /\ DataIn(<<>>) = {}
  BY DEF Falling, DataIn
<1>6. CASE f = Frame(msgs)
  BY <1>3, <1>6, Zenon
<1>7. CASE f = Frame(SubSeq(msgs, 1, n))
  BY <1>3, <1>4, <1>7, Zenon
<1>8. CASE f = Frame(<<>>)
  BY <1>3, <1>5, <1>8, Zenon
<1> QED
  BY <1>2, <1>6, <1>7, <1>8, Zenon

\* Task t starts to send a batch of what is unsent, or has sent it and is over.
BeginsBatch(p, t) ==
    \E w :
        /\ task'[p] = [task[p] EXCEPT ![t] = w]
        /\ left'[p].send \in Int /\ left'[p].send <= left[p].send
        /\ Falling(w.batch)
        /\ \A m \in DataIn(w.batch) :
              /\ m.body.task = t
              /\ m.body.left \in left'[p].send..(left[p].send - 1)

\* What a step of p does at the beginning of the way to its remote ...
SenderChange(p) ==
    LET o == Other(p)
    IN  /\ UNCHANGED inbound[o]
        /\ \/ UNCHANGED <<wire[o], SenderSide(p)>>
           \/ /\ wire'[o] = Append(wire[o], Handshake)
              /\ UNCHANGED SenderSide(p)
           \/ /\ \E m : /\ m.type = "Open"
                        /\ write_queue'[p] = Append(write_queue[p], m)
              /\ UNCHANGED <<wire[o], outbound[p], task[p], left[p].send>>
           \/ WriteFrame(p)
           \/ /\ outbound[p] # <<>> /\ outbound'[p] = Tail(outbound[p])
              /\ \/ UNCHANGED write_queue[p]
                 \/ \E m \in Closes : write_queue'[p] = Append(write_queue[p], m)
                 \/ /\ Head(outbound[p]) \in Seq(Datas)
                    /\ write_queue'[p] = write_queue[p] \o Head(outbound[p])
              /\ UNCHANGED <<wire[o], task[p], left[p].send>>
           \/ /\ \E t \in Tasks : BeginsBatch(p, t)
              /\ UNCHANGED <<wire[o], write_queue[p], outbound[p]>>
           \/ /\ \E t \in Tasks : \E w :
                    /\ task[p][t] # Idle /\ w.batch = <<>>
                    /\ outbound'[p] = Append(outbound[p], task[p][t].batch)
                    /\ task'[p] = [task[p] EXCEPT ![t] = w]
              /\ UNCHANGED <<wire[o], write_queue[p], left[p].send>>

\* A message that is not of an application changes no stage of the way.
LEMMA ControlFalls ==
    ASSUME NEW S, NEW s \in Seq(S), NEW m \in S, m.type # "Data", Falling(s)
    PROVE  Falling(Append(s, m)) /\ DataIn(Append(s, m)) \subseteq DataIn(s)
BY AppendFalls, Zenon

\* Every message on the way is numbered.
LEMMA NumbersOf ==
    ASSUME NEW S, \A m \in S : m.type = "Data" => m \in Datas, NEW s \in Seq(S),
           NEW m \in DataIn(s)
    PROVE  m.body.left \in Int
<1>1. PICK i \in 1..Len(s) : s[i] = m /\ m.type = "Data"
  BY DataInDef, Zenon
<1>2. m \in S
  BY <1>1
<1> QED
  BY <1>1, <1>2, Zenon DEF Datas

\* Every message of every stage of the way to o is one of an application's.
LEMMA StageNumbers ==
    ASSUME IoOK, HandshakeOK, InboundOK, OutboundOK, TablesOK, TasksOK,
           NEW p \in Peers,
           NEW o \in Peers
    PROVE  \A l \in 1..5 :
               \A m \in Stages(inbound[o], wire[o], write_queue[p], outbound[p],
                               task[p])[l] : m.body.left \in Int
<1>1. \A m \in ToChannels \cup Messages : m.type = "Data" => m \in Datas
  BY Zenon DEF ToChannels, Messages, Opens, Closes, Signals
<1>2. \A s \in Seq(ToChannels \cup Messages) : \A m \in DataIn(s) : m.body.left \in Int
  BY <1>1, NumbersOf, Zenon
<1>3. \A s \in Seq(Messages) : s \in Seq(ToChannels \cup Messages)
  BY SeqSubset, Zenon
<1>4. \A m \in DataInAll(inbound[o]) : m.body.left \in Int
  <2>1. \A i \in 1..Len(inbound[o]) : inbound[o][i] \in Seq(ToChannels \cup Messages)
    BY WayTypes
  <2> QED
    BY <1>2, <2>1, DataInAllDef, Zenon
<1>5. \A m \in DataInAll(Contents(wire[o])) : m.body.left \in Int
  <2>1. Contents(wire[o]) \in Seq(Seq(Messages))
    BY WayTypes, ContentsOf, Zenon
  <2>2. \A i \in 1..Len(Contents(wire[o])) : Contents(wire[o])[i] \in Seq(Messages)
    BY <2>1
  <2> QED
    BY <1>2, <1>3, <2>2, DataInAllDef, Zenon
<1>6. \A m \in DataIn(write_queue[p]) : m.body.left \in Int
  BY <1>2, <1>3, Zenon DEF IoOK
<1>7. \A b \in Batches : b \in Seq(ToChannels \cup Messages)
  <2>1. \A s : s \in Seq(Closes) \/ s \in Seq(Signals) \/ s \in Seq(Datas) =>
            s \in Seq(ToChannels \cup Messages)
    BY SeqSubset DEF ToChannels
  <2> QED
    BY <2>1, Zenon DEF Batches, Single
<1>8. \A m \in DataInAll(outbound[p]) : m.body.left \in Int
  <2>1. \A i \in 1..Len(outbound[p]) : outbound[p][i] \in Batches
    BY DEF OutboundOK
  <2> QED
    BY <1>2, <1>7, <2>1, DataInAllDef, Zenon
<1>9. \A t \in Tasks : task[p][t] # Idle => task[p][t].batch \in Batches
  BY TaskBatches, Zenon
<1>10. \A m \in Batched(task[p]) : m.body.left \in Int
  BY <1>2, <1>7, <1>9, BatchedDef, Zenon
<1>11. ASSUME NEW A, NEW B, NEW C, NEW D, NEW E, NEW l \in 1..5, NEW m,
              m \in <<A, B, C, D, E>>[l]
       PROVE  m \in A \/ m \in B \/ m \in C \/ m \in D \/ m \in E
  BY <1>11
<1> QED
  BY <1>4, <1>5, <1>6, <1>8, <1>10, <1>11, Zenon DEF Stages

\* ... keeps the order.
LEMMA SenderStep ==
    ASSUME PartsOK, Shape, IoOK, HandshakeOK, InboundOK, OutboundOK, AppOK, TablesOK,
           TasksOK, NEW p \in Peers, WayTo(Other(p)), SenderChange(p)
    PROVE  WayTo(Other(p))'
<1> DEFINE o == Other(p)
           Falls(fs, ws, ss, ts, u) == WayOK(inbound[o], fs, ws, ss, ts, u)
<1>0. o \in Peers /\ Other(o) = p
  BY OtherPeer, Zenon
<1>1. Falls(wire[o], write_queue[p], outbound[p], task[p], left[p].send)
  <2>1. Falls(wire[o], write_queue[Other(o)], outbound[Other(o)], task[Other(o)],
              left[Other(o)].send)
    BY Zenon DEF WayTo
  <2> HIDE DEF o, Falls
  <2> QED
    BY <1>0, <2>1, Zenon
<1>2. SUFFICES Falls(wire'[o], write_queue'[p], outbound'[p], task'[p], left'[p].send)
  BY <1>0, Zenon DEF WayTo, SenderChange
<1>3. /\ wire[o] \in Seq(Frames) /\ \A f \in Frames : f.messages \in Seq(Messages)
      /\ write_queue[p] \in Seq(Messages) /\ outbound[p] \in Seq(Batches)
      /\ DOMAIN task[p] = Tasks
  BY <1>0, WayTypes, Zenon DEF IoOK, OutboundOK, TasksOK
<1>4. /\ FallingAll(Contents(wire[o])) /\ Falling(write_queue[p])
      /\ FallingAll(outbound[p])
  BY <1>1, Zenon DEF WayOK
<1> HIDE DEF o
<1> DEFINE cs == Contents(wire[o])
<1>5. cs \in Seq(Seq(Messages))
  BY <1>3, ContentsOf, Zenon
<1>6. ASSUME NEW f \in Frames, Falling(f.messages),
             Ahead(DataInAll(cs), DataIn(f.messages)),
             wire'[o] = Append(wire[o], f)
      PROVE  /\ FallingAll(Contents(wire'[o]))
             /\ DataInAll(Contents(wire'[o])) \subseteq
                    DataInAll(cs) \cup DataIn(f.messages)
  <2>1. f.messages \in Seq(Messages) /\ Contents(wire'[o]) = Append(cs, f.messages)
    <3>1. f.messages \in Seq(Messages)
      BY <1>3, <1>6, Zenon
    <3>2. Contents(Append(wire[o], f)) = Append(Contents(wire[o]), f.messages)
      <4>1. (\A g \in Frames : g.messages \in Seq(Messages)) /\ wire[o] \in Seq(Frames)
        BY <1>3, Zenon
      <4>2. f \in Frames
        BY <1>6, Zenon
      <4> QED
        BY ONLY <4>1, <4>2, ContentsAppend, SMTT(30)
    <3> QED
      BY <1>6, <3>1, <3>2, Zenon
  <2> HIDE DEF cs
  <2>2. FallingAll(cs)
    BY <1>4, Zenon DEF cs
  <2>3. /\ FallingAll(Append(cs, f.messages))
        /\ DataInAll(Append(cs, f.messages)) \subseteq
               DataInAll(cs) \cup DataIn(f.messages)
    BY <1>5, <1>6, <2>1, <2>2, AppendFallsAll, Zenon
  <2> QED
    BY <2>1, <2>3, Zenon
<1>7. ASSUME NEW m, m.type # "Data"
      PROVE  /\ Falling(Append(write_queue[p], m))
             /\ DataIn(Append(write_queue[p], m)) \subseteq DataIn(write_queue[p])
  <2>1. write_queue[p] \in Seq(Messages \cup {m}) /\ m \in Messages \cup {m}
    BY <1>3, SeqSubset, Zenon
  <2> QED
    BY <1>4, <1>7, <2>1, ControlFalls, Zenon
<1>8. CASE UNCHANGED <<wire[o], SenderSide(p)>>
  BY <1>1, <1>8, Zenon DEF SenderSide
<1>9. CASE wire'[o] = Append(wire[o], Handshake) /\ UNCHANGED SenderSide(p)
  <2>1. Handshake \in Frames /\ Handshake.messages = <<>>
    BY Zenon DEF Frames, Handshake
  <2>3. Falling(<<>>) /\ DataIn(<<>>) = {}
    BY DEF Falling, DataIn
  <2>4. Ahead(DataInAll(cs), DataIn(<<>>))
    BY <2>3, Zenon DEF Ahead
  <2>5. /\ FallingAll(Contents(wire'[o]))
        /\ DataInAll(Contents(wire'[o])) \subseteq DataInAll(cs)
    BY <1>9, <1>6, <2>1, <2>3, <2>4, Zenon
  <2>6. Falls(wire'[o], write_queue[p], outbound[p], task[p], left[p].send)
    <3>1. /\ {} \subseteq DataIn(write_queue[p]) /\ Ahead({}, DataIn(write_queue[p]))
          /\ DataIn(write_queue[p]) \subseteq DataIn(write_queue[p])
          /\ DataInAll(Contents(wire'[o])) \subseteq
                 DataInAll(Contents(wire[o])) \cup {}
      BY <2>3, <2>5, Zenon DEF Ahead
    <3> QED
      BY <1>1, <1>4, <2>5, <3>1, WayWrites, Zenon
  <2> QED
    BY <1>9, <2>6, Zenon DEF SenderSide
<1>10. ASSUME NEW m, m.type = "Open", write_queue'[p] = Append(write_queue[p], m),
             UNCHANGED <<wire[o], outbound[p], task[p], left[p].send>>
      PROVE  Falls(wire'[o], write_queue'[p], outbound'[p], task'[p], left'[p].send)
  <2>1. m.type # "Data"
    BY <1>10, Zenon
  <2>2. /\ {} \subseteq DataIn(write_queue[p]) /\ Ahead({}, DataIn(write_queue'[p]))
        /\ DataInAll(Contents(wire[o])) \subseteq DataInAll(Contents(wire[o])) \cup {}
    BY Zenon DEF Ahead
  <2>3. /\ Falling(write_queue'[p])
        /\ DataIn(write_queue'[p]) \subseteq DataIn(write_queue[p])
    BY <1>7, <1>10, <2>1, Zenon
  <2>4. Falls(wire[o], write_queue'[p], outbound[p], task[p], left[p].send)
    BY <1>1, <1>4, <2>2, <2>3, WayWrites, Zenon
  <2> QED
    BY <1>10, <2>4, Zenon
<1>11. CASE WriteFrame(p)
  <2> DEFINE q == write_queue[p]
             n == BatchLen(q)
             msgs == SubSeq(q, 1, n)
             ws == SubSeq(q, n + 1, Len(q))
  <2>1. PICK f \in Received(msgs) : wire' = [wire EXCEPT ![o] = Append(@, f)]
    BY <1>11, Zenon DEF WriteFrame, o
  <2>2. /\ q # <<>> /\ write_queue'[p] = ws
        /\ UNCHANGED <<outbound, task, left>>
    BY <1>11, Zenon DEF WriteFrame, CanWrite, Shape, appVars
  <2>3. wire'[o] = Append(wire[o], f)
    BY <1>0, <2>1, Zenon DEF Shape
  <2>4. n \in 1..Len(q) /\ Len(q) \in Nat
    BY <1>3, <2>2 DEF PartsOK
  <2> HIDE DEF n
  <2>5. msgs \in Seq(Messages) /\ msgs # <<>>
    <3>1. q \in Seq(Messages)
      BY <1>3, Zenon
    <3> HIDE DEF q
    <3> QED
      BY ONLY <2>4, <3>1, SMTT(30)
  <2>6. f \in Frames
    BY <2>5, ReceivedType, Zenon DEF PartsOK
  <2>7. /\ Falling(msgs) /\ DataIn(msgs) \subseteq DataIn(q)
        /\ Falling(ws) /\ DataIn(ws) \subseteq DataIn(q)
        /\ Ahead(DataIn(msgs), DataIn(ws))
    BY <1>3, <1>4, <2>4, SplitFalls, Zenon
  <2> HIDE DEF msgs, ws
  <2>8. Falling(f.messages) /\ DataIn(f.messages) \subseteq DataIn(msgs)
    BY <2>5, <2>7, ReceivedFalls, Zenon
  <2>10. Ahead(DataInAll(Contents(wire[o])), DataIn(f.messages))
    <3>1. /\ 2 \in 1..5 /\ 3 \in 1..5 /\ 2 < 3
          /\ \A A, B, C, D, E : /\ <<A, B, C, D, E>>[2] = B
                                /\ <<A, B, C, D, E>>[3] = C
      OBVIOUS
    <3>2. Ahead(DataInAll(Contents(wire[o])), DataIn(q))
      BY <1>1, <3>1, Zenon DEF WayOK, StagesFall, Stages
    <3> QED
      BY <2>7, <2>8, <3>2, Zenon DEF Ahead
  <2>11. /\ FallingAll(Contents(wire'[o]))
         /\ DataInAll(Contents(wire'[o])) \subseteq
                DataInAll(Contents(wire[o])) \cup DataIn(f.messages)
    BY <1>6, <2>3, <2>6, <2>8, <2>10, Zenon
  <2>12. DataIn(f.messages) \subseteq DataIn(q) /\ Ahead(DataIn(f.messages), DataIn(ws))
    BY <2>7, <2>8, Zenon DEF Ahead
  <2>13. Falls(wire'[o], ws, outbound[p], task[p], left[p].send)
    BY <1>1, <2>7, <2>11, <2>12, WayWrites, Zenon
  <2> QED
    BY <2>2, <2>13, Zenon
<1>12. ASSUME outbound[p] # <<>>, outbound'[p] = Tail(outbound[p]),
              \/ UNCHANGED write_queue[p]
              \/ \E m \in Closes : write_queue'[p] = Append(write_queue[p], m)
              \/ /\ Head(outbound[p]) \in Seq(Datas)
                 /\ write_queue'[p] = write_queue[p] \o Head(outbound[p]),
              UNCHANGED <<wire[o], task[p], left[p].send>>
       PROVE  Falls(wire'[o], write_queue'[p], outbound'[p], task'[p], left'[p].send)
  <2> DEFINE b == Head(outbound[p])
  <2>1. /\ Falling(write_queue'[p])
        /\ DataIn(write_queue'[p]) \subseteq DataIn(write_queue[p]) \cup DataIn(b)
    <3>1. CASE UNCHANGED write_queue[p]
      BY <1>4, <3>1, Zenon
    <3>2. ASSUME NEW m \in Closes, write_queue'[p] = Append(write_queue[p], m)
          PROVE  /\ Falling(write_queue'[p])
                 /\ DataIn(write_queue'[p]) \subseteq DataIn(write_queue[p])
      <4>1. m \in Messages /\ m.type # "Data"
        BY Zenon DEF Messages, Closes
      <4> QED
        BY <1>7, <3>2, <4>1, Zenon
    <3>3. CASE b \in Seq(Datas) /\ write_queue'[p] = write_queue[p] \o b
      <4>1. b \in Seq(Messages)
        BY <3>3, SeqSubset, Zenon DEF Messages
      <4>2. Falling(b) /\ DataIn(b) \subseteq DataInAll(outbound[p])
        BY <1>3, <1>4, <1>12, TailFallsAll, Zenon
      <4>3. /\ 3 \in 1..5 /\ 4 \in 1..5 /\ 3 < 4
            /\ \A A, B, C, D, E : /\ <<A, B, C, D, E>>[3] = C
                                  /\ <<A, B, C, D, E>>[4] = D
        OBVIOUS
      <4>4. Ahead(DataIn(write_queue[p]), DataInAll(outbound[p]))
        BY <1>1, <4>3, Zenon DEF WayOK, StagesFall, Stages
      <4>5. Ahead(DataIn(write_queue[p]), DataIn(b))
        BY <4>2, <4>4, Zenon DEF Ahead
      <4> HIDE DEF b
      <4>6. /\ Falling(write_queue[p] \o b)
            /\ DataIn(write_queue[p] \o b) \subseteq DataIn(write_queue[p]) \cup DataIn(b)
        BY <1>3, <1>4, <4>1, <4>2, <4>5, ConcatFalls, Zenon
      <4> QED
        BY <3>3, <4>6, Zenon
    <3> QED
      BY <1>12, <3>1, <3>2, <3>3, Zenon
  <2>2. Falls(wire[o], write_queue'[p], Tail(outbound[p]), task[p], left[p].send)
    BY <1>1, <1>3, <1>12, <2>1, WayPops, Zenon
  <2> QED
    BY <1>12, <2>2, Zenon
<1>13. ASSUME NEW t \in Tasks, BeginsBatch(p, t),
              UNCHANGED <<wire[o], write_queue[p], outbound[p]>>
       PROVE  Falls(wire'[o], write_queue'[p], outbound'[p], task'[p], left'[p].send)
  <2>1. PICK w :
            /\ task'[p] = [task[p] EXCEPT ![t] = w]
            /\ left'[p].send \in Int /\ left'[p].send <= left[p].send
            /\ Falling(w.batch)
            /\ \A m \in DataIn(w.batch) :
                  /\ m.body.task = t
                  /\ m.body.left \in left'[p].send..(left[p].send - 1)
    BY <1>13, Zenon DEF BeginsBatch
  <2>2. left[p].send \in Int
    BY DEF AppOK, AppOps
  <2>3. \A l \in 1..5 :
            \A m \in Stages(inbound[o], wire[o], write_queue[p], outbound[p],
                            task[p])[l] : m.body.left \in Int
    BY <1>0, StageNumbers, Zenon
  <2>4. Falls(wire[o], write_queue[p], outbound[p], [task[p] EXCEPT ![t] = w],
              left'[p].send)
    BY <1>1, <1>3, <2>1, <2>2, <2>3, WayBegins, Zenon
  <2> QED
    BY <1>13, <2>1, <2>4, Zenon
<1>14. ASSUME NEW t \in Tasks, task[p][t] # Idle, NEW w, w.batch = <<>>,
              outbound'[p] = Append(outbound[p], task[p][t].batch),
              task'[p] = [task[p] EXCEPT ![t] = w],
              UNCHANGED <<wire[o], write_queue[p], left[p].send>>
       PROVE  Falls(wire'[o], write_queue'[p], outbound'[p], task'[p], left'[p].send)
  <2>1. task[p][t].batch \in Batches
    BY <1>14, TaskBatches, Zenon
  <2>2. Falls(wire[o], write_queue[p], Append(outbound[p], task[p][t].batch),
              [task[p] EXCEPT ![t] = w], left[p].send)
    BY <1>1, <1>3, <1>14, <2>1, WaySends, Zenon
  <2> QED
    BY <1>14, <2>2, Zenon
<1> QED
  BY <1>8, <1>9, <1>10, <1>11, <1>12, <1>13, <1>14, Zenon DEF SenderChange, o

-----------------------------------------------------------------------------
(***************************************************************************)
(* Every step is such a step of a receiver and of a sender.                *)
(***************************************************************************)
\* What else an application does leaves what it may send alone.
LEMMA UnsentStays ==
    ASSUME Shape, AppOK, NEW p \in Peers, NEW op \in AppOps, op # "send", NEW n,
           Spend(p, op, n)
    PROVE  \A q \in Peers : left'[q].send = left[q].send
<1>1. \A q \in Peers : DOMAIN left[q] = AppOps
  BY Zenon DEF AppOK
<1>2. "send" \in AppOps
  BY Zenon DEF AppOps
<1>3. left' = [left EXCEPT ![p] = [left[p] EXCEPT ![op] = @ - n]] /\ DOMAIN left = Peers
  BY Zenon DEF Spend, Shape
<1> QED
  BY <1>1, <1>2, <1>3, Zenon

\* A Channel method starts: what it is to send comes after all that was sent.
LEMMA BeginsStep ==
    ASSUME Shape, AppOK, TasksOK, NEW p \in Peers, NEW t \in Tasks, NEW n,
           \/ \E size \in 1..MaxBatch : BeginSend(p, t, n, size)
           \/ BeginEmpty(p, t, n) \/ BeginSignal(p, t, n) \/ BeginClose(p, t, n)
    PROVE  /\ BeginsBatch(p, t) /\ UNCHANGED SenderSide(Other(p))
           /\ UNCHANGED <<inbound, wire, write_queue, outbound>>
<1> DEFINE o == Other(p)
<1>0. o \in Peers /\ o # p
  BY OtherPeer, Zenon
<1> HIDE DEF o
<1>1. ASSUME NEW w, Begin(p, t, n, w)
      PROVE  /\ UNCHANGED <<inbound, wire, write_queue, outbound>>
             /\ task'[p] = [task[p] EXCEPT ![t] = w] /\ task'[o] = task[o]
  <2>1. /\ UNCHANGED <<inbound, wire, write_queue, outbound>>
        /\ task' = [task EXCEPT ![p][t] = w]
    BY <1>1, Zenon DEF Begin, tableVars, ioVars
  <2> QED
    BY <1>0, <2>1, Zenon DEF Shape
<1>2. left[p] \in [AppOps -> Nat] /\ "send" \in AppOps /\ DOMAIN left = Peers
  BY Zenon DEF AppOK, AppOps, Shape
<1>3. ASSUME NEW size \in 1..MaxBatch, BeginSend(p, t, n, size)
      PROVE  BeginsBatch(p, t) /\ UNCHANGED <<task[o], left[o].send>>
  <2> DEFINE b == [i \in 1..size |->
                      DataMsg(chans[p][n].local_id,
                              [chan |-> n, task |-> t, left |-> left[p].send - i])]
             w == [op |-> "send", batch |-> b]
  <2>1. Begin(p, t, n, w) /\ Spend(p, "send", size)
    BY <1>3, Zenon DEF BeginSend
  <2>2. /\ left'[p].send = left[p].send - size /\ left'[o] = left[o]
        /\ left[p].send \in Nat /\ left[p].send >= size /\ size \in Nat
    BY <1>0, <1>2, <2>1, ProtocolAssumption, SMTT(30) DEF Spend
  <2>3. w.batch = b /\ Len(b) = size /\ DOMAIN b = 1..size
    BY <2>2
  <2>4. \A i \in 1..size : b[i].body.task = t /\ b[i].body.left = left[p].send - i
    BY Zenon DEF DataMsg
  <2> HIDE DEF b
  <2>5. Falling(b)
    <3>1. ASSUME NEW j \in 1..size, NEW i \in 1..(j - 1)
          PROVE  i \in 1..size /\ left[p].send - i > left[p].send - j
      BY <2>2
    <3>2. \A j \in 1..size : \A i \in 1..(j - 1) : Precedes(b[i], b[j])
      BY <2>4, <3>1, Zenon DEF Precedes
    <3> QED
      BY <2>3, <3>2, Zenon DEF Falling
  <2>6. ASSUME NEW m \in DataIn(b)
        PROVE  /\ m.body.task = t
               /\ m.body.left \in left'[p].send..(left[p].send - 1)
    <3>1. PICK i \in 1..size : b[i] = m
      BY <2>3, DataInDef, Zenon
    <3>2. m.body.task = t /\ m.body.left = left[p].send - i
      BY <2>4, <3>1, Zenon
    <3> QED
      BY <2>2, <3>2
  <2>7. left'[p].send \in Int /\ left'[p].send <= left[p].send
    BY <2>2
  <2>8. task'[p] = [task[p] EXCEPT ![t] = w] /\ task'[o] = task[o]
    BY <1>1, <2>1, Zenon
  <2> HIDE DEF w
  <2>9. BeginsBatch(p, t)
    BY <2>3, <2>5, <2>6, <2>7, <2>8, Zenon DEF BeginsBatch
  <2> QED
    BY <2>2, <2>8, <2>9, Zenon
<1>4. ASSUME NEW w, NEW op \in AppOps, op # "send", Spend(p, op, 1), Begin(p, t, n, w),
             DataIn(w.batch) = {}, Falling(w.batch)
      PROVE  BeginsBatch(p, t) /\ UNCHANGED <<task[o], left[o].send>>
  <2>1. left'[p].send = left[p].send /\ left'[o].send = left[o].send
    BY <1>0, <1>4, UnsentStays, Zenon
  <2>2. left'[p].send \in Int /\ left'[p].send <= left[p].send
    BY <1>2, <2>1
  <2>3. task'[p] = [task[p] EXCEPT ![t] = w] /\ task'[o] = task[o]
    BY <1>1, <1>4, Zenon
  <2>4. \A m \in DataIn(w.batch) :
            m.body.task = t /\ m.body.left \in left'[p].send..(left[p].send - 1)
    BY <1>4, Zenon
  <2> QED
    BY <1>4, <2>1, <2>2, <2>3, <2>4, Zenon DEF BeginsBatch
<1>5. /\ DataIn(<<>>) = {} /\ Falling(<<>>)
      /\ \A id : DataIn(<<SignalMsg(id)>>) = {} /\ Falling(<<SignalMsg(id)>>)
      /\ \A id : DataIn(<<CloseMsg(id)>>) = {} /\ Falling(<<CloseMsg(id)>>)
  BY DEF DataIn, Falling, SignalMsg, CloseMsg
<1>6. /\ "empty" \in AppOps /\ "signal" \in AppOps /\ "close" \in AppOps
      /\ "empty" # "send" /\ "signal" # "send" /\ "close" # "send"
  BY Zenon DEF AppOps
<1>7. ASSUME BeginEmpty(p, t, n) \/ BeginSignal(p, t, n) \/ BeginClose(p, t, n)
      PROVE  BeginsBatch(p, t) /\ UNCHANGED <<task[o], left[o].send>>
  <2>1. ASSUME NEW w, NEW op \in {"empty", "signal", "close"}, Spend(p, op, 1),
               Begin(p, t, n, w),
               w.batch \in {<<>>, <<SignalMsg(chans[p][n].local_id)>>,
                            <<CloseMsg(chans[p][n].local_id)>>}
        PROVE  BeginsBatch(p, t) /\ UNCHANGED <<task[o], left[o].send>>
    BY <1>4, <1>5, <1>6, <2>1, Zenon
  <2>2. CASE BeginEmpty(p, t, n)
    <3> DEFINE w == [op |-> "send", batch |-> <<>>]
    <3>1. Spend(p, "empty", 1) /\ Begin(p, t, n, w) /\ w.batch = <<>>
      BY <2>2, Zenon DEF BeginEmpty
    <3> QED
      BY <2>1, <3>1, Zenon
  <2>3. CASE BeginSignal(p, t, n)
    <3> DEFINE w == [op |-> "send", batch |-> <<SignalMsg(chans[p][n].local_id)>>]
    <3>1. /\ Spend(p, "signal", 1) /\ Begin(p, t, n, w)
          /\ w.batch = <<SignalMsg(chans[p][n].local_id)>>
      BY <2>3, Zenon DEF BeginSignal
    <3> QED
      BY <2>1, <3>1, Zenon
  <2>4. CASE BeginClose(p, t, n)
    <3> DEFINE w == [op |-> "close", flag |-> chans[p][n].closed,
                     batch |-> <<CloseMsg(chans[p][n].local_id)>>]
    <3>1. /\ Spend(p, "close", 1) /\ Begin(p, t, n, w)
          /\ w.batch = <<CloseMsg(chans[p][n].local_id)>>
      BY <2>4, Zenon DEF BeginClose
    <3> QED
      BY <2>1, <3>1, Zenon
  <2> QED
    BY <1>7, <2>2, <2>3, <2>4, Zenon
<1>8. UNCHANGED <<inbound, wire, write_queue, outbound>>
  BY <1>1, Zenon DEF BeginSend, BeginEmpty, BeginSignal, BeginClose
<1>9. BeginsBatch(p, t) /\ UNCHANGED <<task[o], left[o].send>>
  BY <1>3, <1>7, Zenon
<1> QED
  BY <1>8, <1>9, Zenon DEF SenderSide, o

\* Every step of p is such a change at both ends.
LEMMA WayChange ==
    ASSUME Shape, AppOK, IoOK, HandshakeOK, TablesOK, EventsOK, CommandsOK, OutboundOK,
           TasksOK, InboundOK, NEW p \in Peers, PollNext(p) \/ App(p)
    PROVE  ReceiverChange(p) /\ SenderChange(p)
<1> DEFINE o == Other(p)
           Change == ReceiverChange(p) /\ SenderChange(p)
           Unsent == \A q \in Peers : left'[q].send = left[q].send
<1>0. o \in Peers /\ o # p
  BY OtherPeer, Zenon
<1> HIDE DEF o
<1>1. ASSUME UNCHANGED <<inbound, wire, write_queue, outbound, task>>, Unsent
      PROVE  Change
  <2>1. UNCHANGED <<SenderSide(p), SenderSide(o), inbound[p], wire[p], inbound[o],
                    wire[o]>>
    BY <1>0, <1>1, Zenon DEF SenderSide
  <2> QED
    BY <2>1, Zenon DEF ReceiverChange, SenderChange, o
<1>2. CASE \/ PollHandshake(p) \/ PollQueued(p) \/ PollStart(p) \/ InboundPending(p)
           \/ CommandOpenRefuse(p) \/ CommandClose(p) \/ CommandSignal(p)
           \/ CommandsPending(p) \/ PollEnd(p) \/ \E key \in todo[p] : DriverOpen(p, key)
  <2>1. UNCHANGED <<inbound, wire, write_queue, outbound, task, left>>
    BY <1>2, Zenon DEF PollHandshake, PollQueued, PollStart, InboundPending,
           CommandOpenRefuse, CommandClose, CommandSignal, CommandsPending, PollEnd,
           DriverOpen, tableVars, ioVars, appVars
  <2> QED
    BY <1>1, <2>1, Zenon
<1>3. ASSUME NEW n, \/ Open(p, n) \/ CloseByKey(p, n) \/ SignalLocal(p)
                    \/ DropReceiver(p, n)
      PROVE  Change
  <2>1. UNCHANGED <<inbound, wire, write_queue, outbound, task>>
    BY <1>3, Zenon DEF Open, CloseByKey, SignalLocal, DropReceiver, tableVars, ioVars
  <2>2. \E op \in AppOps : \E k : op # "send" /\ Spend(p, op, k)
    <3>1. /\ "open" \in AppOps /\ "command_close" \in AppOps /\ "signal" \in AppOps
          /\ "drop" \in AppOps
          /\ "send" \notin {"open", "command_close", "signal", "drop"}
      BY Zenon DEF AppOps
    <3> QED
      BY <1>3, <3>1, Zenon DEF Open, CloseByKey, SignalLocal, DropReceiver
  <2> QED
    BY <1>1, <2>1, <2>2, UnsentStays, Zenon
\* Frames that are read
<1>4. CASE PollGate(p) \/ ReadHandshake(p)
  <2>1. UNCHANGED <<inbound, write_queue, outbound, task, left>>
    BY <1>4, Zenon DEF PollGate, ReadHandshake, tableVars, appVars
  <2>2. /\ UNCHANGED <<SenderSide(p), SenderSide(o), inbound[p], inbound[o]>>
    BY <2>1, Zenon DEF SenderSide
  <2>3. /\ wire'[p] = wire[p] \/ (Reading(p) /\ wire'[p] = Tail(wire[p]))
        /\ wire'[o] = wire[o] \/ wire'[o] = Append(wire[o], Handshake)
    BY <1>0, <1>4 DEF PollGate, ReadHandshake, FrameDropped, Shape, o
  <2> QED
    BY <2>2, <2>3, Zenon DEF ReceiverChange, SenderChange, o
<1>5. ASSUME UNCHANGED <<inbound, write_queue, outbound, task, left>>,
             Reading(p), wire' = FrameDropped(p)
      PROVE  Change
  <2>1. UNCHANGED <<SenderSide(p), SenderSide(o), inbound[p], inbound[o]>>
    BY <1>5, Zenon DEF SenderSide
  <2>2. wire'[p] = Tail(wire[p]) /\ wire'[o] = wire[o]
    BY <1>0, <1>5, Zenon DEF FrameDropped, Shape
  <2> QED
    BY <1>5, <2>1, <2>2, Zenon DEF ReceiverChange, SenderChange, o
<1>6. CASE ReadBadFrame(p) \/ OnOpenRefuse(p) \/ ForwardFails(p)
  <2>1. /\ UNCHANGED <<inbound, write_queue, outbound, task, left>>
        /\ Reading(p) /\ wire' = FrameDropped(p)
    BY <1>6, Zenon DEF ReadBadFrame, OnOpenRefuse, ForwardFails, HasMessage, tableVars,
                       appVars
  <2> QED
    BY <1>5, <2>1, Zenon
<1>7. ASSUME UNCHANGED <<write_queue, outbound, task, left>>, UNCHANGED inbound[o],
             HasMessage(p), wire' = Consumed(p),
             \/ UNCHANGED inbound[p]
             \/ inbound'[p] = Append(inbound[p], <<>>)
             \/ \E n \in Cids(p) :
                   /\ IsFor(p, n)
                   /\ inbound'[p] = [inbound[p] EXCEPT ![n] = Append(@, Message(p))]
      PROVE  Change
  <2>1. UNCHANGED <<SenderSide(p), SenderSide(o)>>
    BY <1>7, Zenon DEF SenderSide
  <2>2. wire'[p] = Consumed(p)[p] /\ wire'[o] = wire[o]
    BY <1>0, <1>7, ConsumedType, Zenon
  <2> QED
    BY <1>7, <2>1, <2>2, Zenon DEF ReceiverChange, SenderChange, o
<1>8. CASE OnOpenAnnounce(p)
  <2>1. /\ UNCHANGED <<inbound, write_queue, outbound, task, left>>
        /\ HasMessage(p) /\ wire' = Consumed(p)
    BY <1>8, Zenon DEF OnOpenAnnounce, appVars
  <2> QED
    BY <1>7, <2>1, Zenon
<1>9. CASE OnOpenAccept(p)
  <2>1. /\ UNCHANGED <<write_queue, outbound, task, left>>
        /\ HasMessage(p) /\ wire' = Consumed(p)
        /\ inbound' = [inbound EXCEPT ![p] = Append(@, <<>>)]
    BY <1>9, Zenon DEF OnOpenAccept, accept_channel, appVars
  <2>2. inbound'[p] = Append(inbound[p], <<>>) /\ inbound'[o] = inbound[o]
    BY <1>0, <2>1, Zenon DEF Shape
  <2> QED
    BY <1>7, <2>1, <2>2, Zenon
<1>10. ASSUME NEW n \in Cids(p), NEW x, inbound' = [inbound EXCEPT ![p][n] = Append(@, x)]
       PROVE  /\ inbound'[o] = inbound[o]
              /\ inbound'[p] = [inbound[p] EXCEPT ![n] = Append(@, x)]
  BY <1>0, <1>10, Zenon DEF Shape
<1>11. CASE OnClose(p) \/ ForwardInbound(p)
  <2> DEFINE dk == get_remote(cm[p], Message(p).channel)
             n == cm[p].channels[dk].inbound_tx
  <2>1. /\ UNCHANGED <<write_queue, outbound, task, left>>
        /\ HasMessage(p) /\ wire' = Consumed(p)
    BY <1>11, Zenon DEF OnClose, ForwardInbound, appVars
  <2>2. \/ UNCHANGED inbound
        \/ /\ dk # None /\ Receiving(p, cm[p].channels[dk])
           /\ inbound' = [inbound EXCEPT ![p][n] = Append(@, Message(p))]
    BY <1>11, Zenon DEF OnClose, ForwardInbound
  <2>3. CASE UNCHANGED inbound
    BY <1>7, <2>1, <2>3, Zenon
  <2>4. CASE /\ dk # None /\ Receiving(p, cm[p].channels[dk])
             /\ inbound' = [inbound EXCEPT ![p][n] = Append(@, Message(p))]
    <3>1. n \in Cids(p) /\ dk \in DOMAIN cm[p].channels
      BY <2>4, QueueOfHandle, Zenon DEF get_remote, has_channel
    <3>3. Message(p).type = "Close" => cm'[p] = remove(cm[p], dk)
      <4>1. Message(p).type = "Close" => OnClose(p)
        BY <1>11, Zenon DEF ForwardInbound, IsControl
      <4>2. OnClose(p) => cm' = [cm EXCEPT ![p] = remove(@, dk)]
        BY <2>4, Zenon DEF OnClose, RemoveAndNotify
      <4> QED
        BY <4>1, <4>2, Zenon DEF Shape
    <3>4. IsFor(p, n)
      BY <3>1, <3>3, Zenon DEF IsFor
    <3> HIDE DEF n
    <3>2. /\ inbound'[o] = inbound[o]
          /\ inbound'[p] = [inbound[p] EXCEPT ![n] = Append(@, Message(p))]
      BY <1>10, <2>4, <3>1, Zenon
    <3> QED
      BY <1>7, <2>1, <3>1, <3>2, <3>4, Zenon
  <2> QED
    BY <2>2, <2>3, <2>4, Zenon
\* Messages that are sent
<1>12. CASE CommandOpenFirst(p) \/ CommandOpenAccept(p)
  <2> DEFINE key == Head(commands[p]).key
             msg == OpenMsg(LocalId(LocalAttached(p, key).channels[DiscoveryKey[key]]),
                            DiscoveryKey[key], capability(p, key))
  <2>1. /\ Commanded(p, "open") /\ EnqueueOpen(p, key)
        /\ UNCHANGED <<wire, outbound, task, left>>
    BY <1>12, Zenon DEF CommandOpenFirst, CommandOpenAccept, appVars
  <2>2. inbound' = inbound \/ inbound' = [inbound EXCEPT ![p] = Append(@, <<>>)]
    BY <1>12, Zenon DEF CommandOpenFirst, CommandOpenAccept, accept_channel
  <2>3. msg.type = "Open"
    BY Zenon DEF OpenMsg
  <2>4. write_queue' = [write_queue EXCEPT ![p] = Append(write_queue[p], msg)]
    BY <2>1, Zenon DEF EnqueueOpen
  <2> HIDE DEF msg
  <2>5. write_queue'[p] = Append(write_queue[p], msg) /\ write_queue'[o] = write_queue[o]
    BY <1>0, <2>4, Zenon DEF Shape
  <2>6. /\ inbound'[o] = inbound[o]
        /\ inbound'[p] = inbound[p] \/ inbound'[p] = Append(inbound[p], <<>>)
    BY <1>0, <2>2, Zenon DEF Shape
  <2>7. UNCHANGED <<SenderSide(o), wire[p], wire[o], outbound[p], task[p], left[p].send>>
    BY <2>1, <2>5, Zenon DEF SenderSide
  <2> QED
    BY <2>3, <2>5, <2>6, <2>7, Zenon DEF ReceiverChange, SenderChange, o
<1>13. CASE WriteFrame(p)
  <2>1. /\ UNCHANGED <<inbound, outbound, task, left>>
        /\ write_queue'[o] = write_queue[o]
    BY <1>0, <1>13, Zenon DEF WriteFrame, tableVars, appVars, Shape
  <2>2. wire'[p] = wire[p]
    BY <1>0, <1>13, Zenon DEF WriteFrame, Shape, o
  <2>3. UNCHANGED <<SenderSide(o), inbound[p], inbound[o]>>
    BY <2>1, Zenon DEF SenderSide
  <2> QED
    BY <1>13, <2>2, <2>3, Zenon DEF ReceiverChange, SenderChange, o
<1>14. ASSUME Popped(p), UNCHANGED <<inbound, wire, task, left>>,
              write_queue'[o] = write_queue[o],
              \/ UNCHANGED write_queue[p]
              \/ \E m \in Closes : write_queue'[p] = Append(write_queue[p], m)
              \/ /\ Head(outbound[p]) \in Seq(Datas)
                 /\ write_queue'[p] = write_queue[p] \o Head(outbound[p])
       PROVE  Change
  <2>1. /\ outbound[p] # <<>> /\ outbound'[p] = Tail(outbound[p])
        /\ outbound'[o] = outbound[o]
    BY <1>0, <1>14, Zenon DEF Popped, Shape
  <2>2. UNCHANGED <<SenderSide(o), inbound[p], inbound[o], wire[p], wire[o], task[p],
                    left[p].send>>
    BY <1>14, <2>1, Zenon DEF SenderSide
  <2> QED
    BY <1>14, <2>1, <2>2, Zenon DEF ReceiverChange, SenderChange, o
<1>15. CASE PopSignal(p) \/ PopEmpty(p)
  <2>1. Popped(p) /\ UNCHANGED <<inbound, wire, write_queue, task, left>>
    BY <1>15, Zenon DEF PopSignal, PopEmpty, PoppedType, tableVars, ioVars, appVars
  <2> QED
    BY <1>14, <2>1, Zenon
<1>16. CASE PopClose(p)
  <2> DEFINE msg == Head(Head(outbound[p]))
  <2>1. /\ Popped(p) /\ UNCHANGED <<inbound, wire, task, left>>
        /\ write_queue' = [write_queue EXCEPT ![p] = Append(@, msg)]
    BY <1>16, Zenon DEF PopClose, PoppedType, appVars
  <2>2. Head(outbound[p]) \in Single(Closes)
    BY <1>16, PoppedBatch, Zenon DEF PopClose
  <2>3. msg \in Closes
    BY <2>2 DEF Single
  <2> HIDE DEF msg
  <2>4. write_queue'[p] = Append(write_queue[p], msg) /\ write_queue'[o] = write_queue[o]
    BY <1>0, <2>1, Zenon DEF Shape
  <2> QED
    BY <1>14, <2>1, <2>3, <2>4, Zenon
<1>17. CASE PopData(p)
  <2>1. /\ Popped(p) /\ UNCHANGED <<inbound, wire, task, left>>
        /\ write_queue' = [write_queue EXCEPT ![p] = @ \o Head(outbound[p])]
    BY <1>17, Zenon DEF PopData, PoppedType, tableVars, appVars
  <2>2. Head(outbound[p]) \in Seq(Datas)
    BY <1>17, PoppedBatch, Zenon DEF PopData
  <2>3. /\ write_queue'[p] = write_queue[p] \o Head(outbound[p])
        /\ write_queue'[o] = write_queue[o]
    BY <1>0, <2>1, Zenon DEF Shape
  <2> QED
    BY <1>14, <2>1, <2>2, <2>3, Zenon
\* Channel methods
<1>18. ASSUME NEW t \in Tasks, BeginsBatch(p, t), UNCHANGED SenderSide(o),
              UNCHANGED <<inbound, wire, write_queue, outbound>>
       PROVE  Change
  BY <1>18, Zenon DEF ReceiverChange, SenderChange, o
<1>19. ASSUME NEW t \in Tasks, Finish(p, t)
       PROVE  Change
  <2> DEFINE w == IF task[p][t].op = "close" THEN Storing(task[p][t].flag) ELSE Idle
  <2>0. task[p][t] # Idle /\ w.batch = <<>>
    BY <1>19 DEF Finish, Idle, Storing
  <2>1. /\ UNCHANGED <<inbound, wire, write_queue, left>>
        /\ outbound' = [outbound EXCEPT ![p] = Append(@, task[p][t].batch)]
        /\ task' = [task EXCEPT ![p][t] = w]
    BY <1>19, Zenon DEF Finish, Sent, ioVars, tableVars
  <2> HIDE DEF w
  <2>2. /\ outbound'[p] = Append(outbound[p], task[p][t].batch)
        /\ task'[p] = [task[p] EXCEPT ![t] = w]
        /\ outbound'[o] = outbound[o] /\ task'[o] = task[o]
    BY <1>0, <2>1, Zenon DEF Shape
  <2>3. UNCHANGED <<SenderSide(o), inbound[p], inbound[o], wire[p], wire[o],
                    write_queue[p], left[p].send>>
    BY <2>1, <2>2, Zenon DEF SenderSide
  <2> QED
    BY <2>0, <2>2, <2>3, Zenon DEF ReceiverChange, SenderChange, o
<1>19a. ASSUME NEW t \in Tasks, StoreClosed(p, t)
       PROVE  Change
  <2>1. /\ UNCHANGED <<inbound, wire, write_queue, outbound, left>>
        /\ task' = [task EXCEPT ![p][t] = Idle]
    BY <1>19a, Zenon DEF StoreClosed, ioVars
  <2>2. task'[p] = [task[p] EXCEPT ![t] = Idle] /\ task'[o] = task[o]
    BY <1>0, <2>1, Zenon DEF Shape
  <2>3. left[p].send \in Int
    BY DEF AppOK, AppOps
  <2>4. left'[p].send \in Int /\ left'[p].send <= left[p].send
    BY ONLY <2>1, <2>3
  <2>5. Falling(Idle.batch) /\ DataIn(Idle.batch) = {}
    BY DEF Idle, Falling, DataIn
  <2>6. BeginsBatch(p, t)
    BY <2>2, <2>4, <2>5, Zenon DEF BeginsBatch
  <2>7. UNCHANGED SenderSide(o)
    BY <2>1, <2>2, Zenon DEF SenderSide
  <2> QED
    BY <1>18, <2>1, <2>6, <2>7, Zenon
<1>20. ASSUME NEW n \in 1..held[p], SendDirect(p, n)
       PROVE  Change
  <2>1. /\ n \in Cids(p) /\ SignalMsg(chans[p][n].local_id) \in Signals
        /\ "direct" \in AppOps /\ "direct" # "send"
    BY BatchTypes, Zenon DEF AppOps
  <2>2. /\ UNCHANGED <<wire, write_queue, outbound, task>> /\ Spend(p, "direct", 1)
        /\ inbound' = [inbound EXCEPT ![p][n] =
                           Append(@, SignalMsg(chans[p][n].local_id))]
    BY <1>20, Zenon DEF SendDirect, ioVars
  <2>3. Unsent
    BY <2>1, <2>2, UnsentStays, Zenon
  <2>4. UNCHANGED <<SenderSide(p), SenderSide(o), wire[p], wire[o]>>
    BY <1>0, <2>2, <2>3, Zenon DEF SenderSide
  <2>5. /\ inbound'[o] = inbound[o]
        /\ inbound'[p] = [inbound[p] EXCEPT ![n] =
                              Append(@, SignalMsg(chans[p][n].local_id))]
    BY <1>10, <2>1, <2>2, Zenon
  <2> QED
    BY <2>1, <2>4, <2>5, Zenon DEF ReceiverChange, SenderChange, o
<1>21. ASSUME NEW t \in Tasks, NEW n \in 1..held[p],
              \/ \E size \in 1..MaxBatch : BeginSend(p, t, n, size)
              \/ BeginEmpty(p, t, n) \/ BeginSignal(p, t, n) \/ BeginClose(p, t, n)
       PROVE  Change
  BY <1>18, <1>21, BeginsStep, Zenon DEF o
<1>22. CASE App(p)
  BY <1>2, <1>3, <1>19, <1>20, <1>21, <1>22, <1>19a, Zenon DEF App
<1>23. CASE PollEntry(p) \/ InboundRead(p)
  BY <1>2, <1>4, <1>6, <1>8, <1>9, <1>11, <1>23, Zenon DEF PollEntry, InboundRead
<1>24. CASE Commands(p) \/ OutboundWrite(p)
  BY <1>2, <1>12, <1>13, <1>15, <1>16, <1>17, <1>24, Zenon DEF Commands, OutboundWrite
<1> QED
  BY <1>22, <1>23, <1>24, Zenon DEF PollNext

-----------------------------------------------------------------------------
(***************************************************************************)
(* Closes.                                                                 *)
(***************************************************************************)
\* Nothing but a signal is appended to a queue that has received a Close.
LEMMA AppendClose ==
    ASSUME NEW S, NEW s \in Seq(S), NEW x \in S, CloseIsLast(s),
           x.type = "LocalSignal" \/ ~HasClose(s)
    PROVE  /\ CloseIsLast(Append(s, x))
           /\ HasClose(Append(s, x)) => HasClose(s) \/ x.type = "Close"
<1> DEFINE u == Append(s, x)
<1>1. /\ Len(u) = Len(s) + 1 /\ Len(s) \in Nat /\ u[Len(u)] = x
      /\ \A i \in 1..Len(u) : i = Len(u) \/ (i \in 1..Len(s) /\ u[i] = s[i])
  OBVIOUS
<1> HIDE DEF u
<1>2. ASSUME NEW i \in 1..Len(u), u[i].type = "Close", NEW j \in (i + 1)..Len(u)
      PROVE  u[j].type = "LocalSignal"
  <2>1. i \in 1..Len(s) /\ u[i] = s[i] /\ j \in 1..Len(u)
    BY <1>1, <1>2
  <2>2. x.type = "LocalSignal"
    BY <1>2, <2>1, Zenon DEF HasClose
  <2>3. j \in 1..Len(s) => j \in (i + 1)..Len(s)
    BY <1>1, <1>2
  <2> QED
    BY <1>1, <1>2, <2>1, <2>2, <2>3, Zenon DEF CloseIsLast
<1>3. HasClose(u) => HasClose(s) \/ x.type = "Close"
  BY <1>1, Zenon DEF HasClose
<1> QED
  BY <1>2, <1>3, Zenon DEF CloseIsLast, u

\* A handle has the queue of a Channel only if it had it before, or the Channel
\* is new.
KeepQueues(p) ==
    \A n \in Cids(p) : \A d \in DOMAIN cm'[p].channels :
        cm'[p].channels[d].inbound_tx = n =>
            d \in DOMAIN cm[p].channels /\ cm[p].channels[d].inbound_tx = n

\* No other handle has the queue of the one that a Close removes.
LEMMA QueueIsFreed ==
    ASSUME TablesOK, NEW p \in Peers, NEW n \in Cids(p), NEW dk \in DOMAIN cm[p].channels,
           cm[p].channels[dk].inbound_tx = n,
           NEW d \in DOMAIN remove(cm[p], dk).channels
    PROVE  remove(cm[p], dk).channels[d].inbound_tx # n
<1> DEFINE m == cm[p]
           hs == chans[p]
<1>1. /\ DOMAIN remove(m, dk).channels = DOMAIN m.channels \ {dk}
      /\ d \in DOMAIN m.channels \ {dk} => remove(m, dk).channels[d] = m.channels[d]
  BY Zenon DEF remove, has_channel
<1>2. QueuesOwned(m, hs)
  BY Zenon DEF TablesOK, TableInv
<1>3. n # None
  BY NoneAssumption DEF Cids
<1> HIDE DEF m, hs
<1>4. \A e \in DOMAIN m.channels : m.channels[e].inbound_tx = n => hs[n].discovery_key = e
  BY ONLY <1>2, <1>3, Zenon DEF QueuesOwned
<1>5. m.channels[dk].inbound_tx = n /\ dk \in DOMAIN m.channels
  BY Zenon DEF m
<1>6. d \in DOMAIN m.channels /\ d # dk
  BY <1>1, Zenon DEF m
<1>7. m.channels[d].inbound_tx # n
  BY ONLY <1>4, <1>5, <1>6, Zenon
<1> QED
  BY <1>1, <1>6, <1>7, Zenon DEF m

\* A queue gets its Close from the handle that is removed with it, and so nothing
\* of the remote's after it: on_close.
LEMMA ClosesStep ==
    ASSUME TablesOK, IoOK, HandshakeOK, InboundOK, NEW p \in Peers, ClosesLast(p),
           KeepQueues(p), Len(inbound'[p]) = Len(chans'[p]), ReceiverChange(p)
    PROVE  ClosesLast(p)'
<1> DEFINE Kept(n) ==
       /\ CloseIsLast(inbound'[p][n])
       /\ HasClose(inbound'[p][n]) =>
             \A dk \in DOMAIN cm'[p].channels : cm'[p].channels[dk].inbound_tx # n
           S == ToChannels \cup Messages
<1>0. /\ Len(inbound[p]) = Len(chans[p]) /\ inbound[p] \in Seq(Seq(S))
      /\ Cids(p)' = 1..Len(inbound'[p]) /\ Cids(p) = 1..Len(inbound[p])
  BY WayTypes, Zenon DEF Cids
<1> SUFFICES ASSUME NEW n \in Cids(p)' PROVE Kept(n)
  BY Zenon DEF ClosesLast
<1>1. ASSUME n \in Cids(p), HasClose(inbound[p][n])
      PROVE  \A dk \in DOMAIN cm'[p].channels : cm'[p].channels[dk].inbound_tx # n
  BY <1>1, Zenon DEF ClosesLast, KeepQueues
<1>2. ASSUME n \in Cids(p), inbound'[p][n] = inbound[p][n]
      PROVE  Kept(n)
  BY <1>1, <1>2, Zenon DEF ClosesLast
<1>3. CASE UNCHANGED inbound[p]
  BY <1>0, <1>2, <1>3, Zenon
<1>4. CASE inbound'[p] = Append(inbound[p], <<>>)
  <2>1. \/ n \in Cids(p) /\ inbound'[p][n] = inbound[p][n]
        \/ inbound'[p][n] = <<>>
    BY <1>0, <1>4
  <2>2. CloseIsLast(<<>>) /\ ~HasClose(<<>>)
    BY DEF CloseIsLast, HasClose
  <2> QED
    BY <1>2, <2>1, <2>2, Zenon
<1>5. ASSUME NEW k \in Cids(p), NEW x \in S,
             inbound'[p] = [inbound[p] EXCEPT ![k] = Append(@, x)],
             x.type = "LocalSignal" \/ ~HasClose(inbound[p][k]),
             x.type = "Close" =>
                 \A dk \in DOMAIN cm'[p].channels : cm'[p].channels[dk].inbound_tx # k
      PROVE  Kept(n)
  <2>1. /\ n \in Cids(p) /\ inbound[p][k] \in Seq(S)
        /\ inbound'[p][k] = Append(inbound[p][k], x)
        /\ n # k => inbound'[p][n] = inbound[p][n]
    BY ONLY <1>0, <1>5, SMTT(30)
  <2>2. CASE n = k
    <3>1. CloseIsLast(inbound[p][k])
      BY <1>5, Zenon DEF ClosesLast
    <3> HIDE DEF S
    <3>2. /\ CloseIsLast(Append(inbound[p][k], x))
          /\ HasClose(Append(inbound[p][k], x)) =>
                HasClose(inbound[p][k]) \/ x.type = "Close"
      BY ONLY <1>5, <2>1, <3>1, AppendClose, SMTT(30)
    <3> QED
      BY <1>1, <1>5, <2>1, <2>2, <3>2, Zenon
  <2> QED
    BY <1>2, <2>1, <2>2, Zenon
<1>6. ASSUME NEW k \in Cids(p), IsFor(p, k), HasMessage(p),
             inbound'[p] = [inbound[p] EXCEPT ![k] = Append(@, Message(p))]
      PROVE  Kept(n)
  <2>1. PICK dk \in DOMAIN cm[p].channels :
            /\ cm[p].channels[dk].inbound_tx = k
            /\ Message(p).type = "Close" => cm'[p] = remove(cm[p], dk)
    BY <1>6, Zenon DEF IsFor
  <2>2. ~HasClose(inbound[p][k])
    BY <1>6, <2>1, Zenon DEF ClosesLast
  <2>3. ASSUME Message(p).type = "Close", NEW e \in DOMAIN cm'[p].channels
        PROVE  cm'[p].channels[e].inbound_tx # k
    <3>1. cm'[p] = remove(cm[p], dk) /\ cm[p].channels[dk].inbound_tx = k
      BY <2>1, <2>3, Zenon
    <3>2. \A d \in DOMAIN remove(cm[p], dk).channels :
              remove(cm[p], dk).channels[d].inbound_tx # k
      BY <1>6, <3>1, QueueIsFreed, ZenonT(30)
    <3> QED
      BY <2>3, <3>1, <3>2, Zenon
  <2>4. Message(p) \in S
    BY <1>6, MessageAtHand, Zenon
  <2> QED
    BY <1>5, <1>6, <2>2, <2>3, <2>4, Zenon
<1>7. ASSUME NEW k \in Cids(p), NEW x \in Signals,
             inbound'[p] = [inbound[p] EXCEPT ![k] = Append(@, x)]
      PROVE  Kept(n)
  <2>1. x \in S /\ x.type = "LocalSignal" /\ "LocalSignal" # "Close"
    BY Zenon DEF ToChannels, Signals
  <2> QED
    BY <1>5, <1>7, <2>1, Zenon
<1> QED
  BY <1>3, <1>4, <1>6, <1>7, Zenon DEF ReceiverChange
=============================================================================
