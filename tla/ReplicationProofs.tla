------------------------- MODULE ReplicationProofs -------------------------
(***************************************************************************)
(* The safety of the replicator, for a log of any length, any clients, any *)
(* writer and any number of connections that break.                        *)
(***************************************************************************)
EXTENDS Replication, TLAPS

(***************************************************************************)
(* The invariant.  A process holds the first blocks of the log, and the    *)
(* log reaches a client only through the server.                           *)
(***************************************************************************)
Prefix(c) == \E k \in 0..N : c.blocks = 0..(k - 1) /\ k <= c.length

CoresOK ==
    /\ core[writer] = FullCore
    /\ \A p \in Processes : Prefix(core[p])
    /\ \A c \in Clients : c # writer => core[c].length <= core[Server].length

\* A task believes of the other hypercore what that one has said.
RemoteLengthsOK ==
    \A e \in Ends : /\ peer_state[e].remote_length \in {0, N}
                    /\ peer_state[e].remote_length <= core[e[2]].length

(***************************************************************************)
(* m is a request of e or the answer to it: one end of each process asks,  *)
(* and nothing it asks for has changed since.                              *)
(***************************************************************************)
Asker(e) == e[1] # writer /\ (e[1] = Server => e[2] = writer)
Wanted(e, m) ==
    /\ Asker(e)
    /\ core[e[2]].length = N /\ peer_state[e].remote_length = N
    /\ IF m.upgrade
       THEN m.start = 0 /\ m.length = N /\ core[e[1]].length = 0
       ELSE core[e[1]].length = N /\ core[e[1]].blocks = 0..(m.index - 1)

\* What may be on its way from e
MessageOK(e, m) ==
    /\ m.type = "Synchronize" =>
          /\ m.length \in {0, N} /\ m.length <= core[e[1]].length
          /\ peer_state[Far(e)].remote_length <= m.length
    /\ m.type = "Request" => Wanted(e, m)
    /\ m.type = "Data" => Wanted(Far(e), m)

MessagesOK == \A e \in Ends : \A m \in Elements(OnItsWay(e)) : MessageOK(e, m)

\* The lengths a task announces do not decrease.
Rising(q) ==
    \A i, j \in Places(q, "Synchronize") : i < j => q[i].length <= q[j].length

\* One request among the questions or one answer among the answers, at most
AtMostOne(S) == \A x, y \in S : x = y
Single(questions, answers) ==
    /\ AtMostOne(Places(questions, "Request"))
    /\ AtMostOne(Places(answers, "Data"))
    /\ Places(questions, "Request") = {} \/ Places(answers, "Data") = {}

FlowOK == \A e \in Ends : Rising(OnItsWay(e)) /\ Single(OnItsWay(e), OnItsWay(Far(e)))

IInv == TypeOK /\ CoresOK /\ RemoteLengthsOK /\ MessagesOK /\ FlowOK

\* A length that is told is the whole log's, and it is told to who has none.
LEMMA TwoLengths ==
    ASSUME NEW n \in Nat \ {0}, NEW a \in {0, n}, NEW b \in {0, n},
           NEW c \in {0, n}, NEW d \in {0, n}, c <= b, c > a, c # d
    PROVE  a = 0 /\ c = n /\ b = n /\ d = 0
OBVIOUS

\* The first i blocks and the next one are the first i + 1.
LEMMA OneMoreBlock ==
    ASSUME NEW n \in Nat \ {0}, NEW i \in 0..(n - 1)
    PROVE  /\ 0..(i - 1) \cup {i} = 0..i /\ 0..i \subseteq 0..(n - 1)
           /\ i + 1 \in 0..n /\ (i + 1) - 1 = i /\ i + 1 <= n
OBVIOUS

-----------------------------------------------------------------------------
(***************************************************************************)
(* The ends of connections.                                                *)
(***************************************************************************)
LEMMA EndFacts ==
    ASSUME NEW e \in Ends
    PROVE  /\ Far(e) \in Ends /\ Far(Far(e)) = e /\ Far(e) # e
           /\ Far(e)[1] = e[2] /\ Far(e)[2] = e[1] /\ e[1] # e[2]
           /\ e[1] \in Processes /\ e[2] \in Processes
           /\ Client(e) \in Clients /\ Client(Far(e)) = Client(e)
           /\ \/ e[1] = Server /\ e[2] \in Clients
              \/ e[2] = Server /\ e[1] \in Clients
  BY ReplicationAssumption DEF Ends, Far, Client, Processes

\* A process asks at one end of its connections, and is not asked there.
LEMMA OneAsker ==
    ASSUME NEW e \in Ends, Asker(e)
    PROVE  /\ ~Asker(Far(e))
           /\ \A f \in Ends : Asker(f) /\ f[1] = e[1] => f = e
  BY ReplicationAssumption DEF Ends, Far, Asker

-----------------------------------------------------------------------------
(***************************************************************************)
(* What is on its way is read from the front, sent at the end, and lost in *)
(* any part when the connection breaks: some of it stays, in its order.    *)
(***************************************************************************)
Thinned(s, t) ==
    \E f \in [1..Len(t) -> 1..Len(s)] :
        /\ \A i \in 1..Len(t) : t[i] = s[f[i]]
        /\ \A i, j \in 1..Len(t) : i < j => f[i] < f[j]

\* Nothing is lost.
LEMMA ThinnedSelf == ASSUME NEW s \in Seq(Messages) PROVE Thinned(s, s)
<1> DEFINE f == [i \in 1..Len(s) |-> i]
<1>1. f \in [1..Len(s) -> 1..Len(s)] /\ \A i \in 1..Len(s) : f[i] = i
  BY Zenon
<1> HIDE DEF f
<1> QED
  BY <1>1, Zenon DEF Thinned

\* The first message is read.
LEMMA ThinnedTail ==
    ASSUME NEW s \in Seq(Messages), s # <<>>
    PROVE  Thinned(s, Tail(s))
<1> DEFINE f == [i \in 1..Len(Tail(s)) |-> i + 1]
<1>1. Len(Tail(s)) = Len(s) - 1 /\ \A i \in 1..Len(Tail(s)) : Tail(s)[i] = s[i + 1]
  OBVIOUS
<1>2. /\ f \in [1..Len(Tail(s)) -> 1..Len(s)]
      /\ \A i \in 1..Len(Tail(s)) : f[i] = i + 1
  BY <1>1
<1> HIDE DEF f
<1> QED
  BY <1>1, <1>2 DEF Thinned

\* Everything is lost.
LEMMA ThinnedEmpty == ASSUME NEW s \in Seq(Messages) PROVE Thinned(s, <<>>)
<1> DEFINE f == [i \in {} |-> i]
<1>1. f \in [1..Len(<<>>) -> 1..Len(s)] /\ 1..Len(<<>>) = {}
  OBVIOUS
<1> HIDE DEF f
<1> QED
  BY <1>1, Zenon DEF Thinned

\* The end of the first part is lost.
LEMMA ThinnedCut ==
    ASSUME NEW s \in Seq(Messages), NEW u \in Seq(Messages), NEW n \in 0..Len(s)
    PROVE  Thinned(s \o u, SubSeq(s, 1, n) \o u)
<1> DEFINE t == SubSeq(s, 1, n) \o u
           f == [i \in 1..Len(t) |-> IF i <= n THEN i ELSE i - n + Len(s)]
<1>1. /\ Len(t) = n + Len(u) /\ Len(s \o u) = Len(s) + Len(u)
      /\ Len(s) \in Nat /\ Len(u) \in Nat /\ n \in Nat /\ n <= Len(s)
  OBVIOUS
<1>2. /\ f \in [1..Len(t) -> 1..Len(s \o u)]
      /\ \A i \in 1..Len(t) : f[i] = IF i <= n THEN i ELSE i - n + Len(s)
  BY <1>1
<1>3. \A i \in 1..Len(t) : t[i] = (s \o u)[f[i]]
  BY <1>1, <1>2
<1>4. \A i, j \in 1..Len(t) : i < j => f[i] < f[j]
  BY <1>1, <1>2
<1> HIDE DEF f, t
<1>5. Thinned(s \o u, t)
  BY <1>2, <1>3, <1>4, Zenon DEF Thinned
<1> QED
  BY <1>5, Zenon DEF t

\* The batch that was to be sent is lost.
LEMMA ThinnedFront ==
    ASSUME NEW s \in Seq(Messages), NEW u \in Seq(Messages)
    PROVE  Thinned(s \o u, s)
<1> DEFINE f == [i \in 1..Len(s) |-> i]
<1>1. Len(s \o u) = Len(s) + Len(u) /\ Len(s) \in Nat /\ Len(u) \in Nat
  OBVIOUS
<1>2. f \in [1..Len(s) -> 1..Len(s \o u)] /\ \A i \in 1..Len(s) : f[i] = i
  BY <1>1
<1>3. \A i \in 1..Len(s) : s[i] = (s \o u)[i]
  OBVIOUS
<1> HIDE DEF f
<1> QED
  BY <1>2, <1>3, SMTT(30) DEF Thinned

\* What stays was there before.
LEMMA ThinnedElements ==
    ASSUME NEW s, NEW t, Thinned(s, t)
    PROVE  Elements(t) \subseteq Elements(s)
  BY DEF Thinned, Elements

\* The lengths announced among what stays still rise.
LEMMA ThinnedRising ==
    ASSUME NEW s \in Seq(Messages), NEW t, Thinned(s, t), Rising(s)
    PROVE  Rising(t)
<1>1. PICK f \in [1..Len(t) -> 1..Len(s)] :
          /\ \A i \in 1..Len(t) : t[i] = s[f[i]]
          /\ \A i, j \in 1..Len(t) : i < j => f[i] < f[j]
  BY Zenon DEF Thinned
<1> SUFFICES ASSUME NEW i \in Places(t, "Synchronize"), NEW j \in Places(t, "Synchronize"),
                    i < j
             PROVE  t[i].length <= t[j].length
  BY Zenon DEF Rising
<1>2. /\ f[i] \in Places(s, "Synchronize") /\ f[j] \in Places(s, "Synchronize")
      /\ f[i] < f[j] /\ t[i] = s[f[i]] /\ t[j] = s[f[j]]
  BY <1>1, Zenon DEF Places
<1> QED
  BY <1>2, Zenon DEF Rising

\* At most one message of a type stays if there was at most one.
LEMMA ThinnedOne ==
    ASSUME NEW s \in Seq(Messages), NEW t \in Seq(Messages), Thinned(s, t), NEW type
    PROVE  /\ AtMostOne(Places(s, type)) => AtMostOne(Places(t, type))
           /\ Places(s, type) = {} => Places(t, type) = {}
<1>1. PICK f \in [1..Len(t) -> 1..Len(s)] :
          /\ \A i \in 1..Len(t) : t[i] = s[f[i]]
          /\ \A i, j \in 1..Len(t) : i < j => f[i] < f[j]
  BY Zenon DEF Thinned
<1>2. \A i \in Places(t, type) : f[i] \in Places(s, type)
  BY <1>1, Zenon DEF Places
<1>3. \A i, j \in Places(t, type) : i # j => f[i] # f[j]
  <2> SUFFICES ASSUME NEW i \in 1..Len(t), NEW j \in 1..Len(t), i # j
               PROVE  f[i] # f[j]
    BY Zenon DEF Places
  <2>1. i < j \/ j < i
    OBVIOUS
  <2> QED
    BY <1>1, <2>1
<1> QED
  BY <1>2, <1>3, Zenon DEF AtMostOne

\* At most one request or answer stays if there was at most one.
LEMMA ThinnedSingle ==
    ASSUME NEW q \in Seq(Messages), NEW q2 \in Seq(Messages), Thinned(q, q2),
           NEW a \in Seq(Messages), NEW a2 \in Seq(Messages), Thinned(a, a2),
           Single(q, a)
    PROVE  Single(q2, a2)
  BY ThinnedOne DEF Single

-----------------------------------------------------------------------------
(***************************************************************************)
(* What is sent comes after what is on its way.                            *)
(***************************************************************************)
LEMMA SentElements ==
    ASSUME NEW q \in Seq(Messages), NEW r \in Seq(Messages)
    PROVE  Elements(q \o r) = Elements(q) \cup Elements(r)
<1>1. /\ Len(q \o r) = Len(q) + Len(r) /\ Len(q) \in Nat /\ Len(r) \in Nat
      /\ \A i \in 1..Len(q) : (q \o r)[i] = q[i]
      /\ \A i \in 1..Len(r) : (q \o r)[Len(q) + i] = r[i]
  OBVIOUS
<1>2. \A i \in 1..Len(q \o r) : i \in 1..Len(q) \/ i - Len(q) \in 1..Len(r)
  BY <1>1
<1>3. \A i \in 1..Len(q \o r) : (q \o r)[i] \in Elements(q) \cup Elements(r)
  <2> TAKE i \in 1..Len(q \o r)
  <2>1. CASE i \in 1..Len(q)
    BY <1>1, <2>1, Zenon DEF Elements
  <2>2. CASE i - Len(q) \in 1..Len(r)
    <3>1. i = Len(q) + (i - Len(q))
      BY <1>1
    <3> QED
      BY <1>1, <2>2, <3>1, Zenon DEF Elements
  <2> QED
    BY <1>2, <2>1, <2>2, Zenon
<1>4. \A i \in 1..Len(q) : i \in 1..Len(q \o r)
  BY <1>1
<1>5. \A i \in 1..Len(r) : Len(q) + i \in 1..Len(q \o r)
  BY <1>1
<1>6. Elements(q \o r) \subseteq Elements(q) \cup Elements(r)
  BY <1>3, Zenon DEF Elements
<1>7. Elements(q) \subseteq Elements(q \o r)
  BY <1>1, <1>4, Zenon DEF Elements
<1>8. Elements(r) \subseteq Elements(q \o r)
  BY <1>1, <1>5, Zenon DEF Elements
<1> QED
  BY <1>6, <1>7, <1>8, Zenon

\* What is sent comes after what is there: the first one stays the first.
LEMMA SentTail ==
    ASSUME NEW q \in Seq(Messages), NEW r \in Seq(Messages), q # <<>>
    PROVE  /\ q \o r # <<>> /\ Head(q \o r) = Head(q)
           /\ Tail(q \o r) = Tail(q) \o r
<1>1. /\ q \o r \in Seq(Messages) /\ Len(q \o r) = Len(q) + Len(r)
      /\ Len(q) \in Nat \ {0} /\ Len(r) \in Nat
      /\ \A i \in 1..Len(q) : (q \o r)[i] = q[i]
  OBVIOUS
<1>2. q \o r # <<>> /\ Head(q \o r) = Head(q)
  BY <1>1
<1> DEFINE s == Tail(q \o r)
           t == Tail(q) \o r
<1>3. s \in Seq(Messages) /\ t \in Seq(Messages) /\ Len(s) = Len(t)
  BY <1>1
<1>4. \A i \in 1..Len(s) : s[i] = t[i]
  BY <1>1
<1>5. s = t
  <2> HIDE DEF s, t
  <2> QED
    BY <1>3, <1>4
<1> QED
  BY <1>2, <1>5, Zenon

\* A batch without messages of a type adds none, and one of them is the only
\* one when there was none.
LEMMA SentPlaces ==
    ASSUME NEW q \in Seq(Messages), NEW r \in Seq(Messages), NEW type
    PROVE  /\ Places(r, type) = {} => Places(q \o r, type) = Places(q, type)
           /\ Places(q, type) = {} /\ AtMostOne(Places(r, type))
                 => AtMostOne(Places(q \o r, type))
<1>1. /\ Len(q \o r) = Len(q) + Len(r) /\ Len(q) \in Nat /\ Len(r) \in Nat
      /\ \A i \in 1..Len(q) : (q \o r)[i] = q[i]
      /\ \A i \in 1..Len(q \o r) : i \notin 1..Len(q) =>
            i - Len(q) \in 1..Len(r) /\ (q \o r)[i] = r[i - Len(q)]
  OBVIOUS
<1>2. \A i \in Places(q \o r, type) : \/ i \in Places(q, type)
                                      \/ i - Len(q) \in Places(r, type)
  BY <1>1, Zenon DEF Places
<1>3. Places(q, type) \subseteq Places(q \o r, type)
  BY <1>1 DEF Places
<1>4. ASSUME Places(q, type) = {}, AtMostOne(Places(r, type)),
             NEW i \in Places(q \o r, type), NEW j \in Places(q \o r, type)
      PROVE  i = j
  <2>1. i - Len(q) = j - Len(q)
    BY <1>2, <1>4, Zenon DEF AtMostOne
  <2>2. i \in Int /\ j \in Int
    BY DEF Places
  <2> QED
    BY <1>1, <2>1, <2>2
<1> QED
  BY <1>2, <1>3, <1>4, Zenon DEF AtMostOne

\* A batch whose lengths are no smaller keeps the lengths rising.
LEMMA SentRising ==
    ASSUME NEW q \in Seq(Messages), NEW r \in Seq(Messages), Rising(q), Rising(r),
           \A m \in Elements(q), n \in Elements(r) :
               m.type = "Synchronize" /\ n.type = "Synchronize" => m.length <= n.length
    PROVE  Rising(q \o r)
<1>1. /\ Len(q \o r) = Len(q) + Len(r) /\ Len(q) \in Nat /\ Len(r) \in Nat
      /\ \A i \in 1..Len(q) : (q \o r)[i] = q[i]
      /\ \A i \in 1..Len(q \o r) : i \notin 1..Len(q) =>
            i - Len(q) \in 1..Len(r) /\ (q \o r)[i] = r[i - Len(q)]
  OBVIOUS
<1> SUFFICES ASSUME NEW i \in Places(q \o r, "Synchronize"),
                    NEW j \in Places(q \o r, "Synchronize"), i < j
             PROVE  (q \o r)[i].length <= (q \o r)[j].length
  BY Zenon DEF Rising
<1>2. i \in 1..Len(q \o r) /\ j \in 1..Len(q \o r)
  BY Zenon DEF Places
<1>3. CASE i \in 1..Len(q) /\ j \in 1..Len(q)
  <2>1. i \in Places(q, "Synchronize") /\ j \in Places(q, "Synchronize")
    BY <1>1, <1>3, Zenon DEF Places
  <2> QED
    BY <1>1, <1>3, <2>1, Zenon DEF Rising
<1>4. CASE i \in 1..Len(q) /\ j \notin 1..Len(q)
  <2>1. /\ q[i] \in Elements(q) /\ r[j - Len(q)] \in Elements(r)
        /\ (q \o r)[i] = q[i] /\ (q \o r)[j] = r[j - Len(q)]
        /\ (q \o r)[i].type = "Synchronize" /\ (q \o r)[j].type = "Synchronize"
    BY <1>1, <1>2, <1>4, Zenon DEF Elements, Places
  <2> QED
    BY <2>1, Zenon
<1>5. CASE i \notin 1..Len(q)
  <2>1. j \notin 1..Len(q) /\ i - Len(q) < j - Len(q)
    BY <1>1, <1>2, <1>5
  <2>2. i - Len(q) \in Places(r, "Synchronize") /\ j - Len(q) \in Places(r, "Synchronize")
    BY <1>1, <1>2, <1>5, <2>1, Zenon DEF Places
  <2> QED
    BY <1>1, <1>2, <1>5, <2>1, <2>2, Zenon DEF Rising
<1> QED
  BY <1>3, <1>4, <1>5, Zenon

\* The message that is read was the only one of its type.
LEMMA HeadWasOnly ==
    ASSUME NEW q \in Seq(Messages), q # <<>>, NEW type, Head(q).type = type,
           AtMostOne(Places(q, type))
    PROVE  Places(q, type) # {} /\ Places(Tail(q), type) = {}
<1>1. 1 \in Places(q, type)
  BY DEF Places
<1>2. ASSUME NEW i \in Places(Tail(q), type)
      PROVE  i + 1 \in Places(q, type) /\ i + 1 # 1
  BY DEF Places
<1> QED
  BY <1>1, <1>2, Zenon DEF AtMostOne

\* There is no place of a type if and only if there is no message of it.
LEMMA NoPlaces ==
    ASSUME NEW q, NEW type
    PROVE  Places(q, type) = {} <=> \A m \in Elements(q) : m.type # type
  BY DEF Places, Elements

-----------------------------------------------------------------------------
(***************************************************************************)
(* What a step does to what is on its way.                                 *)
(***************************************************************************)
LEMMA WayType ==
    /\ TypeOK => \A e \in Ends : /\ OnItsWay(e) \in Seq(Messages)
                                 /\ Elements(OnItsWay(e)) \subseteq Messages
    /\ TypeOK' => \A e \in Ends : OnItsWay(e)' \in Seq(Messages)
<1>1. \A s \in Seq(Messages), o \in {None} \cup Seq(Messages) :
          s \o (IF o = None THEN <<>> ELSE o) \in Seq(Messages)
  OBVIOUS
<1>2. \A s \in Seq(Messages) : Elements(s) \subseteq Messages
  BY DEF Elements
<1>3. TypeOK => \A e \in Ends : OnItsWay(e) \in Seq(Messages)
  BY <1>1, EndFacts, Zenon DEF TypeOK, OnItsWay
<1>4. TypeOK' => \A e \in Ends : OnItsWay(e)' \in Seq(Messages)
  BY <1>1, EndFacts, Zenon DEF TypeOK, OnItsWay
<1> QED
  BY <1>2, <1>3, <1>4, Zenon

\* Nothing is sent.
LEMMA ThinStep ==
    ASSUME TypeOK, MessagesOK, FlowOK, TypeOK',
           \A f \in Ends : Thinned(OnItsWay(f), OnItsWay(f)'),
           \A f \in Ends : \A m \in Elements(OnItsWay(f)') :
               MessageOK(f, m) => MessageOK(f, m)'
    PROVE  MessagesOK' /\ FlowOK'
<1>1. MessagesOK'
  BY ThinnedElements, Zenon DEF MessagesOK
<1>2. ASSUME NEW e \in Ends
      PROVE  Rising(OnItsWay(e)') /\ Single(OnItsWay(e)', OnItsWay(Far(e))')
  <2>1. /\ OnItsWay(e) \in Seq(Messages) /\ OnItsWay(e)' \in Seq(Messages)
        /\ OnItsWay(Far(e)) \in Seq(Messages) /\ OnItsWay(Far(e))' \in Seq(Messages)
        /\ Thinned(OnItsWay(e), OnItsWay(e)')
        /\ Thinned(OnItsWay(Far(e)), OnItsWay(Far(e))')
    BY WayType, EndFacts, Zenon
  <2>2. Rising(OnItsWay(e)')
    BY <2>1, ThinnedRising, Zenon DEF FlowOK
  <2>3. Single(OnItsWay(e)', OnItsWay(Far(e))')
    BY <2>1, ThinnedSingle, Zenon DEF FlowOK
  <2> QED
    BY <2>2, <2>3, Zenon
<1>3. FlowOK'
  BY <1>2, Zenon DEF FlowOK
<1> QED
  BY <1>1, <1>3, Zenon

\* The task at e sends r; a request comes when none is outstanding, and an
\* answer when the request for it is gone.
LEMMA ReplyStep ==
    ASSUME TypeOK, MessagesOK, FlowOK, TypeOK', NEW e \in Ends,
           \A f \in Ends : f # e => Thinned(OnItsWay(f), OnItsWay(f)'),
           NEW u \in Seq(Messages), Thinned(OnItsWay(e), u),
           NEW r \in Seq(Messages), OnItsWay(e)' = u \o r,
           Rising(r),
           \A n \in Elements(r) : n.type = "Synchronize" => core[e[1]].length <= n.length,
           \/ Places(r, "Request") = {}
           \/ /\ AtMostOne(Places(r, "Request")) /\ Places(OnItsWay(e), "Request") = {}
              /\ Places(OnItsWay(Far(e))', "Data") = {},
           \/ Places(r, "Data") = {}
           \/ /\ AtMostOne(Places(r, "Data")) /\ Places(OnItsWay(e), "Data") = {}
              /\ Places(OnItsWay(Far(e))', "Request") = {},
           \A f \in Ends : \A m \in Elements(OnItsWay(f)) :
               m \in Elements(OnItsWay(f)') /\ MessageOK(f, m) => MessageOK(f, m)',
           \A m \in Elements(r) : MessageOK(e, m)'
    PROVE  MessagesOK' /\ FlowOK'
<1> DEFINE a == OnItsWay(Far(e))
<1>1. /\ Far(e) \in Ends /\ Far(e) # e /\ Far(Far(e)) = e
      /\ OnItsWay(e) \in Seq(Messages) /\ a \in Seq(Messages) /\ a' \in Seq(Messages)
      /\ Thinned(a, a') /\ Single(OnItsWay(e), a) /\ Single(a, OnItsWay(e))
  BY WayType, EndFacts, Zenon DEF FlowOK
<1>2. MessagesOK'
  <2> SUFFICES ASSUME NEW f \in Ends, NEW m \in Elements(OnItsWay(f)')
               PROVE  MessageOK(f, m)'
    BY Zenon DEF MessagesOK
  <2>1. CASE f # e
    BY <2>1, ThinnedElements, Zenon DEF MessagesOK
  <2>2. CASE f = e /\ m \in Elements(u)
    BY <2>2, ThinnedElements, Zenon DEF MessagesOK
  <2>3. CASE f = e /\ m \in Elements(r)
    BY <2>3, Zenon
  <2>4. Elements(OnItsWay(e)') = Elements(u) \cup Elements(r)
    BY SentElements, Zenon
  <2> QED
    BY <2>1, <2>2, <2>3, <2>4, Zenon
<1>3. Rising(OnItsWay(e)')
  <2>1. Rising(u)
    BY <1>1, ThinnedRising, Zenon DEF FlowOK
  <2>2. ASSUME NEW m \in Elements(u), NEW n \in Elements(r),
               m.type = "Synchronize", n.type = "Synchronize"
        PROVE  m.length <= n.length
    <3>1. m \in Elements(OnItsWay(e))
      BY ThinnedElements, Zenon
    <3>2. m.length <= core[e[1]].length /\ core[e[1]].length <= n.length
      BY <2>2, <3>1, Zenon DEF MessagesOK, MessageOK
    <3>3. m.length \in {0, N} /\ core[e[1]].length \in Int /\ n.length \in Int
      <4>1. m.length \in {0, N}
        BY <2>2, <3>1, Zenon DEF MessagesOK, MessageOK
      <4>2. n \in Messages
        BY DEF Elements
      <4>3. n.length \in 0..N
        BY <2>2, <4>2, Zenon DEF Messages
      <4> QED
        BY <4>1, <4>3, EndFacts, ReplicationAssumption DEF TypeOK
    <3> QED
      BY <3>2, <3>3, ReplicationAssumption
  <2> QED
    BY <2>1, <2>2, SentRising, Zenon
<1>4. Single(u, a') /\ Single(a', u)
  BY <1>1, ThinnedSingle, Zenon
<1>5. Single(OnItsWay(e)', a')
  <2>1. CASE Places(r, "Request") = {}
    <3>1. Places(OnItsWay(e)', "Request") = Places(u, "Request")
      BY <2>1, SentPlaces
    <3> QED
      BY <1>4, <3>1, Zenon DEF Single
  <2>2. CASE /\ AtMostOne(Places(r, "Request")) /\ Places(OnItsWay(e), "Request") = {}
             /\ Places(a', "Data") = {}
    <3>1. Places(u, "Request") = {}
      BY <1>1, <2>2, ThinnedOne, Zenon
    <3>2. AtMostOne(Places(OnItsWay(e)', "Request"))
      BY <2>2, <3>1, SentPlaces, Zenon
    <3> QED
      BY <1>4, <2>2, <3>2, Zenon DEF Single
  <2> QED
    BY <2>1, <2>2, Zenon
<1>6. Single(a', OnItsWay(e)')
  <2>1. CASE Places(r, "Data") = {}
    <3>1. Places(OnItsWay(e)', "Data") = Places(u, "Data")
      BY <2>1, SentPlaces
    <3> QED
      BY <1>4, <3>1, Zenon DEF Single
  <2>2. CASE /\ AtMostOne(Places(r, "Data")) /\ Places(OnItsWay(e), "Data") = {}
             /\ Places(a', "Request") = {}
    <3>1. Places(u, "Data") = {}
      BY <1>1, <2>2, ThinnedOne, Zenon
    <3>2. AtMostOne(Places(OnItsWay(e)', "Data"))
      BY <2>2, <3>1, SentPlaces, Zenon
    <3> QED
      BY <1>4, <2>2, <3>2, Zenon DEF Single
  <2> QED
    BY <2>1, <2>2, Zenon
<1>7. ASSUME NEW f \in Ends
      PROVE  Rising(OnItsWay(f)') /\ Single(OnItsWay(f)', OnItsWay(Far(f))')
  <2>1. CASE f = e
    BY <1>3, <1>5, <2>1, Zenon
  <2>2. CASE f = Far(e)
    <3>1. Rising(a')
      BY <1>1, ThinnedRising, Zenon DEF FlowOK
    <3> QED
      BY <1>1, <1>6, <2>2, <3>1, Zenon
  <2>3. CASE f # e /\ f # Far(e)
    <3>1. /\ Far(f) \in Ends /\ Far(f) # e
          /\ OnItsWay(f) \in Seq(Messages) /\ OnItsWay(f)' \in Seq(Messages)
          /\ OnItsWay(Far(f)) \in Seq(Messages) /\ OnItsWay(Far(f))' \in Seq(Messages)
      BY <2>3, WayType, EndFacts, Zenon
    <3>2. Thinned(OnItsWay(f), OnItsWay(f)') /\ Thinned(OnItsWay(Far(f)), OnItsWay(Far(f))')
      BY <2>3, <3>1, Zenon
    <3>3. Rising(OnItsWay(f)')
      BY <3>1, <3>2, ThinnedRising, Zenon DEF FlowOK
    <3>4. Single(OnItsWay(f)', OnItsWay(Far(f))')
      BY <3>1, <3>2, ThinnedSingle, Zenon DEF FlowOK
    <3> QED
      BY <3>3, <3>4, Zenon
  <2> QED
    BY <2>1, <2>2, <2>3, Zenon
<1>8. FlowOK'
  BY <1>7, Zenon DEF FlowOK
<1> QED
  BY <1>2, <1>8, Zenon

\* What the task at e reads is the first message on its way there.
LEMMA FirstOnItsWay ==
    ASSUME TypeOK, NEW e \in Ends, NEW type, Receives(e, type)
    PROVE  /\ Message(e) \in Messages /\ Message(e).type = type
           /\ Message(e) \in Elements(OnItsWay(Far(e)))
<1> DEFINE o == IF out[Far(e)] = None THEN <<>> ELSE out[Far(e)]
<1>1. /\ OnItsWay(Far(e)) = inbox[e] \o o /\ inbox[e] \in Seq(Messages)
      /\ inbox[e] # <<>> /\ o \in Seq(Messages)
  <2>1. Far(e) \in Ends /\ Far(Far(e)) = e
    BY EndFacts, Zenon
  <2>2. /\ inbox[e] \in Seq(Messages) /\ inbox[e] # <<>>
        /\ o \in Seq(Messages)
    BY <2>1 DEF Receives, TypeOK
  <2> QED
    BY <2>1, <2>2, Zenon DEF OnItsWay
<1> HIDE DEF o
<1>2. 1 \in 1..Len(inbox[e] \o o) /\ Message(e) = (inbox[e] \o o)[1]
  BY <1>1 DEF Message
<1>3. Message(e) \in Elements(OnItsWay(Far(e)))
  BY <1>1, <1>2, Zenon DEF Elements
<1> QED
  BY <1>3, WayType, EndFacts, Zenon DEF Receives

\* The task at e reads a message and sends r, which may be empty.
LEMMA Handled ==
    ASSUME TypeOK, NEW e \in Ends, NEW type, Receives(e, type),
           NEW r \in Seq(Messages), out' = [out EXCEPT ![e] = r]
    PROVE  /\ OnItsWay(e)' = OnItsWay(e) \o r
           /\ OnItsWay(Far(e)) # <<>> /\ Message(e) = Head(OnItsWay(Far(e)))
           /\ OnItsWay(Far(e))' = Tail(OnItsWay(Far(e)))
           /\ \A f \in Ends : f # e => Thinned(OnItsWay(f), OnItsWay(f)')
           /\ Thinned(OnItsWay(e), OnItsWay(e)) /\ OnItsWay(e) \in Seq(Messages)
<1>1. /\ Far(e) \in Ends /\ Far(Far(e)) = e /\ Far(e) # e
      /\ \A f \in Ends : Far(f) \in Ends /\ (Far(f) = e => f = Far(e))
  BY EndFacts, Zenon
<1>2. /\ out[e] = None /\ inbox[e] # <<>> /\ Message(e).type = type
      /\ inbox'[e] = Tail(inbox[e]) /\ out'[e] = r
      /\ \A f \in Ends : f # e => inbox'[f] = inbox[f] /\ out'[f] = out[f]
      /\ \A f \in Ends : inbox[f] \in Seq(Messages)
      /\ \A f \in Ends : (IF out[f] = None THEN <<>> ELSE out[f]) \in Seq(Messages)
  BY DEF Receives, TypeOK
<1>3. OnItsWay(e)' = OnItsWay(e) \o r
  <2>1. OnItsWay(e)' = inbox[Far(e)] \o r
    BY <1>1, <1>2, NoneAssumption, Zenon DEF OnItsWay
  <2>2. OnItsWay(e) = inbox[Far(e)] \o <<>>
    BY <1>1, <1>2, Zenon DEF OnItsWay
  <2>3. inbox[Far(e)] \o <<>> = inbox[Far(e)]
    BY <1>1, <1>2
  <2> QED
    BY <2>1, <2>2, <2>3, Zenon
<1>4. /\ OnItsWay(Far(e)) # <<>> /\ Message(e) = Head(OnItsWay(Far(e)))
      /\ OnItsWay(Far(e))' = Tail(OnItsWay(Far(e)))
  <2> DEFINE o == IF out[Far(e)] = None THEN <<>> ELSE out[Far(e)]
  <2>1. OnItsWay(Far(e)) = inbox[e] \o o /\ OnItsWay(Far(e))' = Tail(inbox[e]) \o o
    BY <1>1, <1>2, Zenon DEF OnItsWay
  <2>2. o \in Seq(Messages) /\ inbox[e] \in Seq(Messages) /\ inbox[e] # <<>>
    BY <1>1, <1>2, Zenon
  <2> HIDE DEF o
  <2>3. /\ inbox[e] \o o # <<>> /\ Head(inbox[e] \o o) = Head(inbox[e])
        /\ Tail(inbox[e] \o o) = Tail(inbox[e]) \o o
    BY <2>2, SentTail, Zenon
  <2> QED
    BY <2>1, <2>3, Zenon DEF Message
<1>5. \A f \in Ends : f # e /\ f # Far(e) => OnItsWay(f)' = OnItsWay(f)
  BY <1>1, <1>2, Zenon DEF OnItsWay
<1>6. \A f \in Ends : OnItsWay(f) \in Seq(Messages)
  BY WayType, Zenon
<1>7. \A f \in Ends : f # e => Thinned(OnItsWay(f), OnItsWay(f)')
  BY <1>1, <1>4, <1>5, <1>6, ThinnedSelf, ThinnedTail, Zenon
<1> QED
  BY <1>3, <1>4, <1>6, <1>7, ThinnedSelf, Zenon

\* The task at e reads a message and sends nothing.
LEMMA Ignored ==
    ASSUME TypeOK, NEW e \in Ends, NEW type, Receives(e, type), UNCHANGED out
    PROVE  \A f \in Ends : Thinned(OnItsWay(f), OnItsWay(f)')
<1>1. /\ \A f \in Ends : inbox'[f] = IF f = e THEN Tail(inbox[e]) ELSE inbox[f]
      /\ inbox[e] # <<>> /\ \A f \in Ends : inbox[f] \in Seq(Messages)
      /\ \A f \in Ends : (IF out[f] = None THEN <<>> ELSE out[f]) \in Seq(Messages)
  BY DEF Receives, TypeOK
<1> TAKE f \in Ends
<1> DEFINE o == IF out[f] = None THEN <<>> ELSE out[f]
<1>2. Far(f) \in Ends /\ inbox[Far(f)] \in Seq(Messages) /\ o \in Seq(Messages)
  BY <1>1, EndFacts, Zenon
<1>3. OnItsWay(f) = inbox[Far(f)] \o o /\ OnItsWay(f)' = inbox'[Far(f)] \o o
  BY Zenon DEF OnItsWay
<1>4. OnItsWay(f) \in Seq(Messages)
  BY WayType, Zenon
<1> HIDE DEF o
<1>5. CASE Far(f) # e
  <2>1. OnItsWay(f)' = OnItsWay(f)
    BY <1>1, <1>2, <1>3, <1>5, Zenon
  <2> QED
    BY <1>4, <2>1, ThinnedSelf, Zenon
<1>6. CASE Far(f) = e
  <2>1. inbox'[Far(f)] = Tail(inbox[Far(f)]) /\ inbox[Far(f)] # <<>>
    BY <1>1, <1>2, <1>6, Zenon
  <2>2. OnItsWay(f) # <<>> /\ OnItsWay(f)' = Tail(OnItsWay(f))
    BY <1>2, <1>3, <2>1, SentTail, Zenon
  <2> QED
    BY <1>4, <2>2, ThinnedTail, Zenon
<1> QED
  BY <1>5, <1>6, Zenon

-----------------------------------------------------------------------------
(***************************************************************************)
(* Steps that leave the hypercores and what the tasks know of them alone.  *)
(***************************************************************************)
LEMMA SameCores ==
    ASSUME UNCHANGED <<writer, core, peer_state>>
    PROVE  /\ CoresOK => CoresOK'
           /\ RemoteLengthsOK => RemoteLengthsOK'
           /\ \A f \in Ends, m \in Messages : MessageOK(f, m) => MessageOK(f, m)'
<1>1. CoresOK => CoresOK'
  BY Zenon DEF CoresOK, Prefix
<1>2. RemoteLengthsOK => RemoteLengthsOK'
  BY Zenon DEF RemoteLengthsOK
<1>3. \A f \in Ends, m \in Messages : MessageOK(f, m) => MessageOK(f, m)'
  BY DEF MessageOK, Wanted, Asker
<1> QED
  BY <1>1, <1>2, <1>3, Zenon

\* A step that leaves the hypercores alone and sends nothing keeps the
\* invariant.
LEMMA QuietStep ==
    ASSUME IInv, TypeOK', UNCHANGED <<writer, core, peer_state>>,
           \A f \in Ends : Thinned(OnItsWay(f), OnItsWay(f)')
    PROVE  IInv'
<1>1. \A f \in Ends : Elements(OnItsWay(f)') \subseteq Messages
  BY WayType, ThinnedElements, Zenon DEF IInv
<1>2. MessagesOK' /\ FlowOK'
  BY <1>1, SameCores, ThinStep, Zenon DEF IInv
<1> QED
  BY <1>2, SameCores, Zenon DEF IInv

\* A send moves the batch from the task to the other end's Channel.
LEMMA SendKeeps == ASSUME IInv, NEW e \in Ends, Send(e) PROVE IInv'
<1>1. /\ TypeOK /\ Far(e) \in Ends /\ Far(e) # e
      /\ inbox[Far(e)] \in Seq(Messages) /\ out[e] \in Seq(Messages)
  BY EndFacts, Zenon DEF IInv, TypeOK, Send
<1>2. /\ inbox' = [inbox EXCEPT ![Far(e)] = inbox[Far(e)] \o out[e]]
      /\ out' = [out EXCEPT ![e] = None]
      /\ inbox[Far(e)] \o out[e] \in Seq(Messages)
  BY <1>1 DEF Send
<1>3. TypeOK'
  BY <1>1, <1>2, Zenon DEF TypeOK, Send, procVars, linkVars
<1>4. ASSUME NEW f \in Ends PROVE OnItsWay(f)' = OnItsWay(f)
  <2>1. CASE f = e
    <3>1. OnItsWay(f) = inbox[Far(e)] \o out[e]
      BY <2>1, Zenon DEF OnItsWay, Send
    <3>2. OnItsWay(f)' = (inbox[Far(e)] \o out[e]) \o <<>>
      BY <1>1, <1>2, <2>1, Zenon DEF OnItsWay, TypeOK
    <3> QED
      BY <1>2, <3>1, <3>2
  <2>2. CASE f # e
    <3>1. Far(f) # Far(e) /\ Far(f) \in Ends
      BY <2>2, EndFacts
    <3> QED
      BY <1>1, <1>2, <2>2, <3>1, Zenon DEF OnItsWay, TypeOK
  <2> QED
    BY <2>1, <2>2, Zenon
<1>5. \A f \in Ends : Thinned(OnItsWay(f), OnItsWay(f)')
  BY <1>1, <1>4, WayType, ThinnedSelf, Zenon
<1> QED
  BY <1>3, <1>5, QuietStep, Zenon DEF Send, procVars

\* A send that fails loses the batch.
LEMMA SendFailsKeeps == ASSUME IInv, NEW e \in Ends, SendFails(e) PROVE IInv'
<1>1. TypeOK
  BY Zenon DEF IInv
<1>2. TypeOK'
  BY <1>1, Zenon DEF TypeOK, SendFails, procVars, linkVars
<1>3. ASSUME NEW f \in Ends PROVE Thinned(OnItsWay(f), OnItsWay(f)')
  <2> DEFINE s == inbox[Far(f)]
             o == IF out[f] = None THEN <<>> ELSE out[f]
  <2>1. s \in Seq(Messages) /\ o \in Seq(Messages) /\ Len(s) \in 0..Len(s)
    BY <1>1, EndFacts DEF TypeOK
  <2>2. OnItsWay(f) = s \o o /\ OnItsWay(f)' \in {s \o o, s \o <<>>}
    BY <1>1, Zenon DEF OnItsWay, SendFails, TypeOK
  <2> HIDE DEF s, o
  <2>3. Thinned(s \o o, s \o o)
    <3>1. s \o o \in Seq(Messages)
      BY <2>1
    <3> QED
      BY <3>1, ThinnedSelf, Zenon
  <2>4. Thinned(s \o o, s \o <<>>)
    BY <2>1, ThinnedFront
  <2> QED
    BY <2>2, <2>3, <2>4, Zenon
<1> QED
  BY <1>2, <1>3, QuietStep, Zenon DEF SendFails, procVars

\* A Range changes nothing.
LEMMA OnOtherKeeps == ASSUME IInv, NEW e \in Ends, OnOther(e) PROVE IInv'
<1>1. TypeOK
  BY Zenon DEF IInv
<1>2. inbox[e] \in Seq(Messages) /\ inbox[e] # <<>> /\ Tail(inbox[e]) \in Seq(Messages)
  BY <1>1 DEF TypeOK, OnOther, Receives
<1>3. TypeOK'
  BY <1>1, <1>2, Zenon DEF TypeOK, OnOther, Receives, procVars, linkVars
<1>4. \A f \in Ends : Thinned(OnItsWay(f), OnItsWay(f)')
  BY <1>1, Ignored, Zenon DEF OnOther
<1> QED
  BY <1>3, <1>4, QuietStep, Zenon DEF OnOther, procVars

\* A request that is not answered is gone.
LEMMA OnRequestMissingKeeps ==
    ASSUME IInv, NEW e \in Ends, OnRequestMissing(e) PROVE IInv'
<1>1. TypeOK
  BY Zenon DEF IInv
<1>2. inbox[e] \in Seq(Messages) /\ inbox[e] # <<>> /\ Tail(inbox[e]) \in Seq(Messages)
  BY <1>1 DEF TypeOK, OnRequestMissing, Receives
<1>3. TypeOK'
  BY <1>1, <1>2, Zenon DEF TypeOK, OnRequestMissing, Receives, procVars, linkVars
<1>4. \A f \in Ends : Thinned(OnItsWay(f), OnItsWay(f)')
  BY <1>1, Ignored, Zenon DEF OnRequestMissing
<1> QED
  BY <1>3, <1>4, QuietStep, Zenon DEF OnRequestMissing, procVars

\* A connection that breaks loses the end of what was sent.
LEMMA DisconnectKeeps == ASSUME IInv, NEW c \in Clients, Disconnect(c) PROVE IInv'
<1>1. TypeOK
  BY Zenon DEF IInv
<1>2. PICK n \in 0..Len(inbox[<<c, Server>>]), k \in 0..Len(inbox[<<Server, c>>]) :
          inbox' = [inbox EXCEPT ![<<c, Server>>] = SubSeq(@, 1, n),
                                 ![<<Server, c>>] = SubSeq(@, 1, k)]
  BY Zenon DEF Disconnect
<1>3. ASSUME NEW f \in Ends
      PROVE  \E i \in 0..Len(inbox[f]) : inbox'[f] = SubSeq(inbox[f], 1, i)
  <2>1. /\ inbox \in [Ends -> Seq(Messages)] /\ inbox[f] \in Seq(Messages)
        /\ <<c, Server>> # <<Server, c>>
    BY <1>1, ReplicationAssumption, Zenon DEF TypeOK
  <2>2. CASE f = <<c, Server>>
    BY <1>2, <2>1, <2>2, Zenon
  <2>3. CASE f = <<Server, c>>
    BY <1>2, <2>1, <2>3, Zenon
  <2>4. CASE f # <<c, Server>> /\ f # <<Server, c>>
    <3>1. inbox'[f] = inbox[f]
      BY <1>2, <2>1, <2>4, Zenon
    <3>2. SubSeq(inbox[f], 1, Len(inbox[f])) = inbox[f] /\ Len(inbox[f]) \in 0..Len(inbox[f])
      BY <2>1
    <3> QED
      BY <3>1, <3>2, Zenon
  <2> QED
    BY <2>2, <2>3, <2>4, Zenon
<1>4. inbox' \in [Ends -> Seq(Messages)]
  <2>1. ASSUME NEW f \in Ends PROVE inbox'[f] \in Seq(Messages)
    <3>1. PICK i \in 0..Len(inbox[f]) : inbox'[f] = SubSeq(inbox[f], 1, i)
      BY <1>3, Zenon
    <3>2. inbox[f] \in Seq(Messages)
      BY <1>1, Zenon DEF TypeOK
    <3> QED
      BY <3>1, <3>2
  <2>2. inbox' = [f \in Ends |-> inbox'[f]]
    BY <1>1, <1>2, Zenon DEF TypeOK
  <2> QED
    BY <2>1, <2>2, Zenon
<1>5. TypeOK'
  BY <1>1, <1>4, Zenon DEF TypeOK, Disconnect, procVars
<1>6. ASSUME NEW f \in Ends PROVE Thinned(OnItsWay(f), OnItsWay(f)')
  <2> DEFINE s == inbox[Far(f)]
             o == IF out[f] = None THEN <<>> ELSE out[f]
  <2>1. s \in Seq(Messages) /\ o \in Seq(Messages)
    BY <1>1, EndFacts DEF TypeOK
  <2>2. PICK i \in 0..Len(s) : inbox'[Far(f)] = SubSeq(s, 1, i)
    BY <1>3, EndFacts, Zenon
  <2>3. OnItsWay(f) = s \o o /\ OnItsWay(f)' = SubSeq(s, 1, i) \o o
    BY <2>2, Zenon DEF OnItsWay, Disconnect
  <2> HIDE DEF s, o
  <2> QED
    BY <2>1, <2>3, ThinnedCut, Zenon
<1> QED
  BY <1>5, <1>6, QuietStep, Zenon DEF Disconnect, procVars

-----------------------------------------------------------------------------
(***************************************************************************)
(* onpeer announces the length of the hypercore.                           *)
(***************************************************************************)
LEMMA ContiguousLength ==
    ASSUME NEW c, NEW k \in 0..N, c.blocks = 0..(k - 1)
    PROVE  contiguous_length(c) = k
<1> DEFINE S == {i \in 0..N : i \notin c.blocks}
<1>1. k \in S /\ \A i \in S : k <= i
  BY ReplicationAssumption
<1>2. \A x \in S : (\A y \in S : x <= y) => x = k
  BY <1>1, ReplicationAssumption
<1> HIDE DEF S
<1>3. Min(S) = k
  BY <1>1, <1>2, Zenon DEF Min
<1> QED
  BY <1>3, Zenon DEF contiguous_length, S

\* The messages the tasks make.
LEMMA MessageFields ==
    ASSUME NEW i \in 0..N, NEW j \in 0..N
    PROVE  /\ Synchronize(i, j) \in Messages /\ RangeMsg(i) \in Messages
           /\ RequestUpgrade(i, j) \in Messages /\ DataUpgrade(i, j) \in Messages
           /\ i < N => RequestBlock(i) \in Messages /\ DataBlock(i) \in Messages
           /\ Synchronize(i, j).type = "Synchronize" /\ Synchronize(i, j).length = i
           /\ RangeMsg(i).type = "Range"
           /\ \A m \in {RequestUpgrade(i, j), DataUpgrade(i, j)} :
                 m.upgrade /\ m.start = i /\ m.length = j
           /\ \A m \in {RequestBlock(i), DataBlock(i)} : ~m.upgrade /\ m.index = i
           /\ \A m \in {RequestUpgrade(i, j), RequestBlock(i)} : m.type = "Request"
           /\ \A m \in {DataUpgrade(i, j), DataBlock(i)} : m.type = "Data"
<1>0. i < N => i \in 0..(N - 1)
  BY ReplicationAssumption
<1>1. Synchronize(i, j) \in Messages
  BY Zenon DEF Synchronize, Messages
<1>2. RangeMsg(i) \in Messages
  BY Zenon DEF RangeMsg, Messages
<1>3. RequestUpgrade(i, j) \in Messages
  BY Zenon DEF RequestUpgrade, Messages
<1>4. DataUpgrade(i, j) \in Messages
  BY Zenon DEF DataUpgrade, Messages
<1>5. i < N => RequestBlock(i) \in Messages
  BY <1>0, Zenon DEF RequestBlock, Messages
<1>6. i < N => DataBlock(i) \in Messages
  BY <1>0, Zenon DEF DataBlock, Messages
<1>7. /\ Synchronize(i, j).type = "Synchronize" /\ Synchronize(i, j).length = i
      /\ RangeMsg(i).type = "Range"
  BY Zenon DEF Synchronize, RangeMsg
<1>8. \A m \in {RequestUpgrade(i, j), DataUpgrade(i, j)} :
          m.upgrade /\ m.start = i /\ m.length = j
  BY DEF RequestUpgrade, DataUpgrade
<1>9. \A m \in {RequestBlock(i), DataBlock(i)} : ~m.upgrade /\ m.index = i
  BY DEF RequestBlock, DataBlock
<1>10. \A m \in {RequestUpgrade(i, j), RequestBlock(i)} : m.type = "Request"
  BY DEF RequestUpgrade, RequestBlock
<1>11. \A m \in {DataUpgrade(i, j), DataBlock(i)} : m.type = "Data"
  BY DEF DataUpgrade, DataBlock
<1> QED
  BY <1>1, <1>2, <1>3, <1>4, <1>5, <1>6, <1>7, <1>8, <1>9, <1>10, <1>11, Zenon

\* onpeer announces the length there is.
LEMMA OnpeerKeeps == ASSUME IInv, NEW e \in Ends, onpeer(e) PROVE IInv'
<1> DEFINE info == core[e[1]]
           n == contiguous_length(info)
           sync == Synchronize(info.length, DefaultPeerState.remote_length)
           r == IF n > 0 THEN <<sync, RangeMsg(n)>> ELSE <<sync>>
<1>1. /\ TypeOK /\ CoresOK /\ RemoteLengthsOK /\ MessagesOK /\ FlowOK
      /\ Far(e) \in Ends /\ e[1] \in Processes /\ Far(e)[2] = e[1]
  BY EndFacts, Zenon DEF IInv
<1>2. info.length \in {0, N} /\ info.length \in 0..N /\ n \in 0..N
  <2>1. info.length \in {0, N}
    BY <1>1, Zenon DEF TypeOK
  <2>2. PICK k \in 0..N : info.blocks = 0..(k - 1)
    BY <1>1, Zenon DEF CoresOK, Prefix
  <2>3. n = k
    BY <2>2, ContiguousLength, Zenon
  <2> QED
    BY <2>1, <2>3, ReplicationAssumption
<1>3. /\ sync \in Messages /\ RangeMsg(n) \in Messages
      /\ sync.type = "Synchronize" /\ sync.length = info.length
      /\ RangeMsg(n).type = "Range"
  <2>1. DefaultPeerState.remote_length \in 0..N
    BY ReplicationAssumption DEF DefaultPeerState
  <2> QED
    BY <1>2, <2>1, MessageFields
<1>4. out' = [out EXCEPT ![e] = r] /\ UNCHANGED <<writer, core, peer_state, inbox>>
  BY Zenon DEF onpeer, procVars
<1> HIDE DEF n, sync, info
<1>5. /\ r \in Seq(Messages) /\ r # <<>> /\ r[1] = sync
      /\ \A i \in 2..Len(r) : r[i].type = "Range"
      /\ \A m \in Elements(r) : m = sync \/ m.type = "Range"
  <2>1. CASE n > 0
    <3>1. r = <<sync, RangeMsg(n)>>
      BY <2>1, Zenon
    <3> QED
      BY <1>3, <3>1 DEF Elements
  <2>2. CASE ~(n > 0)
    <3>1. r = <<sync>>
      BY <2>2, Zenon
    <3> QED
      BY <1>3, <3>1 DEF Elements
  <2> QED
    BY <2>1, <2>2, Zenon
<1> HIDE DEF r
<1>6. TypeOK'
  <2>1. state' \in [Ends -> {"off", "new", "ready", "stopped"}] /\ vouched' \subseteq Ends
    BY <1>1, Zenon DEF TypeOK, onpeer
  <2>2. out' \in [Ends -> {None} \cup Seq(Messages)]
    BY <1>1, <1>4, <1>5, Zenon DEF TypeOK
  <2> QED
    BY <1>1, <2>1, <2>2, Zenon DEF TypeOK, onpeer, procVars, linkVars
<1>7. \A f \in Ends : f # e => Thinned(OnItsWay(f), OnItsWay(f)')
  <2>1. \A f \in Ends : f # e => OnItsWay(f)' = OnItsWay(f)
    BY <1>1, <1>4, Zenon DEF OnItsWay, TypeOK
  <2> QED
    BY <1>1, <2>1, WayType, ThinnedSelf, Zenon
<1> DEFINE u == inbox[Far(e)]
<1>8. u \in Seq(Messages) /\ Thinned(OnItsWay(e), u) /\ OnItsWay(e)' = u \o r
  <2>1. u \in Seq(Messages) /\ (IF out[e] = None THEN <<>> ELSE out[e]) \in Seq(Messages)
    BY <1>1 DEF TypeOK
  <2>2. Thinned(OnItsWay(e), u)
    BY <2>1, ThinnedFront, Zenon DEF OnItsWay
  <2>3. OnItsWay(e)' = u \o r
    BY <1>1, <1>4, <1>5, NoneAssumption, Zenon DEF OnItsWay, TypeOK
  <2> QED
    BY <2>1, <2>2, <2>3, Zenon
<1> HIDE DEF u
<1>9. Places(r, "Request") = {} /\ Places(r, "Data") = {} /\ Rising(r)
  <2>1. \A i \in 1..Len(r) : i = 1 \/ i \in 2..Len(r)
    BY <1>5
  <2> QED
    BY <1>3, <1>5, <2>1 DEF Places, Rising
<1>10. ASSUME NEW m \in Elements(r) PROVE MessageOK(e, m)'
  <2>1. CASE m.type = "Synchronize" /\ m.length = info.length
    BY <1>1, <1>2, <1>4, <2>1 DEF MessageOK, RemoteLengthsOK, info
  <2>2. CASE m.type = "Range"
    BY <2>2, Zenon DEF MessageOK
  <2> QED
    BY <1>3, <1>5, <2>1, <2>2, Zenon
<1>11. \A m \in Elements(r) : m.type = "Synchronize" => core[e[1]].length <= m.length
  BY <1>2, <1>3, <1>5, ReplicationAssumption DEF info
<1>12. \A f \in Ends : \A m \in Elements(OnItsWay(f)) : MessageOK(f, m) => MessageOK(f, m)'
  BY <1>1, <1>4, SameCores, WayType, Zenon
<1>13. MessagesOK' /\ FlowOK'
  BY <1>1, <1>5, <1>6, <1>7, <1>8, <1>9, <1>10, <1>11, <1>12, ReplyStep, Zenon
<1> QED
  BY <1>1, <1>4, <1>6, <1>13, SameCores, Zenon DEF IInv

-----------------------------------------------------------------------------
(***************************************************************************)
(* What the handlers of messages have in common.                           *)
(***************************************************************************)
LEMMA HandledType ==
    ASSUME TypeOK, NEW e \in Ends, NEW type, Receives(e, type),
           NEW r \in Seq(Messages), out' = [out EXCEPT ![e] = r],
           UNCHANGED <<writer, linkVars, state, vouched>>,
           core' \in [Processes -> [length : {0, N}, blocks : SUBSET (0..(N - 1))]],
           peer_state' \in [Ends -> PeerState]
    PROVE  TypeOK'
<1>1. inbox[e] \in Seq(Messages) /\ inbox[e] # <<>>
  BY Zenon DEF TypeOK, Receives
<1>2. Tail(inbox[e]) \in Seq(Messages)
  BY <1>1
<1>3. inbox' \in [Ends -> Seq(Messages)]
  BY <1>2, Zenon DEF TypeOK, Receives
<1>4. out' \in [Ends -> {None} \cup Seq(Messages)]
  BY Zenon DEF TypeOK
<1> QED
  BY <1>3, <1>4, Zenon DEF TypeOK, linkVars

\* A batch of two messages.
LEMMA JoinMessages ==
    ASSUME NEW c \in Messages, NEW d \in Messages
    PROVE  <<c>> \o <<d>> = <<c, d>>
<1> DEFINE s == <<c>> \o <<d>>
           t == <<c, d>>
<1>1. s \in Seq(Messages) /\ t \in Seq(Messages) /\ Len(s) = 2 /\ Len(t) = 2
  OBVIOUS
<1>2. \A i \in 1..2 : s[i] = t[i]
  OBVIOUS
<1> HIDE DEF s, t
<1>3. s = t
  BY <1>1, <1>2
<1> QED
  BY <1>3, Zenon DEF s, t

\* An empty batch.
LEMMA NoMessage ==
    /\ <<>> \in Seq(Messages) /\ Elements(<<>>) = {} /\ Rising(<<>>)
    /\ \A type : Places(<<>>, type) = {}
  BY DEF Elements, Places, Rising

\* A batch of one message.
LEMMA OneMessage ==
    ASSUME NEW d \in Messages, NEW r, r = <<d>>
    PROVE  /\ r \in Seq(Messages) /\ Elements(r) = {d} /\ Rising(r)
           /\ \A type : /\ AtMostOne(Places(r, type))
                        /\ d.type # type => Places(r, type) = {}
<1>1. /\ r \in Seq(Messages) /\ Len(r) = 1 /\ r[1] = d
      /\ \A i : i \in 1..1 <=> i = 1
  OBVIOUS
<1>2. Elements(r) = {d}
  BY <1>1, Zenon DEF Elements
<1>3. \A type : Places(r, type) \subseteq {1} /\ (d.type # type => Places(r, type) = {})
  BY <1>1, Zenon DEF Places
<1>4. Rising(r)
  BY <1>3 DEF Rising
<1> QED
  BY <1>1, <1>2, <1>3, <1>4 DEF AtMostOne

\* A batch of two messages of different types.
LEMMA TwoMessages ==
    ASSUME NEW c \in Messages, NEW d \in Messages, NEW r, r = <<c, d>>, c.type # d.type
    PROVE  /\ r \in Seq(Messages) /\ Elements(r) = {c, d} /\ Rising(r)
           /\ \A type : /\ AtMostOne(Places(r, type))
                        /\ c.type # type /\ d.type # type => Places(r, type) = {}
<1>1. /\ r \in Seq(Messages) /\ Len(r) = 2 /\ r[1] = c /\ r[2] = d
      /\ \A i : i \in 1..2 <=> i \in {1, 2}
  OBVIOUS
<1>2. Elements(r) = {c, d}
  BY <1>1, Zenon DEF Elements
<1>3. \A type : /\ \A i \in Places(r, type) : \/ i = 1 /\ c.type = type
                                              \/ i = 2 /\ d.type = type
  BY <1>1, Zenon DEF Places
<1>4. \A type : AtMostOne(Places(r, type))
  BY <1>3, Zenon DEF AtMostOne
<1>5. Rising(r)
  BY <1>3 DEF Rising
<1> QED
  BY <1>1, <1>2, <1>3, <1>4, <1>5, Zenon

\* A request or an answer is about an upgrade or about a block.
LEMMA AskedFields ==
    ASSUME NEW m \in Messages, m.type \in {"Request", "Data"}
    PROVE  \/ m.upgrade = TRUE /\ m.start \in 0..N /\ m.length \in 0..N
           \/ m.upgrade = FALSE /\ m.index \in 0..(N - 1)
  BY Zenon DEF Messages

-----------------------------------------------------------------------------
\* An answer takes the place of its request.
LEMMA OnRequestKeeps == ASSUME IInv, NEW e \in Ends, OnRequest(e) PROVE IInv'
<1> DEFINE m == Message(e)
           a == Far(e)
           d == IF m.upgrade THEN DataUpgrade(m.start, m.length) ELSE DataBlock(m.index)
           r == <<d>>
<1>1. /\ TypeOK /\ CoresOK /\ RemoteLengthsOK /\ MessagesOK /\ FlowOK
      /\ a \in Ends /\ Far(a) = e
  BY EndFacts, Zenon DEF IInv
<1>2. /\ Receives(e, "Request") /\ out' = [out EXCEPT ![e] = r]
      /\ UNCHANGED <<writer, core, peer_state, linkVars, state, vouched>>
  BY Zenon DEF OnRequest, procVars
<1>3. m \in Messages /\ m.type = "Request" /\ m \in Elements(OnItsWay(a))
  BY <1>1, <1>2, FirstOnItsWay, Zenon
<1>4. /\ d \in Messages /\ d.type = "Data" /\ d.upgrade = m.upgrade
      /\ m.upgrade => d.start = m.start /\ d.length = m.length
      /\ ~m.upgrade => d.index = m.index
  <2>1. CASE m.upgrade = TRUE /\ m.start \in 0..N /\ m.length \in 0..N
    BY <2>1, MessageFields, Zenon DEF DataUpgrade
  <2>2. CASE m.upgrade = FALSE /\ m.index \in 0..(N - 1)
    <3>1. m.index \in 0..N /\ m.index < N
      BY <2>2, ReplicationAssumption
    <3> QED
      BY <2>2, <3>1, MessageFields, Zenon DEF DataBlock
  <2> QED
    BY <1>3, <2>1, <2>2, AskedFields, Zenon
<1> HIDE DEF m, d
<1>5. /\ r \in Seq(Messages) /\ Elements(r) = {d} /\ Rising(r)
      /\ AtMostOne(Places(r, "Data")) /\ Places(r, "Request") = {}
  BY <1>4, OneMessage, Zenon
<1> HIDE DEF r
<1>6. /\ OnItsWay(e)' = OnItsWay(e) \o r
      /\ OnItsWay(a) # <<>> /\ m = Head(OnItsWay(a))
      /\ OnItsWay(a)' = Tail(OnItsWay(a))
      /\ \A f \in Ends : f # e => Thinned(OnItsWay(f), OnItsWay(f)')
      /\ Thinned(OnItsWay(e), OnItsWay(e)) /\ OnItsWay(e) \in Seq(Messages)
  BY <1>1, <1>2, <1>5, Handled, Zenon DEF m
<1>7. TypeOK'
  BY <1>1, <1>2, <1>5, HandledType, Zenon DEF TypeOK
<1>8. Places(OnItsWay(e), "Data") = {} /\ Places(OnItsWay(a)', "Request") = {}
  <2>1. OnItsWay(a) \in Seq(Messages) /\ Single(OnItsWay(a), OnItsWay(e))
    BY <1>1, WayType, Zenon DEF FlowOK
  <2> QED
    BY <1>3, <1>6, <2>1, HeadWasOnly, Zenon DEF Single
<1>9. MessageOK(a, m)
  BY <1>1, <1>3, Zenon DEF MessagesOK
<1>10. ASSUME NEW n \in Elements(r) PROVE MessageOK(e, n)'
  <2>1. Wanted(a, n)
    BY <1>3, <1>4, <1>5, <1>9, Zenon DEF MessageOK, Wanted
  <2> QED
    BY <1>2, <1>4, <1>5, <2>1, Zenon DEF MessageOK, Wanted, Asker
<1>11. \A f \in Ends : \A n \in Elements(OnItsWay(f)) : MessageOK(f, n) => MessageOK(f, n)'
  BY <1>1, <1>2, SameCores, WayType, Zenon
<1>12. MessagesOK' /\ FlowOK'
  BY <1>1, <1>4, <1>5, <1>6, <1>7, <1>8, <1>10, <1>11, ReplyStep, Zenon
<1> QED
  BY <1>1, <1>2, <1>7, <1>12, SameCores, Zenon DEF IInv

(***************************************************************************)
(* A task asks for an upgrade when it hears of the log for the first time: *)
(* the server from the writer, a client from the server.                   *)
(***************************************************************************)
LEMMA UpgradeAsked ==
    ASSUME IInv, NEW e \in Ends, NEW m \in Messages, m.type = "Synchronize",
           MessageOK(Far(e), m), MayUpgrade(e, m, core[e[1]])
    PROVE  /\ core[e[1]].length = 0 /\ m.length = N /\ core[e[2]].length = N
           /\ peer_state[e].remote_length = 0 /\ Asker(e)
<1>1. /\ TypeOK /\ CoresOK /\ RemoteLengthsOK /\ N \in Nat \ {0}
      /\ e[1] \in Processes /\ e[2] \in Processes /\ Far(e)[1] = e[2]
  BY EndFacts, ReplicationAssumption, Zenon DEF IInv
<1>2. /\ core[e[1]].length \in {0, N} /\ core[e[2]].length \in {0, N}
      /\ peer_state[e].remote_length \in {0, N}
      /\ m.length \in {0, N} /\ m.length <= core[e[2]].length
      /\ m.length > core[e[1]].length /\ m.length # peer_state[e].remote_length
  BY <1>1, Zenon DEF TypeOK, RemoteLengthsOK, MessageOK, MayUpgrade
<1>3. /\ core[e[1]].length = 0 /\ m.length = N /\ core[e[2]].length = N
      /\ peer_state[e].remote_length = 0
  BY <1>1, <1>2, TwoLengths, Zenon
<1>4. e[1] # writer
  BY <1>1, <1>3 DEF CoresOK, FullCore
<1>5. ASSUME e[1] = Server PROVE e[2] = writer
  <2>1. e[2] \in Clients
    BY <1>5, EndFacts, ReplicationAssumption, Zenon
  <2>2. ~(core[e[2]].length <= core[Server].length)
    BY <1>1, <1>3, <1>5
  <2> QED
    BY <1>1, <2>1, <2>2, Zenon DEF CoresOK
<1> QED
  BY <1>3, <1>4, <1>5, Zenon DEF Asker

\* A Synchronize is stored, answered the first time, and may start a request.
LEMMA OnSynchronizeKeeps == ASSUME IInv, NEW e \in Ends, OnSynchronize(e) PROVE IInv'
<1> DEFINE m == Message(e)
           a == Far(e)
           info == core[e[1]]
           s == Synchronize(info.length, m.length)
           q == RequestUpgrade(info.length, m.length - info.length)
           sync == IF peer_state[e].remote_synced THEN <<>> ELSE <<s>>
           req == IF MayUpgrade(e, m, info) THEN <<q>> ELSE <<>>
           r == sync \o req
<1>1. /\ TypeOK /\ CoresOK /\ RemoteLengthsOK /\ MessagesOK /\ FlowOK
      /\ a \in Ends /\ Far(a) = e /\ a # e /\ a[1] = e[2] /\ a[2] = e[1]
      /\ e[1] \in Processes /\ e[2] \in Processes /\ N \in Nat \ {0}
  BY EndFacts, ReplicationAssumption, Zenon DEF IInv
<1>2. /\ Receives(e, "Synchronize") /\ out' = [out EXCEPT ![e] = r]
      /\ peer_state' = [peer_state EXCEPT ![e] = Synchronized(m)]
      /\ UNCHANGED <<writer, core, linkVars, state, vouched>>
  BY Zenon DEF OnSynchronize, procVars
<1>3. m \in Messages /\ m.type = "Synchronize" /\ MessageOK(a, m)
  <2>1. m \in Messages /\ m.type = "Synchronize" /\ m \in Elements(OnItsWay(a))
    BY <1>1, <1>2, FirstOnItsWay, Zenon
  <2> QED
    BY <1>1, <2>1, Zenon DEF MessagesOK
<1>4. /\ m.length \in {0, N} /\ m.length <= core[e[2]].length
      /\ peer_state[e].remote_length <= m.length
      /\ info.length \in {0, N} /\ core[e[2]].length \in {0, N}
      /\ peer_state[e].remote_length \in {0, N}
      /\ peer_state[a].remote_length <= info.length
  BY <1>1, <1>3, Zenon DEF MessageOK, TypeOK, RemoteLengthsOK
<1>5. MayUpgrade(e, m, info) =>
          /\ info.length = 0 /\ m.length = N /\ core[e[2]].length = N
          /\ peer_state[e].remote_length = 0 /\ Asker(e)
  BY <1>3, UpgradeAsked, Zenon
<1>6. s \in Messages /\ s.type = "Synchronize" /\ s.length = info.length
  <2>1. info.length \in 0..N /\ m.length \in 0..N
    BY <1>1, <1>4
  <2> QED
    BY <2>1, MessageFields
<1>7. MayUpgrade(e, m, info) =>
          /\ q \in Messages /\ q.type = "Request"
          /\ q.upgrade = TRUE /\ q.start = 0 /\ q.length = N
  <2>1. MayUpgrade(e, m, info) => q = RequestUpgrade(0, N) /\ 0 \in 0..N /\ N \in 0..N
    BY <1>1, <1>5, SMTT(30)
  <2>2. RequestUpgrade(0, N).upgrade = TRUE
    BY Zenon DEF RequestUpgrade
  <2> QED
    BY <2>1, <2>2, MessageFields, SMTT(30)
<1> HIDE DEF m, s, q, info
<1>8. /\ r \in Seq(Messages) /\ Rising(r)
      /\ Elements(r) \subseteq {s} \cup (IF MayUpgrade(e, m, info) THEN {q} ELSE {})
      /\ AtMostOne(Places(r, "Request")) /\ Places(r, "Data") = {}
  <2>1. CASE peer_state[e].remote_synced /\ MayUpgrade(e, m, info)
    <3>1. r = <<q>>
      BY <2>1
    <3> QED
      BY <1>7, <2>1, <3>1, OneMessage, Zenon
  <2>2. CASE peer_state[e].remote_synced /\ ~MayUpgrade(e, m, info)
    <3>1. r = <<>>
      BY <2>2
    <3> QED
      BY <3>1, NoMessage, Zenon DEF AtMostOne
  <2>3. CASE ~peer_state[e].remote_synced /\ MayUpgrade(e, m, info)
    <3>1. r = <<s, q>>
      BY <1>6, <1>7, <2>3, JoinMessages, Zenon
    <3> HIDE DEF r
    <3>2. /\ r \in Seq(Messages) /\ Elements(r) = {s, q} /\ Rising(r)
          /\ AtMostOne(Places(r, "Request")) /\ Places(r, "Data") = {}
      BY <1>6, <1>7, <2>3, <3>1, TwoMessages, Zenon
    <3> QED
      BY <2>3, <3>2, Zenon
  <2>4. CASE ~peer_state[e].remote_synced /\ ~MayUpgrade(e, m, info)
    <3>1. r = <<s>>
      BY <2>4
    <3> QED
      BY <1>6, <2>4, <3>1, OneMessage, Zenon
  <2> QED
    BY <2>1, <2>2, <2>3, <2>4, Zenon
<1> HIDE DEF r
<1>9. /\ OnItsWay(e)' = OnItsWay(e) \o r
      /\ OnItsWay(a) # <<>> /\ m = Head(OnItsWay(a))
      /\ OnItsWay(a)' = Tail(OnItsWay(a))
      /\ \A f \in Ends : f # e => Thinned(OnItsWay(f), OnItsWay(f)')
      /\ Thinned(OnItsWay(e), OnItsWay(e)) /\ OnItsWay(e) \in Seq(Messages)
  BY <1>1, <1>2, <1>8, Handled, Zenon DEF m
<1>10. /\ peer_state'[e].remote_length = m.length
       /\ \A f \in Ends : f # e => peer_state'[f] = peer_state[f]
       /\ peer_state' \in [Ends -> PeerState]
  <2>1. Synchronized(m) \in PeerState /\ Synchronized(m).remote_length = m.length
    BY <1>1, <1>4 DEF Synchronized, PeerState
  <2> QED
    BY <1>1, <1>2, <2>1, Zenon DEF TypeOK
<1>11. TypeOK'
  BY <1>1, <1>2, <1>8, <1>10, HandledType, Zenon DEF TypeOK
<1>12. CoresOK'
  BY <1>1, <1>2, Zenon DEF CoresOK, Prefix
<1>13. RemoteLengthsOK'
  <2> SUFFICES ASSUME NEW f \in Ends
               PROVE  /\ peer_state'[f].remote_length \in {0, N}
                      /\ peer_state'[f].remote_length <= core[f[2]].length
    BY <1>2, Zenon DEF RemoteLengthsOK
  <2> QED
    BY <1>1, <1>4, <1>10, Zenon DEF RemoteLengthsOK
<1>14. ASSUME NEW f \in Ends, NEW n, Wanted(f, n)
       PROVE  Wanted(f, n)'
  <2>1. peer_state'[f].remote_length = N
    BY <1>1, <1>4, <1>10, <1>14 DEF Wanted
  <2> QED
    BY <1>2, <1>14, <2>1, Zenon DEF Wanted, Asker
<1>15. ASSUME NEW f \in Ends, NEW n \in Elements(OnItsWay(f)),
              n \in Elements(OnItsWay(f)'), MessageOK(f, n)
       PROVE  MessageOK(f, n)'
  <2>1. n.type = "Request" => Wanted(f, n)'
    BY <1>14, <1>15, Zenon DEF MessageOK
  <2>2. n.type = "Data" => Wanted(Far(f), n)'
    BY <1>14, <1>15, EndFacts, Zenon DEF MessageOK
  <2>3. ASSUME n.type = "Synchronize"
        PROVE  peer_state'[Far(f)].remote_length <= n.length
    <3>1. CASE f # a
      BY <1>10, <1>15, <2>3, <3>1, EndFacts, Zenon DEF MessageOK
    <3>2. CASE f = a
      <4>1. PICK i \in 1..Len(Tail(OnItsWay(a))) : n = Tail(OnItsWay(a))[i]
        BY <1>9, <1>15, <3>2, Zenon DEF Elements
      <4>2. OnItsWay(a) \in Seq(Messages) /\ Rising(OnItsWay(a))
        BY <1>1, WayType, Zenon DEF FlowOK
      <4>3. i + 1 \in 1..Len(OnItsWay(a)) /\ n = OnItsWay(a)[i + 1] /\ 1 < i + 1
        BY <1>9, <4>1, <4>2
      <4>4. 1 \in 1..Len(OnItsWay(a)) /\ m = OnItsWay(a)[1]
        BY <1>9, <4>2
      <4>5. m.length <= n.length
        BY <1>3, <2>3, <4>2, <4>3, <4>4, Zenon DEF Rising, Places
      <4> QED
        BY <1>1, <1>10, <3>2, <4>5, Zenon
    <3> QED
      BY <3>1, <3>2, Zenon
  <2> QED
    BY <1>2, <1>15, <2>1, <2>2, <2>3, Zenon DEF MessageOK
<1>16. ASSUME NEW n \in Elements(r) PROVE MessageOK(e, n)'
  <2>1. CASE n = s
    BY <1>1, <1>2, <1>4, <1>6, <1>10, <2>1, SMTT(30) DEF MessageOK, info
  <2>2. CASE MayUpgrade(e, m, info) /\ n = q
    <3>1. Wanted(e, n)'
      BY <1>1, <1>2, <1>5, <1>7, <1>10, <2>2, Zenon DEF Wanted, Asker, info
    <3>2. n.type = "Request"
      BY <1>7, <2>2, Zenon
    <3> QED
      BY <3>1, <3>2, Zenon DEF MessageOK
  <2> QED
    BY <1>8, <2>1, <2>2, Zenon
<1>17. \/ Places(r, "Request") = {}
       \/ /\ AtMostOne(Places(r, "Request")) /\ Places(OnItsWay(e), "Request") = {}
          /\ Places(OnItsWay(a)', "Data") = {}
  <2>1. CASE MayUpgrade(e, m, info)
    <3>1. \A n : ~Wanted(e, n)
      BY <1>1, <1>5, <2>1, Zenon DEF Wanted
    <3>2. \A n \in Elements(OnItsWay(e)) : n.type # "Request"
      BY <1>1, <3>1, Zenon DEF MessagesOK, MessageOK
    <3>3. \A n \in Elements(OnItsWay(a)') : n.type # "Data"
      BY <1>1, <1>9, <3>1, ThinnedElements, Zenon DEF MessagesOK, MessageOK
    <3> QED
      BY <1>8, <3>2, <3>3, NoPlaces, Zenon
  <2>2. CASE ~MayUpgrade(e, m, info)
    BY <1>6, <1>8, <2>2, NoPlaces, Zenon
  <2> QED
    BY <2>1, <2>2, Zenon
<1>18. \A n \in Elements(r) : n.type = "Synchronize" => core[e[1]].length <= n.length
  BY <1>1, <1>4, <1>6, <1>7, <1>8 DEF info
<1>19. MessagesOK' /\ FlowOK'
  BY <1>1, <1>8, <1>9, <1>11, <1>15, <1>16, <1>17, <1>18, ReplyStep, Zenon
<1> QED
  BY <1>11, <1>12, <1>13, <1>19, Zenon DEF IInv

-----------------------------------------------------------------------------
(***************************************************************************)
(* Answers.  The hypercore of e[1] changes by the answers to e alone.      *)
(***************************************************************************)
LEMMA CoreGrows ==
    ASSUME IInv, NEW e \in Ends, Asker(e), core[e[2]].length = N,
           UNCHANGED <<writer, peer_state>>,
           NEW c \in [length : {0, N}, blocks : SUBSET (0..(N - 1))],
           c.length = N, Prefix(c), core' = [core EXCEPT ![e[1]] = c]
    PROVE  /\ CoresOK' /\ RemoteLengthsOK'
           /\ core' \in [Processes -> [length : {0, N}, blocks : SUBSET (0..(N - 1))]]
           /\ core'[e[1]] = c
           /\ \A f \in Ends, n \in Messages :
                 /\ MessageOK(f, n)
                 /\ n.type = "Request" => f # e
                 /\ n.type = "Data" => Far(f) # e
                 => MessageOK(f, n)'
<1>1. /\ TypeOK /\ CoresOK /\ RemoteLengthsOK /\ N \in Nat \ {0}
      /\ e[1] \in Processes /\ e[1] # e[2] /\ writer \in Processes /\ e[1] # writer
      /\ Server \in Processes /\ Clients \subseteq Processes
  BY EndFacts, ReplicationAssumption, Zenon DEF IInv, TypeOK, Processes, Asker
<1>2. /\ core' \in [Processes -> [length : {0, N}, blocks : SUBSET (0..(N - 1))]]
      /\ core'[e[1]] = c
      /\ \A p \in Processes : p # e[1] => core'[p] = core[p]
  BY <1>1, Zenon DEF TypeOK
<1>3. \A p \in Processes : /\ core[p].length <= core'[p].length
                           /\ core'[p].length \in {0, N} /\ core[p].length \in {0, N}
                           /\ core[p].length = N => core'[p].length = N
  BY <1>1, <1>2 DEF TypeOK
<1>4. CoresOK'
  <2>1. core'[writer] = FullCore
    BY <1>1, <1>2, Zenon DEF CoresOK
  <2>2. \A p \in Processes : Prefix(core'[p])
    BY <1>1, <1>2, Zenon DEF CoresOK
  <2>3. ASSUME NEW d \in Clients, d # writer
        PROVE  core'[d].length <= core'[Server].length
    <3>1. CASE e[1] = Server
      BY <1>1, <1>2, <1>3, <3>1
    <3>2. CASE e[1] = d
      <4>1. e[2] = Server
        BY <3>2, EndFacts, ReplicationAssumption, Zenon
      <4> QED
        BY <1>1, <1>2, <1>3, <4>1
    <3>3. CASE e[1] # Server /\ e[1] # d
      BY <1>1, <1>2, <2>3, <3>3, Zenon DEF CoresOK
    <3> QED
      BY <3>1, <3>2, <3>3, Zenon
  <2> QED
    BY <2>1, <2>2, <2>3, Zenon DEF CoresOK, Prefix, FullCore
<1>5. RemoteLengthsOK'
  <2> SUFFICES ASSUME NEW f \in Ends
               PROVE  /\ peer_state[f].remote_length \in {0, N}
                      /\ peer_state[f].remote_length <= core'[f[2]].length
    BY Zenon DEF RemoteLengthsOK
  <2>1. f[2] \in Processes /\ peer_state[f].remote_length \in {0, N}
    BY <1>1, EndFacts, Zenon DEF RemoteLengthsOK
  <2> QED
    BY <1>1, <1>3, <2>1 DEF RemoteLengthsOK
<1>6. ASSUME NEW g \in Ends, g # e, NEW n, Wanted(g, n)
      PROVE  Wanted(g, n)'
  <2>1. Asker(g) /\ g[1] \in Processes /\ g[2] \in Processes /\ core[g[2]].length = N
    BY <1>6, EndFacts, Zenon DEF Wanted
  <2>2. g[1] # e[1]
    BY <1>6, <2>1, OneAsker, Zenon
  <2>3. core'[g[1]] = core[g[1]] /\ core'[g[2]].length = N
    BY <1>2, <1>3, <2>1, <2>2, Zenon
  <2> QED
    BY <1>6, <2>3, Zenon DEF Wanted, Asker
<1>7. ASSUME NEW f \in Ends, NEW n \in Messages, MessageOK(f, n),
             n.type = "Request" => f # e, n.type = "Data" => Far(f) # e
      PROVE  MessageOK(f, n)'
  <2>1. f[1] \in Processes /\ Far(f) \in Ends
    BY EndFacts, Zenon
  <2>2. n.type = "Request" => Wanted(f, n)'
    BY <1>6, <1>7, Zenon DEF MessageOK
  <2>3. n.type = "Data" => Wanted(Far(f), n)'
    BY <1>6, <1>7, <2>1, Zenon DEF MessageOK
  <2>4. n.type = "Synchronize" =>
            /\ n.length \in {0, N} /\ n.length <= core'[f[1]].length
            /\ peer_state[Far(f)].remote_length <= n.length
    BY <1>1, <1>3, <1>7, <2>1 DEF MessageOK
  <2> QED
    BY <2>2, <2>3, <2>4, Zenon DEF MessageOK
<1> QED
  BY <1>2, <1>4, <1>5, <1>7, Zenon

\* What the task at e knows when it reads an answer
LEMMA AnswerRead ==
    ASSUME IInv, NEW e \in Ends, Receives(e, "Data")
    PROVE  /\ Message(e) \in Messages /\ Message(e).type = "Data"
           /\ Wanted(e, Message(e))
           /\ \/ Message(e).upgrade = TRUE /\ Message(e).start = 0
                 /\ Message(e).length = N
              \/ Message(e).upgrade = FALSE /\ Message(e).index \in 0..(N - 1)
           /\ \A n \in Elements(OnItsWay(e)) : n.type \notin {"Request", "Data"}
<1> DEFINE m == Message(e)
           a == Far(e)
<1>1. /\ TypeOK /\ MessagesOK /\ FlowOK /\ a \in Ends /\ Far(a) = e
  BY EndFacts, Zenon DEF IInv
<1>2. m \in Messages /\ m.type = "Data" /\ m \in Elements(OnItsWay(a))
  BY <1>1, FirstOnItsWay, Zenon
<1>3. Wanted(e, m)
  BY <1>1, <1>2, Zenon DEF MessagesOK, MessageOK
<1>4. \/ m.upgrade = TRUE /\ m.start = 0 /\ m.length = N
      \/ m.upgrade = FALSE /\ m.index \in 0..(N - 1)
  BY <1>2, <1>3, AskedFields, Zenon DEF Wanted
<1>5. \A n \in Elements(OnItsWay(e)) : n.type # "Request"
  <2>1. Places(OnItsWay(a), "Data") # {}
    BY <1>2, NoPlaces, Zenon
  <2>2. Places(OnItsWay(e), "Request") = {}
    BY <1>1, <2>1, Zenon DEF FlowOK, Single
  <2> QED
    BY <2>2, NoPlaces, Zenon
<1>6. \A n \in Elements(OnItsWay(e)) : n.type # "Data"
  <2>1. ~Asker(a)
    BY <1>3, OneAsker, Zenon DEF Wanted
  <2> QED
    BY <1>1, <2>1, Zenon DEF MessagesOK, MessageOK, Wanted
<1> QED
  BY <1>2, <1>3, <1>4, <1>5, <1>6, Zenon

\* The task at e reads an answer, applies it, and sends r: one more request,
\* at most, now that the last one is answered.
LEMMA AnswerHandled ==
    ASSUME IInv, NEW e \in Ends, Receives(e, "Data"),
           NEW r \in Seq(Messages), out' = [out EXCEPT ![e] = r],
           UNCHANGED <<writer, linkVars, state, peer_state, vouched>>,
           NEW c \in [length : {0, N}, blocks : SUBSET (0..(N - 1))],
           c.length = N, Prefix(c), core' = [core EXCEPT ![e[1]] = c],
           Rising(r), AtMostOne(Places(r, "Request")), Places(r, "Data") = {},
           \A n \in Elements(r) : n.type = "Synchronize" => n.length = N,
           \A n \in Elements(r) : MessageOK(e, n)'
    PROVE  IInv'
<1> DEFINE m == Message(e)
           a == Far(e)
<1>1. /\ TypeOK /\ MessagesOK /\ FlowOK /\ a \in Ends /\ Far(a) = e
      /\ \A f \in Ends : Far(f) = e => f = a
      /\ core[e[1]].length \in {0, N} /\ N \in Nat \ {0}
  BY EndFacts, ReplicationAssumption, Zenon DEF IInv, TypeOK
<1>2. /\ m.type = "Data" /\ Asker(e) /\ core[e[2]].length = N
      /\ \A n \in Elements(OnItsWay(e)) : n.type # "Request"
  BY AnswerRead, Zenon DEF Wanted
<1>3. /\ CoresOK' /\ RemoteLengthsOK'
      /\ core' \in [Processes -> [length : {0, N}, blocks : SUBSET (0..(N - 1))]]
  BY <1>2, CoreGrows, Zenon
<1>4. /\ OnItsWay(e)' = OnItsWay(e) \o r
      /\ OnItsWay(a) # <<>> /\ m = Head(OnItsWay(a))
      /\ OnItsWay(a)' = Tail(OnItsWay(a))
      /\ \A f \in Ends : f # e => Thinned(OnItsWay(f), OnItsWay(f)')
      /\ Thinned(OnItsWay(e), OnItsWay(e)) /\ OnItsWay(e) \in Seq(Messages)
  BY <1>1, Handled, Zenon
<1>5. TypeOK'
  BY <1>1, <1>3, HandledType, Zenon DEF TypeOK
<1>6. Places(OnItsWay(e), "Request") = {} /\ Places(OnItsWay(a)', "Data") = {}
  <2>1. OnItsWay(a) \in Seq(Messages) /\ Single(OnItsWay(e), OnItsWay(a))
    BY <1>1, WayType, Zenon DEF FlowOK
  <2>2. Places(OnItsWay(a)', "Data") = {}
    BY <1>2, <1>4, <2>1, HeadWasOnly, Zenon DEF Single
  <2> QED
    BY <1>2, <2>2, NoPlaces, Zenon
<1>7. ASSUME NEW f \in Ends, NEW n \in Elements(OnItsWay(f)),
             n \in Elements(OnItsWay(f)'), MessageOK(f, n)
      PROVE  MessageOK(f, n)'
  <2>1. n \in Messages
    BY <1>1, WayType, Zenon
  <2>2. n.type = "Request" => f # e
    BY <1>2, <1>7, Zenon
  <2>3. n.type = "Data" => Far(f) # e
    BY <1>1, <1>6, <1>7, NoPlaces, Zenon
  <2> QED
    BY <1>2, <1>7, <2>1, <2>2, <2>3, CoreGrows, Zenon
<1>8. \A n \in Elements(r) : n.type = "Synchronize" => core[e[1]].length <= n.length
  BY <1>1
<1>9. MessagesOK' /\ FlowOK'
  BY <1>1, <1>4, <1>5, <1>6, <1>7, <1>8, ReplyStep, Zenon
<1> QED
  BY <1>3, <1>5, <1>9, Zenon DEF IInv

\* The upgrade brings the length of the log; the first block is asked for.
LEMMA OnDataUpgradeKeeps == ASSUME IInv, NEW e \in Ends, OnDataUpgrade(e) PROVE IInv'
<1> DEFINE m == Message(e)
           s == Synchronize(m.length, peer_state[e].remote_length)
           q == RequestBlock(0)
           r == <<s>> \o FirstBlock(core[e[1]], m)
           c == [core[e[1]] EXCEPT !.length = m.start + m.length]
<1>1. /\ TypeOK /\ CoresOK /\ N \in Nat \ {0} /\ e[1] \in Processes
      /\ RemoteLengthsOK /\ Far(e) \in Ends /\ Far(e)[2] = e[1]
  BY EndFacts, ReplicationAssumption, Zenon DEF IInv
<1>2. /\ Receives(e, "Data") /\ out' = [out EXCEPT ![e] = r] /\ m.upgrade
      /\ core' = [core EXCEPT ![e[1]] = c]
      /\ UNCHANGED <<writer, linkVars, state, peer_state, vouched>>
  BY Zenon DEF OnDataUpgrade
<1>3. /\ m.start = 0 /\ m.length = N /\ Asker(e)
      /\ core[e[2]].length = N /\ core[e[1]].length = 0
      /\ peer_state[e].remote_length = N
  BY <1>2, AnswerRead, Zenon DEF Wanted
<1>4. core[e[1]].blocks = 0..(0 - 1)
  <2>1. PICK k \in 0..N : k <= core[e[1]].length /\ core[e[1]].blocks = 0..(k - 1)
    BY <1>1, Zenon DEF CoresOK, Prefix
  <2>2. k = 0
    BY <1>3, <2>1
  <2> QED
    BY <2>1, <2>2, Zenon
<1>5. /\ c \in [length : {0, N}, blocks : SUBSET (0..(N - 1))]
      /\ c.length = N /\ c.blocks = 0..(0 - 1) /\ Prefix(c)
  <2>1. /\ c \in [length : {0, N}, blocks : SUBSET (0..(N - 1))]
        /\ c.length = N /\ c.blocks = 0..(0 - 1)
    <3>1. core[e[1]] \in [length : {0, N}, blocks : SUBSET (0..(N - 1))]
      BY <1>1, Zenon DEF TypeOK
    <3>2. m.start + m.length = N
      BY <1>1, <1>3
    <3> QED
      BY ONLY <1>4, <3>1, <3>2, Zenon
  <2> HIDE DEF c
  <2> QED
    BY <1>1, <2>1 DEF Prefix
<1>6. /\ s \in Messages /\ s.type = "Synchronize" /\ s.length = N
      /\ q \in Messages /\ q.type = "Request" /\ q.index = 0 /\ q.upgrade = FALSE
  <2>1. N \in 0..N /\ 0 \in 0..N /\ 0 < N
    BY <1>1
  <2>2. q.upgrade = FALSE
    BY Zenon DEF RequestBlock
  <2> QED
    BY <1>3, <2>1, <2>2, MessageFields
<1>7. r = <<s, q>>
  <2>1. FirstBlock(core[e[1]], m) = <<q>>
    BY <1>1, <1>3 DEF FirstBlock
  <2> QED
    BY <1>6, <2>1, JoinMessages, Zenon
<1> HIDE DEF m, s, q, r, c
<1>8. /\ r \in Seq(Messages) /\ Elements(r) = {s, q} /\ Rising(r)
      /\ AtMostOne(Places(r, "Request")) /\ Places(r, "Data") = {}
  BY <1>6, <1>7, TwoMessages, Zenon
<1>9. core'[e[1]] = c /\ core'[e[2]].length = N
  BY <1>1, <1>2, <1>3, EndFacts, Zenon DEF TypeOK
<1>10. ASSUME NEW n \in Elements(r) PROVE MessageOK(e, n)'
  <2>1. CASE n = s
    <3>1. peer_state[Far(e)].remote_length \in {0, N}
      BY <1>1, Zenon DEF RemoteLengthsOK
    <3>2. c.length \in {0, N} /\ n.type = "Synchronize" /\ n.length = N
      BY <1>5, <1>6, <2>1, Zenon
    <3> QED
      BY <1>1, <1>2, <1>5, <1>9, <3>1, <3>2 DEF MessageOK
  <2>2. CASE n = q
    <3>1. Wanted(e, n)'
      BY <1>2, <1>3, <1>5, <1>6, <1>9, <2>2, Zenon DEF Wanted, Asker
    <3>2. n.type = "Request"
      BY <1>6, <2>2, Zenon
    <3> QED
      BY <3>1, <3>2, Zenon DEF MessageOK
  <2> QED
    BY <1>8, <2>1, <2>2, Zenon
<1>11. \A n \in Elements(r) : n.type = "Synchronize" => n.length = N
  BY <1>6, <1>8, Zenon
<1> QED
  BY <1>2, <1>5, <1>8, <1>10, <1>11, AnswerHandled, Zenon

\* A block comes after those that are there; the next one is asked for.
LEMMA OnDataBlockKeeps == ASSUME IInv, NEW e \in Ends, OnDataBlock(e) PROVE IInv'
<1> DEFINE m == Message(e)
           i == m.index
           q == RequestBlock(i + 1)
           r == NextBlock(e, m)
           c == [core[e[1]] EXCEPT !.blocks = core[e[1]].blocks \cup {i}]
<1>1. TypeOK /\ N \in Nat \ {0} /\ e[1] \in Processes
  BY EndFacts, ReplicationAssumption, Zenon DEF IInv
<1>2. /\ Receives(e, "Data") /\ out' = [out EXCEPT ![e] = r] /\ ~m.upgrade
      /\ core' = [core EXCEPT ![e[1]] = c]
      /\ UNCHANGED <<writer, linkVars, state, peer_state, vouched>>
  BY Zenon DEF OnDataBlock
<1>3. /\ i \in 0..(N - 1) /\ Asker(e)
      /\ core[e[2]].length = N /\ core[e[1]].length = N
      /\ core[e[1]].blocks = 0..(i - 1) /\ peer_state[e].remote_length = N
  BY <1>2, AnswerRead, Zenon DEF Wanted
<1>4. /\ c \in [length : {0, N}, blocks : SUBSET (0..(N - 1))]
      /\ c.length = N /\ c.blocks = 0..i /\ Prefix(c)
  <2>1. core[e[1]] \in [length : {0, N}, blocks : SUBSET (0..(N - 1))]
    BY <1>1, Zenon DEF TypeOK
  <2>2. /\ core[e[1]].blocks \cup {i} = 0..i /\ 0..i \subseteq 0..(N - 1)
        /\ i + 1 \in 0..N /\ (i + 1) - 1 = i /\ i + 1 <= N
    <3> HIDE DEF i
    <3> QED
      BY <1>1, <1>3, OneMoreBlock, Zenon
  <2>3. /\ c \in [length : {0, N}, blocks : SUBSET (0..(N - 1))]
        /\ c.length = N /\ c.blocks = 0..i
    BY ONLY <1>3, <2>1, <2>2, Zenon
  <2> HIDE DEF c, i
  <2>4. Prefix(c)
    BY <2>2, <2>3, Zenon DEF Prefix
  <2> QED
    BY <2>3, <2>4, Zenon
<1>5. /\ i < N - 1 => /\ q \in Messages /\ q.type = "Request"
                      /\ q.index = i + 1 /\ q.upgrade = FALSE
      /\ r = IF i < N - 1 THEN <<q>> ELSE <<>>
  <2>1. i < N - 1 => i + 1 \in 0..N /\ i + 1 < N
    BY <1>1, <1>3, SMTT(30)
  <2>2. q.upgrade = FALSE
    BY Zenon DEF RequestBlock
  <2>3. r = IF i < N - 1 THEN <<q>> ELSE <<>>
    BY <1>3, Zenon DEF NextBlock
  <2> QED
    BY <2>1, <2>2, <2>3, MessageFields, Zenon
<1> HIDE DEF m, i, q, r, c
<1>6. /\ r \in Seq(Messages) /\ Rising(r)
      /\ \A n \in Elements(r) : i < N - 1 /\ n = q
      /\ AtMostOne(Places(r, "Request")) /\ Places(r, "Data") = {}
  <2>1. CASE i < N - 1
    BY <1>5, <2>1, OneMessage, Zenon
  <2>2. CASE ~(i < N - 1)
    BY <1>5, <2>2, NoMessage, Zenon DEF AtMostOne
  <2> QED
    BY <2>1, <2>2, Zenon
<1>7. core'[e[1]] = c /\ core'[e[2]].length = N
  BY <1>1, <1>2, <1>3, EndFacts, Zenon DEF TypeOK
<1>8. ASSUME NEW n \in Elements(r) PROVE MessageOK(e, n)'
  <2>1. /\ n.type = "Request" /\ n.upgrade = FALSE /\ n.index = i + 1
        /\ (i + 1) - 1 = i
    BY <1>3, <1>5, <1>6
  <2>2. Wanted(e, n)'
    BY <1>2, <1>3, <1>4, <1>7, <2>1, Zenon DEF Wanted, Asker
  <2> QED
    BY <2>1, <2>2, Zenon DEF MessageOK
<1>9. \A n \in Elements(r) : n.type = "Synchronize" => n.length = N
  BY <1>5, <1>6, Zenon
<1> QED
  BY <1>2, <1>4, <1>6, <1>8, <1>9, AnswerHandled, Zenon

-----------------------------------------------------------------------------
(***************************************************************************)
(* A client connects, again perhaps.  It starts from nothing, and so do    *)
(* the tasks at the ends of its connection.                                *)
(***************************************************************************)
LEMMA ConnectKeeps == ASSUME IInv, NEW c \in Clients, Connect(c) PROVE IInv'
<1>1. /\ TypeOK /\ CoresOK /\ RemoteLengthsOK /\ MessagesOK /\ FlowOK
      /\ N \in Nat \ {0} /\ c \in Processes /\ Server \in Processes /\ c # Server
      /\ writer \in Processes /\ writer' = writer
  BY ReplicationAssumption, Zenon DEF IInv, TypeOK, Processes, Connect
<1>2. /\ EmptyCore \in [length : {0, N}, blocks : SUBSET (0..(N - 1))]
      /\ EmptyCore.length = 0 /\ Prefix(EmptyCore)
      /\ DefaultPeerState \in PeerState /\ DefaultPeerState.remote_length = 0
  <2>1. /\ EmptyCore \in [length : {0, N}, blocks : SUBSET (0..(N - 1))]
        /\ EmptyCore.length = 0 /\ EmptyCore.blocks = 0..(0 - 1)
    BY <1>1 DEF EmptyCore
  <2>2. DefaultPeerState \in PeerState /\ DefaultPeerState.remote_length = 0
    BY <1>1 DEF DefaultPeerState, PeerState
  <2> QED
    BY <1>1, <2>1, <2>2 DEF Prefix
<1>3. /\ core' \in [Processes -> [length : {0, N}, blocks : SUBSET (0..(N - 1))]]
      /\ \A p \in Processes : p # c => core'[p] = core[p]
      /\ core'[c] = IF c = writer THEN core[c] ELSE EmptyCore
  BY <1>1, <1>2, Zenon DEF TypeOK, Connect
<1>4. /\ peer_state' \in [Ends -> PeerState]
      /\ \A f \in Ends : peer_state'[f] = IF Client(f) = c THEN DefaultPeerState
                                                           ELSE peer_state[f]
  BY <1>1, <1>2, Zenon DEF TypeOK, Connect
<1>5. TypeOK'
  <2>1. out' \in [Ends -> {None} \cup Seq(Messages)]
    BY <1>1, Zenon DEF TypeOK, Connect
  <2>2. inbox' \in [Ends -> Seq(Messages)]
    BY <1>1 DEF TypeOK, Connect
  <2>3. /\ link' \in [Clients -> {"new", "up", "down"}]
        /\ state' \in [Ends -> {"off", "new", "ready", "stopped"}]
        /\ vouched' \subseteq Ends /\ writer' \in Writers
    BY <1>1, Zenon DEF TypeOK, Connect
  <2> QED
    BY <1>3, <1>4, <2>1, <2>2, <2>3, Zenon DEF TypeOK
<1>6. CoresOK'
  <2>1. core'[writer] = FullCore
    BY <1>1, <1>3, Zenon DEF CoresOK
  <2>2. \A p \in Processes : Prefix(core'[p])
    BY <1>1, <1>2, <1>3, Zenon DEF CoresOK
  <2>3. ASSUME NEW d \in Clients, d # writer
        PROVE  core'[d].length <= core'[Server].length
    <3>1. core'[Server] = core[Server] /\ core[Server].length \in {0, N}
      BY <1>1, <1>3, Zenon DEF TypeOK
    <3>2. CASE d = c
      BY <1>1, <1>2, <1>3, <2>3, <3>1, <3>2
    <3>3. CASE d # c
      BY <1>1, <1>3, <2>3, <3>1, <3>3, Zenon DEF CoresOK, Processes
    <3> QED
      BY <3>2, <3>3, Zenon
  <2> QED
    BY <1>1, <2>1, <2>2, <2>3, Zenon DEF CoresOK, Prefix, FullCore
<1>7. RemoteLengthsOK'
  <2> SUFFICES ASSUME NEW f \in Ends
               PROVE  /\ peer_state'[f].remote_length \in {0, N}
                      /\ peer_state'[f].remote_length <= core'[f[2]].length
    BY Zenon DEF RemoteLengthsOK
  <2>1. CASE Client(f) = c
    <3>1. core'[f[2]].length \in {0, N}
      BY <1>3, EndFacts, Zenon
    <3> QED
      BY <1>1, <1>2, <1>4, <2>1, <3>1
  <2>2. CASE Client(f) # c
    <3>1. f[2] # c /\ f[2] \in Processes
      BY <1>1, <2>2, EndFacts, Zenon DEF Client
    <3> QED
      BY <1>1, <1>3, <1>4, <2>2, <3>1, Zenon DEF RemoteLengthsOK
  <2> QED
    BY <2>1, <2>2, Zenon
<1>8. ASSUME NEW f \in Ends
      PROVE  /\ Client(f) = c => OnItsWay(f)' = <<>>
             /\ Client(f) # c => OnItsWay(f)' = OnItsWay(f)
  <2>1. Far(f) \in Ends /\ Client(Far(f)) = Client(f)
    BY EndFacts, Zenon
  <2>2. Client(f) = c => inbox'[Far(f)] = <<>> /\ out'[f] = None
    BY <2>1, Zenon DEF Connect
  <2>3. Client(f) # c => inbox'[Far(f)] = inbox[Far(f)] /\ out'[f] = out[f]
    BY <2>1, Zenon DEF Connect
  <2>4. <<>> \o <<>> = <<>>
    OBVIOUS
  <2> QED
    BY <2>2, <2>3, <2>4, Zenon DEF OnItsWay
<1>9. \A f \in Ends : Thinned(OnItsWay(f), OnItsWay(f)')
  BY <1>1, <1>8, WayType, ThinnedSelf, ThinnedEmpty, Zenon
<1>10. ASSUME NEW f \in Ends, Client(f) # c, NEW n, MessageOK(f, n)
       PROVE  MessageOK(f, n)'
  <2>1. /\ Far(f) \in Ends /\ Client(Far(f)) # c
        /\ f[1] \in Processes /\ f[2] \in Processes /\ f[1] # c /\ f[2] # c
        /\ Far(f)[1] = f[2] /\ Far(f)[2] = f[1]
    BY <1>1, <1>10, EndFacts DEF Client
  <2>2. /\ core'[f[1]] = core[f[1]] /\ core'[f[2]] = core[f[2]]
        /\ peer_state'[f] = peer_state[f] /\ peer_state'[Far(f)] = peer_state[Far(f)]
    BY <1>3, <1>4, <1>10, <2>1, Zenon
  <2> QED
    BY <1>1, <1>10, <2>1, <2>2, Zenon DEF MessageOK, Wanted, Asker
<1>11. \A f \in Ends : Client(f) = c => Elements(OnItsWay(f)') = {}
  BY <1>8, NoMessage, Zenon
<1>12. MessagesOK' /\ FlowOK'
  BY <1>1, <1>5, <1>9, <1>10, <1>11, ThinStep, Zenon
<1> QED
  BY <1>5, <1>6, <1>7, <1>12, Zenon DEF IInv

-----------------------------------------------------------------------------
(***************************************************************************)
(* The invariant holds at the start and is kept by every step.             *)
(***************************************************************************)
LEMMA InitIInv == Init => IInv
<1> SUFFICES ASSUME Init PROVE IInv
  BY Zenon
<1>1. /\ N \in Nat \ {0} /\ writer \in Writers /\ writer \in Processes
      /\ Server \in Processes /\ Clients \subseteq Processes
  BY ReplicationAssumption, Zenon DEF Init, Processes
<1>2. /\ EmptyCore \in [length : {0, N}, blocks : SUBSET (0..(N - 1))]
      /\ FullCore \in [length : {0, N}, blocks : SUBSET (0..(N - 1))]
      /\ EmptyCore.length = 0 /\ EmptyCore.blocks = 0..(0 - 1)
      /\ FullCore.length = N /\ FullCore.blocks = 0..(N - 1)
  BY <1>1 DEF EmptyCore, FullCore
<1>3. Prefix(EmptyCore) /\ Prefix(FullCore)
  <2>1. 0 \in 0..N /\ N \in 0..N /\ 0 <= 0 /\ N <= N
    BY <1>1
  <2> QED
    BY <1>2, <2>1, Zenon DEF Prefix
<1>4. /\ core \in [Processes -> [length : {0, N}, blocks : SUBSET (0..(N - 1))]]
      /\ \A p \in Processes : core[p] = IF p = writer THEN FullCore ELSE EmptyCore
  BY <1>2, Zenon DEF Init
<1>5. DefaultPeerState \in PeerState /\ DefaultPeerState.remote_length = 0
  BY <1>1 DEF DefaultPeerState, PeerState
<1>6. /\ peer_state \in [Ends -> PeerState]
      /\ \A e \in Ends : peer_state[e].remote_length = 0
  BY <1>5, Zenon DEF Init
<1>7. TypeOK
  BY <1>1, <1>4, <1>6 DEF Init, TypeOK
<1>8. CoresOK
  <2>1. ASSUME NEW c \in Clients, c # writer PROVE core[c].length <= core[Server].length
    BY <1>1, <1>2, <1>4, <2>1
  <2> QED
    BY <1>1, <1>3, <1>4, <2>1, Zenon DEF CoresOK
<1>9. RemoteLengthsOK
  <2>1. \A e \in Ends : core[e[2]].length \in {0, N}
    BY <1>4, EndFacts, Zenon
  <2> QED
    BY <1>1, <1>6, <2>1 DEF RemoteLengthsOK
<1>10. \A e \in Ends : OnItsWay(e) = <<>>
  <2>1. <<>> \o <<>> = <<>>
    OBVIOUS
  <2> QED
    BY <2>1, EndFacts, Zenon DEF Init, OnItsWay
<1>11. MessagesOK
  BY <1>10, NoMessage, Zenon DEF MessagesOK
<1>12. FlowOK
  BY <1>10, NoMessage, EndFacts, Zenon DEF FlowOK, Single, AtMostOne
<1> QED
  BY <1>7, <1>8, <1>9, <1>11, <1>12, Zenon DEF IInv

\* One case for each action.
LEMMA NextIInv == IInv /\ [Next]_vars => IInv'
<1> SUFFICES ASSUME IInv, [Next]_vars PROVE IInv'
  BY Zenon
<1>1. ASSUME NEW c \in Clients, Connect(c) PROVE IInv'
  BY <1>1, ConnectKeeps, Zenon
<1>2. ASSUME NEW c \in Clients, Disconnect(c) PROVE IInv'
  BY <1>2, DisconnectKeeps, Zenon
<1>3. ASSUME NEW e \in Ends, Task(e) PROVE IInv'
  <2>1. CASE onpeer(e)
    BY <2>1, OnpeerKeeps, Zenon
  <2>2. CASE Send(e)
    BY <2>2, SendKeeps, Zenon
  <2>3. CASE SendFails(e)
    BY <2>3, SendFailsKeeps, Zenon
  <2>4. CASE OnSynchronize(e)
    BY <2>4, OnSynchronizeKeeps, Zenon
  <2>5. CASE OnRequest(e)
    BY <2>5, OnRequestKeeps, Zenon
  <2>6. CASE OnRequestMissing(e)
    BY <2>6, OnRequestMissingKeeps, Zenon
  <2>7. CASE OnDataUpgrade(e)
    BY <2>7, OnDataUpgradeKeeps, Zenon
  <2>8. CASE OnDataBlock(e)
    BY <2>8, OnDataBlockKeeps, Zenon
  <2>9. CASE OnOther(e)
    BY <2>9, OnOtherKeeps, Zenon
  <2> QED
    BY <1>3, <2>1, <2>2, <2>3, <2>4, <2>5, <2>6, <2>7, <2>8, <2>9, Zenon DEF Task
<1>4. CASE UNCHANGED vars
  <2>1. /\ UNCHANGED <<writer, core, peer_state, out, inbox>>
        /\ UNCHANGED <<link, state, vouched>>
    BY <1>4, Zenon DEF vars, procVars, linkVars
  <2>2. TypeOK'
    BY <2>1, Zenon DEF IInv, TypeOK
  <2>3. \A f \in Ends : Thinned(OnItsWay(f), OnItsWay(f)')
    BY <2>1, WayType, ThinnedSelf, Zenon DEF IInv, OnItsWay
  <2> QED
    BY <2>1, <2>2, <2>3, QuietStep, Zenon
<1> QED
  BY <1>1, <1>2, <1>3, <1>4, Zenon DEF Next

(***************************************************************************)
(* Every process holds a prefix of the log, believes no more of the others *)
(* than is true, and has one request on its way at most.                   *)
(***************************************************************************)
THEOREM Invariance == Spec => []IInv
<1>1. Spec => Init /\ [][Next]_vars
  BY PTL DEF Spec
<1> QED
  BY <1>1, InitIInv, NextIInv, PTL

\* The state of the replicator keeps its types: a length is 0 or that of the
\* log, and a block belongs to the log.
THEOREM TypeCorrect == Spec => []TypeOK
<1>1. IInv => TypeOK
  BY Zenon DEF IInv
<1> QED
  BY <1>1, Invariance, PTL

(***************************************************************************)
(* The constant request ids of onmessage do no harm: a task has one        *)
(* request or one answer on its way at most.                               *)
(***************************************************************************)
THEOREM OneRequestOutstanding == Spec => []OneOutstanding
<1>1. IInv => OneOutstanding
  <2> SUFFICES ASSUME IInv, NEW e \in Ends
               PROVE  \A x, y \in Outstanding(e) : x = y
    BY Zenon DEF OneOutstanding
  <2>1. Single(OnItsWay(e), OnItsWay(Far(e)))
    BY Zenon DEF IInv, FlowOK
  <2> QED
    BY <2>1 DEF Single, AtMostOne, Outstanding
<1> QED
  BY <1>1, Invariance, PTL

(***************************************************************************)
(* create_proof is only asked for what the hypercore has been upgraded to. *)
(***************************************************************************)
THEOREM RequestsAreServable == Spec => []RequestsServable
<1>1. IInv => RequestsServable
  <2> SUFFICES ASSUME IInv, NEW e \in Ends, NEW m \in Elements(OnItsWay(e)),
                      m.type = "Request"
               PROVE  IF m.upgrade
                      THEN m.length > 0 /\ m.start + m.length <= core[e[2]].length
                      ELSE m.index < core[e[2]].length
    BY Zenon DEF RequestsServable
  <2>1. Wanted(e, m) /\ m \in Messages
    BY WayType, Zenon DEF IInv, MessagesOK, MessageOK
  <2>2. CASE m.upgrade = TRUE
    BY <2>1, <2>2, ReplicationAssumption DEF Wanted
  <2>3. CASE m.upgrade = FALSE /\ m.index \in 0..(N - 1)
    BY <2>1, <2>3, ReplicationAssumption DEF Wanted
  <2> QED
    BY <2>1, <2>2, <2>3, AskedFields, Zenon
<1> QED
  BY <1>1, Invariance, PTL

(***************************************************************************)
(* The hypercore an upgrade is applied to is the one it was requested for: *)
(* no other task of the process has upgraded it in between.                *)
(***************************************************************************)
THEOREM UpgradesFit == Spec => []UpgradeFits
<1>1. IInv => UpgradeFits
  <2> SUFFICES ASSUME IInv, NEW e \in Ends, NEW m \in Elements(OnItsWay(e)),
                      m.type = "Data", m.upgrade
               PROVE  core[e[2]].length = m.start /\ m.start = 0
    BY Zenon DEF UpgradeFits
  <2>1. Wanted(Far(e), m)
    BY Zenon DEF IInv, MessagesOK, MessageOK
  <2> QED
    BY <2>1, EndFacts, Zenon DEF Wanted
<1> QED
  BY <1>1, Invariance, PTL

(***************************************************************************)
(* `peer_state.remote_length - 1' is computed of a length above the index  *)
(* of the block that has arrived.                                          *)
(***************************************************************************)
THEOREM NeverUnderflows == Spec => []NoUnderflow
<1>1. IInv => NoUnderflow
  <2> SUFFICES ASSUME IInv, NEW e \in Ends, NEW m \in Elements(inbox[e]),
                      m.type = "Data", ~m.upgrade
               PROVE  m.index < peer_state[e].remote_length
    BY Zenon DEF NoUnderflow
  <2> DEFINE o == IF out[Far(e)] = None THEN <<>> ELSE out[Far(e)]
  <2>1. /\ TypeOK /\ Far(e) \in Ends /\ Far(Far(e)) = e
        /\ inbox[e] \in Seq(Messages) /\ o \in Seq(Messages)
    BY EndFacts DEF IInv, TypeOK
  <2>2. OnItsWay(Far(e)) = inbox[e] \o o
    BY <2>1, Zenon DEF OnItsWay
  <2> HIDE DEF o
  <2>3. m \in Elements(OnItsWay(Far(e)))
    BY <2>1, <2>2, SentElements, Zenon
  <2>4. Wanted(e, m) /\ m \in Messages
    BY <2>1, <2>3, WayType, Zenon DEF IInv, MessagesOK, MessageOK
  <2>5. m.index \in 0..(N - 1)
    BY <2>4, AskedFields, Zenon
  <2> QED
    BY <2>4, <2>5, ReplicationAssumption DEF Wanted
<1> QED
  BY <1>1, Invariance, PTL

(***************************************************************************)
(* A hypercore holds the first contiguous_length blocks and no others, so  *)
(* every block that is printed is there.                                   *)
(***************************************************************************)
THEOREM PrefixIsHeld == Spec => []HoldsPrefix
<1>1. IInv => HoldsPrefix
  <2> SUFFICES ASSUME IInv, NEW p \in Processes
               PROVE  /\ core[p].blocks = 0..(contiguous_length(core[p]) - 1)
                      /\ contiguous_length(core[p]) <= core[p].length
    BY Zenon DEF HoldsPrefix
  <2>1. PICK k \in 0..N : core[p].blocks = 0..(k - 1) /\ k <= core[p].length
    BY Zenon DEF IInv, CoresOK, Prefix
  <2>2. contiguous_length(core[p]) = k
    BY <2>1, ContiguousLength, Zenon
  <2> QED
    BY <2>1, <2>2, Zenon
<1> QED
  BY <1>1, Invariance, PTL

=============================================================================
