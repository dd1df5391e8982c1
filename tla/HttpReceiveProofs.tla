--------------------------- MODULE HttpReceiveProofs ---------------------------
(* Theorems about HttpReceive, for every size of the buffer and of the local URL,
   every stream of bytes that the parser's grammar allows, and every way in which
   recv() may cut it. *)
EXTENDS HttpReceive, FiniteSetTheorems, WellFoundedInduction, TLAPS

--------------------------------------------------------------------------------
(* Sets of numbers.  Min and Max are chosen, so that they exist must be proved; and
   that a set of numbers has a least element is all the induction needed here. *)

Before == {ss \in Nat \X Nat : ss[1] < ss[2]}

(* No descending chain of natural numbers is infinite. *)
LEMMA BeforeWellFounded == IsWellFoundedOn(Before, Nat)
BY NatLessThanWellFounded DEF OpToRel, Before

(* A set of natural numbers has a least element. *)
LEMMA Least ==
  ASSUME NEW S, S \subseteq Nat, S # {}
  PROVE  \E x \in S : \A y \in S : x <= y
<1>1. PICK x \in S : \A y \in S : ~(<<y, x>> \in Before)
  BY BeforeWellFounded, WFMin
<1>2. ASSUME NEW y \in S PROVE x <= y
  <2>1. ~(<<y, x>> \in Before) /\ x \in Nat /\ y \in Nat
    BY <1>1
  <2>2. CASE y < x
    <3>1. <<y, x>> \in Before
      BY <2>1, <2>2 DEF Before
    <3> QED BY <2>1, <3>1
  <2> QED BY <2>1, <2>2
<1> QED BY <1>2

(* What Min() chooses. *)
LEMMA MinFacts ==
  ASSUME NEW S, S \subseteq Nat, S # {}
  PROVE  Min(S) \in S /\ \A y \in S : Min(S) <= y
BY Least DEF Min

(* What Max() chooses from a bounded set. *)
LEMMA MaxFacts ==
  ASSUME NEW n \in Nat, NEW S, S \subseteq 1..n, S # {}
  PROVE  Max(S) \in S /\ \A y \in S : y <= Max(S)
<1> DEFINE T == {n - i : i \in S}
<1>1. T \subseteq Nat
  OBVIOUS
<1>2. T # {}
  <2>1. PICK i \in S : TRUE
    OBVIOUS
  <2>2. n - i \in T
    OBVIOUS
  <2> QED BY <2>2
<1>3. PICK t \in T : \A u \in T : t <= u
  <2> HIDE DEF T
  <2> QED BY <1>1, <1>2, Least
<1>4. PICK x \in S : t = n - x
  OBVIOUS
<1>5. \A y \in S : x >= y
  <2> TAKE y \in S
  <2>1. n - y \in T
    OBVIOUS
  <2> QED BY <1>3, <1>4, <2>1
<1> QED BY <1>5 DEF Max

(* A maximum is the only one. *)
LEMMA MaxIs ==
  ASSUME NEW n \in Nat, NEW S, S \subseteq 1..n, NEW x \in S, \A y \in S : y <= x
  PROVE  Max(S) = x
<1>1. Max(S) \in S /\ \A y \in S : y <= Max(S)
  BY MaxFacts
<1>2. Max(S) \in 1..n /\ x \in 1..n
  BY <1>1
<1>3. Max(S) <= x
  BY <1>1
<1>4. x <= Max(S)
  BY <1>1
<1> QED BY <1>2, <1>3, <1>4

(* How many numbers an interval has, and a set within one. *)
LEMMA IntervalSize ==
  ASSUME NEW a \in Int, NEW b \in Int, NEW S, S \subseteq a..b
  PROVE  /\ IsFiniteSet(S) /\ Cardinality(S) \in Nat
         /\ a <= b => Cardinality(S) <= b - a + 1
         /\ a <= b /\ S = a..b => Cardinality(S) = b - a + 1
<1>1. IsFiniteSet(a..b) /\ Cardinality(a..b) = IF a > b THEN 0 ELSE b - a + 1
  BY FS_Interval
<1>2. IsFiniteSet(S) /\ Cardinality(S) <= Cardinality(a..b)
  BY <1>1, FS_Subset
<1>3. Cardinality(S) \in Nat
  BY <1>2, FS_CardinalityType
<1> QED BY <1>1, <1>2, <1>3

--------------------------------------------------------------------------------
(* What the grammar says of a stream. *)

(* Bytes that the parser takes as they are; those received and parsed. *)
Sound(i) == \A j \in 1..i : stream[j].kind # "bad"
Seen == {i \in 1..pos : Sound(i)}

Of(kind, P) == {i \in P : stream[i].kind = kind}
Events(P) == {i \in P : Begins(i) \/ Completes(i)}

(* The parts of a request in their order. *)
Rank(i) == CASE stream[i].kind \in {"put", "get"} -> 0
             [] stream[i].kind = "url" -> 1
             [] stream[i].kind = "header" -> 2
             [] stream[i].kind = "end" -> 3
             [] stream[i].kind = "body" -> 4
             [] stream[i].kind = "bad" -> 5

(* A stream is a sequence of bytes. *)
LEMMA StreamBytes ==
  ASSUME stream \in Streams
  PROVE  /\ Len(stream) \in Nat
         /\ \A i \in 1..Len(stream) : stream[i] \in Bytes /\ stream[i].kind \in Kinds
         /\ \A i \in 1..Len(stream) : stream[i].digit \in 0..9 \cup {NoDigit}
<1>1. stream \in Seq(Bytes)
  BY StreamShape
<1>2. Len(stream) \in Nat /\ \A i \in 1..Len(stream) : stream[i] \in Bytes
  BY <1>1
<1> QED BY <1>2 DEF Bytes

(* The first byte begins a request, or is none. *)
LEMMA FirstByte ==
  ASSUME stream \in Streams, 1 <= Len(stream), stream[1].kind # "bad"
  PROVE  Begins(1)
<1>1. stream \in Seq(Bytes) /\ Grammatical(stream)
  BY StreamShape
<1>2. stream # <<>>
  BY <1>1
<1> QED BY <1>1, <1>2 DEF Grammatical, Begins

(* The next byte begins another request or is of the same or a later part; and the
   end of the headers comes once. *)
LEMMA NextByte ==
  ASSUME stream \in Streams, NEW i \in 1..Len(stream)-1,
         stream[i].kind # "bad", stream[i + 1].kind # "bad"
  PROVE  LET k == stream[i].kind  l == stream[i + 1].kind
         IN  /\ Begins(i) => l = "url"
             /\ k \in {"url", "header"} => l \in {"url", "header", "end"} /\ ~Begins(i + 1)
             /\ k = "header" => l \in {"header", "end"}
             /\ k \in {"end", "body"} => l = "body" \/ Begins(i + 1)
             /\ l = "body" => k \in {"end", "body"}
<1>1. Len(stream) \in Nat /\ stream[i].kind \in Kinds
  BY StreamBytes
<1>2. stream[i + 1].kind \in Follow[stream[i].kind]
  BY <1>1, StreamShape DEF Grammatical
<1>3. stream[i].kind \in {"put", "get", "url", "header", "end", "body"}
  BY <1>1 DEF Kinds
<1>4. /\ Follow["put"] = {"url", "bad"} /\ Follow["get"] = {"url", "bad"}
      /\ Follow["url"] = {"url", "header", "end", "bad"}
      /\ Follow["header"] = {"header", "end", "bad"}
      /\ Follow["end"] = {"body", "put", "get", "bad"}
      /\ Follow["body"] = {"body", "put", "get", "bad"}
  BY DEF Follow, Kinds
<1> QED BY <1>2, <1>3, <1>4 DEF Begins

(* Within a request the parts come in their order, and its headers end once. *)
LEMMA Ascends ==
  ASSUME stream \in Streams, NEW i \in 1..Len(stream), NEW j \in i..Len(stream), Sound(j),
         \A b \in i+1..j : ~Begins(b)
  PROVE  Rank(i) <= Rank(j) /\ (i < j => Rank(i) # 3 \/ Rank(j) = 4)
<1> DEFINE Good(x) == Rank(i) <= Rank(x) /\ (i < x => Rank(i) # 3 \/ Rank(x) = 4)
           Bad == {x \in i..j : ~Good(x)}
<1>0. Len(stream) \in Nat
  BY StreamBytes
<1>1. \A x \in i..j : stream[x].kind \in Kinds /\ stream[x].kind # "bad"
  BY <1>0, StreamBytes DEF Sound
<1>2. \A x \in i..j : Rank(x) \in 0..4
  BY <1>1 DEF Rank, Kinds
<1>3. Bad = {}
  <2> SUFFICES ASSUME Bad # {} PROVE FALSE
    OBVIOUS
  <2>1. PICK x \in Bad : \A y \in Bad : x <= y
    <3>1. Bad \subseteq Nat
      BY <1>0
    <3> HIDE DEF Bad
    <3> QED BY <3>1, Least
  <2>2. x # i
    BY <1>2
  <2>3. x - 1 \in i..j /\ Good(x - 1)
    BY <1>0, <2>1, <2>2
  <2>4. x - 1 \in 1..Len(stream)-1 /\ (x - 1) + 1 = x
    BY <1>0, <2>3
  <2>5. ~Begins(x)
    BY <2>1, <2>2
  <2>6. /\ stream[x - 1].kind \in {"put", "get"} => stream[x].kind = "url"
        /\ stream[x - 1].kind = "url" => stream[x].kind \in {"url", "header", "end"}
        /\ stream[x - 1].kind = "header" => stream[x].kind \in {"header", "end"}
        /\ stream[x - 1].kind \in {"end", "body"} => stream[x].kind = "body"
    BY <1>1, <2>3, <2>4, <2>5, NextByte DEF Begins
  <2>7. Rank(x - 1) <= Rank(x) /\ (Rank(x - 1) >= 3 => Rank(x) = 4)
    BY <1>1, <2>3, <2>6 DEF Rank, Kinds
  <2>8. Good(x)
    BY <1>2, <2>1, <2>3, <2>7
  <2> QED BY <2>1, <2>8
<1>4. Good(j)
  BY <1>0, <1>3
<1> QED BY <1>4

(* A body comes behind an end of headers in the same request. *)
LEMMA BodyHasEnd ==
  ASSUME stream \in Streams, NEW m \in 1..Len(stream), NEW j \in m..Len(stream),
         Begins(m), Sound(j), stream[j].kind = "body"
  PROVE  \E e \in m+1..j : stream[e].kind = "end"
<1> DEFINE B == {x \in m+1..j : stream[x].kind = "body"}
<1>1. Len(stream) \in Nat /\ j # m
  BY StreamBytes DEF Begins
<1>2. B \subseteq Nat /\ j \in B
  BY <1>1
<1>3. PICK x \in B : \A y \in B : x <= y
  <2> HIDE DEF B
  <2> QED BY <1>2, Least
<1>4. /\ x - 1 \in 1..Len(stream)-1 /\ (x - 1) + 1 = x
      /\ stream[x - 1].kind # "bad" /\ stream[x].kind # "bad"
  BY <1>1, <1>3 DEF Sound
<1>5. stream[x - 1].kind \in {"end", "body"}
  BY <1>3, <1>4, NextByte
<1>6. x - 1 # m
  BY <1>5 DEF Begins
<1>7. x - 1 \notin B /\ x - 1 \in m+1..j
  BY <1>1, <1>3, <1>6
<1> QED BY <1>5, <1>7

(* A sound byte belongs to a request: the last that began before it. *)
LEMMA MessageFacts ==
  ASSUME stream \in Streams, NEW i \in 1..Len(stream), Sound(i)
  PROVE  /\ MessageOf(i) \in 1..i /\ Begins(MessageOf(i))
         /\ \A b \in MessageOf(i)+1..i : ~Begins(b)
<1> DEFINE B == {j \in 1..i : Begins(j)}
<1>1. Len(stream) \in Nat /\ 1 \in B
  BY StreamBytes, FirstByte DEF Sound
<1>2. Max(B) \in B /\ \A y \in B : y <= Max(B)
  <2>1. B \subseteq 1..i /\ i \in Nat
    OBVIOUS
  <2> HIDE DEF B
  <2> QED BY <1>1, <2>1, MaxFacts
<1>3. MessageOf(i) = Max(B)
  BY DEF MessageOf
<1>4. ASSUME NEW b \in MessageOf(i)+1..i PROVE ~Begins(b)
  <2>1. MessageOf(i) \in 1..i
    BY <1>2, <1>3
  <2>2. b \in 1..i /\ ~(b <= MessageOf(i))
    BY <2>1
  <2> QED BY <1>2, <1>3, <2>2
<1> QED BY <1>2, <1>3, <1>4

(* And it is the only one that begins without another between. *)
LEMMA MessageIs ==
  ASSUME stream \in Streams, NEW i \in 1..Len(stream), NEW m \in 1..i, Begins(m),
         \A b \in m+1..i : ~Begins(b)
  PROVE  MessageOf(i) = m
<1> DEFINE B == {j \in 1..i : Begins(j)}
<1>1. m \in B /\ \A y \in B : y <= m
  OBVIOUS
<1>2. Max(B) = m
  <2>1. B \subseteq 1..i /\ i \in Nat
    BY StreamBytes
  <2> HIDE DEF B
  <2> QED BY <1>1, <2>1, MaxIs
<1> QED BY <1>2 DEF MessageOf

--------------------------------------------------------------------------------
(* Types. *)

(* The bytes of one call that the parser takes. *)
LEMMA ParsedFacts ==
  ASSUME TypeOK, NEW n \in 1..BufSize, pos + n <= Len(stream)
  PROVE  /\ stream \in Streams /\ Len(stream) \in Nat /\ pos \in Nat /\ offset \in Nat
         /\ Parsed(n) \subseteq pos+1..pos+n /\ Parsed(n) \subseteq 1..Len(stream)
<1>1. stream \in Streams /\ pos \in 0..Len(stream) /\ offset \in 0..BufSize-1
  BY DEF TypeOK
<1>2. Len(stream) \in Nat /\ pos \in Nat /\ offset \in Nat /\ n \in Nat
  BY <1>1, StreamBytes, ReceiveConstants
<1>3. Parsed(n) \subseteq pos+1..pos+n
  BY DEF Parsed
<1>4. pos+1..pos+n \subseteq 1..Len(stream)
  BY <1>2
<1> QED BY <1>1, <1>2, <1>3, <1>4

(* What a data callback leaves points into the part of the buffer just written. *)
LEMMA PointerInBuffer ==
  ASSUME NEW P, NEW o \in Nat, NEW q \in Nat, NEW n \in Nat,
         P \subseteq q+1..q+n, P # {}, o + n <= BufSize
  PROVE  [at |-> o + Min(P) - q - 1, len |-> Cardinality(P)] \in Ptrs
<1>1. P \subseteq Nat
  OBVIOUS
<1>2. Min(P) \in P /\ \A y \in P : Min(P) <= y
  BY <1>1, MinFacts
<1>3. PICK x \in q+1..q+n : x = Min(P) /\ x \in P /\ \A y \in P : x <= y
  BY <1>2
<1>4. P \subseteq x..q+n
  <2> SUFFICES ASSUME NEW y \in P PROVE y \in x..q+n
    OBVIOUS
  <2>1. y \in q+1..q+n /\ x <= y
    BY <1>3
  <2> QED BY <2>1
<1>5. IsFiniteSet(P) /\ Cardinality(P) \in Nat /\ Cardinality(P) <= q + n - x + 1
  <2> DEFINE b == q + n
  <2>1. x \in Int /\ b \in Int /\ x <= b /\ P \subseteq x..b
    BY <1>3, <1>4
  <2> HIDE DEF b
  <2>2. IsFiniteSet(P) /\ Cardinality(P) \in Nat /\ Cardinality(P) <= b - x + 1
    BY <2>1, IntervalSize
  <2> QED BY <2>2 DEF b
<1>6. Cardinality(P) # 0
  BY <1>5, FS_EmptySet
<1> DEFINE len == Cardinality(P)
<1>7. o + x - q - 1 \in 0..BufSize-1 /\ len \in 0..BufSize /\ (o + x - q - 1) + len <= BufSize
  <2>1. len \in Nat /\ len <= q + n - x + 1 /\ len # 0
    BY <1>5, <1>6
  <2>2. BufSize \in Nat /\ x \in Int /\ q + 1 <= x
    BY <1>3, ReceiveConstants
  <2> HIDE DEF len
  <2> QED BY <2>1, <2>2
<1> QED BY <1>3, <1>7 DEF Ptrs

(* A data callback keeps a pointer within the buffer. *)
LEMMA CallbackInBuffer ==
  ASSUME TypeOK, NEW n \in 1..(BufSize - offset), pos + n <= Len(stream),
         NEW ptr \in Ptrs, NEW kind
  PROVE  DataCallback(ptr, kind, Parsed(n)) \in Ptrs
<1> DEFINE R == LastRun(kind, Parsed(n))
<1>1. offset \in Nat /\ pos \in Nat /\ n \in 1..BufSize
  BY ReceiveConstants DEF TypeOK
<1>2. R \subseteq pos+1..pos+n
  BY <1>1, ParsedFacts DEF LastRun
<1>3. R # {} => [at |-> offset + Min(R) - pos - 1, len |-> Cardinality(R)] \in Ptrs
  <2> HIDE DEF R
  <2>1. offset + n <= BufSize /\ n \in Nat
    BY <1>1, ReceiveConstants
  <2> QED BY <1>1, <1>2, <2>1, PointerInBuffer
<1> QED BY <1>3 DEF DataCallback
(* There are at most as many messages as bytes. *)
LEMMA MessagesSize ==
  ASSUME NEW S, IsFiniteSet(S)
  PROVE  LET M == {MessageOf(i) : i \in S}
         IN  IsFiniteSet(M) /\ Cardinality(M) \in Nat /\ Cardinality(M) <= Cardinality(S)
<1> DEFINE M == {MessageOf(i) : i \in S}
           f == [i \in S |-> MessageOf(i)]
<1>1. f \in Surjection(S, M)
  BY DEF Surjection
<1>2. IsFiniteSet(M) /\ Cardinality(M) <= Cardinality(S)
  <2> HIDE DEF f, M
  <2> QED BY <1>1, FS_Surjection
<1> QED BY <1>2, FS_CardinalityType

--------------------------------------------------------------------------------
(* The parser's state follows from what it has seen: it failed if that was a byte it
   rejects; the last event decides whether a message is complete; the method is that
   of the last message whose headers are complete. *)

ParseInv ==
  /\ failed <=> \E j \in 1..pos : stream[j].kind = "bad"
  /\ received_all <=> Events(Seen) # {} /\ Completes(Max(Events(Seen)))
  /\ method = IF Of("end", Seen) = {} THEN 0 ELSE MessageOf(Max(Of("end", Seen)))
  /\ outcome = "handled" <=> received_all

(* The parser takes the bytes in front of the first that it rejects. *)
LEMMA ParsedIs ==
  ASSUME TypeOK, ParseInv, NEW n \in 1..BufSize, pos + n <= Len(stream)
  PROVE  Parsed(n) = {i \in pos+1..pos+n : Sound(i)}
<1>1. pos \in Nat
  BY ParsedFacts
<1>2. ASSUME NEW i \in pos+1..pos+n
      PROVE  Sound(i) <=> ~failed /\ \A j \in pos+1..i : stream[j].kind # "bad"
  <2>1. failed <=> \E j \in 1..pos : stream[j].kind = "bad"
    BY DEF ParseInv
  <2>2. \A j : j \in 1..i <=> j \in 1..pos \/ j \in pos+1..i
    BY <1>1
  <2> QED BY <2>1, <2>2 DEF Sound
<1> QED BY <1>2 DEF Parsed

(* Of no bytes, or the last one's message, is a message received. *)
LEMMA MessageReceived ==
  ASSUME stream \in Streams, NEW q \in Nat, q <= Len(stream), NEW S, S \subseteq 1..q, S # {},
         \A i \in S : Sound(i)
  PROVE  Max(S) \in S /\ MessageOf(Max(S)) \in 1..q
<1>1. Max(S) \in S /\ Len(stream) \in Nat
  BY MaxFacts, StreamBytes
<1>2. Max(S) \in 1..q /\ Sound(Max(S))
  BY <1>1
<1>3. Max(S) \in 1..Len(stream)
  BY <1>1, <1>2
<1>4. MessageOf(Max(S)) \in 1..Max(S)
  BY <1>2, <1>3, MessageFacts
<1> QED BY <1>1, <1>2, <1>4

(* Types are kept by what one recv() delivers. *)
LEMMA RecvTypes ==
  ASSUME TypeOK, ParseInv, NEW n \in 1..BufSize, Recv(n)
  PROVE  TypeOK'
<1> DEFINE P == Parsed(n)
<1>1. /\ n \in 1..(BufSize - offset) /\ pos + n <= Len(stream)
      /\ stream' = stream /\ junk' = junk /\ pos' = pos + n
  BY DEF Recv, env
<1>2. /\ stream \in Streams /\ Len(stream) \in Nat /\ pos \in Nat /\ offset \in Nat
      /\ P \subseteq pos+1..pos+n /\ P \subseteq 1..Len(stream) /\ n \in Nat
      /\ BufSize \in Nat \ {0}
  BY <1>1, ParsedFacts, ReceiveConstants
<1>3. P = {i \in pos+1..pos+n : Sound(i)}
  BY <1>1, ParsedIs
<1>4. pos' \in 0..Len(stream)'
  BY <1>1, <1>2
<1>5. buf' \in [0..BufSize-1 -> 0..pos']
  <2>1. buf' = [k \in 0..BufSize-1 |->
                  IF k \in offset..(offset + n - 1) THEN pos + 1 + k - offset ELSE buf[k]]
    BY DEF Recv
  <2>2. \A k \in 0..BufSize-1 : buf[k] \in 0..pos
    BY DEF TypeOK
  <2>3. ASSUME NEW k \in 0..BufSize-1
        PROVE  (IF k \in offset..(offset + n - 1) THEN pos + 1 + k - offset ELSE buf[k]) \in 0..pos+n
    BY <1>2, <2>2
  <2> QED BY <1>1, <2>1, <2>3
<1>6. offset' \in 0..BufSize-1
  <2>1. offset' = Wrap(offset + n)
    BY DEF Recv
  <2> QED BY <1>1, <1>2, <2>1 DEF Wrap
<1>7. url' \in Ptrs /\ body' \in Ptrs
  <2>1. url' = DataCallback(url, "url", P) /\ body' = DataCallback(body, "body", P)
    BY DEF Recv, Parse
  <2>2. url \in Ptrs /\ body \in Ptrs
    BY DEF TypeOK
  <2> QED BY <1>1, <2>1, <2>2, CallbackInBuffer
<1>8. method' \in 0..pos'
  <2>1. method' = HeadersComplete(P)
    BY DEF Recv, Parse
  <2>2. CASE Of("end", P) = {}
    <3>1. method' = method /\ method \in 0..pos
      BY <2>1, <2>2 DEF HeadersComplete, Of, TypeOK
    <3> QED BY <1>1, <1>2, <3>1
  <2>3. CASE Of("end", P) # {}
    <3>1. method' = MessageOf(Max(Of("end", P)))
      BY <2>1, <2>3 DEF HeadersComplete, Of
    <3>2. Of("end", P) \subseteq 1..pos+n /\ pos + n \in Nat
      BY <1>2 DEF Of
    <3>3. \A i \in Of("end", P) : Sound(i)
      BY <1>3 DEF Of
    <3>4. MessageOf(Max(Of("end", P))) \in 1..pos+n
      BY <1>1, <1>2, <2>3, <3>2, <3>3, MessageReceived
    <3> QED BY <1>1, <3>1, <3>4
  <2> QED BY <2>2, <2>3
<1>9. received_all' \in BOOLEAN /\ failed' \in BOOLEAN /\ outcome' \in {"receiving", "handled", "closed"}
  BY DEF Recv, Parse, ReceivedAll, TypeOK, Completes
<1>10. urlCalls' \in 0..pos'
  <2> DEFINE U == Of("url", P)
             M == {MessageOf(i) : i \in U}
  <2>1. urlCalls' = urlCalls + Cardinality(M) /\ urlCalls \in 0..pos
    BY DEF Recv, Parse, Of, TypeOK
  <2>2. IsFiniteSet(U) /\ Cardinality(U) <= n
    <3>1. pos + 1 <= pos + n /\ (pos + n) - (pos + 1) + 1 = n /\ pos + 1 \in Int /\ pos + n \in Int
      BY <1>2
    <3>2. U \subseteq pos+1..pos+n
      BY <1>2 DEF Of
    <3> HIDE DEF U
    <3> QED BY <3>1, <3>2, IntervalSize
  <2>3. Cardinality(M) \in Nat /\ Cardinality(M) <= Cardinality(U) /\ Cardinality(U) \in Nat
    <3> HIDE DEF U
    <3> QED BY <2>2, MessagesSize, FS_CardinalityType
  <2> HIDE DEF M, U
  <2> QED BY <1>1, <1>2, <2>1, <2>2, <2>3
<1> QED BY <1>1, <1>2, <1>4, <1>5, <1>6, <1>7, <1>8, <1>9, <1>10 DEF TypeOK

(* The maximum of two sets of which one lies above. *)
LEMMA MaxOfUnion ==
  ASSUME NEW A, NEW B, \E n \in Nat : A \subseteq 1..n /\ B \subseteq 1..n, B # {},
         \A a \in A : \A b \in B : a <= b
  PROVE  Max(A \cup B) = Max(B)
<1> PICK n \in Nat : A \subseteq 1..n /\ B \subseteq 1..n
  OBVIOUS
<1>1. Max(B) \in B /\ \A b \in B : b <= Max(B)
  BY MaxFacts
<1>2. \A y \in A \cup B : y <= Max(B)
  BY <1>1
<1>3. A \cup B \subseteq 1..n /\ Max(B) \in A \cup B
  BY <1>1
<1> QED BY <1>2, <1>3, MaxIs

(* The parser's state is kept in step with what it has seen. *)
LEMMA RecvParses ==
  ASSUME TypeOK, ParseInv, NEW n \in 1..BufSize, Recv(n)
  PROVE  ParseInv'
<1> DEFINE P == Parsed(n)
<1>1. pos + n <= Len(stream) /\ stream' = stream /\ pos' = pos + n
  BY DEF Recv, env
<1>2. /\ stream \in Streams /\ Len(stream) \in Nat /\ pos \in Nat /\ n \in Nat
      /\ P \subseteq pos+1..pos+n /\ P \subseteq 1..Len(stream)
  BY <1>1, ParsedFacts
<1>3. P = {i \in pos+1..pos+n : Sound(i)}
  BY <1>1, ParsedIs
<1>4. Seen' = Seen \cup P
  <2>1. Seen' = {i \in 1..pos+n : Sound(i)}
    BY <1>1 DEF Seen, Sound
  <2>2. \A i : i \in 1..pos+n <=> i \in 1..pos \/ i \in pos+1..pos+n
    BY <1>2
  <2> QED BY <1>3, <2>1, <2>2 DEF Seen
<1>5. /\ Seen \subseteq 1..Len(stream)
      /\ \A a \in Seen : \A b \in P : a <= b
  <2>1. pos <= Len(stream)
    BY <1>1, <1>2
  <2> QED BY <1>2, <2>1 DEF Seen
<1>6. failed' <=> \E j \in 1..pos' : stream'[j].kind = "bad"
  <2>1. failed' <=> failed \/ \E i \in pos+1..pos+n : stream[i].kind = "bad"
    BY DEF Recv, Parse
  <2>2. failed <=> \E j \in 1..pos : stream[j].kind = "bad"
    BY DEF ParseInv
  <2>3. \A i : i \in 1..pos+n <=> i \in 1..pos \/ i \in pos+1..pos+n
    BY <1>2
  <2> QED BY <1>1, <2>1, <2>2, <2>3
<1>7. received_all' <=> Events(Seen)' # {} /\ Completes(Max(Events(Seen)))'
  <2> DEFINE E == Events(Seen)
             F == Events(P)
  <2>1. Events(Seen)' = E \cup F
    BY <1>1, <1>4 DEF Events, Begins, Completes
  <2>2. \A i : Completes(i)' <=> Completes(i)
    BY <1>1 DEF Completes
  <2>3. received_all' = IF F = {} THEN received_all ELSE Completes(Max(F))
    BY DEF Recv, Parse, ReceivedAll, Events
  <2>4. received_all <=> E # {} /\ Completes(Max(E))
    BY DEF ParseInv
  <2>5. E \subseteq 1..Len(stream) /\ F \subseteq 1..Len(stream) /\ \A a \in E : \A b \in F : a <= b
    BY <1>2, <1>5 DEF Events
  <2>6. F # {} => Max(E \cup F) = Max(F)
    <3> DEFINE N == Len(stream)
    <3>1. N \in Nat /\ E \subseteq 1..N /\ F \subseteq 1..N /\ \A a \in E : \A b \in F : a <= b
      BY <1>2, <2>5
    <3> HIDE DEF E, F, N
    <3>2. ASSUME F # {} PROVE Max(E \cup F) = Max(F)
      <4>1. \E i \in Nat : E \subseteq 1..i /\ F \subseteq 1..i
        BY <3>1
      <4>2. \A a \in E : \A b \in F : a <= b
        BY <3>1
      <4> QED BY <3>2, <4>1, <4>2, MaxOfUnion
    <3> QED BY <3>2
  <2>7. Completes(Max(Events(Seen)))' <=> Completes(Max(E \cup F))
    BY <1>1, <2>1 DEF Completes
  <2> HIDE DEF E, F
  <2>8. CASE F = {}
    <3>1. E \cup F = E
      BY <2>8
    <3> QED BY <2>1, <2>3, <2>4, <2>7, <2>8, <3>1
  <2>9. CASE F # {}
    BY <2>1, <2>3, <2>6, <2>7, <2>9
  <2> QED BY <2>8, <2>9
<1>8. method' = (IF Of("end", Seen) = {} THEN 0 ELSE MessageOf(Max(Of("end", Seen))))'
  <2> DEFINE E == Of("end", Seen)
             F == Of("end", P)
  <2>1. Of("end", Seen)' = E \cup F
    BY <1>1, <1>4 DEF Of
  <2>2. method' = IF F = {} THEN method ELSE MessageOf(Max(F))
    BY DEF Recv, Parse, HeadersComplete, Of
  <2>3. method = IF E = {} THEN 0 ELSE MessageOf(Max(E))
    BY DEF ParseInv
  <2>4. E \subseteq 1..Len(stream) /\ F \subseteq 1..Len(stream) /\ \A a \in E : \A b \in F : a <= b
    BY <1>2, <1>5 DEF Of
  <2>5. F # {} => Max(E \cup F) = Max(F)
    <3> DEFINE N == Len(stream)
    <3>1. N \in Nat /\ E \subseteq 1..N /\ F \subseteq 1..N /\ \A a \in E : \A b \in F : a <= b
      BY <1>2, <2>4
    <3> HIDE DEF E, F, N
    <3>2. ASSUME F # {} PROVE Max(E \cup F) = Max(F)
      <4>1. \E i \in Nat : E \subseteq 1..i /\ F \subseteq 1..i
        BY <3>1
      <4>2. \A a \in E : \A b \in F : a <= b
        BY <3>1
      <4> QED BY <3>2, <4>1, <4>2, MaxOfUnion
    <3> QED BY <3>2
  <2>6. MessageOf(Max(Of("end", Seen)))' = MessageOf(Max(E \cup F))
    BY <1>1, <2>1 DEF MessageOf, Begins
  <2> HIDE DEF E, F
  <2>7. CASE F = {}
    <3>1. E \cup F = E
      BY <2>7
    <3> QED BY <2>1, <2>2, <2>3, <2>6, <2>7, <3>1
  <2>8. CASE F # {}
    BY <2>1, <2>2, <2>5, <2>6, <2>8
  <2> QED BY <2>7, <2>8
<1>9. outcome' = "handled" <=> received_all'
  <2>1. outcome' = IF received_all' THEN "handled" ELSE "receiving"
    BY DEF Recv
  <2> QED BY <2>1
<1> QED BY <1>6, <1>7, <1>8, <1>9 DEF ParseInv

(* Neither is disturbed when recv() ends, or by nothing. *)
LEMMA EndsKeeps ==
  ASSUME TypeOK, ParseInv, RecvEnds \/ UNCHANGED vars
  PROVE  TypeOK' /\ ParseInv'
<1>1. UNCHANGED <<stream, junk, pos, buf, offset, url, body, method, received_all, failed, urlCalls>>
  BY DEF RecvEnds, vars, env, request
<1>2. outcome' = outcome \/ (outcome = "receiving" /\ outcome' = "closed")
  BY DEF RecvEnds, vars
<1>3. TypeOK'
  BY <1>1, <1>2 DEF TypeOK
<1>4. ParseInv'
  <2>1. Seen' = Seen /\ Events(Seen)' = Events(Seen) /\ Of("end", Seen)' = Of("end", Seen)
    BY <1>1 DEF Seen, Sound, Events, Of, Begins, Completes
  <2>2. Completes(Max(Events(Seen)))' <=> Completes(Max(Events(Seen)))
    BY <1>1, <2>1 DEF Completes
  <2>3. MessageOf(Max(Of("end", Seen)))' = MessageOf(Max(Of("end", Seen)))
    BY <1>1, <2>1 DEF MessageOf, Begins
  <2>4. outcome' = "handled" <=> outcome = "handled"
    BY <1>2
  <2> QED BY <1>1, <2>1, <2>2, <2>3, <2>4 DEF ParseInv
<1> QED BY <1>3, <1>4

(* Nothing was received yet. *)
LEMMA InitParses == Init => TypeOK /\ ParseInv
<1> SUFFICES ASSUME Init PROVE TypeOK /\ ParseInv
  OBVIOUS
<1>1. Len(stream) \in Nat
  BY StreamBytes DEF Init
<1>2. Null \in Ptrs
  BY ReceiveConstants DEF Null, Ptrs
<1>3. TypeOK
  <2>1. buf \in [0..BufSize-1 -> 0..pos]
    BY DEF Init
  <2>2. pos \in 0..Len(stream) /\ offset \in 0..BufSize-1 /\ method \in 0..pos /\ urlCalls \in 0..pos
    BY <1>1, ReceiveConstants DEF Init
  <2> QED BY <1>2, <2>1, <2>2 DEF TypeOK, Init
<1>4. Seen = {} /\ Events(Seen) = {} /\ Of("end", Seen) = {}
  BY DEF Init, Seen, Events, Of
<1>5. ParseInv
  BY <1>4 DEF ParseInv, Init
<1> QED BY <1>3, <1>5
(* A handled request: its first byte m, its last byte e and nothing that began behind. *)
LEMMA HandledMessage ==
  ASSUME TypeOK, ParseInv, outcome = "handled"
  PROVE  \E e \in 1..pos :
           /\ Completes(e) /\ Sound(e) /\ MessageOf(e) \in 1..e /\ MessageOf(e) = method
           /\ Begins(method)
           /\ \A i \in method+1..pos : Begins(i) => ~Sound(i)
<1> DEFINE E == Events(Seen)
           e == Max(E)
           m == MessageOf(e)
           X == Of("end", Seen)
           x == Max(X)
<1>1. stream \in Streams /\ Len(stream) \in Nat /\ pos \in 0..Len(stream)
  BY StreamBytes DEF TypeOK
<1>2. E # {} /\ Completes(e)
  BY DEF ParseInv
<1>3. E \subseteq 1..pos /\ pos \in Nat
  BY <1>1 DEF Events, Seen
<1>4. e \in E /\ \A y \in E : y <= e
  <2> HIDE DEF E
  <2> QED BY <1>2, <1>3, MaxFacts
<1>5. e \in 1..pos /\ e \in 1..Len(stream) /\ Sound(e)
  BY <1>1, <1>4 DEF Events, Seen
<1>6. m \in 1..e /\ Begins(m) /\ \A b \in m+1..e : ~Begins(b)
  <2> HIDE DEF E, e
  <2>1. stream \in Streams /\ e \in 1..Len(stream) /\ Sound(e)
    BY <1>1, <1>5
  <2> QED BY <2>1, MessageFacts
<1>7. \A i \in m+1..pos : Begins(i) => ~Sound(i)
  <2> SUFFICES ASSUME NEW i \in m+1..pos, Begins(i), Sound(i) PROVE FALSE
    OBVIOUS
  <2>1. i \in Seen /\ i \in E
    BY <1>1, <1>6 DEF Seen, Events
  <2>2. i <= e
    BY <1>4, <2>1
  <2>3. i \in m+1..e
    BY <1>5, <2>2
  <2> QED BY <1>6, <2>3
<1>8. PICK y \in m+1..e : stream[y].kind = "end"
  <2>1. CASE stream[e].kind = "end"
    <3>1. e # m
      BY <1>6, <2>1 DEF Begins
    <3> QED BY <1>5, <1>6, <2>1, <3>1
  <2>2. CASE stream[e].kind = "body"
    <3>1. m \in 1..Len(stream) /\ e \in m..Len(stream)
      BY <1>1, <1>5, <1>6
    <3> HIDE DEF E, e, m
    <3> QED BY <1>1, <1>5, <1>6, <2>2, <3>1, BodyHasEnd
  <2> QED BY <1>2, <2>1, <2>2 DEF Completes
<1>9. y \in X
  BY <1>1, <1>5, <1>6, <1>8 DEF Of, Seen, Sound
<1>10. x \in X /\ \A z \in X : z <= x
  <2>1. X \subseteq 1..pos
    BY DEF Of, Seen
  <2> HIDE DEF X
  <2> QED BY <1>3, <1>9, <2>1, MaxFacts
<1>11. x \in 1..pos /\ x \in 1..Len(stream) /\ Sound(x) /\ y <= x
  BY <1>1, <1>9, <1>10 DEF Of, Seen
<1>12. \A b \in m+1..x : ~Begins(b)
  <2> SUFFICES ASSUME NEW b \in m+1..x, Begins(b) PROVE FALSE
    OBVIOUS
  <2>1. m \in Nat /\ x \in 1..pos /\ pos \in Nat
    BY <1>3, <1>5, <1>6, <1>11
  <2>2. b \in m+1..pos /\ b <= x
    <3> HIDE DEF m, x
    <3> QED BY <2>1
  <2>3. Sound(b)
    <3> HIDE DEF m, x
    <3> QED BY <1>11, <2>1, <2>2 DEF Sound
  <2> QED BY <1>7, <2>2, <2>3
<1>13. MessageOf(x) = m
  <2>1. m \in 1..x
    BY <1>5, <1>6, <1>8, <1>11
  <2> HIDE DEF E, e, X, x, m
  <2> QED BY <1>1, <1>6, <1>11, <1>12, <2>1, MessageIs
<1>14. method = m
  BY <1>9, <1>13 DEF ParseInv
<1> HIDE DEF E, e, X, x
<1> QED BY <1>2, <1>5, <1>6, <1>7, <1>14

(* What holds in every state: types, and the parser in step with what it has seen. *)
LEMMA ParserInStep == Spec => [](TypeOK /\ ParseInv)
<1>1. ASSUME TypeOK, ParseInv, [Next]_vars PROVE TypeOK' /\ ParseInv'
  <2>1. CASE RecvEnds \/ UNCHANGED vars
    BY <1>1, <2>1, EndsKeeps
  <2>2. ASSUME NEW n \in 1..BufSize, Recv(n) PROVE TypeOK' /\ ParseInv'
    BY <1>1, <2>2, RecvTypes, RecvParses
  <2> QED BY <1>1, <2>1, <2>2 DEF Next
<1>2. Init => TypeOK /\ ParseInv
  BY InitParses
<1> QED BY <1>1, <1>2, PTL DEF Spec

(* Every variable has its type: above all, the offset at which recv() writes and the
   pointers that the callbacks leave stay within the buffer, however the stream is cut
   and the buffer wraps round. *)
THEOREM TypeCorrect == Spec => []TypeOK
BY ParserInStep, PTL

(* A request is handled only when it was received to its last byte, with its own
   method, and when no other has begun behind it: whatever stream the grammar allows,
   however it is cut, pipelined requests and streams with a bad byte included. *)
THEOREM CompleteWhenHandled == Spec => []HandledIsComplete
<1>1. TypeOK /\ ParseInv => HandledIsComplete
  <2> SUFFICES ASSUME TypeOK, ParseInv, outcome = "handled"
               PROVE  /\ method > 0
                      /\ \E i \in method..pos : Completes(i) /\ MessageOf(i) = method
                      /\ \A i \in method+1..pos : Begins(i) => failed
    BY DEF HandledIsComplete
  <2>1. PICK e \in 1..pos :
          /\ Completes(e) /\ Sound(e) /\ MessageOf(e) \in 1..e /\ MessageOf(e) = method
          /\ Begins(method)
          /\ \A i \in method+1..pos : Begins(i) => ~Sound(i)
    BY HandledMessage
  <2>2. pos \in Nat /\ method \in 1..e /\ e \in method..pos
    BY <2>1, StreamBytes DEF TypeOK
  <2>3. ASSUME NEW i \in method+1..pos, Begins(i) PROVE failed
    <3>1. ~Sound(i)
      BY <2>1, <2>3
    <3>2. \E j \in 1..pos : stream[j].kind = "bad"
      BY <2>2, <3>1 DEF Sound
    <3> QED BY <3>2 DEF ParseInv
  <2> QED BY <2>1, <2>2, <2>3
<1> QED BY <1>1, ParserInStep, PTL
--------------------------------------------------------------------------------
(* One request, sent whole. *)

(* All of it is taken, and all of it belongs to the message that begins at byte 1. *)
LEMMA SingleFacts ==
  ASSUME stream \in Streams, Single
  PROVE  /\ Len(stream) \in Nat \ {0}
         /\ \A i \in 1..Len(stream) : Sound(i) /\ MessageOf(i) = 1
         /\ \A i \in 2..Len(stream) : ~Begins(i)
<1>1. Len(stream) \in Nat
  BY StreamBytes
<1>2. Len(stream) # 0
  <2>1. stream \in Seq(Bytes) /\ stream # <<>>
    BY StreamShape DEF Single
  <2> QED BY <2>1
<1>3. \A i \in 1..Len(stream) : Sound(i)
  BY <1>1 DEF Single, WellFormed, Sound
<1>4. \A i \in 2..Len(stream) : ~Begins(i)
  BY <1>1 DEF Single
<1>5. ASSUME NEW i \in 1..Len(stream) PROVE MessageOf(i) = 1
  <2>1. MessageOf(i) \in 1..i /\ Begins(MessageOf(i))
    BY <1>3, MessageFacts
  <2>2. MessageOf(i) \in 1..Len(stream)
    BY <1>1, <2>1
  <2> QED BY <2>1, <2>2 DEF Single
<1> QED BY <1>1, <1>2, <1>3, <1>4, <1>5

(* It is complete with its last byte, and not before. *)
LEMMA SingleHandled ==
  ASSUME TypeOK, ParseInv, Single
  PROVE  outcome = "handled" <=> pos = Len(stream)
<1>1. stream \in Streams /\ Len(stream) \in Nat \ {0} /\ pos \in 0..Len(stream)
  BY SingleFacts DEF TypeOK
<1>2. ASSUME outcome = "handled" PROVE pos = Len(stream)
  <2>1. PICK e \in 1..pos : Completes(e)
    BY <1>2, HandledMessage
  <2>2. SUFFICES ASSUME e # Len(stream) PROVE FALSE
    BY <1>1, <2>1
  <2>3. e \in 1..Len(stream)-1 /\ e + 1 \in 2..Len(stream) /\ e \in 1..Len(stream)
    BY <1>1, <2>1, <2>2
  <2>4. stream[e].kind \in {"end", "body"} /\ stream[e + 1].kind # "body"
    BY <2>1, <2>3 DEF Completes
  <2>5. stream[e].kind # "bad" /\ stream[e + 1].kind # "bad"
    BY <1>1, <2>3 DEF Single, WellFormed
  <2>6. Begins(e + 1)
    BY <1>1, <2>3, <2>4, <2>5, NextByte
  <2> QED BY <1>1, <2>3, <2>6, SingleFacts
<1>3. ASSUME pos = Len(stream) PROVE outcome = "handled"
  <2> DEFINE E == Events(Seen)
             N == Len(stream)
  <2>1. N \in Seen /\ Completes(N)
    BY <1>1, <1>3, SingleFacts DEF Seen, Single
  <2>2. N \in E /\ E \subseteq 1..N
    BY <1>3, <2>1 DEF Events, Seen
  <2>3. Max(E) = N
    <3>1. N \in Nat /\ \A y \in E : y <= N
      BY <1>1, <2>2
    <3> HIDE DEF E, N
    <3> QED BY <2>2, <3>1, MaxIs
  <2> QED BY <2>1, <2>2, <2>3 DEF ParseInv
<1> QED BY <1>2, <1>3

(* A request that comes alone is handled as soon as its last byte was received,
   however recv() cuts it and whether or not the buffer wraps round. *)
THEOREM HandledWithLastByte == Spec => []HandledAtLastByte
<1>1. TypeOK /\ ParseInv => HandledAtLastByte
  BY SingleHandled DEF HandledAtLastByte
<1> QED BY <1>1, ParserInStep, PTL

(* Its URL stands together, and so does its body. *)
LEMMA KindIsTogether ==
  ASSUME stream \in Streams, Single, NEW kind \in {"url", "body"},
         NEW i \in 1..Len(stream), NEW j \in i..Len(stream), NEW c \in i..j,
         stream[i].kind = kind, stream[j].kind = kind
  PROVE  stream[c].kind = kind
<1>1. Len(stream) \in Nat /\ j \in 1..Len(stream) /\ c \in 1..Len(stream)
  BY StreamBytes
<1>2. \A b \in i+1..j : ~Begins(b)
  BY <1>1, SingleFacts
<1>3. Sound(j) /\ Sound(c)
  BY <1>1, SingleFacts
<1>4. Rank(i) <= Rank(c)
  <2>1. c \in i..Len(stream) /\ \A b \in i+1..c : ~Begins(b)
    BY <1>1, <1>2
  <2> QED BY <1>3, <2>1, Ascends
<1>5. Rank(c) <= Rank(j)
  <2>1. j \in c..Len(stream) /\ \A b \in c+1..j : ~Begins(b)
    BY <1>1, <1>2
  <2> QED BY <1>1, <1>3, <2>1, Ascends
<1>6. stream[c].kind \in Kinds
  BY <1>1, StreamBytes
<1>7. Rank(c) \in 0..5 /\ Rank(i) = (IF kind = "url" THEN 1 ELSE 4) /\ Rank(j) = Rank(i)
  BY <1>6 DEF Rank, Kinds
<1>8. Rank(c) = (IF kind = "url" THEN 1 ELSE 4)
  BY <1>4, <1>5, <1>7
<1> QED BY <1>6, <1>8 DEF Rank, Kinds
(* A pointer that on_url or on_body left, while the buffer has not wrapped: to the
   bytes of its kind among the first q, from some byte on. *)
PointsAt(p, kind, q) ==
  IF Of(kind, 1..q) = {} THEN p = Null
  ELSE /\ p.at + 1 \in Of(kind, 1..q)
       /\ {i \in Of(kind, 1..q) : i >= p.at + 1} = (p.at + 1)..(p.at + p.len)

(* While a request that fits the buffer is received, byte i stands in cell i - 1. *)
SingleInv ==
  Single /\ Fits =>
    /\ pos < BufSize => offset = pos
    /\ \A k \in 0..BufSize-1 : buf[k] = IF k < pos THEN k + 1 ELSE 0
    /\ PointsAt(url, "url", pos) /\ PointsAt(body, "body", pos)
    /\ urlCalls = 0 => Of("url", 1..pos) = {}
    /\ urlCalls = 1 => \A i \in Of("url", 1..pos) : i >= url.at + 1

(* The bytes of one kind that one recv() delivers are an interval. *)
LEMMA RunIsInterval ==
  ASSUME stream \in Streams, Single, NEW kind \in {"url", "body"}, NEW R, R # {},
         \E q \in Nat, n \in Nat : q + n <= Len(stream) /\ R = Of(kind, q+1..q+n)
  PROVE  Min(R) \in R /\ R = Min(R)..(Min(R) - 1 + Cardinality(R))
<1> PICK q \in Nat, n \in Nat : q + n <= Len(stream) /\ R = Of(kind, q+1..q+n)
  OBVIOUS
<1> DEFINE a == Min(R)
           b == Max(R)
<1>1. R \subseteq q+1..q+n /\ R \subseteq 1..q+n /\ q + n \in Nat /\ Len(stream) \in Nat
  BY StreamBytes DEF Of
<1>2. a \in R /\ \A y \in R : a <= y
  <2>1. R \subseteq Nat /\ R # {}
    BY <1>1
  <2> QED BY <2>1, MinFacts
<1>3. b \in R /\ \A y \in R : y <= b
  <2>1. R \subseteq 1..q+n /\ R # {} /\ q + n \in Nat
    BY <1>1
  <2> QED BY <2>1, MaxFacts
<1>4. /\ a \in q+1..q+n /\ b \in q+1..q+n /\ a <= b
      /\ stream[a].kind = kind /\ stream[b].kind = kind
  BY <1>1, <1>2, <1>3 DEF Of
<1>5. R = a..b
  <2>1. ASSUME NEW c \in a..b PROVE c \in R
    <3>1. a \in 1..Len(stream) /\ b \in a..Len(stream)
      BY <1>1, <1>4
    <3>2. stream[c].kind = kind
      <4> HIDE DEF a, b
      <4> QED BY <1>4, <3>1, KindIsTogether
    <3>3. c \in q+1..q+n
      BY <1>4
    <3> QED BY <3>2, <3>3 DEF Of
  <2>2. ASSUME NEW c \in R PROVE c \in a..b
    <3>1. c \in q+1..q+n /\ a <= c /\ c <= b
      BY <1>1, <1>2, <1>3
    <3> HIDE DEF a, b
    <3> QED BY <1>4, <3>1
  <2> HIDE DEF a, b
  <2> QED BY <2>1, <2>2
<1>6. Cardinality(R) = b - a + 1
  <2>1. a \in Int /\ b \in Int /\ a <= b
    BY <1>4
  <2> HIDE DEF a, b
  <2> QED BY <1>5, <2>1, IntervalSize
<1>7. b = a - 1 + Cardinality(R)
  <2> DEFINE r == Cardinality(R)
  <2>1. a \in Int /\ b \in Int /\ r = b - a + 1
    BY <1>4, <1>6
  <2> HIDE DEF a, b, r
  <2>2. b = a - 1 + r
    BY <2>1
  <2> QED BY <2>2 DEF r
<1> QED BY <1>2, <1>4, <1>5, <1>7

(* What a data callback does to its pointer then. *)
LEMMA CallbackPoints ==
  ASSUME TypeOK, ParseInv, Single, Fits, NEW n \in 1..BufSize, pos + n <= Len(stream),
         offset = pos, NEW kind \in {"url", "body"}, NEW ptr
  PROVE  LET R == Of(kind, pos+1..pos+n)
         IN  /\ Of(kind, Parsed(n)) = R
             /\ R = {} => DataCallback(ptr, kind, Parsed(n)) = ptr
             /\ R # {} =>
                  /\ DataCallback(ptr, kind, Parsed(n)) = [at |-> Min(R) - 1, len |-> Cardinality(R)]
                  /\ Min(R) \in R /\ Min(R) \in pos+1..pos+n
                  /\ R = Min(R)..(Min(R) - 1 + Cardinality(R))
<1> DEFINE R == Of(kind, pos+1..pos+n)
<1>1. stream \in Streams /\ Len(stream) \in Nat /\ pos \in Nat /\ n \in Nat
  BY ParsedFacts
<1>2. Parsed(n) = pos+1..pos+n
  <2>1. \A i \in pos+1..pos+n : Sound(i)
    BY <1>1, SingleFacts
  <2> QED BY <2>1, ParsedIs
<1>3. Of(kind, Parsed(n)) = R
  BY <1>2
<1>4. LastRun(kind, Parsed(n)) = R
  <2>1. R \subseteq 1..pos+n /\ R \subseteq 1..Len(stream) /\ pos + n \in Nat
    BY <1>1 DEF Of
  <2>2. \A i \in R : MessageOf(i) = 1
    BY <1>1, <2>1, SingleFacts
  <2>3. R # {} => Max(R) \in R
    <3> HIDE DEF R
    <3> QED BY <2>1, MaxFacts
  <2>4. LastRun(kind, Parsed(n)) = {i \in R : MessageOf(i) = MessageOf(Max(R))}
    BY <1>2 DEF LastRun, Of
  <2> HIDE DEF R
  <2> QED BY <2>2, <2>3, <2>4
<1>5. R = {} => DataCallback(ptr, kind, Parsed(n)) = ptr
  BY <1>4 DEF DataCallback
<1>6. ASSUME R # {}
      PROVE  /\ DataCallback(ptr, kind, Parsed(n)) = [at |-> Min(R) - 1, len |-> Cardinality(R)]
             /\ Min(R) \in R /\ Min(R) \in pos+1..pos+n
             /\ R = Min(R)..(Min(R) - 1 + Cardinality(R))
  <2>1. /\ Min(R) \in R /\ Min(R) \in pos+1..pos+n
        /\ R = Min(R)..(Min(R) - 1 + Cardinality(R))
    <3>1. \E q \in Nat, l \in Nat : q + l <= Len(stream) /\ R = Of(kind, q+1..q+l)
      BY <1>1
    <3> HIDE DEF R
    <3>2. Min(R) \in R /\ R = Min(R)..(Min(R) - 1 + Cardinality(R))
      BY <1>1, <1>6, <3>1, RunIsInterval
    <3>3. Min(R) \in pos+1..pos+n
      BY <3>2 DEF R, Of
    <3> QED BY <3>2, <3>3
  <2>2. DataCallback(ptr, kind, Parsed(n)) = [at |-> offset + Min(R) - pos - 1, len |-> Cardinality(R)]
    BY <1>4, <1>6 DEF DataCallback
  <2>3. offset + Min(R) - pos - 1 = Min(R) - 1
    <3> DEFINE x == Min(R)
    <3>1. x \in Int
      BY <1>1, <2>1
    <3> HIDE DEF x
    <3>2. offset + x - pos - 1 = x - 1
      BY <1>1, <3>1
    <3> QED BY <3>2 DEF x
  <2> QED BY <2>1, <2>2, <2>3
<1> QED BY <1>3, <1>5, <1>6
(* A pointer goes on pointing to the last bytes of its kind. *)
LEMMA CallbackKeepsPoint ==
  ASSUME TypeOK, ParseInv, Single, Fits, NEW n \in 1..BufSize, pos + n <= Len(stream),
         offset = pos, NEW kind \in {"url", "body"}, NEW ptr, PointsAt(ptr, kind, pos)
  PROVE  PointsAt(DataCallback(ptr, kind, Parsed(n)), kind, pos + n)
<1> DEFINE R == Of(kind, pos+1..pos+n)
           Q == Of(kind, 1..pos)
           A == Of(kind, 1..pos+n)
           p == DataCallback(ptr, kind, Parsed(n))
<1>1. pos \in Nat /\ n \in Nat
  BY ParsedFacts
<1>2. A = Q \cup R /\ \A i \in Q : i <= pos
  <2>1. \A i : i \in 1..pos+n <=> i \in 1..pos \/ i \in pos+1..pos+n
    BY <1>1
  <2> QED BY <1>1, <2>1 DEF Of
<1>3. /\ R = {} => p = ptr
      /\ R # {} => /\ p = [at |-> Min(R) - 1, len |-> Cardinality(R)]
                   /\ Min(R) \in R /\ Min(R) \in pos+1..pos+n
                   /\ R = Min(R)..(Min(R) - 1 + Cardinality(R))
  BY CallbackPoints
<1>4. R \subseteq Int
  BY <1>1 DEF Of
<1>5. CASE R = {}
  <2>1. A = Q /\ p = ptr
    BY <1>2, <1>3, <1>5
  <2>2. PointsAt(p, kind, pos + n)
    <3> HIDE DEF p
    <3> QED BY <2>1 DEF PointsAt
  <2> QED BY <2>2
<1>6. CASE R # {}
  <2> DEFINE x == Min(R)
             r == Cardinality(R)
  <2>1. /\ p.at = x - 1 /\ p.len = r /\ x \in R /\ x \in pos+1..pos+n
        /\ R = x..(x - 1 + r)
    BY <1>3, <1>6
  <2>2. x - 1 + 1 = x /\ x > pos
    <3> HIDE DEF x
    <3> QED BY <1>1, <2>1
  <2>3. {i \in A : i >= x} = R
    <3>1. \A i \in Q : ~(i >= x)
      <4> HIDE DEF x, R
      <4> QED BY <1>1, <1>2, <2>1, <2>2 DEF Of
    <3>2. \A i \in R : i >= x
      <4> SUFFICES ASSUME NEW i \in R PROVE i >= x
        OBVIOUS
      <4>1. i \in x..(x - 1 + r)
        BY <2>1
      <4> HIDE DEF x, r, R
      <4> QED BY <4>1
    <3> HIDE DEF x, Q, R, A
    <3> QED BY <1>2, <3>1, <3>2
  <2>4. A # {} /\ x \in A
    BY <1>2, <2>1
  <2>5. PointsAt(p, kind, pos + n)
    <3> HIDE DEF x, r, R, p
    <3>1. p.at + 1 = x
      BY <2>1, <2>2
    <3>2. p.at + p.len = x - 1 + r
      BY <2>1
    <3> QED BY <2>1, <2>3, <2>4, <3>1, <3>2 DEF PointsAt
  <2> QED BY <2>5
<1> QED BY <1>5, <1>6

(* Byte i stands in cell i - 1 when the next bytes were received, too. *)
LEMMA RecvSingle ==
  ASSUME TypeOK, ParseInv, SingleInv, NEW n \in 1..BufSize, Recv(n)
  PROVE  SingleInv'
<1>1. /\ pos + n <= Len(stream) /\ stream' = stream /\ pos' = pos + n
      /\ url' = DataCallback(url, "url", Parsed(n))
      /\ body' = DataCallback(body, "body", Parsed(n))
      /\ urlCalls' = urlCalls + Cardinality({MessageOf(i) : i \in Of("url", Parsed(n))})
  BY DEF Recv, Parse, env, Of
<1>2. (Single /\ Fits)' <=> Single /\ Fits
  BY <1>1 DEF Single, WellFormed, Completes, Begins, Fits
<1>3. SUFFICES ASSUME Single, Fits
               PROVE  (/\ pos < BufSize => offset = pos
                       /\ \A k \in 0..BufSize-1 : buf[k] = IF k < pos THEN k + 1 ELSE 0
                       /\ PointsAt(url, "url", pos) /\ PointsAt(body, "body", pos)
                       /\ urlCalls = 0 => Of("url", 1..pos) = {}
                       /\ urlCalls = 1 => \A i \in Of("url", 1..pos) : i >= url.at + 1)'
  BY <1>2 DEF SingleInv
<1>4. /\ stream \in Streams /\ Len(stream) \in Nat /\ pos \in Nat /\ n \in Nat
      /\ BufSize \in Nat /\ Len(stream) <= BufSize
  <2>1. stream \in Streams /\ Len(stream) \in Nat /\ pos \in Nat
    BY <1>1, ParsedFacts
  <2>2. n \in Nat /\ BufSize \in Nat
    BY ReceiveConstants
  <2> QED BY <1>3, <2>1, <2>2 DEF Fits
<1>5. offset = pos
  <2>1. pos < BufSize
    BY <1>1, <1>4
  <2> QED BY <1>3, <2>1 DEF SingleInv
<1>6. pos' < BufSize => offset' = pos'
  <2>1. offset' = Wrap(offset + n)
    BY DEF Recv
  <2> QED BY <1>1, <1>4, <1>5, <2>1 DEF Wrap
<1>7. \A k \in 0..BufSize-1 : buf'[k] = IF k < pos' THEN k + 1 ELSE 0
  <2> SUFFICES ASSUME NEW k \in 0..BufSize-1
               PROVE  buf'[k] = IF k < pos' THEN k + 1 ELSE 0
    OBVIOUS
  <2>1. buf'[k] = IF k \in offset..(offset + n - 1) THEN pos + 1 + k - offset ELSE buf[k]
    BY DEF Recv
  <2>2. buf[k] = IF k < pos THEN k + 1 ELSE 0
    BY <1>3 DEF SingleInv
  <2> QED BY <1>1, <1>4, <1>5, <2>1, <2>2
<1>8. \A p, kind : PointsAt(p, kind, pos)' <=> PointsAt(p', kind, pos + n)
  BY <1>1 DEF PointsAt, Of
<1>9. PointsAt(url', "url", pos + n) /\ PointsAt(body', "body", pos + n)
  <2>1. PointsAt(url, "url", pos) /\ PointsAt(body, "body", pos)
    BY <1>3 DEF SingleInv
  <2> QED BY <1>1, <1>3, <1>5, <2>1, CallbackKeepsPoint
<1>10. /\ urlCalls' = 0 => Of("url", 1..pos)' = {}
       /\ urlCalls' = 1 => \A i \in Of("url", 1..pos)' : i >= url'.at + 1
  <2> DEFINE R == Of("url", pos+1..pos+n)
             Q == Of("url", 1..pos)
             A == Of("url", 1..pos)'
             M == {MessageOf(i) : i \in R}
  <2>1. A = Q \cup R /\ R \subseteq 1..Len(stream) /\ R \subseteq Nat
    <3>1. \A i : i \in 1..pos+n <=> i \in 1..pos \/ i \in pos+1..pos+n
      BY <1>4
    <3>2. \A i \in pos+1..pos+n : i \in 1..Len(stream)
      BY <1>1, <1>4
    <3> QED BY <1>1, <3>1, <3>2 DEF Of
  <2>2. /\ Of("url", Parsed(n)) = R
        /\ R = {} => url' = url
        /\ R # {} => url' = [at |-> Min(R) - 1, len |-> Cardinality(R)]
    BY <1>1, <1>3, <1>5, CallbackPoints
  <2>3. urlCalls' = urlCalls + Cardinality(M) /\ urlCalls \in Nat
    <3>1. urlCalls \in Nat
      BY <1>4 DEF TypeOK
    <3> QED BY <1>1, <2>2, <3>1
  <2>4. /\ urlCalls = 0 => Q = {}
        /\ urlCalls = 1 => \A i \in Q : i >= url.at + 1
    BY <1>3 DEF SingleInv
  <2>5. CASE R = {}
    <3>1. M = {} /\ A = Q /\ url' = url
      BY <2>1, <2>2, <2>5
    <3>2. urlCalls' = urlCalls
      <4>1. Cardinality(M) = 0
        BY <3>1, FS_EmptySet
      <4> QED BY <2>3, <4>1
    <3> HIDE DEF A, Q
    <3>3. /\ urlCalls' = 0 => A = {}
          /\ urlCalls' = 1 => \A i \in A : i >= url'.at + 1
      BY <2>4, <3>1, <3>2
    <3> QED BY <3>3 DEF A
  <2>6. CASE R # {}
    <3>1. M = {1}
      <4>1. \A i \in R : MessageOf(i) = 1
        BY <1>3, <1>4, <2>1, SingleFacts
      <4> HIDE DEF R
      <4> QED BY <2>6, <4>1
    <3>2. urlCalls' = urlCalls + 1
      <4>1. Cardinality(M) = 1
        BY <3>1, FS_Singleton
      <4> QED BY <2>3, <4>1
    <3>3. Min(R) \in R /\ \A i \in R : Min(R) <= i
      <4> HIDE DEF R
      <4> QED BY <2>1, <2>6, MinFacts
    <3> DEFINE x == Min(R)
    <3>4. url'.at = x - 1 /\ x \in Nat /\ R \subseteq Nat /\ \A i \in R : x <= i
      BY <2>1, <2>2, <2>6, <3>3
    <3>5. urlCalls' = 0 => FALSE
      BY <2>3, <3>2
    <3>6. ASSUME urlCalls' = 1 PROVE \A i \in A : i >= url'.at + 1
      <4>1. urlCalls = 0
        BY <2>3, <3>2, <3>6
      <4>2. A = R
        BY <2>1, <2>4, <4>1
      <4>3. ASSUME NEW i \in R PROVE i >= url'.at + 1
        <5>1. i \in Nat /\ x <= i
          BY <3>4, <4>3
        <5> HIDE DEF x, R
        <5> QED BY <3>4, <5>1
      <4> HIDE DEF A, R
      <4> QED BY <4>2, <4>3
    <3> QED BY <3>5, <3>6
  <2> QED BY <2>5, <2>6
<1> QED BY <1>1, <1>6, <1>7, <1>8, <1>9, <1>10
(* SingleInv holds in every state, too. *)
LEMMA SingleInStep == Spec => [](TypeOK /\ ParseInv /\ SingleInv)
<1>1. Init => SingleInv
  <2> SUFFICES ASSUME Init, Single, Fits
               PROVE  /\ pos < BufSize => offset = pos
                      /\ \A k \in 0..BufSize-1 : buf[k] = IF k < pos THEN k + 1 ELSE 0
                      /\ PointsAt(url, "url", pos) /\ PointsAt(body, "body", pos)
                      /\ urlCalls = 0 => Of("url", 1..pos) = {}
                      /\ urlCalls = 1 => \A i \in Of("url", 1..pos) : i >= url.at + 1
    BY DEF SingleInv
  <2>1. pos = 0 /\ offset = 0 /\ url = Null /\ body = Null /\ urlCalls = 0
    BY DEF Init
  <2>2. Of("url", 1..pos) = {} /\ Of("body", 1..pos) = {}
    BY <2>1 DEF Of
  <2>3. \A k \in 0..BufSize-1 : buf[k] = IF k < pos THEN k + 1 ELSE 0
    BY <2>1, ReceiveConstants DEF Init
  <2> QED BY <2>1, <2>2, <2>3 DEF PointsAt
<1>2. ASSUME TypeOK, ParseInv, SingleInv, [Next]_vars PROVE TypeOK' /\ ParseInv' /\ SingleInv'
  <2>1. CASE RecvEnds \/ UNCHANGED vars
    <3>1. UNCHANGED <<stream, pos, buf, offset, url, body, urlCalls>>
      BY <2>1 DEF RecvEnds, vars, env, request
    <3>2. SingleInv'
      BY <1>2, <3>1 DEF SingleInv, Single, WellFormed, Completes, Begins, Fits, PointsAt, Of
    <3> QED BY <1>2, <2>1, <3>2, EndsKeeps
  <2>2. ASSUME NEW n \in 1..BufSize, Recv(n) PROVE TypeOK' /\ ParseInv' /\ SingleInv'
    BY <1>2, <2>2, RecvTypes, RecvParses, RecvSingle
  <2> QED BY <1>2, <2>1, <2>2 DEF Next
<1> QED BY <1>1, <1>2, InitParses, PTL DEF Spec

(* An interval in ascending order. *)
LEMMA AscendingInterval ==
  ASSUME NEW a \in Nat, NEW l \in Nat
  PROVE  Ascending((a + 1)..(a + l)) = [k \in 1..l |-> a + k]
<1> DEFINE S == (a + 1)..(a + l)
<1>1. Cardinality(S) = l
  <2>1. Cardinality(S) = IF a + 1 > a + l THEN 0 ELSE (a + l) - (a + 1) + 1
    <3>1. a + 1 \in Int /\ a + l \in Int
      OBVIOUS
    <3> QED BY <3>1, FS_Interval
  <2> QED BY <2>1
<1>2. ASSUME NEW i \in S PROVE Cardinality({j \in S : j <= i}) = i - a
  <2>1. {j \in S : j <= i} = (a + 1)..i
    OBVIOUS
  <2>2. Cardinality((a + 1)..i) = IF a + 1 > i THEN 0 ELSE i - (a + 1) + 1
    <3>1. a + 1 \in Int /\ i \in Int
      OBVIOUS
    <3> QED BY <3>1, FS_Interval
  <2>3. (IF a + 1 > i THEN 0 ELSE i - (a + 1) + 1) = i - a
    OBVIOUS
  <2> HIDE DEF S
  <2> QED BY <2>1, <2>2, <2>3
<1>3. ASSUME NEW k \in 1..l
      PROVE  (CHOOSE i \in S : Cardinality({j \in S : j <= i}) = k) = a + k
  <2> DEFINE C(i) == Cardinality({j \in S : j <= i})
  <2>1. a + k \in S /\ \A i \in S : i - a = k <=> i = a + k
    OBVIOUS
  <2>2. \A i \in S : C(i) = k <=> i = a + k
    <3>1. \A i \in S : C(i) = i - a
      BY <1>2
    <3> HIDE DEF C, S
    <3> QED BY <2>1, <3>1
  <2>3. (CHOOSE i \in S : C(i) = k) = a + k
    <3> HIDE DEF C, S
    <3> QED BY <2>1, <2>2
  <2> QED BY <2>3
<1> HIDE DEF S
<1>4. Ascending(S) = [k \in 1..l |-> a + k]
  BY <1>1, <1>3 DEF Ascending
<1> QED BY <1>4 DEF S

(* What the pointers of a handled request, sent alone and fitting the buffer, point
   to. *)
LEMMA HandledPoints ==
  ASSUME TypeOK, ParseInv, SingleInv, outcome = "handled", Single, Fits,
         NEW kind \in {"url", "body"}, NEW p \in Ptrs,
         p = IF kind = "url" THEN url ELSE body
  PROVE  /\ Part(1, kind) = Of(kind, 1..pos) /\ pos = Len(stream)
         /\ PointsAt(p, kind, pos)
         /\ Part(1, kind) # {} =>
              /\ p.at + 1 \in Part(1, kind) /\ p.len >= 1 /\ p.at + p.len <= pos
              /\ {i \in Part(1, kind) : i >= p.at + 1} = (p.at + 1)..(p.at + p.len)
<1>1. stream \in Streams /\ Len(stream) \in Nat \ {0} /\ pos = Len(stream)
  BY SingleFacts, SingleHandled DEF TypeOK
<1>2. Part(1, kind) = Of(kind, 1..pos)
  <2>1. \A i \in 1..Len(stream) : MessageOf(i) = 1
    BY <1>1, SingleFacts
  <2> QED BY <1>1, <2>1 DEF Part, Of
<1>3. PointsAt(p, kind, pos)
  BY DEF SingleInv
<1>4. ASSUME Part(1, kind) # {}
      PROVE  /\ p.at + 1 \in Part(1, kind) /\ p.len >= 1 /\ p.at + p.len <= pos
             /\ {i \in Part(1, kind) : i >= p.at + 1} = (p.at + 1)..(p.at + p.len)
  <2>1. /\ p.at + 1 \in Part(1, kind)
        /\ {i \in Part(1, kind) : i >= p.at + 1} = (p.at + 1)..(p.at + p.len)
    BY <1>2, <1>3, <1>4 DEF PointsAt
  <2>2. p.at \in Nat /\ p.len \in Nat
    BY ReceiveConstants DEF Ptrs
  <2>3. p.at + 1 \in (p.at + 1)..(p.at + p.len)
    BY <2>1, <2>2
  <2>4. p.len >= 1
    BY <2>2, <2>3
  <2>5. p.at + p.len \in Part(1, kind)
    <3>1. p.at + p.len \in (p.at + 1)..(p.at + p.len)
      BY <2>2, <2>4
    <3> QED BY <2>1, <3>1
  <2>6. p.at + p.len <= pos
    BY <1>1, <1>2, <2>5 DEF Of
  <2> QED BY <2>1, <2>4, <2>6
<1> QED BY <1>1, <1>2, <1>3, <1>4

(* Every request has a URL. *)
LEMMA SingleHasUrl ==
  ASSUME stream \in Streams, Single
  PROVE  Part(1, "url") # {}
<1>1. Len(stream) \in Nat \ {0} /\ Begins(1)
  BY SingleFacts, FirstByte DEF Single, WellFormed
<1>2. Len(stream) # 1
  BY <1>1 DEF Single, Completes, Begins
<1>3. /\ 1 \in 1..Len(stream)-1 /\ 1 + 1 = 2 /\ 2 \in 1..Len(stream) /\ 1 \in 1..Len(stream)
      /\ stream[1].kind # "bad" /\ stream[1 + 1].kind # "bad"
  BY <1>1, <1>2 DEF Single, WellFormed
<1>4. stream[2].kind = "url"
  BY <1>1, <1>3, NextByte
<1>5. MessageOf(2) = 1
  BY <1>3, SingleFacts
<1> QED BY <1>3, <1>4, <1>5 DEF Part

(* What is read through the URL's pointer, when it is not cut to the local copy. *)
LEMMA UrlReadIs ==
  ASSUME TypeOK, ParseInv, SingleInv, outcome = "handled", Single, Fits, url.len <= UrlMax
  PROVE  /\ url.at + 1 \in Part(1, "url")
         /\ UrlRead = Ascending({j \in Part(1, "url") : j >= url.at + 1})
<1>1. /\ url.at + 1 \in Part(1, "url") /\ url.at + url.len <= pos
      /\ {i \in Part(1, "url") : i >= url.at + 1} = (url.at + 1)..(url.at + url.len)
  <2>1. Part(1, "url") # {} /\ url \in Ptrs
    BY SingleHasUrl DEF TypeOK
  <2> QED BY <2>1, HandledPoints
<1>2. /\ url.at \in 0..BufSize-1 /\ url.len \in 0..BufSize /\ url.at + url.len <= BufSize
      /\ url.at \in Nat /\ url.len \in Nat /\ pos \in Nat /\ BufSize \in Nat
  BY StreamBytes, ReceiveConstants DEF TypeOK, Ptrs
<1>3. Min({url.len, UrlMax}) = url.len
  <2>1. {url.len, UrlMax} \subseteq Nat /\ {url.len, UrlMax} # {} /\ UrlMax \in Nat
    BY <1>2, ReceiveConstants
  <2>2. /\ Min({url.len, UrlMax}) \in {url.len, UrlMax}
        /\ \A y \in {url.len, UrlMax} : Min({url.len, UrlMax}) <= y
    BY <2>1, MinFacts
  <2>3. Min({url.len, UrlMax}) <= url.len
    BY <2>2
  <2> DEFINE x == Min({url.len, UrlMax})
  <2>4. x = url.len \/ x = UrlMax
    BY <2>2
  <2> HIDE DEF x
  <2>5. x = url.len
    BY <1>2, <2>1, <2>3, <2>4 DEF x
  <2> QED BY <2>5 DEF x
<1>4. ASSUME NEW k \in 1..url.len PROVE buf[url.at + k - 1] = url.at + k
  <2>1. url.at + k - 1 \in 0..BufSize-1 /\ url.at + k - 1 < pos /\ url.at + k - 1 + 1 = url.at + k
    BY <1>1, <1>2
  <2>2. buf[url.at + k - 1] = url.at + k - 1 + 1
    BY <2>1 DEF SingleInv
  <2> QED BY <2>1, <2>2
<1>5. UrlRead = [k \in 1..url.len |-> url.at + k]
  BY <1>3, <1>4 DEF UrlRead
<1> QED BY <1>1, <1>2, <1>5, AscendingInterval

(* What is read as the URL of a request that fits the buffer is the end of the URL
   that was sent: bytes may be missing in front, where recv() cut it, none is
   foreign. *)
THEOREM UrlReadIsSuffix == Spec => []UrlIsSuffix
<1>1. TypeOK /\ ParseInv /\ SingleInv => UrlIsSuffix
  BY UrlReadIs DEF UrlIsSuffix
<1> QED BY <1>1, SingleInStep, PTL

(* A URL that one recv() delivered whole is read whole, if the request fits the
   buffer. *)
THEOREM UrlReadWhole == Spec => []UrlWholeUnlessCut
<1>1. TypeOK /\ ParseInv /\ SingleInv => UrlWholeUnlessCut
  <2> SUFFICES ASSUME TypeOK, ParseInv, SingleInv, outcome = "handled", Single, Fits,
                      urlCalls = 1, url.len <= UrlMax
               PROVE  UrlRead = Ascending(Part(1, "url"))
    BY DEF UrlWholeUnlessCut
  <2>1. UrlRead = Ascending({j \in Part(1, "url") : j >= url.at + 1})
    BY UrlReadIs
  <2>2. Part(1, "url") = Of("url", 1..pos)
    BY HandledPoints DEF TypeOK
  <2>3. {j \in Part(1, "url") : j >= url.at + 1} = Part(1, "url")
    BY <2>2 DEF SingleInv
  <2> QED BY <2>1, <2>3
<1> QED BY <1>1, SingleInStep, PTL
--------------------------------------------------------------------------------
(* The number that a body of one byte is read as. *)

(* Such a body is the last byte, and its pointer is to that byte alone. *)
LEMMA OneByteBody ==
  ASSUME TypeOK, ParseInv, SingleInv, outcome = "handled", Single, Fits,
         Cardinality(Part(1, "body")) = 1, NEW b \in Part(1, "body")
  PROVE  /\ b = pos /\ b \in 1..BufSize /\ body.at = b - 1
         /\ buf[body.at] = b
         /\ \A k \in 0..BufSize-1 : k > body.at => buf[k] = 0
<1> DEFINE B == Part(1, "body")
<1>1. /\ stream \in Streams /\ Len(stream) \in Nat \ {0} /\ BufSize \in Nat \ {0}
      /\ body \in Ptrs /\ Len(stream) <= BufSize
  BY SingleFacts, ReceiveConstants DEF TypeOK, Fits
<1>2. /\ B = Of("body", 1..pos) /\ pos = Len(stream)
      /\ body.at + 1 \in B
  BY <1>1, HandledPoints
<1>3. B = {b}
  <2>1. B \subseteq 1..pos /\ 1 \in Int /\ pos \in Int
    BY <1>1, <1>2 DEF Of
  <2>2. IsFiniteSet(B)
    <3> HIDE DEF B
    <3> QED BY <2>1, IntervalSize
  <2>3. \E x : B = {x}
    BY <2>2, FS_Singleton
  <2> QED BY <2>3
<1>4. b \in 1..Len(stream) /\ stream[b].kind = "body"
  BY <1>2 DEF Of
<1>5. b = pos
  <2>1. Len(stream) \in b..Len(stream) /\ Sound(Len(stream)) /\ \A c \in b+1..Len(stream) : ~Begins(c)
    BY <1>1, <1>4, SingleFacts
  <2>2. Rank(b) <= Rank(Len(stream))
    BY <1>1, <1>4, <2>1, Ascends
  <2>3. stream[Len(stream)].kind \in {"end", "body"}
    BY DEF Single, Completes
  <2>4. stream[Len(stream)].kind = "body"
    BY <1>4, <2>2, <2>3 DEF Rank
  <2>5. Len(stream) \in B
    BY <1>1, <1>2, <2>4 DEF Of
  <2> QED BY <1>2, <1>3, <2>5
<1>6. body.at = b - 1 /\ b \in 1..BufSize
  <2>1. body.at + 1 = b /\ body.at \in Int
    BY <1>1, <1>2, <1>3 DEF Ptrs
  <2> QED BY <1>1, <1>4, <2>1
<1>7. \A k \in 0..BufSize-1 : buf[k] = IF k < pos THEN k + 1 ELSE 0
  BY DEF SingleInv
<1>8. buf[body.at] = b
  <2>1. body.at \in 0..BufSize-1 /\ body.at < pos /\ body.at + 1 = b
    BY <1>1, <1>5, <1>6
  <2> QED BY <1>7, <2>1
<1>9. \A k \in 0..BufSize-1 : k > body.at => buf[k] = 0
  <2> SUFFICES ASSUME NEW k \in 0..BufSize-1, k > body.at PROVE buf[k] = 0
    OBVIOUS
  <2>1. ~(k < pos)
    BY <1>1, <1>5, <1>6
  <2> QED BY <1>7, <2>1
<1> QED BY <1>5, <1>6, <1>8, <1>9

(* How many digits atoi() finds at p when at most the first byte is one. *)
LEMMA AtoiLengthIs ==
  ASSUME NEW p, p.at \in 0..BufSize-1, DigitAt(p.at + 1) = NoDigit
  PROVE  AtoiLength(p) = IF DigitAt(p.at) = NoDigit THEN 0 ELSE 1
<1> DEFINE S == {n \in 0..(BufSize + 1 - p.at) :
                   \A k \in p.at..(p.at + n - 1) : DigitAt(k) # NoDigit}
<1>1. BufSize \in Nat \ {0}
  BY ReceiveConstants
<1>2. 0 \in S /\ \A n \in S : n = 0 \/ n = 1
  <2>1. 0 \in S
    BY <1>1
  <2>2. ASSUME NEW n \in S, n # 0, n # 1 PROVE FALSE
    <3>1. p.at + 1 \in p.at..(p.at + n - 1)
      BY <1>1, <2>2
    <3> QED BY <2>2, <3>1
  <2> QED BY <2>1, <2>2
<1>3. 1 \in S <=> DigitAt(p.at) # NoDigit
  <2>1. 1 \in 0..(BufSize + 1 - p.at) /\ \A k : k \in p.at..(p.at + 1 - 1) <=> k = p.at
    BY <1>1
  <2> QED BY <2>1
<1>4. AtoiLength(p) = Max(S)
  BY DEF AtoiLength
<1> HIDE DEF S
<1>5. CASE DigitAt(p.at) = NoDigit
  <2>1. S = {0}
    BY <1>2, <1>3, <1>5
  <2>2. Max({0}) = 0
    BY DEF Max
  <2> QED BY <1>4, <1>5, <2>1, <2>2
<1>6. CASE DigitAt(p.at) # NoDigit
  <2>1. S = {0, 1}
    BY <1>2, <1>3, <1>6
  <2>2. Max({0, 1}) = 1
    BY DEF Max
  <2> QED BY <1>4, <1>6, <2>1, <2>2
<1> QED BY <1>5, <1>6

(* What atoi() computes from no digit, or from one. *)
LEMMA AtoiIs ==
  ASSUME NEW p, p.at \in Nat, AtoiLength(p) \in {0, 1}, DigitAt(p.at) \in 0..9 \cup {NoDigit}
  PROVE  /\ AtoiLength(p) = 0 => Atoi(p) = 0
         /\ AtoiLength(p) = 1 /\ DigitAt(p.at) \in 0..9 => Atoi(p) = DigitAt(p.at)
<1> DEFINE L == AtoiLength(p)
           d == DigitAt(p.at)
           Fun(v) == [n \in 0..L |-> IF n = 0 THEN 0 ELSE 10 * v[n - 1] + DigitAt(p.at + n - 1)]
           value == CHOOSE v : v = Fun(v)
           found == [n \in 0..L |-> IF n = 0 THEN 0 ELSE 10 * 0 + d]
<1>1. found = Fun(found)
  <2>1. ASSUME NEW n \in 0..L
        PROVE  (IF n = 0 THEN 0 ELSE 10 * 0 + d) =
               (IF n = 0 THEN 0 ELSE 10 * found[n - 1] + DigitAt(p.at + n - 1))
    <3>1. CASE n = 0
      BY <3>1
    <3>2. CASE n # 0
      <4>1. n = 1 /\ 0 \in 0..L /\ n - 1 = 0 /\ p.at + n - 1 = p.at
        BY <3>2
      <4>2. found[n - 1] = 0
        BY <4>1
      <4> QED BY <4>1, <4>2
    <3> QED BY <3>1, <3>2
  <2> QED BY <2>1
<1>2. value = Fun(value)
  <2> HIDE DEF found, Fun
  <2> QED BY <1>1
<1>3. Atoi(p) = value[L]
  BY DEF Atoi
<1> HIDE DEF value
<1>4. value[0] = 0
  <2>1. 0 \in 0..L
    OBVIOUS
  <2> QED BY <1>2, <2>1
<1>5. ASSUME L = 1, d \in 0..9 PROVE value[1] = d
  <2>1. 1 \in 0..L /\ 1 - 1 = 0 /\ p.at + 1 - 1 = p.at
    BY <1>5
  <2>2. value[1] = 10 * value[0] + DigitAt(p.at)
    <3>1. value[1] = (IF 1 = 0 THEN 0 ELSE 10 * value[1 - 1] + DigitAt(p.at + 1 - 1))
      BY <1>2, <2>1
    <3> QED BY <2>1, <3>1
  <2> QED BY <1>4, <1>5, <2>2
<1> QED BY <1>3, <1>4, <1>5

(* A body of one byte is read as the digit it is, or as 0, when what stands behind it
   in the buffer or behind the buffer is no digit. *)
THEOREM DigitIsReadRight == Spec => []DigitIsRead
<1>1. TypeOK /\ ParseInv /\ SingleInv => DigitIsRead
  <2> SUFFICES ASSUME TypeOK, ParseInv, SingleInv, outcome = "handled", Single, Fits,
                      junk = NoDigit, Cardinality(Part(1, "body")) = 1,
                      NEW b \in Part(1, "body")
               PROVE  NewState = IF stream[b].digit = NoDigit THEN 0 ELSE stream[b].digit
    BY DEF DigitIsRead
  <2> DEFINE d == stream[b].digit
  <2>1. /\ b = pos /\ b \in 1..BufSize /\ body.at = b - 1
        /\ buf[body.at] = b
        /\ \A k \in 0..BufSize-1 : k > body.at => buf[k] = 0
    BY OneByteBody
  <2>2. BufSize \in Nat \ {0} /\ NoDigit \notin 0..9
    BY ReceiveConstants
  <2>3. body.at \in 0..BufSize-1 /\ body.at \in Nat /\ body.at + 1 > body.at /\ body.at + 1 \in Nat
    BY <2>1, <2>2
  <2>4. DigitAt(body.at) = d
    BY <2>1, <2>2, <2>3 DEF DigitAt
  <2>5. DigitAt(body.at + 1) = NoDigit
    <3>1. body.at + 1 < BufSize => body.at + 1 \in 0..BufSize-1
      BY <2>2, <2>3
    <3> QED BY <2>1, <2>3, <3>1 DEF DigitAt
  <2>6. d \in 0..9 \cup {NoDigit}
    <3>1. stream \in Streams /\ b \in 1..Len(stream)
      BY DEF TypeOK, Part, MessageOf
    <3> QED BY <3>1, StreamBytes
  <2>7. AtoiLength(body) = IF d = NoDigit THEN 0 ELSE 1
    BY <2>3, <2>4, <2>5, AtoiLengthIs
  <2>8. Atoi(body) = IF d = NoDigit THEN 0 ELSE d
    BY <2>2, <2>3, <2>4, <2>6, <2>7, AtoiIs
  <2> QED BY <2>6, <2>8 DEF NewState
<1> QED BY <1>1, SingleInStep, PTL
================================================================================
