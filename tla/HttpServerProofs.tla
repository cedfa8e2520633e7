-------------------------- MODULE HttpServerProofs --------------------------
(* Proofs about the HTTP server: for every number of clients, slots and       *)
(* pieces per head, and whatever the clients, the clock and the system calls   *)
(* do, the connection table agrees with the clients, every buffer is worked    *)
(* off before the loop polls, each client gets the answers to its own requests *)
(* in order, and a well-behaved client is never closed by somebody else's      *)
(* errors.                                                                     *)
EXTENDS HttpServer, FiniteSetTheorems, SequenceTheorems, TLAPS

-----------------------------------------------------------------------------
(* Least elements: of free slots, free descriptors, waiting clients and ends.  *)
LEMMA MinNat ==
  ASSUME NEW S \in SUBSET Nat, S # {}
  PROVE  Min(S) \in S /\ \A y \in S : Min(S) <= y
<1> DEFINE T == {0 .. x : x \in S}
<1>1. T \subseteq FiniteSubsetsOf(Nat) /\ T # {}
  <2>1. \A x \in S : IsFiniteSet(0 .. x) /\ 0 .. x \in SUBSET Nat
    BY FS_Interval
  <2> QED
    BY <2>1 DEF FiniteSubsetsOf
<1>2. PICK A \in T : \A B \in T : ~(<<B, A>> \in StrictSubsetOrdering(Nat))
  BY <1>1, FS_StrictSubsetOrderingWellFounded, WFMin
<1>3. PICK x \in S : A = 0 .. x
  BY <1>2
<1>4. ASSUME NEW y \in S, ~(x <= y)
      PROVE  FALSE
  <2>1. 0 .. y \in T /\ 0 .. y \subseteq 0 .. x /\ x \notin 0 .. y /\ x \in 0 .. x
    BY <1>4
  <2> HIDE DEF T
  <2>2. 0 .. y \in SUBSET Nat /\ 0 .. x \in SUBSET Nat
    OBVIOUS
  <2>3. 0 .. y # 0 .. x
    BY <2>1
  <2> QED
    BY <1>2, <1>3, <2>1, <2>2, <2>3 DEF StrictSubsetOrdering
<1> QED
  BY <1>4 DEF Min

-----------------------------------------------------------------------------
(* A client's stream of bytes: what is in its slot's buffer, then what the      *)
(* kernel still holds.                                                         *)

(* Reading moves bytes from the kernel to the buffer and keeps the stream.      *)
LEMMA StreamRead ==
  ASSUME NEW b \in Seq(Piece), NEW q \in Seq(Piece), NEW n \in 0 .. Len(q)
  PROVE  /\ SubSeq(q, 1, n) \in Seq(Piece) /\ Len(SubSeq(q, 1, n)) = n
         /\ SubSeq(q, n + 1, Len(q)) \in Seq(Piece)
         /\ (b \o SubSeq(q, 1, n)) \o SubSeq(q, n + 1, Len(q)) = b \o q
<1>0. Len(q) \in Nat /\ \A i \in 1 .. Len(q) : q[i] \in Piece
  BY ElementOfSeq, LenProperties
<1>1. SubSeq(q, 1, n) \in Seq(Piece) /\ Len(SubSeq(q, 1, n)) = n
  <2>1. \A i \in 1 .. n : q[i] \in Piece
    BY <1>0
  <2> QED
    BY <1>0, <2>1, SubSeqProperties
<1>2. SubSeq(q, n + 1, Len(q)) \in Seq(Piece)
  <2>1. \A i \in n + 1 .. Len(q) : q[i] \in Piece
    BY <1>0
  <2> QED
    BY <1>0, <2>1, SubSeqProperties
<1>3. SubSeq(q, 1, n) \o SubSeq(q, n + 1, Len(q)) = q
  <2>1. 1 \in 1 .. Len(q) + 1 /\ n \in 1 - 1 .. Len(q) /\ Len(q) \in n .. Len(q)
    BY <1>0
  <2>2. SubSeq(q, 1, n) \o SubSeq(q, n + 1, Len(q)) = SubSeq(q, 1, Len(q))
    BY <2>1, ConcatAdjacentSubSeq
  <2> QED
    BY <2>2, SubSeqFull
<1> DEFINE u == SubSeq(q, 1, n)
           v == SubSeq(q, n + 1, Len(q))
<1>4. u \in Seq(Piece) /\ v \in Seq(Piece)
  BY <1>1, <1>2
<1> HIDE DEF u, v
<1>5. (b \o u) \o v = b \o (u \o v)
  BY <1>4, ConcatAssociative
<1> QED
  BY <1>1, <1>2, <1>3, <1>5 DEF u, v

(* Serving a head drops it from the front of the stream.                        *)
LEMMA StreamServe ==
  ASSUME NEW b \in Seq(Piece), NEW q \in Seq(Piece), NEW m \in 1 .. Len(b)
  PROVE  /\ SubSeq(b, m + 1, Len(b)) \in Seq(Piece)
         /\ Len(SubSeq(b, m + 1, Len(b))) = Len(b) - m
         /\ SubSeq(b, m + 1, Len(b)) \o q = SubSeq(b \o q, m + 1, Len(b \o q))
<1> DEFINE r == SubSeq(b, m + 1, Len(b))
           s == SubSeq(b \o q, m + 1, Len(b \o q))
<1>0. /\ Len(b) \in Nat /\ \A i \in 1 .. Len(b) : b[i] \in Piece
      /\ Len(q) \in Nat /\ \A i \in 1 .. Len(q) : q[i] \in Piece
  BY ElementOfSeq, LenProperties
<1>1. /\ b \o q \in Seq(Piece) /\ Len(b \o q) = Len(b) + Len(q)
      /\ \A i \in 1 .. Len(b) + Len(q) : (b \o q)[i] = IF i <= Len(b) THEN b[i] ELSE q[i - Len(b)]
  BY ConcatProperties
<1>2. /\ r \in Seq(Piece) /\ Len(r) = Len(b) - m
      /\ \A i \in 1 .. Len(b) - m : r[i] = b[m + i]
  <2>1. \A i \in m + 1 .. Len(b) : b[i] \in Piece
    BY <1>0
  <2>2. /\ r \in Seq(Piece)
        /\ Len(r) = IF m + 1 <= Len(b) THEN (Len(b) - (m + 1)) + 1 ELSE 0
        /\ \A i \in 1 .. (Len(b) - (m + 1)) + 1 : r[i] = b[(m + 1 + i) - 1]
    BY <1>0, <2>1, SubSeqProperties
  <2> QED
    BY <1>0, <2>2
<1>3. /\ s \in Seq(Piece) /\ Len(s) = (Len(b) - m) + Len(q)
      /\ \A i \in 1 .. (Len(b) - m) + Len(q) : s[i] = (b \o q)[m + i]
  <2>1. \A i \in m + 1 .. Len(b \o q) : (b \o q)[i] \in Piece
    BY <1>0, <1>1
  <2>2. /\ s \in Seq(Piece)
        /\ Len(s) = IF m + 1 <= Len(b \o q) THEN (Len(b \o q) - (m + 1)) + 1 ELSE 0
        /\ \A i \in 1 .. (Len(b \o q) - (m + 1)) + 1 : s[i] = (b \o q)[(m + 1 + i) - 1]
    BY <1>0, <1>1, <2>1, SubSeqProperties
  <2> QED
    BY <1>0, <1>1, <2>2
<1> HIDE DEF r, s
<1>4. /\ r \o q \in Seq(Piece) /\ Len(r \o q) = (Len(b) - m) + Len(q)
      /\ \A i \in 1 .. (Len(b) - m) + Len(q) :
           (r \o q)[i] = IF i <= Len(b) - m THEN r[i] ELSE q[i - (Len(b) - m)]
  <2>1. /\ r \o q \in Seq(Piece) /\ Len(r \o q) = Len(r) + Len(q)
        /\ \A i \in 1 .. Len(r) + Len(q) : (r \o q)[i] = IF i <= Len(r) THEN r[i] ELSE q[i - Len(r)]
    BY <1>2, ConcatProperties
  <2> QED
    BY <1>2, <2>1
<1>5. ASSUME NEW i \in 1 .. (Len(b) - m) + Len(q)
      PROVE  (r \o q)[i] = s[i]
  <2>1. i \in Nat /\ m \in Nat /\ m + i \in 1 .. Len(b) + Len(q) /\ i > 0
    BY <1>0
  <2>2. s[i] = IF m + i <= Len(b) THEN b[m + i] ELSE q[(m + i) - Len(b)]
    BY <1>1, <1>3, <2>1
  <2>3. CASE i <= Len(b) - m
    BY <1>0, <1>2, <1>4, <2>1, <2>2, <2>3
  <2>4. CASE ~(i <= Len(b) - m)
    <3>1. ~(m + i <= Len(b)) /\ (m + i) - Len(b) = i - (Len(b) - m)
      BY <1>0, <2>1, <2>4
    <3> QED
      BY <1>4, <2>2, <2>4, <3>1
  <2> QED
    BY <2>3, <2>4
<1>6. r \o q = s
  BY <1>3, <1>4, <1>5, SeqEqual
<1> QED
  BY <1>2, <1>6 DEF r, s

(* What a client sends goes to the end of the stream.                           *)
LEMMA StreamSend ==
  ASSUME NEW b \in Seq(Piece), NEW q \in Seq(Piece), NEW p \in Piece
  PROVE  b \o Append(q, p) = Append(b \o q, p)
<1>1. <<p>> \in Seq(Piece) /\ b \o q \in Seq(Piece)
  BY ConcatProperties
<1>2. Append(q, p) = q \o <<p>> /\ Append(b \o q, p) = (b \o q) \o <<p>>
  BY <1>1, AppendIsConcat
<1> QED
  BY <1>1, <1>2, ConcatAssociative

(* The buffer is the front of the stream.                                        *)
LEMMA StreamFront ==
  ASSUME NEW b \in Seq(Piece), NEW t \in Seq(Piece)
  PROVE  /\ Len(b) \in Nat /\ Len(t) \in Nat
         /\ b \o t \in Seq(Piece) /\ Len(b \o t) = Len(b) + Len(t)
         /\ \A i \in 1 .. Len(b) : i \in 1 .. Len(b \o t) /\ (b \o t)[i] = b[i]
<1>1. Len(b) \in Nat /\ Len(t) \in Nat
  BY LenProperties
<1> DEFINE q == b \o t
<1>2. /\ q \in Seq(Piece) /\ Len(q) = Len(b) + Len(t)
      /\ \A i \in 1 .. Len(b) + Len(t) : q[i] = IF i <= Len(b) THEN b[i] ELSE t[i - Len(b)]
  BY ConcatProperties
<1> HIDE DEF q
<1>3. \A i \in 1 .. Len(b) : i \in 1 .. Len(b) + Len(t) /\ i <= Len(b)
  BY <1>1
<1>4. \A i \in 1 .. Len(b) : i \in 1 .. Len(q) /\ q[i] = b[i]
  BY <1>2, <1>3
<1> QED
  BY <1>1, <1>2, <1>4 DEF q

-----------------------------------------------------------------------------
(* The numbering of a stream.                                                   *)

(* A new piece carries the number of the request it belongs to.                  *)
LEMMA NumberedAppend ==
  ASSUME NEW q \in Seq(Piece), NEW c \in Conns, NEW answered \in Nat, NEW asked \in Nat,
         Numbered(q, c, answered, asked), NEW kind \in Ends \cup {"x"}
  PROVE  Numbered(Append(q, [kind |-> kind, of |-> c, n |-> asked + 1]), c, answered,
                  IF kind = "x" THEN asked ELSE asked + 1)
<1> DEFINE p == [kind |-> kind, of |-> c, n |-> asked + 1]
           r == Append(q, p)
<1>0. /\ Len(q) \in Nat
      /\ \A i \in 1 .. Len(q) : q[i] \in Piece
  BY ElementOfSeq, LenProperties
<1>1. p \in Piece
  BY DEF Piece
<1>2. /\ r \in Seq(Piece) /\ Len(r) = Len(q) + 1
      /\ \A i \in 1 .. Len(q) : r[i] = q[i]
      /\ r[Len(q) + 1] = p
  BY <1>1, AppendProperties
<1>3. p.kind = kind /\ p.of = c /\ p.n = asked + 1
  OBVIOUS
<1>4. \A i \in 1 .. Len(q) : q[i].n \in Nat
  BY <1>0 DEF Piece
<1> HIDE DEF p, r
<1>5. \A i \in 1 .. Len(r) : r[i].of = c
  BY <1>0, <1>2, <1>3 DEF Numbered
<1>6. Len(r) > 0 => r[1].n = answered + 1
  BY <1>0, <1>2, <1>3 DEF Numbered
<1>7. ASSUME NEW i \in 1 .. Len(r), NEW j \in 1 .. Len(r), i <= j,
             \A k \in i .. j - 1 : r[k].kind = "x"
      PROVE  r[j].n = r[i].n
  <2>1. CASE j <= Len(q)
    <3>1. /\ i \in 1 .. Len(q) /\ j \in 1 .. Len(q)
          /\ \A k \in i .. j - 1 : q[k].kind = "x"
      BY <1>0, <1>2, <1>7, <2>1
    <3> QED
      BY <1>2, <1>7, <3>1 DEF Numbered
  <2>2. CASE j = Len(q) + 1 /\ i = j
    BY <2>2
  <2>3. CASE j = Len(q) + 1 /\ i <= Len(q)
    <3>1. /\ i \in 1 .. Len(q) /\ Len(q) \in 1 .. Len(q) /\ i <= Len(q)
          /\ \A k \in i .. Len(q) : q[k].kind = "x"
      BY <1>0, <1>2, <1>7, <2>3
    <3>2. q[Len(q)].n = q[i].n
      <4>1. \A k \in i .. Len(q) - 1 : q[k].kind = "x"
        BY <1>0, <3>1
      <4> QED
        BY <3>1, <4>1 DEF Numbered
    <3>3. asked = q[Len(q)].n - 1
      BY <1>0, <3>1 DEF Numbered
    <3> QED
      BY <1>2, <1>3, <1>4, <2>3, <3>1, <3>2, <3>3
  <2> QED
    BY <1>0, <1>2, <1>7, <2>1, <2>2, <2>3
<1>8. ASSUME NEW i \in 1 .. Len(r), NEW j \in 1 .. Len(r), j = i + 1, r[i].kind # "x"
      PROVE  r[j].n = r[i].n + 1
  <2>1. CASE j <= Len(q)
    BY <1>0, <1>2, <1>8, <2>1 DEF Numbered
  <2>2. CASE j = Len(q) + 1
    <3>1. i = Len(q) /\ Len(q) \in 1 .. Len(q) /\ q[Len(q)].kind # "x"
      BY <1>0, <1>2, <1>8, <2>2
    <3>2. asked = q[Len(q)].n
      BY <1>0, <3>1 DEF Numbered
    <3> QED
      BY <1>2, <1>3, <2>2, <3>1, <3>2
  <2> QED
    BY <1>0, <1>2, <2>1, <2>2
<1>9. (IF kind = "x" THEN asked ELSE asked + 1) =
        IF r[Len(r)].kind = "x" THEN r[Len(r)].n - 1 ELSE r[Len(r)].n
  BY <1>0, <1>2, <1>3
<1>10. Numbered(r, c, answered, IF kind = "x" THEN asked ELSE asked + 1)
  BY <1>0, <1>2, <1>5, <1>6, <1>7, <1>8, <1>9 DEF Numbered
<1> QED
  BY <1>10 DEF r, p

(* The first end of the stream belongs to the request that is next to be        *)
(* answered; without it, the stream starts with the one after.                  *)
LEMMA NumberedServe ==
  ASSUME NEW q \in Seq(Piece), NEW c \in Conns, NEW answered \in Nat, NEW asked \in Nat,
         Numbered(q, c, answered, asked),
         NEW m \in 1 .. Len(q), q[m].kind # "x", \A k \in 1 .. m - 1 : q[k].kind = "x"
  PROVE  /\ q[m].of = c /\ q[m].n = answered + 1
         /\ Numbered(SubSeq(q, m + 1, Len(q)), c, answered + 1, asked)
<1> DEFINE r == SubSeq(q, m + 1, Len(q))
<1>0. /\ Len(q) \in Nat /\ \A i \in 1 .. Len(q) : q[i] \in Piece /\ q[i].n \in Nat
  <2>1. Len(q) \in Nat /\ \A i \in 1 .. Len(q) : q[i] \in Piece
    BY ElementOfSeq, LenProperties
  <2> QED
    BY <2>1 DEF Piece
<1>a. /\ \A i \in 1 .. Len(q) : q[i].of = c
      /\ q[1].n = answered + 1
  BY <1>0 DEF Numbered
<1>b. \A i, j \in 1 .. Len(q) :
        i <= j /\ (\A k \in i .. j - 1 : q[k].kind = "x") => q[j].n = q[i].n
  BY DEF Numbered
<1>c. \A i, j \in 1 .. Len(q) : j = i + 1 /\ q[i].kind # "x" => q[j].n = q[i].n + 1
  BY DEF Numbered
<1>1. q[m].of = c /\ q[m].n = answered + 1
  BY <1>0, <1>a, <1>b
<1>2. /\ Len(r) = Len(q) - m
      /\ \A i \in 1 .. Len(q) - m : r[i] = q[m + i]
  <2>1. \A i \in m + 1 .. Len(q) : q[i] \in Piece
    BY <1>0
  <2>2. /\ Len(r) = IF m + 1 <= Len(q) THEN (Len(q) - (m + 1)) + 1 ELSE 0
        /\ \A i \in 1 .. (Len(q) - (m + 1)) + 1 : r[i] = q[(m + 1 + i) - 1]
    BY <1>0, <2>1, SubSeqProperties
  <2> QED
    BY <1>0, <2>2
<1> HIDE DEF r
<1>3. \A i \in 1 .. Len(r) : r[i].of = c
  <2> SUFFICES ASSUME NEW i \in 1 .. Len(r) PROVE r[i].of = c
    OBVIOUS
  <2>1. i \in 1 .. Len(q) - m /\ m + i \in 1 .. Len(q)
    BY <1>0, <1>2
  <2> QED
    BY <1>2, <1>a, <2>1
<1>4. Len(r) > 0 => r[1].n = (answered + 1) + 1
  <2> SUFFICES ASSUME Len(r) > 0 PROVE r[1].n = (answered + 1) + 1
    OBVIOUS
  <2>1. 1 \in 1 .. Len(q) - m /\ m + 1 \in 1 .. Len(q)
    BY <1>0, <1>2
  <2>2. q[m + 1].n = q[m].n + 1
    BY <1>c, <2>1
  <2> QED
    BY <1>1, <1>2, <2>1, <2>2
<1>5. ASSUME NEW i \in 1 .. Len(r), NEW j \in 1 .. Len(r), i <= j,
             \A k \in i .. j - 1 : r[k].kind = "x"
      PROVE  r[j].n = r[i].n
  <2>1. m + i \in 1 .. Len(q) /\ m + j \in 1 .. Len(q) /\ m + i <= m + j
    <3>1. m \in Int /\ i \in Int /\ j \in Int /\ Len(q) \in Int /\ m >= 1
      BY <1>0
    <3>2. i >= 1 /\ j >= 1 /\ i <= Len(q) - m /\ j <= Len(q) - m /\ i <= j
      BY <1>2, <1>5, <3>1
    <3> QED
      BY <3>1, <3>2
  <2>2. ASSUME NEW k \in m + i .. (m + j) - 1
        PROVE  q[k].kind = "x"
    <3>1. k - m \in i .. j - 1 /\ k - m \in 1 .. Len(q) - m /\ m + (k - m) = k
      BY <1>0, <1>2
    <3> QED
      BY <1>2, <1>5, <3>1
  <2> QED
    <3>1. i \in 1 .. Len(q) - m /\ j \in 1 .. Len(q) - m
      BY <1>2
    <3>2. q[m + j].n = q[m + i].n
      BY <1>b, <2>1, <2>2
    <3> QED
      BY <1>2, <3>1, <3>2
<1>6. ASSUME NEW i \in 1 .. Len(r), NEW j \in 1 .. Len(r), j = i + 1, r[i].kind # "x"
      PROVE  r[j].n = r[i].n + 1
  <2>0. i \in 1 .. Len(q) - m /\ j \in 1 .. Len(q) - m
    BY <1>2
  <2>1. m + i \in 1 .. Len(q) /\ m + j \in 1 .. Len(q) /\ m + j = (m + i) + 1
    <3>1. m \in Int /\ i \in Int /\ Len(q) \in Int
      BY <1>0
    <3>2. i >= 1 /\ j <= Len(q) - m /\ j = i + 1 /\ m >= 1
      BY <1>6, <2>0, <3>1
    <3> QED
      BY <3>1, <3>2
  <2>2. r[i] = q[m + i] /\ r[j] = q[m + j]
    BY <1>2, <2>0
  <2>3. q[m + i].kind # "x"
    BY <1>6, <2>2
  <2>4. q[m + j].n = q[m + i].n + 1
    BY <1>c, <2>1, <2>3
  <2> QED
    BY <2>2, <2>4
<1>7. asked = IF Len(r) = 0 THEN answered + 1
              ELSE IF r[Len(r)].kind = "x" THEN r[Len(r)].n - 1 ELSE r[Len(r)].n
  <2>1. CASE Len(r) = 0
    <3>1. m = Len(q) /\ Len(q) # 0
      BY <1>0, <1>2, <2>1
    <3> QED
      BY <1>1, <2>1, <3>1 DEF Numbered
  <2>2. CASE Len(r) # 0
    <3>1. r[Len(r)] = q[Len(q)] /\ Len(q) # 0
      BY <1>0, <1>2, <2>2
    <3> QED
      BY <2>2, <3>1 DEF Numbered
  <2> QED
    BY <2>1, <2>2
<1>8. Numbered(r, c, answered + 1, asked)
  BY <1>3, <1>4, <1>5, <1>6, <1>7 DEF Numbered
<1> QED
  BY <1>1, <1>8 DEF r

(* The sizes of heads, in the same three cases.                                 *)
LEMMA FitsAppend ==
  ASSUME NEW q \in Seq(Piece), NEW run \in Nat, NEW tame \in BOOLEAN, Fits(q, run, tame),
         NEW p \in Piece, NEW run2 \in Nat, run2 = (IF p.kind = "x" THEN run + 1 ELSE 0),
         NEW tame2 \in BOOLEAN, tame2 => tame /\ p.kind \in {"x", "keep"} /\ run2 < HeadCap
  PROVE  Fits(Append(q, p), run2, tame2)
<1> DEFINE r == Append(q, p)
<1>0. Len(q) \in Nat
  BY LenProperties
<1>1. /\ Len(r) = Len(q) + 1
      /\ \A i \in 1 .. Len(q) : r[i] = q[i]
      /\ r[Len(q) + 1] = p
  BY AppendProperties
<1> HIDE DEF r
<1>2. tame2 => \A i \in 1 .. Len(r) : r[i].kind \in {"x", "keep"}
  BY <1>0, <1>1 DEF Fits
<1>3. ASSUME NEW i \in 1 .. Len(r), NEW j \in 1 .. Len(r), i <= j,
             \A k \in i .. j : r[k].kind = "x"
      PROVE  /\ tame2 => (j - i) + 1 < HeadCap
             /\ j = Len(r) => (j - i) + 1 <= run2
  <2>1. CASE j <= Len(q)
    <3>1. i \in 1 .. Len(q) /\ j \in 1 .. Len(q) /\ \A k \in i .. j : q[k].kind = "x"
      BY <1>0, <1>1, <1>3, <2>1
    <3> QED
      BY <1>0, <1>1, <1>3, <2>1, <3>1 DEF Fits
  <2>2. CASE j = Len(q) + 1
    <3>1. p.kind = "x" /\ run2 = run + 1
      BY <1>1, <1>3, <2>2
    <3>2. CASE i = j
      BY <1>0, <1>1, <2>2, <3>1, <3>2, HttpAssumption
    <3>3. CASE i <= Len(q)
      <4>1. i \in 1 .. Len(q) /\ Len(q) \in 1 .. Len(q) /\ \A k \in i .. Len(q) : q[k].kind = "x"
        BY <1>0, <1>1, <1>3, <2>2, <3>3
      <4>2. (Len(q) - i) + 1 <= run
        BY <1>0, <3>3, <4>1 DEF Fits
      <4>3. (j - i) + 1 <= run2
        BY <1>0, <2>2, <3>1, <4>2
      <4> QED
        BY <1>0, <1>1, <2>2, <4>3, HttpAssumption
    <3> QED
      BY <1>0, <1>1, <1>3, <2>2, <3>2, <3>3
  <2> QED
    BY <1>0, <1>1, <2>1, <2>2
<1>4. Fits(r, run2, tame2)
  BY <1>2, <1>3 DEF Fits
<1> QED
  BY <1>4 DEF r

LEMMA FitsServe ==
  ASSUME NEW q \in Seq(Piece), NEW run \in Nat, NEW tame \in BOOLEAN, Fits(q, run, tame),
         NEW m \in 1 .. Len(q)
  PROVE  Fits(SubSeq(q, m + 1, Len(q)), run, tame)
<1> DEFINE r == SubSeq(q, m + 1, Len(q))
<1>0. /\ Len(q) \in Nat /\ \A i \in 1 .. Len(q) : q[i] \in Piece
  BY ElementOfSeq, LenProperties
<1>2. /\ Len(r) = Len(q) - m
      /\ \A i \in 1 .. Len(q) - m : r[i] = q[m + i]
  <2>1. \A i \in m + 1 .. Len(q) : q[i] \in Piece
    BY <1>0
  <2>2. /\ Len(r) = IF m + 1 <= Len(q) THEN (Len(q) - (m + 1)) + 1 ELSE 0
        /\ \A i \in 1 .. (Len(q) - (m + 1)) + 1 : r[i] = q[(m + 1 + i) - 1]
    BY <1>0, <2>1, SubSeqProperties
  <2> QED
    BY <1>0, <2>2
<1> HIDE DEF r
<1>3. tame => \A i \in 1 .. Len(r) : r[i].kind \in {"x", "keep"}
  BY <1>0, <1>2 DEF Fits
<1>4. ASSUME NEW i \in 1 .. Len(r), NEW j \in 1 .. Len(r), i <= j,
             \A k \in i .. j : r[k].kind = "x"
      PROVE  /\ tame => (j - i) + 1 < HeadCap
             /\ j = Len(r) => (j - i) + 1 <= run
  <2>1. m + i \in 1 .. Len(q) /\ m + j \in 1 .. Len(q) /\ m + i <= m + j
    BY <1>0, <1>2, <1>4
  <2>2. ASSUME NEW k \in m + i .. m + j
        PROVE  q[k].kind = "x"
    <3>1. k - m \in i .. j /\ k - m \in 1 .. Len(q) - m /\ m + (k - m) = k
      BY <1>0, <1>2
    <3> QED
      BY <1>2, <1>4, <3>1
  <2>3. /\ tame => ((m + j) - (m + i)) + 1 < HeadCap
        /\ m + j = Len(q) => ((m + j) - (m + i)) + 1 <= run
    BY <2>1, <2>2 DEF Fits
  <2>4. (m + j) - (m + i) = j - i /\ (j = Len(r) => m + j = Len(q))
    BY <1>0, <1>2
  <2> QED
    BY <2>3, <2>4
<1>5. Fits(r, run, tame)
  BY <1>3, <1>4 DEF Fits
<1> QED
  BY <1>5 DEF r

LEMMA FitsWild ==
  ASSUME NEW q \in Seq(Piece), NEW run \in Nat, NEW tame \in BOOLEAN, Fits(q, run, tame)
  PROVE  Fits(q, run, FALSE)
BY DEF Fits

-----------------------------------------------------------------------------
(* The steps that touch neither clients nor table: the control of run.           *)
PCs == {"poll", "polled", "accept", "read", "serve", "done", "closed"}

LEMMA FiniteSlots == IsFiniteSet(Slots) /\ Cardinality(Slots) = Cap
BY FS_Interval, HttpAssumption DEF Slots

LEMMA UsedFinite == IsFiniteSet(Used) /\ Used \subseteq Slots
BY FiniteSlots, FS_Subset DEF Used

LEMMA ControlStep ==
  ASSUME HttpInd, UNCHANGED <<conn, slot, live>>, pc' \in PCs,
         failed' \in BOOLEAN, failed => failed', pc' = "closed" <=> pc = "closed",
         \/ UNCHANGED <<pc, cur>>
         \/ /\ pc' # "serve" /\ cur' = 0
            /\ pc = "serve" => Len(slot[cur].buf) < HeadCap /\ EndsAt(slot[cur].buf) = {}
  PROVE  HttpInd'
<1>1. Types'
  BY DEF HttpInd, Types, PCs
<1>2. Used' = Used
  BY DEF Used
<1>3. TableSound'
  BY <1>2 DEF HttpInd, TableSound
<1>4. BuffersSettled'
  BY HttpAssumption DEF HttpInd, BuffersSettled, TableSound
<1>5. Streams'
  BY <1>2 DEF HttpInd, Streams, StreamOK
<1>6. TameInTime' /\ ResponsesMatch'
  BY <1>2 DEF HttpInd, TameInTime, ResponsesMatch
<1>7. TameSpared'
  BY DEF HttpInd, TameSpared
<1> QED
  BY <1>1, <1>3, <1>4, <1>5, <1>6, <1>7 DEF HttpInd

-----------------------------------------------------------------------------
(* Closing connections, with an answer or without.                              *)
(* An answer at the end of what a client got.                                    *)
LEMMA GotOne ==
  ASSUME NEW g \in Seq(Response), NEW a \in Seq(Response), Len(a) <= 1
  PROVE  /\ g \o a \in Seq(Response)
         /\ Len(g \o a) = Len(g) + Len(a) /\ Len(g) \in Nat
         /\ \A i \in DOMAIN (g \o a) :
              \/ i \in DOMAIN g /\ (g \o a)[i] = g[i]
              \/ i = Len(g) + 1 /\ 1 \in DOMAIN a /\ (g \o a)[i] = a[1] /\ i = Len(g \o a)
<1>1. Len(g) \in Nat /\ Len(a) \in Nat /\ DOMAIN g = 1 .. Len(g) /\ DOMAIN a = 1 .. Len(a)
  BY LenProperties
<1>2. /\ g \o a \in Seq(Response) /\ Len(g \o a) = Len(g) + Len(a)
      /\ \A i \in 1 .. Len(g) + Len(a) : (g \o a)[i] = IF i <= Len(g) THEN g[i] ELSE a[i - Len(g)]
  BY ConcatProperties
<1>3. DOMAIN (g \o a) = 1 .. Len(g) + Len(a)
  BY <1>2, LenProperties
<1> QED
  BY <1>1, <1>2, <1>3

Closes(closing, told) ==
  /\ CloseSlots(closing, told)
  /\ pc # "closed" /\ pc' \in PCs /\ pc' # "serve" /\ cur' = 0
  /\ (pc' = "closed" => closing = Used) /\ (pc = "serve" => cur \in closing)
  /\ failed' \in BOOLEAN /\ (failed => failed')
  /\ \A c \in Conns :
       /\ Len(told[c]) <= 1
       /\ 1 \in DOMAIN told[c] =>
            told[c][1].of = c /\ (told[c][1].status = "408" \/ told[c][1].n = Len(conn[c].got) + 1)
  /\ \A s \in closing : ~conn[slot[s].of].tame \/ failed' \/ pc' = "closed"

LEMMA CloseStep ==
  ASSUME HttpInd, NEW closing \in SUBSET Used, NEW told \in [Conns -> Seq(Response)],
         Closes(closing, told)
  PROVE  HttpInd'
<1> USE DEF Closes
<1> DEFINE Gone == {slot[s].of : s \in closing}
<1>0. /\ conn \in [Conns -> ConnRecord] /\ slot \in [Slots -> SlotRecord]
      /\ \A s \in Used : s \in Slots /\ slot[s].of \in Conns /\ conn[slot[s].of].st = "open"
  BY DEF HttpInd, Types, TableSound, Used, SlotRecord
<1>1. /\ \A s \in closing : slot'[s] = Free
      /\ \A s \in Slots \ closing : slot'[s] = slot[s]
      /\ slot' = [s \in Slots |-> IF s \in closing THEN Free ELSE slot[s]]
  BY <1>0 DEF CloseSlots
<1>2. /\ \A c \in Conns \ Gone : conn'[c] = conn[c]
      /\ \A c \in Conns \cap Gone :
           conn'[c] = [conn[c] EXCEPT !.st = "closed", !.got = conn[c].got \o told[c], !.inq = <<>>, !.run = 0]
      /\ conn' = [c \in Conns |-> conn'[c]]
  BY <1>0 DEF CloseSlots
<1>3. \A c \in Conns \cap Gone :
        /\ conn'[c] \in ConnRecord /\ conn'[c].st = "closed" /\ conn'[c].got = conn[c].got \o told[c]
        /\ (conn'[c].tame <=> conn[c].tame) /\ (conn'[c].eof <=> conn[c].eof)
  <2> SUFFICES ASSUME NEW c \in Conns \cap Gone
               PROVE  /\ conn'[c] \in ConnRecord /\ conn'[c].st = "closed"
                      /\ conn'[c].got = conn[c].got \o told[c]
                      /\ (conn'[c].tame <=> conn[c].tame) /\ (conn'[c].eof <=> conn[c].eof)
    OBVIOUS
  <2>1. conn[c] \in ConnRecord /\ told[c] \in Seq(Response)
    BY <1>0
  <2>2. conn[c].got \o told[c] \in Seq(Response)
    BY <2>1, ConcatProperties DEF ConnRecord
  <2>3. conn'[c] = [conn[c] EXCEPT !.st = "closed", !.got = conn[c].got \o told[c], !.inq = <<>>, !.run = 0]
    BY <1>2
  <2> DEFINE r == conn[c]
             n == conn'[c]
             g == conn[c].got \o told[c]
  <2>4. r \in ConnRecord /\ g \in Seq(Response)
        /\ n = [r EXCEPT !.st = "closed", !.got = g, !.inq = <<>>, !.run = 0]
    BY <2>1, <2>2, <2>3
  <2> HIDE DEF r, n, g
  <2>5. /\ n \in ConnRecord /\ n.st = "closed" /\ n.got = g
        /\ (n.tame <=> r.tame) /\ (n.eof <=> r.eof)
    <3>1. n \in ConnRecord
      <4>1. <<>> \in Seq(Piece)
        OBVIOUS
      <4> QED
        BY <2>4, <4>1 DEF ConnRecord
    <3>2. n.st = "closed" /\ n.got = g
      BY <2>4 DEF ConnRecord
    <3>3. (n.tame <=> r.tame) /\ (n.eof <=> r.eof)
      BY <2>4 DEF ConnRecord
    <3> QED
      BY <3>1, <3>2, <3>3
  <2> QED
    BY <2>5 DEF r, n, g
<1>4. \A c \in Conns : c \in Gone <=> \E s \in closing : slot[s].of = c
  OBVIOUS
<1> HIDE DEF Gone
<1>5. Used' = Used \ closing
  BY <1>0, <1>1 DEF Used, Free
<1>6. Types'
  <2>1. Free \in SlotRecord
    BY HttpAssumption DEF Free, SlotRecord
  <2>2. slot' \in [Slots -> SlotRecord]
    BY <1>0, <1>1, <2>1
  <2>3. \A c \in Conns : conn'[c] \in ConnRecord
    <3>1. \A c \in Conns \ Gone : conn'[c] \in ConnRecord
      BY <1>0, <1>2
    <3> QED
      BY <1>3, <3>1
  <2>4. conn' \in [Conns -> ConnRecord]
    BY <1>2, <2>3
  <2> QED
    BY <2>2, <2>4 DEF Types, PCs
<1>7. \A s \in Used \ closing : slot[s].of \in Conns \ Gone
  BY <1>0, <1>4 DEF HttpInd, TableSound
<1>8. TableSound'
  <2>1. \A s \in Slots : slot'[s].of = 0 => slot'[s].fd = 0 /\ slot'[s].buf = <<>>
    BY <1>1 DEF HttpInd, TableSound, Free
  <2>2. \A s \in Used \ closing : slot'[s].fd \in Slots /\ conn'[slot'[s].of].st = "open"
    <3> SUFFICES ASSUME NEW s \in Used \ closing
                 PROVE  slot'[s].fd \in Slots /\ conn'[slot'[s].of].st = "open"
      OBVIOUS
    <3>1. slot'[s] = slot[s] /\ conn'[slot[s].of] = conn[slot[s].of]
      BY <1>0, <1>1, <1>2, <1>7
    <3>2. slot[s].fd \in Slots
      BY DEF HttpInd, TableSound
    <3> QED
      BY <1>0, <3>1, <3>2
  <2>3. \A s, t \in Used \ closing :
          s # t => slot'[s].of # slot'[t].of /\ slot'[s].fd # slot'[t].fd
    BY <1>0, <1>1 DEF HttpInd, TableSound
  <2>4. ASSUME NEW c \in Conns, conn'[c].st = "open"
        PROVE  \E s \in Used \ closing : slot'[s].of = c
    <3>1. c \notin Gone /\ conn[c].st = "open"
      BY <1>2, <1>3, <2>4
    <3>2. PICK s \in Used : slot[s].of = c
      BY <3>1 DEF HttpInd, TableSound
    <3> QED
      BY <1>0, <1>1, <1>4, <3>1, <3>2
  <2>5. live' = Cardinality(Used \ closing)
    <3>1. Used \cap closing = closing
      OBVIOUS
    <3> QED
      <4>1. live' = live - Cardinality(closing) /\ live = Cardinality(Used)
        BY DEF HttpInd, TableSound, CloseSlots, LiveAfter
      <4>2. IsFiniteSet(closing)
        BY UsedFinite, FS_Subset
      <4>3. Cardinality(Used \ closing) = Cardinality(Used) - Cardinality(Used \cap closing)
        BY <4>2, UsedFinite, FS_Difference
      <4> QED
        BY <3>1, <4>1, <4>3
  <2> QED
    BY <1>5, <2>1, <2>2, <2>3, <2>4, <2>5 DEF TableSound
<1>9. BuffersSettled'
  <2>1. Len(<<>>) = 0 /\ EndsAt(<<>>) = {} /\ HeadCap > 0
    BY HttpAssumption DEF EndsAt
  <2>2. \A s \in Slots \ closing : s # cur
    BY HttpAssumption DEF HttpInd, TableSound, Slots
  <2> QED
    <3> SUFFICES ASSUME NEW s \in Slots
                 PROVE  Len(slot'[s].buf) < HeadCap /\ Len(slot'[s].buf) <= HeadCap
                        /\ EndsAt(slot'[s].buf) = {}
      BY DEF BuffersSettled, EndsAt
    <3>1. CASE s \in closing
      BY <1>1, <2>1, <3>1, HttpAssumption DEF Free
    <3>2. CASE s \notin closing
      BY <1>1, <2>2, <3>2 DEF HttpInd, BuffersSettled
    <3> QED
      BY <3>1, <3>2
<1>10. Streams'
  <2>1. ASSUME NEW s \in Used \ closing
        PROVE  StreamOK(slot[s].buf \o conn[slot[s].of].inq, slot[s].of)'
    BY <1>0, <1>1, <1>2, <1>7 DEF HttpInd, Streams, StreamOK
  <2>2. ASSUME NEW c \in Conns, conn'[c].st \in {"none", "queued"}
        PROVE  StreamOK(conn[c].inq, c)'
    <3>1. c \notin Gone
      BY <1>3, <2>2
    <3> QED
      BY <1>2, <2>2, <3>1 DEF HttpInd, Streams, StreamOK
  <2> QED
    BY <1>5, <2>1, <2>2 DEF Streams
<1>11. TameInTime'
  <2>1. \A s \in Used \ closing : slot'[s].late => ~conn'[slot'[s].of].tame
    BY <1>0, <1>1, <1>2, <1>7 DEF HttpInd, TameInTime
  <2>2. \A c \in Conns : conn'[c].eof => ~conn'[c].tame
    BY <1>2, <1>3 DEF HttpInd, TameInTime
  <2> QED
    BY <1>5, <2>1, <2>2 DEF TameInTime
<1>12. ResponsesMatch'
  <2> SUFFICES ASSUME NEW c \in Conns, NEW i \in DOMAIN conn'[c].got
               PROVE  LET r == conn'[c].got[i] IN
                      /\ r.of = c /\ (r.status = "408" \/ r.n = i)
                      /\ r.status # "ok" => i = Len(conn'[c].got) /\ conn'[c].st = "closed"
    BY DEF ResponsesMatch
  <2>1. CASE c \notin Gone
    <3>1. conn'[c] = conn[c]
      BY <1>2, <2>1
    <3> QED
      BY <3>1 DEF HttpInd, ResponsesMatch
  <2>2. CASE c \in Gone
    <3>1. /\ conn[c].got \in Seq(Response) /\ conn'[c].got = conn[c].got \o told[c]
          /\ conn'[c].st = "closed" /\ conn[c].st = "open"
      <4>1. conn[c] \in ConnRecord /\ conn[c].st = "open"
        BY <1>0, <1>4, <2>2
      <4>2. conn[c].got \in Seq(Response)
        BY <4>1 DEF ConnRecord
      <4> QED
        BY <1>3, <2>2, <4>1, <4>2
    <3>2. \/ i \in DOMAIN conn[c].got /\ conn'[c].got[i] = conn[c].got[i]
          \/ /\ i = Len(conn[c].got) + 1 /\ 1 \in DOMAIN told[c]
             /\ conn'[c].got[i] = told[c][1] /\ i = Len(conn'[c].got)
      BY <3>1, GotOne
    <3>3. CASE i \in DOMAIN conn[c].got /\ conn'[c].got[i] = conn[c].got[i]
      BY <3>1, <3>3 DEF HttpInd, ResponsesMatch
    <3>4. CASE /\ i = Len(conn[c].got) + 1 /\ 1 \in DOMAIN told[c]
               /\ conn'[c].got[i] = told[c][1] /\ i = Len(conn'[c].got)
      <4>1. /\ told[c][1].of = c
            /\ told[c][1].status = "408" \/ told[c][1].n = Len(conn[c].got) + 1
        BY <3>4
      <4> QED
        BY <3>1, <3>4, <4>1
    <3> QED
      BY <3>2, <3>3, <3>4
  <2> QED
    BY <2>1, <2>2
<1>13. TameSpared'
  <2> SUFFICES ASSUME NEW c \in Conns, conn'[c].st = "closed", conn'[c].tame
               PROVE  pc' = "closed" \/ failed'
    BY DEF TameSpared
  <2>1. CASE c \notin Gone
    BY <1>2, <2>1 DEF HttpInd, TameSpared
  <2>2. CASE c \in Gone
    BY <1>3, <1>4, <2>2
  <2> QED
    BY <2>1, <2>2
<1> QED
  BY <1>6, <1>8, <1>9, <1>10, <1>11, <1>12, <1>13 DEF HttpInd

-----------------------------------------------------------------------------
(* A step of one client and its slot that neither opens nor closes anything:    *)
(* the client sends, hangs up or is refused, a timer runs out, bytes are read,  *)
(* a request is answered and the connection kept.                              *)
Answered(c, g, st) ==
  \A i \in DOMAIN g :
    /\ g[i].of = c /\ (g[i].status = "408" \/ g[i].n = i)
    /\ g[i].status # "ok" => i = Len(g) /\ st = "closed"

Touches(c, r, o, w) ==
  /\ conn' = [conn EXCEPT ![c] = r] /\ slot' = [slot EXCEPT ![o] = w]
  /\ w = slot[o] \/ slot[o].of = c
  /\ w.of = slot[o].of /\ w.fd = slot[o].fd
  /\ live' = live /\ failed' = failed
  /\ pc' \in PCs /\ (pc' = "closed" <=> pc = "closed")
  /\ (pc' = "serve" => cur' \in Used) /\ (pc' # "serve" => cur' = 0)
  /\ BuffersSettled'
  /\ (r.st = "open" <=> conn[c].st = "open") /\ (r.st = "closed" <=> conn[c].st = "closed")
  /\ (r.tame => conn[c].tame) /\ (r.eof => ~r.tame)
  /\ Answered(c, r.got, r.st)
  /\ \A s \in Used : slot[s].of = c =>
       /\ Numbered(slot'[s].buf \o r.inq, c, Len(r.got), r.asked)
       /\ Fits(slot'[s].buf \o r.inq, r.run, r.tame)
       /\ slot'[s].late => ~r.tame
  /\ r.st \in {"none", "queued"} =>
       Numbered(r.inq, c, Len(r.got), r.asked) /\ Fits(r.inq, r.run, r.tame)

LEMMA OneStep ==
  ASSUME HttpInd, NEW c \in Conns, NEW r \in ConnRecord, NEW o \in Slots, NEW w \in SlotRecord,
         Touches(c, r, o, w)
  PROVE  HttpInd'
<1> USE DEF Touches
<1>0. /\ conn \in [Conns -> ConnRecord] /\ slot \in [Slots -> SlotRecord]
      /\ \A s \in Used : s \in Slots /\ slot[s].of \in Conns /\ conn[slot[s].of].st = "open"
      /\ \A s \in Used : slot[s].of # 0
  BY DEF HttpInd, Types, TableSound, Used, SlotRecord
<1>1. /\ conn' \in [Conns -> ConnRecord] /\ conn'[c] = r
      /\ \A d \in Conns : d # c => conn'[d] = conn[d]
  BY <1>0
<1>2. /\ slot' \in [Slots -> SlotRecord] /\ slot'[o] = w
      /\ \A s \in Slots : s # o => slot'[s] = slot[s]
  BY <1>0
<1>3. \A s \in Slots : slot'[s].of = slot[s].of /\ slot'[s].fd = slot[s].fd
  BY <1>2
<1>4. \A s \in Slots : slot'[s] = slot[s] \/ slot[s].of = c
  BY <1>2
<1>5. Used' = Used
  BY <1>3 DEF Used
<1>6. Types'
  BY <1>1, <1>2 DEF HttpInd, Types, PCs
<1>7. TableSound'
  <2>1. \A s \in Slots : slot'[s].of = 0 => slot'[s].fd = 0 /\ slot'[s].buf = <<>>
    <3>1. c # 0
      BY DEF Conns
    <3> QED
      BY <1>3, <1>4, <3>1 DEF HttpInd, TableSound
  <2>2. \A s \in Used : slot'[s].fd \in Slots /\ conn'[slot'[s].of].st = "open"
    <3>1. \A s \in Used : slot[s].fd \in Slots
      BY DEF HttpInd, TableSound
    <3> QED
      BY <1>0, <1>1, <1>3, <3>1
  <2>3. \A s, t \in Used : s # t => slot'[s].of # slot'[t].of /\ slot'[s].fd # slot'[t].fd
    <3>1. \A s, t \in Used : s # t => slot[s].of # slot[t].of /\ slot[s].fd # slot[t].fd
      BY DEF HttpInd, TableSound
    <3> QED
      BY <1>0, <1>3, <3>1
  <2>4. \A d \in Conns : conn'[d].st = "open" => \E s \in Used : slot'[s].of = d
    <3>1. \A d \in Conns : conn[d].st = "open" => \E s \in Used : slot[s].of = d
      BY DEF HttpInd, TableSound
    <3> QED
      BY <1>0, <1>1, <1>3, <3>1
  <2>5. live' = Cardinality(Used) /\ (pc' = "closed" => Used = {})
    BY DEF HttpInd, TableSound
  <2> QED
    BY <1>5, <2>1, <2>2, <2>3, <2>4, <2>5 DEF TableSound
<1>8. Streams'
  <2>1. ASSUME NEW s \in Used
        PROVE  StreamOK(slot[s].buf \o conn[slot[s].of].inq, slot[s].of)'
    <3>1. CASE slot[s].of = c
      BY <1>0, <1>1, <1>3, <3>1 DEF StreamOK
    <3>2. CASE slot[s].of # c
      <4>1. slot'[s] = slot[s] /\ conn'[slot[s].of] = conn[slot[s].of]
        BY <1>0, <1>1, <1>4, <3>2
      <4> QED
        BY <4>1 DEF HttpInd, Streams, StreamOK
    <3> QED
      BY <3>1, <3>2
  <2>2. ASSUME NEW d \in Conns, conn'[d].st \in {"none", "queued"}
        PROVE  StreamOK(conn[d].inq, d)'
    <3>1. CASE d = c
      BY <1>1, <2>2, <3>1 DEF StreamOK
    <3>2. CASE d # c
      BY <1>1, <2>2, <3>2 DEF HttpInd, Streams, StreamOK
    <3> QED
      BY <3>1, <3>2
  <2> QED
    BY <1>5, <2>1, <2>2 DEF Streams
<1>9. TameInTime'
  <2>1. ASSUME NEW s \in Used, slot'[s].late
        PROVE  ~conn'[slot'[s].of].tame
    <3>1. CASE slot[s].of = c
      BY <1>0, <1>1, <1>3, <2>1, <3>1
    <3>2. CASE slot[s].of # c
      <4>1. slot'[s] = slot[s] /\ conn'[slot[s].of] = conn[slot[s].of]
        BY <1>0, <1>1, <1>4, <3>2
      <4> QED
        BY <2>1, <4>1 DEF HttpInd, TameInTime
    <3> QED
      BY <3>1, <3>2
  <2>2. \A d \in Conns : conn'[d].eof => ~conn'[d].tame
    BY <1>1 DEF HttpInd, TameInTime
  <2> QED
    BY <1>5, <2>1, <2>2 DEF TameInTime
<1>10. ResponsesMatch'
  <2> SUFFICES ASSUME NEW d \in Conns, NEW i \in DOMAIN conn'[d].got
               PROVE  LET a == conn'[d].got[i] IN
                      /\ a.of = d /\ (a.status = "408" \/ a.n = i)
                      /\ a.status # "ok" => i = Len(conn'[d].got) /\ conn'[d].st = "closed"
    BY DEF ResponsesMatch
  <2>1. CASE d = c
    BY <1>1, <2>1 DEF Answered
  <2>2. CASE d # c
    <3>1. conn'[d] = conn[d]
      BY <1>1, <2>2
    <3> QED
      BY <3>1 DEF HttpInd, ResponsesMatch
  <2> QED
    BY <2>1, <2>2
<1>11. TameSpared'
  BY <1>1 DEF HttpInd, TameSpared
<1> QED
  BY <1>6, <1>7, <1>8, <1>9, <1>10, <1>11 DEF HttpInd

(* Nothing of the client's answers changes.                                     *)
LEMMA SameAnswers ==
  ASSUME HttpInd, NEW c \in Conns, NEW r \in ConnRecord, r.got = conn[c].got,
         r.st = "closed" <=> conn[c].st = "closed"
  PROVE  Answered(c, r.got, r.st)
BY DEF HttpInd, ResponsesMatch, Answered

LEMMA SettledKept ==
  ASSUME HttpInd, slot' = slot, cur' = cur
  PROVE  BuffersSettled'
BY DEF HttpInd, BuffersSettled

(* The same, with the table left alone.                                         *)
Quiet(c, r) ==
  /\ conn' = [conn EXCEPT ![c] = r] /\ UNCHANGED <<slot, live, pc, cur, failed>>
  /\ r.got = conn[c].got
  /\ (r.st = "open" <=> conn[c].st = "open") /\ (r.st = "closed" <=> conn[c].st = "closed")
  /\ (r.tame => conn[c].tame) /\ (r.eof => ~r.tame)
  /\ \A s \in Used : slot[s].of = c =>
       /\ Numbered(slot[s].buf \o r.inq, c, Len(r.got), r.asked)
       /\ Fits(slot[s].buf \o r.inq, r.run, r.tame)
  /\ r.st \in {"none", "queued"} =>
       Numbered(r.inq, c, Len(r.got), r.asked) /\ Fits(r.inq, r.run, r.tame)

LEMMA QuietStep ==
  ASSUME HttpInd, NEW c \in Conns, NEW r \in ConnRecord, Quiet(c, r)
  PROVE  HttpInd'
<1> USE DEF Quiet
<1>1. /\ 1 \in Slots /\ slot \in [Slots -> SlotRecord] /\ slot[1] \in SlotRecord
      /\ pc \in PCs /\ conn \in [Conns -> ConnRecord]
  BY HttpAssumption DEF HttpInd, Types, Slots, PCs
<1>2. slot' = [slot EXCEPT ![1] = slot[1]]
  BY <1>1
<1>3. (pc' = "serve" => cur' \in Used) /\ (pc' # "serve" => cur' = 0)
  BY DEF HttpInd, TableSound
<1>4. BuffersSettled'
  BY SettledKept
<1>5. Answered(c, r.got, r.st)
  BY SameAnswers
<1>6. \A s \in Used : slot[s].of = c =>
         /\ Numbered(slot'[s].buf \o r.inq, c, Len(r.got), r.asked)
         /\ Fits(slot'[s].buf \o r.inq, r.run, r.tame)
         /\ slot'[s].late => ~r.tame
  BY DEF HttpInd, TameInTime
<1> PICK o \in Slots : o = 1
  BY <1>1
<1> PICK w \in SlotRecord : w = slot[o]
  BY <1>1
<1>7. /\ slot' = [slot EXCEPT ![o] = w] /\ w.of = slot[o].of /\ w.fd = slot[o].fd
      /\ w = slot[o] \/ slot[o].of = c
  BY <1>2
<1>8. live' = live /\ failed' = failed /\ pc' \in PCs /\ (pc' = "closed" <=> pc = "closed")
  BY <1>1
<1>9. Touches(c, r, o, w)
  BY <1>3, <1>4, <1>5, <1>6, <1>7, <1>8 DEF Touches
<1> QED
  BY <1>9, OneStep

LEMMA ConnectStep ==
  ASSUME HttpInd, NEW c \in Conns, Connect(c)
  PROVE  HttpInd'
<1>0. /\ conn \in [Conns -> ConnRecord] /\ conn[c].st = "none"
      /\ conn' = [conn EXCEPT ![c] = [conn[c] EXCEPT !.st = "queued"]]
      /\ UNCHANGED <<slot, live, pc, cur, failed>>
  BY DEF HttpInd, Types, Connect
<1> PICK d \in ConnRecord : d = conn[c]
  BY <1>0
<1> PICK r : r = [d EXCEPT !.st = "queued"]
  OBVIOUS
<1>1. /\ r \in ConnRecord /\ r.st = "queued" /\ r.inq = d.inq /\ r.got = d.got
      /\ r.asked = d.asked /\ r.run = d.run
  BY DEF ConnRecord
<1>2. (r.tame <=> d.tame) /\ (r.eof <=> d.eof) /\ r.tame \in BOOLEAN /\ d.tame \in BOOLEAN
  BY DEF ConnRecord
<1>3. d.eof => ~d.tame
  BY DEF HttpInd, TameInTime
<1>4. \A s \in Used : slot[s].of # c
  BY <1>0 DEF HttpInd, TableSound
<1>5. Numbered(r.inq, c, Len(r.got), r.asked) /\ Fits(r.inq, r.run, r.tame)
  <2>1. Numbered(d.inq, c, Len(d.got), d.asked) /\ Fits(d.inq, d.run, d.tame)
    BY <1>0 DEF HttpInd, Streams, StreamOK
  <2>2. r.tame = d.tame
    BY <1>2
  <2> QED
    BY <1>1, <2>1, <2>2
<1>6. Quiet(c, r)
  BY <1>0, <1>1, <1>2, <1>3, <1>4, <1>5 DEF Quiet
<1> QED
  BY <1>1, <1>6, QuietStep

LEMMA HangUpStep ==
  ASSUME HttpInd, NEW c \in Conns, HangUp(c)
  PROVE  HttpInd'
<1>0. /\ conn \in [Conns -> ConnRecord] /\ conn[c].st \in {"queued", "open"}
      /\ conn' = [conn EXCEPT ![c] = [conn[c] EXCEPT !.eof = TRUE, !.tame = FALSE]]
      /\ UNCHANGED <<slot, live, pc, cur, failed>> /\ slot \in [Slots -> SlotRecord]
  BY DEF HttpInd, Types, HangUp
<1> PICK d \in ConnRecord : d = conn[c]
  BY <1>0
<1> PICK r : r = [d EXCEPT !.eof = TRUE, !.tame = FALSE]
  OBVIOUS
<1>1. /\ r \in ConnRecord /\ r.st = d.st /\ r.inq = d.inq /\ r.got = d.got
      /\ r.asked = d.asked /\ r.run = d.run /\ d.run \in Nat /\ d.inq \in Seq(Piece)
  BY DEF ConnRecord
<1>2. r.tame = FALSE /\ r.eof = TRUE /\ d.tame \in BOOLEAN
  BY DEF ConnRecord
<1>3. ASSUME NEW s \in Used, slot[s].of = c
      PROVE  /\ Numbered(slot[s].buf \o r.inq, c, Len(r.got), r.asked)
             /\ Fits(slot[s].buf \o r.inq, r.run, r.tame)
  <2>1. Numbered(slot[s].buf \o d.inq, c, Len(d.got), d.asked) /\ Fits(slot[s].buf \o d.inq, d.run, d.tame)
    BY <1>3 DEF HttpInd, Streams, StreamOK
  <2>2. slot[s].buf \in Seq(Piece)
    BY <1>0 DEF Used, SlotRecord
  <2>3. slot[s].buf \o d.inq \in Seq(Piece)
    BY <1>1, <2>2, ConcatProperties
  <2>4. Fits(slot[s].buf \o d.inq, d.run, FALSE)
    BY <1>1, <1>2, <2>1, <2>3, FitsWild
  <2> QED
    BY <1>1, <1>2, <2>1, <2>4
<1>4. r.st \in {"none", "queued"} =>
        Numbered(r.inq, c, Len(r.got), r.asked) /\ Fits(r.inq, r.run, r.tame)
  <2> SUFFICES ASSUME r.st \in {"none", "queued"}
               PROVE  Numbered(r.inq, c, Len(r.got), r.asked) /\ Fits(r.inq, r.run, r.tame)
    OBVIOUS
  <2>1. Numbered(d.inq, c, Len(d.got), d.asked) /\ Fits(d.inq, d.run, d.tame)
    BY <1>1 DEF HttpInd, Streams, StreamOK
  <2>2. Fits(d.inq, d.run, FALSE)
    BY <1>1, <1>2, <2>1, FitsWild
  <2> QED
    BY <1>1, <1>2, <2>1, <2>2
<1>5. /\ r.got = conn[c].got /\ (r.st = "open" <=> conn[c].st = "open")
      /\ (r.st = "closed" <=> conn[c].st = "closed")
      /\ r \in ConnRecord /\ conn' = [conn EXCEPT ![c] = r]
  BY <1>0, <1>1
<1>6. ~r.tame
  BY <1>2
<1>7. Quiet(c, r)
  BY <1>0, <1>3, <1>4, <1>5, <1>6 DEF Quiet
<1> QED
  BY <1>5, <1>7, QuietStep

LEMMA SendStep ==
  ASSUME HttpInd, NEW c \in Conns, NEW kind \in Ends \cup {"x"}, Send(c, kind)
  PROVE  HttpInd'
<1> DEFINE p == [kind |-> kind, of |-> c, n |-> conn[c].asked + 1]
           run == IF kind = "x" THEN conn[c].run + 1 ELSE 0
<1>0. /\ conn \in [Conns -> ConnRecord] /\ slot \in [Slots -> SlotRecord]
      /\ conn[c].st \in {"queued", "open"} /\ ~conn[c].eof
      /\ conn' = [conn EXCEPT ![c] = [conn[c] EXCEPT !.inq = Append(conn[c].inq, p), !.run = run,
                     !.asked = IF kind = "x" THEN conn[c].asked ELSE conn[c].asked + 1,
                     !.tame = conn[c].tame /\ kind \in {"x", "keep"} /\ run < HeadCap]]
      /\ UNCHANGED <<slot, live, pc, cur, failed>>
  <2>1. conn \in [Conns -> ConnRecord] /\ slot \in [Slots -> SlotRecord]
    BY DEF HttpInd, Types
  <2>2. conn' = [conn EXCEPT ![c] = [conn[c] EXCEPT !.inq = Append(conn[c].inq, p), !.run = run,
                   !.asked = IF kind = "x" THEN conn[c].asked ELSE conn[c].asked + 1,
                   !.tame = conn[c].tame /\ kind \in {"x", "keep"} /\ run < HeadCap]]
    BY DEF Send
  <2>3. /\ conn[c].st \in {"queued", "open"} /\ ~conn[c].eof
        /\ UNCHANGED <<slot, live, pc, cur, failed>>
    BY DEF Send
  <2> HIDE DEF p, run
  <2> QED
    BY <2>1, <2>2, <2>3
<1> PICK d \in ConnRecord : d = conn[c]
  BY <1>0
<1>1. /\ d.asked \in Nat /\ d.run \in Nat /\ d.inq \in Seq(Piece) /\ d.got \in Seq(Response)
  BY DEF ConnRecord
<1>2. p \in Piece /\ p.kind = kind /\ run \in Nat
  BY <1>1 DEF Piece
<1> PICK q \in Seq(Piece) : q = Append(d.inq, p)
  BY <1>1, <1>2, AppendProperties
<1> PICK asked \in Nat : asked = IF kind = "x" THEN d.asked ELSE d.asked + 1
  BY <1>1
<1> PICK tame \in BOOLEAN : tame <=> d.tame /\ kind \in {"x", "keep"} /\ run < HeadCap
  OBVIOUS
<1> PICK n \in Nat : n = run
  BY <1>2
<1> PICK r : r = [d EXCEPT !.inq = q, !.run = n, !.asked = asked, !.tame = tame]
  OBVIOUS
<1>3. conn' = [conn EXCEPT ![c] = r]
  <2>1. (conn[c].tame /\ kind \in {"x", "keep"} /\ run < HeadCap) = tame
    OBVIOUS
  <2> HIDE DEF p, run
  <2> QED
    BY <1>0, <2>1
<1>4. /\ r \in ConnRecord /\ r.st = d.st /\ r.inq = q /\ r.got = d.got
      /\ r.asked = asked /\ r.run = n
  BY DEF ConnRecord
<1>5. (r.tame <=> tame) /\ (r.eof <=> d.eof) /\ r.tame \in BOOLEAN /\ d.tame \in BOOLEAN
  BY DEF ConnRecord
<1>6. r.tame = tame
  BY <1>5
<1> DEFINE Grows(b) ==
      /\ Numbered(b, c, Len(d.got), d.asked) /\ Fits(b, d.run, d.tame)
      => Numbered(Append(b, p), c, Len(r.got), r.asked) /\ Fits(Append(b, p), r.run, r.tame)
<1>7. ASSUME NEW b \in Seq(Piece)
      PROVE  Grows(b)
  <2> SUFFICES ASSUME Numbered(b, c, Len(d.got), d.asked), Fits(b, d.run, d.tame)
               PROVE  Numbered(Append(b, p), c, Len(r.got), r.asked) /\ Fits(Append(b, p), r.run, r.tame)
    OBVIOUS
  <2>1. Len(d.got) \in Nat
    BY <1>1, LenProperties
  <2>2. Numbered(Append(b, p), c, Len(d.got), IF kind = "x" THEN d.asked ELSE d.asked + 1)
    BY <1>1, <2>1, NumberedAppend
  <2>3. Fits(Append(b, p), n, tame)
    <3>1. n = (IF p.kind = "x" THEN d.run + 1 ELSE 0)
      BY <1>2
    <3>2. tame => d.tame /\ p.kind \in {"x", "keep"} /\ n < HeadCap
      BY <1>2
    <3> HIDE DEF p
    <3> QED
      BY <1>1, <1>2, <1>5, <3>1, <3>2, FitsAppend
  <2> QED
    BY <1>4, <1>6, <2>2, <2>3
<1> HIDE DEF Grows, p, run
<1>8. ASSUME NEW s \in Used, slot[s].of = c
      PROVE  /\ Numbered(slot[s].buf \o r.inq, c, Len(r.got), r.asked)
             /\ Fits(slot[s].buf \o r.inq, r.run, r.tame)
  <2>1. Numbered(slot[s].buf \o d.inq, c, Len(d.got), d.asked) /\ Fits(slot[s].buf \o d.inq, d.run, d.tame)
    BY <1>8 DEF HttpInd, Streams, StreamOK
  <2>2. slot[s].buf \in Seq(Piece)
    BY <1>0 DEF Used, SlotRecord
  <2>3. slot[s].buf \o d.inq \in Seq(Piece)
    BY <1>1, <2>2, ConcatProperties
  <2>4. slot[s].buf \o r.inq = Append(slot[s].buf \o d.inq, p)
    <3>1. slot[s].buf \o Append(d.inq, p) = Append(slot[s].buf \o d.inq, p)
      BY <1>1, <1>2, <2>2, StreamSend
    <3> QED
      BY <1>4, <3>1
  <2>5. Grows(slot[s].buf \o d.inq)
    BY <1>7, <2>3
  <2> QED
    BY <2>1, <2>4, <2>5 DEF Grows
<1>9. r.st \in {"none", "queued"} =>
        Numbered(r.inq, c, Len(r.got), r.asked) /\ Fits(r.inq, r.run, r.tame)
  <2> SUFFICES ASSUME r.st \in {"none", "queued"}
               PROVE  Numbered(r.inq, c, Len(r.got), r.asked) /\ Fits(r.inq, r.run, r.tame)
    OBVIOUS
  <2>1. Numbered(d.inq, c, Len(d.got), d.asked) /\ Fits(d.inq, d.run, d.tame)
    BY <1>4 DEF HttpInd, Streams, StreamOK
  <2>2. Grows(d.inq)
    BY <1>1, <1>7
  <2> QED
    BY <1>4, <2>1, <2>2 DEF Grows
<1>10. r.tame => d.tame
  BY <1>5
<1>11. r.eof => ~r.tame
  BY <1>0, <1>5
<1>12. /\ r.got = conn[c].got /\ (r.st = "open" <=> conn[c].st = "open")
       /\ (r.st = "closed" <=> conn[c].st = "closed") /\ (r.tame => conn[c].tame)
  BY <1>4, <1>10
<1>13. UNCHANGED <<slot, live, pc, cur, failed>>
  BY <1>0
<1>14. r \in ConnRecord
  BY <1>4
<1>15. Quiet(c, r)
  BY <1>3, <1>8, <1>9, <1>11, <1>12, <1>13 DEF Quiet
<1> QED
  BY <1>14, <1>15, QuietStep

(* The client whose timer runs out is no longer tame.                           *)
LEMMA ElapseStep ==
  ASSUME HttpInd, NEW o \in Slots, Elapse(o)
  PROVE  HttpInd'
<1>0. /\ conn \in [Conns -> ConnRecord] /\ slot \in [Slots -> SlotRecord] /\ pc \in PCs
      /\ o \in Used
      /\ slot' = [slot EXCEPT ![o] = [slot[o] EXCEPT !.late = TRUE]]
      /\ conn' = [conn EXCEPT ![slot[o].of] = [conn[slot[o].of] EXCEPT !.tame = FALSE]]
      /\ UNCHANGED <<live, pc, cur, failed>>
  BY DEF HttpInd, Types, Elapse, Used, PCs
<1> PICK v \in SlotRecord : v = slot[o]
  BY <1>0
<1> PICK c \in Conns : c = slot[o].of
  BY <1>0 DEF SlotRecord, Used
<1> PICK d \in ConnRecord : d = conn[c]
  BY <1>0
<1> PICK w : w = [v EXCEPT !.late = TRUE]
  OBVIOUS
<1> PICK r : r = [d EXCEPT !.tame = FALSE]
  OBVIOUS
<1>1. /\ r \in ConnRecord /\ r.st = d.st /\ r.inq = d.inq /\ r.got = d.got
      /\ r.asked = d.asked /\ r.run = d.run /\ d.run \in Nat /\ d.inq \in Seq(Piece)
  BY DEF ConnRecord
<1>2. r.tame = FALSE /\ d.tame \in BOOLEAN
  BY DEF ConnRecord
<1>3. w \in SlotRecord /\ w.of = v.of /\ w.fd = v.fd /\ w.buf = v.buf /\ v.buf \in Seq(Piece)
  BY DEF SlotRecord
<1>4. d.st = "open"
  BY <1>0 DEF HttpInd, TableSound
<1>5. \A s \in Slots : slot'[s].buf = slot[s].buf
  BY <1>0, <1>3
<1>6. BuffersSettled'
  BY <1>0, <1>5 DEF HttpInd, BuffersSettled
<1>7. \A s \in Used : slot[s].of = c => s = o
  BY <1>0 DEF HttpInd, TableSound
<1>8. Numbered(v.buf \o d.inq, c, Len(d.got), d.asked) /\ Fits(v.buf \o d.inq, d.run, d.tame)
  BY <1>0 DEF HttpInd, Streams, StreamOK
<1>9. Fits(v.buf \o d.inq, d.run, FALSE)
  <2>1. v.buf \o d.inq \in Seq(Piece)
    BY <1>1, <1>3, ConcatProperties
  <2> QED
    BY <1>1, <1>2, <1>8, <2>1, FitsWild
<1>10. \A s \in Used : slot[s].of = c =>
         /\ Numbered(slot'[s].buf \o r.inq, c, Len(r.got), r.asked)
         /\ Fits(slot'[s].buf \o r.inq, r.run, r.tame)
         /\ slot'[s].late => ~r.tame
  BY <1>0, <1>1, <1>2, <1>5, <1>7, <1>8, <1>9
<1>11. Answered(c, r.got, r.st)
  BY <1>1, SameAnswers
<1>12. (pc' = "serve" => cur' \in Used) /\ (pc' # "serve" => cur' = 0)
  BY <1>0 DEF HttpInd, TableSound
<1>13. conn' = [conn EXCEPT ![c] = r] /\ slot' = [slot EXCEPT ![o] = w]
  BY <1>0
<1>14. ~r.tame /\ r.st = "open"
  BY <1>1, <1>2, <1>4
<1>15. Touches(c, r, o, w)
  BY <1>0, <1>3, <1>4, <1>6, <1>10, <1>11, <1>12, <1>13, <1>14 DEF Touches
<1> QED
  BY <1>1, <1>3, <1>15, OneStep

(* Bytes go from the kernel to the buffer: recv with room for them.              *)
Reads(o, c, n) ==
  /\ slot' = [slot EXCEPT ![o].buf = slot[o].buf \o SubSeq(conn[c].inq, 1, n),
                          ![o].late = slot[o].late /\ ~Restarts(o)]
  /\ conn' = [conn EXCEPT ![c].inq = SubSeq(conn[c].inq, n + 1, Len(conn[c].inq))]
  /\ cur' = o /\ pc' = "serve" /\ live' = live /\ failed' = failed

LEMMA ReadBytes ==
  ASSUME HttpInd, NEW o \in Used, NEW c \in Conns, c = slot[o].of, pc = "read",
         NEW n \in Nat, n <= Len(conn[c].inq), n <= HeadCap - Len(slot[o].buf),
         Reads(o, c, n)
  PROVE  HttpInd'
<1>0. /\ conn \in [Conns -> ConnRecord] /\ slot \in [Slots -> SlotRecord] /\ o \in Slots
      /\ cur = 0
  BY DEF HttpInd, Types, TableSound, Used
<1>a. Len(slot[o].buf) + n <= HeadCap
  <2>1. slot[o].buf \in Seq(Piece)
    BY <1>0 DEF SlotRecord
  <2>2. Len(slot[o].buf) \in Nat
    BY <2>1, LenProperties
  <2> QED
    BY <2>2, HttpAssumption
<1>b. Answered(c, conn[c].got, conn[c].st)
  BY DEF HttpInd, ResponsesMatch, Answered
<1> PICK v \in SlotRecord : v = slot[o]
  BY <1>0
<1> PICK d \in ConnRecord : d = conn[c]
  BY <1>0
<1>1. /\ d.inq \in Seq(Piece) /\ v.buf \in Seq(Piece) /\ Len(d.inq) \in Nat /\ Len(v.buf) \in Nat
  BY LenProperties DEF ConnRecord, SlotRecord
<1>2. n \in 0 .. Len(d.inq)
  BY <1>1
<1>3. /\ SubSeq(d.inq, 1, n) \in Seq(Piece) /\ Len(SubSeq(d.inq, 1, n)) = n
      /\ SubSeq(d.inq, n + 1, Len(d.inq)) \in Seq(Piece)
      /\ (v.buf \o SubSeq(d.inq, 1, n)) \o SubSeq(d.inq, n + 1, Len(d.inq)) = v.buf \o d.inq
  BY <1>1, <1>2, StreamRead
<1> PICK q \in Seq(Piece) : q = SubSeq(d.inq, n + 1, Len(d.inq))
  BY <1>3
<1> PICK h \in Seq(Piece) : h = SubSeq(d.inq, 1, n) /\ Len(h) = n
  BY <1>3
<1>4. v.buf \o h \in Seq(Piece) /\ Len(v.buf \o h) = Len(v.buf) + Len(h)
  BY <1>1, ConcatProperties
<1> PICK b \in Seq(Piece) : b = v.buf \o h
  BY <1>4
<1>5. b \o q = v.buf \o d.inq /\ Len(b) <= HeadCap
  <2>1. b \o q = v.buf \o d.inq
    BY <1>3
  <2>2. Len(b) = Len(v.buf) + n
    BY <1>4
  <2>3. Len(v.buf) + n <= HeadCap
    BY <1>a
  <2> QED
    BY <2>1, <2>2, <2>3
<1> PICK late \in BOOLEAN : late <=> v.late /\ ~Restarts(o)
  OBVIOUS
<1> PICK w : w = [v EXCEPT !.buf = b, !.late = late]
  OBVIOUS
<1> PICK r : r = [d EXCEPT !.inq = q]
  OBVIOUS
<1>6. /\ r \in ConnRecord /\ r.st = d.st /\ r.inq = q /\ r.got = d.got
      /\ r.asked = d.asked /\ r.run = d.run
  BY DEF ConnRecord
<1>7. (r.tame <=> d.tame) /\ (r.eof <=> d.eof) /\ r.tame \in BOOLEAN /\ d.tame \in BOOLEAN
  BY DEF ConnRecord
<1>8. w \in SlotRecord /\ w.of = v.of /\ w.fd = v.fd /\ w.buf = b /\ (w.late => v.late)
  BY DEF SlotRecord
<1>9. conn' = [conn EXCEPT ![c] = r] /\ slot' = [slot EXCEPT ![o] = w]
  <2>1. conn' = [conn EXCEPT ![c] = r]
    BY <1>0 DEF Reads
  <2>2. (slot[o].late /\ ~Restarts(o)) = late
    OBVIOUS
  <2>3. slot' = [slot EXCEPT ![o] = [slot[o] EXCEPT !.buf = b, !.late = late]]
    BY <1>0, <2>2 DEF Reads
  <2> QED
    BY <2>1, <2>3
<1>10. slot'[o] = w /\ \A s \in Slots : s # o => slot'[s] = slot[s]
  BY <1>0, <1>9
<1>11. BuffersSettled'
  <2> SUFFICES ASSUME NEW s \in Slots
               PROVE  /\ Len(slot'[s].buf) <= HeadCap
                      /\ s # o => Len(slot'[s].buf) < HeadCap /\ EndsAt(slot'[s].buf) = {}
    BY DEF BuffersSettled, EndsAt, Reads
  <2>1. CASE s = o
    BY <1>5, <1>8, <1>10, <2>1
  <2>2. CASE s # o
    <3>1. slot'[s] = slot[s] /\ s # cur
      BY <1>0, <1>10, <2>2 DEF Slots
    <3> QED
      BY <3>1 DEF HttpInd, BuffersSettled
  <2> QED
    BY <2>1, <2>2
<1>12. \A s \in Used : slot[s].of = c => s = o
  BY DEF HttpInd, TableSound
<1>13. /\ Numbered(b \o q, c, Len(d.got), d.asked) /\ Fits(b \o q, d.run, d.tame)
       /\ v.late => ~d.tame
  BY <1>5 DEF HttpInd, Streams, StreamOK, TameInTime
<1>14. d.st = "open" /\ (d.eof => ~d.tame)
  BY DEF HttpInd, TableSound, TameInTime
<1>15. \A s \in Used : slot[s].of = c =>
         /\ Numbered(slot'[s].buf \o r.inq, c, Len(r.got), r.asked)
         /\ Fits(slot'[s].buf \o r.inq, r.run, r.tame)
         /\ slot'[s].late => ~r.tame
  <2>1. r.tame = d.tame
    BY <1>7
  <2> QED
    BY <1>6, <1>7, <1>8, <1>10, <1>12, <1>13, <2>1
<1>16. Answered(c, r.got, r.st)
  BY <1>6, <1>b
<1>17. Touches(c, r, o, w)
  BY <1>0, <1>6, <1>7, <1>8, <1>9, <1>11, <1>14, <1>15, <1>16 DEF Touches, PCs, Reads
<1> QED
  BY <1>0, <1>6, <1>8, <1>17, OneStep

-----------------------------------------------------------------------------
(* service_connection.                                                          *)
LEMMA FirstEnd ==
  ASSUME NEW b \in Seq(Piece), EndsAt(b) # {}
  PROVE  /\ Min(EndsAt(b)) \in 1 .. Len(b) /\ b[Min(EndsAt(b))].kind # "x"
         /\ \A k \in 1 .. Min(EndsAt(b)) - 1 : b[k].kind = "x"
<1>1. Len(b) \in Nat /\ DOMAIN b = 1 .. Len(b)
  BY LenProperties
<1>2. EndsAt(b) \in SUBSET Nat /\ EndsAt(b) \subseteq 1 .. Len(b)
  BY <1>1 DEF EndsAt
<1>3. Min(EndsAt(b)) \in EndsAt(b) /\ \A y \in EndsAt(b) : Min(EndsAt(b)) <= y
  BY <1>2, MinNat
<1> PICK m : m = Min(EndsAt(b))
  OBVIOUS
<1>4. m \in 1 .. Len(b) /\ b[m].kind # "x" /\ m \in EndsAt(b)
  BY <1>2, <1>3 DEF EndsAt
<1>5. ASSUME NEW k \in 1 .. m - 1, b[k].kind # "x"
      PROVE  FALSE
  <2>1. k \in EndsAt(b)
    BY <1>1, <1>4, <1>5 DEF EndsAt
  <2>2. m <= k
    BY <1>3, <2>1
  <2> QED
    BY <1>1, <1>4, <2>2
<1> QED
  BY <1>4, <1>5

(* The client of a slot: what it is, and its stream.                             *)
LEMMA SlotFacts ==
  ASSUME HttpInd, NEW o \in Used
  PROVE  /\ o \in Slots /\ slot[o] \in SlotRecord /\ slot[o].buf \in Seq(Piece)
         /\ slot[o].of \in Conns /\ conn[slot[o].of] \in ConnRecord
         /\ conn[slot[o].of].inq \in Seq(Piece) /\ conn[slot[o].of].got \in Seq(Response)
         /\ Len(conn[slot[o].of].got) \in Nat /\ conn[slot[o].of].asked \in Nat
         /\ conn[slot[o].of].run \in Nat /\ conn[slot[o].of].tame \in BOOLEAN
         /\ slot[o].buf \o conn[slot[o].of].inq \in Seq(Piece)
         /\ Len(slot[o].buf \o conn[slot[o].of].inq) = Len(slot[o].buf) + Len(conn[slot[o].of].inq)
         /\ Len(slot[o].buf) \in Nat /\ Len(conn[slot[o].of].inq) \in Nat
         /\ \A i \in 1 .. Len(slot[o].buf) :
              (slot[o].buf \o conn[slot[o].of].inq)[i] = slot[o].buf[i]
<1>1. o \in Slots /\ slot[o] \in SlotRecord /\ conn \in [Conns -> ConnRecord] /\ slot[o].of # 0
  BY DEF HttpInd, Types, Used
<1>2. slot[o].of \in Conns /\ slot[o].buf \in Seq(Piece)
  BY <1>1 DEF SlotRecord
<1>3. conn[slot[o].of] \in ConnRecord
  BY <1>1, <1>2
<1> PICK d \in ConnRecord : d = conn[slot[o].of]
  BY <1>3
<1> PICK b \in Seq(Piece) : b = slot[o].buf
  BY <1>2
<1>4. /\ d.inq \in Seq(Piece) /\ d.got \in Seq(Response) /\ d.asked \in Nat /\ d.run \in Nat
      /\ d.tame \in BOOLEAN
  BY DEF ConnRecord
<1>5. Len(d.got) \in Nat /\ Len(d.inq) \in Nat /\ Len(b) \in Nat
  BY <1>4, LenProperties
<1>6. /\ b \o d.inq \in Seq(Piece) /\ Len(b \o d.inq) = Len(b) + Len(d.inq)
      /\ \A i \in 1 .. Len(b) : (b \o d.inq)[i] = b[i]
  BY <1>4, StreamFront
<1> QED
  BY <1>1, <1>2, <1>3, <1>4, <1>5, <1>6

(* The first request of a stream that is complete in the buffer.                  *)
LEMMA FrontRequest ==
  ASSUME NEW b \in Seq(Piece), NEW t \in Seq(Piece), EndsAt(b) # {},
         NEW c \in Conns, NEW answered \in Nat, NEW asked \in Nat, NEW run \in Nat,
         NEW tame \in BOOLEAN, Numbered(b \o t, c, answered, asked), Fits(b \o t, run, tame)
  PROVE  LET m == Min(EndsAt(b)) IN
         /\ m \in 1 .. Len(b) /\ b[m].of = c /\ b[m].n = answered + 1
         /\ tame => b[m].kind = "keep"
         /\ Numbered(SubSeq(b, m + 1, Len(b)) \o t, c, answered + 1, asked)
         /\ Fits(SubSeq(b, m + 1, Len(b)) \o t, run, tame)
<1> DEFINE m == Min(EndsAt(b))
           q == b \o t
<1>1. m \in 1 .. Len(b) /\ b[m].kind # "x" /\ \A k \in 1 .. m - 1 : b[k].kind = "x"
  BY FirstEnd
<1>2. /\ q \in Seq(Piece) /\ Len(b) \in Nat /\ Numbered(q, c, answered, asked) /\ Fits(q, run, tame)
      /\ \A i \in 1 .. Len(b) : i \in 1 .. Len(q) /\ q[i] = b[i]
  BY StreamFront
<1>3. SubSeq(b, m + 1, Len(b)) \o t = SubSeq(q, m + 1, Len(q))
  BY <1>1, StreamServe
<1> HIDE DEF m, q
<1>4. m \in 1 .. Len(q) /\ q[m] = b[m] /\ q[m].kind # "x"
  BY <1>1, <1>2
<1>5. \A k \in 1 .. m - 1 : q[k].kind = "x"
  <2> SUFFICES ASSUME NEW k \in 1 .. m - 1 PROVE q[k].kind = "x"
    OBVIOUS
  <2>1. k \in 1 .. Len(b)
    BY <1>1, <1>2
  <2> QED
    BY <1>1, <1>2, <2>1
<1>6. /\ q[m].of = c /\ q[m].n = answered + 1
      /\ Numbered(SubSeq(q, m + 1, Len(q)), c, answered + 1, asked)
  BY <1>2, <1>4, <1>5, NumberedServe
<1>7. Fits(SubSeq(q, m + 1, Len(q)), run, tame)
  BY <1>2, <1>4, FitsServe
<1>8. tame => q[m].kind = "keep"
  BY <1>2, <1>4 DEF Fits
<1>9. /\ m \in 1 .. Len(b) /\ b[m].of = c /\ b[m].n = answered + 1
      /\ tame => b[m].kind = "keep"
  BY <1>1, <1>4, <1>6, <1>8
<1>10. /\ Numbered(SubSeq(b, m + 1, Len(b)) \o t, c, answered + 1, asked)
       /\ Fits(SubSeq(b, m + 1, Len(b)) \o t, run, tame)
  BY <1>3, <1>6, <1>7
<1> QED
  BY <1>9, <1>10 DEF m

(* A stream that fills the buffer without an end.                                 *)
LEMMA FrontFull ==
  ASSUME NEW b \in Seq(Piece), NEW t \in Seq(Piece), TooLarge(b),
         NEW c \in Conns, NEW answered \in Nat, NEW asked \in Nat, NEW run \in Nat,
         NEW tame \in BOOLEAN, Numbered(b \o t, c, answered, asked), Fits(b \o t, run, tame)
  PROVE  Head(b).of = c /\ Head(b).n = answered + 1 /\ ~tame
<1> DEFINE q == b \o t
<1>1. /\ q \in Seq(Piece) /\ Len(b) \in Nat /\ Numbered(q, c, answered, asked) /\ Fits(q, run, tame)
      /\ \A i \in 1 .. Len(b) : i \in 1 .. Len(q) /\ q[i] = b[i]
  BY StreamFront
<1> HIDE DEF q
<1>2. EndsAt(b) = {} /\ Len(b) >= HeadCap /\ Len(b) > 0 /\ DOMAIN b = 1 .. Len(b)
  BY <1>1, HttpAssumption, LenProperties DEF TooLarge
<1>3. \A i \in 1 .. Len(b) : q[i].kind = "x"
  BY <1>1, <1>2 DEF EndsAt
<1>4. 1 \in 1 .. Len(b) /\ Len(b) \in 1 .. Len(b)
  BY <1>1, <1>2
<1>5. Head(b) = b[1]
  OBVIOUS
<1>6. 1 \in 1 .. Len(q) /\ Len(b) \in 1 .. Len(q) /\ q[1] = b[1]
  BY <1>1, <1>4
<1>7. Len(q) \in Nat /\ Len(q) > 0
  BY <1>1, <1>6, LenProperties
<1>8. q[1].of = c
  BY <1>1, <1>6 DEF Numbered
<1>9. q[1].n = answered + 1
  BY <1>1, <1>7 DEF Numbered
<1>10. ~tame
  <2>1. tame => (Len(b) - 1) + 1 < HeadCap
    BY <1>1, <1>2, <1>3, <1>6 DEF Fits
  <2> QED
    BY <1>1, <1>2, <2>1, HttpAssumption
<1> QED
  BY <1>5, <1>6, <1>8, <1>9, <1>10

(* The head at the front of a buffer is the next request of the slot's client;    *)
(* a tame client's is well-formed and keeps the connection.                       *)
NextIs(o, c, m) ==
  /\ m \in 1 .. Len(slot[o].buf)
  /\ slot[o].buf[m].of = c /\ slot[o].buf[m].n = Len(conn[c].got) + 1
  /\ conn[c].tame => slot[o].buf[m].kind = "keep"
  /\ Numbered(SubSeq(slot[o].buf, m + 1, Len(slot[o].buf)) \o conn[c].inq, c,
              Len(conn[c].got) + 1, conn[c].asked)
  /\ Fits(SubSeq(slot[o].buf, m + 1, Len(slot[o].buf)) \o conn[c].inq, conn[c].run, conn[c].tame)

LEMMA NextRequest ==
  ASSUME HttpInd, NEW o \in Used, NEW c, c = slot[o].of, EndsAt(slot[o].buf) # {},
         NEW m, m = Min(EndsAt(slot[o].buf))
  PROVE  NextIs(o, c, m)
<1>1. Numbered(slot[o].buf \o conn[c].inq, c, Len(conn[c].got), conn[c].asked)
      /\ Fits(slot[o].buf \o conn[c].inq, conn[c].run, conn[c].tame)
  BY DEF HttpInd, Streams, StreamOK
<1>2. /\ slot[o].buf \in Seq(Piece) /\ conn[c].inq \in Seq(Piece) /\ c \in Conns
      /\ Len(conn[c].got) \in Nat /\ conn[c].asked \in Nat /\ conn[c].run \in Nat
      /\ conn[c].tame \in BOOLEAN
  BY SlotFacts
<1> DEFINE b == slot[o].buf
           d == conn[c]
<1>3. /\ b \in Seq(Piece) /\ d.inq \in Seq(Piece) /\ c \in Conns
      /\ Len(d.got) \in Nat /\ d.asked \in Nat /\ d.run \in Nat /\ d.tame \in BOOLEAN
      /\ Numbered(b \o d.inq, c, Len(d.got), d.asked) /\ Fits(b \o d.inq, d.run, d.tame)
      /\ EndsAt(b) # {} /\ m = Min(EndsAt(b))
  BY <1>1, <1>2
<1> HIDE DEF b, d
<1>4. /\ m \in 1 .. Len(b) /\ b[m].of = c /\ b[m].n = Len(d.got) + 1
      /\ d.tame => b[m].kind = "keep"
      /\ Numbered(SubSeq(b, m + 1, Len(b)) \o d.inq, c, Len(d.got) + 1, d.asked)
      /\ Fits(SubSeq(b, m + 1, Len(b)) \o d.inq, d.run, d.tame)
  BY <1>3, FrontRequest
<1> QED
  BY <1>4 DEF b, d, NextIs

(* A buffer full of one head belongs to no tame client.                           *)
LEMMA FullHead ==
  ASSUME HttpInd, NEW o \in Used, NEW c, c = slot[o].of, TooLarge(slot[o].buf)
  PROVE  /\ Head(slot[o].buf).of = c /\ Head(slot[o].buf).n = Len(conn[c].got) + 1
         /\ ~conn[c].tame
<1>1. Numbered(slot[o].buf \o conn[c].inq, c, Len(conn[c].got), conn[c].asked)
      /\ Fits(slot[o].buf \o conn[c].inq, conn[c].run, conn[c].tame)
  BY DEF HttpInd, Streams, StreamOK
<1>2. /\ slot[o].buf \in Seq(Piece) /\ conn[c].inq \in Seq(Piece) /\ c \in Conns
      /\ Len(conn[c].got) \in Nat /\ conn[c].asked \in Nat /\ conn[c].run \in Nat
      /\ conn[c].tame \in BOOLEAN
  BY SlotFacts
<1> DEFINE b == slot[o].buf
           d == conn[c]
<1>3. /\ b \in Seq(Piece) /\ d.inq \in Seq(Piece) /\ c \in Conns
      /\ Len(d.got) \in Nat /\ d.asked \in Nat /\ d.run \in Nat /\ d.tame \in BOOLEAN
      /\ Numbered(b \o d.inq, c, Len(d.got), d.asked) /\ Fits(b \o d.inq, d.run, d.tame)
      /\ TooLarge(b)
  BY <1>1, <1>2
<1> HIDE DEF b, d
<1>4. Head(b).of = c /\ Head(b).n = Len(d.got) + 1 /\ ~d.tame
  BY <1>3, FrontFull
<1> QED
  BY <1>4 DEF b, d

(* One request answered, the connection kept and the rest of the buffer moved up.  *)
Keeps(o, c, e) ==
  /\ conn' = [conn EXCEPT ![c].got = conn[c].got \o Status("ok", e)]
  /\ slot' = [slot EXCEPT ![o].buf = Remainder(slot[o].buf), ![o].late = FALSE]
  /\ \/ Remainder(slot[o].buf) # <<>> /\ UNCHANGED <<pc, cur>>
     \/ Remainder(slot[o].buf) = <<>> /\ pc' = "read" /\ cur' = 0
  /\ live' = live /\ failed' = failed

LEMMA ServeKeep ==
  ASSUME HttpInd, pc = "serve", NEW o, o = cur, NEW c, c = slot[o].of,
         EndsAt(slot[o].buf) # {}, Keeps(o, c, slot[o].buf[Min(EndsAt(slot[o].buf))])
  PROVE  HttpInd'
<1>0. /\ conn \in [Conns -> ConnRecord] /\ slot \in [Slots -> SlotRecord] /\ o \in Used
  BY DEF HttpInd, Types, TableSound
<1>1. /\ o \in Slots /\ slot[o] \in SlotRecord /\ c \in Conns /\ conn[c] \in ConnRecord
      /\ slot[o].buf \in Seq(Piece) /\ Len(slot[o].buf) \in Nat /\ conn[c].inq \in Seq(Piece)
      /\ conn[c].got \in Seq(Response) /\ Len(conn[c].got) \in Nat
  BY <1>0, SlotFacts
<1>m. PICK m : m = Min(EndsAt(slot[o].buf))
  OBVIOUS
<1>e. NextIs(o, c, m)
  <2>1. o \in Used
    BY <1>0
  <2> QED
    BY <1>m, <2>1, NextRequest
<1>v. PICK v \in SlotRecord : v = slot[o]
  BY <1>1
<1>d. PICK d \in ConnRecord : d = conn[c]
  BY <1>1
<1>2. /\ m \in 1 .. Len(v.buf) /\ v.buf[m].of = c /\ v.buf[m].n = Len(d.got) + 1
      /\ Numbered(SubSeq(v.buf, m + 1, Len(v.buf)) \o d.inq, c, Len(d.got) + 1, d.asked)
      /\ Fits(SubSeq(v.buf, m + 1, Len(v.buf)) \o d.inq, d.run, d.tame)
  <2>1. EndsAt(v.buf) # {} /\ v.buf = slot[o].buf /\ d = conn[c]
    BY <1>v, <1>d
  <2> QED
    BY <1>e, <2>1 DEF NextIs
<1>3. /\ SubSeq(v.buf, m + 1, Len(v.buf)) \in Seq(Piece)
      /\ Len(SubSeq(v.buf, m + 1, Len(v.buf))) = Len(v.buf) - m
  BY <1>1, <1>2, <1>v, <1>d, StreamServe
<1>b. PICK b \in Seq(Piece) : b = SubSeq(v.buf, m + 1, Len(v.buf))
  BY <1>3
<1>n. PICK n \in Nat : n = Len(d.got) + 1
  BY <1>1, <1>d
<1>a. PICK a : a = <<[status |-> "ok", of |-> c, n |-> n]>>
  OBVIOUS
<1>c. /\ a \in Seq(Response) /\ Len(a) = 1
      /\ a[1].status = "ok" /\ a[1].of = c /\ a[1].n = n
  BY <1>1, <1>a DEF Response
<1>4. Remainder(slot[o].buf) = b /\ Status("ok", slot[o].buf[Min(EndsAt(slot[o].buf))]) = a
  <2>1. Remainder(v.buf) = b
    BY <1>b, <1>m, <1>v DEF Remainder
  <2>2. Status("ok", v.buf[m]) = a
    BY <1>2, <1>n, <1>a DEF Status
  <2> QED
    BY <1>v, <1>m, <2>1, <2>2
<1>5. /\ d.got \o a \in Seq(Response) /\ Len(d.got \o a) = n
      /\ \A i \in DOMAIN (d.got \o a) :
           \/ i \in DOMAIN d.got /\ (d.got \o a)[i] = d.got[i]
           \/ i = n /\ (d.got \o a)[i] = a[1]
  <2>1. d.got \in Seq(Response) /\ a \in Seq(Response) /\ Len(a) <= 1
    BY <1>1, <1>c, <1>d
  <2>2. /\ d.got \o a \in Seq(Response)
        /\ Len(d.got \o a) = Len(d.got) + Len(a)
        /\ \A i \in DOMAIN (d.got \o a) :
             \/ i \in DOMAIN d.got /\ (d.got \o a)[i] = d.got[i]
             \/ i = Len(d.got) + 1 /\ 1 \in DOMAIN a /\ (d.got \o a)[i] = a[1] /\ i = Len(d.got \o a)
    BY <2>1, GotOne
  <2> QED
    BY <1>c, <1>n, <2>2
<1>g. PICK g \in Seq(Response) : g = d.got \o a
  BY <1>5
<1>6. /\ conn' = [conn EXCEPT ![c] = [d EXCEPT !.got = g]]
      /\ slot' = [slot EXCEPT ![o] = [v EXCEPT !.buf = b, !.late = FALSE]]
  BY <1>4, <1>v, <1>d, <1>g DEF Keeps
<1>w. PICK w : w = [v EXCEPT !.buf = b, !.late = FALSE]
  OBVIOUS
<1>r. PICK r : r = [d EXCEPT !.got = g]
  OBVIOUS
<1>7. /\ r \in ConnRecord /\ r.st = d.st /\ r.inq = d.inq /\ r.got = g
      /\ r.asked = d.asked /\ r.run = d.run
  BY <1>r DEF ConnRecord
<1>8. (r.tame <=> d.tame) /\ (r.eof <=> d.eof) /\ r.tame \in BOOLEAN /\ d.tame \in BOOLEAN
  BY <1>r DEF ConnRecord
<1>9. w \in SlotRecord /\ w.of = v.of /\ w.fd = v.fd /\ w.buf = b /\ ~w.late
  BY <1>w DEF SlotRecord
<1>10. conn' = [conn EXCEPT ![c] = r] /\ slot' = [slot EXCEPT ![o] = w]
  BY <1>6, <1>w, <1>r
<1>11. slot'[o] = w /\ \A s \in Slots : s # o => slot'[s] = slot[s]
  BY <1>0, <1>1, <1>10
<1>12. BuffersSettled'
  <2> SUFFICES ASSUME NEW s \in Slots
               PROVE  /\ Len(slot'[s].buf) <= HeadCap
                      /\ s # cur' => Len(slot'[s].buf) < HeadCap /\ EndsAt(slot'[s].buf) = {}
    BY DEF BuffersSettled, EndsAt
  <2>1. CASE s = o
    <3>1. Len(v.buf) <= HeadCap
      BY <1>1, <1>v DEF HttpInd, BuffersSettled
    <3>2. Len(b) <= HeadCap
      <4>1. Len(b) = Len(v.buf) - m /\ Len(v.buf) \in Nat /\ m \in 1 .. Len(v.buf)
        BY <1>1, <1>2, <1>3, <1>b, <1>v
      <4> QED
        BY <3>1, <4>1, HttpAssumption
    <3>3. cur' = o \/ b = <<>>
      BY <1>4 DEF Keeps
    <3>4. Len(<<>>) = 0 /\ EndsAt(<<>>) = {} /\ HeadCap > 0
      BY HttpAssumption DEF EndsAt
    <3> QED
      BY <1>9, <1>11, <2>1, <3>2, <3>3, <3>4
  <2>2. CASE s # o
    <3>1. slot'[s] = slot[s] /\ s # cur
      BY <1>11, <2>2
    <3> QED
      BY <3>1 DEF HttpInd, BuffersSettled
  <2> QED
    BY <2>1, <2>2
<1>13. \A s \in Used : slot[s].of = c => s = o
  BY <1>0 DEF HttpInd, TableSound
<1>14. d.st = "open" /\ (d.eof => ~d.tame)
  BY <1>0, <1>1, <1>d DEF HttpInd, TableSound, TameInTime
<1>15. \A s \in Used : slot[s].of = c =>
         /\ Numbered(slot'[s].buf \o r.inq, c, Len(r.got), r.asked)
         /\ Fits(slot'[s].buf \o r.inq, r.run, r.tame)
         /\ slot'[s].late => ~r.tame
  <2>1. r.tame = d.tame
    BY <1>8
  <2>2. Numbered(b \o d.inq, c, Len(g), d.asked) /\ Fits(b \o d.inq, d.run, d.tame)
    BY <1>2, <1>5, <1>b, <1>n, <1>g
  <2> QED
    BY <1>7, <1>9, <1>11, <1>13, <2>1, <2>2
<1>16. Answered(c, r.got, r.st)
  <2>1. Answered(c, d.got, "open")
    BY <1>1, <1>14, <1>d DEF HttpInd, ResponsesMatch, Answered
  <2>2. ASSUME NEW i \in DOMAIN g
        PROVE  g[i].of = c /\ (g[i].status = "408" \/ g[i].n = i) /\ g[i].status = "ok"
    <3>1. CASE i \in DOMAIN d.got /\ g[i] = d.got[i]
      BY <2>1, <3>1 DEF Answered
    <3>2. CASE i = n /\ g[i] = a[1]
      BY <1>c, <3>2
    <3> QED
      BY <1>5, <1>g, <3>1, <3>2
  <2> QED
    BY <1>7, <2>2 DEF Answered
<1>17. /\ pc' \in PCs /\ (pc' = "closed" <=> pc = "closed") /\ live' = live /\ failed' = failed
       /\ (pc' = "serve" => cur' \in Used) /\ (pc' # "serve" => cur' = 0)
  BY <1>0 DEF Keeps, PCs
<1>18. /\ w = slot[o] \/ slot[o].of = c
       /\ w.of = slot[o].of /\ w.fd = slot[o].fd
       /\ (r.st = "open" <=> conn[c].st = "open") /\ (r.st = "closed" <=> conn[c].st = "closed")
       /\ ~(r.st \in {"none", "queued"})
  BY <1>7, <1>9, <1>14, <1>v, <1>d
<1>19. (r.tame => conn[c].tame) /\ (r.eof => ~r.tame)
  BY <1>8, <1>14, <1>d
<1>20. Touches(c, r, o, w)
  BY <1>10, <1>12, <1>15, <1>16, <1>17, <1>18, <1>19 DEF Touches
<1> QED
  BY <1>1, <1>7, <1>9, <1>20, OneStep

(* A connection closed without an answer: the peer is gone, or the server closes.   *)
LEMMA SilentTold ==
  /\ Silent \in [Conns -> Seq(Response)]
  /\ \A c \in Conns : Len(Silent[c]) = 0 /\ DOMAIN Silent[c] = {}
<1>1. <<>> \in Seq(Response) /\ Len(<<>>) = 0 /\ DOMAIN <<>> = {}
  OBVIOUS
<1> QED
  BY <1>1 DEF Silent

(* One request answered with an error, or its connection closed after the answer.   *)
LEMMA ServeClose ==
  ASSUME HttpInd, pc = "serve", NEW o, o = cur, NEW c, c = slot[o].of,
         NEW a \in Seq(Response), Len(a) = 1, a[1].of = c, a[1].n = Len(conn[c].got) + 1,
         CloseSlots({o}, [Silent EXCEPT ![c] = a]),
         pc' = "read", cur' = 0, failed' \in BOOLEAN, failed => failed', ~conn[c].tame \/ failed'
  PROVE  HttpInd'
<1>1. o \in Used
  BY DEF HttpInd, TableSound
<1>2. c \in Conns
  BY <1>1, SlotFacts
<1>3. PICK told : told = [Silent EXCEPT ![c] = a]
  OBVIOUS
<1>4. /\ told \in [Conns -> Seq(Response)] /\ told[c] = a
      /\ \A e \in Conns : e # c => told[e] = <<>>
  <2>1. PICK quiet \in [Conns -> Seq(Response)] : quiet = Silent
    BY SilentTold
  <2>2. \A e \in Conns : quiet[e] = <<>>
    BY <2>1 DEF Silent
  <2>3. told = [quiet EXCEPT ![c] = a]
    BY <1>3, <2>1
  <2> QED
    BY <1>2, <2>2, <2>3
<1>5. PICK closing \in SUBSET Used : closing = {o}
  BY <1>1
<1>6. CloseSlots(closing, told)
  BY <1>3, <1>5
<1>7. \A e \in Conns :
        /\ Len(told[e]) <= 1
        /\ 1 \in DOMAIN told[e] =>
             told[e][1].of = e /\ (told[e][1].status = "408" \/ told[e][1].n = Len(conn[e].got) + 1)
  <2> SUFFICES ASSUME NEW e \in Conns
               PROVE  /\ Len(told[e]) <= 1
                      /\ 1 \in DOMAIN told[e] =>
                           told[e][1].of = e /\ (told[e][1].status = "408" \/ told[e][1].n = Len(conn[e].got) + 1)
    OBVIOUS
  <2>1. CASE e = c
    <3>1. told[e] = a /\ Len(conn[e].got) = Len(conn[c].got)
      BY <1>4, <2>1
    <3>2. Len(told[e]) <= 1
      <4>1. Len(told[e]) = 1
        BY <3>1
      <4> QED
        BY <4>1
    <3>3. told[e][1].of = e
      BY <2>1, <3>1
    <3>4. told[e][1].n = Len(conn[e].got) + 1
      BY <2>1, <3>1
    <3> QED
      BY <3>2, <3>3, <3>4
  <2>2. CASE e # c
    <3>1. told[e] = <<>> /\ Len(<<>>) = 0 /\ DOMAIN <<>> = {}
      BY <1>4, <2>2
    <3> QED
      BY <3>1
  <2> QED
    BY <2>1, <2>2
<1>8. /\ pc # "closed" /\ pc' \in PCs /\ pc' # "serve" /\ cur' = 0
      /\ (pc' = "closed" => closing = Used) /\ (pc = "serve" => cur \in closing)
  BY <1>5 DEF PCs
<1>9. \A s \in closing : ~conn[slot[s].of].tame \/ failed' \/ pc' = "closed"
  BY <1>5
<1>10. Closes(closing, told)
  BY <1>6, <1>7, <1>8, <1>9 DEF Closes
<1> QED
  BY <1>4, <1>10, CloseStep

LEMMA FailedTypes ==
  ASSUME HttpInd, NoFault \/ Fault
  PROVE  failed' \in BOOLEAN /\ (failed => failed')
BY DEF HttpInd, Types, NoFault, Fault

LEMMA StatusSent ==
  ASSUME NEW st \in {"ok", "400", "408", "431", "cut"}, NEW c \in Conns, NEW p, p.of = c, p.n \in Nat
  PROVE  /\ Status(st, p) \in Seq(Response) /\ Len(Status(st, p)) = 1
         /\ Status(st, p)[1].of = c /\ Status(st, p)[1].n = p.n
BY DEF Response, Status

LEMMA ServeStep ==
  ASSUME HttpInd, Serve
  PROVE  HttpInd'
<1>0. PICK o : o = cur
  OBVIOUS
<1>1. PICK c : c = slot[o].of
  OBVIOUS
<1>2. PICK buf : buf = slot[o].buf
  OBVIOUS
<1>3. pc = "serve" /\ o \in Used
  BY <1>0 DEF Serve, HttpInd, TableSound
<1>4. c \in Conns /\ Len(conn[c].got) \in Nat
  BY <1>1, <1>3, SlotFacts
<1>5. CASE EndsAt(buf) = {} /\ ~TooLarge(buf) /\ pc' = "read" /\ cur' = 0 /\ UNCHANGED <<conn, slot, live>> /\ NoFault
  <2>1. Len(buf) < HeadCap
    <3>1. Len(buf) \in Nat
      BY <1>2, <1>3, SlotFacts
    <3> QED
      BY <1>5, <3>1, HttpAssumption DEF TooLarge
  <2>2. failed' \in BOOLEAN /\ (failed => failed')
    BY <1>5, FailedTypes
  <2>3. Len(slot[cur].buf) < HeadCap /\ EndsAt(slot[cur].buf) = {}
    BY <1>0, <1>2, <1>5, <2>1
  <2> QED
    BY <1>3, <1>5, <2>2, <2>3, ControlStep DEF PCs
<1>6. CASE /\ TooLarge(buf) /\ CloseSlots({o}, [Silent EXCEPT ![c] = Status("431", Head(buf))])
           /\ pc' = "read" /\ cur' = 0 /\ NoFault
  <2>1. Head(buf).of = c /\ Head(buf).n = Len(conn[c].got) + 1 /\ ~conn[c].tame
    BY <1>1, <1>2, <1>3, <1>6, FullHead
  <2>2. PICK a \in Seq(Response) :
          /\ a = Status("431", Head(buf)) /\ Len(a) = 1 /\ a[1].of = c /\ a[1].n = Len(conn[c].got) + 1
    BY <1>4, <2>1, StatusSent
  <2>3. CloseSlots({o}, [Silent EXCEPT ![c] = a])
    BY <1>6, <2>2
  <2>4. failed' \in BOOLEAN /\ (failed => failed')
    BY <1>6, FailedTypes
  <2> QED
    BY <1>0, <1>1, <1>3, <1>6, <2>1, <2>2, <2>3, <2>4, ServeClose
<1>7. ASSUME EndsAt(buf) # {}
      PROVE  LET e == buf[Min(EndsAt(buf))] IN
             e.of = c /\ e.n = Len(conn[c].got) + 1 /\ (conn[c].tame => e.kind = "keep")
  <2>1. PICK m : m = Min(EndsAt(slot[o].buf))
    OBVIOUS
  <2>2. NextIs(o, c, m)
    BY <1>1, <1>2, <1>3, <1>7, <2>1, NextRequest
  <2> QED
    BY <1>2, <2>1, <2>2 DEF NextIs
<1>8. ASSUME EndsAt(buf) # {}, NEW st \in {"ok", "400", "408", "431", "cut"},
             CloseSlots({o}, [Silent EXCEPT ![c] = Status(st, buf[Min(EndsAt(buf))])]),
             pc' = "read", cur' = 0, NoFault \/ Fault, ~conn[c].tame \/ failed'
      PROVE  HttpInd'
  <2>1. PICK e : e = buf[Min(EndsAt(buf))]
    OBVIOUS
  <2>2. e.of = c /\ e.n = Len(conn[c].got) + 1
    BY <1>7, <1>8, <2>1
  <2>3. PICK a \in Seq(Response) :
          /\ a = Status(st, e) /\ Len(a) = 1 /\ a[1].of = c /\ a[1].n = Len(conn[c].got) + 1
    BY <1>4, <2>2, StatusSent
  <2>4. CloseSlots({o}, [Silent EXCEPT ![c] = a])
    BY <1>8, <2>1, <2>3
  <2>5. failed' \in BOOLEAN /\ (failed => failed')
    BY <1>8, FailedTypes
  <2> QED
    BY <1>0, <1>1, <1>3, <1>8, <2>3, <2>4, <2>5, ServeClose
<1>9. CASE /\ EndsAt(buf) # {} /\ buf[Min(EndsAt(buf))].kind = "bad"
           /\ CloseSlots({o}, [Silent EXCEPT ![c] = Status("400", buf[Min(EndsAt(buf))])])
           /\ pc' = "read" /\ cur' = 0 /\ NoFault
  BY <1>7, <1>8, <1>9
<1>10. CASE /\ EndsAt(buf) # {} /\ SendFails(c)
            /\ CloseSlots({o}, [Silent EXCEPT ![c] = Status("cut", buf[Min(EndsAt(buf))])])
            /\ pc' = "read" /\ cur' = 0
  <2>1. (NoFault \/ Fault) /\ (~conn[c].tame \/ failed')
    BY <1>4, <1>10 DEF SendFails, Fault, HttpInd, TameInTime
  <2> QED
    BY <1>8, <1>10, <2>1
<1>11. CASE /\ EndsAt(buf) # {} /\ buf[Min(EndsAt(buf))].kind = "close"
            /\ CloseSlots({o}, [Silent EXCEPT ![c] = Status("ok", buf[Min(EndsAt(buf))])])
            /\ pc' = "read" /\ cur' = 0 /\ NoFault
  BY <1>7, <1>8, <1>11
<1>12. CASE /\ EndsAt(buf) # {}
            /\ conn' = [conn EXCEPT ![c].got = conn[c].got \o Status("ok", buf[Min(EndsAt(buf))])]
            /\ slot' = [slot EXCEPT ![o].buf = Remainder(buf), ![o].late = FALSE]
            /\ IF ServesOn(buf) THEN UNCHANGED <<pc, cur>> ELSE pc' = "read" /\ cur' = 0
            /\ UNCHANGED live /\ NoFault
  <2>1. Keeps(o, c, slot[o].buf[Min(EndsAt(slot[o].buf))])
    BY <1>2, <1>12 DEF Keeps, ServesOn, NoFault
  <2> QED
    BY <1>0, <1>1, <1>2, <1>3, <1>12, <2>1, ServeKeep
<1> QED
  BY <1>0, <1>1, <1>2, <1>5, <1>6, <1>9, <1>10, <1>11, <1>12 DEF Serve

-----------------------------------------------------------------------------
(* The other steps of run.                                                        *)
LEMMA PollStep ==
  ASSUME HttpInd, Poll
  PROVE  HttpInd'
<1>1. /\ UNCHANGED <<conn, slot, live, cur>> /\ pc = "poll" /\ pc' \in {"done", "polled"}
      /\ NoFault \/ Fault
  BY DEF Poll
<1>2. failed' \in BOOLEAN /\ (failed => failed')
  BY <1>1, FailedTypes
<1>3. cur' = 0
  BY <1>1 DEF HttpInd, TableSound
<1> QED
  BY <1>1, <1>2, <1>3, ControlStep DEF PCs

LEMMA TimeoutsStep ==
  ASSUME HttpInd, Timeouts
  PROVE  HttpInd'
<1>0. pc = "polled" /\ cur' = cur /\ failed' = failed /\ cur = 0 /\ failed \in BOOLEAN
  BY DEF Timeouts, HttpInd, TableSound, Types
<1>1. CASE pc' = "done" /\ UNCHANGED <<conn, slot, live>>
  BY <1>0, <1>1, ControlStep DEF PCs
<1> DEFINE Told408(c) == \E s \in TimedOut : slot[s].of = c /\ slot[s].buf # <<>>
<1>2. CASE /\ pc' = "accept"
           /\ CloseSlots(TimedOut, [c \in Conns |->
                IF Told408(c) THEN <<[status |-> "408", of |-> c, n |-> 0]>> ELSE <<>>])
  <2>1. TimedOut \subseteq Used
    BY DEF TimedOut, Used
  <2>2. PICK closing \in SUBSET Used : closing = TimedOut
    BY <2>1
  <2>3. PICK told : told = [c \in Conns |->
                             IF Told408(c) THEN <<[status |-> "408", of |-> c, n |-> 0]>> ELSE <<>>]
    OBVIOUS
  <2> HIDE DEF Told408
  <2>4. ASSUME NEW c \in Conns
        PROVE  /\ told[c] \in Seq(Response) /\ Len(told[c]) <= 1
               /\ 1 \in DOMAIN told[c] => told[c][1].of = c /\ told[c][1].status = "408"
    <3>1. CASE Told408(c)
      <4>1. told[c] = <<[status |-> "408", of |-> c, n |-> 0]>>
        BY <2>3, <3>1
      <4>2. [status |-> "408", of |-> c, n |-> 0] \in Response
        BY DEF Response
      <4> QED
        BY <4>1, <4>2
    <3>2. CASE ~Told408(c)
      <4>1. told[c] = <<>> /\ Len(<<>>) = 0 /\ DOMAIN <<>> = {} /\ <<>> \in Seq(Response)
        BY <2>3, <3>2
      <4> QED
        BY <4>1
    <3> QED
      BY <3>1, <3>2
  <2>5. told \in [Conns -> Seq(Response)]
    BY <2>3, <2>4
  <2>6. CloseSlots(closing, told)
    BY <1>2, <2>2, <2>3
  <2>7. \A s \in closing : ~conn[slot[s].of].tame
    BY <2>2 DEF HttpInd, TameInTime, TimedOut
  <2>8. /\ pc # "closed" /\ pc' \in PCs /\ pc' # "serve" /\ cur' = 0
        /\ (pc' = "closed" => closing = Used) /\ (pc = "serve" => cur \in closing)
        /\ failed' \in BOOLEAN /\ (failed => failed')
    BY <1>0, <1>2 DEF PCs
  <2>9. Closes(closing, told)
    BY <2>4, <2>6, <2>7, <2>8 DEF Closes
  <2> QED
    BY <2>5, <2>9, CloseStep
<1> QED
  BY <1>1, <1>2 DEF Timeouts

LEMMA CloseServerStep ==
  ASSUME HttpInd, CloseServer
  PROVE  HttpInd'
<1>0. /\ pc = "done" /\ pc' = "closed" /\ cur' = cur /\ cur = 0
      /\ failed' = failed /\ failed \in BOOLEAN /\ CloseSlots(CloseAll, Silent)
  BY DEF CloseServer, HttpInd, TableSound, Types
<1>1. CloseAll = Used
  BY DEF CloseAll, Used
<1>2. PICK closing \in SUBSET Used : closing = Used
  OBVIOUS
<1>3. PICK told \in [Conns -> Seq(Response)] : told = Silent
  BY SilentTold
<1>4. CloseSlots(closing, told)
  BY <1>0, <1>1, <1>2, <1>3
<1>5. Closes(closing, told)
  BY <1>0, <1>2, <1>3, <1>4, SilentTold DEF Closes, PCs
<1> QED
  BY <1>5, CloseStep

LEMMA ReadStep ==
  ASSUME HttpInd, Read
  PROVE  HttpInd'
<1>0. pc = "read" /\ cur = 0 /\ failed' = failed /\ failed \in BOOLEAN
  BY DEF Read, HttpInd, TableSound, Types
<1>1. CASE UNCHANGED <<conn, slot, live, cur>> /\ pc' \in {"read", "poll"}
  BY <1>0, <1>1, ControlStep DEF PCs
<1>2. ASSUME NEW o \in Used, PeerGone(slot[o].of, HeadCap - Len(slot[o].buf)),
             CloseSlots({o}, Silent), UNCHANGED <<pc, cur>>
      PROVE  HttpInd'
  <2>1. PICK closing \in SUBSET Used : closing = {o}
    OBVIOUS
  <2>2. PICK told \in [Conns -> Seq(Response)] : told = Silent
    BY SilentTold
  <2>3. CloseSlots(closing, told)
    BY <1>2, <2>1, <2>2
  <2>4. Len(slot[o].buf) < HeadCap /\ Len(slot[o].buf) \in Nat
    <3>1. o \in Slots
      BY SlotFacts
    <3>2. 0 \notin Slots
      BY HttpAssumption DEF Slots
    <3> QED
      BY <1>0, <3>1, <3>2, SlotFacts DEF HttpInd, BuffersSettled
  <2>5. HeadCap - Len(slot[o].buf) # 0
    BY <2>4, HttpAssumption
  <2>6. conn[slot[o].of].eof
    BY <1>2, <2>5 DEF PeerGone
  <2>7. ~conn[slot[o].of].tame
    <3>1. slot[o].of \in Conns
      BY SlotFacts
    <3> QED
      BY <2>6, <3>1 DEF HttpInd, TameInTime
  <2>8. Closes(closing, told)
    BY <1>0, <1>2, <2>1, <2>2, <2>3, <2>7, SilentTold DEF Closes, PCs
  <2> QED
    BY <2>8, CloseStep
<1>3. ASSUME NEW o \in Used, NEW c, c = slot[o].of,
             NEW n, n = Min({HeadCap - Len(slot[o].buf), Len(conn[c].inq)}), Reads(o, c, n)
      PROVE  HttpInd'
  <2>1. /\ c \in Conns /\ Len(slot[o].buf) \in Nat /\ Len(conn[c].inq) \in Nat
    BY <1>3, SlotFacts
  <2>2. Len(slot[o].buf) <= HeadCap
    <3>1. o \in Slots
      BY SlotFacts
    <3> QED
      BY <3>1 DEF HttpInd, BuffersSettled
  <2>3. PICK S : S = {HeadCap - Len(slot[o].buf), Len(conn[c].inq)}
    OBVIOUS
  <2>4. S \in SUBSET Nat /\ S # {}
    BY <2>1, <2>2, <2>3, HttpAssumption
  <2>5. n \in S /\ \A y \in S : n <= y
    BY <1>3, <2>3, <2>4, MinNat
  <2>6. n \in Nat /\ n <= Len(conn[c].inq) /\ n <= HeadCap - Len(slot[o].buf)
    BY <2>3, <2>4, <2>5
  <2> QED
    BY <1>0, <1>3, <2>1, <2>6, ReadBytes
<1>4. CASE pfds # <<>>
  <2> DEFINE at == {s \in Slots : slot[s].of # 0 /\ slot[s].fd = Head(pfds)}
  <2>1. CASE at = {} /\ UNCHANGED <<conn, slot, live, pc, cur>>
    BY <1>0, <1>1, <2>1
  <2>2. ASSUME NEW s \in at,
               LET c == slot[s].of
                   room == HeadCap - Len(slot[s].buf)
                   n == Min({room, Len(conn[c].inq)})
               IN \/ /\ PeerGone(c, room)
                     /\ CloseSlots({s}, Silent) /\ UNCHANGED <<pc, cur>>
                  \/ /\ ~PeerGone(c, room) /\ n = 0
                     /\ UNCHANGED <<conn, slot, live, pc, cur>>
                  \/ /\ ~PeerGone(c, room) /\ n > 0
                     /\ slot' = [slot EXCEPT ![s].buf = @ \o SubSeq(conn[c].inq, 1, n),
                                             ![s].late = @ /\ ~Restarts(s)]
                     /\ conn' = [conn EXCEPT ![c].inq = SubSeq(@, n + 1, Len(@))]
                     /\ cur' = s /\ pc' = "serve" /\ UNCHANGED live
        PROVE  HttpInd'
    <3>0. s \in Used
      BY DEF Used
    <3>1. CASE /\ PeerGone(slot[s].of, HeadCap - Len(slot[s].buf))
               /\ CloseSlots({s}, Silent) /\ UNCHANGED <<pc, cur>>
      BY <1>2, <3>0, <3>1
    <3>2. CASE UNCHANGED <<conn, slot, live, pc, cur>>
      BY <1>0, <1>1, <3>2
    <3>3. PICK c : c = slot[s].of
      OBVIOUS
    <3>4. PICK n : n = Min({HeadCap - Len(slot[s].buf), Len(conn[c].inq)})
      OBVIOUS
    <3>5. CASE /\ slot' = [slot EXCEPT ![s].buf = slot[s].buf \o SubSeq(conn[c].inq, 1, n),
                                       ![s].late = slot[s].late /\ ~Restarts(s)]
               /\ conn' = [conn EXCEPT ![c].inq = SubSeq(conn[c].inq, n + 1, Len(conn[c].inq))]
               /\ cur' = s /\ pc' = "serve" /\ live' = live
      <4>1. Reads(s, c, n)
        BY <1>0, <3>5 DEF Reads
      <4> QED
        BY <1>3, <3>0, <3>3, <3>4, <4>1
    <3>6. CASE /\ slot' = [slot EXCEPT ![s].buf = @ \o SubSeq(conn[c].inq, 1, n),
                                       ![s].late = @ /\ ~Restarts(s)]
               /\ conn' = [conn EXCEPT ![c].inq = SubSeq(@, n + 1, Len(@))]
               /\ cur' = s /\ pc' = "serve" /\ UNCHANGED live
      BY <3>5, <3>6
    <3> QED
      BY <2>2, <3>1, <3>2, <3>3, <3>4, <3>6
  <2> QED
    BY <1>4, <2>1, <2>2 DEF Read
<1>5. CASE pfds = <<>>
  BY <1>0, <1>1, <1>5 DEF Read
<1> QED
  BY <1>4, <1>5
-----------------------------------------------------------------------------
(* A connection is accepted: under the cap there is a free slot, and a free      *)
(* descriptor among as many as there are slots.                                  *)
LEMMA FreeSlot ==
  ASSUME HttpInd, live < Cap
  PROVE  Min({t \in Slots : slot[t].of = 0}) \in Slots \ Used
<1>1. live = Cardinality(Used)
  BY DEF HttpInd, TableSound
<1>2. PICK S : S = {t \in Slots : slot[t].of = 0}
  OBVIOUS
<1>3. S # {}
  <2>1. S = {} => Used = Slots
    BY <1>2 DEF Used
  <2> QED
    BY <1>1, <2>1, FiniteSlots, HttpAssumption
<1>4. S \in SUBSET Nat
  BY <1>2 DEF Slots
<1>5. Min(S) \in S
  BY <1>3, <1>4, MinNat
<1> QED
  BY <1>2, <1>5 DEF Used

LEMMA FreeFd ==
  ASSUME HttpInd, live < Cap
  PROVE  LowestFd \in Slots /\ \A s \in Slots : slot[s].fd # LowestFd
<1>1. live = Cardinality(Used) /\ \A s \in Slots : slot[s].of = 0 => slot[s].fd = 0
  BY DEF HttpInd, TableSound
<1>2. PICK S : S = Slots \ {slot[s].fd : s \in Slots}
  OBVIOUS
<1>3. S # {}
  <2> SUFFICES ASSUME S = {}
               PROVE  FALSE
    OBVIOUS
  <2> DEFINE f == [t \in Slots |-> CHOOSE s \in Used : slot[s].fd = t]
  <2>1. \A t \in Slots : \E s \in Used : slot[s].fd = t
    <3> SUFFICES ASSUME NEW t \in Slots
                 PROVE  \E s \in Used : slot[s].fd = t
      OBVIOUS
    <3>1. PICK s \in Slots : slot[s].fd = t
      BY <1>2
    <3>2. t # 0
      BY DEF Slots
    <3> QED
      BY <1>1, <3>1, <3>2 DEF Used
  <2>2. \A t \in Slots : f[t] \in Used /\ slot[f[t]].fd = t
    BY <2>1
  <2>3. f \in [Slots -> Used]
    BY <2>2
  <2> HIDE DEF f
  <2>4. Cardinality(Used) < Cardinality(Slots)
    BY <1>1, FiniteSlots
  <2>5. \E t, u \in Slots : t # u /\ f[t] = f[u]
    BY <2>3, <2>4, FiniteSlots, UsedFinite, FS_PigeonHole
  <2> QED
    BY <2>2, <2>5
<1>4. S \in SUBSET Nat
  BY <1>2 DEF Slots
<1>5. Min(S) \in S
  BY <1>3, <1>4, MinNat
<1>6. LowestFd = Min(S)
  BY <1>2 DEF LowestFd
<1> QED
  BY <1>2, <1>5, <1>6

(* The client that is accepted next waits in the queue.                           *)
LEMMA NextQueued ==
  ASSUME Queued # {}
  PROVE  Min(Queued) \in Conns /\ conn[Min(Queued)].st = "queued"
<1>1. Queued \in SUBSET Nat
  BY DEF Queued, Conns
<1>2. Min(Queued) \in Queued
  BY <1>1, MinNat
<1> QED
  BY <1>2 DEF Queued

Refuses(c) ==
  /\ conn' = [conn EXCEPT ![c].st = "refused", ![c].inq = <<>>]
  /\ UNCHANGED <<slot, live, pc, cur, failed>>

LEMMA AcceptRefuse ==
  ASSUME HttpInd, NEW c \in Conns, conn[c].st = "queued", Refuses(c)
  PROVE  HttpInd'
<1>0. conn \in [Conns -> ConnRecord]
  BY DEF HttpInd, Types
<1>d. PICK d \in ConnRecord : d = conn[c]
  BY <1>0
<1>r. PICK r : r = [d EXCEPT !.st = "refused", !.inq = <<>>]
  OBVIOUS
<1>1. conn' = [conn EXCEPT ![c] = r]
  BY <1>0, <1>d, <1>r DEF Refuses
<1>2. r \in ConnRecord /\ r.st = "refused" /\ r.got = d.got
  <2>1. <<>> \in Seq(Piece)
    OBVIOUS
  <2> QED
    BY <1>r, <2>1 DEF ConnRecord
<1>3. (r.tame <=> d.tame) /\ (r.eof <=> d.eof)
  BY <1>r DEF ConnRecord
<1>4. d.eof => ~d.tame
  BY <1>d DEF HttpInd, TameInTime
<1>5. \A s \in Used : slot[s].of # c
  BY DEF HttpInd, TableSound
<1>6. Quiet(c, r)
  BY <1>1, <1>2, <1>3, <1>4, <1>5, <1>d DEF Quiet, Refuses
<1> QED
  BY <1>2, <1>6, QuietStep

(* The client gets a cleared slot and a descriptor of its own, and its stream is   *)
(* what it has sent so far.                                                        *)
Opens(c, o, fd) ==
  /\ slot' = [slot EXCEPT ![o] = [Free EXCEPT !.of = c, !.fd = fd]]
  /\ conn' = [conn EXCEPT ![c].st = "open"]
  /\ live' = live + 1 /\ UNCHANGED <<pc, cur, failed>>
  /\ pc = "accept" /\ conn[c].st = "queued"
  /\ fd \in Slots /\ \A s \in Slots : slot[s].fd # fd

LEMMA AcceptOpen ==
  ASSUME HttpInd, NEW c \in Conns, NEW o \in Slots \ Used, NEW fd, Opens(c, o, fd)
  PROVE  HttpInd'
<1>0. /\ conn \in [Conns -> ConnRecord] /\ slot \in [Slots -> SlotRecord]
      /\ \A s \in Used : s \in Slots /\ slot[s].of \in Conns /\ conn[slot[s].of].st = "open"
      /\ \A s \in Used : slot[s].of # c
      /\ c # 0 /\ cur = 0
  BY DEF HttpInd, Types, TableSound, Used, SlotRecord, Conns, Opens
<1>d. PICK d \in ConnRecord : d = conn[c]
  BY <1>0
<1>r. PICK r : r = [d EXCEPT !.st = "open"]
  OBVIOUS
<1>w. PICK w : w = [Free EXCEPT !.of = c, !.fd = fd]
  OBVIOUS
<1>1. /\ r \in ConnRecord /\ r.st = "open" /\ r.inq = d.inq /\ r.got = d.got
      /\ r.asked = d.asked /\ r.run = d.run
  BY <1>r DEF ConnRecord
<1>2. (r.tame <=> d.tame) /\ (r.eof <=> d.eof) /\ r.tame = d.tame
  BY <1>r DEF ConnRecord
<1>3. w.of = c /\ w.fd = fd /\ w.buf = <<>> /\ ~w.late /\ w \in SlotRecord
  <2>1. fd \in 0 .. Cap
    BY HttpAssumption DEF Opens, Slots
  <2>2. <<>> \in Seq(Piece)
    OBVIOUS
  <2>3. w = [of |-> c, fd |-> fd, buf |-> <<>>, late |-> FALSE]
    BY <1>w DEF Free
  <2> QED
    BY <2>1, <2>2, <2>3 DEF SlotRecord
<1>4. /\ conn' \in [Conns -> ConnRecord] /\ conn'[c] = r
      /\ \A e \in Conns : e # c => conn'[e] = conn[e]
  BY <1>0, <1>1, <1>d, <1>r DEF Opens
<1>5. /\ slot' \in [Slots -> SlotRecord] /\ slot'[o] = w
      /\ \A s \in Slots : s # o => slot'[s] = slot[s]
  BY <1>0, <1>3, <1>w DEF Opens
<1>6. Used' = Used \cup {o}
  BY <1>0, <1>3, <1>5 DEF Used
<1>7. Types'
  BY <1>4, <1>5 DEF HttpInd, Types, Opens
<1>8. \A s \in Used : s # o /\ slot'[s] = slot[s] /\ conn'[slot[s].of] = conn[slot[s].of]
  BY <1>0, <1>4, <1>5
<1>9. TableSound'
  <2>1. \A s \in Slots : slot'[s].of = 0 => slot'[s].fd = 0 /\ slot'[s].buf = <<>>
    BY <1>0, <1>3, <1>5 DEF HttpInd, TableSound
  <2>2. \A s \in Used' : slot'[s].fd \in Slots /\ conn'[slot'[s].of].st = "open"
    <3>1. \A s \in Used : slot[s].fd \in Slots
      BY DEF HttpInd, TableSound
    <3>2. fd \in Slots
      BY DEF Opens
    <3> QED
      BY <1>0, <1>1, <1>3, <1>4, <1>5, <1>6, <1>8, <3>1, <3>2
  <2>3. \A s, t \in Used' : s # t => slot'[s].of # slot'[t].of /\ slot'[s].fd # slot'[t].fd
    <3>1. \A s, t \in Used : s # t => slot[s].of # slot[t].of /\ slot[s].fd # slot[t].fd
      BY DEF HttpInd, TableSound
    <3>2. \A s \in Used : slot[s].fd # fd
      BY <1>0 DEF Opens
    <3> QED
      BY <1>0, <1>3, <1>5, <1>6, <1>8, <3>1, <3>2
  <2>4. \A e \in Conns : conn'[e].st = "open" => \E s \in Used' : slot'[s].of = e
    <3>1. \A e \in Conns : conn[e].st = "open" => \E s \in Used : slot[s].of = e
      BY DEF HttpInd, TableSound
    <3> QED
      BY <1>3, <1>4, <1>5, <1>6, <1>8, <3>1
  <2>5. live' = Cardinality(Used')
    <3>1. live = Cardinality(Used) /\ live' = live + 1
      BY DEF HttpInd, TableSound, Opens
    <3>2. Cardinality(Used \cup {o}) = Cardinality(Used) + 1
      BY UsedFinite, FS_AddElement
    <3> QED
      BY <1>6, <3>1, <3>2
  <2>6. pc' = "accept" /\ cur' = 0
    BY <1>0 DEF Opens
  <2> QED
    BY <2>1, <2>2, <2>3, <2>4, <2>5, <2>6 DEF TableSound
<1>10. BuffersSettled'
  <2>1. Len(<<>>) = 0 /\ EndsAt(<<>>) = {}
    BY DEF EndsAt
  <2>2. cur' = cur
    BY DEF Opens
  <2>3. ASSUME NEW s \in Slots
        PROVE  /\ Len(slot'[s].buf) <= HeadCap
               /\ s # cur' => Len(slot'[s].buf) < HeadCap /\ EndsAt(slot'[s].buf) = {}
    <3>1. CASE s = o
      <4>1. slot'[s].buf = <<>>
        BY <1>3, <1>5, <3>1
      <4> QED
        BY <2>1, <4>1, HttpAssumption
    <3>2. CASE s # o
      <4>1. slot'[s] = slot[s]
        BY <1>5, <3>2
      <4> QED
        BY <2>2, <4>1 DEF HttpInd, BuffersSettled
    <3> QED
      BY <3>1, <3>2
  <2> QED
    BY <2>3 DEF BuffersSettled, EndsAt
<1>11. Streams'
  <2>1. ASSUME NEW s \in Used
        PROVE  StreamOK(slot[s].buf \o conn[slot[s].of].inq, slot[s].of)'
    BY <1>8 DEF HttpInd, Streams, StreamOK
  <2>2. StreamOK(slot[o].buf \o conn[slot[o].of].inq, slot[o].of)'
    <3>1. Numbered(d.inq, c, Len(d.got), d.asked) /\ Fits(d.inq, d.run, d.tame)
      BY <1>d DEF HttpInd, Streams, StreamOK, Opens
    <3>2. d.inq \in Seq(Piece)
      BY DEF ConnRecord
    <3>3. <<>> \o d.inq = d.inq
      BY <3>2, ConcatEmptySeq
    <3>4. /\ slot'[o].buf \o conn'[slot'[o].of].inq = d.inq /\ slot'[o].of = c
          /\ conn'[c] = r
      BY <1>1, <1>3, <1>4, <1>5, <3>3
    <3>5. Numbered(d.inq, c, Len(r.got), r.asked) /\ Fits(d.inq, r.run, r.tame)
      BY <1>1, <1>2, <3>1
    <3> QED
      BY <3>4, <3>5 DEF StreamOK
  <2>3. ASSUME NEW e \in Conns, conn'[e].st \in {"none", "queued"}
        PROVE  StreamOK(conn[e].inq, e)'
    <3>1. e # c
      BY <1>1, <1>4, <2>3
    <3> QED
      BY <1>4, <2>3, <3>1 DEF HttpInd, Streams, StreamOK
  <2> QED
    BY <1>6, <2>1, <2>2, <2>3 DEF Streams
<1>12. TameInTime'
  <2>1. \A s \in Used' : slot'[s].late => ~conn'[slot'[s].of].tame
    BY <1>3, <1>5, <1>6, <1>8 DEF HttpInd, TameInTime
  <2>2. \A e \in Conns : conn'[e].eof => ~conn'[e].tame
    <3>1. d.eof => ~d.tame
      BY <1>d DEF HttpInd, TameInTime
    <3> QED
      BY <1>2, <1>4, <3>1 DEF HttpInd, TameInTime
  <2> QED
    BY <2>1, <2>2 DEF TameInTime
<1>13. ResponsesMatch'
  <2>1. \A e \in Conns : conn'[e].got = conn[e].got
    BY <1>1, <1>4, <1>d
  <2>2. \A e \in Conns : conn[e].st = "closed" => conn'[e].st = "closed"
    BY <1>4 DEF Opens
  <2> QED
    BY <2>1, <2>2 DEF HttpInd, ResponsesMatch
<1>14. TameSpared'
  <2>1. \A e \in Conns : conn'[e].st = "closed" => conn'[e] = conn[e]
    BY <1>1, <1>4
  <2> QED
    BY <2>1 DEF HttpInd, TameSpared, Opens
<1> QED
  BY <1>7, <1>9, <1>10, <1>11, <1>12, <1>13, <1>14 DEF HttpInd

LEMMA AcceptStep ==
  ASSUME HttpInd, Accept
  PROVE  HttpInd'
<1>0. pc = "accept" /\ cur = 0 /\ cur' = cur /\ failed \in BOOLEAN
  BY DEF Accept, HttpInd, TableSound, Types
<1>1. ASSUME pc' = "read", UNCHANGED <<conn, slot, live>>, NoFault \/ Fault
      PROVE  HttpInd'
  BY <1>0, <1>1, FailedTypes, ControlStep DEF PCs
<1>2. ASSUME Queued # {}, conn' = [conn EXCEPT ![Min(Queued)].st = "refused", ![Min(Queued)].inq = <<>>],
             UNCHANGED <<slot, live, pc>>, NoFault
      PROVE  HttpInd'
  <2>1. Min(Queued) \in Conns /\ conn[Min(Queued)].st = "queued"
    BY <1>2, NextQueued
  <2>2. Refuses(Min(Queued))
    BY <1>0, <1>2 DEF Refuses, NoFault
  <2> QED
    BY <2>1, <2>2, AcceptRefuse
<1>3. ASSUME Queued # {}, live < Cap,
             NEW o, o = Min({t \in Slots : slot[t].of = 0}),
             slot' = [slot EXCEPT ![o] = [Free EXCEPT !.of = Min(Queued), !.fd = LowestFd]],
             conn' = [conn EXCEPT ![Min(Queued)].st = "open"],
             live' = live + 1, UNCHANGED pc, NoFault
      PROVE  HttpInd'
  <2>1. Min(Queued) \in Conns /\ conn[Min(Queued)].st = "queued"
    BY <1>3, NextQueued
  <2>2. o \in Slots \ Used
    BY <1>3, FreeSlot
  <2>3. LowestFd \in Slots /\ \A s \in Slots : slot[s].fd # LowestFd
    BY <1>3, FreeFd
  <2>4. Opens(Min(Queued), o, LowestFd)
    BY <1>0, <1>3, <2>1, <2>3 DEF Opens, NoFault
  <2> QED
    BY <2>1, <2>2, <2>4, AcceptOpen
<1> QED
  BY <1>1, <1>2, <1>3 DEF Accept, MayAccept
-----------------------------------------------------------------------------
LEMMA HttpInitial ==
  ASSUME HttpInit
  PROVE  HttpInd
<1>0. <<>> \in Seq(Piece) /\ <<>> \in Seq(Response) /\ Len(<<>>) = 0 /\ DOMAIN <<>> = {}
  OBVIOUS
<1>1. NoConn \in ConnRecord
  BY <1>0 DEF NoConn, ConnRecord
<1>2. Free \in SlotRecord
  BY <1>0, HttpAssumption DEF Free, SlotRecord
<1>3. Types
  BY <1>1, <1>2 DEF HttpInit, Types
<1>4. \A s \in Slots : slot[s] = Free
  BY DEF HttpInit
<1>5. \A c \in Conns : conn[c] = NoConn
  BY DEF HttpInit
<1>6. Used = {}
  BY <1>4 DEF Used, Free
<1>7. TableSound
  <2>1. live = Cardinality(Used)
    BY <1>6, FS_EmptySet DEF HttpInit
  <2>2. \A s \in Slots : slot[s].fd = 0 /\ slot[s].buf = <<>>
    BY <1>4 DEF Free
  <2>3. \A c \in Conns : conn[c].st # "open"
    BY <1>5 DEF NoConn
  <2>4. pc = "poll" /\ cur = 0
    BY DEF HttpInit
  <2> QED
    BY <1>6, <2>1, <2>2, <2>3, <2>4 DEF TableSound
<1>8. BuffersSettled
  <2>1. \A s \in Slots : slot[s].buf = <<>>
    BY <1>4 DEF Free
  <2>2. EndsAt(<<>>) = {}
    BY <1>0 DEF EndsAt
  <2> QED
    BY <1>0, <2>1, <2>2, HttpAssumption DEF BuffersSettled
<1>9. Streams
  <2>1. ASSUME NEW c \in Conns
        PROVE  StreamOK(conn[c].inq, c)
    <3>1. /\ conn[c].inq = <<>> /\ conn[c].got = <<>> /\ conn[c].asked = 0 /\ conn[c].run = 0
      BY <1>5 DEF NoConn
    <3>2. Numbered(<<>>, c, 0, 0)
      BY <1>0 DEF Numbered
    <3>3. Fits(<<>>, 0, conn[c].tame)
      BY <1>0 DEF Fits
    <3> QED
      BY <1>0, <3>1, <3>2, <3>3 DEF StreamOK
  <2> QED
    BY <1>6, <2>1 DEF Streams
<1>10. TameInTime
  BY <1>5, <1>6 DEF TameInTime, NoConn
<1>11. ResponsesMatch
  <2>1. \A c \in Conns : conn[c].got = <<>>
    BY <1>5 DEF NoConn
  <2> QED
    BY <1>0, <2>1 DEF ResponsesMatch
<1>12. TameSpared
  BY <1>5 DEF TameSpared, NoConn
<1> QED
  BY <1>3, <1>7, <1>8, <1>9, <1>10, <1>11, <1>12 DEF HttpInd

LEMMA StopStep ==
  ASSUME HttpInd, RequestStop \/ UNCHANGED hvars
  PROVE  HttpInd'
<1>1. UNCHANGED <<conn, slot, live, pc, cur, failed>>
  BY DEF RequestStop, hvars
<1>2. pc \in PCs /\ failed \in BOOLEAN
  BY DEF HttpInd, Types, PCs
<1> QED
  BY <1>1, <1>2, ControlStep

LEMMA HttpStep ==
  ASSUME HttpInd, [HttpNext]_hvars
  PROVE  HttpInd'
<1>1. CASE Run
  <2>1. CASE Poll
    BY <2>1, PollStep
  <2>2. CASE Timeouts
    BY <2>2, TimeoutsStep
  <2>3. CASE Accept
    BY <2>3, AcceptStep
  <2>4. CASE Read
    BY <2>4, ReadStep
  <2>5. CASE Serve
    BY <2>5, ServeStep
  <2>6. CASE CloseServer
    BY <2>6, CloseServerStep
  <2> QED
    BY <1>1, <2>1, <2>2, <2>3, <2>4, <2>5, <2>6 DEF Run
<1>2. CASE Clients
  <2>1. ASSUME NEW c \in Conns, Connect(c)
        PROVE  HttpInd'
    BY <2>1, ConnectStep
  <2>2. ASSUME NEW c \in Conns, HangUp(c)
        PROVE  HttpInd'
    BY <2>2, HangUpStep
  <2>3. ASSUME NEW c \in Conns, NEW kind \in Ends \cup {"x"}, Send(c, kind)
        PROVE  HttpInd'
    BY <2>3, SendStep
  <2>4. ASSUME NEW s \in Slots, Elapse(s)
        PROVE  HttpInd'
    BY <2>4, ElapseStep
  <2>5. CASE RequestStop
    BY <2>5, StopStep
  <2> QED
    BY <1>2, <2>1, <2>2, <2>3, <2>4, <2>5 DEF Clients
<1>3. CASE UNCHANGED hvars
  BY <1>3, StopStep
<1> QED
  BY <1>1, <1>2, <1>3 DEF HttpNext

(* The invariant of the server, for every number of clients, slots and pieces per    *)
(* head: the connection table, the buffers, the streams of bytes and the answers      *)
(* agree after every step of HttpServer::run and of the clients.                      *)
THEOREM HttpInvariant == HttpSpec => []HttpInd
<1>1. HttpInit => HttpInd
  BY HttpInitial
<1>2. HttpInd /\ [HttpNext]_hvars => HttpInd'
  BY HttpStep
<1> QED
  BY <1>1, <1>2, PTL DEF HttpSpec

LEMMA TypesFollow ==
  ASSUME HttpInd
  PROVE  HttpTypeOK
<1>1. ASSUME NEW c \in Conns
      PROVE  /\ conn[c].st \in {"none", "queued", "refused", "open", "closed"}
             /\ \A i \in DOMAIN conn[c].inq : conn[c].inq[i] \in Piece
             /\ \A i \in DOMAIN conn[c].got : conn[c].got[i] \in Response
             /\ conn[c].asked \in Nat /\ conn[c].run \in Nat
             /\ conn[c].eof \in BOOLEAN /\ conn[c].tame \in BOOLEAN
  <2>1. PICK d \in ConnRecord : d = conn[c]
    BY DEF HttpInd, Types
  <2>2. /\ d.st \in {"none", "queued", "refused", "open", "closed"} /\ d.inq \in Seq(Piece)
        /\ d.got \in Seq(Response) /\ d.asked \in Nat /\ d.run \in Nat
        /\ d.eof \in BOOLEAN /\ d.tame \in BOOLEAN
    BY DEF ConnRecord
  <2>3. /\ \A i \in DOMAIN d.inq : d.inq[i] \in Piece
        /\ \A i \in DOMAIN d.got : d.got[i] \in Response
    <3>1. DOMAIN d.inq = 1 .. Len(d.inq) /\ DOMAIN d.got = 1 .. Len(d.got)
      BY <2>2, LenProperties
    <3> QED
      BY <2>2, <3>1, ElementOfSeq
  <2> QED
    BY <2>1, <2>2, <2>3
<1>2. \A s \in Slots : /\ slot[s].of \in Conns \cup {0} /\ slot[s].fd \in 0 .. Cap
                       /\ Len(slot[s].buf) <= HeadCap /\ slot[s].late \in BOOLEAN
  <2>1. \A s \in Slots : slot[s] \in SlotRecord
    BY DEF HttpInd, Types
  <2> QED
    BY <2>1 DEF HttpInd, BuffersSettled, SlotRecord
<1>3. live \in 0 .. Cap
  <2>1. Cardinality(Used) \in Nat /\ Cardinality(Used) <= Cardinality(Slots)
    BY FiniteSlots, UsedFinite, FS_Subset, FS_CardinalityType
  <2> QED
    BY <2>1, FiniteSlots, HttpAssumption DEF HttpInd, TableSound
<1>4. cur \in Slots \cup {0}
  BY UsedFinite DEF HttpInd, TableSound
<1>5. pc \in {"poll", "polled", "accept", "read", "serve", "done", "closed"}
  BY DEF HttpInd, Types
<1> QED
  BY <1>1, <1>2, <1>3, <1>4, <1>5 DEF HttpTypeOK

(* No slot and no descriptor leaks: the counter that enforces kMaxConnections is the    *)
(* number of slots in use, and open clients and used slots correspond one to one, each   *)
(* with a descriptor of its own; none is left once the server has closed.               *)
THEOREM HttpTable == HttpSpec => []TableOK
<1>1. HttpInd => TableOK
  <2> SUFFICES ASSUME HttpInd
               PROVE  TableOK
    OBVIOUS
  <2>1. live = Cardinality({s \in Slots : slot[s].of # 0})
    BY DEF HttpInd, TableSound, Used
  <2>2. Open = {slot[s].of : s \in Slots} \ {0}
    <3>1. \A s \in Slots : slot[s].of # 0 =>
             slot[s].of \in Conns /\ conn[slot[s].of].st = "open"
      BY SlotFacts DEF HttpInd, TableSound, Used
    <3>2. \A c \in Conns : conn[c].st = "open" => \E s \in Slots : slot[s].of = c
      BY DEF HttpInd, TableSound, Used
    <3>3. \A c \in Conns : c # 0
      BY DEF Conns
    <3> QED
      BY <3>1, <3>2, <3>3 DEF Open
  <2>3. \A s, t \in Slots : slot[s].of # 0 /\ slot[t].of # 0 /\ s # t =>
                              slot[s].of # slot[t].of /\ slot[s].fd # slot[t].fd
    BY DEF HttpInd, TableSound, Used
  <2>4. pc = "closed" => Open = {}
    BY DEF HttpInd, TableSound, Open
  <2> QED
    BY <2>1, <2>2, <2>3, <2>4, TypesFollow DEF TableOK, NoLeak
<1> QED
  BY <1>1, HttpInvariant, PTL

(* The loop polls only when every buffer has been worked off and has room: recv is      *)
(* never called with length 0, and no pipelined request waits for more bytes.            *)
THEOREM HttpBuffers == HttpSpec => []BuffersServed
<1>1. HttpInd => BuffersServed
  <2> SUFFICES ASSUME HttpInd
               PROVE  BuffersServed
    OBVIOUS
  <2>1. pc # "serve" => \A s \in Slots : s # cur
    BY DEF HttpInd, TableSound, Slots
  <2> QED
    BY <2>1 DEF HttpInd, BuffersSettled, BuffersServed, RoomToRead, NoneWaiting
<1> QED
  BY <1>1, HttpInvariant, PTL

(* Each client gets the answers to its own requests, one each and in order, through      *)
(* pipelining and reuse of slots and descriptors; an error or a cut response is the last. *)
THEOREM HttpAnswers == HttpSpec => []ResponsesMatch
<1>1. HttpInd => ResponsesMatch
  BY DEF HttpInd
<1> QED
  BY <1>1, HttpInvariant, PTL

(* A client that only sends well-formed requests that fit, never hangs up and never lets  *)
(* a timer run out is not closed while the server runs undisturbed, whatever others do.    *)
THEOREM HttpTame == HttpSpec => []TameSpared
<1>1. HttpInd => TameSpared
  BY DEF HttpInd
<1> QED
  BY <1>1, HttpInvariant, PTL
=============================================================================
