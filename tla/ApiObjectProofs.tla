--------------------------- MODULE ApiObjectProofs ---------------------------
(* What the writes and reads of ApiObject do to the live state, to the       *)
(* cached one and to those in between, for objects of any type.              *)
EXTENDS ApiObject, TLAPS

\* The live and the cached state are among those the cache can still show.
LEMMA KnownStates ==
    ASSUME NEW Objects, ApiTypeOK(Objects)
    PROVE  /\ Known \subseteq Objects \cup {Absent}
           /\ Live \in Known
           /\ Cached \in Known
           /\ CacheIsLive => Cached = Live /\ Known = {Live}
<1> USE DEF ApiTypeOK, Known, Live, Cached, CacheIsLive
<1>1. Len(versions) \in Nat \ {0} /\ DOMAIN versions = 1..Len(versions)
  OBVIOUS
<1>2. \A i \in 1..Len(versions) : versions[i] \in Objects \cup {Absent}
  OBVIOUS
<1>3. Head(versions) = versions[1]
  OBVIOUS
<1>4. QED
  BY <1>1, <1>2, <1>3

\* A write becomes the live state and leaves the cache alone.
LEMMA WriteFacts ==
    ASSUME NEW Objects, ApiTypeOK(Objects),
           NEW new \in Objects \cup {Absent},
           versions' = IF new = Live THEN versions ELSE Append(versions, new)
    PROVE  /\ versions' \in Seq(Objects \cup {Absent}) /\ versions' # <<>>
           /\ Live' = new
           /\ Cached' = Cached
           /\ Known' = Known \cup {new}
           /\ CacheIsLive' <=> CacheIsLive /\ new = Live
<1>1. CASE new = Live
  BY <1>1, KnownStates DEF ApiTypeOK, Live, Cached, Known, CacheIsLive
<1>2. CASE new # Live
  <2> DEFINE n == Len(versions)
  <2>1. n \in Nat \ {0} /\ versions' = Append(versions, new)
    BY <1>2 DEF ApiTypeOK
  <2>2. /\ versions' \in Seq(Objects \cup {Absent})
        /\ Len(versions') = n + 1
        /\ \A i \in 1..n : versions'[i] = versions[i]
        /\ versions'[n + 1] = new
    BY <2>1 DEF ApiTypeOK
  <2>3. Head(versions') = versions'[1] /\ Head(versions) = versions[1]
    BY <2>1, <2>2 DEF ApiTypeOK
  <2>4. Known' = Known \cup {new}
    <3>1. 1..(n + 1) = (1..n) \cup {n + 1}
      BY <2>1
    <3>2. QED
      BY <2>2, <3>1 DEF Known
  <2>5. QED
    BY <1>2, <2>1, <2>2, <2>3, <2>4 DEF Live, Cached, CacheIsLive
<1>3. QED
  BY <1>1, <1>2

\* A cache that moves on shows one of the states it could still show, and no other.
LEMMA SuffixFacts ==
    ASSUME NEW Objects, ApiTypeOK(Objects),
           NEW n \in 1..Len(versions),
           versions' = SubSeq(versions, n, Len(versions))
    PROVE  /\ versions' \in Seq(Objects \cup {Absent}) /\ versions' # <<>>
           /\ Live' = Live
           /\ Cached' \in Known'
           /\ Known' \subseteq Known
           /\ CacheIsLive' => Cached' = Live
<1> DEFINE m == Len(versions)
<1>1. m \in Nat \ {0} /\ n \in 1..m
  BY DEF ApiTypeOK
<1>2. /\ versions' \in Seq(Objects \cup {Absent})
      /\ Len(versions') = m - n + 1
      /\ \A i \in 1..(m - n + 1) : versions'[i] = versions[n + i - 1]
  BY <1>1 DEF ApiTypeOK
<1>3. Live' = Live
  BY <1>1, <1>2 DEF Live
<1>4. Known' \subseteq Known
  BY <1>1, <1>2 DEF Known
<1>5. versions' # <<>>
  <2>1. Len(versions') # 0
    BY <1>1, <1>2
  <2>2. QED
    BY <2>1
<1>6. Cached' \in Known' /\ (CacheIsLive' => Cached' = Live')
  <2>1. Cached' = versions'[1]
    <3>1. ASSUME NEW s \in Seq(Objects \cup {Absent}), s # <<>> PROVE Head(s) = s[1]
      OBVIOUS
    <3>2. QED
      BY <1>2, <1>5, <3>1 DEF Cached
  <2>2. 1 \in 1..Len(versions')
    BY <1>1, <1>2
  <2>3. QED
    BY <2>1, <2>2 DEF Known, Live, CacheIsLive
<1>7. QED
  BY <1>2, <1>3, <1>4, <1>5, <1>6

\* Without a write, and with a cache that stays, nothing of this changes.
LEMMA SameVersions ==
    ASSUME versions' = versions
    PROVE  /\ Live' = Live
           /\ Cached' = Cached
           /\ Known' = Known
           /\ CacheIsLive' <=> CacheIsLive
           /\ \A a, b : Precedes(a, b)' <=> Precedes(a, b)
BY DEF Live, Cached, Known, CacheIsLive, Precedes

-----------------------------------------------------------------------------
(* The order of the states                                                 *)

\* The cached state is the first of them and the live one the last.
LEMMA KnownOrder ==
    ASSUME NEW Objects, ApiTypeOK(Objects)
    PROVE  /\ \A o \in Known : o = Cached \/ Precedes(Cached, o)
           /\ \A o \in Known : o = Live \/ Precedes(o, Live)
           /\ \A a, b : Precedes(a, b) => a \in Known /\ b \in Known
<1>1. Len(versions) \in Nat \ {0} /\ Head(versions) = versions[1]
  BY DEF ApiTypeOK
<1>2. QED
  BY <1>1 DEF Known, Cached, Live, Precedes

\* A write puts the new state after all the others and leaves their order alone.
LEMMA WriteOrder ==
    ASSUME NEW Objects, ApiTypeOK(Objects),
           NEW new \in Objects \cup {Absent},
           versions' = IF new = Live THEN versions ELSE Append(versions, new),
           NEW a, NEW b, Precedes(a, b)'
    PROVE  Precedes(a, b) \/ (a \in Known /\ b = new)
<1>1. CASE new = Live
  BY <1>1 DEF Precedes
<1>2. CASE new # Live
  <2> DEFINE n == Len(versions)
  <2>1. n \in Nat \ {0} /\ versions' = Append(versions, new)
    BY <1>2 DEF ApiTypeOK
  <2>2. /\ Len(versions') = n + 1
        /\ \A i \in 1..n : versions'[i] = versions[i]
        /\ versions'[n + 1] = new
    BY <2>1 DEF ApiTypeOK
  <2>3. PICK i, j \in 1..(n + 1) : i < j /\ versions'[i] = a /\ versions'[j] = b
    BY <2>2 DEF Precedes
  <2>4. i \in 1..n /\ versions[i] = a
    BY <2>1, <2>2, <2>3
  <2>5. CASE j = n + 1
    BY <2>2, <2>3, <2>4, <2>5 DEF Known
  <2>6. CASE j # n + 1
    <3>1. j \in 1..n /\ versions[j] = b
      BY <2>1, <2>2, <2>3, <2>6
    <3>2. QED
      BY <2>3, <2>4, <3>1 DEF Precedes
  <2>7. QED
    BY <2>5, <2>6
<1>3. QED
  BY <1>1, <1>2

\* A cache that moves on leaves the order of what is left alone.
LEMMA SuffixOrder ==
    ASSUME NEW Objects, ApiTypeOK(Objects),
           NEW n \in 1..Len(versions),
           versions' = SubSeq(versions, n, Len(versions)),
           NEW a, NEW b, Precedes(a, b)'
    PROVE  Precedes(a, b)
<1> DEFINE m == Len(versions)
<1>1. m \in Nat \ {0} /\ n \in 1..m
  BY DEF ApiTypeOK
<1>2. /\ Len(versions') = m - n + 1
      /\ \A i \in 1..(m - n + 1) : versions'[i] = versions[n + i - 1]
  BY <1>1 DEF ApiTypeOK
<1>3. PICK i, j \in 1..(m - n + 1) : i < j /\ versions'[i] = a /\ versions'[j] = b
  BY <1>2 DEF Precedes
<1>4. /\ n + i - 1 \in 1..m /\ n + j - 1 \in 1..m /\ n + i - 1 < n + j - 1
      /\ versions[n + i - 1] = a /\ versions[n + j - 1] = b
  BY <1>1, <1>2, <1>3
<1>5. QED
  BY <1>4 DEF Precedes
=============================================================================
