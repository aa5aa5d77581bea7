--------------------------- MODULE TradeBoxProofs ---------------------------
(***************************************************************************)
(* Theorems about TradeBox, for every set of users, boxes, entries and     *)
(* streams.  The exchange is decided by IInv: the type invariant, the fact *)
(* that the map and the entries' keys agree, and the three properties of   *)
(* the queue and of the results that need one another to be inductive.     *)
(***************************************************************************)
EXTENDS TradeBox, TLAPS

MapMatchesKeys ==
    \A k \in Key : boxes[k] # NoEntry =>
        boxes[k] \in Allocated /\ keyOf[boxes[k]] = k

IInv ==
    /\ TypeOK
    /\ MapMatchesKeys
    /\ QueueHasOneOwner
    /\ OfferIsQueued
    /\ ExchangeIsMutual

-----------------------------------------------------------------------------
LEMMA AllocateFacts ==
    ASSUME TypeOK, MapMatchesKeys, NEW k \in Key, NEW e \in Entry, NEW b \in BOOLEAN,
           Allocate(k, e, b)
    PROVE  /\ boxes' \in [Key -> Entry \cup {NoEntry}]
           /\ boxes' = [boxes EXCEPT ![k] = e]
           /\ Allocated' = Allocated \cup {e}
           /\ Allocated' \subseteq Entry
           /\ keyOf' \in [Allocated' -> Key]
           /\ keyOf'[e] = k
           /\ \A x \in Allocated : keyOf'[x] = keyOf[x]
           /\ MapMatchesKeys'
<1>1. CASE b
  <2>1. /\ e \in Entry \ Allocated
        /\ boxes' = [boxes EXCEPT ![k] = e]
        /\ keyOf' = [x \in Allocated \cup {e} |-> IF x = e THEN k ELSE keyOf[x]]
    BY <1>1 DEF Allocate
  <2>2. /\ keyOf \in [Allocated -> Key]
        /\ Allocated \subseteq Entry
        /\ boxes \in [Key -> Entry \cup {NoEntry}]
    BY DEF TypeOK, Allocated
  <2>3. Allocated' = Allocated \cup {e}
    BY <2>1 DEF Allocated
  <2>4. \A x \in Key : boxes'[x] = IF x = k THEN e ELSE boxes[x]
    BY <2>1, <2>2
  <2>5. MapMatchesKeys'
    BY <2>1, <2>2, <2>3, <2>4 DEF MapMatchesKeys
  <2> QED BY <2>1, <2>2, <2>3, <2>5
<1>2. CASE ~b
  <2>1. e = boxes[k] /\ boxes' = boxes /\ keyOf' = keyOf
    BY <1>2 DEF Allocate
  <2>2. e \in Allocated /\ keyOf[e] = k
    BY <2>1, EntryAssumption DEF MapMatchesKeys
  <2>3. /\ keyOf \in [Allocated -> Key]
        /\ Allocated \subseteq Entry
        /\ boxes \in [Key -> Entry \cup {NoEntry}]
    BY DEF TypeOK, Allocated
  <2>4. Allocated' = Allocated
    BY <2>1 DEF Allocated
  <2>5. MapMatchesKeys'
    BY <2>1, <2>4 DEF MapMatchesKeys
  <2> QED BY <2>1, <2>2, <2>3, <2>4, <2>5
<1> QED BY <1>1, <1>2

LEMMA AfterFacts ==
    ASSUME TypeOK, NEW i \in DOMAIN waiting
    PROVE  /\ After(i) \in Seq(Key)
           /\ Len(After(i)) = Len(waiting) - i
           /\ Len(waiting) \in Nat
           /\ DOMAIN After(i) = 1..(Len(waiting) - i)
           /\ DOMAIN waiting = 1..Len(waiting)
           /\ \A n \in 1..(Len(waiting) - i) :
                /\ n + i \in DOMAIN waiting
                /\ After(i)[n] = waiting[n + i]
  BY DEF TypeOK, After

(* What the scan of createForOwnerApp establishes before it changes the    *)
(* queue: who an offer that survives the step is, and where its key is.    *)
LEMMA CreateFacts ==
    ASSUME IInv, NEW k \in Key, NEW e \in Entry, Create(k, e)
    PROVE  /\ e \notin created /\ e \notin canceled /\ e \notin matched
           /\ \A x \in created : x \in Allocated
           /\ e \in Allocated'
           /\ keyOf'[e] = k
           /\ boxes' = [boxes EXCEPT ![k] = e]
           /\ \A x \in Offered : keyOf[x] # k
           /\ \A x \in Offered : \E i \in Candidates(k, e) : waiting[i] = keyOf[x]
<1> DEFINE b == (boxes[k] = NoEntry)
<1>1. /\ TypeOK /\ MapMatchesKeys /\ OfferIsQueued
      /\ Allocate(k, e, b)
      /\ boxes[k] # NoEntry => boxes[k] \notin created \cup canceled
  BY DEF IInv, Create, Vacant
<1>2. /\ boxes' = [boxes EXCEPT ![k] = e]
      /\ e \in Allocated' /\ keyOf'[e] = k
  BY <1>1, AllocateFacts
<1>3. e \notin created /\ e \notin canceled
  BY <1>1 DEF Allocate, TypeOK
<1>4. e \notin matched
  BY <1>1, <1>3 DEF TypeOK
<1>5. \A x \in Offered : keyOf[x] # k
  BY <1>1, EntryAssumption DEF OfferIsQueued, Offered, TypeOK, Allocated
<1>6. ASSUME NEW x \in Offered
      PROVE  \E i \in Candidates(k, e) : waiting[i] = keyOf[x]
  <2>1. PICK i \in DOMAIN waiting : waiting[i] = keyOf[x]
    BY <1>1 DEF OfferIsQueued
  <2>2. boxes[keyOf[x]] = x /\ keyOf[x] # k
    BY <1>1, <1>5 DEF OfferIsQueued
  <2>3. x \in (created \cup {e}) \ (canceled \cup matched)
    BY DEF Offered
  <2> QED BY <2>1, <2>2, <2>3 DEF Candidates, Found
<1> QED BY <1>1, <1>2, <1>3, <1>4, <1>5, <1>6 DEF TypeOK

(* A candidate of another user is an open offer, and not the new entry. *)
LEMMA PairFacts ==
    ASSUME IInv, NEW k \in Key, NEW e \in Entry, Create(k, e),
           NEW i \in DOMAIN waiting, Pair(k, e, i)
    PROVE  /\ boxes[waiting[i]] \in Offered
           /\ boxes[waiting[i]] # e
           /\ waiting[i] \in Key /\ waiting[i] # k
           /\ keyOf[boxes[waiting[i]]] = waiting[i]
<1>1. /\ i \in Candidates(k, e)
      /\ OwnerOf(waiting[i]) # OwnerOf(k)
  BY DEF Pair, FirstCandidate
<1>2. waiting[i] \in Key /\ waiting[i] # k
  BY <1>1 DEF IInv, TypeOK
<1>3. boxes[waiting[i]] \in (created \cup {e}) \ (canceled \cup matched)
  BY <1>1, <1>2 DEF Candidates, Found
<1>4. boxes[waiting[i]] # NoEntry
  BY <1>3, EntryAssumption DEF IInv, TypeOK, Allocated
<1>5. boxes[waiting[i]] \in Allocated /\ keyOf[boxes[waiting[i]]] = waiting[i]
  BY <1>2, <1>4 DEF IInv, MapMatchesKeys
<1>6. boxes[waiting[i]] # e
  <2>1. Allocate(k, e, boxes[k] = NoEntry) /\ MapMatchesKeys
    BY DEF Create, IInv
  <2>2. CASE boxes[k] = NoEntry
    BY <2>1, <2>2, <1>5 DEF Allocate
  <2>3. CASE boxes[k] # NoEntry
    BY <2>1, <2>3, <1>5, <1>2 DEF Allocate, MapMatchesKeys
  <2> QED BY <2>2, <2>3
<1> QED BY <1>2, <1>3, <1>5, <1>6 DEF Offered

-----------------------------------------------------------------------------
LEMMA InitIInv == Init => IInv
<1> SUFFICES ASSUME Init PROVE IInv
  OBVIOUS
<1>1. DOMAIN keyOf = {} /\ DOMAIN waiting = {} /\ waiting \in Seq(Key)
  BY DEF Init
<1>2. TypeOK
  <2>1. keyOf \in [DOMAIN keyOf -> Key] /\ result \in [matched -> created]
    BY DEF Init
  <2> QED BY <1>1, <2>1 DEF Init, TypeOK, Allocated, Ended, Open
<1> QED BY <1>1, <1>2 DEF Init, IInv, MapMatchesKeys, QueueHasOneOwner, OfferIsQueued,
          ExchangeIsMutual, Offered, Allocated

LEMMA EnqueueAloneIInv ==
    ASSUME IInv, NEW k \in Key, NEW e \in Entry, Create(k, e), EnqueueAlone(k, e)
    PROVE  IInv'
<1> USE DEF IInv
<1>1. Allocate(k, e, boxes[k] = NoEntry)
  BY DEF Create
<1>2. /\ boxes' \in [Key -> Entry \cup {NoEntry}]
      /\ boxes' = [boxes EXCEPT ![k] = e]
      /\ Allocated' = Allocated \cup {e}
      /\ Allocated' \subseteq Entry
      /\ keyOf' \in [Allocated' -> Key]
      /\ keyOf'[e] = k
      /\ \A x \in Allocated : keyOf'[x] = keyOf[x]
      /\ MapMatchesKeys'
  BY <1>1, AllocateFacts
<1>3. /\ created' = created \cup {e} /\ matched' = matched /\ result' = result
      /\ canceled' = canceled /\ token' = token \cup {e} /\ waiting' = <<k>>
      /\ pc' = pc /\ follows' = follows /\ answered' = answered
  BY DEF Create, EnqueueAlone, Signal, streams
<1>4. /\ e \notin created /\ e \notin canceled /\ e \notin matched
      /\ \A x \in created : x \in Allocated
      /\ \A x \in Offered : keyOf[x] # k
      /\ \A x \in Offered : \E i \in Candidates(k, e) : waiting[i] = keyOf[x]
  BY CreateFacts
<1>5. waiting' \in Seq(Key) /\ DOMAIN waiting' = {1} /\ waiting'[1] = k
  BY <1>3
<1>6. TypeOK'
  BY <1>2, <1>3, <1>5 DEF TypeOK, Allocated
<1>7. QueueHasOneOwner'
  BY <1>5 DEF QueueHasOneOwner
<1>8. Offered' = {e}
  <2>1. Offered = {}
    BY <1>4 DEF EnqueueAlone
  <2> QED BY <2>1, <1>3, <1>4 DEF Offered
<1>9. OfferIsQueued'
  BY <1>2, <1>5, <1>8 DEF OfferIsQueued, TypeOK
<1>10. ExchangeIsMutual'
  BY <1>2, <1>3, <1>4 DEF ExchangeIsMutual, TypeOK
<1> QED BY <1>2, <1>6, <1>7, <1>9, <1>10

LEMMA EnqueueBehindIInv ==
    ASSUME IInv, NEW k \in Key, NEW e \in Entry, Create(k, e),
           NEW i \in DOMAIN waiting, EnqueueBehind(k, e, i)
    PROVE  IInv'
<1> USE DEF IInv
<1> DEFINE A == After(i)
           n == Len(waiting) - i
           h == waiting[i]
<1>1. Allocate(k, e, boxes[k] = NoEntry)
  BY DEF Create
<1>2. /\ boxes' \in [Key -> Entry \cup {NoEntry}]
      /\ boxes' = [boxes EXCEPT ![k] = e]
      /\ Allocated' = Allocated \cup {e}
      /\ Allocated' \subseteq Entry
      /\ keyOf' \in [Allocated' -> Key]
      /\ keyOf'[e] = k
      /\ \A x \in Allocated : keyOf'[x] = keyOf[x]
      /\ MapMatchesKeys'
  BY <1>1, AllocateFacts
<1>3. /\ created' = created \cup {e} /\ matched' = matched /\ result' = result
      /\ canceled' = canceled /\ token' = token \cup {e}
      /\ waiting' = Append(Append(A, h), k)
      /\ pc' = pc /\ follows' = follows /\ answered' = answered
      /\ FirstCandidate(k, e, i) /\ OwnerOf(h) = OwnerOf(k)
  BY DEF Create, EnqueueBehind, Signal, streams
<1>4. /\ e \notin created /\ e \notin canceled /\ e \notin matched
      /\ \A x \in created : x \in Allocated
      /\ \A x \in Offered : keyOf[x] # k
      /\ \A x \in Offered : \E j \in Candidates(k, e) : waiting[j] = keyOf[x]
  BY CreateFacts
<1>5. /\ A \in Seq(Key) /\ Len(A) = n /\ n \in Nat
      /\ i \in 1..Len(waiting) /\ Len(waiting) \in Nat
      /\ DOMAIN waiting = 1..Len(waiting)
      /\ h \in Key
      /\ \A m \in 1..n : m + i \in DOMAIN waiting /\ A[m] = waiting[m + i]
  BY AfterFacts DEF TypeOK
<1>6. /\ waiting' \in Seq(Key) /\ DOMAIN waiting' = 1..(n + 2)
      /\ \A m \in 1..n : waiting'[m] = A[m]
      /\ waiting'[n + 1] = h /\ waiting'[n + 2] = k
  <2> HIDE DEF A, n, h
  <2> DEFINE B == Append(A, h)
  <2>1. /\ B \in Seq(Key) /\ Len(B) = n + 1
        /\ \A m \in 1..n : B[m] = A[m]
        /\ B[n + 1] = h
    BY <1>5
  <2> HIDE DEF B
  <2>2. /\ Append(B, k) \in Seq(Key) /\ Len(Append(B, k)) = n + 2
        /\ \A m \in 1..(n + 1) : Append(B, k)[m] = B[m]
        /\ Append(B, k)[n + 2] = k
    BY <2>1, <1>5
  <2>3. waiting' = Append(B, k)
    BY <1>3 DEF B
  <2> QED BY <2>1, <2>2, <2>3, <1>5
<1> HIDE DEF A, n, h
<1>7. TypeOK'
  BY <1>2, <1>3, <1>6 DEF TypeOK, Allocated
<1>8. \A m \in DOMAIN waiting' : OwnerOf(waiting'[m]) = OwnerOf(k)
  <2>1. \A j \in DOMAIN waiting : OwnerOf(waiting[j]) = OwnerOf(k)
    BY <1>3 DEF QueueHasOneOwner, h
  <2>2. \A m \in 1..n : OwnerOf(waiting'[m]) = OwnerOf(k)
    BY <2>1, <1>5, <1>6
  <2>3. \A m \in 1..(n + 2) : m \in 1..n \/ m = n + 1 \/ m = n + 2
    BY <1>5
  <2>4. OwnerOf(waiting'[n + 1]) = OwnerOf(k) /\ OwnerOf(waiting'[n + 2]) = OwnerOf(k)
    BY <1>3, <1>6
  <2> QED BY <2>2, <2>3, <2>4, <1>6
<1>9. QueueHasOneOwner'
  BY <1>8 DEF QueueHasOneOwner
<1>10. Offered' = Offered \cup {e}
  BY <1>3, <1>4 DEF Offered
<1>11. ASSUME NEW x \in Offered
       PROVE  boxes'[keyOf'[x]] = x /\ \E m \in DOMAIN waiting' : waiting'[m] = keyOf'[x]
  <2>1. x \in Allocated /\ keyOf'[x] = keyOf[x] /\ keyOf[x] # k /\ boxes[keyOf[x]] = x
    BY <1>2, <1>4 DEF Offered, OfferIsQueued
  <2>2. keyOf[x] \in Key
    BY <2>1 DEF TypeOK, Allocated
  <2>3. boxes'[keyOf'[x]] = x
    BY <2>1, <2>2, <1>2 DEF TypeOK
  <2>4. PICK j \in Candidates(k, e) : waiting[j] = keyOf[x]
    BY <1>4
  <2>5. j \in 1..Len(waiting) /\ i <= j
    BY <1>3, <1>5, <2>4 DEF FirstCandidate, Candidates
  <2>6. CASE j = i
    <3>1. n + 1 \in DOMAIN waiting' /\ waiting'[n + 1] = h
      BY <1>5, <1>6
    <3>2. h = keyOf'[x]
      BY <2>1, <2>4, <2>6 DEF h
    <3> QED BY <3>1, <3>2, <2>3
  <2>7. CASE j # i
    <3>1. j - i \in 1..n /\ (j - i) + i = j
      BY <2>5, <2>7, <1>5 DEF n
    <3>2. waiting'[j - i] = keyOf[x] /\ j - i \in DOMAIN waiting'
      BY <3>1, <2>4, <1>5, <1>6
    <3> QED BY <3>2, <2>1, <2>3
  <2> QED BY <2>6, <2>7
<1>12. boxes'[keyOf'[e]] = e /\ \E m \in DOMAIN waiting' : waiting'[m] = keyOf'[e]
  <2>1. n + 2 \in DOMAIN waiting' /\ waiting'[n + 2] = k
    BY <1>5, <1>6
  <2> QED BY <2>1, <1>2 DEF TypeOK
<1>13. OfferIsQueued'
  BY <1>10, <1>11, <1>12 DEF OfferIsQueued
<1>14. ExchangeIsMutual'
  BY <1>2, <1>3, <1>4 DEF ExchangeIsMutual, TypeOK
<1> QED BY <1>2, <1>7, <1>9, <1>13, <1>14

LEMMA PairIInv ==
    ASSUME IInv, NEW k \in Key, NEW e \in Entry, Create(k, e),
           NEW i \in DOMAIN waiting, Pair(k, e, i)
    PROVE  IInv'
<1> USE DEF IInv
<1> DEFINE A == After(i)
           n == Len(waiting) - i
           c == boxes[waiting[i]]
<1>1. Allocate(k, e, boxes[k] = NoEntry)
  BY DEF Create
<1>2. /\ boxes' \in [Key -> Entry \cup {NoEntry}]
      /\ boxes' = [boxes EXCEPT ![k] = e]
      /\ Allocated' = Allocated \cup {e}
      /\ Allocated' \subseteq Entry
      /\ keyOf' \in [Allocated' -> Key]
      /\ keyOf'[e] = k
      /\ \A x \in Allocated : keyOf'[x] = keyOf[x]
      /\ MapMatchesKeys'
  BY <1>1, AllocateFacts
<1>3. /\ created' = created \cup {e} /\ canceled' = canceled
      /\ matched' = matched \cup {c, e} /\ token' = token \cup {c, e}
      /\ result' = [x \in matched \cup {c, e} |->
                      IF x = c THEN e ELSE IF x = e THEN c ELSE result[x]]
      /\ waiting' = A
      /\ pc' = pc /\ follows' = follows /\ answered' = answered
      /\ FirstCandidate(k, e, i) /\ OwnerOf(waiting[i]) # OwnerOf(k)
  BY DEF Create, Pair, Crossed, Signal, streams
<1>4. /\ e \notin created /\ e \notin canceled /\ e \notin matched
      /\ \A x \in created : x \in Allocated
      /\ \A x \in Offered : keyOf[x] # k
      /\ \A x \in Offered : \E j \in Candidates(k, e) : waiting[j] = keyOf[x]
  BY CreateFacts
<1>5. /\ A \in Seq(Key) /\ Len(A) = n /\ n \in Nat /\ DOMAIN A = 1..n
      /\ i \in 1..Len(waiting) /\ Len(waiting) \in Nat
      /\ \A m \in 1..n : m + i \in DOMAIN waiting /\ A[m] = waiting[m + i]
      /\ DOMAIN waiting = 1..Len(waiting)
  BY AfterFacts DEF TypeOK
<1>6. /\ c \in Offered /\ c # e /\ keyOf[c] = waiting[i] /\ waiting[i] # k
      /\ waiting[i] \in Key
  BY PairFacts
<1> HIDE DEF A, n, c
<1>7. c \in created /\ c \notin matched /\ c \in Allocated
  BY <1>4, <1>6 DEF Offered
<1>8. TypeOK'
  <2>1. result' \in [matched' -> created']
    BY <1>3, <1>7 DEF TypeOK
  <2>2. matched' \subseteq created' /\ created' \subseteq Allocated'
    BY <1>2, <1>3, <1>7 DEF TypeOK
  <2>3. token' \subseteq Allocated'
    BY <1>2, <1>3, <1>7 DEF TypeOK
  <2> QED BY <1>2, <1>3, <1>5, <2>1, <2>2, <2>3 DEF TypeOK, Allocated
<1>9. QueueHasOneOwner'
  BY <1>3, <1>5 DEF QueueHasOneOwner
<1>10. Offered' = Offered \ {c}
  BY <1>3, <1>4 DEF Offered
<1>11. ASSUME NEW x \in Offered, x # c
       PROVE  boxes'[keyOf'[x]] = x /\ \E m \in DOMAIN waiting' : waiting'[m] = keyOf'[x]
  <2>1. x \in Allocated /\ keyOf'[x] = keyOf[x] /\ keyOf[x] # k /\ boxes[keyOf[x]] = x
    BY <1>2, <1>4 DEF Offered, OfferIsQueued
  <2>2. keyOf[x] \in Key
    BY <2>1 DEF TypeOK, Allocated
  <2>3. boxes'[keyOf'[x]] = x
    BY <2>1, <2>2, <1>2 DEF TypeOK
  <2>4. PICK j \in Candidates(k, e) : waiting[j] = keyOf[x]
    BY <1>4
  <2>5. j \in 1..Len(waiting) /\ i <= j
    BY <1>3, <1>5, <2>4 DEF FirstCandidate, Candidates
  <2>6. j # i
    BY <2>1, <2>4, <1>11 DEF c
  <2>7. j - i \in 1..n /\ (j - i) + i = j
    BY <2>5, <2>6, <1>5 DEF n
  <2>8. waiting'[j - i] = keyOf[x] /\ j - i \in DOMAIN waiting'
    BY <2>7, <2>4, <1>3, <1>5
  <2> QED BY <2>1, <2>3, <2>8
<1>12. OfferIsQueued'
  BY <1>10, <1>11 DEF OfferIsQueued
<1>13. ExchangeIsMutual'
  <2>1. keyOf'[c] = waiting[i] /\ keyOf'[e] = k
    BY <1>2, <1>6, <1>7
  <2>2. result'[c] = e /\ result'[e] = c
    BY <1>3, <1>6
  <2>3. ASSUME NEW x \in matched
        PROVE  /\ result'[x] = result[x] /\ result[x] \in matched
               /\ result'[result'[x]] = x
               /\ keyOf'[x] = keyOf[x] /\ keyOf'[result[x]] = keyOf[result[x]]
               /\ OwnerOf(keyOf[result[x]]) # OwnerOf(keyOf[x])
    <3>1. result[x] \in matched /\ result[result[x]] = x
      BY <2>3 DEF ExchangeIsMutual
    <3>2. x # c /\ x # e /\ result[x] # c /\ result[x] # e
      BY <3>1, <1>4, <1>7
    <3>3. result'[x] = result[x] /\ result'[result[x]] = result[result[x]]
      BY <3>1, <3>2, <1>3
    <3>4. x \in Allocated /\ result[x] \in Allocated
      BY <3>1 DEF TypeOK
    <3> QED BY <3>1, <3>3, <3>4, <1>2 DEF ExchangeIsMutual
  <2> QED BY <2>1, <2>2, <2>3, <1>3 DEF ExchangeIsMutual
<1> QED BY <1>2, <1>8, <1>9, <1>12, <1>13

LEMMA CancelIInv ==
    ASSUME IInv, NEW k \in Key, NEW remove \in BOOLEAN, Cancel(k, remove)
    PROVE  IInv'
<1> USE DEF IInv
<1> DEFINE c == boxes[k]
<1>1. /\ c # NoEntry /\ canceled' = canceled \cup {c} /\ token' = token \cup {c}
      /\ boxes' = IF remove THEN [boxes EXCEPT ![k] = NoEntry] ELSE boxes
      /\ waiting' = waiting /\ keyOf' = keyOf /\ created' = created /\ matched' = matched
      /\ result' = result /\ pc' = pc /\ follows' = follows /\ answered' = answered
  BY DEF Cancel, Signal, streams
<1>2. c \in Allocated /\ keyOf[c] = k
  BY <1>1 DEF MapMatchesKeys
<1>3. boxes' \in [Key -> Entry \cup {NoEntry}]
  BY <1>1 DEF TypeOK
<1>4. \A x \in Key : boxes'[x] = boxes[x] \/ (x = k /\ boxes'[x] = NoEntry)
  BY <1>1 DEF TypeOK
<1>5. TypeOK'
  BY <1>1, <1>2, <1>3 DEF TypeOK, Allocated
<1>6. MapMatchesKeys'
  BY <1>1, <1>4 DEF MapMatchesKeys, Allocated
<1>7. QueueHasOneOwner' /\ ExchangeIsMutual'
  BY <1>1 DEF QueueHasOneOwner, ExchangeIsMutual
<1>8. OfferIsQueued'
  <2>1. Offered' = Offered \ {c}
    BY <1>1 DEF Offered
  <2>2. ASSUME NEW x \in Offered, x # c
        PROVE  boxes'[keyOf[x]] = x
    <3>1. boxes[keyOf[x]] = x /\ keyOf[x] \in Key
      BY DEF OfferIsQueued, Offered, TypeOK, Allocated
    <3>2. keyOf[x] # k
      BY <3>1, <2>2
    <3> QED BY <3>1, <3>2, <1>4
  <2> QED BY <2>1, <2>2, <1>1 DEF OfferIsQueued
<1> QED BY <1>5, <1>6, <1>7, <1>8

LEMMA TrackOpenIInv ==
    ASSUME IInv, NEW s \in Stream, NEW k \in Key, NEW e \in Entry, TrackOpen(s, k, e)
    PROVE  IInv'
<1> USE DEF IInv
<1>1. /\ Allocate(k, e, Untrackable(k))
      /\ pc' = [pc EXCEPT ![s] = "opening"]
      /\ follows' = [follows EXCEPT ![s] = e]
      /\ waiting' = waiting /\ created' = created /\ matched' = matched
      /\ canceled' = canceled /\ result' = result /\ token' = token /\ answered' = answered
  BY DEF TrackOpen
<1>2. /\ boxes' \in [Key -> Entry \cup {NoEntry}]
      /\ boxes' = [boxes EXCEPT ![k] = e]
      /\ Allocated' = Allocated \cup {e}
      /\ Allocated' \subseteq Entry
      /\ keyOf' \in [Allocated' -> Key]
      /\ keyOf'[e] = k
      /\ \A x \in Allocated : keyOf'[x] = keyOf[x]
      /\ MapMatchesKeys'
  BY <1>1, AllocateFacts DEF Untrackable
<1>3. TypeOK'
  <2>1. pc' \in [Stream -> Ended \cup Open] /\ follows' \in [Stream -> Entry \cup {NoEntry}]
    BY <1>1 DEF TypeOK, Open
  <2>2. \A t \in Stream : pc'[t] \in Open => follows'[t] \in Allocated'
    BY <1>1, <1>2 DEF TypeOK
  <2> QED BY <1>1, <1>2, <2>1, <2>2 DEF TypeOK, Allocated
<1>4. Offered' = Offered
  BY <1>1 DEF Offered
<1>5. ASSUME NEW x \in Offered
      PROVE  boxes'[keyOf'[x]] = x /\ keyOf'[x] = keyOf[x]
  <2>1. /\ x \in Allocated /\ x \notin canceled /\ keyOf[x] \in Key
        /\ boxes[keyOf[x]] = x /\ x # NoEntry
    BY EntryAssumption DEF OfferIsQueued, Offered, TypeOK, Allocated
  <2>2. keyOf[x] = k => e = x
    BY <2>1, <1>1 DEF Allocate, Untrackable
  <2> QED BY <2>1, <2>2, <1>2 DEF TypeOK
<1>6. OfferIsQueued'
  BY <1>1, <1>4, <1>5 DEF OfferIsQueued
<1>7. QueueHasOneOwner'
  BY <1>1 DEF QueueHasOneOwner
<1>8. ExchangeIsMutual'
  BY <1>1, <1>2 DEF ExchangeIsMutual, TypeOK
<1> QED BY <1>2, <1>3, <1>6, <1>7, <1>8

LEMMA StreamStepIInv ==
    ASSUME IInv, NEW s \in Stream, ServeStream(s) \/ TrackGone(s)
    PROVE  IInv'
<1> USE DEF IInv
<1>1. UNCHANGED exchange /\ follows' = follows
  BY DEF ServeStream, TrackInitial, TrackWake, TrackRead, TrackGone
<1>2. \E p \in Ended \cup Open : pc' = [pc EXCEPT ![s] = p] /\ pc[s] \in Open
  BY DEF ServeStream, TrackInitial, TrackWake, TrackRead, TrackGone, Ended, Open
<1>3. token' \subseteq token /\ answered' \subseteq answered \cup {follows[s]}
  BY DEF ServeStream, TrackInitial, TrackWake, TrackRead, TrackGone
<1>4. follows[s] \in Allocated
  BY <1>2 DEF TypeOK
<1>5. TypeOK'
  <2>1. token' \subseteq Allocated /\ answered' \subseteq Allocated
    BY <1>3, <1>4 DEF TypeOK
  <2>2. /\ pc' \in [Stream -> Ended \cup Open]
        /\ \A t \in Stream : pc'[t] \in Open => follows[t] \in Allocated
    BY <1>2, <1>4 DEF TypeOK
  <2> QED BY <1>1, <2>1, <2>2 DEF TypeOK, exchange, Allocated
<1>6. (MapMatchesKeys /\ QueueHasOneOwner /\ OfferIsQueued /\ ExchangeIsMutual)'
  BY <1>1 DEF exchange, MapMatchesKeys, QueueHasOneOwner, OfferIsQueued, ExchangeIsMutual,
     Allocated, Offered
<1> QED BY <1>5, <1>6

LEMMA NextIInv == IInv /\ [Next]_vars => IInv'
<1> SUFFICES ASSUME IInv, [Next]_vars PROVE IInv'
  OBVIOUS
<1>1. CASE UNCHANGED vars
  BY <1>1 DEF IInv, TypeOK, MapMatchesKeys, QueueHasOneOwner, OfferIsQueued, ExchangeIsMutual,
     Allocated, Offered, vars, exchange, streams
<1>2. ASSUME NEW k \in Key, NEW e \in Entry, Create(k, e) PROVE IInv'
  <2>1. CASE EnqueueAlone(k, e)
    BY <1>2, <2>1, EnqueueAloneIInv
  <2>2. ASSUME NEW i \in DOMAIN waiting, EnqueueBehind(k, e, i) PROVE IInv'
    BY <1>2, <2>2, EnqueueBehindIInv
  <2>3. ASSUME NEW i \in DOMAIN waiting, Pair(k, e, i) PROVE IInv'
    BY <1>2, <2>3, PairIInv
  <2> QED BY <1>2, <2>1, <2>2, <2>3 DEF Create
<1>3. ASSUME NEW k \in Key, NEW remove \in BOOLEAN, Cancel(k, remove) PROVE IInv'
  BY <1>3, CancelIInv
<1>4. ASSUME NEW s \in Stream, NEW k \in Key, NEW e \in Entry, TrackOpen(s, k, e) PROVE IInv'
  BY <1>4, TrackOpenIInv
<1>5. ASSUME NEW s \in Stream, ServeStream(s) \/ TrackGone(s) PROVE IInv'
  BY <1>5, StreamStepIInv
<1> QED BY <1>1, <1>2, <1>3, <1>4, <1>5 DEF Next

-----------------------------------------------------------------------------
(* IInv holds in every reachable state: the invariant behind the exchange  *)
(* theorems, about createForOwnerApp, cancelForOwnerApp, trackForOwnerApp. *)
THEOREM SpecIInv == Spec => []IInv
  BY InitIInv, NextIInv, PTL DEF Spec

(* Every exchange is a swap between two different users. *)
THEOREM MutualExchange == Spec => []ExchangeIsMutual
<1>1. IInv => ExchangeIsMutual
  BY DEF IInv
<1> QED BY <1>1, SpecIInv, PTL

(* Two offers of different users are never both left open. *)
THEOREM NoExchangeMissed == Spec => []NoMissedExchange
<1>1. IInv => NoMissedExchange
  BY DEF IInv, OfferIsQueued, QueueHasOneOwner, NoMissedExchange
<1> QED BY <1>1, SpecIInv, PTL

(* An open offer stays in the map and in the queue. *)
THEOREM OffersStayQueued == Spec => []OfferIsQueued
<1>1. IInv => OfferIsQueued
  BY DEF IInv
<1> QED BY <1>1, SpecIInv, PTL

(* What the exchange promises of its queue and of what met in it. *)
THEOREM SoundExchange == Spec => []ExchangeIsSound
  BY MutualExchange, OffersStayQueued, NoExchangeMissed, PTL DEF ExchangeIsSound

(* Through any calls the maps, the queue and the streams have their types. *)
THEOREM TypeCorrect == Spec => []TypeOK
<1>1. IInv => TypeOK
  BY DEF IInv
<1> QED BY <1>1, SpecIInv, PTL

-----------------------------------------------------------------------------
(* What a step of the exchange does to the sets the streams watch. *)
LEMMA CreateSteps ==
    ASSUME IInv, NEW k \in Key, NEW e \in Entry, Create(k, e)
    PROVE  /\ matched \subseteq matched' /\ token \subseteq token'
           /\ matched' \ matched \subseteq token' \ canceled
           /\ \A x \in matched : result'[x] = result[x]
           /\ canceled' = canceled
           /\ pc' = pc /\ follows' = follows /\ answered' = answered
<1>1. canceled' = canceled /\ pc' = pc /\ follows' = follows /\ answered' = answered
  BY DEF Create, streams
<1>2. e \notin matched /\ e \notin canceled
  BY CreateFacts
<1>3. CASE EnqueueAlone(k, e)
  BY <1>1, <1>3 DEF EnqueueAlone, Signal
<1>4. ASSUME NEW i \in DOMAIN waiting, EnqueueBehind(k, e, i)
      PROVE  matched' = matched /\ result' = result /\ token \subseteq token'
  BY <1>4 DEF EnqueueBehind, Signal
<1>5. ASSUME NEW i \in DOMAIN waiting, Pair(k, e, i)
      PROVE  /\ matched \subseteq matched' /\ token \subseteq token'
             /\ matched' \ matched \subseteq token' \ canceled
             /\ \A x \in matched : result'[x] = result[x]
  <2>1. boxes[waiting[i]] \in Offered
    BY <1>5, PairFacts
  <2>2. boxes[waiting[i]] \notin matched /\ boxes[waiting[i]] \notin canceled
    BY <2>1 DEF Offered
  <2> QED BY <1>2, <1>5, <2>2 DEF Pair, Crossed, Signal
<1> QED BY <1>1, <1>3, <1>4, <1>5 DEF Create

(* The invariant of the streams, inductive relative to IInv. *)
SInv == ReportsAreFinal /\ NoLostWakeup

LEMMA NextSInv == IInv /\ SInv /\ [Next]_vars => SInv'
<1> SUFFICES ASSUME IInv, SInv, [Next]_vars PROVE SInv'
  OBVIOUS
<1> USE DEF SInv
<1>0. TypeOK
  BY DEF IInv
<1>1. CASE UNCHANGED vars
  BY <1>1 DEF ReportsAreFinal, NoLostWakeup, Followers, vars, exchange, streams
<1>2. ASSUME NEW k \in Key, NEW e \in Entry, Create(k, e) PROVE SInv'
  BY <1>2, CreateSteps DEF ReportsAreFinal, NoLostWakeup, Followers
<1>3. ASSUME NEW k \in Key, NEW remove \in BOOLEAN, Cancel(k, remove) PROVE SInv'
  BY <1>3 DEF Cancel, Signal, streams, ReportsAreFinal, NoLostWakeup, Followers
<1>4. ASSUME NEW s \in Stream, NEW k \in Key, NEW e \in Entry, TrackOpen(s, k, e) PROVE SInv'
  <2>1. /\ pc' = [pc EXCEPT ![s] = "opening"] /\ follows' = [follows EXCEPT ![s] = e]
        /\ matched' = matched /\ canceled' = canceled /\ token' = token
        /\ answered' = answered /\ pc[s] \in Ended
    BY <1>4 DEF TrackOpen
  <2>2. ReportsAreFinal'
    BY <2>1, <1>0 DEF ReportsAreFinal, TypeOK
  <2>3. \A t \in Stream : pc[t] = "woken" => t # s /\ pc'[t] = pc[t] /\ follows'[t] = follows[t]
    BY <2>1, <1>0 DEF TypeOK, Ended
  <2>4. NoLostWakeup'
    BY <2>1, <2>3 DEF NoLostWakeup, Followers
  <2> QED BY <2>2, <2>4
<1>5. ASSUME NEW s \in Stream, TrackInitial(s) PROVE SInv'
  <2>1. /\ UNCHANGED exchange /\ token' = token /\ follows' = follows
        /\ answered \subseteq answered'
        /\ pc[s] = "opening"
    BY <1>5 DEF TrackInitial
  <2>2. \/ pc' = [pc EXCEPT ![s] = "result"] /\ follows[s] \in matched
        \/ pc' = [pc EXCEPT ![s] = "following"]
    BY <1>5 DEF TrackInitial
  <2>3. ReportsAreFinal'
    BY <2>1, <2>2, <1>0 DEF ReportsAreFinal, TypeOK, exchange
  <2>4. \A t \in Stream : pc[t] = "woken" => pc'[t] = pc[t]
    BY <2>1, <2>2, <1>0 DEF TypeOK
  <2> QED BY <2>1, <2>3, <2>4 DEF NoLostWakeup, Followers, exchange
<1>6. ASSUME NEW s \in Stream, TrackWake(s) PROVE SInv'
  <2>1. /\ UNCHANGED exchange /\ token' = token \ {follows[s]} /\ follows' = follows
        /\ answered' = answered /\ pc' = [pc EXCEPT ![s] = "woken"] /\ pc[s] = "following"
    BY <1>6 DEF TrackWake
  <2>2. ReportsAreFinal'
    BY <2>1, <1>0 DEF ReportsAreFinal, TypeOK, exchange
  <2>3. pc'[s] = "woken" /\ \A t \in Stream : pc[t] = "woken" => pc'[t] = pc[t]
    BY <2>1, <1>0 DEF TypeOK
  <2>4. NoLostWakeup'
    BY <2>1, <2>3 DEF NoLostWakeup, Followers, exchange, Open
  <2> QED BY <2>2, <2>4
<1>7. ASSUME NEW s \in Stream, TrackRead(s) PROVE SInv'
  <2>1. /\ UNCHANGED exchange /\ token' = token /\ follows' = follows /\ pc[s] = "woken"
    BY <1>7 DEF TrackRead
  <2>2. \/ /\ pc' = [pc EXCEPT ![s] = "canceled"] /\ answered' = answered \cup {follows[s]}
           /\ follows[s] \in canceled \ matched
        \/ /\ pc' = [pc EXCEPT ![s] = "result"] /\ answered' = answered \cup {follows[s]}
           /\ follows[s] \in matched
        \/ /\ pc' = [pc EXCEPT ![s] = "following"] /\ answered' = answered
           /\ follows[s] \notin canceled \cup matched
    BY <1>7 DEF TrackRead
  <2>3. ReportsAreFinal'
    BY <2>1, <2>2, <1>0 DEF ReportsAreFinal, TypeOK, exchange
  <2>4. \A t \in Stream \ {s} : pc'[t] = pc[t]
    BY <2>2, <1>0 DEF TypeOK
  <2>5. \A x \in matched \cup canceled : x \in answered' \/ x # follows[s]
    BY <2>2
  <2>6. NoLostWakeup'
    <3> SUFFICES ASSUME NEW x \in matched \cup canceled, x # follows[s]
                 PROVE  \/ x \in token \cup answered
                        \/ \E t \in Stream : pc'[t] = "woken" /\ follows[t] = x
      BY <2>1, <2>2, <2>5 DEF NoLostWakeup, Followers, exchange, Open
    <3> QED BY <2>4 DEF NoLostWakeup, Followers
  <2> QED BY <2>3, <2>6
<1>8. ASSUME NEW s \in Stream, TrackGone(s) PROVE SInv'
  <2>1. /\ UNCHANGED exchange /\ token' = token /\ follows' = follows /\ answered' = answered
        /\ pc' = [pc EXCEPT ![s] = "gone"] /\ pc[s] = "following"
    BY <1>8 DEF TrackGone
  <2>2. ReportsAreFinal'
    BY <2>1, <1>0 DEF ReportsAreFinal, TypeOK, exchange
  <2>3. \A t \in Stream : pc[t] = "woken" => pc'[t] = pc[t]
    BY <2>1, <1>0 DEF TypeOK
  <2> QED BY <2>1, <2>2, <2>3 DEF NoLostWakeup, Followers, exchange
<1> QED BY <1>1, <1>2, <1>3, <1>4, <1>5, <1>6, <1>7, <1>8 DEF Next, ServeStream

(* The report a stream ended with stays true, and no signal to the streams *)
(* of an entry is lost.                                                    *)
THEOREM StreamSafety == Spec => []StreamsAreTold
<1>1. Init => SInv
  BY DEF Init, SInv, ReportsAreFinal, NoLostWakeup
<1>2. SInv => StreamsAreTold
  BY DEF SInv, StreamsAreTold
<1> QED BY <1>1, <1>2, NextSInv, SpecIInv, PTL DEF Spec

-----------------------------------------------------------------------------
(* No step undoes or redirects a finished exchange. *)
THEOREM ResultsNeverChange == Spec => ResultsStand
<1>1. IInv /\ [Next]_vars => [matched \subseteq matched'
                              /\ \A e \in matched : result'[e] = result[e]]_vars
  <2> SUFFICES ASSUME IInv, Next
               PROVE  matched \subseteq matched' /\ \A e \in matched : result'[e] = result[e]
    OBVIOUS
  <2>1. ASSUME NEW k \in Key, NEW e \in Entry, Create(k, e)
        PROVE  matched \subseteq matched' /\ \A x \in matched : result'[x] = result[x]
    BY <2>1, CreateSteps
  <2>2. ASSUME NEW k \in Key, NEW remove \in BOOLEAN, Cancel(k, remove)
        PROVE  matched' = matched /\ result' = result
    BY <2>2 DEF Cancel
  <2>3. ASSUME NEW s \in Stream, NEW k \in Key, NEW e \in Entry, TrackOpen(s, k, e)
        PROVE  matched' = matched /\ result' = result
    BY <2>3 DEF TrackOpen
  <2>4. ASSUME NEW s \in Stream, ServeStream(s) \/ TrackGone(s)
        PROVE  matched' = matched /\ result' = result
    BY <2>4 DEF ServeStream, TrackInitial, TrackWake, TrackRead, TrackGone, exchange
  <2> QED BY <2>1, <2>2, <2>3, <2>4 DEF Next
<1> QED BY <1>1, SpecIInv, PTL DEF Spec, ResultsStand

-----------------------------------------------------------------------------
(* REFINEMENT: the owner map of TradeExchange under the mapping. *)
Owners == [e \in created |-> OwnerOf(keyOf[e])]

(* A step that leaves the created entries, the offers and the results      *)
(* alone is a stutter of TradeExchange.                                    *)
LEMMA StutterTrades ==
    ASSUME IInv, created' = created, Offered' = Offered, result' = result,
           \A x \in created : keyOf'[x] = keyOf[x]
    PROVE  UNCHANGED Trades!tvars
<1>1. Owners' = Owners
  BY DEF Owners
<1> QED BY <1>1 DEF Trades!tvars, Owners

LEMMA CreateTrades ==
    ASSUME IInv, NEW k \in Key, NEW e \in Entry, Create(k, e)
    PROVE  Trades!TNext
<1>1. /\ created' = created \cup {e} /\ canceled' = canceled
      /\ Allocate(k, e, boxes[k] = NoEntry) /\ TypeOK /\ MapMatchesKeys
  BY DEF Create, IInv
<1>2. /\ e \notin created /\ e \notin canceled /\ e \notin matched
      /\ \A x \in created : x \in Allocated
      /\ keyOf'[e] = k
      /\ \A x \in Offered : \E j \in Candidates(k, e) : waiting[j] = keyOf[x]
  BY CreateFacts
<1>3. \A x \in Allocated : keyOf'[x] = keyOf[x]
  BY <1>1, AllocateFacts
<1>4. OwnerOf(k) \in Owner
  BY DEF OwnerOf, Key
<1>5. Owners' = [x \in created \cup {e} |-> IF x = e THEN OwnerOf(k) ELSE Owners[x]]
  BY <1>1, <1>2, <1>3 DEF Owners
<1>6. Trades!RecordOwner(e, OwnerOf(k))
  BY <1>2, <1>5 DEF Trades!RecordOwner, Trades!Posted, Owners
<1>7. \A x \in Offered : Owners[x] = OwnerOf(keyOf[x])
  BY DEF Owners, Offered
<1>8. CASE EnqueueAlone(k, e)
  <2>1. Offered = {} /\ Offered' = Offered \cup {e} /\ result' = result
    BY <1>1, <1>2, <1>8 DEF EnqueueAlone, Offered
  <2>2. Trades!Post(e, OwnerOf(k))
    BY <2>1, <1>6 DEF Trades!Post
  <2> QED BY <2>2, <1>4 DEF Trades!TNext
<1>9. ASSUME NEW i \in DOMAIN waiting, EnqueueBehind(k, e, i) PROVE Trades!TNext
  <2>1. Offered' = Offered \cup {e} /\ result' = result /\ OwnerOf(waiting[i]) = OwnerOf(k)
    BY <1>1, <1>2, <1>9 DEF EnqueueBehind, Offered
  <2>2. \A x \in Offered : Owners[x] = OwnerOf(k)
    BY <2>1, <1>7 DEF IInv, OfferIsQueued, QueueHasOneOwner
  <2>3. Trades!Post(e, OwnerOf(k))
    BY <2>1, <2>2, <1>6 DEF Trades!Post, Owners
  <2> QED BY <2>3, <1>4 DEF Trades!TNext
<1>10. ASSUME NEW i \in DOMAIN waiting, Pair(k, e, i) PROVE Trades!TNext
  <2> DEFINE c == boxes[waiting[i]]
  <2>1. c \in Offered /\ c # e /\ keyOf[c] = waiting[i]
    BY <1>10, PairFacts
  <2>2. /\ OwnerOf(waiting[i]) # OwnerOf(k) /\ matched' = matched \cup {c, e}
        /\ result' = [x \in matched \cup {c, e} |->
                        IF x = c THEN e ELSE IF x = e THEN c ELSE result[x]]
    BY <1>10 DEF Pair, Crossed
  <2> HIDE DEF c
  <2>3. Offered' = Offered \ {c}
    BY <2>1, <2>2, <1>1, <1>2 DEF Offered
  <2>4. DOMAIN result = matched /\ c \in Entry
    BY <2>1, <1>1 DEF TypeOK, Offered, Allocated
  <2>5. Owners[c] # OwnerOf(k)
    BY <2>1, <2>2, <1>7
  <2>6. Trades!Swap(e, OwnerOf(k), c)
    BY <2>1, <2>2, <2>3, <2>4, <2>5, <1>6 DEF Trades!Swap, Owners
  <2> QED BY <2>4, <2>6, <1>4 DEF Trades!TNext
<1> QED BY <1>8, <1>9, <1>10 DEF Create

LEMMA CancelTrades ==
    ASSUME IInv, NEW k \in Key, NEW remove \in BOOLEAN, Cancel(k, remove)
    PROVE  Trades!TNext \/ UNCHANGED Trades!tvars
<1> DEFINE c == boxes[k]
<1>1. /\ canceled' = canceled \cup {c} /\ created' = created /\ keyOf' = keyOf
      /\ result' = result /\ matched' = matched
  BY DEF Cancel
<1>2. Offered' = Offered \ {c}
  BY <1>1 DEF Offered
<1> HIDE DEF c
<1>3. CASE c \in Offered
  <2>1. c \in Entry
    BY <1>3 DEF Offered, IInv, TypeOK, Allocated
  <2>2. Owners' = Owners
    BY <1>1 DEF Owners
  <2>3. Trades!Withdraw(c)
    BY <1>1, <1>2, <1>3, <2>2 DEF Trades!Withdraw, Owners
  <2> QED BY <2>1, <2>3 DEF Trades!TNext
<1>4. CASE c \notin Offered
  BY <1>1, <1>2, <1>4, StutterTrades
<1> QED BY <1>3, <1>4

(* TradeBox implements TradeExchange: whatever the map, the queue and the  *)
(* streams do, users see boxes posted, swapped at once or withdrawn.       *)
THEOREM Implements == Spec => ImplementsExchange
<1>1. Init => Trades!TInit
  <2> SUFFICES ASSUME Init PROVE Trades!TInit
    OBVIOUS
  <2>1. created = {} /\ Offered = {} /\ result = [e \in {} |-> NoEntry]
    BY DEF Init, Offered
  <2>2. result = [b \in {} |-> b] /\ [e \in created |-> OwnerOf(keyOf[e])] = [b \in {} |-> b]
    BY <2>1
  <2> QED BY <2>1, <2>2 DEF Trades!TInit
<1>2. IInv /\ [Next]_vars => [Trades!TNext]_Trades!tvars
  <2> SUFFICES ASSUME IInv, [Next]_vars PROVE Trades!TNext \/ UNCHANGED Trades!tvars
    OBVIOUS
  <2>1. CASE UNCHANGED vars
    BY <2>1, StutterTrades DEF vars, exchange, Offered
  <2>2. ASSUME NEW k \in Key, NEW e \in Entry, Create(k, e) PROVE Trades!TNext
    BY <2>2, CreateTrades
  <2>3. ASSUME NEW k \in Key, NEW remove \in BOOLEAN, Cancel(k, remove)
        PROVE  Trades!TNext \/ UNCHANGED Trades!tvars
    BY <2>3, CancelTrades
  <2>4. ASSUME NEW s \in Stream, NEW k \in Key, NEW e \in Entry, TrackOpen(s, k, e)
        PROVE  UNCHANGED Trades!tvars
    <3>1. /\ created' = created /\ Offered' = Offered /\ result' = result
          /\ Allocate(k, e, Untrackable(k))
      BY <2>4 DEF TrackOpen, Offered
    <3>2. TypeOK /\ MapMatchesKeys /\ created \subseteq Allocated
      BY DEF IInv, TypeOK
    <3>3. \A x \in created : keyOf'[x] = keyOf[x]
      BY <3>1, <3>2, AllocateFacts DEF Untrackable
    <3> QED BY <3>1, <3>3, StutterTrades
  <2>5. ASSUME NEW s \in Stream, ServeStream(s) \/ TrackGone(s)
        PROVE  UNCHANGED Trades!tvars
    <3>1. UNCHANGED exchange
      BY <2>5 DEF ServeStream, TrackInitial, TrackWake, TrackRead, TrackGone
    <3> QED BY <3>1, StutterTrades DEF exchange, Offered
  <2> QED BY <2>1, <2>2, <2>3, <2>4, <2>5 DEF Next
<1> QED BY <1>1, <1>2, SpecIInv, PTL DEF Spec, ImplementsExchange, Trades!TSpec
=============================================================================
