--------------------------- MODULE DrawingProofs ---------------------------
(***************************************************************************)
(* Proofs about what draws.  About SpriteCache, for every size and every   *)
(* set of keys: its invariants, and that it implements Lru.  About the     *)
(* handshake of Ppu, for every size of the screen, every number of lines   *)
(* and changes, and both values of the lock.                               *)
(***************************************************************************)
EXTENDS SpriteCache, Ppu, FiniteSetTheorems, FunctionTheorems, TLAPS

(***************************************************************************)
(* The first m slots are in use.  Their positions are the m highest, each  *)
(* taken once, so that with m = Size one slot has position 0, and with     *)
(* m < Size slot m + 1 has.                                                *)
(***************************************************************************)
Filled(m) ==
  /\ \A i \in Slots : cache[i].Key # NoKey <=> i <= m
  /\ \A i \in Slots : i <= m => cache[i].Position \in (Size - m)..(Size - 1)
  /\ \A i \in Slots : i > m => cache[i].Position = 0
  /\ \A i, j \in Slots : i <= m /\ j <= m
                           /\ cache[i].Position = cache[j].Position => i = j
  /\ \A p \in (Size - m)..(Size - 1) :
       \E i \in Slots : i <= m /\ cache[i].Position = p

(* Keys are in the cache once, and one being made is not there yet.        *)
KeysOnce ==
  /\ \A i, j \in Slots :
       cache[i].Key = cache[j].Key /\ cache[i].Key # NoKey => i = j
  /\ request # NoKey => \A i \in Slots : cache[i].Key # request

(* A slot has a sprite if it has a key.                                    *)
SpritesMatch == \A i \in Slots : cache[i].Sprite <=> cache[i].Key # NoKey

(* What is in the cache, or about to be, has been asked for; and whatever  *)
(* was freed, more was asked for than there is room for.                   *)
SeenCovers ==
  /\ IsFiniteSet(seen)
  /\ \A i \in Slots : cache[i].Key # NoKey => cache[i].Key \in seen
  /\ request # NoKey => request \in seen
  /\ ~intact => Cardinality(seen) > Size

IInv ==
  /\ TypeOK
  /\ \E m \in 0..Size : Filled(m)
  /\ KeysOnce
  /\ SpritesMatch
  /\ SeenCovers

USE SizeAssumption, KeysAssumption

-----------------------------------------------------------------------------
(* What the operators return.                                              *)

LEMMA TypedSlot ==
  ASSUME TypeOK, NEW i \in Slots
  PROVE  /\ cache[i].Key \in Keys \cup {NoKey}
         /\ cache[i].Sprite \in BOOLEAN
         /\ cache[i].Position \in 0..Size
         /\ cache[i] = [Key |-> cache[i].Key, Sprite |-> cache[i].Sprite,
                        Position |-> cache[i].Position]
BY DEF TypeOK, Slot

LEMMA InUseIsFilled ==
  ASSUME NEW m \in 0..Size, Filled(m)
  PROVE  InUse = m
<1> DEFINE P(n) == \A i \in Slots : cache[i].Key # NoKey <=> i <= n
<1>1. P(m)
  BY DEF Filled
<1>2. \A n \in 0..Size : P(n) => n = m
  <2> SUFFICES ASSUME NEW n \in 0..Size, P(n), n # m PROVE FALSE
    OBVIOUS
  <2>1. CASE n < m
    <3>1. n + 1 \in Slots /\ n + 1 <= m /\ ~(n + 1 <= n)
      BY <2>1 DEF Slots
    <3>2. QED
      BY <1>1, <3>1
  <2>2. CASE m < n
    <3>1. m + 1 \in Slots /\ m + 1 <= n /\ ~(m + 1 <= m)
      BY <2>2 DEF Slots
    <3>2. QED
      BY <1>1, <3>1
  <2>3. QED
    BY <2>1, <2>2
<1>3. QED
  BY <1>1, <1>2 DEF InUse

LEMMA InUseIsFilledNext ==
  ASSUME NEW m \in 0..Size, Filled(m)'
  PROVE  InUse' = m
<1> DEFINE P(n) == \A i \in Slots : cache'[i].Key # NoKey <=> i <= n
<1>1. P(m)
  BY DEF Filled
<1>2. \A n \in 0..Size : P(n) => n = m
  <2> SUFFICES ASSUME NEW n \in 0..Size, P(n), n # m PROVE FALSE
    OBVIOUS
  <2>1. CASE n < m
    <3>1. n + 1 \in Slots /\ n + 1 <= m /\ ~(n + 1 <= n)
      BY <2>1 DEF Slots
    <3>2. QED
      BY <1>1, <3>1
  <2>2. CASE m < n
    <3>1. m + 1 \in Slots /\ m + 1 <= n /\ ~(m + 1 <= m)
      BY <2>2 DEF Slots
    <3>2. QED
      BY <1>1, <3>1
  <2>3. QED
    BY <2>1, <2>2
<1>3. QED
  BY <1>1, <1>2 DEF InUse

(* In a cache without repeated keys getFromCache finds the only match.     *)
LEMMA LastMatchUnique ==
  ASSUME IInv, NEW k \in Keys, NEW s \in Slots, cache[s].Key = k
  PROVE  LastMatch(k) = s /\ Matches(k) = {s}
<1>1. \A i \in Matches(k) : i = s
  BY DEF Matches, IInv, KeysOnce
<1>2. Matches(k) = {s}
  BY <1>1 DEF Matches
<1>3. s <= s
  BY DEF Slots
<1>4. QED
  BY <1>2, <1>3 DEF LastMatch

(* A found slot s moves to the front; the slots that were in front of it   *)
(* each move back by one.                                                  *)
LEMMA FoundPositions ==
  ASSUME IInv, NEW k \in Keys, Found(k), NEW s \in Slots, cache[s].Key = k
  PROVE  \A i \in Slots :
           /\ cache'[i] = [Key |-> cache[i].Key, Sprite |-> cache[i].Sprite,
                           Position |-> cache'[i].Position]
           /\ cache'[i].Position =
                IF i = s THEN Size - 1
                ELSE IF cache[i].Position > cache[s].Position
                       THEN cache[i].Position - 1 ELSE cache[i].Position
<1>1. LastMatch(k) = s /\ Matches(k) = {s}
  BY LastMatchUnique
<1>2. \A i \in Slots : cache[i].Key = k <=> i = s
  BY <1>1 DEF Matches
<1>3. PICK m \in 0..Size : Filled(m)
  BY DEF IInv
<1>4. s <= m /\ cache[s].Position < Size
  BY <1>3 DEF Filled, Slots
<1>5. TypeOK
  BY DEF IInv
<1> SUFFICES ASSUME NEW i \in Slots
             PROVE  /\ cache'[i] = [Key |-> cache[i].Key, Sprite |-> cache[i].Sprite,
                           Position |-> cache'[i].Position]
                    /\ cache'[i].Position =
                         IF i = s THEN Size - 1
                         ELSE IF cache[i].Position > cache[s].Position
                           THEN cache[i].Position - 1 ELSE cache[i].Position
  OBVIOUS
<1> DEFINE r == IF i = s THEN Size ELSE cache[i].Position
           new == IF r > cache[s].Position THEN r - 1 ELSE r
<1>6. cache'[i] = [cache[i] EXCEPT !.Position = new]
  BY <1>1, <1>2 DEF Found, Requeued
<1>7. cache'[i] = [Key |-> cache[i].Key, Sprite |-> cache[i].Sprite,
                   Position |-> new]
  BY <1>5, <1>6, TypedSlot
<1>8. QED
  BY <1>4, <1>5, <1>7, TypedSlot

(* The slot cacheSprite replaces is the one that is empty or, in a full    *)
(* cache, the only one with position 0.                                    *)
LEMMA TopSlot ==
  ASSUME TypeOK, NEW m \in 0..Size, Filled(m), NEW top \in Slots, IsTop(top)
  PROVE  IF m < Size THEN top = m + 1 ELSE top <= m
<1>1. CASE m < Size
  <2>1. m + 1 \in Slots /\ cache[m + 1].Position = 0
    BY <1>1 DEF Filled, Slots
  <2>2. top <= m + 1
    BY <2>1 DEF IsTop, Slots
  <2>3. ~(top <= m)
    <3> SUFFICES ASSUME top <= m PROVE FALSE
      OBVIOUS
    <3>1. cache[top].Position \in (Size - m)..(Size - 1)
      BY DEF Filled
    <3>2. QED
      BY <1>1, <3>1 DEF IsTop
  <2>4. QED
    BY <1>1, <2>2, <2>3 DEF Slots
<1>2. CASE m = Size
  BY <1>2 DEF Slots
<1>3. QED
  BY <1>1, <1>2

-----------------------------------------------------------------------------
(* The invariant.                                                          *)

LEMMA InitIInv == Init => IInv
<1> SUFFICES ASSUME Init PROVE IInv
  OBVIOUS
<1>1. \A i \in Slots : cache[i] = [Key |-> NoKey, Sprite |-> FALSE, Position |-> 0]
  BY DEF Init
<1>2. TypeOK
  <2>1. [Key |-> NoKey, Sprite |-> FALSE, Position |-> 0] \in Slot
    BY DEF Slot
  <2>2. cache \in [Slots -> Slot]
    BY <2>1 DEF Init
  <2>3. request = NoKey /\ asked = NoKey /\ seen = {}
    BY DEF Init
  <2>4. made \in BOOLEAN /\ intact \in BOOLEAN
    BY Zenon DEF Init
  <2>5. QED
    BY <2>2, <2>3, <2>4 DEF TypeOK
<1>3. Filled(0) /\ 0 \in 0..Size
  BY <1>1 DEF Filled, Slots
<1>4. KeysOnce /\ SpritesMatch
  BY <1>1 DEF Init, KeysOnce, SpritesMatch
<1>5. SeenCovers
  <2>1. \A i \in Slots : cache[i].Key = NoKey
    BY <1>1
  <2>2. IsFiniteSet(seen)
    BY FS_EmptySet DEF Init
  <2>3. QED
    BY <2>1, <2>2 DEF Init, SeenCovers
<1>6. QED
  BY <1>2, <1>3, <1>4, <1>5 DEF IInv

(* Asking for one more key.                                                *)
LEMMA AskingGrows ==
  ASSUME SeenCovers, NEW k \in Keys, seen' = seen \cup {k}, intact' <=> intact
  PROVE  /\ IsFiniteSet(seen') /\ seen \subseteq seen' /\ k \in seen'
         /\ ~intact' => Cardinality(seen') > Size
<1>1. IsFiniteSet(seen) /\ Cardinality(seen) \in Nat
  BY FS_CardinalityType DEF SeenCovers
<1>2. /\ IsFiniteSet(seen')
      /\ Cardinality(seen') = IF k \in seen THEN Cardinality(seen)
                                           ELSE Cardinality(seen) + 1
  BY <1>1, FS_AddElement
<1>3. ~intact => Cardinality(seen) > Size
  BY DEF SeenCovers
<1>4. QED
  BY <1>1, <1>2, <1>3

LEMMA FoundKeepsIInv ==
  ASSUME IInv, NEW k \in Keys, Found(k)
  PROVE  IInv' /\ \A m \in 0..Size : Filled(m) => Filled(m)'
<1>1. PICK s \in Slots : cache[s].Key = k
  BY DEF Found, Matches
<1>2. LastMatch(k) = s /\ Matches(k) = {s}
  BY <1>1, LastMatchUnique
<1> DEFINE p(i) == cache[i].Position
           q(i) == IF i = s THEN Size - 1
                   ELSE IF p(i) > p(s) THEN p(i) - 1 ELSE p(i)
<1>3. \A i \in Slots :
        cache'[i] = [Key |-> cache[i].Key, Sprite |-> cache[i].Sprite,
                     Position |-> q(i)]
  BY <1>1, FoundPositions
<1>4. \A i \in Slots : /\ cache'[i].Key = cache[i].Key
                       /\ cache'[i].Sprite = cache[i].Sprite
                       /\ cache'[i].Position = q(i)
  <2> SUFFICES ASSUME NEW i \in Slots
               PROVE  /\ cache'[i].Key = cache[i].Key
                      /\ cache'[i].Sprite = cache[i].Sprite
                      /\ cache'[i].Position = q(i)
    OBVIOUS
  <2> HIDE DEF q
  <2>1. cache'[i] = [Key |-> cache[i].Key, Sprite |-> cache[i].Sprite,
                     Position |-> q(i)]
    BY <1>3
  <2>2. QED
    BY <2>1
<1>5. TypeOK
  BY DEF IInv
<1>6. \A i \in Slots : p(i) \in 0..Size
  BY <1>5, TypedSlot
<1>7. ASSUME NEW m \in 0..Size, Filled(m) PROVE Filled(m)'
  <2>1. s <= m /\ p(s) \in (Size - m)..(Size - 1) /\ m >= 1
    BY <1>1, <1>7 DEF Filled, Slots
  <2>2. \A i \in Slots : cache'[i].Key # NoKey <=> i <= m
    BY <1>4, <1>7 DEF Filled
  <2>3. \A i \in Slots : i <= m => q(i) \in (Size - m)..(Size - 1)
    BY <1>6, <1>7, <2>1 DEF Filled
  <2>4. \A i \in Slots : i > m => q(i) = 0
    BY <1>7, <2>1 DEF Filled, Slots
  <2>5. \A i, j \in Slots : i <= m /\ j <= m /\ q(i) = q(j) => i = j
    <3> SUFFICES ASSUME NEW i \in Slots, NEW j \in Slots, i <= m, j <= m,
                        q(i) = q(j)
                 PROVE  i = j
      OBVIOUS
    <3>1. /\ p(i) \in (Size - m)..(Size - 1) /\ p(j) \in (Size - m)..(Size - 1)
          /\ p(i) = p(j) => i = j
          /\ p(i) = p(s) => i = s
          /\ p(j) = p(s) => j = s
      BY <1>7, <2>1 DEF Filled
    <3>2. QED
      BY <2>1, <3>1
  <2>6. ASSUME NEW n \in (Size - m)..(Size - 1)
        PROVE  \E i \in Slots : i <= m /\ q(i) = n
    <3>1. CASE n = Size - 1
      BY <2>1, <3>1
    <3>2. CASE n # Size - 1 /\ n >= p(s)
      <4>1. n + 1 \in (Size - m)..(Size - 1)
        BY <2>6, <3>2
      <4>2. PICK i \in Slots : i <= m /\ p(i) = n + 1
        BY <1>7, <4>1 DEF Filled
      <4>3. q(i) = n
        BY <2>1, <3>2, <4>2
      <4>4. QED
        BY <4>2, <4>3
    <3>3. CASE n < p(s)
      <4>1. PICK i \in Slots : i <= m /\ p(i) = n
        BY <1>7, <2>6 DEF Filled
      <4>2. q(i) = n
        BY <2>1, <3>3, <4>1
      <4>3. QED
        BY <4>1, <4>2
    <3>4. QED
      BY <2>1, <3>1, <3>2, <3>3
  <2>7. QED
    BY <1>4, <2>2, <2>3, <2>4, <2>5, <2>6 DEF Filled
<1>8. (\E m \in 0..Size : Filled(m))'
  BY <1>7 DEF IInv
<1>9. TypeOK'
  <2>1. \A i \in Slots : cache'[i] \in Slot
    <3> SUFFICES ASSUME NEW i \in Slots PROVE cache'[i] \in Slot
      OBVIOUS
    <3>1. q(i) \in 0..Size
      BY <1>6
    <3> HIDE DEF q
    <3>2. cache[i].Key \in Keys \cup {NoKey}
          /\ cache[i].Sprite \in BOOLEAN
      BY <1>5, TypedSlot
    <3>3. cache'[i] = [Key |-> cache[i].Key, Sprite |-> cache[i].Sprite,
                       Position |-> q(i)]
      BY <1>3
    <3>4. QED
      BY <3>1, <3>2, <3>3 DEF Slot
  <2>2. cache' \in [Slots -> Slot]
    BY <2>1 DEF Found, Requeued
  <2>3. request' = request /\ asked' = k /\ seen' = seen \cup {k}
    BY DEF Found
  <2>4. made' \in BOOLEAN /\ intact' \in BOOLEAN
    BY <1>5, Zenon DEF Found, TypeOK
  <2>5. QED
    BY <1>5, <2>2, <2>3, <2>4 DEF TypeOK
<1>10. KeysOnce' /\ SpritesMatch'
  <2>1. request' = request
    BY DEF Found
  <2>2. KeysOnce'
    BY <1>4, <2>1 DEF IInv, KeysOnce
  <2>3. SpritesMatch'
    BY <1>4 DEF IInv, SpritesMatch
  <2>4. QED
    BY <2>2, <2>3
<1>11. SeenCovers'
  <2>1. SeenCovers /\ request' = request /\ seen' = seen \cup {k}
    BY DEF Found, IInv
  <2>2. intact' <=> intact
    BY Zenon DEF Found
  <2>3. QED
    BY <1>4, <2>1, <2>2, AskingGrows DEF SeenCovers
<1>12. QED
  BY <1>7, <1>8, <1>9, <1>10, <1>11 DEF IInv

LEMMA NotFoundKeepsIInv ==
  ASSUME IInv, NEW k \in Keys, NotFound(k)
  PROVE  IInv'
<1>1. UNCHANGED <<cache, asked>> /\ request' = k /\ seen' = seen \cup {k}
  BY DEF NotFound
<1>2. made' \in BOOLEAN /\ intact' \in BOOLEAN /\ (intact' <=> intact)
  BY Zenon DEF NotFound, IInv, TypeOK
<1>3. TypeOK'
  BY <1>1, <1>2 DEF IInv, TypeOK
<1>4. KeysOnce' /\ SpritesMatch'
  BY <1>1 DEF IInv, KeysOnce, SpritesMatch, NotFound, Matches
<1>5. (\E m \in 0..Size : Filled(m))'
  BY <1>1 DEF IInv, Filled
<1>6. SeenCovers'
  <2>1. SeenCovers
    BY DEF IInv
  <2>2. QED
    BY <1>1, <1>2, <2>1, AskingGrows DEF SeenCovers
<1>7. QED
  BY <1>3, <1>4, <1>5, <1>6 DEF IInv

(* What a step of CacheSprite does to each slot.                           *)
LEMMA ReplacedSlots ==
  ASSUME TypeOK, NEW top \in Slots, NEW k,
         cache' = Replaced(top, k), NEW i \in Slots
  PROVE  IF i = top
           THEN cache'[i] = [Key |-> k, Sprite |-> TRUE, Position |-> Size - 1]
           ELSE cache'[i] = [Key |-> cache[i].Key, Sprite |-> cache[i].Sprite,
                             Position |-> IF cache[i].Position > 0
                                            THEN cache[i].Position - 1 ELSE 0]
<1> DEFINE n == IF cache[i].Position > 0 THEN cache[i].Position - 1 ELSE 0
<1>1. cache'[i] = IF i = top
                    THEN [Key |-> k, Sprite |-> TRUE, Position |-> Size - 1]
                    ELSE [cache[i] EXCEPT !.Position = n]
  BY DEF Replaced, Shifted
<1> HIDE DEF n
<1>2. cache[i] = [Key |-> cache[i].Key, Sprite |-> cache[i].Sprite,
                  Position |-> cache[i].Position]
  BY TypedSlot
<1>3. [cache[i] EXCEPT !.Position = n]
        = [Key |-> cache[i].Key, Sprite |-> cache[i].Sprite, Position |-> n]
  BY <1>2
<1>4. QED
  BY <1>1, <1>3 DEF n

LEMMA ReplacedFields ==
  ASSUME TypeOK, NEW top \in Slots, NEW k,
         cache' = Replaced(top, k), NEW i \in Slots
  PROVE  /\ cache'[i].Key = IF i = top THEN k ELSE cache[i].Key
         /\ cache'[i].Sprite = IF i = top THEN TRUE ELSE cache[i].Sprite
         /\ cache'[i].Position =
              IF i = top THEN Size - 1
              ELSE IF cache[i].Position > 0 THEN cache[i].Position - 1 ELSE 0
<1>1. CASE i = top
  <2>1. cache'[i] = [Key |-> k, Sprite |-> TRUE, Position |-> Size - 1]
    BY <1>1, ReplacedSlots
  <2>2. QED
    BY <1>1, <2>1
<1>2. CASE i # top
  <2> DEFINE n == IF cache[i].Position > 0 THEN cache[i].Position - 1 ELSE 0
  <2>1. cache'[i] = [Key |-> cache[i].Key, Sprite |-> cache[i].Sprite,
                     Position |-> n]
    BY <1>2, ReplacedSlots
  <2> HIDE DEF n
  <2>2. cache'[i].Key = cache[i].Key /\ cache'[i].Sprite = cache[i].Sprite
        /\ cache'[i].Position = n
    BY <2>1
  <2>3. QED
    BY <1>2, <2>2 DEF n
<1>3. QED
  BY <1>1, <1>2

(* One more slot is in use, or as many as there are.                       *)
LEMMA ReplacedFilled ==
  ASSUME TypeOK, NEW m \in 0..Size, Filled(m), NEW top \in Slots, IsTop(top),
         NEW k \in Keys, cache' = Replaced(top, k),
         NEW n, n = IF m < Size THEN m + 1 ELSE m
  PROVE  n \in 0..Size /\ Filled(n)'
<1> DEFINE p(i) == cache[i].Position
           q(i) == IF i = top THEN Size - 1
                   ELSE IF p(i) > 0 THEN p(i) - 1 ELSE 0
<1>1. IF m < Size THEN top = m + 1 ELSE top <= m
  BY TopSlot
<1>2. \A i \in Slots : cache'[i].Key = IF i = top THEN k ELSE cache[i].Key
  BY ReplacedFields
<1>3. \A i \in Slots : cache'[i].Position = q(i)
  BY ReplacedFields
<1>4. \A i \in Slots : p(i) \in 0..Size
  BY TypedSlot
<1>5. p(top) = 0 /\ top \in 1..Size
  BY DEF IsTop, Slots
<1>6. n \in 0..Size /\ n >= 1 /\ top <= n
  BY <1>1, <1>5
<1>7. \A i \in Slots : cache'[i].Key # NoKey <=> i <= n
  BY <1>1, <1>2, <1>5 DEF Filled, Slots
<1>8. \A i \in Slots : i <= n /\ i # top =>
        /\ i <= m /\ p(i) \in (Size - m)..(Size - 1) /\ p(i) > 0
        /\ q(i) = p(i) - 1 /\ q(i) < Size - 1
  <2> SUFFICES ASSUME NEW i \in Slots, i <= n, i # top
               PROVE  /\ i <= m /\ p(i) \in (Size - m)..(Size - 1) /\ p(i) > 0
                      /\ q(i) = p(i) - 1 /\ q(i) < Size - 1
    OBVIOUS
  <2>1. i <= m
    BY <1>1 DEF Slots
  <2>2. p(i) \in (Size - m)..(Size - 1)
    BY <2>1 DEF Filled
  <2>3. p(i) # 0
    <3>1. CASE m < Size
      BY <2>2, <3>1
    <3>2. CASE m = Size
      BY <1>1, <1>5, <2>1, <3>2 DEF Filled
    <3>3. QED
      BY <3>1, <3>2
  <2>4. QED
    BY <2>1, <2>2, <2>3
<1>9. \A i \in Slots : i <= n => q(i) \in (Size - n)..(Size - 1)
  BY <1>5, <1>6, <1>8
<1>10. \A i \in Slots : i > n => q(i) = 0
  BY <1>6 DEF Filled, Slots
<1>11. \A i, j \in Slots : i <= n /\ j <= n /\ q(i) = q(j) => i = j
  <2> SUFFICES ASSUME NEW i \in Slots, NEW j \in Slots, i <= n, j <= n,
                      q(i) = q(j), i # top
               PROVE  i = j
    OBVIOUS
  <2>1. j # top /\ p(i) = p(j) /\ i <= m /\ j <= m
    BY <1>8
  <2>2. QED
    BY <2>1 DEF Filled
<1>12. ASSUME NEW x \in (Size - n)..(Size - 1)
       PROVE  \E i \in Slots : i <= n /\ q(i) = x
  <2>1. CASE x = Size - 1
    BY <1>6, <2>1
  <2>2. CASE x # Size - 1
    <3>1. x + 1 \in (Size - m)..(Size - 1) /\ x + 1 > 0
      BY <1>12, <2>2
    <3>2. PICK i \in Slots : i <= m /\ p(i) = x + 1
      BY <3>1 DEF Filled
    <3>3. i # top
      BY <1>5, <3>1, <3>2
    <3>4. q(i) = x
      BY <1>12, <3>1, <3>2, <3>3
    <3>5. i <= n
      BY <3>2 DEF Slots
    <3>6. QED
      BY <3>4, <3>5
  <2>3. QED
    BY <2>1, <2>2
<1>13. QED
  BY <1>3, <1>6, <1>7, <1>9, <1>10, <1>11, <1>12 DEF Filled

(* A sprite is replaced only when as many keys are cached as there are     *)
(* slots, and the one being made is none of them.                          *)
LEMMA ReplacedWhenFull ==
  ASSUME IInv, request # NoKey, NEW top \in Slots, IsTop(top), cache[top].Sprite
  PROVE  Cardinality(seen) > Size
<1>1. PICK m \in 0..Size : Filled(m)
  BY DEF IInv
<1>2. cache[top].Key # NoKey
  BY DEF IInv, SpritesMatch
<1>3. top <= m
  BY <1>1, <1>2 DEF Filled
<1>4. m = Size
  <2>1. IF m < Size THEN top = m + 1 ELSE top <= m
    BY <1>1, TopSlot DEF IInv
  <2>2. QED
    BY <1>3, <2>1 DEF Slots
<1>5. \A i \in Slots : cache[i].Key # NoKey
  BY <1>1, <1>4 DEF Filled, Slots
<1> DEFINE others == seen \ {request}
           f == [i \in Slots |-> cache[i].Key]
<1>6. f \in Injection(Slots, others)
  <2>1. \A i \in Slots : cache[i].Key \in others
    BY <1>5 DEF IInv, KeysOnce, SeenCovers
  <2>2. \A i, j \in Slots : cache[i].Key = cache[j].Key => i = j
    BY <1>5 DEF IInv, KeysOnce
  <2>3. f \in [Slots -> others]
    BY <2>1
  <2>4. \A i, j \in Slots : f[i] = f[j] => i = j
    BY <2>2
  <2> HIDE DEF f, others
  <2>5. QED
    BY <2>3, <2>4, Fun_IsInj
<1>7. /\ IsFiniteSet(seen) /\ request \in seen
      /\ Cardinality(seen) \in Nat
  BY FS_CardinalityType DEF IInv, SeenCovers
<1>8. IsFiniteSet(others) /\ Cardinality(others) = Cardinality(seen) - 1
  BY <1>7, FS_RemoveElement
<1>9. Cardinality(Slots) = Size
  <2>1. Cardinality(1..Size) = IF 1 > Size THEN 0 ELSE Size - 1 + 1
    BY FS_Interval
  <2>2. QED
    BY <2>1 DEF Slots
<1> HIDE DEF f, others
<1>10. Cardinality(Slots) <= Cardinality(others)
  BY <1>6, <1>8, FS_Injection
<1>11. QED
  BY <1>7, <1>8, <1>9, <1>10

LEMMA CacheSpriteKeepsIInv ==
  ASSUME IInv, CacheSprite
  PROVE  IInv'
<1>1. PICK top \in Slots :
        /\ IsTop(top)
        /\ cache' = Replaced(top, request)
        /\ intact' = (intact /\ ~cache[top].Sprite)
  BY Zenon DEF CacheSprite
<1>2. TypeOK /\ request \in Keys
  BY DEF CacheSprite, IInv, TypeOK
<1>3. asked' = request /\ request' = NoKey /\ seen' = seen
  BY DEF CacheSprite
<1>4. \A i \in Slots :
        /\ cache'[i].Key = IF i = top THEN request ELSE cache[i].Key
        /\ cache'[i].Sprite = IF i = top THEN TRUE ELSE cache[i].Sprite
  BY <1>1, <1>2, ReplacedFields
<1>5. (\E m \in 0..Size : Filled(m))'
  <2>1. PICK m \in 0..Size : Filled(m)
    BY DEF IInv
  <2>2. QED
    BY <1>1, <1>2, <2>1, ReplacedFilled
<1>6. TypeOK'
  <2>1. \A i \in Slots : cache'[i] \in Slot
    <3> SUFFICES ASSUME NEW i \in Slots PROVE cache'[i] \in Slot
      OBVIOUS
    <3>1. CASE i = top
      <4>1. cache'[i] = [Key |-> request, Sprite |-> TRUE, Position |-> Size - 1]
        BY <1>1, <1>2, <3>1, ReplacedSlots
      <4>2. QED
        BY <1>2, <4>1 DEF Slot
    <3>2. CASE i # top
      <4> DEFINE n == IF cache[i].Position > 0 THEN cache[i].Position - 1 ELSE 0
      <4>1. cache'[i] = [Key |-> cache[i].Key, Sprite |-> cache[i].Sprite,
                         Position |-> n]
        BY <1>1, <1>2, <3>2, ReplacedSlots
      <4>2. /\ cache[i].Key \in Keys \cup {NoKey}
            /\ cache[i].Sprite \in BOOLEAN
            /\ cache[i].Position \in 0..Size
        BY <1>2, TypedSlot
      <4>3. n \in 0..Size
        BY <4>2
      <4> HIDE DEF n
      <4>4. QED
        BY <4>1, <4>2, <4>3 DEF Slot
    <3>3. QED
      BY <3>1, <3>2
  <2>2. cache' \in [Slots -> Slot]
    BY <1>1, <2>1 DEF Replaced
  <2>3. made' \in BOOLEAN
    BY Zenon DEF CacheSprite
  <2>4. intact' \in BOOLEAN
    BY <1>1
  <2>5. QED
    BY <1>2, <1>3, <2>2, <2>3, <2>4 DEF TypeOK
<1>7. KeysOnce'
  BY <1>3, <1>4 DEF IInv, KeysOnce, CacheSprite
<1>8. SpritesMatch'
  BY <1>4 DEF IInv, SpritesMatch, CacheSprite
<1>9. SeenCovers'
  <2>1. request # NoKey
    BY DEF CacheSprite
  <2>2. ~intact' => Cardinality(seen) > Size
    <3>1. ~intact => Cardinality(seen) > Size
      BY DEF IInv, SeenCovers
    <3>2. cache[top].Sprite => Cardinality(seen) > Size
      BY <1>1, <2>1, ReplacedWhenFull
    <3>3. ~intact' => ~intact \/ cache[top].Sprite
      BY <1>1
    <3>4. QED
      BY <3>1, <3>2, <3>3, Zenon
  <2>3. QED
    BY <1>3, <1>4, <2>1, <2>2 DEF IInv, SeenCovers
<1>10. QED
  BY <1>5, <1>6, <1>7, <1>8, <1>9 DEF IInv

LEMMA StutterKeepsIInv ==
  ASSUME IInv, UNCHANGED vars
  PROVE  IInv'
<1>1. UNCHANGED <<cache, request, asked, seen>>
  BY DEF vars
<1>2. made' \in BOOLEAN /\ intact' \in BOOLEAN /\ (intact' <=> intact)
  BY Zenon DEF vars, IInv, TypeOK
<1>3. TypeOK' /\ SpritesMatch' /\ KeysOnce' /\ SeenCovers'
  BY <1>1, <1>2 DEF IInv, TypeOK, SpritesMatch, SeenCovers, KeysOnce
<1>4. (\E m \in 0..Size : Filled(m))'
  BY <1>1 DEF IInv, Filled
<1>5. QED
  BY <1>3, <1>4 DEF IInv

THEOREM Invariance == Spec => []IInv
<1>1. IInv /\ [Next]_vars => IInv'
  <2> SUFFICES ASSUME IInv, [Next]_vars PROVE IInv'
    OBVIOUS
  <2>1. CASE CacheSprite
    BY <2>1, CacheSpriteKeepsIInv
  <2>2. ASSUME NEW k \in Keys, Found(k) PROVE IInv'
    BY <2>2, FoundKeepsIInv
  <2>3. ASSUME NEW k \in Keys, NotFound(k) PROVE IInv'
    BY <2>3, NotFoundKeepsIInv
  <2>4. CASE UNCHANGED vars
    BY <2>4, StutterKeepsIInv
  <2>5. QED
    BY <2>1, <2>2, <2>3, <2>4 DEF Next
<1>2. QED
  BY <1>1, InitIInv, PTL DEF Spec

(* cacheSprite's search for a slot with position 0 ends inside the array,  *)
(* in every cache, full or not.                                            *)
THEOREM SlotAlwaysThere == Spec => []SlotToReplace
<1>1. IInv => SlotToReplace
  <2> SUFFICES ASSUME IInv PROVE SlotToReplace
    OBVIOUS
  <2>1. PICK m \in 0..Size : Filled(m)
    BY DEF IInv
  <2>2. CASE m < Size
    <3>1. m + 1 \in Slots /\ cache[m + 1].Position = 0
      BY <2>1, <2>2 DEF Filled, Slots
    <3>2. QED
      BY <3>1 DEF SlotToReplace
  <2>3. CASE m = Size
    <3>1. 0 \in (Size - m)..(Size - 1)
      BY <2>3
    <3>2. QED
      BY <2>1, <3>1 DEF Filled, SlotToReplace
  <2>4. QED
    BY <2>2, <2>3
<1>2. QED
  BY <1>1, Invariance, PTL

(* The wrong free of cacheSprite is out of reach of a program that asks    *)
(* for no more different sprites than there are slots.                     *)
THEOREM HeapStaysIntact == Spec => []HeapIntact
<1>1. IInv => HeapIntact
  <2> SUFFICES ASSUME IInv, Cardinality(seen) <= Size, ~intact PROVE FALSE
    BY DEF HeapIntact
  <2>1. IsFiniteSet(seen) /\ Cardinality(seen) > Size
    BY DEF IInv, SeenCovers
  <2>2. Cardinality(seen) \in Nat
    BY <2>1, FS_CardinalityType
  <2>3. QED
    BY <2>1, <2>2
<1>2. QED
  BY <1>1, Invariance, PTL

-----------------------------------------------------------------------------
(* The refinement: the slots in the order of their positions are the queue *)
(* of an Lru cache.                                                        *)

LEMMA SlotAtIs ==
  ASSUME NEW m \in 0..Size, Filled(m), NEW s \in Slots, s <= m
  PROVE  SlotAt(cache[s].Position) = s
<1>1. InUse = m
  BY InUseIsFilled
<1>2. s \in 1..m /\ \A i \in 1..m : cache[i].Position = cache[s].Position => i = s
  BY DEF Filled, Slots
<1>3. QED
  BY <1>1, <1>2 DEF SlotAt

LEMMA SlotAtIsNext ==
  ASSUME NEW m \in 0..Size, Filled(m)', NEW s \in Slots, s <= m,
         NEW p, p = cache'[s].Position
  PROVE  SlotAt(p)' = s
<1>1. InUse' = m
  BY InUseIsFilledNext
<1>2. s \in 1..m /\ \A i \in 1..m : cache'[i].Position = p <=> i = s
  BY DEF Filled, Slots
<1>3. QED
  BY <1>1, <1>2 DEF SlotAt

(* The j-th key of the queue is that of the slot at Size - j.              *)
LEMMA QueueIs ==
  ASSUME NEW m \in 0..Size, Filled(m)
  PROVE  /\ QueueOfKeys = [j \in 1..m |-> QueueOfKeys[j]]
         /\ Len(QueueOfKeys) = m
         /\ \A s \in Slots : s <= m =>
              /\ Size - cache[s].Position \in 1..m
              /\ QueueOfKeys[Size - cache[s].Position] = cache[s].Key
<1>1. InUse = m
  BY InUseIsFilled
<1>2. QueueOfKeys = [j \in 1..m |-> cache[SlotAt(Size - j)].Key]
  BY <1>1 DEF QueueOfKeys
<1>3. Len(QueueOfKeys) = m
  BY <1>2
<1>4. ASSUME NEW s \in Slots, s <= m
      PROVE  /\ Size - cache[s].Position \in 1..m
             /\ QueueOfKeys[Size - cache[s].Position] = cache[s].Key
  <2>1. cache[s].Position \in (Size - m)..(Size - 1)
    BY <1>4 DEF Filled
  <2>2. Size - cache[s].Position \in 1..m
        /\ Size - (Size - cache[s].Position) = cache[s].Position
    BY <2>1
  <2>3. SlotAt(cache[s].Position) = s
    BY <1>4, SlotAtIs
  <2>4. QED
    BY <1>2, <2>2, <2>3
<1>5. QED
  BY <1>2, <1>3, <1>4

LEMMA QueueIsNext ==
  ASSUME NEW m \in 0..Size, Filled(m)'
  PROVE  /\ QueueOfKeys' = [j \in 1..m |-> QueueOfKeys'[j]]
         /\ Len(QueueOfKeys)' = m
         /\ \A s \in Slots : s <= m =>
              /\ Size - cache'[s].Position \in 1..m
              /\ QueueOfKeys'[Size - cache'[s].Position] = cache'[s].Key
<1>1. InUse' = m
  BY InUseIsFilledNext
<1>2. QueueOfKeys' = [j \in 1..m |-> cache'[SlotAt(Size - j)'].Key]
  BY <1>1 DEF QueueOfKeys
<1>3. Len(QueueOfKeys)' = m
  BY <1>2
<1>4. ASSUME NEW s \in Slots, s <= m
      PROVE  /\ Size - cache'[s].Position \in 1..m
             /\ QueueOfKeys'[Size - cache'[s].Position] = cache'[s].Key
  <2>1. cache'[s].Position \in (Size - m)..(Size - 1)
    BY <1>4 DEF Filled
  <2>2. PICK j \in 1..m : j = Size - cache'[s].Position
    BY <2>1
  <2>3. Size - j = cache'[s].Position
    BY <2>1, <2>2
  <2>4. SlotAt(Size - j)' = s
    BY <1>4, <2>3, SlotAtIsNext
  <2>5. QueueOfKeys'[j] = cache'[s].Key
    BY <1>2, <2>4
  <2>6. QED
    BY <2>2, <2>5
<1>5. QED
  BY <1>2, <1>3, <1>4

LEMMA FoundIsHit ==
  ASSUME IInv, NEW k \in Keys, Found(k)
  PROVE  Cached!Hit(k)
<1>1. PICK s \in Slots : cache[s].Key = k
  BY DEF Found, Matches
<1>2. PICK m \in 0..Size : Filled(m)
  BY DEF IInv
<1>3. Filled(m)'
  BY <1>2, FoundKeepsIInv
<1>4. s <= m
  BY <1>1, <1>2 DEF Filled
<1> DEFINE p(i) == cache[i].Position
           new(i) == cache'[i].Position
           j == Size - p(s)
<1>5. /\ Len(QueueOfKeys) = m
      /\ \A i \in Slots : i <= m => /\ Size - p(i) \in 1..m
                                   /\ QueueOfKeys[Size - p(i)] = cache[i].Key
  BY <1>2, QueueIs
<1>6. /\ QueueOfKeys' = [i \in 1..m |-> QueueOfKeys'[i]]
      /\ \A i \in Slots : i <= m =>
           /\ Size - new(i) \in 1..m
           /\ QueueOfKeys'[Size - new(i)] = cache'[i].Key
  BY <1>3, QueueIsNext
<1>7. j \in 1..m /\ QueueOfKeys[j] = k
  BY <1>1, <1>4, <1>5
<1>8. \A i \in Slots : cache'[i] = [Key |-> cache[i].Key, Sprite |-> cache[i].Sprite,
                                   Position |-> new(i)]
  BY <1>1, FoundPositions
<1>9. \A i \in Slots : cache'[i].Key = cache[i].Key
  <2> SUFFICES ASSUME NEW i \in Slots PROVE cache'[i].Key = cache[i].Key
    OBVIOUS
  <2> HIDE DEF new
  <2>1. cache'[i] = [Key |-> cache[i].Key, Sprite |-> cache[i].Sprite,
                     Position |-> new(i)]
    BY <1>8
  <2>2. QED
    BY <2>1
<1>10. \A i \in Slots : new(i) = IF i = s THEN Size - 1
                                  ELSE IF p(i) > p(s) THEN p(i) - 1 ELSE p(i)
  BY <1>1, FoundPositions
<1>11. ASSUME NEW i \in 1..m
       PROVE  QueueOfKeys'[i] =
                IF i = 1 THEN k
                ELSE IF i <= j THEN QueueOfKeys[i - 1] ELSE QueueOfKeys[i]
  <2>1. Size - i \in (Size - m)..(Size - 1)
    OBVIOUS
  <2>2. PICK t \in Slots : t <= m /\ new(t) = Size - i
    BY <1>3, <2>1 DEF Filled
  <2>3. QueueOfKeys'[i] = cache[t].Key
    <3>1. Size - new(t) = i
      BY <2>2
    <3>2. QED
      BY <1>6, <1>9, <2>2, <3>1
  <2>4. p(t) \in (Size - m)..(Size - 1) /\ p(s) \in (Size - m)..(Size - 1)
        /\ (p(t) = p(s) => t = s)
    BY <1>2, <1>4, <2>2 DEF Filled
  <2>5. CASE t = s
    <3>1. i = 1
      BY <1>10, <2>2, <2>5
    <3>2. QED
      BY <1>1, <2>3, <2>5, <3>1
  <2>6. CASE t # s /\ p(t) > p(s)
    <3>1. p(t) - 1 = Size - i
      BY <1>10, <2>2, <2>6
    <3>2. p(t) \in Int /\ p(s) \in Int /\ Size \in Int /\ p(t) <= Size - 1
      BY <2>4, SizeAssumption
    <3>3. Size - p(t) = i - 1 /\ i <= j /\ i # 1
      <4> HIDE DEF p, new
      <4> QED
        BY <2>6, <3>1, <3>2
    <3>4. QED
      BY <1>5, <2>2, <2>3, <3>3
  <2>7. CASE t # s /\ p(t) < p(s)
    <3>1. Size - p(t) = i /\ ~(i <= j) /\ i # 1
      BY <1>10, <2>2, <2>4, <2>7
    <3>2. QED
      BY <1>5, <2>2, <2>3, <3>1
  <2>8. QED
    BY <2>4, <2>5, <2>6, <2>7
<1>12. QueueOfKeys' = [i \in 1..m |->
                         IF i = 1 THEN k
                         ELSE IF i <= j THEN QueueOfKeys[i - 1]
                         ELSE QueueOfKeys[i]]
  BY <1>6, <1>11
<1>13. LastAnswer' = <<k, FALSE>>
  BY DEF Found, LastAnswer
<1> HIDE DEF j
<1>14. QED
  BY <1>5, <1>7, <1>12, <1>13 DEF Cached!Hit

LEMMA CacheSpriteIsMiss ==
  ASSUME IInv, CacheSprite
  PROVE  Cached!Miss(request)
<1>1. PICK top \in Slots : IsTop(top) /\ cache' = Replaced(top, request)
  BY DEF CacheSprite
<1>2. TypeOK /\ request \in Keys
  BY DEF CacheSprite, IInv, TypeOK
<1>3. PICK m \in 0..Size : Filled(m)
  BY DEF IInv
<1> DEFINE n == IF m = Size THEN Size ELSE m + 1
           p(i) == cache[i].Position
           new(i) == cache'[i].Position
<1>4. n \in 0..Size /\ Filled(n)'
  <2>1. n = IF m < Size THEN m + 1 ELSE m
    OBVIOUS
  <2>2. QED
    BY <1>1, <1>2, <1>3, <2>1, ReplacedFilled
<1>5. IF m < Size THEN top = m + 1 ELSE top <= m
  BY <1>1, <1>2, <1>3, TopSlot
<1>6. /\ Len(QueueOfKeys) = m
      /\ \A i \in Slots : i <= m => /\ Size - p(i) \in 1..m
                                   /\ QueueOfKeys[Size - p(i)] = cache[i].Key
  BY <1>3, QueueIs
<1>7. /\ QueueOfKeys' = [i \in 1..n |-> QueueOfKeys'[i]]
      /\ \A i \in Slots : i <= n =>
           /\ Size - new(i) \in 1..n
           /\ QueueOfKeys'[Size - new(i)] = cache'[i].Key
  BY <1>4, QueueIsNext
<1>8. \A i \in Slots :
        /\ cache'[i].Key = IF i = top THEN request ELSE cache[i].Key
        /\ new(i) = IF i = top THEN Size - 1
                    ELSE IF p(i) > 0 THEN p(i) - 1 ELSE 0
  BY <1>1, <1>2, ReplacedFields
<1>9. \A j \in 1..m : QueueOfKeys[j] # request
  <2> SUFFICES ASSUME NEW j \in 1..m PROVE QueueOfKeys[j] # request
    OBVIOUS
  <2>1. Size - j \in (Size - m)..(Size - 1)
    OBVIOUS
  <2>2. PICK t \in Slots : t <= m /\ p(t) = Size - j
    BY <1>3, <2>1 DEF Filled
  <2>3. Size - p(t) = j
    BY <2>2
  <2>4. cache[t].Key # request
    BY DEF IInv, KeysOnce, CacheSprite
  <2>5. QED
    BY <1>6, <2>2, <2>3, <2>4
<1>10. ASSUME NEW i \in 1..n
       PROVE  QueueOfKeys'[i] = IF i = 1 THEN request ELSE QueueOfKeys[i - 1]
  <2>1. Size - i \in (Size - n)..(Size - 1)
    BY <1>4
  <2>2. PICK t \in Slots : t <= n /\ new(t) = Size - i
    BY <1>4, <2>1 DEF Filled
  <2>3. Size - new(t) = i
    BY <2>2
  <2>4. QueueOfKeys'[i] = cache'[t].Key
    BY <1>7, <2>2, <2>3
  <2>5. CASE t = top
    <3>1. i = 1
      BY <1>8, <2>2, <2>5
    <3>2. QED
      BY <1>8, <2>4, <2>5, <3>1
  <2>6. CASE t # top
    <3>1. t <= m
      BY <1>5, <2>2, <2>6 DEF Slots
    <3>2. p(t) \in (Size - m)..(Size - 1)
      BY <1>3, <3>1 DEF Filled
    <3>3. p(t) > 0
      <4>1. CASE m < Size
        BY <3>2, <4>1
      <4>2. CASE m = Size
        <5>1. p(top) = 0 /\ top <= m
          BY <1>1, <1>5, <4>2 DEF IsTop
        <5>2. p(t) # p(top)
          BY <1>3, <2>6, <3>1, <5>1 DEF Filled
        <5>3. QED
          BY <3>2, <4>2, <5>1, <5>2
      <4>3. QED
        BY <4>1, <4>2
    <3>4. Size - p(t) = i - 1 /\ i # 1
      BY <1>8, <2>2, <2>6, <3>2, <3>3
    <3>5. QED
      BY <1>6, <1>8, <2>4, <2>6, <3>1, <3>4
  <2>7. QED
    BY <2>5, <2>6
<1>11. QueueOfKeys' = [i \in 1..n |-> IF i = 1 THEN request
                                      ELSE QueueOfKeys[i - 1]]
  BY <1>7, <1>10
<1>12. LastAnswer' = <<request, TRUE>>
  BY <1>2 DEF CacheSprite, LastAnswer
<1>13. QED
  BY <1>6, <1>9, <1>11, <1>12 DEF Cached!Miss

(* transformSprite keeps the sprites most recently used, as many as there  *)
(* are slots, and makes a sprite anew exactly if it is not among them.     *)
THEOREM Refinement == Spec => KeepsMostRecent
<1>1. Init => Cached!Init
  <2> SUFFICES ASSUME Init PROVE Cached!Init
    OBVIOUS
  <2>1. 0 \in 0..Size /\ Filled(0)
    BY DEF Init, Filled, Slots
  <2>2. QueueOfKeys = <<>>
    <3>1. Len(QueueOfKeys) = 0 /\ InUse = 0
      BY <2>1, QueueIs, InUseIsFilled
    <3>2. QED
      BY <3>1 DEF QueueOfKeys
  <2>3. QED
    BY <2>2 DEF Cached!Init, Cached!NoAnswer, LastAnswer, Init
<1>2. IInv /\ [Next]_vars => [Cached!Next]_(Cached!vars)
  <2> SUFFICES ASSUME IInv, [Next]_vars PROVE [Cached!Next]_(Cached!vars)
    OBVIOUS
  <2>1. CASE CacheSprite
    <3>1. request \in Keys
      BY <2>1 DEF CacheSprite, IInv, TypeOK
    <3>2. QED
      BY <2>1, <3>1, CacheSpriteIsMiss DEF Cached!Next
  <2>2. ASSUME NEW k \in Keys, Found(k) PROVE Cached!Next
    BY <2>2, FoundIsHit DEF Cached!Next
  <2>3. ASSUME cache' = cache, asked' = asked, made' = made
        PROVE  UNCHANGED Cached!vars
    BY <2>3 DEF Cached!vars, QueueOfKeys, InUse, SlotAt, LastAnswer
  <2>4. ASSUME NEW k \in Keys, NotFound(k) PROVE UNCHANGED Cached!vars
    BY <2>3, <2>4 DEF NotFound
  <2>5. CASE UNCHANGED vars
    BY <2>3, <2>5 DEF vars
  <2>6. QED
    BY <2>1, <2>2, <2>4, <2>5 DEF Next
<1>3. QED
  BY <1>1, <1>2, Invariance, PTL DEF Spec, KeepsMostRecent, Cached!Spec

-----------------------------------------------------------------------------
(***************************************************************************)
(* The handshake of CPU and RSP.  Its inductive invariant says how far the *)
(* newest data have come: from the cache to memory while the CPU is in     *)
(* ppuStep, from memory to the RSP while that is in its loop.              *)
(***************************************************************************)
InPpuStep == {"OAM", "HRAM", "VRAM", "announce"}

(* What the CPU has written back so far.                                   *)
WrittenBack ==
  /\ written <= cached["VRAM"]
  /\ ~isVramDirty => written <= memory["VRAM"]
  /\ cpu \in InPpuStep => CurrentLine(cached["HRAM"]) < Height
  /\ cpu \in {"HRAM", "VRAM", "announce"} => memory["OAM"] = cached["OAM"]
  /\ cpu \in {"VRAM", "announce"} => memory["HRAM"] = cached["HRAM"]
  /\ cpu = "announce" => ~isVramDirty

(* What was announced, or claimed, is in memory.                           *)
InMemory == \A r \in Regions : announced[r] <= memory[r] /\ claimed[r] <= memory[r]

(* What the RSP has copied so far for the line it claimed, unless it was   *)
(* reloaded since, and that what it claimed is the last that was announced *)
(* while the flag stays down.                                              *)
Copied ==
  /\ cpu # "restart" =>
       /\ rsp \in {"background", "sprites", "draw", "lift"} =>
            claimed["HRAM"] <= line["HRAM"]
       /\ rsp \in {"sprites", "draw"} => claimed["VRAM"] <= line["VRAM"]
       /\ rsp = "draw" => claimed["OAM"] <= line["OAM"]
  /\ rsp \in {"settings", "background", "sprites", "draw", "lift"} /\ ~ready =>
       announced["HRAM"] <= claimed["HRAM"]

HandshakeInv ==
  /\ PictureTypeOK /\ NoAnnouncementLost
  /\ WrittenBack /\ InMemory /\ Copied

-----------------------------------------------------------------------------
(* Line 0 is a line of the screen.                                         *)
LEMMA FirstLine == CurrentLine(0) < Height
  BY LinesAssumption, SMT DEF CurrentLine

LEMMA LineNumber ==
  ASSUME NEW n \in Nat PROVE CurrentLine(n) \in Nat
  BY LinesAssumption, SMT DEF CurrentLine

(* A game is started with nothing announced and nothing drawn.             *)
LEMMA HandshakeInit == PictureInit => HandshakeInv
  <1> SUFFICES ASSUME PictureInit PROVE HandshakeInv
    OBVIOUS
  <1>1. PictureTypeOK
    <2>1. isVramDirty \in BOOLEAN /\ ready \in BOOLEAN /\ busy \in BOOLEAN
      BY Zenon DEF PictureInit
    <2>2. Nothing \in Versions /\ \A r \in Regions : Nothing[r] = 0
      BY DEF Nothing, Versions
    <2>3. /\ cached \in Versions /\ cached["VRAM"] = 1
          /\ \A r \in Regions \ {"VRAM"} : cached[r] = 0
      BY <2>2 DEF PictureInit, Versions, Regions
    <2>4. CurrentLine(announced["HRAM"]) < Height
      BY <2>2, FirstLine DEF PictureInit, Regions
    <2> QED BY <2>1, <2>2, <2>3, <2>4 DEF PictureInit, PictureTypeOK, Regions
  <1>2. WrittenBack /\ InMemory /\ Copied /\ NoAnnouncementLost
    BY DEF PictureInit, WrittenBack, InMemory, Copied, NoAnnouncementLost, Nothing,
           Regions, InPpuStep
  <1> QED BY <1>1, <1>2 DEF HandshakeInv

(* Every step of the CPU keeps the invariant.                              *)
LEMMA CpuStepInv == HandshakeInv /\ CpuStep => HandshakeInv'
  <1> SUFFICES ASSUME HandshakeInv, CpuStep PROVE HandshakeInv'
    OBVIOUS
  <1> USE DEF HandshakeInv, PictureTypeOK, WrittenBack, InMemory, Copied, NoAnnouncementLost,
              Versions, Regions, InPpuStep, rspVars
  <1>1. ASSUME NEW r \in {"OAM", "VRAM"}, GameWrites(r) PROVE HandshakeInv'
    <2>1. isVramDirty' \in BOOLEAN /\ ready' \in BOOLEAN /\ busy' \in BOOLEAN
      BY <1>1, Zenon DEF GameWrites
    <2>6. isVramDirty \/ r = "VRAM" => isVramDirty'
      BY <1>1, Zenon DEF GameWrites
    <2>7. /\ cached["HRAM"]' = cached["HRAM"]
          /\ IF r = "VRAM" THEN written' = cached["VRAM"]'
                           ELSE written' = written /\ cached["VRAM"]' = cached["VRAM"]
      BY <1>1 DEF GameWrites
    <2>8. cpu \notin InPpuStep /\ cpu' = cpu /\ memory' = memory
      BY <1>1 DEF GameWrites
    <2>9. ~isVramDirty' => written' <= memory["VRAM"]'
      <3> SUFFICES ASSUME ~isVramDirty' PROVE written' <= memory["VRAM"]'
        OBVIOUS
      <3>1. ~isVramDirty /\ r # "VRAM"
        BY <2>6, Zenon
      <3>2. written <= memory["VRAM"]
        BY <3>1, Zenon
      <3> QED BY <3>1, <3>2, <2>7, <2>8
    <2>10. written' <= cached["VRAM"]'
      <3>1. cached' \in [Regions -> Nat]
        BY <1>1 DEF GameWrites
      <3>2. written <= cached["VRAM"] /\ cached["VRAM"] \in Nat
        OBVIOUS
      <3>3. cached["VRAM"]' <= cached["VRAM"]'
        BY <3>1
      <3> QED BY <3>2, <3>3, <2>7
    <2>2. WrittenBack' /\ InMemory'
      BY <1>1, <2>8, <2>9, <2>10 DEF GameWrites
    <2>3. Copied' /\ NoAnnouncementLost'
      BY <1>1 DEF GameWrites
    <2>4. PictureTypeOK'
      BY <1>1, <2>1 DEF GameWrites
    <2> QED BY <2>2, <2>3, <2>4
  <1>2. CASE NextLine
    BY <1>2 DEF NextLine
  <1>3. CASE PpuStep
    <2>1. isVramDirty' \in BOOLEAN /\ ready' \in BOOLEAN /\ busy' \in BOOLEAN
      BY <1>3, Zenon DEF PpuStep
    <2>5. CurrentLine(cached["HRAM"]) \in Nat /\ CurrentLine(cached["HRAM"])' =
                                                  CurrentLine(cached'["HRAM"])
      BY LineNumber
    <2>6. cpu' \in InPpuStep => CurrentLine(cached["HRAM"]) < Height
      <3> DEFINE n == CurrentLine(cached["HRAM"])
      <3>1. n \in Nat /\ Height \in Nat
        BY <2>5, LinesAssumption
      <3>2. cpu' = IF n >= Height THEN "hblank" ELSE "OAM"
        BY <1>3 DEF PpuStep
      <3> HIDE DEF n
      <3>3. cpu' \in InPpuStep => n < Height
        BY <3>1, <3>2
      <3> QED BY <3>3 DEF n
    <2>7. cpu' \in {"hblank", "OAM"}
      BY <1>3 DEF PpuStep
    <2>2. WrittenBack' /\ InMemory'
      BY <1>3, <2>5, <2>6, <2>7 DEF PpuStep
    <2>3. Copied' /\ NoAnnouncementLost'
      BY <1>3 DEF PpuStep
    <2>4. PictureTypeOK'
      BY <1>3, <2>1 DEF PpuStep
    <2> QED BY <2>2, <2>3, <2>4
  <1>4. CASE Writeback("OAM", "HRAM")
    BY <1>4 DEF Writeback
  <1>5. CASE Writeback("HRAM", "VRAM")
    BY <1>5 DEF Writeback
  <1>6. CASE WritebackVram
    <2>1. isVramDirty' \in BOOLEAN /\ ready' \in BOOLEAN /\ busy' \in BOOLEAN
      BY <1>6, Zenon DEF WritebackVram
    <2>2. WrittenBack' /\ InMemory'
      BY <1>6 DEF WritebackVram
    <2>3. Copied' /\ NoAnnouncementLost'
      BY <1>6 DEF WritebackVram
    <2>4. PictureTypeOK'
      BY <1>6, <2>1 DEF WritebackVram
    <2> QED BY <2>2, <2>3, <2>4
  <1>7. CASE SetDataReady
    BY <1>7 DEF SetDataReady
  <1>8. CASE ResetPlayState
    BY <1>8, LinesAssumption DEF ResetPlayState
  <1>9. CASE PrepareMicrocode
    <2>1. isVramDirty' \in BOOLEAN /\ ready' \in BOOLEAN /\ busy' \in BOOLEAN
      BY <1>9, Zenon DEF PrepareMicrocode
    <2>2. WrittenBack' /\ InMemory'
      BY <1>9 DEF PrepareMicrocode
    <2>3. Copied' /\ NoAnnouncementLost'
      BY <1>9 DEF PrepareMicrocode
    <2>4. PictureTypeOK'
      <3>1. line' \in [Regions -> Nat] /\ \A r \in Regions : line'[r] = 0
        BY <1>9 DEF PrepareMicrocode, Nothing
      <3> QED BY <1>9, <2>1, <3>1 DEF PrepareMicrocode
    <2> QED BY <2>2, <2>3, <2>4
  <1>10. CASE RunUcode
    <2>1. isVramDirty' \in BOOLEAN /\ ready' \in BOOLEAN /\ busy' \in BOOLEAN
      BY <1>10, Zenon DEF RunUcode
    <2>2. WrittenBack' /\ InMemory'
      BY <1>10 DEF RunUcode, Nothing
    <2>3. Copied' /\ NoAnnouncementLost'
      BY <1>10 DEF RunUcode, Nothing
    <2>4. PictureTypeOK'
      BY <1>10, <2>1, FirstLine DEF RunUcode, Nothing
    <2> QED BY <2>2, <2>3, <2>4
  <1> QED
    BY <1>1, <1>2, <1>3, <1>4, <1>5, <1>6, <1>7, <1>8, <1>9, <1>10 DEF CpuStep

(* Every step of the RSP keeps the invariant.                              *)
LEMMA RspStepInv == HandshakeInv /\ RspStep => HandshakeInv'
  <1> SUFFICES ASSUME HandshakeInv, RspStep PROVE HandshakeInv'
    OBVIOUS
  <1> USE DEF HandshakeInv, PictureTypeOK, WrittenBack, InMemory, Copied, NoAnnouncementLost,
              Versions, Regions, InPpuStep, cpuVars
  <1>1. CASE Poll
    BY <1>1 DEF Poll
  <1>2. CASE Claim
    <2>1. isVramDirty' \in BOOLEAN /\ ready' \in BOOLEAN /\ busy' \in BOOLEAN
      BY <1>2, Zenon DEF Claim
    <2>2. WrittenBack' /\ InMemory'
      BY <1>2 DEF Claim
    <2>3. Copied' /\ NoAnnouncementLost'
      BY <1>2 DEF Claim
    <2>4. PictureTypeOK'
      BY <1>2, <2>1 DEF Claim
    <2> QED BY <2>2, <2>3, <2>4
  <1>3. CASE LoadSettings
    BY <1>3 DEF LoadSettings, DmaIn
  <1>4. CASE ProcessBackground
    BY <1>4 DEF ProcessBackground, DmaIn
  <1>5. CASE ProcessSprites
    BY <1>5 DEF ProcessSprites, DmaIn
  <1>6. CASE DrawLine
    BY <1>6 DEF DrawLine
  <1>7. CASE MainContinue
    <2>1. isVramDirty' \in BOOLEAN /\ ready' \in BOOLEAN /\ busy' \in BOOLEAN
      BY <1>7, Zenon DEF MainContinue
    <2>2. WrittenBack' /\ InMemory'
      BY <1>7 DEF MainContinue
    <2>3. Copied' /\ NoAnnouncementLost'
      BY <1>7 DEF MainContinue
    <2>4. PictureTypeOK'
      BY <1>7, <2>1 DEF MainContinue
    <2> QED BY <2>2, <2>3, <2>4
  <1> QED
    BY <1>1, <1>2, <1>3, <1>4, <1>5, <1>6, <1>7 DEF RspStep

(* So does the cache when it writes back on its own account.               *)
LEMMA EvictInv == ASSUME HandshakeInv, NEW r \in Regions, Evict(r) PROVE HandshakeInv'
  BY DEF HandshakeInv, PictureTypeOK, WrittenBack, InMemory, Copied, NoAnnouncementLost,
         Versions, Regions, InPpuStep, cpuVars, rspVars, Evict

LEMMA HandshakeStutter == ASSUME HandshakeInv, UNCHANGED pictureVars PROVE HandshakeInv'
  BY DEF HandshakeInv, PictureTypeOK, WrittenBack, InMemory, Copied, NoAnnouncementLost,
         pictureVars, cpuVars, rspVars

-----------------------------------------------------------------------------
(* The invariant holds of every state.                                     *)
THEOREM HandshakeInvariance == PictureSpec => []HandshakeInv
  <1>1. HandshakeInv /\ [PictureNext]_pictureVars => HandshakeInv'
    BY CpuStepInv, RspStepInv, EvictInv, HandshakeStutter DEF PictureNext
  <1> QED BY <1>1, HandshakeInit, PTL DEF PictureSpec

(* Only lines of the screen are announced to the RSP, and no copy of a     *)
(* region is ahead of what it was copied from.                             *)
THEOREM HandshakeTypes == PictureSpec => []PictureTypeOK
  <1>1. HandshakeInv => PictureTypeOK
    BY DEF HandshakeInv
  <1> QED BY <1>1, HandshakeInvariance, PTL

(* An RSP that waits with the flag down has drawn the line announced last, *)
(* or a newer one, however the two processors are interleaved and with the *)
(* lock or without it, unless a reset has just reloaded it.                *)
THEOREM NoneLost == PictureSpec => []NoAnnouncementLost
  <1>1. HandshakeInv => NoAnnouncementLost
    BY DEF HandshakeInv
  <1> QED BY <1>1, HandshakeInvariance, PTL

(* No line is drawn from data older than the game had written them when    *)
(* the line was announced, but the one in flight when a reset reloads the  *)
(* RSP.                                                                    *)
THEOREM NothingStale == PictureSpec => []NeverStale
  <1>1. HandshakeInv => NeverStale
    BY DEF HandshakeInv, Copied, NeverStale, Regions
  <1> QED BY <1>1, HandshakeInvariance, PTL
=============================================================================
