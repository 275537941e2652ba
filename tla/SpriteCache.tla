---------------------------- MODULE SpriteCache ----------------------------
(***************************************************************************)
(* The cache of transformed sprites of resources.c, from which text.c gets *)
(* the faded characters and turned icons it draws.  A slot's Position is 0 *)
(* if the slot is empty or next to be replaced, and the higher the more    *)
(* recently its sprite was used.                                           *)
(*                                                                         *)
(* A key stands for a sheet, a code and a transformation, never 0: text.c  *)
(* draws straight from the sheet what needs none.  What transformSprite    *)
(* computes is not modelled, nor what memory holds: of a sprite only       *)
(* whether there is one, and of the heap only whether every address that   *)
(* was freed had been allocated.                                           *)
(***************************************************************************)
EXTENDS Integers, Sequences, FiniteSets

CONSTANTS
  Keys,       (* What may be asked for. *)
  NoKey,      (* The zeros every slot's key starts with. *)
  Size        (* TRANSFORM_CACHE_SIZE *)

(* Positions are counted in an sByte, which must hold Size.                *)
ASSUME SizeAssumption == Size \in 1..127
ASSUME KeysAssumption == NoKey \notin Keys

VARIABLES
  cache,    (* _transformCache; Sprite: whether it is not null *)
  request,  (* the key transformSprite is making a sprite for, or NoKey *)
  made,     (* whether the last answer had to be made *)
  asked,    (* the key last asked for *)
  seen,     (* the keys asked for so far *)
  intact    (* whether everything freed was an allocation *)

vars == <<cache, request, made, asked, seen, intact>>

Slots == 1..Size
Slot == [Key : Keys \cup {NoKey}, Sprite : BOOLEAN, Position : 0..Size]

Init ==
  /\ cache = [i \in Slots |-> [Key |-> NoKey, Sprite |-> FALSE, Position |-> 0]]
  /\ request = NoKey
  /\ made = FALSE
  /\ asked = NoKey
  /\ seen = {}
  /\ intact = TRUE

Matches(k) == {i \in Slots : cache[i].Key = k}

(* The loop of getFromCache keeps what it found last.                      *)
LastMatch(k) ==
  CHOOSE i \in Matches(k) : \A j \in Matches(k) : j <= i

(* Mutants: a sprite that is found stays where it was; everything is       *)
(* pushed down, not only what was behind it.                               *)
RequeuedNot(k) == cache
RequeuedAll(k) ==
  LET raised(i) == IF cache[i].Key = k THEN Size ELSE cache[i].Position
  IN  [i \in Slots |->
         [cache[i] EXCEPT !.Position =
            IF raised(i) > 0 THEN raised(i) - 1 ELSE raised(i)]]

(* "Put it back on the end of the queue, and push everything that was      *)
(* behind it down one": matching slots stand at Size when that is done.    *)
Requeued(k) ==
  LET raised(i) == IF cache[i].Key = k THEN Size ELSE cache[i].Position
      old == cache[LastMatch(k)].Position
  IN  [i \in Slots |->
         [cache[i] EXCEPT !.Position =
            IF raised(i) > old THEN raised(i) - 1 ELSE raised(i)]]

(* getFromCache, when it finds a sprite, and when there is no such key.  A *)
(* key without a sprite is in the cache only after emptyResourceCache,     *)
(* which main calls behind its endless loop.                               *)
Found(k) ==
  /\ request = NoKey
  /\ Matches(k) # {}
  /\ cache[LastMatch(k)].Sprite
  /\ cache' = Requeued(k)
  /\ asked' = k /\ made' = FALSE
  /\ seen' = seen \cup {k}
  /\ UNCHANGED <<request, intact>>

NotFound(k) ==
  /\ request = NoKey
  /\ Matches(k) = {}
  /\ request' = k
  /\ seen' = seen \cup {k}
  /\ UNCHANGED <<cache, made, asked, intact>>

(* The first slot with position 0; the code's loop has no other end.       *)
IsTop(i) ==
  /\ cache[i].Position = 0
  /\ \A j \in 1..(i - 1) : cache[j].Position # 0

Shifted(p) == IF p > 0 THEN p - 1 ELSE 0

(* The slot is given to the new sprite, at Size, and "everything is        *)
(* shifted down by 1".                                                     *)
Replaced(top, k) ==
  [i \in Slots |->
     IF i = top
       THEN [Key |-> k, Sprite |-> TRUE, Position |-> Size - 1]
       ELSE [cache[i] EXCEPT !.Position = Shifted(cache[i].Position)]]

(* The end of transformSprite and cacheSprite.  "If the cache is full,     *)
(* free up some memory": the data of the sprite in the slot is freed first,*)
(* which calloc never returned: it is the end of the sprite's own block.   *)
CacheSprite ==
  /\ request # NoKey
  /\ \E top \in Slots :
       /\ IsTop(top)
       /\ cache' = Replaced(top, request)
       /\ intact' = (intact /\ ~cache[top].Sprite)
  /\ asked' = request
  /\ made' = TRUE
  /\ request' = NoKey
  /\ UNCHANGED seen

Next == CacheSprite \/ \E k \in Keys : Found(k) \/ NotFound(k)

Spec == Init /\ [][Next]_vars

-----------------------------------------------------------------------------
(* Types; a position never reaches Size once a call is over.               *)
TypeOK ==
  /\ cache \in [Slots -> Slot]
  /\ request \in Keys \cup {NoKey}
  /\ made \in BOOLEAN
  /\ asked \in Keys \cup {NoKey}
  /\ seen \subseteq Keys
  /\ intact \in BOOLEAN

(* The wrong free is never reached by a program that asks for no more      *)
(* different sprites than there are slots, however often and in whatever   *)
(* order it asks: no sprite is replaced while a slot is still empty.       *)
HeapIntact == Cardinality(seen) <= Size => intact

(* cacheSprite looks for a slot with position 0 without looking where the  *)
(* array ends: there is always one.                                        *)
SlotToReplace == \E i \in Slots : cache[i].Position = 0

-----------------------------------------------------------------------------
(* The slots are filled from the first: how many are in use, and in which  *)
(* of them the sprite with a given position is.                            *)
InUse == CHOOSE m \in 0..Size :
           \A i \in Slots : cache[i].Key # NoKey <=> i <= m
SlotAt(p) == CHOOSE i \in 1..InUse : cache[i].Position = p

QueueOfKeys == [j \in 1..InUse |-> cache[SlotAt(Size - j)].Key]
LastAnswer == IF asked = NoKey THEN <<>> ELSE <<asked, made>>

(* The cache is one of Size keys that keeps the most recently used.        *)
Cached == INSTANCE Lru WITH queue <- QueueOfKeys, answer <- LastAnswer
KeepsMostRecent == Cached!Spec
=============================================================================
