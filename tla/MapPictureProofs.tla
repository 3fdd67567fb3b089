--------------------------- MODULE MapPictureProofs ---------------------------
(***************************************************************************)
(* The record of the map is true and its picture is sound, for a world of  *)
(* any shape, maps of any odd size, whatever is out of sight, and any      *)
(* number of walks, pages loaded again and saves that fail.                *)
(*                                                                         *)
(* The record in memory is what was seen, but for what was lost; the copy  *)
(* on the disk is the record, but for what no save has reached             *)
(* (RecordInv).  Both are needed: the page that is loaded again reads the  *)
(* disk, and a save that changes nothing is not made.                      *)
(*                                                                         *)
(* The picture is sound: what is drawn are cells of maps that came, whole  *)
(* squares, with characters of the protocol (CellsInv, LiveInv), and each  *)
(* image that the map wants has come, has failed or is under way           *)
(* (ImagesInv).                                                            *)
(***************************************************************************)
EXTENDS MapPicture, TLAPS

(* f and g are the same but for X. *)
Agree(f, g, X) ==
    \A p : p \notin X => /\ p \in DOMAIN f <=> p \in DOMAIN g
                         /\ p \in DOMAIN f => f[p] = g[p]

RecordInv ==
    IF tiles = <<>> THEN excuse.unsaved = {} /\ Agree(disk, seen, excuse.lost)
    ELSE Agree(tiles[1], seen, excuse.lost) /\ Agree(tiles[1], disk, excuse.unsaved)
-----------------------------------------------------------------------------
(* The cells of a square, line by line. *)
LEMMA SquareIsNat == ASSUME NEW n \in Nat PROVE n * n \in Nat
  OBVIOUS

LEMMA CellPlaces ==
    ASSUME NEW n \in Nat, n >= 1, NEW i \in 0..n * n - 1
    PROVE  i % n \in 0..n - 1 /\ i \div n \in 0..n - 1
<1>1. i \in Nat /\ i < n * n /\ n * n \in Nat
  BY SquareIsNat
<1>2. i % n \in 0..n - 1 /\ i \div n \in Int /\ i = n * (i \div n) + (i % n)
  BY <1>1
<1>3. PICK q \in Int, r \in 0..n - 1 : q = i \div n /\ i = n * q + r
  BY <1>2
<1>4. q >= 0
  <2> SUFFICES ASSUME q <= -1 PROVE FALSE
    BY <1>3
  <2>1. n * q <= -n
    OBVIOUS
  <2> QED BY <1>1, <1>3, <2>1
<1>5. q < n
  <2> SUFFICES ASSUME q >= n PROVE FALSE
    BY <1>3
  <2>1. n * q >= n * n
    OBVIOUS
  <2> QED BY <1>1, <1>3, <2>1
<1> QED BY <1>2, <1>3, <1>4, <1>5

LEMMA PlaceCells ==
    ASSUME NEW n \in Nat, n >= 1, NEW x \in 0..n - 1, NEW y \in 0..n - 1
    PROVE  /\ cellIndex(x, y, n) \in 0..n * n - 1
           /\ cellIndex(x, y, n) % n = x /\ cellIndex(x, y, n) \div n = y
<1>1. PICK i : i = y * n + x
  OBVIOUS
<1>2. i \in Int /\ n * n \in Nat
  BY <1>1, SquareIsNat
<1>3. i >= 0 /\ i <= n * n - 1
  <2>1. y * n >= 0
    OBVIOUS
  <2>2. y * n <= (n - 1) * n
    OBVIOUS
  <2>3. (n - 1) * n = n * n - n
    OBVIOUS
  <2> QED BY <1>1, <1>2, <2>1, <2>2, <2>3
<1>4. PICK q \in Int, r \in 0..n - 1 : q = i \div n /\ r = i % n /\ i = n * q + r
  BY <1>2
<1>5. q = y
  <2>1. n * (q - y) = x - r
    BY <1>1, <1>4
  <2>2. q - y >= 1 => n * (q - y) >= n
    OBVIOUS
  <2>3. q - y <= -1 => n * (q - y) <= -n
    OBVIOUS
  <2> QED BY <2>1, <2>2, <2>3
<1>6. r = x
  BY <1>1, <1>4, <1>5
<1> QED BY <1>1, <1>2, <1>3, <1>4, <1>5, <1>6 DEF cellIndex
-----------------------------------------------------------------------------
(* What a map that arrives shows, is what is put over the record.  *)
LEMMA CellsShow ==
    ASSUME NEW stand \in Stands, NEW hidden, ~blind, NEW i \in 0..Side * Side - 1
    PROVE  LET at == <<i % Side, i \div Side>>
               cell == Look(stand, Side, hidden)[i + 1]
           IN  /\ at \in Grid(Side)
               /\ cell = IF at \in hidden THEN OutOfSight
                         ELSE land[<<stand[1] + at[1] - Middle, stand[2] + at[2] - Middle>>]
<1>1. Side * Side \in Nat /\ i + 1 \in 1..Side * Side /\ (i + 1) - 1 = i
  BY MapAssumption, SquareIsNat
<1>2. <<i % Side, i \div Side>> \in Grid(Side)
  <2>1. Side \in Nat /\ Side >= 1
    BY MapAssumption
  <2>2. i % Side \in 0..Side - 1 /\ i \div Side \in 0..Side - 1
    BY <2>1, CellPlaces
  <2> QED BY <2>2 DEF Grid
<1>3. Look(stand, Side, hidden)[i + 1] =
        LET at == <<((i + 1) - 1) % Side, ((i + 1) - 1) \div Side>> IN
        IF at \in hidden THEN OutOfSight
        ELSE land[<<stand[1] + at[1] - Side \div 2, stand[2] + at[2] - Side \div 2>>]
  BY <1>1 DEF Look
<1> QED BY <1>1, <1>2, <1>3 DEF Middle

LEMMA SightIsRevealed ==
    ASSUME land \in Lands, NEW stand \in Stands, NEW hidden, ~blind, NEW map,
           map.cells = Look(stand, Side, hidden),
           map.pos = [x |-> stand[1], y |-> stand[2]], NEW known
    PROVE  /\ Absorbed(map, known) = Over(Revealed(stand, hidden), known)
           /\ {PlaceOf(map, i) : i \in InSight(map)} = DOMAIN Revealed(stand, hidden)
<1> DEFINE place(at) == <<stand[1] + at[1] - Middle, stand[2] + at[2] - Middle>>
           S == {PlaceOf(map, i) : i \in InSight(map)}
<1>0. Side \in Nat /\ Side >= 1 /\ OutOfSight.chip = Unknown
  BY MapAssumption DEF OutOfSight
<1>1. ASSUME NEW i \in 0..Side * Side - 1
      PROVE  /\ <<i % Side, i \div Side>> \in Grid(Side)
             /\ PlaceOf(map, i) = place(<<i % Side, i \div Side>>)
             /\ i \in InSight(map) <=> <<i % Side, i \div Side>> \notin hidden
             /\ i \in InSight(map) => map.cells[i + 1] = land[PlaceOf(map, i)]
  <2>1. PICK at : at = <<i % Side, i \div Side>>
    OBVIOUS
  <2>2. /\ at \in Grid(Side)
        /\ map.cells[i + 1] = IF at \in hidden THEN OutOfSight ELSE land[place(at)]
    BY <1>1, <2>1, CellsShow
  <2>3. land[place(at)].chip # Unknown
    BY <2>2, WorldAssumption
  <2>4. PlaceOf(map, i) = place(at)
    BY <2>1 DEF PlaceOf
  <2>5. i \in InSight(map) <=> map.cells[i + 1].chip # Unknown
    BY DEF InSight
  <2> QED BY <1>0, <2>1, <2>2, <2>3, <2>4, <2>5
<1>2. ASSUME NEW at \in Grid(Side) \ hidden
      PROVE  \E i \in InSight(map) : PlaceOf(map, i) = place(at)
  <2>1. PICK x \in 0..Side - 1, y \in 0..Side - 1 : at = <<x, y>>
    BY <1>2 DEF Grid
  <2>2. PICK i : i = cellIndex(x, y, Side)
    OBVIOUS
  <2>3. i \in 0..Side * Side - 1 /\ <<i % Side, i \div Side>> = at
    BY <1>0, <2>1, <2>2, PlaceCells
  <2> QED BY <1>1, <1>2, <2>3
<1>3. S = {place(at) : at \in Grid(Side) \ hidden}
  <2>1. \A i \in InSight(map) : i \in 0..Side * Side - 1
    BY DEF InSight
  <2>2. ASSUME NEW i \in InSight(map)
        PROVE  PlaceOf(map, i) \in {place(at) : at \in Grid(Side) \ hidden}
    BY <1>1, <2>1, <2>2
  <2> QED BY <1>2, <2>2
<1>4. Revealed(stand, hidden) = [p \in S |-> land[p]]
  BY <1>3 DEF Revealed
<1>5. ASSUME NEW p \in S
      PROVE  map.cells[1 + CHOOSE i \in InSight(map) : PlaceOf(map, i) = p] = land[p]
  <2>1. PICK j : j = CHOOSE i \in InSight(map) : PlaceOf(map, i) = p
    OBVIOUS
  <2>2. j \in InSight(map) /\ PlaceOf(map, j) = p
    BY <1>5, <2>1
  <2>3. j \in 0..Side * Side - 1 /\ 1 + j = j + 1
    BY <1>0, <2>2, SquareIsNat DEF InSight
  <2> QED BY <1>1, <2>1, <2>2, <2>3
<1>6. Absorbed(map, known) = Over([p \in S |-> land[p]], known)
  BY <1>5 DEF Absorbed
<1> QED BY <1>4, <1>6

LEMMA AgreeMerge ==
    ASSUME NEW f, NEW g, NEW h, NEW X, Agree(f, g, X)
    PROVE  Agree(Over(h, f), Over(h, g), X \ DOMAIN h)
  BY DEF Agree, Over
-----------------------------------------------------------------------------
LEMMA RecordInit == MapInit => RecordInv
  BY DEF MapInit, RecordInv, Agree

(* What absorb starts from is true, but for what was lost; and it is the   *)
(* disk's, but for what no save has reached.                               *)
LEMMA KnownIsTrue ==
    ASSUME RecordInv, NEW known, known = IF tiles = <<>> THEN disk ELSE tiles[1]
    PROVE  Agree(known, seen, excuse.lost) /\ Agree(known, disk, excuse.unsaved)
<1>1. Agree(disk, disk, excuse.unsaved)
  BY DEF Agree
<1> QED BY <1>1 DEF RecordInv

LEMMA Absorbs ==
    ASSUME RecordInv, NEW map, NEW h, Absorb(map),
           \A known : Absorbed(map, known) = Over(h, known),
           {PlaceOf(map, i) : i \in InSight(map)} = DOMAIN h,
           seen' = Over(h, seen)
    PROVE  RecordInv'
<1> DEFINE k == IF tiles = <<>> THEN disk ELSE tiles[1]
           new == {p \in DOMAIN Absorbed(map, k) :
                     p \notin DOMAIN k \/ Absorbed(map, k)[p] # k[p]}
<1>1. PICK known : known = k
  OBVIOUS
<1>2. PICK next : next = Over(h, known)
  OBVIOUS
<1>3. PICK news : news = {p \in DOMAIN next : p \notin DOMAIN known \/ next[p] # known[p]}
  OBVIOUS
<1>4. /\ tiles' = <<next>> /\ excuse'.lost = excuse.lost \ DOMAIN h
      /\ \/ /\ disk' = (IF news = {} THEN disk ELSE next)
            /\ excuse'.unsaved = IF news = {} THEN excuse.unsaved ELSE {}
         \/ disk' = disk /\ excuse'.unsaved = excuse.unsaved \cup news
  <2>1. next = Absorbed(map, k) /\ news = new
    BY <1>1, <1>2, <1>3
  <2>2. PICK gone : gone = excuse.lost \ {PlaceOf(map, i) : i \in InSight(map)}
    OBVIOUS
  <2>3. /\ tiles' = <<Absorbed(map, k)>>
        /\ \/ /\ disk' = (IF new = {} THEN disk ELSE Absorbed(map, k))
              /\ excuse' = [unsaved |-> IF new = {} THEN excuse.unsaved ELSE {}, lost |-> gone]
           \/ disk' = disk /\ excuse' = [unsaved |-> excuse.unsaved \cup new, lost |-> gone]
    BY <2>2, Zenon DEF Absorb
  <2> HIDE DEF k, new
  <2> QED BY <2>1, <2>2, <2>3
<1> HIDE DEF k, new
<1>5. tiles' # <<>> /\ tiles'[1] = next
  BY <1>4
<1>6. Agree(known, seen, excuse.lost) /\ Agree(known, disk, excuse.unsaved)
  BY <1>1, KnownIsTrue DEF k
<1>7. Agree(next, seen', excuse'.lost)
  BY <1>2, <1>4, <1>6, AgreeMerge
<1>8. \A p : p \notin news => /\ p \in DOMAIN next <=> p \in DOMAIN known
                              /\ p \in DOMAIN next => next[p] = known[p]
  BY <1>2, <1>3 DEF Over
<1>9. Agree(next, disk', excuse'.unsaved)
  <2>1. CASE disk' = next
    BY <2>1 DEF Agree
  <2>2. CASE disk' = disk /\ excuse.unsaved \cup news \subseteq excuse'.unsaved
    BY <1>6, <1>8, <2>2 DEF Agree
  <2> QED BY <1>4, <2>1, <2>2
<1> QED BY <1>5, <1>7, <1>9 DEF RecordInv

(* The 'map' handler absorbs just the maps that show the world where the   *)
(* character stands.                                                       *)
LEMMA MapArrivesStep ==
    ASSUME RecordInv, land \in Lands, NEW stand \in Stands, NEW hidden, NEW size, NEW style,
           NEW scene, NEW placed, MapArrives(stand, hidden, size, style, scene, placed)
    PROVE  RecordInv'
<1>1. PICK map :
        /\ map.pos = IF placed THEN [x |-> stand[1], y |-> stand[2]] ELSE Absent
        /\ map.size = size /\ map.style = style /\ map.cells = Look(stand, size, hidden)
        /\ seen' = (IF ~blind /\ placed /\ size = Side /\ style = "solid"
                      THEN Over(Revealed(stand, hidden), seen) ELSE seen)
        /\ IF ~blind /\ Recordable(map) THEN Absorb(map) ELSE UNCHANGED <<tiles, disk, excuse>>
  <2> DEFINE m == [type |-> "map", session |-> CHOOSE s \in Sessions : TRUE, size |-> size,
                dir |-> "N", style |-> style, mapset |-> scene.mapset,
                cells |-> Look(stand, size, hidden), chars |-> scene.chars, signs |-> <<>>,
                pos |-> IF placed THEN [x |-> stand[1], y |-> stand[2]] ELSE Absent]
  <2>1. /\ m.pos = IF placed THEN [x |-> stand[1], y |-> stand[2]] ELSE Absent
        /\ m.size = size /\ m.style = style /\ m.cells = Look(stand, size, hidden)
    OBVIOUS
  <2>2. /\ seen' = (IF ~blind /\ placed /\ size = Side /\ style = "solid"
                      THEN Over(Revealed(stand, hidden), seen) ELSE seen)
        /\ IF ~blind /\ Recordable(m) THEN Absorb(m) ELSE UNCHANGED <<tiles, disk, excuse>>
    BY DEF MapArrives, guardBlind
  <2> HIDE DEF m
  <2> QED BY <2>1, <2>2
<1>2. CASE ~blind /\ placed /\ size = Side /\ style = "solid"
  <2>1. Recordable(map)
    <3>1. [x |-> stand[1], y |-> stand[2]] # Absent
      BY WorldAssumption
    <3>2. Len(Look(stand, Side, hidden)) = Side * Side
      <4>1. Side * Side \in Nat
        BY MapAssumption, SquareIsNat
      <4> QED BY <4>1 DEF Look
    <3> QED BY <1>1, <1>2, <3>1, <3>2 DEF Recordable
  <2>2. PICK h : h = Revealed(stand, hidden)
    OBVIOUS
  <2>3. /\ \A known : Absorbed(map, known) = Over(h, known)
        /\ {PlaceOf(map, i) : i \in InSight(map)} = DOMAIN h
    BY <1>1, <1>2, <2>2, SightIsRevealed
  <2> QED BY <1>1, <1>2, <2>1, <2>2, <2>3, Absorbs
<1>3. CASE ~(~blind /\ placed /\ size = Side /\ style = "solid")
  <2>1. ~(~blind /\ Recordable(map))
    BY <1>1, <1>3 DEF Recordable
  <2> QED BY <1>1, <1>3, <2>1 DEF RecordInv, Agree
<1> QED BY <1>2, <1>3

LEMMA RecordStep ==
    ASSUME RecordInv, land \in Lands, [MapNext]_mapVars
    PROVE  RecordInv' /\ land' \in Lands
<1>1. CASE MapsArrive(Hidden, Scenes)
  <2>1. PICK stand \in Stands, scene \in Scenes :
          \/ MapArrives(stand, {}, Side, "turn", scene, TRUE)
          \/ MapArrives(stand, {}, Side - 2, "solid", scene, TRUE)
          \/ \E hidden \in Hidden, placed \in BOOLEAN :
                MapArrives(stand, hidden, Side, "solid", scene, placed)
    BY <1>1 DEF MapsArrive
  <2>2. land' = land
    BY <2>1 DEF MapArrives
  <2> QED BY <2>1, <2>2, MapArrivesStep
<1>2. CASE ReloadPage
  <2>1. /\ tiles' = <<>> /\ UNCHANGED <<land, disk, seen>>
        /\ excuse'.unsaved = {} /\ excuse'.lost = excuse.lost \cup excuse.unsaved
    BY <1>2 DEF ReloadPage
  <2>2. Agree(disk, seen, excuse.lost \cup excuse.unsaved)
    BY DEF RecordInv, Agree
  <2> QED BY <2>1, <2>2 DEF RecordInv
<1>3. CASE (\E l \in Lands : WorldChanges(l)) \/ ConditionChanges \/ Load \/ UNCHANGED mapVars
  <2>1. UNCHANGED <<tiles, disk, seen, excuse>> /\ land' \in Lands
    BY <1>3 DEF WorldChanges, ConditionChanges, Load, EagleEyeArrives, ImageComes, recorded, mapVars
  <2> QED BY <2>1 DEF RecordInv, Agree
<1> QED BY <1>1, <1>2, <1>3 DEF MapNext, Walk

(* A cell that is drawn from the record shows what was at that place when  *)
(* it was shown last, and everything seen that lies on the board is drawn. *)
(* (stores/automapStore.ts: absorb; lib/mapRender.ts: composeAutomap.)     *)
LEMMA RecordIsDrawn == RecordInv => RecallIsTrue
<1> SUFFICES ASSUME RecordInv, Composed PROVE RecallIsTrue
  BY DEF RecallIsTrue
<1>1. PICK ring : ring \in Nat /\ ring = IF narrow THEN 0 ELSE Ring
  BY MapAssumption
<1> DEFINE dim == Side + 2 * ring
           half == (dim - 1) \div 2
           inner(at) == at[1] \in ring..ring + Side - 1 /\ at[2] \in ring..ring + Side - 1
           liveCell(at) ==
             IF inner(at) THEN live.cells[cellIndex(at[1] - ring, at[2] - ring, Side) + 1] ELSE Absent
           isLive(at) == inner(at) /\ liveCell(at).chip # Unknown
           place(at) == <<live.pos.x + at[1] - half, live.pos.y + at[2] - half>>
<1>2. PICK board, known : board = Board /\ known = tiles[1]
  OBVIOUS
<1>3. board = composeAutomap(live, known, ring)
  BY <1>1, <1>2 DEF Board
<1>4. /\ board.dim = dim
      /\ \A at \in Grid(dim) :
           /\ board.cells[at] = IF isLive(at) \/ place(at) \notin DOMAIN known THEN liveCell(at)
                                                                            ELSE known[place(at)]
           /\ at \in board.recalled <=> ~isLive(at) /\ (inner(at) => place(at) \in DOMAIN known)
  BY <1>3 DEF composeAutomap
<1>5. half = dim \div 2
  BY <1>1, MapAssumption
<1>6. Agree(known, seen, excuse.lost)
  BY <1>2 DEF RecordInv, Composed
<1> HIDE DEF half, dim
<1>7. ASSUME NEW at \in Grid(dim), place(at) \notin excuse.lost, at \in board.recalled
      PROVE  board.cells[at] = IF place(at) \in DOMAIN seen THEN seen[place(at)] ELSE Absent
  <2>1. place(at) \in DOMAIN known <=> place(at) \in DOMAIN seen
    BY <1>6, <1>7 DEF Agree
  <2>2. place(at) \in DOMAIN known => known[place(at)] = seen[place(at)]
    BY <1>6, <1>7 DEF Agree
  <2> HIDE DEF place
  <2> QED BY <1>4, <1>7, <2>1, <2>2
<1>8. ASSUME NEW at \in Grid(dim), place(at) \notin excuse.lost, at \notin board.recalled,
             board.cells[at].chip = Unknown
      PROVE  place(at) \notin DOMAIN seen
  <2>1. place(at) \in DOMAIN known <=> place(at) \in DOMAIN seen
    BY <1>6, <1>8 DEF Agree
  <2> HIDE DEF place
  <2> QED BY <1>4, <1>8, <2>1
<1> QED BY <1>2, <1>4, <1>5, <1>7, <1>8 DEF RecallIsTrue

THEOREM RecordRecalls == MapSpec => []RecallIsTrue
<1>1. MapInit => RecordInv /\ land \in Lands
  BY RecordInit DEF MapInit
<1>2. RecordInv /\ land \in Lands /\ [MapNext]_mapVars => RecordInv' /\ (land \in Lands)'
  BY RecordStep
<1> QED BY <1>1, <1>2, RecordIsDrawn, PTL DEF MapSpec
-----------------------------------------------------------------------------
(* What is copied lies in its image. *)
LEMMA InsideImages ==
    \A x, y, w, h \in Int : \A dst :
        x >= 0 /\ y >= 0 =>
        /\ x + w <= 512 /\ y + h <= 96 => Inside(Copy("chip", <<x, y, w, h>>, dst))
        /\ x + w <= 256 /\ y + h <= 32 => Inside(Copy("items", <<x, y, w, h>>, dst))
        /\ x + w <= 96 /\ y + h <= 128 => Inside(Copy("chara", <<x, y, w, h>>, dst))
  BY DEF Inside, Copy, ImageSize

LEMMA ChipRects ==
    ASSUME NEW index \in 0..31
    PROVE  \E x \in 0..480, y \in {0, 48} : chipSrcRect(index) = <<x, y, 32, 48>>
<1>1. (index % 16) * 32 \in 0..480 /\ (index \div 16) * 48 \in {0, 48}
  OBVIOUS
<1> QED BY <1>1 DEF chipSrcRect, CHIP_SIZE, CHIP_HEIGHT

LEMMA ChipsDrawn ==
    ASSUME NEW index \in 0..31, NEW class, NEW at, NEW scale,
           NEW copy \in drawChip(index, class, at, scale)
    PROVE  Inside(copy)
<1>1. PICK x \in 0..480, y \in {0, 48} : chipSrcRect(index) = <<x, y, 32, 48>>
  BY ChipRects
<1>2. \E dst : \/ copy = Copy("chip", <<x, y, 32, 48>>, dst)
               \/ copy = Copy("chip", <<x, y + 16, 32, 32>>, dst)
  BY <1>1 DEF drawChip, CHIP_SIZE, CHIP_HEIGHT
<1>3. PICK dst : \/ copy = Copy("chip", <<x, y, 32, 48>>, dst)
                 \/ copy = Copy("chip", <<x, y + 16, 32, 32>>, dst)
  BY <1>2
<1>4. Inside(Copy("chip", <<x, y, 32, 48>>, dst))
  BY InsideImages
<1>5. Inside(Copy("chip", <<x, y + 16, 32, 32>>, dst))
  BY InsideImages
<1> QED BY <1>3, <1>4, <1>5

LEMMA ChipsAreThere == \A chip : chipIndices(chip) \subseteq 0..31
<1> DEFINE S == SUBSET (0..31)
<1>1. \A i \in 0..31 : {i} \in S
  OBVIOUS
<1>2. {1, 3} \in S
  OBVIOUS
<1> HIDE DEF S
<1>3. ASSUME NEW chip \in DOMAIN CHIP_BYTE_TO_INDEX PROVE CHIP_BYTE_TO_INDEX[chip] \in S
  <2>1. /\ {0} \in S /\ {1} \in S /\ {2} \in S /\ {4} \in S /\ {5} \in S /\ {6} \in S /\ {7} \in S
        /\ {8} \in S /\ {9} \in S /\ {10} \in S /\ {11} \in S /\ {12} \in S /\ {13} \in S
        /\ {14} \in S /\ {15} \in S /\ {16} \in S /\ {17} \in S /\ {31} \in S
    BY <1>1
  <2> QED BY <1>2, <2>1 DEF CHIP_BYTE_TO_INDEX, Chip
<1>4. \A chip : chipIndices(chip) \in S
  BY <1>1, <1>3 DEF chipIndices
<1> QED BY <1>4 DEF S

Bit(water, p) == IF p \in water THEN 1 ELSE 0
SideOf(q) == IF q % 2 = 0 THEN -1 ELSE 1
UpOf(q) == IF q \div 2 = 0 THEN -1 ELSE 1
Corner(at, q) ==
    {<<at[1] + SideOf(q), at[2] + UpOf(q)>>, <<at[1], at[2] + UpOf(q)>>, <<at[1] + SideOf(q), at[2]>>}

LEMMA Patterns ==
    ASSUME NEW water, NEW at, NEW q \in 0..3
    PROVE  /\ waterQuarterPattern(water, at, q) \in 0..7
           /\ waterQuarterPattern(water, at, q) = 7 <=> Corner(at, q) \subseteq water
<1>1. PICK across, over, beside :
        /\ across = <<at[1] + SideOf(q), at[2] + UpOf(q)>> /\ over = <<at[1], at[2] + UpOf(q)>>
        /\ beside = <<at[1] + SideOf(q), at[2]>>
  OBVIOUS
<1>2. waterQuarterPattern(water, at, q) = Bit(water, across) + 2 * Bit(water, over) + 4 * Bit(water, beside)
  BY <1>1 DEF waterQuarterPattern, Bit, SideOf, UpOf
<1>3. /\ waterQuarterPattern(water, at, q) \in 0..7
      /\ waterQuarterPattern(water, at, q) = 7 <=> {across, over, beside} \subseteq water
  BY <1>2 DEF Bit
<1> QED BY <1>1, <1>3 DEF Corner

LEMMA ShoredCorners ==
    \A water, at : \A q \in 0..3 : q \in Shored(water, at) <=> ~(Corner(at, q) \subseteq water)
<1>1. ASSUME NEW water, NEW at, NEW q \in 0..3
      PROVE  q \in Shored(water, at) <=> ~(Corner(at, q) \subseteq water)
  <2>1. waterQuarterPattern(water, at, q) = 7 <=> Corner(at, q) \subseteq water
    BY Patterns
  <2> QED BY <2>1 DEF Shored
<1> QED BY <1>1

LEMMA ShoresDrawn ==
    ASSUME NEW water, NEW at, NEW scale, NEW copy \in drawShores(water, at, scale)
    PROVE  Inside(copy)
<1>1. PICK q \in Shored(water, at) : \E dst :
        copy = Copy("chip", chipQuarterSrcRect(WATER_CHIP_BASE + Shore(water, at, q)[1],
                                               Shore(water, at, q)[2]), dst)
  BY DEF drawShores
<1>0. PICK dst :
        copy = Copy("chip", chipQuarterSrcRect(WATER_CHIP_BASE + Shore(water, at, q)[1],
                                               Shore(water, at, q)[2]), dst)
  BY <1>1
<1>2. q \in 0..3 /\ waterQuarterPattern(water, at, q) \in 0..6
  <2>1. q \in 0..3 /\ waterQuarterPattern(water, at, q) # 7
    BY DEF Shored
  <2>2. waterQuarterPattern(water, at, q) \in 0..7
    BY <2>1, Patterns
  <2> QED BY <2>1, <2>2
<1>3. PICK p \in 0..6 : p = waterQuarterPattern(water, at, q)
  BY <1>2
<1>4. PICK i \in 0..2, j \in 0..3 : Shore(water, at, q) = <<i, j>>
  BY <1>2, <1>3 DEF Shore, Q_TABLE
<1>5. PICK x \in 0..480 : chipSrcRect(23 + i) = <<x, 48, 32, 48>> /\ x <= 320
  <2>1. (23 + i) % 16 = 7 + i /\ (23 + i) \div 16 = 1
    OBVIOUS
  <2> QED BY <2>1 DEF chipSrcRect, CHIP_SIZE, CHIP_HEIGHT
<1>6. chipQuarterSrcRect(23 + i, j) = <<x + 16 * (j % 2), 48 + 16 + 16 * (j \div 2), 16, 16>>
  BY <1>5 DEF chipQuarterSrcRect
<1>7. PICK a, b \in Int :
        /\ a = x + 16 * (j % 2) /\ b = 48 + 16 + 16 * (j \div 2)
        /\ a >= 0 /\ b >= 0 /\ a + 16 <= 512 /\ b + 16 <= 96
  OBVIOUS
<1>8. Inside(Copy("chip", <<a, b, 16, 16>>, dst))
  BY <1>7, InsideImages
<1> QED BY <1>0, <1>4, <1>6, <1>7, <1>8 DEF WATER_CHIP_BASE

LEMMA ItemsDrawn ==
    ASSUME NEW attr \in Int, NEW chip, NEW at, NEW scale
    PROVE  Inside(itemDrawRect(itemNo(attr), chip, at, scale))
<1>1. PICK no \in 0..7 : no = itemNo(attr)
  BY DEF itemNo
<1>2. PICK y \in {0, 5}, h \in {21, 32} : \E dst :
        /\ itemDrawRect(no, chip, at, scale) = Copy("items", <<no * 32, y, 32, h>>, dst)
        /\ y + h <= 32
  BY DEF itemDrawRect
<1>5. PICK dst : itemDrawRect(no, chip, at, scale) = Copy("items", <<no * 32, y, 32, h>>, dst)
  BY <1>2
<1>3. no * 32 \in Int /\ no * 32 >= 0 /\ no * 32 + 32 <= 256
  OBVIOUS
<1>4. Inside(Copy("items", <<no * 32, y, 32, h>>, dst))
  BY <1>2, <1>3, InsideImages
<1> QED BY <1>1, <1>4, <1>5

LEMMA CharasDrawn ==
    ASSUME NEW ch, NEW frame \in 0..1, NEW scale, NEW copy \in drawChara(ch, frame, scale)
    PROVE  Inside(copy)
<1>1. PICK row \in 0..3 : row = dirToRow(ch.dir)
  BY DEF dirToRow
<1>2. PICK r : r = charaSrcRect(ch, frame, scale = 2)
  OBVIOUS
<1>3. \/ r = <<32 + frame * 32, row * 32, 32, 32>>
      \/ r = <<frame * 16, row * 32, 16, 32>>
  BY <1>1, <1>2 DEF charaSrcRect
<1>4. PICK dst : copy = Copy("chara", r, dst)
  BY <1>2 DEF drawChara
<1>5. \E x, y, w, h \in Int : /\ r = <<x, y, w, h>> /\ x >= 0 /\ y >= 0
                              /\ x + w <= 96 /\ y + h <= 128
  BY <1>3
<1> QED BY <1>4, <1>5, InsideImages

(* Two waters that touch see the same three cells in the corner between.  *)
LEMMA CornersAre ==
    ASSUME NEW a \in Int, NEW b \in Int
    PROVE  /\ Corner(<<a, b>>, 0) = {<<a - 1, b - 1>>, <<a, b - 1>>, <<a - 1, b>>}
           /\ Corner(<<a, b>>, 1) = {<<a + 1, b - 1>>, <<a, b - 1>>, <<a + 1, b>>}
           /\ Corner(<<a, b>>, 2) = {<<a - 1, b + 1>>, <<a, b + 1>>, <<a - 1, b>>}
           /\ Corner(<<a, b>>, 3) = {<<a + 1, b + 1>>, <<a, b + 1>>, <<a + 1, b>>}
<1>1. /\ SideOf(0) = -1 /\ UpOf(0) = -1 /\ SideOf(1) = 1 /\ UpOf(1) = -1
      /\ SideOf(2) = -1 /\ UpOf(2) = 1 /\ SideOf(3) = 1 /\ UpOf(3) = 1
  BY DEF SideOf, UpOf
<1>2. a + (-1) = a - 1 /\ b + (-1) = b - 1
  OBVIOUS
<1> QED BY <1>1, <1>2 DEF Corner

LEMMA CornersMeet ==
    ASSUME NEW water, NEW a \in water, NEW b \in water, NEW p, NEW q, NEW C, NEW D,
           \/ C = {p, q, b} /\ D = {q, p, a}
           \/ C = {p, b, q} /\ D = {q, a, p}
    PROVE  C \subseteq water <=> D \subseteq water
  OBVIOUS

LEMMA ShoresMeet == ASSUME NEW water \in SUBSET (Int \X Int) PROVE NoSeam(water)
<1>1. ASSUME NEW x \in Int, NEW y \in Int, <<x, y>> \in water, <<x + 1, y>> \in water
      PROVE  /\ 1 \in Shored(water, <<x, y>>) <=> 0 \in Shored(water, <<x + 1, y>>)
             /\ 3 \in Shored(water, <<x, y>>) <=> 2 \in Shored(water, <<x + 1, y>>)
  <2>1. x + 1 \in Int /\ (x + 1) - 1 = x
    OBVIOUS
  <2>2. /\ Corner(<<x, y>>, 1) = {<<x + 1, y - 1>>, <<x, y - 1>>, <<x + 1, y>>}
        /\ Corner(<<x + 1, y>>, 0) = {<<x, y - 1>>, <<x + 1, y - 1>>, <<x, y>>}
    BY <2>1, CornersAre
  <2>3. /\ Corner(<<x, y>>, 3) = {<<x + 1, y + 1>>, <<x, y + 1>>, <<x + 1, y>>}
        /\ Corner(<<x + 1, y>>, 2) = {<<x, y + 1>>, <<x + 1, y + 1>>, <<x, y>>}
    BY <2>1, CornersAre
  <2>4. Corner(<<x, y>>, 1) \subseteq water <=> Corner(<<x + 1, y>>, 0) \subseteq water
    BY <1>1, <2>2, CornersMeet
  <2>5. Corner(<<x, y>>, 3) \subseteq water <=> Corner(<<x + 1, y>>, 2) \subseteq water
    BY <1>1, <2>3, CornersMeet
  <2> QED BY <2>4, <2>5, ShoredCorners
<1>2. ASSUME NEW x \in Int, NEW y \in Int, <<x, y>> \in water, <<x, y + 1>> \in water
      PROVE  /\ 2 \in Shored(water, <<x, y>>) <=> 0 \in Shored(water, <<x, y + 1>>)
             /\ 3 \in Shored(water, <<x, y>>) <=> 1 \in Shored(water, <<x, y + 1>>)
  <2>1. y + 1 \in Int /\ (y + 1) - 1 = y
    OBVIOUS
  <2>2. /\ Corner(<<x, y>>, 2) = {<<x - 1, y + 1>>, <<x, y + 1>>, <<x - 1, y>>}
        /\ Corner(<<x, y + 1>>, 0) = {<<x - 1, y>>, <<x, y>>, <<x - 1, y + 1>>}
    BY <2>1, CornersAre
  <2>3. /\ Corner(<<x, y>>, 3) = {<<x + 1, y + 1>>, <<x, y + 1>>, <<x + 1, y>>}
        /\ Corner(<<x, y + 1>>, 1) = {<<x + 1, y>>, <<x, y>>, <<x + 1, y + 1>>}
    BY <2>1, CornersAre
  <2>4. Corner(<<x, y>>, 2) \subseteq water <=> Corner(<<x, y + 1>>, 0) \subseteq water
    BY <1>2, <2>2, CornersMeet
  <2>5. Corner(<<x, y>>, 3) \subseteq water <=> Corner(<<x, y + 1>>, 1) \subseteq water
    BY <1>2, <2>3, CornersMeet
  <2> QED BY <2>4, <2>5, ShoredCorners
<1>3. \A at \in water : \E x, y \in Int : at = <<x, y>>
  OBVIOUS
<1> QED BY <1>1, <1>2, <1>3 DEF NoSeam
-----------------------------------------------------------------------------
(* The picture.  What is on the board are cells of maps that came, whole   *)
(* squares; and each image that the map wants was asked for, however the   *)
(* batches crossed.                                                        *)
CellsInv == (tiles # <<>> => AreTiles(tiles[1])) /\ AreTiles(disk)
LiveInv ==
    live # Absent =>
        /\ live.size \in {Side, Side - 2}
        /\ live.cells \in [1..live.size * live.size -> MapCell]
        /\ \A i \in DOMAIN live.chars : live.chars[i] \in MapChar
ImagesInv ==
    /\ \A u \in DOMAIN cache : cache[u] = (u \in Served)
    /\ live # Absent => Wanted(live) \subseteq DOMAIN cache \cup loading
PictureInv == land \in Lands /\ CellsInv /\ LiveInv /\ ImagesInv

LEMMA LookShowsCells ==
    ASSUME land \in Lands, NEW stand \in Stands, NEW size \in {Side, Side - 2}, NEW hidden
    PROVE  Look(stand, size, hidden) \in [1..size * size -> MapCell]
<1>1. size \in Nat /\ size >= 1 /\ size * size \in Nat /\ Side \in Nat /\ Side >= 3
  <2>1. size \in Nat /\ size >= 1 /\ Side \in Nat /\ Side >= 3
    BY MapAssumption
  <2> QED BY <2>1, SquareIsNat
<1>2. Fog \in MapCell /\ OutOfSight \in MapCell
  BY DEF Fog, OutOfSight, Unknown, MapCell, Chip
<1>3. ASSUME NEW x \in 0..size - 1, NEW y \in 0..size - 1
      PROVE  land[<<stand[1] + x - size \div 2, stand[2] + y - size \div 2>>] \in MapCell
  <2>1. stand[1] \in Int /\ stand[2] \in Int
    BY WorldAssumption
  <2>2. PICK d \in 0..1 : size = Side - 2 * d
    BY <1>1
  <2>3. size \div 2 = Middle - d /\ Middle \in Int
    BY <1>1, <2>2 DEF Middle
  <2>4. <<x + d, y + d>> \in Grid(Side)
    BY <1>1, <2>2 DEF Grid
  <2>5. land[<<stand[1] + (x + d) - Middle, stand[2] + (y + d) - Middle>>] \in MapCell
    BY <2>4, WorldAssumption
  <2>6. /\ stand[1] + (x + d) - Middle = stand[1] + x - size \div 2
        /\ stand[2] + (y + d) - Middle = stand[2] + y - size \div 2
    BY <2>1, <2>3
  <2> QED BY <2>5, <2>6
<1>4. ASSUME NEW i \in 1..size * size PROVE Look(stand, size, hidden)[i] \in MapCell
  <2>1. i - 1 \in 0..size * size - 1
    BY <1>1
  <2>2. PICK x \in 0..size - 1, y \in 0..size - 1 : x = (i - 1) % size /\ y = (i - 1) \div size
    BY <1>1, <2>1, CellPlaces
  <2>3. Look(stand, size, hidden)[i] =
          IF blind THEN Fog ELSE IF <<x, y>> \in hidden THEN OutOfSight
          ELSE land[<<stand[1] + x - size \div 2, stand[2] + y - size \div 2>>]
    BY <2>2 DEF Look
  <2> QED BY <1>2, <1>3, <2>3
<1> QED BY <1>4 DEF Look

LEMMA AbsorbsCells ==
    ASSUME CellsInv, NEW map, map.cells \in [1..Side * Side -> MapCell], Absorb(map)
    PROVE  CellsInv'
<1>1. PICK known : known = IF tiles = <<>> THEN disk ELSE tiles[1]
  OBVIOUS
<1>2. AreTiles(known)
  BY <1>1 DEF CellsInv
<1>3. ASSUME NEW p \in {PlaceOf(map, i) : i \in InSight(map)}
      PROVE  map.cells[1 + CHOOSE i \in InSight(map) : PlaceOf(map, i) = p] \in MapCell
  <2>1. PICK j : j = CHOOSE i \in InSight(map) : PlaceOf(map, i) = p
    OBVIOUS
  <2>2. j \in InSight(map)
    BY <1>3, <2>1
  <2>3. 1 + j \in 1..Side * Side
    <3>1. Side * Side \in Nat
      BY MapAssumption, SquareIsNat
    <3> QED BY <2>2, <3>1 DEF InSight
  <2> QED BY <2>1, <2>3
<1>4. AreTiles(Absorbed(map, known))
  BY <1>2, <1>3 DEF Absorbed, Over, AreTiles
<1>5. tiles' = <<Absorbed(map, known)>> /\ (disk' = Absorbed(map, known) \/ disk' = disk)
  BY <1>1 DEF Absorb
<1> QED BY <1>4, <1>5 DEF CellsInv, AreTiles

LEMMA MapArrivesPicture ==
    ASSUME PictureInv, NEW stand \in Stands, NEW hidden, NEW size \in {Side, Side - 2}, NEW style,
           NEW scene \in Scenes, NEW placed, MapArrives(stand, hidden, size, style, scene, placed)
    PROVE  PictureInv'
<1>1. PICK map :
        /\ map.size = size /\ map.cells = Look(stand, size, hidden) /\ map.chars = scene.chars
        /\ live' = map /\ loading' = Batch(Wanted(map)) /\ UNCHANGED <<land, cache>>
        /\ IF ~blind /\ Recordable(map) THEN Absorb(map) ELSE UNCHANGED <<tiles, disk>>
  <2> DEFINE m == [type |-> "map", session |-> CHOOSE s \in Sessions : TRUE, size |-> size,
                dir |-> "N", style |-> style, mapset |-> scene.mapset,
                cells |-> Look(stand, size, hidden), chars |-> scene.chars, signs |-> <<>>,
                pos |-> IF placed THEN [x |-> stand[1], y |-> stand[2]] ELSE Absent]
  <2>1. m.size = size /\ m.cells = Look(stand, size, hidden) /\ m.chars = scene.chars
    OBVIOUS
  <2>2. /\ live' = m /\ loading' = Batch(Wanted(m)) /\ UNCHANGED <<land, cache>>
        /\ IF ~blind /\ Recordable(m) THEN Absorb(m) ELSE UNCHANGED <<tiles, disk>>
    BY DEF MapArrives, guardBlind
  <2> HIDE DEF m
  <2> QED BY <2>1, <2>2
<1>2. map.cells \in [1..size * size -> MapCell]
  BY <1>1, LookShowsCells DEF PictureInv
<1>3. CellsInv'
  <2>1. CASE ~blind /\ Recordable(map)
    <3>1. map.size = Side /\ Absorb(map)
      BY <1>1, <2>1 DEF Recordable
    <3> QED BY <1>1, <1>2, <3>1, AbsorbsCells DEF PictureInv
  <2>2. CASE ~(~blind /\ Recordable(map))
    BY <1>1, <2>2 DEF PictureInv, CellsInv, AreTiles
  <2> QED BY <2>1, <2>2
<1>4. LiveInv'
  <2>1. \A i \in DOMAIN map.chars : map.chars[i] \in MapChar
    BY <1>1, ScenesAssumption
  <2> QED BY <1>1, <1>2, <2>1 DEF LiveInv
<1>5. ImagesInv'
  BY <1>1 DEF PictureInv, ImagesInv, Batch
<1> QED BY <1>1, <1>3, <1>4, <1>5 DEF PictureInv

LEMMA ImageComesPicture ==
    ASSUME PictureInv, NEW url \in loading, ImageComes(url)
    PROVE  ImagesInv'
<1>1. /\ cache' = Over([u \in {url} |-> u \in Served], cache)
      /\ loading' = loading \ {url} /\ live' = live
  BY DEF ImageComes
<1>2. DOMAIN cache' = DOMAIN cache \cup {url}
  BY <1>1 DEF Over
<1>3. \A u \in DOMAIN cache' : cache'[u] = (u \in Served)
  <2>1. \A u \in DOMAIN cache : cache[u] = (u \in Served)
    BY DEF PictureInv, ImagesInv
  <2>2. \A u \in DOMAIN cache' : cache'[u] = IF u \in {url} THEN u \in Served ELSE cache[u]
    BY <1>1 DEF Over
  <2> QED BY <1>2, <2>1, <2>2
<1>4. live # Absent => Wanted(live) \subseteq DOMAIN cache' \cup loading'
  BY <1>1, <1>2 DEF PictureInv, ImagesInv
<1>5. (Wanted(live))' = Wanted(live)
  BY <1>1 DEF Wanted
<1> QED BY <1>1, <1>3, <1>4, <1>5 DEF ImagesInv

LEMMA PictureStep ==
    ASSUME PictureInv, [MapNext]_mapVars
    PROVE  PictureInv'
<1>1. CASE MapsArrive(Hidden, Scenes)
  BY <1>1, MapArrivesPicture DEF MapsArrive
<1>2. CASE ReloadPage
  <2>1. /\ tiles' = <<>> /\ UNCHANGED <<land, live, disk>>
        /\ cache' = [u \in {} |-> TRUE] /\ loading' = Wanted(live)
    BY <1>2 DEF ReloadPage
  <2> QED BY <2>1 DEF PictureInv, CellsInv, LiveInv, ImagesInv, AreTiles, Wanted
<1>3. CASE \E url \in loading : ImageComes(url)
  <2>1. PICK url \in loading : ImageComes(url)
    BY <1>3
  <2>2. UNCHANGED <<land, live, tiles, disk>>
    BY <2>1 DEF ImageComes, recorded
  <2>3. ImagesInv'
    BY <2>1, ImageComesPicture
  <2> QED BY <2>2, <2>3 DEF PictureInv, CellsInv, LiveInv, AreTiles
<1>4. CASE \/ (\E l \in Lands : WorldChanges(l)) \/ ConditionChanges
           \/ EagleEyeArrives(<<Fog, OutOfSight>>) \/ UNCHANGED mapVars
  <2>1. UNCHANGED <<tiles, disk, live, cache, loading>> /\ land' \in Lands
    BY <1>4 DEF WorldChanges, ConditionChanges, EagleEyeArrives, recorded, images, mapVars, PictureInv
  <2> QED BY <2>1 DEF PictureInv, CellsInv, LiveInv, ImagesInv, AreTiles, Wanted
<1> QED BY <1>1, <1>2, <1>3, <1>4 DEF MapNext, Walk, Load
(* Each cell that is drawn has a cell's attribute, from the map or the     *)
(* record; and the board is the map, or the map moved by one ring.         *)
LEMMA BoardCells ==
    ASSUME CellsInv, LiveInv, live # Absent
    PROVE  /\ DOMAIN Board.cells = Grid(Board.dim)
           /\ \A at \in Grid(Board.dim) : Board.cells[at] # Absent => Board.cells[at] \in MapCell
<1>1. /\ Side \in Nat /\ Side >= 3 /\ live.size \in Nat /\ live.size >= 1
      /\ live.size * live.size \in Nat
  <2>1. Side \in Nat /\ Side >= 3 /\ live.size \in Nat /\ live.size >= 1
    BY MapAssumption DEF LiveInv
  <2> QED BY <2>1, SquareIsNat
<1>2. ASSUME NEW x \in 0..live.size - 1, NEW y \in 0..live.size - 1
      PROVE  live.cells[cellIndex(x, y, live.size) + 1] \in MapCell
  <2>1. cellIndex(x, y, live.size) \in 0..live.size * live.size - 1
    BY <1>1, PlaceCells
  <2>2. cellIndex(x, y, live.size) + 1 \in 1..live.size * live.size
    BY <1>1, <2>1
  <2> QED BY <2>2 DEF LiveInv
<1>3. CASE Composed
  <2>1. PICK ring : ring \in Nat /\ ring = IF narrow THEN 0 ELSE Ring
    BY MapAssumption
  <2>2. PICK dim : dim = Side + 2 * ring
    OBVIOUS
  <2> DEFINE half == ((Side + 2 * ring) - 1) \div 2
             inner(at) == at[1] \in ring..ring + Side - 1 /\ at[2] \in ring..ring + Side - 1
             liveCell(at) ==
               IF inner(at) THEN live.cells[cellIndex(at[1] - ring, at[2] - ring, Side) + 1] ELSE Absent
             place(at) == <<live.pos.x + at[1] - half, live.pos.y + at[2] - half>>
             isLive(at) == inner(at) /\ liveCell(at).chip # Unknown
  <2>3. PICK board, known : board = Board /\ known = tiles[1]
    OBVIOUS
  <2>4. board = composeAutomap(live, known, ring)
    BY <1>3, <2>1, <2>3 DEF Board
  <2>5. /\ board.dim = dim /\ DOMAIN board.cells = Grid(dim)
        /\ \A at \in Grid(dim) :
             board.cells[at] = IF isLive(at) \/ place(at) \notin DOMAIN known THEN liveCell(at)
                                                                         ELSE known[place(at)]
    BY <2>2, <2>4 DEF composeAutomap
  <2>6. live.size = Side
    BY <1>3 DEF Composed, Recordable
  <2>7. ASSUME NEW at \in Grid(dim) PROVE liveCell(at) = Absent \/ liveCell(at) \in MapCell
    <3>1. CASE inner(at)
      <4>1. PICK x \in 0..Side - 1, y \in 0..Side - 1 : x = at[1] - ring /\ y = at[2] - ring
        BY <1>1, <2>1, <3>1
      <4> QED BY <1>2, <2>6, <3>1, <4>1
    <3> QED BY <3>1
  <2>8. AreTiles(known)
    BY <1>3, <2>3 DEF CellsInv, Composed
  <2> HIDE DEF place, liveCell, isLive
  <2> QED BY <2>3, <2>5, <2>7, <2>8 DEF AreTiles
<1>4. CASE ~Composed
  <2>1. PICK board : board = Board
    OBVIOUS
  <2>2. /\ board.dim = live.size
        /\ board.cells = [at \in Grid(live.size) |->
                            live.cells[cellIndex(at[1], at[2], live.size) + 1]]
    BY <1>4, <2>1 DEF Board
  <2> QED BY <1>2, <2>1, <2>2 DEF Grid
<1> QED BY <1>3, <1>4

LEMMA BoardChars ==
    ASSUME LiveInv, live # Absent, NEW i \in DOMAIN live.chars,
           <<live.chars[i].x, live.chars[i].y>> = Center(Side), live.size = Side
    PROVE  <<Board.chars[i].x, Board.chars[i].y>> = Center(Board.dim)
<1>1. CASE Composed
  <2>1. PICK ring : ring \in Nat /\ ring = IF narrow THEN 0 ELSE Ring
    BY MapAssumption
  <2>2. /\ Board.dim = Side + 2 * ring
        /\ Board.chars[i] = [live.chars[i] EXCEPT !.x = @ + ring, !.y = @ + ring]
    BY <1>1, <2>1 DEF Board, composeAutomap
  <2>3. live.chars[i] \in MapChar
    BY DEF LiveInv
  <2>4. Board.chars[i].x = live.chars[i].x + ring /\ Board.chars[i].y = live.chars[i].y + ring
    BY <2>2, <2>3 DEF MapChar
  <2>5. (Side + 2 * ring) \div 2 = Side \div 2 + ring
    BY <2>1, MapAssumption
  <2> QED BY <2>2, <2>4, <2>5 DEF Center
<1>2. CASE ~Composed
  BY <1>2 DEF Board
<1> QED BY <1>1, <1>2

LEMMA DrawnFromInside ==
    ASSUME NEW board, NEW sheet, NEW frame \in 0..1, NEW scale,
           \A at \in Grid(board.dim) : board.cells[at] # Absent => board.cells[at] \in MapCell,
           NEW copy \in drawMap(board, sheet, frame, scale)
    PROVE  Inside(copy)
<1> DEFINE there == {at \in Grid(board.dim) : board.cells[at] # Absent}
           water == buildWaterGrid(board.cells)
           chips(at) == UNION {drawChip(i, chipClass(i), at, scale) : i \in chipIndices(board.cells[at].chip)}
           boards(at) == drawChip(boardChipIndex(board.cells[at].chip), "stretch", at, scale)
           ground == UNION {chips(at) : at \in there}
           shores == UNION {drawShores(water, at, scale) : at \in water}
           raised == UNION {boards(at) : at \in {p \in there : hasBoard(board.cells[p].attr)}}
           items == {itemDrawRect(itemNo(board.cells[at].attr), board.cells[at].chip, at, scale) :
                       at \in {p \in there : hasItem(board.cells[p].attr)}}
           charas == UNION {drawChara(board.chars[i], frame, scale) :
                       i \in {j \in DOMAIN board.chars : <<board.chars[j].x, board.chars[j].y>> \in there}}
<1>1. \/ \E at \in there : copy \in chips(at)
      \/ \E at \in water : copy \in drawShores(water, at, scale)
      \/ \E at \in there : copy \in boards(at)
      \/ \E at \in there :
           copy = itemDrawRect(itemNo(board.cells[at].attr), board.cells[at].chip, at, scale)
      \/ \E ch : copy \in drawChara(ch, frame, scale)
  <2>1. drawMap(board, sheet, frame, scale) =
          (IF Loaded(sheet) THEN ground \cup shores \cup raised ELSE {}) \cup (IF Loaded("items") THEN items ELSE {}) \cup charas
    BY DEF drawMap
  <2>2. copy \in ground => \E at \in there : copy \in chips(at)
    <3> HIDE DEF there, chips
    <3> QED OBVIOUS
  <2>3. copy \in shores => \E at \in water : copy \in drawShores(water, at, scale)
    <3> HIDE DEF water
    <3> QED OBVIOUS
  <2>4. copy \in raised => \E at \in there : copy \in boards(at)
    <3> HIDE DEF there, boards
    <3> QED OBVIOUS
  <2>5. copy \in items => \E at \in there :
          copy = itemDrawRect(itemNo(board.cells[at].attr), board.cells[at].chip, at, scale)
    <3> HIDE DEF there
    <3> QED OBVIOUS
  <2>6. copy \in charas => \E ch : copy \in drawChara(ch, frame, scale)
    <3> HIDE DEF there
    <3> QED OBVIOUS
  <2> HIDE DEF ground, shores, raised, items, charas, there, water, chips, boards
  <2> QED BY <2>1, <2>2, <2>3, <2>4, <2>5, <2>6
<1>2. CASE \E at \in there : copy \in chips(at)
  <2>1. PICK at \in there : \E i \in chipIndices(board.cells[at].chip) :
          copy \in drawChip(i, chipClass(i), at, scale)
    BY <1>2
  <2>2. \A i \in chipIndices(board.cells[at].chip) : i \in 0..31
    BY ChipsAreThere
  <2> QED BY <2>1, <2>2, ChipsDrawn
<1>3. CASE \E at \in water : copy \in drawShores(water, at, scale)
  BY <1>3, ShoresDrawn
<1>4. CASE \E at \in there : copy \in boards(at)
  <2>1. \A chip : boardChipIndex(chip) \in 0..31
    BY DEF boardChipIndex
  <2> QED BY <1>4, <2>1, ChipsDrawn
<1>5. CASE \E at \in there :
             copy = itemDrawRect(itemNo(board.cells[at].attr), board.cells[at].chip, at, scale)
  <2>1. \A at \in there : board.cells[at].attr \in Int
    BY DEF MapCell
  <2> QED BY <1>5, <2>1, ItemsDrawn
<1>6. CASE \E ch : copy \in drawChara(ch, frame, scale)
  BY <1>6, CharasDrawn
<1> QED BY <1>1, <1>2, <1>3, <1>4, <1>5, <1>6

(* The eagle's eye: any chip, of any cell.  *)
LEMMA EyeFromInside ==
    ASSUME NEW ee, NEW sheet, NEW copy \in drawEagleEye(ee, sheet)
    PROVE  Inside(copy)
<1> DEFINE cells == {p \in (0..ee.width - 1) \X (0..ee.height - 1) :
                       cellIndex(p[1], p[2], ee.width) < Len(ee.cells)}
           chip(at) == ee.cells[cellIndex(at[1], at[2], ee.width) + 1].chip
           chips(at) == {Copy("chip", chipSrcRect(i), <<at[1] * 16, at[2] * 16 - 8, 16, 24>>) :
                           i \in chipIndices(chip(at))}
<1>1. PICK i : /\ \E c : i \in chipIndices(c)
               /\ \E dst : copy = Copy("chip", chipSrcRect(i), dst)
  <2>1. drawEagleEye(ee, sheet) = IF ~Loaded(sheet) THEN {} ELSE UNION {chips(at) : at \in cells}
    BY DEF drawEagleEye
  <2>2. PICK at : copy \in chips(at)
    <3> HIDE DEF chips, cells
    <3> QED BY <2>1
  <2> HIDE DEF chip
  <2> QED BY <2>2
<1>2. i \in 0..31
  BY <1>1, ChipsAreThere
<1>3. PICK x \in 0..480, y \in {0, 48} : chipSrcRect(i) = <<x, y, 32, 48>>
  BY <1>2, ChipRects
<1> QED BY <1>1, <1>3, InsideImages

(* When no image is under way, what the character may look like has come   *)
(* or failed.                                                              *)
LEMMA BestIsDrawn ==
    ASSUME ImagesInv, live # Absent, loading = {}
    PROVE  /\ \A url \in Wanted(live) : Loaded(url) <=> url \in Served
           /\ \A i \in DOMAIN live.chars : resolveCharaGra(live.chars[i]) = Best(live.chars[i])
<1>1. \A url \in Wanted(live) : Loaded(url) <=> url \in Served
  BY DEF ImagesInv, Loaded
<1>2. ASSUME NEW i \in DOMAIN live.chars
      PROVE  resolveCharaGra(live.chars[i]) = Best(live.chars[i])
  <2>1. PICK ch : ch = live.chars[i]
    OBVIOUS
  <2>2. graCandidateUrls(ch) \subseteq Wanted(live)
    BY <2>1 DEF Wanted
  <2>3. fallbackGraForCode(ch.default) \in Wanted(live) /\ (ch.gra # Absent => ch.gra \in Wanted(live))
    BY <2>2 DEF graCandidateUrls
  <2> QED BY <1>1, <2>1, <2>3, ScenesAssumption DEF resolveCharaGra, Best
<1> QED BY <1>1, <1>2

LEMMA PictureShows == PictureInv => PictureIsSound
<1> SUFFICES ASSUME PictureInv PROVE PictureIsSound
  OBVIOUS
<1>1. ASSUME live # Absent
      PROVE  LET board == Board IN
             /\ \A frame \in 0..1, scale \in 1..2 :
                   \A copy \in drawMap(board, live.mapset, frame, scale) : Inside(copy)
             /\ NoSeam(buildWaterGrid(board.cells))
             /\ \A i \in DOMAIN live.chars :
                   <<live.chars[i].x, live.chars[i].y>> = Center(Side) /\ live.size = Side =>
                       <<board.chars[i].x, board.chars[i].y>> \notin
                           DOMAIN drawCharaNames(board.chars, board.dim)
  <2>1. PICK board : board = Board
    OBVIOUS
  <2>2. /\ DOMAIN board.cells = Grid(board.dim)
        /\ \A at \in Grid(board.dim) : board.cells[at] # Absent => board.cells[at] \in MapCell
    BY <1>1, <2>1, BoardCells DEF PictureInv
  <2>3. ASSUME NEW frame \in 0..1, NEW scale \in 1..2,
               NEW copy \in drawMap(board, live.mapset, frame, scale)
        PROVE  Inside(copy)
    BY <2>2, <2>3, DrawnFromInside
  <2>4. buildWaterGrid(board.cells) \in SUBSET (Int \X Int)
    <3>1. buildWaterGrid(board.cells) \subseteq Grid(board.dim)
      BY <2>2 DEF buildWaterGrid
    <3>2. \A dim : Grid(dim) \subseteq Int \X Int
      BY DEF Grid
    <3> QED BY <3>1, <3>2
  <2>5. NoSeam(buildWaterGrid(board.cells))
    BY <2>4, ShoresMeet
  <2>6. ASSUME NEW i \in DOMAIN live.chars,
               <<live.chars[i].x, live.chars[i].y>> = Center(Side), live.size = Side
        PROVE  <<board.chars[i].x, board.chars[i].y>> \notin
                   DOMAIN drawCharaNames(board.chars, board.dim)
    <3>1. <<board.chars[i].x, board.chars[i].y>> = Center(board.dim)
      BY <1>1, <2>1, <2>6, BoardChars DEF PictureInv
    <3>2. Center(board.dim) \notin DOMAIN drawCharaNames(board.chars, board.dim)
      BY DEF drawCharaNames
    <3> QED BY <3>1, <3>2
  <2> QED BY <2>1, <2>3, <2>5, <2>6
<1>2. live # Absent /\ loading = {} =>
        /\ \A url \in Wanted(live) : Loaded(url) <=> url \in Served
        /\ \A i \in DOMAIN live.chars : resolveCharaGra(live.chars[i]) = Best(live.chars[i])
  BY BestIsDrawn DEF PictureInv
<1>3. \A copy \in drawEagleEye(eagle, live.mapset) : Inside(copy)
  BY EyeFromInside
<1> QED BY <1>1, <1>2, <1>3 DEF PictureIsSound

(* The picture is sound: nothing is copied from outside an image, waters   *)
(* that touch agree on their shores, the player's own character has no     *)
(* label, and when no image is under way each character has the best that  *)
(* there is, however maps and batches crossed.                             *)
(* (lib/drawMap.ts, mapRender.ts, drawEagleEye.ts, useImage.ts, charaGra.) *)
THEOREM PictureStaysSound == MapSpec => []PictureIsSound
<1>1. MapInit => PictureInv
  BY DEF MapInit, PictureInv, CellsInv, LiveInv, ImagesInv, AreTiles, Nothing
<1>2. PictureInv /\ [MapNext]_mapVars => PictureInv'
  BY PictureStep
<1> QED BY <1>1, <1>2, PictureShows, PTL DEF MapSpec
-----------------------------------------------------------------------------
(* The types, whatever scenes the maps bring: the map is one of the         *)
(* protocol's, the record has a map's cells, and no image is asked for that *)
(* is there.                                                                *)
Scenic(scene) == scene.mapset \in Names /\ scene.chars \in Seq(MapChar)
CountTyped == mapCount \in [maps : 0..MaxMaps, faults : 0..MaxMapFaults]
RecordTyped == (tiles # <<>> => tiles = <<tiles[1]>>) /\ CellsInv /\ AreTiles(seen)
WorldTyped == land \in Lands /\ blind \in BOOLEAN /\ narrow \in BOOLEAN
MapTyped ==
    /\ WorldTyped /\ RecordTyped /\ CountTyped
    /\ live # Absent => live \in MapEvent
    /\ DOMAIN cache \cap loading = {}

LEMMA RevealedCells ==
    ASSUME land \in Lands, NEW stand \in Stands, NEW hidden
    PROVE  AreTiles(Revealed(stand, hidden))
<1>1. ASSUME NEW at \in Grid(Side) PROVE land[<<stand[1] + at[1] - Middle, stand[2] + at[2] - Middle>>] \in MapCell
  BY WorldAssumption
<1> QED BY <1>1 DEF Revealed, AreTiles

LEMMA AbsorbTyped ==
    ASSUME RecordTyped, CountTyped, mapCount.maps < MaxMaps,
           NEW map, map.cells \in [1..Side * Side -> MapCell], Absorb(map)
    PROVE  (tiles # <<>> => tiles = <<tiles[1]>>)' /\ CellsInv' /\ CountTyped'
<1>1. CellsInv'
  BY AbsorbsCells DEF RecordTyped
<1>2. PICK next : tiles' = <<next>>
  BY DEF Absorb
<1>3. \/ mapCount' = [mapCount EXCEPT !.maps = @ + 1]
      \/ /\ mapCount.faults < MaxMapFaults
         /\ mapCount' = [maps |-> mapCount.maps + 1, faults |-> mapCount.faults + 1]
  BY DEF Absorb
<1>4. CountTyped'
  BY <1>3, MapAssumption DEF CountTyped
<1> QED BY <1>1, <1>2, <1>4

LEMMA MapArrivesTyped ==
    ASSUME MapTyped, NEW stand \in Stands, NEW hidden, NEW size \in {Side, Side - 2},
           NEW style \in {"turn", "solid"}, NEW scene, Scenic(scene), NEW placed \in BOOLEAN,
           MapArrives(stand, hidden, size, style, scene, placed)
    PROVE  MapTyped'
<1> DEFINE pos == IF placed THEN [x |-> stand[1], y |-> stand[2]] ELSE Absent
           map == [type |-> "map", session |-> CHOOSE s \in Sessions : TRUE, size |-> size,
                   dir |-> "N", style |-> style, mapset |-> scene.mapset,
                   cells |-> Look(stand, size, hidden), chars |-> scene.chars, signs |-> <<>>,
                   pos |-> pos]
<1>0. land \in Lands /\ size \in Nat
  <2>1. size \in Nat
    BY MapAssumption
  <2> QED BY <2>1 DEF MapTyped, WorldTyped
<1>1. Look(stand, size, hidden) \in [1..size * size -> MapCell]
  BY <1>0, LookShowsCells
<1>2. Look(stand, size, hidden) \in Seq(MapCell)
  <2>1. size * size \in Nat
    BY <1>0, SquareIsNat
  <2> QED BY <1>1, <2>1
<1>3. pos \in Optional([x : Int, y : Int])
  <2>1. stand[1] \in Int /\ stand[2] \in Int
    BY WorldAssumption
  <2> QED BY <2>1 DEF Optional
<1> HIDE DEF pos
<1>4. map \in MapEvent /\ map.cells = Look(stand, size, hidden) /\ map.size = size
  <2>1. (CHOOSE s \in Sessions : TRUE) \in Sessions
    BY MapAssumption
  <2>2. <<>> \in Seq(MapSign)
    OBVIOUS
  <2>3. scene.mapset \in Names /\ scene.chars \in Seq(MapChar)
    BY DEF Scenic
  <2>4. "N" \in Dir \cup DirNumber
    BY DEF Dir, CompassDir
  <2> QED BY <1>0, <1>2, <1>3, <2>1, <2>2, <2>3, <2>4 DEF MapEvent
<1>5. /\ mapCount.maps < MaxMaps
      /\ live' = map
      /\ seen' = (IF ~blind /\ placed /\ size = Side /\ style = "solid"
                    THEN Over(Revealed(stand, hidden), seen) ELSE seen)
      /\ IF guardBlind /\ Recordable(map) THEN Absorb(map)
         ELSE /\ mapCount' = [mapCount EXCEPT !.maps = @ + 1]
              /\ UNCHANGED <<tiles, disk, excuse>>
      /\ loading' = Batch(Wanted(map))
      /\ UNCHANGED <<land, blind, narrow, eagle, cache>>
  BY DEF MapArrives, pos
<1> HIDE DEF map
<1>6. AreTiles(seen')
  <2>1. AreTiles(seen)
    BY DEF MapTyped, RecordTyped
  <2>2. AreTiles(Over(Revealed(stand, hidden), seen))
    BY <1>0, <2>1, RevealedCells DEF Over, AreTiles
  <2> QED BY <1>5, <2>1, <2>2
<1>7. RecordTyped' /\ CountTyped'
  <2>1. CASE guardBlind /\ Recordable(map)
    <3>1. map.cells \in [1..Side * Side -> MapCell]
      BY <1>1, <1>4, <2>1 DEF Recordable
    <3>2. Absorb(map) /\ mapCount.maps < MaxMaps
      BY <1>5, <2>1
    <3> QED BY <1>6, <3>1, <3>2, AbsorbTyped DEF MapTyped, RecordTyped, AreTiles
  <2>2. CASE ~(guardBlind /\ Recordable(map))
    <3>1. mapCount' = [mapCount EXCEPT !.maps = @ + 1] /\ UNCHANGED <<tiles, disk, excuse>>
      BY <1>5, <2>2
    <3>2. CountTyped'
      BY <1>5, <3>1, MapAssumption DEF MapTyped, CountTyped
    <3> QED BY <1>6, <3>1, <3>2 DEF MapTyped, RecordTyped, CellsInv, AreTiles
  <2> QED BY <2>1, <2>2
<1>8. (DOMAIN cache \cap loading = {})'
  BY <1>5 DEF Batch
<1>9. WorldTyped'
  BY <1>5 DEF MapTyped, WorldTyped
<1> QED BY <1>4, <1>5, <1>7, <1>8, <1>9 DEF MapTyped

LEMMA MapsArriveTyped ==
    ASSUME MapTyped, NEW hiddens, NEW scenes, \A scene \in scenes : Scenic(scene),
           MapsArrive(hiddens, scenes)
    PROVE  MapTyped'
  BY MapArrivesTyped DEF MapsArrive

LEMMA WalkTyped ==
    ASSUME MapTyped, Walk \/ Load \/ UNCHANGED mapVars
    PROVE  MapTyped'
<1>1. CASE ReloadPage
  <2>1. CountTyped' /\ WorldTyped' /\ live' = live
    BY <1>1 DEF ReloadPage, MapTyped, CountTyped, WorldTyped
  <2>2. RecordTyped'
    BY <1>1 DEF ReloadPage, MapTyped, RecordTyped, CellsInv, AreTiles
  <2>3. (DOMAIN cache \cap loading = {})'
    BY <1>1 DEF ReloadPage
  <2> QED BY <2>1, <2>2, <2>3 DEF MapTyped
<1>2. ASSUME NEW url \in loading, ImageComes(url) PROVE MapTyped'
  <2>1. DOMAIN cache' = DOMAIN cache \cup {url} /\ loading' = loading \ {url}
    BY <1>2 DEF ImageComes, Over
  <2>2. (DOMAIN cache \cap loading = {})'
    BY <2>1 DEF MapTyped
  <2>3. UNCHANGED <<land, live, blind, tiles, disk, seen, narrow, mapCount>>
    BY <1>2 DEF ImageComes, recorded
  <2> QED BY <2>2, <2>3 DEF MapTyped, CountTyped, WorldTyped, RecordTyped, CellsInv, AreTiles
<1>3. CASE \/ (\E l \in Lands : WorldChanges(l)) \/ ConditionChanges
           \/ EagleEyeArrives(<<Fog, OutOfSight>>) \/ UNCHANGED mapVars
  <2>1. UNCHANGED <<live, tiles, disk, seen, cache, loading, mapCount>>
    BY <1>3 DEF WorldChanges, ConditionChanges, EagleEyeArrives, recorded, images, mapVars
  <2>2. WorldTyped'
    BY <1>3 DEF WorldChanges, ConditionChanges, EagleEyeArrives, mapVars, MapTyped, WorldTyped
  <2> QED BY <2>1, <2>2 DEF MapTyped, CountTyped, RecordTyped, CellsInv, AreTiles
<1> QED BY <1>1, <1>2, <1>3 DEF Walk, Load

LEMMA MapTypedInit == MapInit => MapTyped
<1> SUFFICES ASSUME MapInit PROVE MapTyped
  OBVIOUS
<1>1. CountTyped
  BY MapAssumption DEF MapInit, CountTyped
<1>2. RecordTyped
  BY DEF MapInit, RecordTyped, CellsInv, AreTiles, Nothing
<1> QED BY <1>1, <1>2 DEF MapInit, MapTyped, WorldTyped

LEMMA MapTypedImplies == MapTyped => MapTypeOK
  BY DEF MapTyped, MapTypeOK, CountTyped, WorldTyped, RecordTyped, CellsInv

(* The types of the map hold always: what is kept of it is one of the       *)
(* protocol's maps, and the record has such a map's cells, whatever came of *)
(* the disk and of pages loaded again.                                      *)
THEOREM MapTypes == MapSpec => []MapTypeOK
<1>1. MapInit => MapTyped
  BY MapTypedInit
<1>2. MapTyped /\ [MapNext]_mapVars => MapTyped'
  <2> SUFFICES ASSUME MapTyped, [MapNext]_mapVars PROVE MapTyped'
    OBVIOUS
  <2>1. \A scene \in Scenes : Scenic(scene)
    BY ScenesAssumption DEF Scenic
  <2> QED BY <2>1, MapsArriveTyped, WalkTyped DEF MapNext
<1>3. MapTyped => MapTypeOK
  BY MapTypedImplies
<1> QED BY <1>1, <1>2, <1>3, PTL DEF MapSpec
=============================================================================
