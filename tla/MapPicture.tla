----------------------------- MODULE MapPicture -----------------------------
(***************************************************************************)
(* The picture of the map: the recorded map (stores/automapStore.ts), the  *)
(* images as they are loaded (lib/useImage.ts) and chosen (lib/charaGra.ts)*)
(* and what is drawn from them (lib/mapRender.ts, drawMap.ts,              *)
(* drawEagleEye.ts; components/MapView.tsx, EagleEyeView.tsx).             *)
(*                                                                         *)
(* One session in the one world that sends positions; a map without one    *)
(* comes from another.  The game has told the world before its first map,  *)
(* and a condition before the first map that it changes.                   *)
(***************************************************************************)
EXTENDS Protocol, FiniteSets

CONSTANTS
    Side,     \* cells on a side of the normal map (7 in the program)
    Ring,     \* AUTOMAP_RING (4 in the program)
    Stands,   \* where the character may stand
    Lands,    \* what the world may look like: the cell of each place
    Hidden,   \* which cells of the normal map may be out of sight
    Scenes,   \* chip set and characters that a map may have
    Served,   \* images that the gateway has
    MaxMaps, MaxMapFaults

ASSUME MapAssumption ==
    /\ Side \in Nat /\ Side >= 3 /\ Side % 2 = 1 /\ Ring \in Nat
    /\ MaxMaps \in Nat /\ MaxMapFaults \in Nat
    /\ Sessions # {}

VARIABLES
    land,      \* the world
    live,      \* mapStore: the last map
    blind,     \* the condition
    tiles,     \* automapStore.byWorld: nothing, or the record of the world
    disk,      \* localStorage phi_automap:<world>
    narrow,    \* the window is as narrow as a telephone
    eagle,     \* eagleEyeStore
    cache,     \* useImages: images loaded, and those that failed
    loading,   \* the batch that is not cancelled
    seen,      \* history: what each place was when it was shown last
    excuse,    \* history: places that no save has reached yet, and those
               \* that were lost for it with the page
    mapCount

recorded == <<tiles, disk, seen, excuse>>
images == <<cache, loading>>
mapVars == <<land, live, blind, recorded, narrow, eagle, images, mapCount>>

AreTiles(f) == \A p \in DOMAIN f : f[p] \in MapCell

MapTypeOK ==
    /\ land \in Lands
    /\ live # Absent => live \in MapEvent
    /\ blind \in BOOLEAN /\ narrow \in BOOLEAN
    /\ (tiles # <<>> => tiles = <<tiles[1]>> /\ AreTiles(tiles[1])) /\ AreTiles(disk) /\ AreTiles(seen)
    /\ DOMAIN cache \cap loading = {}
    /\ mapCount \in [maps : 0..MaxMaps, faults : 0..MaxMapFaults]
-----------------------------------------------------------------------------
(* The record. *)
Unknown == "?"
Middle == Side \div 2
Nothing == [p \in {} |-> [chip |-> Unknown, attr |-> 0]]

Grid(dim) == (0..dim - 1) \X (0..dim - 1)

(* Wherever the character stands, the world has a cell that can be told    *)
(* from one out of sight.                                                  *)
ASSUME WorldAssumption ==
    /\ Absent \notin [x : Int, y : Int]
    /\ Stands \subseteq Int \X Int
    /\ \A l \in Lands, stand \in Stands, at \in Grid(Side) :
          LET cell == l[<<stand[1] + at[1] - Middle, stand[2] + at[2] - Middle>>] IN
          cell \in MapCell /\ cell.chip # Unknown

ASSUME ScenesAssumption ==
    /\ Absent \notin Served
    /\ \A scene \in Scenes : scene.mapset \in Names /\ scene.chars \in Seq(MapChar)

cellIndex(x, y, size) == y * size + x
Recordable(map) ==
    /\ map.pos # Absent /\ map.size = Side /\ map.style = "solid"
    /\ Len(map.cells) = Side * Side
InSight(map) == {i \in 0..Side * Side - 1 : map.cells[i + 1].chip # Unknown}

(* absorb: the cells in sight, over what was known. *)
Over(new, old) ==
    [p \in DOMAIN new \cup DOMAIN old |-> IF p \in DOMAIN new THEN new[p] ELSE old[p]]
PlaceOf(map, i) == <<map.pos.x + (i % Side) - Middle, map.pos.y + i \div Side - Middle>>
Absorbed(map, known) ==
    Over([p \in {PlaceOf(map, i) : i \in InSight(map)} |->
            map.cells[1 + CHOOSE i \in InSight(map) : PlaceOf(map, i) = p]], known)
Absorb(map) ==
    LET known == IF tiles = <<>> THEN disk ELSE tiles[1]
        next == Absorbed(map, known)
        news == {p \in DOMAIN next : p \notin DOMAIN known \/ next[p] # known[p]}
        lost == excuse.lost \ {PlaceOf(map, i) : i \in InSight(map)}
    IN  /\ tiles' = <<next>>
        /\ \/ /\ disk' = (IF news = {} THEN disk ELSE next)
              /\ excuse' = [unsaved |-> IF news = {} THEN excuse.unsaved ELSE {}, lost |-> lost]
              /\ mapCount' = [mapCount EXCEPT !.maps = @ + 1]
           \/ /\ news # {} /\ mapCount.faults < MaxMapFaults    \* the quota
              /\ mapCount' = [maps |-> mapCount.maps + 1, faults |-> mapCount.faults + 1]
              /\ UNCHANGED disk
              /\ excuse' = [unsaved |-> excuse.unsaved \cup news, lost |-> lost]

(* composeAutomap: the normal map in the middle of the record.  A board    *)
(* has a cell or none at each <<column, row>>.                             *)
composeAutomap(map, known, ring) ==
    LET dim == Side + 2 * ring
        half == (dim - 1) \div 2
        inner(at) == at[1] \in ring..ring + Side - 1 /\ at[2] \in ring..ring + Side - 1
        liveCell(at) ==
            IF inner(at) THEN map.cells[cellIndex(at[1] - ring, at[2] - ring, Side) + 1] ELSE Absent
        isLive(at) == inner(at) /\ liveCell(at).chip # Unknown
        place(at) == <<map.pos.x + at[1] - half, map.pos.y + at[2] - half>>
    IN  [dim |-> dim,
         cells |-> [at \in Grid(dim) |->
                      IF isLive(at) \/ place(at) \notin DOMAIN known THEN liveCell(at)
                                                                   ELSE known[place(at)]],
         recalled |-> {at \in Grid(dim) :
                         ~isLive(at) /\ (inner(at) => place(at) \in DOMAIN known)},
         chars |-> [i \in DOMAIN map.chars |->
                      [map.chars[i] EXCEPT !.x = @ + ring, !.y = @ + ring]]]

(* What MapView draws: the composed board, or the map as it is. *)
Composed == live # Absent /\ Recordable(live) /\ tiles # <<>>
Board ==
    IF Composed THEN composeAutomap(live, tiles[1], IF narrow THEN 0 ELSE Ring)
    ELSE [dim |-> live.size,
          cells |-> [at \in Grid(live.size) |-> live.cells[cellIndex(at[1], at[2], live.size) + 1]],
          recalled |-> {}, chars |-> live.chars]
-----------------------------------------------------------------------------
(* Images.  The name of a graphic stands for its URL, in which case does   *)
(* not matter.                                                             *)
DEFAULT_GRA == "t_elf"
charaTypeFallback ==
    [code \in {0, 1, 2, 3, 5, 7} |->
        CASE code = 0 -> "t_man" [] code = 1 -> "t_elf" [] code = 2 -> "t_dog"
          [] code = 3 -> "t_fightery" [] code = 5 -> "t_ghost1" [] code = 7 -> "tak_bslime"]
fallbackGraForCode(code) ==
    IF code \in DOMAIN charaTypeFallback THEN charaTypeFallback[code] ELSE DEFAULT_GRA
graCandidateUrls(ch) ==
    ({ch.gra} \ {Absent}) \cup {fallbackGraForCode(ch.default), DEFAULT_GRA}

hasItem(attr) == (attr \div 16) % 8 # 0
Wanted(map) ==
    {map.mapset} \cup (IF \E i \in DOMAIN map.cells : hasItem(map.cells[i].attr) THEN {"items"} ELSE {})
        \cup UNION {graCandidateUrls(map.chars[i]) : i \in DOMAIN map.chars}

(* resolveCharaGra, over the images that are there. *)
Loaded(url) == url \in DOMAIN cache /\ cache[url]
resolveCharaGra(ch) ==
    IF ch.gra # Absent /\ Loaded(ch.gra) THEN ch.gra
    ELSE IF Loaded(fallbackGraForCode(ch.default)) THEN fallbackGraForCode(ch.default)
    ELSE Absent

(* useImages: other URLs cancel the batch under way, and what it has not   *)
(* brought yet is asked for again.                                         *)
Batch_Once(urls) == urls \ (DOMAIN cache \cup loading)
Batch(urls) == urls \ DOMAIN cache
ImageComes(url) ==
    /\ url \in loading
    /\ cache' = Over([u \in {url} |-> u \in Served], cache)
    /\ loading' = loading \ {url}
    /\ UNCHANGED <<land, live, blind, recorded, narrow, eagle, mapCount>>
-----------------------------------------------------------------------------
(* Drawing: a set of copies from a rectangle of an image to one of the     *)
(* canvas, each <<x, y, width, height>>, in pixels.                        *)
CHIP_SIZE == 32
CHIP_HEIGHT == 48
Copy(image, src, dst) == [image |-> image, src |-> src, dst |-> dst]

CHIP_BYTE_TO_INDEX ==
    [chip \in Chip \ {"~"} |->
        CASE chip \in {" ", "s"} -> {0} [] chip = ":" -> {1} [] chip = "+" -> {2}
          [] chip = "T" -> {1, 3} [] chip = "_" -> {4} [] chip = "o" -> {5} [] chip = "@" -> {6}
          [] chip = "#" -> {7} [] chip = "H" -> {8} [] chip = "I" -> {9} [] chip = "=" -> {10}
          [] chip = "[" -> {11} [] chip = "{" -> {12} [] chip = "|" -> {13} [] chip = "x" -> {14}
          [] chip = "%" -> {15} [] chip = "/" -> {16} [] chip = ">" -> {17} [] chip = "?" -> {31}]
chipIndices(chip) ==
    IF chip \in DOMAIN CHIP_BYTE_TO_INDEX THEN CHIP_BYTE_TO_INDEX[chip] ELSE {0}
chipSrcRect(index) == <<(index % 16) * CHIP_SIZE, (index \div 16) * CHIP_HEIGHT, CHIP_SIZE, CHIP_HEIGHT>>
chipClass(index) == IF index \in {0, 1, 2, 4, 5} THEN "tile" ELSE "stretch"

(* A chip hangs over its cell by its upper third; a flat one that is       *)
(* enlarged is laid four times instead.                                    *)
drawChip(index, class, at, scale) ==
    LET r == chipSrcRect(index)
        cs == CHIP_SIZE * scale
        over == CHIP_HEIGHT - CHIP_SIZE
    IN  IF scale = 2 /\ class = "tile"
          THEN {Copy("chip", <<r[1], r[2] + over, CHIP_SIZE, CHIP_SIZE>>,
                     <<at[1] * cs + tx * CHIP_SIZE, at[2] * cs + ty * CHIP_SIZE, CHIP_SIZE, CHIP_SIZE>>) :
                  tx \in 0..1, ty \in 0..1}
          ELSE {Copy("chip", r,
                     <<at[1] * cs, at[2] * cs - over * scale, cs, CHIP_HEIGHT * scale>>)}

(* The shores of water: for each quarter (0 to 3, row by row) which of its *)
(* diagonal, vertical and horizontal neighbours are water (bits 0 to 2).   *)
buildWaterGrid(cells) ==
    {at \in DOMAIN cells : cells[at] # Absent /\ cells[at].chip = "_"}
waterQuarterPattern(water, at, q) ==
    LET side == IF q % 2 = 0 THEN -1 ELSE 1
        up == IF q \div 2 = 0 THEN -1 ELSE 1
        bit(p) == IF p \in water THEN 1 ELSE 0
    IN  bit(<<at[1] + side, at[2] + up>>) + 2 * bit(<<at[1], at[2] + up>>)
            + 4 * bit(<<at[1] + side, at[2]>>)
Q_TABLE(q, pattern) ==
    CASE pattern \in {0, 1} -> <<1, q>>
      [] pattern \in {2, 3} -> <<0, q % 2>>
      [] pattern \in {4, 5} -> <<0, 2 + q \div 2>>
      [] pattern = 6 -> <<2, 3 - q>>
WATER_CHIP_BASE == 23
Shored(water, at) == {q \in 0..3 : waterQuarterPattern(water, at, q) # 7}
Shore(water, at, q) == Q_TABLE(q, waterQuarterPattern(water, at, q))
chipQuarterSrcRect(index, quarter) ==
    LET r == chipSrcRect(index) IN
    <<r[1] + 16 * (quarter % 2), r[2] + 16 + 16 * (quarter \div 2), 16, 16>>
drawShores(water, at, scale) ==
    LET half == 16 * scale IN
    {LET shore == Shore(water, at, q) IN
     Copy("chip", chipQuarterSrcRect(WATER_CHIP_BASE + shore[1], shore[2]),
          <<(2 * at[1] + (q % 2)) * half, (2 * at[2] + q \div 2) * half, half, half>>) :
        q \in Shored(water, at)}

(* Boards and items. *)
hasBoard(attr) == (attr \div 8) % 2 = 1
boardChipIndex(chip) == IF chip \in {"@", "#", "H", "=", "[", "{", "|", "%"} THEN 20 ELSE 18
itemNo(attr) == (attr \div 16) % 8
itemDrawRect(no, chip, at, scale) ==
    LET circle == chip \in {"x", "%"}
        h == IF circle THEN 21 ELSE 32
    IN  Copy("items", <<no * 32, IF circle /\ no \in {5, 6} THEN 5 ELSE 0, 32, h>>,
             <<at[1] * 32 * scale, at[2] * 32 * scale + 8 * scale, 32 * scale, h * scale>>)

(* Characters. *)
dirToRow(dir) ==
    CASE dir \in {"B", "0", "1", "7"} -> 0
      [] dir \in {"R", "2"} -> 1
      [] dir \in {"L", "6"} -> 3
      [] dir \notin {"B", "0", "1", "7", "R", "2", "L", "6"} -> 2
charaSrcRect(ch, frame, large) ==
    IF large \/ ch.gigant = "*" THEN <<32 + frame * 32, dirToRow(ch.dir) * 32, 32, 32>>
                                ELSE <<frame * 16, dirToRow(ch.dir) * 32, 16, 32>>
magnifiedDst(x, y, m, scale) ==
    <<x - (m.w * scale - 32) \div 2, y - (((m.h * scale - 32) * 5) \div 6 + m.z * scale),
      m.w * scale, m.h * scale>>
drawChara(ch, frame, scale) ==
    LET r == charaSrcRect(ch, frame, scale = 2)
        x == ch.x * 32 * scale + (32 * scale - r[3]) \div 2
        y == ch.y * 32 * scale + (32 * scale - 32) \div 2
    IN  IF resolveCharaGra(ch) = Absent THEN {}    \* the first letter of the name
        ELSE {Copy("chara", r, IF ch.magnify = Absent THEN <<x, y, r[3], r[4]>>
                                                     ELSE magnifiedDst(x, y, ch.magnify, scale))}

Center(dim) == <<dim \div 2, dim \div 2>>
drawCharaNames(chars, dim) ==
    [at \in {<<chars[i].x, chars[i].y>> : i \in DOMAIN chars} \cap (Grid(dim) \ {Center(dim)}) |->
        LET here == {i \in DOMAIN chars : <<chars[i].x, chars[i].y>> = at}
        IN  chars[CHOOSE i \in here : \A j \in here : j <= i].name]

drawMap(board, sheet, frame, scale) ==
    LET there == {at \in Grid(board.dim) : board.cells[at] # Absent}
        water == buildWaterGrid(board.cells)
        chips(at) == UNION {drawChip(i, chipClass(i), at, scale) : i \in chipIndices(board.cells[at].chip)}
        boards(at) == drawChip(boardChipIndex(board.cells[at].chip), "stretch", at, scale)
    IN  (IF Loaded(sheet)
           THEN (UNION {chips(at) : at \in there}) \cup (UNION {drawShores(water, at, scale) : at \in water})
                  \cup (UNION {boards(at) : at \in {p \in there : hasBoard(board.cells[p].attr)}})
           ELSE {})
        \cup (IF Loaded("items")
                THEN {itemDrawRect(itemNo(board.cells[at].attr), board.cells[at].chip, at, scale) :
                        at \in {p \in there : hasItem(board.cells[p].attr)}}
                ELSE {})
        \cup UNION {drawChara(board.chars[i], frame, scale) :
                      i \in {j \in DOMAIN board.chars : <<board.chars[j].x, board.chars[j].y>> \in there}}

(* EagleEye, at half the size. *)
drawEagleEye(ee, sheet) ==
    IF ~Loaded(sheet) THEN {}
    ELSE UNION {{Copy("chip", chipSrcRect(i), <<at[1] * 16, at[2] * 16 - 8, 16, 24>>) :
                    i \in chipIndices(ee.cells[cellIndex(at[1], at[2], ee.width) + 1].chip)} :
                  at \in {p \in (0..ee.width - 1) \X (0..ee.height - 1) :
                            cellIndex(p[1], p[2], ee.width) < Len(ee.cells)}}
-----------------------------------------------------------------------------
MapInit ==
    /\ land \in Lands /\ live = Absent /\ blind = FALSE
    /\ tiles = <<>> /\ disk = Nothing /\ seen = Nothing
    /\ excuse = [unsaved |-> {}, lost |-> {}]
    /\ narrow \in BOOLEAN /\ eagle = Absent
    /\ cache = [u \in {} |-> TRUE] /\ loading = {}
    /\ mapCount = [maps |-> 0, faults |-> 0]

(* The map as the game tells it: fog for the blind. *)
Fog == [chip |-> " ", attr |-> 0]
OutOfSight == [chip |-> Unknown, attr |-> 0]
Look(stand, size, hidden) ==
    [i \in 1..size * size |->
        LET at == <<(i - 1) % size, (i - 1) \div size>> IN
        IF blind THEN Fog
        ELSE IF at \in hidden THEN OutOfSight
        ELSE land[<<stand[1] + at[1] - size \div 2, stand[2] + at[2] - size \div 2>>]]
Revealed(stand, hidden) ==
    [p \in {<<stand[1] + at[1] - Middle, stand[2] + at[2] - Middle>> : at \in Grid(Side) \ hidden} |->
        land[p]]

(* The 'map' handler. *)
guardBlind_Not == TRUE
guardBlind == ~blind
MapArrives(stand, hidden, size, style, scene, placed) ==
    LET map == [type |-> "map", session |-> CHOOSE s \in Sessions : TRUE, size |-> size,
                dir |-> "N", style |-> style, mapset |-> scene.mapset,
                cells |-> Look(stand, size, hidden), chars |-> scene.chars, signs |-> <<>>,
                pos |-> IF placed THEN [x |-> stand[1], y |-> stand[2]] ELSE Absent]
    IN  /\ mapCount.maps < MaxMaps
        /\ live' = map
        /\ seen' = (IF ~blind /\ placed /\ size = Side /\ style = "solid"
                      THEN Over(Revealed(stand, hidden), seen) ELSE seen)
        /\ IF guardBlind /\ Recordable(map) THEN Absorb(map)
           ELSE /\ mapCount' = [mapCount EXCEPT !.maps = @ + 1]
                /\ UNCHANGED <<tiles, disk, excuse>>
        /\ loading' = Batch(Wanted(map))
        /\ UNCHANGED <<land, blind, narrow, eagle, cache>>

WorldChanges(l) ==
    /\ l # land /\ land' = l
    /\ UNCHANGED <<live, blind, recorded, narrow, eagle, images, mapCount>>
ConditionChanges ==
    /\ blind' = ~blind
    /\ UNCHANGED <<land, live, recorded, narrow, eagle, images, mapCount>>
EagleEyeArrives(cells) ==
    /\ eagle' = [width |-> 2, height |-> 1, self |-> [x |-> 0, y |-> 0], cells |-> cells]
    /\ UNCHANGED <<land, live, blind, recorded, narrow, images, mapCount>>

(* The page is loaded again: the snapshot brings back the map, which is    *)
(* not recorded, and the record is read from the disk when the next one    *)
(* comes.                                                                  *)
ReloadPage ==
    /\ live # Absent
    /\ tiles' = <<>>
    /\ excuse' = [unsaved |-> {}, lost |-> excuse.lost \cup excuse.unsaved]
    /\ cache' = [u \in {} |-> TRUE] /\ loading' = Wanted(live)
    /\ eagle' = Absent
    /\ UNCHANGED <<land, live, blind, disk, seen, narrow, mapCount>>

MapsArrive(hiddens, scenes) ==
    \E stand \in Stands, scene \in scenes :
        \/ MapArrives(stand, {}, Side, "turn", scene, TRUE)
        \/ MapArrives(stand, {}, Side - 2, "solid", scene, TRUE)
        \/ \E hidden \in hiddens, placed \in BOOLEAN :
              MapArrives(stand, hidden, Side, "solid", scene, placed)
Walk == ConditionChanges \/ ReloadPage \/ \E l \in Lands : WorldChanges(l)
Load == EagleEyeArrives(<<Fog, OutOfSight>>) \/ \E url \in loading : ImageComes(url)
MapNext == MapsArrive(Hidden, Scenes) \/ Walk \/ Load

MapSpec == MapInit /\ [][MapNext]_mapVars
-----------------------------------------------------------------------------
(* The record is true: whatever the walk, the fog, the pages loaded again  *)
(* and the saves that failed, a cell that is drawn from the record shows   *)
(* what was at that place when it was shown last, and everything shown     *)
(* before that lies on the board is drawn.  (Except what was never saved   *)
(* and went with a page, until it is seen again.)                          *)
RecallIsTrue ==
    Composed =>
        LET board == Board
            place(at) == <<live.pos.x + at[1] - board.dim \div 2, live.pos.y + at[2] - board.dim \div 2>>
        IN  \A at \in Grid(board.dim) :
              IF place(at) \in excuse.lost THEN TRUE
              ELSE IF at \in board.recalled
                THEN board.cells[at] = IF place(at) \in DOMAIN seen THEN seen[place(at)] ELSE Absent
                ELSE board.cells[at].chip = Unknown => place(at) \notin DOMAIN seen

(* The picture is sound: nothing is copied from outside an image, the      *)
(* quarters of two waters that touch both have a shore or neither, the     *)
(* player's own character has no label on the larger board either, and     *)
(* when no image is under way each character has the best that there is,   *)
(* however maps and batches crossed.                                       *)
ImageSize == [chip |-> <<512, 96>>, items |-> <<256, 32>>, chara |-> <<96, 128>>]
Inside(copy) ==
    copy.src[1] + copy.src[3] <= ImageSize[copy.image][1]
        /\ copy.src[2] + copy.src[4] <= ImageSize[copy.image][2]
        /\ copy.src[1] >= 0 /\ copy.src[2] >= 0
NoSeam(water) ==
    \A at \in water :
        LET right == <<at[1] + 1, at[2]>>
            below == <<at[1], at[2] + 1>>
            both(p, q, r) == q \in Shored(water, at) <=> r \in Shored(water, p)
        IN  /\ right \in water => both(right, 1, 0) /\ both(right, 3, 2)
            /\ below \in water => both(below, 2, 0) /\ both(below, 3, 1)
Best(ch) ==
    IF ch.gra \in Served THEN ch.gra
    ELSE IF fallbackGraForCode(ch.default) \in Served THEN fallbackGraForCode(ch.default) ELSE Absent
PictureIsSound ==
    /\ live # Absent => LET board == Board IN
        /\ \A frame \in 0..1, scale \in 1..2 :
              \A copy \in drawMap(board, live.mapset, frame, scale) : Inside(copy)
        /\ NoSeam(buildWaterGrid(board.cells))
        /\ \A i \in DOMAIN live.chars :
              /\ <<live.chars[i].x, live.chars[i].y>> = Center(Side) /\ live.size = Side =>
                    <<board.chars[i].x, board.chars[i].y>> \notin
                        DOMAIN drawCharaNames(board.chars, board.dim)
              /\ loading = {} => resolveCharaGra(live.chars[i]) = Best(live.chars[i])
        /\ loading = {} => \A url \in Wanted(live) : Loaded(url) <=> url \in Served
    /\ eagle # Absent /\ live # Absent => \A copy \in drawEagleEye(eagle, live.mapset) : Inside(copy)
=============================================================================
