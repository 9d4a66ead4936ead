---------------------------- MODULE RoverControl ----------------------------
(***************************************************************************)
(* The rover control server of 892/Lab4-5: the in-memory store (store.py), *)
(* the request handlers that call it (app.py) and the rover simulator      *)
(* (simulator.py).                                                         *)
(*                                                                         *)
(* Every handler is a plain `def`, so the framework runs each request on a *)
(* thread of a pool, and nothing in the store takes a lock.  A Worker is   *)
(* such a thread.  The store maps ids to mine and rover objects, which the *)
(* handlers change in place: two workers may hold one object, and go on    *)
(* with it after its id was deleted or given to another object.  A step is *)
(* what a handler checks, or one attribute or entry that it writes, or one *)
(* attribute that it copies; the other workers' steps come in between.     *)
(* With one worker the requests are serial.                                *)
(***************************************************************************)
EXTENDS Integers, Sequences

CONSTANTS
    Workers,      \* the threads of the request pool
    Serials,      \* serial numbers a client may give a mine
    Programs,     \* command strings a client may give a rover
    DefaultSide,  \* side of the square map of a new store (8 in store.py)
    MaxSide,      \* greatest width and height a resize may ask for (50 in models.py)
    MaxMines,     \* bound of the model: no mine is requested past this id
    MaxRovers,    \* bound of the model: no rover is requested past this id
    Objects       \* the places of rover objects: one for each rover and each worker

Commands == {"L", "R", "M", "D"}

\* A new store is legal for its own resize rule, programs are command
\* strings, and the bounds are numbers.
ASSUME StoreAssumption ==
    /\ DefaultSide \in Nat \ {0}
    /\ MaxSide \in Nat \ {0}
    /\ DefaultSide <= MaxSide
    /\ Programs \subseteq Seq(Commands)
    /\ MaxMines \in Nat
    /\ MaxRovers \in Nat
    /\ Objects \subseteq Nat \ {0}
    /\ "none" \notin Serials

VARIABLES
    width, height,  \* MemoryStore.width, .height
    mine,           \* every mine object made so far
    mines,          \* MemoryStore.mines: id -> place in mine
    rover,          \* the rover object at each place, NoRover if nobody refers to it
    rovers,         \* MemoryStore.rovers: id -> place in rover
    nextMine,       \* MemoryStore._mine_id
    nextRover,      \* MemoryStore._rover_id
    pc,             \* where each worker is in its request
    form,           \* the checked request a worker writes; in defuse_mine, its id and PIN
    held,           \* the rover object an update writes or a dispatch copies, or 0
    copy,           \* dispatch_rover's deep copy, or the rover another handler has made
    here            \* the mine object a handler holds, or 0 for None

sides == <<width, height>>
ids == <<nextMine, nextRover>>
store == <<sides, mine, mines, rover, rovers, ids>>
local == <<pc, form, held, copy, here>>
vars == <<width, height, mine, mines, rover, rovers, nextMine, nextRover,
          pc, form, held, copy, here>>

-----------------------------------------------------------------------------
(* Records (models.py).                                                     *)

Directions == {"N", "E", "S", "W"}
RoverStatus == {"Not Started", "Finished", "Moving", "Eliminated"}

\* A PIN is a function of the serial number it was computed from, so the
\* model keeps that serial number in its place.
MineRecord == [id : Nat, x : Nat, y : Nat, serial : Serials,
               status : {"active", "defused"}, pin : Serials \cup {"none"}]

\* executed_commands is always a prefix of commands: its length stands for it.
RoverRecord == [id : Nat, status : RoverStatus, x : Nat, y : Nat, dir : Directions,
                commands : Programs \cup {<<>>}, executed : Nat]

\* A payload that passed its checks; id 0 and serial "none" mean not given.
Form == [id : Nat, x : Nat, y : Nat, serial : Serials \cup {"none"}]

NoForm == [id |-> 0, x |-> 0, y |-> 0, serial |-> "none"]
NoRecords == [id \in {} |-> id]

NewMine(f) == [id |-> f.id, x |-> f.x, y |-> f.y, serial |-> f.serial,
               status |-> "active", pin |-> "none"]
NewRover(r, p) == [id |-> r, status |-> "Not Started", x |-> 0, y |-> 0, dir |-> "S",
                   commands |-> p, executed |-> 0]
NoRover == NewRover(0, <<>>)

MapUpdateRequest == 1..MaxSide

\* Between the first and the last write of update_rover_commands to a rover.
HalfWrites == {"write_executed", "write_status", "write_position", "write_direction"}

\* From rover.status = RoverStatus.MOVING to save_rover.
MovingSteps == {"look", "act", "defuse_status", "defuse_pin", "file_defused"}

\* Where a worker can be between two steps of its request.
PC == {"idle", "orphan", "make_mine", "insert_mine", "count_mine",
       "write_x", "write_y", "write_serial", "file_mine", "write_width", "write_height",
       "insert_rover", "count_rover", "write_commands", "file_rover",
       "copy_position", "copy_direction", "copy_commands"}
      \cup HalfWrites \cup MovingSteps

-----------------------------------------------------------------------------
(* The store's checks and the simulator's tables.                           *)

\* The object that an id has.
MineOf(m) == mine[mines[m]]
RoverOf(r) == rover[rovers[r]]

\* f with k mapped to v, added to the domain if it is not there.
Put(f, k, v) == [i \in DOMAIN f \cup {k} |-> IF i = k THEN v ELSE f[i]]

\* MemoryStore._validate_coordinates
InMap(x, y) == x \in 0..(width - 1) /\ y \in 0..(height - 1)

\* A plausible bug: a coordinate is taken only by an active mine.
FreeOfActive(x, y, ignore) ==
    \A m \in DOMAIN mines \ {ignore} :
        MineOf(m).status = "active" => MineOf(m).x # x \/ MineOf(m).y # y

\* MemoryStore._ensure_free_coordinate
FreeCell(x, y, ignore) ==
    \A m \in DOMAIN mines \ {ignore} : MineOf(m).x # x \/ MineOf(m).y # y

\* MemoryStore.active_mine_at returns the first of these in the dict's order.
ActiveMinesAt(x, y) ==
    {o \in {mines[m] : m \in DOMAIN mines} :
        mine[o].x = x /\ mine[o].y = y /\ mine[o].status = "active"}

turn_left == [d \in Directions |->
    CASE d = "N" -> "W" [] d = "W" -> "S" [] d = "S" -> "E" [] d = "E" -> "N"]
turn_right == [d \in Directions |->
    CASE d = "N" -> "E" [] d = "E" -> "S" [] d = "S" -> "W" [] d = "W" -> "N"]
DeltaX == [d \in Directions |-> CASE d = "E" -> 1 [] d = "W" -> -1 [] OTHER -> 0]
DeltaY == [d \in Directions |-> CASE d = "S" -> 1 [] d = "N" -> -1 [] OTHER -> 0]

\* A plausible bug: the guard excludes Moving only.
RestingOrEliminated(r) == r.status # "Moving"

\* The statuses that update_rover_commands and dispatch_rover accept.
Resting(r) == r.status \in {"Not Started", "Finished"}

-----------------------------------------------------------------------------
Init ==
    /\ width = DefaultSide /\ height = DefaultSide
    /\ mine = <<>> /\ mines = NoRecords
    /\ rover = [o \in Objects |-> NoRover] /\ rovers = NoRecords
    /\ nextMine = 1 /\ nextRover = 1
    /\ pc = [w \in Workers |-> "idle"]
    /\ form = [w \in Workers |-> NoForm]
    /\ held = [w \in Workers |-> 0]
    /\ copy = [w \in Workers |-> NoRover]
    /\ here = [w \in Workers |-> 0]

Goto(w, from, to) == pc[w] = from /\ pc' = [pc EXCEPT ![w] = to]

\* The worker has answered its request and forgets its locals.
Respond(w) ==
    /\ pc' = [pc EXCEPT ![w] = "idle"]
    /\ form' = [form EXCEPT ![w] = NoForm]
    /\ held' = [held EXCEPT ![w] = 0]
    /\ copy' = [copy EXCEPT ![w] = NoRover]
    /\ here' = [here EXCEPT ![w] = 0]

\* The rover objects that the store or a worker refers to.
Referenced == {rovers[r] : r \in DOMAIN rovers} \cup {held[w] : w \in Workers}

\* Of the objects of a step's heap, those stay that something still refers to.
Leaves(heap) == rover' = [o \in Objects |-> IF o \in Referenced' THEN heap[o] ELSE NoRover]

\* A new object r is filed under its id; the first free place is as good as any.
Files(r) ==
    \E o \in Objects \ Referenced :
        /\ \A p \in Objects \ Referenced : o <= p
        /\ rovers' = Put(rovers, r.id, o)
        /\ Leaves([rover EXCEPT ![o] = r])

\* The mine object that the worker holds is now m: one attribute is written.
Writes(w, from, to, m) ==
    /\ Goto(w, from, to)
    /\ mine' = [mine EXCEPT ![here[w]] = m]
    /\ UNCHANGED <<sides, mines, rover, rovers, ids, form, held, copy, here>>

\* The rover object that the worker holds is now r: one attribute is written.
Sets(w, from, to, r) ==
    /\ Goto(w, from, to)
    /\ rover' = [rover EXCEPT ![held[w]] = r]
    /\ UNCHANGED <<sides, mine, mines, rovers, ids, form, held, copy, here>>

\* The worker's own copy is now c: one attribute is copied.
Copies(w, from, to, c) ==
    /\ Goto(w, from, to)
    /\ copy' = [copy EXCEPT ![w] = c]
    /\ UNCHANGED <<form, here>>

-----------------------------------------------------------------------------
(* Mines.                                                                   *)

\* create_mine, its two checks.
CheckCreateMine(w, x, y, s) ==
    /\ nextMine <= MaxMines
    /\ InMap(x, y) /\ FreeCell(x, y, 0)
    /\ Goto(w, "idle", "make_mine")
    /\ form' = [form EXCEPT ![w] = [id |-> 0, x |-> x, y |-> y, serial |-> s]]
    /\ UNCHANGED <<store, held, copy, here>>

\* create_mine, MineRecord(id=self._mine_id, ...)
MakeMine(w) ==
    /\ Goto(w, "make_mine", "insert_mine")
    /\ form' = [form EXCEPT ![w].id = nextMine]
    /\ UNCHANGED <<store, held, copy, here>>

\* create_mine, self.mines[mine.id] = mine
InsertMine(w) ==
    /\ Goto(w, "insert_mine", "count_mine")
    /\ mine' = Append(mine, NewMine(form[w]))
    /\ mines' = Put(mines, form[w].id, Len(mine) + 1)
    /\ UNCHANGED <<sides, rover, rovers, ids, form, held, copy, here>>

\* create_mine, self._mine_id += 1
CountMine(w) ==
    /\ pc[w] = "count_mine"
    /\ nextMine' = nextMine + 1
    /\ Respond(w)
    /\ UNCHANGED <<sides, mine, mines, rover, rovers, nextRover>>

\* update_mine up to its last check.  A coordinate the payload leaves out is
\* the mine's own, which is one of the values of x and y.
CheckUpdateMine(w, m, x, y, s) ==
    /\ m \in DOMAIN mines
    /\ InMap(x, y) /\ FreeCell(x, y, m)
    /\ Goto(w, "idle", "write_x")
    /\ form' = [form EXCEPT ![w] = [id |-> m, x |-> x, y |-> y, serial |-> s]]
    /\ here' = [here EXCEPT ![w] = mines[m]]
    /\ UNCHANGED <<store, held, copy>>

\* A plausible bug: a serial that the request does not give is written too.
WriteMineUngiven(w) ==
    LET m == mine[here[w]]
        f == form[w]
    IN
    \/ Writes(w, "write_x", "write_y", [m EXCEPT !.x = f.x])
    \/ Writes(w, "write_y", "write_serial", [m EXCEPT !.y = f.y])
    \/ Writes(w, "write_serial", "file_mine", [m EXCEPT !.serial = f.serial])

\* update_mine writes the object it holds ...
WriteMine(w) ==
    LET m == mine[here[w]]
        f == form[w]
    IN
    \/ Writes(w, "write_x", "write_y", [m EXCEPT !.x = f.x])
    \/ Writes(w, "write_y", "write_serial", [m EXCEPT !.y = f.y])
    \/ Writes(w, "write_serial", "file_mine",
              [m EXCEPT !.serial = IF f.serial = "none" THEN m.serial ELSE f.serial])

\* ... and files it under its id again.
FileMine(w) ==
    /\ pc[w] = "file_mine"
    /\ mines' = Put(mines, form[w].id, here[w])
    /\ Respond(w)
    /\ UNCHANGED <<sides, mine, rover, rovers, ids>>

DeleteMine(w, m) ==
    /\ pc[w] = "idle" /\ m \in DOMAIN mines
    /\ mines' = [i \in DOMAIN mines \ {m} |-> mines[i]]
    /\ UNCHANGED <<sides, mine, rover, rovers, ids, local>>

-----------------------------------------------------------------------------
(* The map.                                                                 *)

\* A plausible bug: the rovers are compared with <= for <.
RoversOnEdgeFit(newWidth, newHeight) ==
    /\ \A m \in DOMAIN mines : MineOf(m).x < newWidth /\ MineOf(m).y < newHeight
    /\ \A r \in DOMAIN rovers : RoverOf(r).x <= newWidth /\ RoverOf(r).y <= newHeight

\* update_map, its two loops.
AllFit(newWidth, newHeight) ==
    /\ \A m \in DOMAIN mines : MineOf(m).x < newWidth /\ MineOf(m).y < newHeight
    /\ \A r \in DOMAIN rovers : RoverOf(r).x < newWidth /\ RoverOf(r).y < newHeight

CheckUpdateMap(w, newWidth, newHeight) ==
    /\ AllFit(newWidth, newHeight)
    /\ Goto(w, "idle", "write_width")
    /\ form' = [form EXCEPT ![w] = [id |-> 0, x |-> newWidth, y |-> newHeight,
                                    serial |-> "none"]]
    /\ UNCHANGED <<store, held, copy, here>>

WriteWidth(w) ==
    /\ Goto(w, "write_width", "write_height")
    /\ width' = form[w].x
    /\ UNCHANGED <<height, mine, mines, rover, rovers, ids, form, held, copy, here>>

WriteHeight(w) ==
    /\ pc[w] = "write_height"
    /\ height' = form[w].y
    /\ Respond(w)
    /\ UNCHANGED <<width, mine, mines, rover, rovers, ids>>

-----------------------------------------------------------------------------
(* Rovers.                                                                  *)

\* create_rover, RoverRecord(id=self._rover_id, ...)
MakeRover(w, p) ==
    /\ nextRover <= MaxRovers
    /\ Copies(w, "idle", "insert_rover", NewRover(nextRover, p))
    /\ UNCHANGED <<store, held>>

\* create_rover, self.rovers[rover.id] = rover
InsertRover(w) ==
    /\ Goto(w, "insert_rover", "count_rover")
    /\ UNCHANGED <<sides, mine, mines, ids, form, held, copy, here>>
    /\ Files(copy[w])

\* create_rover, self._rover_id += 1
CountRover(w) ==
    /\ pc[w] = "count_rover"
    /\ nextRover' = nextRover + 1
    /\ Respond(w)
    /\ UNCHANGED <<sides, mine, mines, rover, rovers, nextMine>>

\* update_rover_commands up to its check.
CheckUpdateRover(w, r, p) ==
    /\ r \in DOMAIN rovers /\ Resting(RoverOf(r))
    /\ Copies(w, "idle", "write_commands", NewRover(r, p))
    /\ held' = [held EXCEPT ![w] = rovers[r]]
    /\ UNCHANGED store

\* A plausible bug: what the rover had executed is kept.
WriteRoverKeepsExecuted(w) ==
    LET r == rover[held[w]] IN
    \/ Sets(w, "write_commands", "write_executed", [r EXCEPT !.commands = copy[w].commands])
    \/ Sets(w, "write_executed", "write_status", r)
    \/ Sets(w, "write_status", "write_position", [r EXCEPT !.status = "Not Started"])
    \/ Sets(w, "write_position", "write_direction", [r EXCEPT !.x = 0, !.y = 0])
    \/ Sets(w, "write_direction", "file_rover", [r EXCEPT !.dir = "S"])

\* It writes every attribute but the id of the object it holds ...
WriteRover(w) ==
    LET r == rover[held[w]] IN
    \/ Sets(w, "write_commands", "write_executed", [r EXCEPT !.commands = copy[w].commands])
    \/ Sets(w, "write_executed", "write_status", [r EXCEPT !.executed = 0])
    \/ Sets(w, "write_status", "write_position", [r EXCEPT !.status = "Not Started"])
    \/ Sets(w, "write_position", "write_direction", [r EXCEPT !.x = 0, !.y = 0])
    \/ Sets(w, "write_direction", "file_rover", [r EXCEPT !.dir = "S"])

\* ... and files it under its id again.
FileRover(w) ==
    /\ pc[w] = "file_rover"
    /\ rovers' = Put(rovers, copy[w].id, held[w])
    /\ Respond(w)
    /\ Leaves(rover)
    /\ UNCHANGED <<sides, mine, mines, ids>>

DeleteRover(w, r) ==
    /\ pc[w] = "idle" /\ r \in DOMAIN rovers
    /\ rovers' = [i \in DOMAIN rovers \ {r} |-> rovers[i]]
    /\ UNCHANGED <<sides, mine, mines, ids, local>>
    /\ Leaves(rover)

-----------------------------------------------------------------------------
(* dispatch_rover.                                                          *)

\* get_rover finds the rover and its deep copy reads the status: the request
\* goes on if that is a resting one.  The copy will be Moving with nothing
\* executed; the stored rover stays as it is.
BeginDispatch(w, r) ==
    /\ r \in DOMAIN rovers /\ Resting(RoverOf(r))
    /\ Copies(w, "idle", "copy_position",
              [NewRover(RoverOf(r).id, <<>>) EXCEPT !.status = "Moving"])
    /\ held' = [held EXCEPT ![w] = rovers[r]]
    /\ UNCHANGED store

\* The deep copy reads the other attributes, in the order of the record.
CopyPlace(w) ==
    LET r == rover[held[w]] IN
    /\ \/ Copies(w, "copy_position", "copy_direction", [copy[w] EXCEPT !.x = r.x, !.y = r.y])
       \/ Copies(w, "copy_direction", "copy_commands", [copy[w] EXCEPT !.dir = r.dir])
    /\ UNCHANGED <<store, held>>

CopyCommands(w) ==
    /\ Copies(w, "copy_commands", "look",
              [copy[w] EXCEPT !.commands = rover[held[w]].commands])
    /\ held' = [held EXCEPT ![w] = 0]
    /\ UNCHANGED <<sides, mine, mines, rovers, ids>>
    /\ Leaves(rover)

\* The loop over the commands has ended, by break or by exhaustion.
Done(c) == c.status = "Eliminated" \/ c.executed = Len(c.commands)

Command(w) == copy[w].commands[copy[w].executed + 1]

\* mine_here = store.active_mine_at(...) at the head of the loop.
Look(w) ==
    LET found == ActiveMinesAt(copy[w].x, copy[w].y) IN
    /\ ~Done(copy[w])
    /\ Goto(w, "look", "act")
    /\ \/ found = {} /\ here' = [here EXCEPT ![w] = 0]
       \/ \E o \in found : here' = [here EXCEPT ![w] = o]
    /\ UNCHANGED <<store, form, held, copy>>

\* The body of the loop is over: c is the copy it leaves.
Executed(w, from, c) ==
    /\ Goto(w, from, "look")
    /\ copy' = [copy EXCEPT ![w] = [c EXCEPT !.executed = @ + 1]]
    /\ here' = [here EXCEPT ![w] = 0]
    /\ form' = [form EXCEPT ![w] = NoForm]
    /\ UNCHANGED held

Turn(w) ==
    /\ pc[w] = "act"
    /\ \/ /\ Command(w) = "L"
          /\ Executed(w, "act", [copy[w] EXCEPT !.dir = turn_left[@]])
       \/ /\ Command(w) = "R"
          /\ Executed(w, "act", [copy[w] EXCEPT !.dir = turn_right[@]])
    /\ UNCHANGED store

\* A "D" with no active mine in the cell.
DefuseNothing(w) ==
    /\ pc[w] = "act" /\ Command(w) = "D" /\ here[w] = 0
    /\ Executed(w, "act", copy[w])
    /\ UNCHANGED store

\* A "D" with mine_here: its PIN is computed, and defuse_mine finds the mine
\* that its id has now.
BeginDefuse(w) ==
    LET m == mine[here[w]].id IN
    /\ pc[w] = "act" /\ Command(w) = "D" /\ here[w] # 0
    /\ m \in DOMAIN mines
    /\ Goto(w, "act", "defuse_status")
    /\ form' = [form EXCEPT ![w] = [id |-> m, x |-> 0, y |-> 0,
                                    serial |-> mine[here[w]].serial]]
    /\ here' = [here EXCEPT ![w] = mines[m]]
    /\ UNCHANGED <<store, held, copy>>

\* defuse_mine writes that mine ...
Defuse(w) ==
    LET m == mine[here[w]] IN
    \/ Writes(w, "defuse_status", "defuse_pin", [m EXCEPT !.status = "defused"])
    \/ Writes(w, "defuse_pin", "file_defused", [m EXCEPT !.pin = form[w].serial])

\* ... and files it under its id again.
FileDefused(w) ==
    /\ Executed(w, "file_defused", copy[w])
    /\ mines' = Put(mines, form[w].id, here[w])
    /\ UNCHANGED <<sides, mine, rover, rovers, ids>>

\* A plausible bug: the handler waits for the mine to come back.
DefuseWaits(w) ==
    /\ pc[w] = "act" /\ Command(w) = "D"
    /\ here[w] # 0 /\ mine[here[w]].id \notin DOMAIN mines
    /\ UNCHANGED vars

\* A "D" whose mine was deleted since the look-up: defuse_mine raises
\* KeyError, the handler answers 404 and the copy is dropped.
DefuseRaises(w) ==
    /\ pc[w] = "act" /\ Command(w) = "D"
    /\ here[w] # 0 /\ mine[here[w]].id \notin DOMAIN mines
    /\ Respond(w)
    /\ UNCHANGED store

\* An "M" with mine_here: the rover is eliminated and the loop ends.
Eliminate(w) ==
    /\ pc[w] = "act" /\ Command(w) = "M" /\ here[w] # 0
    /\ Executed(w, "act", [copy[w] EXCEPT !.status = "Eliminated"])
    /\ UNCHANGED store

\* A plausible bug: mine_here is not consulted before the rover moves.
MoveOffMine(w) ==
    LET c == copy[w]
        x == c.x + DeltaX[c.dir]
        y == c.y + DeltaY[c.dir]
    IN
    /\ pc[w] = "act" /\ Command(w) = "M"
    /\ \/ InMap(x, y) /\ Executed(w, "act", [c EXCEPT !.x = x, !.y = y])
       \/ ~InMap(x, y) /\ Executed(w, "act", c)
    /\ UNCHANGED store

\* An "M" with no mine_here: one cell ahead, or nothing at the map's edge.
Move(w) ==
    LET c == copy[w]
        x == c.x + DeltaX[c.dir]
        y == c.y + DeltaY[c.dir]
    IN
    /\ pc[w] = "act" /\ Command(w) = "M" /\ here[w] = 0
    /\ \/ InMap(x, y) /\ Executed(w, "act", [c EXCEPT !.x = x, !.y = y])
       \/ ~InMap(x, y) /\ Executed(w, "act", c)
    /\ UNCHANGED store

\* store.save_rover: a new object replaces whatever the id maps to now.
SaveRover(w) ==
    LET c == copy[w] IN
    /\ pc[w] = "look" /\ Done(c)
    /\ Respond(w)
    /\ UNCHANGED <<sides, mine, mines, ids>>
    /\ Files(IF c.status = "Eliminated" THEN c ELSE [c EXCEPT !.status = "Finished"])

-----------------------------------------------------------------------------
(* POST /ui/reset-demo binds `store` to a new MemoryStore.  A request that  *)
(* is running keeps the old one: whatever it does is seen by nobody.        *)

ResetDemo(w) ==
    /\ pc[w] = "idle"
    /\ width' = DefaultSide /\ height' = DefaultSide
    /\ mine' = <<>> /\ mines' = NoRecords
    /\ rover' = [o \in Objects |-> NoRover] /\ rovers' = NoRecords
    /\ nextMine' = 1 /\ nextRover' = 1
    /\ pc' = [v \in Workers |-> IF pc[v] = "idle" THEN "idle" ELSE "orphan"]
    /\ form' = [v \in Workers |-> NoForm]
    /\ held' = [v \in Workers |-> 0]
    /\ copy' = [v \in Workers |-> NoRover]
    /\ here' = [v \in Workers |-> 0]

OrphanReturns(w) ==
    /\ Goto(w, "orphan", "idle")
    /\ UNCHANGED <<store, form, held, copy, here>>

-----------------------------------------------------------------------------
\* A request arrives and a free worker takes its first step.
Request(w) ==
    \/ \E x, y \in 0..(MaxSide - 1) :
         \/ \E s \in Serials : CheckCreateMine(w, x, y, s)
         \/ \E m \in DOMAIN mines, s \in Serials \cup {"none"} :
              CheckUpdateMine(w, m, x, y, s)
    \/ \E m \in DOMAIN mines : DeleteMine(w, m)
    \/ \E a, b \in MapUpdateRequest : CheckUpdateMap(w, a, b)
    \/ \E p \in Programs : MakeRover(w, p)
    \/ \E r \in DOMAIN rovers :
         \/ \E p \in Programs : CheckUpdateRover(w, r, p)
         \/ DeleteRover(w, r)
         \/ BeginDispatch(w, r)
    \/ ResetDemo(w)

\* A worker goes on with the request it has taken.
Continue(w) ==
    \/ MakeMine(w) \/ InsertMine(w) \/ CountMine(w) \/ WriteMine(w) \/ FileMine(w)
    \/ WriteWidth(w) \/ WriteHeight(w)
    \/ InsertRover(w) \/ CountRover(w) \/ WriteRover(w) \/ FileRover(w)
    \/ CopyPlace(w) \/ CopyCommands(w)
    \/ Look(w) \/ Turn(w) \/ DefuseNothing(w)
    \/ BeginDefuse(w) \/ Defuse(w) \/ FileDefused(w) \/ DefuseRaises(w)
    \/ Eliminate(w) \/ Move(w) \/ SaveRover(w)
    \/ OrphanReturns(w)

Next == \E w \in Workers : Request(w) \/ Continue(w)

Spec == Init /\ [][Next]_vars

\* A running thread is scheduled again; no client is obliged to send anything.
FairSpec == Spec /\ \A w \in Workers : WF_vars(Continue(w))

-----------------------------------------------------------------------------
(* Properties.                                                              *)

StoreTypeOK ==
    /\ width \in MapUpdateRequest /\ height \in MapUpdateRequest
    /\ mine \in Seq(MineRecord)
    /\ DOMAIN mines \subseteq Nat \ {0} /\ mines \in [DOMAIN mines -> DOMAIN mine]
    /\ rover \in [Objects -> RoverRecord]
    /\ DOMAIN rovers \subseteq Nat \ {0} /\ rovers \in [DOMAIN rovers -> Objects]
    /\ nextMine \in Nat \ {0} /\ nextRover \in Nat \ {0}

WorkerTypeOK ==
    /\ pc \in [Workers -> PC]
    /\ form \in [Workers -> Form]
    /\ held \in [Workers -> Objects \cup {0}]
    /\ copy \in [Workers -> RoverRecord]
    /\ here \in [Workers -> DOMAIN mine \cup {0}]

\* Every variable of the store and every local of a handler has its type.
TypeOK == StoreTypeOK /\ WorkerTypeOK

\* Whatever requests run side by side, a stored rover tells a story that its
\* program can have, except between the first and the last write of an update
\* to that very object: one that has not started stands at the start and has
\* executed nothing, a finished one has executed all of it, an eliminated one
\* stopped at a move, and none is Moving.  (update_rover_commands resets all it
\* should, however the writes of several updates mix; dispatch_rover saves
\* only what its loop has settled, even if it copied a half-written rover.)
RecordTells(r) ==
    /\ r.status = "Not Started" => r = NewRover(r.id, r.commands)
    /\ r.status = "Finished" => r.executed = Len(r.commands)
    /\ r.status = "Eliminated" =>
         r.executed \in 1..Len(r.commands) /\ r.commands[r.executed] = "M"
    /\ r.status # "Moving"
HalfWritten(o) == \E w \in Workers : held[w] = o /\ pc[w] \in HalfWrites
StoredRoversTell ==
    \A r \in DOMAIN rovers : HalfWritten(rovers[r]) \/ RecordTells(RoverOf(r))

\* Every mine of the store lies on the map: get_map and _render_path index
\* their grid with its coordinates and would raise for ever after.
MinesInMap == \A m \in DOMAIN mines : InMap(MineOf(m).x, MineOf(m).y)

\* Two mines never share a cell, but for the moment in which an update has
\* written one coordinate of a mine: dispatch_rover looks at the first it
\* finds, and the defusal of that one would leave the other armed below the
\* rover.
HalfMoved(o) == \E w \in Workers : here[w] = o /\ pc[w] = "write_y"
MinesApart ==
    \A m, n \in DOMAIN mines :
        m # n => \/ MineOf(m).x # MineOf(n).x \/ MineOf(m).y # MineOf(n).y
                 \/ HalfMoved(mines[m]) \/ HalfMoved(mines[n])

\* Every stored rover stands on the map: a move stays on it and a resize
\* leaves none outside.
RoversInMap == \A r \in DOMAIN rovers : InMap(RoverOf(r).x, RoverOf(r).y)

\* Nothing is ever off the map: no mine and no rover, whatever is created,
\* moved, dispatched or resized.
FieldInMap == MinesInMap /\ RoversInMap

\* A dispatch takes a rover off a cell only when the store then holds no
\* active mine there (the mine it looked up is the mine there is).
LeavesNoActiveMine ==
    [][\A w \in Workers :
         /\ pc[w] = "act" /\ pc'[w] = "look"
         /\ <<copy[w].x, copy[w].y>> # <<copy'[w].x, copy'[w].y>>
         => ActiveMinesAt(copy[w].x, copy[w].y) = {}]_vars

\* No second dispatch is accepted for a rover that a dispatch is moving (the
\* guard of dispatch_rover).
ExclusiveDispatch ==
    [][\A v, w \in Workers :
         pc[v] \in MovingSteps /\ pc[w] = "idle" /\ pc'[w] = "copy_position"
         => copy[v].id # copy'[w].id]_vars

\* Requests served one at a time implement the life cycles of FieldLifecycle.
MineLife ==
    [m \in 1..MaxMines |->
       IF m \in DOMAIN mines THEN MineOf(m).status
       ELSE IF m < nextMine THEN "gone" ELSE "unborn"]
RoverLife ==
    [r \in 1..MaxRovers |->
       IF r \in DOMAIN rovers THEN RoverOf(r).status
       ELSE IF r < nextRover THEN "gone" ELSE "unborn"]
Lifecycle == INSTANCE FieldLifecycle
    WITH MineIds <- 1..MaxMines, RoverIds <- 1..MaxRovers,
         mineLife <- MineLife, roverLife <- RoverLife
ImplementsLifecycle == Lifecycle!Spec

\* Every request that a worker has taken is answered: no loop over the
\* commands runs for ever and no handler waits on another one.
EveryRequestReturns == \A w \in Workers : pc[w] # "idle" ~> pc[w] = "idle"
=============================================================================
