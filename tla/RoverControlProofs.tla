------------------------- MODULE RoverControlProofs -------------------------
(***************************************************************************)
(* Theorems about RoverControl.  The first part holds for any set of       *)
(* workers: the types, and that every stored rover tells a story its       *)
(* program can have.  The second part is about one request at a time: what *)
(* a handler checks still holds when the write comes.                      *)
(***************************************************************************)
EXTENDS RoverControl, SequenceTheorems, TLAPS

MineSteps == {"write_x", "write_y", "write_serial", "file_mine",
              "defuse_status", "defuse_pin", "file_defused"}
UpdateSteps == {"write_commands", "file_rover"} \cup HalfWrites
CopySteps == {"copy_position", "copy_direction", "copy_commands"}

\* The loop of a dispatch that has not been saved, at its head.
LoopTells(c) ==
    /\ c.executed <= Len(c.commands)
    /\ \/ c.status = "Moving"
       \/ /\ c.status = "Eliminated"
          /\ c.executed \in 1..Len(c.commands) /\ c.commands[c.executed] = "M"

\* What an update has reset so far; nobody writes anything else over it.
Progress(w) ==
    LET r == rover[held[w]] IN
    /\ pc[w] \in {"write_status", "write_position", "write_direction"} => r.executed = 0
    /\ pc[w] \in {"write_position", "write_direction"} => r.status = "Not Started"
    /\ pc[w] = "write_direction" => r.x = 0 /\ r.y = 0

\* What a worker holds between two steps of its request.
Holds(w) ==
    /\ pc[w] \in {"make_mine", "insert_mine"} => form[w].serial \in Serials
    /\ pc[w] = "insert_mine" => form[w].id # 0
    /\ pc[w] \in MineSteps =>
         here[w] \in DOMAIN mine /\ form[w].id = mine[here[w]].id /\ form[w].id # 0
    /\ pc[w] \in {"write_width", "write_height"} =>
         form[w].x \in MapUpdateRequest /\ form[w].y \in MapUpdateRequest
    /\ pc[w] = "insert_rover" => copy[w].id # 0 /\ RecordTells(copy[w])
    /\ pc[w] \in UpdateSteps \cup CopySteps =>
         held[w] \in Objects /\ copy[w].id # 0 /\ rover[held[w]].id = copy[w].id
    /\ pc[w] \in CopySteps => copy[w].status = "Moving" /\ copy[w].executed = 0
    /\ pc[w] \in MovingSteps => copy[w].id # 0
    /\ pc[w] = "look" => LoopTells(copy[w])
    /\ pc[w] \in MovingSteps \ {"look"} =>
         copy[w].status = "Moving" /\ copy[w].executed < Len(copy[w].commands)

WorkersHold == \A w \in Workers : Holds(w) /\ Progress(w)

\* The object filed under an id has that id.
IdsTrue ==
    /\ \A m \in DOMAIN mines : MineOf(m).id = m
    /\ \A r \in DOMAIN rovers : RoverOf(r).id = r

\* Filed or not, every rover object is half-written or tells its story.
AllTell == \A o \in Objects : HalfWritten(o) \/ RecordTells(rover[o])

\* The inductive invariant of the first part.
RecordInv == TypeOK /\ IdsTrue /\ WorkersHold /\ AllTell

\* The workers but w keep their locals.
OthersKeep(w) ==
    \A v \in Workers \ {w} :
        /\ pc'[v] = pc[v] /\ form'[v] = form[v] /\ held'[v] = held[v]
        /\ copy'[v] = copy[v] /\ here'[v] = here[v]

\* The mine objects that were keep their ids.
MinesStay ==
    DOMAIN mine \subseteq DOMAIN mine' /\ \A o \in DOMAIN mine : mine'[o].id = mine[o].id

\* Whatever the rover object o had reset stays reset.
Kept(o) ==
    /\ rover'[o].id = rover[o].id
    /\ rover[o].executed = 0 => rover'[o].executed = 0
    /\ rover[o].status = "Not Started" => rover'[o].status = "Not Started"
    /\ rover[o].x = 0 /\ rover[o].y = 0 => rover'[o].x = 0 /\ rover'[o].y = 0

-----------------------------------------------------------------------------
(* Records.                                                                 *)

LEMMA ProgramLength ==
    ASSUME NEW p \in Programs \cup {<<>>}
    PROVE  /\ Len(p) \in Nat
           /\ \A i \in 1..Len(p) : p[i] \in Commands
  BY StoreAssumption DEF Commands

LEMMA NewRoverTells ==
    ASSUME NEW r \in Nat, NEW p \in Programs \cup {<<>>}
    PROVE  /\ NewRover(r, p) \in RoverRecord
           /\ NewRover(r, p).commands = p /\ NewRover(r, p).id = r
           /\ RecordTells(NewRover(r, p))
  BY DEF NewRover, NoRover, RoverRecord, RecordTells, Directions, RoverStatus

LEMMA NoRoverTells == NoRover \in RoverRecord /\ RecordTells(NoRover)
  BY DEF NewRover, NoRover, RoverRecord, RecordTells, Directions, RoverStatus

\* A rover with everything reset has not started.
LEMMA ResetTells ==
    ASSUME NEW r \in RoverRecord, r.executed = 0, r.status = "Not Started",
           r.x = 0, r.y = 0, r.dir = "S"
    PROVE  RecordTells(r)
  <1>1. r = NewRover(r.id, r.commands)
    BY DEF RoverRecord, NewRover
  <1> QED
    BY <1>1 DEF RecordTells

(* A worker that answers leaves its locals typed and the others' alone.     *)
LEMMA RespondTyped ==
    ASSUME WorkerTypeOK, DOMAIN mine \subseteq DOMAIN mine', NEW w \in Workers, Respond(w)
    PROVE  /\ WorkerTypeOK' /\ OthersKeep(w)
           /\ pc'[w] = "idle" /\ held'[w] = 0
           /\ Holds(w)' /\ Progress(w)'
  <1>1. NoForm \in Form
    BY DEF NoForm, Form
  <1>2. WorkerTypeOK' /\ OthersKeep(w) /\ pc'[w] = "idle" /\ held'[w] = 0
    BY <1>1, NoRoverTells DEF WorkerTypeOK, Respond, PC, OthersKeep
  <1> QED
    BY <1>2 DEF Holds, Progress, MineSteps, UpdateSteps, CopySteps, HalfWrites, MovingSteps

(* One command executed: what the step makes of the copy.                   *)
LEMMA ExecutedTyped ==
    ASSUME WorkerTypeOK, UNCHANGED mine, NEW w \in Workers, NEW c \in RoverRecord,
           NEW from \in {"act", "file_defused"}, Executed(w, from, c)
    PROVE  /\ WorkerTypeOK' /\ OthersKeep(w)
           /\ pc[w] = from /\ pc'[w] = "look" /\ held'[w] = held[w] /\ here'[w] = 0
           /\ copy'[w] = [c EXCEPT !.executed = c.executed + 1]
  <1>1. [c EXCEPT !.executed = c.executed + 1] \in RoverRecord
    BY DEF RoverRecord
  <1>2. NoForm \in Form
    BY DEF NoForm, Form
  <1> QED
    BY <1>1, <1>2 DEF WorkerTypeOK, Executed, Goto, PC, MovingSteps, OthersKeep

(* A worker whose locals do not change still holds what it held.            *)
LEMMA OthersHold ==
    ASSUME NEW v \in Workers, Holds(v), Progress(v), MinesStay,
           held[v] \in Objects => Kept(held[v]),
           pc'[v] = pc[v], form'[v] = form[v], held'[v] = held[v],
           copy'[v] = copy[v], here'[v] = here[v]
    PROVE  Holds(v)' /\ Progress(v)'
  <1>1. Holds(v)'
    <2> USE DEF Holds
    <2>1. pc[v] \in MineSteps =>
            here[v] \in DOMAIN mine' /\ form[v].id = mine'[here[v]].id /\ form[v].id # 0
      BY DEF MinesStay
    <2>2. pc[v] \in UpdateSteps \cup CopySteps =>
            held[v] \in Objects /\ copy[v].id # 0 /\ rover'[held[v]].id = copy[v].id
      BY DEF Kept
    <2>3. (pc[v] = "insert_rover" => copy[v].id # 0 /\ RecordTells(copy[v])')
          /\ (pc[v] = "look" => LoopTells(copy[v])')
      BY DEF RecordTells, NewRover, NoRover, LoopTells
    <2> QED BY <2>1, <2>2, <2>3 DEF MapUpdateRequest
  <1>2. Progress(v)'
    <2>1. pc[v] \in HalfWrites => held[v] \in Objects
      BY DEF Holds, UpdateSteps
    <2> QED BY <2>1 DEF Progress, Kept, HalfWrites
  <1> QED BY <1>1, <1>2

(* A step of w that leaves to every other worker what it holds.             *)
LEMMA AllHold ==
    ASSUME WorkersHold, NEW w \in Workers, MinesStay, OthersKeep(w),
           \A v \in Workers \ {w} : held[v] \in Objects => Kept(held[v]),
           Holds(w)', Progress(w)'
    PROVE  WorkersHold'
  <1>1. ASSUME NEW v \in Workers \ {w} PROVE Holds(v)' /\ Progress(v)'
    <2>1. Holds(v) /\ Progress(v)
      BY DEF WorkersHold
    <2> QED BY <2>1, OthersHold DEF OthersKeep
  <1> QED
    BY <1>1 DEF WorkersHold

(* A worker that is not writing a rover spoils no rover that it leaves.     *)
LEMMA StillTell ==
    ASSUME AllTell, NEW w \in Workers, OthersKeep(w), pc[w] \notin HalfWrites,
           \A o \in Objects : rover'[o] = rover[o] \/ RecordTells(rover'[o])
    PROVE  AllTell'
  <1> SUFFICES ASSUME NEW o \in Objects PROVE HalfWritten(o)' \/ RecordTells(rover'[o])
    BY DEF AllTell, RecordTells, NewRover, NoRover
  <1>1. CASE HalfWritten(o)
    <2>1. PICK v \in Workers : held[v] = o /\ pc[v] \in HalfWrites
      BY <1>1 DEF HalfWritten
    <2>2. held'[v] = o /\ pc'[v] \in HalfWrites
      BY <2>1 DEF OthersKeep
    <2> QED BY <2>2 DEF HalfWritten, HalfWrites
  <1>2. CASE RecordTells(rover[o])
    BY <1>2
  <1> QED BY <1>1, <1>2 DEF AllTell

(* A step that changes no rover object.                                     *)
LEMMA RoversQuiet ==
    ASSUME RecordInv, NEW w \in Workers, UNCHANGED <<rover, rovers>>, MinesStay,
           OthersKeep(w), pc[w] \notin HalfWrites, TypeOK',
           (\A m \in DOMAIN mines : MineOf(m).id = m)', Holds(w)', Progress(w)'
    PROVE  RecordInv'
  <1>1. IdsTrue'
    BY DEF RecordInv, IdsTrue, RoverOf, MineOf
  <1>2. WorkersHold'
    BY AllHold DEF RecordInv, Kept
  <1>3. AllTell'
    BY StillTell DEF RecordInv
  <1> QED
    BY <1>1, <1>2, <1>3 DEF RecordInv

(* A step that changes no object at all, only w's locals and the numbers.   *)
LEMMA ObjectsQuiet ==
    ASSUME RecordInv, NEW w \in Workers, UNCHANGED <<mine, mines, rover, rovers>>,
           width' \in MapUpdateRequest, height' \in MapUpdateRequest,
           nextMine' \in Nat \ {0}, nextRover' \in Nat \ {0},
           OthersKeep(w), pc[w] \notin HalfWrites,
           WorkerTypeOK', Holds(w)', Progress(w)'
    PROVE  RecordInv'
  <1>1. TypeOK'
    BY DEF RecordInv, TypeOK, StoreTypeOK, MapUpdateRequest
  <1>2. MinesStay /\ (\A m \in DOMAIN mines : MineOf(m).id = m)'
    BY DEF RecordInv, IdsTrue, MineOf, MinesStay
  <1> QED
    BY <1>1, <1>2, RoversQuiet

-----------------------------------------------------------------------------
(* The types and the records, one lemma per part of a request.              *)

LEMMA InitRecordInv == Init => RecordInv
  <1> SUFFICES ASSUME Init PROVE RecordInv
    OBVIOUS
  <1>1. StoreTypeOK
    BY StoreAssumption, NoRoverTells DEF Init, StoreTypeOK, MapUpdateRequest, NoRecords
  <1>2. WorkerTypeOK
    BY NoRoverTells DEF Init, WorkerTypeOK, PC, NoForm, Form
  <1>3. WorkersHold
    BY DEF Init, WorkersHold, Holds, Progress, MineSteps, UpdateSteps, CopySteps,
           HalfWrites, MovingSteps
  <1>4. IdsTrue /\ AllTell
    BY NoRoverTells DEF Init, IdsTrue, AllTell, NoRecords
  <1> QED
    BY <1>1, <1>2, <1>3, <1>4 DEF RecordInv, TypeOK

\* The first steps of requests, which check the store and write nothing in it.
LEMMA ChecksKeep ==
    ASSUME RecordInv, NEW w \in Workers,
           \/ \E x, y \in 0..(MaxSide - 1), s \in Serials : CheckCreateMine(w, x, y, s)
           \/ \E m \in DOMAIN mines, x, y \in 0..(MaxSide - 1), s \in Serials \cup {"none"} :
                CheckUpdateMine(w, m, x, y, s)
           \/ \E a, b \in MapUpdateRequest : CheckUpdateMap(w, a, b)
           \/ \E p \in Programs : MakeRover(w, p)
           \/ \E r \in DOMAIN rovers, p \in Programs : CheckUpdateRover(w, r, p)
           \/ \E r \in DOMAIN rovers : BeginDispatch(w, r)
    PROVE  RecordInv'
  <1> USE DEF RecordInv, TypeOK
  <1>1. /\ UNCHANGED <<mine, mines, rover, rovers, nextMine, nextRover, width, height>>
        /\ pc[w] = "idle"
    BY DEF CheckCreateMine, CheckUpdateMine, CheckUpdateMap, MakeRover, CheckUpdateRover,
           BeginDispatch, Goto, Copies, store, sides, ids
  <1>2. ASSUME OthersKeep(w), WorkerTypeOK', Holds(w)', Progress(w)' PROVE RecordInv'
    BY <1>1, <1>2, ObjectsQuiet DEF StoreTypeOK, HalfWrites
  <1>3. CASE \E x, y \in 0..(MaxSide - 1), s \in Serials : CheckCreateMine(w, x, y, s)
    <2>1. WorkerTypeOK' /\ OthersKeep(w)
      BY <1>1, <1>3, StoreAssumption
         DEF CheckCreateMine, Goto, WorkerTypeOK, PC, Form, OthersKeep
    <2>2. pc'[w] = "make_mine" /\ form'[w].serial \in Serials
      BY <1>3 DEF CheckCreateMine, Goto, WorkerTypeOK
    <2>3. Holds(w)' /\ Progress(w)'
      BY <2>2 DEF Holds, Progress, MineSteps, UpdateSteps, CopySteps, HalfWrites, MovingSteps
    <2> QED BY <1>2, <2>1, <2>3
  <1>4. CASE \E m \in DOMAIN mines, x, y \in 0..(MaxSide - 1), s \in Serials \cup {"none"} :
               CheckUpdateMine(w, m, x, y, s)
    <2> PICK m \in DOMAIN mines, x \in 0..(MaxSide - 1), y \in 0..(MaxSide - 1),
             s \in Serials \cup {"none"} : CheckUpdateMine(w, m, x, y, s)
      BY <1>4
    <2> DEFINE f == [id |-> m, x |-> x, y |-> y, serial |-> s]
    <2>1. f \in Form /\ f.id # 0 /\ mines[m] \in DOMAIN mine
      BY StoreAssumption DEF StoreTypeOK, Form
    <2>2. /\ pc' = [pc EXCEPT ![w] = "write_x"] /\ form' = [form EXCEPT ![w] = f]
          /\ here' = [here EXCEPT ![w] = mines[m]] /\ UNCHANGED <<held, copy>>
      BY DEF CheckUpdateMine, Goto
    <2> HIDE DEF f
    <2>3. WorkerTypeOK' /\ OthersKeep(w)
      BY <1>1, <2>1, <2>2 DEF WorkerTypeOK, PC, OthersKeep
    <2>4. pc'[w] = "write_x" /\ form'[w] = f /\ here'[w] = mines[m]
      BY <2>2 DEF WorkerTypeOK
    <2>5. mine'[here'[w]].id = f.id
      BY <1>1, <2>4 DEF IdsTrue, MineOf, f
    <2>6. Holds(w)' /\ Progress(w)'
      BY <1>1, <2>1, <2>4, <2>5
         DEF Holds, Progress, MineSteps, UpdateSteps, CopySteps, HalfWrites, MovingSteps
    <2> QED BY <1>2, <2>3, <2>6
  <1>5. CASE \E a, b \in MapUpdateRequest : CheckUpdateMap(w, a, b)
    <2> PICK a \in MapUpdateRequest, b \in MapUpdateRequest : CheckUpdateMap(w, a, b)
      BY <1>5
    <2> DEFINE f == [id |-> 0, x |-> a, y |-> b, serial |-> "none"]
    <2>1. f \in Form /\ f.x = a /\ f.y = b
      BY StoreAssumption DEF Form, MapUpdateRequest
    <2>2. WorkerTypeOK' /\ OthersKeep(w)
      BY <1>1, <2>1 DEF CheckUpdateMap, Goto, WorkerTypeOK, PC, OthersKeep
    <2>3. pc'[w] = "write_width" /\ form'[w] = f
      BY DEF CheckUpdateMap, Goto, WorkerTypeOK
    <2>4. Holds(w)' /\ Progress(w)'
      BY <2>1, <2>3 DEF Holds, Progress, MineSteps, UpdateSteps, CopySteps, HalfWrites,
                        MovingSteps, MapUpdateRequest
    <2> QED BY <1>2, <2>2, <2>4
  <1>6. CASE \E p \in Programs : MakeRover(w, p)
    <2> PICK p \in Programs : MakeRover(w, p)
      BY <1>6
    <2> DEFINE c == NewRover(nextRover, p)
    <2>1. c \in RoverRecord /\ c.id # 0 /\ RecordTells(c)
      BY NewRoverTells DEF StoreTypeOK
    <2>2. pc' = [pc EXCEPT ![w] = "insert_rover"] /\ copy' = [copy EXCEPT ![w] = c]
          /\ UNCHANGED <<form, held, here>>
      BY DEF MakeRover, Copies, Goto
    <2> HIDE DEF c
    <2>3. WorkerTypeOK' /\ OthersKeep(w)
      BY <1>1, <2>1, <2>2 DEF WorkerTypeOK, PC, OthersKeep
    <2>4. pc'[w] = "insert_rover" /\ copy'[w] = c
      BY <2>2 DEF WorkerTypeOK
    <2>5. RecordTells(copy[w])'
      BY <2>1, <2>4 DEF RecordTells, NewRover, NoRover
    <2>6. Holds(w)' /\ Progress(w)'
      BY <2>1, <2>4, <2>5
         DEF Holds, Progress, MineSteps, UpdateSteps, CopySteps, HalfWrites, MovingSteps
    <2> QED BY <1>2, <2>3, <2>6
  <1>7. CASE \E r \in DOMAIN rovers, p \in Programs : CheckUpdateRover(w, r, p)
    <2> PICK r \in DOMAIN rovers, p \in Programs : CheckUpdateRover(w, r, p)
      BY <1>7
    <2> DEFINE c == NewRover(r, p)
    <2>1. c \in RoverRecord /\ c.id = r /\ r # 0 /\ rovers[r] \in Objects
      BY NewRoverTells DEF StoreTypeOK
    <2>2. pc' = [pc EXCEPT ![w] = "write_commands"] /\ copy' = [copy EXCEPT ![w] = c]
          /\ held' = [held EXCEPT ![w] = rovers[r]] /\ UNCHANGED <<form, here>>
      BY DEF CheckUpdateRover, Copies, Goto
    <2> HIDE DEF c
    <2>3. WorkerTypeOK' /\ OthersKeep(w)
      BY <1>1, <2>1, <2>2 DEF WorkerTypeOK, PC, OthersKeep
    <2>4. pc'[w] = "write_commands" /\ copy'[w] = c /\ held'[w] = rovers[r]
      BY <2>2 DEF WorkerTypeOK
    <2>5. rover'[held'[w]].id = r
      BY <1>1, <2>4 DEF IdsTrue, RoverOf
    <2>6. Holds(w)' /\ Progress(w)'
      BY <2>1, <2>4, <2>5
         DEF Holds, Progress, MineSteps, UpdateSteps, CopySteps, HalfWrites, MovingSteps
    <2> QED BY <1>2, <2>3, <2>6
  <1>8. CASE \E r \in DOMAIN rovers : BeginDispatch(w, r)
    <2> PICK r \in DOMAIN rovers : BeginDispatch(w, r)
      BY <1>8
    <2> DEFINE c == [NewRover(RoverOf(r).id, <<>>) EXCEPT !.status = "Moving"]
    <2>0. RoverOf(r).id = r /\ r \in Nat \ {0} /\ rovers[r] \in Objects
      BY DEF IdsTrue, StoreTypeOK
    <2>1. c \in RoverRecord /\ c.id = r /\ c.status = "Moving" /\ c.executed = 0
      BY <2>0 DEF NewRover, RoverRecord, RoverStatus, Directions
    <2>2. pc' = [pc EXCEPT ![w] = "copy_position"] /\ copy' = [copy EXCEPT ![w] = c]
          /\ held' = [held EXCEPT ![w] = rovers[r]] /\ UNCHANGED <<form, here>>
      BY DEF BeginDispatch, Copies, Goto
    <2> HIDE DEF c
    <2>3. WorkerTypeOK' /\ OthersKeep(w)
      BY <1>1, <2>0, <2>1, <2>2 DEF WorkerTypeOK, PC, OthersKeep
    <2>4. pc'[w] = "copy_position" /\ copy'[w] = c /\ held'[w] = rovers[r]
      BY <2>2 DEF WorkerTypeOK
    <2>5. rover'[held'[w]].id = r
      BY <1>1, <2>4 DEF IdsTrue, RoverOf
    <2>6. Holds(w)' /\ Progress(w)'
      BY <2>0, <2>1, <2>4, <2>5
         DEF Holds, Progress, MineSteps, UpdateSteps, CopySteps, HalfWrites, MovingSteps
    <2> QED BY <1>2, <2>3, <2>6
  <1> QED
    BY <1>3, <1>4, <1>5, <1>6, <1>7, <1>8

\* The writes to the mine objects and to their table.
LEMMA MineWritesKeep ==
    ASSUME RecordInv, NEW w \in Workers,
           \/ MakeMine(w) \/ InsertMine(w) \/ CountMine(w) \/ WriteMine(w) \/ FileMine(w)
           \/ Defuse(w)
           \/ \E m \in DOMAIN mines : DeleteMine(w, m)
    PROVE  RecordInv'
  <1> USE DEF RecordInv, TypeOK
  <1>0. /\ StoreTypeOK /\ WorkerTypeOK /\ IdsTrue /\ Holds(w)
        /\ mine \in Seq(MineRecord) /\ DOMAIN mine = 1..Len(mine) /\ Len(mine) \in Nat
    BY DEF WorkersHold, StoreTypeOK
  <1>1. CASE MakeMine(w)
    <2> DEFINE f == [form[w] EXCEPT !.id = nextMine]
    <2>1. f \in Form /\ f.id # 0 /\ f.serial = form[w].serial
      BY <1>0 DEF StoreTypeOK, WorkerTypeOK, Form
    <2>2. /\ pc[w] = "make_mine" /\ pc' = [pc EXCEPT ![w] = "insert_mine"]
          /\ form' = [form EXCEPT ![w] = f] /\ UNCHANGED <<store, held, copy, here>>
      BY <1>1 DEF MakeMine, Goto
    <2> HIDE DEF f
    <2>3. /\ UNCHANGED <<mine, mines, rover, rovers, nextMine, nextRover, width, height>>
          /\ WorkerTypeOK' /\ OthersKeep(w)
      BY <1>0, <2>1, <2>2 DEF WorkerTypeOK, PC, OthersKeep, store, sides, ids
    <2>4. pc'[w] = "insert_mine" /\ form'[w] = f /\ f.serial \in Serials
      BY <1>0, <2>1, <2>2 DEF WorkerTypeOK, Holds
    <2>5. Holds(w)' /\ Progress(w)'
      BY <2>1, <2>4
         DEF Holds, Progress, MineSteps, UpdateSteps, CopySteps, HalfWrites, MovingSteps
    <2> QED BY <1>0, <2>2, <2>3, <2>5, ObjectsQuiet DEF StoreTypeOK, HalfWrites
  <1>2. CASE InsertMine(w)
    <2> DEFINE f == form[w]
    <2>1. /\ pc[w] = "insert_mine" /\ f \in Form /\ f.serial \in Serials /\ f.id # 0
          /\ UNCHANGED <<width, height, rover, rovers, nextMine, nextRover,
                         form, held, copy, here>>
          /\ pc' = [pc EXCEPT ![w] = "count_mine"]
      BY <1>0, <1>2 DEF InsertMine, Goto, Holds, WorkerTypeOK, sides, ids
    <2>2. NewMine(f) \in MineRecord /\ NewMine(f).id = f.id
      BY <2>1 DEF NewMine, MineRecord, Form
    <2>3. /\ mine' \in Seq(MineRecord) /\ Len(mine') = Len(mine) + 1
          /\ DOMAIN mine' = 1..(Len(mine) + 1)
          /\ \A o \in DOMAIN mine : mine'[o] = mine[o]
          /\ mine'[Len(mine) + 1] = NewMine(f)
      BY <1>0, <1>2, <2>2, AppendProperties DEF InsertMine
    <2>4. /\ mines' = Put(mines, f.id, Len(mine) + 1)
          /\ f.id \in Nat \ {0}
      BY <1>2, <2>1 DEF InsertMine, Form
    <2>5. StoreTypeOK' /\ MinesStay
      BY <1>0, <2>1, <2>3, <2>4 DEF StoreTypeOK, MinesStay, Put, MapUpdateRequest
    <2>6. (\A m \in DOMAIN mines : MineOf(m).id = m)'
      BY <1>0, <2>2, <2>3, <2>4 DEF IdsTrue, MineOf, StoreTypeOK, Put
    <2>7. WorkerTypeOK' /\ OthersKeep(w) /\ pc'[w] = "count_mine"
      BY <1>0, <2>1, <2>3 DEF WorkerTypeOK, PC, OthersKeep
    <2>8. Holds(w)' /\ Progress(w)'
      BY <2>7 DEF Holds, Progress, MineSteps, UpdateSteps, CopySteps, HalfWrites, MovingSteps
    <2> QED BY <2>1, <2>5, <2>6, <2>7, <2>8, RoversQuiet DEF HalfWrites
  <1>3. CASE CountMine(w)
    <2>1. /\ UNCHANGED <<width, height, mine, mines, rover, rovers, nextRover>>
          /\ nextMine' = nextMine + 1 /\ Respond(w) /\ pc[w] \notin HalfWrites
      BY <1>3 DEF CountMine, sides, HalfWrites
    <2>2. WorkerTypeOK' /\ OthersKeep(w) /\ Holds(w)' /\ Progress(w)'
      BY <1>0, <2>1, RespondTyped
    <2>3. nextMine' \in Nat \ {0}
      BY <1>0, <2>1 DEF StoreTypeOK
    <2> QED BY <1>0, <2>1, <2>2, <2>3, ObjectsQuiet DEF StoreTypeOK
  <1>4. ASSUME NEW from \in {"write_x", "write_y", "write_serial", "defuse_status", "defuse_pin"},
               NEW to \in {"write_y", "write_serial", "file_mine", "defuse_pin", "file_defused"},
               NEW m \in MineRecord, Writes(w, from, to, m), m.id = mine[here[w]].id,
               from \in {"write_x", "write_y", "write_serial"}
                 <=> to \in {"write_y", "write_serial", "file_mine"},
               from \in {"defuse_status", "defuse_pin"}
                 => copy[w].status = "Moving" /\ copy[w].executed < Len(copy[w].commands)
                    /\ copy[w].id # 0
        PROVE  RecordInv'
    <2>1. /\ pc[w] = from /\ pc' = [pc EXCEPT ![w] = to] /\ mine' = [mine EXCEPT ![here[w]] = m]
          /\ UNCHANGED <<width, height, mines, rover, rovers, nextMine, nextRover,
                         form, held, copy, here>>
          /\ here[w] \in DOMAIN mine /\ form[w].id = mine[here[w]].id /\ form[w].id # 0
      BY <1>0, <1>4 DEF Writes, Goto, sides, ids, Holds, MineSteps
    <2>2. /\ mine' \in Seq(MineRecord) /\ Len(mine') = Len(mine)
          /\ \A o \in DOMAIN mine : mine'[o].id = mine[o].id
      BY <1>0, <1>4, <2>1, ExceptSeq
    <2>3. DOMAIN mine' = DOMAIN mine
      BY <2>1
    <2>4. StoreTypeOK' /\ MinesStay /\ (\A i \in DOMAIN mines : MineOf(i).id = i)'
      BY <1>0, <2>1, <2>2, <2>3 DEF StoreTypeOK, MinesStay, MapUpdateRequest, IdsTrue, MineOf
    <2>5. WorkerTypeOK' /\ OthersKeep(w) /\ pc'[w] = to
      BY <1>0, <2>1, <2>3 DEF WorkerTypeOK, PC, OthersKeep, HalfWrites, MovingSteps
    <2>6. Holds(w)'
      BY <1>4, <2>1, <2>2, <2>3, <2>5
         DEF Holds, MineSteps, UpdateSteps, CopySteps, HalfWrites, MovingSteps
    <2>7. Progress(w)' /\ pc[w] \notin HalfWrites
      BY <2>1, <2>5 DEF Progress, HalfWrites
    <2> QED BY <2>1, <2>4, <2>5, <2>6, <2>7, RoversQuiet
  <1>5. ASSUME NEW from \in MineSteps, pc[w] = from
        PROVE  mine[here[w]] \in MineRecord /\ form[w] \in Form
    BY <1>0, <1>5 DEF Holds, WorkerTypeOK
  <1>6. CASE WriteMine(w)
    <2> DEFINE m == mine[here[w]]
               f == form[w]
               s == IF f.serial = "none" THEN m.serial ELSE f.serial
    <2>0. m \in MineRecord /\ f \in Form
      BY <1>5, <1>6 DEF WriteMine, Writes, Goto, MineSteps
    <2>1. CASE Writes(w, "write_x", "write_y", [m EXCEPT !.x = f.x])
      <3>1. [m EXCEPT !.x = f.x] \in MineRecord /\ [m EXCEPT !.x = f.x].id = m.id
        BY <2>0 DEF MineRecord, Form
      <3> QED BY <1>4, <2>1, <3>1
    <2>2. CASE Writes(w, "write_y", "write_serial", [m EXCEPT !.y = f.y])
      <3>1. [m EXCEPT !.y = f.y] \in MineRecord /\ [m EXCEPT !.y = f.y].id = m.id
        BY <2>0 DEF MineRecord, Form
      <3> QED BY <1>4, <2>2, <3>1
    <2>3. CASE Writes(w, "write_serial", "file_mine", [m EXCEPT !.serial = s])
      <3>0. s \in Serials
        BY <2>0 DEF MineRecord, Form
      <3> HIDE DEF s
      <3>1. [m EXCEPT !.serial = s] \in MineRecord /\ [m EXCEPT !.serial = s].id = m.id
        BY <2>0, <3>0 DEF MineRecord
      <3> QED BY <1>4, <2>3, <3>1
    <2> QED BY <1>6, <2>1, <2>2, <2>3 DEF WriteMine
  <1>7. CASE Defuse(w)
    <2> DEFINE m == mine[here[w]]
               s == form[w].serial
    <2>0. m \in MineRecord /\ form[w] \in Form
      BY <1>5, <1>7 DEF Defuse, Writes, Goto, MineSteps
    <2>1. copy[w].status = "Moving" /\ copy[w].executed < Len(copy[w].commands) /\ copy[w].id # 0
      BY <1>0, <1>7 DEF Defuse, Writes, Goto, Holds, MovingSteps
    <2>2. CASE Writes(w, "defuse_status", "defuse_pin", [m EXCEPT !.status = "defused"])
      <3>1. /\ [m EXCEPT !.status = "defused"] \in MineRecord
            /\ [m EXCEPT !.status = "defused"].id = m.id
        BY <2>0 DEF MineRecord
      <3> QED BY <1>4, <2>1, <2>2, <3>1
    <2>3. CASE Writes(w, "defuse_pin", "file_defused", [m EXCEPT !.pin = s])
      <3>1. [m EXCEPT !.pin = s] \in MineRecord /\ [m EXCEPT !.pin = s].id = m.id
        BY <2>0 DEF MineRecord, Form
      <3> QED BY <1>4, <2>1, <2>3, <3>1
    <2> QED BY <1>7, <2>2, <2>3 DEF Defuse
  <1>8. CASE FileMine(w)
    <2>1. /\ UNCHANGED <<width, height, mine, rover, rovers, nextMine, nextRover>>
          /\ mines' = Put(mines, form[w].id, here[w]) /\ Respond(w) /\ pc[w] = "file_mine"
      BY <1>8 DEF FileMine, sides, ids
    <2>2. WorkerTypeOK' /\ OthersKeep(w) /\ Holds(w)' /\ Progress(w)'
      BY <1>0, <2>1, RespondTyped
    <2>3. /\ here[w] \in DOMAIN mine /\ form[w].id = mine[here[w]].id
          /\ form[w].id \in Nat \ {0}
      BY <1>0, <2>1 DEF Holds, MineSteps, WorkerTypeOK, Form
    <2>4. StoreTypeOK' /\ MinesStay /\ (\A m \in DOMAIN mines : MineOf(m).id = m)'
      BY <1>0, <2>1, <2>3 DEF StoreTypeOK, MinesStay, MapUpdateRequest, IdsTrue, MineOf, Put
    <2> QED BY <2>1, <2>2, <2>4, RoversQuiet DEF HalfWrites
  <1>9. CASE \E m \in DOMAIN mines : DeleteMine(w, m)
    <2> PICK m \in DOMAIN mines : DeleteMine(w, m)
      BY <1>9
    <2>1. /\ UNCHANGED <<width, height, mine, rover, rovers, nextMine, nextRover,
                         pc, form, held, copy, here>>
          /\ mines' = [i \in DOMAIN mines \ {m} |-> mines[i]] /\ pc[w] = "idle"
      BY DEF DeleteMine, sides, ids, local
    <2>2. WorkerTypeOK' /\ OthersKeep(w) /\ pc'[w] = "idle"
      BY <1>0, <2>1 DEF WorkerTypeOK, OthersKeep
    <2>3. Holds(w)' /\ Progress(w)'
      BY <2>2 DEF Holds, Progress, MineSteps, UpdateSteps, CopySteps, HalfWrites, MovingSteps
    <2>4. StoreTypeOK' /\ MinesStay /\ (\A i \in DOMAIN mines : MineOf(i).id = i)'
      BY <1>0, <2>1 DEF StoreTypeOK, MinesStay, MapUpdateRequest, IdsTrue, MineOf
    <2> QED BY <2>1, <2>2, <2>3, <2>4, RoversQuiet DEF HalfWrites
  <1> QED
    BY <1>1, <1>2, <1>3, <1>6, <1>7, <1>8, <1>9

\* The writes to the map, the rovers' count, and an orphan's answer.
LEMMA NumberWritesKeep ==
    ASSUME RecordInv, NEW w \in Workers,
           WriteWidth(w) \/ WriteHeight(w) \/ CountRover(w) \/ OrphanReturns(w)
    PROVE  RecordInv'
  <1> USE DEF RecordInv, TypeOK
  <1>0. /\ StoreTypeOK /\ WorkerTypeOK /\ Holds(w)
        /\ width \in MapUpdateRequest /\ height \in MapUpdateRequest
        /\ nextMine \in Nat \ {0} /\ nextRover \in Nat \ {0}
    BY DEF WorkersHold, StoreTypeOK
  <1>1. CASE WriteWidth(w)
    <2>1. /\ UNCHANGED <<height, mine, mines, rover, rovers, nextMine, nextRover,
                         form, held, copy, here>>
          /\ width' = form[w].x /\ pc[w] = "write_width"
          /\ pc' = [pc EXCEPT ![w] = "write_height"]
      BY <1>1 DEF WriteWidth, Goto, ids
    <2>2. WorkerTypeOK' /\ OthersKeep(w) /\ pc'[w] = "write_height"
      BY <1>0, <2>1 DEF WorkerTypeOK, PC, OthersKeep
    <2>3. form[w].x \in MapUpdateRequest /\ form[w].y \in MapUpdateRequest
      BY <1>0, <2>1 DEF Holds
    <2>4. Holds(w)' /\ Progress(w)'
      BY <2>1, <2>2, <2>3 DEF Holds, Progress, MineSteps, UpdateSteps, CopySteps, HalfWrites,
                              MovingSteps, MapUpdateRequest
    <2> QED BY <1>0, <2>1, <2>2, <2>3, <2>4, ObjectsQuiet DEF HalfWrites
  <1>2. CASE WriteHeight(w)
    <2>1. /\ UNCHANGED <<width, mine, mines, rover, rovers, nextMine, nextRover>>
          /\ height' = form[w].y /\ pc[w] = "write_height" /\ Respond(w)
      BY <1>2 DEF WriteHeight, ids
    <2>2. WorkerTypeOK' /\ OthersKeep(w) /\ Holds(w)' /\ Progress(w)'
      BY <1>0, <2>1, RespondTyped
    <2>3. form[w].y \in MapUpdateRequest
      BY <1>0, <2>1 DEF Holds
    <2> QED BY <1>0, <2>1, <2>2, <2>3, ObjectsQuiet DEF HalfWrites
  <1>3. CASE CountRover(w)
    <2>1. /\ UNCHANGED <<width, height, mine, mines, rover, rovers, nextMine>>
          /\ nextRover' = nextRover + 1 /\ pc[w] = "count_rover" /\ Respond(w)
      BY <1>3 DEF CountRover, sides
    <2>2. WorkerTypeOK' /\ OthersKeep(w) /\ Holds(w)' /\ Progress(w)'
      BY <1>0, <2>1, RespondTyped
    <2>3. nextRover' \in Nat \ {0}
      BY <1>0, <2>1
    <2> QED BY <1>0, <2>1, <2>2, <2>3, ObjectsQuiet DEF HalfWrites
  <1>4. CASE OrphanReturns(w)
    <2>1. /\ UNCHANGED <<width, height, mine, mines, rover, rovers, nextMine, nextRover,
                         form, held, copy, here>>
          /\ pc[w] = "orphan" /\ pc' = [pc EXCEPT ![w] = "idle"]
      BY <1>4 DEF OrphanReturns, Goto, store, sides, ids
    <2>2. WorkerTypeOK' /\ OthersKeep(w) /\ pc'[w] = "idle"
      BY <1>0, <2>1 DEF WorkerTypeOK, PC, OthersKeep
    <2>3. Holds(w)' /\ Progress(w)'
      BY <2>2 DEF Holds, Progress, MineSteps, UpdateSteps, CopySteps, HalfWrites, MovingSteps
    <2> QED BY <1>0, <2>1, <2>2, <2>3, ObjectsQuiet DEF HalfWrites
  <1> QED
    BY <1>1, <1>2, <1>3, <1>4

\* Of the rover objects, those stay that something refers to after the step.
LEMMA LeavesGives ==
    ASSUME rover \in [Objects -> RoverRecord], NEW heap \in [Objects -> RoverRecord],
           Leaves(heap)
    PROVE  /\ rover' \in [Objects -> RoverRecord]
           /\ \A o \in Objects : rover'[o] \in {heap[o], NoRover}
           /\ \A r \in DOMAIN rovers' : rovers'[r] \in Objects => rover'[rovers'[r]] = heap[rovers'[r]]
           /\ \A v \in Workers : held'[v] \in Objects => rover'[held'[v]] = heap[held'[v]]
  BY NoRoverTells DEF Leaves, Referenced

\* A new object takes a place that nothing refers to.
LEMMA FilesGives ==
    ASSUME StoreTypeOK, NEW c \in RoverRecord, c.id # 0, Files(c),
           \A v \in Workers : held'[v] \in {held[v], 0}
    PROVE  /\ rover' \in [Objects -> RoverRecord]
           /\ DOMAIN rovers' = DOMAIN rovers \cup {c.id}
           /\ DOMAIN rovers' \subseteq Nat \ {0} /\ rovers' \in [DOMAIN rovers' -> Objects]
           /\ RoverOf(c.id)' = c
           /\ \A r \in DOMAIN rovers \ {c.id} :
                rovers'[r] = rovers[r] /\ RoverOf(r)' = RoverOf(r)
           /\ \A o \in Objects : rover'[o] \in {rover[o], c, NoRover}
           /\ \A v \in Workers : held'[v] \in Objects => rover'[held'[v]] = rover[held'[v]]
  <1>1. PICK o \in Objects \ Referenced :
           /\ rovers' = Put(rovers, c.id, o)
           /\ Leaves([rover EXCEPT ![o] = c])
    BY DEF Files
  <1> DEFINE heap == [rover EXCEPT ![o] = c]
  <1>2. /\ heap \in [Objects -> RoverRecord] /\ heap[o] = c
        /\ \A p \in Objects \ {o} : heap[p] = rover[p]
    BY DEF StoreTypeOK
  <1>3. /\ DOMAIN rovers' = DOMAIN rovers \cup {c.id} /\ rovers'[c.id] = o
        /\ \A r \in DOMAIN rovers \ {c.id} : rovers'[r] = rovers[r]
    BY <1>1 DEF Put
  <1>4. DOMAIN rovers' \subseteq Nat \ {0} /\ rovers' \in [DOMAIN rovers' -> Objects]
    BY <1>1, <1>3 DEF StoreTypeOK, RoverRecord, Put
  <1>5. /\ \A r \in DOMAIN rovers : rovers[r] \in Objects \ {o}
        /\ \A v \in Workers : held[v] # o
    BY DEF StoreTypeOK, Referenced
  <1> HIDE DEF heap
  <1>6. Leaves(heap)
    BY <1>1 DEF heap
  <1>7. /\ rover' \in [Objects -> RoverRecord]
        /\ \A p \in Objects : rover'[p] \in {heap[p], NoRover}
        /\ \A r \in DOMAIN rovers' : rover'[rovers'[r]] = heap[rovers'[r]]
        /\ \A v \in Workers : held'[v] \in Objects => rover'[held'[v]] = heap[held'[v]]
    BY <1>2, <1>4, <1>6, LeavesGives DEF StoreTypeOK
  <1>8. RoverOf(c.id)' = c
    BY <1>2, <1>3, <1>7 DEF RoverOf
  <1>9. \A r \in DOMAIN rovers \ {c.id} : RoverOf(r)' = RoverOf(r)
    BY <1>2, <1>3, <1>5, <1>7 DEF RoverOf
  <1>10. \A p \in Objects : rover'[p] \in {rover[p], c, NoRover}
    BY <1>2, <1>7
  <1>11. \A v \in Workers : held'[v] \in Objects => rover'[held'[v]] = rover[held'[v]]
    <2> SUFFICES ASSUME NEW v \in Workers, held'[v] \in Objects
                 PROVE  rover'[held'[v]] = rover[held'[v]]
      OBVIOUS
    <2>1. held'[v] = held[v]
      BY StoreAssumption
    <2> QED BY <1>2, <1>5, <1>7, <2>1
  <1> QED
    BY <1>3, <1>4, <1>7, <1>8, <1>9, <1>10, <1>11

\* A step that writes no mine and leaves every rover object that a worker
\* holds as it is.
LEMMA HeapChanges ==
    ASSUME RecordInv, NEW w \in Workers,
           UNCHANGED <<width, height, mine, mines, nextMine, nextRover>>,
           rover' \in [Objects -> RoverRecord],
           DOMAIN rovers' \subseteq Nat \ {0}, rovers' \in [DOMAIN rovers' -> Objects],
           \A r \in DOMAIN rovers' : RoverOf(r)'.id = r,
           \A o \in Objects : rover'[o] = rover[o] \/ RecordTells(rover'[o]),
           \A v \in Workers \ {w} : held[v] \in Objects => rover'[held[v]] = rover[held[v]],
           OthersKeep(w), pc[w] \notin HalfWrites,
           WorkerTypeOK', Holds(w)', Progress(w)'
    PROVE  RecordInv'
  <1> USE DEF RecordInv, TypeOK
  <1>1. StoreTypeOK' /\ IdsTrue'
    BY DEF StoreTypeOK, IdsTrue, MapUpdateRequest, MineOf
  <1>2. AllTell'
    BY StillTell
  <1>3. WorkersHold'
    BY AllHold DEF MinesStay, Kept
  <1> QED
    BY <1>1, <1>2, <1>3

\* The five writes of an update to the rover object it holds.
LEMMA UpdateWritesKeep ==
    ASSUME RecordInv, NEW w \in Workers, WriteRover(w)
    PROVE  RecordInv'
  <1> USE DEF RecordInv, TypeOK
  <1> DEFINE o == held[w]
             r == rover[o]
  <1>0. /\ StoreTypeOK /\ WorkerTypeOK /\ Holds(w) /\ Progress(w)
        /\ pc[w] \in UpdateSteps /\ o \in Objects /\ r \in RoverRecord
        /\ copy[w].id # 0 /\ r.id = copy[w].id /\ copy[w] \in RoverRecord
    BY DEF WorkersHold, WriteRover, Sets, Goto, StoreTypeOK, WorkerTypeOK, Holds,
           UpdateSteps, HalfWrites
  <1>1. ASSUME NEW from \in UpdateSteps, NEW to \in UpdateSteps, NEW d \in RoverRecord,
               Sets(w, from, to, d), d.id = r.id,
               r.executed = 0 => d.executed = 0,
               r.status = "Not Started" => d.status = "Not Started",
               r.x = 0 /\ r.y = 0 => d.x = 0 /\ d.y = 0,
               to \in {"write_status", "write_position", "write_direction"} => d.executed = 0,
               to \in {"write_position", "write_direction"} => d.status = "Not Started",
               to = "write_direction" => d.x = 0 /\ d.y = 0,
               to \in HalfWrites \/ RecordTells(d)
        PROVE  RecordInv'
    <2>1. /\ pc[w] = from /\ pc' = [pc EXCEPT ![w] = to] /\ rover' = [rover EXCEPT ![o] = d]
          /\ UNCHANGED <<width, height, mine, mines, rovers, nextMine, nextRover,
                         form, held, copy, here>>
      BY <1>1 DEF Sets, Goto, sides, ids
    <2>2. /\ rover' \in [Objects -> RoverRecord] /\ rover'[o] = d
          /\ \A p \in Objects \ {o} : rover'[p] = rover[p]
      BY <1>0, <1>1, <2>1 DEF StoreTypeOK
    <2>3. StoreTypeOK' /\ MinesStay
      BY <1>0, <2>1, <2>2 DEF StoreTypeOK, MinesStay, MapUpdateRequest
    <2>4. IdsTrue'
      BY <1>0, <1>1, <2>1, <2>2 DEF IdsTrue, MineOf, RoverOf, StoreTypeOK
    <2>5. WorkerTypeOK' /\ OthersKeep(w) /\ pc'[w] = to
      BY <1>0, <1>1, <2>1 DEF WorkerTypeOK, PC, OthersKeep, UpdateSteps
    <2>6. \A p \in Objects : Kept(p)
      BY <1>0, <1>1, <2>2 DEF Kept
    <2>7. Holds(w)' /\ Progress(w)'
      BY <1>0, <1>1, <2>1, <2>2, <2>5
         DEF Holds, Progress, MineSteps, UpdateSteps, CopySteps, HalfWrites, MovingSteps
    <2>8. WorkersHold'
      BY <2>3, <2>5, <2>6, <2>7, AllHold
    <2>9. ASSUME NEW p \in Objects PROVE HalfWritten(p)' \/ RecordTells(rover'[p])
      <3>1. CASE p = o
        BY <1>1, <2>1, <2>2, <2>5, <3>1 DEF HalfWritten
      <3>2. CASE p # o
        <4>1. RecordTells(rover[p]) => RecordTells(rover'[p])
          BY <2>2, <3>2
        <4>2. ASSUME NEW v \in Workers, held[v] = p PROVE held'[v] = p /\ pc'[v] = pc[v]
          BY <2>1, <2>5, <3>2, <4>2 DEF OthersKeep
        <4> QED BY <4>1, <4>2 DEF AllTell, HalfWritten
      <3> QED BY <3>1, <3>2
    <2>10. AllTell'
      BY <2>9 DEF AllTell, RecordTells, NewRover
    <2> QED BY <2>3, <2>4, <2>5, <2>8, <2>10
  <1>2. CASE Sets(w, "write_commands", "write_executed", [r EXCEPT !.commands = copy[w].commands])
    <2> DEFINE d == [r EXCEPT !.commands = copy[w].commands]
    <2>1. /\ d \in RoverRecord /\ d.id = r.id /\ d.executed = r.executed
          /\ d.status = r.status /\ d.x = r.x /\ d.y = r.y
      BY <1>0 DEF RoverRecord
    <2> HIDE DEF d
    <2>2. Sets(w, "write_commands", "write_executed", d)
      BY <1>2 DEF d
    <2> QED BY <1>1, <2>1, <2>2 DEF UpdateSteps, HalfWrites
  <1>3. CASE Sets(w, "write_executed", "write_status", [r EXCEPT !.executed = 0])
    <2> DEFINE d == [r EXCEPT !.executed = 0]
    <2>1. /\ d \in RoverRecord /\ d.id = r.id /\ d.executed = 0
          /\ d.status = r.status /\ d.x = r.x /\ d.y = r.y
      BY <1>0 DEF RoverRecord
    <2> HIDE DEF d
    <2>2. Sets(w, "write_executed", "write_status", d)
      BY <1>3 DEF d
    <2> QED BY <1>1, <2>1, <2>2 DEF UpdateSteps, HalfWrites
  <1>4. CASE Sets(w, "write_status", "write_position", [r EXCEPT !.status = "Not Started"])
    <2> DEFINE d == [r EXCEPT !.status = "Not Started"]
    <2>1. /\ d \in RoverRecord /\ d.id = r.id /\ d.executed = r.executed
          /\ d.status = "Not Started" /\ d.x = r.x /\ d.y = r.y
      BY <1>0 DEF RoverRecord, RoverStatus
    <2>2. r.executed = 0
      BY <1>0, <1>4 DEF Sets, Goto, Progress
    <2> HIDE DEF d
    <2>3. Sets(w, "write_status", "write_position", d)
      BY <1>4 DEF d
    <2> QED BY <1>1, <2>1, <2>2, <2>3 DEF UpdateSteps, HalfWrites
  <1>5. CASE Sets(w, "write_position", "write_direction", [r EXCEPT !.x = 0, !.y = 0])
    <2> DEFINE d == [r EXCEPT !.x = 0, !.y = 0]
    <2>1. /\ d \in RoverRecord /\ d.id = r.id /\ d.executed = r.executed
          /\ d.status = r.status /\ d.x = 0 /\ d.y = 0
      BY <1>0 DEF RoverRecord
    <2>2. r.executed = 0 /\ r.status = "Not Started"
      BY <1>0, <1>5 DEF Sets, Goto, Progress
    <2> HIDE DEF d
    <2>3. Sets(w, "write_position", "write_direction", d)
      BY <1>5 DEF d
    <2> QED BY <1>1, <2>1, <2>2, <2>3 DEF UpdateSteps, HalfWrites
  <1>6. CASE Sets(w, "write_direction", "file_rover", [r EXCEPT !.dir = "S"])
    <2> DEFINE d == [r EXCEPT !.dir = "S"]
    <2>1. r.executed = 0 /\ r.status = "Not Started" /\ r.x = 0 /\ r.y = 0
      BY <1>0, <1>6 DEF Sets, Goto, Progress
    <2>2. /\ d \in RoverRecord /\ d.id = r.id /\ d.executed = 0
          /\ d.status = "Not Started" /\ d.x = 0 /\ d.y = 0 /\ d.dir = "S"
      BY <1>0, <2>1 DEF RoverRecord, Directions
    <2> HIDE DEF d
    <2>3. Sets(w, "write_direction", "file_rover", d) /\ RecordTells(d)
      BY <1>6, <2>2, ResetTells DEF d
    <2> QED BY <1>1, <2>1, <2>2, <2>3 DEF UpdateSteps, HalfWrites
  <1> QED
    BY <1>2, <1>3, <1>4, <1>5, <1>6 DEF WriteRover

\* The other changes of the rover objects and of their table.
LEMMA RoverFilesKeep ==
    ASSUME RecordInv, NEW w \in Workers,
           \/ InsertRover(w) \/ FileRover(w) \/ SaveRover(w)
           \/ \E r \in DOMAIN rovers : DeleteRover(w, r)
    PROVE  RecordInv'
  <1> USE DEF RecordInv, TypeOK
  <1>0. /\ StoreTypeOK /\ WorkerTypeOK /\ Holds(w) /\ copy[w] \in RoverRecord
        /\ rover \in [Objects -> RoverRecord] /\ 0 \notin Objects
    BY StoreAssumption DEF WorkersHold, StoreTypeOK, WorkerTypeOK
  <1>1. ASSUME NEW c \in RoverRecord, c.id # 0, RecordTells(c), Files(c),
               UNCHANGED <<width, height, mine, mines, nextMine, nextRover>>,
               held'[w] \in {held[w], 0},
               OthersKeep(w), pc[w] \notin HalfWrites, WorkerTypeOK', Holds(w)', Progress(w)'
        PROVE  RecordInv'
    <2>0. \A v \in Workers : held'[v] \in {held[v], 0}
      BY <1>1 DEF OthersKeep
    <2>1. /\ rover' \in [Objects -> RoverRecord]
          /\ DOMAIN rovers' = DOMAIN rovers \cup {c.id}
          /\ DOMAIN rovers' \subseteq Nat \ {0} /\ rovers' \in [DOMAIN rovers' -> Objects]
          /\ RoverOf(c.id)' = c
          /\ \A r \in DOMAIN rovers \ {c.id} : RoverOf(r)' = RoverOf(r)
          /\ \A o \in Objects : rover'[o] \in {rover[o], c, NoRover}
          /\ \A v \in Workers : held'[v] \in Objects => rover'[held'[v]] = rover[held'[v]]
      BY <1>0, <1>1, <2>0, FilesGives
    <2>2. \A r \in DOMAIN rovers' : RoverOf(r)'.id = r
      BY <2>1 DEF IdsTrue
    <2>3. \A o \in Objects : rover'[o] = rover[o] \/ RecordTells(rover'[o])
      BY <1>1, <2>1, NoRoverTells
    <2>4. \A v \in Workers \ {w} : held[v] \in Objects => rover'[held[v]] = rover[held[v]]
      BY <1>1, <2>1 DEF OthersKeep
    <2> QED BY <1>1, <2>1, <2>2, <2>3, <2>4, HeapChanges
  <1>2. CASE InsertRover(w)
    <2>1. /\ pc[w] = "insert_rover" /\ pc' = [pc EXCEPT ![w] = "count_rover"] /\ Files(copy[w])
          /\ UNCHANGED <<width, height, mine, mines, nextMine, nextRover, form, held, copy, here>>
      BY <1>2 DEF InsertRover, Goto, sides, ids
    <2>2. WorkerTypeOK' /\ OthersKeep(w) /\ pc'[w] = "count_rover" /\ held' = held
      BY <1>0, <2>1 DEF WorkerTypeOK, PC, OthersKeep
    <2>3. Holds(w)' /\ Progress(w)'
      BY <2>2 DEF Holds, Progress, MineSteps, UpdateSteps, CopySteps, HalfWrites, MovingSteps
    <2>4. copy[w].id # 0 /\ RecordTells(copy[w])
      BY <1>0, <2>1 DEF Holds
    <2> QED BY <1>0, <1>1, <2>1, <2>2, <2>3, <2>4 DEF HalfWrites
  <1>3. CASE SaveRover(w)
    <2> DEFINE c == IF copy[w].status = "Eliminated" THEN copy[w]
                    ELSE [copy[w] EXCEPT !.status = "Finished"]
    <2>1. /\ UNCHANGED <<width, height, mine, mines, nextMine, nextRover>>
          /\ pc[w] = "look" /\ Done(copy[w]) /\ Respond(w) /\ Files(c)
      BY <1>3 DEF SaveRover, sides, ids
    <2>2. copy[w].id # 0 /\ LoopTells(copy[w])
      BY <1>0, <2>1 DEF Holds, MovingSteps
    <2>3. c \in RoverRecord /\ c.id # 0
      BY <1>0, <2>2 DEF RoverRecord, RoverStatus
    <2>4. RecordTells(c)
      BY <1>0, <2>1, <2>2 DEF RecordTells, LoopTells, Done, RoverRecord
    <2> HIDE DEF c
    <2>5. /\ WorkerTypeOK' /\ OthersKeep(w) /\ Holds(w)' /\ Progress(w)'
          /\ held'[w] = 0
      BY <1>0, <2>1, RespondTyped
    <2> QED BY <1>1, <2>1, <2>3, <2>4, <2>5 DEF HalfWrites
  <1>4. CASE FileRover(w)
    <2>1. /\ UNCHANGED <<width, height, mine, mines, nextMine, nextRover>>
          /\ pc[w] = "file_rover" /\ Respond(w) /\ Leaves(rover)
          /\ rovers' = Put(rovers, copy[w].id, held[w])
      BY <1>4 DEF FileRover, sides, ids
    <2>2. /\ WorkerTypeOK' /\ OthersKeep(w) /\ Holds(w)' /\ Progress(w)'
      BY <1>0, <2>1, RespondTyped
    <2>3. held[w] \in Objects /\ copy[w].id \in Nat \ {0} /\ rover[held[w]].id = copy[w].id
      BY <1>0, <2>1 DEF Holds, UpdateSteps, RoverRecord
    <2>4. DOMAIN rovers' \subseteq Nat \ {0} /\ rovers' \in [DOMAIN rovers' -> Objects]
      BY <1>0, <2>1, <2>3 DEF Put, StoreTypeOK
    <2>5. /\ rover' \in [Objects -> RoverRecord]
          /\ \A o \in Objects : rover'[o] \in {rover[o], NoRover}
          /\ \A r \in DOMAIN rovers' : rover'[rovers'[r]] = rover[rovers'[r]]
          /\ \A v \in Workers : held'[v] \in Objects => rover'[held'[v]] = rover[held'[v]]
      BY <1>0, <2>1, <2>4, LeavesGives
    <2>6. \A r \in DOMAIN rovers' : RoverOf(r)'.id = r
      BY <1>0, <2>1, <2>3, <2>5 DEF IdsTrue, RoverOf, Put
    <2>7. \A o \in Objects : rover'[o] = rover[o] \/ RecordTells(rover'[o])
      BY <2>5, NoRoverTells
    <2>8. \A v \in Workers \ {w} : held[v] \in Objects => rover'[held[v]] = rover[held[v]]
      BY <2>2, <2>5 DEF OthersKeep
    <2> QED BY <2>1, <2>2, <2>4, <2>5, <2>6, <2>7, <2>8, HeapChanges DEF HalfWrites
  <1>5. CASE \E r \in DOMAIN rovers : DeleteRover(w, r)
    <2> PICK r \in DOMAIN rovers : DeleteRover(w, r)
      BY <1>5
    <2>1. /\ UNCHANGED <<width, height, mine, mines, nextMine, nextRover,
                         pc, form, held, copy, here>>
          /\ pc[w] = "idle" /\ Leaves(rover)
          /\ rovers' = [i \in DOMAIN rovers \ {r} |-> rovers[i]]
      BY DEF DeleteRover, sides, ids, local
    <2>2. WorkerTypeOK' /\ OthersKeep(w) /\ pc'[w] = "idle"
      BY <1>0, <2>1 DEF WorkerTypeOK, OthersKeep
    <2>3. Holds(w)' /\ Progress(w)'
      BY <2>2 DEF Holds, Progress, MineSteps, UpdateSteps, CopySteps, HalfWrites, MovingSteps
    <2>4. DOMAIN rovers' \subseteq Nat \ {0} /\ rovers' \in [DOMAIN rovers' -> Objects]
      BY <1>0, <2>1 DEF StoreTypeOK
    <2>5. /\ rover' \in [Objects -> RoverRecord]
          /\ \A o \in Objects : rover'[o] \in {rover[o], NoRover}
          /\ \A i \in DOMAIN rovers' : rover'[rovers'[i]] = rover[rovers'[i]]
          /\ \A v \in Workers : held'[v] \in Objects => rover'[held'[v]] = rover[held'[v]]
      BY <1>0, <2>1, <2>4, LeavesGives
    <2>6. \A i \in DOMAIN rovers' : RoverOf(i)'.id = i
      BY <1>0, <2>1, <2>5 DEF IdsTrue, RoverOf
    <2>7. \A o \in Objects : rover'[o] = rover[o] \/ RecordTells(rover'[o])
      BY <2>5, NoRoverTells
    <2>8. \A v \in Workers \ {w} : held[v] \in Objects => rover'[held[v]] = rover[held[v]]
      BY <2>1, <2>5
    <2> QED BY <2>1, <2>2, <2>3, <2>4, <2>5, <2>6, <2>7, <2>8, HeapChanges DEF HalfWrites
  <1> QED
    BY <1>2, <1>3, <1>4, <1>5

\* The copying that begins a dispatch.
LEMMA CopiesKeep ==
    ASSUME RecordInv, NEW w \in Workers, CopyPlace(w) \/ CopyCommands(w)
    PROVE  RecordInv'
  <1> USE DEF RecordInv, TypeOK
  <1> DEFINE c == copy[w]
             r == rover[held[w]]
  <1>0. /\ StoreTypeOK /\ WorkerTypeOK /\ Holds(w) /\ c \in RoverRecord
        /\ rover \in [Objects -> RoverRecord] /\ pc[w] \in CopySteps
        /\ held[w] \in Objects /\ r \in RoverRecord /\ c.id # 0 /\ r.id = c.id
        /\ c.status = "Moving" /\ c.executed = 0
    BY DEF WorkersHold, StoreTypeOK, WorkerTypeOK, CopyPlace, CopyCommands, Copies, Goto,
           Holds, CopySteps
  <1>1. CASE CopyPlace(w)
    <2>1. PICK d \in RoverRecord, to \in CopySteps :
             /\ Copies(w, pc[w], to, d)
             /\ d.id = c.id /\ d.status = c.status /\ d.executed = c.executed
      <3>1. CASE Copies(w, "copy_position", "copy_direction", [c EXCEPT !.x = r.x, !.y = r.y])
        <4>1. [c EXCEPT !.x = r.x, !.y = r.y] \in RoverRecord
          BY <1>0 DEF RoverRecord
        <4> QED BY <1>0, <3>1, <4>1 DEF Copies, Goto, RoverRecord, CopySteps
      <3>2. CASE Copies(w, "copy_direction", "copy_commands", [c EXCEPT !.dir = r.dir])
        <4>1. [c EXCEPT !.dir = r.dir] \in RoverRecord
          BY <1>0 DEF RoverRecord
        <4> QED BY <1>0, <3>2, <4>1 DEF Copies, Goto, RoverRecord, CopySteps
      <3> QED BY <1>1, <3>1, <3>2 DEF CopyPlace
    <2>2. /\ UNCHANGED <<width, height, mine, mines, rover, rovers, nextMine, nextRover,
                         form, held, here>>
          /\ pc' = [pc EXCEPT ![w] = to] /\ copy' = [copy EXCEPT ![w] = d]
      BY <1>1, <2>1 DEF CopyPlace, Copies, Goto, store, sides, ids
    <2>3. WorkerTypeOK' /\ OthersKeep(w) /\ pc'[w] = to /\ copy'[w] = d
      BY <1>0, <2>1, <2>2 DEF WorkerTypeOK, PC, OthersKeep, CopySteps
    <2>4. Holds(w)' /\ Progress(w)'
      BY <1>0, <2>1, <2>2, <2>3
         DEF Holds, Progress, MineSteps, UpdateSteps, CopySteps, HalfWrites, MovingSteps
    <2> QED BY <1>0, <2>2, <2>3, <2>4, ObjectsQuiet DEF StoreTypeOK, CopySteps, HalfWrites
  <1>2. CASE CopyCommands(w)
    <2> DEFINE d == [c EXCEPT !.commands = r.commands]
    <2>1. /\ d \in RoverRecord /\ d.id # 0 /\ d.status = "Moving" /\ d.executed = 0
          /\ d.commands = r.commands
      BY <1>0 DEF RoverRecord
    <2>2. /\ UNCHANGED <<width, height, mine, mines, rovers, nextMine, nextRover, form, here>>
          /\ pc' = [pc EXCEPT ![w] = "look"] /\ copy' = [copy EXCEPT ![w] = d]
          /\ held' = [held EXCEPT ![w] = 0] /\ Leaves(rover)
      BY <1>2 DEF CopyCommands, Copies, Goto, sides, ids
    <2>3. LoopTells(d)
      BY <1>0, <2>1, ProgramLength DEF LoopTells, RoverRecord
    <2> HIDE DEF d
    <2>4. WorkerTypeOK' /\ OthersKeep(w) /\ pc'[w] = "look" /\ copy'[w] = d
      BY <1>0, <2>1, <2>2 DEF WorkerTypeOK, PC, OthersKeep, MovingSteps
    <2>5. LoopTells(copy[w])'
      BY <2>3, <2>4 DEF LoopTells
    <2>6. Holds(w)' /\ Progress(w)'
      BY <2>1, <2>4, <2>5
         DEF Holds, Progress, MineSteps, UpdateSteps, CopySteps, HalfWrites, MovingSteps
    <2>7. /\ rover' \in [Objects -> RoverRecord]
          /\ \A o \in Objects : rover'[o] \in {rover[o], NoRover}
          /\ \A i \in DOMAIN rovers' : rover'[rovers'[i]] = rover[rovers'[i]]
          /\ \A v \in Workers : held'[v] \in Objects => rover'[held'[v]] = rover[held'[v]]
      BY <1>0, <2>2, LeavesGives DEF StoreTypeOK
    <2>8. \A i \in DOMAIN rovers' : RoverOf(i)'.id = i
      BY <1>0, <2>2, <2>7 DEF IdsTrue, RoverOf
    <2>9. \A o \in Objects : rover'[o] = rover[o] \/ RecordTells(rover'[o])
      BY <2>7, NoRoverTells
    <2>10. \A v \in Workers \ {w} : held[v] \in Objects => rover'[held[v]] = rover[held[v]]
      BY <2>4, <2>7 DEF OthersKeep
    <2> QED BY <1>0, <2>2, <2>4, <2>6, <2>7, <2>8, <2>9, <2>10, HeapChanges
            DEF StoreTypeOK, CopySteps, HalfWrites
  <1> QED
    BY <1>1, <1>2

\* The loop of a dispatch.
LEMMA LoopKeeps ==
    ASSUME RecordInv, NEW w \in Workers,
           \/ Look(w) \/ Turn(w) \/ DefuseNothing(w) \/ BeginDefuse(w) \/ FileDefused(w)
           \/ DefuseRaises(w) \/ Eliminate(w) \/ Move(w)
    PROVE  RecordInv'
  <1> USE DEF RecordInv, TypeOK
  <1> DEFINE c == copy[w]
  <1>0. /\ c \in RoverRecord /\ Len(c.commands) \in Nat
        /\ c.executed \in Nat /\ c.x \in Nat /\ c.y \in Nat /\ c.dir \in Directions
        /\ width \in Nat /\ height \in Nat
        /\ StoreTypeOK /\ WorkerTypeOK /\ Holds(w) /\ pc[w] \in MovingSteps /\ c.id # 0
    <2>1. c \in RoverRecord /\ width \in Nat /\ height \in Nat
      BY StoreAssumption DEF WorkerTypeOK, StoreTypeOK, MapUpdateRequest
    <2>2. /\ Len(c.commands) \in Nat
          /\ c.executed \in Nat /\ c.x \in Nat /\ c.y \in Nat /\ c.dir \in Directions
      BY <2>1, ProgramLength DEF RoverRecord
    <2>3. pc[w] \in MovingSteps
      BY DEF Look, Turn, DefuseNothing, BeginDefuse, FileDefused, DefuseRaises, Eliminate,
             Move, Executed, Goto, MovingSteps
    <2> QED BY <2>1, <2>2, <2>3 DEF WorkersHold, Holds
  <1>1. ASSUME UNCHANGED store
        PROVE  UNCHANGED <<mine, mines, rover, rovers, nextMine, nextRover, width, height>>
    BY <1>1 DEF store, sides, ids
  <1>2. ASSUME UNCHANGED store, OthersKeep(w), WorkerTypeOK', Holds(w)', Progress(w)'
        PROVE  RecordInv'
    BY <1>0, <1>1, <1>2, ObjectsQuiet DEF StoreTypeOK, HalfWrites, MovingSteps
  <1>3. CASE Look(w)
    <2>1. /\ UNCHANGED <<form, held, copy>> /\ pc' = [pc EXCEPT ![w] = "act"] /\ UNCHANGED store
          /\ \E h : here' = [here EXCEPT ![w] = h] /\ (h = 0 \/ h \in DOMAIN mine)
          /\ ~Done(c) /\ pc[w] = "look"
      BY <1>0, <1>3 DEF Look, Goto, ActiveMinesAt, StoreTypeOK
    <2>2. WorkerTypeOK' /\ OthersKeep(w) /\ pc'[w] = "act"
      BY <1>0, <1>1, <2>1 DEF WorkerTypeOK, PC, OthersKeep, MovingSteps
    <2>3. c.status = "Moving" /\ c.executed < Len(c.commands)
      BY <1>0, <2>1 DEF Done, Holds, LoopTells
    <2>4. Holds(w)' /\ Progress(w)'
      BY <1>0, <2>1, <2>2, <2>3
         DEF Holds, Progress, MineSteps, UpdateSteps, CopySteps, HalfWrites, MovingSteps
    <2> QED BY <1>2, <2>1, <2>2, <2>4
  <1>4. CASE DefuseRaises(w)
    BY <1>0, <1>1, <1>2, <1>4, RespondTyped DEF DefuseRaises
  <1>5. ASSUME NEW from \in {"act", "file_defused"}, UNCHANGED mine, pc[w] = from,
               NEW d \in RoverRecord, Executed(w, from, d),
               d.commands = c.commands, d.executed = c.executed, d.id = c.id,
               \/ d.status = "Moving"
               \/ d.status = "Eliminated" /\ Command(w) = "M"
        PROVE  OthersKeep(w) /\ WorkerTypeOK' /\ Holds(w)' /\ Progress(w)'
    <2> DEFINE e == [d EXCEPT !.executed = d.executed + 1]
    <2>1. WorkerTypeOK' /\ OthersKeep(w) /\ pc'[w] = "look" /\ copy'[w] = e
      BY <1>0, <1>5, ExecutedTyped
    <2>2. c.executed < Len(c.commands)
      BY <1>0, <1>5 DEF Holds, MovingSteps
    <2>3. /\ e.executed = c.executed + 1 /\ e.commands = c.commands
          /\ e.status = d.status /\ e.id = c.id
      BY <1>5 DEF RoverRecord
    <2>4. LoopTells(e)
      BY <1>0, <1>5, <2>2, <2>3 DEF LoopTells, Command
    <2> HIDE DEF e
    <2>5. LoopTells(copy[w])'
      BY <2>1, <2>4 DEF LoopTells
    <2>6. Holds(w)' /\ Progress(w)'
      BY <1>0, <2>1, <2>3, <2>5
         DEF Holds, Progress, MineSteps, UpdateSteps, CopySteps, HalfWrites, MovingSteps
    <2> QED BY <2>1, <2>6
  <1>6. ASSUME pc[w] \in {"act", "file_defused"} PROVE c.status = "Moving"
    BY <1>0, <1>6 DEF Holds, MovingSteps
  <1>7. CASE Turn(w)
    <2>1. PICK t \in Directions : Executed(w, "act", [c EXCEPT !.dir = t])
      BY <1>0, <1>7 DEF Turn, turn_left, turn_right, Directions
    <2> DEFINE d == [c EXCEPT !.dir = t]
    <2>2. /\ d \in RoverRecord /\ d.commands = c.commands /\ d.executed = c.executed
          /\ d.id = c.id /\ d.status = c.status
      BY <1>0 DEF RoverRecord
    <2>3. pc[w] = "act" /\ UNCHANGED store
      BY <1>7 DEF Turn
    <2> HIDE DEF d
    <2> QED BY <1>1, <1>2, <1>5, <1>6, <2>1, <2>2, <2>3 DEF d
  <1>8. CASE DefuseNothing(w)
    BY <1>0, <1>1, <1>2, <1>5, <1>6, <1>8 DEF DefuseNothing
  <1>9. CASE BeginDefuse(w)
    <2> DEFINE m == mine[here[w]].id
               f == [id |-> m, x |-> 0, y |-> 0, serial |-> mine[here[w]].serial]
    <2>1. /\ pc[w] = "act" /\ here[w] \in DOMAIN mine /\ m \in DOMAIN mines
          /\ mine[here[w]] \in MineRecord
      BY <1>0, <1>9 DEF BeginDefuse, WorkerTypeOK, StoreTypeOK
    <2>2. /\ f \in Form /\ f.id = m /\ m # 0 /\ mines[m] \in DOMAIN mine
          /\ mine[mines[m]].id = m
      BY <1>0, <2>1 DEF StoreTypeOK, Form, MineRecord, IdsTrue, MineOf
    <2>3. /\ pc' = [pc EXCEPT ![w] = "defuse_status"] /\ form' = [form EXCEPT ![w] = f]
          /\ here' = [here EXCEPT ![w] = mines[m]] /\ UNCHANGED <<held, copy>> /\ UNCHANGED store
      BY <1>9 DEF BeginDefuse, Goto
    <2> HIDE DEF f, m
    <2>4. WorkerTypeOK' /\ OthersKeep(w)
      BY <1>0, <1>1, <2>2, <2>3 DEF WorkerTypeOK, PC, OthersKeep, MovingSteps
    <2>5. /\ pc'[w] = "defuse_status" /\ form'[w] = f /\ here'[w] = mines[m]
          /\ copy'[w] = c /\ UNCHANGED mine
      BY <1>0, <1>1, <2>3 DEF WorkerTypeOK
    <2>6. c.status = "Moving" /\ c.executed < Len(c.commands)
      BY <1>0, <2>1 DEF Holds, MovingSteps
    <2>7. Holds(w)' /\ Progress(w)'
      BY <1>0, <2>2, <2>5, <2>6
         DEF Holds, Progress, MineSteps, UpdateSteps, CopySteps, HalfWrites, MovingSteps
    <2> QED BY <1>2, <2>3, <2>4, <2>7
  <1>10. CASE FileDefused(w)
    <2>1. /\ UNCHANGED <<width, height, mine, rover, rovers, nextMine, nextRover>>
          /\ mines' = Put(mines, form[w].id, here[w]) /\ Executed(w, "file_defused", c)
          /\ pc[w] = "file_defused"
      BY <1>10 DEF FileDefused, Executed, Goto, sides, ids
    <2>2. OthersKeep(w) /\ WorkerTypeOK' /\ Holds(w)' /\ Progress(w)'
      BY <1>0, <1>5, <1>6, <2>1
    <2>3. /\ here[w] \in DOMAIN mine /\ form[w].id = mine[here[w]].id
          /\ form[w].id \in Nat \ {0}
      BY <1>0, <2>1 DEF Holds, MineSteps, WorkerTypeOK, Form
    <2>4. StoreTypeOK' /\ MinesStay /\ (\A m \in DOMAIN mines : MineOf(m).id = m)'
      BY <1>0, <2>1, <2>3 DEF StoreTypeOK, MinesStay, MapUpdateRequest, IdsTrue, MineOf, Put
    <2> QED BY <2>1, <2>2, <2>4, RoversQuiet DEF HalfWrites
  <1>11. CASE Eliminate(w)
    <2> DEFINE d == [c EXCEPT !.status = "Eliminated"]
    <2>1. d \in RoverRecord /\ d.commands = c.commands /\ d.executed = c.executed
          /\ d.id = c.id /\ d.status = "Eliminated"
      BY <1>0 DEF RoverRecord, RoverStatus
    <2> HIDE DEF d
    <2>2. pc[w] = "act" /\ UNCHANGED store /\ Command(w) = "M" /\ Executed(w, "act", d)
      BY <1>11 DEF Eliminate, d
    <2> QED BY <1>1, <1>2, <1>5, <2>1, <2>2
  <1>12. CASE Move(w)
    <2> DEFINE x == c.x + DeltaX[c.dir]
               y == c.y + DeltaY[c.dir]
               d == [c EXCEPT !.x = x, !.y = y]
    <2>0. pc[w] = "act" /\ UNCHANGED store
      BY <1>12 DEF Move
    <2>1. CASE InMap(x, y) /\ Executed(w, "act", d)
      <3>1. x \in Nat /\ y \in Nat
        BY <1>0, <2>1 DEF InMap
      <3>2. d \in RoverRecord /\ d.commands = c.commands /\ d.executed = c.executed
            /\ d.id = c.id /\ d.status = c.status
        BY <1>0, <3>1 DEF RoverRecord
      <3> HIDE DEF d, x, y
      <3> QED BY <1>1, <1>2, <1>5, <1>6, <2>0, <2>1, <3>2
    <2>2. CASE Executed(w, "act", c)
      BY <1>0, <1>1, <1>2, <1>5, <1>6, <2>0, <2>2
    <2> QED BY <1>12, <2>1, <2>2 DEF Move
  <1> QED
    BY <1>3, <1>4, <1>7, <1>8, <1>9, <1>10, <1>11, <1>12

\* A reset of the demo.
LEMMA ResetKeeps ==
    ASSUME RecordInv, NEW w \in Workers, ResetDemo(w)
    PROVE  RecordInv'
  <1>1. StoreTypeOK'
    BY StoreAssumption, NoRoverTells DEF ResetDemo, StoreTypeOK, MapUpdateRequest, NoRecords
  <1>2. WorkerTypeOK'
    BY NoRoverTells DEF ResetDemo, WorkerTypeOK, PC, NoForm, Form
  <1>3. WorkersHold'
    BY DEF ResetDemo, WorkersHold, Holds, Progress, MineSteps, UpdateSteps, CopySteps,
           HalfWrites, MovingSteps
  <1>4. IdsTrue'
    BY DEF ResetDemo, IdsTrue, NoRecords
  <1>5. \A o \in Objects : rover'[o] = NoRover
    BY DEF ResetDemo
  <1>6. AllTell'
    BY <1>5, NoRoverTells DEF AllTell, RecordTells, NewRover, NoRover
  <1> QED
    BY <1>1, <1>2, <1>3, <1>4, <1>6 DEF RecordInv, TypeOK

LEMMA StutterKeeps == RecordInv /\ UNCHANGED vars => RecordInv'
  <1> SUFFICES ASSUME RecordInv, UNCHANGED vars PROVE RecordInv'
    OBVIOUS
  <1>1. StoreTypeOK' /\ WorkerTypeOK' /\ IdsTrue'
    BY DEF vars, RecordInv, TypeOK, StoreTypeOK, WorkerTypeOK, IdsTrue, MineOf, RoverOf,
           MapUpdateRequest
  <1>2. AllTell'
    BY DEF vars, RecordInv, AllTell, HalfWritten, RecordTells, NewRover
  <1>3. ASSUME NEW v \in Workers PROVE Holds(v)' /\ Progress(v)'
    BY OthersHold DEF vars, RecordInv, WorkersHold, MinesStay, Kept
  <1> QED
    BY <1>1, <1>2, <1>3 DEF RecordInv, TypeOK, WorkersHold

LEMMA NextRecordInv == RecordInv /\ [Next]_vars => RecordInv'
  <1> SUFFICES ASSUME RecordInv, NEW w \in Workers, Request(w) \/ Continue(w)
               PROVE  RecordInv'
    BY StutterKeeps DEF Next
  <1>1. CASE Request(w)
    <2>1. CASE \E m \in DOMAIN mines : DeleteMine(w, m)
      BY <2>1, MineWritesKeep
    <2>2. CASE \E r \in DOMAIN rovers : DeleteRover(w, r)
      BY <2>2, RoverFilesKeep
    <2>3. CASE ResetDemo(w)
      BY <2>3, ResetKeeps
    <2> QED BY <1>1, <2>1, <2>2, <2>3, ChecksKeep DEF Request
  <1>2. CASE Continue(w)
    BY <1>2, MineWritesKeep, NumberWritesKeep, UpdateWritesKeep, RoverFilesKeep, CopiesKeep,
       LoopKeeps DEF Continue
  <1> QED
    BY <1>1, <1>2

(* The types hold whatever requests run side by side.                       *)
THEOREM TypeCorrect == Spec => []TypeOK
  <1>1. RecordInv => TypeOK
    BY DEF RecordInv
  <1> QED
    BY <1>1, InitRecordInv, NextRecordInv, PTL DEF Spec

(* No interleaving of requests, attribute by attribute, leaves in the store *)
(* a rover whose status, place and progress do not fit together, once no    *)
(* update is between its first and its last write to that object: several   *)
(* updates of one object, dispatches that copy it half-written, deletions   *)
(* and late filings never mix in one record.                                *)
THEOREM RecordsTell == Spec => []StoredRoversTell
  <1>1. RecordInv => StoredRoversTell
    BY DEF RecordInv, TypeOK, StoreTypeOK, AllTell, StoredRoversTell, RoverOf
  <1> QED
    BY <1>1, InitRecordInv, NextRecordInv, PTL DEF Spec

-----------------------------------------------------------------------------
(* One request at a time.                                                   *)

OneWorker == \A v, w \in Workers : v = w

\* Two mines share no cell, but for the one whose x only is written.
StrictlyApart(w) ==
    \A m, n \in DOMAIN mines :
        m # n => \/ MineOf(m).x # MineOf(n).x \/ MineOf(m).y # MineOf(n).y
                 \/ pc[w] = "write_y" /\ form[w].id \in {m, n}

\* The part of the invariant that speaks of the field.
FieldOK(w) == MinesInMap /\ RoversInMap /\ StrictlyApart(w)

\* Ids are given in order, each to one mine or rover.
IdsFresh(w) ==
    /\ \A m \in DOMAIN mines : IF pc[w] = "count_mine" THEN m <= nextMine ELSE m < nextMine
    /\ \A r \in DOMAIN rovers :
         IF pc[w] = "count_rover" THEN r <= nextRover ELSE r < nextRover
    /\ pc[w] = "insert_mine" => form[w].id = nextMine
    /\ pc[w] = "insert_rover" => copy[w].id = nextRover
    /\ pc[w] = "count_mine" => nextMine \in DOMAIN mines
    /\ pc[w] = "count_rover" => nextRover \in DOMAIN rovers

IdsBounded(w) ==
    /\ DOMAIN mines \subseteq 1..MaxMines /\ DOMAIN rovers \subseteq 1..MaxRovers
    /\ pc[w] \in {"make_mine", "insert_mine", "count_mine"} => nextMine <= MaxMines
    /\ pc[w] \in {"insert_rover", "count_rover"} => nextRover <= MaxRovers

\* What a handler has checked of the field, as long as it relies on it.
ChecksHold(w) ==
    /\ pc[w] \in {"make_mine", "insert_mine"} =>
         InMap(form[w].x, form[w].y) /\ FreeCell(form[w].x, form[w].y, 0)
    /\ pc[w] \in MineSteps => form[w].id \in DOMAIN mines /\ here[w] = mines[form[w].id]
    /\ pc[w] \in {"write_x", "write_y"} =>
         InMap(form[w].x, form[w].y) /\ FreeCell(form[w].x, form[w].y, form[w].id)
    /\ pc[w] = "write_y" => mine[here[w]].x = form[w].x
    /\ pc[w] = "defuse_status" => mine[here[w]].status = "active"
    /\ pc[w] \in {"write_width", "write_height"} => AllFit(form[w].x, form[w].y)
    /\ pc[w] = "write_height" => width = form[w].x

\* The stored rover that an update writes, or a dispatch copies and will replace.
RoverChecks(w) ==
    /\ pc[w] = "insert_rover" =>
         copy[w].status = "Not Started" /\ copy[w].x = 0 /\ copy[w].y = 0
    /\ pc[w] \in UpdateSteps \cup CopySteps =>
         copy[w].id \in DOMAIN rovers /\ held[w] = rovers[copy[w].id]
    /\ pc[w] \in CopySteps \cup MovingSteps \cup {"write_commands", "write_executed", "write_status"} =>
         copy[w].id \in DOMAIN rovers /\ Resting(RoverOf(copy[w].id))

\* A dispatch in progress against the field.
DispatchOK(w) ==
    /\ pc[w] \in {"copy_direction", "copy_commands"} \cup MovingSteps =>
         InMap(copy[w].x, copy[w].y)
    /\ pc[w] = "look" /\ copy[w].status = "Eliminated" =>
         ActiveMinesAt(copy[w].x, copy[w].y) # {}
    /\ pc[w] = "act" =>
         IF here[w] = 0 THEN ActiveMinesAt(copy[w].x, copy[w].y) = {}
         ELSE here[w] \in ActiveMinesAt(copy[w].x, copy[w].y)

SerialOK(w) ==
    /\ FieldOK(w) /\ IdsFresh(w) /\ IdsBounded(w)
    /\ ChecksHold(w) /\ RoverChecks(w) /\ DispatchOK(w)

\* The inductive invariant, on top of RecordInv.
SerialInv == \A w \in Workers : SerialOK(w)

-----------------------------------------------------------------------------
LEMMA InitSerialInv == Init => SerialInv
  BY DEF Init, SerialInv, SerialOK, FieldOK, MinesInMap, StrictlyApart, RoversInMap, NoRecords,
         IdsFresh, IdsBounded, ChecksHold, RoverChecks, DispatchOK,
         MineSteps, UpdateSteps, CopySteps, MovingSteps, HalfWrites

\* What the types say in the arithmetic of the steps below.
LEMMA Numbers ==
    ASSUME TypeOK
    PROVE  /\ width \in Nat \ {0} /\ height \in Nat \ {0}
           /\ nextMine \in Nat \ {0} /\ nextRover \in Nat \ {0}
           /\ \A m \in DOMAIN mines : /\ m \in Nat \ {0} /\ mines[m] \in DOMAIN mine
                                      /\ MineOf(m) \in MineRecord
                                      /\ MineOf(m).x \in Nat /\ MineOf(m).y \in Nat
           /\ \A r \in DOMAIN rovers : /\ r \in Nat \ {0} /\ rovers[r] \in Objects
                                       /\ RoverOf(r) \in RoverRecord
                                       /\ RoverOf(r).x \in Nat /\ RoverOf(r).y \in Nat
           /\ \A w \in Workers : /\ form[w].x \in Nat /\ form[w].y \in Nat
                                 /\ copy[w].x \in Nat /\ copy[w].y \in Nat
  <1> USE StoreAssumption DEF TypeOK, StoreTypeOK, WorkerTypeOK
  <1>1. /\ width \in Nat \ {0} /\ height \in Nat \ {0}
        /\ nextMine \in Nat \ {0} /\ nextRover \in Nat \ {0}
    BY DEF MapUpdateRequest
  <1>2. ASSUME NEW m \in DOMAIN mines
        PROVE  /\ m \in Nat \ {0} /\ mines[m] \in DOMAIN mine /\ MineOf(m) \in MineRecord
               /\ MineOf(m).x \in Nat /\ MineOf(m).y \in Nat
    <2>1. m \in Nat \ {0} /\ mines[m] \in DOMAIN mine
      OBVIOUS
    <2>2. MineOf(m) \in MineRecord
      BY <2>1 DEF MineOf
    <2> QED BY <2>1, <2>2 DEF MineRecord
  <1>3. ASSUME NEW r \in DOMAIN rovers
        PROVE  /\ r \in Nat \ {0} /\ rovers[r] \in Objects /\ RoverOf(r) \in RoverRecord
               /\ RoverOf(r).x \in Nat /\ RoverOf(r).y \in Nat
    BY DEF RoverOf, RoverRecord
  <1>4. ASSUME NEW w \in Workers
        PROVE  /\ form[w].x \in Nat /\ form[w].y \in Nat
               /\ copy[w].x \in Nat /\ copy[w].y \in Nat
    BY DEF Form, RoverRecord
  <1> QED
    BY <1>1, <1>2, <1>3, <1>4

LEMMA NewRoverFields ==
    ASSUME NEW r, NEW p
    PROVE  /\ NewRover(r, p).id = r /\ NewRover(r, p).status = "Not Started"
           /\ NewRover(r, p).x = 0 /\ NewRover(r, p).y = 0
  BY DEF NewRover

\* With one worker, what it holds is all there is to show.
LEMMA OneHolds ==
    ASSUME OneWorker, NEW w \in Workers, SerialOK(w)'
    PROVE  SerialInv'
  <1>1. ASSUME NEW v \in Workers PROVE SerialOK(v)'
    <2>1. v = w
      BY DEF OneWorker
    <2> QED BY <2>1
  <1> QED
    BY <1>1 DEF SerialInv

\* A step that moves no mine, adds none, and puts no rover off the map.
LEMMA FieldKept ==
    ASSUME NEW w \in Workers, FieldOK(w), pc[w] # "write_y",
           UNCHANGED <<width, height>>, DOMAIN mines' \subseteq DOMAIN mines,
           \A m \in DOMAIN mines' : MineOf(m)'.x = MineOf(m).x /\ MineOf(m)'.y = MineOf(m).y,
           \A r \in DOMAIN rovers' : InMap(RoverOf(r)'.x, RoverOf(r)'.y)
    PROVE  FieldOK(w)'
  BY DEF FieldOK, MinesInMap, RoversInMap, StrictlyApart, InMap

LEMMA FieldQuiet ==
    ASSUME NEW w \in Workers, FieldOK(w), pc[w] # "write_y",
           UNCHANGED <<width, height, mine, mines, rover, rovers>>
    PROVE  FieldOK(w)'
  BY FieldKept DEF FieldOK, RoversInMap, MineOf, RoverOf, InMap

\* A write to the mine that a handler holds, when that mine is the one filed
\* under its id.
LEMMA MineWriteGives ==
    ASSUME TypeOK, IdsTrue, NEW w \in Workers, NEW from \in PC, NEW to \in PC, NEW d \in MineRecord,
           NEW i \in DOMAIN mines, here[w] = mines[i], Writes(w, from, to, d)
    PROVE  /\ pc[w] = from /\ pc'[w] = to
           /\ UNCHANGED <<width, height, mines, rover, rovers, nextMine, nextRover,
                          form, held, copy, here>>
           /\ MineOf(i)' = d
           /\ \A m \in DOMAIN mines \ {i} : MineOf(m)' = MineOf(m) /\ mines[m] # mines[i]
           /\ \A o \in DOMAIN mine \ {mines[i]} : mine'[o] = mine[o]
  <1>1. /\ pc[w] = from /\ pc'[w] = to
        /\ UNCHANGED <<width, height, mines, rover, rovers, nextMine, nextRover,
                       form, held, copy, here>>
        /\ mine' = [mine EXCEPT ![here[w]] = d]
    BY DEF Writes, Goto, sides, ids, TypeOK, WorkerTypeOK
  <1>2. here[w] \in DOMAIN mine
    BY Numbers
  <1>3. \A m \in DOMAIN mines \ {i} : mines[m] # mines[i]
    BY DEF IdsTrue, MineOf
  <1> QED
    BY <1>1, <1>2, <1>3 DEF MineOf

\* What is left of the rovers when no entry is added or changed.
LEMMA RoversLeft ==
    ASSUME TypeOK, Leaves(rover), DOMAIN rovers' \subseteq DOMAIN rovers,
           \A r \in DOMAIN rovers' : rovers'[r] = rovers[r]
    PROVE  \A r \in DOMAIN rovers' : RoverOf(r)' = RoverOf(r)
  <1>1. \A r \in DOMAIN rovers' : rovers'[r] \in Objects
    BY Numbers
  <1>2. rover \in [Objects -> RoverRecord]
    BY DEF TypeOK, StoreTypeOK
  <1> QED
    BY <1>1, <1>2, LeavesGives DEF RoverOf

\* A write to the rover that an update holds, when that rover is the one filed
\* under its id.
LEMMA RoverWriteGives ==
    ASSUME TypeOK, IdsTrue, NEW w \in Workers, NEW from \in PC, NEW to \in PC,
           NEW d \in RoverRecord, NEW i \in DOMAIN rovers, held[w] = rovers[i],
           Sets(w, from, to, d)
    PROVE  /\ pc[w] = from /\ pc'[w] = to
           /\ UNCHANGED <<width, height, mine, mines, rovers, nextMine, nextRover,
                          form, held, copy, here>>
           /\ RoverOf(i)' = d
           /\ \A r \in DOMAIN rovers \ {i} : RoverOf(r)' = RoverOf(r)
  <1>1. /\ pc[w] = from /\ pc'[w] = to
        /\ UNCHANGED <<width, height, mine, mines, rovers, nextMine, nextRover,
                       form, held, copy, here>>
        /\ rover' = [rover EXCEPT ![held[w]] = d]
    BY DEF Sets, Goto, sides, ids, TypeOK, WorkerTypeOK
  <1>2. held[w] \in DOMAIN rover
    BY Numbers DEF TypeOK, StoreTypeOK
  <1>3. \A r \in DOMAIN rovers \ {i} : rovers[r] # rovers[i]
    BY DEF IdsTrue, RoverOf
  <1> QED
    BY <1>1, <1>2, <1>3 DEF RoverOf

\* The creation of a mine.
LEMMA CreateMineSerial ==
    ASSUME OneWorker, RecordInv, SerialInv, NEW w \in Workers,
           \/ \E x, y \in 0..(MaxSide - 1), s \in Serials : CheckCreateMine(w, x, y, s)
           \/ MakeMine(w) \/ InsertMine(w) \/ CountMine(w)
    PROVE  SerialInv'
  <1> USE DEF RecordInv
  <1>0. /\ TypeOK /\ WorkerTypeOK /\ IdsTrue /\ FieldOK(w) /\ IdsFresh(w) /\ IdsBounded(w)
        /\ ChecksHold(w) /\ RoverChecks(w) /\ DispatchOK(w)
    BY DEF SerialInv, SerialOK, TypeOK
  <1>1. ASSUME UNCHANGED store
        PROVE  UNCHANGED <<width, height, mine, mines, rover, rovers, nextMine, nextRover>>
    BY <1>1 DEF store, sides, ids
  <1>2. CASE \E x, y \in 0..(MaxSide - 1), s \in Serials : CheckCreateMine(w, x, y, s)
    <2> PICK x \in 0..(MaxSide - 1), y \in 0..(MaxSide - 1), s \in Serials :
               CheckCreateMine(w, x, y, s)
      BY <1>2
    <2>1. /\ pc[w] = "idle" /\ pc'[w] = "make_mine" /\ UNCHANGED store
          /\ form'[w].x = x /\ form'[w].y = y /\ InMap(x, y) /\ FreeCell(x, y, 0)
          /\ nextMine <= MaxMines
      BY <1>0 DEF CheckCreateMine, Goto, WorkerTypeOK
    <2>2. FieldOK(w)' /\ IdsFresh(w)' /\ IdsBounded(w)'
      BY <1>0, <1>1, <2>1, FieldQuiet DEF IdsFresh, IdsBounded
    <2>3. /\ InMap(form[w].x, form[w].y)'
          /\ FreeCell(form[w].x, form[w].y, 0)'
      BY <1>1, <2>1 DEF InMap, FreeCell, MineOf
    <2>4. ChecksHold(w)' /\ RoverChecks(w)' /\ DispatchOK(w)'
      BY <2>1, <2>3 DEF ChecksHold, RoverChecks, DispatchOK, MineSteps, UpdateSteps, CopySteps,
                        HalfWrites, MovingSteps
    <2> QED BY <2>2, <2>4, OneHolds DEF SerialOK
  <1>3. CASE MakeMine(w)
    <2>1. /\ pc[w] = "make_mine" /\ pc'[w] = "insert_mine" /\ UNCHANGED store
          /\ form'[w].x = form[w].x /\ form'[w].y = form[w].y /\ form'[w].id = nextMine
      BY <1>0, <1>3 DEF MakeMine, Goto, WorkerTypeOK, Form
    <2>2. FieldOK(w)' /\ IdsFresh(w)' /\ IdsBounded(w)'
      BY <1>0, <1>1, <2>1, FieldQuiet DEF IdsFresh, IdsBounded
    <2>3. /\ InMap(form[w].x, form[w].y)'
          /\ FreeCell(form[w].x, form[w].y, 0)'
      BY <1>0, <1>1, <2>1 DEF ChecksHold, InMap, FreeCell, MineOf
    <2>4. ChecksHold(w)' /\ RoverChecks(w)' /\ DispatchOK(w)'
      BY <2>1, <2>3 DEF ChecksHold, RoverChecks, DispatchOK, MineSteps, UpdateSteps, CopySteps,
                        HalfWrites, MovingSteps
    <2> QED BY <2>2, <2>4, OneHolds DEF SerialOK
  <1>4. CASE InsertMine(w)
    <2> DEFINE n == Len(mine) + 1
               f == form[w]
    <2>1. /\ pc[w] = "insert_mine" /\ pc'[w] = "count_mine" /\ f.id = nextMine
          /\ UNCHANGED <<width, height, rover, rovers, nextMine, nextRover, form>>
          /\ mine' = Append(mine, NewMine(f)) /\ mines' = Put(mines, f.id, n)
      BY <1>0, <1>4 DEF InsertMine, Goto, WorkerTypeOK, IdsFresh, sides, ids
    <2>2. PICK k \in 1..MaxMines : k = nextMine /\ k \notin DOMAIN mines
      BY <1>0, <2>1, Numbers, StoreAssumption DEF IdsFresh, IdsBounded
    <2>3. /\ NewMine(f) \in MineRecord
          /\ NewMine(f).x = f.x /\ NewMine(f).y = f.y /\ NewMine(f).status = "active"
      BY <1>0, <2>1 DEF NewMine, MineRecord, WorkerTypeOK, Form, WorkersHold, Holds
    <2>4. /\ \A o \in DOMAIN mine : mine'[o] = mine[o]
          /\ mine'[n] = NewMine(f)
      BY <1>0, <2>1, <2>3, AppendProperties DEF TypeOK, StoreTypeOK
    <2>5. /\ DOMAIN mines' = DOMAIN mines \cup {k}
          /\ MineOf(k)' = NewMine(f)
          /\ \A m \in DOMAIN mines : MineOf(m)' = MineOf(m)
      BY <1>0, <2>1, <2>2, <2>4, Numbers DEF Put, MineOf
    <2>6. InMap(f.x, f.y) /\ FreeCell(f.x, f.y, 0)
      BY <1>0, <2>1 DEF ChecksHold
    <2>7. MinesInMap' /\ RoversInMap'
      BY <1>0, <2>1, <2>3, <2>5, <2>6 DEF FieldOK, MinesInMap, RoversInMap, InMap, RoverOf
    <2>8. StrictlyApart(w)'
      <3>1. \A m \in DOMAIN mines : MineOf(m).x # f.x \/ MineOf(m).y # f.y
        BY <2>6, Numbers DEF FreeCell
      <3> SUFFICES ASSUME NEW i \in DOMAIN mines', NEW j \in DOMAIN mines', i # j
                   PROVE  MineOf(i)'.x # MineOf(j)'.x \/ MineOf(i)'.y # MineOf(j)'.y
        BY DEF StrictlyApart
      <3>2. CASE i \in DOMAIN mines /\ j \in DOMAIN mines
        BY <1>0, <2>1, <2>5, <3>2 DEF FieldOK, StrictlyApart
      <3>3. CASE i = k \/ j = k
        <4>1. MineOf(k)'.x = f.x /\ MineOf(k)'.y = f.y
          BY <2>3, <2>5
        <4>2. \/ i = k /\ j \in DOMAIN mines
              \/ j = k /\ i \in DOMAIN mines
          BY <2>5, <3>3
        <4> QED BY <2>2, <2>5, <3>1, <4>1, <4>2
      <3> QED BY <2>5, <3>2, <3>3
    <2>9. IdsFresh(w)'
      BY <1>0, <2>1, <2>2, <2>5, Numbers DEF IdsFresh
    <2>10. IdsBounded(w)'
      BY <1>0, <2>1, <2>2, <2>5 DEF IdsBounded
    <2>11. ChecksHold(w)' /\ RoverChecks(w)' /\ DispatchOK(w)'
      BY <2>1 DEF ChecksHold, RoverChecks, DispatchOK, MineSteps, UpdateSteps, CopySteps,
                  HalfWrites, MovingSteps
    <2> QED BY <2>7, <2>8, <2>9, <2>10, <2>11, OneHolds DEF FieldOK, SerialOK
  <1>5. CASE CountMine(w)
    <2>1. /\ pc[w] = "count_mine" /\ pc'[w] = "idle" /\ nextMine' = nextMine + 1
          /\ UNCHANGED <<width, height, mine, mines, rover, rovers, nextRover>>
      BY <1>0, <1>5, RespondTyped DEF CountMine, sides
    <2>2. FieldOK(w)'
      BY <1>0, <2>1, FieldQuiet
    <2>3. IdsFresh(w)' /\ IdsBounded(w)'
      BY <1>0, <2>1, Numbers DEF IdsFresh, IdsBounded
    <2>4. ChecksHold(w)' /\ RoverChecks(w)' /\ DispatchOK(w)'
      BY <2>1 DEF ChecksHold, RoverChecks, DispatchOK, MineSteps, UpdateSteps, CopySteps,
                  HalfWrites, MovingSteps
    <2> QED BY <2>2, <2>3, <2>4, OneHolds DEF SerialOK
  <1> QED
    BY <1>2, <1>3, <1>4, <1>5

\* The update and the deletion of a mine.
LEMMA ChangeMineSerial ==
    ASSUME OneWorker, RecordInv, SerialInv, NEW w \in Workers,
           \/ \E m \in DOMAIN mines, x, y \in 0..(MaxSide - 1), s \in Serials \cup {"none"} :
                CheckUpdateMine(w, m, x, y, s)
           \/ WriteMine(w) \/ FileMine(w)
           \/ \E m \in DOMAIN mines : DeleteMine(w, m)
    PROVE  SerialInv'
  <1> USE DEF RecordInv
  <1>0. /\ TypeOK /\ WorkerTypeOK /\ IdsTrue /\ FieldOK(w) /\ IdsFresh(w) /\ IdsBounded(w)
        /\ ChecksHold(w) /\ RoverChecks(w) /\ DispatchOK(w)
    BY DEF SerialInv, SerialOK, TypeOK
  <1>1. CASE \E m \in DOMAIN mines, x, y \in 0..(MaxSide - 1), s \in Serials \cup {"none"} :
               CheckUpdateMine(w, m, x, y, s)
    <2> PICK m \in DOMAIN mines, x \in 0..(MaxSide - 1), y \in 0..(MaxSide - 1),
             s \in Serials \cup {"none"} : CheckUpdateMine(w, m, x, y, s)
      BY <1>1
    <2>1. /\ pc[w] = "idle" /\ pc'[w] = "write_x"
          /\ UNCHANGED <<width, height, mine, mines, rover, rovers, nextMine, nextRover>>
          /\ form'[w].x = x /\ form'[w].y = y /\ form'[w].id = m /\ here'[w] = mines[m]
          /\ InMap(x, y) /\ FreeCell(x, y, m)
      BY <1>0 DEF CheckUpdateMine, Goto, WorkerTypeOK, store, sides, ids
    <2>2. FieldOK(w)' /\ IdsFresh(w)' /\ IdsBounded(w)'
      BY <1>0, <2>1, FieldQuiet DEF IdsFresh, IdsBounded
    <2>3. /\ InMap(form[w].x, form[w].y)'
          /\ FreeCell(form[w].x, form[w].y, form[w].id)'
      BY <2>1 DEF InMap, FreeCell, MineOf
    <2>4. ChecksHold(w)' /\ RoverChecks(w)' /\ DispatchOK(w)'
      BY <2>1, <2>3 DEF ChecksHold, RoverChecks, DispatchOK, MineSteps, UpdateSteps, CopySteps,
                        HalfWrites, MovingSteps
    <2> QED BY <2>2, <2>4, OneHolds DEF SerialOK
  <1>2. CASE WriteMine(w)
    <2> DEFINE f == form[w]
               m == mine[here[w]]
               s == IF f.serial = "none" THEN m.serial ELSE f.serial
    <2>0. /\ pc[w] \in {"write_x", "write_y", "write_serial"}
          /\ f.id \in DOMAIN mines /\ here[w] = mines[f.id] /\ f \in Form
      BY <1>0, <1>2 DEF WriteMine, Writes, Goto, ChecksHold, MineSteps, WorkerTypeOK
    <2> PICK i \in DOMAIN mines : f.id = i
      BY <2>0
    <2>1. here[w] = mines[i] /\ m = MineOf(i) /\ m \in MineRecord /\ f \in Form
      BY <1>0, <2>0, Numbers DEF MineOf
    <2>2. ASSUME NEW to \in {"write_y", "write_serial", "file_mine"}, pc'[w] = to,
                 UNCHANGED <<width, height, mines, rover, rovers, nextMine, nextRover, form, here>>,
                 FieldOK(w)',
                 to = "write_y" => /\ pc[w] = "write_x" /\ MineOf(i)'.x = f.x
                                   /\ \A j \in DOMAIN mines \ {i} : MineOf(j)' = MineOf(j)
          PROVE  SerialInv'
      <3>1. IdsFresh(w)' /\ IdsBounded(w)'
        BY <1>0, <2>0, <2>2 DEF IdsFresh, IdsBounded
      <3>2. pc'[w] = "write_y" =>
              /\ InMap(form[w].x, form[w].y)' /\ FreeCell(form[w].x, form[w].y, form[w].id)'
              /\ mine'[here'[w]].x = form'[w].x
        BY <1>0, <2>1, <2>2 DEF ChecksHold, InMap, FreeCell, MineOf
      <3>3. ChecksHold(w)' /\ RoverChecks(w)' /\ DispatchOK(w)'
        BY <2>1, <2>2, <3>2 DEF ChecksHold, RoverChecks, DispatchOK, MineSteps, UpdateSteps,
                                CopySteps, HalfWrites, MovingSteps
      <3> QED BY <2>2, <3>1, <3>3, OneHolds DEF SerialOK
    <2>3. CASE Writes(w, "write_x", "write_y", [m EXCEPT !.x = f.x])
      <3> DEFINE d == [m EXCEPT !.x = f.x]
      <3>1. d \in MineRecord /\ d.x = f.x /\ d.y = m.y
        BY <2>1 DEF MineRecord, Form
      <3> HIDE DEF d
      <3>2. Writes(w, "write_x", "write_y", d) /\ {"write_x", "write_y"} \subseteq PC
        BY <2>3 DEF d, PC
      <3>3. /\ pc[w] = "write_x" /\ pc'[w] = "write_y"
            /\ UNCHANGED <<width, height, mines, rover, rovers, nextMine, nextRover, form, here>>
            /\ MineOf(i)' = d
            /\ \A j \in DOMAIN mines \ {i} : MineOf(j)' = MineOf(j)
        BY <1>0, <2>1, <3>1, <3>2, MineWriteGives
      <3>4. InMap(f.x, f.y) /\ InMap(m.x, m.y)
        BY <1>0, <2>1, <3>3 DEF ChecksHold, FieldOK, MinesInMap
      <3>5. MinesInMap' /\ RoversInMap'
        BY <1>0, <3>1, <3>3, <3>4 DEF FieldOK, MinesInMap, RoversInMap, InMap, RoverOf
      <3>6. StrictlyApart(w)'
        BY <1>0, <3>3 DEF FieldOK, StrictlyApart
      <3> QED BY <2>2, <3>1, <3>3, <3>5, <3>6 DEF FieldOK
    <2>4. CASE Writes(w, "write_y", "write_serial", [m EXCEPT !.y = f.y])
      <3> DEFINE d == [m EXCEPT !.y = f.y]
      <3>1. d \in MineRecord /\ d.x = m.x /\ d.y = f.y
        BY <2>1 DEF MineRecord, Form
      <3> HIDE DEF d
      <3>2. Writes(w, "write_y", "write_serial", d) /\ {"write_y", "write_serial"} \subseteq PC
        BY <2>4 DEF d, PC
      <3>3. /\ pc[w] = "write_y" /\ pc'[w] = "write_serial"
            /\ UNCHANGED <<width, height, mines, rover, rovers, nextMine, nextRover, form, here>>
            /\ MineOf(i)' = d
            /\ \A j \in DOMAIN mines \ {i} : MineOf(j)' = MineOf(j)
        BY <1>0, <2>1, <3>1, <3>2, MineWriteGives
      <3>4. InMap(f.x, f.y) /\ FreeCell(f.x, f.y, i) /\ d.x = f.x
        BY <1>0, <3>1, <3>3 DEF ChecksHold
      <3>5. MinesInMap' /\ RoversInMap'
        BY <1>0, <3>1, <3>3, <3>4 DEF FieldOK, MinesInMap, RoversInMap, InMap, RoverOf
      <3>6. StrictlyApart(w)'
        BY <1>0, <3>1, <3>3, <3>4 DEF FieldOK, StrictlyApart, FreeCell
      <3> QED BY <2>2, <3>3, <3>5, <3>6 DEF FieldOK
    <2>5. CASE Writes(w, "write_serial", "file_mine", [m EXCEPT !.serial = s])
      <3> DEFINE d == [m EXCEPT !.serial = s]
      <3>0. s \in Serials
        BY <2>1 DEF MineRecord, Form
      <3> HIDE DEF s
      <3>1. d \in MineRecord /\ d.x = m.x /\ d.y = m.y
        BY <2>1, <3>0 DEF MineRecord
      <3> HIDE DEF d
      <3>2. Writes(w, "write_serial", "file_mine", d) /\ {"write_serial", "file_mine"} \subseteq PC
        BY <2>5 DEF d, s, PC
      <3>3. /\ pc[w] = "write_serial" /\ pc'[w] = "file_mine"
            /\ UNCHANGED <<width, height, mines, rover, rovers, nextMine, nextRover, form, here>>
            /\ MineOf(i)' = d
            /\ \A j \in DOMAIN mines \ {i} : MineOf(j)' = MineOf(j)
        BY <1>0, <2>1, <3>1, <3>2, MineWriteGives
      <3>4. /\ \A j \in DOMAIN mines' : MineOf(j)'.x = MineOf(j).x /\ MineOf(j)'.y = MineOf(j).y
            /\ \A r \in DOMAIN rovers' : InMap(RoverOf(r)'.x, RoverOf(r)'.y)
        BY <1>0, <2>1, <3>1, <3>3 DEF FieldOK, RoversInMap, RoverOf
      <3> QED BY <1>0, <2>2, <3>3, <3>4, FieldKept
    <2> QED BY <1>2, <2>3, <2>4, <2>5 DEF WriteMine
  <1>3. CASE FileMine(w)
    <2>1. /\ pc[w] = "file_mine" /\ pc'[w] = "idle" /\ mines' = Put(mines, form[w].id, here[w])
          /\ UNCHANGED <<width, height, mine, rover, rovers, nextMine, nextRover>>
      BY <1>0, <1>3, RespondTyped DEF FileMine, sides, ids
    <2>2. form[w].id \in DOMAIN mines /\ here[w] = mines[form[w].id]
      BY <1>0, <2>1 DEF ChecksHold, MineSteps
    <2>3. mines' = mines
      BY <1>0, <2>1, <2>2 DEF Put, TypeOK, StoreTypeOK
    <2>4. FieldOK(w)' /\ IdsFresh(w)' /\ IdsBounded(w)'
      BY <1>0, <2>1, <2>3, FieldQuiet DEF IdsFresh, IdsBounded
    <2>5. ChecksHold(w)' /\ RoverChecks(w)' /\ DispatchOK(w)'
      BY <2>1 DEF ChecksHold, RoverChecks, DispatchOK, MineSteps, UpdateSteps, CopySteps,
                  HalfWrites, MovingSteps
    <2> QED BY <2>4, <2>5, OneHolds DEF SerialOK
  <1>4. CASE \E m \in DOMAIN mines : DeleteMine(w, m)
    <2>1. /\ pc[w] = "idle" /\ pc'[w] = "idle" /\ DOMAIN mines' \subseteq DOMAIN mines
          /\ \A m \in DOMAIN mines' : mines'[m] = mines[m]
          /\ UNCHANGED <<width, height, mine, rover, rovers, nextMine, nextRover>>
      BY <1>4 DEF DeleteMine, local, sides, ids
    <2>2. FieldOK(w)'
      BY <1>0, <2>1, FieldKept DEF FieldOK, RoversInMap, MineOf, RoverOf
    <2>3. IdsFresh(w)' /\ IdsBounded(w)'
      BY <1>0, <2>1 DEF IdsFresh, IdsBounded
    <2>4. ChecksHold(w)' /\ RoverChecks(w)' /\ DispatchOK(w)'
      BY <2>1 DEF ChecksHold, RoverChecks, DispatchOK, MineSteps, UpdateSteps, CopySteps,
                  HalfWrites, MovingSteps
    <2> QED BY <2>2, <2>3, <2>4, OneHolds DEF SerialOK
  <1> QED
    BY <1>1, <1>2, <1>3, <1>4

\* The map, a reset of the demo, and an orphan's answer.
LEMMA MapSerial ==
    ASSUME OneWorker, RecordInv, SerialInv, NEW w \in Workers,
           \/ \E a, b \in MapUpdateRequest : CheckUpdateMap(w, a, b)
           \/ WriteWidth(w) \/ WriteHeight(w) \/ ResetDemo(w) \/ OrphanReturns(w)
    PROVE  SerialInv'
  <1> USE DEF RecordInv
  <1>0. /\ TypeOK /\ WorkerTypeOK /\ FieldOK(w) /\ IdsFresh(w) /\ IdsBounded(w)
        /\ ChecksHold(w) /\ RoverChecks(w) /\ DispatchOK(w)
    BY DEF SerialInv, SerialOK, TypeOK
  <1>1. ASSUME pc'[w] = "idle" PROVE ChecksHold(w)' /\ RoverChecks(w)' /\ DispatchOK(w)'
    BY <1>1 DEF ChecksHold, RoverChecks, DispatchOK, MineSteps, UpdateSteps, CopySteps,
                HalfWrites, MovingSteps
  <1>2. CASE \E a, b \in MapUpdateRequest : CheckUpdateMap(w, a, b)
    <2> PICK a \in MapUpdateRequest, b \in MapUpdateRequest : CheckUpdateMap(w, a, b)
      BY <1>2
    <2>1. /\ pc[w] = "idle" /\ pc'[w] = "write_width"
          /\ UNCHANGED <<width, height, mine, mines, rover, rovers, nextMine, nextRover>>
          /\ form'[w].x = a /\ form'[w].y = b /\ AllFit(a, b)
      BY <1>0 DEF CheckUpdateMap, Goto, WorkerTypeOK, store, sides, ids
    <2>2. FieldOK(w)' /\ IdsFresh(w)' /\ IdsBounded(w)'
      BY <1>0, <2>1, FieldQuiet DEF IdsFresh, IdsBounded
    <2>3. AllFit(form[w].x, form[w].y)'
      BY <2>1 DEF AllFit, MineOf, RoverOf
    <2>4. ChecksHold(w)' /\ RoverChecks(w)' /\ DispatchOK(w)'
      BY <2>1, <2>3 DEF ChecksHold, RoverChecks, DispatchOK, MineSteps, UpdateSteps, CopySteps,
                        HalfWrites, MovingSteps
    <2> QED BY <2>2, <2>4, OneHolds DEF SerialOK
  <1>3. CASE WriteWidth(w)
    <2>1. /\ pc[w] = "write_width" /\ pc'[w] = "write_height" /\ width' = form[w].x
          /\ UNCHANGED <<height, mine, mines, rover, rovers, nextMine, nextRover, form>>
      BY <1>0, <1>3 DEF WriteWidth, Goto, WorkerTypeOK, ids
    <2>2. AllFit(form[w].x, form[w].y) /\ AllFit(form[w].x, form[w].y)'
      BY <1>0, <2>1 DEF ChecksHold, AllFit, MineOf, RoverOf
    <2>3. MinesInMap' /\ RoversInMap' /\ StrictlyApart(w)'
      BY <1>0, <2>1, <2>2, Numbers
         DEF FieldOK, AllFit, MinesInMap, RoversInMap, StrictlyApart, InMap, MineOf, RoverOf
    <2>4. IdsFresh(w)' /\ IdsBounded(w)'
      BY <1>0, <2>1 DEF IdsFresh, IdsBounded
    <2>5. ChecksHold(w)' /\ RoverChecks(w)' /\ DispatchOK(w)'
      BY <2>1, <2>2 DEF ChecksHold, RoverChecks, DispatchOK, MineSteps, UpdateSteps, CopySteps,
                        HalfWrites, MovingSteps
    <2> QED BY <2>3, <2>4, <2>5, OneHolds DEF SerialOK, FieldOK
  <1>4. CASE WriteHeight(w)
    <2>1. /\ pc[w] = "write_height" /\ pc'[w] = "idle" /\ height' = form[w].y
          /\ UNCHANGED <<width, mine, mines, rover, rovers, nextMine, nextRover>>
      BY <1>0, <1>4, RespondTyped DEF WriteHeight, ids
    <2>2. AllFit(form[w].x, form[w].y) /\ width = form[w].x
      BY <1>0, <2>1 DEF ChecksHold
    <2>3. MinesInMap' /\ RoversInMap' /\ StrictlyApart(w)'
      BY <1>0, <2>1, <2>2, Numbers
         DEF FieldOK, AllFit, MinesInMap, RoversInMap, StrictlyApart, InMap, MineOf, RoverOf
    <2>4. IdsFresh(w)' /\ IdsBounded(w)'
      BY <1>0, <2>1 DEF IdsFresh, IdsBounded
    <2> QED BY <1>1, <2>1, <2>3, <2>4, OneHolds DEF SerialOK, FieldOK
  <1>5. CASE ResetDemo(w)
    <2>1. pc'[w] = "idle" /\ DOMAIN mines' = {} /\ DOMAIN rovers' = {}
      BY <1>5 DEF ResetDemo, NoRecords
    <2>2. FieldOK(w)' /\ IdsFresh(w)' /\ IdsBounded(w)'
      BY <2>1 DEF FieldOK, MinesInMap, StrictlyApart, RoversInMap, IdsFresh, IdsBounded
    <2> QED BY <1>1, <2>1, <2>2, OneHolds DEF SerialOK
  <1>6. CASE OrphanReturns(w)
    <2>1. /\ pc[w] = "orphan" /\ pc'[w] = "idle"
          /\ UNCHANGED <<width, height, mine, mines, rover, rovers, nextMine, nextRover>>
      BY <1>0, <1>6 DEF OrphanReturns, Goto, WorkerTypeOK, store, sides, ids
    <2>2. FieldOK(w)' /\ IdsFresh(w)' /\ IdsBounded(w)'
      BY <1>0, <2>1, FieldQuiet DEF IdsFresh, IdsBounded
    <2> QED BY <1>1, <2>1, <2>2, OneHolds DEF SerialOK
  <1> QED
    BY <1>2, <1>3, <1>4, <1>5, <1>6

\* The creation and the deletion of a rover.
LEMMA CreateRoverSerial ==
    ASSUME OneWorker, RecordInv, SerialInv, NEW w \in Workers,
           \/ \E p \in Programs : MakeRover(w, p)
           \/ InsertRover(w) \/ CountRover(w)
           \/ \E r \in DOMAIN rovers : DeleteRover(w, r)
    PROVE  SerialInv'
  <1> USE DEF RecordInv
  <1>0. /\ TypeOK /\ StoreTypeOK /\ WorkerTypeOK /\ FieldOK(w) /\ IdsFresh(w) /\ IdsBounded(w)
        /\ ChecksHold(w) /\ RoverChecks(w) /\ DispatchOK(w) /\ Holds(w)
    BY DEF SerialInv, SerialOK, TypeOK, WorkersHold
  <1>1. ASSUME pc'[w] \in {"idle", "count_rover"}
        PROVE  ChecksHold(w)' /\ RoverChecks(w)' /\ DispatchOK(w)'
    BY <1>1 DEF ChecksHold, RoverChecks, DispatchOK, MineSteps, UpdateSteps, CopySteps,
                HalfWrites, MovingSteps
  <1>2. CASE \E p \in Programs : MakeRover(w, p)
    <2> PICK p \in Programs : MakeRover(w, p)
      BY <1>2
    <2>1. /\ pc[w] = "idle" /\ pc'[w] = "insert_rover" /\ copy'[w] = NewRover(nextRover, p)
          /\ UNCHANGED <<width, height, mine, mines, rover, rovers, nextMine, nextRover>>
          /\ nextRover <= MaxRovers
      BY <1>0 DEF MakeRover, Copies, Goto, WorkerTypeOK, store, sides, ids
    <2> DEFINE c == NewRover(nextRover, p)
    <2>2. /\ copy'[w].id = nextRover /\ copy'[w].status = "Not Started"
          /\ copy'[w].x = 0 /\ copy'[w].y = 0
      <3>1. c.id = nextRover /\ c.status = "Not Started" /\ c.x = 0 /\ c.y = 0
        BY NewRoverFields
      <3> HIDE DEF c
      <3>2. copy'[w] = c
        BY <2>1 DEF c
      <3> QED BY <3>1, <3>2
    <2>3. FieldOK(w)' /\ IdsFresh(w)' /\ IdsBounded(w)'
      BY <1>0, <2>1, <2>2, FieldQuiet DEF IdsFresh, IdsBounded
    <2>4. ChecksHold(w)' /\ RoverChecks(w)' /\ DispatchOK(w)'
      BY <2>1, <2>2 DEF ChecksHold, RoverChecks, DispatchOK, MineSteps, UpdateSteps, CopySteps,
                        HalfWrites, MovingSteps
    <2> QED BY <2>3, <2>4, OneHolds DEF SerialOK
  <1>3. CASE InsertRover(w)
    <2>1. /\ pc[w] = "insert_rover" /\ pc'[w] = "count_rover" /\ Files(copy[w])
          /\ UNCHANGED <<width, height, mine, mines, nextMine, nextRover, held>>
      BY <1>0, <1>3 DEF InsertRover, Goto, WorkerTypeOK, sides, ids
    <2>2. PICK c \in RoverRecord : c = copy[w]
      BY <1>0 DEF WorkerTypeOK
    <2>3. /\ c.id = nextRover /\ c.id # 0 /\ c.status = "Not Started" /\ c.x = 0 /\ c.y = 0
          /\ nextRover <= MaxRovers
      BY <1>0, <2>1, <2>2 DEF IdsFresh, IdsBounded, Holds, RoverChecks
    <2>4. PICK k \in 1..MaxRovers : k = nextRover /\ k = c.id
      <3>0. nextRover \in Nat \ {0} /\ nextRover <= MaxRovers
        BY <1>0, <2>3, Numbers
      <3>1. nextRover \in 1..MaxRovers
        BY <3>0, StoreAssumption
      <3> QED BY <2>3, <3>1
    <2>5. Files(c) /\ \A v \in Workers : held'[v] \in {held[v], 0}
      BY <2>1, <2>2
    <2>6. /\ DOMAIN rovers' = DOMAIN rovers \cup {k}
          /\ RoverOf(k)' = c
          /\ \A r \in DOMAIN rovers \ {k} : RoverOf(r)' = RoverOf(r)
      BY <1>0, <2>3, <2>4, <2>5, FilesGives
    <2>7. InMap(c.x, c.y)
      <3>1. width \in Nat \ {0} /\ height \in Nat \ {0}
        BY <1>0, Numbers
      <3>2. InMap(0, 0)
        BY <3>1 DEF InMap
      <3> QED BY <2>3, <3>2
    <2>8. \A r \in DOMAIN rovers' : InMap(RoverOf(r)'.x, RoverOf(r)'.y)
      BY <1>0, <2>6, <2>7 DEF FieldOK, RoversInMap
    <2>9. FieldOK(w)'
      BY <1>0, <2>1, <2>8, FieldKept DEF MineOf
    <2>10. IdsFresh(w)'
      BY <1>0, <2>1, <2>4, <2>6, Numbers DEF IdsFresh
    <2>11. IdsBounded(w)'
      BY <1>0, <2>1, <2>3, <2>4, <2>6 DEF IdsBounded
    <2> QED BY <1>1, <2>1, <2>9, <2>10, <2>11, OneHolds DEF SerialOK
  <1>4. CASE CountRover(w)
    <2>1. /\ pc[w] = "count_rover" /\ pc'[w] = "idle" /\ nextRover' = nextRover + 1
          /\ UNCHANGED <<width, height, mine, mines, rover, rovers, nextMine>>
      BY <1>0, <1>4, RespondTyped DEF CountRover, sides
    <2>2. FieldOK(w)'
      BY <1>0, <2>1, FieldQuiet
    <2>3. IdsFresh(w)' /\ IdsBounded(w)'
      BY <1>0, <2>1, Numbers DEF IdsFresh, IdsBounded
    <2> QED BY <1>1, <2>1, <2>2, <2>3, OneHolds DEF SerialOK
  <1>5. CASE \E r \in DOMAIN rovers : DeleteRover(w, r)
    <2>1. /\ pc[w] = "idle" /\ pc'[w] = "idle" /\ DOMAIN rovers' \subseteq DOMAIN rovers
          /\ \A r \in DOMAIN rovers' : rovers'[r] = rovers[r]
          /\ Leaves(rover)
          /\ UNCHANGED <<width, height, mine, mines, nextMine, nextRover>>
      BY <1>5 DEF DeleteRover, local, sides, ids
    <2>2. \A r \in DOMAIN rovers' : RoverOf(r)' = RoverOf(r)
      BY <1>0, <2>1, RoversLeft
    <2>3. FieldOK(w)'
      BY <1>0, <2>1, <2>2, FieldKept DEF FieldOK, RoversInMap, MineOf
    <2>4. IdsFresh(w)' /\ IdsBounded(w)'
      BY <1>0, <2>1 DEF IdsFresh, IdsBounded
    <2> QED BY <1>1, <2>1, <2>3, <2>4, OneHolds DEF SerialOK
  <1> QED
    BY <1>2, <1>3, <1>4, <1>5

\* The update of a rover's commands.
LEMMA UpdateRoverSerial ==
    ASSUME OneWorker, RecordInv, SerialInv, NEW w \in Workers,
           \/ \E r \in DOMAIN rovers, p \in Programs : CheckUpdateRover(w, r, p)
           \/ WriteRover(w) \/ FileRover(w)
    PROVE  SerialInv'
  <1> USE DEF RecordInv
  <1>0. /\ TypeOK /\ StoreTypeOK /\ WorkerTypeOK /\ IdsTrue /\ FieldOK(w)
        /\ IdsFresh(w) /\ IdsBounded(w) /\ ChecksHold(w) /\ RoverChecks(w) /\ DispatchOK(w)
    BY DEF SerialInv, SerialOK, TypeOK
  <1>1. CASE \E r \in DOMAIN rovers, p \in Programs : CheckUpdateRover(w, r, p)
    <2> PICK r \in DOMAIN rovers, p \in Programs : CheckUpdateRover(w, r, p)
      BY <1>1
    <2>1. /\ pc[w] = "idle" /\ pc'[w] = "write_commands" /\ copy'[w] = NewRover(r, p)
          /\ held'[w] = rovers[r] /\ Resting(RoverOf(r))
          /\ UNCHANGED <<width, height, mine, mines, rover, rovers, nextMine, nextRover>>
      BY <1>0 DEF CheckUpdateRover, Copies, Goto, WorkerTypeOK, store, sides, ids
    <2> DEFINE c == NewRover(r, p)
    <2>2. copy'[w].id = r
      <3>1. c.id = r
        BY NewRoverFields
      <3> HIDE DEF c
      <3>2. copy'[w] = c
        BY <2>1 DEF c
      <3> QED BY <3>1, <3>2
    <2>3. FieldOK(w)' /\ IdsFresh(w)' /\ IdsBounded(w)'
      BY <1>0, <2>1, FieldQuiet DEF IdsFresh, IdsBounded
    <2>4. Resting(RoverOf(copy[w].id))'
      BY <2>1, <2>2 DEF Resting, RoverOf
    <2>5. ChecksHold(w)' /\ RoverChecks(w)' /\ DispatchOK(w)'
      BY <2>1, <2>2, <2>4 DEF ChecksHold, RoverChecks, DispatchOK, MineSteps, UpdateSteps,
                              CopySteps, HalfWrites, MovingSteps
    <2> QED BY <2>3, <2>5, OneHolds DEF SerialOK
  <1>2. CASE WriteRover(w)
    <2> DEFINE r == rover[held[w]]
    <2>0. /\ pc[w] \in UpdateSteps /\ copy[w].id \in DOMAIN rovers
          /\ held[w] = rovers[copy[w].id] /\ copy[w] \in RoverRecord
      BY <1>0, <1>2 DEF WriteRover, Sets, Goto, RoverChecks, UpdateSteps, HalfWrites, WorkerTypeOK
    <2> PICK i \in DOMAIN rovers : copy[w].id = i
      BY <2>0
    <2>1. held[w] = rovers[i] /\ r = RoverOf(i) /\ r \in RoverRecord
      BY <1>0, <2>0, Numbers DEF RoverOf
    <2>2. InMap(r.x, r.y) /\ InMap(0, 0)
      BY <1>0, <2>1, Numbers DEF FieldOK, RoversInMap, InMap
    <2>3. pc[w] \in {"write_commands", "write_executed"} => Resting(r)
      BY <1>0, <2>1 DEF RoverChecks
    <2>4. ASSUME NEW from \in UpdateSteps, NEW to \in UpdateSteps, NEW d \in RoverRecord,
                 Sets(w, from, to, d), InMap(d.x, d.y),
                 to \in {"write_executed", "write_status"} => Resting(d),
                 to # "write_commands"
          PROVE  SerialInv'
      <3>0. from \in PC /\ to \in PC
        BY DEF UpdateSteps, HalfWrites, PC
      <3>1. /\ pc[w] = from /\ pc'[w] = to
            /\ UNCHANGED <<width, height, mine, mines, rovers, nextMine, nextRover,
                           form, held, copy, here>>
            /\ RoverOf(i)' = d
            /\ \A j \in DOMAIN rovers \ {i} : RoverOf(j)' = RoverOf(j)
        BY <1>0, <2>1, <2>4, <3>0, RoverWriteGives
      <3>4. \A j \in DOMAIN rovers' : InMap(RoverOf(j)'.x, RoverOf(j)'.y)
        BY <1>0, <2>4, <3>1 DEF FieldOK, RoversInMap
      <3>5. FieldOK(w)'
        BY <1>0, <3>1, <3>4, FieldKept DEF UpdateSteps, HalfWrites, MineOf
      <3>6. IdsFresh(w)' /\ IdsBounded(w)'
        BY <1>0, <3>1 DEF IdsFresh, IdsBounded, UpdateSteps, HalfWrites
      <3>7. to \in {"write_executed", "write_status"} => Resting(RoverOf(i))'
        BY <2>4, <3>1 DEF Resting
      <3>8. copy'[w].id = i /\ held'[w] = rovers'[i] /\ i \in DOMAIN rovers'
        BY <2>1, <3>1
      <3>9. RoverChecks(w)'
        BY <2>4, <3>1, <3>7, <3>8
           DEF RoverChecks, Resting, RoverOf, UpdateSteps, CopySteps, HalfWrites, MovingSteps
      <3>10. ChecksHold(w)' /\ DispatchOK(w)'
        BY <3>1 DEF ChecksHold, DispatchOK, MineSteps, UpdateSteps, HalfWrites, MovingSteps
      <3> QED BY <3>5, <3>6, <3>9, <3>10, OneHolds DEF SerialOK
    <2>5. CASE Sets(w, "write_commands", "write_executed", [r EXCEPT !.commands = copy[w].commands])
      <3> DEFINE d == [r EXCEPT !.commands = copy[w].commands]
      <3>1. d \in RoverRecord /\ InMap(d.x, d.y) /\ d.status = r.status
        BY <2>0, <2>1, <2>2 DEF RoverRecord
      <3> HIDE DEF d
      <3>2. Sets(w, "write_commands", "write_executed", d)
        BY <2>5 DEF d
      <3>3. Resting(d)
        BY <2>3, <3>1, <3>2 DEF Sets, Goto, Resting
      <3> QED BY <2>4, <3>1, <3>2, <3>3 DEF UpdateSteps, HalfWrites
    <2>6. CASE Sets(w, "write_executed", "write_status", [r EXCEPT !.executed = 0])
      <3> DEFINE d == [r EXCEPT !.executed = 0]
      <3>1. d \in RoverRecord /\ InMap(d.x, d.y) /\ d.status = r.status
        BY <2>1, <2>2 DEF RoverRecord
      <3> HIDE DEF d
      <3>2. Sets(w, "write_executed", "write_status", d)
        BY <2>6 DEF d
      <3>3. Resting(d)
        BY <2>3, <3>1, <3>2 DEF Sets, Goto, Resting
      <3> QED BY <2>4, <3>1, <3>2, <3>3 DEF UpdateSteps, HalfWrites
    <2>7. CASE Sets(w, "write_status", "write_position", [r EXCEPT !.status = "Not Started"])
      <3> DEFINE d == [r EXCEPT !.status = "Not Started"]
      <3>1. d \in RoverRecord /\ InMap(d.x, d.y)
        BY <2>1, <2>2 DEF RoverRecord, RoverStatus
      <3> HIDE DEF d
      <3>2. Sets(w, "write_status", "write_position", d)
        BY <2>7 DEF d
      <3> QED BY <2>4, <3>1, <3>2 DEF UpdateSteps, HalfWrites
    <2>8. CASE Sets(w, "write_position", "write_direction", [r EXCEPT !.x = 0, !.y = 0])
      <3> DEFINE d == [r EXCEPT !.x = 0, !.y = 0]
      <3>1. d \in RoverRecord /\ InMap(d.x, d.y)
        BY <2>1, <2>2 DEF RoverRecord
      <3> HIDE DEF d
      <3>2. Sets(w, "write_position", "write_direction", d)
        BY <2>8 DEF d
      <3> QED BY <2>4, <3>1, <3>2 DEF UpdateSteps, HalfWrites
    <2>9. CASE Sets(w, "write_direction", "file_rover", [r EXCEPT !.dir = "S"])
      <3> DEFINE d == [r EXCEPT !.dir = "S"]
      <3>1. d \in RoverRecord /\ InMap(d.x, d.y)
        BY <2>1, <2>2 DEF RoverRecord, Directions
      <3> HIDE DEF d
      <3>2. Sets(w, "write_direction", "file_rover", d)
        BY <2>9 DEF d
      <3> QED BY <2>4, <3>1, <3>2 DEF UpdateSteps, HalfWrites
    <2> QED BY <1>2, <2>5, <2>6, <2>7, <2>8, <2>9 DEF WriteRover
  <1>3. CASE FileRover(w)
    <2>1. /\ pc[w] = "file_rover" /\ pc'[w] = "idle" /\ Leaves(rover)
          /\ rovers' = Put(rovers, copy[w].id, held[w])
          /\ UNCHANGED <<width, height, mine, mines, nextMine, nextRover>>
      BY <1>0, <1>3, RespondTyped DEF FileRover, sides, ids
    <2>2. copy[w].id \in DOMAIN rovers /\ held[w] = rovers[copy[w].id]
      BY <1>0, <2>1 DEF RoverChecks, UpdateSteps
    <2>3. rovers' = rovers
      BY <1>0, <2>1, <2>2 DEF Put, StoreTypeOK
    <2>4. \A r \in DOMAIN rovers' : RoverOf(r)' = RoverOf(r)
      BY <1>0, <2>1, <2>3, RoversLeft
    <2>5. FieldOK(w)'
      BY <1>0, <2>1, <2>3, <2>4, FieldKept DEF FieldOK, RoversInMap, MineOf
    <2>6. IdsFresh(w)' /\ IdsBounded(w)'
      BY <1>0, <2>1, <2>3 DEF IdsFresh, IdsBounded
    <2>7. ChecksHold(w)' /\ RoverChecks(w)' /\ DispatchOK(w)'
      BY <2>1 DEF ChecksHold, RoverChecks, DispatchOK, MineSteps, UpdateSteps, CopySteps,
                  HalfWrites, MovingSteps
    <2> QED BY <2>5, <2>6, <2>7, OneHolds DEF SerialOK
  <1> QED
    BY <1>1, <1>2, <1>3

\* One command: the copy d stands where it may, and the field is as it was.
LEMMA ExecutedSerial ==
    ASSUME OneWorker, RecordInv, SerialInv, NEW w \in Workers,
           NEW from \in {"act", "file_defused"}, NEW d \in RoverRecord, Executed(w, from, d),
           d.id = copy[w].id, InMap(d.x, d.y),
           d.status = "Eliminated" => ActiveMinesAt(d.x, d.y) # {},
           UNCHANGED <<width, height, mine, mines, rover, rovers, nextMine, nextRover>>
    PROVE  SerialInv'
  <1> USE DEF RecordInv
  <1>0. /\ TypeOK /\ WorkerTypeOK /\ FieldOK(w) /\ IdsFresh(w) /\ IdsBounded(w)
        /\ ChecksHold(w) /\ RoverChecks(w) /\ DispatchOK(w)
    BY DEF SerialInv, SerialOK, TypeOK
  <1> DEFINE e == [d EXCEPT !.executed = d.executed + 1]
  <1>1. pc[w] = from /\ pc'[w] = "look" /\ copy'[w] = e
    BY <1>0, ExecutedTyped
  <1>2. e.id = copy[w].id /\ e.x = d.x /\ e.y = d.y /\ e.status = d.status
    BY DEF RoverRecord
  <1> HIDE DEF e
  <1>3. FieldOK(w)' /\ IdsFresh(w)' /\ IdsBounded(w)'
    BY <1>0, <1>1, FieldQuiet DEF IdsFresh, IdsBounded
  <1>4. /\ copy[w].id \in DOMAIN rovers /\ Resting(RoverOf(copy[w].id))
        /\ copy'[w].id = copy[w].id
    BY <1>0, <1>1, <1>2 DEF RoverChecks, MovingSteps
  <1>5. copy'[w].id \in DOMAIN rovers' /\ Resting(RoverOf(copy[w].id))'
    BY <1>4 DEF Resting, RoverOf
  <1>6. InMap(copy[w].x, copy[w].y)'
    BY <1>1, <1>2 DEF InMap
  <1>7. copy'[w].status = "Eliminated" => ActiveMinesAt(copy[w].x, copy[w].y)' # {}
    BY <1>1, <1>2 DEF ActiveMinesAt
  <1>8. ChecksHold(w)' /\ RoverChecks(w)' /\ DispatchOK(w)'
    BY <1>1, <1>5, <1>6, <1>7 DEF ChecksHold, RoverChecks, DispatchOK, MineSteps, UpdateSteps,
                                  CopySteps, HalfWrites, MovingSteps
  <1> QED
    BY <1>3, <1>8, OneHolds DEF SerialOK

\* The copying that begins a dispatch.
LEMMA CopySerial ==
    ASSUME OneWorker, RecordInv, SerialInv, NEW w \in Workers,
           \/ \E r \in DOMAIN rovers : BeginDispatch(w, r)
           \/ CopyPlace(w) \/ CopyCommands(w)
    PROVE  SerialInv'
  <1> USE DEF RecordInv
  <1>0. /\ TypeOK /\ StoreTypeOK /\ WorkerTypeOK /\ IdsTrue /\ FieldOK(w)
        /\ IdsFresh(w) /\ IdsBounded(w) /\ ChecksHold(w) /\ RoverChecks(w) /\ DispatchOK(w)
        /\ Holds(w)
    BY DEF SerialInv, SerialOK, TypeOK, WorkersHold
  <1>1. ASSUME NEW to \in CopySteps \cup {"look"}, NEW c \in RoverRecord,
               NEW i \in DOMAIN rovers,
               pc'[w] = to, copy'[w] = c, c.id = i, c.status = "Moving",
               to # "look" => held'[w] = rovers[i],
               to # "copy_position" => InMap(c.x, c.y),
               Resting(RoverOf(i)), pc[w] \in CopySteps \cup {"idle"},
               UNCHANGED <<width, height, mine, mines, rovers, nextMine, nextRover>>,
               \A r \in DOMAIN rovers : RoverOf(r)' = RoverOf(r)
        PROVE  SerialInv'
    <2>1. FieldOK(w)'
      BY <1>0, <1>1, FieldKept DEF FieldOK, RoversInMap, MineOf, CopySteps
    <2>2. IdsFresh(w)' /\ IdsBounded(w)'
      BY <1>0, <1>1 DEF IdsFresh, IdsBounded, CopySteps
    <2>3. Resting(RoverOf(copy[w].id))'
      BY <1>1 DEF Resting, RoverOf
    <2>4. to # "copy_position" => InMap(copy[w].x, copy[w].y)'
      BY <1>1 DEF InMap
    <2>5. RoverChecks(w)'
      BY <1>1, <2>3
         DEF RoverChecks, UpdateSteps, CopySteps, HalfWrites, MovingSteps
    <2>6. ChecksHold(w)' /\ DispatchOK(w)'
      BY <1>1, <2>4 DEF ChecksHold, DispatchOK, MineSteps, CopySteps, MovingSteps
    <2> QED BY <2>1, <2>2, <2>5, <2>6, OneHolds DEF SerialOK
  <1>2. CASE \E r \in DOMAIN rovers : BeginDispatch(w, r)
    <2> PICK i \in DOMAIN rovers : BeginDispatch(w, i)
      BY <1>2
    <2> DEFINE c == [NewRover(RoverOf(i).id, <<>>) EXCEPT !.status = "Moving"]
    <2>1. c \in RoverRecord /\ c.id = i /\ c.status = "Moving"
      BY <1>0, Numbers DEF NewRover, RoverRecord, RoverStatus, Directions, IdsTrue
    <2> HIDE DEF c
    <2>2. /\ pc[w] = "idle" /\ pc'[w] = "copy_position" /\ copy'[w] = c
          /\ held'[w] = rovers[i] /\ Resting(RoverOf(i))
          /\ UNCHANGED <<width, height, mine, mines, rover, rovers, nextMine, nextRover>>
      BY <1>0 DEF BeginDispatch, Copies, Goto, WorkerTypeOK, store, sides, ids, c
    <2>3. \A r \in DOMAIN rovers : RoverOf(r)' = RoverOf(r)
      BY <2>2 DEF RoverOf
    <2> QED BY <1>1, <2>1, <2>2, <2>3 DEF CopySteps
  <1>3. ASSUME pc[w] \in CopySteps
        PROVE  /\ copy[w].id \in DOMAIN rovers /\ held[w] = rovers[copy[w].id]
               /\ Resting(RoverOf(copy[w].id)) /\ rover[held[w]] = RoverOf(copy[w].id)
               /\ copy[w] \in RoverRecord /\ rover[held[w]] \in RoverRecord
               /\ copy[w].status = "Moving" /\ InMap(rover[held[w]].x, rover[held[w]].y)
    <2>1. copy[w].id \in DOMAIN rovers /\ held[w] = rovers[copy[w].id]
          /\ Resting(RoverOf(copy[w].id))
      BY <1>0, <1>3 DEF RoverChecks
    <2>2. rover[held[w]] = RoverOf(copy[w].id)
      BY <2>1 DEF RoverOf
    <2>3. copy[w] \in RoverRecord /\ copy[w].status = "Moving"
      BY <1>0, <1>3 DEF WorkerTypeOK, Holds
    <2>4. InMap(RoverOf(copy[w].id).x, RoverOf(copy[w].id).y)
      BY <1>0, <2>1 DEF FieldOK, RoversInMap
    <2>5. RoverOf(copy[w].id) \in RoverRecord
      BY <1>0, <2>1, Numbers
    <2> QED BY <2>1, <2>2, <2>3, <2>4, <2>5
  <1>4. CASE CopyPlace(w)
    <2> DEFINE r == rover[held[w]]
               c == copy[w]
    <2>0. pc[w] \in CopySteps /\ pc[w] # "copy_commands"
      BY <1>4 DEF CopyPlace, Copies, Goto, CopySteps
    <2>1. /\ c.id \in DOMAIN rovers /\ held[w] = rovers[c.id] /\ Resting(RoverOf(c.id))
          /\ c \in RoverRecord /\ r \in RoverRecord /\ c.status = "Moving" /\ InMap(r.x, r.y)
      BY <1>3, <2>0
    <2> PICK i \in DOMAIN rovers : c.id = i
      BY <2>1
    <2>2. PICK d \in RoverRecord, to \in {"copy_direction", "copy_commands"} :
             /\ Copies(w, pc[w], to, d)
             /\ d.id = i /\ d.status = "Moving" /\ InMap(d.x, d.y)
      <3>1. CASE Copies(w, "copy_position", "copy_direction", [c EXCEPT !.x = r.x, !.y = r.y])
        <4> DEFINE d == [c EXCEPT !.x = r.x, !.y = r.y]
        <4>1. d \in RoverRecord /\ d.id = i /\ d.status = "Moving" /\ d.x = r.x /\ d.y = r.y
          BY <2>1 DEF RoverRecord
        <4>2. Copies(w, pc[w], "copy_direction", d)
          BY <3>1 DEF Copies, Goto
        <4> HIDE DEF d
        <4> QED BY <2>1, <4>1, <4>2
      <3>2. CASE Copies(w, "copy_direction", "copy_commands", [c EXCEPT !.dir = r.dir])
        <4> DEFINE d == [c EXCEPT !.dir = r.dir]
        <4>0. pc[w] = "copy_direction"
          BY <3>2 DEF Copies, Goto
        <4>1. d \in RoverRecord /\ d.id = i /\ d.status = "Moving" /\ d.x = c.x /\ d.y = c.y
          BY <2>1 DEF RoverRecord
        <4>2. Copies(w, pc[w], "copy_commands", d)
          BY <3>2 DEF Copies, Goto
        <4>3. InMap(c.x, c.y)
          BY <1>0, <4>0 DEF DispatchOK
        <4> HIDE DEF d
        <4> QED BY <4>1, <4>2, <4>3
      <3> QED BY <1>4, <3>1, <3>2 DEF CopyPlace
    <2>3. /\ pc'[w] = to /\ copy'[w] = d /\ held' = held
          /\ UNCHANGED <<width, height, mine, mines, rover, rovers, nextMine, nextRover>>
      BY <1>0, <1>4, <2>2 DEF CopyPlace, Copies, Goto, WorkerTypeOK, store, sides, ids
    <2>4. \A j \in DOMAIN rovers : RoverOf(j)' = RoverOf(j)
      BY <2>3 DEF RoverOf
    <2> QED BY <1>1, <2>0, <2>1, <2>2, <2>3, <2>4 DEF CopySteps
  <1>5. CASE CopyCommands(w)
    <2> DEFINE r == rover[held[w]]
               c == copy[w]
               d == [c EXCEPT !.commands = r.commands]
    <2>0. pc[w] = "copy_commands"
      BY <1>5 DEF CopyCommands, Copies, Goto
    <2>1. /\ c.id \in DOMAIN rovers /\ Resting(RoverOf(c.id))
          /\ c \in RoverRecord /\ r \in RoverRecord /\ c.status = "Moving"
      BY <1>3, <2>0 DEF CopySteps
    <2> PICK i \in DOMAIN rovers : c.id = i
      BY <2>1
    <2>2. d \in RoverRecord /\ d.id = i /\ d.status = "Moving" /\ d.x = c.x /\ d.y = c.y
      BY <2>1 DEF RoverRecord
    <2> HIDE DEF d
    <2>3. InMap(d.x, d.y)
      BY <1>0, <2>0, <2>2 DEF DispatchOK
    <2>4. /\ pc'[w] = "look" /\ copy'[w] = d /\ Leaves(rover)
          /\ UNCHANGED <<width, height, mine, mines, rovers, nextMine, nextRover>>
      BY <1>0, <1>5 DEF CopyCommands, Copies, Goto, WorkerTypeOK, sides, ids, d
    <2>5. \A j \in DOMAIN rovers : RoverOf(j)' = RoverOf(j)
      BY <1>0, <2>4, RoversLeft
    <2> QED BY <1>1, <2>0, <2>1, <2>2, <2>3, <2>4, <2>5 DEF CopySteps
  <1> QED
    BY <1>2, <1>4, <1>5

\* The loop of a dispatch and its end.
LEMMA LoopSerial ==
    ASSUME OneWorker, RecordInv, SerialInv, NEW w \in Workers,
           \/ Look(w) \/ Turn(w) \/ DefuseNothing(w) \/ Eliminate(w) \/ Move(w)
           \/ DefuseRaises(w) \/ SaveRover(w)
    PROVE  SerialInv'
  <1> USE DEF RecordInv
  <1> DEFINE c == copy[w]
  <1>0. /\ TypeOK /\ StoreTypeOK /\ WorkerTypeOK /\ FieldOK(w) /\ IdsFresh(w) /\ IdsBounded(w)
        /\ ChecksHold(w) /\ RoverChecks(w) /\ DispatchOK(w)
        /\ Holds(w) /\ c \in RoverRecord
        /\ c.x \in Nat /\ c.y \in Nat /\ c.dir \in Directions /\ c.status \in RoverStatus
    BY DEF SerialInv, SerialOK, TypeOK, WorkersHold, WorkerTypeOK, RoverRecord
  <1>1. ASSUME UNCHANGED store
        PROVE  UNCHANGED <<width, height, mine, mines, rover, rovers, nextMine, nextRover>>
    BY <1>1 DEF store, sides, ids
  <1>2. ASSUME pc[w] = "act"
        PROVE  /\ c.status = "Moving" /\ InMap(c.x, c.y)
               /\ here[w] # 0 => here[w] \in ActiveMinesAt(c.x, c.y)
    BY <1>0, <1>2 DEF Holds, DispatchOK, MovingSteps
  <1>3. CASE Look(w)
    <2>1. /\ pc[w] = "look" /\ pc'[w] = "act" /\ UNCHANGED store
          /\ copy'[w] = c /\ ~Done(c)
          /\ \/ ActiveMinesAt(c.x, c.y) = {} /\ here'[w] = 0
             \/ here'[w] \in ActiveMinesAt(c.x, c.y)
      BY <1>0, <1>3 DEF Look, Goto, WorkerTypeOK
    <2>2. FieldOK(w)' /\ IdsFresh(w)' /\ IdsBounded(w)'
      BY <1>0, <1>1, <2>1, FieldQuiet DEF IdsFresh, IdsBounded
    <2>3. InMap(copy[w].x, copy[w].y)'
      BY <1>0, <1>1, <2>1 DEF DispatchOK, InMap, MovingSteps
    <2>4. \A o \in ActiveMinesAt(c.x, c.y) : o # 0
      BY <1>0 DEF ActiveMinesAt, StoreTypeOK
    <2>5. ActiveMinesAt(copy[w].x, copy[w].y)' = ActiveMinesAt(c.x, c.y)
      BY <1>1, <2>1 DEF ActiveMinesAt
    <2>6. DispatchOK(w)'
      BY <2>1, <2>3, <2>4, <2>5 DEF DispatchOK, MovingSteps
    <2>7. Resting(RoverOf(c.id)) /\ c.id \in DOMAIN rovers
      BY <1>0, <2>1 DEF RoverChecks, MovingSteps
    <2>8. Resting(RoverOf(copy[w].id))' /\ copy'[w].id \in DOMAIN rovers'
      BY <1>1, <2>1, <2>7 DEF Resting, RoverOf
    <2>9. ChecksHold(w)' /\ RoverChecks(w)'
      BY <2>1, <2>8 DEF ChecksHold, RoverChecks, MineSteps, UpdateSteps, CopySteps, HalfWrites
    <2> QED BY <2>2, <2>6, <2>9, OneHolds DEF SerialOK
  <1>4. CASE Turn(w)
    <2>1. PICK t \in Directions : Executed(w, "act", [c EXCEPT !.dir = t])
      BY <1>0, <1>4 DEF Turn, turn_left, turn_right, Directions
    <2> DEFINE d == [c EXCEPT !.dir = t]
    <2>2. /\ d \in RoverRecord /\ d.id = c.id
          /\ d.x = c.x /\ d.y = c.y /\ d.status = c.status
      BY <1>0 DEF RoverRecord
    <2>3. UNCHANGED store /\ pc[w] = "act"
      BY <1>4 DEF Turn
    <2> HIDE DEF d
    <2>4. Executed(w, "act", d) /\ d.status # "Eliminated" /\ InMap(d.x, d.y)
      BY <1>2, <2>1, <2>2, <2>3 DEF d
    <2> QED BY <1>1, <2>2, <2>3, <2>4, ExecutedSerial
  <1>5. CASE DefuseNothing(w)
    <2>1. UNCHANGED store /\ pc[w] = "act" /\ Executed(w, "act", c)
      BY <1>5 DEF DefuseNothing
    <2> QED BY <1>0, <1>1, <1>2, <2>1, ExecutedSerial
  <1>6. CASE Eliminate(w)
    <2> DEFINE d == [c EXCEPT !.status = "Eliminated"]
    <2>1. UNCHANGED store /\ pc[w] = "act" /\ Executed(w, "act", d) /\ here[w] # 0
      BY <1>6 DEF Eliminate
    <2>2. d \in RoverRecord /\ d.id = c.id /\ d.x = c.x /\ d.y = c.y
      BY <1>0 DEF RoverRecord, RoverStatus
    <2>3. InMap(c.x, c.y) /\ ActiveMinesAt(c.x, c.y) # {}
      BY <1>2, <2>1
    <2> HIDE DEF d
    <2>4. InMap(d.x, d.y) /\ ActiveMinesAt(d.x, d.y) # {}
      BY <2>2, <2>3
    <2> QED BY <1>1, <2>1, <2>2, <2>4, ExecutedSerial
  <1>7. CASE Move(w)
    <2> DEFINE x == c.x + DeltaX[c.dir]
               y == c.y + DeltaY[c.dir]
               d == [c EXCEPT !.x = x, !.y = y]
    <2>0. UNCHANGED store /\ pc[w] = "act"
      BY <1>7 DEF Move
    <2>1. CASE InMap(x, y) /\ Executed(w, "act", d)
      <3>0. x \in Nat /\ y \in Nat
        <4>1. width \in Nat /\ height \in Nat
          BY <1>0, Numbers
        <4> QED BY <2>1, <4>1 DEF InMap
      <3>1. /\ d \in RoverRecord /\ d.id = c.id /\ d.status = c.status
            /\ d.x = x /\ d.y = y
        BY <1>0, <3>0 DEF RoverRecord
      <3> HIDE DEF d, x, y
      <3>2. d.status # "Eliminated" /\ InMap(d.x, d.y)
        BY <1>2, <2>0, <2>1, <3>1
      <3> QED BY <1>1, <2>0, <2>1, <3>1, <3>2, ExecutedSerial
    <2>2. CASE Executed(w, "act", c)
      BY <1>0, <1>1, <1>2, <2>0, <2>2, ExecutedSerial
    <2> QED BY <1>7, <2>1, <2>2 DEF Move
  <1>8. ASSUME pc'[w] = "idle" PROVE ChecksHold(w)' /\ RoverChecks(w)' /\ DispatchOK(w)'
    BY <1>8 DEF ChecksHold, RoverChecks, DispatchOK, MineSteps, UpdateSteps, CopySteps,
                HalfWrites, MovingSteps
  <1>9. CASE DefuseRaises(w)
    <2>1. pc'[w] = "idle" /\ UNCHANGED store /\ pc[w] = "act"
      BY <1>0, <1>9, RespondTyped DEF DefuseRaises, store
    <2>2. FieldOK(w)' /\ IdsFresh(w)' /\ IdsBounded(w)'
      BY <1>0, <1>1, <2>1, FieldQuiet DEF IdsFresh, IdsBounded
    <2> QED BY <1>8, <2>1, <2>2, OneHolds DEF SerialOK
  <1>10. CASE SaveRover(w)
    <2> DEFINE d == IF c.status = "Eliminated" THEN c ELSE [c EXCEPT !.status = "Finished"]
    <2>1. /\ pc[w] = "look" /\ pc'[w] = "idle" /\ Files(d)
          /\ \A v \in Workers : held'[v] \in {held[v], 0}
          /\ UNCHANGED <<width, height, mine, mines, nextMine, nextRover>>
      BY <1>0, <1>10, RespondTyped DEF SaveRover, sides, ids, Respond, WorkerTypeOK
    <2>2. PICK i \in DOMAIN rovers : c.id = i
      BY <1>0, <2>1 DEF RoverChecks, MovingSteps
    <2>3. i # 0
      BY <1>0, Numbers
    <2>4. d \in RoverRecord /\ d.id = i /\ d.x = c.x /\ d.y = c.y
      BY <1>0, <2>2 DEF RoverRecord, RoverStatus
    <2> HIDE DEF d
    <2>5. PICK e \in RoverRecord : e = d
      BY <2>4
    <2>6. /\ DOMAIN rovers' = DOMAIN rovers \cup {i}
          /\ RoverOf(i)' = e
          /\ \A r \in DOMAIN rovers \ {i} : RoverOf(r)' = RoverOf(r)
      <3>1. Files(e) /\ e.id = i
        BY <2>1, <2>4, <2>5
      <3> QED BY <1>0, <2>1, <2>3, <3>1, FilesGives
    <2>7. InMap(e.x, e.y)
      BY <1>0, <2>1, <2>4, <2>5 DEF DispatchOK, MovingSteps
    <2>8. \A r \in DOMAIN rovers' : InMap(RoverOf(r)'.x, RoverOf(r)'.y)
      BY <1>0, <2>6, <2>7 DEF FieldOK, RoversInMap
    <2>9. FieldOK(w)'
      BY <1>0, <2>1, <2>8, FieldKept DEF MineOf
    <2>10. IdsFresh(w)' /\ IdsBounded(w)'
      BY <1>0, <2>1, <2>6 DEF IdsFresh, IdsBounded
    <2> QED BY <1>8, <2>1, <2>9, <2>10, OneHolds DEF SerialOK
  <1> QED
    BY <1>3, <1>4, <1>5, <1>6, <1>7, <1>9, <1>10

\* The defusal of a mine in a dispatch.
LEMMA DefuseSerial ==
    ASSUME OneWorker, RecordInv, SerialInv, NEW w \in Workers,
           BeginDefuse(w) \/ Defuse(w) \/ FileDefused(w)
    PROVE  SerialInv'
  <1> USE DEF RecordInv
  <1> DEFINE c == copy[w]
  <1>0. /\ TypeOK /\ StoreTypeOK /\ WorkerTypeOK /\ IdsTrue /\ FieldOK(w)
        /\ IdsFresh(w) /\ IdsBounded(w) /\ ChecksHold(w) /\ RoverChecks(w) /\ DispatchOK(w)
        /\ Holds(w) /\ c \in RoverRecord
    BY DEF SerialInv, SerialOK, TypeOK, WorkersHold, WorkerTypeOK
  <1>1. /\ pc[w] \in MovingSteps /\ InMap(c.x, c.y)
        /\ c.id \in DOMAIN rovers /\ Resting(RoverOf(c.id))
    <2>1. pc[w] \in MovingSteps
      BY DEF BeginDefuse, Defuse, FileDefused, Writes, Executed, Goto, MovingSteps
    <2> QED BY <1>0, <2>1 DEF DispatchOK, RoverChecks
  <1>2. ASSUME NEW to \in {"defuse_status", "defuse_pin", "file_defused"}, pc'[w] = to,
               NEW i \in DOMAIN mines, form'[w].id = i, here'[w] = mines[i],
               to = "defuse_status" => mine'[mines[i]].status = "active",
               \A m \in DOMAIN mines : MineOf(m)'.x = MineOf(m).x /\ MineOf(m)'.y = MineOf(m).y,
               UNCHANGED <<width, height, mines, rover, rovers, nextMine, nextRover, copy>>
        PROVE  SerialInv'
    <2>1. \A r \in DOMAIN rovers' : InMap(RoverOf(r)'.x, RoverOf(r)'.y)
      BY <1>0, <1>2 DEF FieldOK, RoversInMap, RoverOf
    <2>2. FieldOK(w)' /\ IdsFresh(w)' /\ IdsBounded(w)'
      BY <1>0, <1>1, <1>2, <2>1, FieldKept DEF IdsFresh, IdsBounded, MovingSteps
    <2>3. /\ InMap(copy[w].x, copy[w].y)' /\ copy'[w].id \in DOMAIN rovers'
          /\ Resting(RoverOf(copy[w].id))'
      BY <1>1, <1>2 DEF InMap, Resting, RoverOf
    <2>4. ChecksHold(w)'
      BY <1>2 DEF ChecksHold, MineSteps
    <2>5. RoverChecks(w)' /\ DispatchOK(w)'
      BY <1>2, <2>3 DEF RoverChecks, DispatchOK, UpdateSteps, CopySteps, HalfWrites, MovingSteps
    <2> QED BY <2>2, <2>4, <2>5, OneHolds DEF SerialOK
  <1>3. CASE BeginDefuse(w)
    <2> DEFINE o == here[w]
    <2>1. /\ pc[w] = "act" /\ o # 0 /\ mine[o].id \in DOMAIN mines
          /\ pc'[w] = "defuse_status" /\ form'[w].id = mine[o].id
          /\ here'[w] = mines[mine[o].id]
          /\ UNCHANGED <<width, height, mine, mines, rover, rovers, nextMine, nextRover, copy>>
      BY <1>0, <1>3 DEF BeginDefuse, Goto, WorkerTypeOK, store, sides, ids
    <2>2. o \in ActiveMinesAt(c.x, c.y)
      BY <1>0, <2>1 DEF DispatchOK
    <2>3. PICK i \in DOMAIN mines : o = mines[i] /\ mine[o].status = "active"
      BY <2>2 DEF ActiveMinesAt
    <2>4. mine[o].id = i
      BY <1>0, <2>3 DEF IdsTrue, MineOf
    <2>5. \A m \in DOMAIN mines : MineOf(m)'.x = MineOf(m).x /\ MineOf(m)'.y = MineOf(m).y
      BY <2>1 DEF MineOf
    <2> QED BY <1>2, <2>1, <2>3, <2>4, <2>5
  <1>4. CASE Defuse(w)
    <2> DEFINE m == mine[here[w]]
    <2>0. pc[w] \in {"defuse_status", "defuse_pin"}
      BY <1>4 DEF Defuse, Writes, Goto
    <2>1. form[w].id \in DOMAIN mines /\ here[w] = mines[form[w].id]
      BY <1>0, <2>0 DEF ChecksHold, MineSteps
    <2>2. PICK i \in DOMAIN mines : form[w].id = i
      BY <2>1
    <2>3. m = MineOf(i) /\ m \in MineRecord /\ here[w] = mines[i] /\ form[w] \in Form
      BY <1>0, <2>1, <2>2, Numbers DEF MineOf, WorkerTypeOK
    <2>4. PICK d \in MineRecord, to \in {"defuse_pin", "file_defused"} :
             Writes(w, pc[w], to, d) /\ d.x = m.x /\ d.y = m.y
      <3>1. CASE Writes(w, "defuse_status", "defuse_pin", [m EXCEPT !.status = "defused"])
        <4> DEFINE d == [m EXCEPT !.status = "defused"]
        <4>1. d \in MineRecord /\ d.x = m.x /\ d.y = m.y
          BY <2>3 DEF MineRecord
        <4>2. Writes(w, pc[w], "defuse_pin", d)
          BY <3>1 DEF Writes, Goto
        <4> HIDE DEF d
        <4> QED BY <4>1, <4>2
      <3>2. CASE Writes(w, "defuse_pin", "file_defused", [m EXCEPT !.pin = form[w].serial])
        <4> DEFINE d == [m EXCEPT !.pin = form[w].serial]
        <4>1. d \in MineRecord /\ d.x = m.x /\ d.y = m.y
          BY <2>3 DEF MineRecord, Form
        <4>2. Writes(w, pc[w], "file_defused", d)
          BY <3>2 DEF Writes, Goto
        <4> HIDE DEF d
        <4> QED BY <4>1, <4>2
      <3> QED BY <1>4, <3>1, <3>2 DEF Defuse
    <2>5. PICK from \in {"defuse_status", "defuse_pin"} : from = pc[w]
      BY <2>0
    <2>6. Writes(w, from, to, d) /\ from \in PC /\ to \in PC
      BY <2>4, <2>5 DEF PC, MovingSteps
    <2>7. /\ pc'[w] = to
          /\ UNCHANGED <<width, height, mines, rover, rovers, nextMine, nextRover,
                         form, held, copy, here>>
          /\ MineOf(i)' = d /\ \A j \in DOMAIN mines \ {i} : MineOf(j)' = MineOf(j)
      BY <1>0, <2>3, <2>6, MineWriteGives
    <2>8. \A j \in DOMAIN mines : MineOf(j)'.x = MineOf(j).x /\ MineOf(j)'.y = MineOf(j).y
      BY <2>3, <2>4, <2>7
    <2> QED BY <1>2, <2>2, <2>3, <2>7, <2>8
  <1>5. CASE FileDefused(w)
    <2>1. /\ Executed(w, "file_defused", c) /\ mines' = Put(mines, form[w].id, here[w])
          /\ UNCHANGED <<width, height, mine, rover, rovers, nextMine, nextRover>>
          /\ pc[w] = "file_defused"
      BY <1>5 DEF FileDefused, Executed, Goto, sides, ids
    <2>2. form[w].id \in DOMAIN mines /\ here[w] = mines[form[w].id]
      BY <1>0, <2>1 DEF ChecksHold, MineSteps
    <2>3. mines' = mines
      BY <1>0, <2>1, <2>2 DEF Put, StoreTypeOK
    <2>4. c.status # "Eliminated"
      BY <1>0, <2>1 DEF Holds, MovingSteps
    <2> QED BY <1>0, <1>1, <2>1, <2>3, <2>4, ExecutedSerial
  <1> QED
    BY <1>3, <1>4, <1>5

LEMMA NextSerialInv ==
    ASSUME OneWorker
    PROVE  RecordInv /\ SerialInv /\ [Next]_vars => SerialInv'
  <1>1. ASSUME RecordInv, SerialInv, NEW w \in Workers, Request(w) \/ Continue(w)
        PROVE  SerialInv'
    <2>1. CASE Request(w)
      BY <1>1, <2>1, CreateMineSerial, ChangeMineSerial, MapSerial, CreateRoverSerial,
         UpdateRoverSerial, CopySerial DEF Request
    <2>2. CASE Continue(w)
      BY <1>1, <2>2, CreateMineSerial, ChangeMineSerial, MapSerial, CreateRoverSerial,
         UpdateRoverSerial, CopySerial, LoopSerial, DefuseSerial DEF Continue
    <2> QED BY <1>1, <2>1, <2>2
  <1>2. ASSUME SerialInv, UNCHANGED vars PROVE SerialInv'
    <2>1. ASSUME NEW w \in Workers PROVE SerialOK(w)'
      <3>1. SerialOK(w)
        BY <1>2 DEF SerialInv
      <3>2. FieldOK(w)'
        BY <1>2, <3>1 DEF vars, SerialOK, FieldOK, MinesInMap, RoversInMap, StrictlyApart,
                          InMap, MineOf, RoverOf
      <3>3. IdsFresh(w)' /\ IdsBounded(w)'
        BY <1>2, <3>1 DEF vars, SerialOK, IdsFresh, IdsBounded
      <3>4. ChecksHold(w)'
        BY <1>2, <3>1 DEF vars, SerialOK, ChecksHold, InMap, FreeCell, AllFit, MineOf, RoverOf
      <3>5. RoverChecks(w)' /\ DispatchOK(w)'
        BY <1>2, <3>1
           DEF vars, SerialOK, RoverChecks, DispatchOK, InMap, ActiveMinesAt, Resting, RoverOf
      <3> QED BY <3>2, <3>3, <3>4, <3>5 DEF SerialOK
    <2> QED BY <2>1 DEF SerialInv
  <1> QED
    BY <1>1, <1>2 DEF Next

LEMMA SerialInvariant ==
    ASSUME OneWorker
    PROVE  Spec => [](RecordInv /\ SerialInv)
  BY InitRecordInv, NextRecordInv, InitSerialInv, NextSerialInv, PTL DEF Spec

(* With one request at a time the mines and the rovers stay on the map      *)
(* whatever is created, moved, resized or dispatched.                       *)
THEOREM FieldStaysInMap ==
    ASSUME OneWorker
    PROVE  Spec => []FieldInMap
  <1>1. SerialInv /\ Workers # {} => FieldInMap
    BY DEF SerialInv, SerialOK, FieldOK, FieldInMap
  <1>2. Workers = {} /\ Init => FieldInMap
    BY DEF Init, NoRecords, FieldInMap, MinesInMap, RoversInMap
  <1>3. Workers = {} /\ FieldInMap /\ [Next]_vars => FieldInMap'
    BY DEF Next, vars, FieldInMap, MinesInMap, RoversInMap, InMap, MineOf, RoverOf
  <1>4. CASE Workers = {}
    BY <1>2, <1>3, <1>4, PTL DEF Spec
  <1>5. CASE Workers # {}
    BY <1>1, <1>5, SerialInvariant, PTL
  <1> QED
    BY <1>4, <1>5

(* With one request at a time no two mines share a cell, but for the moment *)
(* between the two writes that move one of them.                            *)
THEOREM FieldCorrect ==
    ASSUME OneWorker
    PROVE  Spec => []MinesApart
  <1>1. ASSUME SerialInv, Workers # {} PROVE MinesApart
    <2> PICK w \in Workers : TRUE
      BY <1>1
    <2>1. StrictlyApart(w) /\ ChecksHold(w)
      BY <1>1 DEF SerialInv, SerialOK, FieldOK
    <2>2. pc[w] = "write_y" => HalfMoved(mines[form[w].id])
      BY <2>1 DEF ChecksHold, MineSteps, HalfMoved
    <2> QED BY <2>1, <2>2 DEF StrictlyApart, MinesApart
  <1>2. Workers = {} /\ Init => MinesApart
    BY DEF Init, NoRecords, MinesApart
  <1>3. ASSUME Workers = {}, MinesApart, [Next]_vars PROVE MinesApart'
    BY <1>3 DEF Next, vars, MinesApart, HalfMoved, MineOf
  <1>4. CASE Workers = {}
    BY <1>2, <1>3, <1>4, PTL DEF Spec
  <1>5. CASE Workers # {}
    BY <1>1, <1>5, SerialInvariant, PTL
  <1> QED
    BY <1>4, <1>5

(* With one request at a time a dispatch never takes a rover off a cell     *)
(* that holds an active mine.                                               *)
THEOREM NoMineLeftBehind ==
    ASSUME OneWorker
    PROVE  Spec => LeavesNoActiveMine
  <1> DEFINE Safe(w) == /\ pc[w] = "act" /\ pc'[w] = "look"
                        /\ <<copy[w].x, copy[w].y>> # <<copy'[w].x, copy'[w].y>>
                        => ActiveMinesAt(copy[w].x, copy[w].y) = {}
  <1>1. ASSUME RecordInv, SerialInv, [Next]_vars PROVE [\A w \in Workers : Safe(w)]_vars
    <2> SUFFICES ASSUME NEW w \in Workers, Next, pc[w] = "act", pc'[w] = "look",
                        <<copy[w].x, copy[w].y>> # <<copy'[w].x, copy'[w].y>>
                 PROVE  ActiveMinesAt(copy[w].x, copy[w].y) = {}
      BY <1>1
    <2>1. Request(w) \/ Continue(w)
      BY DEF Next, OneWorker
    <2>2. WorkerTypeOK /\ copy[w] \in RoverRecord
      BY <1>1 DEF RecordInv, TypeOK, WorkerTypeOK
    <2>3. Turn(w) \/ DefuseNothing(w) \/ Eliminate(w) \/ Move(w)
      <3>1. ~Request(w)
        BY DEF Request, Goto, CheckCreateMine, CheckUpdateMine, DeleteMine, CheckUpdateMap,
               MakeRover, CheckUpdateRover, DeleteRover, BeginDispatch, Copies, ResetDemo
      <3>2. ~DefuseRaises(w)
        BY <2>2 DEF DefuseRaises, Respond, WorkerTypeOK
      <3>3. ~BeginDefuse(w)
        BY <2>2 DEF BeginDefuse, Goto, WorkerTypeOK
      <3> QED
        BY <2>1, <3>1, <3>2, <3>3
           DEF Continue, MakeMine, InsertMine, CountMine, WriteMine, FileMine, WriteWidth,
               WriteHeight, InsertRover, CountRover, WriteRover, FileRover, CopyPlace,
               CopyCommands, Look, Defuse, FileDefused, SaveRover, OrphanReturns,
               Writes, Sets, Copies, Executed, Goto
    <2>4. ASSUME NEW d \in RoverRecord, Executed(w, "act", d), d.x = copy[w].x, d.y = copy[w].y
          PROVE  FALSE
      <3> DEFINE e == [d EXCEPT !.executed = d.executed + 1]
      <3>1. copy'[w] = e
        BY <2>2, <2>4 DEF Executed, WorkerTypeOK
      <3>2. e.x = d.x /\ e.y = d.y
        BY DEF RoverRecord
      <3> HIDE DEF e
      <3> QED BY <2>4, <3>1, <3>2
    <2>5. ~Turn(w)
      <3> SUFFICES ASSUME NEW t, Executed(w, "act", [copy[w] EXCEPT !.dir = t]), t \in Directions
                   PROVE  FALSE
        BY <2>2 DEF Turn, turn_left, turn_right, Directions, RoverRecord
      <3> DEFINE d == [copy[w] EXCEPT !.dir = t]
      <3>1. d \in RoverRecord /\ d.x = copy[w].x /\ d.y = copy[w].y
        BY <2>2 DEF RoverRecord
      <3> QED BY <2>4, <3>1
    <2>6. ~DefuseNothing(w)
      BY <2>2, <2>4 DEF DefuseNothing
    <2>7. ~Eliminate(w)
      <3> DEFINE d == [copy[w] EXCEPT !.status = "Eliminated"]
      <3>1. d \in RoverRecord /\ d.x = copy[w].x /\ d.y = copy[w].y
        BY <2>2 DEF RoverRecord, RoverStatus
      <3> QED BY <2>4, <3>1 DEF Eliminate
    <2>8. here[w] = 0
      BY <2>3, <2>5, <2>6, <2>7 DEF Move
    <2> QED BY <1>1, <2>8 DEF SerialInv, SerialOK, DispatchOK
  <1> QED
    BY <1>1, SerialInvariant, PTL DEF LeavesNoActiveMine, Spec

-----------------------------------------------------------------------------
(* The refinement of FieldLifecycle.                                        *)

\* A step that gives no id, removes nothing and changes no status.
LEMMA LifeUnchanged ==
    ASSUME NEW w \in Workers, TypeOK, IdsFresh(w), DOMAIN mines' = DOMAIN mines,
           \A m \in DOMAIN mines : MineOf(m)'.status = MineOf(m).status,
           \/ UNCHANGED nextMine
           \/ pc[w] = "count_mine" /\ nextMine' = nextMine + 1
    PROVE  UNCHANGED MineLife
  <1>1. ASSUME NEW m \in 1..MaxMines, m \notin DOMAIN mines
        PROVE  m < nextMine <=> m < nextMine'
    BY <1>1, Numbers DEF IdsFresh
  <1> QED
    BY <1>1 DEF MineLife

LEMMA RoverLifeUnchanged ==
    ASSUME NEW w \in Workers, TypeOK, IdsFresh(w), DOMAIN rovers' = DOMAIN rovers,
           \A r \in DOMAIN rovers : RoverOf(r)'.status = RoverOf(r).status,
           \/ UNCHANGED nextRover
           \/ pc[w] = "count_rover" /\ nextRover' = nextRover + 1
    PROVE  UNCHANGED RoverLife
  <1>1. ASSUME NEW r \in 1..MaxRovers, r \notin DOMAIN rovers
        PROVE  r < nextRover <=> r < nextRover'
    BY <1>1, Numbers DEF IdsFresh
  <1> QED
    BY <1>1 DEF RoverLife

LEMMA MineStepsRefine ==
    ASSUME OneWorker, RecordInv, SerialInv, NEW w \in Workers,
           \/ \E m \in DOMAIN mines : DeleteMine(w, m)
           \/ InsertMine(w) \/ CountMine(w) \/ WriteMine(w) \/ FileMine(w)
           \/ Defuse(w) \/ FileDefused(w)
    PROVE  [Lifecycle!Next]_<<MineLife, RoverLife>>
  <1>0. /\ TypeOK /\ StoreTypeOK /\ WorkerTypeOK /\ IdsTrue /\ IdsFresh(w) /\ IdsBounded(w)
        /\ ChecksHold(w) /\ Holds(w)
    BY DEF RecordInv, TypeOK, SerialInv, SerialOK, WorkersHold
  <1>1. UNCHANGED <<rover, rovers, nextRover>>
    BY DEF DeleteMine, InsertMine, CountMine, WriteMine, FileMine, Defuse, FileDefused,
           Writes, ids
  <1>2. UNCHANGED RoverLife
    BY <1>1 DEF RoverLife, RoverOf
  <1>3. CASE \E m \in DOMAIN mines : DeleteMine(w, m)
    <2> PICK m \in DOMAIN mines : DeleteMine(w, m)
      BY <1>3
    <2>0. /\ pc[w] = "idle" /\ UNCHANGED <<mine, nextMine>>
          /\ mines' = [i \in DOMAIN mines \ {m} |-> mines[i]]
      BY DEF DeleteMine, ids
    <2>1. m \in 1..MaxMines /\ m < nextMine /\ MineOf(m).status \in {"active", "defused"}
      BY <1>0, <2>0, Numbers DEF IdsFresh, IdsBounded, MineRecord
    <2>2. Lifecycle!DeleteMine(m)
      BY <1>2, <2>0, <2>1 DEF MineLife, MineOf, Lifecycle!DeleteMine
    <2> QED BY <2>1, <2>2 DEF Lifecycle!Next
  <1>4. CASE InsertMine(w)
    <2> DEFINE n == Len(mine) + 1
               f == form[w]
    <2>1. /\ pc[w] = "insert_mine" /\ f.id = nextMine /\ UNCHANGED nextMine
          /\ mine' = Append(mine, NewMine(f)) /\ mines' = Put(mines, f.id, n)
      BY <1>0, <1>4 DEF InsertMine, Goto, IdsFresh, ids
    <2>2. PICK k \in 1..MaxMines : k = nextMine /\ k \notin DOMAIN mines
      BY <1>0, <2>1, Numbers, StoreAssumption DEF IdsFresh, IdsBounded
    <2>3. NewMine(f) \in MineRecord /\ NewMine(f).status = "active"
      BY <1>0, <2>1 DEF NewMine, MineRecord, WorkerTypeOK, Form, Holds
    <2>4. /\ \A o \in DOMAIN mine : mine'[o] = mine[o]
          /\ mine'[n] = NewMine(f)
      BY <1>0, <2>1, <2>3, AppendProperties DEF StoreTypeOK
    <2>5. /\ DOMAIN mines' = DOMAIN mines \cup {k}
          /\ MineOf(k)' = NewMine(f)
          /\ \A m \in DOMAIN mines : MineOf(m)' = MineOf(m)
      BY <1>0, <2>1, <2>2, <2>4, Numbers DEF Put, MineOf
    <2>6. \A m \in DOMAIN mines : m < nextMine /\ MineOf(m).status \in {"active", "defused"}
      BY <1>0, <2>1, Numbers DEF IdsFresh, MineRecord
    <2>7. \A m \in 1..MaxMines : MineLife[m] = "unborn" <=> m >= k
      BY <1>0, <2>2, <2>6, Numbers DEF MineLife
    <2>8. MineLife' = [MineLife EXCEPT ![k] = "active"]
      BY <2>1, <2>2, <2>3, <2>5 DEF MineLife
    <2>9. DOMAIN MineLife = 1..MaxMines
      BY DEF MineLife
    <2>10. Lifecycle!CreateMine(k)
      BY <1>2, <2>7, <2>8, <2>9 DEF Lifecycle!CreateMine, Lifecycle!IsNext
    <2> QED BY <2>2, <2>10 DEF Lifecycle!Next
  <1>5. CASE CountMine(w)
    <2>1. /\ pc[w] = "count_mine" /\ nextMine' = nextMine + 1
          /\ UNCHANGED <<mine, mines>>
      BY <1>5 DEF CountMine
    <2>2. \A m \in DOMAIN mines : MineOf(m)'.status = MineOf(m).status
      BY <2>1 DEF MineOf
    <2> QED BY <1>0, <1>2, <2>1, <2>2, LifeUnchanged
  <1>6. ASSUME pc[w] \in MineSteps
        PROVE  \E i \in DOMAIN mines : form[w].id = i /\ here[w] = mines[i]
    BY <1>0, <1>6 DEF ChecksHold
  <1>7. ASSUME NEW from \in MineSteps, NEW to \in MineSteps, NEW d \in MineRecord,
               Writes(w, from, to, d), NEW i \in DOMAIN mines, here[w] = mines[i]
        PROVE  /\ UNCHANGED <<mines, nextMine>> /\ MineOf(i)' = d
               /\ \A m \in DOMAIN mines \ {i} : MineOf(m)' = MineOf(m)
    <2>1. from \in PC /\ to \in PC
      BY DEF MineSteps, PC, MovingSteps
    <2> QED BY <1>0, <1>7, <2>1, MineWriteGives
  <1>8. ASSUME NEW from \in MineSteps, NEW to \in MineSteps, NEW d \in MineRecord,
               Writes(w, from, to, d), d.status = mine[here[w]].status
        PROVE  UNCHANGED MineLife
    <2>1. PICK i \in DOMAIN mines : here[w] = mines[i]
      BY <1>6, <1>8 DEF Writes, Goto
    <2>2. /\ UNCHANGED <<mines, nextMine>> /\ MineOf(i)' = d
          /\ \A m \in DOMAIN mines \ {i} : MineOf(m)' = MineOf(m)
      BY <1>7, <1>8, <2>1
    <2>3. \A m \in DOMAIN mines : MineOf(m)'.status = MineOf(m).status
      BY <1>8, <2>1, <2>2 DEF MineOf
    <2> QED BY <1>0, <2>2, <2>3, LifeUnchanged
  <1>9. ASSUME pc[w] \in MineSteps PROVE mine[here[w]] \in MineRecord /\ form[w] \in Form
    <2>1. PICK i \in DOMAIN mines : here[w] = mines[i]
      BY <1>6, <1>9
    <2> QED BY <1>0, <2>1, Numbers DEF MineOf, WorkerTypeOK
  <1>10. CASE WriteMine(w)
    <2> DEFINE m == mine[here[w]]
               f == form[w]
               s == IF f.serial = "none" THEN m.serial ELSE f.serial
    <2>0. m \in MineRecord /\ f \in Form
      BY <1>9, <1>10 DEF WriteMine, Writes, Goto, MineSteps
    <2>1. s \in Serials
      BY <2>0 DEF MineRecord, Form
    <2> HIDE DEF s
    <2>2. ASSUME NEW d \in {[m EXCEPT !.x = f.x], [m EXCEPT !.y = f.y], [m EXCEPT !.serial = s]}
          PROVE  d \in MineRecord /\ d.status = m.status
      BY <2>0, <2>1, <2>2 DEF MineRecord, Form
    <2>3. \E d \in {[m EXCEPT !.x = f.x], [m EXCEPT !.y = f.y], [m EXCEPT !.serial = s]},
             from \in MineSteps, to \in MineSteps : Writes(w, from, to, d)
      BY <1>10 DEF WriteMine, MineSteps, s
    <2> QED BY <1>2, <1>8, <2>2, <2>3
  <1>11. CASE Defuse(w)
    <2> DEFINE m == mine[here[w]]
    <2>0. m \in MineRecord /\ form[w] \in Form
      BY <1>9, <1>11 DEF Defuse, Writes, Goto, MineSteps
    <2>1. CASE Writes(w, "defuse_status", "defuse_pin", [m EXCEPT !.status = "defused"])
      <3> DEFINE d == [m EXCEPT !.status = "defused"]
      <3>1. d \in MineRecord /\ d.status = "defused"
        BY <2>0 DEF MineRecord
      <3>2. pc[w] = "defuse_status"
        BY <2>1 DEF Writes, Goto
      <3>3. PICK i \in DOMAIN mines : here[w] = mines[i] /\ MineOf(i).status = "active"
        BY <1>0, <1>6, <3>2 DEF ChecksHold, MineSteps, MineOf
      <3>4. Writes(w, "defuse_status", "defuse_pin", d)
        BY <2>1
      <3> HIDE DEF d
      <3>5. /\ UNCHANGED <<mines, nextMine>> /\ MineOf(i)' = d
            /\ \A j \in DOMAIN mines \ {i} : MineOf(j)' = MineOf(j)
        BY <1>7, <3>1, <3>3, <3>4 DEF MineSteps
      <3>6. i \in 1..MaxMines
        BY <1>0 DEF IdsBounded
      <3>7. MineLife[i] = "active"
        BY <3>3, <3>6 DEF MineLife
      <3>8. MineLife' = [MineLife EXCEPT ![i] = "defused"]
        <4>1. MineLife'[i] = "defused"
          BY <3>1, <3>5, <3>6 DEF MineLife
        <4>2. ASSUME NEW j \in 1..MaxMines, j # i PROVE MineLife'[j] = MineLife[j]
          BY <3>5, <4>2 DEF MineLife
        <4>3. DOMAIN MineLife = 1..MaxMines /\ DOMAIN MineLife' = 1..MaxMines
          BY DEF MineLife
        <4>4. MineLife = [j \in 1..MaxMines |-> MineLife[j]]
              /\ MineLife' = [j \in 1..MaxMines |-> MineLife'[j]]
          BY DEF MineLife
        <4> QED BY <3>6, <4>1, <4>2, <4>3, <4>4
      <3>9. Lifecycle!DefuseMine(i)
        BY <1>2, <3>7, <3>8 DEF Lifecycle!DefuseMine
      <3> QED BY <3>6, <3>9 DEF Lifecycle!Next
    <2>2. CASE Writes(w, "defuse_pin", "file_defused", [m EXCEPT !.pin = form[w].serial])
      <3> DEFINE d == [m EXCEPT !.pin = form[w].serial]
      <3>1. d \in MineRecord /\ d.status = m.status
        BY <2>0 DEF MineRecord, Form
      <3>2. Writes(w, "defuse_pin", "file_defused", d)
        BY <2>2
      <3> HIDE DEF d
      <3> QED BY <1>2, <1>8, <3>1, <3>2 DEF MineSteps
    <2> QED BY <1>11, <2>1, <2>2 DEF Defuse
  <1>12. CASE FileMine(w) \/ FileDefused(w)
    <2>1. /\ mines' = Put(mines, form[w].id, here[w]) /\ UNCHANGED <<mine, nextMine>>
          /\ pc[w] \in {"file_mine", "file_defused"}
      BY <1>12 DEF FileMine, FileDefused, Executed, Goto, ids
    <2>2. form[w].id \in DOMAIN mines /\ here[w] = mines[form[w].id]
      BY <1>0, <2>1 DEF ChecksHold, MineSteps
    <2>3. mines' = mines
      BY <1>0, <2>1, <2>2 DEF Put, StoreTypeOK
    <2>4. \A m \in DOMAIN mines : MineOf(m)'.status = MineOf(m).status
      BY <2>1, <2>3 DEF MineOf
    <2> QED BY <1>0, <1>2, <2>1, <2>3, <2>4, LifeUnchanged
  <1> QED
    BY <1>3, <1>4, <1>5, <1>10, <1>11, <1>12

LEMMA RoverStepsRefine ==
    ASSUME OneWorker, RecordInv, SerialInv, NEW w \in Workers,
           \/ InsertRover(w) \/ CountRover(w) \/ WriteRover(w) \/ FileRover(w)
           \/ CopyCommands(w) \/ SaveRover(w)
           \/ \E r \in DOMAIN rovers : DeleteRover(w, r)
    PROVE  [Lifecycle!Next]_<<MineLife, RoverLife>>
  <1>0. /\ TypeOK /\ StoreTypeOK /\ WorkerTypeOK /\ IdsTrue /\ IdsFresh(w) /\ IdsBounded(w)
        /\ RoverChecks(w) /\ DispatchOK(w) /\ Holds(w) /\ AllTell
    BY DEF RecordInv, TypeOK, SerialInv, SerialOK, WorkersHold
  <1>1. UNCHANGED <<mine, mines, nextMine>>
    BY DEF InsertRover, CountRover, WriteRover, FileRover, CopyCommands, SaveRover, DeleteRover,
           Sets, ids
  <1>2. UNCHANGED MineLife
    BY <1>1 DEF MineLife, MineOf
  <1>3. ASSUME pc[w] \notin HalfWrites, NEW r \in DOMAIN rovers
        PROVE  RoverOf(r).status \in {"Not Started", "Finished", "Eliminated"}
    <2>1. ~HalfWritten(rovers[r])
      BY <1>3 DEF HalfWritten, OneWorker
    <2>2. RoverOf(r) \in RoverRecord /\ rovers[r] \in Objects
      BY <1>0, Numbers
    <2>3. RoverOf(r).status # "Moving"
      BY <1>0, <2>1, <2>2 DEF AllTell, RecordTells, RoverOf
    <2> QED BY <2>2, <2>3 DEF RoverRecord, RoverStatus
  <1>4. CASE InsertRover(w)
    <2>1. /\ pc[w] = "insert_rover" /\ Files(copy[w]) /\ UNCHANGED <<nextRover, held>>
      BY <1>4 DEF InsertRover, Goto, ids
    <2>2. PICK c \in RoverRecord : c = copy[w]
      BY <1>0 DEF WorkerTypeOK
    <2>3. /\ c.id = nextRover /\ c.id # 0 /\ c.status = "Not Started" /\ nextRover <= MaxRovers
      BY <1>0, <2>1, <2>2 DEF IdsFresh, IdsBounded, Holds, RoverChecks
    <2>4. PICK k \in 1..MaxRovers : k = nextRover /\ k = c.id
      <3>0. nextRover \in Nat \ {0} /\ nextRover <= MaxRovers
        BY <1>0, <2>3, Numbers
      <3>1. nextRover \in 1..MaxRovers
        BY <3>0, StoreAssumption
      <3> QED BY <2>3, <3>1
    <2>5. Files(c) /\ \A v \in Workers : held'[v] \in {held[v], 0}
      BY <2>1, <2>2
    <2>6. /\ DOMAIN rovers' = DOMAIN rovers \cup {k}
          /\ RoverOf(k)' = c
          /\ \A r \in DOMAIN rovers \ {k} : RoverOf(r)' = RoverOf(r)
      BY <1>0, <2>3, <2>4, <2>5, FilesGives
    <2>7. \A r \in DOMAIN rovers : r \in Nat /\ r < nextRover /\ r # k
      BY <1>0, <2>1, <2>4, Numbers DEF IdsFresh
    <2>8. \A r \in 1..MaxRovers : RoverLife[r] = "unborn" <=> r >= k
      <3>1. ASSUME NEW r \in 1..MaxRovers, r \in DOMAIN rovers
            PROVE  RoverLife[r] # "unborn" /\ r < k
        BY <1>3, <2>1, <2>4, <2>7, <3>1 DEF RoverLife, HalfWrites
      <3>2. ASSUME NEW r \in 1..MaxRovers, r \notin DOMAIN rovers
            PROVE  RoverLife[r] = "unborn" <=> ~(r < k)
        BY <2>4, <3>2 DEF RoverLife
      <3>3. \A r \in 1..MaxRovers : r >= k <=> ~(r < k)
        BY StoreAssumption
      <3> QED BY <3>1, <3>2, <3>3
    <2>9. RoverLife' = [RoverLife EXCEPT ![k] = "Not Started"]
      <3>1. RoverOf(k)'.status = "Not Started"
        BY <2>3, <2>6
      <3>2. \A r \in DOMAIN rovers : RoverOf(r)'.status = RoverOf(r).status
        BY <2>6, <2>7
      <3> QED BY <2>1, <2>6, <3>1, <3>2 DEF RoverLife
    <2>10. DOMAIN RoverLife = 1..MaxRovers
      BY DEF RoverLife
    <2>11. Lifecycle!CreateRover(k)
      BY <1>2, <2>8, <2>9, <2>10 DEF Lifecycle!CreateRover, Lifecycle!IsNext
    <2> QED BY <2>4, <2>11 DEF Lifecycle!Next
  <1>5. CASE CountRover(w)
    <2>1. /\ pc[w] = "count_rover" /\ nextRover' = nextRover + 1
          /\ UNCHANGED <<rover, rovers>>
      BY <1>5 DEF CountRover
    <2>2. \A r \in DOMAIN rovers : RoverOf(r)'.status = RoverOf(r).status
      BY <2>1 DEF RoverOf
    <2> QED BY <1>0, <1>2, <2>1, <2>2, RoverLifeUnchanged
  <1>6. CASE WriteRover(w)
    <2> DEFINE r == rover[held[w]]
    <2>0. /\ pc[w] \in UpdateSteps /\ copy[w].id \in DOMAIN rovers
          /\ held[w] = rovers[copy[w].id] /\ copy[w] \in RoverRecord
      BY <1>0, <1>6 DEF WriteRover, Sets, Goto, RoverChecks, UpdateSteps, HalfWrites, WorkerTypeOK
    <2> PICK i \in DOMAIN rovers : copy[w].id = i
      BY <2>0
    <2>1. held[w] = rovers[i] /\ r = RoverOf(i) /\ r \in RoverRecord /\ i \in 1..MaxRovers
      BY <1>0, <2>0, Numbers DEF RoverOf, IdsBounded
    <2>2. ASSUME NEW from \in UpdateSteps, NEW to \in UpdateSteps, NEW d \in RoverRecord,
                 Sets(w, from, to, d)
          PROVE  /\ UNCHANGED <<rovers, nextRover>> /\ RoverOf(i)' = d
                 /\ \A j \in DOMAIN rovers \ {i} : RoverOf(j)' = RoverOf(j)
      <3>1. from \in PC /\ to \in PC
        BY DEF UpdateSteps, HalfWrites, PC
      <3> QED BY <1>0, <2>1, <2>2, <3>1, RoverWriteGives
    <2>3. ASSUME NEW from \in UpdateSteps, NEW to \in UpdateSteps, NEW d \in RoverRecord,
                 Sets(w, from, to, d), d.status = r.status
          PROVE  UNCHANGED RoverLife
      <3>1. /\ UNCHANGED <<rovers, nextRover>> /\ RoverOf(i)' = d
            /\ \A j \in DOMAIN rovers \ {i} : RoverOf(j)' = RoverOf(j)
        BY <2>2, <2>3
      <3>2. \A j \in DOMAIN rovers : RoverOf(j)'.status = RoverOf(j).status
        BY <2>1, <2>3, <3>1
      <3> QED BY <1>0, <3>1, <3>2, RoverLifeUnchanged
    <2>4. CASE Sets(w, "write_status", "write_position", [r EXCEPT !.status = "Not Started"])
      <3> DEFINE d == [r EXCEPT !.status = "Not Started"]
      <3>1. d \in RoverRecord /\ d.status = "Not Started"
        BY <2>1 DEF RoverRecord, RoverStatus
      <3>2. pc[w] = "write_status" /\ Sets(w, "write_status", "write_position", d)
        BY <2>4 DEF Sets, Goto
      <3> HIDE DEF d
      <3>3. /\ UNCHANGED <<rovers, nextRover>> /\ RoverOf(i)' = d
            /\ \A j \in DOMAIN rovers \ {i} : RoverOf(j)' = RoverOf(j)
        BY <2>2, <3>1, <3>2 DEF UpdateSteps, HalfWrites
      <3>4. RoverLife[i] \in {"Not Started", "Finished"}
        BY <1>0, <2>1, <3>2 DEF RoverLife, RoverChecks, Resting
      <3>5. RoverOf(i)'.status = "Not Started"
        BY <3>1, <3>3
      <3>6. RoverLife' = [RoverLife EXCEPT ![i] = "Not Started"]
        BY <2>1, <3>3, <3>5 DEF RoverLife
      <3>7. Lifecycle!UpdateRoverCommands(i)
        BY <1>2, <3>4, <3>6 DEF Lifecycle!UpdateRoverCommands, Lifecycle!Resting
      <3> QED BY <2>1, <3>7 DEF Lifecycle!Next
    <2>5. CASE \E d \in {[r EXCEPT !.commands = copy[w].commands], [r EXCEPT !.executed = 0],
                         [r EXCEPT !.x = 0, !.y = 0], [r EXCEPT !.dir = "S"]},
                  from \in UpdateSteps, to \in UpdateSteps : Sets(w, from, to, d)
      <3>1. ASSUME NEW d \in {[r EXCEPT !.commands = copy[w].commands], [r EXCEPT !.executed = 0],
                              [r EXCEPT !.x = 0, !.y = 0], [r EXCEPT !.dir = "S"]}
            PROVE  d \in RoverRecord /\ d.status = r.status
        <4>1. CASE d = [r EXCEPT !.commands = copy[w].commands]
          BY <2>0, <2>1, <4>1 DEF RoverRecord
        <4>2. CASE d = [r EXCEPT !.executed = 0]
          BY <2>1, <4>2 DEF RoverRecord
        <4>3. CASE d = [r EXCEPT !.x = 0, !.y = 0]
          <5> PICK q \in RoverRecord : q = r
            BY <2>1
          <5>1. d = [q EXCEPT !.x = 0, !.y = 0]
            BY <4>3
          <5> QED BY <5>1 DEF RoverRecord
        <4>4. CASE d = [r EXCEPT !.dir = "S"]
          BY <2>1, <4>4 DEF RoverRecord, Directions
        <4> QED BY <3>1, <4>1, <4>2, <4>3, <4>4
      <3> QED BY <1>2, <2>3, <2>5, <3>1
    <2> QED BY <1>6, <2>4, <2>5 DEF WriteRover, UpdateSteps, HalfWrites
  <1>7. CASE FileRover(w) \/ CopyCommands(w)
    <2>1. Leaves(rover) /\ UNCHANGED nextRover
      BY <1>7 DEF FileRover, CopyCommands, ids
    <2>2. rovers' = rovers
      <3>1. CASE CopyCommands(w)
        BY <3>1 DEF CopyCommands
      <3>2. CASE FileRover(w)
        <4>1. rovers' = Put(rovers, copy[w].id, held[w]) /\ pc[w] = "file_rover"
          BY <3>2 DEF FileRover
        <4>2. copy[w].id \in DOMAIN rovers /\ held[w] = rovers[copy[w].id]
          BY <1>0, <4>1 DEF RoverChecks, UpdateSteps
        <4> QED BY <1>0, <4>1, <4>2 DEF Put, StoreTypeOK
      <3> QED BY <1>7, <3>1, <3>2
    <2>3. \A r \in DOMAIN rovers' : RoverOf(r)' = RoverOf(r)
      BY <1>0, <2>1, <2>2, RoversLeft
    <2>4. \A r \in DOMAIN rovers : RoverOf(r)'.status = RoverOf(r).status
      BY <2>2, <2>3
    <2> QED BY <1>0, <1>2, <2>1, <2>2, <2>4, RoverLifeUnchanged
  <1>8. CASE \E r \in DOMAIN rovers : DeleteRover(w, r)
    <2> PICK r \in DOMAIN rovers : DeleteRover(w, r)
      BY <1>8
    <2>0. /\ pc[w] = "idle" /\ UNCHANGED nextRover /\ Leaves(rover)
          /\ rovers' = [i \in DOMAIN rovers \ {r} |-> rovers[i]]
      BY DEF DeleteRover, ids
    <2>1. r \in 1..MaxRovers /\ r < nextRover
      BY <1>0, <2>0 DEF IdsFresh, IdsBounded
    <2>2. RoverOf(r).status \in {"Not Started", "Finished", "Eliminated"}
      BY <1>3, <2>0 DEF HalfWrites
    <2>3. \A i \in DOMAIN rovers' : RoverOf(i)' = RoverOf(i)
      BY <1>0, <2>0, RoversLeft
    <2>4. RoverLife' = [RoverLife EXCEPT ![r] = "gone"]
      BY <2>0, <2>1, <2>3 DEF RoverLife
    <2>5. RoverLife[r] \in {"Not Started", "Finished", "Eliminated"}
      BY <2>1, <2>2 DEF RoverLife
    <2>6. Lifecycle!DeleteRover(r)
      BY <1>2, <2>4, <2>5 DEF Lifecycle!DeleteRover, Lifecycle!Resting
    <2> QED BY <2>1, <2>6 DEF Lifecycle!Next
  <1>9. CASE SaveRover(w)
    <2> DEFINE c == copy[w]
               d == IF c.status = "Eliminated" THEN c ELSE [c EXCEPT !.status = "Finished"]
    <2>1. /\ pc[w] = "look" /\ Files(d) /\ UNCHANGED nextRover
          /\ \A v \in Workers : held'[v] \in {held[v], 0}
      BY <1>0, <1>9 DEF SaveRover, ids, Respond, WorkerTypeOK
    <2>2. PICK i \in DOMAIN rovers : c.id = i /\ Resting(RoverOf(i))
      BY <1>0, <2>1 DEF RoverChecks, MovingSteps
    <2>3. i # 0 /\ i \in 1..MaxRovers
      BY <1>0, Numbers DEF IdsBounded
    <2>4. /\ d \in RoverRecord /\ d.id = i
          /\ \/ d.status = "Finished"
             \/ d.status = "Eliminated" /\ c.status = "Eliminated"
      BY <1>0, <2>2 DEF RoverRecord, RoverStatus, WorkerTypeOK
    <2> HIDE DEF d
    <2>5. PICK e \in RoverRecord : e = d
      BY <2>4
    <2>6. /\ DOMAIN rovers' = DOMAIN rovers \cup {i}
          /\ RoverOf(i)' = e
          /\ \A r \in DOMAIN rovers \ {i} : RoverOf(r)' = RoverOf(r)
      <3>1. Files(e) /\ e.id = i
        BY <2>1, <2>4, <2>5
      <3> QED BY <1>0, <2>1, <2>3, <3>1, FilesGives
    <2>7. RoverLife[i] \in {"Not Started", "Finished"}
      BY <2>2, <2>3 DEF RoverLife, Resting
    <2>8. RoverLife' = [RoverLife EXCEPT ![i] = e.status]
      BY <2>1, <2>3, <2>6 DEF RoverLife
    <2>9. ASSUME c.status = "Eliminated" PROVE \E m \in 1..MaxMines : MineLife[m] = "active"
      <3>1. PICK m \in DOMAIN mines : MineOf(m).status = "active"
        BY <1>0, <2>1, <2>9 DEF DispatchOK, ActiveMinesAt, MineOf
      <3> QED BY <1>0, <3>1 DEF MineLife, IdsBounded
    <2>10. Lifecycle!DispatchRover(i)
      BY <1>2, <2>4, <2>5, <2>7, <2>8, <2>9 DEF Lifecycle!DispatchRover, Lifecycle!Resting
    <2> QED BY <2>3, <2>10 DEF Lifecycle!Next
  <1> QED
    BY <1>4, <1>5, <1>6, <1>7, <1>8, <1>9

LEMMA NextRefines ==
    ASSUME OneWorker
    PROVE  RecordInv /\ SerialInv /\ [Next]_vars
           => [Lifecycle!Next]_<<MineLife, RoverLife>>
  <1>1. ASSUME RecordInv, SerialInv, NEW w \in Workers, Request(w) \/ Continue(w)
        PROVE  [Lifecycle!Next]_<<MineLife, RoverLife>>
    <2>1. CASE UNCHANGED <<mine, mines, rover, rovers, nextMine, nextRover>>
      BY <2>1 DEF MineLife, RoverLife, MineOf, RoverOf
    <2>2. CASE ResetDemo(w)
      <3>1. Lifecycle!ResetDemo
        BY <2>2 DEF ResetDemo, NoRecords, MineLife, RoverLife, Lifecycle!ResetDemo
      <3> QED BY <3>1 DEF Lifecycle!Next
    <2>3. UNCHANGED store => UNCHANGED <<mine, mines, rover, rovers, nextMine, nextRover>>
      BY DEF store, ids
    <2>4. CASE Request(w)
      BY <1>1, <2>1, <2>2, <2>3, <2>4, MineStepsRefine, RoverStepsRefine
         DEF Request, CheckCreateMine, CheckUpdateMine, CheckUpdateMap, CheckUpdateRover,
             MakeRover, BeginDispatch
    <2>5. CASE Continue(w)
      BY <1>1, <2>1, <2>3, <2>5, MineStepsRefine, RoverStepsRefine
         DEF Continue, MakeMine, WriteWidth, WriteHeight, CopyPlace, Look, Turn, DefuseNothing,
             BeginDefuse, DefuseRaises, Eliminate, Move, OrphanReturns, ids
    <2> QED BY <1>1, <2>4, <2>5
  <1>2. ASSUME UNCHANGED vars PROVE UNCHANGED <<MineLife, RoverLife>>
    BY <1>2 DEF vars, MineLife, RoverLife, MineOf, RoverOf
  <1> QED
    BY <1>1, <1>2 DEF Next

(* With one request at a time the server keeps what FieldLifecycle promises *)
(* of ids, of deleted, defused and eliminated things: each request is one   *)
(* step of it, or none, whatever the number of steps the code takes.        *)
THEOREM LifecycleRefined ==
    ASSUME OneWorker
    PROVE  Spec => ImplementsLifecycle
  <1>1. Init => Lifecycle!Init
    BY DEF Init, NoRecords, MineLife, RoverLife, Lifecycle!Init
  <1> QED
    BY <1>1, NextRefines, SerialInvariant, PTL
       DEF Spec, ImplementsLifecycle, Lifecycle!Spec, Lifecycle!vars
=============================================================================
