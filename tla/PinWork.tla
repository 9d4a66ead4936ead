------------------------------- MODULE PinWork -------------------------------
(***************************************************************************)
(* Part 2 of 892/Lab1/Lab1.py: the mines are read from a map or from a     *)
(* list, each gets a key of its own, and a PIN is searched for each key,   *)
(* by main, by threads that share a queue, or by a pool of processes.      *)
(*                                                                         *)
(* A serial number, and a key made from one, is a sequence of numbers: its *)
(* parts between the underscores.  A PIN is a function of the text it was  *)
(* searched with, so a result is the key's place in the list, and the file *)
(* has a PIN under each key.  The queue is filled before anyone takes from *)
(* it and never again: the number of keys taken says what is left.         *)
(***************************************************************************)
EXTENDS Integers, Sequences, FiniteSets, SequencesExt, FiniteSetsExt, Selections

CONSTANTS
    Workers,   \* --p2-threads
    Sources,   \* the mine files: each as a map, if it is one, and as a list of lines,
               \* which are the sequences of their parts
    SerialMode, \* --serial-mode
    Words      \* the numbers that stand for a text which int() does not take

ASSUME PinAssumption ==
    /\ Workers \in Nat \ {0}
    /\ SerialMode \in {"coords", "value", "coords_value"} /\ Words \subseteq Int
    /\ \A src \in Sources :
         /\ src.grid \in Seq(Seq(Int)) /\ \A i \in DOMAIN src.grid : Len(src.grid[i]) = Len(src.grid[1])
         /\ src.lines \in Seq(Seq(Seq(Int) \ {<<>>}) \ {<<>>})

VARIABLES
    mines,    \* the mines that were loaded
    taken,    \* how many keys have been taken from the queue (from the list)
    holding,  \* the place of the key each worker searches for, 0 if none
    left,     \* the threads that have ended
    out,      \* the places of the keys in out
    pins      \* disarmed_mines.json: whether it is there and whole, and its PINs
              \* by their keys; "of" are the mines it was written for

search == <<taken, holding, left, out>>

WorkerIds == 1..Workers

-----------------------------------------------------------------------------
(* The mines and their keys.                                                *)

Mine(r, c, s) == [row |-> r, col |-> c, serial |-> s]

\* The serial of a mine of a map.  The coordinates have a fixed width, so
\* that the parts of a serial can be told apart without a separator.
SerialAt(r, c, v) ==
    CASE SerialMode = "coords" -> <<r, c>>
      [] SerialMode = "value" -> <<v>>
      [] SerialMode = "coords_value" -> <<r, c, v>>

\* A map is the sequence of its rows.
mines_from_map(grid) ==
    LET cols == Len(grid[1])
        r(i) == (i - 1) \div cols
        c(i) == (i - 1) % cols
        cells == [i \in 1..(Len(grid) * cols) |->
                    [row |-> r(i), col |-> c(i), v |-> grid[r(i) + 1][c(i) + 1]]]
        found == Kept(cells, {i \in DOMAIN cells : cells[i].v > 0})
    IN  [i \in DOMAIN found |->
           Mine(found[i].row, found[i].col, SerialAt(found[i].row, found[i].col, found[i].v))]

\* int(part); a number written with underscores, which int() takes too, is left out.
IsInt(part) == Len(part) = 1 /\ part[1] \notin Words

\* A line has a row, a column and a serial; of any other only the first part is
\* read, and taken for a serial.
mine_of(line) ==
    IF Len(line) >= 3 /\ IsInt(line[1]) /\ IsInt(line[2])
    THEN Mine(line[1][1], line[2][1], line[3])
    ELSE Mine(-1, -1, line[1])

mines_from_file(lines) == [i \in DOMAIN lines |-> mine_of(lines[i])]

\* Not a map, or one without a mine: the lines are read.
load_mines(src) ==
    IF src.grid # <<>> /\ mines_from_map(src.grid) # <<>> THEN mines_from_map(src.grid)
    ELSE mines_from_file(src.lines)

\* A plausible bug: the second mine without a place gets suffix 2, and so does the third.
SuffixTwo(used, s) == Append(s, 2)

\* while f"{m.serial}_{suffix}" in used
Suffixed(used, s) == Append(s, Min({n \in 2..(Cardinality(used) + 2) : Append(s, n) \notin used}))

KeyFor(used, m) ==
    CASE m.serial \notin used -> m.serial
      [] m.serial \in used /\ m.row >= 0 /\ m.col >= 0 -> m.serial \o <<m.row, m.col>>
      [] m.serial \in used /\ ~(m.row >= 0 /\ m.col >= 0) -> Suffixed(used, m.serial)

\* out[key] = m
Keyed(keys, m) ==
    LET key == KeyFor(ToSet(keys), m) IN
    IF key \in ToSet(keys) THEN keys ELSE Append(keys, key)

\* The keys of make_unique_serial_map, in the order of the dict.
make_unique_serial_map(ms) ==
    LET keys[k \in 0..Len(ms)] == IF k = 0 THEN <<>> ELSE Keyed(keys[k - 1], ms[k])
    IN  keys[Len(ms)]

Loaded == {load_mines(src) : src \in Sources}
KeyLists == [ms \in Loaded \cup {<<>>} |-> make_unique_serial_map(ms)]

-----------------------------------------------------------------------------
(* The search.                                                              *)

\* The first PIN for which the digest of PIN and text has its leading zeros;
\* told apart by the text.
find_pin_for_serial(text) == [text |-> text]

\* sha256(pin + text) has the leading zeros: another text's PIN does it by
\* chance only, which is left out.
Opens(pin, text) == pin.text = text

serials == KeyLists[mines]
NoPins == [key \in {} |-> find_pin_for_serial(key)]
Idle == [w \in WorkerIds |-> 0]

PinInit ==
    /\ mines = <<>> /\ taken = 0 /\ holding = Idle /\ left = {} /\ out = {}
    /\ pins = [state |-> "absent", of |-> <<>>, entries |-> NoPins]

\* run_part2_...: out is empty and the keys are in the queue.
BeginSearch == taken' = 0 /\ holding' = Idle /\ left' = {} /\ out' = {}

\* q.get_nowait(), or the next of the loop or of the pool's tasks.
Take(w) ==
    /\ w \notin left /\ holding[w] = 0 /\ taken < Len(serials)
    /\ taken' = taken + 1
    /\ holding' = [holding EXCEPT ![w] = taken + 1]
    /\ UNCHANGED <<mines, left, out, pins>>

\* find_pin_for_serial has found one: out[sn] = pin.
Solve(w) ==
    /\ holding[w] # 0
    /\ out' = out \cup {holding[w]}
    /\ holding' = [holding EXCEPT ![w] = 0]
    /\ UNCHANGED <<mines, taken, left, pins>>

\* Empty: the thread ends.
Leave(w) ==
    /\ w \notin left /\ holding[w] = 0 /\ taken = Len(serials)
    /\ left' = left \cup {w}
    /\ UNCHANGED <<mines, taken, holding, out, pins>>
=============================================================================
