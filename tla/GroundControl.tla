---------------------------- MODULE GroundControl ----------------------------
(***************************************************************************)
(* Ground control and the rovers of 892/Lab2: rover.py --all sends rovers  *)
(* 1 to N out, one after the other or on a pool of threads.  Each calls    *)
(* ground control over gRPC for the map, for its commands in chunks, for   *)
(* the serial of a mine it stands on, to share the PIN, and to report.     *)
(* Ground control may be stopped, or be started late or again; a call then *)
(* raises, and that ends the rover's thread.                               *)
(*                                                                         *)
(* Both sides compute a PIN from the same serial by the same function, so  *)
(* every PIN is accepted (rover.py:128 is never reached): a PIN is the     *)
(* place of its mine here, and serial and ok are left out.                 *)
(***************************************************************************)
EXTENDS Integers, Sequences, FiniteSets, SequencesExt, FiniteSetsExt, Selections

CONSTANTS
    N,             \* the rovers are 1..N
    Workers,       \* --workers of the concurrent mode
    Width, Height,
    Mine, Blocked, \* the cells with M, *, X and those with #, W
    Start,         \* the cell with S
    Commands,      \* the command file of each rover, <<>> if there is none
    ChunkSize,     \* chunk_size
    MaxStops       \* bound of the model: how often ground control is stopped

Rovers == 1..N
Grid == (0..(Width - 1)) \X (0..(Height - 1))

ASSUME GroundControlAssumption ==
    /\ N \in Nat \ {0} /\ Workers \in Nat \ {0} /\ ChunkSize \in Nat \ {0}
    /\ Width \in Nat \ {0} /\ Height \in Nat \ {0} /\ MaxStops \in Nat
    /\ Mine \subseteq Grid /\ Blocked \subseteq Grid /\ Mine \cap Blocked = {}
    /\ Start \in Grid
    /\ Commands \in [Rovers -> Seq(STRING)]

VARIABLES
    mode,         \* --mode
    run,          \* rover.py: "going", "summary" printed, "raised"
    up,           \* ground control takes calls
    stops,        \* how often it was stopped
    cut,          \* rovers whose call or stream was open when it was stopped
    pin_log,      \* its pin_log
    reports,      \* the reports on its console
    pc,           \* what each rover's thread does
    received,     \* how many of its commands have arrived
    executed,     \* commands_executed
    at,           \* x, y
    direction,    \* 0 up, 1 right, 2 down, 3 left
    needs_disarm,
    exploded

control == <<up, stops, cut, pin_log, reports>>
motion == <<at, direction, needs_disarm, exploded, executed>>
vars == <<mode, run, control, pc, received, motion>>

Ended == {"done", "failed"}

Init ==
    /\ mode \in {"sequential", "concurrent"} /\ run = "going"
    /\ up \in BOOLEAN /\ stops = 0 /\ cut = {} /\ pin_log = <<>> /\ reports = {}
    /\ pc = [r \in Rovers |-> "new"]
    /\ received = [r \in Rovers |-> 0]
    /\ executed = [r \in Rovers |-> 0]
    /\ at = [r \in Rovers |-> Start]
    /\ direction = [r \in Rovers |-> 0]
    /\ needs_disarm = [r \in Rovers |-> FALSE]
    /\ exploded = [r \in Rovers |-> FALSE]

-----------------------------------------------------------------------------
(* The map.                                                                 *)

\* A plausible bug: the map is taken one cell wider than it is.
clamp_position_wide(p) ==
    <<Max({0, Min({Width, p[1]})}), Max({0, Min({Height - 1, p[2]})})>>

clamp_position(p) ==
    <<Max({0, Min({Width - 1, p[1]})}), Max({0, Min({Height - 1, p[2]})})>>

forward_delta(d) ==
    CASE d = 0 -> <<0, -1>> [] d = 1 -> <<1, 0>> [] d = 2 -> <<0, 1>> [] d = 3 -> <<-1, 0>>

\* Where M would take a rover.
Ahead(p, d) == clamp_position(<<p[1] + forward_delta(d)[1], p[2] + forward_delta(d)[2]>>)

Turned(d, cmd) == IF cmd = "L" THEN (d + 3) % 4 ELSE (d + 1) % 4

-----------------------------------------------------------------------------
(* Ground control.                                                          *)

StartGroundControl ==
    /\ ~up /\ up' = TRUE /\ pin_log' = <<>>
    /\ UNCHANGED <<mode, run, stops, cut, reports, pc, received, motion>>

cmd(r) == Commands[r][executed[r] + 1]

\* The loop goes on to its next command.
Running(r) ==
    pc[r] = "executing" /\ executed[r] < received[r] /\ ~(needs_disarm[r] /\ cmd(r) # "D")

Disarming(r) == Running(r) /\ cmd(r) = "D" /\ at[r] \in Mine

\* The rover's next step is the answer to a call.
Calling(r) ==
    \/ pc[r] \in {"mapping", "opening", "streaming", "sharing", "shared", "reporting"}
    \/ Disarming(r)

\* server.stop(2), or worse: calls that are open may be cut, streams may go on
\* for the time of grace.
Stop ==
    /\ up' = FALSE
    /\ stops < MaxStops /\ stops' = stops + 1
    /\ cut' \in {cut \cup s : s \in SUBSET {r \in Rovers : Calling(r)}}
    /\ UNCHANGED pin_log

StopGroundControl ==
    /\ up /\ Stop
    /\ UNCHANGED <<mode, run, reports, pc, received, motion>>

-----------------------------------------------------------------------------
(* A rover: run_single_rover.                                               *)

goto(r, l) == pc' = [pc EXCEPT ![r] = l]

\* The loop of run_all_sequential, or a free thread of run_all_concurrent.
StartRover(r) ==
    /\ run = "going" /\ pc[r] = "new"
    /\ \A q \in 1..(r - 1) : pc[q] # "new"
    /\ IF mode = "sequential" THEN \A q \in 1..(r - 1) : pc[q] = "done"
       ELSE Cardinality({q \in 1..(r - 1) : pc[q] \notin Ended}) < Workers
    /\ goto(r, "mapping")
    /\ UNCHANGED <<mode, run, control, received, motion>>

\* An answer of ground control comes back to r, whatever it was asked.
Answered(r) == up /\ cut' = cut \ {r} /\ UNCHANGED <<mode, run, up, stops>>

GetMap(r) ==
    /\ pc[r] = "mapping" /\ Answered(r)
    /\ goto(r, "opening")
    /\ UNCHANGED <<pin_log, reports, received, motion>>

\* The handler reads the command file; the stream is open.
StreamCommands(r) ==
    /\ pc[r] = "opening" /\ Answered(r)
    /\ goto(r, "streaming")
    /\ UNCHANGED <<pin_log, reports, received, motion>>

Chunk(r) ==
    /\ pc[r] = "streaming" /\ received[r] < Len(Commands[r])
    /\ received' = [received EXCEPT ![r] = Min({@ + ChunkSize, Len(Commands[r])})]
    /\ UNCHANGED <<mode, run, control, pc, motion>>

\* is_last
LastChunk(r) ==
    /\ pc[r] = "streaming" /\ received[r] = Len(Commands[r])
    /\ goto(r, "executing")
    /\ cut' = cut \ {r}
    /\ UNCHANGED <<mode, run, up, stops, pin_log, reports, received, motion>>

Count(r) == executed' = [executed EXCEPT ![r] = @ + 1]

Explode(r) ==
    /\ pc[r] = "executing" /\ executed[r] < received[r]
    /\ needs_disarm[r] /\ cmd(r) # "D"
    /\ exploded' = [exploded EXCEPT ![r] = TRUE]
    /\ goto(r, "reporting")
    /\ UNCHANGED <<mode, run, control, received, at, direction, needs_disarm, executed>>

Turn(r) ==
    /\ Running(r) /\ cmd(r) \in {"L", "R"}
    /\ direction' = [direction EXCEPT ![r] = Turned(@, cmd(r))]
    /\ Count(r)
    /\ UNCHANGED <<mode, run, control, pc, received, at, needs_disarm, exploded>>

\* A plausible bug: only a rover that gets to another cell looks for a mine.
MoveOff(r) ==
    /\ Running(r) /\ cmd(r) = "M"
    /\ LET there == Ahead(at[r], direction[r]) IN
       IF there \in Blocked THEN UNCHANGED <<at, needs_disarm>>
       ELSE /\ at' = [at EXCEPT ![r] = there]
            /\ needs_disarm' = [needs_disarm EXCEPT ![r] = @ \/ there \in Mine \ {at[r]}]
    /\ Count(r)
    /\ UNCHANGED <<mode, run, control, pc, received, direction, exploded>>

Move(r) ==
    /\ Running(r) /\ cmd(r) = "M"
    /\ LET there == Ahead(at[r], direction[r]) IN
       IF there \in Blocked THEN UNCHANGED <<at, needs_disarm>>
       ELSE /\ at' = [at EXCEPT ![r] = there]
            /\ needs_disarm' = [needs_disarm EXCEPT ![r] = @ \/ there \in Mine]
    /\ Count(r)
    /\ UNCHANGED <<mode, run, control, pc, received, direction, exploded>>

\* D away from a mine, or a character that is no command.
Skip(r) ==
    /\ Running(r) /\ ~Disarming(r) /\ cmd(r) \notin {"L", "R", "M"}
    /\ needs_disarm' = [needs_disarm EXCEPT ![r] = @ /\ cmd(r) # "D"]
    /\ Count(r)
    /\ UNCHANGED <<mode, run, control, pc, received, at, direction, exploded>>

GetMineSerial(r) ==
    /\ Disarming(r) /\ Answered(r)
    /\ goto(r, "sharing")
    /\ UNCHANGED <<pin_log, reports, received, motion>>

\* A plausible bug: a mine whose PIN is known is not logged again.
ShareMinePinOnce(r) ==
    /\ pc[r] = "sharing" /\ up
    /\ pin_log' = IF \E i \in DOMAIN pin_log : pin_log[i].at = at[r] THEN pin_log
                  ELSE Append(pin_log, [rover |-> r, at |-> at[r]])
    /\ goto(r, "shared")
    /\ UNCHANGED <<mode, run, up, stops, cut, reports, received, motion>>

\* The handler logs the PIN; its answer is on the way.
ShareMinePin(r) ==
    /\ pc[r] = "sharing" /\ up
    /\ pin_log' = Append(pin_log, [rover |-> r, at |-> at[r]])
    /\ goto(r, "shared")
    /\ UNCHANGED <<mode, run, up, stops, cut, reports, received, motion>>

\* The answer reaches the rover, unless it was lost with the ground control
\* that gave it: that one may have been stopped meanwhile.
Acknowledged(r) ==
    /\ pc[r] = "shared" /\ r \notin cut
    /\ needs_disarm' = [needs_disarm EXCEPT ![r] = FALSE]
    /\ Count(r)
    /\ goto(r, "executing")
    /\ UNCHANGED <<mode, run, control, received, at, direction, exploded>>

\* The loop is over.
Finish(r) ==
    /\ pc[r] = "executing" /\ executed[r] = received[r]
    /\ goto(r, "reporting")
    /\ UNCHANGED <<mode, run, control, received, motion>>

\* success and what else the report says.
Report(r) ==
    reports' = reports \cup
        {[rover |-> r, exploded |-> exploded[r], executed |-> executed[r], at |-> at[r],
          success |-> ~exploded[r] /\ executed[r] = received[r]]}

ReportExecution(r) ==
    /\ pc[r] = "reporting" /\ Answered(r)
    /\ Report(r)
    /\ goto(r, "done")
    /\ UNCHANGED <<pin_log, received, motion>>

\* The report is printed, and ground control stops before its answer is out.
ReportUnanswered(r) ==
    /\ pc[r] = "reporting" /\ up
    /\ Report(r) /\ Stop
    /\ goto(r, "failed")
    /\ UNCHANGED <<mode, run, received, motion>>

\* A plausible bug: calls wait until ground control is there (wait_for_ready).
CallWaits(r) ==
    /\ Calling(r) /\ r \in cut
    /\ goto(r, "failed")
    /\ cut' = cut \ {r}
    /\ UNCHANGED <<mode, run, up, stops, pin_log, reports, received, motion>>

\* A call raises.
CallFails(r) ==
    /\ Calling(r)
    /\ r \in cut \/ (~up /\ pc[r] # "streaming")
    /\ goto(r, "failed")
    /\ cut' = cut \ {r}
    /\ UNCHANGED <<mode, run, up, stops, pin_log, reports, received, motion>>

-----------------------------------------------------------------------------
(* rover.py: the end of the run.                                            *)

\* A plausible bug: what fut.result raises is dropped.
SummarizeAnyway ==
    /\ run = "going" /\ \A r \in Rovers : pc[r] \in Ended
    /\ run' = "summary"
    /\ UNCHANGED <<mode, control, pc, received, motion>>

Summarize ==
    /\ run = "going" /\ \A r \in Rovers : pc[r] = "done"
    /\ run' = "summary"
    /\ UNCHANGED <<mode, control, pc, received, motion>>

\* fut.result raises what a thread raised, and the pool waits for the others.
Raise ==
    /\ run = "going" /\ \E r \in Rovers : pc[r] = "failed"
    /\ mode = "sequential" \/ \A r \in Rovers : pc[r] \in Ended
    /\ run' = "raised"
    /\ UNCHANGED <<mode, control, pc, received, motion>>

Execute(r) ==
    \/ Explode(r) \/ Turn(r) \/ Move(r) \/ Skip(r) \/ Finish(r)

Call(r) ==
    \/ GetMap(r) \/ StreamCommands(r) \/ Chunk(r) \/ LastChunk(r)
    \/ GetMineSerial(r) \/ ShareMinePin(r) \/ Acknowledged(r)
    \/ ReportExecution(r) \/ CallFails(r)

run_single_rover(r) == StartRover(r) \/ Call(r) \/ Execute(r)

Next ==
    \/ StartGroundControl \/ StopGroundControl \/ Summarize \/ Raise
    \/ \E r \in Rovers : run_single_rover(r) \/ ReportUnanswered(r)

Spec == Init /\ [][Next]_vars

\* The threads of rover.py are scheduled and calls are answered or raise;
\* nobody is bound to start ground control.
FairSpec ==
    /\ Spec /\ WF_vars(Summarize \/ Raise)
    /\ \A r \in Rovers : WF_vars(run_single_rover(r))

-----------------------------------------------------------------------------
(* Properties.                                                              *)

Pin == [rover : Rovers, at : Mine]

\* Every variable has its type; a rover stays on the map and is on no blocked
\* cell but the one it may have started from, and it is to disarm only where it
\* stands on a mine.
TypeOK ==
    /\ mode \in {"sequential", "concurrent"} /\ run \in {"going", "summary", "raised"}
    /\ up \in BOOLEAN /\ stops \in 0..MaxStops /\ cut \subseteq Rovers
    /\ pin_log \in Seq(Pin)
    /\ reports \subseteq [rover : Rovers, exploded : BOOLEAN, executed : Nat,
                          at : Grid, success : BOOLEAN]
    /\ pc \in [Rovers -> {"new", "mapping", "opening", "streaming", "executing", "sharing",
                          "shared", "reporting", "done", "failed"}]
    /\ received \in [Rovers -> Nat] /\ executed \in [Rovers -> Nat]
    /\ \A r \in Rovers : received[r] <= Len(Commands[r]) /\ executed[r] <= Len(Commands[r])
    /\ at \in [Rovers -> Grid] /\ \A r \in Rovers : at[r] \in Blocked => at[r] = Start
    /\ direction \in [Rovers -> 0..3]
    /\ needs_disarm \in [Rovers -> BOOLEAN] /\ exploded \in [Rovers -> BOOLEAN]
    /\ \A r \in Rovers : needs_disarm[r] => at[r] \in Mine

\* Where r is after its first k commands if no mine stops it.
Course(r) ==
    LET pose[k \in 0..Len(Commands[r])] ==
            IF k = 0 THEN [at |-> Start, to |-> 0]
            ELSE LET p == pose[k - 1]
                     c == Commands[r][k]
                     there == Ahead(p.at, p.to)
                 IN  [at |-> IF c = "M" /\ there \notin Blocked THEN there ELSE p.at,
                      to |-> IF c \in {"L", "R"} THEN Turned(p.to, c) ELSE p.to]
    IN  pose

\* The k-th command takes r onto a mine, or keeps it there at the map's edge,
\* and the next one, if any, is not D.
Careless(r) ==
    {k \in 1..(Len(Commands[r]) - 1) :
        /\ Commands[r][k] = "M" /\ Commands[r][k + 1] # "D"
        /\ LET p == Course(r)[k - 1] IN Ahead(p.at, p.to) \in Mine}

Survived(r) == IF Careless(r) = {} THEN Len(Commands[r]) ELSE Min(Careless(r))

\* A report tells what the rover's program does on this map, however the rover
\* was scheduled, whatever the others did and whichever ground control it met:
\* how far it got, where, and that it exploded exactly at the first mine that
\* it left armed.
ReportsTrue ==
    \A rep \in reports :
        /\ rep.executed = Survived(rep.rover)
        /\ rep.at = Course(rep.rover)[rep.executed].at
        /\ rep.exploded <=> Careless(rep.rover) # {}
        /\ rep.success <=> ~rep.exploded

\* The mines that r has disarmed after k commands, in order.
Disarmed(r, k) ==
    Kept([i \in 1..k |-> Course(r)[i].at],
         {i \in 1..k : Commands[r][i] = "D" /\ Course(r)[i].at \in Mine})

LogOf(r) ==
    Kept([i \in DOMAIN pin_log |-> pin_log[i].at], {i \in DOMAIN pin_log : pin_log[i].rover = r})

\* How many commands of r ground control has seen through: one more than r
\* has counted if it has logged a PIN and its answer has not arrived, and one of
\* both if a call of r has failed.
Taken(r) ==
    CASE pc[r] = "shared" -> {executed[r] + 1}
      [] pc[r] = "failed" -> {executed[r], executed[r] + 1} \cap 0..Len(Commands[r])
      [] OTHER            -> {executed[r]}

\* For each rover the PIN log has the mines it has disarmed so far, in order,
\* none missing and none twice, however the calls of the others fall between;
\* a ground control that was started later has the last of them.
PinsLogged ==
    \A r \in Rovers : \E k \in Taken(r) :
        IF stops = 0 THEN LogOf(r) = Disarmed(r, k) ELSE IsSuffix(LogOf(r), Disarmed(r, k))

\* A summary is printed only if every rover has reported, each once; a run
\* that raises has left no thread behind, and no rover that started is without
\* a report unless it is the one whose call failed.
SummaryWhole ==
    /\ run = "summary" => \A r \in Rovers : \E rep \in reports : rep.rover = r
    /\ run # "going" => \A r \in Rovers :
         /\ pc[r] \in Ended \/ (pc[r] = "new" /\ mode = "sequential")
         /\ pc[r] = "done" => \E rep \in reports : rep.rover = r
    /\ \A p, q \in reports : p.rover = q.rover => p = q

\* The run ends, whether or not there is a ground control.
RunEnds == <>(run # "going")
=============================================================================
