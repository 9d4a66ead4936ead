--------------------------- MODULE DeminePipeline ---------------------------
(***************************************************************************)
(* The demining pipeline of 892/Lab3: rovers walk the map that ground      *)
(* control serves and publish a task for each mine they step on; deminers  *)
(* take tasks from the RabbitMQ queue Demine-Queue, defuse, and publish a  *)
(* result to the exchange Defused-Mines; a thread of ground control writes *)
(* the results that reach its queue Defused-Mines-Log to a file.           *)
(*                                                                         *)
(* The broker is external: durable queues, messages handed to one consumer *)
(* and requeued when its connection ends before the acknowledgement, and a *)
(* fanout exchange that drops what it has no queue for.                    *)
(***************************************************************************)
EXTENDS Integers, Sequences, FiniteSets, SequencesExt

CONSTANTS
    Rovers,    \* runs of rover.py: one that is run twice is two of them
    Deminers,  \* deminer ids
    Width, Height,
    Cell,      \* the map: what stands at <<x, y>>
    Commands,  \* the tokens of each rover's command file
    Start,     \* --start_x, --start_y of each rover
    MaxFaults  \* bound of the model: processes killed, brokers removed, lines not written

Grid == (0..(Width - 1)) \X (0..(Height - 1))

Digs == {"D", "DIG", "DIGGING"}

\* What ground control streams to each rover: its file without the digs.
load_commands_for_rover ==
    [r \in Rovers |-> SelectSeq(Commands[r], LAMBDA c : c \notin Digs)]

ASSUME PipelineAssumption ==
    /\ Width \in Nat /\ Height \in Nat /\ MaxFaults \in Nat
    /\ DOMAIN Cell = Grid
    /\ load_commands_for_rover \in [Rovers -> Seq(STRING)]
    /\ Start \in [Rovers -> Int \X Int]

VARIABLES
    mq,        \* the broker's container
    tasks,     \* Demine-Queue: the tasks that no deminer holds
    bound,     \* Defused-Mines-Log exists and is bound to the exchange
    results,   \* Defused-Mines-Log: what the listener has not acknowledged
    dropped,   \* tasks whose result the exchange had no queue for, or that
               \* were in a broker that was removed
    gc,        \* the ground control process
    listener,  \* its thread rabbitmq_defused_listener
    log,       \* output/defused_mines.log
    pc,        \* what each rover does
    at,        \* x, y of each rover
    stream,    \* the commands that each rover has still to be sent
    cut,       \* rovers whose stream ended with a ground control
    reported,  \* reported of each rover
    deminer,   \* what each deminer does
    held,      \* the task, if any, that each deminer has not acknowledged
    faults     \* how many faults there were

broker == <<mq, tasks, bound, results, dropped>>
control == <<gc, listener, log>>
rover == <<pc, at, stream, cut, reported>>
squad == <<deminer, held>>
vars == <<broker, control, rover, squad, faults>>

Task == [rover : Rovers, at : Grid]

Init ==
    /\ mq = "absent" /\ tasks = <<>> /\ bound = FALSE /\ results = <<>>
    /\ dropped = {}
    /\ gc = "down" /\ listener = "none" /\ log = <<>>
    /\ pc = [r \in Rovers |-> "new"]
    /\ at = Start
    /\ stream = [r \in Rovers |-> <<>>]
    /\ cut = {}
    /\ reported = [r \in Rovers |-> {}]
    /\ deminer = [d \in Deminers |-> "down"]
    /\ held = [d \in Deminers |-> <<>>]
    /\ faults = 0

-----------------------------------------------------------------------------
(* The broker (start_rabbitmq.sh, stop_rabbitmq.sh): the container runs     *)
(* some time before it takes connections.                                   *)

start_rabbitmq ==
    /\ mq = "absent" /\ mq' = "booting"
    /\ UNCHANGED <<tasks, bound, results, dropped, control, rover, squad, faults>>

BrokerReady ==
    /\ mq = "booting" /\ mq' = "up"
    /\ UNCHANGED <<tasks, bound, results, dropped, control, rover, squad, faults>>

InHands == UNION {ToSet(held[d]) : d \in Deminers}

\* docker rm -f, also by start_rabbitmq.sh run again: queues and bindings go
\* with the container.  A deminer ends when its connection does; the listener
\* may still write the line it is about to, and its acknowledgement raises.
RemoveBroker ==
    /\ faults < MaxFaults /\ mq # "absent"
    /\ mq' = "absent" /\ bound' = FALSE /\ tasks' = <<>> /\ results' = <<>>
    /\ dropped' = dropped \cup ToSet(tasks) \cup ToSet(results) \cup InHands
    /\ deminer' = [d \in Deminers |-> "down"] /\ held' = [d \in Deminers |-> <<>>]
    /\ listener' = IF listener \in {"consuming", "written"} THEN "dead" ELSE listener
    /\ \/ UNCHANGED log
       \/ listener = "consuming" /\ results # <<>> /\ log' = Append(log, Head(results))
    /\ faults' = faults + 1
    /\ UNCHANGED <<gc, rover>>

-----------------------------------------------------------------------------
(* Ground control.                                                          *)

StartGroundControl ==
    /\ gc = "down"
    /\ gc' = "starting" /\ listener' = "connecting"
    /\ UNCHANGED <<broker, log, rover, squad, faults>>

ServerStarts ==
    /\ gc = "starting" /\ gc' = "serving"
    /\ UNCHANGED <<broker, listener, log, rover, squad, faults>>

\* No connection: the exception ends the thread, and the service goes on.
ListenerConnects ==
    /\ listener = "connecting"
    /\ IF mq = "up" THEN listener' = "consuming" /\ bound' = TRUE
                    ELSE listener' = "dead" /\ UNCHANGED bound
    /\ UNCHANGED <<mq, tasks, results, dropped, gc, log, rover, squad, faults>>

\* on_msg, up to its basic_ack.
WriteLine ==
    /\ listener = "consuming" /\ results # <<>>
    /\ log' = Append(log, Head(results))
    /\ listener' = "written"
    /\ UNCHANGED <<broker, gc, rover, squad, faults>>

\* A plausible bug: the handler ends without basic_ack.
AckLineForgotten == FALSE /\ UNCHANGED vars

AckLine ==
    /\ listener = "written"
    /\ results' = Tail(results)
    /\ listener' = "consuming"
    /\ UNCHANGED <<mq, tasks, bound, dropped, gc, log, rover, squad, faults>>

\* The file cannot be written: the exception ends the thread.
WriteFails ==
    /\ faults < MaxFaults
    /\ listener = "consuming" /\ results # <<>>
    /\ listener' = "dead"
    /\ faults' = faults + 1
    /\ UNCHANGED <<broker, gc, log, rover, squad>>

KillGroundControl ==
    /\ faults < MaxFaults /\ gc # "down"
    /\ gc' = "down" /\ listener' = "none"
    /\ cut' = cut \cup {r \in Rovers : pc[r] \in {"roving", "asking", "publishing"}}
    /\ faults' = faults + 1
    /\ UNCHANGED <<broker, log, pc, at, stream, reported, squad>>

-----------------------------------------------------------------------------
(* A rover.                                                                 *)

normalize_command(c) ==
    CASE c \in {"NORTH", "UP", "U"} -> "N"
      [] c \in {"SOUTH", "DOWN"} -> "S"
      [] c \in {"WEST", "LEFT", "L"} -> "W"
      [] c \in {"EAST", "RIGHT", "R"} -> "E"
      [] OTHER -> c

\* A plausible bug: the far edges are tested with one too many.
move_xy_past(p, c) ==
    LET q == CASE c = "N" -> <<p[1], p[2] - 1>> [] c = "S" -> <<p[1], p[2] + 1>>
               [] c = "W" -> <<p[1] - 1, p[2]>> [] c = "E" -> <<p[1] + 1, p[2]>>
               [] OTHER -> p
    IN  IF q[1] \in 0..Width /\ q[2] \in 0..Height THEN q ELSE p

move_xy(p, c) ==
    LET q == CASE c = "N" -> <<p[1], p[2] - 1>> [] c = "S" -> <<p[1], p[2] + 1>>
               [] c = "W" -> <<p[1] - 1, p[2]>> [] c = "E" -> <<p[1] + 1, p[2]>>
               [] OTHER -> p
    IN  IF q \in Grid THEN q ELSE p

HasMine(p) == p \in Grid /\ Cell[p] \notin {"", "0", ".", "EMPTY"}

\* GetMap and GetCommandStream; without ground control the call raises.
StartRover(r) ==
    /\ pc[r] = "new"
    /\ IF gc = "serving"
       THEN /\ pc' = [pc EXCEPT ![r] = "roving"]
            /\ stream' = [stream EXCEPT ![r] = load_commands_for_rover[r]]
       ELSE pc' = [pc EXCEPT ![r] = "failed"] /\ UNCHANGED stream
    /\ UNCHANGED <<broker, control, at, cut, reported, squad, faults>>

\* A plausible bug: what was reported is not looked at.
StepAgain(r) ==
    /\ pc[r] = "roving" /\ stream[r] # <<>>
    /\ stream' = [stream EXCEPT ![r] = Tail(@)]
    /\ at' = [at EXCEPT ![r] = move_xy(@, normalize_command(Head(stream[r])))]
    /\ pc' = [pc EXCEPT ![r] = IF HasMine(at'[r]) THEN "asking" ELSE "roving"]
    /\ UNCHANGED <<broker, control, cut, reported, squad, faults>>

\* One turn of the loop, up to the call for the serial number.
Step(r) ==
    /\ pc[r] = "roving" /\ stream[r] # <<>>
    /\ stream' = [stream EXCEPT ![r] = Tail(@)]
    /\ at' = [at EXCEPT ![r] = move_xy(@, normalize_command(Head(stream[r])))]
    /\ pc' = [pc EXCEPT ![r] = IF HasMine(at'[r]) /\ at'[r] \notin reported[r]
                               THEN "asking" ELSE "roving"]
    /\ UNCHANGED <<broker, control, cut, reported, squad, faults>>

GetMineSerialNumber(r) ==
    /\ pc[r] = "asking"
    /\ pc' = [pc EXCEPT ![r] = IF gc = "serving" THEN "publishing" ELSE "failed"]
    /\ UNCHANGED <<broker, control, at, stream, cut, reported, squad, faults>>

\* A plausible bug: the mine is not marked as reported.
publish_task_unmarked(r) ==
    /\ pc[r] = "publishing"
    /\ IF mq = "up"
       THEN /\ tasks' = Append(tasks, [rover |-> r, at |-> at[r]])
            /\ pc' = [pc EXCEPT ![r] = "roving"]
       ELSE pc' = [pc EXCEPT ![r] = "failed"] /\ UNCHANGED tasks
    /\ UNCHANGED <<mq, bound, results, dropped, control, at, stream, cut, reported, squad, faults>>

\* publish_task and reported.add; without a broker the connection raises.
publish_task(r) ==
    /\ pc[r] = "publishing"
    /\ IF mq = "up"
       THEN /\ tasks' = Append(tasks, [rover |-> r, at |-> at[r]])
            /\ reported' = [reported EXCEPT ![r] = @ \cup {at[r]}]
            /\ pc' = [pc EXCEPT ![r] = "roving"]
       ELSE pc' = [pc EXCEPT ![r] = "failed"] /\ UNCHANGED <<tasks, reported>>
    /\ UNCHANGED <<mq, bound, results, dropped, control, at, stream, cut, squad, faults>>

\* The stream is over, or it broke after some of its commands were read.
Finish(r) ==
    /\ pc[r] = "roving"
    /\ \/ stream[r] = <<>> /\ pc' = [pc EXCEPT ![r] = "done"]
       \/ r \in cut /\ pc' = [pc EXCEPT ![r] = "failed"]
    /\ UNCHANGED <<broker, control, at, stream, cut, reported, squad, faults>>

-----------------------------------------------------------------------------
(* A deminer.  It takes one task at a time (prefetch_count=1).              *)

\* Without a broker the process ends at once: nothing changes.
StartDeminer(d) ==
    /\ deminer[d] = "down" /\ mq = "up"
    /\ deminer' = [deminer EXCEPT ![d] = "idle"]
    /\ UNCHANGED <<broker, control, rover, held, faults>>

TakeTask(d) ==
    /\ deminer[d] = "idle" /\ tasks # <<>>
    /\ tasks' = Tail(tasks)
    /\ held' = [held EXCEPT ![d] = <<Head(tasks)>>]
    /\ deminer' = [deminer EXCEPT ![d] = "working"]
    /\ UNCHANGED <<mq, bound, results, dropped, control, rover, faults>>

\* on_task: the result goes to the exchange.
PublishResult(d) ==
    /\ deminer[d] = "working"
    /\ IF bound THEN results' = results \o held[d] /\ UNCHANGED dropped
                ELSE dropped' = dropped \cup ToSet(held[d]) /\ UNCHANGED results
    /\ deminer' = [deminer EXCEPT ![d] = "published"]
    /\ UNCHANGED <<mq, tasks, bound, control, rover, held, faults>>

AckTask(d) ==
    /\ deminer[d] = "published"
    /\ held' = [held EXCEPT ![d] = <<>>]
    /\ deminer' = [deminer EXCEPT ![d] = "idle"]
    /\ UNCHANGED <<broker, control, rover, faults>>

\* A plausible bug: auto_ack, so the broker has forgotten the task.
KillDeminerAutoAck(d) ==
    /\ faults < MaxFaults /\ deminer[d] # "down"
    /\ held' = [held EXCEPT ![d] = <<>>]
    /\ deminer' = [deminer EXCEPT ![d] = "down"]
    /\ faults' = faults + 1
    /\ UNCHANGED <<broker, control, rover>>

\* The process is killed; a task that it holds goes back to the queue.
KillDeminer(d) ==
    /\ faults < MaxFaults /\ deminer[d] # "down"
    /\ tasks' = held[d] \o tasks
    /\ held' = [held EXCEPT ![d] = <<>>]
    /\ deminer' = [deminer EXCEPT ![d] = "down"]
    /\ faults' = faults + 1
    /\ UNCHANGED <<mq, bound, results, dropped, control, rover>>

-----------------------------------------------------------------------------
Listen == ListenerConnects \/ WriteLine \/ AckLine

Rove(r) == Step(r) \/ GetMineSerialNumber(r) \/ publish_task(r) \/ Finish(r)

Demine(d) == TakeTask(d) \/ PublishResult(d) \/ AckTask(d)

Next ==
    \/ start_rabbitmq \/ BrokerReady \/ RemoveBroker
    \/ StartGroundControl \/ ServerStarts \/ Listen \/ WriteFails \/ KillGroundControl
    \/ \E r \in Rovers : StartRover(r) \/ Rove(r)
    \/ \E d \in Deminers : StartDeminer(d) \/ Demine(d) \/ KillDeminer(d)

Spec == Init /\ [][Next]_vars

\* What runs is scheduled, and a delivery that waits is made; nobody is bound
\* to start a process.
FairSpec ==
    /\ Spec /\ WF_vars(Listen)
    /\ \A r \in Rovers : WF_vars(Rove(r))
    /\ \A d \in Deminers : WF_vars(Demine(d))

-----------------------------------------------------------------------------
(* Properties.                                                              *)

BrokerTypeOK ==
    /\ mq \in {"absent", "booting", "up"} /\ bound \in BOOLEAN
    /\ tasks \in Seq(Task) /\ results \in Seq(Task) /\ dropped \subseteq Task

ControlTypeOK ==
    /\ gc \in {"down", "starting", "serving"} /\ log \in Seq(Task)
    /\ listener \in {"none", "connecting", "consuming", "written", "dead"}
    /\ listener = "written" => results # <<>>

RoverTypeOK ==
    /\ pc \in [Rovers -> {"new", "roving", "asking", "publishing", "done", "failed"}]
    /\ at \in [Rovers -> Int \X Int]
    /\ \A r \in Rovers : at[r] \in Grid \cup {Start[r]}
    /\ stream \in [Rovers -> Seq(STRING)]
    /\ cut \subseteq Rovers
    /\ reported \in [Rovers -> SUBSET Grid]

SquadTypeOK ==
    /\ deminer \in [Deminers -> {"down", "idle", "working", "published"}]
    /\ held \in [Deminers -> Seq(Task)]
    /\ \A d \in Deminers :
         IF deminer[d] \in {"working", "published"}
         THEN \E t \in Task : held[d] = <<t>> ELSE held[d] = <<>>

\* Every variable has its type; a rover never leaves the map it started on,
\* a deminer has a task exactly while it handles one, and the listener a line.
TypeOK ==
    BrokerTypeOK /\ ControlTypeOK /\ RoverTypeOK /\ SquadTypeOK /\ faults \in 0..MaxFaults

Waits(t) == t \in ToSet(tasks) \/ \E d \in Deminers : t \in ToSet(held[d])

Told(t) == t \in ToSet(results) \cup ToSet(log) \cup dropped

\* A mine that a rover has reported is never forgotten, whoever is killed and
\* whenever: its task waits, or a deminer holds it, or its result was given
\* to the exchange (which drops it only while no log queue is bound); all but
\* the log is lost with a broker that is removed, and nothing else.
NoMineForgotten ==
    \A r \in Rovers : \A p \in reported[r] :
        LET t == [rover |-> r, at |-> p] IN Waits(t) \/ Told(t)

Count(s, t) == Cardinality({k \in DOMAIN s : s[k] = t})

\* The log lines of a task, those to come of published results included.
Lines(t) ==
    Count(log, t) + Count(results, t)
      - (IF listener = "written" /\ Head(results) = t THEN 1 ELSE 0)

\* A mine is logged again for the same rover only on account of a process
\* killed (a broker removed) between publishing or writing and acknowledging.
RepeatsTellFaults ==
    \A t \in Task : Lines(t) <= 1 + faults

\* A rover's mine stands once in the task queue or is in one deminer's hands:
\* no two deminers ever work at it at once.
OneDeminerPerTask ==
    /\ IsInjective(tasks)
    /\ \A d \in Deminers : \A t \in ToSet(held[d]) :
         /\ t \notin ToSet(tasks)
         /\ \A e \in Deminers \ {d} : t \notin ToSet(held[e])

\* Once a deminer and the listener run on, every reported mine comes to be
\* logged, unless its result was published before the log queue was bound or
\* the broker was removed with it.
ReportsAreLogged ==
    /\ <>[](\E d \in Deminers : deminer[d] # "down")
    /\ <>[](listener \in {"consuming", "written"})
    => \A t \in {u \in Task : HasMine(u.at)} :
         t.at \in reported[t.rover] ~> t \in ToSet(log) \cup dropped
=============================================================================
