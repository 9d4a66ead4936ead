--------------------------- MODULE DeminingProofs ---------------------------
(***************************************************************************)
(* Theorems about the demining pipeline, for any rovers, deminers, map,    *)
(* command files and number of faults.                                     *)
(***************************************************************************)
EXTENDS DeminePipeline, DataLemmas, FiniteSetTheorems

-----------------------------------------------------------------------------
(* The inductive invariant.  A task that a deminer has published, and one    *)
(* whose line the listener has written, are told already, so that the        *)
(* acknowledgement which follows loses nothing; what waits in the queue or   *)
(* in a deminer's hands is marked as reported, and a rover that is about to  *)
(* report stands on a mine that is not.                                      *)

PublishedTold ==
    \A d \in Deminers : deminer[d] = "published" => \A t \in ToSet(held[d]) : Told(t)

WrittenLogged == listener = "written" => Head(results) \in ToSet(log)

WaitingReported == \A t \in Task : Waits(t) => t.at \in reported[t.rover]

FreshReports ==
    \A r \in Rovers : pc[r] \in {"asking", "publishing"} => at[r] \in Grid \ reported[r]

Inv ==
    /\ TypeOK /\ NoMineForgotten /\ OneDeminerPerTask
    /\ PublishedTold /\ WrittenLogged /\ WaitingReported /\ FreshReports

LEMMA InitInv == Init => Inv
  <1> SUFFICES ASSUME Init PROVE Inv
    OBVIOUS
  <1>1. ToSet(tasks) = {} /\ \A d \in Deminers : ToSet(held[d]) = {}
    BY DEF Init, ToSet
  <1>2. TypeOK
    <2>1. at \in [Rovers -> Int \X Int] /\ \A r \in Rovers : at[r] \in Grid \cup {Start[r]}
      BY PipelineAssumption DEF Init
    <2>2. faults \in 0..MaxFaults
      BY PipelineAssumption DEF Init
    <2>3. BrokerTypeOK /\ ControlTypeOK
      <3>1. tasks \in Seq(Task) /\ results \in Seq(Task) /\ log \in Seq(Task)
        BY EmptySeq DEF Init
      <3>2. BrokerTypeOK
        BY <3>1 DEF Init, BrokerTypeOK
      <3> QED BY <3>1, <3>2 DEF Init, ControlTypeOK
    <2>4. RoverTypeOK
      BY <2>1 DEF Init, RoverTypeOK
    <2>5. SquadTypeOK
      <3>1. <<>> \in Seq(Task)
        BY EmptySeq
      <3>2. /\ deminer = [d \in Deminers |-> "down"] /\ held = [d \in Deminers |-> <<>>]
        BY DEF Init
      <3> QED BY <3>1, <3>2 DEF SquadTypeOK
    <2> QED BY <2>2, <2>3, <2>4, <2>5 DEF TypeOK
  <1>3. OneDeminerPerTask
    BY <1>1 DEF Init, OneDeminerPerTask, IsInjective
  <1>4. NoMineForgotten /\ PublishedTold /\ WrittenLogged /\ WaitingReported /\ FreshReports
    BY <1>1 DEF Init, NoMineForgotten, PublishedTold, WrittenLogged, WaitingReported,
                FreshReports, Waits
  <1> QED BY <1>2, <1>3, <1>4 DEF Inv

\* A step that leaves the task queue, the deminers and the reports alone, and
\* takes nothing back of what was told, keeps what is said of tasks.
LEMMA TasksKept ==
    ASSUME Inv, UNCHANGED <<tasks, deminer, held, reported>>,
           \A t \in Task : Told(t) => Told(t)'
    PROVE  (NoMineForgotten /\ OneDeminerPerTask /\ PublishedTold /\ WaitingReported)'
  <1>1. \A t : Waits(t)' <=> Waits(t)
    BY DEF Waits
  <1>2. NoMineForgotten'
    <2> SUFFICES ASSUME NEW r \in Rovers, NEW p \in reported[r]
                 PROVE  LET t == [rover |-> r, at |-> p] IN Waits(t) \/ Told(t)'
      BY <1>1 DEF NoMineForgotten
    <2>1. [rover |-> r, at |-> p] \in Task
      BY DEF Inv, TypeOK, RoverTypeOK, Task
    <2> QED BY <2>1 DEF Inv, NoMineForgotten
  <1>3. OneDeminerPerTask'
    BY DEF Inv, OneDeminerPerTask
  <1>4. PublishedTold'
    <2> SUFFICES ASSUME NEW d \in Deminers, deminer[d] = "published", NEW t \in ToSet(held[d])
                 PROVE  Told(t)'
      BY DEF PublishedTold
    <2>1. t \in Task
      BY DEF Inv, TypeOK, SquadTypeOK, ToSet
    <2> QED BY <2>1 DEF Inv, PublishedTold
  <1>5. WaitingReported'
    BY <1>1 DEF Inv, WaitingReported
  <1> QED BY <1>2, <1>3, <1>4, <1>5

-----------------------------------------------------------------------------
(* The steps of the broker and of ground control.                           *)

LEMMA ControlInv ==
    ASSUME Inv,
           \/ start_rabbitmq \/ BrokerReady \/ StartGroundControl \/ ServerStarts
           \/ Listen \/ WriteFails \/ KillGroundControl
    PROVE  Inv'
  <1>1. UNCHANGED <<tasks, deminer, held, reported, pc, at, stream, dropped>>
    BY DEF start_rabbitmq, BrokerReady, StartGroundControl, ServerStarts, Listen,
           ListenerConnects, WriteLine, AckLine, WriteFails, KillGroundControl,
           broker, control, rover, squad
  <1>2. (ToSet(results) \cup ToSet(log))' = ToSet(results) \cup ToSet(log)
        /\ (TypeOK /\ WrittenLogged)'
    <2>1. CASE WriteLine
      <3>1. /\ Head(results) \in Task /\ Head(results) \in ToSet(results)
            /\ log' \in Seq(Task) /\ ToSet(log') = ToSet(log) \cup {Head(results)}
        BY <2>1, TailElements, AppendElements DEF WriteLine, Inv, TypeOK, BrokerTypeOK, ControlTypeOK
      <3>2. results' = results /\ UNCHANGED <<mq, bound, gc, rover, faults>>
            /\ listener' = "written" /\ results # <<>>
        BY <2>1 DEF WriteLine, broker
      <3>3. WrittenLogged'
        BY <3>1, <3>2 DEF WrittenLogged
      <3>4. TypeOK'
        BY <1>1, <3>1, <3>2 DEF Inv, TypeOK, BrokerTypeOK, ControlTypeOK, RoverTypeOK,
                               SquadTypeOK, rover
      <3> QED BY <3>1, <3>2, <3>3, <3>4
    <2>2. CASE AckLine
      <3>1. results # <<>> /\ Head(results) \in ToSet(log)
        BY <2>2 DEF AckLine, Inv, TypeOK, ControlTypeOK, WrittenLogged
      <3>2. /\ results' \in Seq(Task)
            /\ ToSet(results) = {Head(results)} \cup ToSet(results')
        BY <2>2, <3>1, TailElements DEF AckLine, Inv, TypeOK, BrokerTypeOK
      <3>3. log' = log /\ UNCHANGED <<mq, bound, gc, rover, faults>> /\ listener' = "consuming"
        BY <2>2 DEF AckLine
      <3>4. TypeOK'
        BY <1>1, <3>2, <3>3 DEF Inv, TypeOK, BrokerTypeOK, ControlTypeOK, RoverTypeOK,
                               SquadTypeOK, rover
      <3> QED BY <3>1, <3>2, <3>3, <3>4 DEF WrittenLogged
    <2>3. CASE start_rabbitmq \/ BrokerReady
      <3>1. /\ UNCHANGED <<bound, results, control, rover, faults>>
            /\ mq' \in {"absent", "booting", "up"}
        BY <2>3 DEF start_rabbitmq, BrokerReady
      <3> QED BY <1>1, <3>1 DEF Inv, TypeOK, BrokerTypeOK, ControlTypeOK, RoverTypeOK,
                               SquadTypeOK, WrittenLogged, control, rover
    <2>4. CASE StartGroundControl \/ ServerStarts \/ ListenerConnects \/ WriteFails
               \/ KillGroundControl
      <3>1. /\ UNCHANGED <<mq, results, log>> /\ bound' \in BOOLEAN
            /\ gc' \in {"down", "starting", "serving"}
            /\ listener' \in {"none", "connecting", "consuming", "dead"} \cup {listener}
            /\ faults' \in 0..MaxFaults /\ cut' \subseteq Rovers
        <4>1. CASE StartGroundControl \/ ServerStarts \/ ListenerConnects
          BY <2>4, <4>1 DEF StartGroundControl, ServerStarts, ListenerConnects, broker, rover,
                            Inv, TypeOK, BrokerTypeOK, ControlTypeOK, RoverTypeOK
        <4>2. CASE WriteFails \/ KillGroundControl
          <5>1. faults \in 0..MaxFaults /\ faults < MaxFaults /\ faults' = faults + 1
            BY <4>2 DEF WriteFails, KillGroundControl, Inv, TypeOK
          <5>2. faults' \in 0..MaxFaults
            BY <5>1, PipelineAssumption
          <5> QED BY <2>4, <4>2, <5>2 DEF WriteFails, KillGroundControl, broker, rover,
                            Inv, TypeOK, BrokerTypeOK, ControlTypeOK, RoverTypeOK
        <4> QED BY <2>4, <4>1, <4>2
      <3>2. TypeOK'
        BY <1>1, <3>1 DEF Inv, TypeOK, BrokerTypeOK, ControlTypeOK, RoverTypeOK, SquadTypeOK
      <3>3. WrittenLogged'
        BY <3>1 DEF Inv, WrittenLogged
      <3> QED BY <3>1, <3>2, <3>3
    <2> QED BY <2>1, <2>2, <2>3, <2>4 DEF Listen
  <1>3. \A t \in Task : Told(t) => Told(t)'
    BY <1>1, <1>2 DEF Told
  <1>4. FreshReports'
    BY <1>1 DEF Inv, FreshReports
  <1> QED BY <1>1, <1>2, <1>3, <1>4, TasksKept DEF Inv

-----------------------------------------------------------------------------
(* The broker is removed: nothing waits, and what waited is dropped.        *)

LEMMA RemoveBrokerInv ==
    ASSUME Inv, RemoveBroker
    PROVE  Inv'
  <1>0. TypeOK /\ NoMineForgotten
    BY DEF Inv
  <1>1. /\ mq' = "absent" /\ bound' = FALSE /\ tasks' = <<>> /\ results' = <<>>
        /\ dropped' = dropped \cup ToSet(tasks) \cup ToSet(results) \cup InHands
        /\ deminer' = [d \in Deminers |-> "down"] /\ held' = [d \in Deminers |-> <<>>]
        /\ listener' = IF listener \in {"consuming", "written"} THEN "dead" ELSE listener
        /\ faults' = faults + 1 /\ faults < MaxFaults
        /\ UNCHANGED <<gc, pc, at, stream, cut, reported>>
    BY DEF RemoveBroker, rover
  <1>2. /\ ToSet(tasks') = {} /\ ToSet(results') = {}
        /\ \A d \in Deminers : ToSet(held'[d]) = {} /\ deminer'[d] = "down"
    BY <1>1 DEF ToSet
  <1>3. /\ \A t : ~Waits(t)'
        /\ \A t : Waits(t) => t \in dropped'
    BY <1>1, <1>2 DEF Waits, InHands
  <1>4. ToSet(log) \subseteq ToSet(log') /\ log' \in Seq(Task)
    <2>1. results \in Seq(Task) /\ log \in Seq(Task)
      BY <1>0 DEF TypeOK, BrokerTypeOK, ControlTypeOK
    <2>2. CASE log' = log
      BY <2>1, <2>2
    <2>3. CASE results # <<>> /\ log' = Append(log, Head(results))
      BY <2>1, <2>3, TailElements, AppendElements
    <2> QED BY <2>2, <2>3 DEF RemoveBroker
  <1>5. \A t : Told(t) => Told(t)'
    BY <1>1, <1>4 DEF Told
  <1>6. dropped' \subseteq Task
    <2>1. dropped \subseteq Task /\ tasks \in Seq(Task) /\ results \in Seq(Task)
      BY <1>0 DEF TypeOK, BrokerTypeOK
    <2>2. ToSet(tasks) \subseteq Task /\ ToSet(results) \subseteq Task
      BY <2>1 DEF ToSet
    <2>3. ASSUME NEW d \in Deminers PROVE ToSet(held[d]) \subseteq Task
      <3>1. held[d] \in Seq(Task)
        BY <1>0 DEF TypeOK, SquadTypeOK
      <3> QED BY <3>1 DEF ToSet
    <2>4. InHands \subseteq Task
      BY <2>3 DEF InHands
    <2> QED BY <1>1, <2>1, <2>2, <2>4
  <1>7. TypeOK'
    <2>1. BrokerTypeOK'
      BY <1>1, <1>6, EmptySeq DEF BrokerTypeOK
    <2>2. ControlTypeOK'
      <3>1. /\ gc' \in {"down", "starting", "serving"}
            /\ listener' \in {"none", "connecting", "dead"}
        BY <1>0, <1>1 DEF TypeOK, ControlTypeOK
      <3> QED BY <1>4, <3>1 DEF ControlTypeOK
    <2>3. RoverTypeOK'
      BY <1>0, <1>1 DEF TypeOK, RoverTypeOK
    <2>4. SquadTypeOK'
      <3>1. <<>> \in Seq(Task)
        BY EmptySeq
      <3> QED BY <1>1, <3>1 DEF SquadTypeOK
    <2>5. faults' \in 0..MaxFaults
      BY <1>0, <1>1, PipelineAssumption DEF TypeOK
    <2> QED BY <2>1, <2>2, <2>3, <2>4, <2>5 DEF TypeOK
  <1>8. NoMineForgotten'
    <2> SUFFICES ASSUME NEW r \in Rovers, NEW p \in reported[r]
                 PROVE  Told([rover |-> r, at |-> p])'
      BY <1>1 DEF NoMineForgotten
    <2>1. Waits([rover |-> r, at |-> p]) \/ Told([rover |-> r, at |-> p])
      BY <1>0 DEF NoMineForgotten
    <2> QED BY <1>3, <1>5, <2>1 DEF Told
  <1>9. OneDeminerPerTask'
    BY <1>1, <1>2 DEF OneDeminerPerTask, IsInjective
  <1>10. PublishedTold' /\ WrittenLogged' /\ WaitingReported'
    BY <1>1, <1>2, <1>3 DEF PublishedTold, WrittenLogged, WaitingReported
  <1>11. FreshReports'
    BY <1>1 DEF Inv, FreshReports
  <1> QED BY <1>7, <1>8, <1>9, <1>10, <1>11 DEF Inv

-----------------------------------------------------------------------------
(* The steps of a rover.                                                    *)

\* Only publish_task touches more than a rover's own variables.
LEMMA RoveInv ==
    ASSUME Inv, NEW r \in Rovers,
           StartRover(r) \/ Step(r) \/ GetMineSerialNumber(r) \/ Finish(r)
    PROVE  Inv'
  <1>1. UNCHANGED <<broker, control, squad, faults, reported, cut>>
    BY DEF StartRover, Step, GetMineSerialNumber, Finish
  <1>2. RoverTypeOK /\ RoverTypeOK' /\ FreshReports'
    <2>0. RoverTypeOK /\ FreshReports
      BY DEF Inv, TypeOK
    <2>1. CASE StartRover(r)
      BY <2>0, <2>1, PipelineAssumption DEF StartRover, RoverTypeOK, FreshReports
    <2>2. CASE Step(r)
      <3>1. Tail(stream[r]) \in Seq(STRING)
        BY <2>0, <2>2, HeadTailProperties DEF Step, RoverTypeOK
      <3>2. at'[r] \in Grid \cup {Start[r]} /\ at'[r] \in Int \X Int
        <4>1. /\ at[r] \in Grid \cup {Start[r]} /\ at[r] \in Int \X Int
              /\ at'[r] = move_xy(at[r], normalize_command(Head(stream[r])))
          BY <2>0, <2>2 DEF Step, RoverTypeOK
        <4>2. Grid \subseteq Int \X Int
          BY PipelineAssumption DEF Grid
        <4> HIDE DEF Grid
        <4>3. at'[r] \in Grid \cup {at[r]}
          BY <4>1 DEF move_xy
        <4> QED BY <4>1, <4>2, <4>3
      <3>3. RoverTypeOK'
        BY <2>0, <2>2, <3>1, <3>2, <1>1 DEF Step, RoverTypeOK
      <3>4. pc'[r] = "asking" => at'[r] \in Grid \ reported[r]
        BY <2>0, <2>2 DEF Step, RoverTypeOK, HasMine
      <3>5. /\ pc'[r] \in {"asking", "roving"}
            /\ \A s \in Rovers \ {r} : pc'[s] = pc[s] /\ at'[s] = at[s]
        BY <2>0, <2>2 DEF Step, RoverTypeOK
      <3>6. FreshReports'
        BY <1>1, <2>0, <3>4, <3>5 DEF FreshReports
      <3> QED BY <2>0, <3>3, <3>6
    <2>3. CASE GetMineSerialNumber(r)
      BY <2>0, <2>3 DEF GetMineSerialNumber, RoverTypeOK, FreshReports
    <2>4. CASE Finish(r)
      BY <2>0, <2>4 DEF Finish, RoverTypeOK, FreshReports
    <2> QED BY <2>1, <2>2, <2>3, <2>4
  <1>3. TypeOK' /\ WrittenLogged' /\ \A t : Told(t)' <=> Told(t)
    <2>1. BrokerTypeOK' /\ ControlTypeOK' /\ SquadTypeOK' /\ (faults \in 0..MaxFaults)'
      BY <1>1 DEF Inv, TypeOK, BrokerTypeOK, ControlTypeOK, SquadTypeOK, broker, control, squad
    <2>2. WrittenLogged' /\ \A t : Told(t)' <=> Told(t)
      BY <1>1 DEF Inv, WrittenLogged, Told, broker, control
    <2> QED BY <1>2, <2>1, <2>2 DEF TypeOK
  <1>4. UNCHANGED <<tasks, deminer, held, reported>>
    BY <1>1 DEF broker, squad
  <1> QED BY <1>2, <1>3, <1>4, TasksKept DEF Inv

LEMMA PublishTaskInv ==
    ASSUME Inv, NEW r \in Rovers, publish_task(r)
    PROVE  Inv'
  <1> DEFINE task == [rover |-> r, at |-> at[r]]
  <1>0. TypeOK /\ FreshReports /\ WaitingReported /\ NoMineForgotten /\ OneDeminerPerTask
    BY DEF Inv
  <1>1. /\ at[r] \in Grid \ reported[r] /\ task \in Task
        /\ UNCHANGED <<mq, bound, results, dropped, control, at, stream, cut, squad, faults>>
    BY <1>0 DEF publish_task, FreshReports, Task
  <1>2. CASE mq # "up"
    <2>1. /\ UNCHANGED <<tasks, reported>> /\ pc' = [pc EXCEPT ![r] = "failed"]
      BY <1>2 DEF publish_task
    <2>2. TypeOK' /\ WrittenLogged' /\ FreshReports' /\ \A t : Told(t)' <=> Told(t)
      BY <1>1, <2>1 DEF Inv, TypeOK, BrokerTypeOK, ControlTypeOK, RoverTypeOK, SquadTypeOK,
                        WrittenLogged, FreshReports, Told, control, squad
    <2>3. UNCHANGED <<tasks, deminer, held, reported>>
      BY <1>1, <2>1 DEF squad
    <2> QED BY <2>2, <2>3, TasksKept DEF Inv
  <1>3. CASE mq = "up"
    <2>1. /\ tasks' = Append(tasks, task) /\ pc' = [pc EXCEPT ![r] = "roving"]
          /\ reported' = [reported EXCEPT ![r] = @ \cup {at[r]}]
      BY <1>3 DEF publish_task
    <2>2. /\ tasks \in Seq(Task) /\ tasks' \in Seq(Task)
          /\ ToSet(tasks') = ToSet(tasks) \cup {task}
      BY <1>0, <1>1, <2>1, AppendElements DEF TypeOK, BrokerTypeOK
    <2>3. ~Waits(task)
      BY <1>0, <1>1 DEF WaitingReported
    <2>4. TypeOK' /\ WrittenLogged'
      BY <1>1, <2>1, <2>2 DEF Inv, TypeOK, BrokerTypeOK, ControlTypeOK, RoverTypeOK,
                              SquadTypeOK, WrittenLogged, control, squad
    <2>5. /\ \A t : Told(t)' <=> Told(t)
          /\ \A t : Waits(t)' <=> Waits(t) \/ t = task
          /\ held' = held /\ deminer' = deminer
      BY <1>1, <2>2 DEF Told, Waits, control, squad
    <2>6. /\ reported'[r] = reported[r] \cup {at[r]}
          /\ \A s \in Rovers \ {r} : reported'[s] = reported[s]
      BY <1>0, <2>1 DEF TypeOK, RoverTypeOK
    <2>7. NoMineForgotten'
      BY <1>0, <2>5, <2>6 DEF NoMineForgotten
    <2>8. OneDeminerPerTask'
      <3>1. IsInjective(tasks')
        BY <1>0, <1>1, <2>1, <2>2, <2>3, InjectiveQueue DEF OneDeminerPerTask, Waits
      <3> QED BY <1>0, <2>2, <2>3, <2>5, <3>1 DEF OneDeminerPerTask, Waits
    <2>9. PublishedTold'
      BY <2>5 DEF Inv, PublishedTold
    <2>10. WaitingReported'
      BY <1>0, <2>5, <2>6 DEF WaitingReported, Task
    <2>11. FreshReports'
      BY <1>0, <1>1, <2>1, <2>6 DEF FreshReports, TypeOK, RoverTypeOK
    <2> QED BY <2>4, <2>7, <2>8, <2>9, <2>10, <2>11 DEF Inv
  <1> QED BY <1>2, <1>3

-----------------------------------------------------------------------------
(* The steps of a deminer.                                                  *)

LEMMA StartDeminerInv ==
    ASSUME Inv, NEW d \in Deminers, StartDeminer(d)
    PROVE  Inv'
  <1>1. /\ UNCHANGED <<broker, control, rover, held, faults>> /\ deminer[d] = "down"
        /\ deminer' = [deminer EXCEPT ![d] = "idle"]
    BY DEF StartDeminer
  <1>2. TypeOK'
    <2>1. BrokerTypeOK' /\ ControlTypeOK' /\ RoverTypeOK' /\ (faults \in 0..MaxFaults)'
      BY <1>1 DEF Inv, TypeOK, BrokerTypeOK, ControlTypeOK, RoverTypeOK, broker, control, rover
    <2>2. SquadTypeOK'
      BY <1>1 DEF Inv, TypeOK, SquadTypeOK
    <2> QED BY <2>1, <2>2 DEF TypeOK
  <1>3. \A t : (Told(t)' <=> Told(t)) /\ (Waits(t)' <=> Waits(t))
    BY <1>1 DEF Told, Waits, broker, control
  <1>4. UNCHANGED <<tasks, reported, pc, at, results, log, listener, held>>
    BY <1>1 DEF broker, control, rover
  <1>5. PublishedTold'
    BY <1>1, <1>3, <1>4 DEF Inv, PublishedTold, TypeOK, SquadTypeOK
  <1>6. (NoMineForgotten /\ OneDeminerPerTask /\ WrittenLogged /\ WaitingReported /\ FreshReports)'
    BY <1>3, <1>4 DEF Inv, NoMineForgotten, OneDeminerPerTask, WrittenLogged,
                      WaitingReported, FreshReports
  <1> QED BY <1>2, <1>5, <1>6 DEF Inv

LEMMA TakeTaskInv ==
    ASSUME Inv, NEW d \in Deminers, TakeTask(d)
    PROVE  Inv'
  <1> DEFINE task == Head(tasks)
  <1>0. TypeOK /\ OneDeminerPerTask /\ tasks \in Seq(Task) /\ tasks # <<>>
    BY DEF Inv, TypeOK, BrokerTypeOK, TakeTask
  <1>1. /\ UNCHANGED <<mq, bound, results, dropped, control, rover, faults>>
        /\ deminer[d] = "idle" /\ deminer' = [deminer EXCEPT ![d] = "working"]
        /\ tasks' = Tail(tasks) /\ held' = [held EXCEPT ![d] = <<task>>]
    BY DEF TakeTask
  <1>2. /\ task \in Task /\ tasks' \in Seq(Task)
        /\ ToSet(tasks) = {task} \cup ToSet(tasks')
    BY <1>0, <1>1, TailElements
  <1>3. IsInjective(tasks') /\ task \notin ToSet(tasks')
    BY <1>0, <1>1, InjectiveQueue DEF OneDeminerPerTask
  <1>4. /\ held[d] = <<>> /\ held'[d] = <<task>>
        /\ \A e \in Deminers \ {d} : held'[e] = held[e] /\ deminer'[e] = deminer[e]
        /\ deminer'[d] = "working"
    BY <1>0, <1>1 DEF TypeOK, SquadTypeOK
  <1> HIDE DEF task
  <1>5. ToSet(held[d]) = {} /\ ToSet(held'[d]) = {task}
    BY <1>4 DEF ToSet
  <1>6. UNCHANGED <<reported, pc, at, results, log, listener>>
    BY <1>1 DEF control, rover
  <1>7. \A t : (Told(t)' <=> Told(t)) /\ (Waits(t)' <=> Waits(t))
    BY <1>1, <1>2, <1>4, <1>5, <1>6 DEF Told, Waits
  <1>8. TypeOK'
    <2>1. BrokerTypeOK' /\ ControlTypeOK' /\ RoverTypeOK' /\ (faults \in 0..MaxFaults)'
      BY <1>0, <1>1, <1>2 DEF TypeOK, BrokerTypeOK, ControlTypeOK, RoverTypeOK, control, rover
    <2>2. SquadTypeOK'
      BY <1>0, <1>1, <1>2, <1>4 DEF TypeOK, SquadTypeOK
    <2> QED BY <2>1, <2>2 DEF TypeOK
  <1>9. OneDeminerPerTask'
    BY <1>0, <1>2, <1>3, <1>4, <1>5 DEF OneDeminerPerTask
  <1>10. PublishedTold'
    BY <1>4, <1>7 DEF Inv, PublishedTold
  <1>11. (NoMineForgotten /\ WrittenLogged /\ WaitingReported /\ FreshReports)'
    BY <1>6, <1>7 DEF Inv, NoMineForgotten, WrittenLogged, WaitingReported, FreshReports
  <1> QED BY <1>8, <1>9, <1>10, <1>11 DEF Inv

LEMMA PublishResultInv ==
    ASSUME Inv, NEW d \in Deminers, PublishResult(d)
    PROVE  Inv'
  <1>0. TypeOK
    BY DEF Inv
  <1>1. PICK task \in Task : held[d] = <<task>>
    BY <1>0 DEF PublishResult, TypeOK, SquadTypeOK
  <1>2. /\ UNCHANGED <<mq, tasks, bound, control, rover, held, faults>>
        /\ deminer' = [deminer EXCEPT ![d] = "published"]
        /\ IF bound THEN results' = results \o <<task>> /\ dropped' = dropped
           ELSE dropped' = dropped \cup ToSet(held[d]) /\ results' = results
    BY <1>1 DEF PublishResult
  <1>3. ToSet(held[d]) = {task}
    BY <1>1 DEF ToSet
  <1>4. /\ results' \in Seq(Task) /\ dropped' \subseteq Task
        /\ ToSet(results') \cup dropped' = ToSet(results) \cup dropped \cup {task}
        /\ results # <<>> => results' # <<>> /\ Head(results') = Head(results)
    <2>1. results \in Seq(Task) /\ dropped \subseteq Task
      BY <1>0 DEF TypeOK, BrokerTypeOK
    <2>2. CASE bound
      <3>1. results' = Append(results, task) /\ dropped' = dropped
        BY <1>2, <2>1, <2>2
      <3>2. results' \in Seq(Task) /\ ToSet(results') = ToSet(results) \cup {task}
        BY <2>1, <3>1, AppendElements
      <3>3. results # <<>> => results' # <<>> /\ Head(results') = Head(results)
        BY <2>1, <3>1
      <3> QED BY <2>1, <3>1, <3>2, <3>3
    <2>3. CASE ~bound
      BY <1>2, <1>3, <2>1, <2>3
    <2> QED BY <2>2, <2>3
  <1>5. UNCHANGED <<tasks, held, reported, pc, at, log, listener>>
    BY <1>2 DEF control, rover
  <1>6. \A t : (Told(t)' <=> Told(t) \/ t = task) /\ (Waits(t)' <=> Waits(t))
    BY <1>4, <1>5 DEF Told, Waits
  <1>7. TypeOK'
    <2>1. BrokerTypeOK' /\ ControlTypeOK' /\ RoverTypeOK' /\ (faults \in 0..MaxFaults)'
      BY <1>0, <1>2, <1>4 DEF TypeOK, BrokerTypeOK, ControlTypeOK, RoverTypeOK, control, rover
    <2>2. SquadTypeOK'
      BY <1>0, <1>1, <1>2 DEF TypeOK, SquadTypeOK
    <2> QED BY <2>1, <2>2 DEF TypeOK
  <1>8. PublishedTold'
    BY <1>0, <1>2, <1>3, <1>5, <1>6 DEF Inv, PublishedTold, TypeOK, SquadTypeOK
  <1>9. WrittenLogged'
    BY <1>0, <1>4, <1>5 DEF Inv, WrittenLogged, TypeOK, ControlTypeOK
  <1>10. (NoMineForgotten /\ OneDeminerPerTask /\ WaitingReported /\ FreshReports)'
    BY <1>5, <1>6 DEF Inv, NoMineForgotten, OneDeminerPerTask, WaitingReported, FreshReports
  <1> QED BY <1>7, <1>8, <1>9, <1>10 DEF Inv

\* The task is dropped, and it was told.
LEMMA AckTaskInv ==
    ASSUME Inv, NEW d \in Deminers, AckTask(d)
    PROVE  Inv'
  <1>0. TypeOK /\ NoMineForgotten /\ PublishedTold
    BY DEF Inv
  <1>1. /\ UNCHANGED <<broker, control, rover, faults>> /\ deminer[d] = "published"
        /\ held' = [held EXCEPT ![d] = <<>>]
        /\ deminer' = [deminer EXCEPT ![d] = "idle"]
    BY DEF AckTask
  <1>2. /\ held'[d] = <<>> /\ ToSet(held'[d]) = {} /\ deminer'[d] = "idle"
        /\ \A e \in Deminers \ {d} : held'[e] = held[e] /\ deminer'[e] = deminer[e]
    BY <1>0, <1>1 DEF TypeOK, SquadTypeOK, ToSet
  <1>3. UNCHANGED <<tasks, results, dropped, reported, pc, at, log, listener>>
    BY <1>1 DEF broker, control, rover
  <1>4. /\ \A t : Told(t)' <=> Told(t)
        /\ \A t : Waits(t)' => Waits(t)
        /\ \A t : Waits(t) => Waits(t)' \/ Told(t)
    <2>1. \A t \in ToSet(held[d]) : Told(t)
      BY <1>0, <1>1 DEF PublishedTold
    <2> QED BY <1>2, <1>3, <2>1 DEF Told, Waits
  <1>5. TypeOK'
    <2>1. BrokerTypeOK' /\ ControlTypeOK' /\ RoverTypeOK' /\ (faults \in 0..MaxFaults)'
      BY <1>0, <1>1 DEF TypeOK, BrokerTypeOK, ControlTypeOK, RoverTypeOK, broker, control, rover
    <2>2. SquadTypeOK'
      BY <1>0, <1>1, <1>2, EmptySeq DEF TypeOK, SquadTypeOK
    <2> QED BY <2>1, <2>2 DEF TypeOK
  <1>6. NoMineForgotten'
    BY <1>0, <1>3, <1>4 DEF NoMineForgotten
  <1>7. OneDeminerPerTask'
    BY <1>2, <1>3 DEF Inv, OneDeminerPerTask
  <1>8. PublishedTold' /\ WaitingReported'
    BY <1>2, <1>3, <1>4 DEF Inv, PublishedTold, WaitingReported
  <1>9. (WrittenLogged /\ FreshReports)'
    BY <1>3 DEF Inv, WrittenLogged, FreshReports
  <1> QED BY <1>5, <1>6, <1>7, <1>8, <1>9 DEF Inv

\* The task goes back to the queue.
LEMMA KillDeminerInv ==
    ASSUME Inv, NEW d \in Deminers, KillDeminer(d)
    PROVE  Inv'
  <1>0. TypeOK /\ OneDeminerPerTask /\ tasks \in Seq(Task)
    BY DEF Inv, TypeOK, BrokerTypeOK
  <1>1. /\ UNCHANGED <<mq, bound, results, dropped, control, rover>>
        /\ faults < MaxFaults /\ faults' = faults + 1
        /\ tasks' = held[d] \o tasks /\ held' = [held EXCEPT ![d] = <<>>]
        /\ deminer' = [deminer EXCEPT ![d] = "down"]
    BY DEF KillDeminer
  <1>2. /\ held'[d] = <<>> /\ ToSet(held'[d]) = {} /\ deminer'[d] = "down"
        /\ \A e \in Deminers \ {d} : held'[e] = held[e] /\ deminer'[e] = deminer[e]
    BY <1>0, <1>1 DEF TypeOK, SquadTypeOK, ToSet
  <1>3. /\ tasks' \in Seq(Task) /\ IsInjective(tasks')
        /\ ToSet(tasks') = ToSet(held[d]) \cup ToSet(tasks)
    <2>1. CASE held[d] = <<>>
      <3>1. tasks' = tasks /\ ToSet(held[d]) = {}
        BY <1>0, <1>1, <2>1 DEF ToSet
      <3> QED BY <1>0, <3>1 DEF OneDeminerPerTask
    <2>2. CASE held[d] # <<>>
      <3>1. PICK task \in Task : held[d] = <<task>>
        BY <1>0, <2>2 DEF TypeOK, SquadTypeOK
      <3>2. ToSet(held[d]) = {task}
        BY <3>1 DEF ToSet
      <3>3. task \notin ToSet(tasks)
        BY <1>0, <3>2 DEF OneDeminerPerTask
      <3>4. tasks' = <<task>> \o tasks
        BY <1>1, <3>1
      <3>5. tasks' \in Seq(Task) /\ ToSet(tasks') = {task} \cup ToSet(tasks)
        BY <1>0, <3>4, PrependElements
      <3>6. IsInjective(tasks')
        BY <1>0, <3>3, <3>4, InjectiveQueue DEF OneDeminerPerTask
      <3> QED BY <3>2, <3>5, <3>6
    <2> QED BY <2>1, <2>2
  <1>4. UNCHANGED <<results, dropped, reported, pc, at, log, listener>>
    BY <1>1 DEF control, rover
  <1>5. \A t : (Told(t)' <=> Told(t)) /\ (Waits(t)' <=> Waits(t))
    BY <1>2, <1>3, <1>4 DEF Told, Waits
  <1>6. TypeOK'
    <2>1. faults' \in 0..MaxFaults
      BY <1>0, <1>1, PipelineAssumption DEF TypeOK
    <2>2. BrokerTypeOK' /\ ControlTypeOK' /\ RoverTypeOK'
      BY <1>0, <1>1, <1>3 DEF TypeOK, BrokerTypeOK, ControlTypeOK, RoverTypeOK, control, rover
    <2>3. SquadTypeOK'
      BY <1>0, <1>1, <1>2, EmptySeq DEF TypeOK, SquadTypeOK
    <2> QED BY <2>1, <2>2, <2>3 DEF TypeOK
  <1>7. OneDeminerPerTask'
    BY <1>0, <1>2, <1>3 DEF OneDeminerPerTask
  <1>8. PublishedTold'
    BY <1>2, <1>5 DEF Inv, PublishedTold
  <1>9. (NoMineForgotten /\ WrittenLogged /\ WaitingReported /\ FreshReports)'
    BY <1>4, <1>5 DEF Inv, NoMineForgotten, WrittenLogged, WaitingReported, FreshReports
  <1> QED BY <1>6, <1>7, <1>8, <1>9 DEF Inv

-----------------------------------------------------------------------------
LEMMA NextInv == Inv /\ [Next]_vars => Inv'
  <1> SUFFICES ASSUME Inv, [Next]_vars PROVE Inv'
    OBVIOUS
  <1>1. CASE UNCHANGED vars
    <2>1. UNCHANGED <<mq, tasks, bound, results, dropped, gc, listener, log, pc, at, stream, cut,
                      reported, deminer, held, faults>>
      BY <1>1 DEF vars, broker, control, rover, squad
    <2>2. TypeOK'
      BY <2>1 DEF Inv, TypeOK, BrokerTypeOK, ControlTypeOK, RoverTypeOK, SquadTypeOK
    <2>3. \A t : Told(t)' <=> Told(t)
      BY <2>1 DEF Told
    <2>4. WrittenLogged' /\ FreshReports'
      BY <2>1 DEF Inv, WrittenLogged, FreshReports
    <2> QED BY <2>1, <2>2, <2>3, <2>4, TasksKept DEF Inv
  <1>2. ASSUME NEW r \in Rovers, StartRover(r) \/ Rove(r) PROVE Inv'
    BY <1>2, RoveInv, PublishTaskInv DEF Rove
  <1>3. ASSUME NEW d \in Deminers, StartDeminer(d) \/ Demine(d) \/ KillDeminer(d) PROVE Inv'
    BY <1>3, StartDeminerInv, TakeTaskInv, PublishResultInv, AckTaskInv, KillDeminerInv
       DEF Demine
  <1> QED BY <1>1, <1>2, <1>3, ControlInv, RemoveBrokerInv DEF Next

\* Whoever is killed and whenever, every variable keeps its type, a rover
\* stays on the map, and a deminer has a task exactly while it handles one.
THEOREM TypeCorrect == Spec => []TypeOK
  <1>1. Inv => TypeOK
    BY DEF Inv
  <1> QED BY <1>1, InitInv, NextInv, PTL DEF Spec

\* A mine that a rover has reported waits, is being defused or was told to
\* the exchange, for any number of kills at any points.
THEOREM ReportsKept == Spec => []NoMineForgotten
  <1>1. Inv => NoMineForgotten
    BY DEF Inv
  <1> QED BY <1>1, InitInv, NextInv, PTL DEF Spec

\* No two deminers ever work at one rover's mine at once.
THEOREM DeminersApart == Spec => []OneDeminerPerTask
  <1>1. Inv => OneDeminerPerTask
    BY DEF Inv
  <1> QED BY <1>1, InitInv, NextInv, PTL DEF Spec

-----------------------------------------------------------------------------
(* How often a task is logged.                                               *)

LEMMA CountType ==
    ASSUME NEW S, NEW s \in Seq(S), NEW t
    PROVE  Count(s, t) \in Nat /\ IsFiniteSet({k \in DOMAIN s : s[k] = t})
  <1>1. IsFiniteSet(1..Len(s)) /\ DOMAIN s = 1..Len(s)
    BY FS_Interval
  <1>2. IsFiniteSet({k \in DOMAIN s : s[k] = t})
    BY <1>1, FS_Subset
  <1> QED BY <1>2, FS_CardinalityType DEF Count

LEMMA CountEmpty == ASSUME NEW t PROVE Count(<<>>, t) = 0
  <1>1. {k \in DOMAIN <<>> : <<>>[k] = t} = {}
    OBVIOUS
  <1> QED BY <1>1, FS_EmptySet DEF Count

LEMMA CountAppend ==
    ASSUME NEW S, NEW s \in Seq(S), NEW e \in S, NEW t
    PROVE  Count(Append(s, e), t) = Count(s, t) + (IF e = t THEN 1 ELSE 0)
  <1> DEFINE old == {k \in DOMAIN s : s[k] = t}
             new == {k \in DOMAIN Append(s, e) : Append(s, e)[k] = t}
  <1>1. /\ Len(s) \in Nat /\ DOMAIN s = 1..Len(s) /\ DOMAIN Append(s, e) = 1..(Len(s) + 1)
        /\ Append(s, e)[Len(s) + 1] = e /\ \A k \in 1..Len(s) : Append(s, e)[k] = s[k]
    OBVIOUS
  <1>2. \A k \in 1..(Len(s) + 1) : k = Len(s) + 1 \/ k \in 1..Len(s)
    BY <1>1
  <1>3. Len(s) + 1 \notin old /\ Len(s) + 1 \in 1..(Len(s) + 1)
        /\ \A k \in 1..Len(s) : k \in 1..(Len(s) + 1)
    BY <1>1
  <1>4. new = IF e = t THEN old \cup {Len(s) + 1} ELSE old
    BY <1>1, <1>2, <1>3
  <1>5. IsFiniteSet(old) /\ Cardinality(old) \in Nat
    BY CountType DEF Count
  <1>6. CASE e = t
    BY <1>3, <1>4, <1>5, <1>6, FS_AddElement DEF Count
  <1>7. CASE e # t
    <2>1. Count(Append(s, e), t) = Cardinality(new) /\ Count(s, t) = Cardinality(old)
      BY DEF Count
    <2>2. new = old
      BY <1>4, <1>7
    <2> HIDE DEF old, new
    <2> QED BY <1>5, <1>7, <2>1, <2>2
  <1> QED BY <1>6, <1>7

LEMMA CountTail ==
    ASSUME NEW S, NEW s \in Seq(S), s # <<>>, NEW t
    PROVE  Count(s, t) = Count(Tail(s), t) + (IF Head(s) = t THEN 1 ELSE 0)
  <1> DEFINE all == {k \in DOMAIN s : s[k] = t}
             rest == {k \in DOMAIN Tail(s) : Tail(s)[k] = t}
             shift == [k \in rest |-> k + 1]
  <1>1. /\ Len(s) \in Nat \ {0} /\ DOMAIN s = 1..Len(s) /\ DOMAIN Tail(s) = 1..(Len(s) - 1)
        /\ Head(s) = s[1] /\ \A k \in 1..(Len(s) - 1) : Tail(s)[k] = s[k + 1]
        /\ Tail(s) \in Seq(S)
    OBVIOUS
  <1>2. /\ IsFiniteSet(all) /\ IsFiniteSet(rest)
        /\ Cardinality(all) \in Nat /\ Cardinality(rest) \in Nat
    BY <1>1, CountType DEF Count
  <1>3. shift \in Bijection(rest, all \ {1})
    <2>1. \A k \in rest : k \in Int /\ shift[k] = k + 1 /\ k + 1 \in all \ {1}
      BY <1>1
    <2>2. \A i \in all \ {1} : i - 1 \in rest /\ i \in Int
      <3> TAKE i \in all \ {1}
      <3>1. i \in 1..Len(s) /\ i # 1 /\ s[i] = t
        BY <1>1
      <3>2. i - 1 \in 1..(Len(s) - 1) /\ (i - 1) + 1 = i
        BY <1>1, <3>1
      <3>3. Tail(s)[i - 1] = t
        BY <1>1, <3>1, <3>2
      <3> QED BY <1>1, <3>1, <3>2, <3>3
    <2> HIDE DEF all, rest
    <2>3. \A i \in all \ {1} : shift[i - 1] = i
      BY <2>1, <2>2
    <2>4. shift \in Injection(rest, all \ {1})
      BY <2>1 DEF Injection, IsInjective
    <2>5. shift \in Surjection(rest, all \ {1})
      BY <2>1, <2>2, <2>3 DEF Surjection
    <2> QED BY <2>4, <2>5 DEF Bijection
  <1>4. Cardinality(all \ {1}) = Cardinality(rest)
    BY <1>2, <1>3, FS_Bijection DEF ExistsBijection
  <1>5. 1 \in all <=> Head(s) = t
    BY <1>1
  <1>6. Cardinality(all \ {1}) = IF 1 \in all THEN Cardinality(all) - 1 ELSE Cardinality(all)
    BY <1>2, FS_RemoveElement
  <1>7. Count(s, t) = Cardinality(all) /\ Count(Tail(s), t) = Cardinality(rest)
    BY DEF Count
  <1> HIDE DEF all, rest
  <1> QED BY <1>2, <1>4, <1>5, <1>6, <1>7

\* A task is in work while its result has not been published yet.
InWork(t) ==
    t \in ToSet(tasks) \/ \E d \in Deminers : deminer[d] = "working" /\ t \in ToSet(held[d])

Due(t) == IF InWork(t) THEN 1 ELSE 0

\* The lines of a task and the one that is due are paid for by the faults; a
\* task that has a result was reported, so what a rover reports has no line.
RepeatInv ==
    /\ \A t \in Task : Lines(t) + Due(t) <= 1 + faults
    /\ \A t \in Task : t \in ToSet(results) \cup ToSet(log) => t.at \in reported[t.rover]
    /\ gc = "down" => listener = "none"

LEMMA LinesType ==
    ASSUME Inv, NEW t
    PROVE  Lines(t) \in Int /\ Count(log, t) \in Nat /\ Count(results, t) \in Nat
  <1>1. log \in Seq(Task) /\ results \in Seq(Task)
    BY DEF Inv, TypeOK, BrokerTypeOK, ControlTypeOK
  <1>2. Count(log, t) \in Nat /\ Count(results, t) \in Nat
    BY <1>1, CountType
  <1> QED BY <1>2 DEF Lines

LEMMA CountNone ==
    ASSUME NEW S, NEW s \in Seq(S), NEW t, t \notin ToSet(s)
    PROVE  Count(s, t) = 0
  <1>1. {k \in DOMAIN s : s[k] = t} = {}
    BY DEF ToSet
  <1> QED BY <1>1, FS_EmptySet DEF Count

\* It is enough that each step pays for what it adds.
LEMMA StepPays ==
    ASSUME Inv, Inv', RepeatInv, gc' = "down" => listener' = "none",
           \A t \in Task : Lines(t)' + Due(t)' - faults' <= Lines(t) + Due(t) - faults,
           ToSet(log') \cup ToSet(results') \subseteq
               ToSet(log) \cup ToSet(results) \cup {t \in Task : t.at \in reported'[t.rover]},
           \A t \in Task : t.at \in reported[t.rover] => t.at \in reported'[t.rover]
    PROVE  RepeatInv'
  <1>1. ASSUME NEW t \in Task PROVE (Lines(t) + Due(t) <= 1 + faults)'
    <2>1. /\ Lines(t) \in Int /\ (Lines(t) \in Int)' /\ Due(t) \in Int /\ (Due(t) \in Int)'
      <3>1. Lines(t) \in Int
        BY LinesType
      <3>2. (Lines(t) \in Int)'
        BY LinesType, PTL
      <3> QED BY <3>1, <3>2 DEF Due
    <2>2. faults \in Int /\ faults' \in Int
      BY DEF Inv, TypeOK
    <2>3. Lines(t) + Due(t) <= 1 + faults
      BY DEF RepeatInv
    <2> QED BY <2>1, <2>2, <2>3
  <1> QED BY <1>1 DEF RepeatInv

\* Steps that write, publish and acknowledge nothing.
LEMMA QuietPays ==
    ASSUME Inv, Inv', RepeatInv, UNCHANGED <<results, log, tasks, held, reported>>,
           listener' = "written" <=> listener = "written",
           gc' = "down" => listener' = "none", faults' \in {faults, faults + 1},
           \A d \in Deminers : deminer'[d] = "working" <=> deminer[d] = "working"
    PROVE  RepeatInv'
  <1>1. \A t \in Task : Lines(t)' = Lines(t) /\ Due(t)' = Due(t)
    BY DEF Lines, Due, InWork
  <1>2. \A t \in Task : Lines(t) \in Int /\ Due(t) \in Int
    BY LinesType DEF Due
  <1>3. faults \in Int
    BY DEF Inv, TypeOK
  <1>4. \A t \in Task : Lines(t)' + Due(t)' - faults' <= Lines(t) + Due(t) - faults
    BY <1>1, <1>2, <1>3
  <1> HIDE DEF Lines, Due
  <1> QED BY <1>4, StepPays

LEMMA ListenPays ==
    ASSUME Inv, Inv', RepeatInv, WriteLine \/ AckLine \/ KillGroundControl
    PROVE  RepeatInv'
  <1>0. results \in Seq(Task) /\ log \in Seq(Task) /\ faults \in Int
    BY DEF Inv, TypeOK, BrokerTypeOK, ControlTypeOK
  <1>1. UNCHANGED <<tasks, held, deminer, reported>>
    BY DEF WriteLine, AckLine, KillGroundControl, broker, rover, squad
  <1>2. \A t \in Task : Due(t)' = Due(t) /\ Due(t) \in Int
    BY <1>1 DEF Due, InWork
  <1>3. \A t \in Task : Lines(t) \in Int /\ Count(log, t) \in Nat /\ Count(results, t) \in Nat
    BY LinesType
  <1>4. CASE WriteLine
    <2>1. /\ results # <<>> /\ results' = results /\ log' = Append(log, Head(results))
          /\ listener = "consuming" /\ listener' = "written" /\ gc' = gc /\ faults' = faults
      BY <1>4 DEF WriteLine, broker
    <2>2. /\ Head(results) \in Task /\ ToSet(log') = ToSet(log) \cup {Head(results)}
          /\ Head(results) \in ToSet(results)
      BY <1>0, <2>1, TailElements, AppendElements
    <2>3. \A t \in Task : Count(log', t) = Count(log, t) + (IF Head(results) = t THEN 1 ELSE 0)
      BY <1>0, <2>1, <2>2, CountAppend
    <2>4. \A t \in Task : Lines(t)' = Lines(t)
      BY <1>3, <2>1, <2>3 DEF Lines
    <2>5. gc' # "down"
      BY <2>1 DEF RepeatInv
    <2>6. \A t \in Task : Lines(t)' + Due(t)' - faults' <= Lines(t) + Due(t) - faults
      BY <1>0, <1>2, <1>3, <2>1, <2>4
    <2> QED BY <1>1, <2>1, <2>2, <2>5, <2>6, StepPays
  <1>5. CASE AckLine
    <2>1. /\ results # <<>> /\ results' = Tail(results) /\ log' = log
          /\ listener = "written" /\ listener' = "consuming" /\ gc' = gc /\ faults' = faults
      BY <1>5 DEF AckLine, Inv, TypeOK, ControlTypeOK
    <2>2. /\ results' \in Seq(Task) /\ ToSet(results') \subseteq ToSet(results)
      BY <1>0, <2>1, TailElements
    <2>3. \A t \in Task : /\ Count(results', t) \in Nat
                         /\ Count(results, t) = Count(results', t)
                                                + (IF Head(results) = t THEN 1 ELSE 0)
      BY <1>0, <2>1, <2>2, CountTail, CountType
    <2>4. \A t \in Task : Lines(t)' = Lines(t)
      BY <1>3, <2>1, <2>3 DEF Lines
    <2>5. gc' # "down"
      BY <2>1 DEF RepeatInv
    <2>6. \A t \in Task : Lines(t)' + Due(t)' - faults' <= Lines(t) + Due(t) - faults
      BY <1>0, <1>2, <1>3, <2>1, <2>4
    <2> QED BY <1>1, <2>1, <2>2, <2>5, <2>6, StepPays
  <1>6. CASE KillGroundControl
    <2>1. /\ UNCHANGED <<results, log>> /\ listener' = "none" /\ faults' = faults + 1
      BY <1>6 DEF KillGroundControl, broker
    <2>2. \A t \in Task : Lines(t)' <= Lines(t) + 1 /\ Lines(t)' \in Int
      BY <1>3, <2>1 DEF Lines
    <2>3. \A t \in Task : Lines(t)' + Due(t)' - faults' <= Lines(t) + Due(t) - faults
      BY <1>0, <1>2, <1>3, <2>1, <2>2
    <2> QED BY <1>1, <2>1, <2>3, StepPays
  <1> QED BY <1>4, <1>5, <1>6

LEMMA PublishTaskPays ==
    ASSUME Inv, Inv', RepeatInv, NEW r \in Rovers, publish_task(r)
    PROVE  RepeatInv'
  <1> DEFINE task == [rover |-> r, at |-> at[r]]
  <1>0. /\ tasks \in Seq(Task) /\ results \in Seq(Task) /\ log \in Seq(Task) /\ faults \in Int
        /\ reported \in [Rovers -> SUBSET Grid]
    BY DEF Inv, TypeOK, BrokerTypeOK, ControlTypeOK, RoverTypeOK
  <1>1. /\ at[r] \in Grid \ reported[r] /\ task \in Task
        /\ UNCHANGED <<results, log, listener, gc, held, deminer, faults>>
    BY DEF publish_task, Inv, FreshReports, Task, control, squad
  <1>2. \A t \in Task : Lines(t)' = Lines(t) /\ Lines(t) \in Int
    BY <1>1, LinesType DEF Lines
  <1>3. CASE mq # "up"
    <2>1. UNCHANGED <<tasks, reported>>
      BY <1>3 DEF publish_task
    <2> QED BY <1>1, <2>1, QuietPays DEF RepeatInv
  <1>4. CASE mq = "up"
    <2>1. tasks' = Append(tasks, task) /\ reported' = [reported EXCEPT ![r] = @ \cup {at[r]}]
      BY <1>4 DEF publish_task
    <2>2. ToSet(tasks') = ToSet(tasks) \cup {task}
      BY <1>0, <1>1, <2>1, AppendElements
    <2>3. \A t \in Task \ {task} : Due(t)' = Due(t) /\ Due(t) \in Int
      BY <1>1, <2>2 DEF Due, InWork
    <2>4. Lines(task) = 0
      <3>1. task \notin ToSet(log) /\ task \notin ToSet(results)
        BY <1>1 DEF RepeatInv
      <3>2. Count(log, task) = 0 /\ Count(results, task) = 0
        BY <1>0, <3>1, CountNone
      <3>3. ~(listener = "written" /\ Head(results) = task)
        BY <1>0, <3>1, TailElements DEF Inv, TypeOK, ControlTypeOK
      <3> QED BY <3>2, <3>3 DEF Lines
    <2>5. \A t \in Task : (t.at \in reported[t.rover]) => (t.at \in reported'[t.rover])
      BY <1>0, <2>1 DEF Task
    <2>6. reported'[r] = reported[r] \cup {at[r]}
      BY <1>0, <2>1
    <2> HIDE DEF task
    <2>7. ASSUME NEW t \in Task PROVE (Lines(t) + Due(t) <= 1 + faults)'
      <3>1. CASE t = task
        <4>1. Lines(t)' = 0 /\ Due(t)' \in 0..1
          BY <1>2, <2>4, <3>1 DEF Due
        <4>2. faults' \in Nat
          BY <1>1 DEF Inv, TypeOK
        <4> QED BY <4>1, <4>2
      <3>2. CASE t # task
        <4>1. Lines(t) + Due(t) <= 1 + faults
          BY DEF RepeatInv
        <4> QED BY <1>1, <1>2, <2>3, <3>2, <4>1
      <3> QED BY <3>1, <3>2
    <2> QED BY <1>1, <2>5, <2>7 DEF RepeatInv
  <1> QED BY <1>3, <1>4

\* Of the results published before, the first stays the first.
LEMMA DeminerPays ==
    ASSUME Inv, Inv', RepeatInv, NEW d \in Deminers,
           TakeTask(d) \/ PublishResult(d) \/ AckTask(d) \/ KillDeminer(d)
    PROVE  RepeatInv'
  <1>0. /\ tasks \in Seq(Task) /\ results \in Seq(Task) /\ log \in Seq(Task) /\ faults \in Int
        /\ SquadTypeOK
    BY DEF Inv, TypeOK, BrokerTypeOK, ControlTypeOK
  <1>1. UNCHANGED <<log, listener, gc, reported>>
    BY DEF TakeTask, PublishResult, AckTask, KillDeminer, broker, control, rover
  <1>2. \A t \in Task : Lines(t) \in Int /\ Count(log, t) \in Nat /\ Count(results, t) \in Nat
    BY LinesType
  <1>3. \A t \in Task : /\ Due(t) \in Int /\ Due(t) >= 0
                       /\ Due(t)' \in Int /\ Due(t)' <= 1
    BY DEF Due
  <1>4. gc' = "down" => listener' = "none"
    BY <1>1 DEF RepeatInv
  <1>5. \A e \in Deminers \ {d} : held'[e] = held[e] /\ deminer'[e] = deminer[e]
    BY <1>0 DEF SquadTypeOK, TakeTask, PublishResult, AckTask, KillDeminer
  <1>6. CASE TakeTask(d)
    <2>1. /\ UNCHANGED <<results, faults>> /\ tasks # <<>> /\ tasks' = Tail(tasks)
          /\ held'[d] = <<Head(tasks)>> /\ deminer'[d] = "working" /\ deminer[d] = "idle"
      BY <1>0, <1>6 DEF TakeTask, SquadTypeOK
    <2>2. ToSet(tasks) = {Head(tasks)} \cup ToSet(tasks')
      BY <1>0, <2>1, TailElements
    <2>3. ToSet(held'[d]) = {Head(tasks)}
      BY <2>1 DEF ToSet
    <2>4. \A t \in Task : Due(t)' = Due(t)
      BY <1>5, <2>1, <2>2, <2>3 DEF Due, InWork
    <2>5. \A t \in Task : Lines(t)' = Lines(t)
      BY <1>1, <2>1 DEF Lines
    <2>6. \A t \in Task : Lines(t)' + Due(t)' - faults' <= Lines(t) + Due(t) - faults
      BY <1>0, <1>2, <1>3, <2>1, <2>4, <2>5
    <2> QED BY <1>1, <1>4, <2>1, <2>6, StepPays
  <1>7. CASE AckTask(d)
    <2>1. /\ UNCHANGED <<results, tasks, faults>>
          /\ deminer[d] = "published" /\ deminer'[d] = "idle"
      BY <1>0, <1>7 DEF AckTask, SquadTypeOK, broker
    <2>2. \A t \in Task : Due(t)' = Due(t) /\ Lines(t)' = Lines(t)
      BY <1>1, <1>5, <2>1 DEF Due, InWork, Lines
    <2>3. \A t \in Task : Lines(t)' + Due(t)' - faults' <= Lines(t) + Due(t) - faults
      BY <1>0, <1>2, <1>3, <2>1, <2>2
    <2> QED BY <1>1, <1>4, <2>1, <2>3, StepPays
  <1>8. CASE KillDeminer(d)
    <2>1. UNCHANGED results /\ faults' = faults + 1
      BY <1>8 DEF KillDeminer
    <2>2. \A t \in Task : Lines(t)' = Lines(t)
      BY <1>1, <2>1 DEF Lines
    <2>3. \A t \in Task : Lines(t)' + Due(t)' - faults' <= Lines(t) + Due(t) - faults
      BY <1>0, <1>2, <1>3, <2>1, <2>2
    <2> QED BY <1>1, <1>4, <2>1, <2>3, StepPays
  <1>9. CASE PublishResult(d)
    <2>1. PICK task \in Task : held[d] = <<task>>
      BY <1>0, <1>9 DEF PublishResult, SquadTypeOK
    <2>2. /\ UNCHANGED <<tasks, held, faults>> /\ deminer[d] = "working"
          /\ deminer'[d] = "published" /\ ToSet(held[d]) = {task}
      BY <1>0, <1>9, <2>1 DEF PublishResult, SquadTypeOK, ToSet
    <2>3. /\ task \notin ToSet(tasks) /\ \A e \in Deminers \ {d} : task \notin ToSet(held[e])
          /\ task.at \in reported[task.rover]
      BY <2>2 DEF Inv, OneDeminerPerTask, WaitingReported, Waits
    <2>4. \A t \in Task : Due(t)' = Due(t) - (IF task = t THEN 1 ELSE 0)
      <3>1. Due(task) = 1 /\ Due(task)' = 0 /\ \A t \in Task \ {task} : Due(t)' = Due(t)
        BY <1>5, <2>2, <2>3 DEF Due, InWork
      <3> QED BY <1>3, <3>1
    <2>5. CASE bound
      <3>1. results' = Append(results, task)
        BY <1>0, <1>9, <2>1, <2>5 DEF PublishResult
      <3>2. ToSet(results') = ToSet(results) \cup {task}
        BY <1>0, <3>1, AppendElements
      <3>3. \A t \in Task : Count(results', t) = Count(results, t) + (IF task = t THEN 1 ELSE 0)
        BY <1>0, <3>1, CountAppend
      <3>4. listener = "written" => Head(results') = Head(results)
        BY <1>0, <3>1 DEF Inv, TypeOK, ControlTypeOK
      <3>5. \A t \in Task : Lines(t)' = Lines(t) + (IF task = t THEN 1 ELSE 0)
        BY <1>1, <1>2, <3>3, <3>4 DEF Lines
      <3>6. ASSUME NEW t \in Task
            PROVE  Lines(t)' + Due(t)' - faults' <= Lines(t) + Due(t) - faults
        <4>1. Lines(t) \in Int /\ Due(t) \in Int /\ faults \in Int /\ faults' = faults
          BY <1>0, <1>2, <1>3, <2>2
        <4> QED BY <2>4, <3>5, <4>1
      <3> QED BY <1>1, <1>4, <2>3, <3>2, <3>6, StepPays
    <2>6. CASE ~bound
      <3>1. results' = results
        BY <1>9, <2>6 DEF PublishResult
      <3>2. \A t \in Task : Lines(t)' = Lines(t)
        BY <1>1, <3>1 DEF Lines
      <3>3. ASSUME NEW t \in Task
            PROVE  Lines(t)' + Due(t)' - faults' <= Lines(t) + Due(t) - faults
        <4>1. Lines(t) \in Int /\ Due(t) \in Int /\ faults \in Int /\ faults' = faults
          BY <1>0, <1>2, <1>3, <2>2
        <4> QED BY <2>4, <3>2, <4>1
      <3> QED BY <1>1, <1>4, <3>1, <3>3, StepPays
    <2> QED BY <2>5, <2>6
  <1> QED BY <1>6, <1>7, <1>8, <1>9

LEMMA RemoveBrokerPays ==
    ASSUME Inv, Inv', RepeatInv, RemoveBroker
    PROVE  RepeatInv'
  <1>0. results \in Seq(Task) /\ log \in Seq(Task) /\ faults \in Int
    BY DEF Inv, TypeOK, BrokerTypeOK, ControlTypeOK
  <1>1. /\ tasks' = <<>> /\ results' = <<>> /\ deminer' = [d \in Deminers |-> "down"]
        /\ listener' = IF listener \in {"consuming", "written"} THEN "dead" ELSE listener
        /\ faults' = faults + 1 /\ UNCHANGED <<gc, reported>>
    BY DEF RemoveBroker, rover
  <1>2. ToSet(tasks') = {} /\ ToSet(results') = {} /\ \A t : Count(results', t) = 0
    BY <1>1, CountEmpty DEF ToSet
  <1>3. \A t \in Task : Due(t)' = 0 /\ Due(t) \in Int /\ Due(t) >= 0
    BY <1>1, <1>2 DEF Due, InWork
  <1>4. \A t \in Task : Lines(t) \in Int /\ Count(log, t) \in Nat /\ Count(results, t) \in Nat
    BY LinesType
  <1>5. \A t \in Task : Lines(t)' = Count(log', t)
    <2>1. listener' # "written"
      BY <1>1
    <2>2. \A t \in Task : Count(log', t) \in Nat
      BY CountType DEF Inv, TypeOK, ControlTypeOK
    <2> QED BY <1>2, <2>1, <2>2 DEF Lines
  <1>6. results # <<>> => /\ Head(results) \in Task /\ Head(results) \in ToSet(results)
                         /\ \A t \in Task : Count(results, t) >= (IF Head(results) = t THEN 1 ELSE 0)
    <2> HAVE results # <<>>
    <2>1. Head(results) \in Task /\ Head(results) \in ToSet(results) /\ Tail(results) \in Seq(Task)
      BY <1>0, TailElements
    <2>2. \A t \in Task : /\ Count(Tail(results), t) \in Nat
                         /\ Count(results, t) = Count(Tail(results), t)
                                                + (IF Head(results) = t THEN 1 ELSE 0)
      BY <1>0, <2>1, CountTail, CountType
    <2> QED BY <2>1, <2>2
  <1>7. CASE log' = log
    <2>1. listener = "written" => results # <<>>
      BY DEF Inv, TypeOK, ControlTypeOK
    <2>2. \A t \in Task : Lines(t)' <= Lines(t)
      BY <1>4, <1>5, <1>6, <1>7, <2>1 DEF Lines
    <2>3. \A t \in Task : Lines(t)' + Due(t)' - faults' <= Lines(t) + Due(t) - faults
      BY <1>0, <1>1, <1>3, <1>4, <1>5, <1>7, <2>2
    <2> QED BY <1>1, <1>2, <1>7, <2>3, StepPays DEF RepeatInv
  <1>8. CASE listener = "consuming" /\ results # <<>> /\ log' = Append(log, Head(results))
    <2>1. /\ ToSet(log') = ToSet(log) \cup {Head(results)}
          /\ \A t \in Task : Count(log', t) = Count(log, t) + (IF Head(results) = t THEN 1 ELSE 0)
      BY <1>0, <1>6, <1>8, AppendElements, CountAppend
    <2>2. \A t \in Task : Lines(t)' <= Lines(t) /\ Lines(t)' \in Int
      BY <1>4, <1>5, <1>6, <1>8, <2>1 DEF Lines
    <2>3. \A t \in Task : Lines(t)' + Due(t)' - faults' <= Lines(t) + Due(t) - faults
      BY <1>0, <1>1, <1>3, <1>4, <2>2
    <2> QED BY <1>1, <1>2, <1>6, <1>8, <2>1, <2>3, StepPays DEF RepeatInv
  <1> QED BY <1>7, <1>8 DEF RemoveBroker

LEMMA RepeatNext == Inv /\ Inv' /\ RepeatInv /\ [Next]_vars => RepeatInv'
  <1> SUFFICES ASSUME Inv, Inv', RepeatInv, [Next]_vars PROVE RepeatInv'
    OBVIOUS
  <1>1. CASE start_rabbitmq \/ BrokerReady \/ StartGroundControl \/ ServerStarts
             \/ ListenerConnects \/ WriteFails \/ UNCHANGED vars
             \/ \E r \in Rovers : StartRover(r) \/ Step(r) \/ GetMineSerialNumber(r) \/ Finish(r)
    <2>1. /\ UNCHANGED <<results, log, tasks, held, deminer, reported>>
          /\ faults' \in {faults, faults + 1}
      BY <1>1 DEF start_rabbitmq, BrokerReady, StartGroundControl, ServerStarts, ListenerConnects,
         WriteFails, StartRover, Step, GetMineSerialNumber, Finish,
         vars, broker, control, rover, squad
    <2>2. /\ listener' = "written" <=> listener = "written"
          /\ gc' = "down" => listener' = "none"
      BY <1>1 DEF start_rabbitmq, BrokerReady, StartGroundControl, ServerStarts, ListenerConnects,
         WriteFails, StartRover, Step, GetMineSerialNumber, Finish,
         vars, control, RepeatInv
    <2> QED BY <2>1, <2>2, QuietPays
  <1>2. ASSUME NEW d \in Deminers, StartDeminer(d) PROVE RepeatInv'
    <2>1. /\ UNCHANGED <<results, log, tasks, held, reported, listener, gc, faults>>
          /\ \A e \in Deminers : deminer'[e] = "working" <=> deminer[e] = "working"
      BY <1>2 DEF StartDeminer, broker, control, rover, Inv, TypeOK, SquadTypeOK
    <2> QED BY <2>1, QuietPays DEF RepeatInv
  <1> QED BY <1>1, <1>2, ListenPays, PublishTaskPays, DeminerPays, RemoveBrokerPays
       DEF Next, Listen, Rove, Demine

\* A task has never more lines, those to come included, than one and the
\* faults: only a process killed, or a broker removed, between a publication or
\* a line and its acknowledgement has a mine logged again.
THEOREM RepeatsBounded == Spec => []RepeatsTellFaults
  <1>1. Init => RepeatInv
    <2> SUFFICES ASSUME Init PROVE RepeatInv
      OBVIOUS
    <2>1. ToSet(tasks) = {} /\ ToSet(results) = {} /\ ToSet(log) = {} /\ faults = 0
      BY DEF Init, ToSet
    <2>2. \A t \in Task : Lines(t) = 0 /\ Due(t) = 0
      <3>1. \A t : Count(log, t) = 0 /\ Count(results, t) = 0
        BY CountEmpty DEF Init
      <3> QED BY <2>1, <3>1 DEF Init, Lines, Due, InWork
    <2> QED BY <2>1, <2>2 DEF Init, RepeatInv
  <1>2. Inv /\ RepeatInv => RepeatsTellFaults
    <2> SUFFICES ASSUME Inv, RepeatInv, NEW t \in Task PROVE Lines(t) <= 1 + faults
      BY DEF RepeatsTellFaults
    <2>1. Lines(t) + Due(t) <= 1 + faults /\ Due(t) \in 0..1
      BY DEF RepeatInv, Due
    <2>2. Lines(t) \in Int /\ faults \in Int
      BY LinesType DEF Inv, TypeOK
    <2> QED BY <2>1, <2>2
  <1> QED BY <1>1, <1>2, InitInv, NextInv, RepeatNext, PTL DEF Spec
=============================================================================
