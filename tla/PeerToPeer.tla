----------------------------- MODULE PeerToPeer -----------------------------
(***************************************************************************)
(* The file sharing system of 768/Standalone: the index server of module   *)
(* DirectoryServer, the peer processes (peer_node.c) with the child that   *)
(* each forks to serve its files, the datagrams between peers and server   *)
(* and the connections between peers.                                      *)
(*                                                                         *)
(* A peer's user gives one command at a time; a command sends a datagram   *)
(* and then waits for the answer without a timeout.  What the network and  *)
(* the server's host may do is chosen at the start (faults), so that a     *)
(* property can say what it holds under.  A file is served in one step:    *)
(* its chunks are not told apart, only whether it is whole.                *)
(***************************************************************************)
EXTENDS DirectoryServer

CONSTANTS
    Procs,    \* runs of peer_node
    Name,     \* argv[2] of each
    Host,     \* the address of the machine each runs on
    Port,     \* the port each is given for its listening socket
    Dir,      \* the working directory of each
    Files,    \* directory -> the files that are in it at the start
    Conditions,  \* the sets of faults among which faults is chosen
    MaxCommands, \* bound of the model: for each, the commands the users give in all
    MaxQueue     \* bound of the model: no request is repeated of a peer with
                 \* so many answers on their way, no answer with more

FaultKinds == {"lose", "reorder", "duplicate", "restart"}

ASSUME PeerAssumption ==
    /\ Name \in [Procs -> Names] /\ Host \in [Procs -> Ips]
    /\ Port \in [Procs -> Ports]
    /\ \A p, q \in Procs : p # q => <<Host[p], Port[p]>> # <<Host[q], Port[q]>>
    /\ \A p \in Procs : Dir[p] \in DOMAIN Files
    /\ \A d \in DOMAIN Files : Files[d] \subseteq Contents
    /\ Conditions \subseteq SUBSET FaultKinds
    /\ MaxCommands \in [Conditions -> Nat] /\ MaxQueue \in Nat

VARIABLES
    faults,       \* what the network and the server's host may do; it stays
    requests,     \* datagrams on their way to the server
    replies,      \* datagrams on their way to each peer, in the order sent
    pc,           \* what each peer waits for
    arg,          \* the content its command is about, "none" at the menu
    given,        \* how many commands the users have given
    contentList,  \* contentList[0 .. nContent - 1]
    togo,         \* i of the Q loop: how many contents are still to deregister
    listening,    \* the peers whose tcp_listen is open
    hosting,      \* the peers whose child is alive
    snapshot,     \* the child's contentList, as it was when it was forked
    conn,         \* the peer each downloads from, and its answer
    file          \* directory -> content -> "none", "whole" or "empty"

network == <<requests, replies>>
main == <<pc, arg, contentList, togo, given>>
tcp == <<listening, hosting, snapshot, conn>>
vars == <<faults, server, network, main, tcp, file>>

Waiting == {"register", "search", "register_copy", "list", "deregister", "quitting"}
PC == Waiting \cup {"menu", "fetch", "receive", "quit", "eof"}

\* The request whose answer each waiting state is for.
Asked == [s \in Waiting |->
            CASE s \in {"register", "register_copy"} -> "R" [] s = "search" -> "S"
              [] s = "list" -> "O" [] OTHER -> "T"]

Datagram == [type : {"R", "S", "T", "O", "B"}, from : Procs, content : Contents \cup {"none"}]
NoConn == [to |-> "none", answer |-> "none"]

PInit ==
    /\ Init
    /\ faults \in Conditions
    /\ requests = {}
    /\ replies = [p \in Procs |-> <<>>]
    /\ pc = [p \in Procs |-> "menu"]
    /\ arg = [p \in Procs |-> "none"]
    /\ given = 0
    /\ contentList = [p \in Procs |-> <<>>]
    /\ togo = [p \in Procs |-> 0]
    /\ listening = {} /\ hosting = {}
    /\ snapshot = [p \in Procs |-> {}]
    /\ conn = [p \in Procs |-> NoConn]
    /\ file = [d \in DOMAIN Files |->
                 [c \in Contents |-> IF c \in Files[d] THEN "whole" ELSE "none"]]

-----------------------------------------------------------------------------
(* The peer's side of the datagrams.                                        *)

Goto(p, to) == pc' = [pc EXCEPT ![p] = to] /\ UNCHANGED <<arg, given>>

\* The command is over.
Menu(p) ==
    /\ pc' = [pc EXCEPT ![p] = "menu"]
    /\ arg' = [arg EXCEPT ![p] = "none"]
    /\ UNCHANGED given

\* The server does nothing in this step.
Quiet == out' = <<>> /\ UNCHANGED <<faults, peers, npeers>>

Send(p, type, c) == requests' = requests \cup {[type |-> type, from |-> p, content |-> c]}

\* The user gives a command: p asks the server and waits.
Ask(p, type, c, to) ==
    /\ pc[p] = "menu" /\ given < MaxCommands[faults]
    /\ Send(p, type, c)
    /\ pc' = [pc EXCEPT ![p] = to]
    /\ arg' = [arg EXCEPT ![p] = c]
    /\ given' = given + 1
    /\ Quiet
    /\ UNCHANGED <<replies, contentList, togo>>

\* recvfrom: the first datagram in the queue, whoever it answers.
Take(p, state, r) ==
    /\ pc[p] = state
    /\ \E k \in 1..Len(replies[p]) :
         /\ k = 1 \/ "reorder" \in faults
         /\ r = replies[p][k].datagram
         /\ replies' = [replies EXCEPT ![p] = RemoveAt(@, k)]

Received(p) == {replies[p][k].datagram : k \in 1..Len(replies[p])}

\* fork, unless there is a child: it has the list as it is now.
Fork(p) ==
    /\ hosting' = hosting \cup {p}
    /\ snapshot' = [snapshot EXCEPT ![p] = IF p \in hosting THEN @
                                           ELSE ToSet(contentList'[p])]

-----------------------------------------------------------------------------
(* R: register a file of the working directory.                             *)

\* A plausible bug: the file is not looked for.
UserRegisterUnseen(p, c) ==
    /\ c \notin ToSet(contentList[p])
    /\ Ask(p, "R", c, "register")
    /\ listening' = listening \cup {p}
    /\ UNCHANGED <<hosting, snapshot, conn, file>>

UserRegister(p, c) ==
    /\ file[Dir[p]][c] # "none" /\ c \notin ToSet(contentList[p])
    /\ Ask(p, "R", c, "register")
    /\ listening' = listening \cup {p}
    /\ UNCHANGED <<hosting, snapshot, conn, file>>

Registered(p) ==
    \E r \in Received(p) :
      /\ Take(p, "register", r)
      /\ Menu(p)
      /\ \/ r.type = "E" /\ UNCHANGED <<contentList, hosting, snapshot>>
         \/ /\ r.type # "E"
            /\ contentList' = [contentList EXCEPT ![p] =
                                 IF Len(@) < MaxContent THEN Append(@, arg[p]) ELSE @]
            /\ Fork(p)
      /\ Quiet
      /\ UNCHANGED <<requests, togo, listening, conn, file>>

-----------------------------------------------------------------------------
(* D: search, download from the peer that the server names, register.       *)

UserDownload(p, c) == Ask(p, "S", c, "search") /\ UNCHANGED <<tcp, file>>

Listeners(r) ==
    {q \in listening : r.type = "S" /\ Host[q] = r.ip /\ Port[q] = r.tcp_port}

\* An answer that is not an address, or one where nobody listens, ends the
\* command; else p connects and sends its request.
Searched(p) ==
    \E r \in Received(p) :
      /\ Take(p, "search", r)
      /\ \/ Listeners(r) = {} /\ Menu(p) /\ UNCHANGED conn
         \/ \E q \in Listeners(r) :
              /\ Goto(p, "fetch")
              /\ conn' = [conn EXCEPT ![p] = [to |-> q, answer |-> "none"]]
      /\ Quiet
      /\ UNCHANGED <<requests, contentList, togo,
                     listening, hosting, snapshot, file>>

\* fopen(content, "wb") empties the file or makes an empty one.
OpenCopy(p) ==
    /\ pc[p] = "fetch"
    /\ Goto(p, "receive")
    /\ file' = [file EXCEPT ![Dir[p]][arg[p]] = "empty"]
    /\ Quiet
    /\ UNCHANGED <<network, contentList, togo, tcp>>

\* The child of q accepts p's connection and answers it.
HostAnswers(q, p) ==
    /\ q \in hosting
    /\ conn[p] = [to |-> q, answer |-> "none"]
    /\ conn' = [conn EXCEPT ![p].answer =
                  IF arg[p] \in snapshot[q] /\ file[Dir[q]][arg[p]] # "none"
                  THEN file[Dir[q]][arg[p]] ELSE "E"]
    /\ Quiet
    /\ UNCHANGED <<network, main, listening, hosting, snapshot, file>>

\* The host refused, or is gone without an answer; the copy stays as it is.
DownloadFails(p) ==
    /\ pc[p] = "receive"
    /\ \/ conn[p].answer = "E"
       \/ conn[p].answer = "none" /\ conn[p].to \notin listening
    /\ Menu(p)
    /\ conn' = [conn EXCEPT ![p] = NoConn]
    /\ Quiet
    /\ UNCHANGED <<network, contentList, togo,
                   listening, hosting, snapshot, file>>

\* A plausible bug: the socket is opened by R only.
DownloadEndsUnbound(p) ==
    /\ pc[p] = "receive" /\ conn[p].answer \in {"whole", "empty"}
    /\ file' = [file EXCEPT ![Dir[p]][arg[p]] = conn[p].answer]
    /\ contentList' = [contentList EXCEPT ![p] =
                         IF arg[p] \in ToSet(@) \/ Len(@) >= MaxContent THEN @
                         ELSE Append(@, arg[p])]
    /\ Send(p, "R", arg[p]) /\ Goto(p, "register_copy")
    /\ conn' = [conn EXCEPT ![p] = NoConn]
    /\ Quiet
    /\ UNCHANGED <<replies, togo, listening, hosting, snapshot>>

\* The file is written, goes into the list and is registered.
DownloadEnds(p) ==
    /\ pc[p] = "receive" /\ conn[p].answer \in {"whole", "empty"}
    /\ file' = [file EXCEPT ![Dir[p]][arg[p]] = conn[p].answer]
    /\ contentList' = [contentList EXCEPT ![p] =
                         IF arg[p] \in ToSet(@) \/ Len(@) >= MaxContent THEN @
                         ELSE Append(@, arg[p])]
    /\ Send(p, "R", arg[p]) /\ Goto(p, "register_copy")
    /\ conn' = [conn EXCEPT ![p] = NoConn]
    /\ listening' = listening \cup {p}
    /\ Quiet
    /\ UNCHANGED <<replies, togo, hosting, snapshot>>

CopyRegistered(p) ==
    \E r \in Received(p) :
      /\ Take(p, "register_copy", r)
      /\ Menu(p)
      /\ Quiet
      /\ UNCHANGED <<requests, contentList, togo, listening, conn, file>>
      /\ IF r.type = "E" THEN UNCHANGED <<hosting, snapshot>> ELSE Fork(p)

-----------------------------------------------------------------------------
(* O: list; every datagram but an F is printed and the loop goes on.        *)

UserList(p) == Ask(p, "O", "none", "list") /\ UNCHANGED <<tcp, file>>

\* A plausible bug: the loop ends with the first page.
ListedFirst(p) ==
    \E r \in Received(p) :
      /\ Take(p, "list", r)
      /\ Menu(p)
      /\ Quiet
      /\ UNCHANGED <<requests, contentList, togo, tcp, file>>

Listed(p) ==
    \E r \in Received(p) :
      /\ Take(p, "list", r)
      /\ IF r.type = "F" THEN Menu(p) ELSE UNCHANGED <<pc, arg, given>>
      /\ Quiet
      /\ UNCHANGED <<requests, contentList, togo, tcp, file>>

-----------------------------------------------------------------------------
(* T: deregister any content the user names.                                *)

UserDeregister(p, c) == Ask(p, "T", c, "deregister") /\ UNCHANGED <<tcp, file>>

Places(p, c) == {k \in DOMAIN contentList[p] : contentList[p][k] = c}

\* What the server does not refuse goes from the list too, if it is in it.
Deregistered(p) ==
    \E r \in Received(p) :
      /\ Take(p, "deregister", r)
      /\ Menu(p)
      /\ \/ (r.type = "E" \/ Places(p, arg[p]) = {}) /\ UNCHANGED contentList
         \/ \E k \in Places(p, arg[p]) :
              /\ r.type # "E" /\ First(k, Places(p, arg[p]))
              /\ contentList' = [contentList EXCEPT ![p] = RemoveAt(@, k)]
      /\ Quiet
      /\ UNCHANGED <<requests, togo, tcp, file>>

-----------------------------------------------------------------------------
(* Q: deregister every content, the last first, then B and exit.            *)

\* Deregister the content number n, or leave when there is none.
Leaving(p, n) ==
    /\ togo' = [togo EXCEPT ![p] = n]
    /\ \/ /\ n > 0
          /\ Send(p, "T", contentList[p][n])
          /\ pc' = [pc EXCEPT ![p] = "quitting"]
          /\ UNCHANGED <<contentList, tcp>>
       \/ /\ n = 0
          /\ Send(p, "B", "none")
          /\ pc' = [pc EXCEPT ![p] = "quit"]
          /\ contentList' = [contentList EXCEPT ![p] = <<>>]
          /\ listening' = listening \ {p} /\ hosting' = hosting \ {p}
          /\ snapshot' = [snapshot EXCEPT ![p] = {}]
          /\ UNCHANGED conn
    /\ Quiet
    /\ UNCHANGED <<arg, file>>

\* A plausible bug: the loop is skipped, B alone is sent.
UserQuitAtOnce(p) ==
    /\ pc[p] = "menu" /\ given < MaxCommands[faults]
    /\ Leaving(p, 0)
    /\ given' = given + 1
    /\ UNCHANGED replies

UserQuit(p) ==
    /\ pc[p] = "menu" /\ given < MaxCommands[faults]
    /\ Leaving(p, Len(contentList[p]))
    /\ given' = given + 1
    /\ UNCHANGED replies

Quitting(p) ==
    \E r \in Received(p) :
      Take(p, "quitting", r) /\ Leaving(p, togo[p] - 1) /\ UNCHANGED given

\* The end of the input ends the loop without Q: a child lives on.
EndOfInput(p) ==
    /\ pc[p] = "menu"
    /\ Goto(p, "eof")
    /\ contentList' = [contentList EXCEPT ![p] = <<>>]
    /\ listening' = IF p \in hosting THEN listening ELSE listening \ {p}
    /\ Quiet
    /\ UNCHANGED <<network, togo, hosting, snapshot, conn, file>>

-----------------------------------------------------------------------------
(* The server's side, and the faults.                                       *)

Handle(m) ==
    \/ m.type = "R" /\ Register(Host[m.from], Name[m.from], m.content, Port[m.from])
    \/ m.type = "S" /\ Search(m.content)
    \/ m.type = "T" /\ Deregister(Host[m.from], m.content)
    \/ m.type = "O" /\ List
    \/ m.type = "B" /\ Bye(Name[m.from])

\* The server handles m; what it sends to a peer that has ended is dropped.
Deliver(m) ==
    /\ Handle(m)
    /\ replies' =
         IF pc[m.from] \in {"quit", "eof"} THEN replies
         ELSE [replies EXCEPT ![m.from] =
                 @ \o [k \in 1..Len(out') |-> [re |-> m.type, datagram |-> out'[k]]]]
    /\ UNCHANGED <<faults, main, tcp, file>>

Serve(p) ==
    \E m \in requests : m.from = p /\ Deliver(m) /\ requests' = requests \ {m}

\* A request arrives that will arrive once more.
DuplicateRequest(p) ==
    /\ Len(replies[p]) < MaxQueue
    /\ \E m \in requests : m.from = p /\ Deliver(m)
    /\ UNCHANGED requests

\* An answer will arrive once more, after those that are on their way.
DuplicateAnswer(p) ==
    /\ Len(replies[p]) <= MaxQueue /\ pc[p] \notin {"quit", "eof"}
    /\ \E k \in 1..Len(replies[p]) :
         replies' = [replies EXCEPT ![p] = Append(@, @[k])]
    /\ Quiet
    /\ UNCHANGED <<requests, main, tcp, file>>

Duplicate(p) == "duplicate" \in faults /\ (DuplicateRequest(p) \/ DuplicateAnswer(p))

Lose ==
    /\ "lose" \in faults
    /\ \/ \E m \in requests : requests' = requests \ {m} /\ UNCHANGED replies
       \/ \E p \in Procs : \E k \in 1..Len(replies[p]) :
            replies' = [replies EXCEPT ![p] = RemoveAt(@, k)] /\ UNCHANGED requests
    /\ Quiet
    /\ UNCHANGED <<main, tcp, file>>

\* The server is started again.  Its table was in memory only; requests that
\* were in its queue, or that came while it was down, are gone.
Restart ==
    /\ "restart" \in faults
    /\ peers' = [i \in Slots |-> Cleared] /\ npeers' = 0 /\ out' = <<>>
    /\ requests' \in SUBSET requests
    /\ UNCHANGED <<faults, replies, main, tcp, file>>

-----------------------------------------------------------------------------
User(p) ==
    \/ \E c \in Contents : UserRegister(p, c) \/ UserDownload(p, c) \/ UserDeregister(p, c)
    \/ UserList(p) \/ UserQuit(p) \/ EndOfInput(p)

Continue(p) ==
    \/ Registered(p) \/ Searched(p) \/ OpenCopy(p) \/ DownloadFails(p)
    \/ DownloadEnds(p) \/ CopyRegistered(p) \/ Listed(p) \/ Deregistered(p)
    \/ Quitting(p)

Answered(p) == \E q \in Procs : HostAnswers(q, p)

PNext ==
    \/ \E p \in Procs : User(p) \/ Continue(p) \/ Answered(p) \/ Serve(p) \/ Duplicate(p)
    \/ Lose \/ Restart

PSpec == PInit /\ [][PNext]_vars

\* Processes are scheduled, and the kernel's queues of datagrams and of
\* connections are served in order; users need not do anything.
PFairSpec ==
    PSpec /\ \A p \in Procs :
        WF_vars(Continue(p)) /\ WF_vars(Answered(p)) /\ WF_vars(Serve(p))

-----------------------------------------------------------------------------
(* Properties.                                                              *)

PTypeOK ==
    /\ TypeOK
    /\ faults \in Conditions
    /\ requests \subseteq Datagram
    /\ \A p \in Procs : \A k \in DOMAIN replies[p] :
         replies[p][k].re \in {"R", "S", "T", "O", "B"}
    /\ pc \in [Procs -> PC]
    /\ arg \in [Procs -> Contents \cup {"none"}]
    /\ given \in Nat
    /\ contentList \in [Procs -> Seq(Contents)]
    /\ togo \in [Procs -> 0..MaxContent]
    /\ listening \subseteq Procs /\ hosting \subseteq listening
    /\ snapshot \in [Procs -> SUBSET Contents]
    /\ conn \in [Procs -> [to : Procs \cup {"none"},
                           answer : {"none", "E", "whole", "empty"}]]
    /\ file \in [DOMAIN Files -> [Contents -> {"none", "whole", "empty"}]]

\* If datagrams may be lost and the server started again, but none is repeated
\* or overtaken, whatever a peer takes is an answer to what it asked: no command
\* leaves an answer behind for the next one, which would take any type but E
\* for success.
AnswersMatch ==
    faults \subseteq {"lose", "restart"} =>
        \A p \in Procs : \A k \in DOMAIN replies[p] :
            pc[p] \in Waiting /\ replies[p][k].re = Asked[pc[p]]

\* What the directory lists under p's name.
OfferedBy(p) ==
    UNION {ToSet(peers[i].contents) : i \in find_peer_by_name(Name[p])}

\* If datagrams may be lost and nothing else, a peer's own list is between two
\* commands what the directory lists for it.
ListsAgree ==
    faults \subseteq {"lose"} =>
        \A p \in Procs : pc[p] = "menu" => ToSet(contentList[p]) = OfferedBy(p)

\* Under the same condition somebody listens wherever a search may send a peer.
AddressesListen ==
    faults \subseteq {"lose"} =>
        \A i \in Slots : peers[i].in_use =>
            \E p \in listening : Host[p] = peers[i].ip /\ Port[p] = peers[i].tcp_port

\* Whatever the faults, what a peer lists and what its child would serve
\* is a file of its directory: "File open failed" is never answered.
HostsFiles ==
    \A p \in Procs : \A c \in ToSet(contentList[p]) \cup snapshot[p] :
        file[Dir[p]][c] # "none"

\* A child refuses only what its peer does not host.
RefusesOnlyUnhosted ==
    [][\A p \in Procs :
         conn[p].answer = "none" /\ conn'[p].answer = "E" =>
             arg[p] \notin ToSet(contentList[conn[p].to])]_vars

\* Every command comes back to the menu.
EveryCommandReturns ==
    \A p \in Procs : pc[p] \in Waiting \cup {"fetch", "receive"} ~>
                       pc[p] \in {"menu", "quit", "eof"}

\* A peer that quits is forgotten for good.
QuitLeavesNothing ==
    \A p \in Procs : pc[p] = "quit" ~> [](OfferedBy(p) = {})
=============================================================================
