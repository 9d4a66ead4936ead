-------------------------- MODULE DirectoryServer --------------------------
(***************************************************************************)
(* The index server of 768/Standalone (directory_server.c): a table of     *)
(* peers, changed by one datagram at a time.  A handler is one action: the *)
(* server is a single loop that receives, handles and answers.             *)
(*                                                                         *)
(* A datagram's fields are taken as parsed; one that does not parse or     *)
(* fails the length and range checks is refused by RefuseMalformed.        *)
(***************************************************************************)
EXTENDS Integers, Sequences, FiniteSets, SequencesExt

CONSTANTS
    Names,       \* peer names
    Ips,         \* addresses a datagram can come from
    Ports,       \* TCP ports a peer can listen on
    Contents,    \* content names
    MaxPeers,    \* MAX_PEERS (100 in protocol.h)
    MaxContent,  \* MAX_CONTENT (100)
    SentLimit,   \* 0x7fffffff, where sent_count stops
    PageLines    \* lines of a listing that fit in one datagram

\* The tables have room, and a page holds a line.
ASSUME DirectoryAssumption ==
    /\ MaxPeers \in Nat \ {0} /\ MaxContent \in Nat \ {0}
    /\ SentLimit \in Nat \ {0} /\ PageLines \in Nat \ {0}
    /\ Ports \subseteq Nat \ {0}

VARIABLES
    peers,   \* static Peer peers[MAX_PEERS]
    npeers,  \* static int npeers
    out      \* the datagrams sent by the last step, in the order sent

server == <<peers, npeers, out>>

Slots == 1..MaxPeers

\* A slot of the table after memset(p, 0, sizeof(*p)).
Cleared == [in_use |-> FALSE, name |-> "", ip |-> "", tcp_port |-> 0,
            contents |-> <<>>, sent_count |-> <<>>]

Peer == [in_use : BOOLEAN, name : Names \cup {""}, ip : Ips \cup {""},
         tcp_port : Ports \cup {0},
         contents : Seq(Contents), sent_count : Seq(0..SentLimit)]

\* The datagrams that the server sends.
ack == [type |-> "A", ip |-> "", tcp_port |-> 0, lines |-> <<>>]
err == [ack EXCEPT !.type = "E"]
found(p) == [ack EXCEPT !.type = "S", !.ip = p.ip, !.tcp_port = p.tcp_port]
page(type, lines) == [ack EXCEPT !.type = type, !.lines = lines]

Init ==
    /\ peers = [i \in Slots |-> Cleared]
    /\ npeers = 0
    /\ out = <<>>

-----------------------------------------------------------------------------
(* The look-ups return the first slot; 0 stands for -1.                     *)

First(i, S) == i \in S /\ \A j \in S : i <= j

find_peer_by_name(name) == {i \in Slots : peers[i].in_use /\ peers[i].name = name}
find_peer_by_ip(ip) == {i \in Slots : peers[i].in_use /\ peers[i].ip = ip}
first_free_peer_slot == {i \in Slots : ~peers[i].in_use}

find_content_index_in_peer(p, c) ==
    {k \in 1..Len(p.contents) : p.contents[k] = c}

\* A plausible bug: the loop is missing, the last content goes.
ShiftNone(p, k) == [p EXCEPT !.contents = RemoveAt(@, Len(@)),
                             !.sent_count = RemoveAt(@, Len(@))]

\* A plausible bug: the loop shifts the names and forgets the counts.
ShiftNames(p, k) == [p EXCEPT !.contents = RemoveAt(@, k),
                              !.sent_count = SubSeq(@, 1, Len(@) - 1)]

\* The shift loop of T, over both arrays.
Shift(p, k) == [p EXCEPT !.contents = RemoveAt(@, k), !.sent_count = RemoveAt(@, k)]

-----------------------------------------------------------------------------
(* R: register a content.                                                   *)

\* A plausible bug: the peer's contents are not looked through.
RegisterAgain(ip, name, content, port) ==
    \E i \in Slots :
      /\ First(i, find_peer_by_name(name))
      /\ peers[i].ip = ip
      /\ Len(peers[i].contents) < MaxContent
      /\ peers' = [peers EXCEPT ![i].contents = Append(@, content),
                                ![i].sent_count = Append(@, 0),
                                ![i].tcp_port = port]
      /\ out' = <<ack>>
      /\ UNCHANGED npeers

\* A plausible bug: the content table is never full.
RegisterPast(ip, name, content, port) ==
    \E i \in Slots :
      /\ First(i, find_peer_by_name(name))
      /\ peers[i].ip = ip
      /\ find_content_index_in_peer(peers[i], content) = {}
      /\ peers' = [peers EXCEPT ![i].contents = Append(@, content),
                                ![i].sent_count = Append(@, 0),
                                ![i].tcp_port = port]
      /\ out' = <<ack>>
      /\ UNCHANGED npeers

RegisterMore(ip, name, content, port) ==
    \E i \in Slots :
      /\ First(i, find_peer_by_name(name))
      /\ peers[i].ip = ip
      /\ Len(peers[i].contents) < MaxContent
      /\ find_content_index_in_peer(peers[i], content) = {}
      /\ peers' = [peers EXCEPT ![i].contents = Append(@, content),
                                ![i].sent_count = Append(@, 0),
                                ![i].tcp_port = port]
      /\ out' = <<ack>>
      /\ UNCHANGED npeers

RegisterNew(ip, name, content, port) ==
    \E i \in Slots :
      /\ find_peer_by_name(name) = {}
      /\ First(i, first_free_peer_slot)
      /\ peers' = [peers EXCEPT ![i] =
                     [in_use |-> TRUE, name |-> name, ip |-> ip, tcp_port |-> port,
                      contents |-> <<content>>, sent_count |-> <<0>>]]
      /\ npeers' = npeers + 1
      /\ out' = <<ack>>

\* The name is another host's, the tables are full, or it is registered.
RegisterRefused(ip, name, content) ==
    /\ \/ \E i \in Slots :
            /\ First(i, find_peer_by_name(name))
            /\ \/ peers[i].ip # ip
               \/ Len(peers[i].contents) >= MaxContent
               \/ find_content_index_in_peer(peers[i], content) # {}
       \/ find_peer_by_name(name) = {} /\ first_free_peer_slot = {}
    /\ out' = <<err>>
    /\ UNCHANGED <<peers, npeers>>

Register(ip, name, content, port) ==
    \/ RegisterMore(ip, name, content, port)
    \/ RegisterNew(ip, name, content, port)
    \/ RegisterRefused(ip, name, content)

-----------------------------------------------------------------------------
(* S: search.                                                               *)

\* The peer in slot i offers the content as its k-th; a count of SentLimit is
\* not below the initial best_count.
Candidate(content, i, k) ==
    /\ peers[i].in_use
    /\ First(k, find_content_index_in_peer(peers[i], content))
    /\ peers[i].sent_count[k] < SentLimit

\* The first of the slots with the least count is answered.
SearchFound(content) ==
    \E i \in Slots, k \in 1..MaxContent :
      /\ Candidate(content, i, k)
      /\ \A j \in Slots, l \in 1..MaxContent :
           Candidate(content, j, l) =>
             \/ peers[i].sent_count[k] < peers[j].sent_count[l]
             \/ peers[i].sent_count[k] = peers[j].sent_count[l] /\ i <= j
      /\ out' = <<found(peers[i])>>
      /\ peers' = [peers EXCEPT ![i].sent_count[k] = @ + 1]
      /\ UNCHANGED npeers

NoCandidate(content) ==
    \A i \in Slots, k \in 1..MaxContent : ~Candidate(content, i, k)

\* A plausible bug: a search that fails is not answered.
SearchSilent(content) ==
    /\ NoCandidate(content)
    /\ out' = <<>>
    /\ UNCHANGED <<peers, npeers>>

SearchFails(content) ==
    /\ NoCandidate(content)
    /\ out' = <<err>>
    /\ UNCHANGED <<peers, npeers>>

Search(content) == SearchFound(content) \/ SearchFails(content)

-----------------------------------------------------------------------------
(* T: deregister a content.  The peer is looked up by the sender's address. *)

DeregisterContent(ip, content) ==
    \E i \in Slots : \E k \in 1..MaxContent :
      /\ First(i, find_peer_by_ip(ip))
      /\ First(k, find_content_index_in_peer(peers[i], content))
      /\ Len(peers[i].contents) > 1
      /\ peers' = [peers EXCEPT ![i] = Shift(@, k)]
      /\ out' = <<ack>>
      /\ UNCHANGED npeers

\* A plausible bug: the slot is cleared and npeers keeps counting it.
DeregisterPeerUncounted(ip, content) ==
    \E i \in Slots :
      /\ First(i, find_peer_by_ip(ip))
      /\ peers[i].contents = <<content>>
      /\ peers' = [peers EXCEPT ![i] = Cleared]
      /\ out' = <<ack>>
      /\ UNCHANGED npeers

DeregisterPeer(ip, content) ==
    \E i \in Slots :
      /\ First(i, find_peer_by_ip(ip))
      /\ peers[i].contents = <<content>>
      /\ peers' = [peers EXCEPT ![i] = Cleared]
      /\ npeers' = npeers - 1
      /\ out' = <<ack>>

DeregisterRefused(ip, content) ==
    /\ \/ find_peer_by_ip(ip) = {}
       \/ \E i \in Slots :
            /\ First(i, find_peer_by_ip(ip))
            /\ find_content_index_in_peer(peers[i], content) = {}
    /\ out' = <<err>>
    /\ UNCHANGED <<peers, npeers>>

Deregister(ip, content) ==
    \/ DeregisterContent(ip, content)
    \/ DeregisterPeer(ip, content)
    \/ DeregisterRefused(ip, content)

-----------------------------------------------------------------------------
(* B: a peer leaves.  An unknown name is acknowledged too.                  *)

\* A plausible bug: the datagram is acknowledged and that is all.
ByeIgnored(name) == out' = <<ack>> /\ UNCHANGED <<peers, npeers>>

Bye(name) ==
    /\ \/ \E i \in Slots :
            /\ First(i, find_peer_by_name(name))
            /\ peers' = [peers EXCEPT ![i] = Cleared]
            /\ npeers' = npeers - 1
       \/ find_peer_by_name(name) = {} /\ UNCHANGED <<peers, npeers>>
    /\ out' = <<ack>>

-----------------------------------------------------------------------------
(* O: the listing, each content once, in pages of which the last is an F.   *)

Hosted(i, j) == i \in Slots /\ peers[i].in_use /\ j \in 1..Len(peers[i].contents)

\* One pass of the two nested loops, the k-th, with what is in uniq before it.
Noted(k, seen) ==
    LET i == ((k - 1) \div MaxContent) + 1
        j == ((k - 1) % MaxContent) + 1
    IN  IF Hosted(i, j) /\ peers[i].contents[j] \notin ToSet(seen)
        THEN Append(seen, peers[i].contents[j]) ELSE seen

uniq ==
    LET after[k \in 0..(MaxPeers * MaxContent)] ==
          IF k = 0 THEN <<>> ELSE Noted(k, after[k - 1])
    IN  after[MaxPeers * MaxContent]

Pages ==
    LET n == Len(uniq)
        last == IF n = 0 THEN 1 ELSE (n + PageLines - 1) \div PageLines
        Upto(k) == IF k * PageLines < n THEN k * PageLines ELSE n
    IN  [k \in 1..last |->
           page(IF k = last THEN "F" ELSE "M",
                SubSeq(uniq, (k - 1) * PageLines + 1, Upto(k)))]

List ==
    /\ out' = Pages
    /\ UNCHANGED <<peers, npeers>>

RefuseMalformed ==
    /\ out' = <<err>>
    /\ UNCHANGED <<peers, npeers>>

-----------------------------------------------------------------------------
Next ==
    \/ \E ip \in Ips, c \in Contents :
         \/ \E n \in Names, port \in Ports : Register(ip, n, c, port)
         \/ Deregister(ip, c)
    \/ \E c \in Contents : Search(c)
    \/ \E n \in Names : Bye(n)
    \/ List
    \/ RefuseMalformed

Spec == Init /\ [][Next]_server

-----------------------------------------------------------------------------
(* Properties.                                                              *)

\* The table's part of the type invariant.
TableTypeOK == peers \in [Slots -> Peer] /\ npeers \in Int

\* The table and the datagrams have their types; no count of the table runs
\* past the limit.
TypeOK ==
    /\ TableTypeOK
    /\ out \in Seq([type : {"A", "E", "S", "M", "F"}, ip : Ips \cup {""},
                    tcp_port : Ports \cup {0}, lines : Seq(Contents)])

\* A name stands in one slot only: find_peer_by_name and BYE stop at the first.
NamesUnique ==
    \A i, j \in Slots :
        peers[i].in_use /\ peers[j].in_use /\ peers[i].name = peers[j].name => i = j

\* A slot in use offers something, nothing twice, and has a count for each of
\* its contents; a slot not in use is clear.
EntryWhole(p) ==
    IF p.in_use
    THEN /\ Len(p.contents) \in 1..MaxContent
         /\ Len(p.sent_count) = Len(p.contents)
         /\ IsInjective(p.contents)
    ELSE p = Cleared
EntriesWhole == \A i \in Slots : EntryWhole(peers[i])

\* npeers counts the slots in use, through R, T and B in any order.
NpeersCounts == npeers = Cardinality({i \in Slots : peers[i].in_use})

\* The table implements Catalogue: whatever slots are reused and arrays are
\* shifted, every offer keeps its own address and its own count.
SlotOf(name) == CHOOSE i \in Slots : peers[i].in_use /\ peers[i].name = name
SentOf(p) ==
    [c \in ToSet(p.contents) |->
       p.sent_count[CHOOSE k \in 1..Len(p.contents) : p.contents[k] = c]]
HostsOf(p) == [ip |-> p.ip, tcp_port |-> p.tcp_port, sent |-> SentOf(p)]
CataloguedNames == {peers[i].name : i \in {j \in Slots : peers[j].in_use}}
CataloguedHosts == [n \in CataloguedNames |-> HostsOf(peers[SlotOf(n)])]
CataloguedAnswer ==
    IF \E k \in DOMAIN out : out[k].type = "S" THEN <<out[1].ip, out[1].tcp_port>> ELSE <<>>
Catalogued == INSTANCE Catalogue WITH hosts <- CataloguedHosts, answer <- CataloguedAnswer
ImplementsCatalogue == Catalogued!Spec
=============================================================================
