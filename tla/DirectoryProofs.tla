-------------------------- MODULE DirectoryProofs --------------------------
(***************************************************************************)
(* Theorems about the index server, for every value of the constants.      *)
(***************************************************************************)
EXTENDS DirectoryServer, FiniteSetTheorems, DataLemmas, TLAPS

-----------------------------------------------------------------------------
(* The invariant of the table.                                              *)

TableInv == TableTypeOK /\ NamesUnique /\ EntriesWhole /\ NpeersCounts

InUse == {i \in Slots : peers[i].in_use}

LEMMA SlotsFinite == IsFiniteSet(Slots) /\ IsFiniteSet(InUse)
  <1>1. IsFiniteSet(Slots)
    <2>1. 1 \in Int /\ MaxPeers \in Int
      BY DirectoryAssumption
    <2> QED BY <2>1, FS_Interval DEF Slots
  <1>2. InUse \in SUBSET Slots
    BY DEF InUse
  <1> QED BY <1>1, <1>2, FS_Subset

LEMMA ClearedWhole == Cleared \in Peer /\ ~Cleared.in_use /\ EntryWhole(Cleared)
  BY DirectoryAssumption DEF Cleared, Peer, EntryWhole

\* One slot gets a new entry: the invariant stays when the entry is whole, its
\* name is no other slot's, and npeers follows the slot's use.
LEMMA ReplaceSlot ==
    ASSUME TableInv, NEW i \in Slots, NEW q \in Peer, EntryWhole(q),
           peers' = [peers EXCEPT ![i] = q],
           \A j \in Slots \ {i} : q.in_use /\ peers[j].in_use => peers[j].name # q.name,
           npeers' = (IF q.in_use THEN 1 ELSE 0) + npeers
                     - (IF peers[i].in_use THEN 1 ELSE 0)
    PROVE  TableInv'
  <1>1. TableTypeOK'
    <2>1. peers' \in [Slots -> Peer]
      BY DEF TableInv, TableTypeOK
    <2>2. npeers' \in Int
      BY DEF TableInv, TableTypeOK
    <2> QED BY <2>1, <2>2 DEF TableTypeOK
  <1>2. NamesUnique'
    BY DEF TableInv, NamesUnique, TableTypeOK
  <1>3. EntriesWhole'
    BY DEF TableInv, EntriesWhole, TableTypeOK, EntryWhole
  <1>4. NpeersCounts'
    <2>1. InUse' = IF q.in_use THEN InUse \cup {i} ELSE InUse \ {i}
      BY DEF InUse, TableInv, TableTypeOK
    <2>2. i \in InUse <=> peers[i].in_use
      BY DEF InUse
    <2>3. npeers = Cardinality(InUse) /\ npeers \in Int
      BY DEF TableInv, NpeersCounts, InUse, TableTypeOK
    <2>4. q.in_use \in BOOLEAN
      BY DEF Peer
    <2>5. npeers' = Cardinality(InUse')
      <3>1. CASE q.in_use
        <4>1. Cardinality(InUse \cup {i}) =
                IF i \in InUse THEN Cardinality(InUse) ELSE Cardinality(InUse) + 1
          BY SlotsFinite, FS_AddElement
        <4> QED BY <2>1, <2>2, <2>3, <3>1, <4>1
      <3>2. CASE ~q.in_use
        <4>1. Cardinality(InUse \ {i}) =
                IF i \in InUse THEN Cardinality(InUse) - 1 ELSE Cardinality(InUse)
          BY SlotsFinite, FS_RemoveElement
        <4> QED BY <2>1, <2>2, <2>3, <3>2, <4>1
      <3> QED BY <2>4, <3>1, <3>2
    <2> QED BY <2>5 DEF NpeersCounts, InUse
  <1> QED BY <1>1, <1>2, <1>3, <1>4 DEF TableInv

\* The shift keeps an entry whole.
LEMMA ShiftWhole ==
    ASSUME NEW p \in Peer, EntryWhole(p), p.in_use,
           NEW k \in 1..Len(p.contents), Len(p.contents) > 1
    PROVE  /\ Shift(p, k) \in Peer /\ EntryWhole(Shift(p, k))
           /\ Shift(p, k).in_use /\ Shift(p, k).name = p.name
  <1> DEFINE c == RemoveAt(p.contents, k)
             t == RemoveAt(p.sent_count, k)
  <1>1. /\ p.contents \in Seq(Contents) /\ p.sent_count \in Seq(0..SentLimit)
        /\ Len(p.sent_count) = Len(p.contents) /\ IsInjective(p.contents)
        /\ Len(p.contents) \in 1..MaxContent
    BY DEF Peer, EntryWhole
  <1>2. /\ c \in Seq(Contents) /\ Len(c) = Len(p.contents) - 1
        /\ \A j \in 1..(Len(p.contents) - 1) :
             c[j] = IF j < k THEN p.contents[j] ELSE p.contents[j + 1]
    <2>1. PICK s \in Seq(Contents) : s = p.contents /\ k \in 1..Len(s)
      BY <1>1
    <2>2. /\ RemoveAt(s, k) \in Seq(Contents) /\ Len(RemoveAt(s, k)) = Len(s) - 1
          /\ \A j \in 1..(Len(s) - 1) :
               RemoveAt(s, k)[j] = IF j < k THEN s[j] ELSE s[j + 1]
      BY <2>1, RemoveAtElements, ZenonT(40)
    <2> QED BY <2>1, <2>2
  <1>3. t \in Seq(0..SentLimit) /\ Len(t) = Len(p.contents) - 1
    <2>1. PICK s \in Seq(0..SentLimit) : s = p.sent_count /\ k \in 1..Len(s)
      BY <1>1
    <2>2. RemoveAt(s, k) \in Seq(0..SentLimit) /\ Len(RemoveAt(s, k)) = Len(s) - 1
      BY <2>1, RemoveAtElements
    <2> QED BY <1>1, <2>1, <2>2
  <1> HIDE DEF c, t
  <1>4. Len(c) \in 1..MaxContent
    BY <1>1, <1>2, DirectoryAssumption
  <1>5. IsInjective(c)
    <2> SUFFICES ASSUME NEW a \in 1..(Len(p.contents) - 1),
                        NEW b \in 1..(Len(p.contents) - 1), c[a] = c[b]
                 PROVE  a = b
      BY <1>2 DEF IsInjective
    <2>1. \A m, n \in 1..Len(p.contents) : p.contents[m] = p.contents[n] => m = n
      BY <1>1 DEF IsInjective
    <2>2. PICK n \in Nat : n = Len(p.contents)
      BY <1>1
    <2>3. PICK i \in 1..n : c[a] = p.contents[i] /\ i = IF a < k THEN a ELSE a + 1
      <3>1. (IF a < k THEN a ELSE a + 1) \in 1..n
        BY <2>2
      <3> QED BY <1>2, <3>1
    <2>4. PICK j \in 1..n : c[b] = p.contents[j] /\ j = IF b < k THEN b ELSE b + 1
      <3>1. (IF b < k THEN b ELSE b + 1) \in 1..n
        BY <2>2
      <3> QED BY <1>2, <3>1
    <2>5. i = j
      BY <2>1, <2>2, <2>3, <2>4
    <2> QED BY <2>2, <2>3, <2>4, <2>5
  <1>6. Shift(p, k) = [p EXCEPT !.contents = c, !.sent_count = t]
    BY DEF Shift, c, t, Peer
  <1> QED BY <1>2, <1>3, <1>4, <1>5, <1>6 DEF Peer, EntryWhole

\* Another content at the end keeps an entry whole.
LEMMA AppendWhole ==
    ASSUME NEW p \in Peer, EntryWhole(p), p.in_use, NEW c \in Contents,
           NEW port \in Ports, Len(p.contents) < MaxContent,
           find_content_index_in_peer(p, c) = {}
    PROVE  LET q == [p EXCEPT !.contents = Append(@, c), !.sent_count = Append(@, 0),
                              !.tcp_port = port]
           IN  q \in Peer /\ EntryWhole(q) /\ q.in_use /\ q.name = p.name
  <1>1. /\ p.contents \in Seq(Contents) /\ p.sent_count \in Seq(0..SentLimit)
        /\ Len(p.sent_count) = Len(p.contents) /\ IsInjective(p.contents)
        /\ Len(p.contents) \in 1..MaxContent
    BY DEF Peer, EntryWhole
  <1>2. 0 \in 0..SentLimit
    BY DirectoryAssumption
  <1>3. /\ Append(p.contents, c) \in Seq(Contents)
        /\ Len(Append(p.contents, c)) = Len(p.contents) + 1
        /\ Append(p.sent_count, 0) \in Seq(0..SentLimit)
        /\ Len(Append(p.sent_count, 0)) = Len(p.contents) + 1
    BY <1>1, <1>2
  <1>4. IsInjective(Append(p.contents, c))
    BY <1>1 DEF IsInjective, find_content_index_in_peer
  <1>5. Len(p.contents) + 1 \in 1..MaxContent
    BY <1>1, DirectoryAssumption
  <1> QED BY <1>3, <1>4, <1>5 DEF Peer, EntryWhole

-----------------------------------------------------------------------------
(* The handlers, one by one.                                                *)

LEMMA InitTable == Init => TableInv
  <1> SUFFICES ASSUME Init PROVE TableInv
    OBVIOUS
  <1>1. \A i \in Slots : peers[i] = Cleared
    BY DEF Init
  <1>2. TableTypeOK /\ NamesUnique /\ EntriesWhole
    <2>1. peers \in [Slots -> Peer]
      BY ClearedWhole DEF Init
    <2> QED BY <1>1, <2>1, ClearedWhole DEF Init, TableTypeOK, NamesUnique, EntriesWhole
  <1>3. NpeersCounts
    <2>1. {i \in Slots : peers[i].in_use} = {}
      BY <1>1, ClearedWhole
    <2> QED BY <2>1, FS_EmptySet DEF Init, NpeersCounts
  <1> QED BY <1>2, <1>3 DEF TableInv

LEMMA RegisterMoreTable ==
    ASSUME TableInv, NEW ip \in Ips, NEW n \in Names, NEW c \in Contents, NEW port \in Ports,
           RegisterMore(ip, n, c, port)
    PROVE  TableInv'
  <1>1. PICK i \in Slots :
          /\ First(i, find_peer_by_name(n))
          /\ Len(peers[i].contents) < MaxContent
          /\ find_content_index_in_peer(peers[i], c) = {}
          /\ peers' = [peers EXCEPT ![i].contents = Append(@, c),
                                    ![i].sent_count = Append(@, 0),
                                    ![i].tcp_port = port]
          /\ npeers' = npeers
    BY DEF RegisterMore
  <1> DEFINE p == peers[i]
             q == [p EXCEPT !.contents = Append(@, c), !.sent_count = Append(@, 0),
                            !.tcp_port = port]
  <1>2. p \in Peer /\ EntryWhole(p) /\ p.in_use /\ p.name = n
    BY <1>1 DEF TableInv, TableTypeOK, EntriesWhole, First, find_peer_by_name
  <1>3. q \in Peer /\ EntryWhole(q) /\ q.in_use /\ q.name = p.name
    <2>1. Len(p.contents) < MaxContent /\ find_content_index_in_peer(p, c) = {}
      BY <1>1
    <2> HIDE DEF p
    <2> QED BY <1>2, <2>1, AppendWhole
  <1>4. peers' = [peers EXCEPT ![i] = q]
    BY <1>1 DEF TableInv, TableTypeOK, Peer
  <1>5. \A j \in Slots \ {i} : peers[j].in_use => peers[j].name # q.name
    BY <1>2, <1>3 DEF TableInv, NamesUnique
  <1>6. npeers' = 1 + npeers - 1
    BY <1>1 DEF TableInv, TableTypeOK
  <1> HIDE DEF q
  <1> QED BY <1>2, <1>3, <1>4, <1>5, <1>6, ReplaceSlot

LEMMA RegisterNewTable ==
    ASSUME TableInv, NEW ip \in Ips, NEW n \in Names, NEW c \in Contents, NEW port \in Ports,
           RegisterNew(ip, n, c, port)
    PROVE  TableInv'
  <1> DEFINE q == [in_use |-> TRUE, name |-> n, ip |-> ip, tcp_port |-> port,
                   contents |-> <<c>>, sent_count |-> <<0>>]
  <1>1. PICK i \in Slots :
          /\ find_peer_by_name(n) = {}
          /\ First(i, first_free_peer_slot)
          /\ peers' = [peers EXCEPT ![i] = q]
          /\ npeers' = npeers + 1
    BY DEF RegisterNew
  <1>2. q \in Peer /\ EntryWhole(q)
    <2>1. <<c>> \in Seq(Contents) /\ <<0>> \in Seq(0..SentLimit)
          /\ Len(<<c>>) = 1 /\ Len(<<0>>) = 1 /\ 1 \in 1..MaxContent
      BY DirectoryAssumption
    <2>2. IsInjective(<<c>>)
      BY DEF IsInjective
    <2> QED BY <2>1, <2>2 DEF Peer, EntryWhole
  <1>3. ~peers[i].in_use
    BY <1>1 DEF First, first_free_peer_slot
  <1>4. \A j \in Slots : peers[j].in_use => peers[j].name # q.name
    BY <1>1 DEF find_peer_by_name
  <1>5. q.in_use /\ npeers' = 1 + npeers - 0
    BY <1>1 DEF TableInv, TableTypeOK
  <1> HIDE DEF q
  <1> QED BY <1>1, <1>2, <1>3, <1>4, <1>5, ReplaceSlot

LEMMA SearchTable ==
    ASSUME TableInv, NEW c \in Contents, SearchFound(c)
    PROVE  TableInv'
  <1>1. PICK i \in Slots, k \in 1..MaxContent :
          /\ Candidate(c, i, k)
          /\ peers' = [peers EXCEPT ![i].sent_count[k] = @ + 1]
          /\ npeers' = npeers
    BY DEF SearchFound
  <1> DEFINE p == peers[i]
             t == [p.sent_count EXCEPT ![k] = p.sent_count[k] + 1]
             q == [p EXCEPT !.sent_count = t]
  <1>2. /\ p \in Peer /\ EntryWhole(p) /\ p.in_use
        /\ k \in 1..Len(p.contents) /\ p.sent_count[k] < SentLimit
    BY <1>1 DEF TableInv, TableTypeOK, EntriesWhole, Candidate, First,
                find_content_index_in_peer
  <1>3. p.sent_count \in Seq(0..SentLimit) /\ Len(p.sent_count) = Len(p.contents)
    BY <1>2 DEF Peer, EntryWhole
  <1>4. p.sent_count[k] + 1 \in 0..SentLimit
    <2>1. p.sent_count[k] \in 0..SentLimit
      <3> DEFINE s == p.sent_count
      <3>1. s \in Seq(0..SentLimit) /\ k \in 1..Len(s)
        BY <1>2, <1>3
      <3> HIDE DEF s
      <3>2. s[k] \in 0..SentLimit
        BY <3>1, ElementOfSeq
      <3> QED BY <3>2 DEF s
    <2> QED BY <1>2, <2>1, DirectoryAssumption
  <1>5. t \in Seq(0..SentLimit) /\ Len(t) = Len(p.contents)
    BY <1>2, <1>3, <1>4, ExceptSeq
  <1>6. q \in Peer /\ EntryWhole(q) /\ q.in_use /\ q.name = p.name
    <2> HIDE DEF t
    <2> QED BY <1>2, <1>5 DEF Peer, EntryWhole
  <1>9. peers' = [peers EXCEPT ![i] = q]
    BY <1>1, <1>2 DEF Peer
  <1>7. \A j \in Slots \ {i} : peers[j].in_use => peers[j].name # q.name
    BY <1>2, <1>6 DEF TableInv, NamesUnique
  <1>8. npeers' = 1 + npeers - 1
    BY <1>1 DEF TableInv, TableTypeOK
  <1> HIDE DEF q
  <1> QED BY <1>2, <1>6, <1>7, <1>8, <1>9, ReplaceSlot

LEMMA DeregisterContentTable ==
    ASSUME TableInv, NEW ip \in Ips, NEW c \in Contents, DeregisterContent(ip, c)
    PROVE  TableInv'
  <1>1. PICK i \in Slots, k \in 1..MaxContent :
          /\ First(i, find_peer_by_ip(ip))
          /\ First(k, find_content_index_in_peer(peers[i], c))
          /\ Len(peers[i].contents) > 1
          /\ peers' = [peers EXCEPT ![i] = Shift(@, k)]
          /\ npeers' = npeers
    BY DEF DeregisterContent
  <1> DEFINE p == peers[i]
             q == Shift(p, k)
  <1>2. p \in Peer /\ EntryWhole(p) /\ p.in_use /\ k \in 1..Len(p.contents)
    BY <1>1 DEF TableInv, TableTypeOK, EntriesWhole, First, find_peer_by_ip,
                find_content_index_in_peer
  <1>3. q \in Peer /\ EntryWhole(q) /\ q.in_use /\ q.name = p.name
    BY <1>1, <1>2, ShiftWhole
  <1>4. peers' = [peers EXCEPT ![i] = q]
    BY <1>1 DEF TableInv, TableTypeOK
  <1>5. \A j \in Slots \ {i} : peers[j].in_use => peers[j].name # q.name
    BY <1>2, <1>3 DEF TableInv, NamesUnique
  <1>6. npeers' = 1 + npeers - 1
    BY <1>1 DEF TableInv, TableTypeOK
  <1> HIDE DEF q
  <1> QED BY <1>2, <1>3, <1>4, <1>5, <1>6, ReplaceSlot

\* A slot that was in use is cleared, by T or by B.
LEMMA ClearTable ==
    ASSUME TableInv, NEW i \in Slots, peers[i].in_use,
           peers' = [peers EXCEPT ![i] = Cleared], npeers' = npeers - 1
    PROVE  TableInv'
  <1>1. npeers' = 0 + npeers - 1
    BY DEF TableInv, TableTypeOK
  <1> QED BY <1>1, ClearedWhole, ReplaceSlot

LEMMA NextTable == TableInv /\ [Next]_server => TableInv'
  <1> SUFFICES ASSUME TableInv, [Next]_server PROVE TableInv'
    OBVIOUS
  <1>1. CASE UNCHANGED <<peers, npeers>>
    BY <1>1 DEF TableInv, TableTypeOK, NamesUnique, EntriesWhole, EntryWhole, NpeersCounts
  <1>2. ASSUME NEW ip \in Ips, NEW c \in Contents, NEW n \in Names, NEW port \in Ports,
               Register(ip, n, c, port)
        PROVE  TableInv'
    BY <1>1, <1>2, RegisterMoreTable, RegisterNewTable DEF Register, RegisterRefused
  <1>3. ASSUME NEW ip \in Ips, NEW c \in Contents, Deregister(ip, c)
        PROVE  TableInv'
    <2>1. CASE DeregisterPeer(ip, c)
      <3>1. PICK i \in Slots : /\ First(i, find_peer_by_ip(ip))
                               /\ peers' = [peers EXCEPT ![i] = Cleared]
                               /\ npeers' = npeers - 1
        BY <2>1 DEF DeregisterPeer
      <3>2. peers[i].in_use
        BY <3>1 DEF First, find_peer_by_ip
      <3> QED BY <3>1, <3>2, ClearTable
    <2> QED BY <1>1, <1>3, <2>1, DeregisterContentTable DEF Deregister, DeregisterRefused
  <1>4. ASSUME NEW c \in Contents, Search(c)
        PROVE  TableInv'
    BY <1>1, <1>4, SearchTable DEF Search, SearchFails
  <1>5. ASSUME NEW n \in Names, Bye(n)
        PROVE  TableInv'
    <2>1. ASSUME NEW i \in Slots, First(i, find_peer_by_name(n)),
                 peers' = [peers EXCEPT ![i] = Cleared], npeers' = npeers - 1
          PROVE  TableInv'
      <3>1. peers[i].in_use
        BY <2>1 DEF First, find_peer_by_name
      <3> QED BY <2>1, <3>1, ClearTable
    <2> QED BY <1>1, <1>5, <2>1 DEF Bye
  <1> QED
    BY <1>1, <1>2, <1>3, <1>4, <1>5 DEF Next, List, RefuseMalformed, server

\* The table of the index server is well formed after any sequence of
\* datagrams: TableInv is inductive.
THEOREM TableCorrect == Spec => []TableInv
  <1> QED BY InitTable, NextTable, PTL DEF Spec

\* Each slot in use offers distinct contents, with a count for each, and each
\* name stands in one slot.
THEOREM EntriesCorrect == Spec => [](EntriesWhole /\ NamesUnique)
  <1>1. TableInv => EntriesWhole /\ NamesUnique
    BY DEF TableInv
  <1> QED BY <1>1, TableCorrect, PTL

\* npeers is the number of the slots in use.
THEOREM CounterCorrect == Spec => []NpeersCounts
  <1>1. TableInv => NpeersCounts
    BY DEF TableInv
  <1> QED BY <1>1, TableCorrect, PTL

-----------------------------------------------------------------------------
(* The datagrams that the server sends.                                     *)

Answer == [type : {"A", "E", "S", "M", "F"}, ip : Ips \cup {""},
           tcp_port : Ports \cup {0}, lines : Seq(Contents)]

\* The loops over the table end with a sequence of contents.
LEMMA UniqType ==
    ASSUME TableTypeOK
    PROVE  uniq \in Seq(Contents)
  <1> DEFINE N == MaxPeers * MaxContent
             S == Seq(Contents)
             after == CHOOSE after :
                        after = [k \in 0..N |-> IF k = 0 THEN <<>> ELSE Noted(k, after[k - 1])]
  <1>1. N \in Nat
    BY DirectoryAssumption
  <1>2. ASSUME NEW k \in Nat, NEW seen \in S PROVE Noted(k, seen) \in S
    <2> DEFINE i == ((k - 1) \div MaxContent) + 1
               j == ((k - 1) % MaxContent) + 1
    <2>1. ASSUME Hosted(i, j) PROVE peers[i].contents[j] \in Contents
      <3>1. i \in Slots /\ peers[i] \in Peer /\ j \in 1..Len(peers[i].contents)
        BY <2>1 DEF Hosted, TableTypeOK
      <3> HIDE DEF i, j
      <3>2. PICK s \in Seq(Contents) : s = peers[i].contents
        BY <3>1 DEF Peer
      <3> QED BY <3>1, <3>2
    <2> HIDE DEF i, j
    <2>2. (IF Hosted(i, j) /\ peers[i].contents[j] \notin ToSet(seen)
           THEN Append(seen, peers[i].contents[j]) ELSE seen) \in S
      BY <2>1
    <2> QED BY <2>2 DEF Noted, i, j
  <1>3. PICK step \in [Nat \X S -> S] :
          \A k \in Nat, seen \in S : step[<<k, seen>>] = Noted(k, seen)
    <2> DEFINE t == [ks \in Nat \X S |-> Noted(ks[1], ks[2])]
    <2>1. t \in [Nat \X S -> S]
      BY <1>2
    <2>2. \A k \in Nat, seen \in S : t[<<k, seen>>] = Noted(k, seen)
      OBVIOUS
    <2> HIDE DEF t, S
    <2> QED BY <2>1, <2>2
  <1>4. PICK g \in [0..N -> S] :
          g[0] = <<>> /\ \A k \in 1..N : g[k] = step[<<k, g[k - 1]>>]
    <2>1. PICK base \in S : base = <<>>
      <3>1. <<>> \in Seq(Contents)
        OBVIOUS
      <3> HIDE DEF N, after
      <3> QED BY <3>1
    <2> HIDE DEF N, S
    <2>2. \E g : Runs(g, N, S, base, step)
      BY <1>1, LoopStates
    <2> QED BY <2>1, <2>2 DEF Runs
  <1>5. g = [k \in 0..N |-> IF k = 0 THEN <<>> ELSE Noted(k, g[k - 1])]
    <2>1. ASSUME NEW k \in 1..N PROVE g[k] = Noted(k, g[k - 1])
      <3>1. k \in Nat /\ k - 1 \in 0..N
        BY <1>1
      <3>2. g[k - 1] \in S
        BY <3>1
      <3>3. step[<<k, g[k - 1]>>] = Noted(k, g[k - 1])
        BY <1>3, <3>1, <3>2
      <3> QED BY <1>4, <3>3
    <2>2. \A k \in 0..N : k = 0 \/ k \in 1..N
      BY <1>1
    <2> HIDE DEF N, S
    <2> QED BY <1>4, <2>1, <2>2
  <1>6. after = [k \in 0..N |-> IF k = 0 THEN <<>> ELSE Noted(k, after[k - 1])]
    BY <1>5
  <1>7. uniq = after[N]
    BY DEF uniq
  <1> HIDE DEF after, N, S
  <1>8. \A k \in 0..N : after[k] \in S
    <2>1. after[0] = <<>> /\ \A k \in 1..N : after[k] = Noted(k, after[k - 1])
      <3>1. 0 \in 0..N /\ \A k \in 1..N : k \in 0..N /\ k # 0
        BY <1>1
      <3> QED BY <1>6, <3>1
    <2>2. \A k \in 1..N : after[k - 1] \in S => after[k] \in S
      <3>1. \A k \in 1..N : k \in Nat
        BY <1>1
      <3> QED BY <1>2, <2>1, <3>1
    <2>3. PICK f : f = after
      OBVIOUS
    <2>4. f[0] \in S /\ \A k \in 1..N : f[k - 1] \in S => f[k] \in S
      <3>1. <<>> \in S
        BY DEF S
      <3> QED BY <2>1, <2>2, <2>3, <3>1
    <2>5. \A k \in 0..N : f[k] \in S
      BY <1>1, <2>4, LoopInvariant
    <2> QED BY <2>3, <2>5
  <1> QED BY <1>1, <1>7, <1>8 DEF S

\* A listing is sent in one or more pages; the last one, and no other, is an F.
LEMMA PagesType ==
    ASSUME TableTypeOK
    PROVE  /\ Pages \in Seq(Answer) /\ Len(Pages) \in Nat \ {0}
           /\ \A k \in 1..Len(Pages) : Pages[k].type = IF k = Len(Pages) THEN "F" ELSE "M"
  <1> DEFINE n == Len(uniq)
             last == IF n = 0 THEN 1 ELSE (n + PageLines - 1) \div PageLines
             Upto(k) == IF k * PageLines < n THEN k * PageLines ELSE n
             lines(k) == SubSeq(uniq, (k - 1) * PageLines + 1, Upto(k))
             item(k) == page(IF k = last THEN "F" ELSE "M", lines(k))
  <1>1. PICK u \in Seq(Contents) : u = uniq
    BY UniqType
  <1>2. n \in Nat
    BY <1>1
  <1>3. last \in Nat \ {0}
    BY <1>2, DirectoryAssumption
  <1>4. Pages = [k \in 1..last |-> item(k)]
    BY DEF Pages
  <1>5. ASSUME NEW k \in 1..last PROVE lines(k) \in Seq(Contents)
    <2>1. k \in Nat \ {0}
      BY <1>3
    <2>2. (k - 1) * PageLines + 1 \in Nat \ {0} /\ k * PageLines \in Nat
      BY <2>1, DirectoryAssumption
    <2>3. PICK a \in Nat \ {0}, b \in Nat :
            a = (k - 1) * PageLines + 1 /\ b = Upto(k) /\ b <= n
      BY <1>2, <2>2
    <2>4. \A i \in a..b : u[i] \in Contents
      <3>1. n = Len(u)
        BY <1>1
      <3> HIDE DEF n
      <3> QED BY <1>2, <2>3, <3>1
    <2>5. SubSeq(u, a, b) \in Seq(Contents)
      BY <2>4, SubSeqProperties
    <2>6. SubSeq(u, a, b) = lines(k)
      BY <1>1, <2>3
    <2> QED BY <2>5, <2>6
  <1> HIDE DEF n, last, lines
  <1>6. ASSUME NEW k \in 1..last
        PROVE  item(k) \in Answer /\ item(k).type = IF k = last THEN "F" ELSE "M"
    BY <1>5 DEF page, ack, Answer
  <1> HIDE DEF item
  <1>7. Pages \in Seq(Answer) /\ Len(Pages) = last
    <2>1. Pages \in [1..last -> Answer]
      BY <1>4, <1>6
    <2> QED BY <1>3, <2>1
  <1>8. \A k \in 1..Len(Pages) : Pages[k].type = IF k = Len(Pages) THEN "F" ELSE "M"
    BY <1>4, <1>6, <1>7
  <1> QED BY <1>3, <1>7, <1>8

\* What a step of the server sends: one datagram, or the pages of a listing.
LEMMA NextAnswers ==
    ASSUME TableTypeOK, Next
    PROVE  /\ out' \in Seq(Answer)
           /\ \/ \E a \in Answer : out' = <<a>>
              \/ List
  <1>0. <<>> \in Seq(Contents)
    OBVIOUS
  <1>1. ack \in Answer /\ err \in Answer
    BY <1>0 DEF ack, err, Answer
  <1>2. ASSUME NEW i \in Slots PROVE found(peers[i]) \in Answer
    <2>1. peers[i].ip \in Ips \cup {""} /\ peers[i].tcp_port \in Ports \cup {0}
      BY DEF TableTypeOK, Peer
    <2> QED BY <1>0, <2>1 DEF found, ack, Answer
  <1>3. ASSUME NEW a \in Answer PROVE <<a>> \in Seq(Answer)
    OBVIOUS
  <1>4. CASE \E ip \in Ips, c \in Contents :
               \/ \E n \in Names, port \in Ports : Register(ip, n, c, port)
               \/ Deregister(ip, c)
    <2>1. PICK ip \in Ips, c \in Contents :
            \/ \E n \in Names, port \in Ports : Register(ip, n, c, port)
            \/ Deregister(ip, c)
      BY <1>4
    <2>2. ASSUME NEW n \in Names, NEW port \in Ports, Register(ip, n, c, port)
          PROVE  out' = <<ack>> \/ out' = <<err>>
      BY <2>2, Zenon DEF Register, RegisterMore, RegisterNew, RegisterRefused
    <2>3. ASSUME Deregister(ip, c)
          PROVE  out' = <<ack>> \/ out' = <<err>>
      BY <2>3, Zenon DEF Deregister, DeregisterContent, DeregisterPeer, DeregisterRefused
    <2> QED BY <1>1, <1>3, <2>1, <2>2, <2>3
  <1>5. CASE \E c \in Contents : Search(c)
    <2>1. out' = <<err>> \/ \E i \in Slots : out' = <<found(peers[i])>>
      BY <1>5 DEF Search, SearchFound, SearchFails
    <2> QED BY <1>1, <1>2, <1>3, <2>1
  <1>6. CASE \E n \in Names : Bye(n)
    BY <1>1, <1>3, <1>6 DEF Bye
  <1>7. CASE List
    BY <1>7, PagesType DEF List
  <1>8. CASE RefuseMalformed
    BY <1>1, <1>3, <1>8 DEF RefuseMalformed
  <1> QED BY <1>4, <1>5, <1>6, <1>7, <1>8 DEF Next

\* The table, npeers and every datagram sent have their types, whatever comes.
THEOREM TypeCorrect == Spec => []TypeOK
  <1>1. Init => TypeOK
    BY InitTable DEF Init, TypeOK, TableInv
  <1>2. TableInv /\ TypeOK /\ [Next]_server => TypeOK'
    <2> SUFFICES ASSUME TableInv, TypeOK, [Next]_server PROVE TypeOK'
      OBVIOUS
    <2>1. TableTypeOK'
      BY NextTable DEF TableInv
    <2>2. out' \in Seq(Answer)
      BY NextAnswers DEF TypeOK, server, Answer
    <2> QED BY <2>1, <2>2 DEF TypeOK, Answer
  <1> QED BY <1>1, <1>2, TableCorrect, PTL DEF Spec

-----------------------------------------------------------------------------
(* The table implements Catalogue.  The catalogue of a table t:             *)

UsedIn(t) == {i \in Slots : t[i].in_use}
SlotIn(t, n) == CHOOSE i \in Slots : t[i].in_use /\ t[i].name = n
HostsIn(t) == [n \in {t[i].name : i \in UsedIn(t)} |-> HostsOf(t[SlotIn(t, n)])]

UniqueIn(t) ==
    \A i, j \in Slots : t[i].in_use /\ t[j].in_use /\ t[i].name = t[j].name => i = j

LEMMA CatalogueOfTable ==
    /\ CataloguedHosts = HostsIn(peers)
    /\ CataloguedHosts' = HostsIn(peers')
  <1>1. CataloguedHosts = HostsIn(peers)
    BY DEF CataloguedHosts, CataloguedNames, SlotOf, HostsIn, UsedIn, SlotIn
  <1>2. CataloguedHosts' = HostsIn(peers')
    BY DEF CataloguedHosts, CataloguedNames, SlotOf, HostsIn, UsedIn, SlotIn
  <1> QED BY <1>1, <1>2

\* A name in use has one slot, so that its entry is that slot's.
LEMMA EntryOfName ==
    ASSUME NEW t, UniqueIn(t)
    PROVE  /\ DOMAIN HostsIn(t) = {t[i].name : i \in UsedIn(t)}
           /\ \A i \in UsedIn(t) : HostsIn(t)[t[i].name] = HostsOf(t[i])
           /\ HostsIn(t) = [n \in DOMAIN HostsIn(t) |-> HostsIn(t)[n]]
  <1>1. ASSUME NEW i \in UsedIn(t) PROVE SlotIn(t, t[i].name) = i
    <2>1. /\ i \in Slots /\ t[i].in_use
          /\ \A j \in Slots : t[j].in_use /\ t[j].name = t[i].name => j = i
      BY DEF UsedIn, UniqueIn
    <2> QED BY <2>1 DEF SlotIn
  <1> QED BY <1>1 DEF HostsIn

\* The catalogue after one slot got an entry, and after one was cleared.
LEMMA PutEntry ==
    ASSUME NEW t \in [Slots -> Peer], UniqueIn(t), NEW i \in Slots,
           NEW q \in Peer, q.in_use, t[i].in_use => t[i].name = q.name,
           \A j \in UsedIn(t) \ {i} : t[j].name # q.name
    PROVE  /\ HostsIn([t EXCEPT ![i] = q]) = Catalogued!Put(HostsIn(t), q.name, HostsOf(q))
           /\ q.name \in DOMAIN HostsIn(t) <=> t[i].in_use
  <1> DEFINE u == [t EXCEPT ![i] = q]
  <1>0. \A j \in Slots : u[j] = IF j = i THEN q ELSE t[j]
    OBVIOUS
  <1> HIDE DEF u
  <1>1. UsedIn(u) = UsedIn(t) \cup {i} /\ (i \in UsedIn(t) <=> t[i].in_use)
        /\ UsedIn(t) \subseteq Slots
    BY <1>0 DEF UsedIn
  <1>2. UniqueIn(u)
    BY <1>0, <1>1 DEF UniqueIn, UsedIn
  <1>3. /\ DOMAIN HostsIn(t) = {t[j].name : j \in UsedIn(t)}
        /\ \A j \in UsedIn(t) : HostsIn(t)[t[j].name] = HostsOf(t[j])
    BY EntryOfName
  <1>4. /\ DOMAIN HostsIn(u) = {u[j].name : j \in UsedIn(u)}
        /\ \A j \in UsedIn(u) : HostsIn(u)[u[j].name] = HostsOf(u[j])
        /\ HostsIn(u) = [n \in DOMAIN HostsIn(u) |-> HostsIn(u)[n]]
    BY <1>2, EntryOfName
  <1>5. DOMAIN HostsIn(u) = DOMAIN HostsIn(t) \cup {q.name}
    <2>1. \A j \in UsedIn(u) : u[j].name \in DOMAIN HostsIn(t) \cup {q.name}
      BY <1>0, <1>1, <1>3
    <2>2. \A j \in UsedIn(t) : t[j].name \in DOMAIN HostsIn(u)
      BY <1>0, <1>1, <1>4
    <2>3. q.name \in DOMAIN HostsIn(u)
      BY <1>0, <1>1, <1>4
    <2> QED BY <1>3, <1>4, <2>1, <2>2, <2>3
  <1>6. ASSUME NEW n \in DOMAIN HostsIn(u)
        PROVE  HostsIn(u)[n] = IF n = q.name THEN HostsOf(q) ELSE HostsIn(t)[n]
    <2>1. PICK j \in UsedIn(u) : n = u[j].name
      BY <1>4
    <2>2. HostsIn(u)[n] = HostsOf(u[j])
      BY <1>4, <2>1
    <2>3. CASE j = i
      BY <1>0, <2>1, <2>2, <2>3
    <2>4. CASE j # i
      <3>1. j \in UsedIn(t) /\ u[j] = t[j] /\ t[j].name # q.name
        BY <1>0, <1>1, <2>4
      <3> QED BY <1>3, <2>1, <2>2, <3>1
    <2> QED BY <2>3, <2>4
  <1>7. q.name \in DOMAIN HostsIn(t) <=> t[i].in_use
    BY <1>1, <1>3
  <1>8. HostsIn(u) = Catalogued!Put(HostsIn(t), q.name, HostsOf(q))
    BY <1>4, <1>5, <1>6 DEF Catalogued!Put
  <1> QED BY <1>7, <1>8 DEF u

LEMMA DropEntry ==
    ASSUME NEW t \in [Slots -> Peer], UniqueIn(t), NEW i \in UsedIn(t)
    PROVE  /\ t[i].name \in DOMAIN HostsIn(t)
           /\ HostsIn([t EXCEPT ![i] = Cleared])
                = Catalogued!Without(HostsIn(t), t[i].name)
  <1> DEFINE u == [t EXCEPT ![i] = Cleared]
  <1>0. /\ i \in Slots /\ t[i].in_use
        /\ \A j \in Slots : u[j] = IF j = i THEN Cleared ELSE t[j]
    BY DEF UsedIn
  <1> HIDE DEF u
  <1>1. UsedIn(u) = UsedIn(t) \ {i} /\ UsedIn(t) \subseteq Slots
    BY <1>0, ClearedWhole DEF UsedIn
  <1>2. \A j \in UsedIn(u) : u[j] = t[j] /\ t[j].name # t[i].name /\ j \in UsedIn(t)
    BY <1>0, <1>1 DEF UniqueIn, UsedIn
  <1>3. UniqueIn(u)
    BY <1>0, ClearedWhole DEF UniqueIn
  <1>4. /\ DOMAIN HostsIn(t) = {t[j].name : j \in UsedIn(t)}
        /\ \A j \in UsedIn(t) : HostsIn(t)[t[j].name] = HostsOf(t[j])
    BY EntryOfName
  <1>5. /\ DOMAIN HostsIn(u) = {u[j].name : j \in UsedIn(u)}
        /\ \A j \in UsedIn(u) : HostsIn(u)[u[j].name] = HostsOf(u[j])
        /\ HostsIn(u) = [n \in DOMAIN HostsIn(u) |-> HostsIn(u)[n]]
    BY <1>3, EntryOfName
  <1>6. DOMAIN HostsIn(u) = DOMAIN HostsIn(t) \ {t[i].name}
    <2>1. \A j \in UsedIn(u) : u[j].name \in DOMAIN HostsIn(t) \ {t[i].name}
      BY <1>2, <1>4
    <2>2. \A j \in UsedIn(t) \ {i} : t[j].name \in DOMAIN HostsIn(u)
      BY <1>1, <1>2, <1>5
    <2> QED BY <1>4, <1>5, <2>1, <2>2
  <1>7. ASSUME NEW n \in DOMAIN HostsIn(u)
        PROVE  HostsIn(u)[n] = HostsIn(t)[n]
    BY <1>2, <1>4, <1>5
  <1>8. HostsIn(u) = Catalogued!Without(HostsIn(t), t[i].name)
    BY <1>5, <1>6, <1>7 DEF Catalogued!Without
  <1> QED BY <1>4, <1>8 DEF u

\* The counts of an entry, by content.
LEMMA SentOfEntry ==
    ASSUME NEW p \in Peer, EntryWhole(p), p.in_use
    PROVE  /\ DOMAIN SentOf(p) = ToSet(p.contents)
           /\ \A c : c \in ToSet(p.contents) <=> \E k \in 1..Len(p.contents) : p.contents[k] = c
           /\ \A k \in 1..Len(p.contents) : SentOf(p)[p.contents[k]] = p.sent_count[k]
           /\ SentOf(p) = [c \in DOMAIN SentOf(p) |-> SentOf(p)[c]]
  <1>1. p.contents \in Seq(Contents) /\ DOMAIN p.contents = 1..Len(p.contents)
    <2>1. PICK s \in Seq(Contents) : s = p.contents
      BY DEF Peer
    <2> QED BY <2>1
  <1>2. \A k, l \in 1..Len(p.contents) : p.contents[k] = p.contents[l] => k = l
    BY <1>1 DEF EntryWhole, IsInjective
  <1>3. \A c : c \in ToSet(p.contents) <=> \E k \in 1..Len(p.contents) : p.contents[k] = c
    BY <1>1 DEF ToSet
  <1>4. ASSUME NEW k \in 1..Len(p.contents)
        PROVE  SentOf(p)[p.contents[k]] = p.sent_count[k]
    <2>1. (CHOOSE l \in 1..Len(p.contents) : p.contents[l] = p.contents[k]) = k
      BY <1>2
    <2>2. p.contents[k] \in ToSet(p.contents)
      BY <1>3
    <2> QED BY <2>1, <2>2 DEF SentOf
  <1>5. /\ DOMAIN SentOf(p) = ToSet(p.contents)
        /\ SentOf(p) = [c \in DOMAIN SentOf(p) |-> SentOf(p)[c]]
    BY DEF SentOf
  <1> QED BY <1>3, <1>4, <1>5

LEMMA SentOfIs ==
    ASSUME NEW p \in Peer, EntryWhole(p), p.in_use, NEW f,
           f = [c \in DOMAIN f |-> f[c]], DOMAIN f = ToSet(p.contents),
           \A k \in 1..Len(p.contents) : f[p.contents[k]] = p.sent_count[k]
    PROVE  SentOf(p) = f
  <1>1. \A c \in DOMAIN f : SentOf(p)[c] = f[c]
    BY SentOfEntry
  <1>2. DOMAIN SentOf(p) = DOMAIN f /\ SentOf(p) = [c \in DOMAIN SentOf(p) |-> SentOf(p)[c]]
    BY SentOfEntry
  <1>3. f = [c \in DOMAIN f |-> f[c]]
    OBVIOUS
  <1> HIDE DEF SentOf
  <1>4. [c \in DOMAIN f |-> SentOf(p)[c]] = [c \in DOMAIN f |-> f[c]]
    BY <1>1
  <1> QED BY <1>2, <1>3, <1>4


\* A content registered at the end: it has been answered by nobody yet.
LEMMA AppendSent ==
    ASSUME NEW p \in Peer, EntryWhole(p), p.in_use, NEW c \in Contents,
           NEW port \in Ports, Len(p.contents) < MaxContent,
           find_content_index_in_peer(p, c) = {}
    PROVE  /\ c \notin DOMAIN SentOf(p)
           /\ HostsOf([p EXCEPT !.contents = Append(@, c), !.sent_count = Append(@, 0),
                                !.tcp_port = port])
                = [ip |-> p.ip, tcp_port |-> port, sent |-> Catalogued!Put(SentOf(p), c, 0)]
  <1> DEFINE q == [p EXCEPT !.contents = Append(@, c), !.sent_count = Append(@, 0),
                            !.tcp_port = port]
             f == Catalogued!Put(SentOf(p), c, 0)
  <1>1. /\ q \in Peer /\ EntryWhole(q) /\ q.in_use
        /\ q.contents = Append(p.contents, c) /\ q.sent_count = Append(p.sent_count, 0)
        /\ q.ip = p.ip /\ q.tcp_port = port
    BY AppendWhole DEF Peer
  <1>2. c \notin DOMAIN SentOf(p)
    BY SentOfEntry DEF find_content_index_in_peer
  <1>3. PICK n \in Nat : n = Len(p.contents)
    BY DEF EntryWhole
  <1>4. /\ Len(q.contents) = n + 1 /\ q.contents[n + 1] = c /\ q.sent_count[n + 1] = 0
        /\ \A k \in 1..n : q.contents[k] = p.contents[k] /\ q.sent_count[k] = p.sent_count[k]
    <2>1. PICK s \in Seq(Contents), t \in Seq(0..SentLimit) :
            s = p.contents /\ t = p.sent_count /\ Len(s) = n /\ Len(t) = n
      BY <1>3 DEF Peer, EntryWhole
    <2> QED BY <1>1, <1>3, <2>1
  <1> HIDE DEF q
  <1>5. \A d : d \in ToSet(q.contents) <=> d \in ToSet(p.contents) \/ d = c
    <2>1. \A d : d \in ToSet(q.contents) <=> \E k \in 1..(n + 1) : q.contents[k] = d
      <3>1. \A d : d \in ToSet(q.contents) <=> \E k \in 1..Len(q.contents) : q.contents[k] = d
        BY <1>1, SentOfEntry
      <3>2. 1..Len(q.contents) = 1..(n + 1)
        BY <1>4
      <3> QED BY <3>1, <3>2
    <2>2. \A d : d \in ToSet(p.contents) <=> \E k \in 1..n : p.contents[k] = d
      BY <1>3, SentOfEntry
    <2>3. \A k : k \in 1..(n + 1) <=> k \in 1..n \/ k = n + 1
      BY <1>3
    <2>4. q.contents[n + 1] = c /\ \A k \in 1..n : q.contents[k] = p.contents[k]
      BY <1>4
    <2>5. \A d : (\E k \in 1..(n + 1) : q.contents[k] = d) <=> (\E k \in 1..n : p.contents[k] = d) \/ d = c
      BY <2>3, <2>4
    <2> QED BY <2>1, <2>2, <2>5
  <1>6. DOMAIN f = ToSet(q.contents) /\ f = [d \in DOMAIN f |-> f[d]]
    BY <1>5, SentOfEntry DEF Catalogued!Put
  <1>7. ASSUME NEW k \in 1..(n + 1) PROVE f[q.contents[k]] = q.sent_count[k]
    <2>1. CASE k = n + 1
      BY <1>4, <2>1 DEF Catalogued!Put
    <2>2. CASE k \in 1..n
      <3>1. p.contents[k] \in DOMAIN SentOf(p) /\ SentOf(p)[p.contents[k]] = p.sent_count[k]
        BY <1>3, <2>2, SentOfEntry
      <3> QED BY <1>2, <1>4, <2>2, <3>1 DEF Catalogued!Put
    <2> QED BY <1>3, <2>1, <2>2
  <1> HIDE DEF f
  <1>8. SentOf(q) = f
    <2>1. \A k \in 1..Len(q.contents) : f[q.contents[k]] = q.sent_count[k]
      BY <1>4, <1>7
    <2>2. q \in Peer /\ EntryWhole(q) /\ q.in_use
      BY <1>1
    <2> HIDE DEF Peer, EntryWhole
    <2> QED BY <1>6, <2>1, <2>2, SentOfIs
  <1> QED BY <1>1, <1>2, <1>8 DEF HostsOf, q, f

\* A peer's first content.
LEMMA NewSent ==
    ASSUME NEW q \in Peer, EntryWhole(q), q.in_use, NEW c \in Contents,
           q.contents = <<c>>
    PROVE  DOMAIN SentOf(q) = {c} /\ SentOf(q) = [d \in {c} |-> q.sent_count[1]]
  <1>1. Len(q.contents) = 1 /\ q.contents[1] = c
    OBVIOUS
  <1>2. \A d : d \in ToSet(q.contents) <=> d = c
    <2>1. \A d : d \in ToSet(q.contents) <=> \E k \in 1..Len(q.contents) : q.contents[k] = d
      BY SentOfEntry
    <2>2. 1..Len(q.contents) = {1}
      BY <1>1
    <2> QED BY <1>1, <2>1, <2>2
  <1> DEFINE f == [d \in {c} |-> q.sent_count[1]]
  <1>3. DOMAIN f = ToSet(q.contents) /\ f = [d \in DOMAIN f |-> f[d]]
    BY <1>2
  <1>4. \A k \in 1..Len(q.contents) : f[q.contents[k]] = q.sent_count[k]
    BY <1>1
  <1> HIDE DEF f
  <1>5. SentOf(q) = f
    BY <1>3, <1>4, SentOfIs
  <1> QED BY <1>5 DEF f

\* One more answer for the k-th content.
LEMMA CountSent ==
    ASSUME NEW p \in Peer, EntryWhole(p), p.in_use, NEW k \in 1..Len(p.contents),
           NEW q \in Peer, EntryWhole(q), q.in_use, q.contents = p.contents,
           q.ip = p.ip, q.tcp_port = p.tcp_port,
           q.sent_count = [p.sent_count EXCEPT ![k] = p.sent_count[k] + 1]
    PROVE  HostsOf(q) = [HostsOf(p) EXCEPT !.sent =
                           Catalogued!Put(SentOf(p), p.contents[k], p.sent_count[k] + 1)]
  <1> DEFINE f == Catalogued!Put(SentOf(p), p.contents[k], p.sent_count[k] + 1)
  <1>1. DOMAIN f = ToSet(q.contents) /\ f = [d \in DOMAIN f |-> f[d]]
    <2>1. p.contents[k] \in DOMAIN SentOf(p) /\ DOMAIN SentOf(p) = ToSet(p.contents)
      BY SentOfEntry
    <2> QED BY <2>1 DEF Catalogued!Put
  <1>2. ASSUME NEW l \in 1..Len(p.contents) PROVE f[q.contents[l]] = q.sent_count[l]
    <2>1. p.contents[l] \in DOMAIN SentOf(p) /\ SentOf(p)[p.contents[l]] = p.sent_count[l]
      BY SentOfEntry
    <2>2. l \in DOMAIN p.sent_count
      <3>1. PICK t \in Seq(0..SentLimit) : t = p.sent_count /\ Len(t) = Len(p.contents)
        BY DEF Peer, EntryWhole
      <3> QED BY <3>1
    <2>3. q.sent_count[l] = IF l = k THEN p.sent_count[k] + 1 ELSE p.sent_count[l]
      BY <2>2
    <2>4. p.contents[l] = p.contents[k] <=> l = k
      <3>1. PICK s \in Seq(Contents) : s = p.contents
        BY DEF Peer
      <3> QED BY <3>1 DEF EntryWhole, IsInjective
    <2> QED BY <2>1, <2>3, <2>4 DEF Catalogued!Put
  <1> HIDE DEF f
  <1>3. SentOf(q) = f
    BY <1>1, <1>2, SentOfIs, ZenonT(40)
  <1> QED BY <1>3 DEF HostsOf, f

\* The k-th content is withdrawn: the others keep their counts.
LEMMA ShiftSent ==
    ASSUME NEW p \in Peer, EntryWhole(p), p.in_use,
           NEW k \in 1..Len(p.contents), Len(p.contents) > 1
    PROVE  /\ DOMAIN SentOf(p) # {p.contents[k]}
           /\ HostsOf(Shift(p, k)) = [HostsOf(p) EXCEPT !.sent =
                                        Catalogued!Without(@, p.contents[k])]
  <1> DEFINE q == Shift(p, k)
             f == Catalogued!Without(SentOf(p), p.contents[k])
  <1>1. /\ q \in Peer /\ EntryWhole(q) /\ q.in_use
        /\ q.contents = RemoveAt(p.contents, k) /\ q.sent_count = RemoveAt(p.sent_count, k)
        /\ q.ip = p.ip /\ q.tcp_port = p.tcp_port
    BY ShiftWhole DEF Shift, Peer
  <1>2. PICK n \in Nat : n = Len(p.contents) /\ n > 1 /\ k \in 1..n
    BY DEF EntryWhole
  <1>3. /\ Len(q.contents) = n - 1
        /\ \A j \in 1..(n - 1) :
             /\ q.contents[j] = IF j < k THEN p.contents[j] ELSE p.contents[j + 1]
             /\ q.sent_count[j] = IF j < k THEN p.sent_count[j] ELSE p.sent_count[j + 1]
    <2>1. PICK s \in Seq(Contents) : s = p.contents /\ Len(s) = n /\ k \in 1..Len(s)
      BY <1>2 DEF Peer
    <2>2. PICK t \in Seq(0..SentLimit) : t = p.sent_count /\ Len(t) = n /\ k \in 1..Len(t)
      BY <1>2 DEF Peer, EntryWhole
    <2>3. /\ Len(RemoveAt(s, k)) = Len(s) - 1
          /\ \A j \in 1..(Len(s) - 1) :
               RemoveAt(s, k)[j] = IF j < k THEN s[j] ELSE s[j + 1]
      BY <2>1, RemoveAtElements, ZenonT(40)
    <2>4. \A j \in 1..(Len(t) - 1) :
               RemoveAt(t, k)[j] = IF j < k THEN t[j] ELSE t[j + 1]
      BY <2>2, RemoveAtElements, ZenonT(40)
    <2> HIDE DEF q
    <2> QED BY <1>1, <2>1, <2>2, <2>3, <2>4
  <1> HIDE DEF q
  <1>4. \A i, j \in 1..n : p.contents[i] = p.contents[j] => i = j
    <2>1. PICK s \in Seq(Contents) : s = p.contents /\ Len(s) = n
      BY <1>2 DEF Peer
    <2> QED BY <2>1 DEF EntryWhole, IsInjective
  <1>5. \A d : d \in ToSet(p.contents) <=> \E j \in 1..n : p.contents[j] = d
    BY <1>2, SentOfEntry
  <1>6. \A d : d \in ToSet(q.contents) <=> \E j \in 1..(n - 1) : q.contents[j] = d
    <2>1. \A d : d \in ToSet(q.contents) <=> \E j \in 1..Len(q.contents) : q.contents[j] = d
      BY <1>1, SentOfEntry
    <2>2. 1..Len(q.contents) = 1..(n - 1)
      BY <1>3
    <2> QED BY <2>1, <2>2
  <1>7. ASSUME NEW j \in 1..(n - 1)
        PROVE  \E i \in 1..n : /\ i # k /\ q.contents[j] = p.contents[i]
                               /\ q.sent_count[j] = p.sent_count[i]
    <2>1. CASE j < k
      BY <1>2, <1>3, <2>1
    <2>2. CASE ~(j < k)
      <3>1. j + 1 \in 1..n /\ j + 1 # k
        BY <1>2, <2>2
      <3> QED BY <1>3, <2>2, <3>1
    <2> QED BY <2>1, <2>2
  <1>8. ASSUME NEW i \in 1..n, i # k
        PROVE  \E j \in 1..(n - 1) : q.contents[j] = p.contents[i]
    <2>1. CASE i < k
      <3>1. i \in 1..(n - 1)
        BY <1>2, <2>1
      <3> QED BY <1>3, <2>1, <3>1
    <2>2. CASE i > k
      <3>1. i - 1 \in 1..(n - 1) /\ ~(i - 1 < k) /\ (i - 1) + 1 = i
        BY <1>2, <2>2
      <3> QED BY <1>3, <3>1
    <2> QED BY <1>2, <1>8, <2>1, <2>2
  <1>9. \A d : d \in ToSet(q.contents) <=> d \in ToSet(p.contents) /\ d # p.contents[k]
    <2>1. ASSUME NEW d \in ToSet(q.contents)
          PROVE  d \in ToSet(p.contents) /\ d # p.contents[k]
      <3>1. PICK j \in 1..(n - 1) : q.contents[j] = d
        BY <1>6
      <3>2. PICK i \in 1..n : i # k /\ q.contents[j] = p.contents[i]
        BY <1>7
      <3> QED BY <1>2, <1>4, <1>5, <3>1, <3>2
    <2>2. ASSUME NEW d \in ToSet(p.contents), d # p.contents[k]
          PROVE  d \in ToSet(q.contents)
      <3>1. PICK i \in 1..n : p.contents[i] = d
        BY <1>5
      <3>2. i # k
        BY <2>2, <3>1
      <3>3. PICK j \in 1..(n - 1) : q.contents[j] = p.contents[i]
        BY <1>8, <3>2
      <3> QED BY <1>6, <3>1, <3>3
    <2> QED BY <2>1, <2>2
  <1>10. DOMAIN f = ToSet(q.contents) /\ f = [d \in DOMAIN f |-> f[d]]
    <2>1. DOMAIN f = ToSet(p.contents) \ {p.contents[k]}
      BY SentOfEntry DEF Catalogued!Without
    <2>2. f = [d \in DOMAIN f |-> f[d]]
      BY DEF Catalogued!Without
    <2> QED BY <1>9, <2>1, <2>2
  <1>11. ASSUME NEW j \in 1..(n - 1) PROVE f[q.contents[j]] = q.sent_count[j]
    <2>1. PICK i \in 1..n : /\ i # k /\ q.contents[j] = p.contents[i]
                            /\ q.sent_count[j] = p.sent_count[i]
      BY <1>7
    <2>2. p.contents[i] \in DOMAIN SentOf(p) \ {p.contents[k]}
      BY <1>2, <1>4, <1>5, <2>1, SentOfEntry
    <2>3. f[p.contents[i]] = SentOf(p)[p.contents[i]]
      BY <2>2 DEF Catalogued!Without
    <2> QED BY <1>2, <2>1, <2>3, SentOfEntry
  <1>12. SentOf(q) = f
    <2> HIDE DEF f
    <2>1. 1..Len(q.contents) = 1..(n - 1)
      BY <1>3
    <2>2. \A j \in 1..Len(q.contents) : f[q.contents[j]] = q.sent_count[j]
      BY <1>11, <2>1
    <2> QED BY <1>1, <1>10, <2>2, SentOfIs
  <1>13. DOMAIN SentOf(p) # {p.contents[k]}
    <2>1. PICK j \in 1..n : j # k
      <3>1. 1 \in 1..n /\ 2 \in 1..n /\ (1 # k \/ 2 # k)
        BY <1>2
      <3> QED BY <3>1
    <2>2. p.contents[j] \in DOMAIN SentOf(p) /\ p.contents[j] # p.contents[k]
      BY <1>2, <1>4, <1>5, <2>1, SentOfEntry
    <2> QED BY <2>2
  <1>14. HostsOf(q) = [HostsOf(p) EXCEPT !.sent = f]
    BY <1>1, <1>12 DEF HostsOf
  <1>15. HostsOf(p).sent = SentOf(p)
    BY DEF HostsOf
  <1> QED BY <1>13, <1>14, <1>15 DEF q, f, HostsOf


-----------------------------------------------------------------------------
(* A datagram is a step of the catalogue.                                   *)

\* What TableInv says of a slot in use.
LEMMA SlotFacts ==
    ASSUME TableInv
    PROVE  /\ peers \in [Slots -> Peer] /\ UniqueIn(peers)
           /\ \A i \in UsedIn(peers) :
                /\ i \in Slots /\ peers[i] \in Peer /\ EntryWhole(peers[i]) /\ peers[i].in_use
                /\ peers[i].name \in DOMAIN CataloguedHosts
                /\ CataloguedHosts[peers[i].name] = HostsOf(peers[i])
                /\ \A j \in UsedIn(peers) \ {i} : peers[j].name # peers[i].name
  <1>1. peers \in [Slots -> Peer] /\ UniqueIn(peers)
    BY DEF TableInv, TableTypeOK, NamesUnique, UniqueIn
  <1>2. \A i \in UsedIn(peers) :
          /\ i \in Slots /\ peers[i] \in Peer /\ EntryWhole(peers[i]) /\ peers[i].in_use
          /\ \A j \in UsedIn(peers) \ {i} : peers[j].name # peers[i].name
    BY <1>1 DEF TableInv, EntriesWhole, UsedIn, UniqueIn
  <1>3. /\ DOMAIN HostsIn(peers) = {peers[i].name : i \in UsedIn(peers)}
        /\ \A i \in UsedIn(peers) : HostsIn(peers)[peers[i].name] = HostsOf(peers[i])
    BY <1>1, EntryOfName
  <1> QED BY <1>1, <1>2, <1>3, CatalogueOfTable

\* Acknowledgements, refusals and pages answer no address.
LEMMA NoAddress ==
    ASSUME \/ out' = <<ack>> \/ out' = <<err>> \/ out' = Pages
    PROVE  CataloguedAnswer' = <<>>
  <1>1. CASE out' = <<ack>>
    <2>1. \A k \in DOMAIN <<ack>> : <<ack>>[k] = ack
      OBVIOUS
    <2>2. ack.type # "S"
      BY DEF ack
    <2> QED BY <1>1, <2>1, <2>2 DEF CataloguedAnswer
  <1>2. CASE out' = <<err>>
    <2>1. \A k \in DOMAIN <<err>> : <<err>>[k] = err
      OBVIOUS
    <2>2. err.type # "S"
      BY DEF err, ack
    <2> QED BY <1>2, <2>1, <2>2 DEF CataloguedAnswer
  <1>3. CASE out' = Pages
    <2>1. \A k \in DOMAIN Pages : Pages[k].type # "S"
      BY DEF Pages, page, ack
    <2> QED BY <1>3, <2>1 DEF CataloguedAnswer
  <1> QED BY <1>1, <1>2, <1>3

LEMMA RefuseStep ==
    ASSUME UNCHANGED peers, out' = <<ack>> \/ out' = <<err>> \/ out' = Pages
    PROVE  Catalogued!Refuse
  <1>1. CataloguedHosts' = CataloguedHosts
    BY CatalogueOfTable
  <1> QED BY <1>1, NoAddress DEF Catalogued!Refuse, Catalogued!NoAnswer

LEMMA RegisterStep ==
    ASSUME TableInv, NEW ip \in Ips, NEW n \in Names, NEW c \in Contents, NEW port \in Ports,
           Register(ip, n, c, port)
    PROVE  Catalogued!Publish(n, ip, port, c) \/ Catalogued!Refuse
  <1>1. CASE RegisterMore(ip, n, c, port)
    <2>1. PICK i \in Slots :
            /\ First(i, find_peer_by_name(n))
            /\ peers[i].ip = ip
            /\ Len(peers[i].contents) < MaxContent
            /\ find_content_index_in_peer(peers[i], c) = {}
            /\ peers' = [peers EXCEPT ![i].contents = Append(@, c),
                                      ![i].sent_count = Append(@, 0),
                                      ![i].tcp_port = port]
            /\ out' = <<ack>>
      BY <1>1 DEF RegisterMore
    <2>2. i \in UsedIn(peers) /\ peers[i].name = n
      BY <2>1 DEF First, find_peer_by_name, UsedIn
    <2>3. PICK p \in Peer : p = peers[i] /\ EntryWhole(p) /\ p.in_use
      BY <2>2, SlotFacts
    <2> DEFINE q == [p EXCEPT !.contents = Append(@, c), !.sent_count = Append(@, 0),
                              !.tcp_port = port]
    <2>4. peers' = [peers EXCEPT ![i] = q]
      BY <2>1, <2>3, SlotFacts DEF Peer
    <2>5. q \in Peer /\ q.in_use /\ q.name = n
      <3>1. Len(p.contents) < MaxContent /\ find_content_index_in_peer(p, c) = {} /\ p.name = n
        BY <2>1, <2>2, <2>3
      <3>2. EntryWhole(p) /\ p.in_use
        BY <2>3
      <3>3. q \in Peer /\ q.in_use /\ q.name = p.name
        BY <3>1, <3>2, AppendWhole
      <3> QED BY <3>1, <3>3
    <2>6. /\ c \notin DOMAIN SentOf(p)
          /\ HostsOf(q) = [ip |-> p.ip, tcp_port |-> port,
                           sent |-> Catalogued!Put(SentOf(p), c, 0)]
      BY <2>1, <2>3, AppendSent
    <2> HIDE DEF q
    <2>7. HostsIn([peers EXCEPT ![i] = q]) = Catalogued!Put(HostsIn(peers), n, HostsOf(q))
      <3>1. /\ peers \in [Slots -> Peer] /\ UniqueIn(peers) /\ peers[i].name = q.name
            /\ \A j \in UsedIn(peers) \ {i} : peers[j].name # q.name
        BY <2>2, <2>5, SlotFacts
      <3> QED BY <2>5, <3>1, PutEntry
    <2>8. CataloguedHosts' = Catalogued!Put(CataloguedHosts, n, HostsOf(q))
      BY <2>4, <2>7, CatalogueOfTable
    <2>9. n \in DOMAIN CataloguedHosts /\ CataloguedHosts[n] = HostsOf(p)
      BY <2>2, <2>3, SlotFacts
    <2>10. HostsOf(p).ip = ip /\ HostsOf(p).sent = SentOf(p) /\ p.ip = ip
      BY <2>1, <2>3 DEF HostsOf
    <2> QED BY <2>1, <2>6, <2>8, <2>9, <2>10, NoAddress
            DEF Catalogued!Publish, Catalogued!NoAnswer
  <1>2. CASE RegisterNew(ip, n, c, port)
    <2> DEFINE q == [in_use |-> TRUE, name |-> n, ip |-> ip, tcp_port |-> port,
                     contents |-> <<c>>, sent_count |-> <<0>>]
    <2>1. PICK i \in Slots :
            /\ find_peer_by_name(n) = {}
            /\ First(i, first_free_peer_slot)
            /\ peers' = [peers EXCEPT ![i] = q]
            /\ out' = <<ack>>
      BY <1>2 DEF RegisterNew
    <2>2. q \in Peer /\ EntryWhole(q)
      <3>1. <<c>> \in Seq(Contents) /\ <<0>> \in Seq(0..SentLimit)
            /\ Len(<<c>>) = 1 /\ Len(<<0>>) = 1 /\ 1 \in 1..MaxContent
        BY DirectoryAssumption
      <3>2. IsInjective(<<c>>)
        BY DEF IsInjective
      <3> QED BY <3>1, <3>2 DEF Peer, EntryWhole
    <2>3. /\ q.in_use /\ q.name = n /\ q.contents = <<c>> /\ q.sent_count[1] = 0
          /\ q.ip = ip /\ q.tcp_port = port
      OBVIOUS
    <2> HIDE DEF q
    <2>4. ~peers[i].in_use /\ \A j \in UsedIn(peers) : peers[j].name # n
      BY <2>1 DEF First, first_free_peer_slot, find_peer_by_name, UsedIn
    <2>5. /\ HostsIn([peers EXCEPT ![i] = q]) = Catalogued!Put(HostsIn(peers), n, HostsOf(q))
          /\ n \notin DOMAIN HostsIn(peers)
      BY <2>2, <2>3, <2>4, SlotFacts, PutEntry
    <2>6. SentOf(q) = [d \in {c} |-> 0]
      BY <2>2, <2>3, NewSent
    <2>7. HostsOf(q) = [ip |-> ip, tcp_port |-> port, sent |-> [d \in {c} |-> 0]]
      BY <2>3, <2>6 DEF HostsOf
    <2> QED BY <2>1, <2>5, <2>7, CatalogueOfTable, NoAddress
            DEF Catalogued!Publish, Catalogued!NoAnswer
  <1>3. CASE RegisterRefused(ip, n, c)
    BY <1>3, RefuseStep DEF RegisterRefused
  <1> QED BY <1>1, <1>2, <1>3 DEF Register

LEMMA ClearStep ==
    ASSUME TableInv, NEW i \in UsedIn(peers), peers' = [peers EXCEPT ![i] = Cleared]
    PROVE  CataloguedHosts' = Catalogued!Without(CataloguedHosts, peers[i].name)
  BY SlotFacts, DropEntry, CatalogueOfTable

LEMMA DeregisterStep ==
    ASSUME TableInv, NEW ip \in Ips, NEW c \in Contents, Deregister(ip, c)
    PROVE  Catalogued!Withdraw(ip, c) \/ Catalogued!Refuse
  <1>1. CASE DeregisterContent(ip, c)
    <2>1. PICK i \in Slots, k \in 1..MaxContent :
            /\ First(i, find_peer_by_ip(ip))
            /\ First(k, find_content_index_in_peer(peers[i], c))
            /\ Len(peers[i].contents) > 1
            /\ peers' = [peers EXCEPT ![i] = Shift(@, k)]
            /\ out' = <<ack>>
      BY <1>1 DEF DeregisterContent
    <2>2. i \in UsedIn(peers) /\ peers[i].ip = ip
      BY <2>1 DEF First, find_peer_by_ip, UsedIn
    <2>3. PICK p \in Peer : p = peers[i] /\ EntryWhole(p) /\ p.in_use
      BY <2>2, SlotFacts
    <2>4. k \in 1..Len(p.contents) /\ p.contents[k] = c /\ Len(p.contents) > 1
      BY <2>1, <2>3 DEF First, find_content_index_in_peer
    <2>5. PICK q \in Peer : q = Shift(p, k) /\ q.in_use /\ q.name = p.name
      BY <2>3, <2>4, ShiftWhole
    <2>6. /\ DOMAIN SentOf(p) # {c}
          /\ HostsOf(q) = [HostsOf(p) EXCEPT !.sent = Catalogued!Without(@, c)]
      BY <2>3, <2>4, <2>5, ShiftSent
    <2>7. peers' = [peers EXCEPT ![i] = q]
      BY <2>1, <2>3, <2>5, SlotFacts
    <2>8. HostsIn([peers EXCEPT ![i] = q]) = Catalogued!Put(HostsIn(peers), p.name, HostsOf(q))
      <3>1. /\ peers \in [Slots -> Peer] /\ UniqueIn(peers) /\ peers[i].name = q.name
            /\ \A j \in UsedIn(peers) \ {i} : peers[j].name # q.name
        BY <2>2, <2>3, <2>5, SlotFacts
      <3> QED BY <2>3, <2>5, <3>1, PutEntry, ZenonT(40)
    <2>9. p.name \in DOMAIN CataloguedHosts /\ CataloguedHosts[p.name] = HostsOf(p)
      BY <2>2, <2>3, SlotFacts
    <2>10. HostsOf(p).ip = ip /\ HostsOf(p).sent = SentOf(p) /\ c \in DOMAIN SentOf(p)
      BY <2>2, <2>3, <2>4, SentOfEntry DEF HostsOf
    <2> QED BY <2>1, <2>6, <2>7, <2>8, <2>9, <2>10, CatalogueOfTable, NoAddress
            DEF Catalogued!Withdraw, Catalogued!NoAnswer
  <1>2. CASE DeregisterPeer(ip, c)
    <2>1. PICK i \in Slots :
            /\ First(i, find_peer_by_ip(ip))
            /\ peers[i].contents = <<c>>
            /\ peers' = [peers EXCEPT ![i] = Cleared]
            /\ out' = <<ack>>
      BY <1>2 DEF DeregisterPeer
    <2>2. i \in UsedIn(peers) /\ peers[i].ip = ip
      BY <2>1 DEF First, find_peer_by_ip, UsedIn
    <2>3. PICK p \in Peer : p = peers[i] /\ EntryWhole(p) /\ p.in_use
      BY <2>2, SlotFacts
    <2>4. DOMAIN SentOf(p) = {c}
      BY <2>1, <2>3, NewSent
    <2>5. CataloguedHosts' = Catalogued!Without(CataloguedHosts, p.name)
      BY <2>1, <2>2, <2>3, ClearStep
    <2>6. p.name \in DOMAIN CataloguedHosts /\ CataloguedHosts[p.name] = HostsOf(p)
      BY <2>2, <2>3, SlotFacts
    <2>7. HostsOf(p).ip = ip /\ HostsOf(p).sent = SentOf(p)
      BY <2>2, <2>3 DEF HostsOf
    <2> QED BY <2>1, <2>4, <2>5, <2>6, <2>7, NoAddress
            DEF Catalogued!Withdraw, Catalogued!NoAnswer
  <1>3. CASE DeregisterRefused(ip, c)
    BY <1>3, RefuseStep DEF DeregisterRefused
  <1> QED BY <1>1, <1>2, <1>3 DEF Deregister

LEMMA ByeStep ==
    ASSUME TableInv, NEW n \in Names, Bye(n)
    PROVE  Catalogued!Leave(n) \/ Catalogued!Refuse
  <1>1. ASSUME NEW i \in Slots, First(i, find_peer_by_name(n)),
               peers' = [peers EXCEPT ![i] = Cleared], out' = <<ack>>
        PROVE  Catalogued!Leave(n)
    <2>1. i \in UsedIn(peers) /\ peers[i].name = n
      BY <1>1 DEF First, find_peer_by_name, UsedIn
    <2>2. CataloguedHosts' = Catalogued!Without(CataloguedHosts, n)
      BY <1>1, <2>1, ClearStep
    <2>3. n \in DOMAIN CataloguedHosts
      BY <2>1, SlotFacts
    <2> QED BY <1>1, <2>2, <2>3, NoAddress DEF Catalogued!Leave, Catalogued!NoAnswer
  <1> QED BY <1>1, RefuseStep DEF Bye


LEMMA SearchStep ==
    ASSUME TableInv, NEW c \in Contents, Search(c)
    PROVE  Catalogued!Find(c) \/ Catalogued!Refuse
  <1>1. CASE SearchFound(c)
    <2>1. PICK i \in Slots, k \in 1..MaxContent :
            /\ Candidate(c, i, k)
            /\ \A j \in Slots, l \in 1..MaxContent :
                 Candidate(c, j, l) =>
                   \/ peers[i].sent_count[k] < peers[j].sent_count[l]
                   \/ peers[i].sent_count[k] = peers[j].sent_count[l] /\ i <= j
            /\ out' = <<found(peers[i])>>
            /\ peers' = [peers EXCEPT ![i].sent_count[k] = @ + 1]
      BY <1>1 DEF SearchFound
    <2>2. i \in UsedIn(peers)
      BY <2>1 DEF Candidate, UsedIn
    <2>3. PICK p \in Peer : p = peers[i] /\ EntryWhole(p) /\ p.in_use
      BY <2>2, SlotFacts
    <2>4. k \in 1..Len(p.contents) /\ p.contents[k] = c /\ p.sent_count[k] < SentLimit
      BY <2>1, <2>3 DEF Candidate, First, find_content_index_in_peer
    <2>5. /\ p.name \in DOMAIN CataloguedHosts /\ CataloguedHosts[p.name] = HostsOf(p)
          /\ HostsOf(p).sent = SentOf(p) /\ HostsOf(p).ip = p.ip
          /\ HostsOf(p).tcp_port = p.tcp_port
      BY <2>2, <2>3, SlotFacts DEF HostsOf
    <2>6. c \in DOMAIN SentOf(p) /\ SentOf(p)[c] = p.sent_count[k]
      BY <2>3, <2>4, SentOfEntry
    <2>7. p.name \in Catalogued!Offering(c)
      BY <2>4, <2>5, <2>6 DEF Catalogued!Offering
    <2>8. ASSUME NEW m \in Catalogued!Offering(c)
          PROVE  CataloguedHosts[p.name].sent[c] <= CataloguedHosts[m].sent[c]
      <3>1. /\ m \in DOMAIN CataloguedHosts /\ c \in DOMAIN CataloguedHosts[m].sent
            /\ CataloguedHosts[m].sent[c] < SentLimit
        BY <2>8 DEF Catalogued!Offering
      <3>2. PICK j \in UsedIn(peers) : m = peers[j].name
        <4>1. UniqueIn(peers) /\ m \in DOMAIN HostsIn(peers)
          BY <3>1, SlotFacts, CatalogueOfTable
        <4>2. DOMAIN HostsIn(peers) = {peers[j].name : j \in UsedIn(peers)}
          BY <4>1, EntryOfName
        <4> QED BY <4>1, <4>2
      <3>3. PICK r \in Peer : r = peers[j] /\ EntryWhole(r) /\ r.in_use
                              /\ CataloguedHosts[m] = HostsOf(r) /\ j \in Slots
        BY <3>2, SlotFacts
      <3>4. CataloguedHosts[m].sent = SentOf(r)
        BY <3>3 DEF HostsOf
      <3>5. PICK l \in 1..Len(r.contents) : r.contents[l] = c
        BY <3>1, <3>3, <3>4, SentOfEntry
      <3>6. SentOf(r)[c] = r.sent_count[l]
        BY <3>3, <3>5, SentOfEntry
      <3>7. l \in 1..MaxContent
        <4>1. PICK n \in 1..MaxContent : n = Len(r.contents)
          BY <3>3 DEF EntryWhole
        <4> QED BY <3>5, <4>1, DirectoryAssumption
      <3>8. Candidate(c, j, l)
        <4>1. find_content_index_in_peer(r, c) = {l}
          <5>1. PICK s \in Seq(Contents) : s = r.contents
            BY DEF Peer
          <5>2. \A a \in 1..Len(r.contents) : r.contents[a] = c => a = l
            BY <3>3, <3>5, <5>1 DEF EntryWhole, IsInjective
          <5> QED BY <3>5, <5>2 DEF find_content_index_in_peer
        <4>2. First(l, find_content_index_in_peer(r, c))
          BY <3>7, <4>1 DEF First
        <4>3. r.sent_count[l] < SentLimit
          BY <3>1, <3>4, <3>6
        <4> QED BY <3>3, <4>2, <4>3 DEF Candidate
      <3>9. p.sent_count[k] \in Int /\ r.sent_count[l] \in Int
        <4>1. PICK t \in Seq(0..SentLimit) : t = p.sent_count /\ k \in 1..Len(t)
          BY <2>3, <2>4 DEF Peer, EntryWhole
        <4>2. PICK u \in Seq(0..SentLimit) : u = r.sent_count /\ l \in 1..Len(u)
          BY <3>3, <3>5 DEF Peer, EntryWhole
        <4>3. t[k] \in 0..SentLimit /\ u[l] \in 0..SentLimit
          BY <4>1, <4>2, ElementOfSeq
        <4> QED BY <4>1, <4>2, <4>3
      <3>10. p.sent_count[k] < r.sent_count[l] \/ p.sent_count[k] = r.sent_count[l]
        BY <2>1, <2>3, <3>3, <3>7, <3>8
      <3> QED BY <2>5, <2>6, <3>4, <3>6, <3>9, <3>10
    <2> DEFINE t == [p.sent_count EXCEPT ![k] = p.sent_count[k] + 1]
               q == [p EXCEPT !.sent_count = t]
               h == [HostsOf(p) EXCEPT !.sent =
                       Catalogued!Put(SentOf(p), c, p.sent_count[k] + 1)]
    <2>9. peers' = [peers EXCEPT ![i] = q]
      BY <2>1, <2>3, SlotFacts DEF Peer
    <2>10. q \in Peer /\ EntryWhole(q) /\ q.in_use /\ q.name = p.name
      <3>1. t \in Seq(0..SentLimit) /\ Len(t) = Len(p.contents)
        <4>1. PICK s \in Seq(0..SentLimit) :
                s = p.sent_count /\ k \in 1..Len(s) /\ Len(s) = Len(p.contents)
          BY <2>3, <2>4 DEF Peer, EntryWhole
        <4>2. s[k] \in 0..SentLimit /\ s[k] < SentLimit
          BY <2>4, <4>1, ElementOfSeq
        <4>3. s[k] + 1 \in 0..SentLimit
          BY <4>2, DirectoryAssumption
        <4>4. [s EXCEPT ![k] = s[k] + 1] \in Seq(0..SentLimit)
              /\ Len([s EXCEPT ![k] = s[k] + 1]) = Len(s)
          BY <4>1, <4>3, ExceptSeq
        <4> QED BY <4>1, <4>4
      <3> HIDE DEF t
      <3> QED BY <2>3, <3>1 DEF Peer, EntryWhole
    <2>11. HostsOf(q) = h
      <3>1. /\ q.contents = p.contents /\ q.ip = p.ip /\ q.tcp_port = p.tcp_port
            /\ q.sent_count = [p.sent_count EXCEPT ![k] = p.sent_count[k] + 1]
        BY <2>3 DEF Peer
      <3> HIDE DEF q, t
      <3>2. EntryWhole(p) /\ p.in_use
        BY <2>3
      <3>3. HostsOf(q) = [HostsOf(p) EXCEPT !.sent =
                            Catalogued!Put(SentOf(p), p.contents[k], p.sent_count[k] + 1)]
        BY <2>4, <2>10, <3>1, <3>2, CountSent, ZenonT(40)
      <3> QED BY <2>4, <3>3
    <2> HIDE DEF q, t, h
    <2>12. CataloguedHosts' = Catalogued!Put(CataloguedHosts, p.name, h)
      <3>1. /\ peers \in [Slots -> Peer] /\ UniqueIn(peers) /\ peers[i].name = q.name
            /\ \A j \in UsedIn(peers) \ {i} : peers[j].name # q.name
        BY <2>2, <2>3, <2>10, SlotFacts
      <3>2. HostsIn([peers EXCEPT ![i] = q]) = Catalogued!Put(HostsIn(peers), q.name, HostsOf(q))
        BY <2>10, <3>1, PutEntry
      <3> QED BY <2>9, <2>10, <2>11, <3>2, CatalogueOfTable
    <2>13. h = [CataloguedHosts[p.name] EXCEPT !.sent =
                  Catalogued!Put(CataloguedHosts[p.name].sent, c,
                                 CataloguedHosts[p.name].sent[c] + 1)]
      BY <2>5, <2>6 DEF h
    <2>14. CataloguedAnswer' = <<CataloguedHosts[p.name].ip, CataloguedHosts[p.name].tcp_port>>
      <3>1. out' = <<found(p)>> /\ found(p).type = "S"
            /\ found(p).ip = p.ip /\ found(p).tcp_port = p.tcp_port
        BY <2>1, <2>3 DEF found, ack
      <3>2. 1 \in DOMAIN <<found(p)>> /\ <<found(p)>>[1] = found(p)
        OBVIOUS
      <3>3. CataloguedAnswer' = <<p.ip, p.tcp_port>>
        BY <3>1, <3>2 DEF CataloguedAnswer
      <3> QED BY <2>5, <3>3
    <2> QED BY <2>7, <2>8, <2>12, <2>13, <2>14 DEF Catalogued!Find
  <1>2. CASE SearchFails(c)
    BY <1>2, RefuseStep DEF SearchFails
  <1> QED BY <1>1, <1>2 DEF Search

LEMMA CatalogueInit == Init => Catalogued!Init
  <1> SUFFICES ASSUME Init PROVE Catalogued!Init
    OBVIOUS
  <1>1. UsedIn(peers) = {}
    BY ClearedWhole DEF Init, UsedIn
  <1>2. HostsIn(peers) = [n \in {} |-> {}]
    BY <1>1 DEF HostsIn
  <1>3. CataloguedAnswer = <<>>
    BY DEF Init, CataloguedAnswer
  <1> QED BY <1>2, <1>3, CatalogueOfTable DEF Catalogued!Init, Catalogued!NoAnswer

LEMMA CatalogueNext ==
    TableInv /\ [Next]_server => [Catalogued!Next]_(Catalogued!vars)
  <1> SUFFICES ASSUME TableInv, [Next]_server PROVE [Catalogued!Next]_(Catalogued!vars)
    OBVIOUS
  <1>1. CASE UNCHANGED server
    <2>1. UNCHANGED <<peers, out>>
      BY <1>1 DEF server
    <2>2. CataloguedHosts' = CataloguedHosts
      BY <2>1, CatalogueOfTable
    <2>3. CataloguedAnswer' = CataloguedAnswer
      BY <2>1 DEF CataloguedAnswer
    <2> QED BY <2>2, <2>3 DEF Catalogued!vars
  <1>2. ASSUME NEW ip \in Ips, NEW c \in Contents, NEW n \in Names, NEW port \in Ports,
               Register(ip, n, c, port)
        PROVE  Catalogued!Next
    BY <1>2, RegisterStep DEF Catalogued!Next
  <1>3. ASSUME NEW ip \in Ips, NEW c \in Contents, Deregister(ip, c)
        PROVE  Catalogued!Next
    BY <1>3, DeregisterStep DEF Catalogued!Next
  <1>4. ASSUME NEW c \in Contents, Search(c)
        PROVE  Catalogued!Next
    BY <1>4, SearchStep DEF Catalogued!Next
  <1>5. ASSUME NEW n \in Names, Bye(n)
        PROVE  Catalogued!Next
    BY <1>5, ByeStep DEF Catalogued!Next
  <1>6. CASE List \/ RefuseMalformed
    BY <1>6, RefuseStep DEF List, RefuseMalformed, Catalogued!Next
  <1> QED BY <1>1, <1>2, <1>3, <1>4, <1>5, <1>6 DEF Next

\* The table with its slots, shifts and counters does what Catalogue promises:
\* every datagram is one of the catalogue's steps, on the entry it names and on
\* no other.
THEOREM CatalogueImplemented == Spec => ImplementsCatalogue
  <1> QED BY CatalogueInit, CatalogueNext, TableCorrect, PTL
          DEF Spec, ImplementsCatalogue, Catalogued!Spec
=============================================================================
