------------------------------- MODULE Dhcps --------------------------------
(***************************************************************************)
(* The address pool of the DHCP server in dhcpserver.c.  An address is its *)
(* last octet: all addresses of a pool are in one segment, where the       *)
(* order of the 32-bit values that the code compares is that of the        *)
(* octets.  Messages and the lease timer are handled by one thread.        *)
(***************************************************************************)
EXTENDS Integers, SequencesExt

CONSTANTS
  Mac,            \* the hardware addresses of the clients
  Servers,        \* the addresses the server may be given
  Configured,     \* the address ranges an application may set, with DHCPS option 50
  Half,           \* from this octet on the pool is below the server (0x80)
  MaxLease,       \* DHCPS_MAX_LEASE
  MaxStation,     \* MAX_STATION_NUM
  LeaseTime,      \* the lease time in periods of the timer
  Width           \* 2^32

\* What the constants have to satisfy.
ConstantsOK ==
  /\ MaxStation > 1 /\ LeaseTime > 0
  /\ \A s \in Servers : s >= Half => s > MaxLease
  /\ Configured \subseteq [enable : BOOLEAN, start : Nat, end : Nat, near : BOOLEAN]

VARIABLES
  on,         \* whether the server is started
  server,     \* server_address
  poll,       \* dhcps_poll
  plist,      \* the leases, as a list
  plus,       \* client_address_plus: where the next address is looked for
  acked       \* history: the address each client was last given with an ACK, and for
              \* how long

vars == <<on, server, poll, plist, plus, acked>>

NoAddr == 0

NotAcked == [ip |-> NoAddr, left |-> 0]

Init ==
  /\ on = FALSE
  /\ server = NoAddr
  /\ poll = [enable |-> FALSE, start |-> 0, end |-> 0, near |-> FALSE]
  /\ plist = <<>>
  /\ plus = 0
  /\ acked = [m \in Mac |-> NotAcked]

-----------------------------------------------------------------------------
\* Whether dhcps_poll_set keeps a configured range: it does not contain the server, is
\* in its segment and not too long.  The length is an unsigned difference.
Usable(c, ip) ==
  /\ ~(c.start <= ip /\ ip <= c.end)
  /\ c.near
  /\ (c.end - c.start) % Width <= MaxLease

\* dhcps_poll_set.
dhcps_poll_set(c, ip) ==
  LET first == IF ip >= Half THEN ip - MaxLease ELSE ip + 1
  IN  IF c.enable /\ Usable(c, ip) THEN c
      ELSE [enable |-> FALSE, start |-> first, end |-> first + MaxLease - 1, near |-> TRUE]

\* dhcps_start, with the range that is set at that time.  The list is not cleared:
\* dhcps_stop has done that.
dhcps_start(ip, c) ==
  /\ ~on
  /\ on' = TRUE
  /\ server' = ip
  /\ poll' = dhcps_poll_set(c, ip)
  /\ plus' = poll'.start
  /\ UNCHANGED <<plist, acked>>

\* dhcps_stop removes all leases.  The clients are gone with the network.
dhcps_stop ==
  /\ on
  /\ on' = FALSE
  /\ plist' = <<>>
  /\ acked' = [m \in Mac |-> NotAcked]
  /\ UNCHANGED <<server, poll, plus>>

\* (defect) a lease goes to the end of the list
InsertLast(l, node) == Append(l, node)

\* node_insert_to_list: before the first node with a larger address.
node_insert_to_list(l, node) ==
  LET small(n) == n.ip <= node.ip
      large(n) == node.ip < n.ip
  IN  SelectSeq(l, small) \o <<node>> \o SelectSeq(l, large)

node_remove_from_list(l, mac) == SelectSeq(l, LAMBDA n : n.mac # mac)

\* The search of parse_msg goes through the leases in their order: past addresses in
\* use from p on, and for the first unused address from the beginning of the pool.
NextFree(l, p) == FoldLeft(LAMBDA a, n : IF n.ip = a THEN a + 1 ELSE a, p, l)

FirstUnused(l) ==
  LET step(f, n) == IF f.flag THEN f
                    ELSE IF f.addr < n.ip THEN [f EXCEPT !.flag = TRUE]
                    ELSE [f EXCEPT !.addr = @ + 1]
  IN  FoldLeft(step, [addr |-> poll.start, flag |-> FALSE], l).addr

\* parse_options: the answer to message msg, given the client's address.
parse_options(msg, ip, renew) ==
  LET wish == IF msg.req = NoAddr THEN "IDLE" ELSE IF msg.req = ip THEN "ACK" ELSE "NAK"
  IN  CASE msg.type = "DISCOVER" -> "OFFER"
        [] msg.type = "REQUEST"  -> IF wish # "IDLE" THEN wish ELSE IF renew THEN "ACK" ELSE "NAK"
        [] msg.type = "DECLINE"  -> "IDLE"
        [] msg.type = "RELEASE"  -> "RELEASE"
        [] OTHER                 -> wish

\* The end of parse_msg: the options are read, and a RELEASE removes the lease.
Answer(msg, ip, list, renew) ==
  LET ret == parse_options(msg, ip, renew)
  IN  /\ plist' = IF ret = "RELEASE" THEN node_remove_from_list(list, msg.mac) ELSE list
      /\ acked' = CASE ret = "ACK"     -> [acked EXCEPT ![msg.mac] = [ip |-> ip, left |-> LeaseTime]]
                    [] ret = "RELEASE" -> [acked EXCEPT ![msg.mac] = NotAcked]
                    [] OTHER           -> acked

\* parse_msg for a client that has lease number i: whatever it sends prolongs it.
Known(msg, i) ==
  /\ plus' = NextFree(SubSeq(plist, 1, i - 1), plus)
  /\ Answer(msg, plist[i].ip, [plist EXCEPT ![i].timer = LeaseTime], msg.ciaddr = plist[i].ip)

\* The address parse_msg finds for a client without a lease.
Candidate ==
  LET next == NextFree(plist, plus)
  IN  IF next > poll.end THEN FirstUnused(plist) ELSE IF plist = <<>> THEN poll.start ELSE next

\* parse_msg for a client without a lease: whatever it sends, it gets one, or a NAK if
\* there is no address left.
Unknown(msg) ==
  LET ip   == Candidate
      node == [ip |-> ip, mac |-> msg.mac, timer |-> LeaseTime]
  IN  \/ /\ ip > poll.end
         /\ plus' = poll.start
         /\ UNCHANGED <<plist, acked>>
      \/ /\ ip <= poll.end
         /\ plus' = IF ip = poll.end THEN poll.start ELSE ip + 1
         /\ Answer(msg, ip, node_insert_to_list(plist, node), FALSE)

\* handle_dhcp: a message arrives and is answered as parse_msg says.
handle_dhcp(msg) ==
  /\ on
  /\ LET mine == {i \in DOMAIN plist : plist[i].mac = msg.mac}
     IN  IF mine = {} THEN Unknown(msg) ELSE \E i \in mine : Known(msg, i)
  /\ UNCHANGED <<on, server, poll>>

\* kill_oldest_dhcps_pool: the lease with the least time left, the first one in the
\* list apart.
Oldest(l) ==
  CHOOSE i \in 2 .. Len(l) :
    /\ \A j \in 2 .. Len(l) : l[i].timer <= l[j].timer
    /\ \A j \in 2 .. i - 1 : l[i].timer < l[j].timer

\* dhcps_coarse_tmr: leases run out, and one is removed early if there are too many.
dhcps_coarse_tmr ==
  LET older == [i \in DOMAIN plist |-> [plist[i] EXCEPT !.timer = @ - 1]]
      valid == SelectSeq(older, LAMBDA n : n.timer # 0)
      kill  == Len(valid) >= MaxStation
      gone  == {m \in Mac : kill /\ valid[Oldest(valid)].mac = m}
  IN  /\ on
      /\ plist' = IF kill THEN RemoveAt(valid, Oldest(valid)) ELSE valid
      /\ acked' = [m \in Mac |-> IF m \in gone \/ acked[m].left <= 1 THEN NotAcked
                                 ELSE [acked[m] EXCEPT !.left = @ - 1]]
      /\ UNCHANGED <<on, server, poll, plus>>

\* The messages: what a client says its address is, and which it asks for.
Message ==
  [ type : {"DISCOVER", "REQUEST", "DECLINE", "RELEASE", "INFORM"}, mac : Mac,
    ciaddr : {NoAddr} \cup poll.start .. poll.end, req : {NoAddr} \cup poll.start .. poll.end ]

Next ==
  \/ \E ip \in Servers, c \in Configured : dhcps_start(ip, c)
  \/ dhcps_stop
  \/ \E msg \in Message : handle_dhcp(msg)
  \/ dhcps_coarse_tmr

Spec == Init /\ [][Next]_vars

-----------------------------------------------------------------------------
\* The leases are sorted by address without a repetition, one for a client, within the
\* pool and apart from the server.  An address that a client was given with an ACK is
\* its lease for at least as long as it was told, unless the lease was removed
\* because there were too many.  While an address is free the search finds one.
LeasesSound ==
  /\ \A i, j \in DOMAIN plist : i < j => plist[i].ip < plist[j].ip /\ plist[i].mac # plist[j].mac
  /\ \A i \in DOMAIN plist : plist[i].ip \in (poll.start .. poll.end) \ {server}
  /\ \A m \in Mac : acked[m].left > 0 =>
       \E i \in DOMAIN plist :
         plist[i].mac = m /\ plist[i].ip = acked[m].ip /\ plist[i].timer >= acked[m].left
  /\ on /\ Len(plist) < poll.end - poll.start + 1 => Candidate <= poll.end
=============================================================================
