------------------------------- MODULE VpnServers -------------------------------
(***************************************************************************)
(* Maintenance of VPN servers: the default server, and the defaults and    *)
(* remote facts the backend fills in                                       *)
(* (src/backend/app/services/openvpn_service.py).                          *)
(*                                                                         *)
(* A handler reads the server's row in its snapshot and commits later;     *)
(* its row update writes the columns that differ from what it read.  The   *)
(* bulk update that clears other defaults acts on the rows as they are,    *)
(* and locks all rows until the commit, so the two are one step.           *)
(* A request that changes several fields stands as several requests.       *)
(***************************************************************************)
EXTENDS Integers, FiniteSets

CONSTANTS
  Workers, Servers,
  Hosts,     \* hosts a server may be on; each has a public key of its own
  Ports,     \* ports an operator may ask for
  MaxUpdates \* bound on the requests begun

OpenVpnPort == 1194
WireGuardPort == 51820
NotGiven == 0
NoHost == "none"

ASSUME HostsAssumption == Hosts # {}
ASSUME PortsAssumption == Ports \subseteq Nat \ {NotGiven}
ASSUME UpdatesAssumption == MaxUpdates \in Nat

VARIABLES
  server,  \* openvpn_servers
  asked,   \* the ports asked for each server, by number or type (history)
  updates, \* requests begun
  txn      \* where each worker is

vars == <<server, asked, updates, txn>>

Types == {"openvpn", "wireguard"}
Statuses == {"online", "offline", "maintenance", "disabled"}
Server == [exists : BOOLEAN, deleted : BOOLEAN, active : BOOLEAN, default : BOOLEAN,
           type : Types, status : Statuses, port : Ports \cup {OpenVpnPort, WireGuardPort},
           host : Hosts, key : Hosts \cup {NoHost}]
NoServer == [exists |-> FALSE, deleted |-> FALSE, active |-> FALSE, default |-> FALSE,
             type |-> "openvpn", status |-> "disabled", port |-> OpenVpnPort,
             host |-> CHOOSE h \in Hosts : TRUE, key |-> NoHost]
Idle == [op |-> "none", id |-> NotGiven, seen |-> NoServer, new |-> NoServer]

TypeOK ==
  /\ server \in [Servers -> Server]
  /\ asked \in [Servers -> SUBSET (Ports \cup {OpenVpnPort, WireGuardPort})]
  /\ updates \in 0..MaxUpdates
  /\ txn \in [Workers -> [op : {"none", "create", "update", "delete", "set-default"},
                          id : Servers \cup {NotGiven}, seen : Server, new : Server]]

Init ==
  /\ server = [s \in Servers |-> NoServer]
  /\ asked = [s \in Servers |-> {}]
  /\ updates = 0
  /\ txn = [w \in Workers |-> Idle]

-----------------------------------------------------------------------------
(* What the backend fills in *)

\* _wireguard_server_public_key: a stored key is taken as it is, otherwise the
\* host is asked.
WithKey(new) ==
  IF new.type = "wireguard" /\ new.key = NoHost THEN [new EXCEPT !.key = new.host] ELSE new
\* _apply_server_defaults on the payload of a creation: the schema has put the
\* OpenVPN port there already.
CreateDefaults(port) == IF port = NotGiven THEN OpenVpnPort ELSE port
\* Mutant: every server gets its type's default port.
DefaultPorts(new) ==
  [new EXCEPT !.port = IF new.type = "wireguard" THEN WireGuardPort ELSE OpenVpnPort]
\* _apply_server_defaults_to_instance passes no port, so a WireGuard server
\* gets the default one; a server made an OpenVPN one keeps the port it has.
UpdateDefaults(new) ==
  IF new.type = "wireguard" THEN [new EXCEPT !.port = WireGuardPort] ELSE new
\* Who asks for a type asks for the port it brings.
PortsOf(type) == IF type = "wireguard" THEN {WireGuardPort} ELSE {}
\* A deleted server is disabled.
WhenDeleted(new) ==
  IF new.deleted THEN [new EXCEPT !.active = FALSE, !.status = "disabled"] ELSE new

-----------------------------------------------------------------------------
(* First step: what each handler read and what it is about to write        *)

Begin(w, op, s, new) ==
  /\ txn[w].op = "none"
  /\ updates < MaxUpdates
  /\ updates' = updates + 1
  /\ txn' = [txn EXCEPT ![w] = [op |-> op, id |-> s, seen |-> server[s], new |-> new]]

CreateServer(w, s, type, port, default, host) ==
  /\ ~server[s].exists /\ \A v \in Workers : txn[v].id # s
  /\ Begin(w, "create", s, WithKey(
       [exists |-> TRUE, deleted |-> FALSE, active |-> TRUE, default |-> default, type |-> type,
        status |-> "online", port |-> CreateDefaults(port), host |-> host, key |-> NoHost]))
  /\ asked' = [asked EXCEPT ![s] = @ \cup {CreateDefaults(port)} \cup PortsOf(type)]
  /\ UNCHANGED server

Changed(new, remote) ==
  WhenDeleted(IF remote THEN WithKey(UpdateDefaults(new)) ELSE UpdateDefaults(new))

UpdateServer(w, s) ==
  LET old == server[s] IN
  /\ old.exists
  /\ \/ /\ \E new \in {[old EXCEPT !.default = b] : b \in BOOLEAN}
                 \cup {[old EXCEPT !.active = b] : b \in BOOLEAN}
                 \cup {[old EXCEPT !.deleted = b] : b \in BOOLEAN}
                 \cup {[old EXCEPT !.status = x] : x \in Statuses} :
             Begin(w, "update", s, Changed(new, FALSE))
        /\ UNCHANGED asked
     \/ /\ \E h \in Hosts : Begin(w, "update", s, Changed([old EXCEPT !.host = h], TRUE))
        /\ UNCHANGED asked
     \/ \E p \in Ports :
          /\ Begin(w, "update", s, Changed([old EXCEPT !.port = p], TRUE))
          /\ asked' = [asked EXCEPT ![s] = @ \cup {p}]
     \/ \E x \in Types :
          /\ Begin(w, "update", s, Changed([old EXCEPT !.type = x], TRUE))
          /\ asked' = [asked EXCEPT ![s] = @ \cup PortsOf(x)]
  /\ UNCHANGED server

Live(s) == server[s].exists /\ ~server[s].deleted

DeleteServer(w, s) ==
  /\ Live(s)
  /\ Begin(w, "delete", s, [server[s] EXCEPT !.deleted = TRUE, !.active = FALSE,
                              !.default = FALSE, !.status = "disabled"])
  /\ UNCHANGED <<server, asked>>

SetDefaultServer(w, s) ==
  /\ Live(s)
  /\ Begin(w, "set-default", s, [server[s] EXCEPT !.default = TRUE, !.active = TRUE])
  /\ UNCHANGED <<server, asked>>

-----------------------------------------------------------------------------
(* Second step *)

\* The row as stored: the columns that changed between read and write.
Written(t, current) ==
  [f \in DOMAIN current |-> IF t.new[f] # t.seen[f] THEN t.new[f] ELSE current[f]]

\* Mutant: the server itself is cleared too.
ClearAll(t, s) == [server[s] EXCEPT !.default = @ /\ ~t.new.default]
Cleared(t, s) ==
  IF s # t.id /\ t.new.default THEN [server[s] EXCEPT !.default = FALSE] ELSE server[s]

\* Mutant: other servers keep the flag.
CommitAlone(w) ==
  LET t == txn[w] IN
  /\ t.op # "none"
  /\ server' = [server EXCEPT ![t.id] = Written(t, @)]
  /\ txn' = [txn EXCEPT ![w] = Idle]
  /\ UNCHANGED <<asked, updates>>
Commit(w) ==
  LET t == txn[w] IN
  /\ t.op # "none"
  /\ server' = [s \in Servers |->
       IF s = t.id THEN Written(t, Cleared(t, s)) ELSE Cleared(t, s)]
  /\ txn' = [txn EXCEPT ![w] = Idle]
  /\ UNCHANGED <<asked, updates>>

\* A host that does not answer, a name that is taken, or a lost connection.
Fail(w) ==
  LET t == txn[w] IN
  /\ t.op # "none"
  /\ txn' = [txn EXCEPT ![w] = Idle]
  /\ UNCHANGED <<server, asked, updates>>

Next ==
  \E w \in Workers :
    \/ \E s \in Servers :
         \/ \E x \in Types, p \in Ports \cup {NotGiven}, d \in BOOLEAN, h \in Hosts :
              CreateServer(w, s, x, p, d, h)
         \/ UpdateServer(w, s) \/ DeleteServer(w, s) \/ SetDefaultServer(w, s)
    \/ Commit(w) \/ Fail(w)

Spec == Init /\ [][Next]_vars

-----------------------------------------------------------------------------
(* Properties *)

Defaults == {s \in Servers : server[s].default}

\* Whatever requests overlap, at most one server is the default.
DefaultUnique == Cardinality(Defaults) <= 1

\* The write of worker w commits over the row it read (StaleRow: over a newer one).
Commits(w) == txn[w].op # "none" /\ txn'[w].op = "none" /\ server' # server
StaleRow(w) == txn[w].seen # server[txn[w].id]

\* There is a default server until a request takes the flag from the server that has
\* it, or one writes a row it read as the default and that is the default no more.
DefaultKept ==
  [][Defaults # {} /\ Defaults' = {} =>
       \E w \in Workers : /\ Commits(w) /\ txn[w].seen.default
                          /\ txn[w].new.default => StaleRow(w)]_vars

\* Requests about other fields and other servers leave a server on a port its operator asked
\* for, by number or with the type wireguard: updates move a WireGuard server to the default
\* port of its type, where it stays when it becomes an OpenVPN one.
PortKept ==
  \A s \in Servers : server[s].exists => server[s].port \in asked[s]
=============================================================================
