---------------------------- MODULE VpnServersProofs ----------------------------
(***************************************************************************)
(* What VpnServers keeps for any servers, hosts, ports and number of       *)
(* administrators: its types, that at most one server is the default, when *)
(* the default can be lost, and that a server keeps its port.              *)
(*                                                                         *)
(* DefaultUnique follows from OneDefault, which is inductive together with *)
(* TypeOK: a commit either makes its server the default and clears every   *)
(* other, or sets no flag at all (a column that did not change is not      *)
(* written).                                                               *)
(*                                                                         *)
(* PortKept needs what the pending requests carry (Requests): the row they *)
(* are about is there, or was not there when they read it; the port and the*)
(* type they would write were asked for (Right); and a row that is not     *)
(* there yet is an OpenVPN server on the default port, which is also what a*)
(* creation read.                                                          *)
(***************************************************************************)
EXTENDS VpnServers, FiniteSetTheorems, TLAPS

OneDefault ==
  \A s, t \in Servers : server[s].default /\ server[t].default => s = t
Inv == TypeOK /\ OneDefault

-----------------------------------------------------------------------------
(* Rows *)

LEMMA NoServerType == NoServer \in Server
  BY HostsAssumption, SMT DEF NoServer, Server, Statuses, Types

LEMMA ExceptType ==
  ASSUME NEW r \in Server
  PROVE /\ \A b \in BOOLEAN : /\ [r EXCEPT !.default = b] \in Server
                              /\ [r EXCEPT !.active = b] \in Server
                              /\ [r EXCEPT !.deleted = b] \in Server
        /\ \A x \in Types : [r EXCEPT !.type = x] \in Server
        /\ \A x \in Statuses : [r EXCEPT !.status = x] \in Server
        /\ \A h \in Hosts : [r EXCEPT !.host = h] \in Server
        /\ \A p \in Ports \cup {OpenVpnPort, WireGuardPort} : [r EXCEPT !.port = p] \in Server
        /\ \A k \in Hosts \cup {NoHost} : [r EXCEPT !.key = k] \in Server
  BY DEF Server

LEMMA WithKeyType ==
  ASSUME NEW r \in Server
  PROVE WithKey(r) \in Server
<1>1. r.host \in Hosts
  BY DEF Server
<1> QED BY <1>1, ExceptType DEF WithKey

LEMMA ChangedType ==
  ASSUME NEW r \in Server, NEW remote \in BOOLEAN
  PROVE Changed(r, remote) \in Server
<1>1. UpdateDefaults(r) \in Server
  BY ExceptType DEF UpdateDefaults
<1>2. ASSUME NEW x \in Server PROVE WhenDeleted(x) \in Server
  <2>1. [x EXCEPT !.active = FALSE] \in Server
    BY ExceptType
  <2>2. [[x EXCEPT !.active = FALSE] EXCEPT !.status = "disabled"] \in Server
    BY <2>1, ExceptType DEF Statuses
  <2> QED BY <2>2 DEF WhenDeleted, Server
<1>3. (IF remote THEN WithKey(UpdateDefaults(r)) ELSE UpdateDefaults(r)) \in Server
  BY <1>1, WithKeyType
<1> QED BY <1>2, <1>3 DEF Changed

\* A row is written column by column.
LEMMA WrittenType ==
  ASSUME NEW t, t.new \in Server, t.seen \in Server, NEW r \in Server
  PROVE /\ Written(t, r) \in Server
        /\ Written(t, r).default =
             IF t.new.default # t.seen.default THEN t.new.default ELSE r.default
<1>1. DOMAIN r = {"exists", "deleted", "active", "default", "type", "status", "port", "host", "key"}
  BY DEF Server
<1>2. Written(t, r) =
        [exists |-> IF t.new.exists # t.seen.exists THEN t.new.exists ELSE r.exists,
         deleted |-> IF t.new.deleted # t.seen.deleted THEN t.new.deleted ELSE r.deleted,
         active |-> IF t.new.active # t.seen.active THEN t.new.active ELSE r.active,
         default |-> IF t.new.default # t.seen.default THEN t.new.default ELSE r.default,
         type |-> IF t.new.type # t.seen.type THEN t.new.type ELSE r.type,
         status |-> IF t.new.status # t.seen.status THEN t.new.status ELSE r.status,
         port |-> IF t.new.port # t.seen.port THEN t.new.port ELSE r.port,
         host |-> IF t.new.host # t.seen.host THEN t.new.host ELSE r.host,
         key |-> IF t.new.key # t.seen.key THEN t.new.key ELSE r.key]
  BY <1>1 DEF Written
<1> QED BY <1>2 DEF Server

-----------------------------------------------------------------------------
(* Types *)

LEMMA BeginType ==
  ASSUME TypeOK, NEW w \in Workers, NEW s \in Servers, NEW new \in Server,
         NEW op \in {"create", "update", "delete", "set-default"}, Begin(w, op, s, new)
  PROVE /\ updates' \in 0..MaxUpdates
        /\ txn' \in [Workers -> [op : {"none", "create", "update", "delete", "set-default"},
                                 id : Servers \cup {NotGiven}, seen : Server, new : Server]]
<1>1. updates' \in 0..MaxUpdates
  BY UpdatesAssumption DEF TypeOK, Begin
<1>2. server[s] \in Server
  BY DEF TypeOK
<1> QED BY <1>1, <1>2 DEF TypeOK, Begin

LEMMA InitInv == Init => Inv
<1> SUFFICES ASSUME Init PROVE Inv
  OBVIOUS
<1>1. /\ server \in [Servers -> Server]
      /\ asked \in [Servers -> SUBSET (Ports \cup {OpenVpnPort, WireGuardPort})]
  BY NoServerType DEF Init
<1>2. updates \in 0..MaxUpdates
  BY UpdatesAssumption DEF Init
<1>3. txn \in [Workers -> [op : {"none", "create", "update", "delete", "set-default"},
                          id : Servers \cup {NotGiven}, seen : Server, new : Server]]
  BY NoServerType DEF Init, Idle
<1>4. OneDefault
  BY DEF Init, NoServer, OneDefault
<1> QED BY <1>1, <1>2, <1>3, <1>4 DEF Inv, TypeOK

\* The requests: nothing is stored yet.
LEMMA RequestStep ==
  ASSUME TypeOK, NEW w \in Workers, NEW s \in Servers
  PROVE /\ \A x \in Types, p \in Ports \cup {NotGiven}, d \in BOOLEAN, h \in Hosts :
             CreateServer(w, s, x, p, d, h) => TypeOK' /\ server' = server
        /\ UpdateServer(w, s) => TypeOK' /\ server' = server
        /\ DeleteServer(w, s) => TypeOK' /\ server' = server
        /\ SetDefaultServer(w, s) => TypeOK' /\ server' = server
<1>0. server[s] \in Server
  BY DEF TypeOK
<1>1. ASSUME NEW x \in Types, NEW p \in Ports \cup {NotGiven}, NEW d \in BOOLEAN, NEW h \in Hosts,
             CreateServer(w, s, x, p, d, h)
      PROVE TypeOK' /\ server' = server
  <2> DEFINE new == [exists |-> TRUE, deleted |-> FALSE, active |-> TRUE, default |-> d,
        type |-> x, status |-> "online", port |-> CreateDefaults(p), host |-> h, key |-> NoHost]
  <2>1. CreateDefaults(p) \in Ports \cup {OpenVpnPort}
    BY DEF CreateDefaults
  <2>2. new \in Server
    BY <2>1 DEF Server, Statuses
  <2>3. WithKey(new) \in Server
    BY <2>2, WithKeyType
  <2>4. Begin(w, "create", s, WithKey(new)) /\ UNCHANGED server
    BY <1>1 DEF CreateServer
  <2>5. asked' \in [Servers -> SUBSET (Ports \cup {OpenVpnPort, WireGuardPort})]
    BY <1>1, <2>1 DEF CreateServer, PortsOf, TypeOK
  <2> HIDE DEF new
  <2> QED BY <2>3, <2>4, <2>5, BeginType DEF TypeOK
<1>2. ASSUME UpdateServer(w, s) PROVE TypeOK' /\ server' = server
  <2> DEFINE old == server[s]
  <2>1. UNCHANGED server
    BY <1>2 DEF UpdateServer
  <2>2. asked' \in [Servers -> SUBSET (Ports \cup {OpenVpnPort, WireGuardPort})]
    <3>1. \A x : PortsOf(x) \subseteq {WireGuardPort}
      BY DEF PortsOf
    <3>2. \/ asked' = asked
          \/ \E p \in Ports : asked' = [asked EXCEPT ![s] = @ \cup {p}]
          \/ \E x \in Types : asked' = [asked EXCEPT ![s] = @ \cup PortsOf(x)]
      BY <1>2 DEF UpdateServer
    <3> QED BY <3>1, <3>2 DEF TypeOK
  <2>3. PICK new \in Server, remote \in BOOLEAN : Begin(w, "update", s, Changed(new, remote))
    BY <1>0, <1>2, ExceptType DEF UpdateServer
  <2>4. Changed(new, remote) \in Server
    BY ChangedType
  <2> QED BY <2>1, <2>2, <2>3, <2>4, BeginType DEF TypeOK
<1>3. ASSUME DeleteServer(w, s) PROVE TypeOK' /\ server' = server
  <2> DEFINE new == [server[s] EXCEPT !.deleted = TRUE, !.active = FALSE,
                              !.default = FALSE, !.status = "disabled"]
  <2>1. new \in Server
    BY <1>0 DEF Server, Statuses
  <2>2. Begin(w, "delete", s, new) /\ UNCHANGED <<server, asked>>
    BY <1>3 DEF DeleteServer
  <2> HIDE DEF new
  <2> QED BY <2>1, <2>2, BeginType DEF TypeOK
<1>4. ASSUME SetDefaultServer(w, s) PROVE TypeOK' /\ server' = server
  <2> DEFINE new == [server[s] EXCEPT !.default = TRUE, !.active = TRUE]
  <2>1. new \in Server
    BY <1>0 DEF Server
  <2>2. Begin(w, "set-default", s, new) /\ UNCHANGED <<server, asked>>
    BY <1>4 DEF SetDefaultServer
  <2> HIDE DEF new
  <2> QED BY <2>1, <2>2, BeginType DEF TypeOK
<1> QED BY <1>1, <1>2, <1>3, <1>4

-----------------------------------------------------------------------------
(* The default server *)

\* What a commit writes: other servers lose the flag or keep it, and the server itself
\* only becomes the default when every other one is cleared.
LEMMA CommitStep ==
  ASSUME Inv, NEW w \in Workers, Commit(w)
  PROVE Inv'
<1> DEFINE t == txn[w]
<1>1. /\ t.new \in Server /\ t.seen \in Server /\ t.id \in Servers \cup {NotGiven}
      /\ Idle \in [op : {"none", "create", "update", "delete", "set-default"},
                   id : Servers \cup {NotGiven}, seen : Server, new : Server]
  BY NoServerType DEF Inv, TypeOK, Idle
<1>2. ASSUME NEW s \in Servers
      PROVE /\ Cleared(t, s) \in Server
            /\ Cleared(t, s).default = (server[s].default /\ ~(s # t.id /\ t.new.default))
  <2>1. server[s] \in Server /\ t.new.default \in BOOLEAN
    BY <1>1 DEF Inv, TypeOK, Server
  <2>2. /\ [server[s] EXCEPT !.default = FALSE] \in Server
        /\ [server[s] EXCEPT !.default = FALSE].default = FALSE
    BY <2>1, ExceptType DEF Server
  <2>3. CASE s # t.id /\ t.new.default
    <3>1. Cleared(t, s) = [server[s] EXCEPT !.default = FALSE]
      BY <2>3, Zenon DEF Cleared
    <3> QED BY <2>2, <2>3, <3>1
  <2>4. CASE ~(s # t.id /\ t.new.default)
    <3>1. Cleared(t, s) = server[s]
      BY <2>4, Zenon DEF Cleared
    <3>2. server[s].default \in BOOLEAN
      BY <2>1 DEF Server
    <3> QED BY <2>1, <2>4, <3>1, <3>2
  <2> QED BY <2>3, <2>4
<1>3. \A s \in Servers :
        server'[s] = IF s = t.id THEN Written(t, Cleared(t, s)) ELSE Cleared(t, s)
  BY DEF Commit
<1>4. \A s \in Servers : server'[s] \in Server
  BY <1>1, <1>2, <1>3, WrittenType
<1>5. TypeOK'
  <2>1. server' \in [Servers -> Server]
    BY <1>4 DEF Commit
  <2> QED BY <1>1, <2>1 DEF Inv, TypeOK, Commit
<1>6. ASSUME NEW s \in Servers, server'[s].default
      PROVE IF t.new.default THEN s = t.id \/ (server[s].default /\ s = t.id)
            ELSE server[s].default
  <2>1. t.new.default \in BOOLEAN /\ t.seen.default \in BOOLEAN
    BY <1>1 DEF Server
  <2>2. CASE s = t.id
    BY <1>1, <1>2, <1>3, <1>6, <2>1, <2>2, WrittenType
  <2>3. CASE s # t.id
    BY <1>2, <1>3, <1>6, <2>1, <2>3
  <2> QED BY <2>2, <2>3
<1>7. OneDefault'
  BY <1>6 DEF OneDefault, Inv
<1> QED BY <1>5, <1>7 DEF Inv

LEMMA NextInv == Inv /\ [Next]_vars => Inv'
<1> SUFFICES ASSUME Inv, [Next]_vars PROVE Inv'
  OBVIOUS
<1>1. CASE UNCHANGED vars
  BY <1>1 DEF vars, Inv, TypeOK, OneDefault
<1>2. ASSUME NEW w \in Workers, NEW s \in Servers,
             \/ \E x \in Types, p \in Ports \cup {NotGiven}, d \in BOOLEAN, h \in Hosts :
                  CreateServer(w, s, x, p, d, h)
             \/ UpdateServer(w, s) \/ DeleteServer(w, s) \/ SetDefaultServer(w, s)
      PROVE Inv'
  BY <1>2, RequestStep DEF Inv, OneDefault
<1>3. ASSUME NEW w \in Workers, Commit(w) PROVE Inv'
  BY <1>3, CommitStep
<1>4. ASSUME NEW w \in Workers, Fail(w) PROVE Inv'
  BY <1>4, NoServerType DEF Fail, Inv, TypeOK, OneDefault, Idle
<1> QED BY <1>1, <1>2, <1>3, <1>4 DEF Next

-----------------------------------------------------------------------------
(* Theorems *)

\* Every table and every request in progress keeps its type (models/openvpn.py), for any
\* servers, hosts and ports.
THEOREM TypeInvariant == Spec => []TypeOK
<1>1. Inv => TypeOK
  BY DEF Inv
<1> QED BY InitInv, NextInv, <1>1, PTL DEF Spec

LEMMA AtMostOne == TypeOK /\ OneDefault => DefaultUnique
<1> SUFFICES ASSUME TypeOK, OneDefault PROVE DefaultUnique
  OBVIOUS
<1>1. CASE Defaults = {}
  BY <1>1, FS_EmptySet DEF DefaultUnique
<1>2. CASE Defaults # {}
  <2>1. PICK s : s \in Defaults
    BY <1>2
  <2>2. Defaults = {s}
    BY <2>1 DEF Defaults, OneDefault
  <2> QED BY <2>2, FS_Singleton DEF DefaultUnique
<1> QED BY <1>1, <1>2

\* However many administrators create, edit, delete servers and choose the default at the
\* same time, on whatever they read, at most one server is the default
\* (_clear_default_server and the commit after it).
THEOREM DefaultIsUnique == Spec => []DefaultUnique
<1>1. Inv => DefaultUnique
  BY AtMostOne DEF Inv
<1> QED BY InitInv, NextInv, <1>1, PTL DEF Spec

-----------------------------------------------------------------------------
(* The port of a server *)

\* The port of a row, and the one its type would bring, are among those asked for.
Right(ports, r) == r.port \in ports /\ (r.type = "wireguard" => WireGuardPort \in ports)
New(r) == r.port = OpenVpnPort /\ r.type = "openvpn"
\* What a request carries: see above.
Requests ==
  \A w \in Workers : txn[w].op # "none" =>
    /\ txn[w].id \in Servers
    /\ txn[w].new.exists
    /\ txn[w].seen.exists => server[txn[w].id].exists
    /\ ~txn[w].seen.exists => New(txn[w].seen)
    /\ Right(asked[txn[w].id], txn[w].new)
NotYetThere == \A s \in Servers : ~server[s].exists => New(server[s])
Rows == \A s \in Servers : server[s].exists => Right(asked[s], server[s])
PortInv == Requests /\ NotYetThere /\ Rows

LEMMA InitPort == Init => PortInv
  BY DEF Init, PortInv, Requests, NotYetThere, Rows, New, Idle, NoServer

\* What an update would write is right if the row it is about to change is.
LEMMA ChangedPort ==
  ASSUME NEW r \in Server, NEW remote \in BOOLEAN, NEW ports, Right(ports, r)
  PROVE /\ Changed(r, remote).exists = r.exists
        /\ Right(ports, Changed(r, remote))
<1>1. /\ UpdateDefaults(r).exists = r.exists /\ Right(ports, UpdateDefaults(r))
      /\ UpdateDefaults(r) \in Server
  BY ExceptType DEF UpdateDefaults, Right, Server
<1>2. ASSUME NEW x \in Server
      PROVE /\ WhenDeleted(x).exists = x.exists /\ WhenDeleted(x).port = x.port
            /\ WhenDeleted(x).type = x.type
            /\ WithKey(x).exists = x.exists /\ WithKey(x).port = x.port
            /\ WithKey(x).type = x.type
  BY DEF WhenDeleted, WithKey, Server
<1> DEFINE y == IF remote THEN WithKey(UpdateDefaults(r)) ELSE UpdateDefaults(r)
<1>3. y \in Server /\ y.exists = r.exists /\ Right(ports, y)
  BY <1>1, <1>2, WithKeyType DEF Right
<1>4. Changed(r, remote) = WhenDeleted(y)
  BY DEF Changed
<1> HIDE DEF y
<1> QED BY <1>2, <1>3, <1>4 DEF Right

\* A request begins: it carries what the invariant asks of it.
LEMMA BeginPort ==
  ASSUME TypeOK, PortInv, NEW w \in Workers, NEW s \in Servers, NEW new \in Server,
         NEW op \in {"create", "update", "delete", "set-default"}, Begin(w, op, s, new),
         server' = server, new.exists,
         \A x \in Servers : asked[x] \subseteq asked'[x],
         Right(asked'[s], new)
  PROVE PortInv'
<1>1. txn' = [txn EXCEPT ![w] = [op |-> op, id |-> s, seen |-> server[s], new |-> new]]
  BY DEF Begin
<1>2. ASSUME NEW v \in Workers, txn'[v].op # "none"
      PROVE /\ txn'[v].id \in Servers
            /\ txn'[v].new.exists
            /\ txn'[v].seen.exists => server[txn'[v].id].exists
            /\ ~txn'[v].seen.exists => New(txn'[v].seen)
            /\ Right(asked'[txn'[v].id], txn'[v].new)
  <2>1. CASE v = w
    <3>1. txn'[v] = [op |-> op, id |-> s, seen |-> server[s], new |-> new]
      BY <1>1, <2>1 DEF TypeOK
    <3> QED BY <3>1 DEF PortInv, NotYetThere
  <2>2. CASE v # w
    <3>1. txn'[v] = txn[v]
      BY <1>1, <2>2 DEF TypeOK
    <3> QED BY <1>2, <3>1 DEF PortInv, Requests, Right
  <2> QED BY <2>1, <2>2
<1>3. Requests'
  BY <1>2 DEF Requests
<1>4. NotYetThere' /\ Rows'
  BY DEF PortInv, NotYetThere, Rows, Right
<1> QED BY <1>3, <1>4 DEF PortInv

LEMMA RequestPort ==
  ASSUME TypeOK, PortInv, NEW w \in Workers, NEW s \in Servers
  PROVE /\ \A x \in Types, p \in Ports \cup {NotGiven}, d \in BOOLEAN, h \in Hosts :
             CreateServer(w, s, x, p, d, h) => PortInv'
        /\ UpdateServer(w, s) => PortInv'
        /\ DeleteServer(w, s) => PortInv'
        /\ SetDefaultServer(w, s) => PortInv'
<1>0. /\ server[s] \in Server
      /\ asked \in [Servers -> SUBSET (Ports \cup {OpenVpnPort, WireGuardPort})]
      /\ server[s].exists => Right(asked[s], server[s])
  BY DEF TypeOK, PortInv, Rows
<1>1. ASSUME NEW x \in Types, NEW p \in Ports \cup {NotGiven}, NEW d \in BOOLEAN, NEW h \in Hosts,
             CreateServer(w, s, x, p, d, h)
      PROVE PortInv'
  <2> DEFINE row == [exists |-> TRUE, deleted |-> FALSE, active |-> TRUE, default |-> d,
        type |-> x, status |-> "online", port |-> CreateDefaults(p), host |-> h, key |-> NoHost]
  <2>1. CreateDefaults(p) \in Ports \cup {OpenVpnPort}
    BY DEF CreateDefaults
  <2>2. row \in Server /\ row.exists /\ row.port = CreateDefaults(p) /\ row.type = x
    BY <2>1 DEF Server, Statuses
  <2>3. Begin(w, "create", s, WithKey(row)) /\ UNCHANGED server
    BY <1>1 DEF CreateServer
  <2>4. asked' = [asked EXCEPT ![s] = @ \cup {CreateDefaults(p)} \cup PortsOf(x)]
    BY <1>1 DEF CreateServer
  <2>5. /\ \A y \in Servers : asked[y] \subseteq asked'[y]
        /\ CreateDefaults(p) \in asked'[s] /\ PortsOf(x) \subseteq asked'[s]
    BY <1>0, <2>4
  <2> HIDE DEF row
  <2>6. /\ WithKey(row) \in Server
        /\ WithKey(row).exists /\ WithKey(row).port = row.port /\ WithKey(row).type = row.type
    BY <2>2, WithKeyType DEF WithKey, Server
  <2>7. Right(asked'[s], WithKey(row))
    BY <2>2, <2>5, <2>6 DEF Right, PortsOf
  <2> QED BY <2>3, <2>5, <2>6, <2>7, BeginPort
<1>2. ASSUME UpdateServer(w, s) PROVE PortInv'
  <2>1. UNCHANGED server /\ server[s].exists
    BY <1>2 DEF UpdateServer
  <2>2. PICK new \in Server, remote \in BOOLEAN :
          /\ Begin(w, "update", s, Changed(new, remote))
          /\ new.exists
          /\ \A x \in Servers : asked[x] \subseteq asked'[x]
          /\ Right(asked'[s], new)
    <3>1. CASE UNCHANGED asked /\ \E new \in {[server[s] EXCEPT !.default = b] : b \in BOOLEAN}
                 \cup {[server[s] EXCEPT !.active = b] : b \in BOOLEAN}
                 \cup {[server[s] EXCEPT !.deleted = b] : b \in BOOLEAN}
                 \cup {[server[s] EXCEPT !.status = x] : x \in Statuses} :
             Begin(w, "update", s, Changed(new, FALSE))
      <4>1. PICK new \in {[server[s] EXCEPT !.default = b] : b \in BOOLEAN}
                 \cup {[server[s] EXCEPT !.active = b] : b \in BOOLEAN}
                 \cup {[server[s] EXCEPT !.deleted = b] : b \in BOOLEAN}
                 \cup {[server[s] EXCEPT !.status = x] : x \in Statuses} :
             Begin(w, "update", s, Changed(new, FALSE))
        BY <3>1
      <4>2. new \in Server
        BY <1>0, ExceptType
      <4>3. /\ new.exists = server[s].exists /\ new.port = server[s].port
            /\ new.type = server[s].type
        BY <1>0 DEF Server
      <4> QED BY <1>0, <2>1, <3>1, <4>1, <4>2, <4>3 DEF Right
    <3>2. CASE UNCHANGED asked /\ \E h \in Hosts :
                 Begin(w, "update", s, Changed([server[s] EXCEPT !.host = h], TRUE))
      <4>1. PICK h \in Hosts :
              Begin(w, "update", s, Changed([server[s] EXCEPT !.host = h], TRUE))
        BY <3>2
      <4> DEFINE new == [server[s] EXCEPT !.host = h]
      <4>2. /\ new \in Server /\ new.exists = server[s].exists /\ new.port = server[s].port
            /\ new.type = server[s].type
        BY <1>0, ExceptType DEF Server
      <4> QED BY <1>0, <2>1, <3>2, <4>1, <4>2 DEF Right
    <3>3. CASE \E p \in Ports :
          /\ Begin(w, "update", s, Changed([server[s] EXCEPT !.port = p], TRUE))
          /\ asked' = [asked EXCEPT ![s] = @ \cup {p}]
      <4>1. PICK p \in Ports :
              /\ Begin(w, "update", s, Changed([server[s] EXCEPT !.port = p], TRUE))
              /\ asked' = [asked EXCEPT ![s] = @ \cup {p}]
        BY <3>3
      <4> DEFINE new == [server[s] EXCEPT !.port = p]
      <4>2. /\ new \in Server /\ new.exists = server[s].exists /\ new.port = p
            /\ new.type = server[s].type
        BY <1>0, ExceptType DEF Server
      <4>3. p \in asked'[s] /\ \A x \in Servers : asked[x] \subseteq asked'[x]
        BY <1>0, <4>1
      <4> QED BY <1>0, <2>1, <4>1, <4>2, <4>3 DEF Right
    <3>4. CASE \E x \in Types :
          /\ Begin(w, "update", s, Changed([server[s] EXCEPT !.type = x], TRUE))
          /\ asked' = [asked EXCEPT ![s] = @ \cup PortsOf(x)]
      <4>1. PICK x \in Types :
              /\ Begin(w, "update", s, Changed([server[s] EXCEPT !.type = x], TRUE))
              /\ asked' = [asked EXCEPT ![s] = @ \cup PortsOf(x)]
        BY <3>4
      <4> DEFINE new == [server[s] EXCEPT !.type = x]
      <4>2. /\ new \in Server /\ new.exists = server[s].exists /\ new.port = server[s].port
            /\ new.type = x
        BY <1>0, ExceptType DEF Server
      <4>3. PortsOf(x) \subseteq asked'[s] /\ \A y \in Servers : asked[y] \subseteq asked'[y]
        BY <1>0, <4>1
      <4> QED BY <1>0, <2>1, <4>1, <4>2, <4>3 DEF Right, PortsOf
    <3> QED BY <1>2, <3>1, <3>2, <3>3, <3>4 DEF UpdateServer
  <2>3. /\ Changed(new, remote) \in Server
        /\ Changed(new, remote).exists
        /\ Right(asked'[s], Changed(new, remote))
    BY <2>2, ChangedType, ChangedPort
  <2> QED BY <2>1, <2>2, <2>3, BeginPort
<1>3. ASSUME DeleteServer(w, s) PROVE PortInv'
  <2> DEFINE new == [server[s] EXCEPT !.deleted = TRUE, !.active = FALSE,
                              !.default = FALSE, !.status = "disabled"]
  <2>1. /\ Begin(w, "delete", s, new) /\ UNCHANGED <<server, asked>>
        /\ server[s].exists
    BY <1>3 DEF DeleteServer, Live
  <2>2. /\ new \in Server /\ new.exists = server[s].exists /\ new.port = server[s].port
        /\ new.type = server[s].type
    BY <1>0 DEF Server, Statuses
  <2> HIDE DEF new
  <2>3. Right(asked'[s], new)
    BY <1>0, <2>1, <2>2 DEF Right
  <2> QED BY <1>0, <2>1, <2>2, <2>3, BeginPort
<1>4. ASSUME SetDefaultServer(w, s) PROVE PortInv'
  <2> DEFINE new == [server[s] EXCEPT !.default = TRUE, !.active = TRUE]
  <2>1. /\ Begin(w, "set-default", s, new) /\ UNCHANGED <<server, asked>>
        /\ server[s].exists
    BY <1>4 DEF SetDefaultServer, Live
  <2>2. /\ new \in Server /\ new.exists = server[s].exists /\ new.port = server[s].port
        /\ new.type = server[s].type
    BY <1>0 DEF Server
  <2> HIDE DEF new
  <2>3. Right(asked'[s], new)
    BY <1>0, <2>1, <2>2 DEF Right
  <2> QED BY <1>0, <2>1, <2>2, <2>3, BeginPort
<1> QED BY <1>1, <1>2, <1>3, <1>4

\* A commit writes the port it carries, or leaves the one that is there.
LEMMA WrittenPort ==
  ASSUME NEW t, t.new \in Server, t.seen \in Server, NEW r \in Server
  PROVE /\ Written(t, r).exists =
             IF t.new.exists # t.seen.exists THEN t.new.exists ELSE r.exists
        /\ Written(t, r).port =
             IF t.new.port # t.seen.port THEN t.new.port ELSE r.port
        /\ Written(t, r).type =
             IF t.new.type # t.seen.type THEN t.new.type ELSE r.type
  BY DEF Written, Server

LEMMA CommitPort ==
  ASSUME TypeOK, PortInv, NEW w \in Workers, Commit(w)
  PROVE PortInv'
<1> DEFINE t == txn[w]
<1>1. t.new \in Server /\ t.seen \in Server /\ t.op # "none"
  BY DEF TypeOK, Commit
<1>2. /\ t.id \in Servers
      /\ t.new.exists
      /\ t.seen.exists => server[t.id].exists
      /\ ~t.seen.exists => New(t.seen)
      /\ Right(asked[t.id], t.new)
  BY <1>1 DEF PortInv, Requests
<1>3. ASSUME NEW s \in Servers
      PROVE /\ Cleared(t, s) \in Server
            /\ Cleared(t, s).exists = server[s].exists
            /\ Cleared(t, s).port = server[s].port /\ Cleared(t, s).type = server[s].type
  <2>1. server[s] \in Server
    BY DEF TypeOK
  <2>2. ASSUME NEW r \in Server, NEW x, x = [r EXCEPT !.default = FALSE]
        PROVE x \in Server /\ x.exists = r.exists /\ x.port = r.port /\ x.type = r.type
    BY <2>2 DEF Server
  <2>3. Cleared(t, s) = server[s] \/ Cleared(t, s) = [server[s] EXCEPT !.default = FALSE]
    BY Zenon DEF Cleared
  <2> QED BY <2>1, <2>2, <2>3
<1>4. /\ \A s \in Servers :
           server'[s] = IF s = t.id THEN Written(t, Cleared(t, s)) ELSE Cleared(t, s)
      /\ txn' = [txn EXCEPT ![w] = Idle]
      /\ asked' = asked
  BY DEF Commit
<1> HIDE DEF t
<1>5. /\ server'[t.id].exists
      /\ Right(asked[t.id], server'[t.id])
  <2>1. server'[t.id] = Written(t, Cleared(t, t.id))
    BY <1>2, <1>4
  <2>2. server[t.id] \in Server
    BY <1>2 DEF TypeOK
  <2>3. server'[t.id].exists
    <3>1. server'[t.id].exists =
            IF t.new.exists # t.seen.exists THEN t.new.exists ELSE server[t.id].exists
      BY <1>1, <1>2, <1>3, <2>1, WrittenPort
    <3>2. t.seen.exists \in BOOLEAN /\ t.new.exists \in BOOLEAN /\ server[t.id].exists \in BOOLEAN
      BY <1>1, <2>2 DEF Server
    <3> QED BY <1>2, <3>1, <3>2
  <2>4. /\ server'[t.id].port = IF t.new.port # t.seen.port THEN t.new.port ELSE server[t.id].port
        /\ server'[t.id].type = IF t.new.type # t.seen.type THEN t.new.type ELSE server[t.id].type
    BY <1>1, <1>2, <1>3, <2>1, WrittenPort
  <2>5. /\ server[t.id].exists => Right(asked[t.id], server[t.id])
        /\ ~server[t.id].exists => New(server[t.id])
    BY <1>2 DEF PortInv, NotYetThere, Rows
  <2>6. server[t.id].exists \in BOOLEAN /\ t.seen.exists \in BOOLEAN
    BY <1>1, <2>2 DEF Server
  <2> QED BY <1>2, <2>3, <2>4, <2>5, <2>6 DEF Right, New
<1>6. \A s \in Servers : s # t.id =>
        /\ server'[s].exists = server[s].exists /\ server'[s].port = server[s].port
        /\ server'[s].type = server[s].type
  BY <1>3, <1>4
<1>7. NotYetThere' /\ Rows'
  BY <1>4, <1>5, <1>6 DEF PortInv, NotYetThere, Rows, Right, New
<1>8. ASSUME NEW s \in Servers, server[s].exists PROVE server'[s].exists
  BY <1>5, <1>6, <1>8
<1>9. ASSUME NEW v \in Workers, txn'[v].op # "none" PROVE txn'[v] = txn[v]
  BY <1>4, <1>9 DEF TypeOK, Idle
<1>10. Requests'
  BY <1>4, <1>8, <1>9 DEF PortInv, Requests
<1> QED BY <1>7, <1>10 DEF PortInv

LEMMA NextPort == TypeOK /\ PortInv /\ [Next]_vars => PortInv'
<1> SUFFICES ASSUME TypeOK, PortInv, [Next]_vars PROVE PortInv'
  OBVIOUS
<1>1. CASE UNCHANGED vars
  BY <1>1 DEF vars, PortInv, Requests, NotYetThere, Rows
<1>2. ASSUME NEW w \in Workers, NEW s \in Servers,
             \/ \E x \in Types, p \in Ports \cup {NotGiven}, d \in BOOLEAN, h \in Hosts :
                  CreateServer(w, s, x, p, d, h)
             \/ UpdateServer(w, s) \/ DeleteServer(w, s) \/ SetDefaultServer(w, s)
      PROVE PortInv'
  BY <1>2, RequestPort
<1>3. ASSUME NEW w \in Workers, Commit(w) PROVE PortInv'
  BY <1>3, CommitPort
<1>4. ASSUME NEW w \in Workers, Fail(w) PROVE PortInv'
  <2>1. UNCHANGED <<server, asked>> /\ txn' = [txn EXCEPT ![w] = Idle]
    BY <1>4 DEF Fail
  <2>2. ASSUME NEW v \in Workers, txn'[v].op # "none" PROVE txn'[v] = txn[v]
    BY <2>1, <2>2 DEF TypeOK, Idle
  <2> QED BY <2>1, <2>2 DEF PortInv, Requests, NotYetThere, Rows
<1> QED BY <1>1, <1>2, <1>3, <1>4 DEF Next

\* Whatever creations, edits, deletions and changes of the default overlap, on whatever
\* rows they read, a server stays on a port its operator asked for, by number or with its
\* type (_apply_server_defaults, _apply_server_defaults_to_instance and the row updates).
THEOREM PortsAreKept == Spec => []PortKept
<1>1. Init => Inv /\ PortInv
  BY InitInv, InitPort
<1>2. (Inv /\ PortInv) /\ [Next]_vars => (Inv /\ PortInv)'
  BY NextInv, NextPort DEF Inv
<1>3. Inv /\ PortInv => PortKept
  BY DEF PortInv, Rows, Right, PortKept
<1> QED BY <1>1, <1>2, <1>3, PTL DEF Spec

\* A step after which no server is the default.
LEMMA LastDefault ==
  ASSUME Inv, PortInv, Next, Defaults # {}, Defaults' = {}
  PROVE \E w \in Workers : /\ Commits(w) /\ txn[w].seen.default
                           /\ txn[w].new.default => StaleRow(w)
<1>1. server' # server
  BY DEF Defaults
<1>2. ASSUME NEW w \in Workers, NEW s \in Servers,
             \/ \E x \in Types, p \in Ports \cup {NotGiven}, d \in BOOLEAN, h \in Hosts :
                  CreateServer(w, s, x, p, d, h)
             \/ UpdateServer(w, s) \/ DeleteServer(w, s) \/ SetDefaultServer(w, s)
      PROVE server' = server
  BY <1>2, RequestStep DEF Inv
<1>3. PICK w \in Workers : Commit(w)
  BY <1>1, <1>2 DEF Next, Fail
<1> DEFINE t == txn[w]
<1>4. t.new \in Server /\ t.seen \in Server /\ t.op # "none" /\ t.id \in Servers
  BY <1>3 DEF Inv, TypeOK, Commit, PortInv, Requests
<1>5. Commits(w)
  BY <1>1, <1>3 DEF Commits, Commit, Inv, TypeOK, Idle
<1>6. \A s \in Servers : server[s] \in Server /\ server[s].default \in BOOLEAN
  BY DEF Inv, TypeOK, Server
<1>7. t.new.default \in BOOLEAN /\ t.seen.default \in BOOLEAN
  BY <1>4 DEF Server
<1>8. \A s \in Servers :
        server'[s] = IF s = t.id THEN Written(t, Cleared(t, s)) ELSE Cleared(t, s)
  BY <1>3 DEF Commit
<1>9. Cleared(t, t.id) = server[t.id]
  BY DEF Cleared
<1>10. ~t.new.default => \A s \in Servers : Cleared(t, s) = server[s]
  BY DEF Cleared
<1> HIDE DEF t
<1>11. server'[t.id].default =
         IF t.new.default # t.seen.default THEN t.new.default ELSE server[t.id].default
  BY <1>4, <1>6, <1>8, <1>9, WrittenType
<1>12. \A s \in Servers : ~server'[s].default
  BY DEF Defaults
<1>13. PICK d \in Servers : server[d].default
  BY DEF Defaults
<1>14. CASE t.new.default
  <2>1. t.seen.default /\ ~server[t.id].default
    BY <1>4, <1>6, <1>7, <1>11, <1>12, <1>14
  <2>2. t.seen # server[t.id]
    BY <2>1
  <2> QED BY <1>5, <2>1, <2>2 DEF StaleRow, t
<1>15. CASE ~t.new.default
  <2>1. d = t.id
    BY <1>8, <1>10, <1>12, <1>13, <1>15
  <2>2. t.seen.default
    BY <1>4, <1>7, <1>11, <1>12, <1>13, <1>15, <2>1
  <2> QED BY <1>5, <1>15, <2>2 DEF t
<1> QED BY <1>14, <1>15

\* The last default server is lost only by a commit that takes the flag from the server
\* that has it, or that writes a row it read as the default and that is the default no
\* more: no overlap of other requests leaves the system without one
\* (_clear_default_server, update_server, delete_server).
THEOREM DefaultIsKept == Spec => DefaultKept
<1>1. Init => Inv /\ PortInv
  BY InitInv, InitPort
<1>2. (Inv /\ PortInv) /\ [Next]_vars => (Inv /\ PortInv)'
  BY NextInv, NextPort DEF Inv
<1>3. Inv /\ PortInv /\ [Next]_vars =>
        [Defaults # {} /\ Defaults' = {} =>
           \E w \in Workers : /\ Commits(w) /\ txn[w].seen.default
                              /\ txn[w].new.default => StaleRow(w)]_vars
  BY LastDefault
<1> QED BY <1>1, <1>2, <1>3, PTL DEF Spec, DefaultKept
=============================================================================
