-------------------------- MODULE WireGuardPeersProofs --------------------------
(***************************************************************************)
(* Addresses and peers of WireGuard credentials, for any accounts, servers,*)
(* workers and bounds.                                                     *)
(*                                                                         *)
(* An address is taken from what the handler read: Reserved says what that *)
(* is worth until the commit, and Races that two handlers for one server   *)
(* know of each other.  That revoking an account removes its peers is true *)
(* of accounts that stay on their servers and meet one request at a time   *)
(* (Steady), on servers that lose no peer at a restart (Lasting): the      *)
(* peers with a key such an account was given are its last credential on   *)
(* its own server (OwnPeers), and none is left once it has no issued row   *)
(* (NothingLeft), unless a threshold revoked that.  Without failures the   *)
(* peers are the issued credentials but for the one a handler is at        *)
(* (Expected).                                                             *)
(***************************************************************************)
EXTENDS WireGuardPeers, FiniteSetTheorems, WellFoundedInduction, TLAPS

Account == [status : {"none", "enabled", "disabled", "revoked"}, server : Servers \cup {None},
            key : Nat, address : Addresses \cup {None}]
Row == [account : Accounts, server : Servers, status : {"issued", "revoked"}]
Steps == {"idle", "set", "remove", "save", "commit"}
Handler ==
  [op : {"none", "issue", "revoke", "account"}, step : Steps,
   account : Accounts \cup {None}, server : Servers \cup {None}, key : Nat,
   address : Addresses \cup {None}, row : Nat]
Peers == [Servers -> SUBSET ((1..keys) \X Addresses)]

TypeOK ==
  /\ scope \in Scopes
  /\ account \in [Accounts -> Account]
  /\ rows \in Seq(Row)
  /\ peers \in Peers /\ saved \in Peers
  /\ keys \in Nat /\ faults \in Nat
  /\ keysOf \in [Accounts -> SUBSET (1..keys)]
  /\ txn \in [Workers -> Handler]

\* A handler at work issues a key and an address on a server, or is about a stored row.
Works(w) ==
  LET t == txn[w] IN
  /\ t.step = "idle" => t = Idle
  /\ t.op = "none" => t.step = "idle"
  /\ t.op = "issue" =>
       /\ t.step \in {"set", "save", "commit"} /\ t.account \in Accounts /\ t.server \in Servers
       /\ t.key \in 1..keys /\ t.address \in Addresses
       /\ account[t.account].server # None
  /\ t.op \in {"revoke", "account"} =>
       /\ t.step \in {"remove", "save", "commit"} /\ t.account \in Accounts
       /\ IF t.row = None
          THEN t.op = "account" /\ t.step = "commit" /\ t.server = None
          ELSE /\ t.row \in DOMAIN rows /\ rows[t.row].account = t.account
               /\ rows[t.row].server = t.server

HaveServer == \A a \in Accounts : account[a].status = "enabled" => account[a].server # None
Typed == TypeOK /\ HaveServer /\ \A w \in Workers : Works(w)

-----------------------------------------------------------------------------
(* Addresses, whatever handlers overlap *)

\* Only an account that has a server has an address.
Placed == \A a \in Accounts : account[a].address # None => account[a].server # None
\* The address a handler is about to give is nobody else's.
Reserved(w) ==
  LET a == txn[w].account IN
  txn[w].op = "issue" /\ a \notin moved =>
    /\ txn[w].server = account[a].server
    /\ \A b \in Accounts \ moved :
         b # a /\ account[b].server = txn[w].server /\ ~(a \in raced /\ b \in raced)
         => account[b].address # txn[w].address
\* Handlers that issue on one server at the same time know it.
Races ==
  \A v, w \in Workers :
    v # w /\ txn[v].op = "issue" /\ txn[w].op = "issue" /\ txn[v].server = txn[w].server
    => txn[v].account \in raced /\ txn[w].account \in raced

AddressInv == Placed /\ AddressesDiffer /\ (\A w \in Workers : Reserved(w)) /\ Races

-----------------------------------------------------------------------------
(* Accounts that stay on their servers, with one request at a time *)

Steady == Accounts \ (moved \cup overlapped)
Lasting == Servers \ reverted

Credential(a) == <<account[a].key, account[a].address>>
Gone(a) == \A s \in Lasting : \A p \in peers[s] : p[1] \notin keysOf[a]

RowsPlaced ==
  \A r \in DOMAIN rows :
    rows[r].account \notin moved => rows[r].server = account[rows[r].account].server
\* A row or a key comes with an address.
HasAddress ==
  /\ \A r \in DOMAIN rows : account[rows[r].account].address # None
  /\ \A a \in Accounts : keysOf[a] # {} => account[a].address # None
\* A key that is about to be stored is nobody's.
Fresh ==
  \A w \in Workers : txn[w].op = "issue" =>
    /\ \A a \in Accounts : txn[w].key \notin keysOf[a]
    /\ \A v \in Workers : v # w /\ txn[v].op = "issue" => txn[v].key # txn[w].key
Overlaps ==
  \A v, w \in Workers :
    /\ v # w /\ txn[v].op # "none" /\ txn[w].op # "none"
    /\ txn[v].account = txn[w].account
    => txn[w].account \in overlapped
Owned == RowsPlaced /\ HasAddress /\ Fresh /\ Overlaps

\* A peer with a key the account was given has its present key and address.
OwnPeers ==
  \A a \in Steady : \A s \in Lasting : \A p \in peers[s] :
    p[1] \in keysOf[a] => s = account[a].server /\ p = Credential(a)
NothingLeft ==
  \A a \in Steady \ forgotten : Issued(a) = {} \/ account[a].status = "revoked" => Gone(a)
Issuing(t) ==
  /\ t.server = account[t.account].server /\ account[t.account].status # "revoked"
  /\ account[t.account].address \in {None, t.address}
  /\ \A s \in Lasting : \A p \in peers[s] :
       p[1] = t.key => t.step # "set" /\ s = t.server /\ p[2] = t.address
  /\ t.step # "set" => Gone(t.account)
Removing(t) ==
  /\ t.step = "remove" =>
       t.key = account[t.account].key /\ t.server = account[t.account].server
  /\ t.step # "remove" => Gone(t.account) \/ t.account \in forgotten
Halfway(w) ==
  txn[w].account \in Steady =>
    /\ txn[w].op = "issue" => Issuing(txn[w])
    /\ txn[w].op \in {"revoke", "account"} => Removing(txn[w])

PeersInv == Owned /\ OwnPeers /\ NothingLeft /\ \A w \in Workers : Halfway(w)

-----------------------------------------------------------------------------
(* One request at a time, and nothing fails *)

IssuedRows(s) == {r \in DOMAIN rows : rows[r].server = s /\ rows[r].status = "issued"}
Credentials(s) == {Credential(rows[r].account) : r \in IssuedRows(s)}
\* The peers a server should have while handler w is at work.
Expected(w, s) ==
  IF txn[w].server # s \/ txn[w].step \in {"idle", "set", "remove"} THEN Credentials(s)
  ELSE IF txn[w].op = "issue" THEN Credentials(s) \cup {<<txn[w].key, txn[w].address>>}
  ELSE Credentials(s) \ {Credential(txn[w].account)}
Serves(w) ==
  \A s \in Servers :
    /\ peers[s] = Expected(w, s)
    /\ saved[s] = IF txn[w].step = "commit" THEN peers[s] ELSE Credentials(s)

\* An account has one issued row at most, with a key of its own.
OneRow ==
  \A q, r \in DOMAIN rows :
    rows[q].status = "issued" /\ rows[r].status = "issued" /\ rows[q].account = rows[r].account
    => q = r
Keyed ==
  /\ \A r \in DOMAIN rows :
       rows[r].status = "issued" => account[rows[r].account].key # None
  /\ \A a, b \in Accounts : account[a].key = account[b].key /\ account[a].key # None => a = b
  /\ \A a \in Accounts :
       account[a].key \in 0..keys /\ (account[a].key # None => account[a].address # None)
Undisturbed(w) ==
  LET t == txn[w] IN
  /\ t.op = "issue" => Issued(t.account) = {} /\ \A a \in Accounts : account[a].key # t.key
  /\ t.op \in {"revoke", "account"} =>
       IF t.row = None THEN TRUE
       ELSE rows[t.row].status = "issued" /\ t.key = account[t.account].key

Faultless == Alone /\ Features = {} /\ MaxFaults = 0
FaultlessInv ==
  /\ OneRow /\ Keyed /\ moved = {} /\ raced = {}
  /\ \A w \in Workers : Undisturbed(w) /\ Serves(w)

Inv == Typed /\ AddressInv /\ PeersInv /\ (Faultless => FaultlessInv)

-----------------------------------------------------------------------------

(* Scopes, handlers and addresses *)

LEMMA ScopeFacts ==
  ASSUME scope \in Scopes
  PROVE  /\ None \notin Servers /\ Addresses \subseteq Nat /\ None \notin Addresses
         /\ IsFiniteSet(Workers) /\ MaxFaults \in Nat
  BY ScopesAssumption DEF Servers, Addresses, Workers, MaxFaults, None

LEMMA SetsStay ==
  ASSUME UNCHANGED scope
  PROVE  /\ Workers' = Workers /\ Servers' = Servers /\ Addresses' = Addresses
         /\ Features' = Features /\ MaxFaults' = MaxFaults
         /\ Account' = Account /\ Row' = Row /\ Handler' = Handler
         /\ (Faultless' <=> Faultless)
<1>1. /\ Workers' = Workers /\ Servers' = Servers /\ Addresses' = Addresses
      /\ Features' = Features /\ MaxFaults' = MaxFaults
  BY DEF Workers, Servers, Addresses, Features, MaxFaults
<1>2. Account' = Account /\ Row' = Row /\ Handler' = Handler
  BY <1>1 DEF Account, Row, Handler, Steps
<1>3. Faultless' <=> Faultless
  BY <1>1 DEF Faultless, Alone
<1> QED BY <1>1, <1>2, <1>3

\* The only worker, when there is one.
LEMMA OneWorker ==
  ASSUME scope \in Scopes, Alone
  PROVE  \A v, w \in Workers : v = w
<1>1. \E w : Workers = {w}
  BY ScopeFacts, FS_Singleton DEF Alone
<1> QED BY <1>1

LEMMA IdleFacts ==
  /\ Idle.op = "none" /\ Idle.step = "idle" /\ Idle.server = None /\ Idle.row = None
  /\ Idle \in Handler
  BY DEF Idle, Handler, Steps, None

\* What a handler keeps when it goes on.
Same(t, u) ==
  /\ u.op = t.op /\ u.account = t.account /\ u.server = t.server
  /\ u.key = t.key /\ u.address = t.address /\ u.row = t.row

LEMMA StepTo ==
  ASSUME NEW t \in Handler, NEW step \in Steps
  PROVE  \E u \in Handler : u = [t EXCEPT !.step = step] /\ u.step = step /\ Same(t, u)
<1>1. [t EXCEPT !.step = step] \in Handler
  BY DEF Handler
<1>2. /\ [t EXCEPT !.step = step].step = step /\ Same(t, [t EXCEPT !.step = step])
  BY DEF Handler, Same
<1> QED BY <1>1, <1>2

\* A handler goes on, or is given up on.
Goes(w, step) ==
  \E u \in Handler :
    /\ txn' = [txn EXCEPT ![w] = u]
    /\ \/ u = Idle /\ faults < MaxFaults
       \/ u.step = step /\ Same(txn[w], u)

LEMMA AnsweredGoes ==
  ASSUME TypeOK, NEW w \in Workers, NEW step \in Steps, Answered(w, step)
  PROVE  Goes(w, step) /\ faults' \in Nat
<1>1. txn[w] \in Handler /\ txn \in [Workers -> Handler] /\ faults \in Nat
  BY DEF TypeOK
<1>2. CASE txn' = [txn EXCEPT ![w].step = step] /\ UNCHANGED faults
  <2>1. txn' = [txn EXCEPT ![w] = [txn[w] EXCEPT !.step = step]]
    BY <1>1, <1>2
  <2> QED BY <1>1, <1>2, <2>1, StepTo DEF Goes
<1>3. CASE faults < MaxFaults /\ faults' = faults + 1 /\ txn' = [txn EXCEPT ![w] = Idle]
  <2>1. Goes(w, step)
    BY <1>3, IdleFacts, Zenon DEF Goes
  <2>2. faults' \in Nat
    BY <1>1, <1>3
  <2> QED BY <2>1, <2>2
<1> QED BY <1>2, <1>3 DEF Answered

\* The lowest address is one of them.
LEMMA LowestIsOne ==
  ASSUME NEW T \in SUBSET Nat, T # {}
  PROVE  LowestOf(T) \in T
<1> DEFINE R == {ss \in Nat \X Nat : ss[1] < ss[2]}
<1>1. IsWellFoundedOn(R, Nat)
  BY NatLessThanWellFounded DEF OpToRel
<1>2. \E x \in T : \A y \in T : ~(<<y, x>> \in R)
  <2> HIDE DEF R
  <2> QED BY <1>1, WFMin
<1>3. \E x \in T : \A y \in T : x <= y
  <2>1. PICK x \in T : \A y \in T : ~(<<y, x>> \in R)
    BY <1>2
  <2>2. ASSUME NEW y \in T PROVE x <= y
    <3>1. x \in Nat /\ y \in Nat /\ ~(<<y, x>> \in R)
      BY <2>1
    <3>2. ~(y < x)
      BY <3>1
    <3> HIDE DEF R
    <3> QED BY <3>1, <3>2
  <2> QED BY <2>2
<1> DEFINE Lowest(x) == \A y \in T : x <= y
<1>4. \E x \in T : Lowest(x)
  BY <1>3
<1>5. LowestOf(T) = CHOOSE x \in T : Lowest(x)
  BY DEF LowestOf
<1> HIDE DEF Lowest
<1> QED BY <1>4, <1>5

\* The address for an account is one the server can give; a new one is in use nowhere on it.
LEMMA AddressForAccount ==
  ASSUME TypeOK, NEW a \in Accounts, AddressFor(a) # None
  PROVE  /\ AddressFor(a) \in Addresses
         /\ account[a].address = None =>
              \A b \in Accounts : account[b].server = account[a].server
                                    => account[b].address # AddressFor(a)
<1>1. Addresses \subseteq Nat /\ account[a].address \in Addresses \cup {None}
  BY ScopeFacts DEF TypeOK, Account
<1>2. CASE account[a].address # None
  BY <1>1, <1>2 DEF AddressFor
<1>3. CASE account[a].address = None
  <2> DEFINE free == Addresses \ UsedAddresses(account[a].server)
  <2>1. free # {} /\ AddressFor(a) = LowestOf(free)
    BY <1>3 DEF AddressFor, NextAddress
  <2>2. AddressFor(a) \in free
    BY <1>1, <2>1, LowestIsOne
  <2> QED BY <2>2 DEF UsedAddresses
<1> QED BY <1>2, <1>3

-----------------------------------------------------------------------------
(* Types *)

LEMMA TypedStep ==
  ASSUME Typed, UNCHANGED scope, account' \in [Accounts -> Account], HaveServer',
         \A a \in Accounts : account[a].server # None => account'[a].server # None,
         rows' \in Seq(Row), DOMAIN rows \subseteq DOMAIN rows',
         \A r \in DOMAIN rows : /\ rows'[r].account = rows[r].account
                                /\ rows'[r].server = rows[r].server,
         keys' \in Nat, keys <= keys', faults' \in Nat,
         peers' \in [Servers -> SUBSET ((1..keys') \X Addresses)],
         saved' \in [Servers -> SUBSET ((1..keys') \X Addresses)],
         keysOf' \in [Accounts -> SUBSET (1..keys')],
         txn' \in [Workers -> Handler],
         \A w \in Workers : txn'[w] = txn[w] \/ Works(w)'
  PROVE  Typed'
<1>1. TypeOK'
  BY SetsStay DEF Typed, TypeOK, Peers
<1>2. ASSUME NEW w \in Workers, txn'[w] = txn[w] PROVE Works(w)'
  <2>1. Works(w) /\ keys \in Nat
    BY DEF Typed, TypeOK
  <2>2. 1..keys \subseteq 1..keys'
    BY <2>1
  <2> QED BY <1>2, <2>1, <2>2, SetsStay DEF Works
<1> QED BY <1>1, <1>2, SetsStay DEF Typed

\* What enabling, disabling or assigning an account changes.
LEMMA AccountFacts ==
  ASSUME TypeOK, NEW a \in Accounts,
         \/ \E s \in Servers : EnableAccount(a, s) \/ AssignAccountServer(a, s)
         \/ DisableAccount(a)
  PROVE  /\ UNCHANGED <<scope, rows, peers, saved, keys, keysOf, raced, txn, faults>>
         /\ UNCHANGED <<overlapped, forgotten, reverted>>
         /\ account' \in [Accounts -> Account]
         /\ \A b \in Accounts :
              /\ account'[b].key = account[b].key /\ account'[b].address = account[b].address
              /\ b # a => account'[b].server = account[b].server
              /\ account'[b].status = account[b].status \/ account'[b].status # "revoked"
              /\ \/ account'[b].status \in {account[b].status, "disabled"}
                 \/ account'[b].server \in Servers
         /\ moved \subseteq moved' /\ ("move" \notin Features => moved' = moved)
         /\ \/ account'[a].server = account[a].server
            \/ /\ account'[a].server \in Servers
               /\ \/ account[a].server = None
                  \/ /\ "move" \in Features
                     /\ \/ a \in moved'
                        \/ /\ account[a].address = None
                           /\ \A w \in Workers : ~(txn[w].op = "issue" /\ txn[w].account = a)
<1>1. account \in [Accounts -> Account] /\ account[a] \in Account
  BY DEF TypeOK
<1>2. ASSUME NEW s \in Servers, EnableAccount(a, s) \/ AssignAccountServer(a, s)
      PROVE  \E r \in Account :
               /\ account' = [account EXCEPT ![a] = r] /\ r.server = s
               /\ r.key = account[a].key /\ r.address = account[a].address
               /\ r.status = account[a].status \/ r.status = "enabled"
  <2>1. CASE EnableAccount(a, s)
    <3> DEFINE r == [account[a] EXCEPT !.status = "enabled", !.server = s]
    <3>1. account' = [account EXCEPT ![a] = r]
      BY <1>1, <2>1 DEF EnableAccount
    <3>2. /\ r \in Account /\ r.server = s /\ r.status = "enabled"
          /\ r.key = account[a].key /\ r.address = account[a].address
      BY <1>1 DEF Account
    <3> HIDE DEF r
    <3> QED BY <3>1, <3>2
  <2>2. CASE AssignAccountServer(a, s)
    <3> DEFINE r == [account[a] EXCEPT !.server = s]
    <3>1. account' = [account EXCEPT ![a] = r]
      BY <1>1, <2>2 DEF AssignAccountServer
    <3>2. /\ r \in Account /\ r.server = s /\ r.status = account[a].status
          /\ r.key = account[a].key /\ r.address = account[a].address
      BY <1>1 DEF Account
    <3> HIDE DEF r
    <3> QED BY <3>1, <3>2
  <2> QED BY <1>2, <2>1, <2>2
<1>3. ASSUME NEW s \in Servers, EnableAccount(a, s) \/ AssignAccountServer(a, s)
      PROVE  /\ UNCHANGED <<scope, rows, peers, saved, keys, keysOf, raced, txn, faults>>
             /\ UNCHANGED <<overlapped, forgotten, reverted>>
             /\ moved \subseteq moved' /\ (~Moves(a, s) => moved' = moved)
             /\ Moves(a, s) => "move" \in Features
             /\ Moves(a, s) => \/ a \in moved'
                               \/ /\ account[a].address = None
                                  /\ \A w \in Workers :
                                       ~(txn[w].op = "issue" /\ txn[w].account = a)
  <2>1. /\ Moving(a, s) /\ (Moves(a, s) => "move" \in Features)
        /\ UNCHANGED <<scope, rows, peers, saved, keys, keysOf, txn, faults>>
    BY <1>3 DEF EnableAccount, AssignAccountServer
  <2> QED BY <2>1 DEF Moving
<1>4. ASSUME NEW s \in Servers, EnableAccount(a, s) \/ AssignAccountServer(a, s)
      PROVE  /\ account' \in [Accounts -> Account] /\ account'[a].server = s
             /\ \A b \in Accounts :
                  /\ account'[b].key = account[b].key /\ account'[b].address = account[b].address
                  /\ b # a => account'[b].server = account[b].server
                  /\ account'[b].status = account[b].status \/ account'[b].status # "revoked"
                  /\ account'[b].status = account[b].status \/ account'[b].server \in Servers
  <2>1. PICK r \in Account :
               /\ account' = [account EXCEPT ![a] = r] /\ r.server = s
               /\ r.key = account[a].key /\ r.address = account[a].address
               /\ r.status = account[a].status \/ r.status = "enabled"
    BY <1>2, <1>4
  <2>2. account'[a] = r /\ \A b \in Accounts \ {a} : account'[b] = account[b]
    BY <1>1, <2>1
  <2> QED BY <1>1, <2>1, <2>2
<1>5. CASE \E s \in Servers : EnableAccount(a, s) \/ AssignAccountServer(a, s)
  <2>1. PICK s \in Servers : EnableAccount(a, s) \/ AssignAccountServer(a, s)
    BY <1>5
  <2>2. ~Moves(a, s) => account[a].server = s \/ account[a].server = None
    BY DEF Moves
  <2> QED BY <1>3, <1>4, <2>1, <2>2
<1>6. CASE DisableAccount(a)
  <2> DEFINE r == [account[a] EXCEPT !.status = "disabled"]
  <2>1. /\ account' = [account EXCEPT ![a] = r]
        /\ UNCHANGED <<scope, moved, rows, peers, saved, keys, keysOf, raced, txn, faults>>
        /\ UNCHANGED <<overlapped, forgotten, reverted>>
    BY <1>1, <1>6 DEF DisableAccount, history
  <2>2. /\ r \in Account /\ r.server = account[a].server /\ r.status = "disabled"
        /\ r.key = account[a].key /\ r.address = account[a].address
    BY <1>1 DEF Account
  <2> HIDE DEF r
  <2>3. account'[a] = r /\ \A b \in Accounts \ {a} : account'[b] = account[b]
    BY <1>1, <2>1
  <2> QED BY <1>1, <2>1, <2>2, <2>3
<1> QED BY <1>5, <1>6

LEMMA AccountTyped ==
  ASSUME Typed, NEW a \in Accounts,
         \/ \E s \in Servers : EnableAccount(a, s) \/ AssignAccountServer(a, s)
         \/ DisableAccount(a)
  PROVE  Typed'
<1>1. TypeOK /\ None \notin Servers
  BY ScopeFacts DEF Typed, TypeOK
<1>2. \A b \in Accounts : account[b].server # None => account'[b].server # None
  BY <1>1, AccountFacts
<1>3. HaveServer'
  <2>1. HaveServer
    BY DEF Typed
  <2>2. \A b \in Accounts :
          \/ account'[b].status \in {account[b].status, "disabled"}
          \/ account'[b].server \in Servers
    BY <1>1, AccountFacts
  <2> QED BY <1>1, <1>2, <2>1, <2>2 DEF HaveServer
<1>4. /\ UNCHANGED <<scope, rows, peers, saved, keys, keysOf, txn, faults>>
      /\ account' \in [Accounts -> Account]
  BY <1>1, AccountFacts
<1> QED BY <1>1, <1>2, <1>3, <1>4, TypedStep DEF TypeOK, Peers

LEMMA ThresholdTyped ==
  ASSUME Typed, NEW r \in DOMAIN rows, DisableCertificateByThreshold(r)
  PROVE  Typed'
<1>1. /\ rows \in Seq(Row)
      /\ rows' = [rows EXCEPT ![r] = [rows[r] EXCEPT !.status = "revoked"]]
      /\ UNCHANGED <<scope, account, peers, saved, keys, keysOf, txn, faults>>
  BY DEF DisableCertificateByThreshold, Typed, TypeOK
<1>2. \A x \in Row : /\ [x EXCEPT !.status = "revoked"] \in Row
                     /\ [x EXCEPT !.status = "revoked"].account = x.account
                     /\ [x EXCEPT !.status = "revoked"].server = x.server
  BY DEF Row
<1>3. rows[r] \in Row /\ \A q \in DOMAIN rows : rows[q] \in Row
  BY <1>1
<1>4. /\ rows' \in Seq(Row) /\ DOMAIN rows' = DOMAIN rows
      /\ \A q \in DOMAIN rows : /\ rows'[q].account = rows[q].account
                                /\ rows'[q].server = rows[q].server
  BY <1>1, <1>2, <1>3
<1> QED BY <1>1, <1>4, TypedStep DEF Typed, HaveServer, TypeOK, Peers

\* A request begins: nothing changes but its handler, and for a key pair the number of keys.
LEMMA BeginTyped ==
  ASSUME Typed, NEW w \in Workers, NEW t \in Handler, Begin(w, t), keys' \in {keys, keys + 1},
         Works(w)'
  PROVE  Typed'
<1>1. /\ txn' = [txn EXCEPT ![w] = t]
      /\ UNCHANGED <<scope, account, rows, peers, saved, keysOf, faults>>
      /\ txn \in [Workers -> Handler] /\ keys \in Nat
  BY DEF Begin, Typed, TypeOK
<1>2. txn' \in [Workers -> Handler] /\ \A v \in Workers \ {w} : txn'[v] = txn[v]
  BY <1>1
<1>3. 1..keys \subseteq 1..keys' /\ keys' \in Nat /\ keys <= keys'
  BY <1>1
<1>4. /\ peers' \in [Servers -> SUBSET ((1..keys') \X Addresses)]
      /\ saved' \in [Servers -> SUBSET ((1..keys') \X Addresses)]
      /\ keysOf' \in [Accounts -> SUBSET (1..keys')]
  <2>1. /\ peers \in [Servers -> SUBSET ((1..keys) \X Addresses)]
        /\ saved \in [Servers -> SUBSET ((1..keys) \X Addresses)]
        /\ keysOf \in [Accounts -> SUBSET (1..keys)]
    BY DEF Typed, TypeOK, Peers
  <2>2. ((1..keys) \X Addresses) \subseteq ((1..keys') \X Addresses)
    BY <1>3
  <2> QED BY <1>1, <1>3, <2>1, <2>2
<1> QED BY <1>1, <1>2, <1>3, <1>4, TypedStep DEF Typed, HaveServer, TypeOK

\* Accounts being issued on the server of a, and a itself when there are any.
Racing(a) ==
  UNION {{a, txn[v].account} : v \in {x \in Workers : /\ txn[x].op = "issue"
                                                    /\ txn[x].server = account[a].server}}

\* What a request reads and keeps for its commands.
LEMMA IssueFacts ==
  ASSUME Typed, NEW w \in Workers, NEW a \in Accounts, IssueCertificate(w, a)
  PROVE  \E t \in Handler :
           /\ Begin(w, t) /\ keys' = keys + 1
           /\ t.op = "issue" /\ t.step = "set" /\ t.account = a
           /\ t.server = account[a].server /\ t.server \in Servers
           /\ t.key = keys + 1 /\ t.address = AddressFor(a) /\ t.address \in Addresses
           /\ txn[w] = Idle /\ account[a].status = "enabled"
           /\ IssuedOn(a, account[a].server) = {}
           /\ raced' = raced \cup Racing(a)
<1>0. PICK key, address : key = keys + 1 /\ address = AddressFor(a)
  OBVIOUS
<1> DEFINE t == [Idle EXCEPT !.op = "issue", !.step = "set", !.account = a,
                   !.server = account[a].server, !.key = key, !.address = address]
<1>1. /\ Begin(w, t) /\ keys' = keys + 1 /\ account[a].status = "enabled"
      /\ IssuedOn(a, account[a].server) = {} /\ AddressFor(a) # None
      /\ raced' = raced \cup Racing(a)
  BY <1>0 DEF IssueCertificate, Racing
<1>2. /\ TypeOK /\ keys \in Nat /\ Works(w) /\ txn[w].step = "idle"
      /\ account[a].server \in Servers
  BY <1>1 DEF Typed, TypeOK, HaveServer, Account, Begin
<1>3. AddressFor(a) \in Addresses
  BY <1>1, <1>2, AddressForAccount
<1>4. /\ t.op = "issue" /\ t.step = "set" /\ t.account = a /\ t.server = account[a].server
      /\ t.key = key /\ t.address = address /\ t \in Handler
  <2>1. key \in Nat /\ address \in Addresses
    BY <1>0, <1>2, <1>3
  <2> QED BY <1>2, <2>1 DEF Idle, Handler, Steps, None
<1>5. txn[w] = Idle
  BY <1>2 DEF Works
<1> HIDE DEF t
<1> QED BY <1>0, <1>1, <1>2, <1>3, <1>4, <1>5

LEMMA OnRowFacts ==
  ASSUME Typed, NEW r \in DOMAIN rows, NEW op \in {"revoke", "account"}
  PROVE  LET t == OnRow(op, r)  a == rows[r].account IN
           /\ t \in Handler /\ t.op = op /\ t.account = a /\ a \in Accounts
           /\ t.step = IF account[a].key = None THEN "commit" ELSE "remove"
           /\ t.server = rows[r].server /\ t.server \in Servers
           /\ t.key = account[a].key /\ t.row = r /\ r \in Nat \ {0}
<1>1. /\ rows[r] \in Row /\ r \in Nat \ {0}
      /\ account \in [Accounts -> Account]
  BY DEF Typed, TypeOK
<1>2. /\ rows[r].account \in Accounts /\ rows[r].server \in Servers
      /\ account[rows[r].account].key \in Nat
  BY <1>1 DEF Row, Account
<1> QED BY <1>1, <1>2, IdleFacts DEF OnRow, Idle, Handler, Steps

\* A request to revoke is about an issued row of the account, or there is none.
LEMMA RevokeFacts ==
  ASSUME Typed, NEW w \in Workers,
         \/ \E r \in DOMAIN rows : RevokeCertificate(w, r)
         \/ \E a \in Accounts : RevokeAccount(w, a)
  PROVE  \E t \in Handler :
           /\ Begin(w, t) /\ UNCHANGED <<keys, raced>> /\ txn[w] = Idle
           /\ t.op \in {"revoke", "account"} /\ t.account \in Accounts
           /\ \/ /\ t.row = None /\ t.server = None /\ t.op = "account" /\ t.step = "commit"
                 /\ Issued(t.account) = {}
              \/ /\ t.row \in DOMAIN rows /\ t.row # None /\ rows[t.row].status = "issued"
                 /\ rows[t.row].account = t.account /\ t.server = rows[t.row].server
                 /\ t.server \in Servers /\ t.key = account[t.account].key
                 /\ t.step = IF t.key = None THEN "commit" ELSE "remove"
<1>1. txn[w].step = "idle" => txn[w] = Idle
  BY DEF Typed, Works
<1>2. ASSUME NEW r \in DOMAIN rows, NEW op \in {"revoke", "account"}, Begin(w, OnRow(op, r)),
             rows[r].status = "issued", UNCHANGED <<keys, raced>>
      PROVE  \E t \in Handler :
               /\ Begin(w, t) /\ UNCHANGED <<keys, raced>> /\ txn[w] = Idle
               /\ t.op \in {"revoke", "account"} /\ t.account \in Accounts
               /\ t.row \in DOMAIN rows /\ t.row # None /\ rows[t.row].status = "issued"
               /\ rows[t.row].account = t.account /\ t.server = rows[t.row].server
               /\ t.server \in Servers /\ t.key = account[t.account].key
               /\ t.step = IF t.key = None THEN "commit" ELSE "remove"
  <2>1. PICK t : t = OnRow(op, r)
    OBVIOUS
  <2>2. /\ t \in Handler /\ t.op = op /\ t.account = rows[r].account /\ rows[r].account \in Accounts
        /\ t.step = IF account[rows[r].account].key = None THEN "commit" ELSE "remove"
        /\ t.server = rows[r].server /\ t.server \in Servers
        /\ t.key = account[rows[r].account].key /\ t.row = r /\ r # None
    BY <2>1, OnRowFacts DEF None
  <2>3. txn[w] = Idle
    BY <1>1, <1>2 DEF Begin
  <2> QED BY <1>2, <2>1, <2>2, <2>3
<1>3. CASE \E r \in DOMAIN rows : RevokeCertificate(w, r)
  BY <1>2, <1>3 DEF RevokeCertificate
<1>4. ASSUME NEW a \in Accounts, RevokeAccount(w, a), Issued(a) # {} \/ ~(Issued(a) = {})
      PROVE  \E r \in DOMAIN rows : /\ Begin(w, OnRow("account", r)) /\ rows[r].status = "issued"
                                    /\ UNCHANGED <<keys, raced>>
  BY <1>4 DEF RevokeAccount, Issued
<1>5. ASSUME NEW a \in Accounts, RevokeAccount(w, a), Issued(a) = {}
      PROVE  \E t \in Handler :
               /\ Begin(w, t) /\ UNCHANGED <<keys, raced>> /\ txn[w] = Idle
               /\ t.op = "account" /\ t.account \in Accounts
               /\ t.row = None /\ t.server = None /\ t.step = "commit"
               /\ Issued(t.account) = {}
  <2> DEFINE t == [Idle EXCEPT !.op = "account", !.step = "commit", !.account = a]
  <2>1. Begin(w, t) /\ UNCHANGED <<keys, raced>>
    BY <1>5 DEF RevokeAccount
  <2>2. /\ t \in Handler /\ t.op = "account" /\ t.account = a
        /\ t.row = None /\ t.server = None /\ t.step = "commit"
    BY IdleFacts DEF Idle, Handler, Steps
  <2> HIDE DEF t
  <2>3. txn[w] = Idle
    BY <1>1, <2>1 DEF Begin
  <2> QED BY <1>5, <2>1, <2>2, <2>3
<1>6. CASE \E a \in Accounts : RevokeAccount(w, a)
  <2>1. PICK a \in Accounts : RevokeAccount(w, a)
    BY <1>6
  <2>2. CASE Issued(a) = {}
    BY <1>5, <2>1, <2>2
  <2>3. CASE Issued(a) # {}
    BY <1>2, <1>4, <2>1, <2>3
  <2> QED BY <2>2, <2>3
<1> QED BY <1>3, <1>6

LEMMA IssueTyped ==
  ASSUME Typed, NEW w \in Workers, NEW a \in Accounts, IssueCertificate(w, a)
  PROVE  Typed'
<1>1. PICK t \in Handler :
        /\ Begin(w, t) /\ keys' = keys + 1 /\ t.op = "issue" /\ t.step = "set" /\ t.account = a
        /\ t.server = account[a].server /\ t.server \in Servers
        /\ t.key = keys + 1 /\ t.address \in Addresses /\ account[a].status = "enabled"
  BY IssueFacts
<1>2. /\ txn' = [txn EXCEPT ![w] = t] /\ UNCHANGED <<scope, account, rows>>
      /\ txn \in [Workers -> Handler] /\ keys \in Nat /\ account[a].server # None
  BY <1>1 DEF Begin, Typed, TypeOK, HaveServer
<1>3. txn'[w] = t /\ t.key \in 1..keys'
  BY <1>1, <1>2
<1>4. Works(w)'
  BY <1>1, <1>2, <1>3, SetsStay DEF Works
<1> QED BY <1>1, <1>4, BeginTyped

LEMMA RevokeTyped ==
  ASSUME Typed, NEW w \in Workers,
         \/ \E r \in DOMAIN rows : RevokeCertificate(w, r)
         \/ \E a \in Accounts : RevokeAccount(w, a)
  PROVE  Typed'
<1>1. PICK t \in Handler :
        /\ Begin(w, t) /\ UNCHANGED keys
        /\ t.op \in {"revoke", "account"} /\ t.account \in Accounts
        /\ \/ t.row = None /\ t.server = None /\ t.op = "account" /\ t.step = "commit"
           \/ /\ t.row \in DOMAIN rows /\ t.row # None
              /\ rows[t.row].account = t.account /\ t.server = rows[t.row].server
              /\ t.step = IF t.key = None THEN "commit" ELSE "remove"
  BY RevokeFacts
<1>2. /\ txn' = [txn EXCEPT ![w] = t] /\ UNCHANGED <<scope, account, rows>>
      /\ txn \in [Workers -> Handler]
  BY <1>1 DEF Begin, Typed, TypeOK
<1>3. txn'[w] = t
  BY <1>2
<1>4. Works(w)'
  BY <1>1, <1>2, <1>3, SetsStay DEF Works
<1> QED BY <1>1, <1>4, BeginTyped

LEMMA GoesTyped ==
  ASSUME Typed, NEW w \in Workers, NEW step \in {"save", "commit"}, Goes(w, step),
         txn[w].step # "idle", txn[w].op = "issue" \/ txn[w].row # None,
         UNCHANGED <<scope, account, rows, keys, keysOf>>, peers' \in Peers, saved' \in Peers,
         faults' \in Nat
  PROVE  Typed'
<1>1. PICK u \in Handler : /\ txn' = [txn EXCEPT ![w] = u]
                           /\ u = Idle \/ (u.step = step /\ Same(txn[w], u))
  BY DEF Goes
<1>2. txn \in [Workers -> Handler] /\ Works(w) /\ keys \in Nat
  BY DEF Typed, TypeOK
<1>3. txn'[w] = u /\ txn' \in [Workers -> Handler] /\ \A v \in Workers \ {w} : txn'[v] = txn[v]
  BY <1>1, <1>2
<1>4. Works(w)'
  <2>1. CASE u = Idle
    BY <1>3, <2>1, IdleFacts DEF Works
  <2>2. CASE u.step = step /\ Same(txn[w], u)
    BY <1>2, <1>3, <2>2, SetsStay DEF Works, Same
  <2> QED BY <1>1, <2>1, <2>2
<1> QED BY <1>2, <1>3, <1>4, TypedStep DEF Typed, TypeOK, HaveServer, Peers

\* The commands, and requests that fail.
LEMMA CommandFacts ==
  ASSUME Typed, NEW w \in Workers
  PROVE  /\ SetPeer(w) => /\ txn[w].op = "issue" /\ txn[w].step = "set" /\ Goes(w, "save")
                          /\ peers' = [peers EXCEPT ![txn[w].server] =
                               {p \in @ : p[1] # txn[w].key /\ p[2] # txn[w].address}
                                 \cup {<<txn[w].key, txn[w].address>>}]
                          /\ saved' = saved /\ forgotten' = forgotten \ {txn[w].account}
         /\ RemovePeer(w) => /\ txn[w].op \in {"revoke", "account"} /\ txn[w].step = "remove"
                             /\ txn[w].row # None /\ Goes(w, "save")
                             /\ peers' = [peers EXCEPT ![txn[w].server] =
                                  {p \in @ : p[1] # txn[w].key}]
                             /\ saved' = saved /\ forgotten' = forgotten \ {txn[w].account}
         /\ Save(w) => /\ txn[w].step = "save" /\ Goes(w, "commit")
                       /\ saved' = [saved EXCEPT ![txn[w].server] = peers[txn[w].server]]
                       /\ peers' = peers
         /\ Save(w) \/ SaveFails(w) \/ Fail(w) => UNCHANGED <<peers, forgotten>>
         /\ SaveFails(w) => /\ txn[w].step = "save" /\ Goes(w, "commit") /\ faults < MaxFaults
                            /\ UNCHANGED <<peers, saved>>
         /\ Fail(w) => /\ txn[w].step # "idle" /\ txn' = [txn EXCEPT ![w] = Idle]
                       /\ faults < MaxFaults /\ UNCHANGED <<peers, saved>>
         /\ SetPeer(w) \/ RemovePeer(w) \/ Save(w) \/ SaveFails(w) \/ Fail(w) =>
              /\ UNCHANGED <<scope, moved, raced, overlapped, reverted>>
              /\ UNCHANGED <<account, rows, keys, keysOf>>
              /\ faults' \in Nat
<1>1. TypeOK /\ Works(w) /\ txn \in [Workers -> Handler] /\ faults \in Nat
  BY DEF Typed, TypeOK
<1>2. txn[w].step = "set" => txn[w].op = "issue"
  BY <1>1 DEF Works, Handler
<1>3. txn[w].step = "remove" => txn[w].op \in {"revoke", "account"} /\ txn[w].row # None
  BY <1>1 DEF Works, Handler
<1>4. ASSUME SetPeer(w) PROVE Goes(w, "save") /\ faults' \in Nat
  BY <1>1, <1>4, AnsweredGoes DEF SetPeer, Steps
<1>5. ASSUME RemovePeer(w) PROVE Goes(w, "save") /\ faults' \in Nat
  BY <1>1, <1>5, AnsweredGoes DEF RemovePeer, Steps
<1>6. ASSUME Save(w) PROVE Goes(w, "commit") /\ faults' \in Nat
  BY <1>1, <1>6, AnsweredGoes DEF Save, Steps
<1>7. ASSUME SaveFails(w) PROVE Goes(w, "commit") /\ faults' \in Nat
  <2>1. txn' = [txn EXCEPT ![w] = [txn[w] EXCEPT !.step = "commit"]]
    BY <1>1, <1>7 DEF SaveFails
  <2>2. Goes(w, "commit")
    BY <1>1, <2>1, StepTo DEF Goes, Steps
  <2>3. faults' \in Nat
    BY <1>1, <1>7 DEF SaveFails
  <2> QED BY <2>2, <2>3
<1>8. ASSUME Fail(w) PROVE faults' \in Nat
  BY <1>1, <1>8 DEF Fail
<1>9. SetPeer(w) \/ RemovePeer(w) \/ Save(w) \/ SaveFails(w) \/ Fail(w) =>
        UNCHANGED <<scope, moved, raced, overlapped, reverted, account, rows, keys, keysOf>>
  BY DEF SetPeer, RemovePeer, Save, SaveFails, Fail, history
<1>10. Save(w) \/ SaveFails(w) \/ Fail(w) => UNCHANGED <<peers, forgotten>>
  BY DEF Save, SaveFails, Fail, history
<1> QED BY <1>2, <1>3, <1>4, <1>5, <1>6, <1>7, <1>8, <1>9, <1>10
        DEF SetPeer, RemovePeer, Save, SaveFails, Fail

LEMMA CommandTyped ==
  ASSUME Typed, NEW w \in Workers,
         SetPeer(w) \/ RemovePeer(w) \/ Save(w) \/ SaveFails(w) \/ Fail(w)
  PROVE  Typed'
<1>1. /\ Works(w) /\ peers \in Peers /\ saved \in Peers /\ txn \in [Workers -> Handler]
      /\ UNCHANGED <<scope, account, rows, keys, keysOf>> /\ faults' \in Nat
  BY CommandFacts DEF Typed, TypeOK
<1>2. CASE SetPeer(w)
  <2>1. peers' \in Peers
    <3>1. <<txn[w].key, txn[w].address>> \in (1..keys) \X Addresses
      BY <1>1, <1>2, CommandFacts DEF Works
    <3> QED BY <1>1, <1>2, <3>1, CommandFacts DEF Peers
  <2> QED BY <1>1, <1>2, <2>1, CommandFacts, GoesTyped
<1>3. CASE RemovePeer(w)
  <2>1. peers' \in Peers
    BY <1>1, <1>3, CommandFacts DEF Peers
  <2> QED BY <1>1, <1>3, <2>1, CommandFacts, GoesTyped
<1>4. CASE Save(w) \/ SaveFails(w)
  <2>1. peers' \in Peers /\ saved' \in Peers /\ Goes(w, "commit") /\ txn[w].step = "save"
    <3>1. txn[w].step = "save" /\ Goes(w, "commit") /\ peers' = peers
      BY <1>4, CommandFacts
    <3>2. saved' = saved \/ saved' = [saved EXCEPT ![txn[w].server] = peers[txn[w].server]]
      BY <1>4, CommandFacts
    <3> QED BY <1>1, <3>1, <3>2 DEF Peers
  <2>2. txn[w].op = "issue" \/ txn[w].row # None
    BY <1>1, <2>1 DEF Works, Handler
  <2> QED BY <1>1, <2>1, <2>2, GoesTyped
<1>5. CASE Fail(w)
  <2>1. /\ txn' \in [Workers -> Handler] /\ txn'[w] = Idle
        /\ \A v \in Workers \ {w} : txn'[v] = txn[v]
    BY <1>1, <1>5, CommandFacts, IdleFacts
  <2>2. Works(w)'
    BY <2>1, IdleFacts DEF Works
  <2>3. peers' = peers /\ saved' = saved
    BY <1>5, CommandFacts
  <2> QED BY <1>1, <2>1, <2>2, <2>3, TypedStep DEF Typed, TypeOK, HaveServer, Peers
<1> QED BY <1>2, <1>3, <1>4, <1>5

\* What a commit changes.
LEMMA CommitIssueFacts ==
  ASSUME Typed, NEW w \in Workers, CommitIssue(w)
  PROVE  LET t == txn[w]  a == txn[w].account  n == Len(rows) + 1 IN
           /\ t.op = "issue" /\ t.step = "commit"
           /\ UNCHANGED <<scope, history, peers, saved, keys, faults>>
           /\ txn' = [txn EXCEPT ![w] = Idle]
           /\ account' \in [Accounts -> Account]
           /\ account'[a].key = t.key /\ account'[a].address = t.address
           /\ account'[a].server = account[a].server /\ account'[a].status = account[a].status
           /\ \A b \in Accounts : b # a => account'[b] = account[b]
           /\ rows' \in Seq(Row) /\ DOMAIN rows' = DOMAIN rows \cup {n} /\ n \notin DOMAIN rows
           /\ \A r \in DOMAIN rows : rows'[r] = rows[r]
           /\ rows'[n].account = a /\ rows'[n].server = t.server /\ rows'[n].status = "issued"
           /\ keysOf' \in [Accounts -> SUBSET (1..keys)] /\ keysOf'[a] = keysOf[a] \cup {t.key}
           /\ \A b \in Accounts : b # a => keysOf'[b] = keysOf[b]
<1> DEFINE t == txn[w]
           a == txn[w].account
           row == [account |-> t.account, server |-> t.server, status |-> "issued"]
           x == [account[a] EXCEPT !.key = t.key, !.address = t.address]
<1>1. /\ t.op = "issue" /\ t.step = "commit"
      /\ UNCHANGED <<scope, history, peers, saved, keys, faults>>
      /\ txn' = [txn EXCEPT ![w] = Idle] /\ rows' = Append(rows, row)
      /\ keysOf' = [keysOf EXCEPT ![a] = @ \cup {t.key}]
      /\ account' = [account EXCEPT ![a].key = t.key, ![a].address = t.address]
  BY DEF CommitIssue
<1>2. /\ Works(w) /\ rows \in Seq(Row) /\ account \in [Accounts -> Account]
      /\ keysOf \in [Accounts -> SUBSET (1..keys)] /\ keys \in Nat
  BY DEF Typed, TypeOK
<1>3. /\ a \in Accounts /\ t.server \in Servers /\ t.key \in 1..keys /\ t.address \in Addresses
  BY <1>1, <1>2 DEF Works
<1>4. row \in Row /\ row.account = a /\ row.server = t.server /\ row.status = "issued"
  BY <1>3 DEF Row
<1>5. /\ x \in Account /\ x.key = t.key /\ x.address = t.address
      /\ x.server = account[a].server /\ x.status = account[a].status
  <2>1. t.key \in Nat /\ account[a] \in Account
    BY <1>2, <1>3
  <2> HIDE DEF a
  <2> QED BY <1>3, <2>1 DEF Account
<1>6. account' = [account EXCEPT ![a] = x]
  BY <1>1, <1>2, <1>3
<1> HIDE DEF row, x, t, a
<1>7. /\ rows' \in Seq(Row) /\ DOMAIN rows' = DOMAIN rows \cup {Len(rows) + 1}
      /\ Len(rows) + 1 \notin DOMAIN rows
      /\ \A r \in DOMAIN rows : rows'[r] = rows[r]
      /\ rows'[Len(rows) + 1] = row
  BY <1>1, <1>2, <1>4
<1>8. /\ account' \in [Accounts -> Account] /\ account'[a] = x
      /\ \A b \in Accounts : b # a => account'[b] = account[b]
  BY <1>2, <1>3, <1>5, <1>6
<1>9. /\ keysOf' \in [Accounts -> SUBSET (1..keys)] /\ keysOf'[a] = keysOf[a] \cup {t.key}
      /\ \A b \in Accounts : b # a => keysOf'[b] = keysOf[b]
  BY <1>1, <1>2, <1>3
<1> QED BY <1>1, <1>4, <1>5, <1>7, <1>8, <1>9 DEF t, a

LEMMA CommitRevokeFacts ==
  ASSUME Typed, NEW w \in Workers, CommitRevoke(w)
  PROVE  LET t == txn[w]  a == txn[w].account IN
           /\ t.op \in {"revoke", "account"} /\ t.step = "commit"
           /\ UNCHANGED <<scope, history, peers, saved, keys, keysOf, faults>>
           /\ txn' = [txn EXCEPT ![w] = Idle]
           /\ account' \in [Accounts -> Account]
           /\ \A b \in Accounts :
                /\ account'[b].key = account[b].key /\ account'[b].address = account[b].address
                /\ account'[b].server = account[b].server
                /\ account'[b].status =
                     IF b = a /\ t.op = "account" THEN "revoked" ELSE account[b].status
           /\ rows' \in Seq(Row) /\ DOMAIN rows' = DOMAIN rows
           /\ \A r \in DOMAIN rows :
                /\ rows'[r].account = rows[r].account /\ rows'[r].server = rows[r].server
                /\ rows'[r].status = IF r = t.row THEN "revoked" ELSE rows[r].status
<1> DEFINE t == txn[w]
           a == txn[w].account
<1>1. /\ t.op \in {"revoke", "account"} /\ t.step = "commit"
      /\ UNCHANGED <<scope, history, peers, saved, keys, keysOf, faults>>
      /\ txn' = [txn EXCEPT ![w] = Idle]
      /\ rows' = IF t.row = None THEN rows ELSE [rows EXCEPT ![t.row].status = "revoked"]
      /\ account' = IF t.op = "account" THEN [account EXCEPT ![a].status = "revoked"] ELSE account
  BY DEF CommitRevoke
<1>2. Works(w) /\ rows \in Seq(Row) /\ account \in [Accounts -> Account]
  BY DEF Typed, TypeOK
<1>3. a \in Accounts /\ (t.row # None => t.row \in DOMAIN rows)
  BY <1>1, <1>2 DEF Works
<1> HIDE DEF t, a
<1>4. /\ rows' \in Seq(Row) /\ DOMAIN rows' = DOMAIN rows
      /\ \A r \in DOMAIN rows :
           /\ rows'[r].account = rows[r].account /\ rows'[r].server = rows[r].server
           /\ rows'[r].status = IF r = t.row THEN "revoked" ELSE rows[r].status
  <2>1. CASE t.row = None
    <3>1. None \notin DOMAIN rows
      BY <1>2 DEF None
    <3> QED BY <1>1, <1>2, <2>1, <3>1
  <2>2. CASE t.row # None
    <3> DEFINE x == [rows[t.row] EXCEPT !.status = "revoked"]
    <3>1. rows' = [rows EXCEPT ![t.row] = x] /\ t.row \in DOMAIN rows /\ rows[t.row] \in Row
      BY <1>1, <1>2, <1>3, <2>2
    <3>2. /\ x \in Row /\ x.account = rows[t.row].account /\ x.server = rows[t.row].server
          /\ x.status = "revoked"
      BY <3>1 DEF Row
    <3> HIDE DEF x
    <3>3. /\ rows' \in Seq(Row) /\ DOMAIN rows' = DOMAIN rows
          /\ \A r \in DOMAIN rows : rows'[r] = IF r = t.row THEN x ELSE rows[r]
      BY <1>2, <3>1, <3>2
    <3> QED BY <3>2, <3>3
  <2> QED BY <2>1, <2>2
<1>5. /\ account' \in [Accounts -> Account]
      /\ \A b \in Accounts :
           /\ account'[b].key = account[b].key /\ account'[b].address = account[b].address
           /\ account'[b].server = account[b].server
           /\ account'[b].status =
                IF b = a /\ t.op = "account" THEN "revoked" ELSE account[b].status
  <2>1. CASE t.op # "account"
    BY <1>1, <1>2, <2>1
  <2>2. CASE t.op = "account"
    <3> DEFINE x == [account[a] EXCEPT !.status = "revoked"]
    <3>1. account' = [account EXCEPT ![a] = x] /\ account[a] \in Account
      BY <1>1, <1>2, <1>3, <2>2
    <3>2. /\ x \in Account /\ x.server = account[a].server /\ x.status = "revoked"
          /\ x.key = account[a].key /\ x.address = account[a].address
      BY <3>1 DEF Account
    <3> HIDE DEF x
    <3>3. /\ account' \in [Accounts -> Account]
          /\ \A b \in Accounts : account'[b] = IF b = a THEN x ELSE account[b]
      BY <1>2, <1>3, <3>1, <3>2
    <3> QED BY <2>2, <3>2, <3>3
  <2> QED BY <2>1, <2>2
<1> QED BY <1>1, <1>4, <1>5 DEF t, a

LEMMA CommitTyped ==
  ASSUME Typed, NEW w \in Workers, CommitIssue(w) \/ CommitRevoke(w)
  PROVE  Typed'
<1>1. /\ UNCHANGED <<scope, peers, saved, keys, faults>> /\ txn' = [txn EXCEPT ![w] = Idle]
      /\ account' \in [Accounts -> Account] /\ keysOf' \in [Accounts -> SUBSET (1..keys)]
      /\ rows' \in Seq(Row) /\ DOMAIN rows \subseteq DOMAIN rows'
      /\ \A r \in DOMAIN rows : /\ rows'[r].account = rows[r].account
                                /\ rows'[r].server = rows[r].server
  <2>1. CASE CommitIssue(w)
    BY <2>1, CommitIssueFacts
  <2>2. CASE CommitRevoke(w)
    BY <2>2, CommitRevokeFacts DEF Typed, TypeOK
  <2> QED BY <2>1, <2>2
<1>2. /\ HaveServer'
      /\ \A a \in Accounts : account[a].server # None => account'[a].server # None
  <2>1. HaveServer /\ (CommitIssue(w) => txn[w].account \in Accounts)
    BY DEF Typed, Works, CommitIssue
  <2>2. CASE CommitIssue(w)
    BY <2>1, <2>2, CommitIssueFacts DEF HaveServer
  <2>3. CASE CommitRevoke(w)
    BY <2>1, <2>3, CommitRevokeFacts DEF HaveServer
  <2> QED BY <2>2, <2>3
<1>3. /\ txn' \in [Workers -> Handler] /\ txn'[w] = Idle
      /\ \A v \in Workers \ {w} : txn'[v] = txn[v]
  BY <1>1, IdleFacts DEF Typed, TypeOK
<1>4. Works(w)'
  BY <1>3, IdleFacts DEF Works
<1>5. keys' \in Nat /\ keys <= keys' /\ faults' \in Nat
  BY <1>1 DEF Typed, TypeOK
<1>6. /\ peers' \in [Servers -> SUBSET ((1..keys') \X Addresses)]
      /\ saved' \in [Servers -> SUBSET ((1..keys') \X Addresses)]
      /\ keysOf' \in [Accounts -> SUBSET (1..keys')]
  BY <1>1 DEF Typed, TypeOK, Peers
<1> QED BY <1>1, <1>2, <1>3, <1>4, <1>5, <1>6, TypedStep

LEMMA RestartTyped ==
  ASSUME Typed, NEW s \in Servers, RestartServer(s)
  PROVE  Typed'
<1>1. /\ UNCHANGED <<scope, account, rows, saved, keys, keysOf, txn, faults>>
      /\ peers' = [peers EXCEPT ![s] = saved[s]] /\ peers \in Peers /\ saved \in Peers
  BY DEF RestartServer, Typed, TypeOK
<1>2. peers' \in [Servers -> SUBSET ((1..keys) \X Addresses)]
  BY <1>1 DEF Peers
<1> QED BY <1>1, <1>2, TypedStep DEF Typed, HaveServer, TypeOK, Peers

LEMMA InitTyped == Init => Typed
<1> SUFFICES ASSUME Init PROVE Typed
  OBVIOUS
<1>1. /\ account \in [Accounts -> Account] /\ HaveServer
  <2>1. \A a \in Accounts : account[a] \in Account /\ account[a].status = "none"
    BY DEF Init, Account, None
  <2> QED BY <2>1 DEF Init, HaveServer
<1>2. /\ peers \in Peers /\ saved \in Peers /\ rows \in Seq(Row) /\ keys \in Nat /\ faults \in Nat
      /\ keysOf \in [Accounts -> SUBSET (1..keys)]
  BY DEF Init, Peers
<1>3. txn \in [Workers -> Handler] /\ \A w \in Workers : txn[w] = Idle
  BY IdleFacts DEF Init
<1>4. \A w \in Workers : Works(w)
  BY <1>3, IdleFacts DEF Works
<1> QED BY <1>1, <1>2, <1>3, <1>4 DEF Typed, TypeOK, Init

-----------------------------------------------------------------------------
(* Addresses *)

\* Nothing an address depends on changes, and handlers go on or end.
LEMMA AddressesStay ==
  ASSUME Typed, AddressInv, UNCHANGED <<scope, moved, raced>>,
         \A a \in Accounts : /\ account'[a].address = account[a].address
                             /\ account'[a].server = account[a].server,
         \A w \in Workers : txn'[w].op # "issue" \/ Same(txn[w], txn'[w])
  PROVE  AddressInv'
<1>1. Workers' = Workers
  BY SetsStay
<1>2. Placed' /\ AddressesDiffer'
  BY DEF AddressInv, Placed, AddressesDiffer
<1>3. ASSUME NEW w \in Workers PROVE Reserved(w)'
  <2>1. Reserved(w)
    BY DEF AddressInv
  <2>2. CASE txn'[w].op # "issue"
    BY <2>2 DEF Reserved
  <2>3. CASE Same(txn[w], txn'[w])
    <3>1. txn[w].op = "issue" => txn[w].account \in Accounts
      BY DEF Typed, Works
    <3> QED BY <2>1, <2>3, <3>1 DEF Reserved, Same
  <2> QED BY <2>2, <2>3
<1>4. Races'
  BY <1>1 DEF AddressInv, Races, Same
<1> QED BY <1>1, <1>2, <1>3, <1>4 DEF AddressInv

LEMMA AccountAddresses ==
  ASSUME Typed, AddressInv, NEW a \in Accounts,
         \/ \E s \in Servers : EnableAccount(a, s) \/ AssignAccountServer(a, s)
         \/ DisableAccount(a)
  PROVE  AddressInv'
<1>1. /\ UNCHANGED <<scope, raced, txn>> /\ moved \subseteq moved'
      /\ \A b \in Accounts : /\ account'[b].address = account[b].address
                             /\ b # a => account'[b].server = account[b].server
  BY AccountFacts DEF Typed
<1>2. \/ account'[a].server = account[a].server
      \/ account'[a].server # None /\ a \in moved'
      \/ /\ account'[a].server # None /\ account[a].address = None
         /\ \A w \in Workers : ~(txn[w].op = "issue" /\ txn[w].account = a)
  <2>1. None \notin Servers
    BY ScopeFacts DEF Typed, TypeOK
  <2>2. CASE account[a].server = None
    <3>1. account[a].address = None
      BY <2>2 DEF AddressInv, Placed
    <3>2. \A w \in Workers : ~(txn[w].op = "issue" /\ txn[w].account = a)
      BY <2>2 DEF Typed, Works
    <3> QED BY <2>1, <3>1, <3>2, AccountFacts DEF Typed
  <2>3. CASE account[a].server # None
    BY <2>1, <2>3, AccountFacts DEF Typed
  <2> QED BY <2>2, <2>3
<1>3. Workers' = Workers
  BY <1>1, SetsStay
<1>4. Placed'
  BY <1>1, <1>2 DEF AddressInv, Placed
<1>5. AddressesDiffer'
  BY <1>1, <1>2 DEF AddressInv, AddressesDiffer
<1>6. ASSUME NEW w \in Workers PROVE Reserved(w)'
  <2>1. Reserved(w) /\ Works(w) /\ None \notin Addresses
    BY ScopeFacts DEF AddressInv, Typed, TypeOK
  <2>2. txn[w].op = "issue" => txn[w].account \in Accounts /\ txn[w].address # None
    BY <2>1 DEF Works
  <2> QED BY <1>1, <1>2, <2>1, <2>2 DEF Reserved
<1>7. Races'
  BY <1>1, <1>3 DEF AddressInv, Races
<1> QED BY <1>3, <1>4, <1>5, <1>6, <1>7 DEF AddressInv

LEMMA IssueAddresses ==
  ASSUME Typed, AddressInv, NEW w \in Workers, NEW a \in Accounts, IssueCertificate(w, a)
  PROVE  AddressInv'
<1>1. PICK t \in Handler :
        /\ Begin(w, t) /\ t.op = "issue" /\ t.account = a /\ t.server = account[a].server
        /\ t.address = AddressFor(a) /\ t.address \in Addresses
        /\ raced' = raced \cup Racing(a)
  BY IssueFacts
<1>2. /\ UNCHANGED <<scope, account, moved>> /\ Workers' = Workers
      /\ txn'[w] = t /\ \A v \in Workers \ {w} : txn'[v] = txn[v]
      /\ raced \subseteq raced'
  BY <1>1, SetsStay DEF Begin, Typed, TypeOK
<1>3. Placed' /\ AddressesDiffer'
  BY <1>2 DEF AddressInv, Placed, AddressesDiffer
<1>4. ASSUME NEW v \in Workers \ {w} PROVE Reserved(v)'
  <2>1. Reserved(v) /\ txn'[v] = txn[v]
    BY <1>2 DEF AddressInv
  <2> QED BY <1>2, <2>1 DEF Reserved
<1>5. Reserved(w)'
  <2>1. ASSUME a \notin moved, NEW b \in Accounts \ moved, b # a,
               account[b].server = account[a].server, ~(a \in raced /\ b \in raced)
        PROVE  account[b].address # t.address
    <3>1. CASE account[a].address = None
      <4>1. AddressFor(a) # None
        BY <1>1, ScopeFacts DEF Typed, TypeOK
      <4> QED BY <1>1, <2>1, <3>1, <4>1, AddressForAccount DEF Typed
    <3>2. CASE account[a].address # None
      <4>1. t.address = account[a].address
        BY <1>1, <3>2 DEF AddressFor
      <4> QED BY <2>1, <3>2, <4>1 DEF AddressInv, AddressesDiffer
    <3> QED BY <3>1, <3>2
  <2> QED BY <1>1, <1>2, <2>1 DEF Reserved
<1>6. Races'
  <2>1. ASSUME NEW v \in Workers \ {w}, txn[v].op = "issue", txn[v].server = t.server
        PROVE  txn[v].account \in raced' /\ a \in raced'
    BY <1>1, <2>1 DEF Racing
  <2> QED BY <1>1, <1>2, <2>1 DEF AddressInv, Races
<1> QED BY <1>2, <1>3, <1>4, <1>5, <1>6 DEF AddressInv

LEMMA CommitIssueAddresses ==
  ASSUME Typed, AddressInv, NEW w \in Workers, CommitIssue(w)
  PROVE  AddressInv'
<1> DEFINE t == txn[w]
           a == txn[w].account
<1>1. /\ t.op = "issue" /\ UNCHANGED <<scope, moved, raced>> /\ txn' = [txn EXCEPT ![w] = Idle]
      /\ account'[a].address = t.address /\ account'[a].server = account[a].server
      /\ \A b \in Accounts : b # a => account'[b] = account[b]
  BY CommitIssueFacts DEF history
<1>2. /\ Workers' = Workers /\ txn'[w] = Idle /\ \A v \in Workers \ {w} : txn'[v] = txn[v]
  BY <1>1, SetsStay DEF Typed, TypeOK
<1>3. a \in Accounts /\ account[a].server # None
  BY <1>1 DEF Typed, Works
<1>4. a \notin moved => /\ t.server = account[a].server
                        /\ \A b \in Accounts \ moved :
                             /\ b # a /\ account[b].server = t.server
                             /\ ~(a \in raced /\ b \in raced)
                             => account[b].address # t.address
  BY <1>1 DEF AddressInv, Reserved
<1>5. ASSUME NEW v \in Workers \ {w}, txn[v].op = "issue", txn[v].server = t.server
      PROVE  txn[v].account \in raced /\ a \in raced
  BY <1>1, <1>5 DEF AddressInv, Races
<1> HIDE DEF t, a
<1>6. Placed'
  BY <1>1, <1>3 DEF AddressInv, Placed
<1>7. AddressesDiffer'
  BY <1>1, <1>4 DEF AddressInv, AddressesDiffer
<1>8. ASSUME NEW v \in Workers \ {w} PROVE Reserved(v)'
  <2>1. Reserved(v) /\ txn'[v] = txn[v]
    BY <1>2 DEF AddressInv
  <2>2. \A b \in Accounts : account'[b].server = account[b].server
    BY <1>1
  <2>3. ASSUME txn[v].op = "issue", txn[v].account \notin moved, NEW b \in Accounts \ moved,
               b # txn[v].account, account[b].server = txn[v].server,
               ~(txn[v].account \in raced /\ b \in raced)
        PROVE  account'[b].address # txn[v].address
    <3>1. CASE b = a
      BY <1>4, <1>5, <2>3, <3>1
    <3>2. CASE b # a
      BY <1>1, <2>1, <2>3, <3>2 DEF Reserved
    <3> QED BY <3>1, <3>2
  <2>4. txn[v].op = "issue" => txn[v].account \in Accounts
    BY DEF Typed, Works
  <2> QED BY <1>1, <2>1, <2>2, <2>3, <2>4 DEF Reserved
<1>9. Reserved(w)'
  BY <1>2, IdleFacts DEF Reserved
<1>10. Races'
  BY <1>1, <1>2, IdleFacts DEF AddressInv, Races
<1> QED BY <1>2, <1>6, <1>7, <1>8, <1>9, <1>10 DEF AddressInv

\* What happens to the handlers in a command, a failure or the end of a request.
LEMMA HandlerFacts ==
  ASSUME Typed, NEW w \in Workers, NEW u \in Handler, txn' = [txn EXCEPT ![w] = u]
  PROVE  /\ txn' \in [Workers -> Handler] /\ txn'[w] = u
         /\ \A v \in Workers \ {w} : txn'[v] = txn[v]
         /\ u.op # "issue" \/ Same(txn[w], u) =>
              \A v \in Workers : txn'[v].op # "issue" \/ Same(txn[v], txn'[v])
<1>1. txn \in [Workers -> Handler]
  BY DEF Typed, TypeOK
<1>2. txn' \in [Workers -> Handler] /\ txn'[w] = u /\ \A v \in Workers \ {w} : txn'[v] = txn[v]
  BY <1>1
<1> QED BY <1>2 DEF Same

LEMMA CommandAddresses ==
  ASSUME Typed, AddressInv, NEW w \in Workers,
         SetPeer(w) \/ RemovePeer(w) \/ Save(w) \/ SaveFails(w) \/ Fail(w)
  PROVE  AddressInv'
<1>1. UNCHANGED <<scope, moved, raced, account>>
  BY CommandFacts
<1>2. \E u \in Handler : txn' = [txn EXCEPT ![w] = u] /\ (u = Idle \/ Same(txn[w], u))
  <2>1. CASE Fail(w)
    BY <2>1, CommandFacts, IdleFacts
  <2>2. CASE ~Fail(w)
    <3>1. Goes(w, "save") \/ Goes(w, "commit")
      BY <2>2, CommandFacts
    <3> QED BY <3>1 DEF Goes
  <2> QED BY <2>1, <2>2
<1>3. \A v \in Workers : txn'[v].op # "issue" \/ Same(txn[v], txn'[v])
  BY <1>2, IdleFacts, HandlerFacts
<1> QED BY <1>1, <1>3, AddressesStay

LEMMA RevokeAddresses ==
  ASSUME Typed, AddressInv, NEW w \in Workers,
         \/ \E r \in DOMAIN rows : RevokeCertificate(w, r)
         \/ \E a \in Accounts : RevokeAccount(w, a)
  PROVE  AddressInv'
<1>1. PICK t \in Handler : Begin(w, t) /\ UNCHANGED raced /\ t.op \in {"revoke", "account"}
  BY RevokeFacts
<1>2. UNCHANGED <<scope, moved, raced, account>> /\ txn' = [txn EXCEPT ![w] = t]
  BY <1>1 DEF Begin
<1>3. \A v \in Workers : txn'[v].op # "issue" \/ Same(txn[v], txn'[v])
  BY <1>1, <1>2, HandlerFacts
<1> QED BY <1>2, <1>3, AddressesStay

LEMMA CommitRevokeAddresses ==
  ASSUME Typed, AddressInv, NEW w \in Workers, CommitRevoke(w)
  PROVE  AddressInv'
<1>1. /\ UNCHANGED <<scope, moved, raced>> /\ txn' = [txn EXCEPT ![w] = Idle]
      /\ \A b \in Accounts : /\ account'[b].address = account[b].address
                             /\ account'[b].server = account[b].server
  BY CommitRevokeFacts DEF history
<1>2. \A v \in Workers : txn'[v].op # "issue" \/ Same(txn[v], txn'[v])
  BY <1>1, IdleFacts, HandlerFacts
<1> QED BY <1>1, <1>2, AddressesStay

\* Steps of the server and of the threshold task.
LEMMA OtherAddresses ==
  ASSUME Typed, AddressInv,
         \/ \E r \in DOMAIN rows : DisableCertificateByThreshold(r)
         \/ \E s \in Servers : RestartServer(s)
         \/ UNCHANGED vars
  PROVE  AddressInv'
<1>1. UNCHANGED <<scope, moved, raced, account, txn>>
  BY DEF DisableCertificateByThreshold, RestartServer, vars, history
<1>2. \A v \in Workers : txn'[v].op # "issue" \/ Same(txn[v], txn'[v])
  BY <1>1 DEF Same
<1> QED BY <1>1, <1>2, AddressesStay

-----------------------------------------------------------------------------
(* Steps *)

\* Every step is one of these.
LEMMA Cases ==
  ASSUME [Next]_vars
  PROVE  \/ \E a \in Accounts : \/ \E s \in Servers : EnableAccount(a, s)
                                                       \/ AssignAccountServer(a, s)
                                \/ DisableAccount(a)
         \/ \E w \in Workers, a \in Accounts : IssueCertificate(w, a)
         \/ \E w \in Workers : \/ \E r \in DOMAIN rows : RevokeCertificate(w, r)
                               \/ \E a \in Accounts : RevokeAccount(w, a)
         \/ \E w \in Workers :
              SetPeer(w) \/ RemovePeer(w) \/ Save(w) \/ SaveFails(w) \/ Fail(w)
         \/ \E w \in Workers : CommitIssue(w)
         \/ \E w \in Workers : CommitRevoke(w)
         \/ \/ \E r \in DOMAIN rows : DisableCertificateByThreshold(r)
            \/ \E s \in Servers : RestartServer(s)
            \/ UNCHANGED vars
BY Zenon DEF Next

LEMMA NextTyped == Typed /\ [Next]_vars => Typed'
<1> SUFFICES ASSUME Typed, [Next]_vars PROVE Typed'
  OBVIOUS
<1>1. ASSUME UNCHANGED vars PROVE Typed'
  BY <1>1, TypedStep DEF vars, Typed, HaveServer, TypeOK, Peers
<1> QED BY <1>1, Cases, AccountTyped, IssueTyped, RevokeTyped, CommandTyped, CommitTyped,
           ThresholdTyped, RestartTyped

LEMMA NextAddresses == Typed /\ AddressInv /\ [Next]_vars => AddressInv'
BY Cases, AccountAddresses, IssueAddresses, RevokeAddresses, CommandAddresses,
   CommitIssueAddresses, CommitRevokeAddresses, OtherAddresses

LEMMA InitAddresses == Init => AddressInv
<1> SUFFICES ASSUME Init PROVE AddressInv
  OBVIOUS
<1>1. \A a \in Accounts : account[a].address = None
  BY DEF Init
<1>2. \A w \in Workers : txn[w].op = "none"
  BY IdleFacts DEF Init
<1> QED BY <1>1, <1>2 DEF AddressInv, Placed, AddressesDiffer, Reserved, Races

\* _next_wireguard_client_address: whatever requests overlap, fail or are repeated, two
\* accounts that stay on one server have different addresses unless both were issued at
\* the same time.
THEOREM AddressesAreDifferent == Spec => []AddressesDiffer
<1>1. Init => Typed /\ AddressInv
  BY InitTyped, InitAddresses
<1>2. Typed /\ AddressInv /\ [Next]_vars => (Typed /\ AddressInv)'
  BY NextTyped, NextAddresses
<1>3. AddressInv => AddressesDiffer
  BY DEF AddressInv
<1> QED BY <1>1, <1>2, <1>3, PTL DEF Spec

-----------------------------------------------------------------------------
(* Peers of revoked accounts *)

\* The peers are typed.
LEMMA PeerFacts ==
  ASSUME Typed
  PROVE  \A s \in Servers : \A p \in peers[s] :
           /\ p[1] \in 1..keys /\ p[2] \in Addresses /\ p = <<p[1], p[2]>>
           /\ p[1] # None /\ p[2] # None
<1>1. peers \in [Servers -> SUBSET ((1..keys) \X Addresses)] /\ keys \in Nat
  BY DEF Typed, TypeOK, Peers
<1>2. None \notin Addresses
  BY ScopeFacts DEF Typed, TypeOK
<1>3. ASSUME NEW s \in Servers, NEW p \in peers[s]
      PROVE  p[1] \in 1..keys /\ p[2] \in Addresses /\ p = <<p[1], p[2]>> /\ p[1] # None
  <2>1. p \in (1..keys) \X Addresses
    BY <1>1, <1>3
  <2>2. 0 \notin 1..keys
    BY <1>1
  <2> QED BY <2>1, <2>2 DEF None
<1> QED BY <1>2, <1>3

LEMMA RowFacts ==
  ASSUME Typed
  PROVE  \A r \in DOMAIN rows : rows[r].account \in Accounts /\ rows[r].server \in Servers
<1>1. ASSUME NEW r \in DOMAIN rows
      PROVE  rows[r].account \in Accounts /\ rows[r].server \in Servers
  <2>1. rows[r] \in Row
    BY DEF Typed, TypeOK
  <2> QED BY <2>1 DEF Row
<1> QED BY <1>1

\* Where the account that a request enables, assigns or disables is after it.
LEMMA Relocated ==
  ASSUME Typed, AddressInv, NEW a \in Accounts,
         \/ \E s \in Servers : EnableAccount(a, s) \/ AssignAccountServer(a, s)
         \/ DisableAccount(a)
  PROVE  \A b \in Accounts :
           \/ b \in moved'
           \/ account'[b].server = account[b].server
           \/ /\ account[b].address = None
              /\ \A w \in Workers : ~(txn[w].op = "issue" /\ txn[w].account = b)
<1>1. CASE account[a].server = None
  <2>1. account[a].address = None
    BY <1>1 DEF AddressInv, Placed
  <2>2. \A w \in Workers : ~(txn[w].op = "issue" /\ txn[w].account = a)
    BY <1>1 DEF Typed, Works
  <2> QED BY <2>1, <2>2, AccountFacts DEF Typed
<1>2. CASE account[a].server # None
  BY <1>2, AccountFacts DEF Typed
<1> QED BY <1>1, <1>2

\* Rows, addresses and keys stay with their accounts when handlers only go on or end.
LEMMA OwnedStay ==
  ASSUME Typed, Owned, UNCHANGED <<scope, keysOf>>,
         moved \subseteq moved', overlapped \subseteq overlapped',
         DOMAIN rows' = DOMAIN rows,
         \A r \in DOMAIN rows : /\ rows'[r].account = rows[r].account
                                /\ rows'[r].server = rows[r].server,
         \A a \in Accounts : account'[a].address = account[a].address,
         \A a \in Accounts : \/ a \in moved'
                             \/ account'[a].server = account[a].server
                             \/ account[a].address = None,
         \A w \in Workers : txn'[w] = Idle \/ Same(txn[w], txn'[w])
  PROVE  Owned'
<1>1. Workers' = Workers /\ \A r \in DOMAIN rows : rows[r].account \in Accounts
  BY SetsStay, RowFacts
<1>2. RowsPlaced'
  BY <1>1 DEF Owned, RowsPlaced, HasAddress
<1>3. HasAddress'
  BY <1>1 DEF Owned, HasAddress
<1>4. Fresh'
  BY <1>1, IdleFacts DEF Owned, Fresh, Same
<1>5. Overlaps'
  BY <1>1, IdleFacts DEF Owned, Overlaps, Same
<1> QED BY <1>2, <1>3, <1>4, <1>5 DEF Owned

\* A request that begins makes known whose it is, and takes a new key to issue.
LEMMA BeginOwned ==
  ASSUME Typed, Owned, NEW w \in Workers, NEW t \in Handler, Begin(w, t),
         t.op = "issue" => t.key = keys + 1
  PROVE  Owned'
<1>1. /\ UNCHANGED <<scope, account, rows, keysOf, moved>> /\ Workers' = Workers
      /\ txn'[w] = t /\ \A v \in Workers \ {w} : txn'[v] = txn[v]
      /\ overlapped \subseteq overlapped'
      /\ \A v \in Workers : txn[v].account = t.account => t.account \in overlapped'
  BY HandlerFacts, SetsStay DEF Begin
<1>2. RowsPlaced' /\ HasAddress'
  BY <1>1 DEF Owned, RowsPlaced, HasAddress
<1>3. Fresh'
  <2>1. keys + 1 \notin 1..keys /\ keysOf \in [Accounts -> SUBSET (1..keys)]
    BY DEF Typed, TypeOK
  <2>2. \A v \in Workers : txn[v].op = "issue" => txn[v].key \in 1..keys
    BY DEF Typed, Works
  <2> QED BY <1>1, <2>1, <2>2 DEF Owned, Fresh
<1>4. Overlaps'
  BY <1>1 DEF Owned, Overlaps
<1> QED BY <1>2, <1>3, <1>4 DEF Owned

LEMMA CommitIssueOwned ==
  ASSUME Typed, AddressInv, Owned, NEW w \in Workers, CommitIssue(w)
  PROVE  Owned'
<1> DEFINE t == txn[w]
           a == txn[w].account
           n == Len(rows) + 1
<1>1. /\ t.op = "issue" /\ UNCHANGED <<scope, moved, overlapped>>
      /\ txn' = [txn EXCEPT ![w] = Idle]
      /\ account'[a].address = t.address /\ account'[a].server = account[a].server
      /\ \A b \in Accounts : b # a => account'[b] = account[b]
      /\ DOMAIN rows' = DOMAIN rows \cup {n}
      /\ \A r \in DOMAIN rows : rows'[r] = rows[r]
      /\ rows'[n].account = a /\ rows'[n].server = t.server
      /\ keysOf'[a] = keysOf[a] \cup {t.key}
      /\ \A b \in Accounts : b # a => keysOf'[b] = keysOf[b]
  BY CommitIssueFacts DEF history
<1>2. /\ Workers' = Workers /\ txn'[w] = Idle /\ \A v \in Workers \ {w} : txn'[v] = txn[v]
  BY <1>1, IdleFacts, HandlerFacts, SetsStay
<1>3. a \in Accounts /\ t.address # None
  BY <1>1, ScopeFacts DEF Typed, TypeOK, Works
<1>4. a \notin moved => t.server = account[a].server
  BY <1>1 DEF AddressInv, Reserved
<1>5. /\ \A b \in Accounts : t.key \notin keysOf[b]
      /\ \A v \in Workers : v # w /\ txn[v].op = "issue" => txn[v].key # t.key
  BY <1>1 DEF Owned, Fresh
<1> HIDE DEF t, a, n
<1>6. RowsPlaced'
  BY <1>1, <1>3, <1>4, RowFacts DEF Owned, RowsPlaced
<1>7. HasAddress'
  BY <1>1, <1>3, RowFacts DEF Owned, HasAddress
<1>8. Fresh'
  BY <1>1, <1>2, <1>3, <1>5, IdleFacts DEF Owned, Fresh
<1>9. Overlaps'
  BY <1>1, <1>2, IdleFacts DEF Owned, Overlaps
<1> QED BY <1>6, <1>7, <1>8, <1>9 DEF Owned

-----------------------------------------------------------------------------
(* Peers of steady accounts *)

\* The histories only grow.
Grown ==
  moved \subseteq moved' /\ overlapped \subseteq overlapped' /\ reverted \subseteq reverted'
LEMMA GrownSets ==
  ASSUME Grown, UNCHANGED scope
  PROVE  Steady' \subseteq Steady /\ Lasting' \subseteq Lasting
BY SetsStay DEF Grown, Steady, Lasting

\* An account is where it was, with its credential, and no longer revoked at most.
Stays(a) ==
  /\ account'[a].key = account[a].key /\ account'[a].address = account[a].address
  /\ account'[a].server = account[a].server \/ account[a].address = None
  /\ account'[a].status = account[a].status \/ account'[a].status # "revoked"
\* A server gets no peer with a key that was given to somebody.
NoGivenKey ==
  \A s \in Lasting' : \A p \in peers'[s] :
    p \in peers[s] \/ \A a \in Accounts : p[1] \notin keysOf[a]

\* Steps that add no row and give no key.
LEMMA PeersStay ==
  ASSUME Typed, Owned, OwnPeers, NothingLeft, UNCHANGED <<scope, rows, keysOf>>, Grown,
         \A a \in Steady' : Stays(a), NoGivenKey,
         \A a \in Steady' : a \in forgotten \ forgotten' => Gone(a)'
  PROVE  OwnPeers' /\ NothingLeft'
<1>1. Steady' \subseteq Steady /\ Lasting' \subseteq Lasting
  BY GrownSets
<1>2. Steady \subseteq Accounts
  BY DEF Steady
<1>3. ASSUME NEW a \in Steady', NEW s \in Lasting', NEW p \in peers'[s], p[1] \in keysOf[a]
      PROVE  s = account'[a].server /\ p = <<account'[a].key, account'[a].address>>
  <2>1. p \in peers[s] /\ a \in Steady /\ a \in Accounts /\ s \in Lasting
    BY <1>1, <1>2, <1>3 DEF NoGivenKey
  <2>2. s = account[a].server /\ p = Credential(a)
    BY <1>3, <2>1 DEF OwnPeers
  <2>3. account[a].address # None
    BY <1>3, <2>1 DEF Owned, HasAddress
  <2>4. Stays(a)
    BY <1>3
  <2> QED BY <2>2, <2>3, <2>4 DEF Stays, Credential
<1>4. OwnPeers'
  BY <1>3 DEF OwnPeers, Credential
<1>5. ASSUME NEW a \in Steady' \ forgotten',
             Issued(a)' = {} \/ account'[a].status = "revoked"
      PROVE  Gone(a)'
  <2>1. a \in Steady /\ a \in Accounts /\ Stays(a)
    BY <1>1, <1>2
  <2>2. CASE a \in forgotten
    BY <1>5, <2>2
  <2>3. CASE a \notin forgotten
    <3>1. Issued(a) = {} \/ account[a].status = "revoked"
      BY <1>5, <2>1 DEF Stays, Issued
    <3>2. Gone(a)
      BY <2>1, <2>3, <3>1 DEF NothingLeft
    <3> QED BY <1>1, <2>1, <3>2 DEF Gone, NoGivenKey
  <2> QED BY <2>2, <2>3
<1>6. NothingLeft'
  BY <1>5 DEF NothingLeft
<1> QED BY <1>4, <1>6

\* A handler that another's step leaves alone.
LEMMA HalfwayStays ==
  ASSUME Typed, Owned, NEW v \in Workers, Halfway(v), txn'[v] = txn[v],
         UNCHANGED scope, Grown,
         txn[v].account \in Steady' =>
           /\ Stays(txn[v].account) /\ keysOf'[txn[v].account] = keysOf[txn[v].account]
           /\ txn[v].op = "issue" =>
                account'[txn[v].account].server = account[txn[v].account].server
           /\ txn[v].account \in forgotten \ forgotten' => Gone(txn[v].account)',
         \A s \in Lasting' : \A p \in peers'[s] :
           \/ p \in peers[s]
           \/ /\ \A a \in Accounts : p[1] \notin keysOf[a]
              /\ txn[v].op = "issue" => p[1] # txn[v].key
  PROVE  Halfway(v)'
<1> DEFINE t == txn[v]
           a == txn[v].account
<1> SUFFICES ASSUME a \in Steady'
             PROVE  /\ t.op = "issue" => Issuing(t)'
                    /\ t.op \in {"revoke", "account"} => Removing(t)'
  BY DEF Halfway, Issuing, Removing
<1>1. a \in Steady /\ a \in Accounts /\ Lasting' \subseteq Lasting /\ Stays(a)
  BY GrownSets DEF Steady
<1>2. Gone(a) => Gone(a)'
  BY <1>1 DEF Gone
<1>3. ASSUME t.op = "issue" PROVE Issuing(t)'
  <2>1. Issuing(t)
    BY <1>1, <1>3 DEF Halfway
  <2>2. \A s \in Lasting' : \A p \in peers'[s] :
          p[1] = t.key => t.step # "set" /\ s = t.server /\ p[2] = t.address
    BY <1>1, <1>3, <2>1 DEF Issuing
  <2> QED BY <1>1, <1>2, <1>3, <2>1, <2>2 DEF Issuing, Stays
<1>4. ASSUME t.op \in {"revoke", "account"} PROVE Removing(t)'
  <2>1. Removing(t)
    BY <1>1, <1>4 DEF Halfway
  <2>2. t.step = "remove" => account[a].address # None
    <3>1. t.step = "remove" => t.row \in DOMAIN rows /\ rows[t.row].account = a
      BY <1>4 DEF Typed, Works
    <3> QED BY <3>1 DEF Owned, HasAddress
  <2> QED BY <1>1, <1>2, <2>1, <2>2 DEF Removing, Stays
<1> QED BY <1>3, <1>4

LEMMA AccountPeers ==
  ASSUME Typed, AddressInv, PeersInv, NEW a \in Accounts,
         \/ \E s \in Servers : EnableAccount(a, s) \/ AssignAccountServer(a, s)
         \/ DisableAccount(a)
  PROVE  PeersInv'
<1>1. /\ UNCHANGED <<scope, rows, peers, keysOf, txn, overlapped, forgotten, reverted>>
      /\ moved \subseteq moved'
      /\ \A b \in Accounts :
           /\ account'[b].key = account[b].key /\ account'[b].address = account[b].address
           /\ account'[b].status = account[b].status \/ account'[b].status # "revoked"
  BY AccountFacts DEF Typed
<1>2. \A b \in Accounts :
        \/ b \in moved'
        \/ account'[b].server = account[b].server
        \/ /\ account[b].address = None
           /\ \A w \in Workers : ~(txn[w].op = "issue" /\ txn[w].account = b)
  BY Relocated
<1>3. Grown /\ NoGivenKey
  BY <1>1 DEF Grown, NoGivenKey, Lasting
<1>4. \A b \in Steady' : b \in Accounts /\ b \notin moved' /\ Stays(b)
  BY <1>1, <1>2 DEF Steady, Stays
<1>5. Owned'
  BY <1>1, <1>2, OwnedStay DEF PeersInv, Same
<1>6. OwnPeers' /\ NothingLeft'
  BY <1>1, <1>3, <1>4, PeersStay DEF PeersInv
<1>7. ASSUME NEW w \in Workers PROVE Halfway(w)'
  <2>1. txn[w].account \in Steady' /\ txn[w].op = "issue" =>
          account'[txn[w].account].server = account[txn[w].account].server
    BY <1>2, <1>4, <1>7
  <2>2. \A s \in Lasting' : \A p \in peers'[s] : p \in peers[s]
    BY <1>1
  <2> QED BY <1>1, <1>3, <1>4, <2>1, <2>2, HalfwayStays DEF PeersInv
<1>8. Workers' = Workers
  BY <1>1, SetsStay
<1> QED BY <1>5, <1>6, <1>7, <1>8 DEF PeersInv

\* A request begins, with nothing done on the server.
LEMMA BeginPeers ==
  ASSUME Typed, PeersInv, NEW w \in Workers, NEW t \in Handler, Begin(w, t),
         t.op = "issue" => t.key = keys + 1,
         t.account \in Steady =>
           /\ t.op = "issue" => Issuing(t)
           /\ t.op \in {"revoke", "account"} => Removing(t)
  PROVE  PeersInv'
<1>1. /\ UNCHANGED <<scope, account, rows, peers, keysOf, moved, forgotten, reverted>>
      /\ Workers' = Workers
      /\ txn'[w] = t /\ \A v \in Workers \ {w} : txn'[v] = txn[v]
      /\ overlapped \subseteq overlapped'
  BY HandlerFacts, SetsStay DEF Begin
<1>2. Grown /\ NoGivenKey /\ Lasting' = Lasting /\ Steady' \subseteq Steady
  BY <1>1, SetsStay DEF Grown, NoGivenKey, Lasting, Steady
<1>3. \A b \in Steady' : Stays(b)
  BY <1>1 DEF Stays
<1>4. OwnPeers' /\ NothingLeft'
  BY <1>1, <1>2, <1>3, PeersStay DEF PeersInv
<1>5. ASSUME NEW v \in Workers \ {w} PROVE Halfway(v)'
  <2>1. \A s \in Lasting' : \A p \in peers'[s] : p \in peers[s]
    BY <1>1
  <2> QED BY <1>1, <1>2, <1>3, <2>1, HalfwayStays DEF PeersInv
<1>6. Halfway(w)'
  BY <1>1, <1>2 DEF Halfway, Issuing, Removing, Gone
<1>7. Owned'
  BY BeginOwned DEF PeersInv
<1> QED BY <1>1, <1>4, <1>5, <1>6, <1>7 DEF PeersInv

LEMMA IssuePeers ==
  ASSUME Typed, PeersInv, NEW w \in Workers, NEW a \in Accounts, IssueCertificate(w, a)
  PROVE  PeersInv'
<1>1. PICK t \in Handler :
        /\ Begin(w, t) /\ t.op = "issue" /\ t.step = "set" /\ t.account = a
        /\ t.server = account[a].server /\ t.key = keys + 1 /\ t.address = AddressFor(a)
        /\ account[a].status = "enabled"
  BY IssueFacts
<1>2. \A s \in Lasting : \A p \in peers[s] : p[1] # t.key
  <2>1. keys + 1 \notin 1..keys /\ Lasting \subseteq Servers
    BY DEF Typed, TypeOK, Lasting
  <2> QED BY <1>1, <2>1, PeerFacts
<1>3. account[a].address \in {None, t.address}
  BY <1>1 DEF AddressFor
<1>4. Issuing(t)
  BY <1>1, <1>2, <1>3 DEF Issuing
<1> QED BY <1>1, <1>4, BeginPeers

LEMMA RevokePeers ==
  ASSUME Typed, PeersInv, NEW w \in Workers,
         \/ \E r \in DOMAIN rows : RevokeCertificate(w, r)
         \/ \E a \in Accounts : RevokeAccount(w, a)
  PROVE  PeersInv'
<1>1. PICK t \in Handler :
        /\ Begin(w, t) /\ t.op \in {"revoke", "account"} /\ t.account \in Accounts
        /\ \/ t.step = "commit" /\ Issued(t.account) = {}
           \/ /\ t.row \in DOMAIN rows /\ rows[t.row].account = t.account
              /\ t.server = rows[t.row].server /\ t.key = account[t.account].key
              /\ t.step = IF t.key = None THEN "commit" ELSE "remove"
  BY RevokeFacts
<1>2. ASSUME t.account \in Steady PROVE Removing(t)
  <2>1. t.step = "remove" =>
          t.key = account[t.account].key /\ t.server = account[t.account].server
    BY <1>1, <1>2 DEF PeersInv, Owned, RowsPlaced, Steady
  <2>2. Lasting \subseteq Servers
    BY DEF Lasting
  <2>3. t.step # "remove" => Gone(t.account) \/ t.account \in forgotten
    <3>1. CASE Issued(t.account) = {}
      BY <1>2, <3>1 DEF PeersInv, NothingLeft
    <3>2. CASE account[t.account].key = None
      BY <1>2, <2>2, <3>2, PeerFacts DEF PeersInv, OwnPeers, Gone, Credential
    <3> QED BY <1>1, <3>1, <3>2
  <2> QED BY <2>1, <2>3 DEF Removing
<1> QED BY <1>1, <1>2, BeginPeers

\* A command gives a new peer at most, with the key of its handler.
LEMMA CommandPeers ==
  ASSUME Typed, PeersInv, NEW w \in Workers, NEW u \in Handler, NEW a, txn[w].account = a,
         txn' = [txn EXCEPT ![w] = u], u = Idle \/ Same(txn[w], u),
         UNCHANGED <<scope, moved, overlapped, reverted, account, rows, keysOf>>,
         forgotten' = forgotten \/ (forgotten' = forgotten \ {a} /\ (a \in Steady => Gone(a)')),
         \A s \in Lasting : \A p \in peers'[s] :
           p \in peers[s] \/ (txn[w].op = "issue" /\ p[1] = txn[w].key),
         a \in Steady => Halfway(w)'
  PROVE  PeersInv'
<1>1. txn'[w] = u /\ \A v \in Workers \ {w} : txn'[v] = txn[v]
  BY HandlerFacts
<1>2. Workers' = Workers /\ Grown /\ Lasting' = Lasting /\ Steady' = Steady
  BY SetsStay DEF Grown, Lasting, Steady
<1>3. txn[w].op = "issue" =>
        /\ \A b \in Accounts : txn[w].key \notin keysOf[b]
        /\ \A v \in Workers : v # w /\ txn[v].op = "issue" => txn[v].key # txn[w].key
  BY DEF PeersInv, Owned, Fresh
<1>4. NoGivenKey
  BY <1>2, <1>3 DEF NoGivenKey
<1>5. \A b \in Steady : Stays(b) /\ (b \in forgotten \ forgotten' => Gone(b)')
  BY DEF Stays
<1>6. Owned'
  <2>1. \A v \in Workers : txn'[v] = Idle \/ Same(txn[v], txn'[v])
    BY <1>1 DEF Same
  <2> QED BY <2>1, OwnedStay DEF PeersInv
<1>7. OwnPeers' /\ NothingLeft'
  BY <1>2, <1>4, <1>5, PeersStay DEF PeersInv
<1>8. ASSUME NEW v \in Workers \ {w} PROVE Halfway(v)'
  <2>1. \A s \in Lasting' : \A p \in peers'[s] :
           \/ p \in peers[s]
           \/ /\ \A b \in Accounts : p[1] \notin keysOf[b]
              /\ txn[v].op = "issue" => p[1] # txn[v].key
    BY <1>2, <1>3
  <2> QED BY <1>1, <1>2, <1>5, <2>1, HalfwayStays DEF PeersInv
<1>9. Halfway(w)'
  <2>1. CASE a \in Steady
    BY <2>1
  <2>2. CASE a \notin Steady
    BY <1>1, <1>2, <2>2, IdleFacts DEF Halfway, Same
  <2> QED BY <2>1, <2>2
<1> QED BY <1>2, <1>6, <1>7, <1>8, <1>9 DEF PeersInv

\* What a handler at the end has in hand.
LEMMA IdleHalfway ==
  ASSUME NEW w \in Workers, txn'[w] = Idle
  PROVE  Halfway(w)'
BY IdleFacts DEF Halfway

LEMMA SetPeerPeers ==
  ASSUME Typed, PeersInv, NEW w \in Workers, SetPeer(w)
  PROVE  PeersInv'
<1>0. PICK t, a : t = txn[w] /\ a = txn[w].account
  OBVIOUS
<1>1. /\ t.op = "issue" /\ t.step = "set" /\ Goes(w, "save")
      /\ UNCHANGED <<scope, moved, overlapped, reverted, account, rows, keysOf>>
      /\ forgotten' = forgotten \ {a}
      /\ peers' = [peers EXCEPT ![t.server] =
           {p \in @ : p[1] # t.key /\ p[2] # t.address} \cup {<<t.key, t.address>>}]
  BY <1>0, CommandFacts
<1>2. t.server \in Servers /\ a \in Accounts /\ \A b \in Accounts : t.key \notin keysOf[b]
  BY <1>0, <1>1 DEF Typed, Works, PeersInv, Owned, Fresh
<1>3. a \in Steady => Issuing(t)
  BY <1>0, <1>1 DEF PeersInv, Halfway
<1>4. Lasting \subseteq Servers /\ Lasting' = Lasting /\ Steady' = Steady
  BY <1>1, SetsStay DEF Lasting, Steady
<1>5. /\ peers'[t.server] =
           {p \in peers[t.server] : p[1] # t.key /\ p[2] # t.address} \cup {<<t.key, t.address>>}
      /\ \A s \in Servers \ {t.server} : peers'[s] = peers[s]
  <2>1. peers \in [Servers -> SUBSET ((1..keys) \X Addresses)]
    BY DEF Typed, TypeOK, Peers
  <2> QED BY <1>1, <1>2, <2>1
<1>6. ASSUME NEW s \in Servers, NEW p \in peers'[s]
      PROVE  \/ p = <<t.key, t.address>> /\ s = t.server
             \/ p \in peers[s] /\ (s = t.server => p[2] # t.address)
  BY <1>5
<1>7. \A s \in Lasting : \A p \in peers'[s] : p \in peers[s] \/ p[1] = t.key
  BY <1>4, <1>6
<1>8. ASSUME a \in Steady
      PROVE  \A s \in Lasting : \A p \in peers'[s] :
               /\ p[1] = t.key => s = t.server /\ p[2] = t.address
               /\ p[1] \notin keysOf[a]
  <2>1. \A s \in Lasting : \A p \in peers[s] : p[1] # t.key
    BY <1>1, <1>3, <1>8 DEF Issuing
  <2>2. ASSUME NEW s \in Lasting, NEW p \in peers'[s], p[1] \in keysOf[a] PROVE FALSE
    <3>1. p \in peers[s] /\ (s = t.server => p[2] # t.address)
      BY <1>2, <1>4, <1>6, <2>2
    <3>2. s = account[a].server /\ p = Credential(a)
      BY <1>8, <2>2, <3>1 DEF PeersInv, OwnPeers
    <3>3. p[2] # None
      BY <1>4, <3>1, PeerFacts
    <3>4. t.server = account[a].server /\ account[a].address \in {None, t.address}
      BY <1>0, <1>3, <1>8 DEF Issuing
    <3> QED BY <3>1, <3>2, <3>3, <3>4 DEF Credential
  <2> QED BY <1>4, <1>6, <2>1, <2>2
<1>9. PICK u \in Handler :
        /\ txn' = [txn EXCEPT ![w] = u]
        /\ u = Idle \/ (u.step = "save" /\ Same(txn[w], u))
  BY <1>1 DEF Goes
<1>10. a \in Steady => Gone(a)'
  BY <1>1, <1>4, <1>8 DEF Gone
<1>11. ASSUME a \in Steady PROVE Halfway(w)'
  <2>1. txn'[w] = u
    BY <1>9, HandlerFacts
  <2>2. CASE u = Idle
    BY <2>1, <2>2, IdleHalfway
  <2>3. CASE u.step = "save" /\ Same(t, u)
    <3>1. /\ u.account = a /\ u.server = t.server /\ u.key = t.key /\ u.address = t.address
          /\ u.op = "issue"
      BY <1>0, <1>1, <2>3 DEF Same
    <3>2. /\ t.server = account[a].server /\ account[a].status # "revoked"
          /\ account[a].address \in {None, t.address}
      BY <1>0, <1>3, <1>11 DEF Issuing
    <3>3. Issuing(u)'
      BY <1>1, <1>4, <1>8, <1>10, <1>11, <2>3, <3>1, <3>2 DEF Issuing
    <3> QED BY <2>1, <3>1, <3>3 DEF Halfway, Issuing
  <2> QED BY <1>0, <1>9, <2>2, <2>3
<1> QED BY <1>0, <1>1, <1>7, <1>9, <1>10, <1>11, CommandPeers

LEMMA RemovePeerPeers ==
  ASSUME Typed, PeersInv, NEW w \in Workers, RemovePeer(w)
  PROVE  PeersInv'
<1>0. PICK t, a : t = txn[w] /\ a = txn[w].account
  OBVIOUS
<1>1. /\ t.op \in {"revoke", "account"} /\ t.step = "remove" /\ Goes(w, "save")
      /\ UNCHANGED <<scope, moved, overlapped, reverted, account, rows, keysOf>>
      /\ forgotten' = forgotten \ {a}
      /\ peers' = [peers EXCEPT ![t.server] = {p \in @ : p[1] # t.key}]
  BY <1>0, CommandFacts
<1>2. a \in Steady => t.key = account[a].key /\ t.server = account[a].server
  BY <1>0, <1>1 DEF PeersInv, Halfway, Removing
<1>3. Lasting \subseteq Servers /\ Lasting' = Lasting /\ Steady' = Steady
  BY <1>1, SetsStay DEF Lasting, Steady
<1>4. \A s \in Servers : \A p \in peers'[s] : p \in peers[s] /\ (s = t.server => p[1] # t.key)
  <2>1. peers \in [Servers -> SUBSET ((1..keys) \X Addresses)]
    BY DEF Typed, TypeOK, Peers
  <2> QED BY <1>1, <2>1
<1>5. ASSUME a \in Steady
      PROVE  \A s \in Lasting : \A p \in peers'[s] : p[1] \notin keysOf[a]
  <2>1. ASSUME NEW s \in Lasting, NEW p \in peers'[s], p[1] \in keysOf[a] PROVE FALSE
    <3>1. p \in peers[s] /\ (s = t.server => p[1] # t.key)
      BY <1>3, <1>4, <2>1
    <3>2. s = account[a].server /\ p = Credential(a)
      BY <1>5, <2>1, <3>1 DEF PeersInv, OwnPeers
    <3> QED BY <1>2, <1>5, <3>1, <3>2 DEF Credential
  <2> QED BY <2>1
<1>6. a \in Steady => Gone(a)'
  BY <1>1, <1>3, <1>5 DEF Gone
<1>7. PICK u \in Handler :
        /\ txn' = [txn EXCEPT ![w] = u]
        /\ u = Idle \/ (u.step = "save" /\ Same(txn[w], u))
  BY <1>1 DEF Goes
<1>8. ASSUME a \in Steady PROVE Halfway(w)'
  <2>1. txn'[w] = u
    BY <1>7, HandlerFacts
  <2>2. CASE u = Idle
    BY <2>1, <2>2, IdleHalfway
  <2>3. CASE u.step = "save" /\ Same(t, u)
    <3>1. u.account = a /\ u.op \in {"revoke", "account"}
      BY <1>0, <1>1, <2>3 DEF Same
    <3> QED BY <1>6, <1>8, <2>1, <2>3, <3>1 DEF Halfway, Removing
  <2> QED BY <1>0, <1>7, <2>2, <2>3
<1>9. \A s \in Lasting : \A p \in peers'[s] : p \in peers[s]
  BY <1>3, <1>4
<1> QED BY <1>0, <1>1, <1>6, <1>7, <1>8, <1>9, CommandPeers

LEMMA SavePeers ==
  ASSUME Typed, PeersInv, NEW w \in Workers, Save(w) \/ SaveFails(w) \/ Fail(w)
  PROVE  PeersInv'
<1>1. UNCHANGED <<scope, moved, overlapped, forgotten, reverted, account, rows, keysOf, peers>>
  BY CommandFacts
<1>2. PICK u \in Handler :
        /\ txn' = [txn EXCEPT ![w] = u]
        /\ \/ u = Idle
           \/ txn[w].step = "save" /\ u.step = "commit" /\ Same(txn[w], u)
  BY CommandFacts, IdleFacts DEF Goes
<1>3. Halfway(w)'
  <2>1. txn'[w] = u
    BY <1>2, HandlerFacts
  <2>2. CASE u = Idle
    BY <2>1, <2>2, IdleHalfway
  <2>3. CASE txn[w].step = "save" /\ u.step = "commit" /\ Same(txn[w], u)
    <3>1. Halfway(w) /\ Lasting' = Lasting /\ Steady' = Steady
      BY <1>1, SetsStay DEF PeersInv, Lasting, Steady
    <3>2. \A b : Gone(b)' <=> Gone(b)
      BY <1>1, <3>1 DEF Gone
    <3> QED BY <1>1, <2>1, <2>3, <3>1, <3>2 DEF Halfway, Issuing, Removing, Same
  <2> QED BY <1>2, <2>2, <2>3
<1> QED BY <1>1, <1>2, <1>3, CommandPeers

LEMMA CommitIssuePeers ==
  ASSUME Typed, AddressInv, PeersInv, NEW w \in Workers, CommitIssue(w)
  PROVE  PeersInv'
<1> DEFINE t == txn[w]
           a == txn[w].account
           n == Len(rows) + 1
<1>1. /\ t.op = "issue" /\ t.step = "commit" /\ UNCHANGED <<scope, peers>>
      /\ UNCHANGED <<moved, overlapped, forgotten, reverted>>
      /\ txn' = [txn EXCEPT ![w] = Idle]
      /\ account'[a].key = t.key /\ account'[a].address = t.address
      /\ account'[a].server = account[a].server /\ account'[a].status = account[a].status
      /\ \A b \in Accounts : b # a => account'[b] = account[b]
      /\ DOMAIN rows' = DOMAIN rows \cup {n} /\ n \notin DOMAIN rows
      /\ \A r \in DOMAIN rows : rows'[r] = rows[r]
      /\ rows'[n].account = a /\ rows'[n].server = t.server /\ rows'[n].status = "issued"
      /\ keysOf'[a] = keysOf[a] \cup {t.key}
      /\ \A b \in Accounts : b # a => keysOf'[b] = keysOf[b]
  BY CommitIssueFacts DEF history
<1>2. /\ Workers' = Workers /\ Lasting' = Lasting /\ Steady' = Steady
      /\ Lasting \subseteq Servers /\ Steady \subseteq Accounts /\ Grown
  BY <1>1, SetsStay DEF Lasting, Steady, Grown
<1>3. a \in Accounts
  BY <1>1 DEF Typed, Works
<1>4. a \in Steady =>
        /\ t.server = account[a].server /\ account[a].status # "revoked"
        /\ \A s \in Lasting : \A p \in peers[s] :
             /\ p[1] = t.key => s = t.server /\ p[2] = t.address
             /\ p[1] \notin keysOf[a]
  BY <1>1 DEF PeersInv, Halfway, Issuing, Gone
<1>5. /\ txn'[w] = Idle /\ \A v \in Workers \ {w} : txn'[v] = txn[v]
  BY <1>1, IdleFacts, HandlerFacts
<1>6. \A v \in Workers \ {w} : txn[v].op # "none" /\ txn[v].account = a => a \notin Steady
  BY <1>1 DEF PeersInv, Owned, Overlaps, Steady
<1> HIDE DEF t, a, n
<1>7. OwnPeers'
  <2>1. ASSUME NEW b \in Steady, NEW s \in Lasting, NEW p \in peers[s], p[1] \in keysOf'[b]
        PROVE  s = account'[b].server /\ p = <<account'[b].key, account'[b].address>>
    <3>1. CASE b = a
      <4>1. p[1] = t.key /\ s = t.server /\ p[2] = t.address
        BY <1>1, <1>4, <2>1, <3>1
      <4>2. p = <<p[1], p[2]>>
        BY <1>2, PeerFacts
      <4> QED BY <1>1, <1>4, <2>1, <3>1, <4>1, <4>2
    <3>2. CASE b # a
      BY <1>1, <1>2, <2>1, <3>2 DEF PeersInv, OwnPeers, Credential
    <3> QED BY <3>1, <3>2
  <2> QED BY <1>1, <1>2, <2>1 DEF OwnPeers, Credential
<1>8. NothingLeft'
  <2>1. ASSUME NEW b \in Steady \ forgotten, Issued(b)' = {} \/ account'[b].status = "revoked"
        PROVE  Gone(b)'
    <3>1. b # a
      BY <1>1, <1>4, <2>1 DEF Issued
    <3>2. Issued(b) \subseteq Issued(b)' /\ account'[b].status = account[b].status
      BY <1>1, <1>2, <3>1 DEF Issued
    <3>3. Gone(b)
      BY <2>1, <3>2 DEF PeersInv, NothingLeft
    <3> QED BY <1>1, <1>2, <3>1, <3>3 DEF Gone
  <2> QED BY <1>1, <1>2, <2>1 DEF NothingLeft
<1>9. ASSUME NEW v \in Workers \ {w} PROVE Halfway(v)'
  <2>0. CASE txn[v].op = "none"
    BY <1>5, <2>0 DEF Halfway
  <2>1. txn[v].op # "none" /\ txn[v].account \in Steady =>
          txn[v].account # a /\ txn[v].account \in Accounts
    BY <1>2, <1>6
  <2>2. txn[v].op # "none" /\ txn[v].account \in Steady' =>
          /\ Stays(txn[v].account) /\ keysOf'[txn[v].account] = keysOf[txn[v].account]
          /\ account'[txn[v].account].server = account[txn[v].account].server
    BY <1>1, <1>2, <2>1 DEF Stays
  <2>3. \A s \in Lasting' : \A p \in peers'[s] : p \in peers[s]
    BY <1>1
  <2> QED BY <1>1, <1>2, <1>5, <2>0, <2>2, <2>3, HalfwayStays DEF PeersInv
<1>10. Halfway(w)'
  BY <1>5, IdleHalfway
<1>11. Owned'
  BY CommitIssueOwned DEF PeersInv
<1> QED BY <1>2, <1>7, <1>8, <1>9, <1>10, <1>11 DEF PeersInv

LEMMA CommitRevokePeers ==
  ASSUME Typed, PeersInv, NEW w \in Workers, CommitRevoke(w)
  PROVE  PeersInv'
<1> DEFINE t == txn[w]
           a == txn[w].account
<1>1. /\ t.op \in {"revoke", "account"} /\ t.step = "commit" /\ UNCHANGED <<scope, peers, keysOf>>
      /\ UNCHANGED <<moved, overlapped, forgotten, reverted>>
      /\ txn' = [txn EXCEPT ![w] = Idle]
      /\ \A b \in Accounts :
           /\ account'[b].key = account[b].key /\ account'[b].address = account[b].address
           /\ account'[b].server = account[b].server
           /\ b # a => account'[b].status = account[b].status
      /\ DOMAIN rows' = DOMAIN rows
      /\ \A r \in DOMAIN rows :
           /\ rows'[r].account = rows[r].account /\ rows'[r].server = rows[r].server
           /\ rows'[r].status = IF r = t.row THEN "revoked" ELSE rows[r].status
  BY CommitRevokeFacts DEF history
<1>2. /\ Workers' = Workers /\ Lasting' = Lasting /\ Steady' = Steady
      /\ Lasting \subseteq Servers /\ Steady \subseteq Accounts /\ Grown
  BY <1>1, SetsStay DEF Lasting, Steady, Grown
<1>3. a \in Steady => Gone(a) \/ a \in forgotten
  BY <1>1 DEF PeersInv, Halfway, Removing
<1>4. a \in Accounts /\ (t.row \in DOMAIN rows => rows[t.row].account = a)
  <2>1. None \notin DOMAIN rows
    BY DEF Typed, TypeOK, None
  <2> QED BY <1>1, <2>1 DEF Typed, Works
<1>5. /\ txn'[w] = Idle /\ \A v \in Workers \ {w} : txn'[v] = txn[v]
  BY <1>1, IdleFacts, HandlerFacts
<1>6. \A v \in Workers \ {w} : txn[v].op # "none" /\ txn[v].account = a => a \notin Steady
  BY <1>1 DEF PeersInv, Owned, Overlaps, Steady
<1>7. Owned'
  <2>1. \A v \in Workers : txn'[v] = Idle \/ Same(txn[v], txn'[v])
    BY <1>5 DEF Same
  <2> QED BY <1>1, <2>1, OwnedStay DEF PeersInv
<1> HIDE DEF t, a
<1>8. OwnPeers'
  BY <1>1, <1>2 DEF PeersInv, OwnPeers, Credential
<1>9. \A b : Gone(b)' <=> Gone(b)
  BY <1>1, <1>2 DEF Gone
<1>10. NothingLeft'
  <2>1. ASSUME NEW b \in Steady \ forgotten, Issued(b)' = {} \/ account'[b].status = "revoked",
               b # a
        PROVE  Gone(b)
    <3>1. Issued(b) \subseteq Issued(b)' /\ account'[b].status = account[b].status
      BY <1>1, <1>2, <1>4, <2>1 DEF Issued
    <3> QED BY <2>1, <3>1 DEF PeersInv, NothingLeft
  <2>2. \A b \in Steady \ forgotten :
          Issued(b)' = {} \/ account'[b].status = "revoked" => Gone(b)
    BY <1>3, <2>1
  <2> QED BY <1>1, <1>2, <1>9, <2>2 DEF NothingLeft
<1>11. ASSUME NEW v \in Workers \ {w} PROVE Halfway(v)'
  <2>0. CASE txn[v].op = "none"
    BY <1>5, <2>0 DEF Halfway
  <2>1. txn[v].op # "none" /\ txn[v].account \in Steady =>
          txn[v].account # a /\ txn[v].account \in Accounts
    BY <1>2, <1>6
  <2>2. txn[v].op # "none" /\ txn[v].account \in Steady' =>
          /\ Stays(txn[v].account)
          /\ account'[txn[v].account].server = account[txn[v].account].server
    BY <1>1, <1>2, <2>1 DEF Stays
  <2>3. \A s \in Lasting' : \A p \in peers'[s] : p \in peers[s]
    BY <1>1
  <2> QED BY <1>1, <1>2, <1>5, <2>0, <2>2, <2>3, HalfwayStays DEF PeersInv
<1>12. Halfway(w)'
  BY <1>5, IdleHalfway
<1> QED BY <1>2, <1>7, <1>8, <1>10, <1>11, <1>12 DEF PeersInv

\* A threshold revokes a row and forgets the peer.
LEMMA ThresholdPeers ==
  ASSUME Typed, PeersInv, NEW r \in DOMAIN rows, DisableCertificateByThreshold(r)
  PROVE  PeersInv'
<1>1. /\ UNCHANGED <<scope, account, peers, keysOf, txn, moved, overlapped, reverted>>
      /\ forgotten \subseteq forgotten'
      /\ rows[r].status = "issued" => rows[r].account \in forgotten'
  BY DEF DisableCertificateByThreshold
<1>2. /\ DOMAIN rows' = DOMAIN rows
      /\ \A q \in DOMAIN rows :
           /\ rows'[q].account = rows[q].account /\ rows'[q].server = rows[q].server
           /\ q # r => rows'[q].status = rows[q].status
  <2>1. /\ rows \in Seq(Row) /\ rows[r] \in Row
        /\ rows' = [rows EXCEPT ![r] = [rows[r] EXCEPT !.status = "revoked"]]
    BY DEF DisableCertificateByThreshold, Typed, TypeOK
  <2>2. /\ [rows[r] EXCEPT !.status = "revoked"].account = rows[r].account
        /\ [rows[r] EXCEPT !.status = "revoked"].server = rows[r].server
    BY <2>1 DEF Row
  <2> QED BY <2>1, <2>2
<1>3. /\ Workers' = Workers /\ Lasting' = Lasting /\ Steady' = Steady /\ Grown
  BY <1>1, SetsStay DEF Lasting, Steady, Grown
<1>4. Owned'
  BY <1>1, <1>2, OwnedStay DEF PeersInv, Same
<1>5. OwnPeers'
  BY <1>1, <1>3 DEF PeersInv, OwnPeers, Credential
<1>6. NothingLeft'
  <2>1. ASSUME NEW b \in Steady \ forgotten', Issued(b)' = {} \/ account[b].status = "revoked"
        PROVE  Gone(b)
    <3>1. Issued(b) \subseteq Issued(b)'
      BY <1>1, <1>2, <2>1 DEF Issued
    <3> QED BY <1>1, <2>1, <3>1 DEF PeersInv, NothingLeft
  <2> QED BY <1>1, <1>3, <2>1 DEF NothingLeft, Gone
<1>7. ASSUME NEW v \in Workers PROVE Halfway(v)'
  <2>1. txn[v].account \in Steady' => Stays(txn[v].account)
    BY <1>1 DEF Stays
  <2> QED BY <1>1, <1>3, <2>1, HalfwayStays DEF PeersInv
<1> QED BY <1>3, <1>4, <1>5, <1>6, <1>7 DEF PeersInv

LEMMA RestartPeers ==
  ASSUME Typed, PeersInv, NEW s \in Servers, RestartServer(s)
  PROVE  PeersInv'
<1>1. /\ UNCHANGED <<scope, account, rows, keysOf, txn, moved, overlapped, forgotten>>
      /\ reverted \subseteq reverted'
  BY DEF RestartServer
<1>2. \A q \in Lasting' : peers'[q] = peers[q]
  <2>1. peers' = [peers EXCEPT ![s] = saved[s]] /\ (peers[s] = saved[s] \/ s \in reverted')
    BY DEF RestartServer
  <2>2. peers \in [Servers -> SUBSET ((1..keys) \X Addresses)]
    BY DEF Typed, TypeOK, Peers
  <2> QED BY <1>1, <2>1, <2>2, SetsStay DEF Lasting
<1>3. Workers' = Workers /\ Steady' = Steady /\ Grown /\ NoGivenKey
  BY <1>1, <1>2, SetsStay DEF Steady, Grown, NoGivenKey
<1>4. Owned'
  BY <1>1, OwnedStay DEF PeersInv, Same
<1>5. \A b \in Steady' : Stays(b)
  BY <1>1 DEF Stays
<1>6. OwnPeers' /\ NothingLeft'
  BY <1>1, <1>3, <1>5, PeersStay DEF PeersInv
<1>7. ASSUME NEW v \in Workers PROVE Halfway(v)'
  BY <1>1, <1>2, <1>3, <1>5, HalfwayStays DEF PeersInv
<1> QED BY <1>3, <1>4, <1>6, <1>7 DEF PeersInv

LEMMA StutterPeers ==
  ASSUME Typed, PeersInv, UNCHANGED vars
  PROVE  PeersInv'
<1>1. UNCHANGED <<scope, account, rows, peers, keysOf, txn>> /\ UNCHANGED history
  BY DEF vars
<1>2. UNCHANGED <<moved, overlapped, forgotten, reverted>>
  BY <1>1 DEF history
<1>3. Workers' = Workers /\ Grown /\ NoGivenKey
  BY <1>1, <1>2, SetsStay DEF Grown, NoGivenKey
<1>4. Owned'
  BY <1>1, <1>2, OwnedStay DEF PeersInv, Same
<1>5. \A b \in Steady' : Stays(b)
  BY <1>1 DEF Stays
<1>6. OwnPeers' /\ NothingLeft'
  BY <1>1, <1>2, <1>3, <1>5, PeersStay DEF PeersInv
<1>7. ASSUME NEW v \in Workers PROVE Halfway(v)'
  BY <1>1, <1>2, <1>3, <1>5, HalfwayStays DEF PeersInv
<1> QED BY <1>3, <1>4, <1>6, <1>7 DEF PeersInv

LEMMA NextPeers == Typed /\ AddressInv /\ PeersInv /\ [Next]_vars => PeersInv'
BY Cases, AccountPeers, IssuePeers, RevokePeers, SetPeerPeers, RemovePeerPeers, SavePeers,
   CommitIssuePeers, CommitRevokePeers, ThresholdPeers, RestartPeers, StutterPeers

LEMMA ScopeStays == [Next]_vars => UNCHANGED scope
<1> SUFFICES ASSUME [Next]_vars PROVE UNCHANGED scope
  OBVIOUS
<1> QED BY Cases DEF EnableAccount, AssignAccountServer, DisableAccount, IssueCertificate,
             RevokeCertificate, RevokeAccount, Begin, SetPeer, RemovePeer, Save, SaveFails, Fail,
             CommitIssue, CommitRevoke, DisableCertificateByThreshold, RestartServer, vars

LEMMA InitPeers == Init => PeersInv
<1> SUFFICES ASSUME Init PROVE PeersInv
  OBVIOUS
<1>1. /\ rows = <<>> /\ \A s \in Lasting : peers[s] = {}
      /\ \A a \in Accounts : keysOf[a] = {}
  BY DEF Init, Lasting
<1>2. \A w \in Workers : txn[w].op = "none" /\ txn[w].account = None
  BY IdleFacts DEF Init, Idle
<1>3. Owned
  BY <1>1, <1>2 DEF Owned, RowsPlaced, HasAddress, Fresh, Overlaps
<1> QED BY <1>1, <1>2, <1>3 DEF PeersInv, OwnPeers, NothingLeft, Halfway, Gone

\* No key a revoked account was ever given is a peer of a server, whatever requests fail
\* halfway or overlap with requests about other accounts: revoke_account and the requests
\* before it.  The exceptions are the property's: accounts that took an address to another
\* server, met a second request at the same time or lost their row to a threshold, and
\* servers that restarted with peers not saved.
THEOREM RevokedPeersAreGone == Spec => []RevokedHasNoPeer
<1> DEFINE J == Typed /\ AddressInv /\ PeersInv
<1>1. Init => J
  BY InitTyped, InitAddresses, InitPeers
<1>2. J /\ [Next]_vars => J'
  BY NextTyped, NextAddresses, NextPeers
<1>3. J => RevokedHasNoPeer
  BY DEF PeersInv, NothingLeft, Gone, Steady, Lasting, RevokedHasNoPeer
<1> HIDE DEF J
<1> QED BY <1>1, <1>2, <1>3, PTL DEF Spec

-----------------------------------------------------------------------------
(* Peers without failures *)

\* A handler that cannot fail goes on.
LEMMA GoesOn ==
  ASSUME Typed, MaxFaults = 0, NEW w \in Workers, NEW step, Goes(w, step)
  PROVE  txn'[w].step = step /\ Same(txn[w], txn'[w])
<1>1. PICK u \in Handler : /\ txn' = [txn EXCEPT ![w] = u]
                           /\ faults < MaxFaults \/ (u.step = step /\ Same(txn[w], u))
  BY DEF Goes
<1>2. ~(faults < MaxFaults)
  BY DEF Typed, TypeOK
<1>3. txn'[w] = u
  BY <1>1, HandlerFacts
<1> QED BY <1>1, <1>2, <1>3

LEMMA CredentialsStay ==
  ASSUME Typed, UNCHANGED rows,
         \A a \in Accounts : /\ account'[a].key = account[a].key
                             /\ account'[a].address = account[a].address
  PROVE  \A s : Credentials(s)' = Credentials(s)
<1>1. \A r \in DOMAIN rows : rows[r].account \in Accounts
  BY RowFacts
<1>2. \A s : IssuedRows(s)' = IssuedRows(s) /\ IssuedRows(s) \subseteq DOMAIN rows
  BY DEF IssuedRows
<1>3. \A r \in DOMAIN rows : /\ account'[rows[r].account].key = account[rows[r].account].key
                             /\ account'[rows[r].account].address = account[rows[r].account].address
  BY <1>1
<1> QED BY <1>2, <1>3 DEF Credentials, Credential

\* Steps that leave rows, keys and addresses of accounts alone.
LEMMA FaultlessStay ==
  ASSUME Typed, FaultlessInv, UNCHANGED <<scope, rows, moved, raced>>,
         \A a \in Accounts : /\ account'[a].key = account[a].key
                             /\ account'[a].address = account[a].address,
         keys' \in {keys, keys + 1},
         \A w \in Workers : Undisturbed(w)' /\ Serves(w)'
  PROVE  FaultlessInv'
<1>1. Workers' = Workers
  BY SetsStay
<1>2. OneRow'
  BY DEF FaultlessInv, OneRow
<1>3. Keyed'
  <2>1. 0..keys \subseteq 0..keys'
    BY DEF Typed, TypeOK
  <2> QED BY <2>1, RowFacts DEF FaultlessInv, Keyed
<1> QED BY <1>1, <1>2, <1>3 DEF FaultlessInv

LEMMA ServesStay ==
  ASSUME Typed, UNCHANGED <<scope, rows, peers, saved, txn>>,
         \A a \in Accounts : /\ account'[a].key = account[a].key
                             /\ account'[a].address = account[a].address,
         NEW w \in Workers, Serves(w)
  PROVE  Serves(w)'
<1>1. \A s : Credentials(s)' = Credentials(s)
  BY CredentialsStay
<1>2. Works(w) /\ Servers' = Servers
  BY SetsStay DEF Typed
<1>3. \/ txn[w].step \in {"idle", "set", "remove"}
      \/ txn[w].op = "issue" \/ txn[w].account \in Accounts
  BY <1>2 DEF Works, Typed, TypeOK, Handler
<1>4. ASSUME NEW s \in Servers PROVE Expected(w, s)' = Expected(w, s)
  BY <1>1, <1>3 DEF Expected, Credential
<1> QED BY <1>1, <1>2, <1>4 DEF Serves

LEMMA AccountFaultless ==
  ASSUME Typed, Faultless, FaultlessInv, NEW a \in Accounts,
         \/ \E s \in Servers : EnableAccount(a, s) \/ AssignAccountServer(a, s)
         \/ DisableAccount(a)
  PROVE  FaultlessInv'
<1>1. /\ UNCHANGED <<scope, rows, peers, saved, keys, moved, raced, txn>>
      /\ \A b \in Accounts : /\ account'[b].key = account[b].key
                             /\ account'[b].address = account[b].address
  BY AccountFacts DEF Typed, Faultless
<1>2. \A w \in Workers : Serves(w)'
  BY <1>1, ServesStay DEF FaultlessInv
<1>3. ASSUME NEW w \in Workers PROVE Undisturbed(w)'
  <2>1. Undisturbed(w) /\ txn'[w] = txn[w]
    BY <1>1 DEF FaultlessInv
  <2>2. txn[w].op \in {"revoke", "account"} => txn[w].account \in Accounts
    BY DEF Typed, Works
  <2> QED BY <1>1, <2>1, <2>2 DEF Undisturbed, Issued
<1> QED BY <1>1, <1>2, <1>3, FaultlessStay

LEMMA IssueFaultless ==
  ASSUME Typed, PeersInv, Faultless, FaultlessInv, NEW w \in Workers, NEW a \in Accounts,
         IssueCertificate(w, a)
  PROVE  FaultlessInv'
<1>1. PICK t \in Handler :
        /\ Begin(w, t) /\ keys' = keys + 1 /\ t.op = "issue" /\ t.step = "set" /\ t.account = a
        /\ t.key = keys + 1 /\ txn[w] = Idle /\ IssuedOn(a, account[a].server) = {}
        /\ raced' = raced \cup Racing(a)
  BY IssueFacts
<1>2. /\ UNCHANGED <<scope, account, rows, peers, saved, moved>> /\ txn'[w] = t
      /\ Workers' = Workers
  BY <1>1, HandlerFacts, SetsStay DEF Begin
<1>3. \A v \in Workers : v = w
  BY OneWorker DEF Faultless, Typed, TypeOK
<1>4. raced' = raced
  BY <1>1, <1>3, IdleFacts DEF Racing
<1>5. \A s : Credentials(s)' = Credentials(s)
  BY <1>2, CredentialsStay
<1>6. Serves(w)'
  BY <1>1, <1>2, <1>5, IdleFacts, SetsStay DEF FaultlessInv, Serves, Expected
<1>7. Undisturbed(w)'
  <2>1. Issued(a) = {}
    BY <1>1 DEF PeersInv, Owned, RowsPlaced, FaultlessInv, Issued, IssuedOn
  <2>2. \A b \in Accounts : account[b].key # keys + 1
    <3>1. keys + 1 \notin 0..keys
      BY DEF Typed, TypeOK
    <3> QED BY <3>1 DEF FaultlessInv, Keyed
  <2> QED BY <1>1, <1>2, <2>1, <2>2 DEF Undisturbed, Issued
<1> QED BY <1>1, <1>2, <1>3, <1>4, <1>6, <1>7, FaultlessStay

LEMMA RevokeFaultless ==
  ASSUME Typed, Faultless, FaultlessInv, NEW w \in Workers,
         \/ \E r \in DOMAIN rows : RevokeCertificate(w, r)
         \/ \E a \in Accounts : RevokeAccount(w, a)
  PROVE  FaultlessInv'
<1>1. PICK t \in Handler :
        /\ Begin(w, t) /\ UNCHANGED <<keys, raced>> /\ txn[w] = Idle
        /\ t.op \in {"revoke", "account"} /\ t.account \in Accounts
        /\ \/ t.row = None /\ t.server = None /\ t.step = "commit"
           \/ /\ t.row \in DOMAIN rows /\ t.row # None /\ rows[t.row].status = "issued"
              /\ rows[t.row].account = t.account /\ t.key = account[t.account].key
              /\ t.step = IF t.key = None THEN "commit" ELSE "remove"
  BY RevokeFacts
<1>2. UNCHANGED <<scope, account, rows, peers, saved, moved>> /\ txn'[w] = t
  BY <1>1, HandlerFacts DEF Begin
<1>3. \A v \in Workers : v = w
  BY OneWorker DEF Faultless, Typed, TypeOK
<1>4. \A s : Credentials(s)' = Credentials(s)
  BY <1>2, CredentialsStay
<1>5. t.step = "remove" \/ (t.step = "commit" /\ t.server = None)
  BY <1>1 DEF FaultlessInv, Keyed
<1>6. Serves(w)'
  <2>1. None \notin Servers /\ Servers' = Servers
    BY <1>2, ScopeFacts, SetsStay DEF Typed, TypeOK
  <2>2. \A s \in Servers : peers[s] = Credentials(s) /\ saved[s] = Credentials(s)
    BY <1>1, IdleFacts DEF FaultlessInv, Serves, Expected
  <2> QED BY <1>2, <1>4, <1>5, <2>1, <2>2 DEF Serves, Expected
<1>7. Undisturbed(w)'
  BY <1>1, <1>2 DEF Undisturbed
<1> QED BY <1>1, <1>2, <1>3, <1>6, <1>7, FaultlessStay

\* The handler's own part of an invariant without failures, after a command.
LEMMA CommandFaultless ==
  ASSUME Typed, Faultless, FaultlessInv, NEW w \in Workers,
         UNCHANGED <<scope, moved, raced, account, rows, keys>>,
         Same(txn[w], txn'[w]), Serves(w)'
  PROVE  FaultlessInv'
<1>1. Undisturbed(w)'
  BY DEF FaultlessInv, Undisturbed, Same, Issued
<1>2. \A v \in Workers : v = w
  BY OneWorker DEF Faultless, Typed, TypeOK
<1> QED BY <1>1, <1>2, FaultlessStay

LEMMA SetPeerFaultless ==
  ASSUME Typed, AddressInv, PeersInv, Faultless, FaultlessInv, NEW w \in Workers, SetPeer(w)
  PROVE  FaultlessInv'
<1> DEFINE t == txn[w]
           a == txn[w].account
<1>1. /\ t.op = "issue" /\ t.step = "set" /\ Goes(w, "save")
      /\ UNCHANGED <<scope, moved, raced, account, rows, keys>> /\ saved' = saved
      /\ peers' = [peers EXCEPT ![t.server] =
           {p \in @ : p[1] # t.key /\ p[2] # t.address} \cup {<<t.key, t.address>>}]
  BY CommandFacts
<1>2. txn'[w].step = "save" /\ Same(t, txn'[w])
  BY <1>1, GoesOn DEF Faultless
<1>3. /\ Issued(a) = {} /\ \A b \in Accounts : account[b].key # t.key
      /\ \A s \in Servers : peers[s] = Credentials(s) /\ saved[s] = Credentials(s)
  BY <1>1 DEF FaultlessInv, Undisturbed, Serves, Expected
<1>4. \A b \in Accounts : b # a /\ account[b].server = t.server => account[b].address # t.address
  BY <1>1 DEF AddressInv, Reserved, FaultlessInv
<1>5. t.server \in Servers
  BY <1>1 DEF Typed, Works
<1>6. \A s : Credentials(s)' = Credentials(s)
  BY <1>1, CredentialsStay
<1> HIDE DEF a, t
<1>7. \A p \in Credentials(t.server) : p[1] # t.key /\ p[2] # t.address
  <2>1. ASSUME NEW r \in IssuedRows(t.server)
        PROVE  /\ account[rows[r].account].key # t.key
               /\ account[rows[r].account].address # t.address
    <3>1. r \in DOMAIN rows /\ rows[r].status = "issued" /\ rows[r].server = t.server
      BY <2>1 DEF IssuedRows
    <3>2. rows[r].account \in Accounts /\ rows[r].account # a
      BY <1>3, <3>1, RowFacts DEF Issued
    <3>3. account[rows[r].account].server = t.server
      BY <3>1 DEF PeersInv, Owned, RowsPlaced, FaultlessInv
    <3> QED BY <1>3, <1>4, <3>2, <3>3
  <2> QED BY <2>1 DEF Credentials, Credential
<1>8. /\ peers'[t.server] = Credentials(t.server) \cup {<<t.key, t.address>>}
      /\ \A s \in Servers \ {t.server} : peers'[s] = Credentials(s)
  <2>1. peers \in [Servers -> SUBSET ((1..keys) \X Addresses)]
    BY DEF Typed, TypeOK, Peers
  <2>2. peers'[t.server] =
          {p \in peers[t.server] : p[1] # t.key /\ p[2] # t.address} \cup {<<t.key, t.address>>}
    BY <1>1, <1>5, <2>1
  <2>3. {p \in peers[t.server] : p[1] # t.key /\ p[2] # t.address} = Credentials(t.server)
    BY <1>3, <1>5, <1>7
  <2> QED BY <1>1, <1>3, <2>1, <2>2, <2>3
<1>9. Serves(w)'
  BY <1>1, <1>2, <1>3, <1>6, <1>8, SetsStay DEF Serves, Expected, Same
<1> QED BY <1>1, <1>2, <1>9, CommandFaultless DEF t

LEMMA RemovePeerFaultless ==
  ASSUME Typed, Faultless, FaultlessInv, NEW w \in Workers, RemovePeer(w)
  PROVE  FaultlessInv'
<1> DEFINE t == txn[w]
           a == txn[w].account
<1>1. /\ t.op \in {"revoke", "account"} /\ t.step = "remove" /\ t.row # None /\ Goes(w, "save")
      /\ UNCHANGED <<scope, moved, raced, account, rows, keys>> /\ saved' = saved
      /\ peers' = [peers EXCEPT ![t.server] = {p \in @ : p[1] # t.key}]
  BY CommandFacts
<1>2. txn'[w].step = "save" /\ Same(t, txn'[w])
  BY <1>1, GoesOn DEF Faultless
<1>3. /\ t.key = account[a].key
      /\ \A s \in Servers : peers[s] = Credentials(s) /\ saved[s] = Credentials(s)
  BY <1>1 DEF FaultlessInv, Undisturbed, Serves, Expected
<1>4. a \in Accounts
  BY <1>1 DEF Typed, Works
<1>5. \A s : Credentials(s)' = Credentials(s)
  BY <1>1, CredentialsStay
<1> HIDE DEF a, t
<1>6. ASSUME NEW s, NEW p \in Credentials(s) PROVE p[1] = t.key <=> p = Credential(a)
  <2>1. PICK r \in IssuedRows(s) : p = Credential(rows[r].account)
    BY <1>6 DEF Credentials
  <2>2. rows[r].account \in Accounts /\ account[rows[r].account].key # None
    BY <2>1, RowFacts DEF IssuedRows, FaultlessInv, Keyed
  <2> QED BY <1>3, <1>4, <2>1, <2>2 DEF Credential, FaultlessInv, Keyed
<1>7. \A s \in Servers :
        peers'[s] = IF s = t.server THEN Credentials(s) \ {Credential(a)} ELSE Credentials(s)
  <2>1. peers \in [Servers -> SUBSET ((1..keys) \X Addresses)]
    BY DEF Typed, TypeOK, Peers
  <2>2. \A s \in Servers :
          peers'[s] = IF s = t.server THEN {p \in Credentials(s) : p[1] # t.key}
                                      ELSE Credentials(s)
    BY <1>1, <1>3, <2>1
  <2>3. \A s : {p \in Credentials(s) : p[1] # t.key} = Credentials(s) \ {Credential(a)}
    BY <1>6
  <2> QED BY <2>2, <2>3
<1>8. /\ txn'[w].account = a /\ txn'[w].op = t.op /\ txn'[w].server = t.server
      /\ txn'[w].step = "save"
      /\ account' = account /\ saved' = saved /\ Servers' = Servers
  BY <1>1, <1>2, SetsStay DEF Same, a, t
<1>9. Serves(w)'
  <2>1. ASSUME NEW s \in Servers PROVE peers'[s] = Expected(w, s)'
    <3>1. CASE s = t.server
      BY <1>1, <1>5, <1>7, <1>8, <3>1 DEF Expected, Credential
    <3>2. CASE s # t.server
      BY <1>5, <1>7, <1>8, <3>2 DEF Expected
    <3> QED BY <3>1, <3>2
  <2> QED BY <1>3, <1>5, <1>8, <2>1 DEF Serves
<1> QED BY <1>1, <1>2, <1>9, CommandFaultless DEF t

LEMMA SaveFaultless ==
  ASSUME Typed, Faultless, FaultlessInv, NEW w \in Workers, Save(w) \/ SaveFails(w) \/ Fail(w)
  PROVE  FaultlessInv'
<1>1. ~(faults < MaxFaults)
  BY DEF Faultless, Typed, TypeOK
<1>2. /\ txn[w].step = "save" /\ Goes(w, "commit") /\ peers' = peers
      /\ saved' = [saved EXCEPT ![txn[w].server] = peers[txn[w].server]]
      /\ UNCHANGED <<scope, moved, raced, account, rows, keys>>
  BY <1>1, CommandFacts
<1>3. txn'[w].step = "commit" /\ Same(txn[w], txn'[w])
  BY <1>2, GoesOn DEF Faultless
<1>4. \A s : Credentials(s)' = Credentials(s)
  BY <1>2, CredentialsStay
<1>5. \A s \in Servers : /\ peers[s] = Expected(w, s)
                         /\ saved[s] = Credentials(s)
  BY <1>2 DEF FaultlessInv, Serves
<1>6. \A s \in Servers : Expected(w, s)' = Expected(w, s)
  BY <1>2, <1>3, <1>4 DEF Expected, Same, Credential
<1>7. \A s \in Servers : saved'[s] = peers[s]
  <2>1. saved \in [Servers -> SUBSET ((1..keys) \X Addresses)]
    BY DEF Typed, TypeOK, Peers
  <2>2. \A s \in Servers : s # txn[w].server => peers[s] = Credentials(s)
    BY <1>5 DEF Expected
  <2> QED BY <1>2, <1>5, <2>1, <2>2
<1>8. Serves(w)'
  BY <1>2, <1>3, <1>5, <1>6, <1>7, SetsStay DEF Serves
<1> QED BY <1>2, <1>3, <1>8, CommandFaultless

LEMMA CommitIssueFaultless ==
  ASSUME Typed, PeersInv, Faultless, FaultlessInv, NEW w \in Workers, CommitIssue(w)
  PROVE  FaultlessInv'
<1> DEFINE t == txn[w]
           a == txn[w].account
           n == Len(rows) + 1
<1>1. /\ t.op = "issue" /\ t.step = "commit"
      /\ UNCHANGED <<scope, moved, raced, peers, saved, keys>>
      /\ txn' = [txn EXCEPT ![w] = Idle]
      /\ account'[a].key = t.key /\ account'[a].address = t.address
      /\ \A b \in Accounts : b # a => account'[b] = account[b]
      /\ DOMAIN rows' = DOMAIN rows \cup {n} /\ n \notin DOMAIN rows
      /\ \A r \in DOMAIN rows : rows'[r] = rows[r]
      /\ rows'[n].account = a /\ rows'[n].server = t.server /\ rows'[n].status = "issued"
  BY CommitIssueFacts DEF history
<1>2. /\ Issued(a) = {} /\ \A b \in Accounts : account[b].key # t.key
      /\ \A s \in Servers : peers[s] = Expected(w, s) /\ saved[s] = peers[s]
  BY <1>1 DEF FaultlessInv, Undisturbed, Serves
<1>3. a \in Accounts /\ t.server \in Servers /\ t.key \in 1..keys /\ t.address \in Addresses
  BY <1>1 DEF Typed, Works
<1>4. \A s \in Servers :
        peers[s] = IF s = t.server THEN Credentials(s) \cup {<<t.key, t.address>>}
                                   ELSE Credentials(s)
  BY <1>1, <1>2 DEF Expected
<1>5. t.key \in 0..keys /\ t.key # None /\ t.address # None
  BY <1>3, ScopeFacts DEF Typed, TypeOK, None
<1>6. Workers' = Workers /\ Servers' = Servers
  BY <1>1, SetsStay
<1> HIDE DEF t, a, n
<1>7. \A r \in DOMAIN rows :
        rows[r].status = "issued" => rows[r].account \in Accounts /\ rows[r].account # a
  BY <1>2, RowFacts DEF Issued
<1>8. OneRow'
  BY <1>1, <1>7 DEF FaultlessInv, OneRow
<1>9. Keyed'
  BY <1>1, <1>2, <1>5, <1>7 DEF FaultlessInv, Keyed
<1>10. \A s \in Servers : Credentials(s)' = peers[s]
  <2>1. ASSUME NEW s \in Servers
        PROVE  IssuedRows(s)' = IF s = t.server THEN IssuedRows(s) \cup {n} ELSE IssuedRows(s)
    BY <1>1 DEF IssuedRows
  <2>2. ASSUME NEW s \in Servers, NEW r \in IssuedRows(s)
        PROVE  <<account'[rows'[r].account].key, account'[rows'[r].account].address>>
                 = Credential(rows[r].account)
    BY <1>1, <1>7, <2>2 DEF IssuedRows, Credential
  <2>3. <<account'[rows'[n].account].key, account'[rows'[n].account].address>>
          = <<t.key, t.address>>
    BY <1>1
  <2>4. ASSUME NEW s \in Servers, s # t.server PROVE Credentials(s)' = Credentials(s)
    BY <2>1, <2>2, <2>4 DEF Credentials, Credential
  <2>5. ASSUME NEW s \in Servers, s = t.server
        PROVE  Credentials(s)' = Credentials(s) \cup {<<t.key, t.address>>}
    BY <2>1, <2>2, <2>3, <2>5 DEF Credentials, Credential
  <2> QED BY <1>4, <2>4, <2>5
<1>11. txn'[w] = Idle
  BY <1>1, IdleFacts, HandlerFacts
<1>12. Serves(w)'
  BY <1>1, <1>2, <1>6, <1>10, <1>11, IdleFacts DEF Serves, Expected
<1>13. Undisturbed(w)'
  BY <1>11, IdleFacts DEF Undisturbed
<1>14. \A v \in Workers : v = w
  BY OneWorker DEF Faultless, Typed, TypeOK
<1> QED BY <1>1, <1>6, <1>8, <1>9, <1>12, <1>13, <1>14 DEF FaultlessInv

LEMMA CommitRevokeFaultless ==
  ASSUME Typed, Faultless, FaultlessInv, NEW w \in Workers, CommitRevoke(w)
  PROVE  FaultlessInv'
<1> DEFINE t == txn[w]
           a == txn[w].account
<1>1. /\ t.op \in {"revoke", "account"} /\ t.step = "commit"
      /\ UNCHANGED <<scope, moved, raced, peers, saved, keys>>
      /\ txn' = [txn EXCEPT ![w] = Idle]
      /\ \A b \in Accounts :
           account'[b].key = account[b].key /\ account'[b].address = account[b].address
      /\ DOMAIN rows' = DOMAIN rows
      /\ \A r \in DOMAIN rows :
           /\ rows'[r].account = rows[r].account /\ rows'[r].server = rows[r].server
           /\ rows'[r].status = IF r = t.row THEN "revoked" ELSE rows[r].status
  BY CommitRevokeFacts DEF history
<1>2. \A s \in Servers : peers[s] = Expected(w, s) /\ saved[s] = peers[s]
  BY <1>1 DEF FaultlessInv, Serves
<1>3. /\ a \in Accounts
      /\ IF t.row = None THEN t.server = None
         ELSE /\ t.row \in DOMAIN rows /\ rows[t.row].account = a
              /\ rows[t.row].server = t.server /\ rows[t.row].status = "issued"
  BY <1>1 DEF Typed, Works, FaultlessInv, Undisturbed
<1>4. None \notin DOMAIN rows /\ None \notin Servers
  BY ScopeFacts DEF Typed, TypeOK, None
<1>5. \A s \in Servers :
        peers[s] = IF s = t.server THEN Credentials(s) \ {Credential(a)} ELSE Credentials(s)
  BY <1>1, <1>2 DEF Expected
<1>6. Workers' = Workers /\ Servers' = Servers
  BY <1>1, SetsStay
<1> HIDE DEF t, a
<1>7. OneRow'
  BY <1>1 DEF FaultlessInv, OneRow
<1>8. Keyed'
  <2>1. \A r \in DOMAIN rows' : rows'[r].status = "issued" => account'[rows'[r].account].key # None
    BY <1>1, RowFacts DEF FaultlessInv, Keyed
  <2> QED BY <1>1, <2>1 DEF FaultlessInv, Keyed
<1>9. \A s \in Servers : Credentials(s)' = peers[s]
  <2>1. ASSUME NEW s \in Servers
        PROVE  IssuedRows(s)' = IF s = t.server THEN IssuedRows(s) \ {t.row} ELSE IssuedRows(s)
    BY <1>1, <1>3, <1>4 DEF IssuedRows
  <2>2. ASSUME NEW s \in Servers, NEW r \in IssuedRows(s)
        PROVE  <<account'[rows'[r].account].key, account'[rows'[r].account].address>>
                 = Credential(rows[r].account)
    BY <1>1, <2>2, RowFacts DEF IssuedRows, Credential
  <2>3. ASSUME NEW s \in Servers, s # t.server PROVE Credentials(s)' = Credentials(s)
    BY <2>1, <2>2, <2>3 DEF Credentials, Credential
  <2>4. ASSUME NEW s \in Servers, s = t.server
        PROVE  Credentials(s)' = Credentials(s) \ {Credential(a)}
    <3>1. t.row \in IssuedRows(s) /\ rows[t.row].account = a
      BY <1>3, <1>4, <2>4 DEF IssuedRows
    <3>2. ASSUME NEW r \in IssuedRows(s), r # t.row
          PROVE  Credential(rows[r].account) # Credential(a)
      <4>1. rows[r].account # a /\ rows[r].account \in Accounts
        BY <3>1, <3>2, RowFacts DEF IssuedRows, FaultlessInv, OneRow
      <4>2. account[rows[r].account].key # None
        BY <3>2 DEF IssuedRows, FaultlessInv, Keyed
      <4> QED BY <1>3, <4>1, <4>2 DEF Credential, FaultlessInv, Keyed
    <3>3. Credentials(s)' = {Credential(rows[r].account) : r \in IssuedRows(s) \ {t.row}}
      BY <2>1, <2>2, <2>4 DEF Credentials, Credential
    <3> QED BY <3>1, <3>2, <3>3 DEF Credentials
  <2> QED BY <1>5, <2>3, <2>4
<1>10. txn'[w] = Idle
  BY <1>1, IdleFacts, HandlerFacts
<1>11. Serves(w)'
  BY <1>1, <1>2, <1>6, <1>9, <1>10, IdleFacts DEF Serves, Expected
<1>12. Undisturbed(w)'
  BY <1>10, IdleFacts DEF Undisturbed
<1>13. \A v \in Workers : v = w
  BY OneWorker DEF Faultless, Typed, TypeOK
<1> QED BY <1>1, <1>6, <1>7, <1>8, <1>11, <1>12, <1>13 DEF FaultlessInv

LEMMA OtherFaultless ==
  ASSUME Typed, Faultless, FaultlessInv,
         \/ \E r \in DOMAIN rows : DisableCertificateByThreshold(r)
         \/ \E s \in Servers : RestartServer(s)
         \/ UNCHANGED vars
  PROVE  FaultlessInv'
<1>1. UNCHANGED vars
  BY DEF Faultless, DisableCertificateByThreshold, RestartServer
<1>2. UNCHANGED <<scope, account, rows, peers, saved, keys, moved, raced, txn>>
  BY <1>1 DEF vars, history
<1>3. \A w \in Workers : Undisturbed(w)'
  BY <1>2 DEF FaultlessInv, Undisturbed, Issued
<1>4. /\ \A a \in Accounts : /\ account'[a].key = account[a].key
                             /\ account'[a].address = account[a].address
      /\ keys' = keys /\ UNCHANGED <<scope, rows, moved, raced>>
  BY <1>2
<1>5. \A w \in Workers : Serves(w)'
  BY <1>2, <1>4, ServesStay DEF FaultlessInv
<1> QED BY <1>3, <1>4, <1>5, FaultlessStay

LEMMA NextFaultless ==
  Typed /\ AddressInv /\ PeersInv /\ Faultless /\ FaultlessInv /\ [Next]_vars => FaultlessInv'
BY Cases, AccountFaultless, IssueFaultless, RevokeFaultless, SetPeerFaultless,
   RemovePeerFaultless, SaveFaultless, CommitIssueFaultless, CommitRevokeFaultless, OtherFaultless

LEMMA InitFaultless == Init => FaultlessInv
<1> SUFFICES ASSUME Init PROVE FaultlessInv
  OBVIOUS
<1>1. /\ rows = <<>> /\ moved = {} /\ raced = {} /\ keys = 0
      /\ \A s \in Servers : peers[s] = {} /\ saved[s] = {}
      /\ \A a \in Accounts : account[a].key = None
  BY DEF Init
<1>2. \A w \in Workers : txn[w].op = "none" /\ txn[w].step = "idle"
  BY IdleFacts DEF Init
<1>3. OneRow /\ Keyed
  BY <1>1 DEF OneRow, Keyed, None
<1>4. \A s : Credentials(s) = {}
  BY <1>1 DEF Credentials, IssuedRows
<1>5. \A w \in Workers : Undisturbed(w) /\ Serves(w)
  BY <1>1, <1>2, <1>4 DEF Undisturbed, Serves, Expected
<1> QED BY <1>1, <1>3, <1>5 DEF FaultlessInv

\* issue_certificate, revoke_certificate and revoke_account, one at a time and without
\* failures, leave each server, running and saved, with the peers of the issued
\* credentials and no others.
THEOREM PeersAgreeWithRows == Spec => []PeersAgree
<1>1. Init => Inv
  BY InitTyped, InitAddresses, InitPeers, InitFaultless DEF Inv
<1>2. Inv /\ [Next]_vars => Inv'
  <2> SUFFICES ASSUME Inv, [Next]_vars PROVE Inv'
    OBVIOUS
  <2>1. Faultless' <=> Faultless
    BY ScopeStays, SetsStay
  <2>2. Typed' /\ AddressInv'
    BY NextTyped, NextAddresses DEF Inv
  <2>3. PeersInv'
    BY NextPeers DEF Inv
  <2>4. Faultless => FaultlessInv'
    BY NextFaultless DEF Inv
  <2> QED BY <2>1, <2>2, <2>3, <2>4 DEF Inv
<1>3. Inv => PeersAgree
  <2> SUFFICES ASSUME Inv, Alone, MaxFaults = 0, Features = {}, Quiet, NEW s \in Servers
               PROVE  peers[s] = Credentials(s) /\ saved[s] = peers[s]
    BY DEF PeersAgree, Credentials, Credential, IssuedRows
  <2>1. PICK w : w \in Workers
    <3>1. PICK w : Workers = {w}
      BY ScopeFacts, FS_Singleton DEF Alone, Inv, Typed, TypeOK
    <3> QED BY <3>1
  <2>2. Serves(w) /\ txn[w].step = "idle"
    BY <2>1 DEF Inv, Faultless, FaultlessInv, Quiet
  <2> QED BY <2>2 DEF Serves, Expected
<1> QED BY <1>1, <1>2, <1>3, PTL DEF Spec
=============================================================================
