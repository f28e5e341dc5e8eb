------------------------- MODULE VpnCertificatesProofs -------------------------
(***************************************************************************)
(* A revoked certificate stays revoked, for any accounts, servers, workers *)
(* and bounds, unless a renewal that found it otherwise commits late.      *)
(* Between orderly requests the rows agree with the authorities.  Whatever *)
(* overlaps or fails, revoke_account leaves no key of the account but      *)
(* those whose directories no row names.                                   *)
(*                                                                         *)
(* A handler acts on what it read when it began.  The invariant Inv says   *)
(* what that is worth at the commit (Began): a renewal never found a       *)
(* revoked row, and no handler commits without an operation and an         *)
(* account.  OrderlyInv says what one handler at a time and no fault give: *)
(* between its steps a certificate can be on file before its row is stored *)
(* or off file before its row says so, and that certificate is always the  *)
(* handler's own.  KeysInv says who answers for a directory with a key: a  *)
(* row that records it, the handler that has just copied the key, or the   *)
(* history lost; a handler that revokes an account has the directories its *)
(* rows recorded, and answers for them until it has deleted them.          *)
(***************************************************************************)
EXTENDS VpnCertificates, FiniteSetTheorems, TLAPS

Operations == {"issue", "revoke", "renew", "account", "config"}
RowStatuses == {NotStored, "issued", "expired", "revoked"}
Somewhere == Departments \cup {None}
Account == [status : {"none", "enabled", "disabled", "revoked"},
            server : Servers \cup {None}, name : Names \cup {None}]
Row == [status : RowStatuses, account : Accounts \cup {None}, server : Servers \cup {None},
        name : Names \cup {None}, dept : Somewhere, conf : Somewhere]
Directories == Accounts \X (Servers \cup {None}) \X Somewhere
Handler ==
  [op : Operations \cup {"none"},
   step : {"idle", "sign", "renew", "revoke", "crl", "archive", "delete", "commit"},
   account : Accounts \cup {None}, server : Servers \cup {None}, name : Names \cup {None},
   dept : Somewhere, row : Nat, was : RowStatuses, new : Nat,
   dirs : SUBSET Directories, paths : SUBSET Nat]

TypeOK ==
  /\ scope \in Scopes
  /\ account \in [Accounts -> Account]
  /\ department \in [Accounts -> Departments]
  /\ row \in [Serials -> Row]
  /\ signed \in Seq([server : Servers \cup {None}, name : Names \cup {None}])
  /\ file \in [Servers -> [Names -> Nat]]
  /\ txn \in [Workers -> Handler]

\* Accounts that were enabled once; their rows and handlers name a server and a common name.
Known == {a \in Accounts : account[a].status # "none"}
Named(r) == r.server \in Servers /\ r.name \in Names
\* A handler at work began an operation, on a stored row or none; a renewal found its row not revoked.
Began(t, known, stored) ==
  /\ t.step # "idle" => t.op \in Operations /\ t.account \in known
  /\ t.step = "sign" => t.op = "issue"
  /\ t.step = "renew" => t.op = "renew"
  /\ t.op \in {"issue", "renew"} => Named(t)
  /\ t.op = "renew" => t.was # "revoked"
  /\ t.row # None => t.row \in stored

Inv ==
  /\ TypeOK
  /\ \A a \in Known : Named(account[a])
  /\ \A s \in Stored : row[s].account \in Known /\ Named(row[s])
  /\ \A w \in Workers : Began(txn[w], Known, Stored)

(* Orderly requests *)

\* A handler that has a certificate to store, or is past replacing or revoking its row.
HasSigned(t) == Stores(t) /\ t.step \in {"archive", "commit"}
HasReplaced(t) ==
  /\ t.row # None
  /\ \/ t.op = "renew" /\ t.step \in {"archive", "commit"}
     \/ t.op \in {"revoke", "account"} /\ t.step \in {"crl", "delete", "commit"}

StepsOf(op) ==
  CASE op = "issue" -> {"sign", "archive", "commit"}
    [] op = "renew" -> {"renew", "archive", "commit"}
    [] op = "revoke" -> {"revoke", "crl", "commit"}
    [] op = "account" -> {"revoke", "crl", "delete", "commit"}
\* The row a handler is about is the row it found; the certificate it has is on file.
Doing(w) ==
  LET t == txn[w] IN
  t.step # "idle" =>
    /\ t.op \in {"issue", "renew", "revoke", "account"} /\ t.step \in StepsOf(t.op)
    /\ t.op \in {"renew", "revoke"} \/ t.step \in {"revoke", "crl"} => t.row # None
    /\ t.op = "issue" => t.row = None
    /\ t.row # None =>
         /\ t.row \in Serials /\ row[t.row].status = "issued" /\ t.was = "issued"
         /\ row[t.row].server = t.server /\ row[t.row].name = t.name
    /\ HasSigned(t) =>
         /\ t.new \in Serials /\ t.new \in DOMAIN signed /\ signed[t.new].server = t.server
         /\ file[t.server][t.name] = t.new
         /\ \/ row[t.new].status = NotStored
            \/ t.op = "issue" /\ row[t.new].status = "issued"
    /\ HasReplaced(t) /\ t.op # "renew" =>
         /\ file[t.server][t.name] = None
         /\ t.row \in IF t.step = "crl" THEN revoked ELSE crl

RowsSigned ==
  \A s \in Stored :
    /\ s \in DOMAIN signed /\ signed[s].server = row[s].server
    /\ row[s].status = "revoked" => s \in crl
\* A certificate on file is issued, or the one handler w is about to store.
FilesKnown(w) ==
  \A server \in Servers, n \in Names :
    LET s == file[server][n] IN
    s # None =>
      /\ s \in Serials
      /\ \/ row[s].status = "issued" /\ row[s].server = server /\ row[s].name = n
         \/ /\ HasSigned(txn[w]) /\ txn[w].new = s /\ row[s].status = NotStored
            /\ txn[w].server = server /\ txn[w].name = n
IssuedCurrent(w) ==
  \A s \in Serials :
    row[s].status = "issued" => Current(s) \/ (HasReplaced(txn[w]) /\ txn[w].row = s)

OrderlyInv ==
  /\ faults = 0 /\ RowsSigned
  /\ \A w \in Workers : Doing(w) /\ FilesKnown(w) /\ IssuedCurrent(w)

(* Keys, whatever overlaps or fails *)

Copying == {"issue", "renew", "config"}
\* What a handler read and has: the rows it is to forget are of the account it revokes.
Fit(t) ==
  /\ t.op \in Copying => t.dept # None /\ t.step \in {"sign", "renew", "archive", "commit"}
  /\ t.step = "archive" => t.op \in Copying
  /\ HasSigned(t) => t.new \in Serials
  /\ t.op = "config" => t.row \in RowsOf(t.account) /\ row[t.row].server = t.server
  /\ \A s \in t.paths : t.op = "account" /\ s \in RowsOf(t.account)
Records(r, d) == d \in {<<r.account, r.server, r.dept>>, <<r.account, r.server, r.conf>>}
\* A directory that no row has to answer for.
Spared(d) == d \in lost \/ \E w \in Workers : d \in InHand(txn[w])
Kept(d) == d[3] # None /\ (Spared(d) \/ \E s \in Stored : Records(row[s], d))
\* A handler that revokes the account is to delete the directory, or has.
Clears(t, d) ==
  t.op = "account" /\ d[1] = t.account => Spared(d) \/ (t.step # "commit" /\ d \in t.dirs)
KeysInv ==
  /\ \A server \in Servers, n \in Names : file[server][n] # None => file[server][n] \in Serials
  /\ \A w \in Workers : Fit(txn[w])
  /\ \A d \in archive : Kept(d)
  /\ \A w \in Workers : \A d \in archive : Clears(txn[w], d)

\* What RevokedStays says of a step.
StaysRevoked ==
  \A s \in Serials :
    row[s].status = "revoked" /\ row'[s].status # "revoked" =>
      \E w \in Workers : /\ txn[w].op = "renew" /\ txn[w].row = s
                         /\ txn[w].was # "revoked" /\ txn'[w] = Idle

-----------------------------------------------------------------------------
LEMMA IdleIsHandler ==
  ASSUME NEW known, NEW stored
  PROVE  Idle \in Handler /\ Began(Idle, known, stored)
  BY DEF Idle, Handler, Began, RowStatuses, Somewhere, NotStored, None

LEMMA SerialsAreNat == scope \in Scopes => Serials \subseteq Nat
  BY ScopesAssumption DEF Serials, MaxSerials

\* A handler that goes on keeps its operation, its account and what it found.
LEMMA GoesOn ==
  ASSUME NEW known, NEW stored, NEW t \in Handler, Began(t, known, stored), t.step # "idle",
         NEW step \in {"crl", "archive", "delete", "commit"}, NEW new \in Nat
  PROVE  /\ [t EXCEPT !.step = step] \in Handler /\ Began([t EXCEPT !.step = step], known, stored)
         /\ [t EXCEPT !.step = step, !.new = new] \in Handler
         /\ Began([t EXCEPT !.step = step, !.new = new], known, stored)
<1>1. /\ [t EXCEPT !.step = step] \in Handler
      /\ [t EXCEPT !.step = step, !.new = new] \in Handler
  BY DEF Handler
<1>2. /\ [t EXCEPT !.step = step].op = t.op /\ [t EXCEPT !.step = step].was = t.was
      /\ [t EXCEPT !.step = step].account = t.account /\ [t EXCEPT !.step = step].row = t.row
      /\ [t EXCEPT !.step = step].server = t.server
      /\ [t EXCEPT !.step = step].name = t.name /\ [t EXCEPT !.step = step].step = step
  BY DEF Handler
<1>3. /\ [t EXCEPT !.step = step, !.new = new].op = t.op
      /\ [t EXCEPT !.step = step, !.new = new].was = t.was
      /\ [t EXCEPT !.step = step, !.new = new].account = t.account
      /\ [t EXCEPT !.step = step, !.new = new].row = t.row
      /\ [t EXCEPT !.step = step, !.new = new].server = t.server
      /\ [t EXCEPT !.step = step, !.new = new].name = t.name
      /\ [t EXCEPT !.step = step, !.new = new].step = step
  BY DEF Handler
<1> QED  BY <1>1, <1>2, <1>3 DEF Began, Named

\* The scope fixes every set the types are made of.
LEMMA SetsStay ==
  ASSUME UNCHANGED scope
  PROVE  /\ Workers' = Workers /\ Serials' = Serials /\ Servers' = Servers
         /\ Names' = Names /\ Departments' = Departments
         /\ Account' = Account /\ Row' = Row /\ Handler' = Handler
<1>1. /\ Workers' = Workers /\ Serials' = Serials /\ Servers' = Servers
      /\ Names' = Names /\ Departments' = Departments
  BY DEF Workers, Serials, MaxSerials, Servers, Names, Departments
<1> QED  BY <1>1 DEF Account, Row, Handler, Somewhere, Directories

\* A step that stores nothing and moves one handler.
LEMMA HandlerStep ==
  ASSUME Inv, NEW w \in Workers, NEW t \in Handler, Began(t, Known, Stored),
         txn' = [txn EXCEPT ![w] = t], UNCHANGED <<scope, account, row, department>>,
         signed' \in Seq([server : Servers \cup {None}, name : Names \cup {None}]),
         file' \in [Servers -> [Names -> Nat]]
  PROVE  Inv' /\ StaysRevoked
<1>1. TypeOK'
  BY SetsStay DEF Inv, TypeOK
<1>2. Known' = Known /\ Stored' = Stored
  BY SetsStay DEF Known, Stored
<1>3. \A v \in Workers : txn'[v] = IF v = w THEN t ELSE txn[v]
  BY DEF Inv, TypeOK
<1>4. \A v \in Workers : Began(txn'[v], Known, Stored)
  BY <1>3 DEF Inv
<1>5. \A v \in Workers' : Began(txn[v], Known, Stored)'
  BY <1>2, <1>4, SetsStay DEF Began, Named
<1>6. \A a \in Known' : Named(account[a])'
  BY <1>2, SetsStay DEF Inv, Named
<1>7. \A s \in Stored' : (row[s].account \in Known /\ Named(row[s]))'
  BY <1>2, SetsStay DEF Inv, Named
<1>8. StaysRevoked
  BY DEF StaysRevoked
<1> QED  BY <1>1, <1>5, <1>6, <1>7, <1>8 DEF Inv

LEMMA TypesOfInv ==
  ASSUME Inv
  PROVE  /\ \A a \in Accounts : account[a] \in Account /\ department[a] \in Departments
         /\ \A s \in Serials : row[s] \in Row
         /\ \A w \in Workers : txn[w] \in Handler
         /\ Serials \subseteq Nat /\ None \in Nat /\ Known \subseteq Accounts
  BY SerialsAreNat DEF Inv, TypeOK, None, Known

LEMMA BeginStep ==
  ASSUME Inv, NEW w \in Workers, NEW t \in Handler, Began(t, Known, Stored), Begin(w, t)
  PROVE  Inv' /\ StaysRevoked
<1>1. /\ txn' = [txn EXCEPT ![w] = t]
      /\ UNCHANGED <<scope, account, row, department, signed, file>>
  BY DEF Begin, database, authority
<1>2. /\ signed' \in Seq([server : Servers \cup {None}, name : Names \cup {None}])
      /\ file' \in [Servers -> [Names -> Nat]]
  BY <1>1 DEF Inv, TypeOK
<1> QED  BY <1>1, <1>2, HandlerStep

-----------------------------------------------------------------------------
(* How handlers begin *)

LEMMA IssueBegins ==
  ASSUME Inv, NEW w \in Workers, NEW a \in Accounts, IssueCertificate(w, a)
  PROVE  Inv' /\ StaysRevoked
<1> DEFINE t == [Idle EXCEPT !.op = "issue", !.step = "sign", !.account = a,
                   !.server = account[a].server, !.name = account[a].name,
                   !.dept = department[a]]
<1>1. a \in Known /\ Named(account[a])
  BY DEF IssueCertificate, Usable, Known, Inv
<1>2. t \in Handler
  BY <1>1, IdleIsHandler, TypesOfInv DEF Handler, Account, Operations, Somewhere, Named
<1>3. /\ t.op = "issue" /\ t.step = "sign" /\ t.account = a
      /\ t.server = account[a].server /\ t.name = account[a].name /\ t.row = None
  BY DEF Idle
<1>4. Began(t, Known, Stored)
  BY <1>1, <1>3 DEF Began, Named, Operations
<1>5. Begin(w, t)
  BY DEF IssueCertificate
<1> QED  BY <1>2, <1>4, <1>5, BeginStep

\* A handler that acts on an issued or expired row names what the row names.
LEMMA OnRowBegan ==
  ASSUME Inv, NEW s \in Serials, row[s].status \notin {NotStored, "revoked"},
         NEW op \in Operations \ {"issue"}, NEW step \in {"revoke", "renew"},
         step = "renew" => op = "renew"
  PROVE  OnRow(op, step, s) \in Handler /\ Began(OnRow(op, step, s), Known, Stored)
<1> DEFINE t == OnRow(op, step, s)
<1>1. row[s] \in Row /\ s \in Stored /\ row[s].account \in Known /\ Named(row[s]) /\ s \in Nat
  BY TypesOfInv DEF Inv, Stored
<1>2. department[row[s].account] \in Departments
  BY <1>1, TypesOfInv
<1>3. t \in Handler
  BY <1>1, <1>2, IdleIsHandler DEF OnRow, Handler, Row, Somewhere
<1>4. /\ t.op = op /\ t.step = step /\ t.account = row[s].account
      /\ t.server = row[s].server /\ t.name = row[s].name /\ t.was = row[s].status
      /\ t.row = s
  BY DEF OnRow, Idle
<1>5. Began(t, Known, Stored)
  BY <1>1, <1>4 DEF Began, Named, Operations
<1> QED  BY <1>3, <1>5

LEMMA RevokeBegins ==
  ASSUME Inv, NEW w \in Workers, NEW s \in Serials,
         RevokeCertificate(w, s) \/ RenewCertificate(w, s)
  PROVE  Inv' /\ StaysRevoked
<1>1. row[s].status \notin {NotStored, "revoked"}
  BY DEF RevokeCertificate, RenewCertificate, MayActOn, NotStored
<1>2. "revoke" \in Operations \ {"issue"} /\ "renew" \in Operations \ {"issue"}
  BY DEF Operations
<1>3. CASE RevokeCertificate(w, s)
  <2>1. Begin(w, OnRow("revoke", "revoke", s))
    BY <1>3 DEF RevokeCertificate
  <2> QED  BY <1>1, <1>2, <2>1, OnRowBegan, BeginStep
<1>4. CASE RenewCertificate(w, s)
  <2>1. Begin(w, OnRow("renew", "renew", s))
    BY <1>4 DEF RenewCertificate
  <2> QED  BY <1>1, <1>2, <2>1, OnRowBegan, BeginStep
<1> QED  BY <1>3, <1>4

LEMMA DirectoriesTyped ==
  ASSUME Inv, NEW a \in Known
  PROVE  AccountDirs(a) \in SUBSET Directories /\ RowsOf(a) \in SUBSET Serials
<1>1. \A s \in RowsOf(a) : s \in Serials /\ row[s] \in Row
  BY TypesOfInv DEF RowsOf, Stored
<1>2. a \in Accounts /\ account[a] \in Account /\ department[a] \in Departments
  BY TypesOfInv
<1>3. \A s \in RowsOf(a) : row[s].server \in Servers \cup {None}
                          /\ row[s].dept \in Somewhere /\ row[s].conf \in Somewhere
  BY <1>1 DEF Row
<1>4. account[a].server \in Servers \cup {None}
  BY <1>2 DEF Account
<1>5. AccountDirs(a) \in SUBSET Directories
  BY <1>2, <1>3, <1>4 DEF AccountDirs, Directories, Somewhere
<1> QED  BY <1>1, <1>5

LEMMA RevokeAccountBegins ==
  ASSUME Inv, NEW w \in Workers, NEW a \in Accounts, RevokeAccount(w, a)
  PROVE  Inv' /\ StaysRevoked
<1> DEFINE with(t) == [t EXCEPT !.account = a, !.dirs = AccountDirs(a), !.paths = RowsOf(a)]
           none == [Idle EXCEPT !.op = "account", !.step = "delete"]
<1>1. a \in Known
  BY DEF RevokeAccount, Known
<1>2. AccountDirs(a) \in SUBSET Directories /\ RowsOf(a) \in SUBSET Nat
  BY <1>1, DirectoriesTyped, TypesOfInv
<1>3. ASSUME NEW t \in Handler, t.op = "account", t.step \in {"delete", "revoke"},
             t.row = None \/ t.row \in Stored, Begin(w, with(t))
      PROVE  Inv' /\ StaysRevoked
  <2>1. with(t) \in Handler
    BY <1>1, <1>2, TypesOfInv DEF Handler
  <2>2. /\ with(t).op = "account" /\ with(t).step \in {"delete", "revoke"}
        /\ with(t).account = a /\ with(t).row = t.row
    BY <1>3 DEF Handler
  <2>3. Began(with(t), Known, Stored)
    BY <1>1, <1>3, <2>2 DEF Began, Operations
  <2> HIDE DEF with
  <2> QED  BY <1>3, <2>1, <2>3, BeginStep
<1>4. none \in Handler /\ none.op = "account" /\ none.step = "delete" /\ none.row = None
  BY IdleIsHandler DEF Handler, Operations, Idle
<1>5. ASSUME NEW s \in RowsOf(a), row[s].status = "issued"
      PROVE  /\ OnRow("account", "revoke", s) \in Handler
             /\ OnRow("account", "revoke", s).op = "account"
             /\ OnRow("account", "revoke", s).step = "revoke"
             /\ OnRow("account", "revoke", s).row \in Stored
  <2>1. s \in Stored /\ s \in Serials /\ "account" \in Operations \ {"issue"}
    BY <1>5 DEF RowsOf, Stored, NotStored, Operations
  <2>2. row[s].status \notin {NotStored, "revoked"}
    BY <1>5 DEF NotStored
  <2>3. OnRow("account", "revoke", s) \in Handler
    BY <2>1, <2>2, OnRowBegan
  <2> QED  BY <2>1, <2>3 DEF OnRow, Idle
<1>6. \/ Begin(w, with(none))
      \/ \E s \in RowsOf(a) : row[s].status = "issued"
                              /\ Begin(w, with(OnRow("account", "revoke", s)))
  BY DEF RevokeAccount
<1> HIDE DEF with, none
<1> QED  BY <1>3, <1>4, <1>5, <1>6

LEMMA ConfigBegins ==
  ASSUME Inv, NEW w \in Workers, NEW a \in Accounts, GenerateConfig(w, a)
  PROVE  Inv' /\ StaysRevoked
<1>1. PICK s \in Stored :
        Begin(w, [Idle EXCEPT !.op = "config", !.step = "archive", !.account = a,
                    !.server = account[a].server, !.dept = department[a], !.row = s])
  BY DEF GenerateConfig, IssuedOn, RowsOf, Stored, NotStored
<1> DEFINE t == [Idle EXCEPT !.op = "config", !.step = "archive", !.account = a,
                   !.server = account[a].server, !.dept = department[a], !.row = s]
<1>2. a \in Known
  BY DEF GenerateConfig, Usable, Known
<1>3. t \in Handler
  BY <1>1, IdleIsHandler, TypesOfInv DEF Handler, Account, Operations, Somewhere, Stored
<1>4. t.op = "config" /\ t.step = "archive" /\ t.account = a /\ t.row = s
  BY DEF Idle
<1>5. Began(t, Known, Stored)
  BY <1>1, <1>2, <1>4 DEF Began, Operations
<1> QED  BY <1>1, <1>3, <1>5, BeginStep

-----------------------------------------------------------------------------
(* Commands and what follows them *)

\* The files and signatures of an authority keep their types, whatever a command adds.
LEMMA AuthorityTyped ==
  ASSUME Inv, NEW t \in Handler, NEW serial \in Nat
  PROVE  /\ Append(signed, [server |-> t.server, name |-> t.name])
              \in Seq([server : Servers \cup {None}, name : Names \cup {None}])
         /\ [file EXCEPT ![t.server][t.name] = serial] \in [Servers -> [Names -> Nat]]
         /\ Len(signed) + 1 \in Nat
<1>1. [server |-> t.server, name |-> t.name]
        \in [server : Servers \cup {None}, name : Names \cup {None}]
  BY DEF Handler
<1>2. \A f \in [Names -> Nat] : [f EXCEPT ![t.name] = serial] \in [Names -> Nat]
  OBVIOUS
<1>3. file \in [Servers -> [Names -> Nat]]
  BY DEF Inv, TypeOK
<1>4. [file EXCEPT ![t.server][t.name] = serial] \in [Servers -> [Names -> Nat]]
  BY <1>2, <1>3
<1> QED  BY <1>1, <1>4 DEF Inv, TypeOK

\* A command that answers moves the handler on; an answer that is lost ends it.
LEMMA AnsweredStep ==
  ASSUME Inv, NEW w \in Workers, NEW t \in Handler, Began(t, Known, Stored), Answered(w, t),
         UNCHANGED <<scope, account, row, department>>,
         signed' \in Seq([server : Servers \cup {None}, name : Names \cup {None}]),
         file' \in [Servers -> [Names -> Nat]]
  PROVE  Inv' /\ StaysRevoked
  BY HandlerStep, IdleIsHandler DEF Answered, Lose

LEMMA SignNewStep ==
  ASSUME Inv, NEW w \in Workers, txn[w].step # "idle", SignNew(w)
  PROVE  Inv' /\ StaysRevoked
<1> DEFINE t == txn[w]
           next == [t EXCEPT !.step = "archive", !.new = Len(signed) + 1]
<1>1. t \in Handler /\ Began(t, Known, Stored)
  BY TypesOfInv DEF Inv
<1>2. /\ signed' \in Seq([server : Servers \cup {None}, name : Names \cup {None}])
      /\ file' \in [Servers -> [Names -> Nat]]
      /\ Len(signed) + 1 \in Nat
  BY <1>1, AuthorityTyped DEF SignNew
<1>3. next \in Handler /\ Began(next, Known, Stored)
  BY <1>1, <1>2, GoesOn
<1>4. UNCHANGED <<scope, account, row, department>> /\ Answered(w, next)
  BY DEF SignNew, database
<1> HIDE DEF next
<1> QED  BY <1>2, <1>3, <1>4, AnsweredStep

LEMMA SignStep ==
  ASSUME Inv, NEW w \in Workers, Sign(w)
  PROVE  Inv' /\ StaysRevoked
<1> DEFINE t == txn[w]
           serial == file[t.server][t.name]
           next == [t EXCEPT !.step = "archive", !.new = serial]
<1>1. t \in Handler /\ Began(t, Known, Stored) /\ t.step = "sign"
  BY TypesOfInv DEF Inv, Sign
<1>2. CASE SignNew(w)
  BY <1>1, <1>2, SignNewStep
<1>3. CASE /\ txn' = [txn EXCEPT ![w].step = "archive", ![w].new = serial]
           /\ UNCHANGED <<database, authority, directories, faults>>
  <2>1. t.server \in Servers /\ t.name \in Names
    BY <1>1 DEF Began, Named
  <2>2. serial \in Nat
    BY <2>1 DEF Inv, TypeOK
  <2> HIDE DEF serial
  <2>3. next \in Handler /\ Began(next, Known, Stored)
    BY <1>1, <2>2, GoesOn
  <2>4. txn' = [txn EXCEPT ![w] = next]
    BY <1>3 DEF Inv, TypeOK
  <2>5. /\ UNCHANGED <<scope, account, row, department>>
        /\ signed' = signed /\ file' = file
    BY <1>3 DEF database, authority
  <2>6. /\ signed' \in Seq([server : Servers \cup {None}, name : Names \cup {None}])
        /\ file' \in [Servers -> [Names -> Nat]]
    BY <2>5 DEF Inv, TypeOK
  <2> HIDE DEF next
  <2> QED  BY <2>3, <2>4, <2>5, <2>6, HandlerStep
<1> QED  BY <1>2, <1>3 DEF Sign

LEMMA RevokeStep ==
  ASSUME Inv, NEW w \in Workers, Revoke(w) \/ GenCrl(w)
  PROVE  Inv' /\ StaysRevoked
<1> DEFINE t == txn[w]
<1>1. t \in Handler /\ Began(t, Known, Stored) /\ t.step # "idle"
  BY TypesOfInv DEF Inv, Revoke, GenCrl
<1>2. /\ [file EXCEPT ![t.server][t.name] = None] \in [Servers -> [Names -> Nat]]
      /\ file \in [Servers -> [Names -> Nat]]
      /\ signed \in Seq([server : Servers \cup {None}, name : Names \cup {None}])
  BY <1>1, AuthorityTyped, TypesOfInv DEF Inv, TypeOK
<1>3. PICK step \in {"crl", "delete", "commit"} : Answered(w, [t EXCEPT !.step = step])
  BY DEF Revoke, GenCrl
<1>4. [t EXCEPT !.step = step] \in Handler /\ Began([t EXCEPT !.step = step], Known, Stored)
  BY <1>1, GoesOn, TypesOfInv
<1>5. /\ UNCHANGED <<scope, account, row, department>> /\ signed' = signed
      /\ file' = file \/ file' = [file EXCEPT ![t.server][t.name] = None]
  BY DEF Revoke, GenCrl, database
<1> QED  BY <1>2, <1>3, <1>4, <1>5, AnsweredStep

\* Steps that touch neither the database nor the authorities.
LEMMA LocalStep ==
  ASSUME Inv, NEW w \in Workers, Archive(w) \/ DeleteFiles(w) \/ Fail(w) \/ Refuse(w)
  PROVE  Inv' /\ StaysRevoked
<1> DEFINE t == txn[w]
<1>1. t \in Handler /\ Began(t, Known, Stored)
  BY TypesOfInv DEF Inv
<1>2. /\ file \in [Servers -> [Names -> Nat]]
      /\ signed \in Seq([server : Servers \cup {None}, name : Names \cup {None}])
  BY DEF Inv, TypeOK
<1>3. UNCHANGED <<scope, account, row, department, signed, file>>
  BY DEF Archive, DeleteFiles, Fail, Refuse, database, authority
<1>4. CASE Archive(w) \/ DeleteFiles(w)
  <2>1. t.step # "idle"
    BY <1>4 DEF Archive, DeleteFiles
  <2>2. [t EXCEPT !.step = "commit"] \in Handler /\ Began([t EXCEPT !.step = "commit"], Known, Stored)
    BY <1>1, <2>1, GoesOn, TypesOfInv
  <2>3. txn' = [txn EXCEPT ![w] = [t EXCEPT !.step = "commit"]]
    BY <1>4 DEF Archive, DeleteFiles, Inv, TypeOK
  <2> QED  BY <1>2, <1>3, <2>2, <2>3, HandlerStep
<1>5. CASE Fail(w) \/ Refuse(w)
  BY <1>2, <1>3, <1>5, IdleIsHandler, HandlerStep DEF Fail, Refuse
<1> QED  BY <1>4, <1>5

-----------------------------------------------------------------------------
(* Steps that change the database *)

LEMMA TablesStep ==
  ASSUME Inv, UNCHANGED <<scope, signed, file>>,
         row' \in [Serials -> Row], account' \in [Accounts -> Account],
         department' \in [Accounts -> Departments],
         Known \subseteq Known', Stored \subseteq Stored',
         \A a \in Known' : Named(account'[a]),
         \A s \in Stored' : row'[s].account \in Known' /\ Named(row'[s]),
         txn' = txn \/ \E w \in Workers : txn' = [txn EXCEPT ![w] = Idle]
  PROVE  Inv'
<1>1. txn' \in [Workers -> Handler]
  BY IdleIsHandler DEF Inv, TypeOK
<1>2. TypeOK'
  BY <1>1, SetsStay DEF Inv, TypeOK
<1>3. \A t : Began(t, Known, Stored) => Began(t, Known', Stored')
  BY DEF Began, Named
<1>4. \A w \in Workers : Began(txn'[w], Known', Stored')
  BY <1>3, IdleIsHandler DEF Inv, TypeOK
<1>5. \A w \in Workers' : Began(txn[w], Known, Stored)'
  BY <1>4, SetsStay DEF Began, Named
<1>6. \A a \in Known' : Named(account[a])'
  BY SetsStay DEF Named
<1>7. \A s \in Stored' : (row[s].account \in Known /\ Named(row[s]))'
  BY SetsStay DEF Named
<1> QED  BY <1>2, <1>5, <1>6, <1>7 DEF Inv

\* What is added: an issued row with the handler's account, server and name.
LEMMA AddedRow ==
  ASSUME Inv, NEW t \in Handler, Began(t, Known, Stored), t.step # "idle", Stores(t),
         NEW rows \in [Serials -> Row]
  PROVE  /\ Added(rows, t) \in [Serials -> Row]
         /\ \A s \in Serials :
              IF s = t.new THEN /\ Added(rows, t)[s].status = "issued"
                                /\ Added(rows, t)[s].account \in Known
                                /\ Named(Added(rows, t)[s])
              ELSE Added(rows, t)[s] = rows[s]
<1> DEFINE r == [status |-> "issued", account |-> t.account, server |-> t.server,
                 name |-> t.name, dept |-> t.dept, conf |-> None]
<1>1. t.account \in Known /\ Named(t)
  BY DEF Began, Stores
<1>2. r \in Row
  BY <1>1, TypesOfInv DEF Handler, Row, RowStatuses, Somewhere, Named
<1>3. r.status = "issued" /\ r.account \in Known /\ Named(r)
  BY <1>1 DEF Named
<1>4. Added(rows, t) = [rows EXCEPT ![t.new] = r]
  BY DEF Added
<1> HIDE DEF r
<1> QED  BY <1>2, <1>3, <1>4

\* The row acted on changes its status, and nothing else.
LEMMA ActedRow ==
  ASSUME Inv, NEW t \in Handler, NEW status \in RowStatuses
  PROVE  /\ Acted(row, t, status) \in [Serials -> Row]
         /\ \A s \in Serials :
              /\ Acted(row, t, status)[s].account = row[s].account
              /\ Acted(row, t, status)[s].server = row[s].server
              /\ Acted(row, t, status)[s].name = row[s].name
              /\ Acted(row, t, status)[s].dept = row[s].dept
              /\ Acted(row, t, status)[s].conf = row[s].conf
              /\ \/ Acted(row, t, status)[s].status = row[s].status
                 \/ s = t.row /\ t.row # None /\ Acted(row, t, status)[s].status = status
<1>1. \A r \in Row : /\ [r EXCEPT !.status = status] \in Row
                     /\ [r EXCEPT !.status = status].status = status
                     /\ [r EXCEPT !.status = status].account = r.account
                     /\ [r EXCEPT !.status = status].server = r.server
                     /\ [r EXCEPT !.status = status].name = r.name
                     /\ [r EXCEPT !.status = status].dept = r.dept
                     /\ [r EXCEPT !.status = status].conf = r.conf
  BY DEF Row
<1>2. row \in [Serials -> Row]
  BY DEF Inv, TypeOK
<1>3. CASE t.row = None \/ t.was = status
  BY <1>2, <1>3 DEF Acted
<1>4. CASE t.row # None /\ t.was # status
  <2> DEFINE r == [row[t.row] EXCEPT !.status = status]
  <2>1. Acted(row, t, status) = [row EXCEPT ![t.row] = r]
    BY <1>4 DEF Acted
  <2>2. t.row \in Serials => /\ r \in Row /\ r.status = status
                            /\ r.account = row[t.row].account
                            /\ r.server = row[t.row].server /\ r.name = row[t.row].name
                            /\ r.dept = row[t.row].dept /\ r.conf = row[t.row].conf
    BY <1>1, <1>2
  <2> HIDE DEF r
  <2>3. Acted(row, t, status) \in [Serials -> Row]
    BY <1>2, <2>1, <2>2
  <2>4. \A s \in Serials : Acted(row, t, status)[s] = IF s = t.row THEN r ELSE row[s]
    BY <1>2, <2>1
  <2> QED  BY <1>4, <2>2, <2>3, <2>4
<1> QED  BY <1>3, <1>4

LEMMA ForgottenRow ==
  ASSUME NEW rows \in [Serials -> Row], NEW paths
  PROVE  /\ Forgotten(rows, paths) \in [Serials -> Row]
         /\ \A s \in Serials :
              /\ Forgotten(rows, paths)[s].status = rows[s].status
              /\ Forgotten(rows, paths)[s].account = rows[s].account
              /\ Forgotten(rows, paths)[s].server = rows[s].server
              /\ Forgotten(rows, paths)[s].name = rows[s].name
              /\ s \notin paths => /\ Forgotten(rows, paths)[s].dept = rows[s].dept
                                 /\ Forgotten(rows, paths)[s].conf = rows[s].conf
<1>1. \A r \in Row : /\ [r EXCEPT !.dept = None, !.conf = None] \in Row
                     /\ [r EXCEPT !.dept = None, !.conf = None].status = r.status
                     /\ [r EXCEPT !.dept = None, !.conf = None].account = r.account
                     /\ [r EXCEPT !.dept = None, !.conf = None].server = r.server
                     /\ [r EXCEPT !.dept = None, !.conf = None].name = r.name
  BY DEF Row, Somewhere
<1> QED  BY <1>1 DEF Forgotten

\* What a commit leaves of a stored row: itself; or, of the row acted on, its revocation, or
\* its expiry by a renewal.
LEMMA CommitRows ==
  ASSUME Inv, NEW w \in Workers, Commit(w)
  PROVE  /\ row' \in [Serials -> Row]
         /\ Stored \subseteq {s \in Serials : row'[s].status # NotStored}
         /\ \A s \in Serials : row'[s].status # NotStored =>
              row'[s].account \in Known /\ Named(row'[s])
         /\ \A s \in Serials :
              row[s].status = "revoked" /\ row'[s].status # "revoked" =>
                txn[w].op = "renew" /\ txn[w].row = s
<1> DEFINE t == txn[w]
<1>1. t \in Handler /\ Began(t, Known, Stored) /\ t.step = "commit"
  BY TypesOfInv DEF Inv, Commit
<1>2. row' = RowsAfter(t) /\ (Stores(t) => row[t.new].status = NotStored)
  BY DEF Commit
<1>3. t.op \in Operations /\ (t.row # None => t.row \in Stored)
  BY <1>1 DEF Began
<1>4. /\ row \in [Serials -> Row]
      /\ \A s \in Serials : row[s].status # NotStored => row[s].account \in Known /\ Named(row[s])
  BY DEF Inv, TypeOK, Stored
<1>5. {"expired", "revoked"} \subseteq RowStatuses /\ NotStored \notin {"expired", "revoked", "issued"}
  BY DEF RowStatuses, NotStored
<1> HIDE DEF t
<1>6. CASE t.op = "issue"
  <2>1. Stores(t) /\ row' = Added(row, t)
    BY <1>2, <1>6 DEF RowsAfter, Stores
  <2> QED  BY <1>1, <1>2, <1>4, <1>5, <2>1, AddedRow DEF Stored
<1>7. CASE t.op = "renew"
  <2>1. Stores(t) /\ row' = Added(Acted(row, t, "expired"), t)
    BY <1>2, <1>7 DEF RowsAfter, Stores
  <2>2. /\ Acted(row, t, "expired") \in [Serials -> Row]
        /\ \A s \in Serials :
              /\ Acted(row, t, "expired")[s].account = row[s].account
              /\ Acted(row, t, "expired")[s].server = row[s].server
              /\ Acted(row, t, "expired")[s].name = row[s].name
              /\ \/ Acted(row, t, "expired")[s].status = row[s].status
                 \/ s = t.row /\ t.row # None /\ Acted(row, t, "expired")[s].status = "expired"
    BY <1>1, <1>5, ActedRow
  <2>3. /\ row' \in [Serials -> Row]
        /\ \A s \in Serials : IF s = t.new THEN /\ row'[s].status = "issued"
                                               /\ row'[s].account \in Known /\ Named(row'[s])
                              ELSE row'[s] = Acted(row, t, "expired")[s]
    BY <1>1, <2>1, <2>2, AddedRow
  <2> QED  BY <1>2, <1>3, <1>4, <1>5, <1>7, <2>1, <2>2, <2>3 DEF Stored, Named, t
<1>8. CASE t.op = "config"
  <2>1. row' = [row EXCEPT ![t.row] = [row[t.row] EXCEPT !.conf = t.dept]]
    BY <1>2, <1>8 DEF RowsAfter
  <2>2. \A r \in Row : /\ [r EXCEPT !.conf = t.dept] \in Row
                       /\ [r EXCEPT !.conf = t.dept].status = r.status
                       /\ [r EXCEPT !.conf = t.dept].account = r.account
                       /\ [r EXCEPT !.conf = t.dept].server = r.server
                       /\ [r EXCEPT !.conf = t.dept].name = r.name
    BY <1>1 DEF Row, Handler
  <2>3. /\ row' \in [Serials -> Row]
        /\ \A s \in Serials :
             row'[s] = IF s = t.row THEN [row[s] EXCEPT !.conf = t.dept] ELSE row[s]
    BY <1>4, <2>1, <2>2
  <2>4. \A s \in Serials : /\ row'[s].status = row[s].status
                           /\ row'[s].account = row[s].account
                           /\ row'[s].server = row[s].server /\ row'[s].name = row[s].name
    BY <1>4, <2>2, <2>3
  <2> QED  BY <1>4, <2>3, <2>4 DEF Stored, Named
<1>9. CASE t.op \in {"revoke", "account"}
  <2>1. row' = Forgotten(Acted(row, t, "revoked"), t.paths)
    BY <1>2, <1>9 DEF RowsAfter
  <2>2. /\ Acted(row, t, "revoked") \in [Serials -> Row]
        /\ \A s \in Serials :
              /\ Acted(row, t, "revoked")[s].account = row[s].account
              /\ Acted(row, t, "revoked")[s].server = row[s].server
              /\ Acted(row, t, "revoked")[s].name = row[s].name
              /\ \/ Acted(row, t, "revoked")[s].status = row[s].status
                 \/ s = t.row /\ t.row # None /\ Acted(row, t, "revoked")[s].status = "revoked"
    BY <1>1, <1>5, ActedRow
  <2>3. /\ row' \in [Serials -> Row]
        /\ \A s \in Serials :
              /\ row'[s].status = Acted(row, t, "revoked")[s].status
              /\ row'[s].account = Acted(row, t, "revoked")[s].account
              /\ row'[s].server = Acted(row, t, "revoked")[s].server
              /\ row'[s].name = Acted(row, t, "revoked")[s].name
    BY <2>1, <2>2, ForgottenRow
  <2>4. \A s \in Serials :
              /\ row'[s].account = row[s].account
              /\ row'[s].server = row[s].server /\ row'[s].name = row[s].name
              /\ row'[s].status = row[s].status
                 \/ (s = t.row /\ t.row # None /\ row'[s].status = "revoked")
    <3> SUFFICES ASSUME NEW s \in Serials
                 PROVE  /\ row'[s].account = row[s].account
                        /\ row'[s].server = row[s].server /\ row'[s].name = row[s].name
                        /\ row'[s].status = row[s].status
                           \/ (s = t.row /\ t.row # None /\ row'[s].status = "revoked")
      OBVIOUS
    <3> DEFINE acted == Acted(row, t, "revoked")
    <3>1. /\ row'[s].status = acted[s].status /\ row'[s].account = acted[s].account
          /\ row'[s].server = acted[s].server /\ row'[s].name = acted[s].name
      BY <2>3
    <3>2. /\ acted[s].account = row[s].account
          /\ acted[s].server = row[s].server /\ acted[s].name = row[s].name
          /\ acted[s].status = row[s].status
             \/ (s = t.row /\ t.row # None /\ acted[s].status = "revoked")
      BY <2>2
    <3> HIDE DEF acted
    <3> QED  BY <3>1, <3>2
  <2> QED  BY <1>3, <1>4, <1>5, <2>3, <2>4 DEF Stored, Named
<1> QED  BY <1>3, <1>6, <1>7, <1>8, <1>9 DEF Operations

LEMMA CommitStep ==
  ASSUME Inv, NEW w \in Workers, Commit(w)
  PROVE  Inv' /\ StaysRevoked
<1> DEFINE t == txn[w]
<1>1. t \in Handler /\ Began(t, Known, Stored) /\ t.step = "commit"
  BY TypesOfInv DEF Inv, Commit
<1>2. t.account \in Known
  BY <1>1 DEF Began
<1>3. /\ UNCHANGED <<scope, signed, file, department>>
      /\ txn' = [txn EXCEPT ![w] = Idle]
      /\ account' = IF t.op = "account" THEN [account EXCEPT ![t.account].status = "revoked"]
                                        ELSE account
  BY DEF Commit, authority
<1>4. /\ account' \in [Accounts -> Account]
      /\ \A a \in Accounts : /\ account'[a].server = account[a].server
                             /\ account'[a].name = account[a].name
                             /\ account'[a].status # "none" <=> account[a].status # "none"
  <2>1. \A r \in Account : /\ [r EXCEPT !.status = "revoked"] \in Account
                           /\ [r EXCEPT !.status = "revoked"].status = "revoked"
                           /\ [r EXCEPT !.status = "revoked"].server = r.server
                           /\ [r EXCEPT !.status = "revoked"].name = r.name
    BY DEF Account
  <2>2. account \in [Accounts -> Account] /\ account[t.account].status # "none"
    BY <1>2 DEF Inv, TypeOK, Known
  <2>3. CASE t.op # "account"
    BY <1>3, <2>2, <2>3
  <2>4. CASE t.op = "account"
    <3>1. account' = [account EXCEPT ![t.account] = [account[t.account] EXCEPT !.status = "revoked"]]
      BY <1>3, <2>4
    <3> QED  BY <2>1, <2>2, <3>1
  <2> QED  BY <2>3, <2>4
<1>5. Known' = Known
  BY <1>4 DEF Known
<1>6. Stored' = {s \in Serials : row'[s].status # NotStored}
  BY <1>3, SetsStay DEF Stored
<1>7. \A a \in Known' : Named(account'[a])
  BY <1>4, <1>5, TypesOfInv DEF Inv, Named
<1>8. Inv'
  <2>1. department' \in [Accounts -> Departments]
    BY <1>3 DEF Inv, TypeOK
  <2> QED  BY <1>3, <1>4, <1>5, <1>6, <1>7, <2>1, CommitRows, TablesStep
<1>9. StaysRevoked
  <2>1. txn'[w] = Idle /\ (t.op = "renew" => t.was # "revoked")
    BY <1>1, <1>3 DEF Inv, TypeOK, Began
  <2> QED  BY <2>1, CommitRows DEF StaysRevoked
<1> QED  BY <1>8, <1>9

\* Handlers that run no command, and the threshold.
LEMMA AccountStep ==
  ASSUME Inv, NEW a \in Accounts,
         \/ \E server \in Servers, n \in Names : EnableAccount(a, server, n)
         \/ DisableAccount(a)
         \/ \E server \in Servers : AssignAccountServer(a, server)
  PROVE  Inv' /\ StaysRevoked
<1>1. UNCHANGED <<scope, signed, file, row, department, txn>>
  BY DEF EnableAccount, DisableAccount, AssignAccountServer, authority
<1>2. PICK r : /\ account' = [account EXCEPT ![a] = r]
               /\ r \in Account /\ Named(r) /\ r.status # "none"
  <2>0. account[a] \in Account /\ (account[a].status # "none" => Named(account[a]))
    BY TypesOfInv DEF Inv, Known
  <2>1. ASSUME NEW server \in Servers, NEW n \in Names, EnableAccount(a, server, n)
        PROVE  \E r : /\ account' = [account EXCEPT ![a] = r]
                      /\ r \in Account /\ Named(r) /\ r.status # "none"
    <3> DEFINE r == [status |-> "enabled", server |-> server, name |-> n]
    <3>1. r \in Account /\ Named(r) /\ r.status # "none"
      BY DEF Account, Named
    <3>2. account' = [account EXCEPT ![a] = r]
      BY <2>1 DEF EnableAccount
    <3> HIDE DEF r
    <3> QED  BY <3>1, <3>2
  <2>2. CASE DisableAccount(a)
    <3> DEFINE r == [account[a] EXCEPT !.status = "disabled"]
    <3>1. r \in Account /\ r.status = "disabled" /\ r.server = account[a].server
          /\ r.name = account[a].name
      BY <2>0 DEF Account
    <3>2. account' = [account EXCEPT ![a] = r] /\ Named(r)
      BY <2>0, <2>2, <3>1 DEF DisableAccount, Named
    <3> HIDE DEF r
    <3> QED  BY <3>1, <3>2
  <2>3. ASSUME NEW server \in Servers, AssignAccountServer(a, server)
        PROVE  \E r : /\ account' = [account EXCEPT ![a] = r]
                      /\ r \in Account /\ Named(r) /\ r.status # "none"
    <3> DEFINE r == [account[a] EXCEPT !.server = server]
    <3>1. r \in Account /\ r.status = account[a].status /\ r.server = server
          /\ r.name = account[a].name
      BY <2>0 DEF Account
    <3>2. account' = [account EXCEPT ![a] = r] /\ Named(r) /\ r.status # "none"
      BY <2>0, <2>3, <3>1 DEF AssignAccountServer, Named
    <3> HIDE DEF r
    <3> QED  BY <3>1, <3>2
  <2> QED  BY <2>1, <2>2, <2>3
<1>3. /\ account' \in [Accounts -> Account]
      /\ \A b \in Accounts : account'[b] = IF b = a THEN r ELSE account[b]
  BY <1>2 DEF Inv, TypeOK
<1>4. Known \subseteq Known' /\ \A b \in Known' : Named(account'[b])
  BY <1>2, <1>3 DEF Inv, Known
<1>5. Stored' = Stored
  BY <1>1, SetsStay DEF Stored
<1>6. Inv'
  <2>1. row' \in [Serials -> Row] /\ department' \in [Accounts -> Departments]
    BY <1>1 DEF Inv, TypeOK
  <2>2. \A s \in Stored' : row'[s].account \in Known' /\ Named(row'[s])
    BY <1>1, <1>4, <1>5 DEF Inv
  <2> QED  BY <1>1, <1>3, <1>4, <1>5, <2>1, <2>2, TablesStep
<1> QED  BY <1>1, <1>6 DEF StaysRevoked

LEMMA DepartmentStep ==
  ASSUME Inv, NEW a \in Accounts, NEW d \in Departments, ChangeDepartment(a, d)
  PROVE  Inv' /\ StaysRevoked
<1>1. UNCHANGED <<scope, signed, file, row, account, txn>>
  BY DEF ChangeDepartment, authority
<1>2. /\ department' \in [Accounts -> Departments] /\ row' \in [Serials -> Row]
      /\ account' \in [Accounts -> Account]
  BY <1>1 DEF ChangeDepartment, Inv, TypeOK
<1>3. Known' = Known /\ Stored' = Stored
  BY <1>1, SetsStay DEF Known, Stored
<1>4. /\ \A b \in Known' : Named(account'[b])
      /\ \A s \in Stored' : row'[s].account \in Known' /\ Named(row'[s])
  BY <1>1, <1>3 DEF Inv
<1>5. Inv'
  BY <1>1, <1>2, <1>3, <1>4, TablesStep
<1> QED  BY <1>1, <1>5 DEF StaysRevoked

LEMMA ThresholdStep ==
  ASSUME Inv, NEW s \in Serials, DisableCertificateByThreshold(s)
  PROVE  Inv' /\ StaysRevoked
<1> DEFINE r == [row[s] EXCEPT !.status = "revoked"]
<1>1. /\ UNCHANGED <<scope, signed, file, account, department, txn>>
      /\ row' = [row EXCEPT ![s] = r] /\ s \in Stored
  BY DEF DisableCertificateByThreshold, authority, Stored
<1>2. row[s] \in Row /\ row[s].account \in Known /\ Named(row[s])
  BY <1>1, TypesOfInv DEF Inv
<1>3. /\ r \in Row /\ r.status = "revoked" /\ r.account = row[s].account
      /\ r.server = row[s].server /\ r.name = row[s].name
  BY <1>2 DEF Row, RowStatuses
<1> HIDE DEF r
<1>4. row' \in [Serials -> Row] /\ \A q \in Serials : row'[q] = IF q = s THEN r ELSE row[q]
  BY <1>1, <1>3 DEF Inv, TypeOK
<1>5. Known' = Known /\ Stored' = Stored
  BY <1>1, <1>3, <1>4, SetsStay DEF Known, Stored, NotStored
<1>6. /\ \A b \in Known' : Named(account'[b])
      /\ \A q \in Stored' : row'[q].account \in Known' /\ Named(row'[q])
  BY <1>1, <1>2, <1>3, <1>4, <1>5 DEF Inv, Named, Stored
<1>7. account' \in [Accounts -> Account] /\ department' \in [Accounts -> Departments]
  BY <1>1 DEF Inv, TypeOK
<1>8. Inv'
  BY <1>1, <1>4, <1>5, <1>6, <1>7, TablesStep
<1> QED  BY <1>3, <1>4, <1>8 DEF StaysRevoked

LEMMA DeleteServerStep ==
  ASSUME Inv, NEW server, DeleteServer(server)
  PROVE  Inv' /\ StaysRevoked
<1>1. UNCHANGED <<scope, account, row, department, signed, file, txn>>
  BY DEF DeleteServer, authority
<1>2. /\ department' \in [Accounts -> Departments] /\ row' \in [Serials -> Row]
      /\ account' \in [Accounts -> Account]
  BY <1>1 DEF Inv, TypeOK
<1>3. Known' = Known /\ Stored' = Stored
  BY <1>1, SetsStay DEF Known, Stored
<1>4. /\ \A b \in Known' : Named(account'[b])
      /\ \A s \in Stored' : row'[s].account \in Known' /\ Named(row'[s])
  BY <1>1, <1>3 DEF Inv
<1>5. Inv'
  BY <1>1, <1>2, <1>3, <1>4, TablesStep
<1> QED  BY <1>1, <1>5 DEF StaysRevoked

-----------------------------------------------------------------------------
(* The theorem *)

LEMMA InitInv == Init => Inv
<1> SUFFICES ASSUME Init  PROVE Inv
  OBVIOUS
<1>1. account \in [Accounts -> Account] /\ Known = {}
  BY DEF Init, Account, Known
<1>2. NoRow \in Row /\ NoRow.status = NotStored
  BY DEF NoRow, Row, RowStatuses, Somewhere
<1>3. row \in [Serials -> Row] /\ Stored = {}
  BY <1>2 DEF Init, Stored
<1>4. signed \in Seq([server : Servers \cup {None}, name : Names \cup {None}])
  BY DEF Init
<1>5. file \in [Servers -> [Names -> Nat]]
  BY DEF Init, None
<1>6. TypeOK
  BY <1>1, <1>3, <1>4, <1>5, IdleIsHandler DEF Init, TypeOK
<1>7. \A w \in Workers : Began(txn[w], Known, Stored)
  BY IdleIsHandler DEF Init
<1> QED  BY <1>1, <1>3, <1>6, <1>7 DEF Inv

LEMMA StepInv ==
  ASSUME Inv, [Next]_vars
  PROVE  Inv' /\ StaysRevoked
<1>1. CASE UNCHANGED vars
  <2>1. UNCHANGED <<scope, account, row, department, signed, file, txn>>
    BY <1>1 DEF vars, database, authority
  <2>2. Known' = Known /\ Stored' = Stored
    BY <2>1, SetsStay DEF Known, Stored
  <2>3. /\ department' \in [Accounts -> Departments] /\ row' \in [Serials -> Row]
        /\ account' \in [Accounts -> Account]
        /\ \A b \in Known' : Named(account'[b])
        /\ \A s \in Stored' : row'[s].account \in Known' /\ Named(row'[s])
    BY <2>1, <2>2 DEF Inv, TypeOK
  <2> QED  BY <2>1, <2>2, <2>3, TablesStep DEF StaysRevoked
<1>2. ASSUME NEW w \in Workers,
             Sign(w) \/ Renew(w) \/ Revoke(w) \/ GenCrl(w) \/ Fail(w)
               \/ Archive(w) \/ DeleteFiles(w) \/ Commit(w) \/ Refuse(w)
      PROVE  Inv' /\ StaysRevoked
  <2>1. CASE Renew(w)
    <3>1. txn[w].step # "idle" /\ SignNew(w)
      BY <2>1 DEF Renew
    <3> QED  BY <3>1, SignNewStep
  <2> QED  BY <1>2, <2>1, SignStep, RevokeStep, LocalStep, CommitStep
<1>3. ASSUME NEW a \in Accounts, NEW w \in Workers,
             IssueCertificate(w, a) \/ RevokeAccount(w, a) \/ GenerateConfig(w, a)
      PROVE  Inv' /\ StaysRevoked
  BY <1>3, IssueBegins, RevokeAccountBegins, ConfigBegins
<1> QED  BY <1>1, <1>2, <1>3, AccountStep, DepartmentStep, DeleteServerStep, ThresholdStep,
            RevokeBegins DEF Next

\* Accounts, rows, what the authorities signed and every handler keep their types, and a
\* handler at work acts for an account that was enabled and on a row that is stored.
THEOREM TypeInvariant == Spec => []Inv
<1>1. Init => Inv
  BY InitInv
<1>2. Inv /\ [Next]_vars => Inv'
  BY StepInv
<1> QED  BY <1>1, <1>2, PTL DEF Spec

\* A revoked certificate becomes another only when a renewal commits that began before the
\* revocation (renew_certificate, revoke_certificate, revoke_account).
THEOREM RevocationIsFinal == Spec => RevokedStays
<1>1. Inv /\ [Next]_vars =>
        [\A s \in Serials :
           row[s].status = "revoked" /\ row'[s].status # "revoked" =>
             \E w \in Workers : /\ txn[w].op = "renew" /\ txn[w].row = s
                                /\ txn[w].was # "revoked" /\ txn'[w] = Idle]_vars
  BY StepInv DEF StaysRevoked
<1> QED  BY <1>1, TypeInvariant, PTL DEF Spec, RevokedStays

-----------------------------------------------------------------------------
(* Orderly requests: one at a time, and no step that acts on the database alone *)

LEMMA OneWorker ==
  ASSUME Inv, Orderly, NEW w \in Workers
  PROVE  Workers = {w} /\ MaxFaults = 0 /\ Operators \subseteq {"delete"}
<1>1. IsFiniteSet(Workers)
  BY ScopesAssumption DEF Inv, TypeOK, Workers
<1>2. PICK v : Workers = {v}
  BY <1>1, FS_Singleton DEF Orderly
<1> QED  BY <1>2 DEF Orderly

LEMMA OrderlyParts ==
  ASSUME UNCHANGED scope, NEW w, Workers = {w}, faults' = 0, RowsSigned',
         Doing(w)', FilesKnown(w)', IssuedCurrent(w)'
  PROVE  OrderlyInv'
<1>1. Workers' = {w}
  BY SetsStay
<1> QED  BY <1>1 DEF OrderlyInv

\* Steps that leave rows, authorities, directories and handlers alone.
LEMMA OrderlyStays ==
  ASSUME OrderlyInv, UNCHANGED <<row, authority, directories, txn, faults>>
  PROVE  OrderlyInv'
<1>1. UNCHANGED <<scope, row, signed, file, revoked, crl, txn, faults>>
  BY DEF authority, directories
<1>2. Stored' = Stored
  BY <1>1, SetsStay DEF Stored
<1>3. faults' = 0 /\ RowsSigned'
  BY <1>1, <1>2 DEF OrderlyInv, RowsSigned
<1>4. ASSUME NEW w \in Workers
      PROVE  Doing(w)' /\ FilesKnown(w)' /\ IssuedCurrent(w)'
  <2>1. Doing(w)'
    BY <1>1, SetsStay DEF OrderlyInv, Doing
  <2>3. FilesKnown(w)'
    BY <1>1, SetsStay DEF OrderlyInv, FilesKnown
  <2>4. IssuedCurrent(w)'
    BY <1>1, SetsStay DEF OrderlyInv, IssuedCurrent, Current
  <2> QED  BY <2>1, <2>3, <2>4
<1>5. Workers' = Workers
  BY <1>1, SetsStay
<1> QED  BY <1>3, <1>4, <1>5 DEF OrderlyInv

\* A handler's place and certificate, and what does not change as it goes on.
Keeps(t, u) ==
  /\ u.op = t.op /\ u.account = t.account /\ u.server = t.server /\ u.name = t.name
  /\ u.dept = t.dept /\ u.row = t.row /\ u.was = t.was /\ u.dirs = t.dirs /\ u.paths = t.paths

LEMMA Moved ==
  ASSUME NEW t \in Handler, NEW step, NEW new, NEW u,
         \/ u = [t EXCEPT !.step = step] /\ new = t.new
         \/ u = [t EXCEPT !.step = step, !.new = new]
  PROVE  Keeps(t, u) /\ u.step = step /\ u.new = new
  BY DEF Handler, Keeps

\* An answer is never lost when nothing fails.
LEMMA OrderlyAnswer ==
  ASSUME Inv, Orderly, OrderlyInv, NEW w \in Workers, NEW u, Answered(w, u)
  PROVE  txn'[w] = u /\ faults' = 0
<1>1. ~ (faults < MaxFaults) /\ faults = 0
  BY OneWorker DEF OrderlyInv
<1> QED  BY <1>1 DEF Answered, Lose, Inv, TypeOK

\* A step that moves handler w and leaves the rest alone: it keeps what it has signed or
\* replaced.
LEMMA OrderlyMove ==
  ASSUME Inv, Orderly, OrderlyInv, NEW w \in Workers,
         UNCHANGED <<row, authority, directories>>, faults' = 0,
         txn[w].step # "commit",
         HasSigned(txn[w]) => /\ HasSigned(txn'[w]) /\ txn'[w].new = txn[w].new
                              /\ txn'[w].server = txn[w].server /\ txn'[w].name = txn[w].name,
         HasReplaced(txn[w]) => HasReplaced(txn'[w]) /\ txn'[w].row = txn[w].row,
         Doing(w)'
  PROVE  OrderlyInv'
<1>1. UNCHANGED <<scope, row, signed, file, revoked, crl>>
  BY DEF authority, directories
<1>2. Stored' = Stored
  BY <1>1, SetsStay DEF Stored
<1>3. RowsSigned'
  BY <1>1, <1>2 DEF OrderlyInv, RowsSigned
<1>4. FilesKnown(w)'
  BY <1>1, SetsStay DEF OrderlyInv, FilesKnown
<1>5. IssuedCurrent(w)'
  BY <1>1, SetsStay DEF OrderlyInv, IssuedCurrent, Current
<1> QED  BY <1>1, <1>3, <1>4, <1>5, OneWorker, OrderlyParts

\* A request begins.
LEMMA OrderlyBegins ==
  ASSUME Inv, Orderly, OrderlyInv, NEW w \in Workers, NEW t, Begin(w, t),
         t.step \in {"sign", "renew", "revoke", "delete"}, t.step = "delete" => t.row = None,
         Doing(w)'
  PROVE  OrderlyInv'
<1>1. txn'[w] = t /\ txn[w].step = "idle" /\ UNCHANGED <<row, authority, directories, faults>>
  BY DEF Begin, database, Inv, TypeOK
<1>2. ~ HasSigned(txn[w]) /\ ~ HasReplaced(txn[w])
  BY <1>1 DEF HasSigned, HasReplaced
<1>3. faults' = 0
  BY <1>1 DEF OrderlyInv
<1> QED  BY <1>1, <1>2, <1>3, OrderlyMove

LEMMA OrderlyIssueBegins ==
  ASSUME Inv, Orderly, OrderlyInv, NEW w \in Workers, NEW a \in Accounts, IssueCertificate(w, a)
  PROVE  OrderlyInv'
<1> DEFINE t == [Idle EXCEPT !.op = "issue", !.step = "sign", !.account = a,
                   !.server = account[a].server, !.name = account[a].name,
                   !.dept = department[a]]
<1>1. t.op = "issue" /\ t.step = "sign" /\ t.row = None
  BY DEF Idle
<1>3. Begin(w, t) /\ txn'[w] = t
  BY DEF IssueCertificate, Begin, Inv, TypeOK
<1> HIDE DEF t
<1>4. Doing(w)'
  BY <1>1, <1>3 DEF Doing, StepsOf, HasSigned, HasReplaced
<1> QED  BY <1>1, <1>3, <1>4, OrderlyBegins

LEMMA OrderlyRevokeBegins ==
  ASSUME Inv, Orderly, OrderlyInv, NEW w \in Workers, NEW s \in Serials,
         RevokeCertificate(w, s) \/ RenewCertificate(w, s)
  PROVE  OrderlyInv'
<1>1. row[s].status = "issued"
  BY OneWorker DEF RevokeCertificate, RenewCertificate, MayActOn
<1>2. PICK op \in {"revoke", "renew"} : Begin(w, OnRow(op, op, s))
  BY DEF RevokeCertificate, RenewCertificate
<1> DEFINE t == OnRow(op, op, s)
<1>3. /\ t.op = op /\ t.step = op /\ t.row = s /\ t.was = "issued"
      /\ t.server = row[s].server /\ t.name = row[s].name
  BY <1>1 DEF OnRow, Idle
<1>6. Begin(w, t) /\ txn'[w] = t
  BY <1>2 DEF Begin, Inv, TypeOK
<1>7. s # None /\ row' = row /\ Serials' = Serials
  BY <1>6, TypesOfInv, SetsStay DEF Serials, None, Begin, database, authority
<1> HIDE DEF t
<1>8. Doing(w)'
  BY <1>1, <1>3, <1>6, <1>7 DEF Doing, StepsOf, HasSigned, HasReplaced
<1> QED  BY <1>3, <1>6, <1>8, OrderlyBegins

LEMMA OrderlyAccountBegins ==
  ASSUME Inv, Orderly, OrderlyInv, NEW w \in Workers, NEW a \in Accounts, RevokeAccount(w, a)
  PROVE  OrderlyInv'
<1> DEFINE with(t) == [t EXCEPT !.account = a, !.dirs = AccountDirs(a), !.paths = RowsOf(a)]
           none == [Idle EXCEPT !.op = "account", !.step = "delete"]
<1>3. ASSUME NEW t \in Handler, Begin(w, with(t)), t.op = "account",
             \/ t.step = "delete" /\ t.row = None
             \/ /\ t.step = "revoke" /\ t.row # None /\ t.was = "issued"
                /\ t.row \in Serials /\ row[t.row].status = "issued"
                /\ row[t.row].server = t.server /\ row[t.row].name = t.name
      PROVE  OrderlyInv'
    <2>1. /\ with(t).op = "account" /\ with(t).step = t.step /\ with(t).account = a
          /\ with(t).row = t.row
          /\ with(t).server = t.server /\ with(t).name = t.name /\ with(t).was = t.was
      BY <1>3 DEF Handler
    <2>2. Begin(w, with(t)) /\ txn'[w] = with(t) /\ row' = row /\ Serials' = Serials
      BY <1>3, SetsStay DEF Begin, Inv, TypeOK, database, authority
    <2> HIDE DEF with
    <2>3. Doing(w)'
      BY <1>3, <2>1, <2>2 DEF Doing, StepsOf, HasSigned, HasReplaced, Stores
    <2> QED  BY <1>3, <2>1, <2>2, <2>3, OrderlyBegins
<1>4. none \in Handler /\ none.op = "account" /\ none.step = "delete" /\ none.row = None
  BY IdleIsHandler DEF Handler, Operations, Idle
<1>5. ASSUME NEW s \in RowsOf(a), row[s].status = "issued"
      PROVE  /\ OnRow("account", "revoke", s) \in Handler
             /\ OnRow("account", "revoke", s).op = "account"
             /\ OnRow("account", "revoke", s).step = "revoke"
             /\ OnRow("account", "revoke", s).row = s /\ s \in Serials /\ s # None
             /\ OnRow("account", "revoke", s).was = "issued"
             /\ OnRow("account", "revoke", s).server = row[s].server
             /\ OnRow("account", "revoke", s).name = row[s].name
  <2>1. s \in Serials /\ "account" \in Operations \ {"issue"}
    BY <1>5 DEF RowsOf, Stored, Operations
  <2>2. row[s].status \notin {NotStored, "revoked"}
    BY <1>5 DEF NotStored
  <2>3. OnRow("account", "revoke", s) \in Handler
    BY <2>1, <2>2, OnRowBegan
  <2>4. s # None
    BY <2>1, TypesOfInv DEF Serials, None
  <2> QED  BY <1>5, <2>1, <2>3, <2>4 DEF OnRow, Idle
<1>6. \/ Begin(w, with(none))
      \/ \E s \in RowsOf(a) : row[s].status = "issued"
                              /\ Begin(w, with(OnRow("account", "revoke", s)))
  BY DEF RevokeAccount
<1> HIDE DEF with, none
<1> QED  BY <1>3, <1>4, <1>5, <1>6

\* What is signed has a serial number that no row and no file has.
LEMMA OrderlySignNew ==
  ASSUME Inv, Orderly, OrderlyInv, NEW w \in Workers, SignNew(w),
         \/ txn[w].step = "sign" /\ file[txn[w].server][txn[w].name] = None
         \/ txn[w].step = "renew"
  PROVE  OrderlyInv'
<1> DEFINE t == txn[w]
           new == Len(signed) + 1
<1>1. /\ t \in Handler /\ Began(t, Known, Stored) /\ Doing(w)
      /\ FilesKnown(w) /\ IssuedCurrent(w) /\ RowsSigned /\ faults = 0
  BY TypesOfInv DEF Inv, OrderlyInv
<1>2. txn'[w] = [t EXCEPT !.step = "archive", !.new = Len(signed) + 1] /\ faults' = 0
  BY OrderlyAnswer DEF SignNew
<1>3. Keeps(t, txn'[w]) /\ txn'[w].step = "archive" /\ txn'[w].new = new
  BY <1>1, <1>2 DEF Handler, Keeps
<1>4. /\ signed' = Append(signed, [server |-> t.server, name |-> t.name])
      /\ file' = [file EXCEPT ![t.server][t.name] = new]
      /\ new \in Serials /\ UNCHANGED <<scope, row, revoked, crl>>
  BY ScopesAssumption DEF SignNew, database, directories, Serials, MaxSerials, Inv, TypeOK
<1>5. t.server \in Servers /\ t.name \in Names
  BY <1>1 DEF Began, Named
<1>6. /\ DOMAIN signed' = DOMAIN signed \cup {new} /\ new \notin DOMAIN signed
      /\ signed'[new].server = t.server
      /\ \A s \in DOMAIN signed : signed'[s] = signed[s]
  BY <1>4 DEF Inv, TypeOK
<1>7. \A server \in Servers, n \in Names :
        file'[server][n] = IF server = t.server /\ n = t.name THEN new ELSE file[server][n]
  BY <1>4, <1>5 DEF Inv, TypeOK
<1>8. row[new].status = NotStored /\ new # None
  BY <1>1, <1>4, <1>6 DEF RowsSigned, Stored, Serials, None
<1> HIDE DEF new
<1>9. /\ Stored' = Stored /\ Serials' = Serials /\ Servers' = Servers /\ Names' = Names
  BY <1>4, SetsStay DEF Stored
<1>10. t.op \in {"issue", "renew"} /\ (t.step = "sign" <=> t.op = "issue")
  BY <1>1 DEF Doing, StepsOf
<1>11. ~ HasSigned(t) /\ ~ HasReplaced(t)
  BY <1>10, <1>1 DEF HasSigned, HasReplaced
<1>12. RowsSigned'
  BY <1>1, <1>4, <1>6, <1>9 DEF RowsSigned, Stored
<1>13. Doing(w)'
  BY <1>1, <1>3, <1>4, <1>5, <1>6, <1>7, <1>8, <1>9, <1>10
     DEF Doing, Keeps, StepsOf, HasSigned, HasReplaced
<1>15. FilesKnown(w)'
  <2>1. HasSigned(txn'[w])
    BY <1>3, <1>10 DEF HasSigned, Keeps, Stores
  <2> QED  BY <1>1, <1>3, <1>4, <1>7, <1>8, <1>9, <1>11, <2>1 DEF FilesKnown, Keeps
<1>16. IssuedCurrent(w)'
  <2> SUFFICES ASSUME NEW s \in Serials, row[s].status = "issued"
               PROVE  \/ file'[row[s].server][row[s].name] = s
                      \/ HasReplaced(txn'[w]) /\ txn'[w].row = s
    BY <1>4, <1>9 DEF IssuedCurrent, Current
  <2>1. file[row[s].server][row[s].name] = s /\ s # None
    BY <1>1, <1>11 DEF IssuedCurrent, Current, Serials, None
  <2>2. row[s].server \in Servers /\ row[s].name \in Names
    BY DEF Inv, Stored, Named, NotStored
  <2>3. CASE row[s].server # t.server \/ row[s].name # t.name
    BY <1>7, <2>1, <2>2, <2>3
  <2>4. CASE row[s].server = t.server /\ row[s].name = t.name
    <3>1. t.op = "renew" /\ t.row # None
      BY <1>1, <1>10, <2>1, <2>4 DEF Doing
    <3>2. file[t.server][t.name] = t.row
      BY <1>1, <1>11, <3>1 DEF Doing, IssuedCurrent, Current
    <3> QED  BY <1>3, <2>1, <2>4, <3>1, <3>2 DEF HasReplaced, Keeps
  <2> QED  BY <2>3, <2>4
<1> QED  BY <1>2, <1>4, <1>12, <1>13, <1>15, <1>16, OneWorker, OrderlyParts

\* Files that exist under the name are those of an issued row.
LEMMA OrderlySign ==
  ASSUME Inv, Orderly, OrderlyInv, NEW w \in Workers, Sign(w)
  PROVE  OrderlyInv'
<1> DEFINE t == txn[w]
           s == file[t.server][t.name]
<1>1. /\ t \in Handler /\ Began(t, Known, Stored) /\ t.step = "sign" /\ faults = 0
      /\ Doing(w) /\ FilesKnown(w) /\ RowsSigned
  BY TypesOfInv DEF Inv, OrderlyInv, Sign
<1>2. t.op = "issue" /\ t.server \in Servers /\ t.name \in Names
  BY <1>1 DEF Doing, StepsOf, Began, Named
<1>3. CASE s = None /\ SignNew(w)
  BY <1>1, <1>3, OrderlySignNew
<1>4. CASE /\ s # None /\ txn' = [txn EXCEPT ![w].step = "archive", ![w].new = s]
           /\ UNCHANGED <<database, authority, directories, faults>>
  <2>1. txn'[w] = [t EXCEPT !.step = "archive", !.new = s]
    BY <1>4 DEF Inv, TypeOK
  <2>2. Keeps(t, txn'[w]) /\ txn'[w].step = "archive" /\ txn'[w].new = s
    BY <1>1, <2>1 DEF Handler, Keeps
  <2>3. UNCHANGED <<row, authority, directories>> /\ faults' = 0
    BY <1>1, <1>4 DEF database
  <2>4. row' = row /\ signed' = signed /\ file' = file /\ Serials' = Serials
    BY <2>3, SetsStay DEF authority
  <2>5. ~ HasSigned(t) /\ ~ HasReplaced(t)
    BY <1>1, <1>2 DEF HasSigned, HasReplaced
  <2>6. /\ s \in Serials /\ row[s].status = "issued"
        /\ row[s].server = t.server /\ row[s].name = t.name
    BY <1>1, <1>2, <1>4, <2>5 DEF FilesKnown
  <2>7. s \in DOMAIN signed /\ signed[s].server = t.server
    BY <1>1, <2>6 DEF RowsSigned, Stored, NotStored
  <2>8. Doing(w)'
    BY <1>1, <1>2, <2>2, <2>4, <2>6, <2>7 DEF Doing, Keeps, StepsOf, HasReplaced
  <2> QED  BY <1>1, <2>3, <2>5, <2>8, OrderlyMove
<1> QED  BY <1>3, <1>4 DEF Sign

\* What is revoked is the row's own certificate.
LEMMA OrderlyRevoke ==
  ASSUME Inv, Orderly, OrderlyInv, NEW w \in Workers, Revoke(w)
  PROVE  OrderlyInv'
<1> DEFINE t == txn[w]
<1>1. /\ t \in Handler /\ t.step = "revoke" /\ faults = 0
      /\ Doing(w) /\ FilesKnown(w) /\ IssuedCurrent(w)
      /\ RowsSigned
  BY TypesOfInv DEF Inv, OrderlyInv, Revoke
<1>2. txn'[w] = [t EXCEPT !.step = "crl"] /\ faults' = 0
  BY OrderlyAnswer DEF Revoke
<1>3. Keeps(t, txn'[w]) /\ txn'[w].step = "crl" /\ txn'[w].new = t.new
  BY <1>1, <1>2 DEF Handler, Keeps
<1>4. t.op \in {"revoke", "account"} /\ t.row # None /\ ~ HasSigned(t) /\ ~ HasReplaced(t)
  BY <1>1 DEF Doing, StepsOf, HasSigned, HasReplaced, Stores
<1>5. /\ t.row \in Serials /\ row[t.row].status = "issued" /\ t.was = "issued"
      /\ row[t.row].server = t.server /\ row[t.row].name = t.name
  BY <1>1, <1>4 DEF Doing
<1>6. file[t.server][t.name] = t.row
  BY <1>1, <1>4, <1>5 DEF IssuedCurrent, Current
<1>7. t.server \in Servers /\ t.name \in Names
  BY <1>5 DEF Inv, Stored, Named, NotStored
<1>8. /\ revoked' = revoked \cup {t.row} /\ file' = [file EXCEPT ![t.server][t.name] = None]
      /\ UNCHANGED <<scope, row, signed, crl>>
  BY <1>6 DEF Revoke, database, directories
<1>9. \A server \in Servers, n \in Names :
        file'[server][n] = IF server = t.server /\ n = t.name THEN None ELSE file[server][n]
  BY <1>7, <1>8 DEF Inv, TypeOK
<1>10. /\ Stored' = Stored /\ Serials' = Serials /\ Servers' = Servers /\ Names' = Names
  BY <1>8, SetsStay DEF Stored
<1>11. RowsSigned'
  BY <1>1, <1>8, <1>10 DEF RowsSigned
<1>12. Doing(w)'
  BY <1>3, <1>4, <1>5, <1>7, <1>8, <1>9, <1>10
     DEF Doing, Keeps, StepsOf, HasSigned, Stores
<1>14. FilesKnown(w)'
  BY <1>1, <1>4, <1>8, <1>9, <1>10 DEF FilesKnown
<1>15. IssuedCurrent(w)'
  <2> SUFFICES ASSUME NEW s \in Serials, row[s].status = "issued"
               PROVE  \/ file'[row[s].server][row[s].name] = s
                      \/ HasReplaced(txn'[w]) /\ txn'[w].row = s
    BY <1>8, <1>10 DEF IssuedCurrent, Current
  <2>1. file[row[s].server][row[s].name] = s
    BY <1>1, <1>4 DEF IssuedCurrent, Current
  <2>2. row[s].server \in Servers /\ row[s].name \in Names
    BY DEF Inv, Stored, Named, NotStored
  <2>3. HasReplaced(txn'[w]) /\ txn'[w].row = t.row
    BY <1>3, <1>4 DEF HasReplaced, Keeps
  <2> QED  BY <1>6, <1>9, <2>1, <2>2, <2>3
<1> QED  BY <1>2, <1>8, <1>11, <1>12, <1>14, <1>15, OneWorker, OrderlyParts

\* The certificate revoked is on its server's revocation list before the row says so.
LEMMA OrderlyGenCrl ==
  ASSUME Inv, Orderly, OrderlyInv, NEW w \in Workers, GenCrl(w)
  PROVE  OrderlyInv'
<1> DEFINE t == txn[w]
           next == IF t.op = "account" THEN "delete" ELSE "commit"
<1>1. /\ t \in Handler /\ t.step = "crl" /\ faults = 0
      /\ Doing(w) /\ FilesKnown(w) /\ IssuedCurrent(w)
      /\ RowsSigned
  BY TypesOfInv DEF Inv, OrderlyInv, GenCrl
<1>2. txn'[w] = [t EXCEPT !.step = next] /\ faults' = 0
  BY OrderlyAnswer DEF GenCrl
<1> HIDE DEF next
<1>3. Keeps(t, txn'[w]) /\ txn'[w].step = next /\ txn'[w].new = t.new
  BY <1>1, <1>2 DEF Handler, Keeps
<1>4. t.op \in {"revoke", "account"} /\ t.row # None /\ ~ HasSigned(t) /\ HasReplaced(t)
  BY <1>1 DEF Doing, StepsOf, HasSigned, HasReplaced, Stores
<1>5. /\ t.row \in Serials /\ row[t.row].status = "issued" /\ t.was = "issued"
      /\ row[t.row].server = t.server /\ row[t.row].name = t.name
      /\ file[t.server][t.name] = None /\ t.row \in revoked
  BY <1>1, <1>4 DEF Doing
<1>6. signed[t.row].server = t.server
  BY <1>1, <1>5 DEF RowsSigned, Stored, NotStored
<1>7. /\ crl \subseteq crl' /\ t.row \in crl'
      /\ UNCHANGED <<scope, row, signed, file, revoked>>
  BY <1>5, <1>6 DEF GenCrl, database, directories
<1>8. /\ Stored' = Stored /\ Serials' = Serials /\ Servers' = Servers /\ Names' = Names
  BY <1>7, SetsStay DEF Stored
<1>9. next = (IF t.op = "account" THEN "delete" ELSE "commit")
  BY DEF next
<1>10. HasReplaced(txn'[w])
  BY <1>3, <1>4, <1>9 DEF HasReplaced, Keeps
<1>11. RowsSigned'
  BY <1>1, <1>7, <1>8 DEF RowsSigned
<1>12. Doing(w)'
  BY <1>3, <1>4, <1>5, <1>7, <1>8, <1>9 DEF Doing, Keeps, StepsOf, HasSigned, Stores
<1>14. FilesKnown(w)'
  BY <1>1, <1>4, <1>7, <1>8 DEF FilesKnown
<1>15. IssuedCurrent(w)'
  BY <1>1, <1>3, <1>7, <1>8, <1>10 DEF IssuedCurrent, Current, Keeps
<1> QED  BY <1>2, <1>7, <1>11, <1>12, <1>14, <1>15, OneWorker, OrderlyParts

LEMMA OrderlyArchive ==
  ASSUME Inv, Orderly, OrderlyInv, NEW w \in Workers, Archive(w)
  PROVE  OrderlyInv'
<1> DEFINE t == txn[w]
<1>1. /\ t \in Handler /\ t.step = "archive" /\ faults = 0
      /\ Doing(w) /\ FilesKnown(w) /\ IssuedCurrent(w)
      /\ RowsSigned
  BY TypesOfInv DEF Inv, OrderlyInv, Archive
<1>2. txn'[w] = [t EXCEPT !.step = "commit"]
  BY DEF Archive, Inv, TypeOK
<1>3. Keeps(t, txn'[w]) /\ txn'[w].step = "commit" /\ txn'[w].new = t.new
  BY <1>1, <1>2 DEF Handler, Keeps
<1>4. t.op \in {"issue", "renew"}
  BY <1>1 DEF Doing, StepsOf
<1>5. UNCHANGED <<scope, row, signed, file, revoked, crl, faults>>
  BY DEF Archive, database, authority
<1>6. /\ Stored' = Stored /\ Serials' = Serials /\ Servers' = Servers /\ Names' = Names
  BY <1>5, SetsStay DEF Stored
<1>7. HasSigned(t) /\ HasSigned(txn'[w]) /\ (HasReplaced(t) <=> HasReplaced(txn'[w]))
  BY <1>1, <1>3, <1>4 DEF HasSigned, HasReplaced, Keeps, Stores
<1>8. RowsSigned'
  BY <1>1, <1>5, <1>6 DEF RowsSigned
<1>9. Doing(w)'
  BY <1>1, <1>3, <1>4, <1>5, <1>6, <1>7 DEF Doing, Keeps, StepsOf
<1>11. FilesKnown(w)'
  BY <1>1, <1>3, <1>5, <1>6, <1>7 DEF FilesKnown, Keeps
<1>12. IssuedCurrent(w)'
  BY <1>1, <1>3, <1>5, <1>6, <1>7 DEF IssuedCurrent, Current, Keeps
<1> QED  BY <1>1, <1>5, <1>8, <1>9, <1>11, <1>12, OneWorker, OrderlyParts

LEMMA OrderlyDeleteFiles ==
  ASSUME Inv, Orderly, OrderlyInv, NEW w \in Workers, DeleteFiles(w)
  PROVE  OrderlyInv'
<1> DEFINE t == txn[w]
<1>1. /\ t \in Handler /\ t.step = "delete" /\ faults = 0
      /\ Doing(w) /\ FilesKnown(w) /\ IssuedCurrent(w)
      /\ RowsSigned
  BY TypesOfInv DEF Inv, OrderlyInv, DeleteFiles
<1>2. txn'[w] = [t EXCEPT !.step = "commit"]
  BY DEF DeleteFiles, Inv, TypeOK
<1>3. Keeps(t, txn'[w]) /\ txn'[w].step = "commit" /\ txn'[w].new = t.new
  BY <1>1, <1>2 DEF Handler, Keeps
<1>4. t.op = "account"
  BY <1>1 DEF Doing, StepsOf
<1>5. UNCHANGED <<scope, row, signed, file, revoked, crl, faults>>
  BY DEF DeleteFiles, database, authority
<1>6. /\ Stored' = Stored /\ Serials' = Serials /\ Servers' = Servers /\ Names' = Names
  BY <1>5, SetsStay DEF Stored
<1>7. /\ ~ HasSigned(t) /\ ~ HasSigned(txn'[w]) /\ ~ Stores(t) /\ ~ Stores(txn'[w])
      /\ (HasReplaced(t) <=> HasReplaced(txn'[w]))
  BY <1>1, <1>3, <1>4 DEF HasSigned, HasReplaced, Keeps, Stores
<1>8. RowsSigned'
  BY <1>1, <1>5, <1>6 DEF RowsSigned
<1>9. Doing(w)'
  BY <1>1, <1>3, <1>4, <1>5, <1>6, <1>7 DEF Doing, Keeps, StepsOf
<1>12. FilesKnown(w)'
  BY <1>1, <1>5, <1>6, <1>7 DEF FilesKnown
<1>13. IssuedCurrent(w)'
  BY <1>1, <1>3, <1>5, <1>6, <1>7 DEF IssuedCurrent, Current, Keeps
<1> QED  BY <1>1, <1>5, <1>8, <1>9, <1>12, <1>13, OneWorker, OrderlyParts

\* Nothing fails: what a renewal or a revocation is about is on file.
LEMMA OrderlyNeverFails ==
  ASSUME Inv, Orderly, OrderlyInv, NEW w \in Workers, Fail(w)
  PROVE  FALSE
<1> DEFINE t == txn[w]
<1>1. /\ Doing(w) /\ IssuedCurrent(w) /\ faults = 0 /\ MaxFaults = 0
  BY OneWorker DEF OrderlyInv
<1>2. t.step \in {"renew", "revoke"} /\ file[t.server][t.name] = None
  BY <1>1 DEF Fail
<1>3. t.row # None /\ ~ HasReplaced(t)
  BY <1>1, <1>2 DEF Doing, StepsOf, HasReplaced
<1>4. t.row \in Serials /\ file[t.server][t.name] = t.row
  BY <1>1, <1>2, <1>3 DEF Doing, IssuedCurrent, Current
<1> QED  BY <1>2, <1>3, <1>4

\* Only a request that took the files of a stored certificate is refused.
LEMMA OrderlyRefuse ==
  ASSUME Inv, Orderly, OrderlyInv, NEW w \in Workers, Refuse(w)
  PROVE  OrderlyInv'
<1> DEFINE t == txn[w]
<1>1. /\ t.step = "commit" /\ Stores(t) /\ row[t.new].status # NotStored /\ faults = 0
      /\ Doing(w) /\ FilesKnown(w) /\ IssuedCurrent(w)
      /\ RowsSigned
  BY DEF OrderlyInv, Refuse
<1>2. t.op = "issue" /\ ~ HasReplaced(t)
  BY <1>1 DEF Doing, HasSigned, HasReplaced, Stores
<1>3. txn'[w] = Idle
  BY DEF Refuse, Inv, TypeOK
<1>4. /\ Idle.step = "idle" /\ Idle.op = "none"
      /\ ~ HasSigned(Idle) /\ ~ HasReplaced(Idle) /\ ~ Stores(Idle)
  BY DEF Idle, HasSigned, HasReplaced, Stores
<1> HIDE DEF Idle
<1>5. UNCHANGED <<scope, row, signed, file, revoked, crl, archive, faults>>
  BY DEF Refuse, database, authority
<1>6. /\ Stored' = Stored /\ Serials' = Serials /\ Servers' = Servers /\ Names' = Names
  BY <1>5, SetsStay DEF Stored
<1>7. RowsSigned'
  BY <1>1, <1>5, <1>6 DEF RowsSigned
<1>8. Doing(w)'
  BY <1>3, <1>4 DEF Doing
<1>9. FilesKnown(w)'
  BY <1>1, <1>5, <1>6 DEF FilesKnown
<1>10. IssuedCurrent(w)'
  BY <1>1, <1>2, <1>5, <1>6 DEF IssuedCurrent, Current
<1> QED  BY <1>1, <1>5, <1>7, <1>8, <1>9, <1>10, OneWorker, OrderlyParts

\* What a commit makes of each row: the one added, the one acted on, the others.
LEMMA OrderlyRows ==
  ASSUME Inv, Orderly, OrderlyInv, NEW w \in Workers, Commit(w), NEW s \in Serials
  PROVE  LET t == txn[w]
             acted == t.row # None /\ s = t.row
         IN IF Stores(t) /\ s = t.new
            THEN /\ row'[s].status = "issued" /\ row'[s].account = t.account
                 /\ row'[s].server = t.server /\ row'[s].name = t.name
            ELSE /\ row'[s].account = row[s].account
                 /\ row'[s].server = row[s].server /\ row'[s].name = row[s].name
                 /\ ~ acted => row'[s].status = row[s].status
                 /\ acted => row'[s].status = IF Stores(t) THEN "expired" ELSE "revoked"
<1> DEFINE t == txn[w]
<1>1. /\ t \in Handler /\ t.step = "commit" /\ Doing(w)
  BY TypesOfInv DEF Inv, OrderlyInv, Commit
<1>2. row \in [Serials -> Row] /\ row[s] \in Row /\ row' = RowsAfter(t)
  BY DEF Inv, TypeOK, Commit
<1>3. /\ t.op \in {"issue", "renew", "revoke", "account"}
      /\ t.op = "issue" => t.row = None
      /\ t.row # None => t.was = "issued" /\ t.row \in Serials
  BY <1>1 DEF Doing
<1> HIDE DEF t
<1>4. ASSUME NEW status \in {"expired", "revoked"}
      PROVE  /\ Acted(row, t, status) \in [Serials -> Row]
             /\ Acted(row, t, status)[s] = IF t.row # None /\ s = t.row
                                          THEN [row[s] EXCEPT !.status = status] ELSE row[s]
  <2>1. CASE t.row = None
    BY <1>2, <2>1 DEF Acted
  <2>2. CASE t.row # None
    <3>1. Acted(row, t, status) = [row EXCEPT ![t.row] = [row[t.row] EXCEPT !.status = status]]
      BY <1>3, <2>2 DEF Acted
    <3>2. [row[t.row] EXCEPT !.status = status] \in Row
      BY <1>2, <1>3, <2>2 DEF Row, RowStatuses
    <3> QED  BY <1>2, <1>3, <2>2, <3>1, <3>2
  <2> QED  BY <2>1, <2>2
<1>5. \A r \in Row, status \in {"expired", "revoked"} :
        LET q == [r EXCEPT !.status = status] IN
        /\ q.status = status /\ q.account = r.account /\ q.server = r.server
        /\ q.name = r.name
  BY DEF Row
<1>6. CASE Stores(t)
  <2>1. row' = Added(IF t.op = "issue" THEN row ELSE Acted(row, t, "expired"), t)
    BY <1>2, <1>6 DEF RowsAfter, Stores
  <2> DEFINE rows == IF t.op = "issue" THEN row ELSE Acted(row, t, "expired")
             added == [status |-> "issued", account |-> t.account, server |-> t.server,
                       name |-> t.name, dept |-> t.dept, conf |-> None]
  <2>2. /\ rows \in [Serials -> Row]
        /\ rows[s] = IF t.row # None /\ s = t.row
                     THEN [row[s] EXCEPT !.status = "expired"] ELSE row[s]
    BY <1>2, <1>3, <1>4
  <2>3. row' = [rows EXCEPT ![t.new] = added]
    BY <2>1 DEF Added
  <2>4. /\ added.status = "issued" /\ added.account = t.account /\ added.server = t.server
        /\ added.name = t.name
    OBVIOUS
  <2> HIDE DEF rows, added
  <2>5. row'[s] = IF s = t.new THEN added ELSE rows[s]
    BY <2>2, <2>3
  <2> QED  BY <1>2, <1>5, <1>6, <2>2, <2>4, <2>5 DEF t
<1>7. CASE ~ Stores(t)
  <2>1. row' = Forgotten(Acted(row, t, "revoked"), t.paths)
    BY <1>2, <1>3, <1>7 DEF RowsAfter, Stores
  <2> DEFINE r == Acted(row, t, "revoked")[s]
  <2>2. /\ r \in Row
        /\ r = IF t.row # None /\ s = t.row THEN [row[s] EXCEPT !.status = "revoked"] ELSE row[s]
    BY <1>4
  <2>3. row'[s] = IF s \in t.paths THEN [r EXCEPT !.dept = None, !.conf = None] ELSE r
    BY <2>1 DEF Forgotten
  <2> HIDE DEF r
  <2>4. /\ row'[s].status = r.status /\ row'[s].account = r.account
        /\ row'[s].server = r.server /\ row'[s].name = r.name
    BY <2>2, <2>3 DEF Row
  <2> QED  BY <1>2, <1>5, <1>7, <2>2, <2>4 DEF t
<1> QED  BY <1>6, <1>7

LEMMA OrderlyCommit ==
  ASSUME Inv, Orderly, OrderlyInv, NEW w \in Workers, Commit(w)
  PROVE  OrderlyInv'
<1> DEFINE t == txn[w]
<1>1. /\ t \in Handler /\ t.step = "commit" /\ faults = 0
      /\ Doing(w) /\ FilesKnown(w) /\ IssuedCurrent(w)
      /\ RowsSigned /\ (Stores(t) => row[t.new].status = NotStored)
  BY TypesOfInv DEF Inv, OrderlyInv, Commit
<1>2. txn'[w] = Idle
  BY DEF Commit, Inv, TypeOK
<1>3. /\ Idle.step = "idle" /\ Idle.op = "none"
      /\ ~ HasSigned(Idle) /\ ~ HasReplaced(Idle) /\ ~ Stores(Idle)
  BY DEF Idle, HasSigned, HasReplaced, Stores
<1> HIDE DEF Idle
<1>4. UNCHANGED <<scope, signed, file, revoked, crl, faults>>
  BY DEF Commit, authority, directories
<1>5. /\ Serials' = Serials /\ Servers' = Servers /\ Names' = Names
  BY <1>4, SetsStay
<1>6. /\ HasSigned(t) <=> Stores(t)
      /\ HasReplaced(t) <=> t.row # None /\ t.op # "issue"
      /\ t.op \in {"issue", "renew", "revoke", "account"}
  BY <1>1 DEF HasSigned, HasReplaced, Stores, Doing
<1>7. Stores(t) => /\ t.new \in Serials /\ t.new \in DOMAIN signed
                   /\ signed[t.new].server = t.server /\ file[t.server][t.name] = t.new
                   /\ row[t.new].status = NotStored
  BY <1>1, <1>6 DEF Doing, Stores
<1>8. t.row # None =>
        /\ t.row \in Serials /\ row[t.row].status = "issued" /\ t.op # "issue"
        /\ row[t.row].server = t.server /\ row[t.row].name = t.name
        /\ ~ Stores(t) => file[t.server][t.name] = None /\ t.row \in crl
  BY <1>1, <1>6 DEF Doing, Stores
<1>9. \A s \in Serials :
        IF Stores(t) /\ s = t.new
        THEN /\ row'[s].status = "issued" /\ row'[s].account = t.account
             /\ row'[s].server = t.server /\ row'[s].name = t.name
        ELSE /\ row'[s].account = row[s].account
             /\ row'[s].server = row[s].server /\ row'[s].name = row[s].name
             /\ ~ (t.row # None /\ s = t.row) => row'[s].status = row[s].status
             /\ t.row # None /\ s = t.row =>
                  row'[s].status = IF Stores(t) THEN "expired" ELSE "revoked"
  BY OrderlyRows
<1>10. \A s \in Serials : s # None
  BY TypesOfInv DEF Serials, None
<1> HIDE DEF t
<1>11. \A s \in Serials : row'[s].status # NotStored =>
         /\ s \in DOMAIN signed /\ signed[s].server = row'[s].server
         /\ row'[s].status = "revoked" => s \in crl
  <2> SUFFICES ASSUME NEW s \in Serials, row'[s].status # NotStored
               PROVE  /\ s \in DOMAIN signed /\ signed[s].server = row'[s].server
                      /\ row'[s].status = "revoked" => s \in crl
    OBVIOUS
  <2>1. CASE Stores(t) /\ s = t.new
    BY <1>7, <1>9, <2>1
  <2>2. CASE ~ (Stores(t) /\ s = t.new) /\ t.row # None /\ s = t.row
    BY <1>1, <1>8, <1>9, <2>2 DEF RowsSigned, Stored, NotStored
  <2>3. CASE ~ (Stores(t) /\ s = t.new) /\ ~ (t.row # None /\ s = t.row)
    BY <1>1, <1>9, <2>3 DEF RowsSigned, Stored
  <2> QED  BY <2>1, <2>2, <2>3
<1>12. RowsSigned'
  BY <1>4, <1>5, <1>11 DEF RowsSigned, Stored
<1>13. Doing(w)'
  BY <1>2, <1>3 DEF Doing
<1>14. FilesKnown(w)'
  <2> SUFFICES ASSUME NEW server \in Servers, NEW n \in Names, NEW s, s = file[server][n],
                      s # None
               PROVE  /\ s \in Serials
                      /\ row'[s].status = "issued" /\ row'[s].server = server
                      /\ row'[s].name = n
    BY <1>4, <1>5 DEF FilesKnown
  <2>1. /\ s \in Serials
        /\ \/ row[s].status = "issued" /\ row[s].server = server /\ row[s].name = n
           \/ /\ Stores(t) /\ t.new = s /\ row[s].status = NotStored
              /\ t.server = server /\ t.name = n
    BY <1>1, <1>6 DEF FilesKnown, t
  <2>2. CASE Stores(t) /\ t.new = s
    BY <1>7, <1>9, <2>1, <2>2 DEF NotStored
  <2>3. CASE ~ (Stores(t) /\ t.new = s)
    <3>1. ~ (t.row # None /\ s = t.row)
      BY <1>7, <1>8, <2>1, <2>3
    <3> QED  BY <1>9, <2>1, <2>3, <3>1
  <2> QED  BY <2>2, <2>3
<1>15. IssuedCurrent(w)'
  <2> SUFFICES ASSUME NEW s \in Serials, row'[s].status = "issued"
               PROVE  file[row'[s].server][row'[s].name] = s
    BY <1>4, <1>5 DEF IssuedCurrent, Current
  <2>1. CASE Stores(t) /\ t.new = s
    BY <1>7, <1>9, <2>1
  <2>2. CASE ~ (Stores(t) /\ t.new = s)
    <3>1. ~ (t.row # None /\ s = t.row) /\ row[s].status = "issued"
      BY <1>9, <2>2
    <3> QED  BY <1>1, <1>6, <1>9, <2>2, <3>1 DEF IssuedCurrent, Current, t
  <2> QED  BY <2>1, <2>2
<1> QED  BY <1>1, <1>4, <1>12, <1>13, <1>14, <1>15, OneWorker, OrderlyParts

LEMMA OrderlyStep ==
  ASSUME Inv, Orderly, OrderlyInv, [Next]_vars
  PROVE  OrderlyInv'
<1>1. CASE UNCHANGED vars
  BY <1>1, OrderlyStays DEF vars, database
<1>2. ASSUME NEW a \in Accounts,
             \/ \E server \in Servers, n \in Names : EnableAccount(a, server, n)
             \/ DisableAccount(a)
             \/ \E server \in Servers : AssignAccountServer(a, server)
             \/ \E d \in Departments : ChangeDepartment(a, d)
      PROVE  OrderlyInv'
  BY <1>2, OrderlyStays DEF EnableAccount, DisableAccount, AssignAccountServer, ChangeDepartment
<1>3. ASSUME NEW server, DeleteServer(server)
      PROVE  OrderlyInv'
  BY <1>3, OrderlyStays DEF DeleteServer
<1>4. ASSUME NEW s \in Serials, DisableCertificateByThreshold(s)
      PROVE  Workers = {}
  <2> SUFFICES ASSUME NEW w \in Workers  PROVE FALSE
    OBVIOUS
  <2> QED  BY <1>4, OneWorker DEF DisableCertificateByThreshold
<1>5. Workers # {}
  BY FS_EmptySet DEF Orderly
<1>6. ASSUME NEW w \in Workers, NEW a \in Accounts, GenerateConfig(w, a)
      PROVE  FALSE
  BY <1>6, OneWorker DEF GenerateConfig
<1>7. ASSUME NEW w \in Workers,
             Sign(w) \/ Renew(w) \/ Revoke(w) \/ GenCrl(w) \/ Fail(w)
               \/ Archive(w) \/ DeleteFiles(w) \/ Commit(w) \/ Refuse(w)
      PROVE  OrderlyInv'
  <2>1. CASE Renew(w)
    BY <2>1, OrderlySignNew DEF Renew
  <2> QED  BY <1>7, <2>1, OrderlySign, OrderlyRevoke, OrderlyGenCrl, OrderlyNeverFails,
              OrderlyArchive, OrderlyDeleteFiles, OrderlyCommit, OrderlyRefuse
<1> QED  BY <1>1, <1>2, <1>3, <1>4, <1>5, <1>6, <1>7, OrderlyIssueBegins,
            OrderlyAccountBegins, OrderlyRevokeBegins DEF Next

LEMMA OrderlyInit == Init => OrderlyInv
<1> SUFFICES ASSUME Init  PROVE OrderlyInv
  OBVIOUS
<1>1. /\ NoRow.status = NotStored /\ Idle.step = "idle" /\ Idle.op = "none"
      /\ NotStored \notin {"issued", "revoked"}
  BY DEF NoRow, Idle, NotStored
<1>2. \A s \in Serials : row[s] = NoRow
  BY DEF Init
<1>3. \A w \in Workers : txn[w] = Idle
  BY DEF Init
<1>4. /\ \A server \in Servers, n \in Names : file[server][n] = None
      /\ faults = 0
  BY DEF Init
<1> HIDE DEF NoRow, Idle, NotStored
<1>5. RowsSigned
  BY <1>1, <1>2 DEF RowsSigned, Stored
<1>6. ASSUME NEW w \in Workers
      PROVE  Doing(w) /\ FilesKnown(w) /\ IssuedCurrent(w)
  BY <1>1, <1>2, <1>3, <1>4
     DEF Doing, FilesKnown, IssuedCurrent, Stores
<1> QED  BY <1>4, <1>5, <1>6 DEF OrderlyInv

\* What orderly requests keep, from the first state on.
LEMMA OrderlyInvariant == Spec => [](Inv /\ (Orderly => OrderlyInv))
<1>1. Init => Inv /\ (Orderly => OrderlyInv)
  BY InitInv, OrderlyInit
<1>2. Inv /\ (Orderly => OrderlyInv) /\ [Next]_vars => (Inv /\ (Orderly => OrderlyInv))'
  <2> SUFFICES ASSUME Inv, Orderly => OrderlyInv, [Next]_vars
               PROVE  Inv' /\ (Orderly' => OrderlyInv')
    OBVIOUS
  <2>1. Inv'
    BY StepInv
  <2>2. UNCHANGED scope
    BY DEF Next, vars, authority, database, EnableAccount, DisableAccount, AssignAccountServer,
           ChangeDepartment, IssueCertificate, RevokeAccount, GenerateConfig, DeleteServer,
           DisableCertificateByThreshold, RevokeCertificate, RenewCertificate, Begin, Sign,
           SignNew, Renew, Revoke, GenCrl, Fail, Archive, DeleteFiles, Commit, Refuse
  <2>3. Orderly' => Orderly
    BY <2>2 DEF Orderly, Workers, MaxFaults, Operators
  <2> QED  BY <2>1, <2>3, OrderlyStep
<1> QED  BY <1>1, <1>2, PTL DEF Spec

\* Between orderly requests the rows and the authorities agree: the certificate on file under
\* a name is the one its row calls issued, and a certificate whose row is revoked is on its
\* server's revocation list (issue_certificate, renew_certificate, revoke_certificate,
\* revoke_account).
THEOREM DatabaseAndAuthoritiesAgree == Spec => []DatabaseAgrees
<1>1. Inv /\ (Orderly => OrderlyInv) => DatabaseAgrees
  <2> SUFFICES ASSUME Inv, Orderly, OrderlyInv, Quiet, NEW s \in Serials
               PROVE  /\ row[s].status = "issued" <=>
                           (s \in DOMAIN signed /\ row[s].status # NotStored /\ Current(s))
                      /\ row[s].status = "revoked" => s \in crl
    BY DEF DatabaseAgrees
  <2>1. PICK w : Workers = {w} /\ w \in Workers
    <3>1. Workers # {}
      BY FS_EmptySet DEF Orderly
    <3> QED  BY <3>1, OneWorker
  <2>2. ~ HasSigned(txn[w]) /\ ~ HasReplaced(txn[w])
    BY <2>1 DEF Quiet, HasSigned, HasReplaced
  <2>3. RowsSigned /\ FilesKnown(w) /\ IssuedCurrent(w)
    BY <2>1 DEF OrderlyInv
  <2>4. row[s].status = "issued" => s \in DOMAIN signed /\ Current(s)
    BY <2>2, <2>3 DEF RowsSigned, IssuedCurrent, Stored, NotStored
  <2>5. ASSUME row[s].status # NotStored, Current(s)
        PROVE  row[s].status = "issued"
    <3>1. row[s].server \in Servers /\ row[s].name \in Names /\ s # None
      BY <2>5, TypesOfInv DEF Inv, Stored, Named, Serials, None
    <3> QED  BY <2>2, <2>3, <2>5, <3>1 DEF FilesKnown, Current
  <2>6. row[s].status = "revoked" => s \in crl
    BY <2>3 DEF RowsSigned, Stored, NotStored
  <2> QED  BY <2>4, <2>5, <2>6 DEF NotStored
<1> QED  BY <1>1, OrderlyInvariant, PTL
-----------------------------------------------------------------------------
(* Keys *)

LEMMA Hands ==
  /\ \A t : t.step # "commit" \/ t.op \notin Copying => InHand(t) = {}
  /\ \A t : \A d \in InHand(t) :
       d = <<t.account, t.server, t.dept>> /\ t.op \in Copying /\ t.step = "commit"
  /\ \A t : t.step = "commit" /\ t.op \in Copying => <<t.account, t.server, t.dept>> \in InHand(t)
  /\ InHand(Idle) = {}
  BY DEF InHand, Directory, Copying, Idle

LEMMA FitGoesOn ==
  ASSUME NEW t, NEW u, Fit(t), Keeps(t, u), HasSigned(u) => u.new \in Serials,
         u.step = "archive" => t.op \in Copying,
         t.op \in Copying => u.step \in {"archive", "commit"}
  PROVE  Fit(u)
  BY DEF Fit, Keeps

LEMMA IdleFits == Fit(Idle) /\ \A d : Clears(Idle, d)
  BY DEF Fit, Clears, Idle, Copying, HasSigned, Stores

\* One handler moves and no row changes: what it copied it still has, or is lost.
LEMMA KeysMove ==
  ASSUME Inv, KeysInv, NEW w \in Workers, NEW u, txn' = [txn EXCEPT ![w] = u],
         UNCHANGED <<scope, row>>, Fit(u),
         \A server \in Servers, n \in Names :
           file'[server][n] # None => file'[server][n] \in Serials,
         \A d \in archive' : d \in archive \/ d \in InHand(u),
         \A d \in archive' : d \in lost => d \in lost',
         \A d \in archive' : d \in InHand(txn[w]) => d \in lost' \/ d \in InHand(u),
         \A d \in archive' : d \in archive => Clears(u, d)
  PROVE  KeysInv'
<1>1. \A v \in Workers : txn'[v] = IF v = w THEN u ELSE txn[v]
  BY DEF Inv, TypeOK
<1>2. Workers' = Workers /\ Serials' = Serials /\ Servers' = Servers /\ Names' = Names
  BY SetsStay
<1>3. Stored' = Stored /\ \A a : RowsOf(a)' = RowsOf(a)
  BY <1>2 DEF Stored, RowsOf
<1>5. \A v \in Workers' : Fit(txn[v])'
  <2>1. \A v \in Workers : Fit(txn'[v])
    BY <1>1 DEF KeysInv
  <2> QED  BY <1>2, <1>3, <2>1 DEF Fit, HasSigned, Stores
<1>6. \A d \in archive' : Spared(d) \/ d \in InHand(u) => Spared(d)'
  <2> SUFFICES ASSUME NEW d \in archive', Spared(d) \/ d \in InHand(u)
               PROVE  d \in lost' \/ \E v \in Workers : d \in InHand(txn'[v])
    BY <1>2 DEF Spared, InHand, Directory
  <2>1. CASE d \in InHand(u)
    BY <1>1, <2>1
  <2>2. CASE d \in lost
    BY <2>2
  <2>3. ASSUME NEW v \in Workers, d \in InHand(txn[v])
        PROVE  d \in lost' \/ \E x \in Workers : d \in InHand(txn'[x])
    BY <1>1, <2>1, <2>3
  <2> QED  BY <2>1, <2>2, <2>3 DEF Spared
<1>7. \A d \in archive' : Kept(d)'
  <2> SUFFICES ASSUME NEW d \in archive'
               PROVE  d[3] # None /\ (Spared(d)' \/ \E s \in Stored : Records(row[s], d))
    BY <1>3 DEF Kept, Records
  <2>1. CASE d \in archive
    BY <1>6, <2>1 DEF KeysInv, Kept
  <2>2. CASE d \in InHand(u)
    BY <1>6, <2>2, Hands DEF Fit
  <2> QED  BY <2>1, <2>2
<1>8. ASSUME NEW v \in Workers, NEW d \in archive'
      PROVE  txn'[v].op = "account" /\ d[1] = txn'[v].account =>
               Spared(d)' \/ (txn'[v].step # "commit" /\ d \in txn'[v].dirs)
  <2>1. CASE d \in InHand(u)
    BY <1>6, <2>1
  <2>2. CASE d \in archive
    <3>1. Clears(txn'[v], d)
      BY <1>1, <2>2 DEF KeysInv
    <3> QED  BY <1>6, <3>1 DEF Clears
  <2> QED  BY <2>1, <2>2
<1>9. \A v \in Workers' : \A d \in archive' : Clears(txn[v], d)'
  BY <1>2, <1>8 DEF Clears
<1> QED  BY <1>2, <1>5, <1>7, <1>9 DEF KeysInv

\* Rows keep what they record, and nothing else of it changes.
LEMMA KeysTables ==
  ASSUME Inv, KeysInv, UNCHANGED <<scope, file, directories, txn>>, Stored \subseteq Stored',
         \A s \in Stored : /\ row'[s].account = row[s].account /\ row'[s].server = row[s].server
                          /\ row'[s].dept = row[s].dept /\ row'[s].conf = row[s].conf
  PROVE  KeysInv'
<1>1. Workers' = Workers /\ Serials' = Serials /\ Servers' = Servers /\ Names' = Names
  BY SetsStay
<1>2. archive' = archive /\ lost' = lost /\ txn' = txn /\ file' = file
  BY DEF directories
<1>3. \A a : RowsOf(a) \subseteq {s \in Stored' : row'[s].account = a}
  BY DEF RowsOf
<1>4. \A w \in Workers' : Fit(txn[w])'
  <2>1. \A w \in Workers : txn[w].op = "config" => txn[w].row \in Stored
    BY DEF KeysInv, Fit, RowsOf
  <2> QED  BY <1>1, <1>2, <1>3, <2>1 DEF KeysInv, Fit, RowsOf, HasSigned, Stores
<1>5. \A d : Spared(d)' <=> Spared(d)
  BY <1>1, <1>2 DEF Spared, InHand, Directory
<1>6. \A d \in archive' : Kept(d)'
  BY <1>2, <1>5 DEF KeysInv, Kept, Records
<1>7. \A w \in Workers' : \A d \in archive' : Clears(txn[w], d)'
  BY <1>1, <1>2, <1>5 DEF KeysInv, Clears
<1> QED  BY <1>1, <1>2, <1>4, <1>6, <1>7 DEF KeysInv

\* A handler begins, and one that revokes an account with the directories of its rows.
LEMMA KeysBegin ==
  ASSUME Inv, KeysInv, NEW w \in Workers, NEW t, Begin(w, t), Fit(t), t.step # "commit",
         t.op = "account" => AccountDirs(t.account) \subseteq t.dirs
  PROVE  KeysInv'
<1>1. /\ txn' = [txn EXCEPT ![w] = t] /\ txn[w].step = "idle"
      /\ UNCHANGED <<scope, row, file, archive, lost>>
  BY DEF Begin, database, authority, directories
<1>2. InHand(txn[w]) = {}
  BY <1>1, Hands
<1>3. ASSUME NEW d \in archive, t.op = "account", d[1] = t.account, ~ Spared(d)
      PROVE  d \in t.dirs
  <2>1. PICK s \in Stored : Records(row[s], d)
    BY <1>3 DEF KeysInv, Kept
  <2>2. d[3] # None
    BY DEF KeysInv, Kept
  <2>3. row[s].account = t.account /\ s \in RowsOf(t.account)
    BY <1>3, <2>1 DEF Records, RowsOf
  <2>4. d \in AccountDirs(t.account)
    BY <2>1, <2>2, <2>3 DEF Records, AccountDirs
  <2> QED  BY <1>3, <2>4
<1>4. \A d \in archive : Clears(t, d)
  BY <1>3 DEF Clears
<1> QED  BY <1>1, <1>2, <1>4, KeysMove DEF KeysInv

LEMMA KeysIssueBegins ==
  ASSUME Inv, KeysInv, NEW w \in Workers, NEW a \in Accounts, IssueCertificate(w, a)
  PROVE  KeysInv'
<1> DEFINE t == [Idle EXCEPT !.op = "issue", !.step = "sign", !.account = a,
                   !.server = account[a].server, !.name = account[a].name,
                   !.dept = department[a]]
<1>1. t.op = "issue" /\ t.step = "sign" /\ t.dept = department[a] /\ t.paths = {}
  BY DEF Idle
<1>2. department[a] # None
  BY TypesOfInv, ScopesAssumption DEF Inv, TypeOK, Departments, None
<1>3. Begin(w, t)
  BY DEF IssueCertificate
<1> HIDE DEF t
<1>4. Fit(t)
  BY <1>1, <1>2 DEF Fit, HasSigned
<1> QED  BY <1>1, <1>3, <1>4, KeysBegin

LEMMA KeysConfigBegins ==
  ASSUME Inv, KeysInv, NEW w \in Workers, NEW a \in Accounts, GenerateConfig(w, a)
  PROVE  KeysInv'
<1>1. PICK s \in IssuedOn(a, account[a].server) :
        Begin(w, [Idle EXCEPT !.op = "config", !.step = "archive", !.account = a,
                    !.server = account[a].server, !.dept = department[a], !.row = s])
  BY DEF GenerateConfig
<1> DEFINE t == [Idle EXCEPT !.op = "config", !.step = "archive", !.account = a,
                   !.server = account[a].server, !.dept = department[a], !.row = s]
<1>2. /\ t.op = "config" /\ t.step = "archive" /\ t.dept = department[a] /\ t.paths = {}
      /\ t.row = s /\ t.account = a /\ t.server = account[a].server
  BY DEF Idle
<1>3. department[a] # None
  BY TypesOfInv, ScopesAssumption DEF Inv, TypeOK, Departments, None
<1> HIDE DEF t
<1>4. Fit(t)
  BY <1>1, <1>2, <1>3 DEF Fit, HasSigned, Stores, Copying, IssuedOn
<1> QED  BY <1>1, <1>2, <1>4, KeysBegin DEF t

LEMMA KeysOnRowBegins ==
  ASSUME Inv, KeysInv, NEW w \in Workers, NEW s \in Serials,
         RevokeCertificate(w, s) \/ RenewCertificate(w, s)
  PROVE  KeysInv'
<1>1. PICK op \in {"revoke", "renew"} : Begin(w, OnRow(op, op, s))
  BY DEF RevokeCertificate, RenewCertificate
<1> DEFINE t == OnRow(op, op, s)
<1>2. t.op = op /\ t.step = op /\ t.dept = department[row[s].account] /\ t.paths = {}
  BY DEF OnRow, Idle
<1>3. s \in Stored
  BY DEF RevokeCertificate, RenewCertificate, MayActOn, Stored, NotStored
<1>4. row[s].account \in Accounts
  BY <1>3, TypesOfInv DEF Inv
<1>5. department[row[s].account] # None
  BY <1>4, TypesOfInv, ScopesAssumption DEF Inv, TypeOK, Departments, None
<1> HIDE DEF t
<1>6. Fit(t)
  BY <1>2, <1>5 DEF Fit, HasSigned, Copying
<1> QED  BY <1>1, <1>2, <1>6, KeysBegin DEF t

LEMMA KeysAccountBegins ==
  ASSUME Inv, KeysInv, NEW w \in Workers, NEW a \in Accounts, RevokeAccount(w, a)
  PROVE  KeysInv'
<1> DEFINE with(t) == [t EXCEPT !.account = a, !.dirs = AccountDirs(a), !.paths = RowsOf(a)]
           none == [Idle EXCEPT !.op = "account", !.step = "delete"]
<1>1. ASSUME NEW t, Begin(w, with(t)), t.op = "account", t.step \in {"delete", "revoke"},
             DOMAIN t = DOMAIN Idle
      PROVE  KeysInv'
  <2>1. /\ with(t).op = "account" /\ with(t).step \in {"delete", "revoke"}
        /\ with(t).account = a /\ with(t).dirs = AccountDirs(a) /\ with(t).paths = RowsOf(a)
    BY <1>1 DEF Idle
  <2> HIDE DEF with
  <2>2. Fit(with(t))
    BY <2>1 DEF Fit, HasSigned, Stores, Copying
  <2> QED  BY <1>1, <2>1, <2>2, KeysBegin
<1>2. none.op = "account" /\ none.step = "delete" /\ DOMAIN none = DOMAIN Idle
  BY DEF Idle
<1>3. \A s : /\ OnRow("account", "revoke", s).op = "account"
             /\ OnRow("account", "revoke", s).step = "revoke"
             /\ DOMAIN OnRow("account", "revoke", s) = DOMAIN Idle
  BY DEF OnRow, Idle
<1>4. \/ Begin(w, with(none))
      \/ \E s : Begin(w, with(OnRow("account", "revoke", s)))
  BY DEF RevokeAccount
<1> HIDE DEF with, none
<1> QED  BY <1>1, <1>2, <1>3, <1>4

\* A handler goes on to a step that copies and deletes nothing.
LEMMA KeysAnswered ==
  ASSUME Inv, KeysInv, NEW w \in Workers, NEW u, Answered(w, u), Fit(u),
         UNCHANGED <<scope, row, directories>>, txn[w].step # "commit",
         u.op = txn[w].op, u.account = txn[w].account, u.dirs = txn[w].dirs,
         u.op = "account" => u.step # "commit",
         \A server \in Servers, n \in Names :
           file'[server][n] # None => file'[server][n] \in Serials
  PROVE  KeysInv'
<1>1. archive' = archive /\ lost' = lost /\ InHand(txn[w]) = {}
  BY Hands DEF directories
<1>2. \A d \in archive : Clears(u, d)
  BY DEF KeysInv, Clears
<1>3. CASE txn' = [txn EXCEPT ![w] = u]
  BY <1>1, <1>2, <1>3, KeysMove
<1>4. CASE Lose(w)
  BY <1>1, <1>4, IdleFits, KeysMove DEF Lose
<1> QED  BY <1>3, <1>4 DEF Answered

LEMMA KeysSignNew ==
  ASSUME Inv, KeysInv, NEW w \in Workers, SignNew(w), txn[w].step \in {"sign", "renew"}
  PROVE  KeysInv'
<1> DEFINE t == txn[w]
           new == Len(signed) + 1
           u == [t EXCEPT !.step = "archive", !.new = new]
<1>1. /\ t \in Handler /\ Began(t, Known, Stored) /\ Fit(t)
  BY TypesOfInv DEF Inv, KeysInv
<1>2. /\ Answered(w, u) /\ UNCHANGED <<scope, row, directories>>
      /\ file' = [file EXCEPT ![t.server][t.name] = new] /\ new \in Serials
  BY ScopesAssumption DEF SignNew, database, Serials, MaxSerials, Inv, TypeOK
<1>3. t.op \in {"issue", "renew"} /\ t.server \in Servers /\ t.name \in Names
  BY <1>1 DEF Began, Named
<1>4. \A server \in Servers, n \in Names : file'[server][n] # None => file'[server][n] \in Serials
  BY <1>2, <1>3 DEF Inv, TypeOK, KeysInv
<1> HIDE DEF new
<1>5. Keeps(t, u) /\ u.step = "archive" /\ u.new = new
  BY <1>1 DEF Handler, Keeps
<1> HIDE DEF u
<1>6. Fit(u)
  BY <1>1, <1>2, <1>3, <1>5, FitGoesOn DEF Copying
<1> QED  BY <1>1, <1>2, <1>3, <1>4, <1>5, <1>6, KeysAnswered DEF Keeps, u

LEMMA KeysSign ==
  ASSUME Inv, KeysInv, NEW w \in Workers, Sign(w)
  PROVE  KeysInv'
<1> DEFINE t == txn[w]
           serial == file[t.server][t.name]
           u == [t EXCEPT !.step = "archive", !.new = serial]
<1>1. /\ t \in Handler /\ Began(t, Known, Stored) /\ Fit(t) /\ t.step = "sign"
  BY TypesOfInv DEF Inv, KeysInv, Sign
<1>2. CASE SignNew(w)
  BY <1>1, <1>2, KeysSignNew
<1>3. CASE /\ serial # None /\ txn' = [txn EXCEPT ![w].step = "archive", ![w].new = serial]
           /\ UNCHANGED <<database, authority, directories, faults>>
  <2>1. t.op = "issue" /\ t.server \in Servers /\ t.name \in Names
    BY <1>1 DEF Began, Named
  <2>2. serial \in Serials
    BY <1>3, <2>1 DEF KeysInv
  <2>3. /\ txn' = [txn EXCEPT ![w] = u]
        /\ UNCHANGED <<scope, row, directories, file>>
    BY <1>3 DEF Inv, TypeOK, database, authority
  <2> HIDE DEF serial
  <2>4. Keeps(t, u) /\ u.step = "archive" /\ u.new = serial
    BY <1>1 DEF Handler, Keeps
  <2> HIDE DEF u
  <2>5. Fit(u)
    BY <1>1, <2>1, <2>2, <2>4, FitGoesOn DEF Copying
  <2>6. Answered(w, u)
    BY <1>3, <2>3 DEF Answered
  <2> QED  BY <1>1, <2>1, <2>3, <2>4, <2>5, <2>6, KeysAnswered DEF Keeps, KeysInv
<1> QED  BY <1>2, <1>3 DEF Sign

LEMMA KeysRevoke ==
  ASSUME Inv, KeysInv, NEW w \in Workers, Revoke(w) \/ GenCrl(w)
  PROVE  KeysInv'
<1> DEFINE t == txn[w]
<1>1. /\ t \in Handler /\ Began(t, Known, Stored) /\ Fit(t) /\ t.step \in {"revoke", "crl"}
  BY TypesOfInv DEF Inv, KeysInv, Revoke, GenCrl
<1>2. PICK step \in {"crl", "delete", "commit"} :
        Answered(w, [t EXCEPT !.step = step]) /\ (t.op = "account" => step # "commit")
  BY DEF Revoke, GenCrl
<1>3. /\ UNCHANGED <<scope, row, directories>>
      /\ file' = file \/ file' = [file EXCEPT ![t.server][t.name] = None]
  BY DEF Revoke, GenCrl, database
<1>4. \A server \in Servers, n \in Names : file'[server][n] # None => file'[server][n] \in Serials
  <2>1. CASE file' = file
    BY <2>1 DEF KeysInv
  <2>2. CASE file' = [file EXCEPT ![t.server][t.name] = None]
    BY <2>2 DEF KeysInv, Inv, TypeOK
  <2> QED  BY <1>3, <2>1, <2>2
<1> DEFINE u == [t EXCEPT !.step = step]
<1>5. Keeps(t, u) /\ u.step = step /\ u.new = t.new
  BY <1>1 DEF Handler, Keeps
<1> HIDE DEF u
<1>6. Fit(u)
  <2>1. t.op \notin Copying
    BY <1>1 DEF Fit
  <2>2. ~ HasSigned(u) /\ u.step # "archive"
    BY <1>5, <2>1 DEF HasSigned, Stores, Keeps, Copying
  <2> QED  BY <1>1, <1>5, <2>1, <2>2, FitGoesOn
<1> QED  BY <1>1, <1>2, <1>3, <1>4, <1>5, <1>6, KeysAnswered DEF Keeps, u

\* A key that is copied is in the handler's hand.
LEMMA KeysArchive ==
  ASSUME Inv, KeysInv, NEW w \in Workers, Archive(w)
  PROVE  KeysInv'
<1> DEFINE t == txn[w]
           u == [t EXCEPT !.step = "commit"]
<1>1. /\ t \in Handler /\ Fit(t) /\ t.step = "archive" /\ t.op \in Copying
  BY TypesOfInv DEF Inv, KeysInv, Archive, Fit
<1>2. Keeps(t, u) /\ u.step = "commit" /\ u.new = t.new
  BY <1>1 DEF Handler, Keeps
<1>3. /\ txn' = [txn EXCEPT ![w] = u] /\ UNCHANGED <<scope, row, file>>
      /\ archive' = archive \cup {<<t.account, t.server, t.dept>>} /\ lost' = lost
  BY DEF Archive, database, authority, Directory, Inv, TypeOK
<1> HIDE DEF u
<1>4. Fit(u)
  <2>1. HasSigned(u) => u.new \in Serials
    BY <1>1, <1>2 DEF Fit, Keeps, HasSigned, Stores
  <2> QED  BY <1>1, <1>2, <2>1, FitGoesOn
<1>5. InHand(t) = {} /\ <<t.account, t.server, t.dept>> \in InHand(u)
  BY <1>1, <1>2, Hands DEF Keeps
<1>6. \A d : Clears(u, d)
  BY <1>1, <1>2 DEF Clears, Keeps, Copying
<1> QED  BY <1>3, <1>4, <1>5, <1>6, KeysMove DEF KeysInv

\* What is deleted, the handler need not answer for; the rest is spared.
LEMMA KeysDeleteFiles ==
  ASSUME Inv, KeysInv, NEW w \in Workers, DeleteFiles(w)
  PROVE  KeysInv'
<1> DEFINE t == txn[w]
           u == [t EXCEPT !.step = "commit"]
<1>1. /\ t \in Handler /\ Fit(t) /\ t.step = "delete" /\ t.op \notin Copying
  BY TypesOfInv DEF Inv, KeysInv, DeleteFiles, Fit
<1>2. Keeps(t, u) /\ u.step = "commit" /\ u.new = t.new
  BY <1>1 DEF Handler, Keeps
<1>3. /\ txn' = [txn EXCEPT ![w] = u] /\ UNCHANGED <<scope, row, file>>
      /\ archive' = archive \ t.dirs /\ lost' = lost \ t.dirs
  BY DEF DeleteFiles, database, authority, Inv, TypeOK
<1> HIDE DEF u
<1>4. Fit(u)
  <2>1. ~ HasSigned(u)
    BY <1>1, <1>2 DEF Keeps, HasSigned, Stores, Copying
  <2> QED  BY <1>1, <1>2, <2>1, FitGoesOn
<1>5. InHand(t) = {}
  BY <1>1, Hands
<1>6. \A d \in archive' : Clears(u, d)
  BY <1>2, <1>3 DEF KeysInv, Clears, Keeps
<1> QED  BY <1>3, <1>4, <1>5, <1>6, KeysMove DEF KeysInv

\* A request that is refused or fails loses what it has in its hand.
LEMMA KeysFail ==
  ASSUME Inv, KeysInv, NEW w \in Workers, Fail(w) \/ Refuse(w)
  PROVE  KeysInv'
<1>1. /\ txn' = [txn EXCEPT ![w] = Idle] /\ UNCHANGED <<scope, row, file, archive>>
      /\ lost' = lost \cup InHand(txn[w])
  BY DEF Fail, Refuse, database, authority
<1> QED  BY <1>1, IdleFits, KeysMove DEF KeysInv

-----------------------------------------------------------------------------
(* Keys and commits *)

\* What a commit makes of a stored row's records.
LEMMA CommitRecords ==
  ASSUME Inv, KeysInv, NEW w \in Workers, Commit(w), NEW s \in Stored
  PROVE  LET t == txn[w] IN
         /\ row'[s].account = row[s].account /\ row'[s].server = row[s].server
         /\ s \notin t.paths => row'[s].dept = row[s].dept
         /\ s \notin t.paths /\ ~ (t.op = "config" /\ s = t.row) => row'[s].conf = row[s].conf
         /\ t.op = "config" /\ s = t.row => row'[s].conf = t.dept
<1> DEFINE t == txn[w]
<1>1. t \in Handler /\ Fit(t) /\ Began(t, Known, Stored) /\ t.step = "commit"
  BY TypesOfInv DEF Inv, KeysInv, Commit
<1>2. row' = RowsAfter(t) /\ (Stores(t) => row[t.new].status = NotStored)
  BY DEF Commit
<1>3. /\ row \in [Serials -> Row] /\ s \in Serials /\ row[s].status # NotStored
      /\ t.op \in Operations
  BY <1>1 DEF Inv, TypeOK, Stored, Began
<1>4. {"expired", "revoked"} \subseteq RowStatuses
  BY DEF RowStatuses
<1> HIDE DEF t
<1>5. \A status \in {"expired", "revoked"} :
        /\ Acted(row, t, status) \in [Serials -> Row]
        /\ Acted(row, t, status)[s].account = row[s].account
        /\ Acted(row, t, status)[s].server = row[s].server
        /\ Acted(row, t, status)[s].dept = row[s].dept
        /\ Acted(row, t, status)[s].conf = row[s].conf
  BY <1>1, <1>3, <1>4, ActedRow
<1>6. CASE Stores(t)
  <2>1. \E rows \in {row, Acted(row, t, "expired")} : row' = Added(rows, t)
    BY <1>2, <1>6 DEF RowsAfter, Stores
  <2>2. PICK rows \in {row, Acted(row, t, "expired")} : row' = Added(rows, t)
    BY <2>1
  <2>3. rows \in [Serials -> Row] /\ rows[s].account = row[s].account
        /\ rows[s].server = row[s].server /\ rows[s].dept = row[s].dept
        /\ rows[s].conf = row[s].conf
    BY <1>3, <1>5
  <2>4. s # t.new
    BY <1>2, <1>3, <1>6
  <2>5. row'[s] = rows[s]
    BY <1>3, <2>2, <2>3, <2>4 DEF Added
  <2> QED  BY <1>6, <2>3, <2>5 DEF Stores, t
<1>7. CASE t.op = "config"
  <2>1. row' = [row EXCEPT ![t.row] = [row[t.row] EXCEPT !.conf = t.dept]]
    BY <1>2, <1>7 DEF RowsAfter
  <2>2. LET r == [row[s] EXCEPT !.conf = t.dept] IN
        /\ r.account = row[s].account /\ r.server = row[s].server /\ r.dept = row[s].dept
        /\ r.conf = t.dept
    BY <1>3 DEF Row
  <2>3. row'[s] = IF s = t.row THEN [row[s] EXCEPT !.conf = t.dept] ELSE row[s]
    BY <1>3, <2>1
  <2> QED  BY <1>7, <2>2, <2>3 DEF t
<1>8. CASE t.op \in {"revoke", "account"}
  <2>1. row' = Forgotten(Acted(row, t, "revoked"), t.paths)
    BY <1>2, <1>8 DEF RowsAfter
  <2> DEFINE rows == Acted(row, t, "revoked")
  <2>2. rows \in [Serials -> Row] /\ rows[s].account = row[s].account
        /\ rows[s].server = row[s].server /\ rows[s].dept = row[s].dept
        /\ rows[s].conf = row[s].conf
    BY <1>5
  <2> HIDE DEF rows
  <2>3. /\ row'[s].account = rows[s].account /\ row'[s].server = rows[s].server
        /\ s \notin t.paths => row'[s].dept = rows[s].dept /\ row'[s].conf = rows[s].conf
    BY <1>3, <2>1, <2>2, ForgottenRow DEF rows
  <2> QED  BY <1>8, <2>2, <2>3 DEF t
<1> QED  BY <1>3, <1>6, <1>7, <1>8 DEF Operations, Stores

\* What a request copied, the row it stores or its certificate's row records.
LEMMA CommitKeeps ==
  ASSUME Inv, KeysInv, NEW w \in Workers, Commit(w), NEW d \in InHand(txn[w])
  PROVE  \E s \in Serials : row'[s].status # NotStored /\ Records(row'[s], d)
<1> DEFINE t == txn[w]
<1>1. /\ t \in Handler /\ Fit(t) /\ Began(t, Known, Stored) /\ t.step = "commit"
      /\ t.op \in Copying /\ d = <<t.account, t.server, t.dept>>
  BY TypesOfInv, Hands DEF Inv, KeysInv, Commit
<1>2. row' = RowsAfter(t)
  BY DEF Commit
<1> HIDE DEF t
<1>3. CASE Stores(t)
  <2>1. t.new \in Serials
    BY <1>1, <1>3 DEF Fit, HasSigned
  <2>2. \E rows \in {row, Acted(row, t, "expired")} : row' = Added(rows, t)
    BY <1>2, <1>3 DEF RowsAfter, Stores
  <2>3. PICK rows \in {row, Acted(row, t, "expired")} : row' = Added(rows, t)
    BY <2>2
  <2>4. rows \in [Serials -> Row]
    BY <1>1, ActedRow DEF Inv, TypeOK, RowStatuses
  <2>5. row'[t.new] = [status |-> "issued", account |-> t.account, server |-> t.server,
                       name |-> t.name, dept |-> t.dept, conf |-> None]
    BY <2>1, <2>3, <2>4 DEF Added
  <2>6. row'[t.new].status # NotStored /\ Records(row'[t.new], d)
    BY <1>1, <2>5 DEF Records, NotStored
  <2> QED  BY <2>1, <2>6
<1>4. CASE t.op = "config"
  <2>1. t.row \in Stored /\ row[t.row].account = t.account /\ row[t.row].server = t.server
    BY <1>1, <1>4 DEF Fit, RowsOf
  <2>2. /\ row'[t.row].account = t.account /\ row'[t.row].server = t.server
        /\ row'[t.row].conf = t.dept
    BY <1>4, <2>1, CommitRecords DEF t
  <2>3. t.row \in Serials /\ row'[t.row].status # NotStored
    BY <2>1, CommitRows DEF Stored
  <2> QED  BY <1>1, <2>2, <2>3 DEF Records
<1> QED  BY <1>1, <1>3, <1>4 DEF Copying, Stores

\* What a row recorded it still records, or is lost: to a later download, or to the account's
\* revocation, which left what was spared.
LEMMA CommitForgets ==
  ASSUME Inv, KeysInv, NEW w \in Workers, Commit(w), NEW d \in archive, NEW s \in Stored,
         Records(row[s], d)
  PROVE  \/ Records(row'[s], d) \/ d \in Overwritten(txn[w])
         \/ txn[w].op = "account" /\ Spared(d)
<1> DEFINE t == txn[w]
<1>1. Fit(t) /\ t.step = "commit" /\ Clears(t, d) /\ d[3] # None
  BY DEF KeysInv, Commit, Kept
<1>2. /\ row'[s].account = row[s].account /\ row'[s].server = row[s].server
      /\ s \notin t.paths => row'[s].dept = row[s].dept
      /\ s \notin t.paths /\ ~ (t.op = "config" /\ s = t.row) => row'[s].conf = row[s].conf
      /\ t.op = "config" /\ s = t.row => row'[s].conf = t.dept
  BY CommitRecords
<1> HIDE DEF t
<1>3. CASE s \in t.paths
  <2>1. t.op = "account" /\ row[s].account = t.account
    BY <1>1, <1>3 DEF Fit, RowsOf
  <2>2. d[1] = t.account
    BY <2>1 DEF Records
  <2> QED  BY <1>1, <2>1, <2>2 DEF Clears, t
<1>4. CASE s \notin t.paths /\ ~ (t.op = "config" /\ s = t.row)
  BY <1>2, <1>4 DEF Records
<1>5. CASE s \notin t.paths /\ t.op = "config" /\ s = t.row
  <2>1. CASE d = <<row[s].account, row[s].server, row[s].dept>>
    BY <1>2, <1>5, <2>1 DEF Records
  <2>2. CASE d = <<row[s].account, row[s].server, row[s].conf>>
    <3>1. row[s].conf # None
      BY <1>1, <2>2
    <3>2. CASE row[s].conf \in {row[s].dept, t.dept}
      BY <1>2, <1>5, <2>2, <3>2 DEF Records
    <3>3. CASE row[s].conf \notin {row[s].dept, t.dept}
      BY <1>5, <2>2, <3>1, <3>3 DEF Overwritten, t
    <3> QED  BY <3>2, <3>3
  <2> QED  BY <2>1, <2>2 DEF Records
<1> QED  BY <1>3, <1>4, <1>5

LEMMA KeysCommit ==
  ASSUME Inv, KeysInv, NEW w \in Workers, Commit(w)
  PROVE  KeysInv'
<1> DEFINE t == txn[w]
           hand == InHand(t)
<1>1. /\ txn' = [txn EXCEPT ![w] = Idle] /\ UNCHANGED <<scope, file, archive>>
      /\ lost' = LostAfter(w)
  BY DEF Commit, authority
<1>2. Workers' = Workers /\ Serials' = Serials /\ Servers' = Servers /\ Names' = Names
  BY <1>1, SetsStay
<1>3. \A v \in Workers : txn'[v] = IF v = w THEN Idle ELSE txn[v]
  BY <1>1 DEF Inv, TypeOK
<1>4. /\ Stored \subseteq {s \in Serials : row'[s].status # NotStored}
      /\ Stored' = {s \in Serials : row'[s].status # NotStored}
      /\ \A s \in Stored : row'[s].account = row[s].account /\ row'[s].server = row[s].server
  BY <1>2, CommitRows, CommitRecords DEF Stored
<1>5. /\ Overwritten(t) \subseteq lost' /\ \A d \in lost \ hand : d \in lost'
      /\ Revoking(w) => \A d \in lost \cup hand : d \in lost'
  BY <1>1 DEF LostAfter
<1> HIDE DEF hand
<1>6. \A v \in Workers' : Fit(txn[v])'
  <2>1. \A v \in Workers : Fit(txn'[v])
    BY <1>3, IdleFits DEF KeysInv
  <2>2. \A v \in Workers : txn'[v].op = "config" => txn'[v].row \in Stored
    BY <2>1 DEF Fit, RowsOf
  <2>3. \A a : RowsOf(a) \subseteq {s \in Stored' : row'[s].account = a}
    BY <1>4 DEF RowsOf
  <2> QED  BY <1>2, <1>4, <2>1, <2>2, <2>3 DEF Fit, RowsOf, HasSigned, Stores
\* Who still has a directory in hand, still spares it.
<1>7. \A d : (\E v \in Workers \ {w} : d \in InHand(txn[v])) => Spared(d)'
  <2> SUFFICES ASSUME NEW d, NEW v \in Workers \ {w}, d \in InHand(txn[v])
               PROVE  \E x \in Workers : d \in InHand(txn'[x])
    BY <1>2 DEF Spared, InHand, Directory
  <2> QED  BY <1>3
<1>8. \A d : d \in lost' => Spared(d)'
  BY DEF Spared
<1>9. \A d \in archive : Kept(d)'
  <2> SUFFICES ASSUME NEW d \in archive
               PROVE  d[3] # None /\ (Spared(d)' \/ \E s \in Stored' : Records(row'[s], d))
    BY DEF Kept, Records
  <2>1. d[3] # None /\ (Spared(d) \/ \E s \in Stored : Records(row[s], d))
    BY DEF KeysInv, Kept
  <2>2. CASE d \in hand
    <3>1. \E s \in Serials : row'[s].status # NotStored /\ Records(row'[s], d)
      BY <2>2, CommitKeeps DEF hand
    <3> QED  BY <1>4, <2>1, <3>1
  <2>3. ASSUME Spared(d), d \notin hand
        PROVE  Spared(d)'
    BY <1>5, <1>7, <1>8, <2>3 DEF Spared, hand
  <2>4. ASSUME NEW s \in Stored, Records(row[s], d), d \notin hand
        PROVE  Spared(d)' \/ \E q \in Stored' : Records(row'[q], d)
    <3>1. \/ Records(row'[s], d) \/ d \in Overwritten(t) \/ Spared(d)
      BY <2>4, CommitForgets
    <3>2. s \in Stored'
      BY <1>4
    <3> QED  BY <1>5, <1>8, <2>3, <2>4, <3>1, <3>2
  <2> QED  BY <2>1, <2>2, <2>3, <2>4
\* A handler that revokes the account meanwhile need not answer for what is committed.
<1>10. ASSUME NEW v \in Workers, NEW d \in archive
       PROVE  txn'[v].op = "account" /\ d[1] = txn'[v].account =>
                Spared(d)' \/ (txn'[v].step # "commit" /\ d \in txn'[v].dirs)
  <2>1. CASE v = w
    BY <1>3, <2>1 DEF Idle
  <2> SUFFICES ASSUME v # w, txn[v].op = "account", d[1] = txn[v].account
               PROVE  Spared(d)' \/ (txn[v].step # "commit" /\ d \in txn[v].dirs)
    BY <1>3, <2>1
  <2>2. Spared(d) \/ (txn[v].step # "commit" /\ d \in txn[v].dirs)
    BY DEF KeysInv, Clears
  <2>3. CASE d \in hand
    <3>1. d[1] = t.account
      BY <2>3, Hands DEF hand
    <3>2. Revoking(w)
      BY <3>1 DEF Revoking
    <3> QED  BY <1>5, <1>8, <2>3, <3>2
  <2>4. CASE d \notin hand
    BY <1>5, <1>7, <1>8, <2>2, <2>4 DEF Spared, hand
  <2> QED  BY <2>3, <2>4
<1>11. \A v \in Workers' : \A d \in archive' : Clears(txn[v], d)'
  BY <1>1, <1>2, <1>10 DEF Clears
<1> QED  BY <1>1, <1>2, <1>6, <1>9, <1>11 DEF KeysInv

LEMMA KeysStep ==
  ASSUME Inv, KeysInv, [Next]_vars
  PROVE  KeysInv'
<1>1. CASE UNCHANGED vars
  <2>1. Stored' = Stored
    BY <1>1, SetsStay DEF vars, database, authority, Stored
  <2> QED  BY <1>1, <2>1, KeysTables DEF vars, database, authority
<1>2. ASSUME NEW a \in Accounts,
             \/ \E server \in Servers, n \in Names : EnableAccount(a, server, n)
             \/ DisableAccount(a)
             \/ \E server \in Servers : AssignAccountServer(a, server)
             \/ \E d \in Departments : ChangeDepartment(a, d)
      PROVE  KeysInv'
  <2>1. UNCHANGED <<scope, file, directories, txn, row>>
    BY <1>2 DEF EnableAccount, DisableAccount, AssignAccountServer, ChangeDepartment, authority
  <2>2. Stored' = Stored
    BY <2>1, SetsStay DEF Stored
  <2> QED  BY <2>1, <2>2, KeysTables
<1>3. ASSUME NEW server \in Servers, DeleteServer(server)
      PROVE  KeysInv'
  <2>1. UNCHANGED <<scope, file, directories, txn, row>>
    BY <1>3 DEF DeleteServer, authority
  <2>2. Stored' = Stored
    BY <2>1, SetsStay DEF Stored
  <2> QED  BY <2>1, <2>2, KeysTables
<1>4. ASSUME NEW s \in Serials, DisableCertificateByThreshold(s)
      PROVE  KeysInv'
  <2>1. /\ UNCHANGED <<scope, file, directories, txn>>
        /\ row' = [row EXCEPT ![s] = [row[s] EXCEPT !.status = "revoked"]]
    BY <1>4 DEF DisableCertificateByThreshold, authority
  <2>2. \A r \in Row : LET q == [r EXCEPT !.status = "revoked"] IN
          /\ q.status = "revoked" /\ q.account = r.account /\ q.server = r.server
          /\ q.dept = r.dept /\ q.conf = r.conf
    BY DEF Row
  <2>3. \A q \in Serials : row[q] \in Row
                          /\ row'[q] = IF q = s THEN [row[q] EXCEPT !.status = "revoked"] ELSE row[q]
    BY <2>1 DEF Inv, TypeOK
  <2>4. Stored \subseteq Stored'
    BY <2>1, <2>2, <2>3, SetsStay DEF Stored, NotStored
  <2>5. \A q \in Stored : /\ row'[q].account = row[q].account /\ row'[q].server = row[q].server
                          /\ row'[q].dept = row[q].dept /\ row'[q].conf = row[q].conf
    BY <2>2, <2>3 DEF Stored
  <2> QED  BY <2>1, <2>4, <2>5, KeysTables
<1>5. ASSUME NEW w \in Workers,
             Sign(w) \/ Renew(w) \/ Revoke(w) \/ GenCrl(w) \/ Fail(w)
               \/ Archive(w) \/ DeleteFiles(w) \/ Commit(w) \/ Refuse(w)
      PROVE  KeysInv'
  <2>1. CASE Renew(w)
    BY <2>1, KeysSignNew DEF Renew
  <2> QED  BY <1>5, <2>1, KeysSign, KeysRevoke, KeysFail, KeysArchive, KeysDeleteFiles, KeysCommit
<1> QED  BY <1>1, <1>2, <1>3, <1>4, <1>5, KeysIssueBegins, KeysAccountBegins, KeysConfigBegins,
            KeysOnRowBegins DEF Next

LEMMA KeysInit == Init => KeysInv
<1> SUFFICES ASSUME Init  PROVE KeysInv
  OBVIOUS
<1>1. /\ archive = {} /\ \A w \in Workers : txn[w] = Idle
      /\ \A server \in Servers, n \in Names : file[server][n] = None
  BY DEF Init
<1> QED  BY <1>1, IdleFits DEF KeysInv

\* When revoke_account commits, every directory that still has a key of the account is one
\* no row names any more, or one of a request that overlaps the revocation: those named
\* after former departments and former servers are gone, whatever was moved, lost or failed.
THEOREM RevokedAccountsKeepNoKeys == Spec => []RevokedHasNoKeys
<1>1. Init => KeysInv
  BY KeysInit
<1>2. Inv /\ KeysInv /\ [Next]_vars => KeysInv'
  BY KeysStep
<1>3. KeysInv => RevokedHasNoKeys
  BY DEF RevokedHasNoKeys, KeysInv, Clears, Spared
<1> QED  BY <1>1, <1>2, <1>3, TypeInvariant, PTL DEF Spec
=============================================================================
