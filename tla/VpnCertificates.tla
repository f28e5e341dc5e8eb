---------------------------- MODULE VpnCertificates ----------------------------
(***************************************************************************)
(* OpenVPN certificates of accounts: the rows of the database, the         *)
(* certificate authority of each server, and the keys archived by the      *)
(* backend (src/backend/app/services/openvpn_service.py).                  *)
(*                                                                         *)
(* A handler that runs Easy-RSA reads the database in one snapshot, runs   *)
(* its commands one by one, and commits.  Nothing undoes a command whose   *)
(* request fails later, and a command that is given up on (a timeout) may  *)
(* still have run.  Handlers without a command are one step.               *)
(*                                                                         *)
(* Left out: expiry dates (any issued row may be the latest one), local or *)
(* remote Easy-RSA (the commands are the same), CA and tls-crypt copies,   *)
(* and changes of a server's code, host or directory.                      *)
(***************************************************************************)
EXTENDS Integers, Sequences, FiniteSets

CONSTANTS
  Accounts,
  Scopes  \* what is considered: records of the fields of scope

Options == {"expired", "threshold", "move", "delete", "config"}
ASSUME ScopesAssumption ==
  \A s \in Scopes :
    /\ IsFiniteSet(s.workers) /\ s.operators \subseteq Options
    /\ s.departments \subseteq Nat \ {0}
    /\ s.maxSerials \in Nat /\ s.maxFaults \in Nat

VARIABLES
  scope,      \* what happens in this behaviour; never changes
  account,    \* openvpn_accounts
  row,        \* openvpn_certificates, by serial number (unique)
  deleted,    \* servers deleted
  department, \* the primary department of the account's user
  signed,     \* what the authorities signed: a serial's server and common name
  file,       \* the serial in pki/issued of each server and name
  revoked,    \* serials the authorities revoked
  crl,        \* serials on the revocation lists
  archive,    \* directories that hold an account's key: <<account, server, department>>
  lost,       \* directories with a key that an account's rows may not name (history)
  txn,        \* where each worker is
  faults

Workers == scope.workers
Servers == scope.servers
Departments == scope.departments
Names == scope.names            \* VPN usernames, the common names of certificates
MaxSerials == scope.maxSerials  \* bound on the certificates the authorities sign
MaxFaults == scope.maxFaults    \* bound on the failed requests
\* What operators and thresholds do besides acting on issued rows: act on expired
\* ones, "threshold", "move", "delete", "config" (download client configurations).
Operators == scope.operators

Serials == 1..MaxSerials
None == 0
NotStored == "none"

database == <<account, row, deleted, department>>
authority == <<scope, signed, file, revoked, crl>>
directories == <<archive, lost>>
vars == <<database, authority, directories, txn, faults>>

\* A certificate's dept is where its key is (cert_path, key_path, request_path), its
\* conf where its configuration is (config_file_path); None: nowhere.
NoRow == [status |-> NotStored, account |-> None, server |-> None, name |-> None,
          dept |-> None, conf |-> None]
Idle == [op |-> "none", step |-> "idle", account |-> None, server |-> None, name |-> None,
         dept |-> None, row |-> None, was |-> NotStored, new |-> None,
         dirs |-> {}, paths |-> {}]

Init ==
  /\ scope \in Scopes
  /\ account = [a \in Accounts |-> [status |-> "none", server |-> None, name |-> None]]
  /\ row = [s \in Serials |-> NoRow]
  /\ deleted = {}
  /\ department \in [Accounts -> Departments]
  /\ signed = <<>>
  /\ file = [s \in Servers |-> [n \in Names |-> None]]
  /\ revoked = {} /\ crl = {}
  /\ archive = {} /\ lost = {}
  /\ txn = [w \in Workers |-> Idle]
  /\ faults = 0

-----------------------------------------------------------------------------
(* Handlers without a command *)

Stored == {s \in Serials : row[s].status # NotStored}
RowsOf(a) == {s \in Stored : row[s].account = a}
IssuedOn(a, server) ==
  {s \in RowsOf(a) : row[s].server = server /\ row[s].status = "issued"}
NameIsFree(n, a) == \A b \in Accounts \ {a} : account[b].name # n

\* resolve_user_server finds any server that is not deleted; a name is kept
\* unless the request gives another.
EnableAccount(a, server, name) ==
  /\ server \notin deleted
  /\ NameIsFree(name, a)
  /\ account' = [account EXCEPT ![a] = [status |-> "enabled", server |-> server, name |-> name]]
  /\ UNCHANGED <<row, deleted, department, authority, directories, txn, faults>>

DisableAccount(a) ==
  /\ account[a].status # "none"
  /\ account' = [account EXCEPT ![a].status = "disabled"]
  /\ UNCHANGED <<row, deleted, department, authority, directories, txn, faults>>

AssignAccountServer(a, server) ==
  /\ "move" \in Operators
  /\ account[a].status # "none"
  /\ server \notin deleted
  /\ account' = [account EXCEPT ![a].server = server]
  /\ UNCHANGED <<row, deleted, department, authority, directories, txn, faults>>

DeleteServer(server) ==
  /\ "delete" \in Operators
  /\ deleted' = deleted \cup {server}
  /\ UNCHANGED <<account, row, department, authority, directories, txn, faults>>

\* The user's departments change (user_service).
ChangeDepartment(a, d) ==
  /\ department' = [department EXCEPT ![a] = d]
  /\ UNCHANGED <<account, row, deleted, authority, directories, txn, faults>>

DisableCertificateByThreshold(s) ==
  /\ "threshold" \in Operators
  /\ row[s].status \notin {NotStored, "revoked"}
  /\ row' = [row EXCEPT ![s].status = "revoked"]
  /\ UNCHANGED <<account, deleted, department, authority, directories, txn, faults>>

-----------------------------------------------------------------------------
(* The first step of a handler that runs commands: its checks and what it  *)
(* read.                                                                   *)

Begin(w, t) ==
  /\ txn[w].step = "idle"
  /\ txn' = [txn EXCEPT ![w] = t]
  /\ UNCHANGED <<database, authority, directories, faults>>

Usable(a) == account[a].status = "enabled" /\ account[a].server \notin deleted

IssueCertificate(w, a) ==
  /\ Usable(a)
  /\ IssuedOn(a, account[a].server) = {}
  /\ Begin(w, [Idle EXCEPT !.op = "issue", !.step = "sign", !.account = a,
                 !.server = account[a].server, !.name = account[a].name,
                 !.dept = department[a]])

\* The request to act on row s: the row's server, name and status.
OnRow(op, step, s) ==
  [Idle EXCEPT !.op = op, !.step = step, !.account = row[s].account,
     !.server = row[s].server, !.name = row[s].name, !.dept = department[row[s].account],
     !.row = s, !.was = row[s].status]

MayActOn(s) ==
  /\ row[s].status = "issued" \/ (row[s].status = "expired" /\ "expired" \in Operators)
  /\ row[s].server \notin deleted

RevokeCertificate(w, s) == MayActOn(s) /\ Begin(w, OnRow("revoke", "revoke", s))

RenewCertificate(w, s) == MayActOn(s) /\ Begin(w, OnRow("renew", "renew", s))

\* The directories of the account on the servers of its rows and on its own,
\* named after the department it has now, and those its rows recorded.
AccountDirs(a) ==
  LET servers == ({row[s].server : s \in RowsOf(a)} \cup {account[a].server}) \ {None}
  IN {<<a, server, department[a]>> : server \in servers}
       \cup UNION {{<<a, row[s].server, d>> : d \in {row[s].dept, row[s].conf} \ {None}} :
                    s \in RowsOf(a)}

RevokeAccount(w, a) ==
  LET issued == {s \in RowsOf(a) : row[s].status = "issued"}
      files == [dirs |-> AccountDirs(a), paths |-> RowsOf(a)]
      with(t) == [t EXCEPT !.account = a, !.dirs = files.dirs, !.paths = files.paths]
  IN /\ account[a].status # "none"
     /\ \/ /\ issued = {}
           /\ Begin(w, with([Idle EXCEPT !.op = "account", !.step = "delete"]))
        \/ \E s \in issued :  \* the one that expires last
             /\ row[s].server \notin deleted
             /\ Begin(w, with(OnRow("account", "revoke", s)))

GenerateConfig(w, a) ==
  /\ "config" \in Operators
  /\ Usable(a)
  /\ \E s \in IssuedOn(a, account[a].server) :  \* the one that expires last
       Begin(w, [Idle EXCEPT !.op = "config", !.step = "archive", !.account = a,
                   !.server = account[a].server, !.dept = department[a], !.row = s])

-----------------------------------------------------------------------------
(* Commands of Easy-RSA.  Goto is the worker's next step when the answer   *)
(* arrives in time; a lost answer ends the request (Lose).                 *)

Lose(w) ==
  /\ faults < MaxFaults
  /\ faults' = faults + 1
  /\ txn' = [txn EXCEPT ![w] = Idle]

Answered(w, t) == \/ txn' = [txn EXCEPT ![w] = t] /\ UNCHANGED faults
                  \/ Lose(w)

SignNew(w) ==
  LET t == txn[w] IN
  /\ Len(signed) < MaxSerials
  /\ signed' = Append(signed, [server |-> t.server, name |-> t.name])
  /\ file' = [file EXCEPT ![t.server][t.name] = Len(signed) + 1]
  /\ Answered(w, [t EXCEPT !.step = "archive", !.new = Len(signed) + 1])
  /\ UNCHANGED <<scope, database, revoked, crl, directories>>

\* Files that exist under the name are taken as they are (allow_existing).
Sign(w) ==
  LET t == txn[w] IN
  /\ t.step = "sign"
  /\ \/ file[t.server][t.name] = None /\ SignNew(w)
     \/ /\ file[t.server][t.name] # None
        /\ txn' = [txn EXCEPT ![w].step = "archive", ![w].new = file[t.server][t.name]]
        /\ UNCHANGED <<database, authority, directories, faults>>

Renew(w) ==
  /\ txn[w].step = "renew"
  /\ file[txn[w].server][txn[w].name] # None
  /\ SignNew(w)

Revoke(w) ==
  LET t == txn[w] IN
  /\ t.step = "revoke"
  /\ file[t.server][t.name] # None
  /\ revoked' = revoked \cup {file[t.server][t.name]}
  /\ file' = [file EXCEPT ![t.server][t.name] = None]
  /\ Answered(w, [t EXCEPT !.step = "crl"])
  /\ UNCHANGED <<scope, database, signed, crl, directories>>

GenCrl(w) ==
  LET t == txn[w] IN
  /\ t.step = "crl"
  /\ crl' = crl \cup {s \in revoked : signed[s].server = t.server}
  /\ Answered(w, [t EXCEPT !.step = IF t.op = "account" THEN "delete" ELSE "commit"])
  /\ UNCHANGED <<scope, database, signed, file, revoked, directories>>

-----------------------------------------------------------------------------
(* The archive and the commit *)

Directory(t) == <<t.account, t.server, t.dept>>
\* The directory in which a request has put a key, and that no row records for it yet.
InHand(t) ==
  IF t.op \in {"issue", "renew", "config"} /\ t.step = "commit" THEN {Directory(t)} ELSE {}

\* Renewing or revoking a name without files fails, and so may anything else.
Fail(w) ==
  LET t == txn[w] IN
  /\ \/ t.step \in {"renew", "revoke"} /\ file[t.server][t.name] = None /\ UNCHANGED faults
     \/ t.step # "idle" /\ faults < MaxFaults /\ faults' = faults + 1
  /\ lost' = lost \cup InHand(t)
  /\ txn' = [txn EXCEPT ![w] = Idle]
  /\ UNCHANGED <<database, authority, archive>>

Archive(w) ==
  LET t == txn[w] IN
  /\ t.step = "archive"
  /\ archive' = archive \cup {Directory(t)}
  /\ txn' = [txn EXCEPT ![w].step = "commit"]
  /\ UNCHANGED <<database, authority, lost, faults>>

\* Mutant: only the directories the account has now are deleted.
DeleteCurrentFiles(w) ==
  LET t == txn[w] IN
  /\ t.step = "delete"
  /\ archive' = archive \ {d \in t.dirs : d[3] = department[t.account]}
  /\ lost' = lost \ t.dirs
  /\ txn' = [txn EXCEPT ![w].step = "commit"]
  /\ UNCHANGED <<database, authority, faults>>
DeleteFiles(w) ==
  LET t == txn[w] IN
  /\ t.step = "delete"
  /\ archive' = archive \ t.dirs
  /\ lost' = lost \ t.dirs
  /\ txn' = [txn EXCEPT ![w].step = "commit"]
  /\ UNCHANGED <<database, authority, faults>>

\* The columns a request writes: the row it acted on, when its status changes,
\* and the row it adds, whose serial number must be new.
Acted(rows, t, status) ==
  IF t.row = None \/ t.was = status THEN rows ELSE [rows EXCEPT ![t.row].status = status]
Added(rows, t) ==
  [rows EXCEPT ![t.new] = [status |-> "issued", account |-> t.account,
     server |-> t.server, name |-> t.name, dept |-> t.dept, conf |-> None]]
Stores(t) == t.op \in {"issue", "renew"}
Forgotten(rows, paths) ==
  [s \in Serials |-> IF s \in paths THEN [rows[s] EXCEPT !.dept = None, !.conf = None] ELSE rows[s]]

\* Mutant: renewing leaves the old row issued.
RowsKept(t) == IF Stores(t) THEN Added(row, t) ELSE Forgotten(Acted(row, t, "revoked"), t.paths)
RowsAfter(t) ==
  CASE t.op = "issue" -> Added(row, t)
    [] t.op = "renew" -> Added(Acted(row, t, "expired"), t)
    [] t.op = "config" -> [row EXCEPT ![t.row].conf = t.dept]
    [] t.op \in {"revoke", "account"} -> Forgotten(Acted(row, t, "revoked"), t.paths)

\* The directory of an earlier download, when this one records another in its place.
Overwritten(t) ==
  LET r == row[t.row] IN
  IF t.op = "config" /\ r.conf \notin {None, r.dept, t.dept}
  THEN {<<r.account, r.server, r.conf>>} ELSE {}
\* Some other handler is revoking the account and has read its rows.
Revoking(w) ==
  \E v \in Workers \ {w} : txn[v].op = "account" /\ txn[v].account = txn[w].account
LostAfter(w) ==
  Overwritten(txn[w]) \cup IF Revoking(w) THEN lost \cup InHand(txn[w])
                                         ELSE lost \ InHand(txn[w])

\* Mutant: a stored serial number is overwritten.
CommitOverStored(w) ==
  LET t == txn[w] IN
  /\ t.step = "commit"
  /\ row' = RowsAfter(t)
  /\ account' = IF t.op = "account" THEN [account EXCEPT ![t.account].status = "revoked"]
                                    ELSE account
  /\ lost' = LostAfter(w)
  /\ txn' = [txn EXCEPT ![w] = Idle]
  /\ UNCHANGED <<deleted, department, authority, archive, faults>>
Commit(w) ==
  LET t == txn[w] IN
  /\ t.step = "commit"
  /\ Stores(t) => row[t.new].status = NotStored
  /\ row' = RowsAfter(t)
  /\ account' = IF t.op = "account" THEN [account EXCEPT ![t.account].status = "revoked"]
                                    ELSE account
  /\ lost' = LostAfter(w)
  /\ txn' = [txn EXCEPT ![w] = Idle]
  /\ UNCHANGED <<deleted, department, authority, archive, faults>>

\* A second row with a stored serial number is refused.
Refuse(w) ==
  LET t == txn[w] IN
  /\ t.step = "commit" /\ Stores(t) /\ row[t.new].status # NotStored
  /\ lost' = lost \cup InHand(t)
  /\ txn' = [txn EXCEPT ![w] = Idle]
  /\ UNCHANGED <<database, authority, archive, faults>>

Next ==
  \/ \E a \in Accounts :
       \/ \E server \in Servers, n \in Names : EnableAccount(a, server, n)
       \/ DisableAccount(a)
       \/ \E server \in Servers : AssignAccountServer(a, server)
       \/ \E d \in Departments : ChangeDepartment(a, d)
       \/ \E w \in Workers :
            IssueCertificate(w, a) \/ RevokeAccount(w, a) \/ GenerateConfig(w, a)
  \/ \E server \in Servers : DeleteServer(server)
  \/ \E s \in Serials :
       \/ DisableCertificateByThreshold(s)
       \/ \E w \in Workers : RevokeCertificate(w, s) \/ RenewCertificate(w, s)
  \/ \E w \in Workers :
       \/ Sign(w) \/ Renew(w) \/ Revoke(w) \/ GenCrl(w) \/ Fail(w)
       \/ Archive(w) \/ DeleteFiles(w) \/ Commit(w) \/ Refuse(w)

Spec == Init /\ [][Next]_vars

-----------------------------------------------------------------------------
(* Properties *)

Quiet == \A w \in Workers : txn[w].step = "idle"
Current(s) == file[row[s].server][row[s].name] = s

\* Only one request at a time, and nothing that acts on the database alone.
Orderly ==
  Cardinality(Workers) = 1 /\ MaxFaults = 0 /\ Operators \subseteq {"delete"}

\* Between orderly requests the database and the authorities agree: what is stored as
\* issued is what the server has on file, and what is stored as revoked is on its
\* revocation list.
DatabaseAgrees ==
  Orderly /\ Quiet => \A s \in Serials :
    /\ row[s].status = "issued" <=> (s \in DOMAIN signed /\ row[s].status # NotStored /\ Current(s))
    /\ row[s].status = "revoked" => s \in crl

\* When revoke_account commits, no directory has a key of the account, also none named
\* after a department the user has left or on a server the account was moved from.  A
\* directory that no row names stays: that of a request which was refused or failed after
\* it had copied the key, and the former one of a certificate whose configuration was
\* downloaded again after a change of department (config_file_path, 502).  So may that of
\* a request which overlaps the revocation.
RevokedHasNoKeys ==
  \A w \in Workers : txn[w].op = "account" /\ txn[w].step = "commit" =>
    \A d \in archive \ lost :
      d[1] = txn[w].account => \E v \in Workers : d \in InHand(txn[v])

\* "已吊销证书不能续期" (renew_certificate): a revoked row stays revoked, also when
\* files are reused, unless a renewal that found it issued commits after it.
RevokedStays ==
  [][\A s \in Serials :
       row[s].status = "revoked" /\ row'[s].status # "revoked" =>
         \E w \in Workers : /\ txn[w].op = "renew" /\ txn[w].row = s
                            /\ txn[w].was # "revoked" /\ txn'[w] = Idle]_vars

=============================================================================
