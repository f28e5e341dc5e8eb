---------------------------- MODULE WireGuardPeers ----------------------------
(***************************************************************************)
(* WireGuard credentials: keys and addresses of accounts in the database,  *)
(* and the peers of each server's interface                                *)
(* (src/backend/app/services/openvpn_service.py).                          *)
(*                                                                         *)
(* A handler reads the database in one snapshot, runs "wg set" and         *)
(* "wg-quick save" on the server over SSH, and commits.  The interface     *)
(* gives an address to one peer: another peer that had it is cut off and   *)
(* counts as removed.  A server that restarts has the peers last saved.    *)
(*                                                                         *)
(* Left out: expiry (renewing a WireGuard credential changes only that),   *)
(* the server's own key, the client file (VpnCertificates has it).         *)
(***************************************************************************)
EXTENDS Integers, Sequences, FiniteSets

CONSTANTS
  Accounts,
  Scopes  \* what is considered: records of the fields of scope

ASSUME ScopesAssumption ==
  \A s \in Scopes :
    /\ IsFiniteSet(s.workers) /\ 0 \notin s.servers
    /\ s.addresses \subseteq Nat \ {0}
    /\ s.features \subseteq {"move", "threshold", "restart"}
    /\ s.maxKeys \in Nat /\ s.maxFaults \in Nat

VARIABLES
  scope,   \* what happens in this behaviour; never changes
  account, \* openvpn_accounts: status, server, public key and address
  rows,    \* openvpn_certificates, in order of id
  peers,   \* peers of each server's interface: <<key, address>>
  saved,   \* peers in each server's configuration file
  keys,    \* number of key pairs generated
  keysOf,  \* keys stored for each account so far (history)
  moved,   \* accounts that changed servers with an address, or while given one (history)
  raced,   \* accounts issued while another was, on one server (history)
  overlapped, \* accounts about which two requests ran at a time (history)
  forgotten,  \* accounts with a credential revoked by a threshold, and no command for
              \* them since (history)
  reverted,   \* servers that restarted with peers that were not saved (history)
  txn,     \* where each worker is
  faults

history == <<moved, raced, overlapped, forgotten, reverted>>
vars == <<scope, account, rows, peers, saved, keys, keysOf, history, txn, faults>>

Workers == scope.workers
Servers == scope.servers
Addresses == scope.addresses  \* client addresses of a network, the same on each server
MaxKeys == scope.maxKeys      \* bound on the key pairs generated
MaxFaults == scope.maxFaults  \* bound on failed requests, lost answers and failed saves
Features == scope.features    \* "move" accounts between servers, "threshold", "restart" servers

None == 0

Idle == [op |-> "none", step |-> "idle", account |-> None, server |-> None,
         key |-> None, address |-> None, row |-> None]

Init ==
  /\ scope \in Scopes
  /\ account = [a \in Accounts |->
       [status |-> "none", server |-> None, key |-> None, address |-> None]]
  /\ rows = <<>>
  /\ peers = [s \in Servers |-> {}]
  /\ saved = [s \in Servers |-> {}]
  /\ keys = 0
  /\ keysOf = [a \in Accounts |-> {}]
  /\ moved = {} /\ raced = {} /\ overlapped = {} /\ forgotten = {} /\ reverted = {}
  /\ txn = [w \in Workers |-> Idle]
  /\ faults = 0

-----------------------------------------------------------------------------
(* Handlers without a command *)

Moves(a, s) == account[a].server # s /\ account[a].server # None

Moving(a, s) ==
  /\ LET issuing == \E w \in Workers : txn[w].op = "issue" /\ txn[w].account = a
     IN moved' = IF Moves(a, s) /\ (account[a].address # None \/ issuing)
                 THEN moved \cup {a} ELSE moved
  /\ UNCHANGED <<raced, overlapped, forgotten, reverted>>

EnableAccount(a, s) ==
  /\ Moves(a, s) => "move" \in Features
  /\ account' = [account EXCEPT ![a].status = "enabled", ![a].server = s]
  /\ Moving(a, s)
  /\ UNCHANGED <<scope, rows, peers, saved, keys, keysOf, txn, faults>>

DisableAccount(a) ==
  /\ account[a].status # "none"
  /\ account' = [account EXCEPT ![a].status = "disabled"]
  /\ UNCHANGED <<scope, history, rows, peers, saved, keys, keysOf, txn, faults>>

\* The address and key stay those of the server the account leaves.
AssignAccountServer(a, s) ==
  /\ account[a].status # "none"
  /\ Moves(a, s) => "move" \in Features
  /\ account' = [account EXCEPT ![a].server = s]
  /\ Moving(a, s)
  /\ UNCHANGED <<scope, rows, peers, saved, keys, keysOf, txn, faults>>

\* Nothing is run on the server.
DisableCertificateByThreshold(r) ==
  /\ "threshold" \in Features
  /\ rows' = [rows EXCEPT ![r].status = "revoked"]
  /\ forgotten' = IF rows[r].status = "issued" THEN forgotten \cup {rows[r].account}
                                               ELSE forgotten
  /\ UNCHANGED <<scope, moved, raced, overlapped, reverted>>
  /\ UNCHANGED <<account, peers, saved, keys, keysOf, txn, faults>>

-----------------------------------------------------------------------------
(* The first step: checks and what the handler read *)

Begin(w, t) ==
  /\ txn[w].step = "idle"
  /\ txn' = [txn EXCEPT ![w] = t]
  /\ overlapped' = IF \E v \in Workers : txn[v].account = t.account
                   THEN overlapped \cup {t.account} ELSE overlapped
  /\ UNCHANGED <<scope, account, rows, peers, saved, keysOf, moved, forgotten, reverted, faults>>

Issued(a) == {r \in DOMAIN rows : rows[r].account = a /\ rows[r].status = "issued"}
IssuedOn(a, s) == {r \in Issued(a) : rows[r].server = s}
UsedAddresses(s) == {account[a].address : a \in {x \in Accounts : account[x].server = s}}
LowestOf(S) == CHOOSE x \in S : \A y \in S : x <= y
\* Mutant: only the addresses of enabled accounts are in use.
NextAddressOfEnabled(s) ==
  LET used == {account[a].address :
                 a \in {x \in Accounts : account[x].server = s /\ account[x].status = "enabled"}}
  IN IF Addresses \ used = {} THEN None ELSE LowestOf(Addresses \ used)
NextAddress(s) ==
  IF Addresses \ UsedAddresses(s) = {} THEN None ELSE LowestOf(Addresses \ UsedAddresses(s))
AddressFor(a) ==
  IF account[a].address # None THEN account[a].address ELSE NextAddress(account[a].server)

\* Refused when no address is left.
IssueCertificate(w, a) ==
  /\ keys < MaxKeys
  /\ account[a].status = "enabled"
  /\ IssuedOn(a, account[a].server) = {}
  /\ AddressFor(a) # None
  /\ Begin(w, [Idle EXCEPT !.op = "issue", !.step = "set", !.account = a,
                 !.server = account[a].server, !.key = keys + 1, !.address = AddressFor(a)])
  /\ keys' = keys + 1
  /\ raced' = raced \cup
       UNION {{a, txn[v].account} : v \in {x \in Workers : /\ txn[x].op = "issue"
                                                         /\ txn[x].server = account[a].server}}

\* Mutant: revoking the account leaves the server alone.
OnRowOfDatabase(op, r) ==
  LET a == rows[r].account
  IN [Idle EXCEPT !.op = op, !.step = IF op = "account" THEN "commit" ELSE "remove",
        !.account = a, !.server = rows[r].server, !.key = account[a].key, !.row = r]
\* The peer that is removed is the account's present one.  Without a key there
\* is nothing to run.
OnRow(op, r) ==
  LET a == rows[r].account
  IN [Idle EXCEPT !.op = op, !.step = IF account[a].key = None THEN "commit" ELSE "remove",
        !.account = a, !.server = rows[r].server, !.key = account[a].key, !.row = r]

RevokeCertificate(w, r) ==
  rows[r].status = "issued" /\ Begin(w, OnRow("revoke", r)) /\ UNCHANGED <<keys, raced>>

RevokeAccount(w, a) ==
  /\ account[a].status # "none"
  /\ \/ /\ Issued(a) = {}
        /\ Begin(w, [Idle EXCEPT !.op = "account", !.step = "commit", !.account = a])
     \/ \E r \in Issued(a) : Begin(w, OnRow("account", r))  \* the one that expires last
  /\ UNCHANGED <<keys, raced>>

-----------------------------------------------------------------------------
(* Commands on the server.  An answer may be lost although the command ran.*)

Answered(w, step) ==
  \/ txn' = [txn EXCEPT ![w].step = step] /\ UNCHANGED faults
  \/ /\ faults < MaxFaults /\ faults' = faults + 1
     /\ txn' = [txn EXCEPT ![w] = Idle]

SetPeer(w) ==
  LET t == txn[w] IN
  /\ t.step = "set"
  /\ peers' = [peers EXCEPT ![t.server] =
       {p \in @ : p[1] # t.key /\ p[2] # t.address} \cup {<<t.key, t.address>>}]
  /\ forgotten' = forgotten \ {t.account}
  /\ Answered(w, "save")
  /\ UNCHANGED <<scope, moved, raced, overlapped, reverted, account, rows, saved, keys, keysOf>>

RemovePeer(w) ==
  LET t == txn[w] IN
  /\ t.step = "remove"
  /\ peers' = [peers EXCEPT ![t.server] = {p \in @ : p[1] # t.key}]
  /\ forgotten' = forgotten \ {t.account}
  /\ Answered(w, "save")
  /\ UNCHANGED <<scope, moved, raced, overlapped, reverted, account, rows, saved, keys, keysOf>>

\* Mutant: the configuration is not saved.
SkipSave(w) ==
  /\ txn[w].step = "save"
  /\ Answered(w, "commit")
  /\ UNCHANGED <<scope, history, account, rows, peers, saved, keys, keysOf>>
Save(w) ==
  LET t == txn[w] IN
  /\ t.step = "save"
  /\ saved' = [saved EXCEPT ![t.server] = peers[t.server]]
  /\ Answered(w, "commit")
  /\ UNCHANGED <<scope, history, account, rows, peers, keys, keysOf>>

\* "|| true": a save that fails is not noticed.
SaveFails(w) ==
  /\ txn[w].step = "save"
  /\ faults < MaxFaults /\ faults' = faults + 1
  /\ txn' = [txn EXCEPT ![w].step = "commit"]
  /\ UNCHANGED <<scope, history, account, rows, peers, saved, keys, keysOf>>

Fail(w) ==
  /\ txn[w].step # "idle"
  /\ faults < MaxFaults /\ faults' = faults + 1
  /\ txn' = [txn EXCEPT ![w] = Idle]
  /\ UNCHANGED <<scope, history, account, rows, peers, saved, keys, keysOf>>

RestartServer(s) ==
  /\ "restart" \in Features
  /\ peers' = [peers EXCEPT ![s] = saved[s]]
  /\ reverted' = IF peers[s] = saved[s] THEN reverted ELSE reverted \cup {s}
  /\ UNCHANGED <<scope, moved, raced, overlapped, forgotten>>
  /\ UNCHANGED <<account, rows, saved, keys, keysOf, txn, faults>>

CommitIssue(w) ==
  LET t == txn[w] IN
  /\ t.step = "commit" /\ t.op = "issue"
  /\ rows' = Append(rows, [account |-> t.account, server |-> t.server, status |-> "issued"])
  /\ account' = [account EXCEPT ![t.account].key = t.key, ![t.account].address = t.address]
  /\ keysOf' = [keysOf EXCEPT ![t.account] = @ \cup {t.key}]
  /\ txn' = [txn EXCEPT ![w] = Idle]
  /\ UNCHANGED <<scope, history, peers, saved, keys, faults>>

CommitRevoke(w) ==
  LET t == txn[w] IN
  /\ t.step = "commit" /\ t.op \in {"revoke", "account"}
  /\ rows' = IF t.row = None THEN rows ELSE [rows EXCEPT ![t.row].status = "revoked"]
  /\ account' = IF t.op = "account" THEN [account EXCEPT ![t.account].status = "revoked"]
                                    ELSE account
  /\ txn' = [txn EXCEPT ![w] = Idle]
  /\ UNCHANGED <<scope, history, peers, saved, keys, keysOf, faults>>

Next ==
  \/ \E a \in Accounts :
       \/ \E s \in Servers : EnableAccount(a, s) \/ AssignAccountServer(a, s)
       \/ DisableAccount(a)
       \/ \E w \in Workers : IssueCertificate(w, a) \/ RevokeAccount(w, a)
  \/ \E r \in DOMAIN rows :
       \/ DisableCertificateByThreshold(r)
       \/ \E w \in Workers : RevokeCertificate(w, r)
  \/ \E w \in Workers :
       \/ SetPeer(w) \/ RemovePeer(w) \/ Save(w) \/ SaveFails(w) \/ Fail(w)
       \/ CommitIssue(w) \/ CommitRevoke(w)
  \/ \E s \in Servers : RestartServer(s)

Spec == Init /\ [][Next]_vars

-----------------------------------------------------------------------------
(* Properties *)

Quiet == \A w \in Workers : txn[w].step = "idle"

Alone == Cardinality(Workers) = 1

\* Between requests that do not fail, the running and the saved peers of a server are
\* those of the credentials stored as issued on it, with the account's key and address.
PeersAgree ==
  Alone /\ MaxFaults = 0 /\ Features = {} /\ Quiet => \A s \in Servers :
    /\ peers[s] = {<<account[rows[r].account].key, account[rows[r].account].address>> :
                     r \in {x \in DOMAIN rows : rows[x].server = s /\ rows[x].status = "issued"}}
    /\ saved[s] = peers[s]

\* _next_wireguard_client_address: accounts of one server have different addresses,
\* whatever fails or is retried, unless one of them brought its address from another
\* server or both were issued at the same time.
AddressesDiffer ==
  \A a, b \in Accounts \ moved :
    /\ a # b /\ account[a].address # None
    /\ account[a].server = account[b].server
    /\ ~(a \in raced /\ b \in raced)
    => account[a].address # account[b].address

\* "吊销凭据或吊销账号时，系统会从 WireGuard 服务器上移除 peer" (WIREGUARD.md):
\* no key that was ever stored for a revoked account is a peer of a server, whatever failed
\* halfway and whatever requests about other accounts overlap.  It is not so
\* - for an account that changed servers with an address: the peer stays on the former one;
\* - for one whose credential a threshold revoked: revoke_account then finds no issued row;
\* - for one about which two requests overlapped, such as an issue and the revocation;
\* - on a server that restarted with peers not saved: the saved ones are back.
RevokedHasNoPeer ==
  \A a \in Accounts \ (moved \cup forgotten \cup overlapped) :
    account[a].status = "revoked" =>
      \A s \in Servers \ reverted : \A p \in peers[s] : p[1] \notin keysOf[a]

=============================================================================
