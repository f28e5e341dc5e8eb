----------------------------- MODULE VpnSession -----------------------------
(***************************************************************************)
(* VPN session ingestion and traffic accounting                            *)
(* (src/backend/app/services/openvpn_service.py).                          *)
(*                                                                         *)
(* Each VPN server runs a connect and a disconnect hook that posts one     *)
(* event to the backend and waits for the answer, so the events of one     *)
(* server are handled one at a time; events of different servers, and the  *)
(* requests of administrators, run concurrently in the thread pool.        *)
(*                                                                         *)
(* A request is two steps.  Its operation action takes the snapshot its    *)
(* queries read (one database session per request, repeatable reads,       *)
(* autoflush off) and leaves in txn[w] the rows its flush will write.      *)
(* Commit writes them over whatever is stored by then, with the unique     *)
(* constraints of models/openvpn.py; Rollback is the constraint violation, *)
(* the database error or the crash.                                        *)
(***************************************************************************)
EXTENDS Integers, Sequences, FiniteSets, FiniteSetsExt

CONSTANTS
  Servers,       \* VPN servers, each with its serial stream of hook events
  Admins,        \* concurrent administrator requests
  CommonNames,   \* certificate common names the servers report
  Accounts,      \* accounts, named by their vpn_username (a common name)
  Certificates,  \* <<server, account, n>>: the n-th row of the pair, or room for one
  Departments,
  DepartmentOf,  \* primary department of the accounts that have one
  Months,
  MonthOf,       \* month of each day
  Rules,         \* active threshold rules
  ByteCounts,    \* traffic a disconnect event may report
  MaxSessions    \* bound: no event is taken once this many sessions exist

Days == DOMAIN MonthOf
Targets == ({"server"} \X Servers) \cup ({"certificate"} \X Certificates)
Dimensions == Targets \cup ({"department"} \X Departments)
Periods == ({"day"} \X Days) \cup ({"month"} \X Months)
AggregateKeys == Dimensions \X Periods
Workers == Servers \cup Admins

ASSUME WorkersAssumption == Servers \cap Admins = {}
ASSUME AccountsAssumption ==
  /\ Accounts \subseteq CommonNames
  /\ Certificates \subseteq Servers \X Accounts \X Nat
  /\ DOMAIN DepartmentOf \subseteq Accounts
  /\ \A a \in DOMAIN DepartmentOf : DepartmentOf[a] \in Departments
ASSUME CalendarAssumption ==
  /\ Days \subseteq Nat /\ 1 \in Days
  /\ \A d \in Days : MonthOf[d] \in Months
ASSUME RulesAssumption ==
  /\ Rules \subseteq [target : Targets, period : {"day", "month"},
                      threshold : Nat \ {0}, action : {"notify", "disable_certificate"}]
  /\ \A r, q \in Rules : r.target = q.target /\ r.period = q.period => r = q
ASSUME BytesAssumption == ByteCounts \subseteq Nat

VARIABLES
  sessions,          \* openvpn_sessions, in order of id
  currentClients,    \* openvpn_servers.current_clients
  accountStatus,     \* openvpn_accounts.status
  certificateStatus, \* openvpn_certificates.status; "none" stands for no row
  records,           \* openvpn_traffic_records
  aggregates,        \* openvpn_traffic_aggregates; count 0 stands for no row
  alerts,            \* openvpn_traffic_alerts
  today,
  tunnels,           \* <<server, common name>> pairs really connected
  missed,            \* pairs whose last disconnect left no trace (history)
  overtaken,         \* certificates revoked under a renewal that read them before (history)
  txn                \* the uncommitted writes of each request

tables == <<sessions, currentClients, accountStatus, certificateStatus,
            records, aggregates, alerts>>
vars == <<tables, today, tunnels, missed, overtaken, txn>>

-----------------------------------------------------------------------------
(* Queries of a snapshot *)

SessionIds == DOMAIN sessions
OnlineIds == {i \in SessionIds : sessions[i].status = "online"}
OnlineOfAccount(a) == {i \in OnlineIds : sessions[i].cn = a}
ServerOnline(s) == {i \in OnlineIds : sessions[i].server = s}

\* Mutant: the status filter is missing from the query.
AnySessionOf(s, cn) == {i \in SessionIds : sessions[i].server = s /\ sessions[i].cn = cn}
\* Mutant: the server filter is missing from the query.
OnlineOfAnyServer(s, cn) == {i \in OnlineIds : sessions[i].cn = cn}
OnlineOf(s, cn) == {i \in OnlineIds : sessions[i].server = s /\ sessions[i].cn = cn}

CertificatesOf(s, a) == {c \in Certificates : c[1] = s /\ c[2] = a}
StoredOf(s, a) == {c \in CertificatesOf(s, a) : certificateStatus[c] # "none"}
RoomFor(s, a) == {c \in CertificatesOf(s, a) : certificateStatus[c] = "none"}
\* The certificate an event is about: the newest row, whatever its status.
SessionCertificate(s, cn) ==
  {c \in StoredOf(s, cn) : \A d \in StoredOf(s, cn) : d[3] <= c[3]}

DimensionsOf(s, cn, certificate) ==
  {<<"server", s>>}
    \cup ({"certificate"} \X certificate)
    \cup {<<"department", DepartmentOf[a]>> : a \in {cn} \cap DOMAIN DepartmentOf}
TrafficPeriods(day) == {<<"day", day>>, <<"month", MonthOf[day]>>}
EventDimensions(s, cn) == DimensionsOf(s, cn, SessionCertificate(s, cn))
PeriodOf(rule, day) == CHOOSE p \in TrafficPeriods(day) : p[1] = rule.period
AlertsOf(rule, p) == {x \in alerts : x.rule = rule /\ x.period = p}

-----------------------------------------------------------------------------
(* What a request will write *)

Kinds == {"none", "connect", "disconnect", "kick", "account", "certificate"}

Idle == [kind |-> "none", event |-> {}, close |-> {}, insert |-> <<>>,
         clients |-> {}, account |-> {}, revoke |-> {}, expire |-> {}, issue |-> {},
         record |-> {}, aggregates |-> {}, alerts |-> {}]

\* The ORM leaves a column out of the UPDATE when its value did not change.
ClientsWrite(s, n) == {<<s, n>>} \ {<<s, currentClients[s]>>}

\* Mutant: the stale sessions of the common name are left online.
ConnectWithoutClosing(s, cn) ==
  [Idle EXCEPT !.kind = "connect", !.event = {<<s, cn>>},
               !.insert = <<[server |-> s, cn |-> cn, status |-> "online"]>>,
               !.clients = ClientsWrite(s, Cardinality(ServerOnline(s)) + 1)]
\* The count is a query of the unflushed session: it still counts the closed rows.
ConnectWrites(s, cn) ==
  [Idle EXCEPT !.kind = "connect", !.event = {<<s, cn>>},
               !.close = OnlineOf(s, cn),
               !.insert = <<[server |-> s, cn |-> cn, status |-> "online"]>>,
               !.clients = ClientsWrite(s, Cardinality(ServerOnline(s)) + 1)]

\* Mutant: the month row is only touched by the first session of a day.
AggregateWritesMonthOnce(s, cn, b) ==
  {[key |-> k, bytes |-> b, total |-> aggregates[k].total + b,
    count |-> aggregates[k].count + 1, fresh |-> aggregates[k].count = 0] :
      k \in {j \in EventDimensions(s, cn) \X TrafficPeriods(today) :
               j[2][1] = "month" => aggregates[<<j[1], <<"day", today>>>>].count = 0}}
\* Mutant: the first session of a row is added by the constructor and by the update.
AggregateWritesTwice(s, cn, b) ==
  {[key |-> k, bytes |-> b,
    total |-> aggregates[k].total + (IF aggregates[k].count = 0 THEN 2 * b ELSE b),
    count |-> aggregates[k].count + 1, fresh |-> aggregates[k].count = 0] :
      k \in EventDimensions(s, cn) \X TrafficPeriods(today)}
AggregateWrites(s, cn, b) ==
  {[key |-> k, bytes |-> b, total |-> aggregates[k].total + b,
    count |-> aggregates[k].count + 1, fresh |-> aggregates[k].count = 0] :
      k \in EventDimensions(s, cn) \X TrafficPeriods(today)}

\* A row added by this request is not flushed yet, so the query finds none.
EvaluatedBytes(k, b) == IF aggregates[k].count = 0 THEN 0 ELSE aggregates[k].total + b

\* Mutant: reaching the threshold counts as exceeding it.
ReachedRules(s, cn, b) ==
  {r \in Rules : /\ r.target \in EventDimensions(s, cn)
                 /\ EvaluatedBytes(<<r.target, PeriodOf(r, today)>>, b) >= r.threshold
                 /\ AlertsOf(r, PeriodOf(r, today)) = {}}
ExceededRules(s, cn, b) ==
  {r \in Rules : /\ r.target \in EventDimensions(s, cn)
                 /\ EvaluatedBytes(<<r.target, PeriodOf(r, today)>>, b) > r.threshold
                 /\ AlertsOf(r, PeriodOf(r, today)) = {}}
AlertWrites(s, cn, b) ==
  {[rule |-> r, period |-> PeriodOf(r, today),
    actual |-> EvaluatedBytes(<<r.target, PeriodOf(r, today)>>, b),
    certificate |-> SessionCertificate(s, cn), status |-> "open"] :
      r \in ExceededRules(s, cn, b)}

\* Mutant: only the rules of the certificate itself disable it.
DisabledByCertificateRule(s, cn, b) ==
  {c \in SessionCertificate(s, cn) :
     /\ certificateStatus[c] # "revoked"
     /\ \E r \in ExceededRules(s, cn, b) :
          r.action = "disable_certificate" /\ r.target[1] = "certificate"}
DisabledByThreshold(s, cn, b) ==
  {c \in SessionCertificate(s, cn) :
     /\ certificateStatus[c] # "revoked"
     /\ \E r \in ExceededRules(s, cn, b) : r.action = "disable_certificate"}

\* The session that ends: the latest online one of the common name, if there is one.
\* It has no traffic record yet (TrafficOncePerSession), so its traffic is always recorded.
LatestOf(ids) == {i \in ids : \A j \in ids : j <= i}

DisconnectWrites(s, cn, b) ==
  LET ended == LatestOf(OnlineOf(s, cn))
      disabled == DisabledByThreshold(s, cn, b)
  IN [Idle EXCEPT
        !.kind = "disconnect", !.event = {<<s, cn>>},
        !.close = IF disabled = {} THEN ended ELSE ended \cup OnlineOfAccount(cn),
        !.insert = IF ended # {} THEN <<>>
                   ELSE <<[server |-> s, cn |-> cn, status |-> "offline"]>>,
        !.clients = ClientsWrite(s, Cardinality(ServerOnline(s) \ ended)),
        !.revoke = disabled,
        !.record = {[session |-> ended, server |-> s, cn |-> cn, bytes |-> b, day |-> today,
                     certificate |-> SessionCertificate(s, cn)]},
        !.aggregates = AggregateWrites(s, cn, b),
        !.alerts = AlertWrites(s, cn, b)]

\* The row is not flushed when it is counted: the count includes the kicked session.
KickWrites(i) ==
  [Idle EXCEPT !.kind = "kick", !.close = {i},
               !.clients = ClientsWrite(sessions[i].server,
                                        Cardinality(ServerOnline(sessions[i].server)))]

AccountWrites(a, status) ==
  [Idle EXCEPT !.kind = "account", !.account = {<<a, status>>} \ {<<a, accountStatus[a]>>},
               !.close = IF status = "enabled" THEN {} ELSE OnlineOfAccount(a)]

-----------------------------------------------------------------------------
Init ==
  /\ sessions = <<>>
  /\ currentClients = [s \in Servers |-> 0]
  /\ accountStatus = [a \in Accounts |-> "enabled"]
  /\ certificateStatus = [c \in Certificates |-> IF c[3] = 1 THEN "issued" ELSE "none"]
  /\ records = {}
  /\ aggregates = [k \in AggregateKeys |-> [total |-> 0, count |-> 0]]
  /\ alerts = {}
  /\ today = 1
  /\ tunnels = {} /\ missed = {} /\ overtaken = {}
  /\ txn = [w \in Workers |-> Idle]

-----------------------------------------------------------------------------
(* Events of the VPN servers *)

RecordSessionConnect(s, cn) ==
  /\ txn[s] = Idle
  /\ <<s, cn>> \notin tunnels
  /\ Len(sessions) < MaxSessions
  /\ tunnels' = tunnels \cup {<<s, cn>>}
  /\ txn' = [txn EXCEPT ![s] = ConnectWrites(s, cn)]
  /\ UNCHANGED <<tables, today, missed, overtaken>>

RecordSessionDisconnect(s, cn, b) ==
  /\ txn[s] = Idle
  /\ <<s, cn>> \in tunnels
  /\ Len(sessions) < MaxSessions
  /\ tunnels' = tunnels \ {<<s, cn>>}
  /\ txn' = [txn EXCEPT ![s] = DisconnectWrites(s, cn, b)]
  /\ UNCHANGED <<tables, today, missed, overtaken>>

\* curl fails: the hook logs and exits 0, and the tunnel opens or closes unreported.
LoseConnect(s, cn) ==
  /\ txn[s] = Idle
  /\ <<s, cn>> \notin tunnels
  /\ tunnels' = tunnels \cup {<<s, cn>>}
  /\ UNCHANGED <<tables, today, missed, overtaken, txn>>

LoseDisconnect(s, cn) ==
  /\ txn[s] = Idle
  /\ <<s, cn>> \in tunnels
  /\ tunnels' = tunnels \ {<<s, cn>>}
  /\ missed' = missed \cup {<<s, cn>>}
  /\ UNCHANGED <<tables, today, overtaken, txn>>

-----------------------------------------------------------------------------
(* Requests of administrators *)

KickSession(w, i) ==
  /\ txn[w] = Idle
  /\ i \in OnlineIds
  /\ txn' = [txn EXCEPT ![w] = KickWrites(i)]
  /\ UNCHANGED <<tables, today, tunnels, missed, overtaken>>

\* enable_account, and disable_account / disable_user_vpn, which also close sessions.
SetAccountStatus(w, a, status) ==
  /\ txn[w] = Idle
  /\ txn' = [txn EXCEPT ![w] = AccountWrites(a, status)]
  /\ UNCHANGED <<tables, today, tunnels, missed, overtaken>>

\* The certificate revoked is the issued one that expires last.
RevokeAccount(w, a) ==
  /\ txn[w] = Idle
  /\ LET issued == {c \in Certificates : c[2] = a /\ certificateStatus[c] = "issued"}
     IN \E chosen \in SUBSET issued :
          /\ Cardinality(chosen) = IF issued = {} THEN 0 ELSE 1
          /\ txn' = [txn EXCEPT ![w] = [AccountWrites(a, "revoked") EXCEPT !.revoke = chosen]]
  /\ UNCHANGED <<tables, today, tunnels, missed, overtaken>>

RevokeCertificate(w, c) ==
  /\ txn[w] = Idle
  /\ certificateStatus[c] \in {"issued", "expired"}
  /\ txn' = [txn EXCEPT ![w] = [Idle EXCEPT !.kind = "certificate", !.revoke = {c}]]
  /\ UNCHANGED <<tables, today, tunnels, missed, overtaken>>

\* Bound: a row is left for every insertion under way.
RoomLeft(s, a) ==
  Cardinality(RoomFor(s, a)) > Cardinality({v \in Workers : <<s, a>> \in txn[v].issue})

\* Any server may be the account's: assign_account_server moves it (VpnAssignment).
IssueCertificate(w, s, a) ==
  /\ txn[w] = Idle
  /\ accountStatus[a] = "enabled"
  /\ \A c \in CertificatesOf(s, a) : certificateStatus[c] # "issued"
  /\ RoomLeft(s, a)
  /\ txn' = [txn EXCEPT ![w] = [Idle EXCEPT !.kind = "certificate", !.issue = {<<s, a>>}]]
  /\ UNCHANGED <<tables, today, tunnels, missed, overtaken>>

RenewWrites(c) ==
  [Idle EXCEPT !.kind = "certificate", !.issue = {<<c[1], c[2]>>},
               !.expire = {d \in {c} : certificateStatus[d] # "expired"}]

\* Mutant: a revoked certificate is not refused.
RenewAnyCertificate(w, c) ==
  /\ txn[w] = Idle
  /\ certificateStatus[c] # "none"
  /\ RoomLeft(c[1], c[2])
  /\ txn' = [txn EXCEPT ![w] = RenewWrites(c)]
  /\ UNCHANGED <<tables, today, tunnels, missed, overtaken>>
\* The renewal of an OpenVPN certificate, which takes as long as Easy-RSA does.
RenewCertificate(w, c) ==
  /\ txn[w] = Idle
  /\ certificateStatus[c] \in {"issued", "expired"}
  /\ RoomLeft(c[1], c[2])
  /\ txn' = [txn EXCEPT ![w] = RenewWrites(c)]
  /\ UNCHANGED <<tables, today, tunnels, missed, overtaken>>

ProcessTrafficAlert(x) ==
  /\ x \in alerts
  /\ alerts' = (alerts \ {x}) \cup {[x EXCEPT !.status = "processed"]}
  /\ UNCHANGED <<sessions, currentClients, accountStatus, certificateStatus,
                 records, aggregates, today, tunnels, missed, overtaken, txn>>

-----------------------------------------------------------------------------
(* The end of a transaction *)

\* uq_openvpn_traffic_aggregate_dimension and uq_openvpn_traffic_alert_period.
UniqueRows(t) ==
  /\ \A x \in t.aggregates : x.fresh => aggregates[x.key].count = 0
  /\ \A x \in t.alerts : AlertsOf(x.rule, x.period) = {}

ClosedSessions(ids) ==
  [i \in SessionIds |-> IF i \in ids THEN [sessions[i] EXCEPT !.status = "offline"]
                        ELSE sessions[i]]

\* A session inserted by the request gets its id, the next one, here.
RecordOf(x) == [x EXCEPT !.session = IF @ = {} THEN {Len(sessions) + 1} ELSE @]

\* Adding zero bytes leaves bytes_total out of the UPDATE; session_count always changes.
WrittenAggregate(x, old) ==
  [total |-> IF x.bytes = 0 THEN old.total ELSE x.total, count |-> x.count]

\* The row an insertion gets: the next one of its server and account.
NextRows(pairs) ==
  {c \in Certificates : /\ <<c[1], c[2]>> \in pairs /\ certificateStatus[c] = "none"
                        /\ \A d \in RoomFor(c[1], c[2]) : c[3] <= d[3]}

WriteRows(t) ==
  /\ sessions' = ClosedSessions(t.close) \o t.insert
  /\ currentClients' = [s \in Servers |->
       IF \E x \in t.clients : x[1] = s THEN (CHOOSE x \in t.clients : x[1] = s)[2]
       ELSE currentClients[s]]
  /\ accountStatus' = [a \in Accounts |->
       IF \E x \in t.account : x[1] = a THEN (CHOOSE x \in t.account : x[1] = a)[2]
       ELSE accountStatus[a]]
  /\ certificateStatus' = [c \in Certificates |->
       IF c \in t.revoke THEN "revoked"
       ELSE IF c \in t.expire THEN "expired"
       ELSE IF c \in NextRows(t.issue) THEN "issued"
       ELSE certificateStatus[c]]
  /\ records' = records \cup {RecordOf(x) : x \in t.record}
  /\ aggregates' = [k \in AggregateKeys |->
       IF \E x \in t.aggregates : x.key = k
       THEN WrittenAggregate(CHOOSE x \in t.aggregates : x.key = k, aggregates[k])
       ELSE aggregates[k]]
  /\ alerts' = alerts \cup t.alerts

Commit(w) ==
  /\ txn[w] # Idle
  /\ UniqueRows(txn[w])
  /\ WriteRows(txn[w])
  /\ missed' = missed \ txn[w].event
  /\ overtaken' = overtaken \cup {c \in txn[w].revoke : \E v \in Workers : c \in txn[v].expire}
  /\ txn' = [txn EXCEPT ![w] = Idle]
  /\ UNCHANGED <<today, tunnels>>

Rollback(w) ==
  /\ txn[w] # Idle
  /\ missed' = IF txn[w].kind = "disconnect" THEN missed \cup txn[w].event ELSE missed
  /\ txn' = [txn EXCEPT ![w] = Idle]
  /\ UNCHANGED <<tables, today, tunnels, overtaken>>

NextDay ==
  /\ today + 1 \in Days
  /\ today' = today + 1
  /\ UNCHANGED <<tables, tunnels, missed, overtaken, txn>>

Next ==
  \/ \E s \in Servers, cn \in CommonNames :
       \/ RecordSessionConnect(s, cn)
       \/ \E b \in ByteCounts : RecordSessionDisconnect(s, cn, b)
       \/ LoseConnect(s, cn)
       \/ LoseDisconnect(s, cn)
  \/ \E w \in Admins :
       \/ \E i \in SessionIds : KickSession(w, i)
       \/ \E a \in Accounts :
            \/ \E status \in {"enabled", "disabled"} : SetAccountStatus(w, a, status)
            \/ RevokeAccount(w, a)
       \/ \E s \in Servers, a \in Accounts : IssueCertificate(w, s, a)
       \/ \E c \in Certificates : RevokeCertificate(w, c) \/ RenewCertificate(w, c)
  \/ \E x \in alerts : ProcessTrafficAlert(x)
  \/ \E w \in Workers : Commit(w) \/ Rollback(w)
  \/ NextDay

Spec == Init /\ [][Next]_vars

-----------------------------------------------------------------------------
(* Types *)

SessionRow == [server : Servers, cn : CommonNames, status : {"online", "offline"}]
TrafficRecord ==
  {x \in [session : SUBSET (Nat \ {0}), server : Servers, cn : CommonNames, bytes : Nat,
          day : Days, certificate : SUBSET Certificates] :
     \A c \in x.certificate : c[1] = x.server}
AggregateWrite == [key : AggregateKeys, bytes : Nat, total : Nat, count : Nat, fresh : BOOLEAN]
TrafficAlert == [rule : Rules, period : Periods, actual : Nat,
                 certificate : SUBSET Certificates, status : {"open", "processed"}]
AccountStatuses == {"enabled", "disabled", "revoked"}
CertificateStatuses == {"none", "issued", "expired", "revoked"}
Transaction ==
  [kind : Kinds, event : SUBSET (Servers \X CommonNames), close : SUBSET Nat,
   insert : Seq(SessionRow), clients : SUBSET (Servers \X Nat),
   account : SUBSET (Accounts \X AccountStatuses), revoke : SUBSET Certificates,
   expire : SUBSET Certificates, issue : SUBSET (Servers \X Accounts),
   record : SUBSET TrafficRecord, aggregates : SUBSET AggregateWrite,
   alerts : SUBSET TrafficAlert]

\* Every table holds rows of its columns' types, every request a write set of them.
TypeOK ==
  /\ sessions \in Seq(SessionRow)
  /\ currentClients \in [Servers -> Nat]
  /\ accountStatus \in [Accounts -> AccountStatuses]
  /\ certificateStatus \in [Certificates -> CertificateStatuses]
  /\ records \subseteq TrafficRecord
  /\ aggregates \in [AggregateKeys -> [total : Nat, count : Nat]]
  /\ alerts \subseteq TrafficAlert
  /\ today \in Days
  /\ tunnels \subseteq Servers \X CommonNames
  /\ missed \subseteq Servers \X CommonNames
  /\ overtaken \subseteq Certificates
  /\ txn \in [Workers -> Transaction]

-----------------------------------------------------------------------------
(* Properties *)

\* A common name is online at most once on a server, whatever events are lost and
\* whatever administrators do meanwhile (record_session_connect closes the stale rows).
AtMostOneOnline ==
  \A i, j \in OnlineIds :
    sessions[i].server = sessions[j].server /\ sessions[i].cn = sessions[j].cn => i = j

\* A session is stored as online only while its tunnel is up, unless the event that
\* reported the end of the tunnel was lost, failed or is being handled.
OnlineIsReal ==
  \A i \in OnlineIds :
    LET s == sessions[i].server
        pair == <<s, sessions[i].cn>>
    IN \/ pair \in tunnels \cup missed
       \/ txn[s].kind = "disconnect" /\ i \in txn[s].close

\* Why the two hold: an event in progress will close every session of its common name
\* on its server, closes sessions of that name only, and opens one only over a tunnel.
EventCovers(w) ==
  LET t == txn[w]
  IN \/ t.event = {} /\ t.insert = <<>> /\ t.kind # "disconnect"
     \/ /\ w \in Servers
        /\ \E cn \in CommonNames :
             /\ t.event = {<<w, cn>>}
             /\ OnlineOf(w, cn) \subseteq t.close
             /\ t.close \subseteq {i \in SessionIds : sessions[i].cn = cn}
             /\ \/ t.insert = <<>>
                \/ \E status \in {"online", "offline"} :
                     /\ t.insert = <<[server |-> w, cn |-> cn, status |-> status]>>
                     /\ status = "online" => <<w, cn>> \in tunnels
EventsCover == \A w \in Workers : EventCovers(w)

\* The inductive invariant of the proofs.
IInv == TypeOK /\ AtMostOneOnline /\ OnlineIsReal /\ EventsCover

RecordsFor(k) ==
  {x \in records : /\ k[1] \in DimensionsOf(x.server, x.cn, x.certificate)
                   /\ k[2] \in TrafficPeriods(x.day)}
BytesOf(rs) == MapThenSumSet(LAMBDA x : x.bytes, rs)
Ledger(k) == [total |-> BytesOf(RecordsFor(k)), count |-> Cardinality(RecordsFor(k))]

\* The totals of a server and of a certificate are the sums of their traffic records:
\* no event is counted twice, half counted or overwritten by a concurrent one.
LedgerExact == \A k \in Targets \X Periods : aggregates[k] = Ledger(k)

\* The totals of a department, which events of several servers write concurrently,
\* may lose an update but never exceed the traffic recorded.
DepartmentNeverOvercounts ==
  \A k \in ({"department"} \X Departments) \X Periods :
    LET recorded == Ledger(k)
    IN aggregates[k].total <= recorded.total /\ aggregates[k].count <= recorded.count

\* An alert reports traffic that was recorded and exceeds the threshold of its rule, and
\* every rule exceeded in a period has its alert once the period has a second session
\* (_evaluate_traffic_thresholds sees stored rows only).
AlertsAsExceeded ==
  /\ \A x \in alerts : /\ x.actual > x.rule.threshold
                       /\ x.actual <= Ledger(<<x.rule.target, x.period>>).total
  /\ \A r \in Rules, p \in Periods :
       p[1] = r.period /\ aggregates[<<r.target, p>>].count >= 2
         /\ aggregates[<<r.target, p>>].total > r.threshold => AlertsOf(r, p) # {}

\* Kicks, disables, stale snapshots and lost events never make two events end the same
\* session: every traffic record is of a session of its own, over, of its server and name.
\* So the early return of _record_session_traffic never drops the traffic of an event.
TrafficOncePerSession ==
  \A x \in records :
    /\ \E i \in SessionIds \ OnlineIds :
         x.session = {i} /\ sessions[i].server = x.server /\ sessions[i].cn = x.cn
    /\ \A y \in records : x.session = y.session => x = y

\* The certificate of an alert that disables certificates is revoked, and stays so except
\* under a renewal: renew_certificate writes 'expired' over what it read before the
\* revocation was committed, and it alone does.
AlertedCertificateRevoked ==
  \A x \in alerts : x.rule.action = "disable_certificate" =>
    \A c \in x.certificate : certificateStatus[c] = "revoked" \/ c \in overtaken

\* Why it holds: the request that raises such an alert revokes the certificate with it, and
\* a renewal under way has read its certificate before the revocation.
AlertsRevoke(w) ==
  \A x \in txn[w].alerts : x.rule.action = "disable_certificate" =>
    \A c \in x.certificate :
      c \in txn[w].revoke \/ certificateStatus[c] = "revoked" \/ c \in overtaken
RenewalsOvertaken(w) ==
  \A c \in txn[w].expire : certificateStatus[c] = "revoked" => c \in overtaken
AlertIInv ==
  /\ TypeOK /\ AlertedCertificateRevoked
  /\ \A w \in Workers : AlertsRevoke(w) /\ RenewalsOvertaken(w)
=============================================================================
