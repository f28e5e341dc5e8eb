-------------------------- MODULE VpnSessionProofs --------------------------
(* Theorems about VpnSession, for all values of its constants. *)
EXTENDS VpnSession, FiniteSetTheorems, SequenceTheorems, WellFoundedInduction, TLAPS

-----------------------------------------------------------------------------
(* Types of what the operations write *)

\* The online sessions of a server are a finite set of session ids.
LEMMA ServerOnlineFinite ==
  ASSUME TypeOK, NEW s \in Servers, NEW E \in SUBSET Nat
  PROVE  Cardinality(ServerOnline(s) \ E) \in Nat
<1>1. IsFiniteSet(1..Len(sessions))
  BY FS_Interval DEF TypeOK
<1>2. ServerOnline(s) \ E \subseteq 1..Len(sessions)
  BY DEF TypeOK, ServerOnline, OnlineIds, SessionIds
<1>3. IsFiniteSet(ServerOnline(s) \ E)
  BY <1>1, <1>2, FS_Subset
<1> QED BY <1>3, FS_CardinalityType

\* The write of current_clients is at most one pair of a server and a count.
LEMMA ClientsWriteType ==
  ASSUME TypeOK, NEW s \in Servers, NEW n \in Nat
  PROVE  ClientsWrite(s, n) \in SUBSET (Servers \X Nat)
BY DEF ClientsWrite

\* The write set of no request is a transaction.
LEMMA IdleType == Idle \in Transaction
<1>1. <<>> \in Seq(SessionRow)
  BY EmptySeq
<1> QED BY <1>1 DEF Idle, Transaction, Kinds

\* Session ids are positive.
LEMMA OnlineIdsType ==
  ASSUME TypeOK
  PROVE  OnlineIds \subseteq Nat \ {0}
BY DEF TypeOK, OnlineIds, SessionIds

\* A connect event leaves a transaction.
LEMMA ConnectWritesType ==
  ASSUME TypeOK, NEW s \in Servers, NEW cn \in CommonNames
  PROVE  ConnectWrites(s, cn) \in Transaction
<1> DEFINE row == [server |-> s, cn |-> cn, status |-> "online"]
           n == Cardinality(ServerOnline(s)) + 1
<1>1. <<row>> \in Seq(SessionRow)
  BY DEF SessionRow
<1>2. n \in Nat
  <2>1. Cardinality(ServerOnline(s) \ {}) \in Nat
    BY ServerOnlineFinite
  <2>2. ServerOnline(s) \ {} = ServerOnline(s)
    OBVIOUS
  <2>3. Cardinality(ServerOnline(s)) \in Nat
    BY <2>1, <2>2
  <2> QED BY <2>3 DEF n
<1>3. ClientsWrite(s, n) \in SUBSET (Servers \X Nat)
  BY <1>2, ClientsWriteType
<1>4. OnlineOf(s, cn) \in SUBSET Nat
  BY OnlineIdsType DEF OnlineOf
<1>5. <<s, cn>> \in Servers \X CommonNames
  OBVIOUS
<1> HIDE DEF row, n
<1> QED BY <1>1, <1>3, <1>4, <1>5, IdleType DEF ConnectWrites, Transaction, Kinds, row, n

\* The period of a rule on a day is one of the two periods of that day.
LEMMA PeriodOfType ==
  ASSUME NEW r \in Rules, NEW d \in Days
  PROVE  PeriodOf(r, d) \in TrafficPeriods(d) /\ PeriodOf(r, d)[1] = r.period
<1>1. r.period \in {"day", "month"}
  BY RulesAssumption
<1>2. \E p \in TrafficPeriods(d) : p[1] = r.period
  BY <1>1 DEF TrafficPeriods
<1> QED BY <1>2 DEF PeriodOf

\* The certificate of an event is one of its server and its account.
LEMMA SessionCertificateType ==
  ASSUME NEW s, NEW cn
  PROVE  /\ SessionCertificate(s, cn) \in SUBSET Certificates
         /\ \A c \in SessionCertificate(s, cn) : c[1] = s
BY DEF SessionCertificate, StoredOf, CertificatesOf

\* The rows of a session are keys of the aggregates table.
LEMMA KeysType ==
  ASSUME NEW s \in Servers, NEW cn \in CommonNames, NEW d \in Days,
         NEW held \in SUBSET Certificates
  PROVE  /\ DimensionsOf(s, cn, held) \subseteq Dimensions
         /\ TrafficPeriods(d) \subseteq Periods
         /\ DimensionsOf(s, cn, held) \X TrafficPeriods(d) \subseteq AggregateKeys
<1>1. DimensionsOf(s, cn, held) \subseteq Dimensions
  BY AccountsAssumption DEF DimensionsOf, Dimensions, Targets
<1>2. TrafficPeriods(d) \subseteq Periods
  BY CalendarAssumption DEF TrafficPeriods, Periods
<1> QED BY <1>1, <1>2 DEF AggregateKeys

\* What a threshold is compared with is a number of bytes.
LEMMA EvaluatedBytesType ==
  ASSUME TypeOK, NEW k \in AggregateKeys, NEW b \in Nat
  PROVE  EvaluatedBytes(k, b) \in Nat
BY DEF TypeOK, EvaluatedBytes

\* The aggregate rows and the alerts a disconnect event writes are rows of their tables.
LEMMA TrafficWritesType ==
  ASSUME TypeOK, NEW s \in Servers, NEW cn \in CommonNames, NEW b \in ByteCounts
  PROVE  /\ AggregateWrites(s, cn, b) \in SUBSET AggregateWrite
         /\ AlertWrites(s, cn, b) \in SUBSET TrafficAlert
<1>1. b \in Nat /\ today \in Days
  BY BytesAssumption DEF TypeOK
<1>a. SessionCertificate(s, cn) \in SUBSET Certificates
  BY SessionCertificateType
<1>b. EventDimensions(s, cn) \X TrafficPeriods(today) \subseteq AggregateKeys
      /\ TrafficPeriods(today) \subseteq Periods
  BY <1>1, <1>a, KeysType DEF EventDimensions
<1>2. AggregateWrites(s, cn, b) \in SUBSET AggregateWrite
  <2> SUFFICES ASSUME NEW k \in EventDimensions(s, cn) \X TrafficPeriods(today)
               PROVE  [key |-> k, bytes |-> b, total |-> aggregates[k].total + b,
                       count |-> aggregates[k].count + 1, fresh |-> aggregates[k].count = 0]
                        \in AggregateWrite
    BY DEF AggregateWrites
  <2>1. k \in AggregateKeys
    BY <1>b
  <2>2. aggregates[k].total + b \in Nat /\ aggregates[k].count + 1 \in Nat
    BY <1>1, <2>1 DEF TypeOK
  <2> QED BY <1>1, <2>1, <2>2 DEF AggregateWrite
<1>3. AlertWrites(s, cn, b) \in SUBSET TrafficAlert
  <2> SUFFICES ASSUME NEW r \in ExceededRules(s, cn, b)
               PROVE  [rule |-> r, period |-> PeriodOf(r, today),
                       actual |-> EvaluatedBytes(<<r.target, PeriodOf(r, today)>>, b),
                       certificate |-> SessionCertificate(s, cn), status |-> "open"]
                        \in TrafficAlert
    BY DEF AlertWrites
  <2>1. r \in Rules /\ r.target \in EventDimensions(s, cn)
    BY DEF ExceededRules
  <2>2. PeriodOf(r, today) \in TrafficPeriods(today)
    BY <1>1, <2>1, PeriodOfType
  <2>3. <<r.target, PeriodOf(r, today)>> \in AggregateKeys /\ PeriodOf(r, today) \in Periods
    BY <1>b, <2>1, <2>2
  <2>4. EvaluatedBytes(<<r.target, PeriodOf(r, today)>>, b) \in Nat
    BY <1>1, <2>3, EvaluatedBytesType
  <2> QED BY <1>a, <2>1, <2>3, <2>4 DEF TrafficAlert
<1> QED BY <1>2, <1>3

\* A disconnect event leaves a transaction.
LEMMA DisconnectWritesType ==
  ASSUME TypeOK, NEW s \in Servers, NEW cn \in CommonNames, NEW b \in ByteCounts
  PROVE  DisconnectWrites(s, cn, b) \in Transaction
<1> DEFINE ended == LatestOf(OnlineOf(s, cn))
           disabled == DisabledByThreshold(s, cn, b)
           closed == IF disabled = {} THEN ended ELSE ended \cup OnlineOfAccount(cn)
           inserted == IF ended # {} THEN <<>>
                       ELSE <<[server |-> s, cn |-> cn, status |-> "offline"]>>
           n == Cardinality(ServerOnline(s) \ ended)
           record == [session |-> ended, server |-> s, cn |-> cn, bytes |-> b, day |-> today,
                      certificate |-> SessionCertificate(s, cn)]
<1>1. ended \in SUBSET (Nat \ {0}) /\ closed \in SUBSET Nat
  BY OnlineIdsType DEF LatestOf, OnlineOf, OnlineOfAccount
<1>2. inserted \in Seq(SessionRow)
  <2>1. <<>> \in Seq(SessionRow)
    BY EmptySeq
  <2>2. <<[server |-> s, cn |-> cn, status |-> "offline"]>> \in Seq(SessionRow)
    BY DEF SessionRow
  <2> QED BY <2>1, <2>2
<1>3. ClientsWrite(s, n) \in SUBSET (Servers \X Nat)
  <2>1. n \in Nat
    BY <1>1, ServerOnlineFinite
  <2> QED BY <2>1, ClientsWriteType
<1>4. disabled \in SUBSET Certificates
  BY SessionCertificateType DEF DisabledByThreshold
<1>5. record \in TrafficRecord
  BY <1>1, BytesAssumption, SessionCertificateType DEF TrafficRecord, TypeOK
<1>6. AggregateWrites(s, cn, b) \in SUBSET AggregateWrite
      /\ AlertWrites(s, cn, b) \in SUBSET TrafficAlert
  BY TrafficWritesType
<1> DEFINE ending == [Idle EXCEPT !.kind = "disconnect", !.event = {<<s, cn>>},
                                  !.close = closed, !.insert = inserted,
                                  !.clients = ClientsWrite(s, n)]
<1>7. DisconnectWrites(s, cn, b) =
        [ending EXCEPT !.revoke = disabled, !.record = {record},
                       !.aggregates = AggregateWrites(s, cn, b),
                       !.alerts = AlertWrites(s, cn, b)]
  BY DEF DisconnectWrites, Idle
<1> HIDE DEF ended, disabled, closed, inserted, n, record
<1>8. <<s, cn>> \in Servers \X CommonNames
  OBVIOUS
<1>9. ending \in Transaction
  BY <1>1, <1>2, <1>3, <1>8, IdleType DEF Transaction, Kinds
<1> HIDE DEF ending
<1>10. [ending EXCEPT !.revoke = disabled, !.record = {record}] \in Transaction
  BY <1>4, <1>5, <1>9 DEF Transaction
<1>11. DisconnectWrites(s, cn, b) =
         [[ending EXCEPT !.revoke = disabled, !.record = {record}]
            EXCEPT !.aggregates = AggregateWrites(s, cn, b), !.alerts = AlertWrites(s, cn, b)]
  BY <1>7, <1>9 DEF Transaction
<1> QED BY <1>6, <1>10, <1>11 DEF Transaction

\* A kick leaves a transaction.
LEMMA KickWritesType ==
  ASSUME TypeOK, NEW i \in OnlineIds
  PROVE  KickWrites(i) \in Transaction
<1> DEFINE s == sessions[i].server
           n == Cardinality(ServerOnline(s))
<1>1. i \in Nat /\ s \in Servers
  <2>1. i \in 1..Len(sessions)
    BY DEF TypeOK, OnlineIds, SessionIds
  <2>2. sessions[i] \in SessionRow
    BY <2>1, ElementOfSeq DEF TypeOK
  <2> QED BY <2>1, <2>2 DEF SessionRow
<1>2. ClientsWrite(s, n) \in SUBSET (Servers \X Nat)
  <2>1. Cardinality(ServerOnline(s) \ {}) \in Nat
    BY <1>1, ServerOnlineFinite
  <2>2. ServerOnline(s) \ {} = ServerOnline(s)
    OBVIOUS
  <2>3. Cardinality(ServerOnline(s)) \in Nat
    BY <2>1, <2>2
  <2> QED BY <1>1, <2>3, ClientsWriteType DEF n
<1> HIDE DEF n
<1> QED BY <1>1, <1>2, IdleType DEF KickWrites, Transaction, Kinds, n

\* A change of an account, with a certificate revoked or not, leaves a transaction.
LEMMA AccountWritesType ==
  ASSUME TypeOK, NEW a \in Accounts, NEW status \in AccountStatuses,
         NEW chosen \in SUBSET Certificates
  PROVE  /\ AccountWrites(a, status) \in Transaction
         /\ [AccountWrites(a, status) EXCEPT !.revoke = chosen] \in Transaction
<1>1. OnlineOfAccount(a) \in SUBSET Nat
  BY OnlineIdsType DEF OnlineOfAccount
<1>2. AccountWrites(a, status) \in Transaction
  <2> DEFINE closed == IF status = "enabled" THEN {} ELSE OnlineOfAccount(a)
             changed == {<<a, status>>} \ {<<a, accountStatus[a]>>}
  <2>1. closed \in SUBSET Nat /\ changed \in SUBSET (Accounts \X AccountStatuses)
    BY <1>1
  <2>2. AccountWrites(a, status) =
          [Idle EXCEPT !.kind = "account", !.account = changed, !.close = closed]
    BY Zenon DEF AccountWrites
  <2> HIDE DEF closed, changed
  <2> QED BY <2>1, <2>2, IdleType DEF Transaction, Kinds
<1> QED BY <1>2 DEF Transaction

\* The revocation of a certificate leaves a transaction.
LEMMA CertificateWritesType ==
  ASSUME NEW c \in Certificates
  PROVE  [Idle EXCEPT !.kind = "certificate", !.revoke = {c}] \in Transaction
BY IdleType DEF Transaction, Kinds

\* So do an issue and a renewal.
LEMMA IssueWritesType ==
  ASSUME NEW s \in Servers, NEW a \in Accounts
  PROVE  [Idle EXCEPT !.kind = "certificate", !.issue = {<<s, a>>}] \in Transaction
<1>1. {<<s, a>>} \in SUBSET (Servers \X Accounts)
  OBVIOUS
<1> QED BY <1>1, IdleType DEF Transaction, Kinds
LEMMA RenewWritesType ==
  ASSUME NEW c \in Certificates
  PROVE  RenewWrites(c) \in Transaction
<1> DEFINE expired == {d \in {c} : certificateStatus[d] # "expired"}
           pairs == {<<c[1], c[2]>>}
<1>1. expired \in SUBSET Certificates
  OBVIOUS
<1>2. pairs \in SUBSET (Servers \X Accounts)
  BY AccountsAssumption
<1>3. RenewWrites(c) = [Idle EXCEPT !.kind = "certificate", !.issue = pairs, !.expire = expired]
  BY Zenon DEF RenewWrites
<1> HIDE DEF expired, pairs
<1> QED BY <1>1, <1>2, <1>3, IdleType DEF Transaction, Kinds

\* The three touch sessions, traffic and alerts of no event, and what a renewal expires was
\* not revoked when it was read.
LEMMA CertificateRequest ==
  ASSUME NEW w \in Admins,
         \/ \E s \in Servers, a \in Accounts : IssueCertificate(w, s, a)
         \/ \E c \in Certificates : RevokeCertificate(w, c) \/ RenewCertificate(w, c)
  PROVE  \E t \in Transaction :
           /\ t.event = {} /\ t.insert = <<>> /\ t.kind = "certificate"
           /\ t.record = {} /\ t.aggregates = {} /\ t.alerts = {}
           /\ \A c \in t.expire : certificateStatus[c] # "revoked"
           /\ txn' = [txn EXCEPT ![w] = t]
           /\ UNCHANGED <<tables, tunnels, missed, overtaken>>
<1>1. ASSUME NEW s \in Servers, NEW a \in Accounts, IssueCertificate(w, s, a)
      PROVE  \E t \in Transaction :
               /\ t.event = {} /\ t.insert = <<>> /\ t.kind = "certificate"
               /\ t.record = {} /\ t.aggregates = {} /\ t.alerts = {} /\ t.expire = {}
               /\ txn' = [txn EXCEPT ![w] = t]
               /\ UNCHANGED <<tables, tunnels, missed, overtaken>>
  <2> DEFINE t == [Idle EXCEPT !.kind = "certificate", !.issue = {<<s, a>>}]
  <2>1. t \in Transaction
    BY IssueWritesType
  <2>2. /\ t.event = {} /\ t.insert = <<>> /\ t.kind = "certificate"
        /\ t.record = {} /\ t.aggregates = {} /\ t.alerts = {} /\ t.expire = {}
    BY DEF Idle
  <2>3. txn' = [txn EXCEPT ![w] = t] /\ UNCHANGED <<tables, tunnels, missed, overtaken>>
    BY <1>1 DEF IssueCertificate
  <2> HIDE DEF t
  <2> QED BY <2>1, <2>2, <2>3
<1>2. ASSUME NEW c \in Certificates, RevokeCertificate(w, c)
      PROVE  \E t \in Transaction :
               /\ t.event = {} /\ t.insert = <<>> /\ t.kind = "certificate"
               /\ t.record = {} /\ t.aggregates = {} /\ t.alerts = {} /\ t.expire = {}
               /\ txn' = [txn EXCEPT ![w] = t]
               /\ UNCHANGED <<tables, tunnels, missed, overtaken>>
  <2> DEFINE t == [Idle EXCEPT !.kind = "certificate", !.revoke = {c}]
  <2>1. t \in Transaction
    BY CertificateWritesType
  <2>2. /\ t.event = {} /\ t.insert = <<>> /\ t.kind = "certificate"
        /\ t.record = {} /\ t.aggregates = {} /\ t.alerts = {} /\ t.expire = {}
    BY DEF Idle
  <2>3. txn' = [txn EXCEPT ![w] = t] /\ UNCHANGED <<tables, tunnels, missed, overtaken>>
    BY <1>2 DEF RevokeCertificate
  <2> HIDE DEF t
  <2> QED BY <2>1, <2>2, <2>3
<1>3. ASSUME NEW c \in Certificates, RenewCertificate(w, c)
      PROVE  /\ RenewWrites(c) \in Transaction
             /\ RenewWrites(c).event = {} /\ RenewWrites(c).insert = <<>>
             /\ RenewWrites(c).kind = "certificate" /\ RenewWrites(c).record = {}
             /\ RenewWrites(c).aggregates = {} /\ RenewWrites(c).alerts = {}
             /\ \A d \in RenewWrites(c).expire : certificateStatus[d] # "revoked"
             /\ txn' = [txn EXCEPT ![w] = RenewWrites(c)]
             /\ UNCHANGED <<tables, tunnels, missed, overtaken>>
  <2>1. RenewWrites(c) \in Transaction
    BY RenewWritesType
  <2>2. /\ RenewWrites(c).event = {} /\ RenewWrites(c).insert = <<>>
        /\ RenewWrites(c).kind = "certificate" /\ RenewWrites(c).record = {}
        /\ RenewWrites(c).aggregates = {} /\ RenewWrites(c).alerts = {}
        /\ RenewWrites(c).expire \subseteq {c}
    BY DEF RenewWrites, Idle
  <2>3. /\ certificateStatus[c] # "revoked" /\ txn' = [txn EXCEPT ![w] = RenewWrites(c)]
        /\ UNCHANGED <<tables, tunnels, missed, overtaken>>
    BY <1>3 DEF RenewCertificate
  <2> QED BY <2>1, <2>2, <2>3
<1> QED BY <1>1, <1>2, <1>3

-----------------------------------------------------------------------------
(* Types of what a commit stores *)

\* The sessions after a commit: the same ids, some of them closed, then the inserted rows.
LEMMA ClosedSessionsType ==
  ASSUME TypeOK, NEW ids \in SUBSET Nat
  PROVE  /\ ClosedSessions(ids) \in Seq(SessionRow)
         /\ Len(ClosedSessions(ids)) = Len(sessions)
<1>1. DOMAIN sessions = 1..Len(sessions) /\ Len(sessions) \in Nat
  BY DEF TypeOK
<1>2. \A i \in 1..Len(sessions) : sessions[i] \in SessionRow
  BY DEF TypeOK
<1>3. ClosedSessions(ids) \in [1..Len(sessions) -> SessionRow]
  BY <1>1, <1>2 DEF ClosedSessions, SessionIds, SessionRow
<1> QED BY <1>1, <1>3, SeqDef, LenProperties

\* Writing the rows of a transaction keeps the type of every table.
LEMMA WriteRowsType ==
  ASSUME TypeOK, NEW t \in Transaction, WriteRows(t)
  PROVE  /\ sessions' \in Seq(SessionRow)
         /\ currentClients' \in [Servers -> Nat]
         /\ accountStatus' \in [Accounts -> AccountStatuses]
         /\ certificateStatus' \in [Certificates -> CertificateStatuses]
         /\ records' \subseteq TrafficRecord
         /\ aggregates' \in [AggregateKeys -> [total : Nat, count : Nat]]
         /\ alerts' \subseteq TrafficAlert
<1>1. sessions' \in Seq(SessionRow)
  <2>1. ClosedSessions(t.close) \in Seq(SessionRow)
    BY ClosedSessionsType DEF Transaction
  <2>2. t.insert \in Seq(SessionRow)
    BY DEF Transaction
  <2> QED BY <2>1, <2>2, ConcatProperties DEF WriteRows
<1>2. currentClients' \in [Servers -> Nat]
  BY DEF WriteRows, Transaction, TypeOK
<1>3. accountStatus' \in [Accounts -> AccountStatuses]
  BY DEF WriteRows, Transaction, TypeOK
<1>4. certificateStatus' \in [Certificates -> CertificateStatuses]
  BY DEF WriteRows, TypeOK, CertificateStatuses
<1>5. records' \subseteq TrafficRecord
  <2> SUFFICES ASSUME NEW x \in t.record
               PROVE  RecordOf(x) \in TrafficRecord
    BY DEF WriteRows, TypeOK
  <2>1. x \in TrafficRecord
    BY DEF Transaction
  <2>2. Len(sessions) + 1 \in Nat \ {0}
    BY DEF TypeOK
  <2> QED BY <2>1, <2>2 DEF RecordOf, TrafficRecord
<1>6. aggregates' \in [AggregateKeys -> [total : Nat, count : Nat]]
  <2>1. t.aggregates \subseteq AggregateWrite
    BY DEF Transaction
  <2>2. ASSUME NEW x \in AggregateWrite, NEW k \in AggregateKeys
        PROVE  WrittenAggregate(x, aggregates[k]) \in [total : Nat, count : Nat]
    BY DEF WrittenAggregate, AggregateWrite, TypeOK
  <2> QED BY <2>1, <2>2 DEF WriteRows, TypeOK
<1>7. alerts' \subseteq TrafficAlert
  BY DEF WriteRows, Transaction, TypeOK
<1> QED BY <1>1, <1>2, <1>3, <1>4, <1>5, <1>6, <1>7

\* A row of a concatenation is a row of its left or of its right part.
LEMMA ConcatRows ==
  ASSUME NEW p \in Seq(SessionRow), NEW q \in Seq(SessionRow)
  PROVE  /\ p \o q \in Seq(SessionRow)
         /\ Len(p \o q) = Len(p) + Len(q)
         /\ \A i \in 1..(Len(p) + Len(q)) :
              (p \o q)[i] = IF i <= Len(p) THEN p[i] ELSE q[i - Len(p)]
BY ConcatProperties, Zenon

\* After a commit every stored session is an old one, closed if it was to be, or the one
\* row the request inserted, under the next id.
LEMMA SessionsAfterCommit ==
  ASSUME TypeOK, NEW t \in Transaction, WriteRows(t),
         \/ t.insert = <<>>
         \/ \E row \in SessionRow : t.insert = <<row>>
  PROVE  /\ SessionIds \subseteq SessionIds'
         /\ \A i \in SessionIds :
              sessions'[i] = IF i \in t.close THEN [sessions[i] EXCEPT !.status = "offline"]
                             ELSE sessions[i]
         /\ \A i \in SessionIds' \ SessionIds :
              i = Len(sessions) + 1 /\ t.insert = <<sessions'[i]>>
<1> DEFINE closed == ClosedSessions(t.close)
<1>1. closed \in Seq(SessionRow) /\ Len(closed) = Len(sessions)
  BY ClosedSessionsType DEF Transaction
<1>2. t.insert \in Seq(SessionRow) /\ Len(t.insert) \in {0, 1}
  BY DEF Transaction
<1>3. sessions' = closed \o t.insert
  BY DEF WriteRows
<1>4. SessionIds = 1..Len(sessions) /\ Len(sessions) \in Nat
  BY DEF TypeOK, SessionIds
<1>5. \A i \in SessionIds :
        closed[i] = IF i \in t.close THEN [sessions[i] EXCEPT !.status = "offline"]
                    ELSE sessions[i]
  BY DEF ClosedSessions, SessionIds
<1> HIDE DEF closed
<1>6. /\ sessions' \in Seq(SessionRow)
      /\ Len(sessions') = Len(closed) + Len(t.insert)
      /\ \A i \in 1..(Len(closed) + Len(t.insert)) :
           sessions'[i] = IF i <= Len(closed) THEN closed[i] ELSE t.insert[i - Len(closed)]
  <2>1. /\ closed \o t.insert \in Seq(SessionRow)
        /\ Len(closed \o t.insert) = Len(closed) + Len(t.insert)
        /\ \A i \in 1..(Len(closed) + Len(t.insert)) :
             (closed \o t.insert)[i] =
               IF i <= Len(closed) THEN closed[i] ELSE t.insert[i - Len(closed)]
    BY <1>1, <1>2, ConcatRows
  <2> QED BY <1>3, <2>1, Zenon
<1>7. SessionIds' = 1..Len(sessions')
  BY <1>6 DEF SessionIds
<1>8. SessionIds \subseteq SessionIds'
  BY <1>1, <1>2, <1>4, <1>6, <1>7
<1>9. \A i \in SessionIds : sessions'[i] = closed[i]
  BY <1>1, <1>2, <1>4, <1>6
<1>10. ASSUME NEW i \in SessionIds' \ SessionIds
       PROVE  i = Len(sessions) + 1 /\ t.insert = <<sessions'[i]>>
  <2>1. i = Len(sessions) + 1 /\ Len(t.insert) = 1
    BY <1>1, <1>2, <1>4, <1>6, <1>7
  <2>2. sessions'[i] = t.insert[1]
    BY <1>1, <1>2, <1>4, <1>6, <2>1
  <2>3. t.insert # <<>>
    BY <2>1
  <2> QED BY <2>1, <2>2, <2>3
<1> QED BY <1>5, <1>8, <1>9, <1>10

\* What a request inserts is nothing or one row.
LEMMA InsertsOne ==
  ASSUME EventsCover, NEW w \in Workers
  PROVE  \/ txn[w].insert = <<>>
         \/ \E row \in SessionRow : txn[w].insert = <<row>>
<1>1. EventCovers(w)
  BY DEF EventsCover
<1>2. CASE txn[w].insert = <<>>
  BY <1>2
<1>3. CASE w \in Servers /\ \E cn \in CommonNames, status \in {"online", "offline"} :
             txn[w].insert = <<[server |-> w, cn |-> cn, status |-> status]>>
  BY <1>3 DEF SessionRow
<1> QED BY <1>1, <1>2, <1>3 DEF EventCovers

-----------------------------------------------------------------------------
(* The type invariant *)

\* The initial tables are empty and no request runs.
LEMMA TypeInit == Init => TypeOK
<1> SUFFICES ASSUME Init PROVE TypeOK
  OBVIOUS
<1>1. <<>> \in Seq(SessionRow)
  BY EmptySeq
<1> QED BY <1>1, IdleType, CalendarAssumption DEF Init, TypeOK, AccountStatuses,
                                                  CertificateStatuses

\* Every step keeps the types.
LEMMA TypeNext == TypeOK /\ [Next]_vars => TypeOK'
<1> SUFFICES ASSUME TypeOK, [Next]_vars PROVE TypeOK'
  OBVIOUS
<1> USE DEF tables
<1>1. ASSUME NEW w \in Workers, NEW t \in Transaction, txn' = [txn EXCEPT ![w] = t]
      PROVE  txn' \in [Workers -> Transaction]
  BY <1>1 DEF TypeOK
<1>2. ASSUME NEW s \in Servers, NEW cn \in CommonNames, RecordSessionConnect(s, cn)
      PROVE  TypeOK'
  <2>1. txn' \in [Workers -> Transaction]
    BY <1>1, <1>2, ConnectWritesType DEF RecordSessionConnect, Workers
  <2> QED BY <1>2, <2>1 DEF RecordSessionConnect, TypeOK
<1>3. ASSUME NEW s \in Servers, NEW cn \in CommonNames, NEW b \in ByteCounts,
             RecordSessionDisconnect(s, cn, b)
      PROVE  TypeOK'
  <2>1. txn' \in [Workers -> Transaction]
    BY <1>1, <1>3, DisconnectWritesType DEF RecordSessionDisconnect, Workers
  <2> QED BY <1>3, <2>1 DEF RecordSessionDisconnect, TypeOK
<1>4. ASSUME NEW s \in Servers, NEW cn \in CommonNames,
             LoseConnect(s, cn) \/ LoseDisconnect(s, cn)
      PROVE  TypeOK'
  BY <1>4 DEF LoseConnect, LoseDisconnect, TypeOK
<1>5. ASSUME NEW w \in Admins, NEW i \in SessionIds, KickSession(w, i)
      PROVE  TypeOK'
  <2>1. txn' \in [Workers -> Transaction]
    BY <1>1, <1>5, KickWritesType DEF KickSession, Workers
  <2> QED BY <1>5, <2>1 DEF KickSession, TypeOK
<1>6. ASSUME NEW w \in Admins, NEW a \in Accounts, NEW status \in {"enabled", "disabled"},
             SetAccountStatus(w, a, status)
      PROVE  TypeOK'
  <2>1. txn' \in [Workers -> Transaction]
    BY <1>1, <1>6, AccountWritesType DEF SetAccountStatus, Workers, AccountStatuses
  <2> QED BY <1>6, <2>1 DEF SetAccountStatus, TypeOK
<1>7. ASSUME NEW w \in Admins, NEW a \in Accounts, RevokeAccount(w, a)
      PROVE  TypeOK'
  <2>1. PICK chosen \in SUBSET Certificates :
          txn' = [txn EXCEPT ![w] = [AccountWrites(a, "revoked") EXCEPT !.revoke = chosen]]
    BY <1>7 DEF RevokeAccount
  <2>2. [AccountWrites(a, "revoked") EXCEPT !.revoke = chosen] \in Transaction
    BY AccountWritesType DEF AccountStatuses
  <2>3. txn' \in [Workers -> Transaction]
    BY <1>1, <2>1, <2>2 DEF Workers
  <2> QED BY <1>7, <2>3 DEF RevokeAccount, TypeOK
<1>8. ASSUME NEW w \in Admins, NEW c \in Certificates, RevokeCertificate(w, c)
      PROVE  TypeOK'
  <2>1. txn' \in [Workers -> Transaction]
    BY <1>1, <1>8, CertificateWritesType DEF RevokeCertificate, Workers
  <2> QED BY <1>8, <2>1 DEF RevokeCertificate, TypeOK
<1>8a. ASSUME NEW w \in Admins, NEW s \in Servers, NEW a \in Accounts, IssueCertificate(w, s, a)
       PROVE  TypeOK'
  <2>1. txn' \in [Workers -> Transaction]
    BY <1>1, <1>8a, IssueWritesType DEF IssueCertificate, Workers
  <2> QED BY <1>8a, <2>1 DEF IssueCertificate, TypeOK
<1>8b. ASSUME NEW w \in Admins, NEW c \in Certificates, RenewCertificate(w, c)
       PROVE  TypeOK'
  <2>1. txn' \in [Workers -> Transaction]
    BY <1>1, <1>8b, RenewWritesType DEF RenewCertificate, Workers
  <2> QED BY <1>8b, <2>1 DEF RenewCertificate, TypeOK
<1>9. ASSUME NEW x \in alerts, ProcessTrafficAlert(x)
      PROVE  TypeOK'
  <2>1. [x EXCEPT !.status = "processed"] \in TrafficAlert
    BY DEF TypeOK, TrafficAlert
  <2> QED BY <1>9, <2>1 DEF ProcessTrafficAlert, TypeOK
<1>10. ASSUME NEW w \in Workers, Commit(w)
       PROVE  TypeOK'
  <2>1. txn[w] \in Transaction
    BY DEF TypeOK
  <2>2. txn' \in [Workers -> Transaction]
    BY <1>1, <1>10, IdleType DEF Commit
  <2>3. today' \in Days /\ tunnels' \subseteq Servers \X CommonNames
          /\ missed' \subseteq Servers \X CommonNames /\ overtaken' \subseteq Certificates
    BY <1>10, <2>1 DEF Commit, TypeOK, Transaction
  <2> QED BY <1>10, <2>1, <2>2, <2>3, WriteRowsType DEF Commit, TypeOK
<1>11. ASSUME NEW w \in Workers, Rollback(w)
       PROVE  TypeOK'
  <2>1. txn' \in [Workers -> Transaction]
    BY <1>1, <1>11, IdleType DEF Rollback
  <2>2. missed' \subseteq Servers \X CommonNames
    BY <1>11 DEF Rollback, TypeOK, Transaction
  <2> QED BY <1>11, <2>1, <2>2 DEF Rollback, TypeOK
<1>12. ASSUME NextDay PROVE TypeOK'
  BY <1>12 DEF NextDay, TypeOK
<1>13. ASSUME UNCHANGED vars PROVE TypeOK'
  BY <1>13 DEF vars, TypeOK
<1> QED BY <1>2, <1>3, <1>4, <1>5, <1>6, <1>7, <1>8, <1>8a, <1>8b, <1>9, <1>10, <1>11, <1>12,
           <1>13 DEF Next

\* Every table always holds rows of its columns' types.
THEOREM TypeInvariant == Spec => []TypeOK
BY TypeInit, TypeNext, PTL DEF Spec

-----------------------------------------------------------------------------
(* Sessions: one online row per server and common name, and it is real *)

\* The row of an online session.
LEMMA OnlineRow ==
  ASSUME TypeOK, NEW i \in OnlineIds
  PROVE  i \in SessionIds /\ sessions[i] \in SessionRow /\ sessions[i].status = "online"
<1>1. i \in SessionIds /\ sessions[i].status = "online"
  BY DEF OnlineIds
<1>2. i \in 1..Len(sessions)
  BY <1>1 DEF TypeOK, SessionIds
<1> QED BY <1>1, <1>2, ElementOfSeq DEF TypeOK

\* No session, tunnel or request exists initially.
LEMMA SafeInit == Init => AtMostOneOnline /\ OnlineIsReal /\ EventsCover
<1> SUFFICES ASSUME Init PROVE AtMostOneOnline /\ OnlineIsReal /\ EventsCover
  OBVIOUS
<1>1. OnlineIds = {}
  BY DEF Init, OnlineIds, SessionIds
<1> QED BY <1>1 DEF Init, AtMostOneOnline, OnlineIsReal, EventsCover, EventCovers, Idle

\* A request of an administrator changes no session before it commits.
LEMMA AdminRequest ==
  ASSUME IInv, NEW w \in Admins, NEW t \in Transaction,
         t.event = {}, t.insert = <<>>, t.kind # "disconnect",
         txn' = [txn EXCEPT ![w] = t], UNCHANGED <<sessions, tunnels, missed>>
  PROVE  AtMostOneOnline' /\ OnlineIsReal' /\ EventsCover'
<1>1. SessionIds' = SessionIds /\ OnlineIds' = OnlineIds
  BY DEF SessionIds, OnlineIds
<1>2. AtMostOneOnline'
  BY <1>1 DEF IInv, AtMostOneOnline
<1>3. \A v \in Workers : txn'[v] = IF v = w THEN t ELSE txn[v]
  BY DEF IInv, TypeOK
<1>4. OnlineIsReal'
  <2> SUFFICES ASSUME NEW i \in OnlineIds
               PROVE  \/ <<sessions[i].server, sessions[i].cn>> \in tunnels \cup missed
                      \/ /\ txn'[sessions[i].server].kind = "disconnect"
                         /\ i \in txn'[sessions[i].server].close
    BY <1>1 DEF OnlineIsReal
  <2>1. sessions[i].server \in Workers /\ sessions[i].server # w
    BY OnlineRow, WorkersAssumption DEF IInv, SessionRow, Workers
  <2> QED BY <1>3, <2>1 DEF IInv, OnlineIsReal
<1>5. EventsCover'
  <2> SUFFICES ASSUME NEW v \in Workers PROVE EventCovers(v)'
    BY DEF EventsCover
  <2>1. EventCovers(v)
    BY DEF IInv, EventsCover
  <2>2. CASE v = w
    BY <1>3, <2>2 DEF EventCovers
  <2>3. CASE v # w
    <3>1. txn'[v] = txn[v]
      BY <1>3, <2>3
    <3> QED BY <1>1, <2>1, <3>1 DEF EventCovers, OnlineOf
  <2> QED BY <2>2, <2>3
<1> QED BY <1>2, <1>4, <1>5

\* An event in progress on another server keeps what EventCovers says of it when the
\* tunnels of this server change.
LEMMA OtherServersCover ==
  ASSUME EventsCover, NEW s \in Servers, NEW v \in Workers \ {s},
         txn'[v] = txn[v], UNCHANGED sessions,
         \A cn \in CommonNames : <<v, cn>> \in tunnels => <<v, cn>> \in tunnels'
  PROVE  EventCovers(v)'
<1>1. EventCovers(v)
  BY DEF EventsCover
<1>2. SessionIds' = SessionIds /\ OnlineIds' = OnlineIds
  BY DEF SessionIds, OnlineIds
<1> QED BY <1>1, <1>2 DEF EventCovers, OnlineOf

\* Taking a connect event.
LEMMA ConnectRequest ==
  ASSUME IInv, NEW s \in Servers, NEW cn \in CommonNames, RecordSessionConnect(s, cn)
  PROVE  AtMostOneOnline' /\ OnlineIsReal' /\ EventsCover'
<1> USE DEF tables
<1> DEFINE t == ConnectWrites(s, cn)
<1>1. SessionIds' = SessionIds /\ OnlineIds' = OnlineIds
  BY DEF RecordSessionConnect, SessionIds, OnlineIds
<1>2. AtMostOneOnline'
  BY <1>1 DEF IInv, AtMostOneOnline, RecordSessionConnect
<1>3. \A v \in Workers : txn'[v] = IF v = s THEN t ELSE txn[v]
  BY DEF IInv, TypeOK, RecordSessionConnect
<1>4. /\ t.event = {<<s, cn>>} /\ t.close = OnlineOf(s, cn)
      /\ t.insert = <<[server |-> s, cn |-> cn, status |-> "online"]>>
  BY DEF ConnectWrites, Idle
<1> HIDE DEF t
<1>5. txn[s] = Idle /\ Idle.kind = "none" /\ s \in Workers
  BY DEF RecordSessionConnect, Idle, Workers
<1>6. OnlineIsReal'
  <2> SUFFICES ASSUME NEW i \in OnlineIds
               PROVE  \/ <<sessions[i].server, sessions[i].cn>> \in tunnels' \cup missed'
                      \/ /\ txn'[sessions[i].server].kind = "disconnect"
                         /\ i \in txn'[sessions[i].server].close
    BY <1>1 DEF OnlineIsReal, RecordSessionConnect
  <2>1. sessions[i].server \in Workers
    BY OnlineRow DEF IInv, SessionRow, Workers
  <2> QED BY <1>3, <1>5, <2>1 DEF IInv, OnlineIsReal, RecordSessionConnect
<1>7. EventsCover'
  <2> SUFFICES ASSUME NEW v \in Workers PROVE EventCovers(v)'
    BY DEF EventsCover
  <2>1. CASE v = s
    <3>1. txn'[v] = t /\ <<v, cn>> \in tunnels'
      BY <1>3, <2>1 DEF RecordSessionConnect
    <3>2. OnlineOf(s, cn)' = OnlineOf(s, cn)
      BY <1>1 DEF OnlineOf, RecordSessionConnect
    <3>3. OnlineOf(s, cn) \subseteq {i \in SessionIds' : sessions'[i].cn = cn}
      BY <1>1 DEF OnlineOf, OnlineIds, RecordSessionConnect
    <3> QED BY <1>4, <2>1, <3>1, <3>2, <3>3 DEF EventCovers
  <2>2. CASE v # s
    <3>1. txn'[v] = txn[v]
      BY <1>3, <2>2
    <3> QED BY <2>2, <3>1, OtherServersCover DEF IInv, RecordSessionConnect
  <2> QED BY <2>1, <2>2
<1> QED BY <1>2, <1>6, <1>7

\* Taking a disconnect event: the session it ends is the only online one of its name.
LEMMA DisconnectRequest ==
  ASSUME IInv, NEW s \in Servers, NEW cn \in CommonNames, NEW b \in ByteCounts,
         RecordSessionDisconnect(s, cn, b)
  PROVE  AtMostOneOnline' /\ OnlineIsReal' /\ EventsCover'
<1> USE DEF tables
<1> DEFINE t == DisconnectWrites(s, cn, b)
           ended == LatestOf(OnlineOf(s, cn))
<1>1. SessionIds' = SessionIds /\ OnlineIds' = OnlineIds
  BY DEF RecordSessionDisconnect, SessionIds, OnlineIds
<1>2. AtMostOneOnline'
  BY <1>1 DEF IInv, AtMostOneOnline, RecordSessionDisconnect
<1>3. \A v \in Workers : txn'[v] = IF v = s THEN t ELSE txn[v]
  BY DEF IInv, TypeOK, RecordSessionDisconnect
<1>4. OnlineOf(s, cn) = ended
  <2>1. \A i, j \in OnlineOf(s, cn) : i = j /\ i \in Nat
    BY OnlineIdsType DEF IInv, AtMostOneOnline, OnlineOf
  <2> QED BY <2>1 DEF LatestOf
<1>5. /\ t.kind = "disconnect" /\ t.event = {<<s, cn>>}
      /\ t.close = ended \/ t.close = ended \cup OnlineOfAccount(cn)
      /\ \/ t.insert = <<>>
         \/ t.insert = <<[server |-> s, cn |-> cn, status |-> "offline"]>>
  BY DEF DisconnectWrites, Idle
<1> HIDE DEF t, ended
<1>6. txn[s] = Idle /\ Idle.kind = "none" /\ s \in Workers
  BY DEF RecordSessionDisconnect, Idle, Workers
<1>7. OnlineIsReal'
  <2> SUFFICES ASSUME NEW i \in OnlineIds
               PROVE  \/ <<sessions[i].server, sessions[i].cn>> \in tunnels' \cup missed'
                      \/ /\ txn'[sessions[i].server].kind = "disconnect"
                         /\ i \in txn'[sessions[i].server].close
    BY <1>1 DEF OnlineIsReal, RecordSessionDisconnect
  <2>1. sessions[i].server \in Workers
    BY OnlineRow DEF IInv, SessionRow, Workers
  <2>2. CASE sessions[i].server = s /\ sessions[i].cn = cn
    <3>1. i \in ended
      BY <1>4, <2>2 DEF OnlineOf
    <3> QED BY <1>3, <1>5, <1>6, <2>2, <3>1
  <2>3. CASE ~(sessions[i].server = s /\ sessions[i].cn = cn)
    BY <1>3, <1>6, <2>1, <2>3 DEF IInv, OnlineIsReal, RecordSessionDisconnect
  <2> QED BY <2>2, <2>3
<1>8. EventsCover'
  <2> SUFFICES ASSUME NEW v \in Workers PROVE EventCovers(v)'
    BY DEF EventsCover
  <2>1. CASE v = s
    <3>1. txn'[v] = t
      BY <1>3, <2>1
    <3>2. OnlineOf(s, cn)' = OnlineOf(s, cn)
      BY <1>1 DEF OnlineOf, RecordSessionDisconnect
    <3>3. OnlineOf(s, cn) \cup OnlineOfAccount(cn)
            \subseteq {i \in SessionIds' : sessions'[i].cn = cn}
      BY <1>1 DEF OnlineOf, OnlineOfAccount, OnlineIds, RecordSessionDisconnect
    <3> QED BY <1>4, <1>5, <2>1, <3>1, <3>2, <3>3 DEF EventCovers
  <2>2. CASE v # s
    <3>1. txn'[v] = txn[v]
      BY <1>3, <2>2
    <3>2. \A c \in CommonNames : <<v, c>> \in tunnels => <<v, c>> \in tunnels'
      BY <2>2 DEF RecordSessionDisconnect
    <3> QED BY <2>2, <3>1, <3>2, OtherServersCover DEF IInv, RecordSessionDisconnect
  <2> QED BY <2>1, <2>2
<1> QED BY <1>2, <1>7, <1>8

\* A tunnel opens or closes without an event reaching the backend.
LEMMA LostEvent ==
  ASSUME IInv, NEW s \in Servers, NEW cn \in CommonNames,
         LoseConnect(s, cn) \/ LoseDisconnect(s, cn)
  PROVE  AtMostOneOnline' /\ OnlineIsReal' /\ EventsCover'
<1> USE DEF tables
<1>1. /\ UNCHANGED <<sessions, txn>> /\ txn[s] = Idle
      /\ tunnels \cup missed \subseteq tunnels' \cup missed'
      /\ \A v \in Workers \ {s}, c \in CommonNames :
           <<v, c>> \in tunnels => <<v, c>> \in tunnels'
  BY DEF LoseConnect, LoseDisconnect
<1>2. SessionIds' = SessionIds /\ OnlineIds' = OnlineIds
  BY <1>1 DEF SessionIds, OnlineIds
<1>3. AtMostOneOnline' /\ OnlineIsReal'
  BY <1>1, <1>2 DEF IInv, AtMostOneOnline, OnlineIsReal
<1>4. EventsCover'
  <2> SUFFICES ASSUME NEW v \in Workers PROVE EventCovers(v)'
    BY DEF EventsCover
  <2>1. CASE v = s
    BY <1>1, <2>1 DEF EventCovers, Idle
  <2>2. CASE v # s
    BY <1>1, <2>2, OtherServersCover DEF IInv
  <2> QED BY <2>1, <2>2
<1> QED BY <1>3, <1>4

\* A request that fails leaves the stored sessions alone.
LEMMA RollbackStep ==
  ASSUME IInv, NEW w \in Workers, Rollback(w)
  PROVE  AtMostOneOnline' /\ OnlineIsReal' /\ EventsCover'
<1> USE DEF tables
<1>1. SessionIds' = SessionIds /\ OnlineIds' = OnlineIds
  BY DEF Rollback, SessionIds, OnlineIds
<1>2. AtMostOneOnline'
  BY <1>1 DEF IInv, AtMostOneOnline, Rollback
<1>3. \A v \in Workers : txn'[v] = IF v = w THEN Idle ELSE txn[v]
  BY DEF IInv, TypeOK, Rollback
<1>4. EventCovers(w)
  BY DEF IInv, EventsCover
<1>5. OnlineIsReal'
  <2> SUFFICES ASSUME NEW i \in OnlineIds
               PROVE  \/ <<sessions[i].server, sessions[i].cn>> \in tunnels' \cup missed'
                      \/ /\ txn'[sessions[i].server].kind = "disconnect"
                         /\ i \in txn'[sessions[i].server].close
    BY <1>1 DEF OnlineIsReal, Rollback
  <2>1. sessions[i].server \in Workers
    BY OnlineRow DEF IInv, SessionRow, Workers
  <2>2. CASE /\ sessions[i].server = w
             /\ txn[w].kind = "disconnect" /\ i \in txn[w].close
    <3>1. txn[w].event = {<<w, sessions[i].cn>>}
      BY <1>4, <2>2 DEF EventCovers
    <3> QED BY <2>2, <3>1 DEF Rollback
  <2>3. CASE ~(/\ sessions[i].server = w
               /\ txn[w].kind = "disconnect" /\ i \in txn[w].close)
    BY <1>3, <2>1, <2>3 DEF IInv, OnlineIsReal, Rollback
  <2> QED BY <2>2, <2>3
<1>6. EventsCover'
  <2> SUFFICES ASSUME NEW v \in Workers PROVE EventCovers(v)'
    BY DEF EventsCover
  <2>1. CASE v = w
    BY <1>3, <2>1 DEF EventCovers, Idle
  <2>2. CASE v # w
    <3>1. txn'[v] = txn[v] /\ EventCovers(v)
      BY <1>3, <2>2 DEF IInv, EventsCover
    <3> QED BY <1>1, <3>1 DEF EventCovers, OnlineOf, Rollback
  <2> QED BY <2>1, <2>2
<1> QED BY <1>2, <1>5, <1>6

\* Committing: the rows that stay online were online, and a new one replaces all the
\* online rows of its server and name.
LEMMA CommitStep ==
  ASSUME IInv, NEW w \in Workers, Commit(w)
  PROVE  AtMostOneOnline' /\ OnlineIsReal' /\ EventsCover'
<1> DEFINE t == txn[w]
<1>1. /\ TypeOK /\ AtMostOneOnline /\ OnlineIsReal /\ EventCovers(w) /\ t \in Transaction
      /\ t.insert = <<>> \/ \E row \in SessionRow : t.insert = <<row>>
  BY InsertsOne DEF IInv, TypeOK, EventsCover
<1>2. WriteRows(t) /\ tunnels' = tunnels /\ missed' = missed \ t.event
  BY DEF Commit
<1>3. \A v \in Workers : txn'[v] = IF v = w THEN Idle ELSE txn[v]
  BY <1>1 DEF TypeOK, Commit
<1>4. /\ SessionIds \subseteq SessionIds'
      /\ \A i \in SessionIds :
           sessions'[i] = IF i \in t.close THEN [sessions[i] EXCEPT !.status = "offline"]
                          ELSE sessions[i]
      /\ \A i \in SessionIds' \ SessionIds :
           i = Len(sessions) + 1 /\ t.insert = <<sessions'[i]>>
  BY <1>1, <1>2, SessionsAfterCommit
<1>5. ASSUME NEW i \in SessionIds
      PROVE  /\ sessions'[i].server = sessions[i].server /\ sessions'[i].cn = sessions[i].cn
             /\ i \in OnlineIds' => i \in OnlineIds /\ i \notin t.close
  <2>1. sessions[i] \in SessionRow
    BY <1>1, ElementOfSeq DEF TypeOK, SessionIds
  <2> QED BY <1>4, <2>1 DEF OnlineIds, SessionRow
\* A new online row is the event's, and its name has no other online row left.
<1>6. ASSUME NEW i \in OnlineIds', i \notin SessionIds
      PROVE  /\ w \in Servers /\ sessions'[i].server = w
             /\ <<w, sessions'[i].cn>> \in tunnels
             /\ OnlineOf(w, sessions'[i].cn) \subseteq t.close
  <2>1. t.insert = <<sessions'[i]>> /\ sessions'[i].status = "online"
    BY <1>4, <1>6 DEF OnlineIds
  <2>2. t.insert # <<>>
    BY <2>1
  <2>3. PICK cn \in CommonNames, status \in {"online", "offline"} :
          /\ OnlineOf(w, cn) \subseteq t.close
          /\ t.insert = <<[server |-> w, cn |-> cn, status |-> status]>>
          /\ status = "online" => <<w, cn>> \in tunnels
    BY <1>1, <2>2 DEF EventCovers
  <2>4. sessions'[i] = [server |-> w, cn |-> cn, status |-> status]
    BY <2>1, <2>3
  <2> QED BY <1>1, <2>1, <2>2, <2>3, <2>4 DEF EventCovers
<1> HIDE DEF t
<1>7. AtMostOneOnline'
  <2> SUFFICES ASSUME NEW i \in OnlineIds', NEW j \in OnlineIds',
                      sessions'[i].server = sessions'[j].server,
                      sessions'[i].cn = sessions'[j].cn
               PROVE  i = j
    BY DEF AtMostOneOnline
  <2>1. i \in SessionIds' /\ j \in SessionIds'
    BY DEF OnlineIds
  <2>2. CASE i \in SessionIds /\ j \in SessionIds
    BY <1>1, <1>5, <2>2 DEF AtMostOneOnline
  <2>3. CASE i \notin SessionIds /\ j \notin SessionIds
    BY <1>4, <2>1, <2>3
  <2>4. CASE i \in SessionIds /\ j \notin SessionIds
    BY <1>5, <1>6, <2>4 DEF OnlineOf
  <2>5. CASE i \notin SessionIds /\ j \in SessionIds
    BY <1>5, <1>6, <2>5 DEF OnlineOf
  <2> QED BY <2>2, <2>3, <2>4, <2>5
<1>8. OnlineIsReal'
  <2> SUFFICES ASSUME NEW i \in OnlineIds'
               PROVE  \/ <<sessions'[i].server, sessions'[i].cn>> \in tunnels' \cup missed'
                      \/ /\ txn'[sessions'[i].server].kind = "disconnect"
                         /\ i \in txn'[sessions'[i].server].close
    BY DEF OnlineIsReal
  <2>1. CASE i \notin SessionIds
    BY <1>2, <1>6, <2>1
  <2>2. CASE i \in SessionIds
    <3>1. /\ i \in OnlineIds /\ i \notin t.close
          /\ sessions'[i].server = sessions[i].server /\ sessions'[i].cn = sessions[i].cn
      BY <1>5, <2>2
    <3>2. sessions[i].server \in Workers /\ sessions[i].cn \in CommonNames
      BY <1>1, <3>1, OnlineRow DEF SessionRow, Workers
    <3>3. <<sessions[i].server, sessions[i].cn>> \notin t.event
      <4>1. t.event = {} \/ \E cn \in CommonNames :
                              t.event = {<<w, cn>>} /\ OnlineOf(w, cn) \subseteq t.close
        BY <1>1 DEF EventCovers, t
      <4>2. i \in OnlineOf(sessions[i].server, sessions[i].cn)
        BY <3>1 DEF OnlineOf
      <4> QED BY <3>1, <4>1, <4>2
    <3>4. \/ <<sessions[i].server, sessions[i].cn>> \in tunnels \cup missed
          \/ /\ txn[sessions[i].server].kind = "disconnect"
             /\ i \in txn[sessions[i].server].close
      BY <1>1, <3>1 DEF OnlineIsReal
    <3> QED BY <1>2, <1>3, <3>1, <3>2, <3>3, <3>4 DEF t
  <2> QED BY <2>1, <2>2
<1>9. EventsCover'
  <2> SUFFICES ASSUME NEW v \in Workers PROVE EventCovers(v)'
    BY DEF EventsCover
  <2>1. CASE v = w
    BY <1>3, <2>1 DEF EventCovers, Idle
  <2>2. CASE v # w
    <3>1. txn'[v] = txn[v] /\ EventCovers(v)
      BY <1>3, <2>2 DEF IInv, EventsCover
    <3>2. ASSUME v \in Servers, NEW cn \in CommonNames
          PROVE  OnlineOf(v, cn)' \subseteq OnlineOf(v, cn)
      BY <1>5, <1>6, <2>2 DEF OnlineOf
    <3>3. ASSUME NEW cn \in CommonNames
          PROVE  {i \in SessionIds : sessions[i].cn = cn}
                   \subseteq {i \in SessionIds' : sessions'[i].cn = cn}
      BY <1>4, <1>5
    <3>4. CASE /\ txn[v].event = {} /\ txn[v].insert = <<>> /\ txn[v].kind # "disconnect"
      BY <3>1, <3>4 DEF EventCovers
    <3>5. CASE ~(/\ txn[v].event = {} /\ txn[v].insert = <<>> /\ txn[v].kind # "disconnect")
      <4>1. PICK cn \in CommonNames :
              /\ v \in Servers /\ txn[v].event = {<<v, cn>>}
              /\ OnlineOf(v, cn) \subseteq txn[v].close
              /\ txn[v].close \subseteq {i \in SessionIds : sessions[i].cn = cn}
              /\ \/ txn[v].insert = <<>>
                 \/ \E status \in {"online", "offline"} :
                      /\ txn[v].insert = <<[server |-> v, cn |-> cn, status |-> status]>>
                      /\ status = "online" => <<v, cn>> \in tunnels
        BY <3>1, <3>5 DEF EventCovers
      <4>2. /\ OnlineOf(v, cn)' \subseteq txn[v].close
            /\ txn[v].close \subseteq {i \in SessionIds' : sessions'[i].cn = cn}
        BY <3>2, <3>3, <4>1
      <4> QED BY <1>2, <3>1, <4>1, <4>2 DEF EventCovers
    <3> QED BY <3>4, <3>5
  <2> QED BY <2>1, <2>2
<1> QED BY <1>7, <1>8, <1>9

\* A step that leaves sessions, tunnels and requests alone keeps all of it.
LEMMA QuietStep ==
  ASSUME IInv, UNCHANGED <<sessions, tunnels, missed, txn>>
  PROVE  AtMostOneOnline' /\ OnlineIsReal' /\ EventsCover'
<1>1. SessionIds' = SessionIds /\ OnlineIds' = OnlineIds
  BY DEF SessionIds, OnlineIds
<1>2. AtMostOneOnline' /\ OnlineIsReal'
  BY <1>1 DEF IInv, AtMostOneOnline, OnlineIsReal
<1>3. EventsCover'
  <2> SUFFICES ASSUME NEW v \in Workers PROVE EventCovers(v)'
    BY DEF EventsCover
  <2> QED BY <1>1 DEF IInv, EventsCover, EventCovers, OnlineOf
<1> QED BY <1>2, <1>3

\* The inductive invariant holds initially.
LEMMA IInvInit == Init => IInv
BY TypeInit, SafeInit DEF IInv

\* Every step keeps the inductive invariant: one step of the proof per action.
LEMMA IInvNext == IInv /\ [Next]_vars => IInv'
<1> SUFFICES ASSUME IInv, [Next]_vars PROVE AtMostOneOnline' /\ OnlineIsReal' /\ EventsCover'
  BY TypeNext DEF IInv
<1> USE DEF tables
<1>1. ASSUME NEW s \in Servers, NEW cn \in CommonNames,
             \/ RecordSessionConnect(s, cn)
             \/ \E b \in ByteCounts : RecordSessionDisconnect(s, cn, b)
             \/ LoseConnect(s, cn)
             \/ LoseDisconnect(s, cn)
      PROVE  AtMostOneOnline' /\ OnlineIsReal' /\ EventsCover'
  BY <1>1, ConnectRequest, DisconnectRequest, LostEvent
<1>2. ASSUME NEW w \in Admins, NEW i \in SessionIds, KickSession(w, i)
      PROVE  AtMostOneOnline' /\ OnlineIsReal' /\ EventsCover'
  <2>1. KickWrites(i) \in Transaction
    BY <1>2, KickWritesType DEF KickSession, IInv
  <2>2. /\ KickWrites(i).event = {} /\ KickWrites(i).insert = <<>>
        /\ KickWrites(i).kind # "disconnect"
    BY DEF KickWrites, Idle
  <2> QED BY <1>2, <2>1, <2>2, AdminRequest DEF KickSession
<1>3. ASSUME NEW w \in Admins, NEW a \in Accounts, NEW status \in {"enabled", "disabled"},
             SetAccountStatus(w, a, status)
      PROVE  AtMostOneOnline' /\ OnlineIsReal' /\ EventsCover'
  <2>1. AccountWrites(a, status) \in Transaction
    BY AccountWritesType DEF AccountStatuses, IInv
  <2>2. /\ AccountWrites(a, status).event = {} /\ AccountWrites(a, status).insert = <<>>
        /\ AccountWrites(a, status).kind # "disconnect"
    BY DEF AccountWrites, Idle
  <2> QED BY <1>3, <2>1, <2>2, AdminRequest DEF SetAccountStatus
<1>4. ASSUME NEW w \in Admins, NEW a \in Accounts, RevokeAccount(w, a)
      PROVE  AtMostOneOnline' /\ OnlineIsReal' /\ EventsCover'
  <2>1. PICK chosen \in SUBSET Certificates :
          txn' = [txn EXCEPT ![w] = [AccountWrites(a, "revoked") EXCEPT !.revoke = chosen]]
    BY <1>4 DEF RevokeAccount
  <2> DEFINE t == [AccountWrites(a, "revoked") EXCEPT !.revoke = chosen]
  <2>2. t \in Transaction
    BY AccountWritesType DEF AccountStatuses, IInv
  <2>3. t.event = {} /\ t.insert = <<>> /\ t.kind # "disconnect"
    BY DEF AccountWrites, Idle
  <2> HIDE DEF t
  <2>4. txn' = [txn EXCEPT ![w] = t] /\ UNCHANGED <<sessions, tunnels, missed>>
    BY <1>4, <2>1 DEF RevokeAccount, t
  <2> QED BY <2>2, <2>3, <2>4, AdminRequest
<1>5. ASSUME NEW w \in Admins,
             \/ \E s \in Servers, a \in Accounts : IssueCertificate(w, s, a)
             \/ \E c \in Certificates : RevokeCertificate(w, c) \/ RenewCertificate(w, c)
      PROVE  AtMostOneOnline' /\ OnlineIsReal' /\ EventsCover'
  <2>1. PICK t \in Transaction :
          /\ t.event = {} /\ t.insert = <<>> /\ t.kind = "certificate"
          /\ txn' = [txn EXCEPT ![w] = t] /\ UNCHANGED <<sessions, tunnels, missed>>
    BY <1>5, CertificateRequest
  <2> QED BY <2>1, AdminRequest
<1>6. ASSUME NEW w \in Workers, Commit(w) \/ Rollback(w)
      PROVE  AtMostOneOnline' /\ OnlineIsReal' /\ EventsCover'
  BY <1>6, CommitStep, RollbackStep
<1>7. CASE (\E x \in alerts : ProcessTrafficAlert(x)) \/ NextDay \/ UNCHANGED vars
  BY <1>7, QuietStep DEF ProcessTrafficAlert, NextDay, vars
<1> QED BY <1>1, <1>2, <1>3, <1>4, <1>5, <1>6, <1>7 DEF Next

\* Whatever is lost and whatever runs at the same time, a common name is online at most
\* once on a server (record_session_connect closes the rows it finds).
THEOREM SessionsSafe == Spec => []AtMostOneOnline
<1>1. IInv => AtMostOneOnline
  BY DEF IInv
<1> QED BY <1>1, IInvInit, IInvNext, PTL DEF Spec

\* An online session has a tunnel, unless the event of its end was lost, failed or is being
\* handled: no request that overlaps it brings a session back (kick_session,
\* disable_account, revoke_certificate).
THEOREM OnlineSafe == Spec => []OnlineIsReal
<1>1. IInv => OnlineIsReal
  BY DEF IInv
<1> QED BY <1>1, IInvInit, IInvNext, PTL DEF Spec

-----------------------------------------------------------------------------
(* Alerts that disable certificates *)

\* An administrator request or a connect event raises no alert; a renewal reads its
\* certificate before it is revoked.
LEMMA QuietRequest ==
  ASSUME AlertIInv, TypeOK', NEW w \in Workers, NEW t \in Transaction, t.alerts = {},
         \A c \in t.expire : certificateStatus[c] # "revoked",
         txn' = [txn EXCEPT ![w] = t], UNCHANGED <<alerts, certificateStatus, overtaken>>
  PROVE  AlertIInv'
<1>1. \A v \in Workers : txn'[v] = IF v = w THEN t ELSE txn[v]
  BY DEF AlertIInv, TypeOK
<1>2. \A v \in Workers : AlertsRevoke(v)' /\ RenewalsOvertaken(v)'
  BY <1>1 DEF AlertIInv, AlertsRevoke, RenewalsOvertaken
<1> QED BY <1>2 DEF AlertIInv, AlertedCertificateRevoked

\* A disconnect event revokes the certificate of an alert that disables it, unless it
\* is revoked already.
LEMMA DisconnectRevokes ==
  ASSUME AlertIInv, TypeOK', NEW s \in Servers, NEW cn \in CommonNames, NEW b \in ByteCounts,
         RecordSessionDisconnect(s, cn, b)
  PROVE  AlertIInv'
<1> DEFINE t == DisconnectWrites(s, cn, b)
<1>1. \A v \in Workers : txn'[v] = IF v = s THEN t ELSE txn[v]
  BY DEF AlertIInv, TypeOK, RecordSessionDisconnect, Workers
<1>2. UNCHANGED <<alerts, certificateStatus, overtaken>>
  BY DEF RecordSessionDisconnect, tables
<1>3. /\ t.alerts = AlertWrites(s, cn, b) /\ t.revoke = DisabledByThreshold(s, cn, b)
      /\ t.expire = {}
  BY DEF DisconnectWrites, Idle
<1> HIDE DEF t
<1>4. ASSUME NEW x \in t.alerts, x.rule.action = "disable_certificate", NEW c \in x.certificate
      PROVE  c \in t.revoke \/ certificateStatus[c] = "revoked"
  <2>1. PICK r \in ExceededRules(s, cn, b) :
          x = [rule |-> r, period |-> PeriodOf(r, today),
               actual |-> EvaluatedBytes(<<r.target, PeriodOf(r, today)>>, b),
               certificate |-> SessionCertificate(s, cn), status |-> "open"]
    BY <1>3 DEF AlertWrites
  <2>2. x.rule = r /\ x.certificate = SessionCertificate(s, cn)
    BY <2>1
  <2> QED BY <1>3, <1>4, <2>2 DEF DisabledByThreshold
<1>5. \A v \in Workers : AlertsRevoke(v)' /\ RenewalsOvertaken(v)'
  BY <1>1, <1>2, <1>3, <1>4 DEF AlertIInv, AlertsRevoke, RenewalsOvertaken
<1> QED BY <1>2, <1>5 DEF AlertIInv, AlertedCertificateRevoked

\* A commit stores its alerts with the revocations, and what a renewal writes over a
\* revocation was overtaken by it.
LEMMA CommitRevokes ==
  ASSUME AlertIInv, TypeOK', NEW w \in Workers, Commit(w)
  PROVE  AlertIInv'
<1>1. WriteRows(txn[w]) /\ txn[w] \in Transaction
  BY DEF Commit, AlertIInv, TypeOK
<1>2. \A v \in Workers : txn'[v] = IF v = w THEN Idle ELSE txn[v]
  BY DEF Commit, AlertIInv, TypeOK
<1>3. /\ overtaken \subseteq overtaken'
      /\ \A c \in txn[w].revoke : \A v \in Workers : c \in txn[v].expire => c \in overtaken'
  BY DEF Commit
<1>4. ASSUME NEW c \in Certificates
      PROVE  /\ c \in txn[w].revoke => certificateStatus'[c] = "revoked"
             /\ certificateStatus[c] = "revoked" => certificateStatus'[c] = "revoked" \/ c \in overtaken'
             /\ certificateStatus'[c] = "revoked" =>
                  c \in txn[w].revoke \/ certificateStatus[c] = "revoked"
  <2>1. certificateStatus'[c] = IF c \in txn[w].revoke THEN "revoked"
                                ELSE IF c \in txn[w].expire THEN "expired"
                                ELSE IF c \in NextRows(txn[w].issue) THEN "issued"
                                ELSE certificateStatus[c]
    BY <1>1 DEF WriteRows
  <2>2. c \in NextRows(txn[w].issue) => certificateStatus[c] = "none"
    BY DEF NextRows
  <2>3. c \in txn[w].expire /\ certificateStatus[c] = "revoked" => c \in overtaken'
    BY <1>3 DEF AlertIInv, RenewalsOvertaken
  <2> QED BY <2>1, <2>2, <2>3
<1>5. \A v \in Workers : \A x \in txn[v].alerts : x.certificate \subseteq Certificates
  BY DEF AlertIInv, TypeOK, Transaction, TrafficAlert
<1>6. AlertedCertificateRevoked'
  <2> SUFFICES ASSUME NEW x \in alerts', x.rule.action = "disable_certificate",
                      NEW c \in x.certificate
               PROVE  certificateStatus'[c] = "revoked" \/ c \in overtaken'
    BY DEF AlertedCertificateRevoked
  <2>1. alerts' = alerts \cup txn[w].alerts
    BY <1>1 DEF WriteRows
  <2>2. CASE x \in alerts
    <3>1. /\ certificateStatus[c] = "revoked" \/ c \in overtaken
          /\ c \in Certificates
      BY <2>2 DEF AlertIInv, AlertedCertificateRevoked, TypeOK, TrafficAlert
    <3> QED BY <1>3, <1>4, <3>1
  <2>3. CASE x \in txn[w].alerts
    <3>1. c \in txn[w].revoke \/ certificateStatus[c] = "revoked" \/ c \in overtaken
      BY <2>3 DEF AlertIInv, AlertsRevoke
    <3> QED BY <1>3, <1>4, <1>5, <2>3, <3>1
  <2> QED BY <2>1, <2>2, <2>3
<1>7. ASSUME NEW v \in Workers
      PROVE  AlertsRevoke(v)' /\ RenewalsOvertaken(v)'
  <2>1. CASE v = w
    BY <1>2, <2>1 DEF AlertsRevoke, RenewalsOvertaken, Idle
  <2>2. CASE v # w
    <3>1. txn'[v] = txn[v]
      BY <1>2, <2>2
    <3>2. AlertsRevoke(v)'
      BY <1>3, <1>4, <1>5, <3>1 DEF AlertIInv, AlertsRevoke
    <3>3. txn[v].expire \subseteq Certificates
      BY DEF AlertIInv, TypeOK, Transaction
    <3>4. RenewalsOvertaken(v)'
      BY <1>3, <1>4, <3>1, <3>3 DEF AlertIInv, RenewalsOvertaken
    <3> QED BY <3>2, <3>4
  <2> QED BY <2>1, <2>2
<1> QED BY <1>6, <1>7 DEF AlertIInv

\* Every step keeps the invariant: one step of the proof per action.
LEMMA AlertNext == AlertIInv /\ [Next]_vars => AlertIInv'
<1> SUFFICES ASSUME AlertIInv, [Next]_vars PROVE AlertIInv'
  OBVIOUS
<1>1. TypeOK /\ TypeOK'
  BY TypeNext DEF AlertIInv
<1>2. ASSUME NEW s \in Servers, NEW cn \in CommonNames, RecordSessionConnect(s, cn)
      PROVE  AlertIInv'
  <2>1. ConnectWrites(s, cn) \in Transaction
    BY <1>1, ConnectWritesType
  <2>2. ConnectWrites(s, cn).alerts = {} /\ ConnectWrites(s, cn).expire = {}
    BY DEF ConnectWrites, Idle
  <2> QED BY <1>1, <1>2, <2>1, <2>2, QuietRequest DEF RecordSessionConnect, Workers, tables
<1>3. ASSUME NEW s \in Servers, NEW cn \in CommonNames, NEW b \in ByteCounts,
             RecordSessionDisconnect(s, cn, b)
      PROVE  AlertIInv'
  BY <1>1, <1>3, DisconnectRevokes
<1>4. ASSUME UNCHANGED <<alerts, certificateStatus, overtaken, txn>>
      PROVE  AlertIInv'
  BY <1>1, <1>4 DEF AlertIInv, AlertedCertificateRevoked, AlertsRevoke, RenewalsOvertaken
<1>5. ASSUME NEW w \in Admins, NEW i \in SessionIds, KickSession(w, i)
      PROVE  AlertIInv'
  <2>1. KickWrites(i) \in Transaction
    BY <1>1, <1>5, KickWritesType DEF KickSession
  <2>2. KickWrites(i).alerts = {} /\ KickWrites(i).expire = {}
    BY DEF KickWrites, Idle
  <2> QED BY <1>1, <1>5, <2>1, <2>2, QuietRequest DEF KickSession, Workers, tables
<1>6. ASSUME NEW w \in Admins, NEW a \in Accounts, NEW status \in {"enabled", "disabled"},
             SetAccountStatus(w, a, status)
      PROVE  AlertIInv'
  <2>1. AccountWrites(a, status) \in Transaction
    BY <1>1, AccountWritesType DEF AccountStatuses
  <2>2. AccountWrites(a, status).alerts = {} /\ AccountWrites(a, status).expire = {}
    BY DEF AccountWrites, Idle
  <2> QED BY <1>1, <1>6, <2>1, <2>2, QuietRequest DEF SetAccountStatus, Workers, tables
<1>7. ASSUME NEW w \in Admins, NEW a \in Accounts, RevokeAccount(w, a)
      PROVE  AlertIInv'
  <2>1. PICK chosen \in SUBSET Certificates :
          txn' = [txn EXCEPT ![w] = [AccountWrites(a, "revoked") EXCEPT !.revoke = chosen]]
    BY <1>7 DEF RevokeAccount
  <2> DEFINE t == [AccountWrites(a, "revoked") EXCEPT !.revoke = chosen]
  <2>2. t \in Transaction
    BY <1>1, AccountWritesType DEF AccountStatuses
  <2>3. t.alerts = {} /\ t.expire = {}
    BY DEF AccountWrites, Idle
  <2> HIDE DEF t
  <2>4. txn' = [txn EXCEPT ![w] = t] /\ UNCHANGED <<alerts, certificateStatus, overtaken>>
    BY <1>7, <2>1 DEF RevokeAccount, tables, t
  <2> QED BY <1>1, <2>2, <2>3, <2>4, QuietRequest DEF Workers
<1>8. ASSUME NEW w \in Admins,
             \/ \E s \in Servers, a \in Accounts : IssueCertificate(w, s, a)
             \/ \E c \in Certificates : RevokeCertificate(w, c) \/ RenewCertificate(w, c)
      PROVE  AlertIInv'
  <2>1. PICK t \in Transaction :
          /\ t.alerts = {} /\ \A c \in t.expire : certificateStatus[c] # "revoked"
          /\ txn' = [txn EXCEPT ![w] = t] /\ UNCHANGED <<tables, overtaken>>
    BY <1>8, CertificateRequest
  <2> QED BY <1>1, <2>1, QuietRequest DEF Workers, tables
<1>9. ASSUME NEW x \in alerts, ProcessTrafficAlert(x)
      PROVE  AlertIInv'
  <2>1. x \in TrafficAlert
    BY <1>1 DEF TypeOK
  <2>2. /\ [x EXCEPT !.status = "processed"].rule = x.rule
        /\ [x EXCEPT !.status = "processed"].certificate = x.certificate
    BY <2>1 DEF TrafficAlert
  <2> DEFINE processed == [x EXCEPT !.status = "processed"]
  <2>3. UNCHANGED <<certificateStatus, overtaken>> /\ alerts' \subseteq alerts \cup {processed}
    BY <1>9 DEF ProcessTrafficAlert
  <2>4. processed.rule.action = "disable_certificate" =>
          \A c \in processed.certificate : certificateStatus[c] = "revoked" \/ c \in overtaken
    BY <2>2 DEF AlertIInv, AlertedCertificateRevoked
  <2> HIDE DEF processed
  <2>5. AlertedCertificateRevoked'
    BY <2>3, <2>4 DEF AlertIInv, AlertedCertificateRevoked
  <2> QED BY <1>1, <1>9, <2>5 DEF ProcessTrafficAlert, AlertIInv, AlertsRevoke,
                               RenewalsOvertaken
<1>10. ASSUME NEW w \in Workers, Rollback(w)
       PROVE  AlertIInv'
  <2>1. Idle.alerts = {} /\ Idle.expire = {}
    BY DEF Idle
  <2> QED BY <1>1, <1>10, <2>1, IdleType, QuietRequest DEF Rollback, tables
<1>11. CASE \E s \in Servers, cn \in CommonNames : LoseConnect(s, cn) \/ LoseDisconnect(s, cn)
  BY <1>4, <1>11 DEF LoseConnect, LoseDisconnect, tables
<1>12. CASE NextDay \/ UNCHANGED vars
  BY <1>4, <1>12 DEF NextDay, vars, tables
<1>13. ASSUME NEW w \in Workers, Commit(w)
       PROVE  AlertIInv'
  BY <1>1, <1>13, CommitRevokes
<1> QED BY <1>2, <1>3, <1>5, <1>6, <1>7, <1>8, <1>9, <1>10, <1>11, <1>12, <1>13 DEF Next

\* Whatever runs at the same time, the certificate of an alert that disables certificates
\* is revoked, unless a renewal that had read it before the revocation was under way
\* (_disable_certificate_by_threshold, renew_certificate).
THEOREM AlertsSafe == Spec => []AlertedCertificateRevoked
<1>1. Init => AlertIInv
  <2>1. Idle.alerts = {} /\ Idle.expire = {}
    BY DEF Idle
  <2>2. Init => \A w \in Workers : txn[w].alerts = {} /\ txn[w].expire = {}
    BY <2>1 DEF Init
  <2>3. Init => \A w \in Workers : AlertsRevoke(w) /\ RenewalsOvertaken(w)
    BY <2>2 DEF AlertsRevoke, RenewalsOvertaken
  <2> QED BY <2>3, TypeInit DEF Init, AlertIInv, AlertedCertificateRevoked
<1>2. AlertIInv => AlertedCertificateRevoked
  BY DEF AlertIInv
<1> QED BY <1>1, <1>2, AlertNext, PTL DEF Spec

-----------------------------------------------------------------------------
(* Sums of traffic *)

\* A set of natural numbers that is not empty has a least one.
LEMMA LeastNumber ==
  ASSUME NEW T \in SUBSET Nat, T # {}
  PROVE  \E n \in T : \A m \in T : n <= m
<1> DEFINE R == {p \in Nat \X Nat : p[1] < p[2]}
<1>1. IsWellFoundedOn(R, Nat)
  BY NatLessThanWellFounded DEF OpToRel
<1> HIDE DEF R
<1>2. PICK n \in T : \A m \in T : ~ (<<m, n>> \in R)
  BY <1>1, WFMin
<1>3. ASSUME NEW m \in T PROVE n <= m
  <2>1. m \in Nat /\ n \in Nat /\ ~ (m < n)
    BY <1>2 DEF R
  <2> QED  BY <2>1
<1> QED  BY <1>3

\* The function MapThenSumSet sums with takes the elements in the order CHOOSE gives; its
\* values for the subsets of S with up to n elements are the partial sums.
Pick(s) == CHOOSE x \in s : TRUE
Parts(S, n) == {s \in SUBSET S : Cardinality(s) <= n}
SumOn(g, D) ==
  g = [s \in D |-> IF s = {} THEN 0 ELSE Pick(s).bytes + g[s \ {Pick(s)}]]

\* Taking the chosen element out of a finite set leaves a smaller one.
LEMMA SmallerPart ==
  ASSUME NEW S, IsFiniteSet(S), S # {}
  PROVE  /\ Pick(S) \in S /\ IsFiniteSet(S \ {Pick(S)})
         /\ Cardinality(S) \in Nat /\ Cardinality(S) > 0
         /\ Cardinality(S \ {Pick(S)}) = Cardinality(S) - 1
<1>1. Pick(S) \in S
  BY DEF Pick
<1>2. IsFiniteSet(S \ {Pick(S)}) /\ Cardinality(S \ {Pick(S)}) = Cardinality(S) - 1
  BY <1>1, FS_RemoveElement
<1>3. Cardinality(S) \in Nat /\ Cardinality(S) # 0
  BY FS_CardinalityType, FS_EmptySet
<1> QED  BY <1>1, <1>2, <1>3

\* What such a function gives for a part of its set.
LEMMA SumValue ==
  ASSUME NEW S, NEW g, SumOn(g, SUBSET S), NEW s \in SUBSET S
  PROVE  /\ s = {} => g[s] = 0
         /\ s # {} => g[s] = Pick(s).bytes + g[s \ {Pick(s)}]
<1> DEFINE F(t) == IF t = {} THEN 0 ELSE Pick(t).bytes + g[t \ {Pick(t)}]
<1>1. g = [t \in SUBSET S |-> F(t)]
  BY DEF SumOn
<1> HIDE DEF F
<1>2. g[s] = F(s)
  BY <1>1
<1> QED  BY <1>2 DEF F

\* The sums of the parts with up to n elements give those of the parts with one more.
LEMMA SumExtends ==
  ASSUME NEW S, IsFiniteSet(S), NEW n \in Nat, NEW g, SumOn(g, Parts(S, n))
  PROVE  \E h : SumOn(h, Parts(S, n + 1))
<1> DEFINE h == [s \in Parts(S, n + 1) |->
                   IF s = {} THEN 0 ELSE Pick(s).bytes + g[s \ {Pick(s)}]]
<1>1. \A s \in Parts(S, n + 1) : s # {} => s \ {Pick(s)} \in Parts(S, n)
  <2> SUFFICES ASSUME NEW s \in Parts(S, n + 1), s # {}
               PROVE  s \ {Pick(s)} \in Parts(S, n)
    OBVIOUS
  <2>1. IsFiniteSet(s) /\ s \in SUBSET S /\ Cardinality(s) <= n + 1
    BY FS_Subset DEF Parts
  <2>2. Cardinality(s) \in Nat /\ Cardinality(s \ {Pick(s)}) = Cardinality(s) - 1
    BY <2>1, SmallerPart
  <2> QED  BY <2>1, <2>2 DEF Parts
<1>2. Parts(S, n) \subseteq Parts(S, n + 1)
  <2> SUFFICES ASSUME NEW s \in Parts(S, n)
               PROVE  s \in Parts(S, n + 1)
    OBVIOUS
  <2>1. s \in SUBSET S /\ Cardinality(s) <= n /\ IsFiniteSet(s)
    BY FS_Subset DEF Parts
  <2>2. Cardinality(s) \in Nat
    BY <2>1, FS_CardinalityType
  <2> QED  BY <2>1, <2>2 DEF Parts
<1>3. \A s \in Parts(S, n) : g[s] = h[s]
  BY <1>2 DEF SumOn
<1>4. h = [s \in Parts(S, n + 1) |-> IF s = {} THEN 0 ELSE Pick(s).bytes + h[s \ {Pick(s)}]]
  <2>1. \A s \in Parts(S, n + 1) : s # {} => g[s \ {Pick(s)}] = h[s \ {Pick(s)}]
    BY <1>1, <1>3
  <2> HIDE DEF Parts
  <2> QED  BY <2>1
<1> HIDE DEF h
<1> QED  BY <1>4 DEF SumOn

\* So every finite set has its partial sums: there is no least size that has none.
LEMMA SumExists ==
  ASSUME NEW S, IsFiniteSet(S)
  PROVE  \E g : SumOn(g, SUBSET S)
<1> DEFINE bad == {n \in Nat : ~ \E g : SumOn(g, Parts(S, n))}
<1>1. bad = {}
  <2> SUFFICES ASSUME bad # {} PROVE FALSE
    OBVIOUS
  <2>1. PICK n \in bad : \A m \in bad : n <= m
    BY LeastNumber
  <2>2. CASE n = 0
    <3>1. Parts(S, 0) = {{}}
      <4>1. Cardinality({}) = 0
        BY FS_EmptySet
      <4>2. \A s \in SUBSET S : Cardinality(s) <= 0 => s = {}
        <5> SUFFICES ASSUME NEW s \in SUBSET S, Cardinality(s) <= 0 PROVE s = {}
          OBVIOUS
        <5>1. IsFiniteSet(s)
          BY FS_Subset
        <5>2. Cardinality(s) \in Nat
          BY <5>1, FS_CardinalityType
        <5> QED  BY <5>1, <5>2, FS_EmptySet
      <4>3. {} \in Parts(S, 0)
        BY <4>1 DEF Parts
      <4>4. \A s \in Parts(S, 0) : s = {}
        BY <4>2 DEF Parts
      <4> QED  BY <4>3, <4>4
    <3>2. SumOn([s \in {{}} |-> 0], {{}})
      BY DEF SumOn
    <3> QED  BY <2>1, <2>2, <3>1, <3>2
  <2>3. CASE n # 0
    <3>1. n - 1 \in Nat /\ n - 1 \notin bad
      BY <2>1, <2>3
    <3>2. PICK g : SumOn(g, Parts(S, n - 1))
      BY <3>1
    <3>3. \E h : SumOn(h, Parts(S, (n - 1) + 1))
      BY <3>1, <3>2, SumExtends
    <3>4. (n - 1) + 1 = n
      BY <2>1
    <3> QED  BY <2>1, <3>3, <3>4
  <2> QED  BY <2>2, <2>3
<1>2. Cardinality(S) \in Nat
  BY FS_CardinalityType
<1>3. Parts(S, Cardinality(S)) = SUBSET S
  BY FS_Subset DEF Parts
<1>4. \E g : SumOn(g, Parts(S, Cardinality(S)))
  BY <1>1, <1>2
<1> QED  BY <1>3, <1>4

\* The sum does not depend on the set it is a part of.
LEMMA SumUnique ==
  ASSUME NEW S, IsFiniteSet(S), NEW T \in SUBSET S,
         NEW g, SumOn(g, SUBSET S), NEW h, SumOn(h, SUBSET T)
  PROVE  g[T] = h[T]
<1> DEFINE bad == {n \in Nat : \E s \in SUBSET T : Cardinality(s) = n /\ g[s] # h[s]}
<1>1. bad = {}
  <2> SUFFICES ASSUME bad # {} PROVE FALSE
    OBVIOUS
  <2>1. PICK n \in bad : \A m \in bad : n <= m
    BY LeastNumber
  <2>2. PICK s \in SUBSET T : Cardinality(s) = n /\ g[s] # h[s]
    BY <2>1
  <2>3. s \in SUBSET S /\ s \ {Pick(s)} \in SUBSET T /\ s \ {Pick(s)} \in SUBSET S
    OBVIOUS
  <2>4. s # {}
    <3>1. {} \in SUBSET S /\ {} \in SUBSET T
      OBVIOUS
    <3>2. g[{}] = 0
      BY <3>1, SumValue
    <3>3. h[{}] = 0
      BY <3>1, SumValue
    <3> QED  BY <2>2, <3>2, <3>3
  <2>5. IsFiniteSet(s)
    BY <2>3, FS_Subset
  <2>6. Cardinality(s \ {Pick(s)}) = n - 1 /\ n - 1 \in Nat
    <3>1. /\ Cardinality(s \ {Pick(s)}) = Cardinality(s) - 1
          /\ Cardinality(s) \in Nat /\ Cardinality(s) > 0
      BY <2>4, <2>5, SmallerPart
    <3> QED  BY <2>2, <3>1
  <2>7. g[s \ {Pick(s)}] = h[s \ {Pick(s)}]
    BY <2>1, <2>3, <2>6
  <2>8. g[s] = Pick(s).bytes + g[s \ {Pick(s)}]
    BY <2>3, <2>4, SumValue
  <2>9. h[s] = Pick(s).bytes + h[s \ {Pick(s)}]
    BY <2>4, SumValue
  <2> QED  BY <2>2, <2>7, <2>8, <2>9
<1>2. IsFiniteSet(T)
  BY FS_Subset
<1> QED  BY <1>1, <1>2, FS_CardinalityType

\* MapThenSumSet takes the sum of the whole set from any such function.
LEMMA BytesOfSum ==
  ASSUME NEW S, IsFiniteSet(S), NEW g, SumOn(g, SUBSET S)
  PROVE  BytesOf(S) = g[S]
<1>1. BytesOf(S) = (CHOOSE h : SumOn(h, SUBSET S))[S]
  BY DEF BytesOf, MapThenSumSet, MapThenFoldSet, SumOn, Pick
<1>2. SumOn(CHOOSE h : SumOn(h, SUBSET S), SUBSET S)
  OBVIOUS
<1> QED  BY <1>1, <1>2, SumUnique

\* The bytes of a part are its partial sum.
LEMMA BytesOfPart ==
  ASSUME NEW S, IsFiniteSet(S), NEW T \in SUBSET S, NEW g, SumOn(g, SUBSET S)
  PROVE  BytesOf(T) = g[T]
<1>1. IsFiniteSet(T)
  BY FS_Subset
<1>2. PICK h : SumOn(h, SUBSET T)
  BY <1>1, SumExists
<1>3. BytesOf(T) = h[T]
  BY <1>1, <1>2, BytesOfSum
<1>4. g[T] = h[T]
  BY <1>2, SumUnique
<1> QED  BY <1>3, <1>4

\* What BytesOf computes.
LEMMA BytesOfSteps ==
  ASSUME NEW S, IsFiniteSet(S)
  PROVE  /\ S = {} => BytesOf(S) = 0
         /\ S # {} => BytesOf(S) = Pick(S).bytes + BytesOf(S \ {Pick(S)})
<1>1. PICK g : SumOn(g, SUBSET S)
  BY SumExists
<1>2. S \in SUBSET S /\ S \ {Pick(S)} \in SUBSET S
  OBVIOUS
<1>3. BytesOf(S) = g[S]
  BY <1>1, BytesOfSum
<1>4. BytesOf(S \ {Pick(S)}) = g[S \ {Pick(S)}]
  BY <1>1, <1>2, BytesOfPart
<1>5. S = {} => g[S] = 0
  BY <1>1, <1>2, SumValue
<1>6. S # {} => g[S] = Pick(S).bytes + g[S \ {Pick(S)}]
  BY <1>1, <1>2, SumValue
<1> QED  BY <1>3, <1>4, <1>5, <1>6

\* The bytes of traffic records are a number.
LEMMA BytesOfNat ==
  ASSUME NEW S \in SUBSET TrafficRecord, IsFiniteSet(S)
  PROVE  BytesOf(S) \in Nat
<1> DEFINE bad == {n \in Nat : \E s \in SUBSET S : Cardinality(s) = n /\ BytesOf(s) \notin Nat}
<1>1. bad = {}
  <2> SUFFICES ASSUME bad # {} PROVE FALSE
    OBVIOUS
  <2>1. PICK n \in bad : \A m \in bad : n <= m
    BY LeastNumber
  <2>2. PICK s \in SUBSET S : Cardinality(s) = n /\ BytesOf(s) \notin Nat
    BY <2>1
  <2>3. IsFiniteSet(s)
    BY FS_Subset
  <2>4. s # {}
    BY <2>2, <2>3, BytesOfSteps
  <2>5. BytesOf(s) = Pick(s).bytes + BytesOf(s \ {Pick(s)})
    BY <2>3, <2>4, BytesOfSteps
  <2>6. Pick(s) \in s /\ Cardinality(s \ {Pick(s)}) = n - 1 /\ n - 1 \in Nat
    <3>1. /\ Cardinality(s \ {Pick(s)}) = Cardinality(s) - 1
          /\ Cardinality(s) \in Nat /\ Cardinality(s) > 0 /\ Pick(s) \in s
      BY <2>3, <2>4, SmallerPart
    <3> QED  BY <2>2, <3>1
  <2>7. n - 1 \notin bad
    BY <2>1, <2>6
  <2>8. BytesOf(s \ {Pick(s)}) \in Nat
    BY <2>6, <2>7
  <2>9. Pick(s).bytes \in Nat
    BY <2>6 DEF TrafficRecord
  <2> QED  BY <2>2, <2>5, <2>8, <2>9
<1> QED  BY <1>1, FS_CardinalityType

\* Another record adds its own bytes, whichever element the sum takes first.
LEMMA BytesOfMore ==
  ASSUME NEW S \in SUBSET TrafficRecord, IsFiniteSet(S), NEW x \in TrafficRecord, x \notin S
  PROVE  BytesOf(S \cup {x}) = BytesOf(S) + x.bytes
<1> DEFINE Adds(s, y) == BytesOf(s \cup {y}) = BytesOf(s) + y.bytes
           bad == {n \in Nat : \E s \in SUBSET TrafficRecord, y \in TrafficRecord :
                                IsFiniteSet(s) /\ Cardinality(s) = n /\ y \notin s /\ ~ Adds(s, y)}
<1>1. bad = {}
  <2> SUFFICES ASSUME bad # {} PROVE FALSE
    OBVIOUS
  <2>1. PICK n \in bad : \A m \in bad : n <= m
    BY LeastNumber
  <2>2. PICK s \in SUBSET TrafficRecord, y \in TrafficRecord :
          IsFiniteSet(s) /\ Cardinality(s) = n /\ y \notin s /\ ~ Adds(s, y)
    BY <2>1
  <2> DEFINE t == s \cup {y}
             z == Pick(t)
  <2>3. IsFiniteSet(t) /\ t # {} /\ t \in SUBSET TrafficRecord
    BY <2>2, FS_AddElement
  <2>4. BytesOf(t) = z.bytes + BytesOf(t \ {z}) /\ z \in t
    BY <2>3, BytesOfSteps, SmallerPart
  <2>5. BytesOf(s) \in Nat /\ y.bytes \in Nat /\ z.bytes \in Nat
    BY <2>2, <2>3, <2>4, BytesOfNat DEF TrafficRecord
  <2>6. CASE z = y
    <3>1. t \ {z} = s
      BY <2>2, <2>6
    <3>2. BytesOf(t \ {z}) = BytesOf(s) /\ z.bytes = y.bytes
      BY <2>6, <3>1
    <3>3. BytesOf(t) = BytesOf(s) + y.bytes
      BY <2>4, <2>5, <3>2
    <3> QED  BY <2>2, <3>3
  <2>7. CASE z # y
    <3> DEFINE r == s \ {z}
    <3>1. z \in s /\ z \in TrafficRecord
      BY <2>2, <2>4, <2>7
    <3>2. IsFiniteSet(r) /\ Cardinality(r) = Cardinality(s) - 1
      BY <2>2, <3>1, FS_RemoveElement
    <3>3. Cardinality(s) \in Nat /\ Cardinality(s) # 0
      BY <2>2, <3>1, FS_CardinalityType, FS_EmptySet
    <3>4. n - 1 \in Nat /\ Cardinality(r) = n - 1 /\ ~ (n <= n - 1)
      BY <2>2, <3>2, <3>3
    <3>5. n - 1 \notin bad
      BY <2>1, <3>4
    <3>6. r \in SUBSET TrafficRecord /\ y \notin r /\ z \notin r
      BY <2>2
    <3> HIDE DEF Adds
    <3>7. Adds(r, y) /\ Adds(r, z)
      BY <2>2, <3>1, <3>2, <3>4, <3>5, <3>6
    <3> USE DEF Adds
    <3>8. r \cup {z} = s /\ t \ {z} = r \cup {y}
      BY <2>2, <2>7, <3>1
    <3>9. BytesOf(r) \in Nat
      BY <3>2, <3>6, BytesOfNat
    <3>10. BytesOf(s) = BytesOf(r) + z.bytes /\ BytesOf(t \ {z}) = BytesOf(r) + y.bytes
      BY <3>7, <3>8
    <3>11. BytesOf(t) = BytesOf(s) + y.bytes
      BY <2>4, <2>5, <3>9, <3>10
    <3> QED  BY <2>2, <3>11
  <2> QED  BY <2>6, <2>7
<1>2. Cardinality(S) \in Nat
  BY FS_CardinalityType
<1> HIDE DEF Adds
<1>3. Adds(S, x)
  BY <1>1, <1>2
<1> QED  BY <1>3 DEF Adds

-----------------------------------------------------------------------------
(* Traffic totals *)

\* The traffic of a stored event is filed under a session of its own that is over.
RecordsFiled ==
  /\ IsFiniteSet(records)
  /\ \A x \in records : \E i \in SessionIds \ OnlineIds :
       x.session = {i} /\ sessions[i].server = x.server /\ sessions[i].cn = x.cn
  /\ \A x, y \in records : x.session = y.session => x = y

\* The session a request's record is about: a new one, or one without a record that the
\* request closes.
RecordTaken(w, x) ==
  \/ /\ x.session = {}
     /\ txn[w].insert = <<[server |-> w, cn |-> x.cn, status |-> "offline"]>>
  \/ \E i \in SessionIds :
       /\ x.session = {i} /\ i \in txn[w].close
       /\ sessions[i].server = w /\ sessions[i].cn = x.cn
       /\ \A y \in records : y.session # {i}

\* The totals a record counts in.
KeysOf(x) == DimensionsOf(x.server, x.cn, x.certificate) \X TrafficPeriods(x.day)

\* DepartmentNeverOvercounts, of the other totals too.
NeverOvercounts ==
  \A k \in AggregateKeys : /\ aggregates[k].total <= Ledger(k).total
                           /\ aggregates[k].count <= Ledger(k).count

\* What a request adds to the totals is what its record says.  Only the events of its own
\* server write the rows of a server and of its certificates, so these are as they were read.
TrafficAdded(x, y) ==
  /\ y.key \in KeysOf(x) /\ y.bytes = x.bytes
  /\ y.key[1] \in Targets => /\ y.total = aggregates[y.key].total + x.bytes
                             /\ y.count = aggregates[y.key].count + 1
  /\ y.total <= Ledger(y.key).total + x.bytes
  /\ y.count <= Ledger(y.key).count + 1

\* The traffic of a request in progress: none, or one record with all of its totals.
EventTraffic(w) ==
  LET t == txn[w] IN
  /\ t.record = {} => t.aggregates = {} /\ t.alerts = {}
  /\ \A x \in t.record :
       /\ t.record = {x} /\ x.server = w
       /\ RecordTaken(w, x)
       /\ \A y \in t.aggregates : TrafficAdded(x, y)
       /\ \A k \in KeysOf(x) : \E y \in t.aggregates : y.key = k

\* An alert a request raises is about traffic it adds; a rule that its totals exceed has an
\* alert or gets one.
EventAlerts(w) ==
  LET t == txn[w] IN
  \A x \in t.record :
    /\ \A z \in t.alerts :
         /\ <<z.rule.target, z.period>> \in KeysOf(x) /\ z.actual > z.rule.threshold
         /\ z.actual <= Ledger(<<z.rule.target, z.period>>).total + x.bytes
    /\ \A r \in Rules, y \in t.aggregates :
         y.key[1] = r.target /\ y.key[2][1] = r.period /\ y.count >= 2 /\ y.total > r.threshold =>
           \/ AlertsOf(r, y.key[2]) # {}
           \/ \E z \in t.alerts : z.rule = r /\ z.period = y.key[2]

\* The inductive invariant of the traffic theorems, next to IInv.
TrafficInv ==
  /\ RecordsFiled /\ LedgerExact /\ NeverOvercounts /\ AlertsAsExceeded
  /\ \A w \in Workers : EventTraffic(w) /\ EventAlerts(w)

\* The traffic recorded for a key is a pair of numbers.
LEMMA LedgerFacts ==
  ASSUME TypeOK, IsFiniteSet(records), NEW k
  PROVE  Ledger(k).total \in Nat /\ Ledger(k).count \in Nat
<1>1. RecordsFor(k) \in SUBSET TrafficRecord /\ IsFiniteSet(RecordsFor(k))
  BY FS_Subset DEF RecordsFor, TypeOK
<1> QED  BY <1>1, BytesOfNat, FS_CardinalityType DEF Ledger

\* It changes with the records only.
LEMMA LedgerStays ==
  ASSUME UNCHANGED records, NEW k
  PROVE  Ledger(k)' = Ledger(k)
BY DEF Ledger, RecordsFor

\* It grows by a new record whose session the key is one of, and by no other.
LEMMA LedgerGrows ==
  ASSUME TypeOK, IsFiniteSet(records), NEW x \in TrafficRecord, x \notin records,
         records' = records \cup {x}, NEW k
  PROVE  /\ IsFiniteSet(records')
         /\ k \in AggregateKeys =>
              IF k \in KeysOf(x)
              THEN /\ Ledger(k)'.total = Ledger(k).total + x.bytes
                   /\ Ledger(k)'.count = Ledger(k).count + 1
              ELSE Ledger(k)' = Ledger(k)
<1> DEFINE S == RecordsFor(k)
           fits == k[1] \in DimensionsOf(x.server, x.cn, x.certificate) /\ k[2] \in TrafficPeriods(x.day)
<1>1. S \in SUBSET TrafficRecord /\ IsFiniteSet(S) /\ x \notin S
  BY FS_Subset DEF RecordsFor, TypeOK
<1>2. RecordsFor(k)' = IF fits THEN S \cup {x} ELSE S
  BY DEF RecordsFor
<1>3. Ledger(k)' = [total |-> BytesOf(RecordsFor(k)'), count |-> Cardinality(RecordsFor(k)')]
  BY DEF Ledger
<1>4. Ledger(k) = [total |-> BytesOf(S), count |-> Cardinality(S)]
  BY DEF Ledger
<1>5. BytesOf(S \cup {x}) = BytesOf(S) + x.bytes /\ Cardinality(S \cup {x}) = Cardinality(S) + 1
  BY <1>1, BytesOfMore, FS_AddElement
<1>6. k \in AggregateKeys => (k \in KeysOf(x) <=> fits)
  BY DEF AggregateKeys, KeysOf
<1>7. IsFiniteSet(records')
  BY FS_AddElement
<1> HIDE DEF fits, S
<1> QED  BY <1>2, <1>3, <1>4, <1>5, <1>6, <1>7

\* The rows a record adds to are rows of the table; those of two servers and of their
\* certificates differ.
LEMMA KeysOfRecord ==
  ASSUME NEW x \in TrafficRecord
  PROVE  /\ KeysOf(x) \subseteq AggregateKeys
         /\ \A y \in TrafficRecord : \A k \in KeysOf(x) \cap KeysOf(y) :
              k[1] \in Targets => x.server = y.server
<1>1. /\ x.server \in Servers /\ x.cn \in CommonNames /\ x.day \in Days
      /\ x.certificate \in SUBSET Certificates
  BY DEF TrafficRecord
<1>2. KeysOf(x) \subseteq AggregateKeys
  BY <1>1, KeysType DEF KeysOf
<1>3. ASSUME NEW y \in TrafficRecord, NEW k \in KeysOf(x) \cap KeysOf(y), k[1] \in Targets
      PROVE  x.server = y.server
  <2>1. /\ k[1] \in DimensionsOf(x.server, x.cn, x.certificate)
        /\ k[1] \in DimensionsOf(y.server, y.cn, y.certificate)
    BY DEF KeysOf
  <2>2. ASSUME NEW z \in TrafficRecord, k[1] \in DimensionsOf(z.server, z.cn, z.certificate)
        PROVE  k[1] = <<"server", z.server>> \/ (k[1][1] = "certificate" /\ k[1][2][1] = z.server)
    <3>1. CASE k[1] = <<"server", z.server>>
      BY <3>1
    <3>2. CASE k[1] \in {"certificate"} \X z.certificate
      BY <3>2 DEF TrafficRecord
    <3>3. \A a : k[1] # <<"department", DepartmentOf[a]>>
      BY <1>3 DEF Targets
    <3> QED  BY <2>2, <3>1, <3>2, <3>3 DEF DimensionsOf
  <2>3. k[1] = <<"server", x.server>> \/ (k[1][1] = "certificate" /\ k[1][2][1] = x.server)
    BY <2>1, <2>2
  <2>4. k[1] = <<"server", y.server>> \/ (k[1][1] = "certificate" /\ k[1][2][1] = y.server)
    BY <2>1, <2>2
  <2> QED  BY <2>3, <2>4
<1> QED  BY <1>2, <1>3

\* A request goes on as it was when the tables its record is about are as they were.
LEMMA TrafficWaits ==
  ASSUME NEW v \in Workers, EventTraffic(v), EventAlerts(v),
         txn'[v] = txn[v], UNCHANGED <<sessions, records, aggregates, alerts>>
  PROVE  EventTraffic(v)' /\ EventAlerts(v)'
<1>1. \A k : Ledger(k)' = Ledger(k)
  BY LedgerStays
<1>2. ASSUME NEW x \in txn[v].record
      PROVE  RecordTaken(v, x)'
  <2>1. RecordTaken(v, x)
    BY DEF EventTraffic
  <2>2. SessionIds' = SessionIds
    BY DEF SessionIds
  <2>3. CASE /\ x.session = {}
             /\ txn[v].insert = <<[server |-> v, cn |-> x.cn, status |-> "offline"]>>
    BY <2>3 DEF RecordTaken
  <2>4. CASE \E i \in SessionIds :
               /\ x.session = {i} /\ i \in txn[v].close
               /\ sessions[i].server = v /\ sessions[i].cn = x.cn
               /\ \A y \in records : y.session # {i}
    BY <2>2, <2>4 DEF RecordTaken
  <2> QED  BY <2>1, <2>3, <2>4 DEF RecordTaken
<1>3. \A x \in txn[v].record : \A y \in txn[v].aggregates : TrafficAdded(x, y)'
  BY <1>1 DEF EventTraffic, TrafficAdded
<1>4. EventTraffic(v)'
  BY <1>2, <1>3 DEF EventTraffic
<1>5. EventAlerts(v)'
  BY <1>1 DEF EventAlerts, AlertsOf
<1> QED  BY <1>4, <1>5

\* A request without a traffic record adds nothing to the totals.
LEMMA NoTraffic ==
  ASSUME TypeOK, TrafficInv, NEW w \in Workers, NEW t,
         t.record = {}, t.aggregates = {}, t.alerts = {},
         txn' = [txn EXCEPT ![w] = t], UNCHANGED <<sessions, records, aggregates, alerts>>
  PROVE  TrafficInv'
<1>1. \A v \in Workers : txn'[v] = IF v = w THEN t ELSE txn[v]
  BY DEF TypeOK
<1>2. \A k : Ledger(k)' = Ledger(k)
  BY LedgerStays
<1>3. RecordsFiled' /\ LedgerExact' /\ NeverOvercounts' /\ AlertsAsExceeded'
  BY <1>2 DEF TrafficInv, RecordsFiled, LedgerExact, NeverOvercounts,
              AlertsAsExceeded, AlertsOf, SessionIds, OnlineIds
<1>4. ASSUME NEW v \in Workers
      PROVE  EventTraffic(v)' /\ EventAlerts(v)'
  <2>1. CASE v = w
    BY <1>1, <2>1 DEF EventTraffic, EventAlerts
  <2>2. CASE v # w
    BY <1>1, <2>2, TrafficWaits DEF TrafficInv
  <2> QED  BY <2>1, <2>2
<1> QED  BY <1>3, <1>4 DEF TrafficInv

\* The rows a disconnect event writes add its bytes to every total of its session.
LEMMA AggregateWritesAdd ==
  ASSUME TypeOK, TrafficInv, NEW s \in Servers, NEW cn \in CommonNames, NEW b \in ByteCounts,
         NEW x \in TrafficRecord, x.server = s, x.cn = cn, x.bytes = b, x.day = today,
         x.certificate = SessionCertificate(s, cn)
  PROVE  /\ \A y \in AggregateWrites(s, cn, b) : TrafficAdded(x, y)
         /\ \A k \in KeysOf(x) : \E y \in AggregateWrites(s, cn, b) : y.key = k
<1>1. KeysOf(x) = EventDimensions(s, cn) \X TrafficPeriods(today)
  BY DEF KeysOf, EventDimensions
<1>2. ASSUME NEW y \in AggregateWrites(s, cn, b)
      PROVE  TrafficAdded(x, y)
  <2>1. PICK k \in KeysOf(x) :
          y = [key |-> k, bytes |-> b, total |-> aggregates[k].total + b,
               count |-> aggregates[k].count + 1, fresh |-> aggregates[k].count = 0]
    BY <1>1 DEF AggregateWrites
  <2>2. /\ y.key = k /\ y.bytes = b /\ y.total = aggregates[k].total + b
        /\ y.count = aggregates[k].count + 1
    BY <2>1
  <2>3. k \in AggregateKeys
    BY KeysOfRecord
  <2>4. /\ aggregates[k].total <= Ledger(k).total /\ aggregates[k].count <= Ledger(k).count
        /\ aggregates[k].total \in Nat /\ aggregates[k].count \in Nat
    BY <2>3 DEF TypeOK, TrafficInv, NeverOvercounts
  <2>5. Ledger(k).total \in Nat /\ Ledger(k).count \in Nat
    BY LedgerFacts DEF TrafficInv, RecordsFiled
  <2>6. b \in Nat
    BY BytesAssumption
  <2> QED  BY <2>2, <2>4, <2>5, <2>6 DEF TrafficAdded
<1>3. ASSUME NEW k \in KeysOf(x)
      PROVE  \E y \in AggregateWrites(s, cn, b) : y.key = k
  <2>1. [key |-> k, bytes |-> b, total |-> aggregates[k].total + b,
         count |-> aggregates[k].count + 1, fresh |-> aggregates[k].count = 0]
          \in AggregateWrites(s, cn, b)
    BY <1>1 DEF AggregateWrites
  <2> QED  BY <2>1
<1> QED  BY <1>2, <1>3

\* Its alerts report no more than is stored with them, and none is left out.
LEMMA AlertWritesExceed ==
  ASSUME TypeOK, TrafficInv, NEW s \in Servers, NEW cn \in CommonNames, NEW b \in ByteCounts,
         NEW x \in TrafficRecord, x.server = s, x.cn = cn, x.bytes = b, x.day = today,
         x.certificate = SessionCertificate(s, cn)
  PROVE  /\ \A z \in AlertWrites(s, cn, b) :
              /\ <<z.rule.target, z.period>> \in KeysOf(x) /\ z.actual > z.rule.threshold
              /\ z.actual <= Ledger(<<z.rule.target, z.period>>).total + x.bytes
         /\ \A r \in Rules : \A y \in AggregateWrites(s, cn, b) :
              y.key[1] = r.target /\ y.key[2][1] = r.period /\ y.count >= 2
                /\ y.total > r.threshold =>
                \/ AlertsOf(r, y.key[2]) # {}
                \/ \E z \in AlertWrites(s, cn, b) : z.rule = r /\ z.period = y.key[2]
<1>1. KeysOf(x) = EventDimensions(s, cn) \X TrafficPeriods(today) /\ today \in Days /\ b \in Nat
  BY BytesAssumption DEF KeysOf, EventDimensions, TypeOK
<1>2. ASSUME NEW z \in AlertWrites(s, cn, b)
      PROVE  /\ <<z.rule.target, z.period>> \in KeysOf(x) /\ z.actual > z.rule.threshold
             /\ z.actual <= Ledger(<<z.rule.target, z.period>>).total + x.bytes
  <2>1. PICK r \in ExceededRules(s, cn, b) :
          z = [rule |-> r, period |-> PeriodOf(r, today),
               actual |-> EvaluatedBytes(<<r.target, PeriodOf(r, today)>>, b),
               certificate |-> SessionCertificate(s, cn), status |-> "open"]
    BY DEF AlertWrites
  <2> DEFINE k == <<r.target, PeriodOf(r, today)>>
  <2>2. z.rule = r /\ z.period = PeriodOf(r, today) /\ z.actual = EvaluatedBytes(k, b)
    BY <2>1
  <2>3. r \in Rules /\ r.target \in EventDimensions(s, cn) /\ EvaluatedBytes(k, b) > r.threshold
    BY DEF ExceededRules
  <2>4. k \in KeysOf(x)
    BY <1>1, <2>3, PeriodOfType
  <2>5. k \in AggregateKeys
    BY <2>4, KeysOfRecord
  <2>6. aggregates[k].total <= Ledger(k).total /\ aggregates[k].total \in Nat
    BY <2>5 DEF TypeOK, TrafficInv, NeverOvercounts
  <2>7. Ledger(k).total \in Nat
    BY LedgerFacts DEF TrafficInv, RecordsFiled
  <2>8. EvaluatedBytes(k, b) <= Ledger(k).total + b
    BY <1>1, <2>6, <2>7 DEF EvaluatedBytes
  <2> QED  BY <2>2, <2>3, <2>4, <2>8
<1>3. ASSUME NEW r \in Rules, NEW y \in AggregateWrites(s, cn, b),
             y.key[1] = r.target, y.key[2][1] = r.period, y.count >= 2, y.total > r.threshold,
             AlertsOf(r, y.key[2]) = {}
      PROVE  \E z \in AlertWrites(s, cn, b) : z.rule = r /\ z.period = y.key[2]
  <2>1. PICK k \in KeysOf(x) :
          y = [key |-> k, bytes |-> b, total |-> aggregates[k].total + b,
               count |-> aggregates[k].count + 1, fresh |-> aggregates[k].count = 0]
    BY <1>1 DEF AggregateWrites
  <2>2. /\ y.key = k /\ y.total = aggregates[k].total + b
        /\ y.count = aggregates[k].count + 1
    BY <2>1
  <2>3. k \in AggregateKeys
    BY KeysOfRecord
  <2>4. aggregates[k].count # 0
    BY <1>3, <2>2, <2>3 DEF TypeOK
  <2>5. EvaluatedBytes(k, b) > r.threshold
    BY <1>3, <2>2, <2>4 DEF EvaluatedBytes
  <2>6. k[1] \in EventDimensions(s, cn) /\ k[2] \in TrafficPeriods(today) /\ k = <<k[1], k[2]>>
    BY <1>1
  <2>7. PeriodOf(r, today) \in TrafficPeriods(today) /\ PeriodOf(r, today)[1] = r.period
    BY <1>1, PeriodOfType
  <2>8. \A p, q \in TrafficPeriods(today) : p[1] = q[1] => p = q
    BY DEF TrafficPeriods
  <2>9. PeriodOf(r, today) = k[2]
    BY <1>3, <2>2, <2>6, <2>7, <2>8
  <2>10. <<r.target, PeriodOf(r, today)>> = k
    BY <1>3, <2>2, <2>6, <2>9
  <2>11. r \in ExceededRules(s, cn, b)
    BY <1>3, <2>2, <2>5, <2>6, <2>9, <2>10 DEF ExceededRules
  <2>12. [rule |-> r, period |-> PeriodOf(r, today),
          actual |-> EvaluatedBytes(<<r.target, PeriodOf(r, today)>>, b),
          certificate |-> SessionCertificate(s, cn), status |-> "open"]
            \in AlertWrites(s, cn, b)
    BY <2>11 DEF AlertWrites
  <2> QED  BY <2>2, <2>9, <2>12
<1> QED  BY <1>2, <1>3

\* Taking a disconnect event: the session it ends has no record yet.
LEMMA DisconnectTraffic ==
  ASSUME IInv, TrafficInv, NEW s \in Servers, NEW cn \in CommonNames, NEW b \in ByteCounts,
         RecordSessionDisconnect(s, cn, b)
  PROVE  TrafficInv'
<1> DEFINE ended == LatestOf(OnlineOf(s, cn))
<1>a. PICK t : t = DisconnectWrites(s, cn, b)
  OBVIOUS
<1>b. PICK x : x = [session |-> ended, server |-> s, cn |-> cn, bytes |-> b, day |-> today,
                    certificate |-> SessionCertificate(s, cn)]
  OBVIOUS
<1>1. TypeOK /\ s \in Workers /\ today \in Days /\ b \in Nat
  BY BytesAssumption DEF IInv, TypeOK, Workers
<1>2. UNCHANGED <<sessions, records, aggregates, alerts>>
  BY DEF RecordSessionDisconnect, tables
<1>3. \A v \in Workers : txn'[v] = IF v = s THEN t ELSE txn[v]
  BY <1>1, <1>a DEF TypeOK, RecordSessionDisconnect
<1>4. /\ t.record = {x} /\ t.aggregates = AggregateWrites(s, cn, b)
      /\ t.alerts = AlertWrites(s, cn, b) /\ ended \subseteq t.close
      /\ ended = {} => t.insert = <<[server |-> s, cn |-> cn, status |-> "offline"]>>
  BY <1>a, <1>b DEF DisconnectWrites, Idle
<1>5. t \in Transaction
  BY <1>1, <1>a, DisconnectWritesType
<1>6. x \in TrafficRecord
  BY <1>4, <1>5 DEF Transaction
<1>7. /\ x.session = ended /\ x.server = s /\ x.cn = cn /\ x.bytes = b /\ x.day = today
      /\ x.certificate = SessionCertificate(s, cn)
  BY <1>b
<1>8. \A k : Ledger(k)' = Ledger(k)
  BY <1>2, LedgerStays
<1>9. ended = {} \/ \E i \in SessionIds : /\ ended = {i}
                                          /\ sessions[i].server = s /\ sessions[i].cn = cn
                                          /\ \A y \in records : y.session # {i}
  <2> SUFFICES ASSUME NEW i \in ended
               PROVE  /\ i \in SessionIds /\ ended = {i}
                      /\ sessions[i].server = s /\ sessions[i].cn = cn
                      /\ \A y \in records : y.session # {i}
    OBVIOUS
  <2>1. i \in OnlineIds /\ i \in SessionIds /\ sessions[i].server = s /\ sessions[i].cn = cn
    BY DEF LatestOf, OnlineOf, OnlineIds
  <2>2. \A j \in ended : j = i
    BY DEF IInv, AtMostOneOnline, LatestOf, OnlineOf
  <2>3. \A y \in records : y.session # {i}
    BY <2>1 DEF TrafficInv, RecordsFiled
  <2> QED  BY <2>1, <2>2, <2>3
<1> HIDE DEF ended
<1>10. RecordsFiled' /\ LedgerExact' /\ NeverOvercounts' /\ AlertsAsExceeded'
  BY <1>2, <1>8 DEF TrafficInv, RecordsFiled, LedgerExact, NeverOvercounts,
                    AlertsAsExceeded, AlertsOf, SessionIds, OnlineIds
<1>11. RecordTaken(s, x)'
  <2>1. txn'[s] = t /\ SessionIds' = SessionIds
    BY <1>1, <1>2, <1>3 DEF SessionIds
  <2>2. CASE ended = {}
    BY <1>4, <1>7, <2>1, <2>2 DEF RecordTaken
  <2>3. ASSUME NEW i \in SessionIds, ended = {i}, sessions[i].server = s, sessions[i].cn = cn,
               \A y \in records : y.session # {i}
        PROVE  RecordTaken(s, x)'
    <3>1. i \in t.close /\ i \in SessionIds' /\ x.session = {i}
      BY <1>4, <1>7, <2>1, <2>3
    <3> QED  BY <1>2, <1>7, <2>1, <2>3, <3>1 DEF RecordTaken
  <2> QED  BY <1>9, <2>2, <2>3
<1>12. EventTraffic(s)'
  <2>1. /\ \A y \in AggregateWrites(s, cn, b) : TrafficAdded(x, y)
        /\ \A k \in KeysOf(x) : \E y \in AggregateWrites(s, cn, b) : y.key = k
    BY <1>1, <1>6, <1>7, AggregateWritesAdd
  <2>2. \A y \in t.aggregates : TrafficAdded(x, y)'
    BY <1>2, <1>4, <1>8, <2>1 DEF TrafficAdded
  <2>3. txn'[s].record = {x} /\ txn'[s].aggregates = t.aggregates
    BY <1>1, <1>3, <1>4
  <2> QED  BY <1>4, <1>7, <1>11, <2>1, <2>2, <2>3 DEF EventTraffic
<1>13. EventAlerts(s)'
  <2>1. /\ \A z \in AlertWrites(s, cn, b) :
             /\ <<z.rule.target, z.period>> \in KeysOf(x) /\ z.actual > z.rule.threshold
             /\ z.actual <= Ledger(<<z.rule.target, z.period>>).total + x.bytes
        /\ \A r \in Rules : \A y \in AggregateWrites(s, cn, b) :
             y.key[1] = r.target /\ y.key[2][1] = r.period /\ y.count >= 2
               /\ y.total > r.threshold =>
               \/ AlertsOf(r, y.key[2]) # {}
               \/ \E z \in AlertWrites(s, cn, b) : z.rule = r /\ z.period = y.key[2]
    BY <1>1, <1>6, <1>7, AlertWritesExceed
  <2>2. /\ txn'[s].record = {x} /\ txn'[s].aggregates = AggregateWrites(s, cn, b)
        /\ txn'[s].alerts = AlertWrites(s, cn, b)
    BY <1>1, <1>3, <1>4
  <2>3. \A r, p : AlertsOf(r, p)' = AlertsOf(r, p)
    BY <1>2 DEF AlertsOf
  <2> QED  BY <1>8, <2>1, <2>2, <2>3 DEF EventAlerts
<1>14. ASSUME NEW v \in Workers \ {s}
       PROVE  EventTraffic(v)' /\ EventAlerts(v)'
  BY <1>2, <1>3, TrafficWaits DEF TrafficInv
<1> QED  BY <1>10, <1>12, <1>13, <1>14 DEF TrafficInv

\* A commit keeps the server of a session, and closes what its request closes.
LEMMA CommittedSessions ==
  ASSUME IInv, NEW w \in Workers, Commit(w)
  PROVE  /\ SessionIds \subseteq SessionIds'
         /\ \A i \in SessionIds :
              /\ sessions'[i].server = sessions[i].server /\ sessions'[i].cn = sessions[i].cn
              /\ i \notin OnlineIds \/ i \in txn[w].close => i \notin OnlineIds'
         /\ \A row \in SessionRow : txn[w].insert = <<row>> =>
              /\ Len(sessions) + 1 \in SessionIds' \ SessionIds
              /\ sessions'[Len(sessions) + 1] = row
         /\ \A v \in Workers : txn'[v] = IF v = w THEN Idle ELSE txn[v]
<1>1. TypeOK /\ txn[w] \in Transaction /\ WriteRows(txn[w])
  BY DEF IInv, TypeOK, Commit
<1>2. /\ SessionIds \subseteq SessionIds'
      /\ \A i \in SessionIds :
           sessions'[i] = IF i \in txn[w].close THEN [sessions[i] EXCEPT !.status = "offline"]
                          ELSE sessions[i]
  BY <1>1, InsertsOne, SessionsAfterCommit DEF IInv
<1>3. \A i \in SessionIds : sessions[i] \in SessionRow
  BY <1>1, ElementOfSeq DEF TypeOK, SessionIds
<1>4. ASSUME NEW i \in SessionIds
      PROVE  /\ sessions'[i].server = sessions[i].server /\ sessions'[i].cn = sessions[i].cn
             /\ i \notin OnlineIds \/ i \in txn[w].close => i \notin OnlineIds'
  BY <1>2, <1>3 DEF OnlineIds, SessionRow
<1>5. ASSUME NEW row \in SessionRow, txn[w].insert = <<row>>
      PROVE  /\ Len(sessions) + 1 \in SessionIds' \ SessionIds
             /\ sessions'[Len(sessions) + 1] = row
  <2> DEFINE closed == ClosedSessions(txn[w].close)
  <2>1. closed \in Seq(SessionRow) /\ Len(closed) = Len(sessions)
    BY <1>1, ClosedSessionsType DEF Transaction
  <2>2. <<row>> \in Seq(SessionRow) /\ Len(<<row>>) = 1 /\ <<row>>[1] = row
    OBVIOUS
  <2>3. sessions' = closed \o <<row>>
    BY <1>1, <1>5 DEF WriteRows
  <2> HIDE DEF closed
  <2>4. /\ closed \o <<row>> \in Seq(SessionRow)
        /\ Len(closed \o <<row>>) = Len(closed) + Len(<<row>>)
        /\ \A i \in 1..(Len(closed) + Len(<<row>>)) :
             (closed \o <<row>>)[i] = IF i <= Len(closed) THEN closed[i]
                                      ELSE <<row>>[i - Len(closed)]
    BY <2>1, <2>2, ConcatRows
  <2>5. Len(sessions) \in Nat /\ SessionIds = 1..Len(sessions)
    BY <1>1 DEF TypeOK, SessionIds
  <2> DEFINE n == Len(sessions) + 1
  <2>6. SessionIds' = 1..n /\ n \in 1..n
    <3>1. sessions' \in Seq(SessionRow) /\ Len(sessions') = n
      BY <2>1, <2>2, <2>3, <2>4
    <3> QED  BY <2>5, <3>1 DEF SessionIds
  <2>7. sessions'[n] = <<row>>[1]
    <3>1. n \in 1..(Len(closed) + Len(<<row>>)) /\ ~ (n <= Len(closed)) /\ n - Len(closed) = 1
      BY <2>1, <2>2, <2>5
    <3> HIDE DEF n
    <3>2. (closed \o <<row>>)[n] = <<row>>[n - Len(closed)]
      BY <2>4, <3>1
    <3> QED  BY <2>3, <3>1, <3>2
  <2> QED  BY <2>2, <2>5, <2>6, <2>7
<1>6. \A v \in Workers : txn'[v] = IF v = w THEN Idle ELSE txn[v]
  BY <1>1 DEF TypeOK, Commit
<1> QED  BY <1>2, <1>4, <1>5, <1>6

\* The record a commit files is a new one, of a session of its server that is over.
LEMMA FiledRecord ==
  ASSUME IInv, TrafficInv, NEW w \in Workers, Commit(w), NEW x, txn[w].record = {x}
  PROVE  \E z \in TrafficRecord :
           /\ records' = records \cup {z} /\ z \notin records
           /\ z.server = w /\ z.bytes = x.bytes /\ KeysOf(z) = KeysOf(x)
           /\ \E i \in SessionIds' \ OnlineIds' :
                /\ z.session = {i} /\ sessions'[i].server = w /\ sessions'[i].cn = z.cn
                /\ i \in SessionIds => sessions[i].server = w
                /\ \A y \in records : y.session # {i}
<1>1. TypeOK /\ txn[w] \in Transaction /\ WriteRows(txn[w])
  BY DEF IInv, TypeOK, Commit
<1>2. x \in TrafficRecord /\ x.server = w /\ RecordTaken(w, x)
  BY <1>1 DEF Transaction, TrafficInv, EventTraffic
<1>3. /\ \A i \in SessionIds :
           /\ sessions'[i].server = sessions[i].server /\ sessions'[i].cn = sessions[i].cn
           /\ i \notin OnlineIds \/ i \in txn[w].close => i \notin OnlineIds'
      /\ SessionIds \subseteq SessionIds'
      /\ \A row \in SessionRow : txn[w].insert = <<row>> =>
           /\ Len(sessions) + 1 \in SessionIds' \ SessionIds
           /\ sessions'[Len(sessions) + 1] = row
  BY CommittedSessions
<1>4. PICK z : z = RecordOf(x)
  OBVIOUS
<1>5. records' = records \cup {z}
  BY <1>1, <1>4 DEF WriteRows
<1>6. Len(sessions) + 1 \in Nat \ {0}
  BY <1>1 DEF TypeOK
<1>7. /\ z \in TrafficRecord /\ z.server = x.server /\ z.cn = x.cn
      /\ z.bytes = x.bytes /\ z.day = x.day /\ z.certificate = x.certificate
      /\ z.session = IF x.session = {} THEN {Len(sessions) + 1} ELSE x.session
  BY <1>2, <1>4, <1>6 DEF RecordOf, TrafficRecord
<1>8. KeysOf(z) = KeysOf(x)
  BY <1>7 DEF KeysOf
<1>9. \E i \in SessionIds' \ OnlineIds' :
        /\ z.session = {i} /\ sessions'[i].server = w /\ sessions'[i].cn = z.cn
        /\ i \in SessionIds => sessions[i].server = w
        /\ \A y \in records : y.session # {i}
  <2>1. CASE x.session = {}
    <3>1. txn[w].insert = <<[server |-> w, cn |-> x.cn, status |-> "offline"]>>
      BY <1>2, <2>1 DEF RecordTaken
    <3>2. w \in Servers /\ x.cn \in CommonNames
      BY <1>2 DEF TrafficRecord
    <3>3. PICK row \in SessionRow : row = [server |-> w, cn |-> x.cn, status |-> "offline"]
      BY <3>2 DEF SessionRow
    <3>4. row.server = w /\ row.cn = z.cn /\ row.status = "offline" /\ txn[w].insert = <<row>>
      BY <1>7, <3>1, <3>3
    <3> DEFINE i == Len(sessions) + 1
    <3>5. i \in SessionIds' \ SessionIds /\ sessions'[i] = row
      BY <1>3, <3>4
    <3>6. i \notin OnlineIds'
      BY <3>4, <3>5 DEF OnlineIds
    <3>7. \A y \in records : y.session # {i}
      BY <3>5 DEF TrafficInv, RecordsFiled
    <3>8. z.session = {i}
      BY <1>7, <2>1
    <3> HIDE DEF i
    <3> QED  BY <3>4, <3>5, <3>6, <3>7, <3>8
  <2>2. CASE x.session # {}
    <3>1. PICK i \in SessionIds :
            /\ x.session = {i} /\ i \in txn[w].close
            /\ sessions[i].server = w /\ sessions[i].cn = x.cn
            /\ \A y \in records : y.session # {i}
      BY <1>2, <2>2 DEF RecordTaken
    <3>2. /\ i \in SessionIds' /\ i \notin OnlineIds'
          /\ sessions'[i].server = w /\ sessions'[i].cn = z.cn
      BY <1>3, <1>7, <3>1
    <3>3. z.session = {i}
      BY <1>7, <2>2, <3>1
    <3> QED  BY <3>1, <3>2, <3>3
  <2> QED  BY <2>1, <2>2
<1>10. z \notin records
  BY <1>9
<1> QED  BY <1>2, <1>5, <1>7, <1>8, <1>9, <1>10

\* A request of another worker goes on when the tables grow by rows that are not its own.
LEMMA TrafficOfOthers ==
  ASSUME TypeOK, TrafficInv, IsFiniteSet(records'), TypeOK', NEW v \in Workers,
         txn'[v] = txn[v], SessionIds \subseteq SessionIds',
         \A i \in SessionIds : /\ sessions'[i].server = sessions[i].server
                               /\ sessions'[i].cn = sessions[i].cn,
         \A y \in records' \ records : \A i \in SessionIds :
           y.session = {i} => sessions[i].server # v,
         \A k \in AggregateKeys : /\ Ledger(k).total <= Ledger(k)'.total
                                  /\ Ledger(k).count <= Ledger(k)'.count,
         \A x \in txn[v].record : \A k \in KeysOf(x) :
           k[1] \in Targets => aggregates'[k] = aggregates[k],
         alerts \subseteq alerts'
  PROVE  EventTraffic(v)' /\ EventAlerts(v)'
<1>1. EventTraffic(v) /\ EventAlerts(v) /\ txn[v] \in Transaction
  BY DEF TrafficInv, TypeOK
<1>2. \A x \in txn[v].record : x \in TrafficRecord /\ KeysOf(x) \subseteq AggregateKeys
  BY <1>1, KeysOfRecord DEF Transaction
<1>3. \A k : /\ Ledger(k).total \in Nat /\ Ledger(k).count \in Nat
             /\ Ledger(k)'.total \in Nat /\ Ledger(k)'.count \in Nat
  <2>1. \A k : Ledger(k).total \in Nat /\ Ledger(k).count \in Nat
    BY LedgerFacts DEF TrafficInv, RecordsFiled
  <2>2. ASSUME NEW k
        PROVE  Ledger(k)'.total \in Nat /\ Ledger(k)'.count \in Nat
    <3>1. RecordsFor(k)' \in SUBSET TrafficRecord /\ IsFiniteSet(RecordsFor(k)')
      BY FS_Subset DEF RecordsFor, TypeOK
    <3>2. BytesOf(RecordsFor(k)') \in Nat /\ Cardinality(RecordsFor(k)') \in Nat
      BY <3>1, BytesOfNat, FS_CardinalityType
    <3>3. Ledger(k)' = [total |-> BytesOf(RecordsFor(k)'), count |-> Cardinality(RecordsFor(k)')]
      BY DEF Ledger
    <3> QED  BY <3>2, <3>3
  <2> QED  BY <2>1, <2>2
<1>4. ASSUME NEW x \in txn[v].record
      PROVE  RecordTaken(v, x)'
  <2>1. RecordTaken(v, x)
    BY <1>1 DEF EventTraffic
  <2>2. CASE /\ x.session = {}
             /\ txn[v].insert = <<[server |-> v, cn |-> x.cn, status |-> "offline"]>>
    BY <2>2 DEF RecordTaken
  <2>3. ASSUME NEW i \in SessionIds, x.session = {i}, i \in txn[v].close,
               sessions[i].server = v, sessions[i].cn = x.cn, \A y \in records : y.session # {i}
        PROVE  RecordTaken(v, x)'
    <3>1. \A y \in records' : y.session # {i}
      BY <2>3
    <3>2. /\ i \in SessionIds' /\ sessions'[i].server = v /\ sessions'[i].cn = x.cn
          /\ i \in txn'[v].close
      BY <2>3
    <3> QED  BY <2>3, <3>1, <3>2 DEF RecordTaken
  <2> QED  BY <2>1, <2>2, <2>3 DEF RecordTaken
<1>5. ASSUME NEW x \in txn[v].record, NEW y \in txn[v].aggregates
      PROVE  TrafficAdded(x, y)'
  <2>1. TrafficAdded(x, y) /\ y.key \in AggregateKeys /\ y \in AggregateWrite
    BY <1>1, <1>2 DEF EventTraffic, TrafficAdded, Transaction
  <2>2. x.bytes \in Nat /\ y.total \in Nat /\ y.count \in Nat
    BY <1>2, <2>1 DEF TrafficRecord, AggregateWrite
  <2>3. /\ Ledger(y.key).total <= Ledger(y.key)'.total
        /\ Ledger(y.key).count <= Ledger(y.key)'.count
    BY <2>1
  <2>4. y.total <= Ledger(y.key)'.total + x.bytes /\ y.count <= Ledger(y.key)'.count + 1
    BY <1>3, <2>1, <2>2, <2>3 DEF TrafficAdded
  <2>5. y.key \in KeysOf(x) /\ y.bytes = x.bytes
    BY <2>1 DEF TrafficAdded
  <2>6. y.key[1] \in Targets => /\ y.total = aggregates'[y.key].total + x.bytes
                                /\ y.count = aggregates'[y.key].count + 1
    BY <2>1, <2>5 DEF TrafficAdded
  <2> QED  BY <2>4, <2>5, <2>6 DEF TrafficAdded
<1>6. EventTraffic(v)'
  BY <1>1, <1>4, <1>5 DEF EventTraffic
<1>7. EventAlerts(v)'
  <2>1. ASSUME NEW x \in txn[v].record, NEW z \in txn[v].alerts
        PROVE  z.actual <= Ledger(<<z.rule.target, z.period>>)'.total + x.bytes
    <3> DEFINE k == <<z.rule.target, z.period>>
    <3>1. k \in KeysOf(x) /\ z.actual <= Ledger(k).total + x.bytes
      BY <1>1 DEF EventAlerts
    <3>2. k \in AggregateKeys /\ x.bytes \in Nat /\ z.actual \in Nat
      BY <1>1, <1>2, <3>1 DEF TrafficRecord, TrafficAlert, Transaction
    <3> HIDE DEF k
    <3>3. Ledger(k).total <= Ledger(k)'.total
      BY <3>2
    <3>4. z.actual <= Ledger(k)'.total + x.bytes
      BY <1>3, <3>1, <3>2, <3>3
    <3> QED  BY <3>4 DEF k
  <2>2. \A r, p : AlertsOf(r, p) \subseteq AlertsOf(r, p)'
    BY DEF AlertsOf
  <2> QED  BY <1>1, <2>1, <2>2 DEF EventAlerts
<1> QED  BY <1>6, <1>7

\* The totals and the alerts after a commit are those of the records with the new one.
LEMMA CommittedTotals ==
  ASSUME IInv, TrafficInv, NEW w \in Workers, Commit(w), NEW x, txn[w].record = {x},
         \A k \in AggregateKeys :
           IF k \in KeysOf(x) THEN /\ Ledger(k)'.total = Ledger(k).total + x.bytes
                                   /\ Ledger(k)'.count = Ledger(k).count + 1
           ELSE Ledger(k)' = Ledger(k)
  PROVE  /\ \A k \in AggregateKeys \ KeysOf(x) : aggregates'[k] = aggregates[k]
         /\ LedgerExact' /\ NeverOvercounts' /\ AlertsAsExceeded'
<1> DEFINE t == txn[w]
<1>1. TypeOK /\ t \in Transaction /\ WriteRows(t)
  BY DEF IInv, TypeOK, Commit
<1>2. EventTraffic(w) /\ EventAlerts(w)
  BY DEF TrafficInv
<1>3. /\ x \in TrafficRecord /\ x.bytes \in Nat
      /\ \A y \in t.aggregates : TrafficAdded(x, y)
      /\ \A k \in KeysOf(x) : \E y \in t.aggregates : y.key = k
  BY <1>1, <1>2 DEF Transaction, EventTraffic, TrafficRecord
<1>4. KeysOf(x) \subseteq AggregateKeys
  BY <1>3, KeysOfRecord
<1>5. \A k \in AggregateKeys :
        aggregates'[k] = IF \E y \in t.aggregates : y.key = k
                         THEN WrittenAggregate(CHOOSE y \in t.aggregates : y.key = k,
                                               aggregates[k])
                         ELSE aggregates[k]
  BY <1>1 DEF WriteRows
<1>6. \A k \in AggregateKeys \ KeysOf(x) : aggregates'[k] = aggregates[k]
  BY <1>3, <1>5 DEF TrafficAdded
\* The row that is written, whose total stays as it was when the bytes are none.
<1>7. ASSUME NEW k \in KeysOf(x)
      PROVE  \E y \in t.aggregates :
               /\ y.key = k /\ TrafficAdded(x, y)
               /\ aggregates'[k].total = IF x.bytes = 0 THEN aggregates[k].total ELSE y.total
               /\ aggregates'[k].count = y.count
  <2>1. PICK y \in t.aggregates :
          y.key = k /\ aggregates'[k] = WrittenAggregate(y, aggregates[k])
    BY <1>3, <1>4, <1>5
  <2>2. TrafficAdded(x, y)
    BY <1>3
  <2> QED  BY <2>1, <2>2 DEF WrittenAggregate, TrafficAdded
<1>8. \A k \in AggregateKeys :
        /\ aggregates[k].total \in Nat /\ aggregates[k].count \in Nat
        /\ Ledger(k).total \in Nat /\ Ledger(k).count \in Nat
        /\ aggregates[k].total <= Ledger(k).total /\ aggregates[k].count <= Ledger(k).count
  BY <1>1, LedgerFacts DEF TypeOK, TrafficInv, RecordsFiled, NeverOvercounts
<1>9. \A y \in t.aggregates : y.total \in Nat /\ y.count \in Nat
  BY <1>1 DEF Transaction, AggregateWrite
<1> HIDE DEF t
<1>10. LedgerExact'
  <2> SUFFICES ASSUME NEW k \in Targets \X Periods
               PROVE  aggregates'[k] = Ledger(k)'
    BY DEF LedgerExact
  <2>1. k \in AggregateKeys /\ k[1] \in Targets /\ aggregates[k] = Ledger(k)
    BY DEF AggregateKeys, Dimensions, TrafficInv, LedgerExact
  <2>2. CASE k \notin KeysOf(x)
    BY <1>6, <2>1, <2>2
  <2>3. CASE k \in KeysOf(x)
    <3>1. PICK y \in t.aggregates :
            /\ y.key = k /\ TrafficAdded(x, y)
            /\ aggregates'[k].total = IF x.bytes = 0 THEN aggregates[k].total ELSE y.total
            /\ aggregates'[k].count = y.count
      BY <1>7, <2>3
    <3>2. y.total = Ledger(k).total + x.bytes /\ y.count = Ledger(k).count + 1
      BY <2>1, <3>1 DEF TrafficAdded
    <3>3. /\ aggregates'[k].total = Ledger(k)'.total
          /\ aggregates'[k].count = Ledger(k)'.count
      BY <1>3, <1>8, <2>1, <2>3, <3>1, <3>2
    <3>4. aggregates'[k] \in [total : Nat, count : Nat]
      BY <1>1, <2>1, WriteRowsType
    <3>5. Ledger(k)' = [total |-> Ledger(k)'.total, count |-> Ledger(k)'.count]
      BY DEF Ledger
    <3> QED  BY <3>3, <3>4, <3>5
  <2> QED  BY <2>2, <2>3
<1>11. NeverOvercounts'
  <2> SUFFICES ASSUME NEW k \in AggregateKeys
               PROVE  /\ aggregates'[k].total <= Ledger(k)'.total
                      /\ aggregates'[k].count <= Ledger(k)'.count
    BY DEF NeverOvercounts
  <2>1. CASE k \notin KeysOf(x)
    BY <1>6, <1>8, <2>1
  <2>2. CASE k \in KeysOf(x)
    <3>1. PICK y \in t.aggregates :
            /\ y.key = k /\ TrafficAdded(x, y)
            /\ aggregates'[k].total = IF x.bytes = 0 THEN aggregates[k].total ELSE y.total
            /\ aggregates'[k].count = y.count
      BY <1>7, <2>2
    <3>2. y.total <= Ledger(k).total + x.bytes /\ y.count <= Ledger(k).count + 1
      BY <3>1 DEF TrafficAdded
    <3> QED  BY <1>3, <1>8, <1>9, <2>2, <3>1, <3>2
  <2> QED  BY <2>1, <2>2
<1>12. alerts' = alerts \cup t.alerts
  BY <1>1 DEF WriteRows, t
<1>13. ASSUME NEW z \in alerts'
       PROVE  /\ z.actual > z.rule.threshold
              /\ z.actual <= Ledger(<<z.rule.target, z.period>>)'.total
  <2>1. z \in TrafficAlert
    BY <1>1, WriteRowsType
  <2> DEFINE k == <<z.rule.target, z.period>>
  <2>2. k \in AggregateKeys /\ z.actual \in Nat
    BY <2>1, RulesAssumption DEF TrafficAlert, AggregateKeys, Dimensions
  <2>3. CASE z \in alerts
    <3>1. z.actual > z.rule.threshold /\ z.actual <= Ledger(k).total
      BY <2>3 DEF TrafficInv, AlertsAsExceeded
    <3> HIDE DEF k
    <3>2. z.actual <= Ledger(k)'.total
      BY <1>3, <1>8, <2>2, <3>1
    <3> QED  BY <3>1, <3>2 DEF k
  <2>4. CASE z \in t.alerts
    <3>1. /\ k \in KeysOf(x) /\ z.actual > z.rule.threshold
          /\ z.actual <= Ledger(k).total + x.bytes
      BY <1>2, <2>4 DEF EventAlerts, t
    <3> HIDE DEF k
    <3>2. z.actual <= Ledger(k)'.total
      BY <2>2, <3>1
    <3> QED  BY <3>1, <3>2 DEF k
  <2> QED  BY <1>12, <2>3, <2>4
<1>14. ASSUME NEW r \in Rules, NEW p \in Periods, p[1] = r.period,
              aggregates'[<<r.target, p>>].count >= 2,
              aggregates'[<<r.target, p>>].total > r.threshold
       PROVE  AlertsOf(r, p)' # {}
  <2> DEFINE k == <<r.target, p>>
  <2>1. k \in AggregateKeys /\ r.target \in Targets /\ k[1] = r.target /\ k[2] = p
    BY RulesAssumption DEF AggregateKeys, Dimensions
  <2>2. AlertsOf(r, p) \subseteq AlertsOf(r, p)'
    BY <1>12 DEF AlertsOf
  <2>3. CASE k \notin KeysOf(x)
    <3>1. aggregates'[k] = aggregates[k]
      BY <1>6, <2>1, <2>3
    <3> QED  BY <1>14, <2>2, <3>1 DEF TrafficInv, AlertsAsExceeded
  <2>4. CASE k \in KeysOf(x)
    <3>1. PICK y \in t.aggregates :
            /\ y.key = k /\ TrafficAdded(x, y)
            /\ aggregates'[k].total = IF x.bytes = 0 THEN aggregates[k].total ELSE y.total
            /\ aggregates'[k].count = y.count
      BY <1>7, <2>4
    <3>2. y.total = aggregates[k].total + x.bytes
      BY <2>1, <3>1 DEF TrafficAdded
    <3>3. y.total = aggregates'[k].total
      BY <1>8, <2>1, <3>1, <3>2
    <3>4. y.total > r.threshold /\ y.count >= 2 /\ y.key[1] = r.target /\ y.key[2] = p
      BY <1>14, <2>1, <3>1, <3>3
    <3>5. AlertsOf(r, p) # {} \/ \E z \in t.alerts : z.rule = r /\ z.period = p
      BY <1>2, <1>14, <3>4 DEF EventAlerts, t
    <3> QED  BY <1>12, <2>2, <3>5 DEF AlertsOf
  <2> QED  BY <2>3, <2>4
<1>15. AlertsAsExceeded'
  BY <1>13, <1>14 DEF AlertsAsExceeded
<1> QED  BY <1>6, <1>10, <1>11, <1>15

\* Committing: an event adds the record, its totals and its alerts in one step, any other
\* request none of them.
LEMMA CommitTraffic ==
  ASSUME IInv, TypeOK', TrafficInv, NEW w \in Workers, Commit(w)
  PROVE  TrafficInv'
<1>1. TypeOK /\ txn[w] \in Transaction /\ WriteRows(txn[w])
  BY DEF IInv, TypeOK, Commit
<1>2. /\ SessionIds \subseteq SessionIds'
      /\ \A i \in SessionIds :
           /\ sessions'[i].server = sessions[i].server /\ sessions'[i].cn = sessions[i].cn
           /\ i \notin OnlineIds \/ i \in txn[w].close => i \notin OnlineIds'
      /\ \A v \in Workers : txn'[v] = IF v = w THEN Idle ELSE txn[v]
  BY CommittedSessions
<1>3. EventTraffic(w)' /\ EventAlerts(w)'
  BY <1>2 DEF EventTraffic, EventAlerts, Idle
<1>4. alerts \subseteq alerts'
  BY <1>1 DEF WriteRows
<1>5. \A y \in records : \E i \in SessionIds' \ OnlineIds' :
        y.session = {i} /\ sessions'[i].server = y.server /\ sessions'[i].cn = y.cn
  BY <1>2 DEF TrafficInv, RecordsFiled
<1>6. \A k : Ledger(k).total \in Nat /\ Ledger(k).count \in Nat
  BY <1>1, LedgerFacts DEF TrafficInv, RecordsFiled
<1>7. CASE txn[w].record = {}
  <2>1. txn[w].aggregates = {} /\ txn[w].alerts = {}
    BY <1>7 DEF TrafficInv, EventTraffic
  <2>2. UNCHANGED <<records, alerts>>
    BY <1>1, <1>7, <2>1 DEF WriteRows
  <2>3. \A k \in AggregateKeys : aggregates'[k] = aggregates[k]
    BY <1>1, <2>1 DEF WriteRows
  <2>4. \A k : Ledger(k)' = Ledger(k)
    BY <2>2, LedgerStays
  <2>5. RecordsFiled'
    BY <1>5, <2>2 DEF RecordsFiled, TrafficInv
  <2>6. LedgerExact' /\ NeverOvercounts'
    BY <2>3, <2>4 DEF TrafficInv, LedgerExact, NeverOvercounts, AggregateKeys,
                      Dimensions
  <2>7. AlertsAsExceeded'
    <3>1. \A r \in Rules, p \in Periods : <<r.target, p>> \in AggregateKeys
      BY RulesAssumption DEF AggregateKeys, Dimensions
    <3> QED  BY <2>2, <2>3, <2>4, <3>1 DEF TrafficInv, AlertsAsExceeded, AlertsOf
  <2>8. ASSUME NEW v \in Workers \ {w}
        PROVE  EventTraffic(v)' /\ EventAlerts(v)'
    <3>1. \A k \in AggregateKeys : /\ Ledger(k).total <= Ledger(k)'.total
                                   /\ Ledger(k).count <= Ledger(k)'.count
      BY <1>6, <2>4
    <3>2. \A x \in txn[v].record : \A k \in KeysOf(x) :
            k[1] \in Targets => aggregates'[k] = aggregates[k]
      BY <1>1, <2>3, KeysOfRecord DEF TypeOK, Transaction
    <3>3. IsFiniteSet(records') /\ txn'[v] = txn[v]
      BY <1>2, <2>5 DEF RecordsFiled
    <3>4. \A y \in records' \ records : \A i \in SessionIds :
            y.session = {i} => sessions[i].server # v
      BY <2>2
    <3> QED  BY <1>1, <1>2, <1>4, <3>1, <3>2, <3>3, <3>4, TrafficOfOthers
  <2> QED  BY <1>3, <2>5, <2>6, <2>7, <2>8 DEF TrafficInv
<1>8. CASE txn[w].record # {}
  <2>1. PICK x : txn[w].record = {x} /\ x.server = w /\ x \in TrafficRecord
    BY <1>1, <1>8 DEF TrafficInv, EventTraffic, Transaction
  <2>2. PICK z \in TrafficRecord :
          /\ records' = records \cup {z} /\ z \notin records
          /\ z.server = w /\ z.bytes = x.bytes /\ KeysOf(z) = KeysOf(x)
          /\ \E i \in SessionIds' \ OnlineIds' :
               /\ z.session = {i} /\ sessions'[i].server = w /\ sessions'[i].cn = z.cn
               /\ i \in SessionIds => sessions[i].server = w
               /\ \A y \in records : y.session # {i}
    BY <2>1, FiledRecord
  <2>3. IsFiniteSet(records)
    BY DEF TrafficInv, RecordsFiled
  <2>4. \A k \in AggregateKeys :
          IF k \in KeysOf(z) THEN /\ Ledger(k)'.total = Ledger(k).total + z.bytes
                                  /\ Ledger(k)'.count = Ledger(k).count + 1
          ELSE Ledger(k)' = Ledger(k)
    BY <1>1, <2>2, <2>3, LedgerGrows
  <2>5. \A k \in AggregateKeys :
          IF k \in KeysOf(x) THEN /\ Ledger(k)'.total = Ledger(k).total + x.bytes
                                  /\ Ledger(k)'.count = Ledger(k).count + 1
          ELSE Ledger(k)' = Ledger(k)
    BY <2>2, <2>4
  <2>6. IsFiniteSet(records')
    BY <2>2, <2>3, FS_AddElement
  <2>7. RecordsFiled'
    <3>1. \A y \in records : y.session # z.session
      BY <2>2
    <3>2. \A y, q \in records : y.session = q.session => y = q
      BY DEF TrafficInv, RecordsFiled
    <3> QED  BY <1>5, <2>2, <2>6, <3>1, <3>2 DEF RecordsFiled
  <2>8. /\ \A k \in AggregateKeys \ KeysOf(x) : aggregates'[k] = aggregates[k]
        /\ LedgerExact' /\ NeverOvercounts' /\ AlertsAsExceeded'
    BY <2>1, <2>5, CommittedTotals
  <2>9. ASSUME NEW v \in Workers \ {w}
        PROVE  EventTraffic(v)' /\ EventAlerts(v)'
    <3>1. \A k \in AggregateKeys : /\ Ledger(k).total <= Ledger(k)'.total
                                   /\ Ledger(k).count <= Ledger(k)'.count
      <4>1. x.bytes \in Nat
        BY <2>1 DEF TrafficRecord
      <4> QED  BY <1>6, <2>5, <4>1
    <3>2. ASSUME NEW y \in txn[v].record, NEW k \in KeysOf(y), k[1] \in Targets
          PROVE  aggregates'[k] = aggregates[k]
      <4>1. y \in TrafficRecord /\ y.server = v
        BY <1>1 DEF TypeOK, Transaction, TrafficInv, EventTraffic
      <4>2. k \in AggregateKeys
        BY <4>1, KeysOfRecord
      <4>3. k \notin KeysOf(x)
        <5>1. \A j \in KeysOf(x) \cap KeysOf(y) : j[1] \in Targets => x.server = y.server
          BY <2>1, <4>1, KeysOfRecord
        <5> QED  BY <2>1, <3>2, <4>1, <5>1
      <4> QED  BY <2>8, <4>2, <4>3
    <3>3. \A y \in txn[v].record : \A k \in KeysOf(y) :
            k[1] \in Targets => aggregates'[k] = aggregates[k]
      BY <3>2
    <3>4. \A y \in records' \ records : \A i \in SessionIds :
            y.session = {i} => sessions[i].server # v
      BY <2>2
    <3>5. txn'[v] = txn[v]
      BY <1>2
    <3> QED  BY <1>1, <1>2, <1>4, <2>6, <3>1, <3>3, <3>4, <3>5, TrafficOfOthers
  <2> QED  BY <1>3, <2>7, <2>8, <2>9 DEF TrafficInv
<1> QED  BY <1>7, <1>8

\* Processing an alert keeps its rule, its period and its bytes.
LEMMA AlertProcessed ==
  ASSUME TypeOK, TrafficInv, NEW x \in alerts, ProcessTrafficAlert(x)
  PROVE  TrafficInv'
<1>1. PICK p : p = [x EXCEPT !.status = "processed"]
  OBVIOUS
<1>2. /\ alerts' = (alerts \ {x}) \cup {p}
      /\ UNCHANGED <<sessions, records, aggregates, txn>>
  BY <1>1 DEF ProcessTrafficAlert
<1>3. p.rule = x.rule /\ p.period = x.period /\ p.actual = x.actual
  BY <1>1 DEF TypeOK, TrafficAlert
<1>4. \A k : Ledger(k)' = Ledger(k)
  BY <1>2, LedgerStays
<1>5. \A r, q : AlertsOf(r, q) # {} => AlertsOf(r, q)' # {}
  <2> SUFFICES ASSUME NEW r, NEW q, NEW y \in AlertsOf(r, q)
               PROVE  AlertsOf(r, q)' # {}
    OBVIOUS
  <2>1. y \in alerts' \/ p \in AlertsOf(r, q)'
    BY <1>2, <1>3 DEF AlertsOf
  <2> QED  BY <2>1 DEF AlertsOf
<1>6. RecordsFiled' /\ LedgerExact' /\ NeverOvercounts'
  BY <1>2, <1>4 DEF TrafficInv, RecordsFiled, LedgerExact, NeverOvercounts,
                    SessionIds, OnlineIds
<1>7. AlertsAsExceeded'
  BY <1>2, <1>3, <1>4, <1>5 DEF TrafficInv, AlertsAsExceeded
<1>8. ASSUME NEW v \in Workers
      PROVE  EventTraffic(v)' /\ EventAlerts(v)'
  <2>1. EventTraffic(v) /\ EventAlerts(v)
    BY DEF TrafficInv
  <2>2. SessionIds' = SessionIds
    BY <1>2 DEF SessionIds
  <2>3. \A y \in txn[v].record : RecordTaken(v, y)'
    BY <1>2, <2>1, <2>2 DEF EventTraffic, RecordTaken
  <2>4. \A y \in txn[v].record : \A z \in txn[v].aggregates : TrafficAdded(y, z)'
    BY <1>2, <1>4, <2>1 DEF EventTraffic, TrafficAdded
  <2>5. EventTraffic(v)'
    BY <1>2, <2>1, <2>3, <2>4 DEF EventTraffic
  <2>6. EventAlerts(v)'
    BY <1>2, <1>4, <1>5, <2>1 DEF EventAlerts
  <2> QED  BY <2>5, <2>6
<1> QED  BY <1>6, <1>7, <1>8 DEF TrafficInv

\* No traffic, no totals and no alerts at first.
LEMMA TrafficInit == Init => TrafficInv
<1> SUFFICES ASSUME Init PROVE TrafficInv
  OBVIOUS
<1>1. records = {} /\ alerts = {} /\ \A w \in Workers : txn[w] = Idle
  BY DEF Init
<1>2. \A k : Ledger(k) = [total |-> 0, count |-> 0]
  <2>1. \A k : RecordsFor(k) = {}
    BY <1>1 DEF RecordsFor
  <2>2. BytesOf({}) = 0 /\ Cardinality({}) = 0
    BY FS_EmptySet, BytesOfSteps
  <2> QED  BY <2>1, <2>2 DEF Ledger
<1>3. \A k \in AggregateKeys : aggregates[k] = [total |-> 0, count |-> 0]
  BY DEF Init
<1>4. RecordsFiled
  BY <1>1, FS_EmptySet DEF RecordsFiled
<1>5. LedgerExact /\ NeverOvercounts
  BY <1>2, <1>3 DEF LedgerExact, NeverOvercounts, AggregateKeys, Dimensions
<1>6. AlertsAsExceeded
  <2>1. \A r \in Rules, p \in Periods : aggregates[<<r.target, p>>].count = 0
    BY <1>3, RulesAssumption DEF AggregateKeys, Dimensions
  <2> QED  BY <1>1, <2>1 DEF AlertsAsExceeded
<1>7. \A w \in Workers : EventTraffic(w) /\ EventAlerts(w)
  BY <1>1 DEF EventTraffic, EventAlerts, Idle
<1> QED  BY <1>4, <1>5, <1>6, <1>7 DEF TrafficInv

\* Every step keeps the invariant: one step of the proof per action.
LEMMA TrafficNext == IInv /\ TrafficInv /\ [Next]_vars => TrafficInv'
<1> SUFFICES ASSUME IInv, TrafficInv, [Next]_vars PROVE TrafficInv'
  OBVIOUS
<1>1. TypeOK /\ TypeOK'
  BY TypeNext DEF IInv
<1>2. ASSUME UNCHANGED <<sessions, records, aggregates, alerts, txn>>
      PROVE  TrafficInv'
  <2>1. RecordsFiled' /\ LedgerExact' /\ NeverOvercounts' /\ AlertsAsExceeded'
    <3>1. \A k : Ledger(k)' = Ledger(k)
      BY <1>2, LedgerStays
    <3> QED  BY <1>2, <3>1 DEF TrafficInv, RecordsFiled, LedgerExact,
                               NeverOvercounts, AlertsAsExceeded, AlertsOf,
                               SessionIds, OnlineIds
  <2>2. \A v \in Workers : EventTraffic(v)' /\ EventAlerts(v)'
    BY <1>2, TrafficWaits DEF TrafficInv
  <2> QED  BY <2>1, <2>2 DEF TrafficInv
<1>3. ASSUME NEW s \in Servers, NEW cn \in CommonNames, RecordSessionConnect(s, cn)
      PROVE  TrafficInv'
  <2>1. /\ ConnectWrites(s, cn).record = {} /\ ConnectWrites(s, cn).aggregates = {}
        /\ ConnectWrites(s, cn).alerts = {}
    BY DEF ConnectWrites, Idle
  <2> QED  BY <1>1, <1>3, <2>1, NoTraffic DEF RecordSessionConnect, Workers, tables
<1>4. ASSUME NEW s \in Servers, NEW cn \in CommonNames, NEW b \in ByteCounts,
             RecordSessionDisconnect(s, cn, b)
      PROVE  TrafficInv'
  BY <1>4, DisconnectTraffic
<1>5. CASE \E s \in Servers, cn \in CommonNames : LoseConnect(s, cn) \/ LoseDisconnect(s, cn)
  BY <1>2, <1>5 DEF LoseConnect, LoseDisconnect, tables
<1>6. ASSUME NEW w \in Admins, NEW i \in SessionIds, KickSession(w, i)
      PROVE  TrafficInv'
  <2>1. KickWrites(i).record = {} /\ KickWrites(i).aggregates = {} /\ KickWrites(i).alerts = {}
    BY DEF KickWrites, Idle
  <2> QED  BY <1>1, <1>6, <2>1, NoTraffic DEF KickSession, Workers, tables
<1>7. ASSUME NEW w \in Admins, NEW a \in Accounts, NEW status \in {"enabled", "disabled"},
             SetAccountStatus(w, a, status)
      PROVE  TrafficInv'
  <2>1. /\ AccountWrites(a, status).record = {} /\ AccountWrites(a, status).aggregates = {}
        /\ AccountWrites(a, status).alerts = {}
    BY DEF AccountWrites, Idle
  <2> QED  BY <1>1, <1>7, <2>1, NoTraffic DEF SetAccountStatus, Workers, tables
<1>8. ASSUME NEW w \in Admins, NEW a \in Accounts, RevokeAccount(w, a)
      PROVE  TrafficInv'
  <2>1. PICK chosen \in SUBSET Certificates :
          txn' = [txn EXCEPT ![w] = [AccountWrites(a, "revoked") EXCEPT !.revoke = chosen]]
    BY <1>8 DEF RevokeAccount
  <2> DEFINE t == [AccountWrites(a, "revoked") EXCEPT !.revoke = chosen]
  <2>2. t.record = {} /\ t.aggregates = {} /\ t.alerts = {}
    BY DEF AccountWrites, Idle
  <2> HIDE DEF t
  <2>3. txn' = [txn EXCEPT ![w] = t] /\ UNCHANGED <<sessions, records, aggregates, alerts>>
    BY <1>8, <2>1 DEF RevokeAccount, tables, t
  <2> QED  BY <1>1, <2>2, <2>3, NoTraffic DEF Workers
<1>9. ASSUME NEW w \in Admins,
             \/ \E s \in Servers, a \in Accounts : IssueCertificate(w, s, a)
             \/ \E c \in Certificates : RevokeCertificate(w, c) \/ RenewCertificate(w, c)
      PROVE  TrafficInv'
  <2>1. PICK t \in Transaction :
          /\ t.record = {} /\ t.aggregates = {} /\ t.alerts = {}
          /\ txn' = [txn EXCEPT ![w] = t] /\ UNCHANGED tables
    BY <1>9, CertificateRequest
  <2> QED  BY <1>1, <2>1, NoTraffic DEF Workers, tables
<1>10. ASSUME NEW x \in alerts, ProcessTrafficAlert(x)
       PROVE  TrafficInv'
  BY <1>1, <1>10, AlertProcessed
<1>11. ASSUME NEW w \in Workers, Commit(w)
       PROVE  TrafficInv'
  BY <1>1, <1>11, CommitTraffic
<1>12. ASSUME NEW w \in Workers, Rollback(w)
       PROVE  TrafficInv'
  <2>1. Idle.record = {} /\ Idle.aggregates = {} /\ Idle.alerts = {}
    BY DEF Idle
  <2> QED  BY <1>1, <1>12, <2>1, NoTraffic DEF Rollback, tables
<1>13. CASE NextDay \/ UNCHANGED vars
  BY <1>2, <1>13 DEF NextDay, vars, tables
<1> QED  BY <1>3, <1>4, <1>5, <1>6, <1>7, <1>8, <1>9, <1>10, <1>11, <1>12, <1>13 DEF Next

\* Whatever requests overlap, fail or are lost, the totals of a server and of a certificate
\* are the sums of their traffic records (_add_traffic_aggregate).
THEOREM TotalsAreExact == Spec => []LedgerExact
<1>1. TrafficInv => LedgerExact
  BY DEF TrafficInv
<1> QED  BY <1>1, IInvInit, IInvNext, TrafficInit, TrafficNext, PTL DEF Spec

\* Two servers that write the totals of a department at the same time may lose traffic
\* there; the totals never exceed the traffic recorded.
THEOREM DepartmentsNeverOvercount == Spec => []DepartmentNeverOvercounts
<1>1. TrafficInv => DepartmentNeverOvercounts
  BY DEF TrafficInv, NeverOvercounts, DepartmentNeverOvercounts, AggregateKeys, Dimensions
<1> QED  BY <1>1, IInvInit, IInvNext, TrafficInit, TrafficNext, PTL DEF Spec

\* An alert reports traffic that is recorded, above the threshold of its rule, and a rule
\* exceeded in a period with a second session has one (_evaluate_traffic_thresholds).
THEOREM AlertsAreAsExceeded == Spec => []AlertsAsExceeded
<1>1. TrafficInv => AlertsAsExceeded
  BY DEF TrafficInv
<1> QED  BY <1>1, IInvInit, IInvNext, TrafficInit, TrafficNext, PTL DEF Spec

\* However kicks, disables, lost events and the events of other servers interleave, the
\* traffic of a session is recorded once and the session is over: the session a disconnect
\* event ends has no record yet (record_session_disconnect, _record_session_traffic).
THEOREM TrafficIsRecordedOnce == Spec => []TrafficOncePerSession
<1>1. TrafficInv => TrafficOncePerSession
  BY DEF TrafficInv, RecordsFiled, TrafficOncePerSession
<1> QED  BY <1>1, IInvInit, IInvNext, TrafficInit, TrafficNext, PTL DEF Spec
=============================================================================
