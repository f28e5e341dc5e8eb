# Verification of OIM

TLA+ specifications of the OIM back end (`src/backend/app`), of the database
migrations it is deployed with (`src/backend/alembic/versions`), and of the VPN
servers' hook scripts as far as they talk to it. TLC checks the specifications on
small instances; TLAPS proves every safety property but those of the migrations, and one
refinement, for every instance.

## The system and its parts

OIM is a FastAPI service over MySQL with a Vue front end. Every request runs in
a thread of one process with a database session of its own
(`database.py:16`: `autoflush=False`, InnoDB repeatable reads). No handler locks
what it reads (`SELECT ... FOR UPDATE` appears nowhere): what two requests may do to
each other is decided by what each read in its snapshot, which columns its flush
writes, the bulk statements that act on the rows as they are now, and the unique
constraints. Many requests commit more than once, and some run commands on VPN
servers between two commits.

| Component | State | Operations | What makes it hard | What makes it correct | Modelled |
|---|---|---|---|---|---|
| VPN sessions and events (`openvpn_service.py`) | `openvpn_sessions` | connect and disconnect events, kick, closing on disable / revoke / threshold | events of several servers and administrators overlap; events are lost; tunnels outlive a kick | one online row per server and name, only over a real tunnel; a session's traffic is recorded once | yes |
| Traffic accounting, thresholds, alerts | records, day and month totals, rules, alerts | recording at a disconnect, evaluation, processing an alert | read-modify-write totals; evaluation before the flush; period boundaries; renewals write certificates, too | totals are sums of records; alerts are justified; an alerted certificate is revoked | partly |
| VPN accounts and credentials | accounts, certificates, Easy-RSA PKI, revocation list, key archive; WireGuard keys, addresses, peers | enable, disable, assign, revoke, issue, renew, download | two stores without a common transaction; failures and lost answers of remote commands; renamed and moved users | database and servers agree on what is trusted; what is revoked leaves no keys or peers | yes |
| VPN servers | servers, default flag | create, update, delete, set default | bulk update and flag in two statements; defaults filled in; the type may change | at most one default server; a port stays as asked | yes |
| VPN assignment rules | rules, the account's server and source | rule maintenance, resolution, enabling, assigning | priorities, fallback, servers and source columns written apart | the recorded source explains the server | yes |
| Hook scripts (`docs/openvpn/*.sh`) | none | post one event, wait, exit 0 | an event whose post fails is lost | - | yes |
| Department tree (`department_service.py`) | parent, deleted mark | create, move, delete, restore | validation against a snapshot; operations on deleted rows | live departments form a tree; deleted ones hold no live user | yes |
| Users (`user_service.py`) | users, lists of departments, scope, roles, positions, VPN account | create, update, delete, assign | an update is up to six commits, and one more for the log, which shows less than was asked | the log tells how users are; inactive users have no enabled VPN; deletion is final | partly |
| Data scope (`data_scope.py`) | configured departments | which users a user may see | its own copy of the descendant search | the scope is the subtree | partly |
| Roles, permissions, menus | tables, a role's permissions | role maintenance; the codes endpoints ask for | permissions exist only through migrations | every code asked for exists and is granted | partly |
| Attendance (`attendance_service.py`) | shifts, schedules, records, rest rules, requests, daily results, monthly summaries | all of their maintenance, approval, rebuilding | an approval commits before it is applied; rules saved in three commits; days that overlap | a request is decided once and takes effect; results do not contradict records | partly |
| Schema migrations | the schema, permissions, grants | 41 revisions up and down | MySQL commits before each schema statement; the container restarts | what reports the newest revision has what models and endpoints need | yes |
| Deployment | - | upgrade at each start, restart on failure | - | the newest revision is reached | partly |
| Login and operation logs | append-only rows | record, list | recording is a commit of its own | what is logged happened | partly |
| Positions, domains; authentication, captcha; start-up; front end | single-row tables, a dictionary under one lock, wiring | - | - | - | no |

They interact through the tables. The hooks call the events; disabling or
deleting a user disables its VPN account, which closes its sessions; a
threshold revokes a certificate; traffic is attributed to the user's department;
an account's server comes from rules on its user's departments, roles and
positions; the data scope searches the tree the department service maintains;
approved requests change schedules and records, and daily results are built from all.

## Modules

| Module | Models |
|---|---|
| `VpnSession` | events, sessions, accounting, thresholds, alerts, the requests that close sessions |
| `VpnCertificates` | OpenVPN certificates over the database, the authority of each server and the key archive |
| `WireGuardPeers` | WireGuard keys and addresses over the database, each interface and its saved configuration |
| `VpnServers` | server maintenance, the default server, what the backend fills in |
| `VpnAssignment` | rules, the default server and the account: which server a user gets, and what is recorded of it |
| `DepartmentTree` | the tree, its members, both descendant searches |
| `UserAccess` | users, roles and the enabling and disabling of VPN accounts, commit by commit, with the operation log |
| `RequestDecision` | what the attendance module promises of one request (abstract) |
| `AttendanceRequests` | submission, editing, withdrawal, approval and what follows it, commit by commit |
| `AttendanceResults` | schedules, records, swaps, daily results and monthly summaries |
| `RestRules` | rest rules saved in three commits, and whom they give a day off |
| `SchemaStatements` | what one statement of a revision does to the database, and when MySQL refuses it |
| `MigrationsSystem`, `MigrationsAttendance`, `MigrationsVpn` | the statements of every revision, in order |
| `SchemaModels`, `Endpoints` | the tables the application expects; the endpoints and the codes they ask for |
| `SchemaMigrations` | the upgrade at container start and one downgrade, interrupted anywhere |
| `MC...` | the instances TLC runs |
| `...Proofs` | the theorems about the module of that name; `AttendanceResultsProofs` has those about `RestRules`, too |
| `PlacementProofs` | the theorems about `DepartmentTree` and `VpnAssignment`: where users are placed |

### A request is several steps

An operation is an action that takes the snapshot its queries read and leaves in
`txn[w]` what its flush will write, and a commit that writes it over whatever is
stored by then, if the unique constraints allow it. A rollback is the constraint
violation, the database error or the crash. A request with several commits goes on
from each to the next; what it re-reads after one (`BaseService.commit` refreshes
the row) is a step too. A column whose value the request did not change is not
written, as in the ORM: `Merged`, `WriteColumns`, `WrittenAggregate`, the
set differences of `AccountWrites` and `UpdateWrites`. Bulk statements act
on the rows as they are and lock them until the commit. The clearing of default
servers in `VpnServers` and `UserAccess.CommitList` are one step with their commit. In
`RestRules`, where the question is whether two replacements of departments can mix, the
deletion and the insertion are two steps, and what keeps them apart is modelled: a
deletion locks the rows it finds, or the gap where there is none; nobody inserts
into a gap another locks (`Locking`), and two that wait for each other end with one
rolled back (`Deadlocked`).

Variables marked "history" in their declarations record what the program does not
store (a request that overlapped another, the keys an account once had). No step depends
on them, except that `RestRules` counts the requests of a rule by them for its bound.

### VPN

| In the model | In the code |
|---|---|
| `VpnSession.sessions` (position = id) | `openvpn_sessions`: server, common name, status |
| `accountStatus`, `records`, `aggregates`, `alerts` | their tables; count 0 stands for no aggregate row; the byte columns are one number |
| `certificateStatus` | the status column of `openvpn_certificates`; row `<<server, account, n>>` is the n-th of an account there, issued and renewed by the requests of this module as far as its tables see them |
| `tunnels`, `missed` | the tunnels that really exist (environment); pairs whose last disconnect left no trace (history) |
| `overtaken` | certificates revoked while a renewal that had read them was under way (history) |
| `RecordSessionConnect`, `RecordSessionDisconnect`, `LoseConnect`, `LoseDisconnect` | the two events with everything they call; the hook's `\|\| logger ...; exit 0` |
| `VpnCertificates.row`, `account` | `openvpn_certificates` by serial number, `openvpn_accounts` |
| `signed`, `file`, `revoked`, `crl`, `archive` | what Easy-RSA signed, has on file, revoked and lists; directories with an account's key |
| `VpnCertificates.lost` | directories with a key that no row names any more: of refused, failed or overlapping requests, and of downloads repeated after a change of department (history) |
| `WireGuardPeers.peers`, `saved` | `wg set` on the interface; what `wg-quick save` wrote, and a restart loads |
| `keysOf`; `moved`, `raced`, `overlapped`, `forgotten`, `reverted` | the keys stored for an account so far; accounts that changed servers, were issued at one time with another or had two requests about them, whose credential a threshold revoked; servers back on an older saved configuration (history) |
| `VpnServers.server`, `asked` | the columns `vpn_type`, `is_default`, `status`, `port`, host and key of a server; ports asked for, by number or with the type (history) |
| `VpnAssignment.rules`, `default`, `account` | the rules in order, the default server; server, source and rule of the account |
| `since` | what happened to the rule and the default server since the account was given its server (history) |

The hooks of one server run one at a time (OpenVPN waits for the script and `curl`
for the answer), so a server is one worker in `VpnSession`. A tunnel a kick closes in
the database stays up. The code accepts the events of a disabled account, and so
does the model. In `VpnCertificates` and `WireGuardPeers` a command that was given up
on may still have run; nothing takes back a command whose request fails later. A WireGuard
interface gives an address to one peer: adding it to another cuts the first off.

### Departments and users

`parent`, `created`, `deleted`, `member` and `gone` are columns of the
department, membership and user tables. The breadth-first loops are recursive
functions over rounds; `Descendants` is the reference: the least set closed under live
children. `UserAccess.rows` holds users with their lists and VPN account, and roles
with their permissions; a payload says which columns and lists a request carries, a
list being ids in the order given, some of them perhaps not valid, or null. Of
departments, scope and roles the first valid id is kept. `logged` holds what the log last
told of each field, without nulls and cut to `LogItems` ids; `untold` the fields it
does not tell, or not whole: nulls, cut lists, registrations, the users beyond the first of
a batch. `update_admin_user` is its six commits in order. Profile fields are left out, as are
who may send a request (decided before it starts) and departments becoming invalid
(`DepartmentTree`).

### Attendance

`AttendanceRequests` is the concurrent part: a decision, its effect and
the daily results are three transactions of one handler. Its
`requests` are the columns that decide what happens; `daily[d]` is the set of requests the
result of day d counted. `AttendanceResults` is the arithmetic, one request per
action: time in units of which `DayLength` make a day, lateness against shifts that may
end on the next day, the record window of two days, the order of the status tests, the
sums of a month. `RestRules` stands for one date, which a rule matches or does not.

### Migrations

A database is a record of columns, indexes, foreign keys, permissions, grants and
the data that is moved (`SchemaStatements`). A revision is the sequence of its
statements, computed from the database it begins on where the code looks first.
`Step` carries one out; schema statements commit all before them; `Fail` and `Crash`
lose the rows since the last of them and the revision number; the next `Begin` starts the
revision over.

## Runs

| Run | Instance | Distinct states | Shows |
|---|---|---|---|
| `vpn_session_concurrent` | 2 servers, 1 account with up to 2 certificates, 1 administrator, 3 sessions, 1 day | 3 125 000 | Two servers report one account while an administrator kicks, disables, issues, renews and revokes: which sessions are online, what a department is charged, what an alert revokes (renewals under way named) and that every session has its traffic recorded once survive every interleaving, lost event and failed request. `AtMostOneOnline`, `OnlineIsReal`, `DepartmentNeverOvercounts`, `AlertedCertificateRevoked`, `TrafficOncePerSession` |
| `vpn_session_calendar` | 1 server, an account and an unknown name, 2 days of a month, 4 sessions, 2 rules | 282 000 | One server over the two days of a month: day and month totals stay exact, and the alerts of a period are those its totals exceed from the second session on. `LedgerExact`, `AlertsAsExceeded` |
| `department_tree` | 1 administrator and 4 departments, or 2 and 2; 1 user | 55 000 (up to symmetry) | Departments moved, deleted and restored, alone and two requests at a time: the descendant search is exact on every tree reached, cycles included, and a tree is broken only by restoring or by a request that overlapped another. `DescendantsCorrect`, `BrokenOnlyByRestore`, `StrayOnlyUnderDeleted` |
| `attendance_requests` | 1 handler and 2 requests, or 2 handlers and 1 request; 2 days | 402 000 | Two handlers over stale snapshots never undo a decision or apply what nobody approved; one at a time, stopped anywhere between its transactions, every approval is carried through or given up, and updates that leave the status alone implement RequestDecision. `EffectsWereApproved`, `DecidedIsFinal`, `PromiseKept`, `ApprovalsSettle` |
| `attendance_results` | 4 workplaces, 1 employee, days of 4 units | 648 000 | Four workplaces - a night shift, changing hours, a month of requests, swaps of two shifts: who clocked in or is on leave is not absent, the counts of a month do not contradict each other, and a swap within one's own schedule never takes over a shift. `MonthlyConsistent`, `PresentNotAbsent`, `OwnSwapKeepsShift` |
| `rest_rules` | 1 handler that may fail, or 2; 1 rule, 2 departments, 1 user | 1 966 000 | A rule saved in three commits, the departments deleted and inserted under row and gap locks, with failures or two administrators: its departments are never a mixture of two requests, and between requests it gives the day off to those last asked for unless one failed or overlapped another. `DepartmentsOfOneRequest`, `RestAsAsked` |
| `vpn_certificates` | 1 account; in order on one server or two, with downloads, with a failure, or 2 handlers | 6 272 000 | Certificates issued, renewed, revoked and downloaded on one server and on two: database and authorities agree between orderly requests; when an account is revoked no directory keeps a key of it but those no row names - of refused, failed or overlapping requests, and of downloads repeated after a change of department; a revoked certificate becomes another only when a renewal overlaps the revocation. `DatabaseAgrees`, `RevokedHasNoKeys`, `RevokedStays` |
| `wireguard` | 2 accounts; in order, with failures, moves and restarts, or 2 handlers | 3 805 000 | WireGuard peers under failures, lost answers, restarts, moves, thresholds and overlapping requests: the peers of a server are its issued credentials between orderly requests, addresses differ, and no key stored for a revoked account is a peer, but for accounts that moved, that a threshold or an overlapping request touched, and servers that restarted unsaved. `PeersAgree`, `AddressesDiffer`, `RevokedHasNoPeer` |
| `vpn_servers` | 2 administrators, 2 servers of either type | 4 089 000 (up to symmetry) | Two administrators edit two servers of either type, and change the type: never two default servers, none only when the flag was taken away or a stale row was written, and a server stays on a port that was asked for, by number or with its type. `DefaultUnique`, `PortKept`, `DefaultKept` |
| `vpn_assignment` | 2 servers, 2 rules for departments and roles | 1 352 000 | Rules, servers and the account of one user change in any order: what an account records as its source and rule explains the server it has, and a usable rule in front is used. `SourceIsTrue`, `UpRuleUsed` |
| `migrations` | 41 revisions, from every release | 88 000 | Every revision upgraded from every earlier one, interrupted at any statement and restarted, or downgraded once: what may fail is known, and the newest schema has what models, endpoints and roles need. `FailuresKnown`, `HeadHasModels`, `GrantsReach`, `EndpointsHaveCodes`, `MembersKept`, `DowngradeUndoes`, `UpgradeFinishes` |
| `user_access` | 2 users, 1 role; 2 handlers, or 1 that may fail | 3 063 000 | Users and roles created, registered, changed and deleted in several commits, with failures or two administrators: the operation log tells how every field is, but where a request overlapped, failed, named what is not valid or is not logged in full; inactive users have no enabled VPN account unless a request about it failed or overlapped, and deletion is final. `LogTells`, `InactiveHasNoVpn`, `DeletionIsFinal` |

### Bounds

Most modules take a set of scopes, `Scopes`: records that say how many handlers work, which
features take part and how often. `Init` chooses one and `scope` never changes, so a run is
the union of its scopes. (In `RestRules` and `VpnAssignment` the common names have a prefix,
`RestSpec`, `restScope`, `AssignmentInit`, as their theorems share a module with others'.) A property that speaks of orderly requests only says so
(`Alone`, `Orderly`), and another scope of the same run has the disorder.

- `VpnSession`: `MaxSessions` (3 or 4) stops events once so many sessions exist: a
  stale session, the one that replaces it and one of another server; or two
  for each day. Two servers are the least that race on a department. Two days share
  a month, so a month row is inserted on one and updated on the other. Sizes 0 and 2
  against thresholds 2 and 3 are below, at and above.
- `DepartmentTree`: four departments give the chains of three levels that separate a
  search from a truncated one, with one to spare for a branch; two requests at a
  time over two departments give every overlapping pair.
- `VpnCertificates`: three serials are an issue, a renewal and one more, so an
  expired row beside two others; two servers and two departments, so that a row records
  a directory its account has left twice over; three departments where configurations are
  downloaded again; two handlers, with downloads or with thresholds and moves; one failure
  or lost answer at any command.
- `WireGuardPeers`: as many addresses as accounts, three keys (one account is
  issued twice), two failures; restarts, moves and thresholds in a scope of their own;
  two handlers with thresholds in another.
- `VpnServers`: two administrators, two servers of either type, two hosts, one
  port beside the default ones, five requests: a creation and a change of type for each
  server, and one more.
- `VpnAssignment`: two servers, two rules, of one kind of target or of two that are asked one
  after the other, one priority (order among equal ones is that of creation).
- `UserAccess`: two users and one role beside the built-in user, from a system that has
  one of each or none; two handlers with three requests, or one with four that may fail.
  Two ids and a log that keeps one show what is cut from a list, and by whom; lists with an
  id that is not valid, and nulls, are among the payloads.
- `AttendanceRequests`: two requests of any type one at a time, or one request (of a
  leave or a correction) under two handlers; two days, so that a request touches one
  or both. "leave" stands for every type whose approval only counts.
- `AttendanceResults`: days of four units, one employee; two records around one
  shift over midnight; one record, also with minutes of its own, of a shift whose hours
  change; two schedule items with one request of any type; three items of two shifts with
  a swap.
- `RestRules`: one rule, two departments, one user, two requests for the rule.
- `SchemaMigrations`: from every release, once interrupted or one revision taken back;
  twice interrupted from the release before 0036, after which only "if missing"
  helpers follow.

`CHECK_DEADLOCK FALSE` stands where a run really stops: bounded requests,
serials, keys and failures used up, or the newest revision reached. The others never stop.

### Fairness

- `AttendanceRequests.FairSpec`: weak fairness of `Continue` for each
  handler. A handler that is not killed runs to its end (no lock to wait for, no
  retry); a crash is still possible at any step, and nothing makes anybody send a
  request. `ApprovalsSettle` says what follows: an approval is carried through, or
  its handler failed.
- `SchemaMigrations.FairSpec`: weak fairness of beginning, executing, failing and
  finishing: a running process executes its next statement, and a stopped container is
  started again (`docker-compose.yml`, `restart: unless-stopped`). Crashes are bounded by
  the scope, downgrades are never forced.

No other liveness is claimed: a lost event is never sent again, and a request that fails
is the caller's to repeat.

### Refinement

`AttendanceRequests` implements `RequestDecision` when handlers do not
overlap and no update carries a status (`PromiseKept`), crashes and failures included: a request may change until it is
decided, is decided once, and an approval takes effect at most once and with the content
decided on. The mapping hides the handlers and the daily results. The two conditions
are needed: `update_request` stores a status it is sent together with new content, and two
handlers approve one request twice, see below; what remains true there is
`DecidedIsFinal` and `EffectsWereApproved`.

## Where the code does not do what it says

Met while modelling; the properties above are stated so that they hold of the code as it
is, with these cases as their named exceptions.

VPN sessions (`openvpn_service.py`)
- `current_clients` ("当前在线数") drifts: a kick counts the session it kicks, a reconnect
  the one it closes (653); disabling, revoking and the threshold never recount.
- The first session of a period raises no alert whatever it transferred: the aggregate it
  adds is not flushed when the evaluation queries it (1340).
- Two disconnect events of one department lose traffic of its totals (1311); those of
  servers and certificates are safe, since a server's events are serial.

VPN credentials and servers (`openvpn_service.py`)
- An expired certificate can be renewed again, which leaves two issued ones (413).
- `revoke_account` revokes one certificate, the one that expires last; one issued before the
  account moved stays accepted on the old server (299) and can even be renewed there (411). So does a WireGuard peer (1657).
- A threshold revokes in the database only: the server goes on accepting the certificate, or
  the WireGuard peer (1388), which `revoke_account` then does not look for, as no row is issued (299).
- The certificate is revoked before the list is generated and the row is stored: if one of
  these fails, it can be neither revoked again nor replaced (400).
- A renewal that overlaps a revocation, by a person or by a threshold, overwrites the revoked
  row as expired (413).
- Files that exist under a name are reused, also those of the account that had the name
  before (1612); a download after the user changed departments forgets the earlier key
  file, which `revoke_account` then leaves (502).
- A request that is refused after it has copied the key (its serial number is stored already,
  as an existing file was reused), or fails, leaves the file in a directory no row names (1612).
- An account keeps its WireGuard address when it moves, also where it is taken (1629); two
  issued at the same time get the same one (1674). A failed `wg-quick save` is ignored, and the peer of a
  revoked credential is back after a restart (1659). An issue that overlaps the revocation of
  its account adds a peer that stays.
- Updating a server that was the default when it was read can leave none (102); each update
  of a server that is, or becomes, a WireGuard server resets port, protocol and SSH user (1031); a missing
  port becomes 1194 before the WireGuard default is considered; a changed host keeps the key
  of the old one (1662).
- An account that is enabled while nothing resolves keeps its server and is recorded as
  "default" (270); only the first rule of a target type is looked at (1003); with the fallback
  flag on, resolution stays with the unavailable server (1004).

Departments and users
- Restoring a department never looks at its parent (`department_service.py:24`); deleting a
  deleted one again skips the user check but not the cascade (49); two moves, or an
  assignment and a deletion, validated at the same time break the tree (47, 101).
- An update with `is_deleted` leaves the VPN account enabled (`user_service.py:189`); one
  that carries `is_deleted=false` and is handled while the user is deleted brings it back (188);
  a user created inactive is active between two commits (131); roles that are
  not valid are dropped silently (337). `enable_account` overlapping the deactivation of its user
  leaves the account enabled (`openvpn_service.py:251`).
- Of several departments, scope departments or roles one is kept (`user_service.py:276`), while
  the log shows all that were sent. A list sent as null empties the relation (192), and the log
  leaves it out (`operation_log_service.py:81`); it cuts lists after twenty ids (91).
  `/auth/register` creates users and logs nothing (`auth_controller.py:90`); a deletion of many
  names the first twenty. A request that fails halfway, or whose log entry fails, is not logged.

Attendance (`attendance_service.py`)
- Two approvals of one request both pass, and each applies it (315); an update that overlaps
  an approval changes what was approved (297), and two updates store the times of each and the
  duration of one (301). A rejection re-reads the row after its commit, and applies the
  approval it finds if one was written meanwhile (323).
- `update_request` writes the status it is sent: a request is approved without an approver and
  without its effect (299).
- An approval whose effect fails stays approved and is never applied (323); a shift swap within
  one's own schedule that would take over another shift always fails so (524).
- A check-out of the next day counts for this one (415), a check-out after midnight without a
  schedule item is early by a day (397), every day of a leave counts its whole duration (432), and
  the results of deleted or moved schedule items stay in `work_days` (486).
- A rest rule commits before its departments and users, and without either it applies to
  everyone (93); users are validated before the first commit and inserted after it (145).

Migrations
- Interrupted while it rebuilds foreign keys, 0004 ends without them (38); interrupted after
  its table, 0039 reports success without the indexes (36); 0033 stops at its own table for
  good (96). The indexes attendance models declare are never created (0020:242).
- A downgrade of 0019 deletes permissions, then fails; no upgrade writes them again (184).

## Proofs

Every theorem is about the module's `Spec`, for every value of its constants under
the module's named assumptions: sets of handlers, users, departments and servers may
be of any size (finite where a count is taken), and scopes may be any.

| Module | Theorems | Argument |
|---|---|---|
| `VpnSessionProofs` | `TypeInvariant`, `SessionsSafe` (`AtMostOneOnline`), `OnlineSafe` (`OnlineIsReal`), `TrafficIsRecordedOnce` (`TrafficOncePerSession`), `AlertsSafe` (`AlertedCertificateRevoked`) | A commit writes what was decided on an older snapshot, so neither session property is inductive. `IInv` adds `EventsCover`: an event in progress will close every session its name has online on its server *now* and opens one only over a tunnel. Others may close such a session but never open one, as only this server's events do and they are serial. No two events end one session, as an event ends only what it found online and only its server's events end with traffic. `AlertIInv` says a request's pending alert comes with its revocation, and that a renewal which would write over a revocation is in `overtaken`. |
| | `TotalsAreExact` (`LedgerExact`), `DepartmentsNeverOvercount` (`DepartmentNeverOvercounts`), `AlertsAreAsExceeded` (`AlertsAsExceeded`) | `TrafficInv`: every record belongs to an ended session (`RecordsFiled`), so a session is recorded once; an event in progress adds exactly its record to the totals it read (`EventTraffic`) and raises the alerts those totals call for (`EventAlerts`). The totals of a server and a certificate are written by that server's serial events only, so what was read is current; those of a department can only have grown since, so a commit may lose an update but never overcounts. |
| `VpnServersProofs` | `TypeInvariant`, `DefaultIsUnique` (`DefaultUnique`) | A commit that sets the flag clears every other row as it is then; one that does not never raises it. |
| | `PortsAreKept` (`PortKept`), `DefaultIsKept` (`DefaultKept`) | `PortInv`: a pending request carries a port asked for, by number or with the type it sets, or the one of the row it read, and a row that does not exist has the default port, which is also what a creation read. A commit writes changed columns only, so one that leaves no default server read its row as the default and takes the flag, or clears the others for a row that has lost it since. |
| `VpnCertificatesProofs` | `TypeInvariant`, `RevocationIsFinal` (`RevokedStays`) | A handler at work acts for an account that was enabled and on a row that is stored, and a renewal found its row not revoked (`Began`); of the rows stored, a commit changes the status of the one it acts on only. |
| | `DatabaseAndAuthoritiesAgree` (`DatabaseAgrees`) | `OrderlyInv`: between the steps of the one handler a certificate may be on file before its row is stored, or off file before its row says so, and that certificate is the handler's own. |
| | `RevokedAccountsKeepNoKeys` (`RevokedHasNoKeys`) | For every scope, failing and overlapping ones too. `KeysInv`: a directory with a key is named by a stored row of its account, by its department then or by the path a download recorded (`Records`), is in the hand of a handler at work, or is in `lost`; a revocation has what its rows name among what it deletes (`Clears`). |
| `WireGuardPeersProofs` | `AddressesAreDifferent` (`AddressesDiffer`) | The address a handler is about to give is nobody else's on its server (`Reserved`), and two that would give the same one know of each other (`Races`). |
| | `RevokedPeersAreGone` (`RevokedHasNoPeer`) | For any number of handlers, with failures, moves, thresholds and restarts. `PeersInv`, on the accounts and servers the property does not except: the peers with a key ever stored for an account are those of its last credential, on its own server (`OwnPeers`), none is left once no row of it is issued (`NothingLeft`), and `Halfway` says what a handler between two steps has added and removed so far, so that one that fails there leaves nothing behind that a later revocation would miss. |
| | `PeersAgreeWithRows` (`PeersAgree`) | One handler, without failures: the peers are the issued credentials but for the one the handler is at (`Expected`). |
| `AttendanceRequestsProofs` | `DecisionsAreFinal` (`DecidedIsFinal`), `EffectsAreApproved` (`EffectsWereApproved`) | A handler read its row as pending and writes changed columns only, so it never writes "pending" over another status. Every status "approved" that is stored or about to be was seen by an approver or claimed by an update (`Backed`), and effects and days count only those. |
| | `RequestsKeepThePromise` (`PromiseKept`) | The step simulation, one lemma for each commit. `Steady`: the row the one handler is about to write over is the one it read, it changes content or status and not both, and the request it applies has had no effect yet. |
| `AttendanceResultsProofs` | `OwnSwapsKeepShifts` (`OwnSwapKeepsShift`) | The moved item with the shift taken over would have the key of the very item it was taken from. |
| | `SummariesAreConsistent` (`MonthlyConsistent`), `PresentAreNotAbsent` (`PresentNotAbsent`) | An absent result has a missing record (`ResultsOK`), so a summary's counts are those of disjoint or nested finite sets. The records of a day include those of its shift on that day, a first check-in or last check-out exists as soon as there is one, and leave is a sum without negative terms (`ColumnsOK`, `PositiveSum`). |
| | `DepartmentsAreOneRequests` (`DepartmentsOfOneRequest`) | `Locks`: what a handler deleted is what is stored until it inserts, and is nothing unless it alone deletes; of several that found nothing, each holds the gap, and none inserts before the others end. So an insertion writes one accepted request's departments (`Asked`) and leaves no others beside them. |
| | `RestIsAsAsked` (`RestAsAsked`) | `Settled`: on a rule that is not disturbed at most one handler works; what it has still to write is what the last accepted request meant, and what it has written is so already. A request that leaves a list out means the list as it was read at the first commit, which nobody else writes meanwhile. |
| `UserAccessProofs` | `LogIsTrue` (`LogTells`), `InactiveUsersAreOut` (`InactiveHasNoVpn`), `DeletedStaysDeleted` (`DeletionIsFinal`) | What a handler read agrees with the row in every field no overlapping request touches (`Agrees`); an overlap is noted for both requests and every row both are about, and the end of one does not erase it while the other runs (`Overlaps`). What an accepted request makes of a field is what the log shows of it, unless the field is noted as untold (`ColumnValues`, `ShownIsValue`); a registration notes all fields of its user (`RegisterKeeps`). |
| `PlacementProofs` | `SearchesAreExact` (`DescendantsCorrect`) | What is found after a round has no children but those found and those of what is pending, and lies in every set closed under children (`Found`). A round that leaves something pending found a department more, so as many rounds as there are departments are enough, on any tree; what is found then is the least closed set (`Reaches`). |
| | `RequestsHoldTheirSnapshot`, `TreeBrokenOnlyByRestore` (`BrokenOnlyByRestore`), `UsersStrayOnlyUnderDeleted` (`StrayOnlyUnderDeleted`) | `UpToDate`: what a request that no commit overtook will write is what its checks allow of the tables as they are *now*. Three lemmas on any table of parents: moving a department out of its own tree, taking rows away and adding a leaf close no cycle (`MoveKeepsNoCycle`, `FewerKeepNoCycle`, `CreateKeepsNoCycle`). A deletion takes the whole tree, so no child stays under it. |
| | `SourcesAreTrue` (`SourceIsTrue`), `UpRulesAreUsed` (`UpRuleUsed`) | Among the rules of a target there is a least priority, and of that priority a first rule (`FirstOfRules`), so what decides is a rule with a server, and resolving without a server names no rule (`ResolvedSource`). Server, source and rule are written in one commit, but not from one reading: an enabled account may keep its server while the others change. `SourceIsTrue` is inductive with the types; each change of a rule or of the default server either leaves what the account records true or is in `since`. |

Some attempts failed first, for reasons worth knowing. `RevokedHasNoKeys`, stated with
refused requests as its only exception, was false: of two servers, where the proof stopped
at a key of a former one, and of downloads repeated after a change of department, where
TLC found the directory whose recorded path had been overwritten. `RevokedHasNoPeer` needed
its exceptions named one by one before any number of handlers could be allowed.
`PromiseKept` is not a step simulation when an update writes a
status with other columns. And `LogTells` needed overlaps to be noted for both requests,
for a row that both are about, until both end.

Sums over sets (`MapThenSumSet`) and searches in rounds are reasoned about without an
induction rule: the library's rules take an operator as a parameter, which no installed
prover can instantiate. Instead the set of sizes, or rounds, of counterexamples, were there
any, would have a least element (`NatLessThanWellFounded`, `WFMin`), and the definition leads
to a smaller one (`LeastNumber`, `SumExists`, `SumUnique` of `VpnSessionProofs`; `RoundsExist`,
`SearchEnds` of `PlacementProofs`, where the levels of a search are first shown to exist).

The named assumptions say what kind of value a constant is, that sets are finite where
something is counted, and that what stands for nothing (no parent, no server, no port) is not
one of the real values: `DepartmentTree.NoneAssumption`, `VpnAssignment.ServersAssumption`,
`VpnServers.PortsAssumption`; `UserAccess.LogItemsAssumption` says that the log keeps at least
one id of a list. None restricts what requests may do.

Only model-checked: all of `SchemaMigrations` (closed computations over 41 programs, where a
theorem would say no more than the run), and the liveness properties `ApprovalsSettle` and
`UpgradeFinishes`, which with `ENABLED` are out of the provers' reach.

## Not modelled

- Threshold rules are constants of `VpnSession`: their maintenance is one row and one commit.
- Connection logs, `max_clients` (stored, never enforced), reports and lists, which only read.
- Editing permissions, positions and domains: single rows; nothing depends on their order.
- Creating and deactivating a shift, which changes no result.
- Captchas: one dictionary whose every access is under one lock and pops what it reads.
  Tokens and password hashes are a library's.
- Login logs: append-only rows nothing reads.
- The front end keeps no shared state; the start-up code is wiring.

## Plan

1. An abstract ledger (sessions come and go, each adds its traffic once) that `VpnSession`
   implements for servers and certificates; most of the step simulation is in `TrafficInv`.
2. Threshold rules that change while events are evaluated.
