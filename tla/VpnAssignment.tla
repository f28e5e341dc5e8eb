------------------------------ MODULE VpnAssignment ------------------------------
(***************************************************************************)
(* Which server an account gets: assignment rules, the default server and  *)
(* the account's own history                                               *)
(* (src/backend/app/services/openvpn_service.py).                          *)
(*                                                                         *)
(* One user stands for all: the rules of a target the user does not belong *)
(* to never count.  Each handler is one step here; VpnServers has the      *)
(* races on servers.  Rules of equal priority stand in order of creation.  *)
(***************************************************************************)
EXTENDS Integers, Sequences

CONSTANTS
  Servers,
  AssignmentScopes, \* what is considered: records of the fields of assignmentScope
  Priorities,
  Statuses          \* statuses servers may take

TargetTypes == <<"user", "department", "role", "position">>
Targets == {TargetTypes[i] : i \in DOMAIN TargetTypes}
NoServer == "none"
NoRule == 0

ASSUME ServersAssumption == NoServer \notin Servers
ASSUME PrioritiesAssumption == Priorities \subseteq Nat
ASSUME AssignmentScopesAssumption ==
  \A x \in AssignmentScopes :
    x.default \in Servers \cup {NoServer} /\ x.maxRules \in Nat /\ x.targets \subseteq Targets
ASSUME StatusesAssumption ==
  "online" \in Statuses /\ Statuses \subseteq {"online", "offline", "maintenance", "disabled"}

VARIABLES
  assignmentScope, \* what happens in this behaviour; never changes
  server,          \* openvpn_servers: status and whether it may be used
  default,         \* the default server, or NoServer
  rules,           \* openvpn_assignment_rules in order of creation
  account,         \* the user's openvpn_accounts row
  since            \* what happened since the account was last given a server: its rule was
                   \* changed or deleted ("rule"), there is another default server
                   \* ("default"), it was enabled with no server to give it ("kept") (history)

assignmentVars == <<assignmentScope, server, default, rules, account, since>>

MaxRules == assignmentScope.maxRules  \* bound on the rules created
UserTargets == assignmentScope.targets  \* the types of target the user belongs to

AssignmentInit ==
  /\ assignmentScope \in AssignmentScopes
  /\ default = assignmentScope.default
  /\ server = [s \in Servers |-> [status |-> "online", usable |-> TRUE, deleted |-> FALSE]]
  /\ rules = <<>>
  /\ account = [status |-> "none", server |-> NoServer, source |-> "default", rule |-> NoRule]
  /\ since = {}

-----------------------------------------------------------------------------
(* resolve_user_server *)

Usable(s) == server[s].usable /\ ~server[s].deleted
Candidates(target) ==
  {r \in DOMAIN rules : /\ rules[r].exists /\ rules[r].active
                        /\ rules[r].target = target /\ Usable(rules[r].server)}
First(R) ==
  CHOOSE r \in R : \A q \in R :
    \/ rules[r].priority < rules[q].priority
    \/ rules[r].priority = rules[q].priority /\ r <= q
Available(s) == server[s].status \in {"online", "offline"}
\* Mutant: the status of the rule's server is not looked at.
DecidingAnyway(target) == {First(R) : R \in {Candidates(target)} \ {{}}}
Deciding(target) ==
  {r \in {First(R) : R \in {Candidates(target)} \ {{}}} :
     Available(rules[r].server) \/ rules[r].fallback}

ByDefault ==
  [server |-> IF default # NoServer /\ Usable(default) THEN default ELSE NoServer,
   source |-> "default", rule |-> NoRule]
Resolved ==
  LET deciding == {i \in DOMAIN TargetTypes : Deciding(TargetTypes[i]) # {}}
  IN IF deciding = {} THEN ByDefault
     ELSE LET i == CHOOSE x \in deciding : \A y \in deciding : x <= y
              r == CHOOSE x \in Deciding(TargetTypes[i]) : TRUE
          IN [server |-> rules[r].server, source |-> TargetTypes[i], rule |-> r]
Manual(s) == [server |-> s, source |-> "manual", rule |-> NoRule]

-----------------------------------------------------------------------------
(* Handlers.  A preferred server need not be active, only not deleted.     *)

Asked(preferred) == IF preferred = NoServer THEN Resolved ELSE Manual(preferred)
Preferable == {NoServer} \cup {s \in Servers : ~server[s].deleted}

\* Mutant: an account that has a server keeps it, whatever decides now.
EnableWhereItWas ==
  \E preferred \in Preferable :
    LET to == Asked(preferred)
        s == IF account.server # NoServer THEN account.server ELSE to.server
    IN /\ s # NoServer
       /\ account' = [status |-> "enabled", server |-> s, source |-> to.source, rule |-> to.rule]
       /\ since' = IF to.server = NoServer THEN since \cup {"kept"} ELSE {}
       /\ UNCHANGED <<assignmentScope, server, default, rules>>
EnableAccount ==
  \E preferred \in Preferable :
    LET to == Asked(preferred)
        s == IF to.server # NoServer THEN to.server ELSE account.server
    IN /\ s # NoServer  \* otherwise refused
       /\ account' = [status |-> "enabled", server |-> s, source |-> to.source, rule |-> to.rule]
       /\ since' = IF to.server = NoServer THEN since \cup {"kept"} ELSE {}
       /\ UNCHANGED <<assignmentScope, server, default, rules>>

DisableAccount ==
  /\ account.status # "none"
  /\ account' = [account EXCEPT !.status = "disabled"]
  /\ UNCHANGED <<assignmentScope, server, default, rules, since>>

AssignAccountServer ==
  /\ account.status # "none"
  /\ \E preferred \in Preferable :
       LET to == Asked(preferred) IN
       /\ to.server # NoServer
       /\ account' = [account EXCEPT !.server = to.server, !.source = to.source,
                                     !.rule = to.rule]
  /\ since' = {}
  /\ UNCHANGED <<assignmentScope, server, default, rules>>

SameTarget(r, x) ==
  rules[r].exists /\ rules[r].target = x.target /\ rules[r].server = x.server
Given == [exists : {TRUE}, server : {s \in Servers : ~server[s].deleted}, target : UserTargets,
          priority : Priorities, fallback : BOOLEAN, active : BOOLEAN]

\* One rule per target and server (uq_openvpn_rule_target_server).
CreateRule ==
  /\ Len(rules) < MaxRules
  /\ \E x \in Given :
       /\ \A r \in DOMAIN rules : ~SameTarget(r, x)
       /\ rules' = Append(rules, x)
  /\ UNCHANGED <<assignmentScope, server, default, account, since>>

Changed(r) == IF account.rule = r THEN since \cup {"rule"} ELSE since
UpdateRule(r) ==
  /\ rules[r].exists
  /\ \E x \in Given :
       /\ \A q \in DOMAIN rules \ {r} : ~SameTarget(q, x)
       /\ rules' = [rules EXCEPT ![r] = x]
  /\ since' = Changed(r)
  /\ UNCHANGED <<assignmentScope, server, default, account>>

\* The account forgets the rule (ondelete SET NULL); what the row held is gone.
DeleteRule(r) ==
  /\ rules[r].exists
  /\ rules' = [rules EXCEPT ![r].exists = FALSE, ![r].active = FALSE, ![r].fallback = FALSE,
                           ![r].target = TargetTypes[1]]
  /\ account' = [account EXCEPT !.rule = IF @ = r THEN NoRule ELSE @]
  /\ since' = Changed(r)
  /\ UNCHANGED <<assignmentScope, server, default>>

SetDefault(s) ==
  /\ default' = s
  /\ since' = IF s = default THEN since ELSE since \cup {"default"}

\* Any server, deleted ones too; what is deleted is disabled, whatever else is asked.
UpdateServer(s) ==
  /\ \E x \in Statuses \cup {server[s].status}, usable, deleted \in BOOLEAN :
       server' = [server EXCEPT ![s] =
         [status |-> IF deleted THEN "disabled" ELSE x, usable |-> usable /\ ~deleted,
          deleted |-> deleted]]
  /\ \/ SetDefault(s)
     \/ SetDefault(IF default = s THEN NoServer ELSE default)
  /\ UNCHANGED <<assignmentScope, rules, account>>

DeleteServer(s) ==
  /\ ~server[s].deleted
  /\ server' = [server EXCEPT ![s] = [status |-> "disabled", usable |-> FALSE, deleted |-> TRUE]]
  /\ SetDefault(IF default = s THEN NoServer ELSE default)
  /\ UNCHANGED <<assignmentScope, rules, account>>

SetDefaultServer(s) ==
  /\ ~server[s].deleted
  /\ server' = [server EXCEPT ![s].usable = TRUE]
  /\ SetDefault(s)
  /\ UNCHANGED <<assignmentScope, rules, account>>

AssignmentNext ==
  \/ EnableAccount \/ DisableAccount \/ AssignAccountServer \/ CreateRule
  \/ \E r \in DOMAIN rules : UpdateRule(r) \/ DeleteRule(r)
  \/ \E s \in Servers : UpdateServer(s) \/ DeleteServer(s) \/ SetDefaultServer(s)

AssignmentSpec == AssignmentInit /\ [][AssignmentNext]_assignmentVars

-----------------------------------------------------------------------------
(* Properties *)

\* "分配来源" (assign_source): what the account records explains the server it has.  A rule
\* it names is there, and, unless it was changed since, is for the account's server and for
\* the kind of target the account records; a source that is a target comes with its rule
\* until that is changed or deleted; and what came "by default" is on the default server
\* until there is another.  The code breaks the last where an account is enabled while
\* nothing gives it a server: it keeps the one it has, recorded as the default.
SourceIsTrue ==
  account.status # "none" =>
    /\ account.rule # NoRule =>
         /\ rules[account.rule].exists
         /\ "rule" \notin since => /\ rules[account.rule].server = account.server
                                   /\ rules[account.rule].target = account.source
    /\ account.rule = NoRule /\ "rule" \notin since => account.source \in {"manual", "default"}
    /\ account.source = "default" /\ since \cap {"default", "kept"} = {} =>
         account.server = default

\* resolve_user_server: the first rule of a target, for a server that is up, is enough
\* to get a server; one that is not up only by a rule that says so ("fallback").
UpRuleUsed ==
  (\E i \in DOMAIN TargetTypes :
     LET R == Candidates(TargetTypes[i])
     IN R # {} /\ Available(rules[First(R)].server))
  => /\ Resolved.server # NoServer
     /\ Available(Resolved.server) \/ rules[Resolved.rule].fallback

=============================================================================
