--------------------------- MODULE MCVpnCertificates ---------------------------
(* An instance of VpnCertificates for TLC: one account. *)
EXTENDS VpnCertificates

CONSTANTS a1, s1, s2, n1, n2, w1, w2

\* One request at a time; the user is renamed and changes departments.
MCOrderly ==
  [workers |-> {w1}, servers |-> {s1}, departments |-> {1, 2}, names |-> {n1, n2},
   maxSerials |-> 3, maxFaults |-> 0, operators |-> {"delete"}]
\* One request at a time; the account is enabled on one server and on another.
MCServers ==
  [workers |-> {w1}, servers |-> {s1, s2}, departments |-> {1, 2}, names |-> {n1},
   maxSerials |-> 3, maxFaults |-> 0, operators |-> {"delete"}]
\* Two requests at a time; the account moves between two servers.
MCConcurrent ==
  [workers |-> {w1, w2}, servers |-> {s1, s2}, departments |-> {1}, names |-> {n1},
   maxSerials |-> 2, maxFaults |-> 0, operators |-> {"threshold", "move"}]
\* Every operation, with a failed request or a lost answer.
MCFailures ==
  [workers |-> {w1}, servers |-> {s1, s2}, departments |-> {1}, names |-> {n1, n2},
   maxSerials |-> 2, maxFaults |-> 1, operators |-> Options]
\* Configurations are downloaded, also after a change of department.
MCDownloads ==
  [workers |-> {w1}, servers |-> {s1}, departments |-> {1, 2, 3}, names |-> {n1},
   maxSerials |-> 2, maxFaults |-> 0, operators |-> {"config", "expired"}]
\* Two requests at a time, downloads and changes of department among them.
MCOverlaps ==
  [workers |-> {w1, w2}, servers |-> {s1}, departments |-> {1, 2}, names |-> {n1},
   maxSerials |-> 1, maxFaults |-> 0, operators |-> {"config"}]
MCScopes == {MCOrderly, MCServers, MCConcurrent, MCFailures, MCDownloads,
            MCOverlaps}
=============================================================================
