---------- MODULE MCBackends -------------------------------------------------
(* The back ends on small instances: one record for each scene. *)
EXTENDS Backends, TLC

CONSTANTS p1, p2, p3, importer, migrator, answer, banner, oldAnswer1, oldAnswer2, alice, bob, A, B

\* Two connections of a server with one source port, that a cleanup turns around, one the
\* other way and some metadata; and a pair of hosts each of which has turned flows.
Src == <<A, A, B, A>>
Dst == <<B, B, A, B>>
Sport == <<80, 80, 2001, 80>>
Dport == <<2001, 2002, 80, 2001>>
Slots == <<{1}, {1}, {2}, {2}>>
XSrc == <<A, A, B, B>>
XDst == <<B, B, A, A>>
XSport == <<8080, 8080, 9001, 9001>>
XDport == <<9001, 9002, 8080, 8081>>
XSlots == <<{1}, {1}, {1}, {1, 2}>>
Rounding == 1 :> 10 @@ 2 :> 10 @@ 10 :> 10

ImportingC ==
  [Migrator |-> migrator, Blacklist |-> answer, Legacy |-> {}, Intervals |-> FALSE,
   BulkBatch |-> 2, LocalBatch |-> 2, MaxSightings |-> 3, MaxTime |-> 2,
   MaxDeaths |-> 1, Sensors |-> {p1, p2}, Facts |-> {answer, banner},
   Routes |-> {"bulk", "direct", "local"}]
MigratingC ==
  [Migrator |-> migrator, Blacklist |-> answer, Legacy |-> {oldAnswer1, oldAnswer2},
   Intervals |-> TRUE, BulkBatch |-> 2, LocalBatch |-> 2, MaxSightings |-> 3,
   MaxTime |-> 2, MaxDeaths |-> 1, Sensors |-> {importer}, Facts |-> {answer},
   Routes |-> {"bulk", "direct"}]
WindowingC ==
  [Migrator |-> migrator, Blacklist |-> answer, Legacy |-> {}, Intervals |-> TRUE,
   BulkBatch |-> 2, LocalBatch |-> 2, MaxSightings |-> 3, MaxTime |-> 3,
   MaxDeaths |-> 0, Sensors |-> {importer}, Facts |-> {answer}, Routes |-> {"local"}]
InsertingC ==
  [Workers |-> {p1, p2, p3}, MaxHosts |-> 4, BatchSize |-> 2, MaxFailures |-> 2]
MergingC ==
  [Scans |-> {p1, p2, p3}, Ports |-> {80}, Names |-> {"http", "ssl"},
   Scripts |-> {"http-title"}, MaxTime |-> 2]
FlowingC ==
  [Records |-> 1 .. 4, Services |-> {80}, FewDports |-> 1, Rounded |-> Rounding,
   MaxJobs |-> 2, MaxFaults |-> 0, Importers |-> {p1, p2}, src |-> Src, dst |-> Dst,
   sport |-> Sport, dport |-> Dport, slots |-> Slots, Metas |-> {4}]
CrossingC ==
  [Records |-> 1 .. 4, Services |-> {80}, FewDports |-> 1, Rounded |-> Rounding,
   MaxJobs |-> 2, MaxFaults |-> 1, Importers |-> {importer}, src |-> XSrc,
   dst |-> XDst, sport |-> XSport, dport |-> XDport, slots |-> XSlots, Metas |-> {}]
LoggingC ==
  [Attempts |-> {p1, p2}, Askers |-> {importer}, Emails |-> {alice}, Known |-> {},
   RatePerEmail |-> 1, RatePerIP |-> 1, MaxFaults |-> 2, MaxChanges |-> 1,
   Welcome |-> {alice}]
ApprovingC ==
  [Attempts |-> {p1, p2}, Askers |-> {importer}, Emails |-> {alice}, Known |-> {},
   RatePerEmail |-> 1, RatePerIP |-> 1, MaxFaults |-> 0, MaxChanges |-> 2,
   Welcome |-> {}]
AskingC ==
  [Attempts |-> {importer}, Askers |-> {p1, p2}, Emails |-> {alice, bob},
   Known |-> {bob}, RatePerEmail |-> 1, RatePerIP |-> 2, MaxFaults |-> 0,
   MaxChanges |-> 0, Welcome |-> {alice}]

\* Processes, workers and scans: two of them may always be exchanged.
Symmetric == Permutations({p1, p2})
=============================================================================
