---------------------------- MODULE MC_MacSide ----------------------------
(***************************************************************************)
(* What the Mac does with a bundle before it is analysed, one tool at work *)
(* in a behaviour: the fetch, the writing of the decoded tables, the       *)
(* reading of netsh's text, the reading of xperf's report.  They hand each *)
(* other files that are finished, not a state, so each moves by itself.    *)
(*                                                                         *)
(* The tables: one of each way a decoder reads.  Labelled text from two    *)
(* exports, the scan list, a JSON export, the event logs, the counters,    *)
(* and a report that gives two tables.                                     *)
(***************************************************************************)
EXTENDS Fetch, DecodedTables, NetshText, DpcIsrReport

VARIABLE tool   \* which of the four moves

MCDecoders == {"rf", "eventlog", "pdh", "dpcisr"}

MCTablesOf ==
  "rf" :> <<"netsh_fields", "wlan_bss", "pnp_device">> @@ "eventlog" :> <<"eventlog_events">>
  @@ "pdh" :> <<"pdh_counters">> @@ "dpcisr" :> <<"dpcisr_module_cpu", "dpcisr_interval">>

MCSourcesOf ==
  "netsh_fields" :> <<"wlan_interfaces", "wlan_profiles">> @@ "wlan_bss" :> <<"wlan_networks">>
  @@ "pnp_device" :> <<"usb_device_tree">> @@ "eventlog_events" :> <<"system", "application">>
  @@ "pdh_counters" :> <<"counters">>
  @@ "dpcisr_module_cpu" :> <<"report">> @@ "dpcisr_interval" :> <<"report">>

\* The tools that do not move have one initial state.
MCInit ==
  /\ tool \in {"fetch", "tables", "netsh", "dpcisr"}
  /\ FInit
  /\ Init
  /\ NInit
  /\ DInit
  /\ tool # "tables" => decoder = "pdh" /\ claim["counters"] = "unavailable"
  /\ tool # "netsh" => command = "networks"
  /\ tool # "dpcisr" => counted = [k \in Kind |-> [m \in Module |-> 1]]

MCNext ==
  \/ tool = "fetch" /\ FNext /\ UNCHANGED <<tool, vars, nvars, dvars>>
  \/ tool = "tables" /\ Next /\ UNCHANGED <<tool, fvars, nvars, dvars>>
  \/ tool = "netsh" /\ NNext /\ UNCHANGED <<tool, fvars, vars, dvars>>
  \/ tool = "dpcisr" /\ DNext /\ UNCHANGED <<tool, fvars, vars, nvars>>

MCSpec == MCInit /\ [][MCNext]_<<tool, fvars, vars, nvars, dvars>>
=============================================================================
