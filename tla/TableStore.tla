---------------------------- MODULE TableStore ----------------------------
(***************************************************************************)
(* What the decoders promise of a bundle's decoded tables, as a reader of  *)
(* bundle/decoded sees them.  A table is absent, or the result of one      *)
(* run, or broken: two files that do not belong together, or a torn one.   *)
(* A table is replaced in two steps, and only by the run that is under     *)
(* way; it never disappears, and no run goes back to an earlier result.    *)
(***************************************************************************)
EXTENDS Naturals

CONSTANTS Tables, Status, Absent, Broken

VARIABLES
  store,   \* what a reader finds of each table
  latest   \* decoder runs started

Result(n) == [run : 1 .. n, status : Status]

Init ==
  /\ store = [t \in Tables |-> Absent]
  /\ latest = 0

Begin ==
  /\ latest' = latest + 1
  /\ UNCHANGED store

Break(t) ==
  /\ store' = [store EXCEPT ![t] = Broken]
  /\ UNCHANGED latest

Publish(t) ==
  /\ store[t] = Broken
  /\ \E s \in Status : store' = [store EXCEPT ![t] = [run |-> latest, status |-> s]]
  /\ UNCHANGED latest

Next == Begin \/ \E t \in Tables : Break(t) \/ Publish(t)

Spec == Init /\ [][Next]_<<store, latest>>
=============================================================================
