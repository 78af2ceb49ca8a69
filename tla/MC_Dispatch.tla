---------------------------- MODULE MC_Dispatch ----------------------------
(***************************************************************************)
(* Small instances of Dispatch for TLC.                                    *)
(***************************************************************************)
EXTENDS Dispatch, TLC

CONSTANTS s1, s2, s3, c1, c2

Perms == Permutations(Session)

Collect == [verb |-> "collect", arg |-> c1]

\* Two or three runs of one collector, in the same second or not.
CollectOnly == {Collect}

\* Every verb, and fetches of every name.
EveryRequest == Requests
=============================================================================
