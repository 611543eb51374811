------------------------------ MODULE OnlineCall ------------------------------
(***************************************************************************)
(* What an online call promises its tool (send_online_request in           *)
(* src/platform/online_ctl.rs), whatever happens to sockets, channels and  *)
(* the daemon in between.  A tool asks once.  The request is run at most   *)
(* once, by the daemon, from the moment the tool has asked until for ever  *)
(* after: also when the tool was told that it failed.  The tool is told Ok *)
(* only after its own request was run.                                     *)
(***************************************************************************)
CONSTANT Tools

VARIABLES
    call,   \* each tool's call: "idle", "pending", "ok" or "failed"
    runs    \* how often each tool's request was run

Init ==
    /\ call = [t \in Tools |-> "idle"]
    /\ runs = [t \in Tools |-> 0]

Ask(t) ==
    /\ call[t] = "idle"
    /\ call' = [call EXCEPT ![t] = "pending"]
    /\ UNCHANGED runs

\* The volume is not mounted: the tool learns so when it asks.
Refuse(t) ==
    /\ call[t] = "idle"
    /\ call' = [call EXCEPT ![t] = "failed"]
    /\ UNCHANGED runs

Run(t) ==
    /\ call[t] # "idle" /\ runs[t] = 0
    /\ runs' = [runs EXCEPT ![t] = 1]
    /\ UNCHANGED call

Succeed(t) ==
    /\ call[t] = "pending" /\ runs[t] = 1
    /\ call' = [call EXCEPT ![t] = "ok"]
    /\ UNCHANGED runs

\* Calls fail together when the daemon ends.
Fail(S) ==
    /\ \A t \in S : call[t] = "pending"
    /\ call' = [t \in Tools |-> IF t \in S THEN "failed" ELSE call[t]]
    /\ UNCHANGED runs

Next ==
    \/ \E t \in Tools : Ask(t) \/ Refuse(t) \/ Run(t) \/ Succeed(t)
    \/ \E S \in SUBSET Tools : Fail(S)

Spec == Init /\ [][Next]_<<call, runs>>
=============================================================================
