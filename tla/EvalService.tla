----------------------------- MODULE EvalService -----------------------------
(***************************************************************************)
(* What the extension promises about windbg.eval, without sockets, threads *)
(* or locks: a call whose request was read is executed at most once, while *)
(* the extension is loaded, and never together with another call; the      *)
(* extension is unloaded only when no call is under way.                   *)
(***************************************************************************)
EXTENDS Naturals

CONSTANT Clients

VARIABLES
  up,   \* the extension holds its router and command executor
  job   \* [Clients -> Phase]: where the client's windbg.eval call is

serviceVars == <<up, job>>

Phase == {"none", "accepted", "executing", "executed"}

ServiceTypeOK ==
  /\ up \in BOOLEAN
  /\ job \in [Clients -> Phase]

ServiceInit ==
  /\ up = FALSE
  /\ job = [c \in Clients |-> "none"]

Load ==
  /\ ~up
  /\ up' = TRUE
  /\ UNCHANGED job

Unload ==
  /\ up
  /\ \A c \in Clients : job[c] = "none"
  /\ up' = FALSE
  /\ UNCHANGED job

Advance(c, from, to) ==
  /\ up
  /\ job[c] = from
  /\ \A d \in Clients \ {c} : job[d] = "none"
  /\ job' = [job EXCEPT ![c] = to]
  /\ UNCHANGED up

Accept(c) == Advance(c, "none", "accepted")
Execute(c) == Advance(c, "accepted", "executing")
Complete(c) == Advance(c, "executing", "executed")
Answer(c) == Advance(c, "executed", "none")

ServiceNext ==
  \/ Load
  \/ Unload
  \/ \E c \in Clients : Accept(c) \/ Execute(c) \/ Complete(c) \/ Answer(c)

ServiceSpec == ServiceInit /\ [][ServiceNext]_serviceVars

=============================================================================
