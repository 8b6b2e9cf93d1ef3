------------------------------- MODULE Wuxing -------------------------------
(***************************************************************************)
(* Sensor fusion and symbolic inference: what the three platform sensors   *)
(* report, the five-element health computed from it, and the decision      *)
(* inferred from that health.  Pure operators, shared by the coordinator   *)
(* of the daemon and by whatever else diagnoses the host.                  *)
(*                                                                         *)
(* A health score is a number of tenths.  The rules divide scores by a     *)
(* total; here both sides of each comparison are multiplied out instead.   *)
(***************************************************************************)
EXTENDS Integers, Options

Targets == {"windows", "wsl2", "docker"}

(***************************************************************************)
(* A snapshot is the set of keys under which it holds a positive metric or *)
(* a non-empty field.  Reading an absent key gives 0.0 or "".              *)
(***************************************************************************)
Keys == {"mode", "capability", "health",
         "docker_desktop_running", "docker_service_running",
         "running", "daemon_version"}
Snapshots == SUBSET Keys
FusionStates == [Targets -> SUBSET Snapshots]

\* What spawn_symbolic_sensor of the daemon puts in every reading.
SymbolicSnapshot == {"mode", "capability", "health"}

Health == [metal : {0, 2, 8, 10}, wood : {0, 10}, water : {0, 10}]

Reports(slot, key) == \E snapshot \in slot : key \in snapshot

Metal(slot) ==
  IF slot = None THEN 0
  ELSE IF Reports(slot, "docker_desktop_running") THEN 10
  ELSE IF Reports(slot, "docker_service_running") THEN 8
  ELSE 2

WuxingHealth(fusion) ==
  [metal |-> Metal(fusion["windows"]),
   wood  |-> IF Reports(fusion["wsl2"], "running") THEN 10 ELSE 0,
   water |-> IF Reports(fusion["docker"], "daemon_version") THEN 10 ELSE 0]

-----------------------------------------------------------------------------
(* Decisions.  A plan stands for the hexagram, the priority and the list   *)
(* of commands, which determine each other.                                *)

Plans == {"none", "restart_docker", "reset_wsl", "check_windows"}
Pathways == {"no_action", "restart_daemon", "reset_wsl", "check_windows_services",
             "explore", "retrieve", "stabilize"}
Decisions == [plan : Plans, pathway : Pathways]

\* The platforms the commands of a plan run on, in order.
Commands(plan) ==
  CASE plan = "none"           -> << >>
    [] plan = "restart_docker" -> <<"wsl2", "wsl2">>
    [] plan = "reset_wsl"      -> <<"windows", "windows">>
    [] plan = "check_windows"  -> <<"windows">>

\* CrossPlatformCausalAdapter::interpret on the scores h.x / total, unit weights.
Interpret(h, total) ==
  IF /\ 10 * h.metal >= 9 * total
     /\ 10 * h.wood  >= 9 * total
     /\ 10 * h.water >= 9 * total
  THEN [plan |-> "none", pathway |-> "no_action"]
  ELSE IF h.water <= h.metal /\ h.water <= h.wood
  THEN [plan |-> "restart_docker", pathway |-> "restart_daemon"]
  ELSE IF h.wood <= h.metal
  THEN [plan |-> "reset_wsl", pathway |-> "reset_wsl"]
  ELSE [plan |-> "check_windows", pathway |-> "check_windows_services"]

RuleDecision(h) == Interpret(h, 10)

Least(h) == CHOOSE x \in {h.metal, h.wood, h.water} :
              x <= h.metal /\ x <= h.wood /\ x <= h.water

(***************************************************************************)
(* scheduler::pathway with coherence = sum/30, curiosity = 1 - coherence   *)
(* and deviation = 1 - least/total: the thresholds 0.35 (curiosity > 0.6   *)
(* is implied by it), 0.6 and 0.5.                                         *)
(***************************************************************************)
SchedulePathway(h, total) ==
  LET sum == h.metal + h.wood + h.water IN
  IF 2 * sum < 21 THEN "explore"
  ELSE IF 10 * Least(h) < 4 * total /\ sum > 15 THEN "retrieve"
  ELSE "stabilize"

(***************************************************************************)
(* DaotiSymbolicOutput::from_health followed by to_decision.  The scores   *)
(* are wood, 0, 1 - metal, metal, water; health() divides them by their    *)
(* sum before the rules see them, and the pathway of the rules is          *)
(* overwritten by the scheduler's.  validate() cannot fail: the total is   *)
(* at least 1.                                                             *)
(***************************************************************************)
SymbolicTotal(h) == h.wood + (10 - h.metal) + h.metal + h.water

SymbolicDecision(h) ==
  [plan    |-> Interpret(h, SymbolicTotal(h)).plan,
   pathway |-> SchedulePathway(h, SymbolicTotal(h))]
=============================================================================
