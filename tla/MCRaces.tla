------------------------------- MODULE MCRaces -------------------------------
(***************************************************************************)
(* Races: of commands on the tokens and node rows of Enrollment, of        *)
(* decisions in Approvals, of ticks in Orchestrator, of heartbeats and     *)
(* monitor commands in Monitoring, of backups in Backup, of discoveries    *)
(* and operators in Services.  They share no row; a behaviour follows one  *)
(* of them, chosen at the start.                                           *)
(***************************************************************************)
EXTENDS MCEnrollment, MCApprovals, MCOrchestrator, Monitoring, Backup, Services

VARIABLE focus  \* the component that is followed

\* Discovery: a unit, a container behind nginx that listens, a compose service behind caddy.
Findings == { [by |-> {"systemd"}, proxy |-> "none"],
              [by |-> {"docker", "ss"}, proxy |-> "nginx"],
              [by |-> {"ss", "compose"}, proxy |-> "caddy"] }

\* What is said of a service: where it is exposed and watched, or where it is kept.
Says(exposed) ==
  [ports |-> IF exposed THEN {"declared"} ELSE {}, domains |-> exposed, monitored |-> exposed,
   url |-> ~exposed, deploy |-> ~exposed, paths |-> ~exposed]
Sayings == {Says(TRUE), Says(FALSE)}

RacesInit ==
  /\ focus \in {"enrolment", "approvals", "orchestrator", "monitoring", "backup", "services"}
  /\ EnrolInit /\ ApprInit /\ Init /\ MonInit /\ BkInit /\ SvcInit

RacesNext ==
  \/ /\ focus = "enrolment" /\ EnrolNext
     /\ UNCHANGED <<focus, apprVars, vars, monVars, bkVars, svcVars>>
  \/ /\ focus = "approvals" /\ ApprNext
     /\ UNCHANGED <<focus, enrolVars, vars, monVars, bkVars, svcVars>>
  \/ /\ focus = "orchestrator" /\ Next
     /\ UNCHANGED <<focus, enrolVars, apprVars, monVars, bkVars, svcVars>>
  \/ /\ focus = "monitoring" /\ MonNext
     /\ UNCHANGED <<focus, enrolVars, apprVars, vars, bkVars, svcVars>>
  \/ /\ focus = "backup" /\ BkNext
     /\ UNCHANGED <<focus, enrolVars, apprVars, vars, monVars, svcVars>>
  \/ /\ focus = "services" /\ SvcNext
     /\ UNCHANGED <<focus, enrolVars, apprVars, vars, monVars, bkVars>>

RacesSpec ==
  RacesInit /\ [][RacesNext]_<<focus, enrolVars, apprVars, vars, monVars, bkVars, svcVars>>

\* Operators are interchangeable, and so are ticks, backups and discoveries: each pair of
\* them has the names op1 and op2 (Races.cfg).
RacesSymmetry == OperatorSymmetry
==============================================================================
