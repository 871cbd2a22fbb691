----------------------------- MODULE Monitoring ------------------------------
(***************************************************************************)
(* How healthy is a managed node?  Its heartbeats are audit events; hmn    *)
(* monitor judges them into snapshots, hmn node status and list and the    *)
(* console judge them again, each for itself.  A monitor command reads the *)
(* newest event twice, in two transactions, and the clock before both; the *)
(* handlers of heartbeats, and further monitor commands, go on meanwhile.  *)
(***************************************************************************)
EXTENDS Naturals, Sequences, SequencesExt, FiniteSets

CONSTANTS
  Watcher,    \* concurrent monitor commands
  FreshFor,   \* 300 seconds
  StaleFor,   \* 900 seconds
  ReportCap,  \* bound: heartbeats that arrive
  WatchedFor   \* bound: how long the node is watched

ASSUME MonitoringParameters ==
  FreshFor \in Nat /\ StaleFor \in Nat /\ FreshFor < StaleFor /\ ReportCap \in Nat /\ WatchedFor \in Nat

VARIABLES
  clock,
  arriving,  \* heartbeats stamped with created_at, not inserted yet
  beats,     \* the heartbeat events of the node in audit_events, by id
  snapshot,  \* the newest row of monitor_snapshots
  watch      \* the monitor commands that are running

monVars == <<clock, arriving, beats, snapshot, watch>>

Time == 0..WatchedFor
Beat == [at : Time, ok : BOOLEAN, compatible : BOOLEAN]
Health == {"ok", "warn", "critical"}
\* of: the position of the event that was judged, 0 for none; known: how many
\* were in the log when the command began.
Snapshot == [health : Health \cup {"none"}, of : 0..ReportCap, now : Time, known : 0..ReportCap]
NoSnapshot == [health |-> "none", of |-> 0, now |-> 0, known |-> 0]
WatchState == [pc : {"idle", "summary", "event", "save"}, compatible : BOOLEAN, judged : Snapshot]
NotWatching == [pc |-> "idle", compatible |-> FALSE, judged |-> NoSnapshot]

MonTypeOK ==
  /\ clock \in Time /\ arriving \subseteq Beat
  /\ beats \in Seq(Beat) /\ Len(beats) <= ReportCap
  /\ snapshot \in Snapshot /\ watch \in [Watcher -> WatchState]

MonInit ==
  /\ clock = 0 /\ arriving = {} /\ beats = <<>>
  /\ snapshot = NoSnapshot /\ watch = [w \in Watcher |-> NotWatching]
------------------------------------------------------------------------------
(* Heartbeats *)

\* Slip: an old worker protocol does not spoil the outcome.
JudgedApart(fine, compatible) == fine
\* outcome if worker_compatible else "warn"
Judged(fine, compatible) == fine /\ compatible

\* The handler of a heartbeat stamps the event, ...
Stamp(fine, compatible) ==
  /\ Len(beats) + Cardinality(arriving) < ReportCap
  /\ arriving' = arriving \cup {[at |-> clock, ok |-> Judged(fine, compatible),
                                 compatible |-> compatible]}
  /\ UNCHANGED <<clock, beats, snapshot, watch>>

\* ... and inserts it: two handlers may do so in the other order.
Insert(b) ==
  /\ b \in arriving
  /\ arriving' = arriving \ {b} /\ beats' = Append(beats, b)
  /\ UNCHANGED <<clock, snapshot, watch>>

\* latest_node_heartbeat_event orders by created_at, then by id; the command line
\* takes the last event it lists.
NewestByTime ==
  beats[CHOOSE i \in DOMAIN beats :
          \A j \in DOMAIN beats : beats[j].at < beats[i].at \/ (beats[j].at = beats[i].at /\ j <= i)]
NewestById == Last(beats)

\* created_at of an event lies after `now` when it was stamped after the command began.
Age(b, now) == IF b.at >= now THEN 0 ELSE now - b.at
------------------------------------------------------------------------------
(* hmn monitor run-once, status of a node without snapshot, component apply monitor *)

MonitorBegins(w) ==
  /\ watch[w].pc = "idle"
  /\ watch' = [watch EXCEPT ![w] = [NotWatching EXCEPT
       !.pc = "summary", !.judged.now = clock, !.judged.known = Len(beats)]]
  /\ UNCHANGED <<clock, arriving, beats, snapshot>>

\* _monitor_summary reads the newest event for worker_compatible, ...
ReadSummary(w) ==
  /\ watch[w].pc = "summary"
  /\ watch' = [watch EXCEPT ![w].pc = "event",
                            ![w].compatible = beats # <<>> /\ NewestById.compatible]
  /\ UNCHANGED <<clock, arriving, beats, snapshot>>

HealthOf(b, compatible, now) ==
  CASE ~compatible              -> "critical"
    [] compatible /\ ~b.ok      -> "warn"
    [] compatible /\ b.ok       -> IF Age(b, now) > StaleFor THEN "critical"
                                   ELSE IF Age(b, now) > FreshFor THEN "warn" ELSE "ok"

\* ... and _monitor_health_summary reads it again for the rest.
ReadEvent(w) ==
  LET c == watch[w] IN
  /\ c.pc = "event"
  /\ watch' = [watch EXCEPT ![w].pc = "save", ![w].judged.of = Len(beats),
                            ![w].judged.health =
                              IF beats = <<>> THEN "critical"
                              ELSE HealthOf(NewestById, c.compatible, c.judged.now)]
  /\ UNCHANGED <<clock, arriving, beats, snapshot>>

SaveSnapshot(w) ==
  /\ watch[w].pc = "save"
  /\ snapshot' = watch[w].judged
  /\ watch' = [watch EXCEPT ![w] = NotWatching]
  /\ UNCHANGED <<clock, arriving, beats>>

MonitorDies(w) ==
  /\ watch[w].pc # "idle"
  /\ watch' = [watch EXCEPT ![w] = NotWatching]
  /\ UNCHANGED <<clock, arriving, beats, snapshot>>

TimePasses ==
  /\ clock < WatchedFor /\ clock' = clock + 1
  /\ UNCHANGED <<arriving, beats, snapshot, watch>>

MonNext ==
  \/ \E fine, compatible \in BOOLEAN : Stamp(fine, compatible)
  \/ \E b \in arriving : Insert(b)
  \/ TimePasses
  \/ \E w \in Watcher : \/ MonitorBegins(w) \/ ReadSummary(w) \/ ReadEvent(w)
                        \/ SaveSnapshot(w) \/ MonitorDies(w)

MonSpec == MonInit /\ [][MonNext]_monVars
------------------------------------------------------------------------------
(* The two views that store nothing *)

\* _node_liveness of the command line.
CliLiveness ==
  IF beats = <<>> THEN "offline"
  ELSE IF ~NewestById.ok THEN "stale"
  ELSE IF Age(NewestById, clock) <= FreshFor THEN "online"
  ELSE IF Age(NewestById, clock) <= StaleFor THEN "stale" ELSE "offline"

\* The live field of the console's node list.
ConsoleLiveness ==
  IF beats = <<>> THEN "offline"
  ELSE IF NewestByTime.ok /\ Age(NewestByTime, clock) <= FreshFor THEN "online"
  ELSE IF Age(NewestByTime, clock) <= StaleFor THEN "stale" ELSE "offline"
------------------------------------------------------------------------------
(* Properties *)

\* A snapshot says ok only of a node whose newest heartbeat, as of some moment of
\* the command, was good, came from a compatible worker and was fresh when the
\* command began, although the verdict is put together from two reads of a log
\* that grows between them.
HealthyIsTrue ==
  snapshot.health = "ok" =>
    /\ snapshot.of > 0 /\ snapshot.of >= snapshot.known
    /\ LET b == beats[snapshot.of] IN
         b.ok /\ b.compatible /\ snapshot.now <= b.at + FreshFor

\* docs/architecture.md:177: liveness is derived from the heartbeat events and
\* divided uniformly into online, stale and offline.
LivenessIsUniform == CliLiveness = ConsoleLiveness
==============================================================================
