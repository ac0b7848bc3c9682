----------------------------- MODULE HostHealth -----------------------------
(***************************************************************************)
(* Health of one machine: the durable history of samples, what this        *)
(* process has confirmed itself, and the decisions drawn from the two.     *)
(*                                                                         *)
(* A sample is taken outside every lock, its row is committed in one       *)
(* transaction, and the confirmation in memory follows as a step of its    *)
(* own, so that other callers meet every intermediate state.  One clock    *)
(* serves the service and the store; it does not run back here.            *)
(***************************************************************************)
EXTENDS Integers, Sequences

CONSTANTS Levels,            \* what a sample of the machine may show
          StaleAfter,        \* age after which an observation says nothing
          CriticalDuration,  \* the frozen policy: how long danger must last
          DemandCache,       \* pause between two probes, failed ones included
          HistoryMaxRows,
          MaxTime            \* bound: the last instant of the model

\* "unavailable": a core metric is missing; "failed": the probe itself failed.
AllLevels == {"ok", "warning", "critical", "battery", "unavailable", "unsupported",
              "failed"}

ASSUME HealthAssumption ==
    /\ Levels \subseteq AllLevels
    /\ {StaleAfter, CriticalDuration, DemandCache, HistoryMaxRows, MaxTime} \subseteq Nat
    /\ HistoryMaxRows > 0

VARIABLES
    now,
    rows,    \* host_health_history, newest first
    memory,  \* machineSample of hosthealth.Service: lost with the process
    flight,  \* the probe under way: machineSample.inflight
    seen     \* what this process really observed, kept for the properties

health == <<rows, memory, flight, seen>>

Never == -1
NoRow == [at |-> Never, level |-> "failed"]
Unobserved == [attempted |-> Never, row |-> NoRow, since |-> Never, failed |-> FALSE]
NoFlight == [stage |-> "none", row |-> NoRow]

\* seen.since: the first of the dangerous samples that led up to the last one
\* without a break; seen.last: the last sample of this process.
Unseen == [last |-> NoRow, since |-> Never]

Row == [at : Never..MaxTime, level : AllLevels]

HealthTypeOK ==
    /\ now \in 0..MaxTime
    /\ rows \in Seq(Row) /\ Len(rows) <= HistoryMaxRows
    /\ memory \in [attempted : Never..MaxTime, row : Row, since : Never..MaxTime,
                   failed : BOOLEAN]
    /\ flight \in [stage : {"none", "probing", "recorded"}, row : Row]
    /\ seen \in [last : Row, since : Never..MaxTime]

HealthInit ==
    /\ now = 0
    /\ rows = <<>>
    /\ memory = Unobserved
    /\ flight = NoFlight
    /\ seen = Unseen

-----------------------------------------------------------------------------
(* Decisions.                                                              *)

Critical(r) == r.level \in {"critical", "battery"}

\* hosthealth.Evidence: the confirmation a caller carries into a transaction.
NoEvidence == [row |-> NoRow, since |-> Never]
Evidence == IF memory.failed \/ memory.row = NoRow
            THEN NoEvidence
            ELSE [row |-> memory.row, since |-> memory.since]

\* Evidence.View and Service.Cached: the newest row must be the confirmed one, in
\* this process and still, and young enough.
Fresh(e) ==
    /\ e # NoEvidence
    /\ rows # <<>>
    /\ Head(rows) = e.row
    /\ ~memory.failed
    /\ memory.row = e.row
    /\ memory.since = e.since
    /\ now - e.row.at <= StaleAfter

\* The rows that carry the danger back from the newest one without a break.
Chain(e) ==
    {n \in 1..Len(rows) :
        \A i \in 1..n :
            /\ Critical(rows[i])
            /\ rows[i].at >= e.since
            /\ i > 1 => /\ rows[i].at < rows[i - 1].at
                        /\ rows[i - 1].at - rows[i].at <= StaleAfter}

\* Mutant: danger counts from the oldest critical row on record.
SustainedOnRecord(e) ==
    \E i \in 1..Len(rows) : Critical(rows[i])
                            /\ Head(rows).at - rows[i].at >= CriticalDuration

Sustained(e) ==
    \E n \in Chain(e) : Head(rows).at - rows[n].at >= CriticalDuration

\* Mutant: the newest row decides, however old and whoever measured it.
RefuseOnLevel(e) ==
    rows # <<>> /\ Head(rows).level \in {"warning", "critical", "battery"}

\* Evaluate(...).RefuseNew
RefuseNew(e) ==
    \/ ~Fresh(e)
    \/ Head(rows).level \notin {"ok", "unsupported"}

\* Evaluate(...).Stop
Stop(e) ==
    /\ Fresh(e)
    /\ \/ Head(rows).level = "battery"
       \/ Critical(Head(rows)) /\ Sustained(e)

-----------------------------------------------------------------------------
(* Refresh: one probe at a time for a machine and its aliases.             *)

ProbeDue == memory.attempted = Never \/ now - memory.attempted >= DemandCache

BeginProbe ==
    /\ flight = NoFlight
    /\ ProbeDue
    /\ flight' = [flight EXCEPT !.stage = "probing"]
    /\ memory' = [memory EXCEPT !.attempted = now]
    /\ UNCHANGED <<rows, seen>>

\* When the danger that the sample r shows, if any, was first measured.
Danger(r) ==
    IF ~Critical(r) THEN Never
    ELSE IF /\ seen.since # Never
            /\ r.at > seen.last.at
            /\ r.at - seen.last.at <= StaleAfter
         THEN seen.since ELSE r.at

\* The row is committed and old ones go; a failed probe leaves a row that says so.
RecordHostHealth ==
    /\ flight.stage = "probing"
    /\ \E level \in Levels :
         LET r == [at |-> now, level |-> level]
         IN  /\ rows' = SubSeq(<<r>> \o rows, 1,
                               IF Len(rows) < HistoryMaxRows THEN Len(rows) + 1
                                                             ELSE HistoryMaxRows)
             /\ flight' = [stage |-> "recorded", row |-> r]
             /\ seen' = [last |-> r, since |-> Danger(r)]
    /\ UNCHANGED memory

\* The confirmation in memory; the window starts anew after a gap.
Confirm ==
    /\ flight.stage = "recorded"
    /\ memory' =
         IF flight.row.level = "failed"
         THEN [attempted |-> now, row |-> NoRow, since |-> Never, failed |-> TRUE]
         ELSE [attempted |-> now, row |-> flight.row, failed |-> FALSE,
               since |-> IF \/ memory.since = Never
                            \/ flight.row.at < memory.row.at
                            \/ flight.row.at - memory.row.at > StaleAfter
                         THEN flight.row.at ELSE memory.since]
    /\ flight' = NoFlight
    /\ UNCHANGED <<rows, seen>>

\* The store refused the row: the machine counts as not observed.
RecordFailed ==
    /\ flight.stage = "probing"
    /\ memory' = [attempted |-> now, row |-> NoRow, since |-> Never, failed |-> TRUE]
    /\ flight' = NoFlight
    /\ seen' = Unseen
    /\ UNCHANGED rows

HealthStep == BeginProbe \/ RecordHostHealth \/ Confirm \/ RecordFailed

\* A new process has confirmed nothing, whatever the history holds.
HealthRestart ==
    /\ memory' = Unobserved
    /\ flight' = NoFlight
    /\ seen' = Unseen
    /\ UNCHANGED rows
=============================================================================
