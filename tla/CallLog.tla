------------------------------- MODULE CallLog -------------------------------
(***************************************************************************)
(* The conversation memory of web chat sessions: the rows createLog() and  *)
(* clearSession() append (src/src/logging/call-log.service.ts), the recent *)
(* messages a turn is given, and the clean-up of idle sessions that runs   *)
(* every half hour (call-log.cleanup.ts). Rows are ordered by createdAt,   *)
(* which is the order they are appended in; a row is old once it lies      *)
(* before the clean-up's cutoff. What a message says is a set of items.    *)
(***************************************************************************)
EXTENDS Naturals, Sequences, SequencesExt

CONSTANTS
    Sessions,   \* session ids, chosen by the browsers
    Memory      \* how many rows a turn is given: 40

ASSUME LogAssumption == Memory \in Nat \ {0}

VARIABLES
    log,    \* the rows of each session: messages and session_closed markers
    old,    \* how many rows of it lie before the cutoff
    sweep   \* the clean-up in progress: the last stale message it read, or 0

logVars == <<log, old, sweep>>

Message(role, content) == [role |-> role, content |-> content]
Closed == [role |-> "closed", content |-> {}]

Positions(s, roles) == {i \in DOMAIN log[s] : log[s][i].role \in roles}

LogInit ==
    /\ log = [s \in Sessions |-> <<>>]
    /\ old = [s \in Sessions |-> 0]
    /\ sweep = [s \in Sessions |-> 0]

Latest(positions) == Max(positions \cup {0})

LastSessionClosedAt(s) == Latest(Positions(s, {"closed"}))

RecentMessages(s) ==
    LET open == SubSeq(log[s], LastSessionClosedAt(s) + 1, Len(log[s]))
    IN  SubSeq(open, Max({1, Len(open) - Memory + 1}), Len(open))

(* The rows that createLog writes: the customer's message and the reply.   *)
CreateLog(s, said, reply) ==
    log' = [log EXCEPT ![s] = @ \o <<Message("user", said), Message("assistant", reply)>>]

(* The tool's raw arguments and the job are logged, then clearSession.     *)
LogJobAndClear(s) ==
    log' = [log EXCEPT ![s] = @ \o <<Message("user", {}), Message("assistant", {}), Closed>>]

-----------------------------------------------------------------------------
(* cleanupIdleSessions(): one query for the stale messages of all sessions,*)
(* then for each session a look for a later marker, and the marker.        *)

LastMessageAt(s) == Latest({i \in Positions(s, {"user", "assistant"}) : i <= old[s]})

SweepReads ==
    /\ \A s \in Sessions : sweep[s] = 0
    /\ sweep' = [s \in Sessions |-> LastMessageAt(s)]
    /\ sweep' # sweep
    /\ UNCHANGED <<log, old>>

(* Mutant: a marker counts whenever it was written. *)
EverClosed(s) == Positions(s, {"closed"}) # {}

AlreadyClosed(s) == \E i \in Positions(s, {"closed"}) : i > sweep[s]

SweepCloses(s) ==
    /\ sweep[s] # 0
    /\ log' = IF AlreadyClosed(s) THEN log ELSE [log EXCEPT ![s] = Append(@, Closed)]
    /\ sweep' = [sweep EXCEPT ![s] = 0]
    /\ UNCHANGED old

(* Time passes: the rows up to some position are now before the cutoff.    *)
RowsAge(s) ==
    /\ \E n \in (old[s] + 1)..Len(log[s]) : old' = [old EXCEPT ![s] = n]
    /\ UNCHANGED <<log, sweep>>
=============================================================================
