--------------------------- MODULE DialogueProofs ---------------------------
(* Proofs about Dialogue for any number of sessions, any memory and any      *)
(* patience: its type correctness, and that no question asks for what the    *)
(* customer has said.                                                        *)
EXTENDS Dialogue, SequenceTheorems, WellFoundedInduction, TLAPS

USE LogAssumption, DialogueAssumption

-----------------------------------------------------------------------------
(* The rows of the log. *)

(* What the booking asks for are fields, and an evasion is a fact. *)
LEMMA FieldsAreFields ==
  /\ \A i \in DOMAIN BookingFields : BookingFields[i] \in Fields
  /\ "evasion" \in Facts
  BY DEF BookingFields, Fields, Facts, Reveals

(* A message of a customer or of the assistant is a row of the log. *)
LEMMA MessagesAreRows ==
  /\ \A said \in SUBSET Facts : Message("user", said) \in Rows
  /\ \A asks \in SUBSET Fields : Message("assistant", asks) \in Rows
  /\ Closed \in Rows
  BY DEF Message, Closed, Rows

(* What is appended stands after what was logged, in its order. *)
LEMMA AppendedRows ==
  ASSUME NEW rows \in Seq(Rows), NEW more \in Seq(Rows)
  PROVE  /\ rows \o more \in Seq(Rows)
         /\ Len(rows \o more) = Len(rows) + Len(more)
         /\ \A i \in 1..Len(rows) : (rows \o more)[i] = rows[i]
         /\ \A i \in 1..Len(more) : (rows \o more)[Len(rows) + i] = more[i]
  <1>1. /\ rows \o more \in Seq(Rows)
        /\ Len(rows \o more) = Len(rows) + Len(more)
        /\ \A i \in 1..Len(rows) + Len(more) :
              (rows \o more)[i] = IF i <= Len(rows) THEN rows[i] ELSE more[i - Len(rows)]
    BY ConcatProperties
  <1>2. Len(rows) \in Nat /\ Len(more) \in Nat
    OBVIOUS
  <1> QED
    BY <1>1, <1>2

(* createLog appends the customer's message and the reply. *)
LEMMA CreatedRows ==
  ASSUME log \in [Sessions -> Seq(Rows)], NEW s \in Sessions,
         NEW said \in SUBSET Facts, NEW asks \in SUBSET Fields, CreateLog(s, said, asks)
  PROVE  /\ log' \in [Sessions -> Seq(Rows)]
         /\ \A t \in Sessions \ {s} : log'[t] = log[t]
         /\ Len(log'[s]) = Len(log[s]) + 2
         /\ \A i \in 1..Len(log[s]) : log'[s][i] = log[s][i]
         /\ log'[s][Len(log[s]) + 1] = Message("user", said)
         /\ log'[s][Len(log[s]) + 2] = Message("assistant", asks)
  <1> DEFINE more == <<Message("user", said), Message("assistant", asks)>>
  <1>1. more \in Seq(Rows) /\ Len(more) = 2
    BY MessagesAreRows
  <1>2. more[1] = Message("user", said) /\ more[2] = Message("assistant", asks)
    OBVIOUS
  <1>3. log' = [log EXCEPT ![s] = log[s] \o more]
    BY DEF CreateLog
  <1> HIDE DEF more
  <1>4. log[s] \in Seq(Rows) /\ Len(log[s]) \in Nat
    OBVIOUS
  <1>5. /\ log[s] \o more \in Seq(Rows)
        /\ Len(log[s] \o more) = Len(log[s]) + Len(more)
        /\ \A i \in 1..Len(log[s]) : (log[s] \o more)[i] = log[s][i]
        /\ \A i \in 1..Len(more) : (log[s] \o more)[Len(log[s]) + i] = more[i]
    BY <1>1, <1>4, AppendedRows
  <1> QED
    BY <1>1, <1>2, <1>3, <1>4, <1>5

(* A saved request is logged, and its session closed. *)
LEMMA ClearedRows ==
  ASSUME log \in [Sessions -> Seq(Rows)], NEW s \in Sessions, LogJobAndClear(s)
  PROVE  /\ log' \in [Sessions -> Seq(Rows)]
         /\ \A t \in Sessions \ {s} : log'[t] = log[t]
         /\ Len(log'[s]) = Len(log[s]) + 3
         /\ log'[s][Len(log'[s])] = Closed
  <1> DEFINE more == <<Message("user", {}), Message("assistant", {}), Closed>>
  <1>1. more \in Seq(Rows) /\ Len(more) = 3
    BY MessagesAreRows
  <1>2. more[3] = Closed
    OBVIOUS
  <1>3. log' = [log EXCEPT ![s] = log[s] \o more]
    BY DEF LogJobAndClear
  <1> HIDE DEF more
  <1>4. log[s] \in Seq(Rows) /\ Len(log[s]) \in Nat
    OBVIOUS
  <1>5. /\ log[s] \o more \in Seq(Rows)
        /\ Len(log[s] \o more) = Len(log[s]) + Len(more)
        /\ \A i \in 1..Len(log[s]) : (log[s] \o more)[i] = log[s][i]
        /\ \A i \in 1..Len(more) : (log[s] \o more)[Len(log[s]) + i] = more[i]
    BY <1>1, <1>4, AppendedRows
  <1> QED
    BY <1>1, <1>2, <1>3, <1>4, <1>5

(* The clean-up appends nothing, or the marker. *)
LEMMA SweptRows ==
  ASSUME log \in [Sessions -> Seq(Rows)], NEW s \in Sessions, SweepCloses(s)
  PROVE  /\ log' \in [Sessions -> Seq(Rows)]
         /\ \A t \in Sessions \ {s} : log'[t] = log[t]
         /\ \/ log'[s] = log[s]
            \/ Len(log'[s]) = Len(log[s]) + 1 /\ log'[s][Len(log'[s])] = Closed
  <1>1. CASE AlreadyClosed(s)
    BY <1>1 DEF SweepCloses
  <1>2. CASE ~AlreadyClosed(s)
    <2>1. log' = [log EXCEPT ![s] = Append(log[s], Closed)]
      BY <1>2 DEF SweepCloses
    <2>2. /\ Append(log[s], Closed) \in Seq(Rows)
          /\ Len(Append(log[s], Closed)) = Len(log[s]) + 1
          /\ Append(log[s], Closed)[Len(log[s]) + 1] = Closed
      BY MessagesAreRows, AppendProperties
    <2> QED
      BY <2>1, <2>2
  <1> QED
    BY <1>1, <1>2

-----------------------------------------------------------------------------
(* The recent messages of a session. *)

(* The greater of two numbers. *)
LEMMA MaxOfTwo ==
  ASSUME NEW a \in Int, NEW b \in Int
  PROVE  Max({a, b}) = IF a >= b THEN a ELSE b
  BY DEF Max

(* Every non-empty set of numbers has a least one. *)
LEMMA LeastNumber ==
  ASSUME NEW T \in SUBSET Nat, T # {}
  PROVE  \E m \in T : \A n \in T : m <= n
  <1> DEFINE R == {pair \in Nat \X Nat : pair[1] < pair[2]}
  <1>1. IsWellFoundedOn(R, Nat)
    BY NatLessThanWellFounded DEF OpToRel
  <1>2. \A m, n \in Nat : <<n, m>> \notin R => m <= n
    OBVIOUS
  <1> HIDE DEF R
  <1>s. T \subseteq Nat /\ T # {}
    OBVIOUS
  <1>3. \E m \in T : \A n \in T : ~(<<n, m>> \in R)
    BY ONLY <1>1, <1>s, WFMin
  <1> QED
    BY <1>2, <1>3

(* Some positions of a log, or the beginning: the latest is one of them. *)
LEMMA LatestIsPosition ==
  ASSUME NEW n \in Nat, NEW positions \in SUBSET (1..n)
  PROVE  /\ Latest(positions) \in positions \cup {0}
         /\ \A i \in positions : i <= Latest(positions)
  <1> DEFINE distances == {n - i : i \in positions \cup {0}}
  <1>1. distances \in SUBSET Nat /\ distances # {}
    OBVIOUS
  <1>2. PICK d \in distances : \A e \in distances : d <= e
    BY <1>1, LeastNumber
  <1>3. PICK m \in positions \cup {0} : d = n - m
    BY <1>2
  <1>4. ASSUME NEW i \in positions \cup {0}
        PROVE  m >= i
    <2>1. n - m <= n - i
      BY <1>2, <1>3
    <2> QED
      BY <2>1
  <1>5. /\ Max(positions \cup {0}) \in positions \cup {0}
        /\ \A i \in positions \cup {0} : Max(positions \cup {0}) >= i
    BY <1>4 DEF Max
  <1> QED
    BY <1>5 DEF Latest

(* What a turn is given: the last rows after the last marker, at most as     *)
(* many as the memory holds.                                                 *)
RecentRows(s) ==
    /\ RecentMessages(s) \in Seq(Rows)
    /\ Len(RecentMessages(s)) <= Memory
    /\ \E k \in 0..Len(log[s]) :
          /\ Len(RecentMessages(s)) = Len(log[s]) - k
          /\ \A i \in 1..(Len(log[s]) - k) : RecentMessages(s)[i] = log[s][k + i]
          /\ \A i \in (k + 1)..Len(log[s]) : log[s][i].role # "closed"

RecentAreOpen == log \in [Sessions -> Seq(Rows)] => \A s \in Sessions : RecentRows(s)

(* In every state, they are what RecentRows says, *)
LEMMA RecentMessagesAreOpen == RecentAreOpen
  <1> SUFFICES ASSUME log \in [Sessions -> Seq(Rows)], NEW s \in Sessions
               PROVE  RecentRows(s)
    BY DEF RecentAreOpen
  <1> DEFINE rows == log[s]
             n == Len(rows)
             last == LastSessionClosedAt(s)
             open == SubSeq(rows, last + 1, n)
             m == Len(open)
             start == Max({1, m - Memory + 1})
             recent == SubSeq(open, start, m)
  <1>1. rows \in Seq(Rows) /\ n \in Nat /\ DOMAIN rows = 1..n
    OBVIOUS
  <1>2. /\ last \in Positions(s, {"closed"}) \cup {0}
        /\ \A i \in Positions(s, {"closed"}) : i <= last
    <2>1. Positions(s, {"closed"}) \in SUBSET (1..n)
      BY <1>1 DEF Positions
    <2> QED
      BY <1>1, <2>1, LatestIsPosition DEF LastSessionClosedAt
  <1>3. last \in 0..n
    BY <1>1, <1>2 DEF Positions
  <1>4. \A i \in (last + 1)..n : rows[i].role # "closed"
    BY <1>1, <1>2, <1>3 DEF Positions
  <1>5. RecentMessages(s) = recent
    BY DEF RecentMessages
  <1> HIDE DEF last, rows, n
  <1>6. \A i \in (last + 1)..n : rows[i] \in Rows
    BY <1>1, <1>3, ElementOfSeq
  <1>7. /\ open \in Seq(Rows)
        /\ m = n - last
        /\ \A i \in 1..(n - last) : open[i] = rows[last + i]
    <2>1. last + 1 \in Int /\ n \in Int
      BY <1>1, <1>3
    <2>2. /\ open \in Seq(Rows)
          /\ m = IF last + 1 <= n THEN n - (last + 1) + 1 ELSE 0
          /\ \A i \in 1..(n - (last + 1) + 1) : open[i] = rows[(last + 1) + i - 1]
      BY <1>6, <2>1, SubSeqProperties
    <2> HIDE DEF open
    <2> QED
      BY <1>1, <1>3, <2>2
  <1>8. m \in Nat
    BY <1>1, <1>3, <1>7
  <1> HIDE DEF open, m
  <1>9. start = IF 1 >= m - Memory + 1 THEN 1 ELSE m - Memory + 1
    <2>1. m - Memory + 1 \in Int
      BY <1>8
    <2> QED
      BY <2>1, MaxOfTwo
  <1> HIDE DEF start
  <1>10. start \in 1..(m + 1) /\ m - start + 1 <= Memory
    BY <1>8, <1>9
  <1>11. /\ recent \in Seq(Rows)
         /\ Len(recent) = m - start + 1
         /\ \A i \in 1..(m - start + 1) : recent[i] = open[start + i - 1]
    <2>1. start \in Int /\ m \in Int
      BY <1>8, <1>10
    <2>2. \A i \in start..m : open[i] \in Rows
      BY <1>7, <1>8, <1>10, ElementOfSeq DEF m
    <2>3. /\ recent \in Seq(Rows)
          /\ Len(recent) = IF start <= m THEN m - start + 1 ELSE 0
          /\ \A i \in 1..(m - start + 1) : recent[i] = open[start + i - 1]
      BY <2>1, <2>2, SubSeqProperties
    <2> HIDE DEF recent
    <2> QED
      BY <1>8, <1>10, <2>3
  <1> HIDE DEF recent
  <1> DEFINE k == last + start - 1
  <1>12. k \in 0..n /\ n - k = m - start + 1 /\ k >= last
    BY <1>1, <1>3, <1>7, <1>8, <1>10
  <1>13. \A i \in 1..(n - k) : recent[i] = rows[k + i]
    <2> SUFFICES ASSUME NEW i \in 1..(n - k)
                 PROVE  recent[i] = rows[k + i]
      OBVIOUS
    <2>1. start + i - 1 \in 1..(n - last) /\ last + (start + i - 1) = k + i
      BY <1>1, <1>3, <1>7, <1>8, <1>10, <1>12
    <2>2. recent[i] = open[start + i - 1]
      BY <1>11, <1>12
    <2> QED
      BY <1>7, <2>1, <2>2
  <1>14. \A i \in (k + 1)..n : rows[i].role # "closed"
    BY <1>1, <1>3, <1>4, <1>12
  <1>15. Len(recent) = n - k /\ Len(recent) <= Memory
    BY <1>10, <1>11, <1>12
  <1> HIDE DEF k
  <1> QED
    BY <1>5, <1>11, <1>12, <1>13, <1>14, <1>15 DEF RecentRows, rows, n

(* and so they are after every step. *)
LEMMA RecentMessagesStayOpen == RecentAreOpen'
  BY RecentMessagesAreOpen, PTL

(* A session whose last row is a marker remembers nothing. *)
LEMMA ClosedForgets ==
  ASSUME log' \in [Sessions -> Seq(Rows)], NEW s \in Sessions,
         Len(log'[s]) # 0, log'[s][Len(log'[s])] = Closed
  PROVE  RecentMessages(s)' = <<>>
  <1>1. RecentRows(s)'
    BY RecentMessagesStayOpen DEF RecentAreOpen
  <1>2. PICK k \in 0..Len(log'[s]) :
           /\ Len(RecentMessages(s)') = Len(log'[s]) - k
           /\ \A i \in (k + 1)..Len(log'[s]) : log'[s][i].role # "closed"
    BY <1>1 DEF RecentRows
  <1>3. Len(log'[s]) \in Nat
    OBVIOUS
  <1>4. log'[s][Len(log'[s])].role = "closed"
    BY DEF Closed
  <1>5. k = Len(log'[s])
    <2>1. Len(log'[s]) \notin (k + 1)..Len(log'[s])
      BY <1>2, <1>4
    <2> QED
      BY <1>3, <2>1
  <1>6. Len(RecentMessages(s)') = 0 /\ RecentMessages(s)' \in Seq(Rows)
    BY <1>1, <1>2, <1>3, <1>5 DEF RecentRows
  <1> QED
    BY <1>6, EmptySeq

(* A session whose rows stay is remembered as it was. *)
LEMMA SameRecent ==
  ASSUME NEW s \in Sessions, log'[s] = log[s]
  PROVE  RecentMessages(s)' = RecentMessages(s)
  BY DEF RecentMessages, LastSessionClosedAt, Positions

-----------------------------------------------------------------------------
(* Type correctness. *)

(* The guard asks for fields only. *)
LEMMA GuardedFields ==
  ASSUME NEW rows \in Seq(Rows), NEW asks \in SUBSET Fields
  PROVE  GuardedQuestion(rows, asks) \in SUBSET Fields
  <1>1. NextMissingQuestion(rows) \in SUBSET Fields
    BY FieldsAreFields DEF NextMissingQuestion, Missing
  <1> QED
    BY <1>1 DEF GuardedQuestion

(* The customer's next message consists of facts. *)
LEMMA ReadsTypes ==
  ASSUME draft \in [Sessions -> SUBSET Facts], NEW s \in Sessions, NEW asks \in SUBSET Fields,
         CustomerReads(s, asks)
  PROVE  draft' \in [Sessions -> SUBSET Facts]
  <1>1. UNION {Answer[field] : field \in asks} \subseteq Facts
    OBVIOUS
  <1>2. (IF asks = {} THEN {"evasion"} ELSE UNION {Answer[field] : field \in asks}) \in SUBSET Facts
    BY <1>1, FieldsAreFields
  <1> QED
    BY <1>2 DEF CustomerReads

(* A reply keeps the types, and ends the turn. *)
LEMMA RepliesTypes ==
  ASSUME TypeOK, NEW s \in Sessions, NEW status \in Status, NEW asks \in SUBSET Fields,
         Replies(s, status, asks)
  PROVE  /\ reply' \in [Sessions -> [status : Status, asks : SUBSET Fields]]
         /\ remembered' \in [Sessions -> Seq(Rows)]
         /\ \A t \in Sessions : Len(remembered'[t]) <= Memory + 1
  <1>1. [status |-> status, asks |-> asks] \in [status : Status, asks : SUBSET Fields]
    OBVIOUS
  <1>2. <<>> \in Seq(Rows) /\ Len(<<>>) = 0
    OBVIOUS
  <1>3. Memory \in Nat
    OBVIOUS
  <1> QED
    BY <1>1, <1>2, <1>3 DEF TypeOK, Replies

(* The log grows, and what was old stays in it. *)
LEMMA GrownLog ==
  ASSUME TypeOK, NEW s \in Sessions, log' \in [Sessions -> Seq(Rows)],
         \A t \in Sessions \ {s} : log'[t] = log[t],
         Len(log'[s]) >= Len(log[s])
  PROVE  \A t \in Sessions : old[t] <= Len(log'[t])
  <1> SUFFICES ASSUME NEW t \in Sessions
               PROVE  old[t] <= Len(log'[t])
    OBVIOUS
  <1>1. old[t] \in Nat /\ Len(log[t]) \in Nat /\ Len(log'[t]) \in Nat /\ old[t] <= Len(log[t])
    BY DEF TypeOK
  <1>2. Len(log'[t]) >= Len(log[t])
    BY <1>1
  <1> QED
    BY <1>1, <1>2

(* So it does when a message and its reply are logged. *)
LEMMA CreateLogTypes ==
  ASSUME TypeOK, NEW s \in Sessions, NEW asks \in SUBSET Fields, CreateLog(s, draft[s], asks)
  PROVE  /\ log' \in [Sessions -> Seq(Rows)]
         /\ \A t \in Sessions : old[t] <= Len(log'[t])
  <1>1. log \in [Sessions -> Seq(Rows)] /\ draft[s] \in SUBSET Facts /\ Len(log[s]) \in Nat
    BY DEF TypeOK
  <1>2. /\ log' \in [Sessions -> Seq(Rows)]
        /\ \A t \in Sessions \ {s} : log'[t] = log[t]
        /\ Len(log'[s]) = Len(log[s]) + 2
    BY <1>1, CreatedRows
  <1>3. Len(log'[s]) >= Len(log[s])
    BY <1>1, <1>2
  <1> QED
    BY <1>2, <1>3, GrownLog

(* A saved request keeps the types, *)
LEMMA JobCreatedTypes ==
  ASSUME TypeOK, NEW s \in Sessions, JobCreated(s)
  PROVE  TypeOK'
  <1>1. /\ log \in [Sessions -> Seq(Rows)] /\ Len(log[s]) \in Nat
        /\ LogJobAndClear(s)
    BY DEF TypeOK, JobCreated
  <1>2. /\ log' \in [Sessions -> Seq(Rows)]
        /\ \A t \in Sessions \ {s} : log'[t] = log[t]
        /\ Len(log'[s]) = Len(log[s]) + 3
    BY <1>1, ClearedRows
  <1>3. \A t \in Sessions : old[t] <= Len(log'[t])
    <2>1. Len(log'[s]) >= Len(log[s])
      BY <1>1, <1>2
    <2> QED
      BY <1>2, <2>1, GrownLog
  <1>4. /\ reply' \in [Sessions -> [status : Status, asks : SUBSET Fields]]
        /\ remembered' \in [Sessions -> Seq(Rows)]
        /\ \A t \in Sessions : Len(remembered'[t]) <= Memory + 1
    BY RepliesTypes DEF JobCreated, Status
  <1>5. jobs' \in SUBSET Sessions
    BY DEF JobCreated, TypeOK
  <1> QED
    BY <1>2, <1>3, <1>4, <1>5 DEF TypeOK, JobCreated

(* and so does an answer of the model. *)
LEMMA AnswersTypes ==
  ASSUME TypeOK, NEW s \in Sessions, NEW asks \in SUBSET Fields, Answers(s, asks),
         mishaps' \in 0..MaxMishaps
  PROVE  TypeOK'
  <1> DEFINE guarded == GuardedQuestion(remembered[s], asks)
             status == IF SaysPreparing(remembered[s], asks) THEN "preparing" ELSE "reply"
  <1>1. guarded \in SUBSET Fields /\ status \in Status
    BY GuardedFields DEF TypeOK, Status
  <1>2. /\ CreateLog(s, draft[s], guarded)
        /\ Replies(s, status, guarded)
        /\ CustomerReads(s, guarded)
        /\ UNCHANGED <<old, sweep, jobs, sent>>
    BY DEF Answers
  <1> HIDE DEF guarded, status
  <1>3. /\ log' \in [Sessions -> Seq(Rows)]
        /\ \A t \in Sessions : old[t] <= Len(log'[t])
    BY <1>1, <1>2, CreateLogTypes
  <1>4. /\ reply' \in [Sessions -> [status : Status, asks : SUBSET Fields]]
        /\ remembered' \in [Sessions -> Seq(Rows)]
        /\ \A t \in Sessions : Len(remembered'[t]) <= Memory + 1
    BY <1>1, <1>2, RepliesTypes
  <1>5. draft' \in [Sessions -> SUBSET Facts]
    BY <1>1, <1>2, ReadsTypes DEF TypeOK
  <1> QED
    BY <1>2, <1>3, <1>4, <1>5 DEF TypeOK

(* Every step keeps the types. *)
LEMMA TypeStep ==
  TypeOK /\ [Next]_vars => TypeOK'
  <1> SUFFICES ASSUME TypeOK, [Next]_vars
               PROVE  TypeOK'
    OBVIOUS
  <1> USE DEF logVars
  <1>0. {} \in SUBSET Fields
    OBVIOUS
  <1>1. ASSUME NEW s \in Sessions, SafetyEscalation(s)
        PROVE  TypeOK'
    <2>1. /\ log' \in [Sessions -> Seq(Rows)]
          /\ \A t \in Sessions : old[t] <= Len(log'[t])
      BY <1>0, <1>1, CreateLogTypes DEF SafetyEscalation
    <2>2. /\ reply' \in [Sessions -> [status : Status, asks : SUBSET Fields]]
          /\ remembered' \in [Sessions -> Seq(Rows)]
          /\ \A t \in Sessions : Len(remembered'[t]) <= Memory + 1
      BY <1>1, RepliesTypes DEF SafetyEscalation, Status
    <2>3. draft' \in [Sessions -> SUBSET Facts]
      BY <1>1, ReadsTypes DEF SafetyEscalation, TypeOK
    <2>4. sent' \in [Sessions -> 0..Patience]
      BY <1>1 DEF SafetyEscalation, Sends, TypeOK
    <2> QED
      BY <1>1, <2>1, <2>2, <2>3, <2>4 DEF SafetyEscalation, TypeOK
  <1>2. ASSUME NEW s \in Sessions, TurnReads(s)
        PROVE  TypeOK'
    <2>1. RecentMessages(s) \in Seq(Rows) /\ Len(RecentMessages(s)) <= Memory
      BY RecentMessagesAreOpen DEF RecentAreOpen, RecentRows, TypeOK
    <2>2. Message("user", draft[s]) \in Rows
      BY MessagesAreRows DEF TypeOK
    <2> DEFINE turn == Append(RecentMessages(s), Message("user", draft[s]))
    <2>3. turn \in Seq(Rows) /\ Len(turn) = Len(RecentMessages(s)) + 1
      BY <2>1, <2>2, AppendProperties
    <2>4. Len(turn) <= Memory + 1
      BY <2>1, <2>3
    <2>5. remembered' = [remembered EXCEPT ![s] = turn]
      BY <1>2 DEF TurnReads
    <2> HIDE DEF turn
    <2>6. /\ remembered' \in [Sessions -> Seq(Rows)]
          /\ \A t \in Sessions : Len(remembered'[t]) <= Memory + 1
      BY <2>3, <2>4, <2>5 DEF TypeOK
    <2>7. sent' \in [Sessions -> 0..Patience]
      BY <1>2 DEF TurnReads, Sends, TypeOK
    <2> QED
      BY <1>2, <2>6, <2>7 DEF TurnReads, TypeOK
  <1>3. ASSUME NEW s \in Sessions, ToolCalled(s) \/ ClaimFinalized(s)
        PROVE  TypeOK'
    BY <1>3, JobCreatedTypes DEF ToolCalled, ClaimFinalized
  <1>4. ASSUME NEW s \in Sessions, Asks(s)
        PROVE  TypeOK'
    <2>1. PICK field \in Questions : Answers(s, {field})
      BY <1>4 DEF Asks
    <2>2. {field} \in SUBSET Fields
      OBVIOUS
    <2>3. mishaps' \in 0..MaxMishaps
      BY <1>4 DEF Asks, TypeOK
    <2> QED
      BY <2>1, <2>2, <2>3, AnswersTypes
  <1>5. ASSUME NEW s \in Sessions, Chats(s)
        PROVE  TypeOK'
    <2>1. mishaps' \in 0..MaxMishaps
      BY <1>5 DEF Chats, Mishap, TypeOK
    <2> QED
      BY <1>5, <2>1, AnswersTypes DEF Chats
  <1>6. ASSUME NEW s \in Sessions, ArgumentsRefused(s)
        PROVE  TypeOK'
    <2>1. PICK field \in {"name", "phone", "category", "urgency", "description"} :
             /\ CreateLog(s, draft[s], {field})
             /\ Replies(s, "needs_correction", {field})
             /\ CustomerReads(s, {field})
      BY <1>6 DEF ArgumentsRefused
    <2>2. {field} \in SUBSET Fields
      BY DEF Fields
    <2>3. /\ log' \in [Sessions -> Seq(Rows)]
          /\ \A t \in Sessions : old[t] <= Len(log'[t])
      BY <2>1, <2>2, CreateLogTypes
    <2>4. /\ reply' \in [Sessions -> [status : Status, asks : SUBSET Fields]]
          /\ remembered' \in [Sessions -> Seq(Rows)]
          /\ \A t \in Sessions : Len(remembered'[t]) <= Memory + 1
      BY <2>1, <2>2, RepliesTypes DEF Status
    <2>5. draft' \in [Sessions -> SUBSET Facts]
      BY <2>1, <2>2, ReadsTypes DEF TypeOK
    <2>6. mishaps' \in 0..MaxMishaps
      BY <1>6 DEF ArgumentsRefused, Mishap, TypeOK
    <2> QED
      BY <1>6, <2>3, <2>4, <2>5, <2>6 DEF ArgumentsRefused, TypeOK
  <1>7. ASSUME NEW s \in Sessions, CustomerLeaves(s)
        PROVE  TypeOK'
    BY <1>7 DEF CustomerLeaves, TypeOK
  <1>8. ASSUME NEW s \in Sessions, OrphanedIntake(s)
        PROVE  TypeOK'
    <2>1. /\ log' \in [Sessions -> Seq(Rows)]
          /\ \A t \in Sessions : old[t] <= Len(log'[t])
      BY <1>0, <1>8, CreateLogTypes DEF OrphanedIntake
    <2>2. /\ reply' \in [Sessions -> [status : Status, asks : SUBSET Fields]]
          /\ remembered' \in [Sessions -> Seq(Rows)]
          /\ \A t \in Sessions : Len(remembered'[t]) <= Memory + 1
      BY <1>8, RepliesTypes DEF OrphanedIntake, Status
    <2>3. mishaps' \in 0..MaxMishaps
      BY <1>8 DEF OrphanedIntake, Mishap, TypeOK
    <2> QED
      BY <1>8, <2>1, <2>2, <2>3 DEF OrphanedIntake, TypeOK
  <1>9. ASSUME NEW s \in Sessions, ProviderFails(s)
        PROVE  TypeOK'
    <2>1. /\ reply' \in [Sessions -> [status : Status, asks : SUBSET Fields]]
          /\ remembered' \in [Sessions -> Seq(Rows)]
          /\ \A t \in Sessions : Len(remembered'[t]) <= Memory + 1
      BY <1>9, RepliesTypes DEF ProviderFails, Status
    <2>2. mishaps' \in 0..MaxMishaps
      BY <1>9 DEF ProviderFails, Mishap, TypeOK
    <2> QED
      BY <1>9, <2>1, <2>2 DEF ProviderFails, TypeOK
  <1>10. CASE CleanUp
    <2>1. CASE SweepReads /\ UNCHANGED mishaps
      <3>1. ASSUME NEW s \in Sessions
            PROVE  LastMessageAt(s) \in Nat /\ LastMessageAt(s) <= old[s]
        <4> DEFINE stale == {i \in Positions(s, {"user", "assistant"}) : i <= old[s]}
        <4>1. log[s] \in Seq(Rows) /\ Len(log[s]) \in Nat /\ old[s] \in Nat
          BY DEF TypeOK
        <4>2. stale \in SUBSET (1..Len(log[s]))
          BY <4>1 DEF Positions
        <4>3. Latest(stale) \in stale \cup {0}
          BY <4>1, <4>2, LatestIsPosition
        <4>4. \A i \in stale \cup {0} : i \in Nat /\ i <= old[s]
          BY <4>1, <4>2
        <4>5. LastMessageAt(s) = Latest(stale)
          BY DEF LastMessageAt
        <4> HIDE DEF stale
        <4> QED
          BY <4>3, <4>4, <4>5
      <3> QED
        BY <1>10, <2>1, <3>1 DEF CleanUp, SweepReads, TypeOK
    <2>2. ASSUME NEW s \in Sessions, SweepCloses(s), UNCHANGED mishaps
          PROVE  TypeOK'
      <3>1. log \in [Sessions -> Seq(Rows)] /\ Len(log[s]) \in Nat
        BY DEF TypeOK
      <3>2. /\ log' \in [Sessions -> Seq(Rows)]
            /\ \A t \in Sessions \ {s} : log'[t] = log[t]
            /\ log'[s] = log[s] \/ Len(log'[s]) = Len(log[s]) + 1
        BY <2>2, <3>1, SweptRows
      <3>3. Len(log'[s]) >= Len(log[s])
        BY <3>1, <3>2
      <3>4. \A t \in Sessions : old[t] <= Len(log'[t])
        BY <3>2, <3>3, GrownLog
      <3>5. sweep' \in [Sessions -> Nat] /\ \A t \in Sessions : sweep'[t] <= old[t]
        BY <2>2 DEF SweepCloses, TypeOK
      <3>6. UNCHANGED <<old, draft, remembered, reply, jobs, sent, mishaps>>
        BY <1>10, <2>2 DEF CleanUp, SweepCloses
      <3> QED
        BY <3>2, <3>4, <3>5, <3>6 DEF TypeOK
    <2>3. ASSUME NEW s \in Sessions, RowsAge(s),
                 IF draft[s] = {} THEN UNCHANGED mishaps ELSE Mishap
          PROVE  TypeOK'
      <3>1. PICK n \in (old[s] + 1)..Len(log[s]) : old' = [old EXCEPT ![s] = n]
        BY <2>3 DEF RowsAge
      <3>2. old[s] \in Nat /\ sweep[s] \in Nat /\ sweep[s] <= old[s] /\ Len(log[s]) \in Nat
        BY DEF TypeOK
      <3>3. n \in Nat /\ n <= Len(log[s]) /\ sweep[s] <= n
        BY <3>2
      <3>4. mishaps' \in 0..MaxMishaps
        BY <2>3 DEF Mishap, TypeOK
      <3>5. UNCHANGED <<log, sweep, draft, remembered, reply, jobs, sent>>
        BY <1>10, <2>3 DEF CleanUp, RowsAge
      <3> QED
        BY <3>1, <3>3, <3>4, <3>5 DEF TypeOK
    <2> QED
      BY <1>10, <2>1, <2>2, <2>3 DEF CleanUp
  <1>11. CASE UNCHANGED vars
    BY <1>11 DEF vars, talkVars, TypeOK
  <1> QED
    BY <1>1, <1>2, <1>3, <1>4, <1>5, <1>6, <1>7, <1>8, <1>9, <1>10, <1>11 DEF Next, Completes

(* The initial state has the types. *)
LEMMA TypeInit == Init => TypeOK
  <1>1. <<>> \in Seq(Rows) /\ Len(<<>>) = 0 /\ Memory \in Nat
    OBVIOUS
  <1> QED
    BY <1>1 DEF Init, LogInit, TypeOK, Status

(* The memory of a session is what was logged in it, its clean-up never      *)
(* reads beyond what is old, and a turn is given Memory rows and its message.*)
THEOREM TypeCorrect == Spec => []TypeOK
  BY TypeInit, TypeStep, PTL DEF Spec

-----------------------------------------------------------------------------
(* A turn in progress knows all that the customer has said since the session *)
(* was last closed.                                                          *)
TurnIsAware(s) ==
    Thinking(s) =>
        \/ remembered[s] = Append(RecentMessages(s), Message("user", draft[s]))
        \/ /\ RecentMessages(s) = <<>>
           /\ remembered[s][Len(remembered[s])] = Message("user", draft[s])

AwareInv == TypeOK /\ \A s \in Sessions : TurnIsAware(s)

(* What a step may do to a session: nothing that its turn has read, to end   *)
(* the turn, to begin one, or to close the session.                          *)
Undisturbed(s) == log'[s] = log[s] /\ remembered'[s] = remembered[s] /\ draft'[s] = draft[s]

Closes(s) ==
    /\ Len(log'[s]) # 0 /\ log'[s][Len(log'[s])] = Closed
    /\ remembered'[s] = remembered[s] /\ draft'[s] = draft[s]

(* Every step does one of these to each session. *)
LEMMA TurnsAreApart ==
  ASSUME TypeOK, [Next]_vars, NEW t \in Sessions
  PROVE  Undisturbed(t) \/ remembered'[t] = <<>> \/ TurnReads(t) \/ Closes(t)
  <1> USE DEF logVars, Undisturbed
  <1>0. /\ log \in [Sessions -> Seq(Rows)] /\ draft \in [Sessions -> SUBSET Facts]
        /\ remembered \in [Sessions -> Seq(Rows)]
    BY DEF TypeOK
  <1>1. ASSUME NEW s \in Sessions, SafetyEscalation(s)
        PROVE  Undisturbed(t) \/ remembered'[t] = <<>>
    BY <1>0, <1>1 DEF SafetyEscalation, CreateLog, CustomerReads, Replies
  <1>2. ASSUME NEW s \in Sessions, TurnReads(s)
        PROVE  Undisturbed(t) \/ TurnReads(t)
    BY <1>0, <1>2 DEF TurnReads
  <1>3. ASSUME NEW s \in Sessions, JobCreated(s)
        PROVE  Undisturbed(t) \/ remembered'[t] = <<>>
    BY <1>0, <1>3 DEF JobCreated, LogJobAndClear, Replies
  <1>4. ASSUME NEW s \in Sessions, NEW asks, Answers(s, asks)
        PROVE  Undisturbed(t) \/ remembered'[t] = <<>>
    BY <1>0, <1>4 DEF Answers, CreateLog, CustomerReads, Replies
  <1>5. ASSUME NEW s \in Sessions, ArgumentsRefused(s)
        PROVE  Undisturbed(t) \/ remembered'[t] = <<>>
    BY <1>0, <1>5 DEF ArgumentsRefused, CreateLog, CustomerReads, Replies
  <1>6. ASSUME NEW s \in Sessions, CustomerLeaves(s)
        PROVE  Undisturbed(t) \/ remembered'[t] = <<>>
    BY <1>0, <1>6 DEF CustomerLeaves, Thinking
  <1>7. ASSUME NEW s \in Sessions, OrphanedIntake(s)
        PROVE  Undisturbed(t) \/ remembered'[t] = <<>>
    BY <1>0, <1>7 DEF OrphanedIntake, CreateLog, Replies
  <1>8. ASSUME NEW s \in Sessions, ProviderFails(s)
        PROVE  Undisturbed(t) \/ remembered'[t] = <<>>
    BY <1>0, <1>8 DEF ProviderFails, Replies
  <1>9. CASE CleanUp
    <2>1. draft' = draft /\ remembered' = remembered
      BY <1>9 DEF CleanUp
    <2>2. CASE log' = log
      BY <2>1, <2>2
    <2>3. ASSUME NEW s \in Sessions, SweepCloses(s)
          PROVE  Undisturbed(t) \/ Closes(t)
      <3>1. /\ \A u \in Sessions \ {s} : log'[u] = log[u]
            /\ \/ log'[s] = log[s]
               \/ Len(log'[s]) = Len(log[s]) + 1 /\ log'[s][Len(log'[s])] = Closed
        BY <1>0, <2>3, SweptRows
      <3>2. Len(log[s]) \in Nat
        BY <1>0
      <3>3. Len(log'[s]) = Len(log[s]) + 1 => Len(log'[s]) # 0
        BY <3>2
      <3> QED
        BY <2>1, <3>1, <3>3 DEF Closes
    <2> QED
      BY <1>9, <2>2, <2>3 DEF CleanUp, SweepReads, RowsAge
  <1>10. CASE UNCHANGED vars
    BY <1>10 DEF vars, talkVars
  <1> QED
    BY <1>1, <1>2, <1>3, <1>4, <1>5, <1>6, <1>7, <1>8, <1>9, <1>10
       DEF Next, Completes, ToolCalled, ClaimFinalized, Asks, Chats

(* A turn in progress stays aware, although its session may be closed.       *)
LEMMA AwareStep ==
  AwareInv /\ [Next]_vars => AwareInv'
  <1> SUFFICES ASSUME AwareInv, [Next]_vars
               PROVE  AwareInv'
    OBVIOUS
  <1>1. TypeOK'
    BY TypeStep DEF AwareInv
  <1>2. ASSUME NEW t \in Sessions
        PROVE  TurnIsAware(t)'
    <2>1. CASE Undisturbed(t)
      <3>1. RecentMessages(t)' = RecentMessages(t)
        BY <2>1, SameRecent DEF Undisturbed
      <3> QED
        BY <2>1, <3>1 DEF AwareInv, TurnIsAware, Thinking, Undisturbed
    <2>2. CASE remembered'[t] = <<>>
      BY <2>2 DEF TurnIsAware, Thinking
    <2>3. CASE TurnReads(t)
      <3>1. log'[t] = log[t] /\ draft' = draft
        BY <2>3 DEF TurnReads, logVars
      <3>2. RecentMessages(t)' = RecentMessages(t)
        BY <3>1, SameRecent
      <3>3. remembered'[t] = Append(RecentMessages(t), Message("user", draft[t]))
        BY <2>3 DEF TurnReads, AwareInv, TypeOK
      <3> QED
        BY <3>1, <3>2, <3>3 DEF TurnIsAware
    <2>4. CASE Closes(t)
      <3>1. RecentMessages(t)' = <<>>
        BY <1>1, <2>4, ClosedForgets DEF Closes, TypeOK
      <3>2. Thinking(t) => remembered[t][Len(remembered[t])] = Message("user", draft[t])
        <4>1. RecentMessages(t) \in Seq(Rows)
          BY RecentMessagesAreOpen DEF RecentAreOpen, RecentRows, AwareInv, TypeOK
        <4>2. Message("user", draft[t]) \in Rows
          BY MessagesAreRows DEF AwareInv, TypeOK
        <4> DEFINE turn == Append(RecentMessages(t), Message("user", draft[t]))
        <4>3. turn[Len(turn)] = Message("user", draft[t])
          BY <4>1, <4>2, AppendProperties
        <4> HIDE DEF turn
        <4>4. Thinking(t) => remembered[t] = turn
                             \/ remembered[t][Len(remembered[t])] = Message("user", draft[t])
          BY DEF AwareInv, TurnIsAware, turn
        <4> QED
          BY <4>3, <4>4
      <3> QED
        BY <2>4, <3>1, <3>2 DEF TurnIsAware, Thinking, Closes
    <2> QED
      BY <2>1, <2>2, <2>3, <2>4, TurnsAreApart DEF AwareInv
  <1> QED
    BY <1>1, <1>2 DEF AwareInv

(* The later rows of a conversation supply no more than all of it.           *)
LEMMA LastMessageIsCollected ==
  ASSUME NEW rows \in Seq(Rows), NEW said \in SUBSET Facts, rows # <<>>,
         rows[Len(rows)] = Message("user", said)
  PROVE  Collected(<<Message("user", said)>>) \subseteq Collected(rows)
  <1> DEFINE alone == <<Message("user", said)>>
  <1>1. Told(alone) = said
    BY DEF Told, Message
  <1>2. Answered(alone) = {}
    BY DEF Answered
  <1>3. Len(rows) \in DOMAIN rows
    <2>1. Len(rows) \in Nat \ {0} /\ DOMAIN rows = 1..Len(rows)
      BY EmptySeq, LenProperties
    <2> QED
      BY <2>1
  <1>4. said \subseteq Told(rows)
    BY <1>3 DEF Told, Message
  <1> HIDE DEF alone
  <1>5. Collected(alone) \subseteq Collected(rows)
    BY <1>1, <1>2, <1>4 DEF Collected
  <1> QED
    BY <1>5 DEF alone

(* What a turn knows covers what may not be asked again.                     *)
LEMMA AwareTurnCollects ==
  ASSUME TypeOK, NEW s \in Sessions, TurnIsAware(s), Thinking(s)
  PROVE  Collected(Append(RecentMessages(s), Message("user", draft[s])))
            \subseteq Collected(remembered[s])
  <1>1. CASE remembered[s] = Append(RecentMessages(s), Message("user", draft[s]))
    BY <1>1
  <1>2. CASE /\ RecentMessages(s) = <<>>
             /\ remembered[s][Len(remembered[s])] = Message("user", draft[s])
    <2>1. Append(<<>>, Message("user", draft[s])) = <<Message("user", draft[s])>>
      OBVIOUS
    <2>2. /\ remembered[s] \in Seq(Rows) /\ remembered[s] # <<>>
          /\ draft[s] \in SUBSET Facts
      BY DEF TypeOK, Thinking
    <2> QED
      BY <1>2, <2>1, <2>2, LastMessageIsCollected
  <1> QED
    BY <1>1, <1>2 DEF TurnIsAware

(* The guard lets no question through that asks for what was collected.      *)
LEMMA GuardAsksNothingCollected ==
  ASSUME NEW rows, NEW asks
  PROVE  GuardedQuestion(rows, asks) \cap Collected(rows) = {}
  <1>1. NextMissingQuestion(rows) \cap Collected(rows) = {}
    BY DEF NextMissingQuestion, Missing
  <1>2. ~MustNotAsk(rows, asks) => asks \cap Collected(rows) = {}
    BY DEF MustNotAsk
  <1> QED
    BY <1>1, <1>2 DEF GuardedQuestion

(* A question that is not a correction asks for nothing that the open part   *)
(* of the log or the message it answers supplies, whatever the model wanted  *)
(* to ask, and although the session may be closed while the model thinks     *)
(* (system prompt, rule 11).                                                 *)
THEOREM NothingIsAskedTwice == Spec => NeverAsksAgain
  <1>1. Init => AwareInv
    BY TypeInit DEF AwareInv, Init, TurnIsAware, Thinking
  <1>2. ASSUME AwareInv, [Next]_vars, NEW t \in Sessions,
               Thinking(t), remembered'[t] = <<>>, reply'[t].status = "reply"
        PROVE  reply'[t].asks \cap Collected(Append(RecentMessages(t), Message("user", draft[t]))) = {}
    <2> USE DEF logVars
    <2>0. /\ reply \in [Sessions -> [status : Status, asks : SUBSET Fields]]
          /\ remembered \in [Sessions -> Seq(Rows)] /\ remembered[t] # <<>>
      BY <1>2 DEF AwareInv, TypeOK, Thinking
    <2>1. ASSUME NEW s \in Sessions, NEW asks, Answers(s, asks)
          PROVE  reply'[t].asks \cap Collected(remembered[t]) = {}
      <3>1. s = t
        BY <1>2, <2>0, <2>1 DEF Answers, Replies
      <3>2. reply'[t].asks = GuardedQuestion(remembered[t], asks)
        BY <2>0, <2>1, <3>1 DEF Answers, Replies
      <3> QED
        BY <3>2, GuardAsksNothingCollected
    <2>2. ASSUME NEW s \in Sessions,
                 \/ SafetyEscalation(s) \/ TurnReads(s) \/ JobCreated(s) \/ ArgumentsRefused(s)
                 \/ CustomerLeaves(s) \/ OrphanedIntake(s) \/ ProviderFails(s)
          PROVE  FALSE
      <3>1. CASE SafetyEscalation(s)
        BY <1>2, <2>0, <3>1 DEF SafetyEscalation, Replies
      <3>2. CASE TurnReads(s)
        <4>1. remembered'[t] = remembered[t] \/ s = t
          BY <2>0, <3>2 DEF TurnReads
        <4>2. s # t
          BY <1>2, <3>2 DEF TurnReads, Sends
        <4> QED
          BY <1>2, <2>0, <4>1, <4>2
      <3>3. CASE JobCreated(s)
        BY <1>2, <2>0, <3>3 DEF JobCreated, Replies
      <3>4. CASE ArgumentsRefused(s)
        BY <1>2, <2>0, <3>4 DEF ArgumentsRefused, Replies
      <3>5. CASE CustomerLeaves(s)
        BY <1>2, <2>0, <3>5 DEF CustomerLeaves
      <3>6. CASE OrphanedIntake(s)
        BY <1>2, <2>0, <3>6 DEF OrphanedIntake, Replies
      <3>7. CASE ProviderFails(s)
        BY <1>2, <2>0, <3>7 DEF ProviderFails, Replies
      <3> QED
        BY <2>2, <3>1, <3>2, <3>3, <3>4, <3>5, <3>6, <3>7
    <2>3. ASSUME CleanUp \/ UNCHANGED vars
          PROVE  FALSE
      BY <1>2, <2>0, <2>3 DEF CleanUp, vars, talkVars
    <2>4. reply'[t].asks \cap Collected(remembered[t]) = {}
      <3>1. ASSUME NEW s \in Sessions, Asks(s) \/ Chats(s)
            PROVE  reply'[t].asks \cap Collected(remembered[t]) = {}
        BY <2>1, <3>1 DEF Asks, Chats
      <3>2. ASSUME NEW s \in Sessions, ToolCalled(s) \/ ClaimFinalized(s)
            PROVE  FALSE
        BY <2>2, <3>2 DEF ToolCalled, ClaimFinalized
      <3>3. ASSUME NEW s \in Sessions,
                   \/ SafetyEscalation(s) \/ TurnReads(s) \/ Completes(s) \/ ArgumentsRefused(s) \/ Chats(s)
                   \/ CustomerLeaves(s) \/ ClaimFinalized(s) \/ OrphanedIntake(s) \/ ProviderFails(s)
            PROVE  reply'[t].asks \cap Collected(remembered[t]) = {}
        BY <2>2, <3>1, <3>2, <3>3 DEF Completes
      <3>4. CASE Next
        BY <2>3, <3>3, <3>4 DEF Next
      <3> QED
        BY <1>2, <2>3, <3>4
    <2>5. Collected(Append(RecentMessages(t), Message("user", draft[t]))) \subseteq Collected(remembered[t])
      BY <1>2, AwareTurnCollects DEF AwareInv
    <2> QED
      BY <2>4, <2>5
  <1>3. AwareInv /\ [Next]_vars =>
           [\A s \in Sessions :
               Thinking(s) /\ remembered'[s] = <<>> /\ reply'[s].status = "reply" =>
                  reply'[s].asks \cap Collected(Append(RecentMessages(s), Message("user", draft[s]))) = {}]_vars
    BY <1>2
  <1> QED
    BY <1>1, <1>3, AwareStep, PTL DEF Spec, NeverAsksAgain
=============================================================================
