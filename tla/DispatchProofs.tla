--------------------------- MODULE DispatchProofs ---------------------------
(***************************************************************************)
(* Proofs about the dispatch page (module Dispatch), for any numbers of    *)
(* pages, jobs, technicians and settings, and any bound on what others     *)
(* change.                                                                 *)
(***************************************************************************)
EXTENDS Dispatch, FiniteSetTheorems, TLAPS

-----------------------------------------------------------------------------
(* What the server computes is well typed. *)

LEMMA DetailTyped ==
  ASSUME TypeOK, NEW j \in Jobs
  PROVE  /\ Detail(j) \in Details
         /\ Detail(j).job = j /\ Detail(j).fresh /\ Detail(j).calm
  <1>1. Best(j, Rout(j), Gate(Job(j))) \in Nobody
    BY DEF Best, Recommend, Nobody
  <1>2. row[j].assignee \in Nobody
    BY DEF TypeOK, Rows
  <1>3. Gate(Job(j)) \in Gates
    BY DEF Gate, Gates
  <1> QED
    BY <1>1, <1>2, <1>3 DEF Detail, Details

LEMMA AgedTyped ==
  ASSUME NEW x \in Details \cup {None}, NEW J
  PROVE  /\ Aged(x, J) \in Details \cup {None}
         /\ Aged(x, J) = None <=> x = None
         /\ x # None => /\ Aged(x, J) \in Details
                        /\ ~Aged(x, J).calm
                        /\ Aged(x, J) = [x EXCEPT !.fresh = @ /\ x.job \notin J, !.calm = FALSE]
  BY DispatchAssumption DEF Aged, Details

LEMMA RoutingTyped ==
  ASSUME TypeOK, NEW j \in Jobs
  PROVE  [to |-> Rout(j), gate |-> Gate(Job(j)), from |-> row[j].assignee] \in Routings
  <1>1. RoutingOf(rules, areas, Job(j), Now) \in
          [covered : BOOLEAN, requireAvailable : BOOLEAN, requireOnCall : BOOLEAN,
           escalates : SUBSET {"OWNER", "ON_CALL"}]
    BY DEF RoutingOf
  <1>2. row[j].assignee \in Nobody
    BY DEF TypeOK, Rows
  <1>3. Gate(Job(j)) \in Gates
    BY DEF Gate, Gates
  <1> QED
    BY <1>1, <1>2, <1>3 DEF Rout, Routings

(* The writers of a row other than this page's. *)
LEMMA RowTyped ==
  ASSUME NEW r \in Rows
  PROVE  /\ [r EXCEPT !.window = Window] \in Rows
         /\ [r EXCEPT !.window = Window].assignee = r.assignee
         /\ \A u \in {"STANDARD", "EMERGENCY"} : [r EXCEPT !.urgency = u] \in Rows
         /\ \A s \in {"ACCEPTED", "COMPLETED"} : [r EXCEPT !.status = s] \in Rows
         /\ \A s \in {"SUCCEEDED", "REFUNDED"} :
               [r EXCEPT !.payment = s] \in Rows /\ [r EXCEPT !.payment = s].assignee = r.assignee
         /\ \A e \in {"active", "revoked"} : [r EXCEPT !.exception = e] \in Rows
         /\ \A t \in Nobody : [r EXCEPT !.assignee = t] \in Rows
  BY DEF Rows

LEMMA OthersWriteRows ==
  ASSUME TypeOK, NEW j \in Jobs, OthersWrite(j)
  PROVE  \E new \in Rows, J \in SUBSET Jobs :
            /\ RowChanges(j, new, J)
            /\ j \notin J => new.assignee = row[j].assignee
  <1> DEFINE Writes(new, J) ==
        /\ new \in Rows /\ J \in SUBSET Jobs
        /\ RowChanges(j, new, J)
        /\ j \notin J => new.assignee = row[j].assignee
             r == row[j]
  <1>r. r \in Rows
    BY DEF TypeOK
  <1>1. ASSUME RowChanges(j, [r EXCEPT !.window = Window, !.status = "ACCEPTED"], {j})
        PROVE  \E new, J : Writes(new, J)
    <2>1. [[r EXCEPT !.window = Window] EXCEPT !.status = "ACCEPTED"] \in Rows
      <3> HIDE DEF r
      <3>1. [r EXCEPT !.window = Window] \in Rows
        BY <1>r, RowTyped
      <3> QED  BY <3>1, RowTyped
    <2>2. Writes([[r EXCEPT !.window = Window] EXCEPT !.status = "ACCEPTED"], {j})
      BY <1>1, <2>1
    <2> QED  BY <2>2
  <1>2. ASSUME NEW u \in {"STANDARD", "EMERGENCY"}, RowChanges(j, [r EXCEPT !.urgency = u], {j})
        PROVE  \E new, J : Writes(new, J)
    <2>1. Writes([r EXCEPT !.urgency = u], {j})
      BY <1>2, <1>r, RowTyped
    <2> QED  BY <2>1
  <1>3. ASSUME RowChanges(j, [r EXCEPT !.status = "COMPLETED"], {j})
        PROVE  \E new, J : Writes(new, J)
    <2>1. Writes([r EXCEPT !.status = "COMPLETED"], {j})
      BY <1>3, <1>r, RowTyped
    <2> QED  BY <2>1
  <1>4. ASSUME NEW s \in {"SUCCEEDED", "REFUNDED"}, RowChanges(j, [r EXCEPT !.payment = s], {})
        PROVE  \E new, J : Writes(new, J)
    <2>1. Writes([r EXCEPT !.payment = s], {})
      BY <1>4, <1>r, RowTyped
    <2> QED  BY <2>1
  <1>5. ASSUME NEW e \in {"active", "revoked"}, RowChanges(j, [r EXCEPT !.exception = e], {j})
        PROVE  \E new, J : Writes(new, J)
    <2>1. Writes([r EXCEPT !.exception = e], {j})
      BY <1>5, <1>r, RowTyped
    <2> QED  BY <2>1
  <1>6. \E new, J : Writes(new, J)
    <2> HIDE DEF Writes
    <2> QED
      BY <1>1, <1>2, <1>3, <1>4, <1>5 DEF OthersWrite
  <1> QED
    BY <1>6

(* Aging keeps every field of a request but two. *)
LEMMA RequestAged ==
  ASSUME NEW r \in Requests \cup {None}, NEW J
  PROVE  Aged(r, J) \in Requests \cup {None}
  BY DEF Requests, Aged

LEMMA AgedFields ==
  ASSUME NEW r \in Requests, NEW J
  PROVE  /\ Aged(r, J).kind = r.kind /\ Aged(r, J).pc = r.pc
         /\ Aged(r, J).job = r.job /\ Aged(r, J).technician = r.technician
         /\ Aged(r, J).reason = r.reason /\ Aged(r, J).routing = r.routing
         /\ Aged(r, J).selected = r.selected
         /\ Aged(r, J).fresh = (r.fresh /\ r.job \notin J) /\ Aged(r, J).calm = FALSE
         /\ Aged(r, J) # None
  BY DispatchAssumption DEF Requests, Aged

LEMMA AgedNone == ASSUME NEW J  PROVE Aged(None, J) = None
  BY DEF Aged

LEMMA StepTyped ==
  ASSUME NEW r \in Requests,
         NEW pc \in {"sent", "routed", "ranked", "notifying", "auditing", "refreshing"}
  PROVE  /\ [r EXCEPT !.pc = pc] \in Requests
         /\ [r EXCEPT !.pc = pc] # None
         /\ [r EXCEPT !.pc = pc].kind = r.kind /\ [r EXCEPT !.pc = pc].pc = pc
         /\ [r EXCEPT !.pc = pc].job = r.job /\ [r EXCEPT !.pc = pc].technician = r.technician
         /\ [r EXCEPT !.pc = pc].reason = r.reason /\ [r EXCEPT !.pc = pc].routing = r.routing
         /\ [r EXCEPT !.pc = pc].selected = r.selected
         /\ [r EXCEPT !.pc = pc].fresh = r.fresh /\ [r EXCEPT !.pc = pc].calm = r.calm
  BY DispatchAssumption DEF Requests

(* What is written to a row, and to the pages that read it. *)
LEMMA AgingTyped ==
  ASSUME TypeOK, NEW J, AgeDetails(J)
  PROVE  /\ shown' \in [Pages -> Details \cup {None}]
         /\ loading' \in [Pages -> SUBSET Details]
         /\ \A p \in Pages : shown'[p] # None \/ loading'[p] # {} => selected[p] \in Jobs
  <1>1. \A p \in Pages : Aged(shown[p], J) \in Details \cup {None}
    BY AgedTyped DEF TypeOK
  <1>2. \A p \in Pages : \A d \in loading[p] : Aged(d, J) \in Details
    <2> SUFFICES ASSUME NEW p \in Pages, NEW d \in loading[p]  PROVE Aged(d, J) \in Details
      OBVIOUS
    <2>1. d \in Details /\ d # None
      BY DispatchAssumption DEF TypeOK
    <2> QED  BY <2>1, AgedTyped
  <1>3. ASSUME NEW p \in Pages  PROVE (shown[p] = None) => (Aged(shown[p], J) = None)
    BY DEF Aged
  <1>4. ASSUME NEW p \in Pages, shown'[p] # None \/ loading'[p] # {}
        PROVE  selected[p] \in Jobs
    <2>1. shown[p] # None \/ loading[p] # {}
      BY <1>3, <1>4 DEF AgeDetails
    <2> QED  BY <2>1 DEF TypeOK
  <1> QED
    BY <1>1, <1>2, <1>4 DEF AgeDetails

LEMMA AgedRequestsTyped ==
  ASSUME TypeOK, NEW J
  PROVE  /\ AgedRequests(J) \in [Pages -> Requests \cup {None}]
         /\ \A p \in Pages : AgedRequests(J)[p] # None => request[p] # None
  <1>1. \A p \in Pages : Aged(request[p], J) \in Requests \cup {None}
    BY RequestAged DEF TypeOK
  <1>2. \A p \in Pages : Aged(request[p], J) # None => request[p] # None
    BY DEF Aged
  <1> QED
    BY <1>1, <1>2 DEF AgedRequests

LEMMA OneRequest ==
  ASSUME TypeOK, NEW p \in Pages, NEW r \in Requests \cup {None}, request' = [request EXCEPT ![p] = r]
  PROVE  request' \in [Pages -> Requests \cup {None}]
  BY DEF TypeOK

-----------------------------------------------------------------------------
(* Type correctness.                                                       *)

LEMMA EditTyped == ASSUME TypeOK, Edit  PROVE edits' \in 0..MaxEdits
  BY DispatchAssumption DEF TypeOK, Edit

LEMMA DisturbTyped ==
  ASSUME TypeOK, NEW J, Disturb(J)
  PROVE  /\ shown' \in [Pages -> Details \cup {None}]
         /\ loading' \in [Pages -> SUBSET Details]
         /\ \A p \in Pages : shown'[p] # None \/ loading'[p] # {} => selected[p] \in Jobs
         /\ request' \in [Pages -> Requests \cup {None}]
         /\ \A p \in Pages : shown'[p] # None \/ loading'[p] # {} \/ request'[p] # None =>
                              selected[p] \in Jobs
  BY AgingTyped, AgedRequestsTyped DEF Disturb, TypeOK

(* A step of a request that stays what it is, or is answered.              *)
LEMMA ServerStepTyped ==
  ASSUME TypeOK, NEW p \in Pages, request[p] # None, NEW r \in Requests \cup {None}, Step(p, r)
  PROVE  TypeOK'
  <1>1. request' \in [Pages -> Requests \cup {None}]
    BY OneRequest DEF Step
  <1> QED  BY <1>1 DEF Step, TypeOK, audits, page

LEMMA TypeStep ==
  ASSUME TypeOK, [Next]_vars
  PROVE  TypeOK'
  <1> USE DEF settings, page, audits
  <1>pc. \A p \in Pages : request[p] # None =>
           /\ request[p].job \in Jobs /\ request[p].technician \in Nobody
           /\ request[p].selected \in Jobs /\ request[p] \in Requests
    BY DEF TypeOK, Requests
  <1>aged. ASSUME NEW p \in Pages, NEW j \in Jobs, NEW new \in Rows, request[p] # None,
                  RowIsWritten(p, j, new)
           PROVE  TypeOK'
    <2>1. request' \in [Pages -> Requests \cup {None}]
      BY <1>aged, AgedRequestsTyped, StepTyped, <1>pc DEF RowIsWritten
    <2>2. row' \in [Jobs -> Rows]
      BY <1>aged DEF RowIsWritten, TypeOK
    <2>3. \A q \in Pages : request'[q] # None => request[q] # None
      BY <1>aged, AgedRequestsTyped DEF RowIsWritten
    <2>4. AgeDetails({j})
      BY <1>aged DEF RowIsWritten
    <2> QED
      BY <2>1, <2>2, <2>3, <2>4, <1>aged, AgingTyped DEF RowIsWritten, TypeOK
  <1>1. ASSUME SettingsOnly, Edit  PROVE TypeOK'
    BY <1>1, DisturbTyped, EditTyped DEF SettingsOnly, TypeOK
  <1>2. ASSUME NEW j \in Jobs, OthersWrite(j)  PROVE TypeOK'
    <2>1. PICK new \in Rows, J \in SUBSET Jobs : RowChanges(j, new, J)
      BY <1>2, OthersWriteRows
    <2> QED  BY <2>1, DisturbTyped, EditTyped DEF RowChanges, TypeOK
  <1>3. ASSUME NEW j \in Jobs, FiveMinutesPass(j)  PROVE TypeOK'
    BY <1>3 DEF FiveMinutesPass, TypeOK
  <1>4. ASSUME NEW p \in Pages, NEW d \in loading[p], LoadFails(p, d)  PROVE TypeOK'
    BY <1>4, EditTyped DEF LoadFails, TypeOK
  <1>5. ASSUME NEW p \in Pages, NEW d \in loading[p], Loaded(p, d)  PROVE TypeOK'
    BY <1>5 DEF Loaded, TypeOK
  <1>6. ASSUME NEW p \in Pages, NEW j \in Jobs, Select(p, j)  PROVE TypeOK'
    BY <1>6, DetailTyped DEF Select, TypeOK
  <1>7. ASSUME NEW p \in Pages, NEW t \in Nobody, NEW reason \in BOOLEAN,
               NEW kind \in {"assign", "cancel", "link", "payment", "escalate", "evaluate"},
               Begin(p, kind, t, reason)
        PROVE  TypeOK'
    <2> DEFINE r == [kind |-> kind, pc |-> "sent", job |-> shown[p].job,
                     technician |-> t, reason |-> reason, routing |-> None,
                     selected |-> selected[p], fresh |-> shown[p].fresh, calm |-> shown[p].calm]
    <2>1. r \in Requests
      BY <1>7 DEF Begin, TypeOK, Details, Requests
    <2> HIDE DEF r
    <2> QED
      BY <1>7, <2>1, OneRequest DEF Begin, TypeOK, r
  <1>8. ASSUME NEW p \in Pages, AssignRoutes(p)  PROVE TypeOK'
    <2> DEFINE r == [request[p] EXCEPT !.pc = "routed",
                       !.routing = [to |-> Rout(request[p].job), gate |-> Gate(Job(request[p].job)),
                                    from |-> row[request[p].job].assignee]]
    <2>0. request[p] \in Requests
      BY <1>8, <1>pc DEF AssignRoutes, At
    <2>1. r \in Requests
      BY <2>0, RoutingTyped DEF Requests
    <2> HIDE DEF r
    <2> QED
      BY <1>8, <2>1, <1>pc, ServerStepTyped, StepTyped
      DEF AssignRoutes, At, Refused, Succeeds, r
  <1>9. ASSUME NEW p \in Pages, AssignRanks(p)  PROVE TypeOK'
    BY <1>9, <1>pc, ServerStepTyped, StepTyped DEF AssignRanks, At, Refused
  <1>10. ASSUME NEW p \in Pages, AssignWrites(p)  PROVE TypeOK'
    BY <1>10, <1>pc, <1>aged, RowTyped, ServerStepTyped
    DEF AssignWrites, At, Refused, TypeOK
  <1>11. ASSUME NEW p \in Pages, CancelWrites(p)  PROVE TypeOK'
    <2>1. request[p] # None /\ request[p].kind = "cancel" /\ request[p].job \in Jobs
      BY <1>11 DEF CancelWrites, At, TypeOK, Requests
    <2>2. CASE Refused(p)
      BY <1>11, <1>pc, <2>1, <2>2, ServerStepTyped, StepTyped DEF Refused
    <2>3. CASE Succeeds(p)
      BY <1>11, <1>pc, <2>1, <2>3, ServerStepTyped, StepTyped DEF Succeeds
    <2>4. CASE RowIsWritten(p, request[p].job, [row[request[p].job] EXCEPT !.assignee = None])
      BY <1>11, <1>pc, <1>aged, <2>1, <2>4, RowTyped, ServerStepTyped DEF TypeOK, Nobody
    <2> QED
      BY <1>11, <2>2, <2>3, <2>4 DEF CancelWrites
  <1>12. ASSUME NEW p \in Pages, LinkIssued(p)  PROVE TypeOK'
    BY <1>12, <1>pc, OneRequest DEF LinkIssued, At, TypeOK
  <1>13. ASSUME NEW p \in Pages, Evaluated(p) \/ EscalateReads(p)  PROVE TypeOK'
    BY <1>13, <1>pc, ServerStepTyped, StepTyped DEF Evaluated, EscalateReads, At, Succeeds
  <1>14. ASSUME NEW p \in Pages, Notifies(p)  PROVE TypeOK'
    <2>1. request' = [request EXCEPT ![p] = [request[p] EXCEPT !.pc = "auditing"]]
      BY <1>14 DEF Notifies
    <2>2. request[p] # None /\ request[p].job \in Jobs
      BY <1>14, <1>pc DEF Notifies, At
    <2>3. request' \in [Pages -> Requests \cup {None}]
      BY <2>1, <2>2, <1>pc, OneRequest, StepTyped
    <2> QED
      BY <1>14, <2>2, <2>3 DEF Notifies, TypeOK
  <1>15. ASSUME NEW p \in Pages, EscalateRecords(p)  PROVE TypeOK'
    <2>1. \/ request' = [request EXCEPT ![p] = [request[p] EXCEPT !.pc = "refreshing"]]
          \/ request' = [request EXCEPT ![p] = None]
      BY <1>15 DEF EscalateRecords
    <2>3. [request[p] EXCEPT !.pc = "refreshing"] \in Requests
      BY <1>15, <1>pc, StepTyped DEF EscalateRecords, At
    <2>2. request' \in [Pages -> Requests \cup {None}]
      BY <2>1, <2>3, OneRequest
    <2> QED
      BY <1>15, <2>2, <1>pc, EditTyped DEF EscalateRecords, At, TypeOK
  <1>16. ASSUME NEW p \in Pages, Refreshed(p)  PROVE TypeOK'
    <2>1. shown' \in [Pages -> Details \cup {None}]
      BY <1>16, <1>pc, DetailTyped DEF Refreshed, TypeOK
    <2>2. \A q \in Pages : shown'[q] # None \/ request'[q] # None =>
                             shown[q] # None \/ request[q] # None
      BY <1>16 DEF Refreshed, TypeOK
    <2> QED
      BY <1>16, <2>1, OneRequest, EditTyped DEF Refreshed, TypeOK
  <1>17. CASE UNCHANGED vars
    BY <1>17 DEF vars, TypeOK
  <1> QED
    BY <1>1, <1>2, <1>3, <1>4, <1>5, <1>6, <1>7, <1>8, <1>9, <1>10, <1>11, <1>12,
       <1>13, <1>14, <1>15, <1>16, <1>17
    DEF Next, Others, Server, Dispatcher, ClickAssign, Click, SaveRule, SaveServiceArea,
        ConfigureTechnician, Nobody

(* The rows, the pages, the requests and the escalations are well typed in *)
(* every reachable state, for any numbers of pages, jobs and technicians.  *)
THEOREM TypeCorrect == Spec => []TypeOK
  <1>1. Init => TypeOK
    BY DispatchAssumption DEF Init, TypeOK, Rows, Nobody
  <1> QED  BY <1>1, TypeStep, PTL DEF Spec

-----------------------------------------------------------------------------
(* Readiness and the payment gate.                                         *)

(* Whatever the rows, policies and exceptions are, neither the board nor   *)
(* the intake review calls a job ready whose payment gate is locked.       *)
THEOREM ReadyWorkIsUnlocked == Spec => []ReadyMeansUnlocked
  <1>1. ReadyMeansUnlocked
    <2> SUFFICES ASSUME NEW j \in Jobs, Gate(Job(j)) = "LOCKED"
                 PROVE  QueueOf(j) # "READY_TO_ASSIGN" /\ ~ReadyForReview(Job(j))
      BY DEF ReadyMeansUnlocked
    <2>1. QueueOf(j) # "READY_TO_ASSIGN"
      BY DEF QueueOf, Queue
    <2>2. "paymentStatus" \in MissingFields(Job(j))
      BY DEF MissingFields
    <2> QED
      BY <2>1, <2>2 DEF ReadyForReview
  <1> QED  BY <1>1, PTL

-----------------------------------------------------------------------------
(* The panel of a dispatcher who waits for each answer.                    *)

LEMMA PanelStep ==
  ASSUME Patient, TypeOK, PanelIsSelected, [Next]_vars
  PROVE  PanelIsSelected'
  <1> USE DEF settings, page, audits
  <1> DEFINE Panel(p) ==
        /\ \A d \in loading[p] : d.job = selected[p]
        /\ loading[p] # {} => request[p] = None /\ links[p] = {}
        /\ shown[p] # None /\ loading[p] = {} => shown[p].job = selected[p]
        /\ request[p] # None =>
             /\ shown[p] # None
             /\ request[p].job = selected[p] /\ request[p].selected = selected[p]
        /\ links[p] \subseteq {selected[p]}
  <1>pc. \A p \in Pages : request[p] # None =>
           \A pc \in {"notifying", "auditing", "refreshing"} :
              /\ [request[p] EXCEPT !.pc = pc].job = request[p].job
              /\ [request[p] EXCEPT !.pc = pc].selected = request[p].selected
    BY StepTyped DEF TypeOK
  <1>0. ASSUME NEW p \in Pages, UNCHANGED <<selected[p], shown[p], loading[p], links[p], request[p]>>
        PROVE  Panel(p)'
    BY <1>0 DEF PanelIsSelected
  <1>aged. ASSUME NEW J, AgeDetails(J), NEW p \in Pages, UNCHANGED <<selected[p], links[p]>>,
                  \/ request'[p] = Aged(request[p], J)
                  \/ request[p] # None /\ request'[p] = [request[p] EXCEPT !.pc = "refreshing"]
           PROVE  Panel(p)'
    <2>1. /\ shown[p] \in Details \cup {None}
          /\ \A d \in loading[p] : d \in Details /\ d # None
          /\ request[p] \in Requests \cup {None}
      BY DispatchAssumption DEF TypeOK
    <2>2. /\ shown'[p] = Aged(shown[p], J)
          /\ loading'[p] = {Aged(d, J) : d \in loading[p]}
      BY <1>aged DEF AgeDetails
    <2>3. \A d \in loading[p] : Aged(d, J).job = d.job
      BY <2>1 DEF Aged, Details
    <2>4. (shown'[p] = None) <=> (shown[p] = None)
      BY <2>1, <2>2, AgedTyped
    <2>5. shown[p] # None => shown'[p].job = shown[p].job
      BY <2>1, <2>2 DEF Aged, Details
    <2>6. request'[p] # None =>
            /\ request[p] # None
            /\ request'[p].job = request[p].job /\ request'[p].selected = request[p].selected
      <3>1. CASE request'[p] = Aged(request[p], J)
        <4>1. ASSUME request[p] # None
              PROVE  /\ Aged(request[p], J).job = request[p].job
                     /\ Aged(request[p], J).selected = request[p].selected
          BY <2>1, <4>1, AgedFields, Zenon
        <4> QED  BY <3>1, <4>1, AgedNone
      <3>2. CASE request[p] # None /\ request'[p] = [request[p] EXCEPT !.pc = "refreshing"]
        BY <3>2, <1>pc
      <3> QED  BY <1>aged, <3>1, <3>2
    <2>7. request[p] = None => request'[p] = None
      BY <1>aged DEF Aged
    <2> QED
      BY <1>aged, <2>2, <2>3, <2>4, <2>5, <2>6, <2>7 DEF PanelIsSelected
  <1>write. ASSUME NEW p \in Pages, NEW j, NEW new, request[p] # None, RowIsWritten(p, j, new)
            PROVE  PanelIsSelected'
    <2>1. ASSUME NEW q \in Pages  PROVE Panel(q)'
      <3>1. UNCHANGED <<selected[q], links[q]>>
        BY <1>write DEF RowIsWritten
      <3>2. \/ request'[q] = Aged(request[q], {j})
            \/ request[q] # None /\ request'[q] = [request[q] EXCEPT !.pc = "refreshing"]
        BY <1>write DEF RowIsWritten, AgedRequests
      <3> QED
        BY <3>1, <3>2, <1>aged, <1>write DEF RowIsWritten
    <2> QED  BY <2>1 DEF PanelIsSelected
  <1>step. ASSUME NEW p \in Pages, request[p] # None, NEW r,
                  UNCHANGED <<selected, shown, loading, links>>, request' = [request EXCEPT ![p] = r],
                  r # None => r.job = request[p].job /\ r.selected = request[p].selected
           PROVE  PanelIsSelected'
    BY <1>step DEF PanelIsSelected, TypeOK
  <1>1. ASSUME SettingsOnly  PROVE PanelIsSelected'
    BY <1>1, <1>aged DEF SettingsOnly, Disturb, AgedRequests, PanelIsSelected
  <1>2. ASSUME NEW j \in Jobs, OthersWrite(j)  PROVE PanelIsSelected'
    <2>1. PICK new \in Rows, J \in SUBSET Jobs : RowChanges(j, new, J)
      BY <1>2, OthersWriteRows
    <2> QED  BY <2>1, <1>aged DEF RowChanges, Disturb, AgedRequests, PanelIsSelected
  <1>3. ASSUME NEW j \in Jobs, FiveMinutesPass(j)  PROVE PanelIsSelected'
    BY <1>3, <1>0 DEF FiveMinutesPass, PanelIsSelected
  <1>4. ASSUME NEW p \in Pages, NEW d \in loading[p], LoadFails(p, d)  PROVE PanelIsSelected'
    BY <1>4 DEF LoadFails, PanelIsSelected, TypeOK
  <1>5. ASSUME NEW p \in Pages, NEW d \in loading[p], Loaded(p, d)  PROVE PanelIsSelected'
    BY <1>5 DEF Loaded, PanelIsSelected, TypeOK
  <1>6. ASSUME NEW p \in Pages, NEW j \in Jobs, Select(p, j)  PROVE PanelIsSelected'
    BY <1>6, DetailTyped DEF Select, Waits, PanelIsSelected, TypeOK
  <1>7. ASSUME NEW p \in Pages, NEW t, NEW reason, NEW kind, Begin(p, kind, t, reason)
        PROVE  PanelIsSelected'
    BY <1>7 DEF Begin, PanelIsSelected, TypeOK
  <1>8. ASSUME NEW p \in Pages, AssignRoutes(p)  PROVE PanelIsSelected'
    BY <1>8, <1>step DEF AssignRoutes, At, Step, Refused, Succeeds, TypeOK, Requests
  <1>9. ASSUME NEW p \in Pages, AssignRanks(p)  PROVE PanelIsSelected'
    BY <1>9, <1>step DEF AssignRanks, At, Step, Refused, TypeOK, Requests
  <1>10. ASSUME NEW p \in Pages, AssignWrites(p)  PROVE PanelIsSelected'
    BY <1>10, <1>step, <1>write DEF AssignWrites, At, Step, Refused
  <1>11. ASSUME NEW p \in Pages, CancelWrites(p)  PROVE PanelIsSelected'
    BY <1>11, <1>pc, <1>step, <1>write DEF CancelWrites, At, Step, Refused, Succeeds
  <1>12. ASSUME NEW p \in Pages, LinkIssued(p)  PROVE PanelIsSelected'
    BY <1>12 DEF LinkIssued, At, PanelIsSelected, TypeOK
  <1>13. ASSUME NEW p \in Pages, Evaluated(p) \/ EscalateReads(p)  PROVE PanelIsSelected'
    BY <1>13, <1>pc, <1>step DEF Evaluated, EscalateReads, At, Step, Succeeds
  <1>14. ASSUME NEW p \in Pages, Notifies(p) \/ EscalateRecords(p)  PROVE PanelIsSelected'
    <2>1. PICK r : /\ request' = [request EXCEPT ![p] = r]
                   /\ r # None => r.job = request[p].job /\ r.selected = request[p].selected
      BY <1>14, <1>pc DEF Notifies, EscalateRecords, At
    <2> QED
      BY <1>14, <2>1, <1>step DEF Notifies, EscalateRecords, At
  <1>15. ASSUME NEW p \in Pages, Refreshed(p)  PROVE PanelIsSelected'
    BY <1>15, DetailTyped DEF Refreshed, PanelIsSelected, TypeOK
  <1>16. CASE UNCHANGED vars
    BY <1>16, <1>0 DEF vars, PanelIsSelected
  <1> QED
    BY <1>1, <1>2, <1>3, <1>4, <1>5, <1>6, <1>7, <1>8, <1>9, <1>10, <1>11, <1>12,
       <1>13, <1>14, <1>15, <1>16
    DEF Next, Others, Server, Dispatcher, ClickAssign, Click, SaveRule, SaveServiceArea,
        ConfigureTechnician

LEMMA PanelInvariant ==
  ASSUME Patient
  PROVE  Spec => [](TypeOK /\ PanelIsSelected)
  <1>1. Init => TypeOK /\ PanelIsSelected
    <2> SUFFICES ASSUME Init  PROVE TypeOK /\ PanelIsSelected
      OBVIOUS
    <2>1. TypeOK
      BY DispatchAssumption DEF Init, TypeOK, Rows, Nobody
    <2> QED  BY <2>1 DEF Init, PanelIsSelected
  <1>2. TypeOK /\ PanelIsSelected /\ [Next]_vars => (TypeOK /\ PanelIsSelected)'
    BY TypeStep, PanelStep
  <1> QED  BY <1>1, <1>2, PTL DEF Spec

-----------------------------------------------------------------------------
(* Assignments without a reason.                                           *)

LEMMA AssignmentsStep ==
  ASSUME Patient, TypeOK, PanelIsSelected, AssignmentsAreAsFound, [Next]_vars
  PROVE  AssignmentsAreAsFound'
  <1> USE DEF settings, page, audits
  <1> DEFINE Found(p) ==
        request[p] # None /\ request[p].kind = "assign" =>
        /\ ~request[p].reason => shown[p].recommended = request[p].technician
        /\ request[p].pc \in {"routed", "ranked"} =>
             /\ request[p].routing.gate # "LOCKED"
             /\ request[p].fresh => request[p].routing.from = row[request[p].job].assignee
        /\ request[p].pc = "ranked" /\ ~request[p].reason =>
             request[p].routing.from = None /\ request[p].routing.to.covered
  <1>typed. \A p \in Pages : request[p] \in Requests \cup {None} /\ shown[p] \in Details \cup {None}
    BY DEF TypeOK
  <1>job. \A p \in Pages : request[p] # None => request[p].job \in Jobs /\ request[p].reason \in BOOLEAN
    BY <1>typed DEF Requests
  <1>0. ASSUME NEW p \in Pages, UNCHANGED <<shown[p], request[p], row>>
        PROVE  Found(p)'
    BY <1>0 DEF AssignmentsAreAsFound
  <1>aged. ASSUME NEW J, AgeDetails(J), NEW p \in Pages, request'[p] = Aged(request[p], J),
                  \A j \in Jobs \ J : row'[j].assignee = row[j].assignee
           PROVE  Found(p)'
    <2>1. CASE request[p] = None
      BY <1>aged, <2>1, AgedNone
    <2>2. CASE request[p] # None
      <3> DEFINE r == request[p]
                 new == Aged(r, J)
      <3>1. /\ new.kind = r.kind /\ new.pc = r.pc /\ new.job = r.job
            /\ new.technician = r.technician /\ new.reason = r.reason
            /\ new.routing = r.routing /\ new.fresh = (r.fresh /\ r.job \notin J)
        BY <1>typed, <2>2, AgedFields, Zenon
      <3>2. shown'[p].recommended = shown[p].recommended
        <4>1. shown[p] # None
          BY <2>2 DEF PanelIsSelected
        <4>2. shown'[p] = Aged(shown[p], J)
          BY <1>aged DEF AgeDetails
        <4> QED  BY <4>1, <4>2, <1>typed DEF Aged, Details
      <3>3. /\ new.kind = "assign" => r.kind = "assign"
            /\ new.fresh => r.fresh /\ row'[r.job].assignee = row[r.job].assignee
        BY <2>2, <3>1, <1>aged, <1>job
      <3>4. request'[p] = new
        BY <1>aged
      <3>5. Found(p)
        BY DEF AssignmentsAreAsFound
      <3> HIDE DEF new
      <3>6. ~new.reason => shown'[p].recommended = new.technician \/ new.kind # "assign"
        BY <2>2, <3>1, <3>2, <3>5
      <3>7. new.kind = "assign" /\ new.pc \in {"routed", "ranked"} =>
               /\ new.routing.gate # "LOCKED"
               /\ new.fresh => new.routing.from = row'[new.job].assignee
        BY <2>2, <3>1, <3>3, <3>5
      <3>8. new.kind = "assign" /\ new.pc = "ranked" /\ ~new.reason =>
               new.routing.from = None /\ new.routing.to.covered
        BY <2>2, <3>1, <3>5
      <3> QED
        BY <3>4, <3>6, <3>7, <3>8
    <2> QED  BY <2>1, <2>2
  <1>step. ASSUME NEW p \in Pages, request[p] # None, NEW r, request' = [request EXCEPT ![p] = r],
                  UNCHANGED <<row, shown>>,
                  r = None \/ r.kind # "assign" \/ r = [request[p] EXCEPT !.pc = "refreshing"]
           PROVE  AssignmentsAreAsFound'
    <2>1. ASSUME r = [request[p] EXCEPT !.pc = "refreshing"]
          PROVE  /\ r.kind = request[p].kind /\ r.technician = request[p].technician
                 /\ r.reason = request[p].reason /\ r.pc = "refreshing"
      BY <2>1, <1>step, <1>typed, StepTyped
    <2>2. Found(p)'
      BY <1>step, <2>1 DEF AssignmentsAreAsFound, TypeOK
    <2>3. ASSUME NEW q \in Pages, q # p  PROVE Found(q)'
      BY <1>step, <2>3, <1>0 DEF TypeOK
    <2> QED  BY <2>2, <2>3 DEF AssignmentsAreAsFound
  <1>write. ASSUME NEW p \in Pages, NEW j \in Jobs, NEW new, request[p] # None, RowIsWritten(p, j, new)
            PROVE  AssignmentsAreAsFound'
    <2>1. \A i \in Jobs \ {j} : row'[i].assignee = row[i].assignee
      BY <1>write DEF RowIsWritten, TypeOK
    <2>2. ASSUME NEW q \in Pages, q # p  PROVE Found(q)'
      <3>1. request'[q] = Aged(request[q], {j}) /\ AgeDetails({j})
        BY <1>write, <2>2 DEF RowIsWritten, AgedRequests
      <3> QED  BY <2>1, <3>1, <1>aged
    <2>3. Found(p)'
      <3>1. request'[p] = [request[p] EXCEPT !.pc = "refreshing"]
        BY <1>write DEF RowIsWritten, AgedRequests
      <3>2. /\ request'[p].kind = request[p].kind /\ request'[p].technician = request[p].technician
            /\ request'[p].reason = request[p].reason /\ request'[p].pc = "refreshing"
        BY <3>1, <1>write, <1>typed, StepTyped
      <3>3. shown'[p].recommended = shown[p].recommended
        <4>1. shown[p] # None
          BY <1>write DEF PanelIsSelected
        <4> QED  BY <4>1, <1>typed, <1>write DEF RowIsWritten, AgeDetails, Aged, Details
      <3> QED
        BY <1>write, <3>2, <3>3 DEF AssignmentsAreAsFound
    <2> QED  BY <2>2, <2>3 DEF AssignmentsAreAsFound
  <1>1. ASSUME SettingsOnly  PROVE AssignmentsAreAsFound'
    BY <1>1, <1>aged DEF SettingsOnly, Disturb, AgedRequests, AssignmentsAreAsFound
  <1>2. ASSUME NEW j \in Jobs, OthersWrite(j)  PROVE AssignmentsAreAsFound'
    <2>1. PICK new \in Rows, J \in SUBSET Jobs :
             RowChanges(j, new, J) /\ (j \notin J => new.assignee = row[j].assignee)
      BY <1>2, OthersWriteRows
    <2>2. \A i \in Jobs \ J : row'[i].assignee = row[i].assignee
      BY <2>1 DEF RowChanges, TypeOK
    <2> QED  BY <2>1, <2>2, <1>aged DEF RowChanges, Disturb, AgedRequests, AssignmentsAreAsFound
  <1>3. ASSUME NEW j \in Jobs, FiveMinutesPass(j)  PROVE AssignmentsAreAsFound'
    BY <1>3, <1>0 DEF FiveMinutesPass, AssignmentsAreAsFound
  <1>4. ASSUME NEW p \in Pages, NEW d \in loading[p], LoadFails(p, d) \/ Loaded(p, d)
        PROVE  AssignmentsAreAsFound'
    <2>1. request[p] = None
      BY DEF PanelIsSelected
    <2> QED  BY <1>4, <2>1 DEF LoadFails, Loaded, AssignmentsAreAsFound, TypeOK
  <1>5. ASSUME NEW p \in Pages, NEW j \in Jobs, Select(p, j)  PROVE AssignmentsAreAsFound'
    BY <1>5, <1>0 DEF Select, AssignmentsAreAsFound
  <1>6. ASSUME NEW p \in Pages, NEW kind, kind # "assign", Click(p, kind)
        PROVE  AssignmentsAreAsFound'
    BY <1>6 DEF Click, Begin, AssignmentsAreAsFound, TypeOK
  <1>7. ASSUME NEW p \in Pages, NEW t, NEW reason, ClickAssign(p, t, reason)
        PROVE  AssignmentsAreAsFound'
    BY <1>7 DEF ClickAssign, Begin, NeedsReason, AssignmentsAreAsFound, TypeOK
  <1>8. ASSUME NEW p \in Pages, AssignRoutes(p)  PROVE AssignmentsAreAsFound'
    <2> DEFINE r == request[p]
               new == [r EXCEPT !.pc = "routed",
                         !.routing = [to |-> Rout(r.job), gate |-> Gate(Job(r.job)),
                                      from |-> row[r.job].assignee]]
    <2>1. \/ Refused(p) \/ Succeeds(p)
          \/ Gate(Job(r.job)) # "LOCKED" /\ Step(p, new)
      BY <1>8 DEF AssignRoutes
    <2>2. ASSUME Gate(Job(r.job)) # "LOCKED", Step(p, new)  PROVE AssignmentsAreAsFound'
      <3>1. /\ new.kind = r.kind /\ new.technician = r.technician /\ new.reason = r.reason
            /\ new.job = r.job /\ new.pc = "routed"
            /\ new.routing.gate # "LOCKED" /\ new.routing.from = row[r.job].assignee
        BY <1>8, <2>2, <1>typed DEF AssignRoutes, At, Requests
      <3> HIDE DEF new
      <3>2. Found(p)'
        BY <1>8, <2>2, <3>1 DEF AssignRoutes, At, Step, AssignmentsAreAsFound, TypeOK
      <3>3. ASSUME NEW q \in Pages, q # p  PROVE Found(q)'
        BY <2>2, <3>3, <1>0 DEF Step, TypeOK
      <3> QED  BY <3>2, <3>3 DEF AssignmentsAreAsFound
    <2> QED
      BY <1>8, <2>1, <2>2, <1>step DEF AssignRoutes, At, Refused, Succeeds, Step
  <1>9. ASSUME NEW p \in Pages, AssignRanks(p)  PROVE AssignmentsAreAsFound'
    <2> DEFINE r == request[p]
               new == [r EXCEPT !.pc = "ranked"]
    <2>1. \/ Refused(p)
          \/ /\ ~r.reason => r.routing.from = None /\ r.routing.to.covered
             /\ Step(p, new)
      BY <1>9 DEF AssignRanks, Eligible
    <2>2. ASSUME ~r.reason => r.routing.from = None /\ r.routing.to.covered, Step(p, new)
          PROVE  AssignmentsAreAsFound'
      <3>1. /\ new.kind = r.kind /\ new.technician = r.technician /\ new.reason = r.reason
            /\ new.job = r.job /\ new.pc = "ranked" /\ new.routing = r.routing
            /\ new.fresh = r.fresh
        BY <1>9, <1>typed, StepTyped DEF AssignRanks, At
      <3> HIDE DEF new
      <3>2. Found(p)'
        BY <1>9, <2>2, <3>1 DEF AssignRanks, At, Step, AssignmentsAreAsFound, TypeOK
      <3>3. ASSUME NEW q \in Pages, q # p  PROVE Found(q)'
        BY <2>2, <3>3, <1>0 DEF Step, TypeOK
      <3> QED  BY <3>2, <3>3 DEF AssignmentsAreAsFound
    <2> QED
      BY <1>9, <2>1, <2>2, <1>step DEF AssignRanks, At, Refused, Step
  <1>10. ASSUME NEW p \in Pages, AssignWrites(p) \/ CancelWrites(p)  PROVE AssignmentsAreAsFound'
    BY <1>10, <1>step, <1>write, <1>job
    DEF AssignWrites, CancelWrites, At, Step, Refused, Succeeds
  <1>11. ASSUME NEW p \in Pages, LinkIssued(p) \/ Evaluated(p)  PROVE AssignmentsAreAsFound'
    BY <1>11, <1>step DEF LinkIssued, Evaluated, At, Step, Succeeds
  <1>12. ASSUME NEW p \in Pages, EscalateReads(p) \/ Notifies(p) \/ EscalateRecords(p)
         PROVE  AssignmentsAreAsFound'
    <2>1. /\ request[p] # None /\ request[p].kind = "escalate" /\ UNCHANGED <<row, shown>>
          /\ \/ request' = [request EXCEPT ![p] = None]
             \/ \E pc \in {"notifying", "auditing", "refreshing"} :
                   request' = [request EXCEPT ![p] = [request[p] EXCEPT !.pc = pc]]
      BY <1>12 DEF EscalateReads, Notifies, EscalateRecords, At, Step, Succeeds
    <2>2. \A pc \in {"notifying", "auditing", "refreshing"} :
             [request[p] EXCEPT !.pc = pc].kind = request[p].kind
      BY <2>1, <1>typed, StepTyped
    <2> QED  BY <2>1, <2>2, <1>step
  <1>13. ASSUME NEW p \in Pages, Refreshed(p)  PROVE AssignmentsAreAsFound'
    <2>1. ASSUME NEW q \in Pages  PROVE Found(q)'
      BY <1>13, <1>0 DEF Refreshed, TypeOK
    <2> QED  BY <2>1 DEF AssignmentsAreAsFound
  <1>14. CASE UNCHANGED vars
    BY <1>14, <1>0 DEF vars, AssignmentsAreAsFound
  <1> QED
    BY <1>1, <1>2, <1>3, <1>4, <1>5, <1>6, <1>7, <1>8, <1>9, <1>10, <1>11, <1>12, <1>13, <1>14
    DEF Next, Others, Server, Dispatcher, SaveRule, SaveServiceArea, ConfigureTechnician

LEMMA AssignmentsInvariant ==
  ASSUME Patient
  PROVE  Spec => [](TypeOK /\ PanelIsSelected /\ AssignmentsAreAsFound)
  <1>1. Init => AssignmentsAreAsFound
    BY DEF Init, AssignmentsAreAsFound
  <1>2. TypeOK /\ PanelIsSelected /\ AssignmentsAreAsFound /\ [Next]_vars => AssignmentsAreAsFound'
    BY AssignmentsStep
  <1> QED  BY <1>1, <1>2, PanelInvariant, PTL DEF Spec

(* What others do, the row's writers included, only ages a request. *)
LEMMA OthersKeepRequests ==
  ASSUME TypeOK, [Next]_vars, NEW p \in Pages, request[p] # None
  PROVE  \/ Server(p)
         \/ request'[p] = request[p] \/ \E J : request'[p] = Aged(request[p], J)
  <1> USE DEF settings, page, audits
  <1> DEFINE Kept == request'[p] = request[p] \/ \E J : request'[p] = Aged(request[p], J)
  <1>2. ASSUME NEW q \in Pages, NEW r, request' = [request EXCEPT ![q] = r], q # p  PROVE Kept
    BY <1>2 DEF TypeOK
  <1>3. ASSUME NEW q \in Pages, NEW j, NEW new, RowIsWritten(q, j, new), q # p  PROVE Kept
    BY <1>3 DEF RowIsWritten, AgedRequests
  <1>4. ASSUME NEW J, Disturb(J)  PROVE Kept
    BY <1>4 DEF Disturb, AgedRequests
  <1>5. ASSUME Others  PROVE Kept
    <2>1. ASSUME NEW j \in Jobs, OthersWrite(j)  PROVE Kept
      BY <2>1, <1>4, OthersWriteRows DEF RowChanges
    <2>2. ASSUME SettingsOnly  PROVE Kept
      BY <2>2, <1>4 DEF SettingsOnly
    <2> QED
      BY <1>5, <2>1, <2>2
      DEF Others, SaveRule, SaveServiceArea, ConfigureTechnician, FiveMinutesPass, LoadFails
  <1>6. ASSUME NEW q \in Pages, Dispatcher(q)  PROVE Kept
    BY <1>6, <1>2 DEF Dispatcher, Select, ClickAssign, Click, Begin
  <1>7. ASSUME NEW q \in Pages, q # p, Server(q)  PROVE Kept
    <2>1. ASSUME NEW r, Step(q, r)  PROVE Kept
      BY <2>1, <1>7, <1>2 DEF Step
    <2>2. ASSUME AssignRoutes(q) \/ AssignRanks(q) \/ Evaluated(q) \/ EscalateReads(q)
          PROVE  Kept
      <3>1. \E r : Step(q, r)
        BY <2>2 DEF AssignRoutes, AssignRanks, Evaluated, EscalateReads, Refused, Succeeds
      <3> QED  BY <3>1, <2>1
    <2>3. ASSUME AssignWrites(q) \/ CancelWrites(q)  PROVE Kept
      <3>1. (\E r : Step(q, r)) \/ \E j, new : RowIsWritten(q, j, new)
        BY <2>3 DEF AssignWrites, CancelWrites, Refused, Succeeds
      <3> QED  BY <3>1, <2>1, <1>3, <1>7
    <2>4. ASSUME LinkIssued(q) \/ Notifies(q) \/ EscalateRecords(q) \/ Refreshed(q)  PROVE Kept
      BY <2>4, <1>7, <1>2 DEF LinkIssued, Notifies, EscalateRecords, Refreshed
    <2> QED
      BY <1>7, <2>2, <2>3, <2>4 DEF Server, Loaded
  <1> QED
    BY <1>5, <1>6, <1>7 DEF Next, vars

(* Only its own writing makes a ranked assignment a success. *)
LEMMA OnlyItsWriteSucceeds ==
  ASSUME TypeOK, [Next]_vars, NEW p \in Pages, At(p, "assign", "ranked"),
         request'[p] # None, request'[p].pc = "refreshing"
  PROVE  AssignWrites(p) /\ request[p].fresh
  <1>typed. request[p] \in Requests
    BY DEF TypeOK, At
  <1>1. \A J : Aged(request[p], J).pc = request[p].pc
    BY <1>typed, AgedFields, Zenon
  <1>2. request[p] # None /\ Server(p) /\ request'[p] # request[p]
    BY <1>1, OthersKeepRequests DEF At
  <1>3. ~AssignRanks(p)
    <2>1. [request[p] EXCEPT !.pc = "ranked"].pc = "ranked"
      BY <1>typed, StepTyped
    <2> QED
      BY <2>1 DEF AssignRanks, At, Step, Refused, TypeOK
  <1>4. AssignWrites(p)
    BY <1>2, <1>3
    DEF Server, At, Loaded, AssignRoutes, CancelWrites, LinkIssued, Evaluated, EscalateReads,
        Notifies, EscalateRecords, Refreshed
  <1> QED
    BY <1>4 DEF AssignWrites, Refused, Step, TypeOK

(* A dispatcher who waits assigns without a reason only the job shown, to  *)
(* the technician shown as recommended, when nobody had it; the server     *)
(* found its address covered and its payment gate open.                    *)
THEOREM SilentAssignments ==
  ASSUME Patient
  PROVE  Spec => SilentAssignmentsAreSound
  <1> DEFINE Inv == TypeOK /\ PanelIsSelected /\ AssignmentsAreAsFound
             Sound(p) ==
               /\ At(p, "assign", "ranked") /\ ~request[p].reason
               /\ request'[p] # None /\ request'[p].pc = "refreshing"
               => /\ shown[p].job = request[p].job
                  /\ shown[p].recommended = request[p].technician
                  /\ row[request[p].job].assignee = None
                  /\ row'[request[p].job].assignee = request[p].technician
                  /\ request[p].routing.to.covered /\ request[p].routing.gate # "LOCKED"
  <1>1. Inv /\ [Next]_vars => [\A p \in Pages : Sound(p)]_vars
    <2> SUFFICES ASSUME Inv, [Next]_vars, NEW p \in Pages,
                        At(p, "assign", "ranked"), ~request[p].reason,
                        request'[p] # None, request'[p].pc = "refreshing"
                 PROVE  /\ shown[p].job = request[p].job
                        /\ shown[p].recommended = request[p].technician
                        /\ row[request[p].job].assignee = None
                        /\ row'[request[p].job].assignee = request[p].technician
                        /\ request[p].routing.to.covered /\ request[p].routing.gate # "LOCKED"
      OBVIOUS
    <2>1. AssignWrites(p) /\ request[p].fresh
      BY OnlyItsWriteSucceeds
    <2>2. shown[p].job = request[p].job
      BY DEF At, PanelIsSelected
    <2>3. /\ shown[p].recommended = request[p].technician
          /\ row[request[p].job].assignee = None
          /\ request[p].routing.to.covered /\ request[p].routing.gate # "LOCKED"
      BY <2>1 DEF At, AssignmentsAreAsFound
    <2>4. row'[request[p].job].assignee = request[p].technician
      <3>1. request[p].job \in Jobs
        BY DEF At, TypeOK, Requests
      <3> QED
        BY <2>1, <3>1 DEF AssignWrites, RowIsWritten, TypeOK, Rows
    <2> QED  BY <2>2, <2>3, <2>4
  <1>2. Spec => []Inv
    BY AssignmentsInvariant
  <1> QED  BY <1>1, <1>2, PTL DEF Spec, SilentAssignmentsAreSound

-----------------------------------------------------------------------------
(* What was read while nothing changed.                                    *)

LEMMA AnswersKept ==
  ASSUME UNCHANGED <<settings, row>>, NEW j
  PROVE  /\ Detail(j)' = Detail(j) /\ Rout(j)' = Rout(j)
         /\ Gate(Job(j))' = Gate(Job(j))
  BY DEF settings, Detail, Rout, Best, Loads, Job

LEMMA CalmStep ==
  ASSUME TypeOK, CalmIsCurrent, [Next]_vars
  PROVE  CalmIsCurrent'
  <1> USE DEF page, audits
  <1> DEFINE Judged(r) ==
               r # None /\ r.kind = "assign" /\ r.calm /\ r.pc # "refreshing" =>
                 /\ r.fresh
                 /\ Detail(r.job).gate # "LOCKED"
                 /\ NeedsReason(Detail(r.job), r.technician) => r.reason
                 /\ r.pc \in {"routed", "ranked"} =>
                      /\ r.routing = [to |-> Rout(r.job), gate |-> Gate(Job(r.job)),
                                      from |-> row[r.job].assignee]
                      /\ row[r.job].assignee # r.technician
             Calm(d) == d.calm => d = Detail(d.job)
  <1>inv. \A p \in Pages : /\ shown[p] # None => Calm(shown[p])
                           /\ (\A d \in loading[p] : Calm(d)) /\ Judged(request[p])
    BY DEF CalmIsCurrent
  <1>typed. /\ \A p \in Pages : request[p] \in Requests \cup {None}
            /\ \A p \in Pages : shown[p] \in Details \cup {None}
            /\ \A p \in Pages : \A d \in loading[p] : d \in Details /\ d # None
    BY DispatchAssumption DEF TypeOK
  <1>aged. ASSUME NEW J, AgeDetails(J),
                  \A p \in Pages : \/ request'[p] = Aged(request[p], J)
                                   \/ request'[p].pc = "refreshing"
           PROVE  CalmIsCurrent'
    <2>0. \A x \in Details : Aged(x, J) = None \/ ~Aged(x, J).calm
      BY AgedTyped, DispatchAssumption
    <2>r. ASSUME NEW x \in Requests  PROVE Aged(x, J) = None \/ ~Aged(x, J).calm
      <3>1. Aged(x, J).calm = FALSE
        BY AgedFields, Zenon
      <3> QED  BY <3>1
    <2>1. \A x \in Details \cup Requests \cup {None} : Aged(x, J) = None \/ ~Aged(x, J).calm
      BY <2>0, <2>r, AgedNone
    <2>2. \A p \in Pages : shown'[p] = None \/ ~shown'[p].calm
      BY <2>1, <1>aged, <1>typed DEF AgeDetails
    <2>3. \A p \in Pages : \A d \in loading'[p] : d = None \/ ~d.calm
      BY <2>1, <1>aged, <1>typed DEF AgeDetails
    <2>4. ASSUME NEW p \in Pages
          PROVE  request'[p] = None \/ ~request'[p].calm \/ request'[p].pc = "refreshing"
      BY <2>1, <1>typed, <1>aged
    <2>5. \A p \in Pages : \A d \in loading'[p] : d # None
      <3> SUFFICES ASSUME NEW p \in Pages, NEW d \in loading[p]  PROVE Aged(d, J) # None
        BY <1>aged DEF AgeDetails
      <3>1. d \in Details /\ d # None
        BY <1>typed
      <3> QED  BY <3>1, AgedTyped, Zenon
    <2> QED  BY <2>2, <2>3, <2>4, <2>5 DEF CalmIsCurrent
  <1>keep. ASSUME UNCHANGED <<settings, row>>
           PROVE  \A x : /\ Detail(x)' = Detail(x) /\ Rout(x)' = Rout(x)
                         /\ Gate(Job(x))' = Gate(Job(x))
    BY <1>keep, AnswersKept
  <1>kept. ASSUME UNCHANGED <<settings, row>>,
                  \A p \in Pages : (shown'[p] # None => Calm(shown'[p])) /\ Judged(request'[p]),
                  \A p \in Pages : \A d \in loading'[p] : Calm(d)
           PROVE  CalmIsCurrent'
    <2> SUFFICES ASSUME NEW p \in Pages
                 PROVE  /\ shown'[p] # None => Calm(shown[p])'
                        /\ \A d \in loading'[p] : Calm(d)'
                        /\ Judged(request[p])'
      BY DEF CalmIsCurrent
    <2>1. shown'[p] # None => Calm(shown[p])'
      BY <1>kept, <1>keep
    <2>2. \A d \in loading'[p] : Calm(d)'
      BY <1>kept, <1>keep
    <2>3. Judged(request[p])'
      <3>1. \A x, t : NeedsReason(Detail(x), t)' <=> NeedsReason(Detail(x), t)
        BY <1>kept, <1>keep DEF NeedsReason
      <3> QED  BY <1>kept, <1>keep, <3>1
    <2> QED  BY <2>1, <2>2, <2>3
  <1>detail. ASSUME NEW j  PROVE Calm(Detail(j))
    BY DEF Detail
  <1>request. ASSUME NEW p \in Pages, NEW r, Judged(r), request' = [request EXCEPT ![p] = r]
              PROVE  \A q \in Pages : Judged(request'[q])
    BY <1>request, <1>inv DEF TypeOK
  <1>step. ASSUME NEW p \in Pages, NEW r, Judged(r), request' = [request EXCEPT ![p] = r],
                  UNCHANGED <<settings, row, shown, loading>>
           PROVE  CalmIsCurrent'
    <2> HIDE DEF Judged, Calm
    <2> QED  BY <1>step, <1>request, <1>kept, <1>inv
  <1>1. ASSUME SettingsOnly  PROVE CalmIsCurrent'
    BY <1>1, <1>aged DEF SettingsOnly, Disturb, AgedRequests
  <1>2. ASSUME NEW j \in Jobs, OthersWrite(j)  PROVE CalmIsCurrent'
    BY <1>2, OthersWriteRows, <1>aged DEF RowChanges, Disturb, AgedRequests
  <1>3. ASSUME NEW j \in Jobs, FiveMinutesPass(j)  PROVE CalmIsCurrent'
    <2> HIDE DEF Judged, Calm
    <2> QED  BY <1>3, <1>kept, <1>inv DEF FiveMinutesPass
  <1>4. ASSUME NEW p \in Pages, NEW d \in loading[p], LoadFails(p, d) \/ Loaded(p, d)
        PROVE  CalmIsCurrent'
    <2> HIDE DEF Judged, Calm
    <2> QED  BY <1>4, <1>kept, <1>inv DEF LoadFails, Loaded, TypeOK
  <1>5. ASSUME NEW p \in Pages, NEW j \in Jobs, Select(p, j)  PROVE CalmIsCurrent'
    <2> HIDE DEF Judged, Calm
    <2> QED  BY <1>5, <1>kept, <1>inv, <1>detail DEF Select, TypeOK
  <1>6. ASSUME NEW p \in Pages, Refreshed(p)  PROVE CalmIsCurrent'
    <2>1. Judged(None)
      OBVIOUS
    <2> HIDE DEF Judged, Calm
    <2>2. \A q \in Pages : Judged(request'[q])
      BY <1>6, <2>1, <1>request DEF Refreshed
    <2>3. \A q \in Pages : shown'[q] # None => Calm(shown'[q])
      BY <1>6, <1>inv, <1>detail DEF Refreshed, TypeOK
    <2> QED  BY <1>6, <2>2, <2>3, <1>kept, <1>inv DEF Refreshed
  <1>7. ASSUME NEW p \in Pages, NEW kind, kind # "assign", Click(p, kind)
        PROVE  CalmIsCurrent'
    <2>1. PICK r : Judged(r) /\ request' = [request EXCEPT ![p] = r]
      BY <1>7 DEF Click, Begin
    <2> QED  BY <1>7, <2>1, <1>step DEF Click, Begin
  <1>8. ASSUME NEW p \in Pages, NEW t, NEW reason, ClickAssign(p, t, reason)
        PROVE  CalmIsCurrent'
    <2> DEFINE r == [kind |-> "assign", pc |-> "sent", job |-> shown[p].job,
                     technician |-> t, reason |-> reason, routing |-> None,
                     selected |-> selected[p], fresh |-> shown[p].fresh, calm |-> shown[p].calm]
    <2>1. r.calm => /\ r.fresh /\ Detail(r.job).gate # "LOCKED"
                    /\ NeedsReason(Detail(r.job), r.technician) => r.reason
      <3>1. shown[p] # None /\ (shown[p].calm => shown[p] = Detail(shown[p].job))
        BY <1>8, <1>inv DEF ClickAssign
      <3>2. \A j : Detail(j).fresh
        BY DEF Detail
      <3> QED  BY <1>8, <3>1, <3>2 DEF ClickAssign
    <2>2. Judged(r)
      BY <2>1
    <2> HIDE DEF r, Judged, Calm
    <2> QED  BY <1>8, <2>2, <1>step DEF ClickAssign, Begin, r
  <1>9. ASSUME NEW p \in Pages, NEW j, NEW new, RowIsWritten(p, j, new), request[p] # None
        PROVE  CalmIsCurrent'
    <2>1. [request[p] EXCEPT !.pc = "refreshing"].pc = "refreshing"
      BY <1>9, <1>typed, StepTyped
    <2> HIDE DEF Judged, Calm
    <2> QED  BY <1>9, <2>1, <1>aged DEF RowIsWritten, AgedRequests
  <1>10. ASSUME NEW p \in Pages, request[p] # None, Refused(p) \/ Succeeds(p)
         PROVE  CalmIsCurrent'
    <2>1. Judged(None) /\ Judged([request[p] EXCEPT !.pc = "refreshing"])
      BY <1>10, <1>typed, StepTyped
    <2> HIDE DEF Judged, Calm
    <2> QED  BY <1>10, <2>1, <1>step DEF Refused, Succeeds, Step
  <1>11. ASSUME NEW p \in Pages, AssignRoutes(p)  PROVE CalmIsCurrent'
    <2> DEFINE r == request[p]
               new == [r EXCEPT !.pc = "routed",
                         !.routing = [to |-> Rout(r.job), gate |-> Gate(Job(r.job)),
                                      from |-> row[r.job].assignee]]
    <2>1. \/ Refused(p) \/ Succeeds(p)
          \/ row[r.job].assignee # r.technician /\ Step(p, new)
      BY <1>11 DEF AssignRoutes
    <2>2. ASSUME row[r.job].assignee # r.technician, Step(p, new)  PROVE CalmIsCurrent'
      <3>1. r \in Requests /\ r.kind = "assign" /\ r.pc = "sent"
        BY <1>11, <1>typed DEF AssignRoutes, At
      <3>2. /\ new.technician = r.technician /\ new.reason = r.reason /\ new.job = r.job
            /\ new.calm = r.calm /\ new.fresh = r.fresh
            /\ new.routing = [to |-> Rout(r.job), gate |-> Gate(Job(r.job)),
                              from |-> row[r.job].assignee]
        BY <3>1 DEF Requests
      <3> HIDE DEF new
      <3>3. Judged(new)
        BY <3>1, <3>2, <2>2, <1>inv, DispatchAssumption
      <3> HIDE DEF Judged, Calm
      <3> QED  BY <2>2, <3>3, <1>step DEF Step
    <2> QED
      BY <1>11, <2>1, <2>2, <1>10 DEF AssignRoutes, At
  <1>12. ASSUME NEW p \in Pages, AssignRanks(p)  PROVE CalmIsCurrent'
    <2> DEFINE r == request[p]
               new == [r EXCEPT !.pc = "ranked"]
    <2>1. Refused(p) \/ Step(p, new)
      BY <1>12 DEF AssignRanks
    <2>2. ASSUME Step(p, new)  PROVE CalmIsCurrent'
      <3>1. r \in Requests /\ r.kind = "assign" /\ r.pc = "routed"
        BY <1>12, <1>typed DEF AssignRanks, At
      <3>2. /\ new.technician = r.technician /\ new.reason = r.reason /\ new.job = r.job
            /\ new.calm = r.calm /\ new.fresh = r.fresh /\ new.routing = r.routing
        BY <3>1, StepTyped
      <3> HIDE DEF new
      <3>3. Judged(new)
        BY <3>1, <3>2, <1>inv, DispatchAssumption
      <3> HIDE DEF Judged, Calm
      <3> QED  BY <2>2, <3>3, <1>step DEF Step
    <2> QED
      BY <1>12, <2>1, <2>2, <1>10 DEF AssignRanks, At
  <1>13. ASSUME NEW p \in Pages, AssignWrites(p) \/ CancelWrites(p)  PROVE CalmIsCurrent'
    <2> HIDE DEF Judged, Calm
    <2> QED  BY <1>13, <1>9, <1>10 DEF AssignWrites, CancelWrites, At
  <1>14. ASSUME NEW p \in Pages, Evaluated(p)  PROVE CalmIsCurrent'
    BY <1>14, <1>10 DEF Evaluated, At
  <1>15. ASSUME NEW p \in Pages,
                LinkIssued(p) \/ EscalateReads(p) \/ Notifies(p) \/ EscalateRecords(p)
         PROVE  CalmIsCurrent'
    <2>1. /\ request[p] # None /\ request[p].kind # "assign"
          /\ UNCHANGED <<settings, row, shown, loading>>
          /\ \/ request' = [request EXCEPT ![p] = None]
             \/ \E pc \in {"notifying", "auditing", "refreshing"} :
                   request' = [request EXCEPT ![p] = [request[p] EXCEPT !.pc = pc]]
      BY <1>15 DEF LinkIssued, EscalateReads, Notifies, EscalateRecords, At, Step, Succeeds
    <2>2. \A pc \in {"notifying", "auditing", "refreshing"} :
             Judged([request[p] EXCEPT !.pc = pc])
      BY <2>1, <1>typed, StepTyped
    <2>3. Judged(None)
      OBVIOUS
    <2> HIDE DEF Judged, Calm
    <2> QED  BY <2>1, <2>2, <2>3, <1>step
  <1>16. CASE UNCHANGED vars
    <2> HIDE DEF Judged, Calm
    <2> QED  BY <1>16, <1>kept, <1>inv DEF vars
  <1> HIDE DEF Judged, Calm
  <1> QED
    BY <1>1, <1>2, <1>3, <1>4, <1>5, <1>6, <1>7, <1>8, <1>11, <1>12, <1>13, <1>14, <1>15, <1>16
    DEF Next, Others, Server, Dispatcher, SaveRule, SaveServiceArea, ConfigureTechnician

LEMMA CalmInvariant == Spec => [](TypeOK /\ CalmIsCurrent)
  <1>1. Init => TypeOK /\ CalmIsCurrent
    <2>1. Init => TypeOK
      BY DispatchAssumption DEF Init, TypeOK, Rows, Nobody
    <2> QED  BY <2>1 DEF Init, CalmIsCurrent
  <1>2. TypeOK /\ CalmIsCurrent /\ [Next]_vars => (TypeOK /\ CalmIsCurrent)'
    BY TypeStep, CalmStep
  <1> QED  BY <1>1, <1>2, PTL DEF Spec

(* Why an assignment is given up. *)
LEMMA OnlyRefusalsEnd ==
  ASSUME TypeOK, [Next]_vars, NEW p \in Pages, request[p] # None, request[p].kind = "assign",
         request[p].pc # "refreshing", request'[p] = None
  PROVE  LET r == request[p] IN
           \/ row[r.job].status \in {"COMPLETED", "CANCELLED"} \/ Gate(Job(r.job)) = "LOCKED"
           \/ /\ r.pc = "routed" /\ ~r.reason
              /\ \/ r.routing.from # None
                 \/ ~Eligible(techs[r.technician], Job(r.job), r.routing.to, r.routing.gate, Now)
                 \/ Best(r.job, r.routing.to, r.routing.gate) # r.technician
           \/ ~r.fresh
  <1>typed. request[p] \in Requests
    BY DEF TypeOK
  <1>1. \A J : Aged(request[p], J) # None
    BY <1>typed, AgedFields, Zenon
  <1>2. Server(p) /\ request'[p] # request[p]
    BY <1>1, OthersKeepRequests
  <1>3. AssignRoutes(p) \/ AssignRanks(p) \/ AssignWrites(p)
    BY <1>2
    DEF Server, At, Loaded, CancelWrites, LinkIssued, Evaluated, EscalateReads,
        Notifies, EscalateRecords, Refreshed
  <1>4. /\ ~Step(p, [request[p] EXCEPT !.pc = "ranked"])
        /\ ~Step(p, [request[p] EXCEPT !.pc = "refreshing"])
    <2>1. [request[p] EXCEPT !.pc = "ranked"] # None
      BY <1>typed, StepTyped
    <2>2. [request[p] EXCEPT !.pc = "refreshing"] # None
      BY <1>typed, StepTyped
    <2> QED  BY <2>1, <2>2 DEF Step, TypeOK
  <1>5. ~Step(p, [request[p] EXCEPT
                    !.pc = "routed",
                    !.routing = [to |-> Rout(request[p].job), gate |-> Gate(Job(request[p].job)),
                                 from |-> row[request[p].job].assignee]])
    <2>1. request[p].job \in Jobs
      BY <1>typed DEF Requests
    <2>2. [request[p] EXCEPT
             !.pc = "routed",
             !.routing = [to |-> Rout(request[p].job), gate |-> Gate(Job(request[p].job)),
                          from |-> row[request[p].job].assignee]] \in Requests
      BY <1>typed, <2>1, RoutingTyped DEF Requests
    <2> QED  BY <2>2, DispatchAssumption DEF Step, TypeOK
  <1>6. \A j, new : ~RowIsWritten(p, j, new)
    <2>1. [request[p] EXCEPT !.pc = "refreshing"] # None
      BY <1>typed, StepTyped
    <2> QED  BY <2>1 DEF RowIsWritten, AgedRequests
  <1> QED
    BY <1>3, <1>4, <1>5, <1>6 DEF AssignRoutes, AssignRanks, AssignWrites, Succeeds, At

(* What the page lets a dispatcher send about an open job, the server does *)
(* not refuse unless something changed after the detail was read; for any  *)
(* rules, areas and technicians, whoever else is at work.                  *)
THEOREM TheBoardKeepsItsWord == Spec => BoardKeepsItsWord
  <1> DEFINE Inv == TypeOK /\ CalmIsCurrent
             Kept(p) ==
               /\ request[p] # None /\ request[p].kind = "assign" /\ request[p].pc # "refreshing"
               /\ request'[p] = None
               => ~request[p].calm \/ row[request[p].job].status = "COMPLETED"
  <1>1. Inv /\ [Next]_vars => [\A p \in Pages : Kept(p)]_vars
    <2> SUFFICES ASSUME Inv, [Next]_vars, NEW p \in Pages,
                        request[p] # None, request[p].kind = "assign",
                        request[p].pc # "refreshing", request'[p] = None,
                        request[p].calm, row[request[p].job].status # "COMPLETED"
                 PROVE  FALSE
      OBVIOUS
    <2> DEFINE r == request[p]
               d == Detail(r.job)
    <2>1. \/ row[r.job].status = "CANCELLED" \/ Gate(Job(r.job)) = "LOCKED"
          \/ /\ r.pc = "routed" /\ ~r.reason
             /\ \/ r.routing.from # None
                \/ ~Eligible(techs[r.technician], Job(r.job), r.routing.to, r.routing.gate, Now)
                \/ Best(r.job, r.routing.to, r.routing.gate) # r.technician
          \/ ~r.fresh
      BY OnlyRefusalsEnd
    <2>2. row[r.job].status # "CANCELLED"
      BY DEF TypeOK, Requests, Rows
    <2>3. /\ r.fresh /\ d.gate # "LOCKED"
          /\ NeedsReason(d, r.technician) => r.reason
          /\ r.pc = "routed" =>
               /\ r.routing = [to |-> Rout(r.job), gate |-> Gate(Job(r.job)),
                               from |-> row[r.job].assignee]
               /\ row[r.job].assignee # r.technician
      BY DEF CalmIsCurrent
    <2>4. /\ d.assignee = row[r.job].assignee /\ d.gate = Gate(Job(r.job))
          /\ d.recommended = Best(r.job, Rout(r.job), Gate(Job(r.job)))
          /\ d.eligible = {t \in Technicians :
                             Eligible(techs[t], Job(r.job), Rout(r.job), Gate(Job(r.job)), Now)}
      BY DEF Detail
    <2> HIDE DEF d
    <2>5. CASE r.pc = "routed" /\ ~r.reason
      <3>1. /\ r.technician \in d.eligible /\ r.technician = d.recommended
            /\ d.assignee \in {None, r.technician}
        BY <2>3, <2>5 DEF NeedsReason
      <3> QED
        BY <2>1, <2>2, <2>3, <2>4, <2>5, <3>1
    <2> QED  BY <2>1, <2>2, <2>3, <2>4, <2>5
  <1>2. Spec => []Inv
    BY CalmInvariant
  <1> QED  BY <1>1, <1>2, PTL DEF Spec, BoardKeepsItsWord

-----------------------------------------------------------------------------
(* Escalations.                                                            *)

LEMMA EscalatingFinite ==
  ASSUME NEW j, NEW pc
  PROVE  /\ IsFiniteSet(Escalating(j, pc))
         /\ Cardinality(Escalating(j, pc)) \in Nat
         /\ Escalating(j, pc) \subseteq Pages
  <1>1. Escalating(j, pc) \subseteq Pages
    BY DEF Escalating
  <1> QED
    BY <1>1, DispatchAssumption, FS_Subset, FS_CardinalityType

(* Pages that notify and pages that audit are different pages. *)
LEMMA PagesApart ==
  ASSUME NEW N \in SUBSET Pages, NEW A \in SUBSET Pages, N \cap A = {}
  PROVE  /\ Cardinality(Pages) \in Nat /\ Cardinality(N) \in Nat /\ Cardinality(A) \in Nat
         /\ Cardinality(N) + Cardinality(A) <= Cardinality(Pages)
  <1>1. IsFiniteSet(N) /\ IsFiniteSet(A)
    BY DispatchAssumption, FS_Subset
  <1>2. Cardinality(N \cup A) <= Cardinality(Pages) /\ Cardinality(Pages) \in Nat
    <2>1. N \cup A \in SUBSET Pages
      OBVIOUS
    <2> QED  BY <2>1, DispatchAssumption, FS_Subset, FS_CardinalityType
  <1>3. Cardinality(N \cup A) = Cardinality(N) + Cardinality(A) - Cardinality(N \cap A)
    BY <1>1, FS_Union
  <1>4. Cardinality(N \cap A) = 0
    BY FS_EmptySet
  <1>5. Cardinality(N) \in Nat /\ Cardinality(A) \in Nat
    BY <1>1, FS_CardinalityType
  <1> QED  BY <1>2, <1>3, <1>4, <1>5

LEMMA NoticesStep ==
  ASSUME TypeOK, NoticesAreAudited, [Next]_vars
  PROVE  NoticesAreAudited'
  <1> USE DEF page
  <1> DEFINE Is(q, j, pc) == At(q, "escalate", pc) /\ request[q].job = j
             Stays(q) == \A j, pc : pc \in {"notifying", "auditing"} => (Is(q, j, pc)' <=> Is(q, j, pc))
  <1>typed. \A p \in Pages : request[p] \in Requests \cup {None}
    BY DEF TypeOK
  <1>kept. ASSUME UNCHANGED <<recent, notices, lost>>, \A q \in Pages : Stays(q)
           PROVE  NoticesAreAudited'
    <2>1. \A j \in Jobs : /\ Escalating(j, "notifying")' = Escalating(j, "notifying")
                          /\ Escalating(j, "auditing")' = Escalating(j, "auditing")
      BY <1>kept DEF Escalating
    <2> QED  BY <1>kept, <2>1 DEF NoticesAreAudited
  <1>same. ASSUME NEW q \in Pages, UNCHANGED request[q]  PROVE Stays(q)
    BY <1>same DEF At
  <1>aged. ASSUME NEW q \in Pages, NEW J, request'[q] = Aged(request[q], J)  PROVE Stays(q)
    <2>1. CASE request[q] = None
      BY <2>1, <1>aged, AgedNone DEF At
    <2>2. CASE request[q] # None
      <3>1. request[q] \in Requests
        BY <2>2, <1>typed
      <3>2. /\ Aged(request[q], J) # None /\ Aged(request[q], J).kind = request[q].kind
            /\ Aged(request[q], J).pc = request[q].pc /\ Aged(request[q], J).job = request[q].job
        BY <3>1, AgedFields, Zenon
      <3> QED  BY <2>2, <3>2, <1>aged DEF At
    <2> QED  BY <2>1, <2>2
  <1>idle. ASSUME NEW p \in Pages, NEW r, request'[p] = r,
                  \/ request[p] = None \/ request[p].kind # "escalate"
                  \/ request[p].pc \notin {"notifying", "auditing"},
                  r = None \/ r.kind # "escalate" \/ r.pc \notin {"notifying", "auditing"}
           PROVE  Stays(p)
    BY <1>idle DEF At
  <1>others. ASSUME NEW p \in Pages, NEW r, request' = [request EXCEPT ![p] = r], NEW q \in Pages, q # p
             PROVE  Stays(q)
    BY <1>others, <1>same DEF TypeOK
  <1>write. ASSUME NEW p \in Pages, NEW j, NEW new, RowIsWritten(p, j, new),
                   request[p] # None, request[p].kind # "escalate"
            PROVE  NoticesAreAudited'
    <2>1. [request[p] EXCEPT !.pc = "refreshing"].pc = "refreshing"
      BY <1>write, <1>typed, StepTyped
    <2>2. Stays(p)
      BY <1>write, <2>1, <1>idle DEF RowIsWritten, AgedRequests
    <2>3. \A q \in Pages \ {p} : Stays(q)
      <3> SUFFICES ASSUME NEW q \in Pages \ {p}  PROVE Stays(q)
        OBVIOUS
      <3>1. request'[q] = Aged(request[q], {j})
        BY <1>write DEF RowIsWritten, AgedRequests
      <3> HIDE DEF Stays
      <3> QED  BY <3>1, <1>aged
    <2> HIDE DEF Stays
    <2> QED  BY <2>2, <2>3, <1>kept, <1>write DEF RowIsWritten, audits
  <1>step. ASSUME NEW p \in Pages, NEW r, request' = [request EXCEPT ![p] = r],
                  UNCHANGED <<recent, notices, lost>>,
                  \/ request[p] = None \/ request[p].kind # "escalate"
                  \/ request[p].pc \notin {"notifying", "auditing"},
                  r = None \/ r.kind # "escalate" \/ r.pc \notin {"notifying", "auditing"}
           PROVE  NoticesAreAudited'
    <2>1. Stays(p)
      BY <1>step, <1>idle DEF TypeOK
    <2> HIDE DEF Stays
    <2> QED  BY <1>step, <2>1, <1>others, <1>kept
  <1>1. ASSUME NEW J, Disturb(J), UNCHANGED audits  PROVE NoticesAreAudited'
    <2>1. \A q \in Pages : request'[q] = Aged(request[q], J)
      BY <1>1 DEF Disturb, AgedRequests
    <2> HIDE DEF Stays
    <2> QED  BY <1>1, <2>1, <1>aged, <1>kept DEF audits
  <1>0. ASSUME SettingsOnly  PROVE NoticesAreAudited'
    BY <1>0, <1>1 DEF SettingsOnly
  <1>2. ASSUME NEW j \in Jobs, OthersWrite(j)  PROVE NoticesAreAudited'
    BY <1>1, <1>2, OthersWriteRows DEF RowChanges
  <1>3. ASSUME NEW j \in Jobs, FiveMinutesPass(j)  PROVE NoticesAreAudited'
    <2>1. \A i \in Jobs : /\ Escalating(i, "notifying")' = Escalating(i, "notifying")
                          /\ Escalating(i, "auditing")' = Escalating(i, "auditing")
      BY <1>3 DEF FiveMinutesPass, Escalating, At
    <2>2. Escalating(j, "notifying") = {} /\ Escalating(j, "auditing") = {}
      BY <1>3 DEF FiveMinutesPass, Escalating, At
    <2>3. Cardinality(Pages) \in Nat /\ Cardinality({}) = 0
      BY DispatchAssumption, FS_CardinalityType, FS_EmptySet
    <2>4. ASSUME NEW i \in Jobs
          PROVE  /\ i \notin recent' =>
                      notices'[i] = lost'[i] + Cardinality(Escalating(i, "auditing"))
                 /\ notices'[i] + Cardinality(Escalating(i, "notifying")) <= lost'[i] + Cardinality(Pages)
      <3>1. CASE i = j
        <4>1. notices'[i] = 0 /\ lost'[i] = 0
          BY <1>3, <3>1 DEF FiveMinutesPass, TypeOK
        <4> QED  BY <4>1, <2>2, <2>3, <3>1
      <3>2. CASE i # j
        BY <1>3, <3>2 DEF FiveMinutesPass, TypeOK, NoticesAreAudited
      <3> QED  BY <3>1, <3>2
    <2> QED  BY <2>1, <2>4 DEF NoticesAreAudited
  <1>4. ASSUME NEW p \in Pages, NEW d \in loading[p], LoadFails(p, d) \/ Loaded(p, d)
        PROVE  NoticesAreAudited'
    <2> HIDE DEF Stays
    <2> QED  BY <1>4, <1>same, <1>kept DEF LoadFails, Loaded, audits
  <1>5. ASSUME NEW p \in Pages, NEW j \in Jobs, Select(p, j)  PROVE NoticesAreAudited'
    <2> HIDE DEF Stays
    <2> QED  BY <1>5, <1>same, <1>kept DEF Select, audits
  <1>6. ASSUME NEW p \in Pages, NEW t, NEW reason, NEW kind, Begin(p, kind, t, reason)
        PROVE  NoticesAreAudited'
    <2>1. PICK r : r.pc = "sent" /\ request' = [request EXCEPT ![p] = r]
      BY <1>6 DEF Begin
    <2> QED  BY <1>6, <2>1, <1>step DEF Begin, audits
  <1>7. ASSUME NEW p \in Pages, request[p] # None, request[p].kind # "escalate",
               \E r : Step(p, r) /\ (r = None \/ r.kind # "escalate")
        PROVE  NoticesAreAudited'
    BY <1>7, <1>step DEF Step, audits
  <1>8. ASSUME NEW p \in Pages, AssignRoutes(p) \/ AssignRanks(p) \/ Evaluated(p)
        PROVE  NoticesAreAudited'
    <2>1. request[p] \in Requests /\ request[p].kind # "escalate"
      BY <1>8, <1>typed DEF AssignRoutes, AssignRanks, Evaluated, At
    <2>2. /\ [request[p] EXCEPT !.pc = "refreshing"].kind # "escalate"
          /\ [request[p] EXCEPT !.pc = "ranked"].kind # "escalate"
          /\ \A new : [request[p] EXCEPT !.pc = "routed", !.routing = new].kind # "escalate"
      BY <2>1 DEF Requests
    <2>3. \E r : Step(p, r) /\ (r = None \/ r.kind # "escalate")
      BY <1>8, <2>2 DEF AssignRoutes, AssignRanks, Evaluated, Refused, Succeeds
    <2> QED  BY <2>1, <2>3, <1>7, DispatchAssumption
  <1>9. ASSUME NEW p \in Pages, AssignWrites(p) \/ CancelWrites(p)  PROVE NoticesAreAudited'
    <2>1. request[p] # None /\ request[p] \in Requests /\ request[p].kind # "escalate"
      BY <1>9, <1>typed DEF AssignWrites, CancelWrites, At
    <2>2. [request[p] EXCEPT !.pc = "refreshing"].kind # "escalate"
      BY <2>1 DEF Requests
    <2>3. \/ \E j, new : RowIsWritten(p, j, new)
          \/ \E r : Step(p, r) /\ (r = None \/ r.kind # "escalate")
      BY <1>9, <2>2 DEF AssignWrites, CancelWrites, Refused, Succeeds
    <2> QED  BY <2>1, <2>3, <1>7, <1>write
  <1>10. ASSUME NEW p \in Pages, LinkIssued(p) \/ Refreshed(p)  PROVE NoticesAreAudited'
    BY <1>10, <1>step DEF LinkIssued, Refreshed, At, audits
  <1>11. ASSUME NEW p \in Pages, EscalateReads(p)  PROVE NoticesAreAudited'
    <2>0. PICK j \in Jobs : j = request[p].job
      BY <1>11, <1>typed DEF EscalateReads, At, Requests
    <2>1. request[p] \in Requests /\ j \in Jobs /\ request[p] # None
      BY <1>11, <2>0, <1>typed DEF EscalateReads, At, Requests
    <2>2. CASE j \in recent
      <3>1. [request[p] EXCEPT !.pc = "refreshing"].pc = "refreshing"
        BY <2>0, <2>1, StepTyped
      <3> QED  BY <1>11, <2>0, <2>2, <3>1, <1>step DEF EscalateReads, Succeeds, Step, At, audits
    <2>3. CASE j \notin recent
      <3>1. /\ request' = [request EXCEPT ![p] = [request[p] EXCEPT !.pc = "notifying"]]
            /\ UNCHANGED <<recent, notices, lost>>
        BY <1>11, <2>0, <2>3 DEF EscalateReads, Step, audits
      <3>2. /\ [request[p] EXCEPT !.pc = "notifying"].pc = "notifying"
            /\ [request[p] EXCEPT !.pc = "notifying"].kind = request[p].kind
            /\ [request[p] EXCEPT !.pc = "notifying"].job = j
            /\ [request[p] EXCEPT !.pc = "notifying"] # None
        BY <2>0, <2>1, StepTyped
      <3>3. \A q \in Pages : q # p => Stays(q)
        <4> HIDE DEF Stays
        <4> QED  BY <3>1, <1>others
      <3>4. /\ Escalating(j, "notifying")' = Escalating(j, "notifying") \cup {p}
            /\ p \notin Escalating(j, "notifying") /\ p \notin Escalating(j, "auditing")
            /\ Escalating(j, "auditing")' = Escalating(j, "auditing")
        BY <1>11, <2>0, <3>1, <3>2, <3>3 DEF EscalateReads, Escalating, At, TypeOK
      <3>5. \A i \in Jobs \ {j} : /\ Escalating(i, "notifying")' = Escalating(i, "notifying")
                                  /\ Escalating(i, "auditing")' = Escalating(i, "auditing")
        BY <1>11, <2>0, <3>1, <3>2, <3>3 DEF EscalateReads, Escalating, At, TypeOK
      <3>6. notices[j] = lost[j] + Cardinality(Escalating(j, "auditing"))
        BY <2>1, <2>3 DEF NoticesAreAudited
      <3>7. Cardinality(Escalating(j, "notifying") \cup {p}) + Cardinality(Escalating(j, "auditing"))
              <= Cardinality(Pages)
        <4>1. Escalating(j, "notifying") \cup {p} \in SUBSET Pages
          BY DEF Escalating
        <4>2. Escalating(j, "auditing") \in SUBSET Pages
          BY DEF Escalating
        <4>3. (Escalating(j, "notifying") \cup {p}) \cap Escalating(j, "auditing") = {}
          BY <3>4 DEF Escalating, At
        <4> QED  BY <4>1, <4>2, <4>3, PagesApart
      <3>8. /\ Cardinality(Escalating(j, "notifying") \cup {p}) \in Nat
            /\ Cardinality(Escalating(j, "auditing")) \in Nat /\ Cardinality(Pages) \in Nat
            /\ lost[j] \in Nat
        <4>1. IsFiniteSet(Escalating(j, "notifying") \cup {p})
          BY EscalatingFinite, FS_AddElement
        <4> QED  BY <4>1, <2>1, EscalatingFinite, DispatchAssumption, FS_CardinalityType DEF TypeOK
      <3>9. notices[j] + Cardinality(Escalating(j, "notifying") \cup {p}) <= lost[j] + Cardinality(Pages)
        BY <3>6, <3>7, <3>8
      <3>10. ASSUME NEW i \in Jobs
             PROVE  /\ i \notin recent' =>
                         notices'[i] = lost'[i] + Cardinality(Escalating(i, "auditing")')
                    /\ notices'[i] + Cardinality(Escalating(i, "notifying")') <= lost'[i] + Cardinality(Pages)
        <4>1. CASE i = j
          BY <4>1, <3>1, <3>4, <3>6, <3>9
        <4>2. CASE i # j
          BY <4>2, <3>1, <3>5 DEF NoticesAreAudited
        <4> QED  BY <4>1, <4>2
      <3> QED
        BY <3>10 DEF NoticesAreAudited
    <2> QED  BY <2>2, <2>3
  <1>12. ASSUME NEW p \in Pages, Notifies(p)  PROVE NoticesAreAudited'
    <2>0. PICK j \in Jobs : j = request[p].job
      BY <1>12, <1>typed DEF Notifies, At, Requests
    <2> DEFINE N == Escalating(j, "notifying")
               A == Escalating(j, "auditing")
    <2>1. request[p] \in Requests /\ j \in Jobs /\ request[p] # None
      BY <1>12, <2>0, <1>typed DEF Notifies, At, Requests
    <2>2. /\ request' = [request EXCEPT ![p] = [request[p] EXCEPT !.pc = "auditing"]]
          /\ notices' = [notices EXCEPT ![j] = @ + 1] /\ UNCHANGED <<recent, lost>>
      BY <1>12, <2>0 DEF Notifies
    <2>3. /\ [request[p] EXCEPT !.pc = "auditing"].pc = "auditing"
          /\ [request[p] EXCEPT !.pc = "auditing"].kind = request[p].kind
          /\ [request[p] EXCEPT !.pc = "auditing"].job = j
          /\ [request[p] EXCEPT !.pc = "auditing"] # None
      BY <2>0, <2>1, StepTyped
    <2>4. \A q \in Pages : q # p => Stays(q)
      <3> HIDE DEF Stays
      <3> QED  BY <2>2, <1>others
    <2>5. /\ Escalating(j, "notifying")' = N \ {p} /\ p \in N
          /\ Escalating(j, "auditing")' = A \cup {p} /\ p \notin A
      BY <1>12, <2>0, <2>2, <2>3, <2>4 DEF Notifies, Escalating, At, TypeOK
    <2>6. \A i \in Jobs \ {j} : /\ Escalating(i, "notifying")' = Escalating(i, "notifying")
                                /\ Escalating(i, "auditing")' = Escalating(i, "auditing")
      BY <1>12, <2>0, <2>2, <2>3, <2>4 DEF Notifies, Escalating, At, TypeOK
    <2>7. /\ Cardinality(N \ {p}) = Cardinality(N) - 1 /\ Cardinality(N) \in Nat
          /\ Cardinality(A \cup {p}) = Cardinality(A) + 1 /\ Cardinality(A) \in Nat
      BY <2>5, EscalatingFinite, FS_AddElement, FS_RemoveElement
    <2>8. /\ j \notin recent => notices[j] = lost[j] + Cardinality(A)
          /\ notices[j] + Cardinality(N) <= lost[j] + Cardinality(Pages)
      BY <2>1 DEF NoticesAreAudited
    <2>9. /\ notices[j] \in Nat /\ lost[j] \in Nat /\ Cardinality(Pages) \in Nat
          /\ notices'[j] = notices[j] + 1 /\ lost'[j] = lost[j] /\ recent' = recent
      BY <2>1, <2>2, DispatchAssumption, FS_CardinalityType DEF TypeOK
    <2>10. \A i \in Jobs \ {j} : notices'[i] = notices[i] /\ lost'[i] = lost[i]
      BY <2>2 DEF TypeOK
    <2> HIDE DEF N, A
    <2>11. ASSUME NEW i \in Jobs
           PROVE  /\ i \notin recent' =>
                       notices'[i] = lost'[i] + Cardinality(Escalating(i, "auditing")')
                  /\ notices'[i] + Cardinality(Escalating(i, "notifying")') <= lost'[i] + Cardinality(Pages)
      <3>1. CASE i = j
        <4>1. /\ j \notin recent' => notices'[j] = lost'[j] + Cardinality(A \cup {p})
              /\ notices'[j] + Cardinality(N \ {p}) <= lost'[j] + Cardinality(Pages)
          BY <2>7, <2>8, <2>9
        <4>2. /\ Cardinality(Escalating(i, "notifying")') = Cardinality(N \ {p})
              /\ Cardinality(Escalating(i, "auditing")') = Cardinality(A \cup {p})
          BY <3>1, <2>5, Zenon
        <4> QED  BY <3>1, <4>1, <4>2
      <3>2. CASE i # j
        BY <3>2, <2>2, <2>6, <2>10 DEF NoticesAreAudited
      <3> QED  BY <3>1, <3>2
    <2> QED
      BY <2>11 DEF NoticesAreAudited
  <1>13. ASSUME NEW p \in Pages, EscalateRecords(p)  PROVE NoticesAreAudited'
    <2>0. PICK j \in Jobs : j = request[p].job
      BY <1>13, <1>typed DEF EscalateRecords, At, Requests
    <2> DEFINE N == Escalating(j, "notifying")
               A == Escalating(j, "auditing")
    <2>1. request[p] \in Requests /\ j \in Jobs /\ request[p] # None
      BY <1>13, <2>0, <1>typed DEF EscalateRecords, At, Requests
    <2>2. PICK r : /\ request' = [request EXCEPT ![p] = r]
                   /\ r = None \/ r.pc = "refreshing"
      <3>1. [request[p] EXCEPT !.pc = "refreshing"].pc = "refreshing"
        BY <2>0, <2>1, StepTyped
      <3> QED  BY <1>13, <2>0, <3>1 DEF EscalateRecords
    <2>3. /\ notices' = notices
          /\ \/ recent' = recent \cup {j} /\ lost' = lost
             \/ recent' = recent /\ lost' = [lost EXCEPT ![j] = @ + 1]
      BY <1>13, <2>0 DEF EscalateRecords
    <2>4. \A q \in Pages : q # p => Stays(q)
      <3> HIDE DEF Stays
      <3> QED  BY <2>2, <1>others
    <2>5. /\ Escalating(j, "notifying")' = N
          /\ Escalating(j, "auditing")' = A \ {p} /\ p \in A
      BY <1>13, <2>0, <2>2, <2>4 DEF EscalateRecords, Escalating, At, TypeOK
    <2>6. \A i \in Jobs \ {j} : /\ Escalating(i, "notifying")' = Escalating(i, "notifying")
                                /\ Escalating(i, "auditing")' = Escalating(i, "auditing")
      BY <1>13, <2>0, <2>2, <2>4 DEF EscalateRecords, Escalating, At, TypeOK
    <2>7. /\ Cardinality(N) \in Nat
          /\ Cardinality(A \ {p}) = Cardinality(A) - 1 /\ Cardinality(A) \in Nat
      BY <2>5, EscalatingFinite, FS_RemoveElement
    <2>8. /\ j \notin recent => notices[j] = lost[j] + Cardinality(A)
          /\ notices[j] + Cardinality(N) <= lost[j] + Cardinality(Pages)
      BY <2>1 DEF NoticesAreAudited
    <2>9. /\ notices[j] \in Nat /\ lost[j] \in Nat /\ Cardinality(Pages) \in Nat
          /\ \/ j \in recent' /\ lost'[j] = lost[j]
             \/ recent' = recent /\ lost'[j] = lost[j] + 1
      BY <2>1, <2>3, DispatchAssumption, FS_CardinalityType DEF TypeOK
    <2>10. \A i \in Jobs \ {j} : (i \in recent' <=> i \in recent) /\ lost'[i] = lost[i]
      BY <2>3 DEF TypeOK
    <2> HIDE DEF N, A
    <2>11. ASSUME NEW i \in Jobs
           PROVE  /\ i \notin recent' =>
                       notices'[i] = lost'[i] + Cardinality(Escalating(i, "auditing")')
                  /\ notices'[i] + Cardinality(Escalating(i, "notifying")') <= lost'[i] + Cardinality(Pages)
      <3>1. CASE i = j
        <4>1. /\ j \notin recent' => notices'[j] = lost'[j] + Cardinality(A \ {p})
              /\ notices'[j] + Cardinality(N) <= lost'[j] + Cardinality(Pages)
          BY <2>3, <2>7, <2>8, <2>9
        <4> QED  BY <3>1, <4>1, <2>5
      <3>2. CASE i # j
        BY <3>2, <2>3, <2>6, <2>10 DEF NoticesAreAudited
      <3> QED  BY <3>1, <3>2
    <2> QED
      BY <2>11 DEF NoticesAreAudited
  <1>14. CASE UNCHANGED vars
    <2> HIDE DEF Stays
    <2> QED  BY <1>14, <1>same, <1>kept DEF vars, audits
  <1> HIDE DEF Stays
  <1> QED
    BY <1>0, <1>2, <1>3, <1>4, <1>5, <1>6, <1>8, <1>9, <1>10, <1>11, <1>12, <1>13, <1>14
    DEF Next, Others, Server, Dispatcher, SaveRule, SaveServiceArea, ConfigureTechnician,
        ClickAssign, Click

(* However many pages escalate a job, and whichever audits are lost,       *)
(* operations hear of it at most once in five minutes for each page, and   *)
(* once more for each audit that could not be written.                     *)
THEOREM NoRepeatedEscalations == Spec => []EscalationsAreNotRepeated
  <1>1. Init => TypeOK /\ NoticesAreAudited
    <2> SUFFICES ASSUME Init  PROVE TypeOK /\ NoticesAreAudited
      OBVIOUS
    <2>1. TypeOK
      BY DispatchAssumption DEF Init, TypeOK, Rows, Nobody
    <2>2. \A j \in Jobs : Escalating(j, "notifying") = {} /\ Escalating(j, "auditing") = {}
      BY DEF Init, Escalating, At
    <2>3. Cardinality({}) = 0 /\ Cardinality(Pages) \in Nat
      BY DispatchAssumption, FS_EmptySet, FS_CardinalityType
    <2>4. \A j \in Jobs : notices[j] = 0 /\ lost[j] = 0
      BY DEF Init
    <2> QED  BY <2>1, <2>2, <2>3, <2>4 DEF NoticesAreAudited
  <1>2. TypeOK /\ NoticesAreAudited /\ [Next]_vars => (TypeOK /\ NoticesAreAudited)'
    BY TypeStep, NoticesStep
  <1>3. TypeOK /\ NoticesAreAudited => EscalationsAreNotRepeated
    <2> SUFFICES ASSUME TypeOK, NoticesAreAudited, NEW j \in Jobs
                 PROVE  notices[j] <= Cardinality(Pages) + lost[j]
      BY DEF EscalationsAreNotRepeated
    <2>1. notices[j] \in Nat /\ lost[j] \in Nat
      BY DEF TypeOK
    <2>2. Cardinality(Escalating(j, "notifying")) \in Nat /\ Cardinality(Pages) \in Nat
      BY EscalatingFinite, DispatchAssumption, FS_CardinalityType
    <2>3. notices[j] + Cardinality(Escalating(j, "notifying")) <= lost[j] + Cardinality(Pages)
      BY DEF NoticesAreAudited
    <2> QED  BY <2>1, <2>2, <2>3
  <1> QED  BY <1>1, <1>2, <1>3, PTL DEF Spec
=============================================================================
