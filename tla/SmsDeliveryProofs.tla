------------------------- MODULE SmsDeliveryProofs -------------------------
(* Proofs about SmsDelivery for any number of events, workers, operators   *)
(* and callback handlers, any number of attempts and of replays.           *)
EXTENDS SmsDelivery, FiniteSetTheorems, TLAPS

USE ConsentAssumption, DeliveryAssumption

-----------------------------------------------------------------------------
(* Type correctness. *)

LEMMA ConsentTypeStep == ConsentTypeOK /\ ConsentNext => ConsentTypeOK'
  <1> SUFFICES ASSUME ConsentTypeOK, ConsentNext PROVE ConsentTypeOK'
    OBVIOUS
  <1> USE DEF ConsentTypeOK, ConsentStatus, PersistConsent
  <1>1. ASSUME NEW p \in Phones, NEW a \in BOOLEAN, RecordVerbalConsent(p, a)
        PROVE  ConsentTypeOK'
    BY <1>1 DEF RecordVerbalConsent
  <1>2. ASSUME NEW p \in Phones, Stop(p)
        PROVE  ConsentTypeOK'
    BY <1>2 DEF Stop
  <1>3. ASSUME NEW k \in Keywords, NEW p \in Phones, StartFound(k, p)
        PROVE  ConsentTypeOK'
    BY <1>3 DEF StartFound, MayRestore
  <1>4. ASSUME NEW k \in Keywords, StartWrite(k)
        PROVE  ConsentTypeOK'
    BY <1>4 DEF StartWrite
  <1> QED
    BY <1>1, <1>2, <1>3, <1>4 DEF ConsentNext

LEMMA TypeInit == Init => TypeOK
  BY DEF Init, ConsentInit, TypeOK, ConsentTypeOK, ConsentStatus, Status, WorkerPc,
         NoCallback, NoRequest, Reported

LEMMA TypeStep == TypeOK /\ [Next]_vars => TypeOK'
  <1> SUFFICES ASSUME TypeOK, [Next]_vars PROVE TypeOK'
    OBVIOUS
  <1> USE DEF TypeOK, Status, Claimable, Reported, WorkerPc, NoCallback, NoRequest,
              rowVars, historyVars, workerVars, UnchangedElsewhere, At, Goto, Finish
  <1> DEFINE SameConsent == UNCHANGED consentVars
  <1>0. SameConsent => ConsentTypeOK'
    BY DEF consentVars, ConsentTypeOK
  <1> HIDE DEF SameConsent
  <1>1. ASSUME NEW c \in Callers, NEW e \in Events, NEW h \in Hashes, CreateEvaluated(c, e, h)
        PROVE  TypeOK'
    BY <1>0, <1>1 DEF CreateEvaluated, SameConsent
  <1>2. ASSUME NEW c \in Callers, CreateUpsert(c)
        PROVE  TypeOK'
    BY <1>0, <1>2 DEF CreateUpsert, SameText, SameConsent
  <1>3. ASSUME NEW w \in Workers, NEW e \in Events, FindDue(w, e)
        PROVE  TypeOK'
    BY <1>0, <1>3 DEF FindDue, SameConsent
  <1>4. ASSUME NEW w \in Workers, Claim(w)
        PROVE  TypeOK'
    BY <1>0, <1>4 DEF Claim, CanClaim, NextAttempt, SameConsent
  <1>5. ASSUME NEW w \in Workers, ClaimLost(w)
        PROVE  TypeOK'
    BY <1>0, <1>5 DEF ClaimLost, SameConsent
  <1>6. ASSUME NEW w \in Workers, Load(w)
        PROVE  TypeOK'
    BY <1>0, <1>6 DEF Load, SameConsent
  <1>7. ASSUME NEW w \in Workers, CheckConsent(w)
        PROVE  TypeOK'
    BY <1>0, <1>7 DEF CheckConsent, SameConsent
  <1>8. ASSUME NEW w \in Workers, PostToProvider(w)
        PROVE  TypeOK'
    BY <1>0, <1>8 DEF PostToProvider, SameConsent
  <1>9. ASSUME NEW w \in Workers, ResponseAccepted(w)
        PROVE  TypeOK'
    BY <1>0, <1>9 DEF ResponseAccepted, SameConsent
  <1>10. ASSUME NEW w \in Workers, ResponseRejected(w)
        PROVE  TypeOK'
    BY <1>0, <1>10 DEF ResponseRejected, SameConsent
  <1>11. ASSUME NEW w \in Workers, ResponseAmbiguous(w)
        PROVE  TypeOK'
    BY <1>0, <1>11 DEF ResponseAmbiguous, AfterAmbiguous, SameConsent
  <1>12. ASSUME NEW w \in Workers, RecordSent(w)
        PROVE  TypeOK'
    BY <1>0, <1>12 DEF RecordSent, SameConsent
  <1>13. ASSUME NEW w \in Workers, RecordSentFails(w)
        PROVE  TypeOK'
    BY <1>0, <1>13 DEF RecordSentFails, SameConsent
  <1>14. ASSUME NEW w \in Workers, RecordRetry(w)
        PROVE  TypeOK'
    BY <1>0, <1>14 DEF RecordRetry, MayRetry, SameConsent
  <1>15. ASSUME NEW w \in Workers, DeadLetter(w)
        PROVE  TypeOK'
    BY <1>0, <1>15 DEF DeadLetter, MayRetry, SameConsent
  <1>16. ASSUME NEW w \in Workers, Abandon(w)
        PROVE  TypeOK'
    BY <1>0, <1>16 DEF Abandon, SameConsent
  <1>17. ASSUME NEW e \in Events, BackoffElapses(e)
        PROVE  TypeOK'
    BY <1>0, <1>17 DEF BackoffElapses, SameConsent
  <1>18. ASSUME NEW e \in Events, NEW n \in wire[e], ProviderAccepts(e, n)
        PROVE  TypeOK'
    BY <1>0, <1>18 DEF ProviderAccepts, SameConsent
  <1>19. ASSUME NEW o \in Operators, NEW e \in Events, ReplayRead(o, e)
        PROVE  TypeOK'
    BY <1>0, <1>19 DEF ReplayRead, SameConsent
  <1>20. ASSUME NEW o \in Operators, ReplayWrite(o)
        PROVE  TypeOK'
    BY <1>0, <1>20 DEF ReplayWrite, SameConsent
  <1>21. ASSUME NEW h \in Handlers, NEW e \in Events, NEW s \in Reported, NEW n \in accepted[e], CallbackRead(h, e, n, s)
        PROVE  TypeOK'
    BY <1>0, <1>21 DEF CallbackRead, SameConsent
  <1>22. ASSUME NEW h \in Handlers, CallbackWrite(h)
        PROVE  TypeOK'
    BY <1>0, <1>22 DEF CallbackWrite, SameConsent
  <1>23. CASE ConsentChange
    BY <1>23, ConsentTypeStep DEF ConsentChange
  <1>24. CASE UNCHANGED vars
    BY <1>0, <1>24 DEF vars, deliveryVars, SameConsent
  <1> HIDE DEF TypeOK, Status, Claimable, Reported, WorkerPc, NoCallback, NoRequest,
               rowVars, historyVars, workerVars, UnchangedElsewhere, At, Goto, Finish
  <1> QED
    BY <1>1, <1>2, <1>3, <1>4, <1>5, <1>6, <1>7, <1>8, <1>9, <1>10, <1>11, <1>12, <1>13,
       <1>14, <1>15, <1>16, <1>17, <1>18, <1>19, <1>20, <1>21, <1>22, <1>23, <1>24 DEF Next, WorkerStep, Reported

(* Every row, call and request keeps its type along every behaviour. *)
THEOREM TypeCorrect == Spec => []TypeOK
  BY TypeInit, TypeStep, PTL DEF Spec

-----------------------------------------------------------------------------
(* The inductive invariant. *)

LEMMA IInvInit == Init => IInv
  <1> SUFFICES ASSUME Init PROVE IInv
    OBVIOUS
  <1>1. TypeOK
    BY TypeInit
  <1>2. RowsComeFirst /\ ClaimsHaveOneHolder /\ RequestsComeFromClaims
    BY DEF Init, RowsComeFirst, ClaimsHaveOneHolder, RequestsComeFromClaims, Holds, WorkerPc,
           NoCallback
  <1>3. ClaimsAreAuthorised /\ AttemptsAreCounted
    BY FS_EmptySet DEF Init, ClaimsAreAuthorised, AttemptsAreCounted, Claimable
  <1> QED
    BY <1>1, <1>2, <1>3 DEF IInv

(* The claims given back for a retry are finitely many. *)
LEMMA ReleasedIsFinite ==
  ASSUME TypeOK, RequestsComeFromClaims, NEW e \in Events
  PROVE  IsFiniteSet(released[e]) /\ Cardinality(released[e]) \in Nat
  <1>1. released[e] \subseteq 1..claims[e] /\ claims[e] \in Nat
    BY DEF TypeOK, RequestsComeFromClaims
  <1>2. IsFiniteSet(1..claims[e])
    BY <1>1, FS_Interval
  <1> QED
    BY <1>1, <1>2, FS_Subset, FS_CardinalityType

LEMMA RowsStep == IInv /\ [Next]_vars => RowsComeFirst'
  <1> SUFFICES ASSUME IInv, [Next]_vars PROVE RowsComeFirst'
    OBVIOUS
  <1> TypeOK /\ RowsComeFirst
    BY DEF IInv
  <1>0. \A e \in Events : status[e] = "ABSENT" => accepted[e] = {}
    BY DEF IInv, TypeOK, RowsComeFirst, RequestsComeFromClaims
  <1> USE DEF RowsComeFirst, TypeOK, Status, Claimable, Reported, WorkerPc, NoCallback, NoRequest, rowVars,
              historyVars, workerVars, UnchangedElsewhere, At, Goto, Finish, Holds
  <1>1. ASSUME NEW c \in Callers, NEW e \in Events, NEW h \in Hashes, CreateEvaluated(c, e, h)
        PROVE  RowsComeFirst'
    BY <1>1 DEF CreateEvaluated
  <1>2. ASSUME NEW c \in Callers, CreateUpsert(c)
        PROVE  RowsComeFirst'
    BY <1>2 DEF CreateUpsert, SameText
  <1>3. ASSUME NEW w \in Workers, NEW e \in Events, FindDue(w, e)
        PROVE  RowsComeFirst'
    BY <1>3 DEF FindDue
  <1>4. ASSUME NEW w \in Workers, Claim(w)
        PROVE  RowsComeFirst'
    BY <1>4 DEF Claim, CanClaim, NextAttempt
  <1>5. ASSUME NEW w \in Workers, ClaimLost(w)
        PROVE  RowsComeFirst'
    BY <1>5 DEF ClaimLost
  <1>6. ASSUME NEW w \in Workers, Load(w)
        PROVE  RowsComeFirst'
    BY <1>6 DEF Load
  <1>7. ASSUME NEW w \in Workers, CheckConsent(w)
        PROVE  RowsComeFirst'
    BY <1>7 DEF CheckConsent
  <1>8. ASSUME NEW w \in Workers, PostToProvider(w)
        PROVE  RowsComeFirst'
    BY <1>8 DEF PostToProvider
  <1>9. ASSUME NEW w \in Workers, ResponseAccepted(w)
        PROVE  RowsComeFirst'
    BY <1>9 DEF ResponseAccepted
  <1>10. ASSUME NEW w \in Workers, ResponseRejected(w)
        PROVE  RowsComeFirst'
    BY <1>10 DEF ResponseRejected
  <1>11. ASSUME NEW w \in Workers, ResponseAmbiguous(w)
        PROVE  RowsComeFirst'
    BY <1>11 DEF ResponseAmbiguous, AfterAmbiguous
  <1>12. ASSUME NEW w \in Workers, RecordSent(w)
        PROVE  RowsComeFirst'
    BY <1>12 DEF RecordSent
  <1>13. ASSUME NEW w \in Workers, RecordSentFails(w)
        PROVE  RowsComeFirst'
    BY <1>13 DEF RecordSentFails
  <1>14. ASSUME NEW w \in Workers, RecordRetry(w)
        PROVE  RowsComeFirst'
    BY <1>14 DEF RecordRetry, MayRetry
  <1>15. ASSUME NEW w \in Workers, DeadLetter(w)
        PROVE  RowsComeFirst'
    BY <1>15 DEF DeadLetter, MayRetry
  <1>16. ASSUME NEW w \in Workers, Abandon(w)
        PROVE  RowsComeFirst'
    BY <1>16 DEF Abandon
  <1>17. ASSUME NEW e \in Events, BackoffElapses(e)
        PROVE  RowsComeFirst'
    BY <1>17 DEF BackoffElapses
  <1>18. ASSUME NEW e \in Events, NEW n \in wire[e], ProviderAccepts(e, n)
        PROVE  RowsComeFirst'
    BY <1>18 DEF ProviderAccepts
  <1>19. ASSUME NEW o \in Operators, NEW e \in Events, ReplayRead(o, e)
        PROVE  RowsComeFirst'
    BY <1>19 DEF ReplayRead
  <1>20. ASSUME NEW o \in Operators, ReplayWrite(o)
        PROVE  RowsComeFirst'
    BY <1>20 DEF ReplayWrite
  <1>21. ASSUME NEW h \in Handlers, NEW e \in Events, NEW s \in Reported, NEW n \in accepted[e], CallbackRead(h, e, n, s)
        PROVE  RowsComeFirst'
    BY <1>0, <1>21 DEF CallbackRead
  <1>22. ASSUME NEW h \in Handlers, CallbackWrite(h)
        PROVE  RowsComeFirst'
    <2>1. \A e \in Events : status'[e] = "ABSENT" => status[e] = "ABSENT"
      <3>1. handler[h].to \in Reported /\ handler[h].to # "ABSENT"
        BY <1>22 DEF CallbackWrite
      <3>2. status' = [status EXCEPT ![handler[h].ev] = handler[h].to]
        BY <1>22 DEF CallbackWrite
      <3> QED
        BY <3>1, <3>2
    <2>2. \A g \in Handlers : handler'[g] = handler[g] \/ handler'[g] = NoCallback
      BY <1>22 DEF CallbackWrite
    <2>3. UNCHANGED <<claims, event, operator>>
      BY <1>22 DEF CallbackWrite
    <2>4. \A e \in Events : NoCallback.ev # e
      BY DeliveryAssumption
    <2> QED
      BY <2>1, <2>2, <2>3, <2>4
  <1>23. CASE ConsentChange
    BY <1>23 DEF ConsentChange
  <1>24. CASE UNCHANGED vars
    BY <1>24 DEF vars, deliveryVars
  <1> HIDE DEF RowsComeFirst, TypeOK, Status, Claimable, Reported, WorkerPc, NoCallback, NoRequest, rowVars,
              historyVars, workerVars, UnchangedElsewhere, At, Goto, Finish, Holds
  <1> QED
    BY <1>1, <1>2, <1>3, <1>4, <1>5, <1>6, <1>7, <1>8, <1>9, <1>10, <1>11, <1>12, <1>13,
       <1>14, <1>15, <1>16, <1>17, <1>18, <1>19, <1>20, <1>21, <1>22, <1>23, <1>24 DEF Next, WorkerStep, Reported

LEMMA HoldersStep == IInv /\ [Next]_vars => ClaimsHaveOneHolder'
  <1> SUFFICES ASSUME IInv, [Next]_vars PROVE ClaimsHaveOneHolder'
    OBVIOUS
  <1> TypeOK /\ ClaimsHaveOneHolder
    BY DEF IInv
  <1> USE DEF ClaimsHaveOneHolder, TypeOK, Status, Claimable, Reported, WorkerPc, NoCallback, NoRequest, rowVars,
              historyVars, workerVars, UnchangedElsewhere, At, Goto, Finish, Holds
  <1>1. ASSUME NEW c \in Callers, NEW e \in Events, NEW h \in Hashes, CreateEvaluated(c, e, h)
        PROVE  ClaimsHaveOneHolder'
    BY <1>1 DEF CreateEvaluated
  <1>2. ASSUME NEW c \in Callers, CreateUpsert(c)
        PROVE  ClaimsHaveOneHolder'
    BY <1>2 DEF CreateUpsert, SameText
  <1>3. ASSUME NEW w \in Workers, NEW e \in Events, FindDue(w, e)
        PROVE  ClaimsHaveOneHolder'
    BY <1>3 DEF FindDue
  <1>4. ASSUME NEW w \in Workers, Claim(w)
        PROVE  ClaimsHaveOneHolder'
    <2> DEFINE e == event[w]
    <2>1. /\ e \in Events /\ claims[e] \in Nat
          /\ claims' = [claims EXCEPT ![e] = @ + 1]
          /\ claim' = [claim EXCEPT ![w] = claims[e] + 1]
          /\ pc' = [pc EXCEPT ![w] = "claimed"]
          /\ UNCHANGED <<event, released>>
      BY <1>4 DEF Claim
    <2>2. claims[e] + 1 \notin released[e]
      BY <2>1 DEF IInv, RequestsComeFromClaims
    <2>3. \A v \in Workers : Holds(v)' /\ v # w => Holds(v) /\ UNCHANGED claim[v]
      BY <2>1
    <2>4. \A v \in Workers : Holds(v)' /\ v # w /\ event[v] = e =>
             claim[v] \in 1..claims[e] /\ claim[v] # claims[e] + 1
      BY <2>1, <2>3
    <2>5. ASSUME NEW v \in Workers, Holds(v)'
          PROVE  claim'[v] \in 1..claims'[event'[v]] /\ claim'[v] \notin released'[event'[v]]
      <3>1. CASE v = w
        BY <2>1, <2>2, <3>1
      <3>2. CASE v # w
        BY <2>1, <2>3, <2>5, <3>2
      <3> QED
        BY <3>1, <3>2
    <2>6. ASSUME NEW u \in Workers, NEW v \in Workers, u # v, Holds(u)', Holds(v)',
                 event'[u] = event'[v]
          PROVE  claim'[u] # claim'[v]
      BY <2>1, <2>3, <2>4, <2>6
    <2> QED
      BY <2>5, <2>6
  <1>5. ASSUME NEW w \in Workers, ClaimLost(w)
        PROVE  ClaimsHaveOneHolder'
    BY <1>5 DEF ClaimLost
  <1>6. ASSUME NEW w \in Workers, Load(w)
        PROVE  ClaimsHaveOneHolder'
    BY <1>6 DEF Load
  <1>7. ASSUME NEW w \in Workers, CheckConsent(w)
        PROVE  ClaimsHaveOneHolder'
    BY <1>7 DEF CheckConsent
  <1>8. ASSUME NEW w \in Workers, PostToProvider(w)
        PROVE  ClaimsHaveOneHolder'
    BY <1>8 DEF PostToProvider
  <1>9. ASSUME NEW w \in Workers, ResponseAccepted(w)
        PROVE  ClaimsHaveOneHolder'
    BY <1>9 DEF ResponseAccepted
  <1>10. ASSUME NEW w \in Workers, ResponseRejected(w)
        PROVE  ClaimsHaveOneHolder'
    BY <1>10 DEF ResponseRejected
  <1>11. ASSUME NEW w \in Workers, ResponseAmbiguous(w)
        PROVE  ClaimsHaveOneHolder'
    BY <1>11 DEF ResponseAmbiguous, AfterAmbiguous
  <1>12. ASSUME NEW w \in Workers, RecordSent(w)
        PROVE  ClaimsHaveOneHolder'
    BY <1>12 DEF RecordSent
  <1>13. ASSUME NEW w \in Workers, RecordSentFails(w)
        PROVE  ClaimsHaveOneHolder'
    BY <1>13 DEF RecordSentFails
  <1>14. ASSUME NEW w \in Workers, RecordRetry(w)
        PROVE  ClaimsHaveOneHolder'
    BY <1>14 DEF RecordRetry, MayRetry
  <1>15. ASSUME NEW w \in Workers, DeadLetter(w)
        PROVE  ClaimsHaveOneHolder'
    BY <1>15 DEF DeadLetter, MayRetry
  <1>16. ASSUME NEW w \in Workers, Abandon(w)
        PROVE  ClaimsHaveOneHolder'
    BY <1>16 DEF Abandon
  <1>17. ASSUME NEW e \in Events, BackoffElapses(e)
        PROVE  ClaimsHaveOneHolder'
    BY <1>17 DEF BackoffElapses
  <1>18. ASSUME NEW e \in Events, NEW n \in wire[e], ProviderAccepts(e, n)
        PROVE  ClaimsHaveOneHolder'
    BY <1>18 DEF ProviderAccepts
  <1>19. ASSUME NEW o \in Operators, NEW e \in Events, ReplayRead(o, e)
        PROVE  ClaimsHaveOneHolder'
    BY <1>19 DEF ReplayRead
  <1>20. ASSUME NEW o \in Operators, ReplayWrite(o)
        PROVE  ClaimsHaveOneHolder'
    BY <1>20 DEF ReplayWrite
  <1>21. ASSUME NEW h \in Handlers, NEW e \in Events, NEW s \in Reported, NEW n \in accepted[e], CallbackRead(h, e, n, s)
        PROVE  ClaimsHaveOneHolder'
    BY <1>21 DEF CallbackRead
  <1>22. ASSUME NEW h \in Handlers, CallbackWrite(h)
        PROVE  ClaimsHaveOneHolder'
    BY <1>22 DEF CallbackWrite
  <1>23. CASE ConsentChange
    BY <1>23 DEF ConsentChange
  <1>24. CASE UNCHANGED vars
    BY <1>24 DEF vars, deliveryVars
  <1> HIDE DEF ClaimsHaveOneHolder, TypeOK, Status, Claimable, Reported, WorkerPc, NoCallback, NoRequest, rowVars,
              historyVars, workerVars, UnchangedElsewhere, At, Goto, Finish, Holds
  <1> QED
    BY <1>1, <1>2, <1>3, <1>4, <1>5, <1>6, <1>7, <1>8, <1>9, <1>10, <1>11, <1>12, <1>13,
       <1>14, <1>15, <1>16, <1>17, <1>18, <1>19, <1>20, <1>21, <1>22, <1>23, <1>24 DEF Next, WorkerStep, Reported

LEMMA RequestsStep == IInv /\ [Next]_vars => RequestsComeFromClaims'
  <1> SUFFICES ASSUME IInv, [Next]_vars PROVE RequestsComeFromClaims'
    OBVIOUS
  <1> TypeOK /\ ClaimsHaveOneHolder /\ RequestsComeFromClaims
    BY DEF IInv
  <1> USE DEF RequestsComeFromClaims, TypeOK, Status, Claimable, Reported, WorkerPc, NoCallback, NoRequest, rowVars,
              historyVars, workerVars, UnchangedElsewhere, At, Goto, Finish, Holds
  <1>1. ASSUME NEW c \in Callers, NEW e \in Events, NEW h \in Hashes, CreateEvaluated(c, e, h)
        PROVE  RequestsComeFromClaims'
    BY <1>1 DEF CreateEvaluated
  <1>2. ASSUME NEW c \in Callers, CreateUpsert(c)
        PROVE  RequestsComeFromClaims'
    BY <1>2 DEF CreateUpsert, SameText
  <1>3. ASSUME NEW w \in Workers, NEW e \in Events, FindDue(w, e)
        PROVE  RequestsComeFromClaims'
    BY <1>3 DEF FindDue
  <1>4. ASSUME NEW w \in Workers, Claim(w)
        PROVE  RequestsComeFromClaims'
    BY <1>4 DEF Claim, CanClaim, NextAttempt
  <1>5. ASSUME NEW w \in Workers, ClaimLost(w)
        PROVE  RequestsComeFromClaims'
    BY <1>5 DEF ClaimLost
  <1>6. ASSUME NEW w \in Workers, Load(w)
        PROVE  RequestsComeFromClaims'
    BY <1>6 DEF Load
  <1>7. ASSUME NEW w \in Workers, CheckConsent(w)
        PROVE  RequestsComeFromClaims'
    BY <1>7 DEF CheckConsent
  <1>8. ASSUME NEW w \in Workers, PostToProvider(w)
        PROVE  RequestsComeFromClaims'
    <2> DEFINE e == event[w]
    <2>1. /\ e \in Events /\ pc[w] = "cleared"
          /\ wire' = [wire EXCEPT ![e] = @ \cup {claim[w]}]
          /\ pc' = [pc EXCEPT ![w] = "sending"]
          /\ UNCHANGED <<event, claim, accepted, released, claims>>
      BY <1>8 DEF PostToProvider
    <2>2. claim[w] \in 1..claims[e] /\ claim[w] \notin released[e] \cup accepted[e] \cup wire[e]
      BY <2>1 DEF ClaimsHaveOneHolder
    <2>3. ASSUME NEW f \in Events
          PROVE  /\ wire'[f] \cup accepted'[f] \cup released'[f] \subseteq 1..claims'[f]
                 /\ wire'[f] \cap accepted'[f] = {}
                 /\ released'[f] \cap (accepted'[f] \cup wire'[f]) = {}
      BY <2>1, <2>2
    <2>4. ASSUME NEW v \in Workers, pc'[v] \in {"claimed", "loaded", "cleared", "retry"}
          PROVE  claim'[v] \notin wire'[event'[v]] \cup accepted'[event'[v]]
      <3>1. v # w /\ pc[v] = pc'[v] /\ Holds(v) /\ Holds(w)
        BY <2>1, <2>4
      <3>2. event[v] = e => claim[v] # claim[w]
        BY <3>1 DEF ClaimsHaveOneHolder
      <3>3. claim[v] \notin wire[event[v]] \cup accepted[event[v]] /\ event[v] \in Events
        BY <2>4, <3>1
      <3> QED
        BY <2>1, <3>2, <3>3
    <2> QED
      BY <2>3, <2>4
  <1>9. ASSUME NEW w \in Workers, ResponseAccepted(w)
        PROVE  RequestsComeFromClaims'
    BY <1>9 DEF ResponseAccepted
  <1>10. ASSUME NEW w \in Workers, ResponseRejected(w)
        PROVE  RequestsComeFromClaims'
    BY <1>10 DEF ResponseRejected
  <1>11. ASSUME NEW w \in Workers, ResponseAmbiguous(w)
        PROVE  RequestsComeFromClaims'
    BY <1>11 DEF ResponseAmbiguous, AfterAmbiguous
  <1>12. ASSUME NEW w \in Workers, RecordSent(w)
        PROVE  RequestsComeFromClaims'
    BY <1>12 DEF RecordSent
  <1>13. ASSUME NEW w \in Workers, RecordSentFails(w)
        PROVE  RequestsComeFromClaims'
    BY <1>13 DEF RecordSentFails
  <1>14. ASSUME NEW w \in Workers, RecordRetry(w)
        PROVE  RequestsComeFromClaims'
    <2> DEFINE e == event[w]
    <2>1. /\ e \in Events /\ pc[w] = "retry"
          /\ released' = [released EXCEPT ![e] = @ \cup {claim[w]}]
          /\ UNCHANGED <<wire, accepted, claims>>
      BY <1>14 DEF RecordRetry, MayRetry
    <2>2. claim[w] \in 1..claims[e] /\ claim[w] \notin accepted[e] \cup wire[e]
      BY <2>1 DEF ClaimsHaveOneHolder
    <2>3. ASSUME NEW f \in Events
          PROVE  /\ wire'[f] \cup accepted'[f] \cup released'[f] \subseteq 1..claims'[f]
                 /\ wire'[f] \cap accepted'[f] = {}
                 /\ released'[f] \cap (accepted'[f] \cup wire'[f]) = {}
      BY <2>1, <2>2
    <2>4. \A v \in Workers : pc'[v] # "idle" => v # w /\ UNCHANGED <<pc[v], event[v], claim[v]>>
      BY <1>14 DEF RecordRetry, MayRetry
    <2> QED
      BY <2>1, <2>3, <2>4
  <1>15. ASSUME NEW w \in Workers, DeadLetter(w)
        PROVE  RequestsComeFromClaims'
    BY <1>15 DEF DeadLetter, MayRetry
  <1>16. ASSUME NEW w \in Workers, Abandon(w)
        PROVE  RequestsComeFromClaims'
    BY <1>16 DEF Abandon
  <1>17. ASSUME NEW e \in Events, BackoffElapses(e)
        PROVE  RequestsComeFromClaims'
    BY <1>17 DEF BackoffElapses
  <1>18. ASSUME NEW e \in Events, NEW n \in wire[e], ProviderAccepts(e, n)
        PROVE  RequestsComeFromClaims'
    BY <1>18 DEF ProviderAccepts
  <1>19. ASSUME NEW o \in Operators, NEW e \in Events, ReplayRead(o, e)
        PROVE  RequestsComeFromClaims'
    BY <1>19 DEF ReplayRead
  <1>20. ASSUME NEW o \in Operators, ReplayWrite(o)
        PROVE  RequestsComeFromClaims'
    BY <1>20 DEF ReplayWrite
  <1>21. ASSUME NEW h \in Handlers, NEW e \in Events, NEW s \in Reported, NEW n \in accepted[e], CallbackRead(h, e, n, s)
        PROVE  RequestsComeFromClaims'
    BY <1>21 DEF CallbackRead
  <1>22. ASSUME NEW h \in Handlers, CallbackWrite(h)
        PROVE  RequestsComeFromClaims'
    BY <1>22 DEF CallbackWrite
  <1>23. CASE ConsentChange
    BY <1>23 DEF ConsentChange
  <1>24. CASE UNCHANGED vars
    BY <1>24 DEF vars, deliveryVars
  <1> HIDE DEF RequestsComeFromClaims, TypeOK, Status, Claimable, Reported, WorkerPc, NoCallback, NoRequest, rowVars,
              historyVars, workerVars, UnchangedElsewhere, At, Goto, Finish, Holds
  <1> QED
    BY <1>1, <1>2, <1>3, <1>4, <1>5, <1>6, <1>7, <1>8, <1>9, <1>10, <1>11, <1>12, <1>13,
       <1>14, <1>15, <1>16, <1>17, <1>18, <1>19, <1>20, <1>21, <1>22, <1>23, <1>24 DEF Next, WorkerStep, Reported

LEMMA AuthorisedStep == IInv /\ [Next]_vars => ClaimsAreAuthorised'
  <1> SUFFICES ASSUME IInv, [Next]_vars PROVE ClaimsAreAuthorised'
    OBVIOUS
  <1> TypeOK /\ RowsComeFirst /\ ClaimsHaveOneHolder /\ RequestsComeFromClaims /\ ClaimsAreAuthorised
    BY DEF IInv
  <1>0. \A e \in Events : IsFiniteSet(released[e]) /\ Cardinality(released[e]) \in Nat
    BY ReleasedIsFinite
  <1> USE DEF ClaimsAreAuthorised, TypeOK, Status, Claimable, Reported, WorkerPc, NoCallback, NoRequest, rowVars,
              historyVars, workerVars, UnchangedElsewhere, At, Goto, Finish, Holds
  <1>1. ASSUME NEW c \in Callers, NEW e \in Events, NEW h \in Hashes, CreateEvaluated(c, e, h)
        PROVE  ClaimsAreAuthorised'
    BY <1>0, <1>1 DEF CreateEvaluated
  <1>2. ASSUME NEW c \in Callers, CreateUpsert(c)
        PROVE  ClaimsAreAuthorised'
    <2>1. UNCHANGED <<claims, replays, released>>
      BY <1>2 DEF CreateUpsert, SameText
    <2>2. \A e \in Events : UNCHANGED status[e] \/ status[e] = "ABSENT"
      BY <1>2 DEF CreateUpsert, SameText
    <2>3. \A e \in Events : status[e] = "ABSENT" => claims[e] = 0
      BY DEF RowsComeFirst
    <2>4. \A e \in Events : claims[e] = 0 => 1 <= 1 + replays[e] + Cardinality(released[e])
      BY <1>0
    <2> QED
      BY <1>0, <2>1, <2>2, <2>3, <2>4
  <1>3. ASSUME NEW w \in Workers, NEW e \in Events, FindDue(w, e)
        PROVE  ClaimsAreAuthorised'
    BY <1>0, <1>3 DEF FindDue
  <1>4. ASSUME NEW w \in Workers, Claim(w)
        PROVE  ClaimsAreAuthorised'
    BY <1>0, <1>4 DEF Claim, CanClaim, NextAttempt
  <1>5. ASSUME NEW w \in Workers, ClaimLost(w)
        PROVE  ClaimsAreAuthorised'
    BY <1>0, <1>5 DEF ClaimLost
  <1>6. ASSUME NEW w \in Workers, Load(w)
        PROVE  ClaimsAreAuthorised'
    BY <1>0, <1>6 DEF Load
  <1>7. ASSUME NEW w \in Workers, CheckConsent(w)
        PROVE  ClaimsAreAuthorised'
    BY <1>0, <1>7 DEF CheckConsent
  <1>8. ASSUME NEW w \in Workers, PostToProvider(w)
        PROVE  ClaimsAreAuthorised'
    BY <1>0, <1>8 DEF PostToProvider
  <1>9. ASSUME NEW w \in Workers, ResponseAccepted(w)
        PROVE  ClaimsAreAuthorised'
    BY <1>0, <1>9 DEF ResponseAccepted
  <1>10. ASSUME NEW w \in Workers, ResponseRejected(w)
        PROVE  ClaimsAreAuthorised'
    BY <1>0, <1>10 DEF ResponseRejected
  <1>11. ASSUME NEW w \in Workers, ResponseAmbiguous(w)
        PROVE  ClaimsAreAuthorised'
    BY <1>0, <1>11 DEF ResponseAmbiguous, AfterAmbiguous
  <1>12. ASSUME NEW w \in Workers, RecordSent(w)
        PROVE  ClaimsAreAuthorised'
    BY <1>0, <1>12 DEF RecordSent
  <1>13. ASSUME NEW w \in Workers, RecordSentFails(w)
        PROVE  ClaimsAreAuthorised'
    BY <1>0, <1>13 DEF RecordSentFails
  <1>14. ASSUME NEW w \in Workers, RecordRetry(w)
        PROVE  ClaimsAreAuthorised'
    <2> DEFINE e == event[w]
    <2>1. /\ e \in Events
          /\ status' = [status EXCEPT ![e] = "FAILED"]
          /\ released' = [released EXCEPT ![e] = @ \cup {claim[w]}]
          /\ UNCHANGED <<claims, replays>>
      BY <1>14 DEF RecordRetry, MayRetry
    <2>2. claim[w] \notin released[e]
      BY <1>14 DEF RecordRetry, MayRetry, ClaimsHaveOneHolder
    <2>3. Cardinality(released'[e]) = Cardinality(released[e]) + 1
      <3>1. released'[e] = released[e] \cup {claim[w]}
        BY <2>1
      <3>2. IsFiniteSet(released[e])
        BY <1>0, <2>1
      <3> QED
        BY <2>2, <3>1, <3>2, FS_AddElement
    <2>4. claims[e] <= 1 + replays[e] + Cardinality(released[e])
      BY <1>0, <2>1
    <2>5. ASSUME NEW f \in Events
          PROVE  claims'[f] + (IF status'[f] \in Claimable THEN 1 ELSE 0)
                    <= 1 + replays'[f] + Cardinality(released'[f])
      <3>1. CASE f = e
        BY <1>0, <2>1, <2>3, <2>4, <3>1
      <3>2. CASE f # e
        BY <2>1, <3>2
      <3> QED
        BY <3>1, <3>2
    <2> QED
      BY <2>5
  <1>15. ASSUME NEW w \in Workers, DeadLetter(w)
        PROVE  ClaimsAreAuthorised'
    BY <1>0, <1>15 DEF DeadLetter, MayRetry
  <1>16. ASSUME NEW w \in Workers, Abandon(w)
        PROVE  ClaimsAreAuthorised'
    BY <1>0, <1>16 DEF Abandon
  <1>17. ASSUME NEW e \in Events, BackoffElapses(e)
        PROVE  ClaimsAreAuthorised'
    BY <1>0, <1>17 DEF BackoffElapses
  <1>18. ASSUME NEW e \in Events, NEW n \in wire[e], ProviderAccepts(e, n)
        PROVE  ClaimsAreAuthorised'
    BY <1>0, <1>18 DEF ProviderAccepts
  <1>19. ASSUME NEW o \in Operators, NEW e \in Events, ReplayRead(o, e)
        PROVE  ClaimsAreAuthorised'
    BY <1>0, <1>19 DEF ReplayRead
  <1>20. ASSUME NEW o \in Operators, ReplayWrite(o)
        PROVE  ClaimsAreAuthorised'
    BY <1>0, <1>20 DEF ReplayWrite
  <1>21. ASSUME NEW h \in Handlers, NEW e \in Events, NEW s \in Reported, NEW n \in accepted[e], CallbackRead(h, e, n, s)
        PROVE  ClaimsAreAuthorised'
    BY <1>0, <1>21 DEF CallbackRead
  <1>22. ASSUME NEW h \in Handlers, CallbackWrite(h)
        PROVE  ClaimsAreAuthorised'
    <2>1. UNCHANGED <<claims, replays, released>>
      BY <1>22 DEF CallbackWrite
    <2>2. \A e \in Events : status'[e] \in Claimable => status'[e] = status[e]
      BY <1>22 DEF CallbackWrite
    <2> QED
      BY <1>0, <2>1, <2>2
  <1>23. CASE ConsentChange
    BY <1>23 DEF ConsentChange
  <1>24. CASE UNCHANGED vars
    BY <1>24 DEF vars, deliveryVars
  <1> HIDE DEF ClaimsAreAuthorised, TypeOK, Status, Claimable, Reported, WorkerPc, NoCallback, NoRequest, rowVars,
              historyVars, workerVars, UnchangedElsewhere, At, Goto, Finish, Holds
  <1> QED
    BY <1>1, <1>2, <1>3, <1>4, <1>5, <1>6, <1>7, <1>8, <1>9, <1>10, <1>11, <1>12, <1>13,
       <1>14, <1>15, <1>16, <1>17, <1>18, <1>19, <1>20, <1>21, <1>22, <1>23, <1>24 DEF Next, WorkerStep, Reported

LEMMA AttemptsStep == IInv /\ [Next]_vars => AttemptsAreCounted'
  <1> SUFFICES ASSUME IInv, [Next]_vars PROVE AttemptsAreCounted'
    OBVIOUS
  <1> TypeOK /\ AttemptsAreCounted
    BY DEF IInv
  <1> USE DEF AttemptsAreCounted, TypeOK, Status, Claimable, Reported, WorkerPc, NoCallback, NoRequest, rowVars,
              historyVars, workerVars, UnchangedElsewhere, At, Goto, Finish, Holds
  <1>1. ASSUME NEW c \in Callers, NEW e \in Events, NEW h \in Hashes, CreateEvaluated(c, e, h)
        PROVE  AttemptsAreCounted'
    BY <1>1 DEF CreateEvaluated
  <1>2. ASSUME NEW c \in Callers, CreateUpsert(c)
        PROVE  AttemptsAreCounted'
    BY <1>2 DEF CreateUpsert, SameText
  <1>3. ASSUME NEW w \in Workers, NEW e \in Events, FindDue(w, e)
        PROVE  AttemptsAreCounted'
    BY <1>3 DEF FindDue
  <1>4. ASSUME NEW w \in Workers, Claim(w)
        PROVE  AttemptsAreCounted'
    BY <1>4 DEF Claim, CanClaim, NextAttempt
  <1>5. ASSUME NEW w \in Workers, ClaimLost(w)
        PROVE  AttemptsAreCounted'
    BY <1>5 DEF ClaimLost
  <1>6. ASSUME NEW w \in Workers, Load(w)
        PROVE  AttemptsAreCounted'
    BY <1>6 DEF Load
  <1>7. ASSUME NEW w \in Workers, CheckConsent(w)
        PROVE  AttemptsAreCounted'
    BY <1>7 DEF CheckConsent
  <1>8. ASSUME NEW w \in Workers, PostToProvider(w)
        PROVE  AttemptsAreCounted'
    BY <1>8 DEF PostToProvider
  <1>9. ASSUME NEW w \in Workers, ResponseAccepted(w)
        PROVE  AttemptsAreCounted'
    BY <1>9 DEF ResponseAccepted
  <1>10. ASSUME NEW w \in Workers, ResponseRejected(w)
        PROVE  AttemptsAreCounted'
    BY <1>10 DEF ResponseRejected
  <1>11. ASSUME NEW w \in Workers, ResponseAmbiguous(w)
        PROVE  AttemptsAreCounted'
    BY <1>11 DEF ResponseAmbiguous, AfterAmbiguous
  <1>12. ASSUME NEW w \in Workers, RecordSent(w)
        PROVE  AttemptsAreCounted'
    BY <1>12 DEF RecordSent
  <1>13. ASSUME NEW w \in Workers, RecordSentFails(w)
        PROVE  AttemptsAreCounted'
    BY <1>13 DEF RecordSentFails
  <1>14. ASSUME NEW w \in Workers, RecordRetry(w)
        PROVE  AttemptsAreCounted'
    BY <1>14 DEF RecordRetry, MayRetry
  <1>15. ASSUME NEW w \in Workers, DeadLetter(w)
        PROVE  AttemptsAreCounted'
    BY <1>15 DEF DeadLetter, MayRetry
  <1>16. ASSUME NEW w \in Workers, Abandon(w)
        PROVE  AttemptsAreCounted'
    BY <1>16 DEF Abandon
  <1>17. ASSUME NEW e \in Events, BackoffElapses(e)
        PROVE  AttemptsAreCounted'
    BY <1>17 DEF BackoffElapses
  <1>18. ASSUME NEW e \in Events, NEW n \in wire[e], ProviderAccepts(e, n)
        PROVE  AttemptsAreCounted'
    BY <1>18 DEF ProviderAccepts
  <1>19. ASSUME NEW o \in Operators, NEW e \in Events, ReplayRead(o, e)
        PROVE  AttemptsAreCounted'
    BY <1>19 DEF ReplayRead
  <1>20. ASSUME NEW o \in Operators, ReplayWrite(o)
        PROVE  AttemptsAreCounted'
    BY <1>20 DEF ReplayWrite
  <1>21. ASSUME NEW h \in Handlers, NEW e \in Events, NEW s \in Reported, NEW n \in accepted[e], CallbackRead(h, e, n, s)
        PROVE  AttemptsAreCounted'
    BY <1>21 DEF CallbackRead
  <1>22. ASSUME NEW h \in Handlers, CallbackWrite(h)
        PROVE  AttemptsAreCounted'
    BY <1>22 DEF CallbackWrite
  <1>23. CASE ConsentChange
    BY <1>23 DEF ConsentChange
  <1>24. CASE UNCHANGED vars
    BY <1>24 DEF vars, deliveryVars
  <1> HIDE DEF AttemptsAreCounted, TypeOK, Status, Claimable, Reported, WorkerPc, NoCallback, NoRequest, rowVars,
              historyVars, workerVars, UnchangedElsewhere, At, Goto, Finish, Holds
  <1> QED
    BY <1>1, <1>2, <1>3, <1>4, <1>5, <1>6, <1>7, <1>8, <1>9, <1>10, <1>11, <1>12, <1>13,
       <1>14, <1>15, <1>16, <1>17, <1>18, <1>19, <1>20, <1>21, <1>22, <1>23, <1>24 DEF Next, WorkerStep, Reported

LEMMA IInvStep == IInv /\ [Next]_vars => IInv'
  BY TypeStep, RowsStep, HoldersStep, RequestsStep, AuthorisedStep, AttemptsStep DEF IInv

(* Claim numbers are accounted for along every behaviour. *)
THEOREM Accounting == Spec => []IInv
  BY IInvInit, IInvStep, PTL DEF Spec

-----------------------------------------------------------------------------
(* What the inductive invariant gives. *)

LEMMA TextsAreAuthorised == IInv => AtMostOneTextPerAuthorisation
  <1> SUFFICES ASSUME IInv, NEW e \in Events
               PROVE  Cardinality(accepted[e]) <= 1 + replays[e]
    BY DEF AtMostOneTextPerAuthorisation
  <1>1. /\ claims[e] \in Nat /\ replays[e] \in Nat
        /\ accepted[e] \subseteq 1..claims[e] /\ released[e] \subseteq 1..claims[e]
        /\ accepted[e] \cap released[e] = {}
    BY DEF IInv, TypeOK, RequestsComeFromClaims
  <1>2. IsFiniteSet(1..claims[e]) /\ Cardinality(1..claims[e]) = claims[e]
    <2>1. \A n \in Nat : IsFiniteSet(1..n) /\ Cardinality(1..n) = IF 1 > n THEN 0 ELSE n - 1 + 1
      BY FS_Interval
    <2> QED
      BY <1>1, <2>1
  <1>3. /\ IsFiniteSet(accepted[e]) /\ Cardinality(accepted[e]) \in Nat
        /\ IsFiniteSet(released[e]) /\ Cardinality(released[e]) \in Nat
    BY <1>1, <1>2, FS_Subset, FS_CardinalityType
  <1>4. Cardinality(accepted[e] \cup released[e]) = Cardinality(accepted[e]) + Cardinality(released[e])
    BY <1>1, <1>3, FS_Union, FS_EmptySet
  <1>5. Cardinality(accepted[e] \cup released[e]) <= claims[e]
    BY <1>1, <1>2, FS_Subset
  <1>6. claims[e] <= 1 + replays[e] + Cardinality(released[e])
    BY <1>1, <1>3 DEF IInv, ClaimsAreAuthorised
  <1> QED
    BY <1>1, <1>3, <1>4, <1>5, <1>6

(* However many workers, retries, ambiguous timeouts, replays and crashes  *)
(* interleave, an event's customer gets at most one text per replay beyond *)
(* the first.                                                              *)
THEOREM AtMostOnce == Spec => []AtMostOneTextPerAuthorisation
  BY Accounting, TextsAreAuthorised, PTL

(* No event is claimed more than MAX_ATTEMPTS times per authorisation. *)
THEOREM BoundedAttempts == Spec => []AttemptsAreBounded
  <1>1. IInv => AttemptsAreBounded
    <2> SUFFICES ASSUME IInv, NEW e \in Events
                 PROVE  claims[e] <= MAX_ATTEMPTS * (1 + replays[e])
      BY DEF AttemptsAreBounded
    <2>1. /\ claims[e] \in Nat /\ replays[e] \in Nat /\ attemptCount[e] <= MAX_ATTEMPTS
          /\ claims[e] <= MAX_ATTEMPTS * replays[e] + attemptCount[e]
      BY DEF IInv, TypeOK, AttemptsAreCounted
    <2> QED
      BY <2>1 DEF IInv, TypeOK
  <1> QED
    BY <1>1, Accounting, PTL

(* A delivery is retried only after a rejection that certainly sent nothing. *)
THEOREM RetrySafety == Spec => []RetriedOnlyAfterRejection
  <1>1. IInv => RetriedOnlyAfterRejection
    BY DEF IInv, RequestsComeFromClaims, RetriedOnlyAfterRejection
  <1> QED
    BY <1>1, Accounting, PTL

-----------------------------------------------------------------------------
(* Three more invariants, each with the strengthening it needs. *)

(* What makes a row SENT or DELIVERED, now or in a step already under way, *)
(* has an accepted text behind it.                                         *)
SentHasText ==
    /\ SentMeansAccepted
    /\ \A w \in Workers : pc[w] = "sent" => accepted[event[w]] # {}
    /\ \A h \in Handlers : handler[h] # NoCallback => accepted[handler[h].ev] # {}

(* An answered request has a row, and the row holds that request's text. *)
AnswersMatchRow ==
    \A a \in answered : status[a[1]] # "ABSENT" /\ requestHash[a[1]] = a[2]

LEMMA SentStep == TypeOK /\ SentHasText /\ [Next]_vars => SentHasText'
  <1> SUFFICES ASSUME TypeOK, SentHasText, [Next]_vars PROVE SentHasText'
    OBVIOUS
  <1> USE DEF SentHasText, SentMeansAccepted, TypeOK, Status, Claimable, Reported, WorkerPc, NoCallback, NoRequest, rowVars,
              historyVars, workerVars, UnchangedElsewhere, At, Goto, Finish
  <1>1. ASSUME NEW c \in Callers, NEW e \in Events, NEW h \in Hashes, CreateEvaluated(c, e, h)
        PROVE  SentHasText'
    BY <1>1 DEF CreateEvaluated
  <1>2. ASSUME NEW c \in Callers, CreateUpsert(c)
        PROVE  SentHasText'
    BY <1>2 DEF CreateUpsert, SameText
  <1>3. ASSUME NEW w \in Workers, NEW e \in Events, FindDue(w, e)
        PROVE  SentHasText'
    BY <1>3 DEF FindDue
  <1>4. ASSUME NEW w \in Workers, Claim(w)
        PROVE  SentHasText'
    BY <1>4 DEF Claim, CanClaim, NextAttempt
  <1>5. ASSUME NEW w \in Workers, ClaimLost(w)
        PROVE  SentHasText'
    BY <1>5 DEF ClaimLost
  <1>6. ASSUME NEW w \in Workers, Load(w)
        PROVE  SentHasText'
    BY <1>6 DEF Load
  <1>7. ASSUME NEW w \in Workers, CheckConsent(w)
        PROVE  SentHasText'
    BY <1>7 DEF CheckConsent
  <1>8. ASSUME NEW w \in Workers, PostToProvider(w)
        PROVE  SentHasText'
    BY <1>8 DEF PostToProvider
  <1>9. ASSUME NEW w \in Workers, ResponseAccepted(w)
        PROVE  SentHasText'
    BY <1>9 DEF ResponseAccepted
  <1>10. ASSUME NEW w \in Workers, ResponseRejected(w)
        PROVE  SentHasText'
    BY <1>10 DEF ResponseRejected
  <1>11. ASSUME NEW w \in Workers, ResponseAmbiguous(w)
        PROVE  SentHasText'
    BY <1>11 DEF ResponseAmbiguous, AfterAmbiguous
  <1>12. ASSUME NEW w \in Workers, RecordSent(w)
        PROVE  SentHasText'
    BY <1>12 DEF RecordSent
  <1>13. ASSUME NEW w \in Workers, RecordSentFails(w)
        PROVE  SentHasText'
    BY <1>13 DEF RecordSentFails
  <1>14. ASSUME NEW w \in Workers, RecordRetry(w)
        PROVE  SentHasText'
    BY <1>14 DEF RecordRetry, MayRetry
  <1>15. ASSUME NEW w \in Workers, DeadLetter(w)
        PROVE  SentHasText'
    BY <1>15 DEF DeadLetter, MayRetry
  <1>16. ASSUME NEW w \in Workers, Abandon(w)
        PROVE  SentHasText'
    BY <1>16 DEF Abandon
  <1>17. ASSUME NEW e \in Events, BackoffElapses(e)
        PROVE  SentHasText'
    BY <1>17 DEF BackoffElapses
  <1>18. ASSUME NEW e \in Events, NEW n \in wire[e], ProviderAccepts(e, n)
        PROVE  SentHasText'
    BY <1>18 DEF ProviderAccepts
  <1>19. ASSUME NEW o \in Operators, NEW e \in Events, ReplayRead(o, e)
        PROVE  SentHasText'
    BY <1>19 DEF ReplayRead
  <1>20. ASSUME NEW o \in Operators, ReplayWrite(o)
        PROVE  SentHasText'
    BY <1>20 DEF ReplayWrite
  <1>21. ASSUME NEW h \in Handlers, NEW e \in Events, NEW s \in Reported, NEW n \in accepted[e], CallbackRead(h, e, n, s)
        PROVE  SentHasText'
    BY <1>21 DEF CallbackRead
  <1>22. ASSUME NEW h \in Handlers, CallbackWrite(h)
        PROVE  SentHasText'
    BY <1>22 DEF CallbackWrite
  <1>23. CASE ConsentChange
    BY <1>23 DEF ConsentChange
  <1>24. CASE UNCHANGED vars
    BY <1>24 DEF vars, deliveryVars
  <1> HIDE DEF SentHasText, SentMeansAccepted, TypeOK, Status, Claimable, Reported, WorkerPc, NoCallback, NoRequest, rowVars,
              historyVars, workerVars, UnchangedElsewhere, At, Goto, Finish
  <1> QED
    BY <1>1, <1>2, <1>3, <1>4, <1>5, <1>6, <1>7, <1>8, <1>9, <1>10, <1>11, <1>12, <1>13,
       <1>14, <1>15, <1>16, <1>17, <1>18, <1>19, <1>20, <1>21, <1>22, <1>23, <1>24 DEF Next, WorkerStep, Reported

(* A text is reported as sent or delivered only when Twilio accepted one,  *)
(* whatever callbacks, replays and unknown outcomes come in between.       *)
THEOREM SentTextsWereAccepted == Spec => []SentMeansAccepted
  <1>1. Init => SentHasText
    BY DEF Init, SentHasText, SentMeansAccepted
  <1>2. SentHasText => SentMeansAccepted
    BY DEF SentHasText
  <1> QED
    BY <1>1, <1>2, TypeInit, TypeStep, SentStep, PTL DEF Spec

LEMMA ConsentStep == TypeOK /\ SendingImpliesConsent /\ [Next]_vars => SendingImpliesConsent'
  <1> SUFFICES ASSUME TypeOK, SendingImpliesConsent, [Next]_vars PROVE SendingImpliesConsent'
    OBVIOUS
  <1> USE DEF SendingImpliesConsent, MayText, consentVars, TypeOK, Status, Claimable, Reported, WorkerPc, NoCallback, NoRequest, rowVars,
              historyVars, workerVars, UnchangedElsewhere, At, Goto, Finish
  <1>1. ASSUME NEW c \in Callers, NEW e \in Events, NEW h \in Hashes, CreateEvaluated(c, e, h)
        PROVE  SendingImpliesConsent'
    BY <1>1 DEF CreateEvaluated
  <1>2. ASSUME NEW c \in Callers, CreateUpsert(c)
        PROVE  SendingImpliesConsent'
    BY <1>2 DEF CreateUpsert, SameText
  <1>3. ASSUME NEW w \in Workers, NEW e \in Events, FindDue(w, e)
        PROVE  SendingImpliesConsent'
    BY <1>3 DEF FindDue
  <1>4. ASSUME NEW w \in Workers, Claim(w)
        PROVE  SendingImpliesConsent'
    BY <1>4 DEF Claim, CanClaim, NextAttempt
  <1>5. ASSUME NEW w \in Workers, ClaimLost(w)
        PROVE  SendingImpliesConsent'
    BY <1>5 DEF ClaimLost
  <1>6. ASSUME NEW w \in Workers, Load(w)
        PROVE  SendingImpliesConsent'
    BY <1>6 DEF Load
  <1>7. ASSUME NEW w \in Workers, CheckConsent(w)
        PROVE  SendingImpliesConsent'
    BY <1>7 DEF CheckConsent
  <1>8. ASSUME NEW w \in Workers, PostToProvider(w)
        PROVE  SendingImpliesConsent'
    BY <1>8 DEF PostToProvider
  <1>9. ASSUME NEW w \in Workers, ResponseAccepted(w)
        PROVE  SendingImpliesConsent'
    BY <1>9 DEF ResponseAccepted
  <1>10. ASSUME NEW w \in Workers, ResponseRejected(w)
        PROVE  SendingImpliesConsent'
    BY <1>10 DEF ResponseRejected
  <1>11. ASSUME NEW w \in Workers, ResponseAmbiguous(w)
        PROVE  SendingImpliesConsent'
    BY <1>11 DEF ResponseAmbiguous, AfterAmbiguous
  <1>12. ASSUME NEW w \in Workers, RecordSent(w)
        PROVE  SendingImpliesConsent'
    BY <1>12 DEF RecordSent
  <1>13. ASSUME NEW w \in Workers, RecordSentFails(w)
        PROVE  SendingImpliesConsent'
    BY <1>13 DEF RecordSentFails
  <1>14. ASSUME NEW w \in Workers, RecordRetry(w)
        PROVE  SendingImpliesConsent'
    BY <1>14 DEF RecordRetry, MayRetry
  <1>15. ASSUME NEW w \in Workers, DeadLetter(w)
        PROVE  SendingImpliesConsent'
    BY <1>15 DEF DeadLetter, MayRetry
  <1>16. ASSUME NEW w \in Workers, Abandon(w)
        PROVE  SendingImpliesConsent'
    BY <1>16 DEF Abandon
  <1>17. ASSUME NEW e \in Events, BackoffElapses(e)
        PROVE  SendingImpliesConsent'
    BY <1>17 DEF BackoffElapses
  <1>18. ASSUME NEW e \in Events, NEW n \in wire[e], ProviderAccepts(e, n)
        PROVE  SendingImpliesConsent'
    BY <1>18 DEF ProviderAccepts
  <1>19. ASSUME NEW o \in Operators, NEW e \in Events, ReplayRead(o, e)
        PROVE  SendingImpliesConsent'
    BY <1>19 DEF ReplayRead
  <1>20. ASSUME NEW o \in Operators, ReplayWrite(o)
        PROVE  SendingImpliesConsent'
    BY <1>20 DEF ReplayWrite
  <1>21. ASSUME NEW h \in Handlers, NEW e \in Events, NEW s \in Reported, NEW n \in accepted[e], CallbackRead(h, e, n, s)
        PROVE  SendingImpliesConsent'
    BY <1>21 DEF CallbackRead
  <1>22. ASSUME NEW h \in Handlers, CallbackWrite(h)
        PROVE  SendingImpliesConsent'
    BY <1>22 DEF CallbackWrite
  <1>23. CASE ConsentChange
    BY <1>23 DEF ConsentChange
  <1>24. CASE UNCHANGED vars
    BY <1>24 DEF vars, deliveryVars, consentVars
  <1> HIDE DEF SendingImpliesConsent, MayText, consentVars, TypeOK, Status, Claimable, Reported, WorkerPc, NoCallback, NoRequest, rowVars,
              historyVars, workerVars, UnchangedElsewhere, At, Goto, Finish
  <1> QED
    BY <1>1, <1>2, <1>3, <1>4, <1>5, <1>6, <1>7, <1>8, <1>9, <1>10, <1>11, <1>12, <1>13,
       <1>14, <1>15, <1>16, <1>17, <1>18, <1>19, <1>20, <1>21, <1>22, <1>23, <1>24 DEF Next, WorkerStep, Reported

(* Every delivery past its check has consent, or saw it change under way. *)
THEOREM DeliveriesHaveConsent == Spec => []SendingImpliesConsent
  <1>1. Init => SendingImpliesConsent
    BY DEF Init, SendingImpliesConsent
  <1> QED
    BY <1>1, TypeInit, TypeStep, ConsentStep, PTL DEF Spec

LEMMA AnswersStep == TypeOK /\ AnswersMatchRow /\ [Next]_vars => AnswersMatchRow'
  <1> SUFFICES ASSUME TypeOK, AnswersMatchRow, [Next]_vars PROVE AnswersMatchRow'
    OBVIOUS
  <1> USE DEF AnswersMatchRow, TypeOK, Status, Claimable, Reported, WorkerPc, NoCallback, NoRequest, rowVars,
              historyVars, workerVars, UnchangedElsewhere, At, Goto, Finish
  <1>1. ASSUME NEW c \in Callers, NEW e \in Events, NEW h \in Hashes, CreateEvaluated(c, e, h)
        PROVE  AnswersMatchRow'
    BY <1>1 DEF CreateEvaluated
  <1>2. ASSUME NEW c \in Callers, CreateUpsert(c)
        PROVE  AnswersMatchRow'
    BY <1>2 DEF CreateUpsert, SameText
  <1>3. ASSUME NEW w \in Workers, NEW e \in Events, FindDue(w, e)
        PROVE  AnswersMatchRow'
    BY <1>3 DEF FindDue
  <1>4. ASSUME NEW w \in Workers, Claim(w)
        PROVE  AnswersMatchRow'
    BY <1>4 DEF Claim, CanClaim, NextAttempt
  <1>5. ASSUME NEW w \in Workers, ClaimLost(w)
        PROVE  AnswersMatchRow'
    BY <1>5 DEF ClaimLost
  <1>6. ASSUME NEW w \in Workers, Load(w)
        PROVE  AnswersMatchRow'
    BY <1>6 DEF Load
  <1>7. ASSUME NEW w \in Workers, CheckConsent(w)
        PROVE  AnswersMatchRow'
    BY <1>7 DEF CheckConsent
  <1>8. ASSUME NEW w \in Workers, PostToProvider(w)
        PROVE  AnswersMatchRow'
    BY <1>8 DEF PostToProvider
  <1>9. ASSUME NEW w \in Workers, ResponseAccepted(w)
        PROVE  AnswersMatchRow'
    BY <1>9 DEF ResponseAccepted
  <1>10. ASSUME NEW w \in Workers, ResponseRejected(w)
        PROVE  AnswersMatchRow'
    BY <1>10 DEF ResponseRejected
  <1>11. ASSUME NEW w \in Workers, ResponseAmbiguous(w)
        PROVE  AnswersMatchRow'
    BY <1>11 DEF ResponseAmbiguous, AfterAmbiguous
  <1>12. ASSUME NEW w \in Workers, RecordSent(w)
        PROVE  AnswersMatchRow'
    BY <1>12 DEF RecordSent
  <1>13. ASSUME NEW w \in Workers, RecordSentFails(w)
        PROVE  AnswersMatchRow'
    BY <1>13 DEF RecordSentFails
  <1>14. ASSUME NEW w \in Workers, RecordRetry(w)
        PROVE  AnswersMatchRow'
    BY <1>14 DEF RecordRetry, MayRetry
  <1>15. ASSUME NEW w \in Workers, DeadLetter(w)
        PROVE  AnswersMatchRow'
    BY <1>15 DEF DeadLetter, MayRetry
  <1>16. ASSUME NEW w \in Workers, Abandon(w)
        PROVE  AnswersMatchRow'
    BY <1>16 DEF Abandon
  <1>17. ASSUME NEW e \in Events, BackoffElapses(e)
        PROVE  AnswersMatchRow'
    BY <1>17 DEF BackoffElapses
  <1>18. ASSUME NEW e \in Events, NEW n \in wire[e], ProviderAccepts(e, n)
        PROVE  AnswersMatchRow'
    BY <1>18 DEF ProviderAccepts
  <1>19. ASSUME NEW o \in Operators, NEW e \in Events, ReplayRead(o, e)
        PROVE  AnswersMatchRow'
    BY <1>19 DEF ReplayRead
  <1>20. ASSUME NEW o \in Operators, ReplayWrite(o)
        PROVE  AnswersMatchRow'
    BY <1>20 DEF ReplayWrite
  <1>21. ASSUME NEW h \in Handlers, NEW e \in Events, NEW s \in Reported, NEW n \in accepted[e], CallbackRead(h, e, n, s)
        PROVE  AnswersMatchRow'
    BY <1>21 DEF CallbackRead
  <1>22. ASSUME NEW h \in Handlers, CallbackWrite(h)
        PROVE  AnswersMatchRow'
    BY <1>22 DEF CallbackWrite
  <1>23. CASE ConsentChange
    BY <1>23 DEF ConsentChange
  <1>24. CASE UNCHANGED vars
    BY <1>24 DEF vars, deliveryVars
  <1> HIDE DEF AnswersMatchRow, TypeOK, Status, Claimable, Reported, WorkerPc, NoCallback, NoRequest, rowVars,
              historyVars, workerVars, UnchangedElsewhere, At, Goto, Finish
  <1> QED
    BY <1>1, <1>2, <1>3, <1>4, <1>5, <1>6, <1>7, <1>8, <1>9, <1>10, <1>11, <1>12, <1>13,
       <1>14, <1>15, <1>16, <1>17, <1>18, <1>19, <1>20, <1>21, <1>22, <1>23, <1>24 DEF Next, WorkerStep, Reported

(* However many callers share an idempotency key, one text is promised. *)
THEOREM KeysNameOneText == Spec => []OneTextPerKey
  <1>1. Init => AnswersMatchRow
    BY DEF Init, AnswersMatchRow
  <1>2. AnswersMatchRow => OneTextPerKey
    BY DEF AnswersMatchRow, OneTextPerKey
  <1> QED
    BY <1>1, <1>2, TypeInit, TypeStep, AnswersStep, PTL DEF Spec

-----------------------------------------------------------------------------
(* Consent comes first from a verbal decision. *)

(* The phone of a START request has a record. *)
RestoredIsKnown == \A k \in Keywords : restoring[k] # NoPhone => consent[restoring[k]] # "NONE"

(* The deliveries leave the consent records alone. *)
LEMMA ConsentIsApart == [Next]_vars => ConsentNext \/ UNCHANGED consentVars
  <1> SUFFICES ASSUME [Next]_vars, ~ConsentNext PROVE UNCHANGED consentVars
    OBVIOUS
  <1>1. ASSUME NEW w \in Workers, WorkerStep(w) \/ Abandon(w) PROVE UNCHANGED consentVars
    BY <1>1 DEF WorkerStep, FindDue, Claim, ClaimLost, Load, CheckConsent, PostToProvider,
                ResponseAccepted, ResponseRejected, ResponseAmbiguous, AfterAmbiguous,
                RecordSent, RecordSentFails, RecordRetry, DeadLetter, Abandon, UnchangedElsewhere
  <1>2. ASSUME NEW e \in Events, BackoffElapses(e) \/ \E n \in wire[e] : ProviderAccepts(e, n)
        PROVE  UNCHANGED consentVars
    BY <1>2 DEF BackoffElapses, ProviderAccepts, UnchangedElsewhere
  <1>3. ASSUME NEW c \in Callers,
               CreateUpsert(c) \/ \E e \in Events, h \in Hashes : CreateEvaluated(c, e, h)
        PROVE  UNCHANGED consentVars
    BY <1>3 DEF CreateEvaluated, CreateUpsert
  <1>4. ASSUME NEW o \in Operators, ReplayWrite(o) \/ \E e \in Events : ReplayRead(o, e)
        PROVE  UNCHANGED consentVars
    BY <1>4 DEF ReplayRead, ReplayWrite
  <1>5. ASSUME NEW h \in Handlers,
               \/ CallbackWrite(h)
               \/ \E e \in Events, s \in Reported : \E n \in accepted[e] : CallbackRead(h, e, n, s)
        PROVE  UNCHANGED consentVars
    BY <1>5 DEF CallbackRead, CallbackWrite
  <1>6. ~ConsentChange
    BY DEF ConsentChange
  <1>7. CASE UNCHANGED vars
    BY <1>7 DEF vars
  <1> QED
    BY <1>1, <1>2, <1>3, <1>4, <1>5, <1>6, <1>7 DEF Next

(* A record that exists is never removed, and START reads one first. *)
LEMMA RestoredStep ==
  ASSUME TypeOK, RestoredIsKnown, [Next]_vars
  PROVE  /\ RestoredIsKnown'
         /\ \A p \in Phones :
              consent[p] = "NONE" /\ consent'[p] = "OPTED_IN" => source'[p] = "VERBAL"
  <1> USE DEF TypeOK, ConsentTypeOK, RestoredIsKnown, PersistConsent
  <1>1. CASE UNCHANGED consentVars
    BY <1>1 DEF consentVars
  <1>2. ASSUME NEW p \in Phones, NEW a \in BOOLEAN, RecordVerbalConsent(p, a)
        PROVE  /\ RestoredIsKnown'
               /\ \A q \in Phones :
                    consent[q] = "NONE" /\ consent'[q] = "OPTED_IN" => source'[q] = "VERBAL"
    BY <1>2 DEF RecordVerbalConsent
  <1>3. ASSUME NEW p \in Phones, Stop(p)
        PROVE  /\ RestoredIsKnown'
               /\ \A q \in Phones :
                    consent[q] = "NONE" /\ consent'[q] = "OPTED_IN" => source'[q] = "VERBAL"
    BY <1>3 DEF Stop
  <1>4. ASSUME NEW k \in Keywords, NEW p \in Phones, StartFound(k, p)
        PROVE  /\ RestoredIsKnown'
               /\ \A q \in Phones :
                    consent[q] = "NONE" /\ consent'[q] = "OPTED_IN" => source'[q] = "VERBAL"
    BY <1>4 DEF StartFound, MayRestore
  <1>5. ASSUME NEW k \in Keywords, StartWrite(k)
        PROVE  /\ RestoredIsKnown'
               /\ \A q \in Phones :
                    consent[q] = "NONE" /\ consent'[q] = "OPTED_IN" => source'[q] = "VERBAL"
    BY <1>5 DEF StartWrite
  <1> HIDE DEF TypeOK, ConsentTypeOK, RestoredIsKnown, PersistConsent
  <1> QED
    BY <1>1, <1>2, <1>3, <1>4, <1>5, ConsentIsApart DEF ConsentNext

(* A phone without a consent record is opted in by a verbal decision only,   *)
(* however the webhook requests overlap.                                     *)
THEOREM ConsentIsVerbalFirst == Spec => FirstConsentIsVerbal
  <1>1. Init => RestoredIsKnown
    BY DEF Init, ConsentInit, RestoredIsKnown
  <1>2. TypeOK /\ RestoredIsKnown /\ [Next]_vars =>
          /\ RestoredIsKnown'
          /\ [\A p \in Phones : consent[p] = "NONE" /\ consent'[p] = "OPTED_IN" =>
                                  source'[p] = "VERBAL"]_consentVars
    BY RestoredStep
  <1> QED
    BY <1>1, <1>2, TypeInit, TypeStep, PTL DEF Spec, FirstConsentIsVerbal
=============================================================================
