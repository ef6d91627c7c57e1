---------------------------- MODULE IntakeProofs ----------------------------
(* Proofs about Intake for any number of sessions, overlapping turns and   *)
(* faults.                                                                 *)
EXTENDS Intake, TLAPS

USE IntakeAssumption

-----------------------------------------------------------------------------
(* Type correctness. *)

LEMMA TypeInit == Init => TypeOK
  BY DEF Init, TypeOK, Pc

LEMMA TypeStep == TypeOK /\ [Next]_vars => TypeOK'
  <1> SUFFICES ASSUME TypeOK, [Next]_vars PROVE TypeOK'
    OBVIOUS
  <1> USE DEF TypeOK, Pc, Notices, Replies, Ends, Tells, Goto, Enqueue, dbVars, callVars, noteVars
  <1>1. ASSUME NEW t \in Turns, NEW s \in Sessions, TurnBegins(t, s)
        PROVE  TypeOK'
    BY <1>1 DEF TurnBegins
  <1>2. ASSUME NEW t \in Turns, CreatePlaceholder(t) \/ PlaceholderTaken(t)
        PROVE  TypeOK'
    BY <1>2 DEF CreatePlaceholder, OpensConversation, PlaceholderTaken, PhoneIsFree
  <1>3. ASSUME NEW t \in Turns, CreateConversation(t)
        PROVE  TypeOK'
    BY <1>3 DEF CreateConversation
  <1>4. ASSUME NEW t \in Turns, TurnAnswers(t) \/ ArgumentsRefused(t)
        PROVE  TypeOK'
    BY <1>4 DEF TurnAnswers, ArgumentsRefused
  <1>5. ASSUME NEW t \in Turns, ToolCalled(t) \/ ClaimsSubmission(t) \/ ForcedToolCalled(t) \/ ForcedCallFails(t)
        PROVE  TypeOK'
    BY <1>5 DEF ToolCalled, ClaimsSubmission, ForcedToolCalled, ForcedCallFails
  <1>6. ASSUME NEW t \in Turns, FindsJob(t) \/ FindsNone(t)
        PROVE  TypeOK'
    BY <1>6 DEF FindsJob, FindsNone
  <1>7. ASSUME NEW t \in Turns, CreateJob(t)
        PROVE  TypeOK'
    BY <1>7 DEF CreateJob, SessionIsFree
  <1>8. ASSUME NEW t \in Turns, LinkJobToConversation(t) \/ LogJob(t) \/ ClearSession(t)
        PROVE  TypeOK'
    BY <1>8 DEF LinkJobToConversation, LinkRow, LogJob, ClearSession
  <1>9. ASSUME NEW t \in Turns, OffersSlots(t) \/ NoSlots(t)
        PROVE  TypeOK'
    BY <1>9 DEF OffersSlots, NoSlots, AnnouncesJob
  <1>10. ASSUME NEW t \in Turns, OrphanedIntake(t) \/ OrphanUnlogged(t)
        PROVE  TypeOK'
    BY <1>10 DEF OrphanedIntake, OrphanUnlogged
  <1>11. ASSUME NEW t \in Turns, StatementFails(t) \/ TurnLost(t)
        PROVE  TypeOK'
    BY <1>11 DEF StatementFails, TurnLost
  <1>12. ASSUME NotificationEnds
        PROVE  TypeOK'
    BY <1>12 DEF NotificationEnds
  <1>13. ASSUME UNCHANGED vars
        PROVE  TypeOK'
    BY <1>13 DEF vars
  <1> QED
    BY <1>1, <1>2, <1>3, <1>4, <1>5, <1>6, <1>7, <1>8, <1>9, <1>10, <1>11, <1>12, <1>13 DEF Next, TurnSteps

-----------------------------------------------------------------------------
(* The parts of the inductive invariant, one step each. *)

LEMMA InvInit == Init => IInv
  BY TypeInit DEF Init, IInv, ConversationsInv, JobsInv, OnePerSession, SavedIsSaved,
                  FollowUpIsAnnounced, SessionsStayUsable

LEMMA ConversationsStep ==
    IInv /\ [Next]_vars => ConversationsInv' /\ \A s \in Sessions : conversations'[s] <= 1
  <1> DEFINE Goal == ConversationsInv' /\ \A s \in Sessions : conversations'[s] <= 1
  <1> SUFFICES ASSUME IInv, [Next]_vars PROVE Goal
    OBVIOUS
  <1> USE DEF IInv, TypeOK, ConversationsInv, OnePerSession, At, Ends, Tells, Goto, Enqueue,
              dbVars, callVars
  <1>1. ASSUME NEW t \in Turns, NEW s \in Sessions, TurnBegins(t, s)
        PROVE  Goal
    BY <1>1 DEF TurnBegins
  <1>2. ASSUME NEW t \in Turns, CreatePlaceholder(t) \/ PlaceholderTaken(t)
        PROVE  Goal
    BY <1>2 DEF CreatePlaceholder, OpensConversation, PlaceholderTaken, PhoneIsFree
  <1>3. ASSUME NEW t \in Turns, CreateConversation(t)
        PROVE  Goal
    BY <1>3 DEF CreateConversation
  <1>4. ASSUME NEW t \in Turns, TurnAnswers(t) \/ ArgumentsRefused(t)
        PROVE  Goal
    BY <1>4 DEF TurnAnswers, ArgumentsRefused
  <1>5. ASSUME NEW t \in Turns, ToolCalled(t) \/ ClaimsSubmission(t) \/ ForcedToolCalled(t) \/ ForcedCallFails(t)
        PROVE  Goal
    BY <1>5 DEF ToolCalled, ClaimsSubmission, ForcedToolCalled, ForcedCallFails
  <1>6. ASSUME NEW t \in Turns, FindsJob(t) \/ FindsNone(t)
        PROVE  Goal
    BY <1>6 DEF FindsJob, FindsNone
  <1>7. ASSUME NEW t \in Turns, CreateJob(t)
        PROVE  Goal
    BY <1>7 DEF CreateJob, SessionIsFree
  <1>8. ASSUME NEW t \in Turns, LinkJobToConversation(t) \/ LogJob(t) \/ ClearSession(t)
        PROVE  Goal
    BY <1>8 DEF LinkJobToConversation, LinkRow, LogJob, ClearSession
  <1>9. ASSUME NEW t \in Turns, OffersSlots(t) \/ NoSlots(t)
        PROVE  Goal
    BY <1>9 DEF OffersSlots, NoSlots, AnnouncesJob
  <1>10. ASSUME NEW t \in Turns, OrphanedIntake(t) \/ OrphanUnlogged(t)
        PROVE  Goal
    BY <1>10 DEF OrphanedIntake, OrphanUnlogged
  <1>11. ASSUME NEW t \in Turns, StatementFails(t) \/ TurnLost(t)
        PROVE  Goal
    BY <1>11 DEF StatementFails, TurnLost
  <1>12. ASSUME NotificationEnds
        PROVE  Goal
    BY <1>12 DEF NotificationEnds
  <1>13. ASSUME UNCHANGED vars
        PROVE  Goal
    BY <1>13 DEF vars
  <1> QED
    BY <1>1, <1>2, <1>3, <1>4, <1>5, <1>6, <1>7, <1>8, <1>9, <1>10, <1>11, <1>12, <1>13 DEF Next, TurnSteps

LEMMA JobsStep == IInv /\ [Next]_vars => JobsInv' /\ \A s \in Sessions : jobs'[s] <= 1
  <1> DEFINE Goal == JobsInv' /\ \A s \in Sessions : jobs'[s] <= 1
  <1> SUFFICES ASSUME IInv, [Next]_vars PROVE Goal
    OBVIOUS
  <1> USE DEF IInv, TypeOK, JobsInv, OnePerSession, Ends, Tells, Goto, Enqueue, dbVars, callVars
  <1>1. ASSUME NEW t \in Turns, NEW s \in Sessions, TurnBegins(t, s)
        PROVE  Goal
    BY <1>1 DEF TurnBegins
  <1>2. ASSUME NEW t \in Turns, CreatePlaceholder(t) \/ PlaceholderTaken(t)
        PROVE  Goal
    BY <1>2 DEF CreatePlaceholder, OpensConversation, PlaceholderTaken
  <1>3. ASSUME NEW t \in Turns, CreateConversation(t)
        PROVE  Goal
    BY <1>3 DEF CreateConversation
  <1>4. ASSUME NEW t \in Turns, TurnAnswers(t) \/ ArgumentsRefused(t)
        PROVE  Goal
    BY <1>4 DEF TurnAnswers, ArgumentsRefused
  <1>5. ASSUME NEW t \in Turns, ToolCalled(t) \/ ClaimsSubmission(t) \/ ForcedToolCalled(t) \/ ForcedCallFails(t)
        PROVE  Goal
    BY <1>5 DEF ToolCalled, ClaimsSubmission, ForcedToolCalled, ForcedCallFails
  <1>6. ASSUME NEW t \in Turns, FindsJob(t) \/ FindsNone(t)
        PROVE  Goal
    BY <1>6 DEF FindsJob, FindsNone
  <1>7. ASSUME NEW t \in Turns, CreateJob(t)
        PROVE  Goal
    BY <1>7 DEF CreateJob, SessionIsFree
  <1>8. ASSUME NEW t \in Turns, LinkJobToConversation(t) \/ LogJob(t) \/ ClearSession(t)
        PROVE  Goal
    BY <1>8 DEF LinkJobToConversation, LinkRow, LogJob, ClearSession
  <1>9. ASSUME NEW t \in Turns, OffersSlots(t) \/ NoSlots(t)
        PROVE  Goal
    BY <1>9 DEF OffersSlots, NoSlots, AnnouncesJob
  <1>10. ASSUME NEW t \in Turns, OrphanedIntake(t) \/ OrphanUnlogged(t)
        PROVE  Goal
    BY <1>10 DEF OrphanedIntake, OrphanUnlogged
  <1>11. ASSUME NEW t \in Turns, StatementFails(t) \/ TurnLost(t)
        PROVE  Goal
    BY <1>11 DEF StatementFails, TurnLost
  <1>12. ASSUME NotificationEnds
        PROVE  Goal
    BY <1>12 DEF NotificationEnds
  <1>13. ASSUME UNCHANGED vars
        PROVE  Goal
    BY <1>13 DEF vars
  <1> QED
    BY <1>1, <1>2, <1>3, <1>4, <1>5, <1>6, <1>7, <1>8, <1>9, <1>10, <1>11, <1>12, <1>13 DEF Next, TurnSteps

LEMMA SavedStep == IInv /\ [Next]_vars => SavedIsSaved'
  <1> SUFFICES ASSUME IInv, [Next]_vars PROVE SavedIsSaved'
    OBVIOUS
  <1> USE DEF IInv, TypeOK, JobsInv, OnePerSession, SavedIsSaved, Ends, Tells, Goto, Enqueue,
              dbVars, callVars
  <1>1. ASSUME NEW t \in Turns, NEW s \in Sessions, TurnBegins(t, s)
        PROVE  SavedIsSaved'
    BY <1>1 DEF TurnBegins
  <1>2. ASSUME NEW t \in Turns, CreatePlaceholder(t) \/ PlaceholderTaken(t)
        PROVE  SavedIsSaved'
    BY <1>2 DEF CreatePlaceholder, OpensConversation, PlaceholderTaken
  <1>3. ASSUME NEW t \in Turns, CreateConversation(t)
        PROVE  SavedIsSaved'
    BY <1>3 DEF CreateConversation
  <1>4. ASSUME NEW t \in Turns, TurnAnswers(t) \/ ArgumentsRefused(t)
        PROVE  SavedIsSaved'
    BY <1>4 DEF TurnAnswers, ArgumentsRefused
  <1>5. ASSUME NEW t \in Turns, ToolCalled(t) \/ ClaimsSubmission(t) \/ ForcedToolCalled(t) \/ ForcedCallFails(t)
        PROVE  SavedIsSaved'
    BY <1>5 DEF ToolCalled, ClaimsSubmission, ForcedToolCalled, ForcedCallFails
  <1>6. ASSUME NEW t \in Turns, FindsJob(t) \/ FindsNone(t)
        PROVE  SavedIsSaved'
    BY <1>6 DEF FindsJob, FindsNone
  <1>7. ASSUME NEW t \in Turns, CreateJob(t)
        PROVE  SavedIsSaved'
    BY <1>7 DEF CreateJob, SessionIsFree
  <1>8. ASSUME NEW t \in Turns, LinkJobToConversation(t) \/ LogJob(t) \/ ClearSession(t)
        PROVE  SavedIsSaved'
    BY <1>8 DEF LinkJobToConversation, LinkRow, LogJob, ClearSession
  <1>9. ASSUME NEW t \in Turns, OffersSlots(t) \/ NoSlots(t)
        PROVE  SavedIsSaved'
    BY <1>9 DEF OffersSlots, NoSlots, AnnouncesJob
  <1>10. ASSUME NEW t \in Turns, OrphanedIntake(t) \/ OrphanUnlogged(t)
        PROVE  SavedIsSaved'
    BY <1>10 DEF OrphanedIntake, OrphanUnlogged
  <1>11. ASSUME NEW t \in Turns, StatementFails(t) \/ TurnLost(t)
        PROVE  SavedIsSaved'
    BY <1>11 DEF StatementFails, TurnLost
  <1>12. ASSUME NotificationEnds
        PROVE  SavedIsSaved'
    BY <1>12 DEF NotificationEnds
  <1>13. ASSUME UNCHANGED vars
        PROVE  SavedIsSaved'
    BY <1>13 DEF vars
  <1> QED
    BY <1>1, <1>2, <1>3, <1>4, <1>5, <1>6, <1>7, <1>8, <1>9, <1>10, <1>11, <1>12, <1>13 DEF Next, TurnSteps

LEMMA FollowUpStep == IInv /\ [Next]_vars => FollowUpIsAnnounced'
  <1> SUFFICES ASSUME IInv, [Next]_vars PROVE FollowUpIsAnnounced'
    OBVIOUS
  <1> USE DEF IInv, TypeOK, FollowUpIsAnnounced, Ends, Tells, Goto, Enqueue, noteVars
  <1>1. ASSUME NEW t \in Turns, NEW s \in Sessions, TurnBegins(t, s)
        PROVE  FollowUpIsAnnounced'
    BY <1>1 DEF TurnBegins
  <1>2. ASSUME NEW t \in Turns, CreatePlaceholder(t) \/ PlaceholderTaken(t)
        PROVE  FollowUpIsAnnounced'
    BY <1>2 DEF CreatePlaceholder, OpensConversation, PlaceholderTaken
  <1>3. ASSUME NEW t \in Turns, CreateConversation(t)
        PROVE  FollowUpIsAnnounced'
    BY <1>3 DEF CreateConversation
  <1>4. ASSUME NEW t \in Turns, TurnAnswers(t) \/ ArgumentsRefused(t)
        PROVE  FollowUpIsAnnounced'
    BY <1>4 DEF TurnAnswers, ArgumentsRefused
  <1>5. ASSUME NEW t \in Turns, ToolCalled(t) \/ ClaimsSubmission(t) \/ ForcedToolCalled(t) \/ ForcedCallFails(t)
        PROVE  FollowUpIsAnnounced'
    BY <1>5 DEF ToolCalled, ClaimsSubmission, ForcedToolCalled, ForcedCallFails
  <1>6. ASSUME NEW t \in Turns, FindsJob(t) \/ FindsNone(t)
        PROVE  FollowUpIsAnnounced'
    BY <1>6 DEF FindsJob, FindsNone
  <1>7. ASSUME NEW t \in Turns, CreateJob(t)
        PROVE  FollowUpIsAnnounced'
    BY <1>7 DEF CreateJob, SessionIsFree
  <1>8. ASSUME NEW t \in Turns, LinkJobToConversation(t) \/ LogJob(t) \/ ClearSession(t)
        PROVE  FollowUpIsAnnounced'
    BY <1>8 DEF LinkJobToConversation, LinkRow, LogJob, ClearSession
  <1>9. ASSUME NEW t \in Turns, OffersSlots(t) \/ NoSlots(t)
        PROVE  FollowUpIsAnnounced'
    BY <1>9 DEF OffersSlots, NoSlots, AnnouncesJob
  <1>10. ASSUME NEW t \in Turns, OrphanedIntake(t) \/ OrphanUnlogged(t)
        PROVE  FollowUpIsAnnounced'
    BY <1>10 DEF OrphanedIntake, OrphanUnlogged
  <1>11. ASSUME NEW t \in Turns, StatementFails(t) \/ TurnLost(t)
        PROVE  FollowUpIsAnnounced'
    BY <1>11 DEF StatementFails, TurnLost
  <1>12. ASSUME NotificationEnds
        PROVE  FollowUpIsAnnounced'
    BY <1>12 DEF NotificationEnds
  <1>13. ASSUME UNCHANGED vars
        PROVE  FollowUpIsAnnounced'
    BY <1>13 DEF vars
  <1> QED
    BY <1>1, <1>2, <1>3, <1>4, <1>5, <1>6, <1>7, <1>8, <1>9, <1>10, <1>11, <1>12, <1>13 DEF Next, TurnSteps

LEMMA UsableStep == IInv /\ [Next]_vars => SessionsStayUsable'
  <1> SUFFICES ASSUME IInv, [Next]_vars PROVE SessionsStayUsable'
    OBVIOUS
  <1> USE DEF IInv, TypeOK, SessionsStayUsable, Ends, Tells, Goto, Enqueue, dbVars, callVars
  <1>1. ASSUME NEW t \in Turns, NEW s \in Sessions, TurnBegins(t, s)
        PROVE  SessionsStayUsable'
    BY <1>1 DEF TurnBegins
  <1>2. ASSUME NEW t \in Turns, CreatePlaceholder(t) \/ PlaceholderTaken(t)
        PROVE  SessionsStayUsable'
    BY <1>2 DEF CreatePlaceholder, OpensConversation, PlaceholderTaken
  <1>3. ASSUME NEW t \in Turns, CreateConversation(t)
        PROVE  SessionsStayUsable'
    BY <1>3 DEF CreateConversation
  <1>4. ASSUME NEW t \in Turns, TurnAnswers(t) \/ ArgumentsRefused(t)
        PROVE  SessionsStayUsable'
    BY <1>4 DEF TurnAnswers, ArgumentsRefused
  <1>5. ASSUME NEW t \in Turns, ToolCalled(t) \/ ClaimsSubmission(t) \/ ForcedToolCalled(t) \/ ForcedCallFails(t)
        PROVE  SessionsStayUsable'
    BY <1>5 DEF ToolCalled, ClaimsSubmission, ForcedToolCalled, ForcedCallFails
  <1>6. ASSUME NEW t \in Turns, FindsJob(t) \/ FindsNone(t)
        PROVE  SessionsStayUsable'
    BY <1>6 DEF FindsJob, FindsNone
  <1>7. ASSUME NEW t \in Turns, CreateJob(t)
        PROVE  SessionsStayUsable'
    BY <1>7 DEF CreateJob, SessionIsFree
  <1>8. ASSUME NEW t \in Turns, LinkJobToConversation(t) \/ LogJob(t) \/ ClearSession(t)
        PROVE  SessionsStayUsable'
    BY <1>8 DEF LinkJobToConversation, LinkRow, LogJob, ClearSession
  <1>9. ASSUME NEW t \in Turns, OffersSlots(t) \/ NoSlots(t)
        PROVE  SessionsStayUsable'
    BY <1>9 DEF OffersSlots, NoSlots, AnnouncesJob
  <1>10. ASSUME NEW t \in Turns, OrphanedIntake(t) \/ OrphanUnlogged(t)
        PROVE  SessionsStayUsable'
    BY <1>10 DEF OrphanedIntake, OrphanUnlogged
  <1>11. ASSUME NEW t \in Turns, StatementFails(t) \/ TurnLost(t)
        PROVE  SessionsStayUsable'
    BY <1>11 DEF StatementFails, TurnLost
  <1>12. ASSUME NotificationEnds
        PROVE  SessionsStayUsable'
    BY <1>12 DEF NotificationEnds
  <1>13. ASSUME UNCHANGED vars
        PROVE  SessionsStayUsable'
    BY <1>13 DEF vars
  <1> QED
    BY <1>1, <1>2, <1>3, <1>4, <1>5, <1>6, <1>7, <1>8, <1>9, <1>10, <1>11, <1>12, <1>13 DEF Next, TurnSteps

LEMMA InvStep == IInv /\ [Next]_vars => IInv'
  BY TypeStep, ConversationsStep, JobsStep, SavedStep, FollowUpStep, UsableStep
     DEF IInv, OnePerSession
LEMMA Invariance == Spec => []IInv
  BY InvInit, InvStep, PTL DEF Spec

-----------------------------------------------------------------------------
(* Whatever overlaps, fails or is cut off, a session has at most one       *)
(* conversation and one job (the unique indexes behind ensureConversation  *)
(* and createJobFromToolCall).                                             *)
THEOREM OneRequestPerSession == Spec => []OnePerSession
  <1> IInv => OnePerSession
    BY DEF IInv
  <1> QED
    BY Invariance, PTL

(* A customer who was given a reference or windows to choose from has a    *)
(* job that the conversation is linked to and the log names                *)
(* (handleToolCall).                                                       *)
THEOREM ConfirmedRequestsAreOnFile == Spec => []SavedIsSaved
  <1> IInv => SavedIsSaved
    BY DEF IInv
  <1> QED
    BY Invariance, PTL

(* "Eternity will follow up" is said only with a notice to operations      *)
(* (enqueueJobCreated).                                                    *)
THEOREM ReferencesAreAnnounced == Spec => []FollowUpIsAnnounced
  <1> IInv => FollowUpIsAnnounced
    BY DEF IInv
  <1> QED
    BY Invariance, PTL

(* Without faults no session is left with a placeholder and no             *)
(* conversation, which would make its turns fail for ever                  *)
(* (ensureConversation).                                                   *)
THEOREM SessionsAreNotStranded == Spec => []SessionsStayUsable
  <1> IInv => SessionsStayUsable
    BY DEF IInv
  <1> QED
    BY Invariance, PTL

-----------------------------------------------------------------------------
(* The turns implement the promise of module IntakePromise. *)

LEMMA PromiseInit == Init => Promise!Init
  BY DEF Init, Promise!Init

(* A turn that ends without a reference or windows, and any other step that*)
(* leaves the rows alone, is not seen by the promise.                      *)
LEMMA PromiseStep == IInv /\ [Next]_vars => [Promise!Next]_(Promise!promise)
  <1> DEFINE Confirmed == {s \in Sessions :
                             {<<s, "availability">>, <<s, "job_created">>} \cap told # {}}
             Notified == {s \in Sessions : <<s, "request_created">> \in announced}
             Stutter == /\ UNCHANGED <<jobs, linked \cap jobLogged>>
                        /\ Confirmed' = Confirmed /\ Notified' = Notified
             Goal == [Promise!Next]_(Promise!promise)
  <1> SUFFICES ASSUME IInv, [Next]_vars PROVE Goal
    OBVIOUS
  <1>a. Stutter => Goal
    BY DEF Promise!promise
  <1>b. ASSUME NEW s \in Sessions, Promise!Save(s) \/ Promise!File(s) \/ Promise!OfferWindows(s)
                                     \/ Promise!GiveReference(s)
        PROVE  Goal
    BY <1>b DEF Promise!Next
  <1>c. \A u \in Sessions : u \in Confirmed <=> \/ <<u, "availability">> \in told
                                               \/ <<u, "job_created">> \in told
    OBVIOUS
  <1>d. \A u \in Sessions : u \in Confirmed' <=> \/ <<u, "availability">> \in told'
                                                \/ <<u, "job_created">> \in told'
    OBVIOUS
  <1> HIDE DEF Goal
  <1> USE DEF IInv, TypeOK, OnePerSession, JobsInv, Ends, Tells, Goto, Enqueue, dbVars, noteVars
  <1>1. ASSUME NEW t \in Turns, NEW s \in Sessions, TurnBegins(t, s)
        PROVE  Goal
    BY <1>1, <1>a DEF TurnBegins
  <1>2. ASSUME NEW t \in Turns, CreatePlaceholder(t) \/ CreateConversation(t)
        PROVE  Goal
    BY <1>2, <1>a DEF CreatePlaceholder, CreateConversation
  <1>3. ASSUME NEW t \in Turns, PlaceholderTaken(t) \/ TurnAnswers(t) \/ ArgumentsRefused(t)
        PROVE  Goal
    BY <1>3, <1>a DEF PlaceholderTaken, TurnAnswers, ArgumentsRefused
  <1>4. ASSUME NEW t \in Turns, ToolCalled(t) \/ ClaimsSubmission(t) \/ ForcedToolCalled(t) \/ ForcedCallFails(t)
        PROVE  Goal
    BY <1>4, <1>a DEF ToolCalled, ClaimsSubmission, ForcedToolCalled, ForcedCallFails
  <1>5. ASSUME NEW t \in Turns, FindsJob(t) \/ FindsNone(t) \/ ClearSession(t)
        PROVE  Goal
    BY <1>5, <1>a DEF FindsJob, FindsNone, ClearSession
  <1>6. ASSUME NEW t \in Turns, CreateJob(t)
        PROVE  Goal
    <2>1. CASE SessionIsFree(session[t])
      <3>1. Promise!Save(session[t])
        BY <1>6, <2>1 DEF CreateJob, SessionIsFree, Promise!Save
      <3> QED
        BY <3>1, <1>6, <1>b DEF CreateJob
    <2>2. CASE ~SessionIsFree(session[t])
      BY <1>6, <2>2, <1>a DEF CreateJob
    <2> QED
      BY <2>1, <2>2
  <1>7. ASSUME NEW t \in Turns, LinkJobToConversation(t)
        PROVE  Goal
    <2>1. CASE session[t] \in jobLogged
      <3>1. Promise!File(session[t])
        BY <1>7, <2>1 DEF LinkJobToConversation, LinkRow, Promise!File
      <3> QED
        BY <3>1, <1>7, <1>b DEF LinkJobToConversation
    <2>2. CASE session[t] \notin jobLogged
      BY <1>7, <2>2, <1>a DEF LinkJobToConversation, LinkRow
    <2> QED
      BY <2>1, <2>2
  <1>8. ASSUME NEW t \in Turns, LogJob(t)
        PROVE  Goal
    <2>1. Promise!File(session[t])
      BY <1>8 DEF LogJob, Promise!File
    <2> QED
      BY <2>1, <1>8, <1>b DEF LogJob
  <1>9. ASSUME NEW t \in Turns, OffersSlots(t)
        PROVE  Goal
    <2>1. PICK s \in Sessions : s = session[t]
      BY <1>9 DEF OffersSlots
    <2>2. s \in linked \cap jobLogged
      BY <1>9, <2>1 DEF OffersSlots
    <2>3. told' = told \cup {<<s, "availability">>}
      BY <1>9, <2>1 DEF OffersSlots
    <2>4. Confirmed' = Confirmed \cup {s}
      <3>1. ASSUME NEW u \in Sessions
            PROVE  u \in Confirmed' <=> u \in Confirmed \/ u = s
        <4> HIDE DEF Confirmed
        <4> QED
          BY <2>3, <1>c, <1>d
      <3> QED
        BY <3>1
    <2>5. Notified' = Notified
      BY <1>9, <2>1 DEF OffersSlots
    <2>6. Promise!OfferWindows(s)
      BY <1>9, <2>2, <2>4, <2>5 DEF OffersSlots, Promise!OfferWindows
    <2> QED
      BY <2>6, <1>b
  <1>10. ASSUME NEW t \in Turns, NoSlots(t)
         PROVE  Goal
    <2>1. PICK s \in Sessions : s = session[t]
      BY <1>10 DEF NoSlots
    <2>2. s \in linked \cap jobLogged
      BY <1>10, <2>1 DEF NoSlots
    <2>3. told' = told \cup {<<s, "job_created">>}
      BY <1>10, <2>1 DEF NoSlots
    <2>4. Confirmed' = Confirmed \cup {s}
      <3>1. ASSUME NEW u \in Sessions
            PROVE  u \in Confirmed' <=> u \in Confirmed \/ u = s
        <4> HIDE DEF Confirmed
        <4> QED
          BY <2>3, <1>c, <1>d
      <3> QED
        BY <3>1
    <2>5. Notified' = Notified \cup {s}
      BY <1>10, <2>1 DEF NoSlots, AnnouncesJob
    <2>6. Promise!GiveReference(s)
      BY <1>10, <2>2, <2>4, <2>5 DEF NoSlots, Promise!GiveReference
    <2> QED
      BY <2>6, <1>b
  <1>11. ASSUME NEW t \in Turns, OrphanedIntake(t) \/ OrphanUnlogged(t)
         PROVE  Goal
    BY <1>11, <1>a DEF OrphanedIntake, OrphanUnlogged
  <1>12. ASSUME NEW t \in Turns, StatementFails(t) \/ TurnLost(t)
         PROVE  Goal
    BY <1>12, <1>a DEF StatementFails, TurnLost
  <1>13. ASSUME NotificationEnds
         PROVE  Goal
    BY <1>13, <1>a DEF NotificationEnds
  <1>14. ASSUME UNCHANGED vars
         PROVE  Goal
    BY <1>14, <1>a DEF vars
  <1> QED
    BY <1>1, <1>2, <1>3, <1>4, <1>5, <1>6, <1>7, <1>8, <1>9, <1>10, <1>11, <1>12, <1>13, <1>14
       DEF Next, TurnSteps

(* Overlapping turns, with faults at any step, implement the promise of one*)
(* request per session, confirmed only when on file, referenced only with a*)
(* notice (handleToolCall, createJobFromToolCall).                         *)
THEOREM IntakeKeepsItsPromise == Spec => ImplementsPromise
  BY Invariance, PromiseInit, PromiseStep, PTL DEF Spec, ImplementsPromise, Promise!Spec
=============================================================================
