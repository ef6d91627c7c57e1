----------------------------- MODULE SmsConsent -----------------------------
(***************************************************************************)
(* SMS consent, src/src/communications/sms-consent.service.ts: one record  *)
(* per phone, written by a verbal decision or by an inbound STOP / START.  *)
(* Two webhook requests interleave at every await, so START, which reads   *)
(* the record and only then writes it, is two steps.                       *)
(* HELP and unknown keywords change no consent and are left out; the audit *)
(* row and the mirrored customer flag are written in the same transaction  *)
(* as the record and nothing reads them back.                              *)
(***************************************************************************)
EXTENDS Naturals

CONSTANTS
    Phones,             \* recipients
    Keywords,           \* inbound webhook requests that can be in progress at once
    NoPhone,            \* "this webhook request is not in progress"
    MaxConsentChanges   \* bound: how many consent writes a behaviour makes

ASSUME ConsentAssumption == NoPhone \notin Phones /\ MaxConsentChanges \in Nat

VARIABLES
    consent,            \* status of the consent record, "NONE" when there is none
    source,             \* source column of the record
    restoring,          \* START requests that read OPTED_OUT and have not written yet
    consentChanges      \* how many writes were made (bound)

consentVars == <<consent, source, restoring, consentChanges>>

ConsentStatus == {"NONE", "OPTED_IN", "OPTED_OUT"}

ConsentTypeOK ==
    /\ consent \in [Phones -> ConsentStatus]
    /\ source \in [Phones -> {"NONE", "VERBAL", "KEYWORD"}]
    /\ restoring \in [Keywords -> Phones \cup {NoPhone}]
    /\ consentChanges \in 0..MaxConsentChanges

ConsentInit ==
    /\ consent = [p \in Phones |-> "NONE"]
    /\ source = [p \in Phones |-> "NONE"]
    /\ restoring = [k \in Keywords |-> NoPhone]
    /\ consentChanges = 0

(* The upsert all three writers share. *)
PersistConsent(p, s, src) ==
    /\ consentChanges < MaxConsentChanges
    /\ consentChanges' = consentChanges + 1
    /\ consent' = [consent EXCEPT ![p] = s]
    /\ source' = [source EXCEPT ![p] = src]

RecordVerbalConsent(p, accepted) ==
    /\ PersistConsent(p, IF accepted THEN "OPTED_IN" ELSE "OPTED_OUT", "VERBAL")
    /\ UNCHANGED restoring

Stop(p) ==
    /\ PersistConsent(p, "OPTED_OUT", "KEYWORD")
    /\ UNCHANGED restoring

(* Mutant: a phone without a record counts as opted out. *)
MayRestoreUnknown(p) == consent[p] # "OPTED_IN"

(* START with no prior opt-out is answered and changes nothing. *)
MayRestore(p) == consent[p] = "OPTED_OUT"

StartFound(k, p) ==
    /\ restoring[k] = NoPhone
    /\ MayRestore(p)
    /\ restoring' = [restoring EXCEPT ![k] = p]
    /\ UNCHANGED <<consent, source, consentChanges>>

StartWrite(k) ==
    /\ restoring[k] # NoPhone
    /\ PersistConsent(restoring[k], "OPTED_IN", "KEYWORD")
    /\ restoring' = [restoring EXCEPT ![k] = NoPhone]

ConsentNext ==
    \/ \E p \in Phones, accepted \in BOOLEAN : RecordVerbalConsent(p, accepted)
    \/ \E p \in Phones : Stop(p)
    \/ \E k \in Keywords, p \in Phones : StartFound(k, p)
    \/ \E k \in Keywords : StartWrite(k)

ConsentSpec == ConsentInit /\ [][ConsentNext]_consentVars

-----------------------------------------------------------------------------
(* A phone that never had a consent record is opted in only by a verbal    *)
(* decision: texting START alone, in whatever order the webhook requests   *)
(* run, never creates consent (handleInboundKeyword, lines 96-103).        *)
FirstConsentIsVerbal ==
    [][\A p \in Phones :
          consent[p] = "NONE" /\ consent'[p] = "OPTED_IN" => source'[p] = "VERBAL"
      ]_consentVars
=============================================================================
