------------------------- MODULE RelayServicesProofs -------------------------
(***************************************************************************)
(* Proofs about the components of RelayServices, for any number of calls,  *)
(* attempts, batches, records, restarts and outages, any bodies, replies,  *)
(* operations, routes and credentials, and for the caches any number of    *)
(* requests, tokens, keys, refreshes and releases and any times to live.   *)
(***************************************************************************)
EXTENDS RelayServices, FiniteSetTheorems, TLAPS

\* A step of the relay is one of the component in focus, and the others
\* keep still.
LEMMA EachSteps ==
    [RelayNext]_relayVars =>
        /\ [Fin!Next]_(Fin!vars)
        /\ [HeartBeat!Next]_(HeartBeat!vars)
        /\ [Tok!Next]_(Tok!vars)
        /\ [KeySet!Next]_(KeySet!vars)
        /\ [Quota!Next]_(Quota!vars)
        /\ [Caches!Next]_(Caches!vars)
        /\ [Next]_vars
        /\ [Surface!Next]_(Surface!vars)
BY DEF RelayNext, Finalizing, Calling, Introspects, LooksUpKeys, Counting, Refreshing, Batching,
       Serving, relayVars, finalizeVars, heartBeatVars, tokenVars, keyVars, quotaVars, cacheVars,
       surfaceVars, Fin!vars, HeartBeat!vars, Tok!vars, KeySet!vars, Quota!vars, Caches!vars,
       Caches!held, Surface!vars

-----------------------------------------------------------------------------
(***************************************************************************)
(* Finalizations: FinalizeService.                                         *)
(***************************************************************************)

FinalizeCall == [at : {"new", "core", "over"}, body : [ref : Fin!Tokens, trace : Fin!Tokens], tries : Nat,
         answer : {"none", "missing", "conflict", "accepted", "lost"},
         event : Calls \cup {"none"}, earlier : SUBSET Calls]

\* The types that the arguments below need.
FinalizeTyped ==
    /\ finalizing \in [Calls -> FinalizeCall]
    /\ restarts \in Nat
    /\ \A k \in DOMAIN anchors : anchors[k] \in Calls

\* As long as the process lives, the key of an answered call is recorded,
\* and what is recorded under a key is an answered call of that key.  A call
\* that waits for Core, or has asked it, had no answered call of its key
\* before it.  The bodies of answered calls do not change any more.
Recording ==
    /\ \A c \in Calls : finalizing[c].answer = "accepted" => finalizing[c].at = "over"
    /\ \A c \in Calls : finalizing[c].at = "new" =>
          finalizing[c].tries = 0 /\ finalizing[c].earlier = {} /\ finalizing[c].answer = "none"
    /\ \A c \in Calls : finalizing[c].at = "core" => finalizing[c].answer = "none"
    /\ \A c \in Calls : finalizing[c].earlier \subseteq Fin!Accepted
    /\ \A k \in DOMAIN anchors : anchors[k] \in Fin!Accepted /\ Fin!Key(finalizing[anchors[k]].body) = k
    /\ restarts = 0 => \A c \in Fin!Accepted : Fin!Key(finalizing[c].body) \in DOMAIN anchors
    /\ restarts = 0 => \A c \in Calls : (finalizing[c].at = "core" \/ finalizing[c].tries > 0) =>
          \A d \in finalizing[c].earlier : Fin!Key(finalizing[d].body) # Fin!Key(finalizing[c].body)
    /\ \A c \in Calls : finalizing[c].answer = "conflict" =>
          /\ finalizing[c].event \in finalizing[c].earlier
          /\ Fin!Key(finalizing[finalizing[c].event].body) = Fin!Key(finalizing[c].body)

FinalizeInv == FinalizeTyped /\ Recording

LEMMA FinalizeInit == ASSUME Fin!LegalConstants PROVE Fin!Init => FinalizeInv
<1> SUFFICES ASSUME Fin!Init PROVE FinalizeInv
  OBVIOUS
<1>1. Fin!New \in FinalizeCall
  BY "" \in Fin!Tokens, 0 \in Nat DEF Fin!New, FinalizeCall, Fin!Tokens
<1> QED
  BY <1>1 DEF Fin!Init, FinalizeInv, FinalizeTyped, Recording, Fin!Accepted, Fin!New, Fin!LegalConstants

\* The lookup is where a duplicate is stopped: what it sees is in Accepted.
LEMMA LookupKeeps == ASSUME Fin!LegalConstants, FinalizeInv, NEW c \in Calls, Fin!Lookup(c) PROVE FinalizeInv'
<1> USE DEF FinalizeInv, FinalizeTyped, Recording, Fin!Accepted, FinalizeCall
<1>1. PICK b \in Bodies :
        LET seen == [finalizing[c] EXCEPT !.body = b, !.earlier = Fin!Accepted]
        IN  finalizing' = [finalizing EXCEPT ![c] =
               IF Fin!Empty(b) THEN [seen EXCEPT !.at = "over", !.answer = "missing"]
               ELSE IF Fin!Key(b) \in DOMAIN anchors
               THEN [seen EXCEPT !.at = "over", !.answer = "conflict", !.event = anchors[Fin!Key(b)]]
               ELSE [seen EXCEPT !.at = "core"]]
  BY DEF Fin!Lookup
<1>2. b \in [ref : Fin!Tokens, trace : Fin!Tokens] /\ finalizing[c] \in FinalizeCall
      /\ finalizing[c].at = "new" /\ UNCHANGED <<anchors, restarts>>
  BY DEF Fin!Lookup, Fin!LegalConstants
<1>3. \A d \in Calls : d # c => finalizing'[d] = finalizing[d]
  BY <1>1
<1>4. /\ finalizing'[c].body = b /\ finalizing'[c].earlier = Fin!Accepted
      /\ finalizing'[c].tries = 0 /\ finalizing'[c].answer \in {"none", "missing", "conflict"}
      /\ finalizing'[c].answer = "conflict" =>
            Fin!Key(b) \in DOMAIN anchors /\ finalizing'[c].event = anchors[Fin!Key(b)]
      /\ finalizing'[c].at = "core" => Fin!Key(b) \notin DOMAIN anchors /\ finalizing'[c].answer = "none"
      /\ finalizing'[c].at \in {"core", "over"}
  BY <1>1, <1>2
<1>5. finalizing' \in [Calls -> FinalizeCall]
  <2>1. CASE Fin!Empty(b)
    BY <2>1, <1>1, <1>2
  <2>2. CASE ~Fin!Empty(b) /\ Fin!Key(b) \in DOMAIN anchors
    BY <2>2, <1>1, <1>2
  <2>3. CASE ~Fin!Empty(b) /\ Fin!Key(b) \notin DOMAIN anchors
    BY <2>3, <1>1, <1>2
  <2> QED
    BY <2>1, <2>2, <2>3
<1>6. Fin!Accepted' = Fin!Accepted /\ c \notin Fin!Accepted
  BY <1>2, <1>3, <1>4
<1>7. \A d \in Fin!Accepted : finalizing'[d] = finalizing[d]
  BY <1>3, <1>6
<1>8. FinalizeTyped'
  BY <1>2, <1>5
<1>9. /\ \A d \in Calls : finalizing'[d].answer = "accepted" => finalizing'[d].at = "over"
      /\ \A d \in Calls : finalizing'[d].at = "new" =>
          finalizing'[d].tries = 0 /\ finalizing'[d].earlier = {} /\ finalizing'[d].answer = "none"
      /\ \A d \in Calls : finalizing'[d].at = "core" => finalizing'[d].answer = "none"
      /\ \A d \in Calls : finalizing'[d].earlier \subseteq Fin!Accepted
  BY <1>3, <1>4
<1>10. \A k \in DOMAIN anchors' : anchors'[k] \in Fin!Accepted' /\ Fin!Key(finalizing'[anchors'[k]].body) = k
  BY <1>2, <1>6, <1>7
<1>11. restarts' = 0 => \A d \in Fin!Accepted' : Fin!Key(finalizing'[d].body) \in DOMAIN anchors'
  BY <1>2, <1>6, <1>7
<1>12. ASSUME restarts' = 0, NEW d \in Calls, finalizing'[d].at = "core" \/ finalizing'[d].tries > 0,
              NEW e \in finalizing'[d].earlier
       PROVE  Fin!Key(finalizing'[e].body) # Fin!Key(finalizing'[d].body)
  <2>1. e \in Fin!Accepted /\ finalizing'[e] = finalizing[e]
    BY <1>3, <1>4, <1>7, <1>12
  <2>2. CASE d = c
    BY <2>1, <2>2, <1>2, <1>4, <1>12
  <2>3. CASE d # c
    BY <2>1, <2>3, <1>2, <1>3, <1>12
  <2> QED
    BY <2>2, <2>3
<1>13. ASSUME NEW d \in Calls, finalizing'[d].answer = "conflict"
       PROVE  /\ finalizing'[d].event \in finalizing'[d].earlier
              /\ Fin!Key(finalizing'[finalizing'[d].event].body) = Fin!Key(finalizing'[d].body)
  <2>1. CASE d = c
    <3>1. anchors[Fin!Key(b)] \in Fin!Accepted /\ Fin!Key(finalizing[anchors[Fin!Key(b)]].body) = Fin!Key(b)
      BY <2>1, <1>4, <1>13
    <3> QED
      BY <3>1, <2>1, <1>4, <1>7, <1>13
  <2>2. CASE d # c
    BY <2>2, <1>3, <1>7, <1>13
  <2> QED
    BY <2>1, <2>2
<1> QED
  BY <1>6, <1>8, <1>9, <1>10, <1>11, <1>12, <1>13

\* Core may answer or not: when the loop ends, the key is recorded and the
\* call answered at once.
LEMMA TriggerKeeps == ASSUME Fin!LegalConstants, FinalizeInv, NEW c \in Calls, Fin!Trigger(c) PROVE FinalizeInv'
<1>0. FinalizeTyped /\ Recording
  BY DEF FinalizeInv
<1>1. PICK verdict \in {"return", "again", "raise"} :
        /\ finalizing' = [finalizing EXCEPT ![c] =
              IF verdict = "again" THEN [@ EXCEPT !.tries = finalizing[c].tries + 1]
              ELSE [@ EXCEPT !.tries = finalizing[c].tries + 1, !.at = "over", !.answer = "accepted", !.event = c]]
        /\ anchors' = Fin!Anchors(c, verdict)
  <2>1. PICK reply \in TriggerReplies :
          LET try     == finalizing[c].tries + 1
              verdict == Fin!After(reply, try, MaxAttempts)
          IN  /\ finalizing' = [finalizing EXCEPT ![c] =
                   IF verdict = "again" THEN [@ EXCEPT !.tries = try]
                   ELSE [@ EXCEPT !.tries = try, !.at = "over", !.answer = "accepted", !.event = c]]
              /\ anchors' = Fin!Anchors(c, verdict)
    BY DEF Fin!Trigger
  <2>2. Fin!After(reply, finalizing[c].tries + 1, MaxAttempts) \in {"return", "again", "raise"}
    BY DEF Fin!After
  <2> QED
    BY <2>1, <2>2
<1>2. finalizing[c] \in FinalizeCall /\ finalizing[c].at = "core" /\ UNCHANGED restarts
  BY <1>0 DEF Fin!Trigger, FinalizeTyped
<1>3. \A d \in Calls : d # c => finalizing'[d] = finalizing[d]
  BY <1>0, <1>1 DEF FinalizeTyped
<1>4. /\ finalizing'[c].body = finalizing[c].body /\ finalizing'[c].earlier = finalizing[c].earlier
      /\ finalizing'[c].tries = finalizing[c].tries + 1 /\ finalizing[c].tries \in Nat
  BY <1>0, <1>1, <1>2 DEF FinalizeCall, FinalizeTyped
<1>5. c \notin Fin!Accepted
  BY <1>0, <1>2 DEF Recording, Fin!Accepted
<1>6. \A d \in Fin!Accepted : d \in Calls /\ finalizing'[d] = finalizing[d] /\ d \in Fin!Accepted'
  BY <1>3, <1>5 DEF Fin!Accepted
<1>7. restarts' = 0 => \A d \in Calls : (finalizing'[d].at = "core" \/ finalizing'[d].tries > 0) =>
          \A e \in finalizing'[d].earlier : Fin!Key(finalizing'[e].body) # Fin!Key(finalizing'[d].body)
  <2> SUFFICES ASSUME restarts' = 0, NEW d \in Calls, finalizing'[d].at = "core" \/ finalizing'[d].tries > 0,
                      NEW e \in finalizing'[d].earlier
               PROVE  Fin!Key(finalizing'[e].body) # Fin!Key(finalizing'[d].body)
    OBVIOUS
  <2>1. finalizing'[d].earlier = finalizing[d].earlier /\ finalizing'[d].body = finalizing[d].body
    BY <1>3, <1>4
  <2>2. e \in Fin!Accepted /\ finalizing'[e] = finalizing[e]
    BY <1>0, <1>6, <2>1 DEF Recording
  <2>3. finalizing[d].at = "core" \/ finalizing[d].tries > 0
    BY <1>2, <1>3
  <2> QED
    BY <1>0, <1>2, <2>1, <2>2, <2>3 DEF Recording
<1>8. CASE verdict = "again"
  <2>1. /\ finalizing'[c] = [finalizing[c] EXCEPT !.tries = finalizing[c].tries + 1]
        /\ anchors' = anchors
    BY <1>0, <1>1, <1>8 DEF Fin!Anchors, FinalizeTyped
  <2>2. finalizing'[c] \in FinalizeCall /\ finalizing'[c].at = "core" /\ finalizing'[c].answer = "none"
    BY <1>0, <1>2, <2>1 DEF FinalizeCall, Recording
  <2>3. finalizing' \in [Calls -> FinalizeCall]
    BY <1>0, <1>1, <2>2 DEF FinalizeTyped
  <2>4. Fin!Accepted' = Fin!Accepted
    BY <1>3, <1>5, <2>2 DEF Fin!Accepted
  <2>5. \A d \in Calls : finalizing'[d].answer = "conflict" =>
          /\ finalizing'[d].event \in finalizing'[d].earlier
          /\ Fin!Key(finalizing'[finalizing'[d].event].body) = Fin!Key(finalizing'[d].body)
    BY <1>0, <1>3, <1>6, <2>2 DEF Recording
  <2>6. /\ \A d \in Calls : finalizing'[d].answer = "accepted" => finalizing'[d].at = "over"
        /\ \A d \in Calls : finalizing'[d].at = "new" =>
              finalizing'[d].tries = 0 /\ finalizing'[d].earlier = {} /\ finalizing'[d].answer = "none"
        /\ \A d \in Calls : finalizing'[d].at = "core" => finalizing'[d].answer = "none"
        /\ \A d \in Calls : finalizing'[d].earlier \subseteq Fin!Accepted
    BY <1>0, <1>3, <1>4, <2>2 DEF Recording
  <2>7. /\ \A k \in DOMAIN anchors' : anchors'[k] \in Fin!Accepted' /\ Fin!Key(finalizing'[anchors'[k]].body) = k
        /\ restarts' = 0 => \A d \in Fin!Accepted' : Fin!Key(finalizing'[d].body) \in DOMAIN anchors'
    BY <1>0, <1>2, <1>6, <2>1, <2>4 DEF Recording
  <2> QED
    BY <1>0, <1>2, <1>7, <2>1, <2>3, <2>4, <2>5, <2>6, <2>7 DEF FinalizeInv, FinalizeTyped, Recording
<1>9. CASE verdict # "again"
  <2> DEFINE key == Fin!Key(finalizing[c].body)
  <2>1. /\ finalizing'[c] = [finalizing[c] EXCEPT !.tries = finalizing[c].tries + 1, !.at = "over",
                                                  !.answer = "accepted", !.event = c]
        /\ anchors' = [k \in DOMAIN anchors \cup {key} |-> IF k = key THEN c ELSE anchors[k]]
    BY <1>0, <1>1, <1>9 DEF Fin!Anchors, Fin!Recorded, FinalizeTyped
  <2>2. finalizing'[c] \in FinalizeCall /\ finalizing'[c].at = "over" /\ finalizing'[c].answer = "accepted"
    <3> DEFINE n == finalizing[c].tries + 1
    <3>1. n \in Nat
      BY <1>4
    <3>2. finalizing'[c] = [finalizing[c] EXCEPT !.tries = n, !.at = "over", !.answer = "accepted", !.event = c]
      BY <2>1
    <3> HIDE DEF n
    <3> QED
      BY <1>2, <3>1, <3>2 DEF FinalizeCall
  <2>3. finalizing' \in [Calls -> FinalizeCall]
    BY <1>0, <1>1, <2>2 DEF FinalizeTyped
  <2>4. Fin!Accepted' = Fin!Accepted \cup {c}
    BY <1>3, <1>5, <2>2 DEF Fin!Accepted
  <2>5. \A d \in Calls : finalizing'[d].answer = "conflict" =>
          /\ finalizing'[d].event \in finalizing'[d].earlier
          /\ Fin!Key(finalizing'[finalizing'[d].event].body) = Fin!Key(finalizing'[d].body)
    BY <1>0, <1>3, <1>6, <2>2 DEF Recording
  <2>6. /\ \A d \in Calls : finalizing'[d].answer = "accepted" => finalizing'[d].at = "over"
        /\ \A d \in Calls : finalizing'[d].at = "new" =>
              finalizing'[d].tries = 0 /\ finalizing'[d].earlier = {} /\ finalizing'[d].answer = "none"
        /\ \A d \in Calls : finalizing'[d].at = "core" => finalizing'[d].answer = "none"
        /\ \A d \in Calls : finalizing'[d].earlier \subseteq Fin!Accepted'
    BY <1>0, <1>3, <1>4, <2>2, <2>4 DEF Recording
  <2>7. \A k \in DOMAIN anchors' : /\ anchors'[k] \in Fin!Accepted' /\ anchors'[k] \in Calls
                                    /\ Fin!Key(finalizing'[anchors'[k]].body) = k
    BY <1>0, <1>4, <1>6, <2>1, <2>4 DEF Recording, FinalizeTyped
  <2>8. restarts' = 0 => \A d \in Fin!Accepted' : Fin!Key(finalizing'[d].body) \in DOMAIN anchors'
    BY <1>0, <1>2, <1>4, <1>6, <2>1, <2>4 DEF Recording
  <2> QED
    BY <1>0, <1>2, <1>7, <2>3, <2>4, <2>5, <2>6, <2>7, <2>8 DEF FinalizeInv, FinalizeTyped, Recording
<1> QED
  BY <1>8, <1>9

\* A restart forgets what was recorded; what was answered stays answered.
LEMMA RestartKeeps == ASSUME Fin!LegalConstants, FinalizeInv, Fin!Restart PROVE FinalizeInv'
<1>0. FinalizeTyped /\ Recording
  BY DEF FinalizeInv
<1>1. /\ restarts' = restarts + 1 /\ restarts' # 0 /\ restarts' \in Nat
      /\ finalizing' = [c \in Calls |-> IF c \in Fin!InFlight
            THEN [finalizing[c] EXCEPT !.at = "over", !.answer = "lost"] ELSE finalizing[c]]
      /\ DOMAIN anchors' = {}
  <2>1. restarts' = restarts + 1 /\ restarts' # 0 /\ restarts' \in Nat
    <3>1. restarts' = restarts + 1
      BY Zenon DEF Fin!Restart
    <3>2. restarts \in Nat
      BY <1>0 DEF FinalizeTyped
    <3> QED
      BY <3>1, <3>2
  <2>2. finalizing' = [c \in Calls |-> IF c \in Fin!InFlight
            THEN [finalizing[c] EXCEPT !.at = "over", !.answer = "lost"] ELSE finalizing[c]]
    BY DEF Fin!Restart
  <2>3. anchors' = [k \in {} |-> "none"]
    BY DEF Fin!Restart
  <2> QED
    BY <2>1, <2>2, <2>3
<1>2. \A c \in Calls : /\ finalizing'[c].body = finalizing[c].body
                       /\ finalizing'[c].earlier = finalizing[c].earlier
                       /\ finalizing'[c].at = "core" => FALSE
                       /\ finalizing[c].at # "core" => finalizing'[c] = finalizing[c]
                       /\ finalizing[c].at = "core" => finalizing'[c].at = "over" /\ finalizing'[c].answer = "lost"
                       /\ finalizing'[c] \in FinalizeCall
  <2> TAKE c \in Calls
  <2>1. finalizing[c] \in FinalizeCall
    BY <1>0 DEF FinalizeTyped
  <2>2. finalizing'[c] = IF finalizing[c].at = "core"
            THEN [finalizing[c] EXCEPT !.at = "over", !.answer = "lost"] ELSE finalizing[c]
    BY <1>1 DEF Fin!InFlight
  <2> QED
    BY <2>1, <2>2 DEF FinalizeCall
<1>3. finalizing' \in [Calls -> FinalizeCall]
  BY <1>1, <1>2
<1>4. Fin!Accepted' = Fin!Accepted
  BY <1>0, <1>2 DEF Fin!Accepted, Recording
<1>5. \A c \in Calls : finalizing'[c].answer = "conflict" =>
        /\ finalizing'[c].event \in finalizing'[c].earlier
        /\ Fin!Key(finalizing'[finalizing'[c].event].body) = Fin!Key(finalizing'[c].body)
  <2> SUFFICES ASSUME NEW c \in Calls, finalizing'[c].answer = "conflict"
               PROVE  /\ finalizing'[c].event \in finalizing'[c].earlier
                      /\ Fin!Key(finalizing'[finalizing'[c].event].body) = Fin!Key(finalizing'[c].body)
    OBVIOUS
  <2>1. finalizing'[c] = finalizing[c]
    BY <1>2
  <2>2. /\ finalizing[c].event \in finalizing[c].earlier /\ finalizing[c].earlier \subseteq Fin!Accepted
        /\ Fin!Key(finalizing[finalizing[c].event].body) = Fin!Key(finalizing[c].body)
    BY <1>0, <2>1 DEF Recording
  <2> QED
    BY <1>2, <2>1, <2>2 DEF Fin!Accepted
<1>6. /\ \A c \in Calls : finalizing'[c].answer = "accepted" => finalizing'[c].at = "over"
      /\ \A c \in Calls : finalizing'[c].at = "new" =>
            finalizing'[c].tries = 0 /\ finalizing'[c].earlier = {} /\ finalizing'[c].answer = "none"
      /\ \A c \in Calls : finalizing'[c].earlier \subseteq Fin!Accepted
  BY <1>0, <1>2 DEF Recording
<1> QED
  BY <1>1, <1>2, <1>3, <1>4, <1>5, <1>6 DEF FinalizeInv, FinalizeTyped, Recording

LEMMA FinalizeSteps == ASSUME Fin!LegalConstants PROVE FinalizeInv /\ [Fin!Next]_(Fin!vars) => FinalizeInv'
<1> SUFFICES ASSUME FinalizeInv, [Fin!Next]_(Fin!vars) PROVE FinalizeInv'
  OBVIOUS
<1>1. CASE Fin!Next
  BY <1>1, LookupKeeps, TriggerKeeps, RestartKeeps DEF Fin!Next
<1>2. CASE UNCHANGED Fin!vars
  BY <1>2 DEF FinalizeInv, FinalizeTyped, Recording, Fin!Accepted, Fin!vars
<1> QED
  BY <1>1, <1>2

\* Under a trace_id, or without one under a reference, only one call per
\* process reaches Core, answered or not, and the event id of a 409 is that
\* of an answered call with the same key, also across restarts
\* (FinalizeService.finalize).
THEOREM RepeatsStopHere == RelaySpec => []DuplicatesStopHere
<1>1. RelayInit => FinalizeInv
  BY RelayConstants, FinalizeInit DEF RelayInit
<1>2. FinalizeInv /\ [RelayNext]_relayVars => FinalizeInv'
  BY RelayConstants, EachSteps, FinalizeSteps
<1>3. FinalizeInv => DuplicatesStopHere
  <2>1. ASSUME FinalizeInv, restarts = 0, NEW c \in Calls, NEW d \in finalizing[c].earlier,
               Fin!Key(finalizing[d].body) = Fin!Key(finalizing[c].body)
        PROVE  finalizing[c].tries = 0
    <3>1. finalizing[c].tries \in Nat
      BY <2>1 DEF FinalizeInv, FinalizeTyped, FinalizeCall
    <3> QED
      BY <2>1, <3>1 DEF FinalizeInv, Recording
  <2>2. FinalizeInv => Fin!DuplicatesStopHere
    BY <2>1 DEF Fin!DuplicatesStopHere, Fin!Key
  <2>3. FinalizeInv => Fin!ConflictNamesAnAnswer
    BY DEF FinalizeInv, Recording, Fin!ConflictNamesAnAnswer
  <2> QED
    BY <2>2, <2>3 DEF DuplicatesStopHere
<1> QED
  BY <1>1, <1>2, <1>3, PTL DEF RelaySpec

-----------------------------------------------------------------------------
(***************************************************************************)
(* HeartBeat: BaseClient and HeartBeatClient.                              *)
(***************************************************************************)

\* While every attempt so far was clear there was no other attempt, and none
\* that HeartBeat carried out; what it carried out in the end was answered.
CallInv ==
    /\ carriedOut \in Nat /\ unclear \in BOOLEAN
    /\ ~unclear => /\ carriedOut <= 1
                   /\ told = "none" => carriedOut = 0
                   /\ carriedOut > 0 => told \notin {"error", "registration_failed"}

LEMMA OnceClear == carriedOut = 0 /\ unclear = FALSE => CallInv
<1>1. 0 \in Nat /\ 0 <= 1 /\ ~(0 > 0)
  OBVIOUS
<1> QED
  BY <1>1, Zenon DEF CallInv

\* An attempt whose outcome is clear is the last one; if HeartBeat carried
\* it out, it succeeded.
LEMMA ClearIsLast ==
    ASSUME NEW op, NEW reply \in HeartBeat!Possible(op), NEW try \in Nat, NEW max \in Nat,
           HeartBeat!Outcome(op, reply) \notin HeartBeat!Repeated
    PROVE  /\ HeartBeat!After(HeartBeat!Outcome(op, reply), try, max) # "again"
           /\ 1 \in HeartBeat!Did(reply) => HeartBeat!After(HeartBeat!Outcome(op, reply), try, max) = "return"
<1>1. HeartBeat!After(HeartBeat!Outcome(op, reply), try, max) # "again"
  BY DEF HeartBeat!After
<1>2. ASSUME 1 \in HeartBeat!Did(reply) PROVE HeartBeat!Outcome(op, reply) = "ok"
  <2>1. reply \in {"ok", "garbled", "broken", "silent"}
    BY <1>2 DEF HeartBeat!Did, HeartBeat!Possible, HeartBeat!Replies
  <2> QED
    BY <2>1 DEF HeartBeat!Outcome, HeartBeat!WellFormed, HeartBeat!Repeated
<1> QED
  BY <1>1, <1>2 DEF HeartBeat!After

LEMMA AttemptKeeps ==
    ASSUME HeartBeat!LegalConstants, attempt \in Nat, CallInv, HeartBeat!Attempt PROVE CallInv'
<1>1. PICK reply \in HeartBeat!Possible(calling) :
        /\ unclear' = (unclear \/ HeartBeat!Outcome(calling, reply) \in HeartBeat!Repeated)
        /\ \E n \in HeartBeat!Did(reply) : carriedOut' = carriedOut + n
        /\ told' = IF HeartBeat!After(HeartBeat!Outcome(calling, reply), attempt + 1, HeartBeat!MaxTries(calling)) = "again" THEN "none"
                   ELSE HeartBeat!Result(calling, reply, HeartBeat!After(HeartBeat!Outcome(calling, reply), attempt + 1, HeartBeat!MaxTries(calling)))
  BY DEF HeartBeat!Attempt
<1>2. PICK n \in HeartBeat!Did(reply) : carriedOut' = carriedOut + n
  BY <1>1
<1>3. n \in {0, 1} /\ HeartBeat!MaxTries(calling) \in Nat
  BY DEF HeartBeat!Did, HeartBeat!MaxTries, HeartBeat!LegalConstants
<1>4. carriedOut' \in Nat /\ unclear' \in BOOLEAN
  BY <1>1, <1>2, <1>3 DEF CallInv
<1>5. CASE unclear'
  BY <1>4, <1>5 DEF CallInv
<1>6. CASE ~unclear'
  <2>1. ~unclear /\ HeartBeat!Outcome(calling, reply) \notin HeartBeat!Repeated
    BY <1>1, <1>6
  <2>2. carriedOut = 0
    BY <2>1 DEF CallInv, HeartBeat!Attempt
  <2> DEFINE verdict == HeartBeat!After(HeartBeat!Outcome(calling, reply), attempt + 1, HeartBeat!MaxTries(calling))
  <2>3. verdict # "again" /\ (n = 1 => verdict = "return")
    BY <1>3, <2>1, ClearIsLast
  <2>4. told' = HeartBeat!Result(calling, reply, verdict)
    BY <1>1, <2>3
  <2> HIDE DEF verdict
  <2>5. told' # "none" /\ (n = 1 => told' \notin {"error", "registration_failed"})
    BY <2>3, <2>4 DEF HeartBeat!Result
  <2> QED
    BY <1>2, <1>3, <1>4, <2>2, <2>5 DEF CallInv
<1> QED
  BY <1>5, <1>6

LEMMA CallSteps ==
    ASSUME HeartBeat!LegalConstants
    PROVE  CallInv /\ attempt \in Nat /\ [HeartBeat!Next]_(HeartBeat!vars)
              => CallInv' /\ attempt' \in Nat
<1> SUFFICES ASSUME CallInv, attempt \in Nat, [HeartBeat!Next]_(HeartBeat!vars)
             PROVE  CallInv' /\ attempt' \in Nat
  OBVIOUS
<1>1. CASE HeartBeat!Begin \/ UNCHANGED HeartBeat!vars
  BY <1>1 DEF HeartBeat!Begin, HeartBeat!vars, CallInv
<1>2. CASE HeartBeat!Attempt
  BY <1>2, AttemptKeeps DEF HeartBeat!Attempt
<1>3. CASE HeartBeat!Done
  <2>1. attempt' \in Nat /\ carriedOut' \in Nat /\ carriedOut' <= 1 /\ ~(carriedOut' > 0) /\ carriedOut' = 0
    BY <1>3 DEF HeartBeat!Done
  <2>2. unclear' \in BOOLEAN
    BY <1>3, Zenon DEF HeartBeat!Done
  <2> QED
    BY <2>1, <2>2, Zenon DEF CallInv
<1> QED
  BY <1>1, <1>2, <1>3 DEF HeartBeat!Next

\* Whatever HeartBeat answers and however often the relay asks, only an
\* attempt without a clear outcome lets it do something twice, or do what
\* the caller is told failed (BaseClient.call_with_retries and the
\* operations of HeartBeatClient).
THEOREM ClearIsNeverBlurred == RelaySpec => []OnlySilenceIsAmbiguous
<1> DEFINE Inv == CallInv /\ attempt \in Nat
<1>1. RelayInit => Inv
  BY OnceClear DEF RelayInit, HeartBeat!Init
<1>2. Inv /\ [RelayNext]_relayVars => Inv'
  BY RelayConstants, EachSteps, CallSteps
<1>3. Inv => OnlySilenceIsAmbiguous
  BY DEF CallInv, HeartBeat!OnlySilenceIsAmbiguous, OnlySilenceIsAmbiguous
<1> QED
  BY <1>1, <1>2, <1>3, PTL DEF RelaySpec

-----------------------------------------------------------------------------
(***************************************************************************)
(* Batches: BatchExternalService.                                          *)
(***************************************************************************)

Verdicts == [id : STRING, as : {"processed", "duplicate", "failed"}]

Steps == {"new", "record", "ledger", "store", "register", "settle", "codes", "answered", "raised", "lost"}

BatchState == [at : Steps, tenant : Tenants \cup {"none"}, list : Seq(Rows), next : Nat \ {0},
               seen : SUBSET STRING, verdicts : Seq(Verdicts)]

\* The types that the arguments below need.
BatchTyped ==
    /\ batch \in [Batches -> BatchState]
    /\ ledger \in [Keys -> {"none", "pending", "error", "processed"}]
    /\ stored \in [Keys -> Nat]
    /\ pruned \in [Keys -> Nat]

InIngest(b) == batch[b].at \in {"ledger", "store", "register", "settle", "codes"}
Claiming(b) == batch[b].at \in {"store", "register", "settle"}

\* A batch that has come is of a tenant, and one in the middle of ingest has
\* a record in hand, with a content.
InHand ==
    /\ \A b \in Batches : batch[b].at # "new" => batch[b].tenant \in Tenants
    /\ \A b \in Batches : InIngest(b) => batch[b].next \in 1..Len(batch[b].list) /\ Key(b) \in Keys

\* The batch that stores a content is the one that claimed its row, and its
\* row is pending; where there is no row, or none that has its blob yet, each
\* blob is of a row that was pruned.
Claims ==
    /\ \A b \in Batches : Claiming(b) => ledger[Key(b)] = "pending"
    /\ \A b, c \in Batches : Claiming(b) /\ Claiming(c) /\ Key(b) = Key(c) => b = c
    /\ \A b \in Batches : batch[b].at = "store" => stored[Key(b)] <= pruned[Key(b)]
    /\ \A k \in Keys : ledger[k] = "none" => stored[k] <= pruned[k]
    /\ \A k \in Keys : stored[k] <= pruned[k] + 1

BatchInv == BatchTyped /\ InHand /\ Claims

\* What a batch is before it comes, and when it comes.
LEMMA NewTyped ==
    /\ New \in BatchState
    /\ \A l \in Seq(Rows), t \in Tenants :
          [New EXCEPT !.at = "record", !.tenant = t, !.list = l] \in BatchState
<1>1. New \in BatchState
  <2>1. <<>> \in Seq(Verdicts) /\ <<>> \in Seq(Rows) /\ {} \in SUBSET STRING /\ 1 \in Nat \ {0}
    OBVIOUS
  <2> QED
    BY <2>1 DEF New, BatchState, Steps
<1> QED
  BY <1>1 DEF BatchState, Steps

LEMMA BatchInit == ASSUME LegalConstants PROVE Init => BatchInv
<1> SUFFICES ASSUME Init PROVE BatchInv
  OBVIOUS
<1>1. New \in BatchState
  BY NewTyped
<1> QED
  BY <1>1 DEF Init, New, BatchInv, BatchTyped, InHand, Claims, InIngest, Claiming

\* A record of a list that may be sent.
LEMMA RecordTyped ==
    ASSUME LegalConstants, BatchTyped, NEW b \in Batches, batch[b].next \in 1..Len(batch[b].list)
    PROVE  Record(b) \in Rows /\ Record(b).id \in STRING
<1>1. batch[b] \in BatchState
  BY DEF BatchTyped
<1>2. batch[b].list \in Seq(Rows)
  BY <1>1 DEF BatchState
<1>3. Record(b) \in Rows
  BY <1>2 DEF Record
<1> QED
  BY <1>3 DEF Rows

\* Going to another step keeps the record in hand.
LEMMA GotoKeeps ==
    ASSUME BatchTyped, NEW b \in Batches, NEW step \in Steps, Goto(b, step)
    PROVE  /\ batch' \in [Batches -> BatchState]
           /\ \A c \in Batches : c # b => batch'[c] = batch[c]
           /\ batch'[b].at = step /\ batch'[b].next = batch[b].next /\ batch'[b].list = batch[b].list
           /\ batch'[b].verdicts = batch[b].verdicts /\ batch'[b].seen = batch[b].seen
           /\ batch'[b].tenant = batch[b].tenant
<1>1. batch[b] \in BatchState
  BY DEF BatchTyped
<1>2. batch'[b] = [batch[b] EXCEPT !.at = step]
  BY DEF Goto, BatchTyped
<1>3. batch'[b] \in BatchState
  BY <1>1, <1>2 DEF BatchState
<1>4. \A c \in Batches : c # b => batch'[c] = batch[c]
  BY DEF Goto, BatchTyped
<1>5. batch' \in [Batches -> BatchState]
  BY <1>3 DEF Goto, BatchTyped
<1> QED
  BY <1>1, <1>2, <1>4, <1>5 DEF BatchState

\* A verdict, with or without noting the transaction, ends the record.
LEMMA JudgeKeeps ==
    ASSUME LegalConstants, BatchTyped, NEW b \in Batches, batch[b].next \in 1..Len(batch[b].list),
           NEW as \in {"processed", "duplicate", "failed"}, Judge(b, as) \/ JudgeAndNote(b, as)
    PROVE  /\ batch' \in [Batches -> BatchState]
           /\ \A c \in Batches : c # b => batch'[c] = batch[c]
           /\ batch'[b].at = "record" /\ batch'[b].list = batch[b].list
           /\ batch'[b].tenant = batch[b].tenant
           /\ batch'[b].next = batch[b].next + 1
           /\ batch'[b].verdicts = Append(batch[b].verdicts, [id |-> Record(b).id, as |-> as])
           /\ batch[b].seen \subseteq batch'[b].seen
           /\ JudgeAndNote(b, as) => Record(b).id \in batch'[b].seen
<1> DEFINE n == batch[b].next + 1
           v == Append(batch[b].verdicts, [id |-> Record(b).id, as |-> as])
           s == batch[b].seen \cup {Record(b).id}
<1>1. batch[b] \in BatchState /\ Record(b).id \in STRING
  BY RecordTyped DEF BatchTyped
<1>2. n \in Nat \ {0} /\ s \in SUBSET STRING /\ v \in Seq(Verdicts)
  <2>1. [id |-> Record(b).id, as |-> as] \in Verdicts
    BY <1>1 DEF Verdicts
  <2>2. batch[b].next \in Nat /\ batch[b].seen \in SUBSET STRING /\ batch[b].verdicts \in Seq(Verdicts)
    BY <1>1 DEF BatchState
  <2> QED
    BY <1>1, <2>1, <2>2
<1>3. \/ batch'[b] = [batch[b] EXCEPT !.at = "record", !.next = n, !.verdicts = v]
      \/ batch'[b] = [batch[b] EXCEPT !.at = "record", !.next = n, !.seen = s, !.verdicts = v]
  <2>1. CASE Judge(b, as)
    BY <2>1 DEF Judge, BatchTyped
  <2>2. CASE JudgeAndNote(b, as)
    BY <2>2 DEF JudgeAndNote, BatchTyped
  <2> QED
    BY <2>1, <2>2
<1>4. \A c \in Batches : c # b => batch'[c] = batch[c]
  BY DEF Judge, JudgeAndNote, BatchTyped
<1>5. batch' = [c \in Batches |-> batch'[c]]
  <2>1. CASE Judge(b, as)
    BY <2>1 DEF Judge, BatchTyped
  <2>2. CASE JudgeAndNote(b, as)
    BY <2>2 DEF JudgeAndNote, BatchTyped
  <2> QED
    BY <2>1, <2>2
<1>8. JudgeAndNote(b, as) =>
         batch'[b] = [batch[b] EXCEPT !.at = "record", !.next = n, !.seen = s, !.verdicts = v]
  BY DEF JudgeAndNote, BatchTyped
<1>9. Record(b).id \in s /\ batch[b].seen \subseteq s
  OBVIOUS
<1>10. n = batch[b].next + 1 /\ v = Append(batch[b].verdicts, [id |-> Record(b).id, as |-> as])
  OBVIOUS
<1> HIDE DEF n, v, s
<1>6. /\ batch'[b] \in BatchState /\ batch'[b].at = "record" /\ batch'[b].list = batch[b].list
      /\ batch'[b].tenant = batch[b].tenant
      /\ batch'[b].next = n /\ batch'[b].verdicts = v /\ batch'[b].seen \in {s, batch[b].seen}
      /\ JudgeAndNote(b, as) => batch'[b].seen = s
  BY <1>1, <1>2, <1>3, <1>8 DEF BatchState, Steps
<1>7. batch' \in [Batches -> BatchState]
  BY <1>4, <1>5, <1>6 DEF BatchTyped
<1> QED
  BY <1>4, <1>6, <1>7, <1>9, <1>10

\* A step that leaves ledger and blobs alone, and after which nobody claims
\* that did not claim before, keeps the invariant.
LEMMA QuietStep ==
    ASSUME BatchInv, batch' \in [Batches -> BatchState], UNCHANGED <<ledger, stored, pruned>>,
           \A b \in Batches : Claiming(b)' => Claiming(b) /\ (batch'[b].at = "store" => batch[b].at = "store"),
           \A b \in Batches : batch'[b].at # "new" => batch'[b].tenant \in Tenants,
           \A b \in Batches : InIngest(b)' =>
              /\ batch'[b].next = batch[b].next /\ batch'[b].list = batch[b].list
              /\ batch'[b].tenant = batch[b].tenant
              /\ batch[b].next \in 1..Len(batch[b].list) /\ Key(b) \in Keys
    PROVE  BatchInv'
<1>1. \A b \in Batches : InIngest(b)' => Key(b)' = Key(b)
  BY DEF Record, Key
<1>2. \A b \in Batches : Claiming(b)' => InIngest(b)' /\ Claiming(b)
  BY DEF Claiming, InIngest
<1>3. BatchTyped'
  BY DEF BatchInv, BatchTyped
<1>4. InHand'
  <2>1. Keys' = Keys
    BY DEF Keys
  <2> QED
    BY <1>1, <2>1 DEF InHand
<1>5. Claims'
  BY <1>1, <1>2 DEF BatchInv, Claims, Claiming, InIngest
<1> QED
  BY <1>3, <1>4, <1>5 DEF BatchInv

\* Steps of a batch that touch neither ledger nor blobs.
LEMMA QuietSteps ==
    ASSUME LegalConstants, BatchInv, NEW b \in Batches,
           \/ Arrive(b) \/ TakeRecord(b) \/ TakeJunk(b) \/ IngestRefuses(b) \/ Register(b)
           \/ SettleFails(b) \/ MakeCodes(b) \/ CodesFail(b) \/ Reply(b)
    PROVE  BatchInv'
<1>0. BatchTyped /\ InHand
  BY DEF BatchInv
<1>0a. UNCHANGED <<ledger, stored, pruned>>
  BY DEF Arrive, TakeRecord, TakeJunk, IngestRefuses, Register, SettleFails, MakeCodes, CodesFail, Reply, store
<1>1. CASE Arrive(b)
  <2>1. PICK l \in Lists, t \in Tenants :
          batch' = [batch EXCEPT ![b] = [New EXCEPT !.at = "record", !.tenant = t, !.list = l]]
    BY <1>1 DEF Arrive
  <2>2. [New EXCEPT !.at = "record", !.tenant = t, !.list = l] \in BatchState
    <3>1. l \in Seq(Rows)
      BY DEF LegalConstants
    <3> QED
      BY <3>1, NewTyped
  <2>3. batch' \in [Batches -> BatchState] /\ batch'[b].at = "record" /\ batch'[b].tenant \in Tenants
        /\ \A c \in Batches : c # b => batch'[c] = batch[c]
    BY <1>0, <2>1, <2>2 DEF BatchTyped, New
  <2> QED
    BY <1>0, <1>0a, <2>3, QuietStep DEF InHand, InIngest, Claiming, Record, Key
<1>2. CASE TakeRecord(b)
  <2>1. batch[b].next \in 1..Len(batch[b].list) /\ batch[b].tenant \in Tenants
    BY <1>0, <1>2 DEF TakeRecord, BatchTyped, BatchState, InHand
  <2>2. Record(b) \in Rows
    BY <1>0, <2>1, RecordTyped
  <2>3. CASE Judge(b, "failed") \/ Judge(b, "duplicate") \/ JudgeAndNote(b, "duplicate")
    <3>1. /\ batch' \in [Batches -> BatchState] /\ batch'[b].at = "record"
          /\ batch'[b].tenant = batch[b].tenant
          /\ \A c \in Batches : c # b => batch'[c] = batch[c]
      BY <1>0, <2>1, <2>3, JudgeKeeps
    <3> QED
      BY <1>0, <1>0a, <2>1, <3>1, QuietStep DEF InHand, InIngest, Claiming, Record, Key
  <2>4. CASE Goto(b, "ledger") /\ ~Malformed(b)
    <3>1. /\ batch' \in [Batches -> BatchState]
          /\ \A c \in Batches : c # b => batch'[c] = batch[c]
          /\ batch'[b].at = "ledger" /\ batch'[b].next = batch[b].next /\ batch'[b].list = batch[b].list
          /\ batch'[b].tenant = batch[b].tenant
      BY <1>0, <2>4, GotoKeeps DEF Steps
    <3>2. Key(b) \in Keys
      BY <2>1, <2>2, <2>4 DEF Malformed, Rows, Key, Keys
    <3> QED
      BY <1>0, <1>0a, <2>1, <3>1, <3>2, QuietStep DEF InHand, InIngest, Claiming, Record, Key
  <2> QED
    BY <1>2, <2>3, <2>4 DEF TakeRecord
<1>3. CASE TakeJunk(b) \/ Reply(b)
  <2>1. batch[b].tenant \in Tenants
    BY <1>0, <1>3 DEF TakeJunk, Reply, InHand
  <2>2. /\ batch' \in [Batches -> BatchState] /\ batch'[b].at \in {"raised", "answered"}
        /\ batch'[b].tenant = batch[b].tenant
        /\ \A c \in Batches : c # b => batch'[c] = batch[c]
    BY <1>0, <1>3, GotoKeeps DEF TakeJunk, Reply, Steps
  <2> QED
    BY <1>0, <1>0a, <2>1, <2>2, QuietStep DEF InHand, InIngest, Claiming, Record, Key
<1>4. CASE IngestRefuses(b) \/ SettleFails(b) \/ MakeCodes(b) \/ CodesFail(b)
  <2>2. batch[b].next \in 1..Len(batch[b].list) /\ batch[b].tenant \in Tenants
    BY <1>0, <1>4 DEF IngestRefuses, SettleFails, MakeCodes, CodesFail, InHand, InIngest
  <2>3. Judge(b, "failed") \/ JudgeAndNote(b, "processed")
    BY <1>4 DEF IngestRefuses, SettleFails, MakeCodes, CodesFail, Processed
  <2>4. /\ batch' \in [Batches -> BatchState] /\ batch'[b].at = "record"
        /\ batch'[b].tenant = batch[b].tenant
        /\ \A c \in Batches : c # b => batch'[c] = batch[c]
    BY <1>0, <2>2, <2>3, JudgeKeeps
  <2> QED
    BY <1>0, <1>0a, <2>2, <2>4, QuietStep DEF InHand, InIngest, Claiming, Record, Key
<1>5. CASE Register(b)
  <2>1. /\ batch' \in [Batches -> BatchState]
        /\ \A c \in Batches : c # b => batch'[c] = batch[c]
        /\ batch'[b].at = "settle" /\ batch'[b].next = batch[b].next /\ batch'[b].list = batch[b].list
        /\ batch'[b].tenant = batch[b].tenant
    BY <1>0, <1>5, GotoKeeps DEF Register, Steps
  <2>2. batch[b].at = "register"
    BY <1>5 DEF Register
  <2> QED
    BY <1>0, <1>0a, <2>1, <2>2, QuietStep DEF InHand, InIngest, Claiming, Record, Key
<1> QED
  BY <1>1, <1>2, <1>3, <1>4, <1>5

\* What pruning does: only rows of finished ingests go, and each that goes is
\* counted.
LEMMA PruneKeeps ==
    ASSUME BatchTyped, NEW rows \in [Keys -> {"none", "pending", "error", "processed"}],
           \E gone \in SUBSET Finished : Prune(gone, rows)
    PROVE  /\ ledger' \in [Keys -> {"none", "pending", "error", "processed"}]
           /\ pruned' \in [Keys -> Nat]
           /\ \A k \in Keys :
                 \/ ledger[k] = "processed" /\ ledger'[k] = "none" /\ pruned'[k] = pruned[k] + 1
                 \/ ledger'[k] = rows[k] /\ pruned'[k] = pruned[k]
  BY DEF BatchTyped, Prune, Finished

\* Only a row that nobody has claimed is claimed.
LEMMA ClaimKeeps == ASSUME LegalConstants, BatchInv, NEW b \in Batches, Claim(b) PROVE BatchInv'
<1> DEFINE x == Key(b)
<1>0. BatchTyped /\ InHand /\ Claims
  BY DEF BatchInv
<1>1. batch[b].at = "ledger" /\ batch[b].next \in 1..Len(batch[b].list) /\ x \in Keys /\ UNCHANGED stored
  BY <1>0 DEF Claim, InHand, InIngest
<1>2. CASE Claimable(x)
  <2>1. ledger[x] = "none" /\ Goto(b, "store")
    BY <1>2 DEF Claim, Claimable
  <2> DEFINE rows == [ledger EXCEPT ![x] = "pending"]
  <2>1a. \E gone \in SUBSET Finished : Prune(gone, rows)
    BY <1>2 DEF Claim
  <2>2. /\ batch' \in [Batches -> BatchState]
        /\ \A c \in Batches : c # b => batch'[c] = batch[c]
        /\ batch'[b].at = "store" /\ batch'[b].next = batch[b].next /\ batch'[b].list = batch[b].list
        /\ batch'[b].tenant = batch[b].tenant
    BY <1>0, <2>1, GotoKeeps DEF Steps
  <2>3. \A c \in Batches : Key(c)' = Key(c)
    BY <2>2 DEF Record, Key
  <2>4. \A c \in Batches : Claiming(c) => c # b /\ Key(c) # x
    BY <1>0, <1>1, <2>1 DEF Claims, Claiming
  <2>5. rows \in [Keys -> {"none", "pending", "error", "processed"}]
    BY <1>0, <1>1 DEF BatchTyped
  <2>6. /\ ledger' \in [Keys -> {"none", "pending", "error", "processed"}]
        /\ pruned' \in [Keys -> Nat]
        /\ \A k \in Keys :
              \/ ledger[k] = "processed" /\ ledger'[k] = "none" /\ pruned'[k] = pruned[k] + 1
              \/ ledger'[k] = (IF k = x THEN "pending" ELSE ledger[k]) /\ pruned'[k] = pruned[k]
    <3>1. \A k \in Keys : rows[k] = IF k = x THEN "pending" ELSE ledger[k]
      BY <1>0 DEF BatchTyped
    <3> HIDE DEF rows, x
    <3>2. /\ ledger' \in [Keys -> {"none", "pending", "error", "processed"}]
          /\ pruned' \in [Keys -> Nat]
          /\ \A k \in Keys :
                \/ ledger[k] = "processed" /\ ledger'[k] = "none" /\ pruned'[k] = pruned[k] + 1
                \/ ledger'[k] = rows[k] /\ pruned'[k] = pruned[k]
      BY <1>0, <2>1a, <2>5, PruneKeeps
    <3> QED
      BY <3>1, <3>2
  <2>7. BatchTyped'
    BY <1>0, <1>1, <2>2, <2>6 DEF BatchTyped
  <2>8. InHand'
    BY <1>0, <1>1, <2>2, <2>3 DEF InHand, InIngest, Keys
  <2>9. \A c \in Batches : Claiming(c)' => c = b \/ (Claiming(c) /\ batch'[c] = batch[c])
    BY <2>2 DEF Claiming
  <2>10. Claims'
    <3>1. stored \in [Keys -> Nat] /\ pruned \in [Keys -> Nat]
      BY <1>0 DEF BatchTyped
    <3>2. stored[x] <= pruned[x]
      BY <1>0, <1>1, <2>1 DEF Claims
    <3>3. \A c \in Batches : Claiming(c) => Key(c) \in Keys /\ ledger[Key(c)] = "pending"
      BY <1>0 DEF InHand, InIngest, Claiming, Claims
    <3>4. ledger'[x] = "pending" /\ pruned'[x] = pruned[x]
      <4>1. ledger[x] # "processed"
        BY <2>1
      <4> QED
        BY <1>1, <2>6, <4>1
    <3> HIDE DEF x
    <3>5. \A c \in Batches : Claiming(c)' => ledger'[Key(c)'] = "pending"
      BY <2>3, <2>4, <2>6, <2>9, <3>3, <3>4 DEF x
    <3>6. \A c, d \in Batches : Claiming(c)' /\ Claiming(d)' /\ Key(c)' = Key(d)' => c = d
      BY <1>0, <2>3, <2>4, <2>9 DEF Claims, x
    <3>7. ASSUME NEW c \in Batches, batch'[c].at = "store"
          PROVE  stored'[Key(c)'] <= pruned'[Key(c)']
      <4>1. CASE c = b
        BY <1>1, <2>3, <3>2, <3>4, <4>1 DEF x
      <4>2. CASE c # b
        <5>1. batch[c].at = "store" /\ Claiming(c)
          BY <2>2, <3>7, <4>2 DEF Claiming
        <5>2. stored[Key(c)] <= pruned[Key(c)] /\ pruned'[Key(c)] = pruned[Key(c)]
          BY <1>0, <2>4, <2>6, <3>3, <5>1 DEF Claims
        <5> QED
          BY <1>1, <2>3, <5>2
      <4> QED
        BY <4>1, <4>2
    <3>8. \A k \in Keys : /\ ledger'[k] = "none" => stored'[k] <= pruned'[k]
                          /\ stored'[k] <= pruned'[k] + 1
      <4> TAKE k \in Keys
      <4>1. stored[k] \in Nat /\ pruned[k] \in Nat /\ stored[k] <= pruned[k] + 1
            /\ (ledger[k] = "none" => stored[k] <= pruned[k])
        BY <1>0, <3>1 DEF Claims
      <4>2. CASE ledger[k] = "processed" /\ ledger'[k] = "none" /\ pruned'[k] = pruned[k] + 1
        BY <1>1, <4>1, <4>2
      <4>3. CASE ledger'[k] = (IF k = x THEN "pending" ELSE ledger[k]) /\ pruned'[k] = pruned[k]
        BY <1>1, <4>1, <4>3
      <4> QED
        BY <2>6, <4>2, <4>3
    <3> QED
      BY <3>5, <3>6, <3>7, <3>8 DEF Claims, Claiming, Keys
  <2> QED
    BY <2>7, <2>8, <2>10 DEF BatchInv
<1>3. CASE ~Claimable(x)
  <2>1. UNCHANGED <<ledger, stored, pruned>> /\ (Goto(b, "codes") \/ JudgeAndNote(b, "duplicate"))
    BY <1>3 DEF Claim
  <2>2. CASE Goto(b, "codes")
    <3>1. /\ batch' \in [Batches -> BatchState]
          /\ \A c \in Batches : c # b => batch'[c] = batch[c]
          /\ batch'[b].at = "codes" /\ batch'[b].next = batch[b].next /\ batch'[b].list = batch[b].list
          /\ batch'[b].tenant = batch[b].tenant
      BY <1>0, <2>2, GotoKeeps DEF Steps
    <3> QED
      BY <1>0, <1>1, <2>1, <3>1, QuietStep DEF InHand, InIngest, Claiming, Record, Key
  <2>3. CASE JudgeAndNote(b, "duplicate")
    <3>1. /\ batch' \in [Batches -> BatchState] /\ batch'[b].at = "record"
          /\ batch'[b].tenant = batch[b].tenant
          /\ \A c \in Batches : c # b => batch'[c] = batch[c]
      BY <1>0, <1>1, <2>3, JudgeKeeps
    <3> QED
      BY <1>0, <1>1, <2>1, <3>1, QuietStep DEF InHand, InIngest, Claiming, Record, Key
  <2> QED
    BY <2>1, <2>2, <2>3
<1> QED
  BY <1>2, <1>3

\* The batch that claimed a row writes its blob, once.
LEMMA StoreKeeps == ASSUME LegalConstants, BatchInv, NEW b \in Batches, StoreBlob(b) PROVE BatchInv'
<1> DEFINE x == Key(b)
<1>0. BatchTyped /\ InHand /\ Claims
  BY DEF BatchInv
<1>1. /\ batch[b].at = "store" /\ batch[b].next \in 1..Len(batch[b].list) /\ x \in Keys
      /\ stored[x] <= pruned[x] /\ ledger[x] = "pending"
  BY <1>0 DEF StoreBlob, InHand, InIngest, Claims, Claiming
<1>2. /\ batch' \in [Batches -> BatchState]
      /\ \A c \in Batches : c # b => batch'[c] = batch[c]
      /\ batch'[b].at = "register" /\ batch'[b].next = batch[b].next /\ batch'[b].list = batch[b].list
      /\ batch'[b].tenant = batch[b].tenant
  BY <1>0, GotoKeeps DEF StoreBlob, Steps
<1>3. \A y \in Keys : stored'[y] = IF y = x THEN stored[y] + 1 ELSE stored[y]
  BY <1>0, <1>1 DEF StoreBlob, BatchTyped
<1>4. UNCHANGED <<ledger, pruned>>
  BY DEF StoreBlob
<1>5. BatchTyped'
  BY <1>0, <1>1, <1>2, <1>4 DEF StoreBlob, BatchTyped
<1>6. \A c \in Batches : Key(c)' = Key(c) /\ (Claiming(c)' <=> Claiming(c))
  BY <1>1, <1>2 DEF Record, Key, Claiming
<1>7. InHand'
  BY <1>0, <1>1, <1>2, <1>6 DEF InHand, InIngest, Keys
<1>8. \A c \in Batches : batch'[c].at = "store" =>
         c # b /\ batch[c].at = "store" /\ Key(c) # x /\ Key(c) \in Keys
  BY <1>0, <1>1, <1>2 DEF Claims, Claiming, InHand, InIngest
<1>9. Claims'
  <2>1. \A k \in Keys : stored[k] \in Nat /\ pruned[k] \in Nat
    BY <1>0 DEF BatchTyped
  <2> HIDE DEF x
  <2>2. \A c \in Batches : Claiming(c)' => ledger'[Key(c)'] = "pending"
    BY <1>0, <1>4, <1>6 DEF Claims
  <2>3. \A c, d \in Batches : Claiming(c)' /\ Claiming(d)' /\ Key(c)' = Key(d)' => c = d
    BY <1>0, <1>6 DEF Claims
  <2>4. \A c \in Batches : batch'[c].at = "store" => stored'[Key(c)'] <= pruned'[Key(c)']
    BY <1>0, <1>3, <1>4, <1>6, <1>8 DEF Claims
  <2>5. \A k \in Keys : ledger'[k] = "none" => stored'[k] <= pruned'[k]
    BY <1>0, <1>1, <1>3, <1>4 DEF Claims
  <2>6. \A k \in Keys : stored'[k] <= pruned'[k] + 1
    BY <1>0, <1>1, <1>3, <1>4, <2>1 DEF Claims
  <2> QED
    BY <2>2, <2>3, <2>4, <2>5, <2>6 DEF Claims, Claiming, Keys
<1> QED
  BY <1>5, <1>7, <1>9 DEF BatchInv

\* A claim ends with the row settled, in error or pending; nobody else holds it.
LEMMA ReleaseKeeps ==
    ASSUME LegalConstants, BatchInv, NEW b \in Batches, StoreFails(b) \/ Settle(b)
    PROVE  BatchInv'
<1> DEFINE x == Key(b)
<1>0. BatchTyped /\ InHand /\ Claims
  BY DEF BatchInv
<1>1. Claiming(b) /\ batch[b].next \in 1..Len(batch[b].list) /\ x \in Keys /\ batch[b].tenant \in Tenants
  BY <1>0 DEF StoreFails, Settle, InHand, InIngest, Claiming
<1>2. /\ batch' \in [Batches -> BatchState]
      /\ \A c \in Batches : c # b => batch'[c] = batch[c]
      /\ batch'[b].tenant = batch[b].tenant
      /\ \/ batch'[b].at = "record"
         \/ batch'[b].at = "codes" /\ batch'[b].next = batch[b].next /\ batch'[b].list = batch[b].list
  <2>1. CASE StoreFails(b)
    BY <1>0, <1>1, <2>1, JudgeKeeps DEF StoreFails
  <2>2. CASE Settle(b)
    BY <1>0, <2>2, GotoKeeps DEF Settle, Steps
  <2> QED
    BY <2>1, <2>2
<1>3. /\ UNCHANGED <<stored, pruned>>
      /\ \E mark \in {"error", "pending", "processed"} : ledger' = [ledger EXCEPT ![x] = mark]
  BY DEF StoreFails, Settle
<1>4. \A c \in Batches : Claiming(c)' => c # b /\ Claiming(c) /\ batch'[c] = batch[c]
         /\ Key(c) # x /\ Key(c) \in Keys /\ Key(c)' = Key(c)
  BY <1>0, <1>1, <1>2 DEF Claims, Claiming, Record, Key, InHand, InIngest
<1>5. BatchTyped'
  BY <1>0, <1>1, <1>2, <1>3 DEF BatchTyped
<1>6. InHand'
  BY <1>0, <1>1, <1>2 DEF InHand, InIngest, Record, Key, Keys
<1>7. \A y \in Keys : (y # x => ledger'[y] = ledger[y]) /\ ledger'[x] # "none"
  BY <1>0, <1>1, <1>3 DEF BatchTyped
<1>8. Claims'
  <2> HIDE DEF x
  <2>1. \A c \in Batches : batch'[c].at = "store" => Claiming(c)' /\ batch[c].at = "store"
    BY <1>4 DEF Claiming
  <2>2. \A c \in Batches : Claiming(c)' => ledger'[Key(c)'] = "pending"
    BY <1>0, <1>4, <1>7 DEF Claims
  <2>3. \A c, d \in Batches : Claiming(c)' /\ Claiming(d)' /\ Key(c)' = Key(d)' => c = d
    BY <1>0, <1>4 DEF Claims
  <2>4. \A c \in Batches : batch'[c].at = "store" => stored'[Key(c)'] <= pruned'[Key(c)']
    BY <1>0, <1>3, <1>4, <2>1 DEF Claims
  <2>5. \A k \in Keys : ledger'[k] = "none" => stored'[k] <= pruned'[k]
    BY <1>0, <1>3, <1>7 DEF Claims
  <2>6. \A k \in Keys : stored'[k] <= pruned'[k] + 1
    BY <1>0, <1>3 DEF Claims
  <2> QED
    BY <2>2, <2>3, <2>4, <2>5, <2>6 DEF Claims, Claiming, Keys
<1> QED
  BY <1>5, <1>6, <1>8 DEF BatchInv

\* What a batch is after the relay died.
LEMMA Restarted ==
    ASSUME BatchTyped, Crash, NEW b \in Batches
    PROVE  /\ batch'[b] \in BatchState
           /\ batch'[b].tenant = batch[b].tenant /\ batch'[b].list = batch[b].list
           /\ \/ batch'[b] = batch[b] /\ b \notin Working
              \/ /\ b \in Working /\ batch'[b].at = "record" /\ batch'[b].next = 1
                 /\ batch'[b].verdicts = <<>> /\ batch'[b].seen = {}
              \/ /\ b \in Working /\ batch'[b].at = "lost" /\ batch'[b].next = batch[b].next
                 /\ batch'[b].verdicts = batch[b].verdicts /\ batch'[b].seen = batch[b].seen
<1>1. batch[b] \in BatchState
  BY DEF BatchTyped
<1>2. batch'[b] = IF b \notin Working THEN batch[b]
                  ELSE IF b \in Queued
                  THEN [batch[b] EXCEPT !.at = "record", !.next = 1, !.verdicts = <<>>, !.seen = {}]
                  ELSE [batch[b] EXCEPT !.at = "lost"]
  BY Zenon DEF Crash
<1>3. <<>> \in Seq(Verdicts) /\ {} \in SUBSET STRING /\ 1 \in Nat \ {0}
  OBVIOUS
<1>4. CASE b \notin Working
  BY <1>1, <1>2, <1>4
<1>5. CASE b \in Working /\ b \in Queued
  BY <1>1, <1>2, <1>3, <1>5 DEF BatchState, Steps
<1>6. CASE b \in Working /\ b \notin Queued
  BY <1>1, <1>2, <1>6 DEF BatchState, Steps
<1> QED
  BY <1>4, <1>5, <1>6

\* The relay dies: claims are given up, not released; and it prunes.
LEMMA CrashKeeps == ASSUME LegalConstants, BatchInv, Crash PROVE BatchInv'
<1>0. BatchTyped /\ InHand /\ Claims
  BY DEF BatchInv
<1>1. batch' \in [Batches -> BatchState]
  <2>1. batch' = [b \in Batches |-> batch'[b]]
    BY Zenon DEF Crash
  <2> QED
    BY <1>0, <2>1, Restarted
<1>2. UNCHANGED stored
  BY Zenon DEF Crash
<1>3. \E gone \in SUBSET Finished : Prune(gone, ledger)
  BY Zenon DEF Crash
<1>3a. ledger \in [Keys -> {"none", "pending", "error", "processed"}]
  BY <1>0 DEF BatchTyped
<1>4. /\ ledger' \in [Keys -> {"none", "pending", "error", "processed"}]
      /\ pruned' \in [Keys -> Nat]
      /\ \A k \in Keys :
            \/ ledger[k] = "processed" /\ ledger'[k] = "none" /\ pruned'[k] = pruned[k] + 1
            \/ ledger'[k] = ledger[k] /\ pruned'[k] = pruned[k]
  BY <1>0, <1>3, <1>3a, PruneKeeps
<1>5. \A b \in Batches : InIngest(b)' \/ Claiming(b)' => batch'[b] = batch[b]
  BY <1>0, Restarted DEF InIngest, Claiming
<1>6. BatchTyped'
  BY <1>0, <1>1, <1>2, <1>4 DEF BatchTyped
<1>7. \A b \in Batches : InIngest(b)' \/ Claiming(b)' =>
         Key(b)' = Key(b) /\ (Claiming(b)' <=> Claiming(b)) /\ (InIngest(b)' <=> InIngest(b))
  BY <1>5 DEF InIngest, Claiming, Record, Key
<1>8. InHand'
  <2>1. \A b \in Batches : batch'[b].at # "new" => batch'[b].tenant \in Tenants
    <3> SUFFICES ASSUME NEW b \in Batches, batch'[b].at # "new" PROVE batch[b].tenant \in Tenants
      BY <1>0, Restarted
    <3>1. batch[b].at # "new"
      BY <1>0, Restarted DEF Working
    <3> QED
      BY <1>0, <3>1 DEF InHand
  <2>2. \A b \in Batches : InIngest(b)' => batch'[b].next \in 1..Len(batch'[b].list) /\ Key(b)' \in Keys
    BY <1>0, <1>5, <1>7 DEF InHand
  <2> QED
    BY <2>1, <2>2 DEF InHand, Keys
<1>9. Claims'
  <2>1. \A k \in Keys : stored[k] \in Nat /\ pruned[k] \in Nat
    BY <1>0 DEF BatchTyped
  <2>2. \A b \in Batches : Claiming(b)' =>
          /\ Claiming(b) /\ Key(b)' = Key(b) /\ Key(b) \in Keys /\ ledger[Key(b)] = "pending"
    BY <1>0, <1>7 DEF InHand, InIngest, Claiming, Claims
  <2>3. \A b \in Batches : Claiming(b)' => ledger'[Key(b)'] = "pending" /\ pruned'[Key(b)'] = pruned[Key(b)]
    BY <1>4, <2>2
  <2>4. \A c, d \in Batches : Claiming(c)' /\ Claiming(d)' /\ Key(c)' = Key(d)' => c = d
    BY <1>0, <2>2 DEF Claims
  <2>5. \A c \in Batches : batch'[c].at = "store" => stored'[Key(c)'] <= pruned'[Key(c)']
    <3> SUFFICES ASSUME NEW c \in Batches, batch'[c].at = "store"
                 PROVE  stored'[Key(c)'] <= pruned'[Key(c)']
      OBVIOUS
    <3>1. Claiming(c)'
      BY DEF Claiming
    <3>2. batch[c].at = "store"
      BY <1>5, <3>1
    <3> QED
      BY <1>0, <1>2, <2>2, <2>3, <3>1, <3>2 DEF Claims
  <2>6. \A k \in Keys : /\ ledger'[k] = "none" => stored'[k] <= pruned'[k]
                        /\ stored'[k] <= pruned'[k] + 1
    <3> TAKE k \in Keys
    <3>1. stored[k] <= pruned[k] + 1 /\ (ledger[k] = "none" => stored[k] <= pruned[k])
      BY <1>0 DEF Claims
    <3> QED
      BY <1>2, <1>4, <2>1, <3>1
  <2> QED
    BY <2>3, <2>4, <2>5, <2>6 DEF Claims, Claiming, Keys
<1> QED
  BY <1>6, <1>8, <1>9 DEF BatchInv

LEMMA BatchSteps == ASSUME LegalConstants PROVE BatchInv /\ [Next]_vars => BatchInv'
<1> SUFFICES ASSUME BatchInv, [Next]_vars PROVE BatchInv'
  OBVIOUS
<1>1. CASE Crash
  BY <1>1, CrashKeeps
<1>2. ASSUME NEW b \in Batches, Step(b) PROVE BatchInv'
  BY <1>2, QuietSteps, ClaimKeeps, StoreKeeps, ReleaseKeeps DEF Step
<1>3. CASE UNCHANGED vars
  BY <1>3 DEF vars, store, BatchInv, BatchTyped, InHand, Claims, InIngest, Claiming, Record, Key, Keys
<1> QED
  BY <1>1, <1>2, <1>3 DEF Next

\* However batches overlap, are delivered again or repeat a transaction, a
\* content of a tenant becomes one blob, and one more only for each finished
\* row of it that was pruned (BatchExternalService.process_batch over the
\* ledger of IngestionService).
THEOREM OneBlobPerContent == RelaySpec => []TransactionStoredOnce
<1>1. RelayInit => BatchInv
  BY RelayConstants, BatchInit DEF RelayInit
<1>2. BatchInv /\ [RelayNext]_relayVars => BatchInv'
  BY RelayConstants, EachSteps, BatchSteps
<1>3. BatchInv => TransactionStoredOnce
  BY DEF BatchInv, Claims, TransactionStoredOnce
<1> QED
  BY <1>1, <1>2, <1>3, PTL DEF RelaySpec

\* A batch covers its records one by one: the verdicts so far are on the
\* records before the next one; what is processed is stored and noted, and
\* what is noted is not taken into ingest again.
KeyAt(b, i) == <<batch[b].tenant, batch[b].list[i].content>>

Covered(b) ==
    /\ Len(batch[b].verdicts) = batch[b].next - 1
    /\ batch[b].next <= Len(batch[b].list) + 1
    /\ batch[b].at = "answered" => batch[b].next = Len(batch[b].list) + 1
    /\ \A i \in 1..Len(batch[b].verdicts) : batch[b].verdicts[i].id = batch[b].list[i].id
    /\ \A i \in 1..Len(batch[b].verdicts) : batch[b].verdicts[i].as = "processed" =>
          /\ KeyAt(b, i) \in Keys /\ stored[KeyAt(b, i)] > 0
          /\ batch[b].list[i].id \in batch[b].seen
          /\ \A j \in 1..Len(batch[b].verdicts) :
                batch[b].list[j].id = batch[b].list[i].id /\ batch[b].verdicts[j].as = "processed"
                   => j = i
    /\ InIngest(b) => Record(b).id \notin batch[b].seen
    /\ batch[b].at \in {"register", "settle", "codes"} => stored[Key(b)] > 0

Coverage ==
    /\ \A b \in Batches : Covered(b)
    /\ \A x \in Keys : ledger[x] = "processed" => stored[x] > 0

\* Blobs are not deleted, so what a batch covers stays covered.
LEMMA OthersCovered ==
    ASSUME BatchTyped, NEW b \in Batches, Covered(b), batch'[b] = batch[b],
           InHand, \A x \in Keys : stored[x] > 0 => stored'[x] > 0
    PROVE  Covered(b)'
<1>1. Record(b)' = Record(b) /\ Key(b)' = Key(b) /\ (InIngest(b)' <=> InIngest(b))
      /\ (\A i : KeyAt(b, i)' = KeyAt(b, i)) /\ Keys' = Keys
  BY DEF Record, Key, KeyAt, Keys, InIngest
<1>2. batch[b].at \in {"register", "settle", "codes"} => Key(b) \in Keys
  BY DEF InHand, InIngest
<1> QED
  BY <1>1, <1>2 DEF Covered

\* A verdict on the record in hand.
LEMMA JudgedCovered ==
    ASSUME LegalConstants, BatchTyped, NEW b \in Batches, Covered(b),
           batch[b].next \in 1..Len(batch[b].list), UNCHANGED stored,
           NEW as \in {"processed", "duplicate", "failed"}, Judge(b, as) \/ JudgeAndNote(b, as),
           as = "processed" => /\ JudgeAndNote(b, as) /\ Record(b).id \notin batch[b].seen
                               /\ Key(b) \in Keys /\ stored[Key(b)] > 0
    PROVE  Covered(b)'
<1> DEFINE n == batch[b].next  v == batch[b].verdicts  w == batch'[b].verdicts  l == batch[b].list
           t == batch[b].tenant
<1>1. /\ batch'[b].at = "record" /\ batch'[b].list = l /\ batch'[b].next = n + 1
      /\ batch'[b].tenant = t
      /\ w = Append(v, [id |-> Record(b).id, as |-> as])
      /\ batch[b].seen \subseteq batch'[b].seen
      /\ JudgeAndNote(b, as) => Record(b).id \in batch'[b].seen
  BY JudgeKeeps
<1>2. v \in Seq(Verdicts) /\ l \in Seq(Rows) /\ n \in Nat \ {0}
  BY DEF BatchTyped, BatchState
<1>3. Record(b).id \in STRING /\ Record(b) = l[n] /\ Key(b) = <<t, l[n].content>>
  BY RecordTyped DEF Record, Key
<1>4. Len(v) = n - 1 /\ n <= Len(l)
  BY <1>2 DEF Covered
<1>5. /\ Len(w) = n /\ w[n].id = l[n].id /\ w[n].as = as
      /\ \A i \in 1..(n-1) : w[i] = v[i]
  <2> DEFINE r == [id |-> Record(b).id, as |-> as]
  <2>1. r \in Verdicts /\ r.id = l[n].id /\ r.as = as
    BY <1>3 DEF Verdicts
  <2>2. w = Append(v, r)
    BY <1>1
  <2> HIDE DEF n, v, w, l, r
  <2>3. Len(w) = Len(v) + 1 /\ w[Len(v) + 1] = r /\ \A i \in 1..Len(v) : w[i] = v[i]
    BY <1>2, <2>1, <2>2
  <2>4. Len(v) + 1 = n
    BY <1>2, <1>4
  <2> QED
    BY <1>4, <2>1, <2>3, <2>4
<1>6. \A i \in 1..n : i = n \/ i \in 1..(n-1)
  BY <1>2
<1>7. \A i \in 1..(n-1) : v[i].id = l[i].id
  BY <1>4 DEF Covered
<1>8. \A i \in 1..(n-1) : v[i].as = "processed" =>
          /\ <<t, l[i].content>> \in Keys /\ stored[<<t, l[i].content>>] > 0 /\ l[i].id \in batch[b].seen
          /\ \A j \in 1..(n-1) : l[j].id = l[i].id /\ v[j].as = "processed" => j = i
  BY <1>4 DEF Covered, KeyAt
<1> HIDE DEF n, v, w, l, t
<1>9. \A i \in 1..n : w[i].id = l[i].id
  BY <1>5, <1>6, <1>7
<1>10. ASSUME NEW i \in 1..n, w[i].as = "processed"
       PROVE  /\ <<t, l[i].content>> \in Keys /\ stored'[<<t, l[i].content>>] > 0
              /\ l[i].id \in batch'[b].seen
              /\ \A j \in 1..n : l[j].id = l[i].id /\ w[j].as = "processed" => j = i
  <2>1. CASE i = n
    <3>1. as = "processed" /\ l[n].id \notin batch[b].seen
      BY <2>1, <1>3, <1>5, <1>10
    <3>2. \A j \in 1..(n-1) : w[j].as = "processed" => l[j].id # l[n].id
      BY <3>1, <1>5, <1>8
    <3> QED
      BY <2>1, <3>1, <3>2, <1>1, <1>3, <1>6
  <2>2. CASE i \in 1..(n-1)
    <3>1. v[i].as = "processed"
      BY <2>2, <1>5, <1>10
    <3>2. /\ <<t, l[i].content>> \in Keys /\ stored'[<<t, l[i].content>>] > 0 /\ l[i].id \in batch'[b].seen
      BY <2>2, <3>1, <1>1, <1>8
    <3>3. w[n].as = "processed" => l[n].id # l[i].id
      BY <2>2, <3>1, <1>3, <1>5, <1>8
    <3> QED
      BY <2>2, <3>1, <3>2, <3>3, <1>5, <1>6, <1>8
  <2> QED
    BY <2>1, <2>2, <1>6
<1>11. n + 1 - 1 = n /\ n + 1 <= Len(l) + 1
  BY <1>2, <1>4
<1>12. batch'[b].verdicts = w
  BY DEF w
<1>13. /\ Len(batch'[b].verdicts) = n /\ batch'[b].next = n + 1 /\ batch'[b].list = l
       /\ batch'[b].at = "record" /\ batch'[b].verdicts = w /\ batch'[b].tenant = t
  BY <1>1, <1>5, <1>12
<1>14. \A i \in 1..n : batch'[b].verdicts[i].as = "processed" =>
          /\ KeyAt(b, i)' \in Keys' /\ stored'[KeyAt(b, i)'] > 0
          /\ batch'[b].list[i].id \in batch'[b].seen
          /\ \A j \in 1..n : batch'[b].list[j].id = batch'[b].list[i].id
                /\ batch'[b].verdicts[j].as = "processed" => j = i
  BY <1>10, <1>13 DEF KeyAt, Keys
<1>15. ~InIngest(b)' /\ batch'[b].at \notin {"answered", "register", "settle", "codes"}
  BY <1>13 DEF InIngest
<1>16. /\ Len(batch'[b].verdicts) = batch'[b].next - 1 /\ batch'[b].next <= Len(batch'[b].list) + 1
       /\ \A i \in 1..n : batch'[b].verdicts[i].id = batch'[b].list[i].id
  BY <1>9, <1>11, <1>13
<1> QED
  BY <1>13, <1>14, <1>15, <1>16 DEF Covered

\* Going to another step.
LEMMA GoneCovered ==
    ASSUME BatchTyped, NEW b \in Batches, Covered(b), NEW step \in Steps, Goto(b, step),
           \A x \in Keys : stored[x] > 0 => stored'[x] > 0,
           step = "answered" => batch[b].next = Len(batch[b].list) + 1,
           step \in {"ledger", "store", "register", "settle", "codes"} => Record(b).id \notin batch[b].seen,
           step \in {"register", "settle", "codes"} => stored'[Key(b)] > 0
    PROVE  Covered(b)'
<1>1. /\ batch'[b].at = step /\ batch'[b].next = batch[b].next /\ batch'[b].list = batch[b].list
      /\ batch'[b].verdicts = batch[b].verdicts /\ batch'[b].seen = batch[b].seen
      /\ batch'[b].tenant = batch[b].tenant
  BY GotoKeeps
<1>2. Record(b)' = Record(b) /\ Key(b)' = Key(b) /\ (\A i : KeyAt(b, i)' = KeyAt(b, i)) /\ Keys' = Keys
  BY <1>1 DEF Record, Key, KeyAt, Keys
<1> QED
  BY <1>1, <1>2 DEF Covered, InIngest

\* A batch that begins, or begins again, has no verdicts.
LEMMA BegunCovered ==
    ASSUME NEW b \in Batches, NEW l \in Seq(Rows), batch'[b].verdicts = <<>>, batch'[b].next = 1,
           batch'[b].list = l, batch'[b].at = "record"
    PROVE  Covered(b)'
<1>1. Len(l) \in Nat
  OBVIOUS
<1>2. Len(<<>>) = 1 - 1 /\ 1 <= Len(l) + 1 /\ 1..Len(<<>>) = {}
  BY <1>1
<1> QED
  BY <1>1, <1>2 DEF Covered, InIngest

LEMMA CoverageBegins == Init => Coverage
<1> SUFFICES ASSUME Init PROVE Coverage
  OBVIOUS
<1>1. \A b \in Batches : /\ batch[b].verdicts = <<>> /\ batch[b].list = <<>>
                         /\ batch[b].next = 1 /\ batch[b].at = "new"
  BY DEF Init, New
<1>2. Len(<<>>) = 1 - 1 /\ 1 <= 0 + 1 /\ 1..0 = {} /\ Len(<<>>) = 0
  OBVIOUS
<1>3. \A b \in Batches : Covered(b)
  BY <1>1, <1>2 DEF Covered, InIngest
<1> QED
  BY <1>3 DEF Coverage, Init

\* Steps of a batch that leave the blobs as they are.
LEMMA QuietCovered ==
    ASSUME LegalConstants, BatchInv, Coverage, NEW b \in Batches,
           \/ Arrive(b) \/ TakeRecord(b) \/ TakeJunk(b) \/ IngestRefuses(b) \/ Claim(b)
           \/ StoreFails(b) \/ Register(b) \/ Settle(b) \/ SettleFails(b) \/ MakeCodes(b) \/ CodesFail(b) \/ Reply(b)
    PROVE  Covered(b)'
<1>0. BatchTyped /\ InHand /\ Claims /\ Covered(b)
  BY DEF BatchInv, Coverage
<1>1. UNCHANGED stored
  BY DEF Arrive, TakeRecord, TakeJunk, IngestRefuses, Claim, StoreFails, Register, Settle, SettleFails,
         MakeCodes, CodesFail, Reply, store
<1>2. InIngest(b) => /\ batch[b].next \in 1..Len(batch[b].list) /\ Key(b) \in Keys
                     /\ Record(b).id \notin batch[b].seen
  BY <1>0 DEF InHand, Covered
<1>3. batch[b].next \in Nat \ {0} /\ batch[b].list \in Seq(Rows)
  BY <1>0 DEF BatchTyped, BatchState
<1>4. CASE Arrive(b)
  <2>1. PICK l \in Lists, t \in Tenants :
          batch' = [batch EXCEPT ![b] = [New EXCEPT !.at = "record", !.tenant = t, !.list = l]]
    BY <1>4 DEF Arrive
  <2>2. l \in Seq(Rows) /\ batch'[b] = [New EXCEPT !.at = "record", !.tenant = t, !.list = l]
    BY <1>0, <2>1 DEF LegalConstants, BatchTyped
  <2>3. /\ batch'[b].verdicts = <<>> /\ batch'[b].next = 1 /\ batch'[b].list = l
        /\ batch'[b].at = "record"
    BY <2>2 DEF New
  <2> QED
    BY <2>2, <2>3, BegunCovered
<1>5. CASE TakeRecord(b)
  <2>1. batch[b].next \in 1..Len(batch[b].list)
    BY <1>3, <1>5 DEF TakeRecord
  <2>2. CASE Judge(b, "failed") \/ Judge(b, "duplicate") \/ JudgeAndNote(b, "duplicate")
    BY <1>0, <1>1, <2>1, <2>2, JudgedCovered
  <2>3. CASE Goto(b, "ledger") /\ ~Repeated(b)
    BY <1>0, <1>1, <2>3, GoneCovered DEF Steps, Repeated
  <2> QED
    BY <1>5, <2>2, <2>3 DEF TakeRecord
<1>6. CASE TakeJunk(b)
  BY <1>0, <1>1, <1>6, GoneCovered DEF TakeJunk, Steps
<1>7. CASE Reply(b)
  <2>1. batch[b].next = Len(batch[b].list) + 1
    BY <1>0, <1>3, <1>7 DEF Reply, Covered
  <2> QED
    BY <1>0, <1>1, <1>7, <2>1, GoneCovered DEF Reply, Steps
<1>8. CASE IngestRefuses(b) \/ CodesFail(b) \/ StoreFails(b) \/ SettleFails(b)
  <2>1. InIngest(b) /\ Judge(b, "failed")
    BY <1>8 DEF IngestRefuses, CodesFail, StoreFails, SettleFails, InIngest
  <2> QED
    BY <1>0, <1>1, <1>2, <2>1, JudgedCovered
<1>9. CASE MakeCodes(b)
  <2>1. InIngest(b) /\ JudgeAndNote(b, "processed") /\ batch[b].at = "codes"
    BY <1>9 DEF MakeCodes, Processed, InIngest
  <2>2. stored[Key(b)] > 0
    BY <1>0, <2>1 DEF Covered
  <2> QED
    BY <1>0, <1>1, <1>2, <2>1, <2>2, JudgedCovered
<1>10. CASE Register(b) \/ Settle(b)
  <2>1. InIngest(b) /\ (Goto(b, "codes") \/ Goto(b, "settle")) /\ batch[b].at \in {"register", "settle"}
    BY <1>10 DEF Register, Settle, InIngest
  <2>2. stored'[Key(b)] > 0
    BY <1>0, <1>1, <2>1 DEF Covered
  <2> QED
    BY <1>0, <1>1, <1>2, <2>1, <2>2, GoneCovered DEF Steps
<1>11. CASE Claim(b)
  <2>1. InIngest(b)
    BY <1>11 DEF Claim, InIngest
  <2>2. CASE Goto(b, "store")
    BY <1>0, <1>1, <1>2, <2>1, <2>2, GoneCovered DEF Steps
  <2>3. CASE Goto(b, "codes") /\ ledger[Key(b)] = "processed"
    <3>1. stored'[Key(b)] > 0
      BY <1>1, <1>2, <2>1, <2>3 DEF Coverage
    <3> QED
      BY <1>0, <1>1, <1>2, <2>1, <2>3, <3>1, GoneCovered DEF Steps
  <2>4. CASE JudgeAndNote(b, "duplicate")
    BY <1>0, <1>1, <1>2, <2>1, <2>4, JudgedCovered
  <2> QED
    BY <1>11, <2>2, <2>3, <2>4 DEF Claim
<1> QED
  BY <1>4, <1>5, <1>6, <1>7, <1>8, <1>9, <1>10, <1>11

\* The blob of the record in hand is written.
LEMMA StoreCovered ==
    ASSUME LegalConstants, BatchInv, Coverage, NEW b \in Batches, StoreBlob(b)
    PROVE  Covered(b)' /\ \A x \in Keys : stored[x] > 0 => stored'[x] > 0
<1> DEFINE x == Key(b)
<1>0. BatchTyped /\ InHand /\ Covered(b)
  BY DEF BatchInv, Coverage
<1>1. InIngest(b) /\ x \in Keys /\ Record(b).id \notin batch[b].seen
  BY <1>0 DEF StoreBlob, InIngest, InHand, Covered
<1>2. stored \in [Keys -> Nat] /\ stored' = [stored EXCEPT ![x] = @ + 1]
  BY <1>0 DEF StoreBlob, BatchTyped
<1> HIDE DEF x
<1>3. \A y \in Keys : stored[y] > 0 => stored'[y] > 0
  BY <1>2
<1>4. stored'[x] > 0
  BY <1>1, <1>2
<1> QED
  BY <1>0, <1>1, <1>3, <1>4, GoneCovered DEF StoreBlob, Steps, x

LEMMA CrashCovered == ASSUME BatchInv, Coverage, Crash PROVE Coverage'
<1>0. BatchTyped /\ InHand
  BY DEF BatchInv
<1>1. UNCHANGED stored
  BY Zenon DEF Crash
<1>1a. \A x \in Keys : ledger'[x] = "processed" => ledger[x] = "processed"
  <2>1. \E gone \in SUBSET Finished : Prune(gone, ledger)
    BY Zenon DEF Crash
  <2>2. ledger \in [Keys -> {"none", "pending", "error", "processed"}]
    BY <1>0 DEF BatchTyped
  <2>3. \A k \in Keys :
           \/ ledger[k] = "processed" /\ ledger'[k] = "none" /\ pruned'[k] = pruned[k] + 1
           \/ ledger'[k] = ledger[k] /\ pruned'[k] = pruned[k]
    BY <1>0, <2>1, <2>2, PruneKeeps
  <2> QED
    BY <2>3
<1> SUFFICES ASSUME NEW b \in Batches PROVE Covered(b)'
  BY <1>1, <1>1a DEF Coverage, Keys
<1>2. batch[b] \in BatchState /\ Covered(b)
  BY DEF BatchInv, BatchTyped, Coverage
<1>3. CASE batch'[b] = batch[b]
  BY <1>0, <1>1, <1>2, <1>3, OthersCovered
<1>4. CASE batch'[b].at = "record" /\ batch'[b].next = 1 /\ batch'[b].verdicts = <<>>
  <2>1. batch'[b].list \in Seq(Rows)
    BY <1>0, Restarted DEF BatchState
  <2> QED
    BY <1>4, <2>1, BegunCovered
<1>5. CASE /\ batch'[b].at = "lost" /\ batch'[b].next = batch[b].next
           /\ batch'[b].verdicts = batch[b].verdicts /\ batch'[b].seen = batch[b].seen
  <2>1. batch'[b].tenant = batch[b].tenant /\ batch'[b].list = batch[b].list
    BY <1>0, Restarted
  <2>2. ~InIngest(b)' /\ (\A i : KeyAt(b, i)' = KeyAt(b, i)) /\ Keys' = Keys
    BY <1>5, <2>1 DEF InIngest, KeyAt, Keys
  <2> QED
    BY <1>1, <1>2, <1>5, <2>1, <2>2 DEF Covered
<1> QED
  BY <1>0, <1>3, <1>4, <1>5, Restarted

LEMMA CoverageSteps ==
    ASSUME LegalConstants PROVE BatchInv /\ Coverage /\ [Next]_vars => Coverage'
<1> SUFFICES ASSUME BatchInv, Coverage, [Next]_vars PROVE Coverage'
  OBVIOUS
<1>0. BatchTyped /\ InHand
  BY DEF BatchInv
<1>1. CASE Crash
  BY <1>1, CrashCovered
<1>2. ASSUME NEW b \in Batches, Step(b) PROVE Coverage'
  <2>1. \A c \in Batches : c # b => batch'[c] = batch[c]
    BY <1>0, <1>2 DEF Step, Arrive, TakeRecord, TakeJunk, IngestRefuses, Claim, StoreBlob, StoreFails,
          Register, Settle, SettleFails, MakeCodes, CodesFail, Reply, Judge, JudgeAndNote, Processed, Goto, BatchTyped
  <2>2. \A x \in Keys : stored[x] > 0 => stored'[x] > 0
    <3>1. CASE StoreBlob(b)
      BY <3>1, StoreCovered
    <3>2. CASE ~StoreBlob(b)
      BY <1>2, <3>2 DEF Step, Arrive, TakeRecord, TakeJunk, IngestRefuses, Claim, StoreFails,
            Register, Settle, SettleFails, MakeCodes, CodesFail, Reply, store
    <3> QED
      BY <3>1, <3>2
  <2>3. Covered(b)'
    BY <1>2, QuietCovered, StoreCovered DEF Step
  <2>4. \A c \in Batches : Covered(c)'
    BY <1>0, <2>1, <2>2, <2>3, OthersCovered DEF Coverage
  <2>5. \A x \in Keys : ledger'[x] = "processed" => stored'[x] > 0
    <3>1. CASE Settle(b)
      <4>1. Key(b) \in Keys /\ stored[Key(b)] > 0
        BY <1>0, <3>1 DEF Settle, Coverage, Covered, InHand, InIngest
      <4> QED
        BY <1>0, <2>2, <3>1, <4>1 DEF Settle, BatchTyped, Coverage
    <3>2. CASE ~Settle(b)
      <4>1. \A x \in Keys : ledger'[x] = "processed" => ledger[x] = "processed"
        <5>1. CASE Claim(b)
          <6> DEFINE rows == [ledger EXCEPT ![Key(b)] = "pending"]
          <6>1. UNCHANGED ledger \/ \E gone \in SUBSET Finished : Prune(gone, rows)
            BY <5>1 DEF Claim
          <6>2. rows \in [Keys -> {"none", "pending", "error", "processed"}]
            BY <1>0 DEF BatchTyped
          <6>3. \A x \in Keys : rows[x] \in {"pending", ledger[x]}
            BY <1>0 DEF BatchTyped
          <6> HIDE DEF rows
          <6>4. CASE \E gone \in SUBSET Finished : Prune(gone, rows)
            <7>1. \A k \in Keys :
                     \/ ledger[k] = "processed" /\ ledger'[k] = "none" /\ pruned'[k] = pruned[k] + 1
                     \/ ledger'[k] = rows[k] /\ pruned'[k] = pruned[k]
              BY <1>0, <6>2, <6>4, PruneKeeps
            <7> QED
              BY <6>3, <7>1
          <6> QED
            BY <6>1, <6>4
        <5>2. CASE ~Claim(b)
          BY <1>0, <1>2, <3>2, <5>2 DEF Step, Arrive, TakeRecord, TakeJunk, IngestRefuses, StoreBlob,
                StoreFails, Register, SettleFails, MakeCodes, CodesFail, Reply, store, BatchTyped
        <5> QED
          BY <5>1, <5>2
      <4> QED
        BY <2>2, <4>1 DEF Coverage
    <3> QED
      BY <3>1, <3>2
  <2> QED
    BY <2>4, <2>5 DEF Coverage, Keys
<1>3. CASE UNCHANGED vars
  <2>1. UNCHANGED <<batch, ledger, stored>>
    BY <1>3 DEF vars, store
  <2> QED
    BY <1>0, <2>1, OthersCovered DEF Coverage
<1> QED
  BY <1>1, <1>2, <1>3 DEF Next

LEMMA CoverageSuffices == ASSUME BatchInv, Coverage PROVE AnswerCoversBatch
<1> SUFFICES ASSUME NEW b \in Batches, batch[b].at = "answered"
             PROVE  LET list == batch[b].list  verdict == batch[b].verdicts
                    IN  /\ Len(verdict) = Len(list)
                        /\ \A i \in 1..Len(list) : verdict[i].as = "processed" =>
                              /\ stored[<<batch[b].tenant, list[i].content>>] > 0
                              /\ \A j \in 1..Len(list) :
                                    (list[j].id = list[i].id /\ verdict[j].as = "processed") => j = i
  BY DEF AnswerCoversBatch
<1>1. Covered(b) /\ batch[b].list \in Seq(Rows) /\ batch[b].next \in Nat
  BY DEF Coverage, BatchInv, BatchTyped, BatchState
<1>2. Len(batch[b].verdicts) = Len(batch[b].list)
  BY <1>1 DEF Covered
<1> QED
  BY <1>1, <1>2 DEF Covered, KeyAt

-----------------------------------------------------------------------------
(***************************************************************************)
(* The HTTP surface: authentication, the guard and the routes.             *)
(***************************************************************************)

SurfaceSteppings == {"idle", "auth", "guard", "body", "check", "handle", "heartbeat", "over"}

BodyKinds ==
    {"none", "ok", "bulk", "external", "batch", "list_metadata", "no_files", "bad_files", "garbled",
     "empty", "by_batch", "by_transaction", "by_number", "two_selectors", "hard", "lifecycle"}

Arrivals == [route : Routes \cup {"none"}, cred : Credentials \cup {"none"}, drifted : BOOLEAN,
             body : BodyKinds, at : SurfaceSteppings, answer : Nat]

\* A lookup that was answered with a failure was so by HeartBeat's absence,
\* when it had to say who calls.
SurfaceInv ==
    /\ arrived \in Arrivals
    /\ arrived.route \in Surface!Lookups => arrived.body # "list_metadata"
    /\ Surface!LookupsSurviveOutages

LEMMA Statuses ==
    /\ Surface!Failures = {500, 502, 503}
    /\ 0 \notin Surface!Failures /\ 200 \notin Surface!Failures /\ 202 \notin Surface!Failures
    /\ \A s \in Surface!Refusals : s \in Nat /\ s \notin Surface!Failures
<1>1. Surface!Failures = {500, 502, 503}
  BY DEF Surface!Failures, Surface!Failure
<1>2. Surface!Refusals \subseteq {400, 401, 403, 404, 409, 422, 429}
  BY DEF Surface!Refusals, Surface!Refusal
<1> QED
  BY <1>1, <1>2

\* A body's refusal, if it has one, is no failure.
LEMMA BodyRefusals ==
    ASSUME NEW route, NEW body
    PROVE  Surface!BodyRefusal(route, body) \in Nat \ Surface!Failures
<1>1. /\ Surface!Refusal.unprocessable \in Surface!Refusals
      /\ Surface!Refusal.no_artifact \in Surface!Refusals
      /\ Surface!Refusal.invalid \in Surface!Refusals
  BY DEF Surface!Refusals, Surface!Refusal
<1>2. Surface!BodyRefusal(route, body) \in Surface!Refusals \cup {0}
  BY <1>1 DEF Surface!BodyRefusal
<1> QED
  BY <1>2, Statuses

LEMMA SafeGoto ==
    ASSUME SurfaceInv, failed \subseteq failed', NEW step \in SurfaceSteppings, Surface!Goto(step)
    PROVE  SurfaceInv'
<1>1. /\ arrived' \in Arrivals /\ arrived'.answer = arrived.answer /\ arrived'.route = arrived.route
      /\ arrived'.cred = arrived.cred /\ arrived'.body = arrived.body
  BY DEF SurfaceInv, Surface!Goto, Arrivals
<1> QED
  BY <1>1 DEF SurfaceInv, Surface!LookupsSurviveOutages

\* An answer that is not a failure, is not to a lookup, or says that
\* HeartBeat is needed and down.
LEMMA SafeAnswer ==
    ASSUME SurfaceInv, failed \subseteq failed', NEW a \in Nat, Surface!Answer(a),
           \/ a \notin Surface!Failures
           \/ arrived.route \notin Surface!Lookups
           \/ "heartbeat" \in failed' /\ Surface!Authority(arrived.cred) = "heartbeat"
    PROVE  SurfaceInv'
<1>1. /\ arrived' \in Arrivals /\ arrived'.answer = a /\ arrived'.route = arrived.route
      /\ arrived'.cred = arrived.cred /\ arrived'.body = arrived.body
  BY DEF SurfaceInv, Surface!Answer, Arrivals, SurfaceSteppings
<1> QED
  BY <1>1 DEF SurfaceInv, Surface!LookupsSurviveOutages

\* What a handler does that goes on to a step or answers without a failure.
Soundly ==
    \/ \E step \in SurfaceSteppings : Surface!Goto(step)
    \/ \E a \in Nat \ Surface!Failures : Surface!Answer(a)
    \/ arrived.route \notin Surface!Lookups /\ \E a \in Nat : Surface!Answer(a)

LEMMA SoundlyKeeps == ASSUME SurfaceInv, failed \subseteq failed', Soundly PROVE SurfaceInv'
BY SafeGoto, SafeAnswer DEF Soundly

\* Only HeartBeat, when it is asked and down, makes authentication fail.
LEMMA AuthenticateKeeps == ASSUME SurfaceInv, Surface!Authenticate PROVE SurfaceInv'
<1>1. Surface!Refusal.unauthenticated \in Surface!Refusals /\ Surface!Failure.auth_upstream \in Nat
      /\ Surface!Failure.internal \in Nat
  BY DEF Surface!Refusals, Surface!Refusal, Surface!Failure
<1>2. failed \subseteq failed'
  BY DEF Surface!Authenticate
<1>3. CASE Surface!Goto(Surface!AfterAuthentication)
  <2>1. Surface!AfterAuthentication \in SurfaceSteppings
    BY DEF Surface!AfterAuthentication, SurfaceSteppings
  <2> QED
    BY <1>2, <1>3, <2>1, SafeGoto
<1>4. CASE Surface!Answer(Surface!Refusal.unauthenticated)
  <2>1. Surface!Refusal.unauthenticated \in Nat \ Surface!Failures
    BY <1>1, Statuses
  <2> QED
    BY <1>2, <1>4, <2>1, SoundlyKeeps DEF Soundly
<1>5. ASSUME NEW a \in {Surface!Failure.auth_upstream, Surface!Failure.internal}, Surface!Answer(a),
             Surface!Authenticated(arrived.cred) \cap {"auth_upstream", "internal"} # {}
      PROVE  SurfaceInv'
  <2>1. Surface!Authority(arrived.cred) = "heartbeat" /\ "heartbeat" \in down
    BY <1>5 DEF Surface!Authenticated, Surface!ByHmac, Surface!ByKeySet, Surface!ByHeartBeat,
                Surface!Authority
  <2>2. "heartbeat" \in failed'
    BY <2>1 DEF Surface!Authenticate, Surface!Asked
  <2> QED
    BY <1>1, <1>2, <1>5, <2>1, <2>2, SafeAnswer
<1> QED
  <2>1. Surface!Authenticated(arrived.cred) \subseteq {"pass", "unauthenticated", "auth_upstream", "internal"}
    BY DEF Surface!Authenticated, Surface!ByHmac, Surface!ByKeySet, Surface!ByHeartBeat,
           Surface!Authority
  <2>2. PICK verdict \in Surface!Authenticated(arrived.cred) :
          CASE verdict = "pass"            -> Surface!Goto(Surface!AfterAuthentication)
            [] verdict = "unauthenticated" -> Surface!Answer(Surface!Refusal.unauthenticated)
            [] verdict = "auth_upstream"   -> Surface!Answer(Surface!Failure.auth_upstream)
            [] verdict = "internal"        -> Surface!Answer(Surface!Failure.internal)
    BY DEF Surface!Authenticate
  <2>3. CASE verdict = "pass"
    BY <1>3, <2>2, <2>3
  <2>4. CASE verdict = "unauthenticated"
    BY <1>4, <2>2, <2>4
  <2>5. CASE verdict = "auth_upstream"
    BY <1>5, <2>2, <2>5
  <2>6. CASE verdict = "internal"
    BY <1>5, <2>2, <2>6
  <2> QED
    BY <2>1, <2>3, <2>4, <2>5, <2>6

\* The routes of a lookup swallow the failures of what they ask.
LEMMA RoutesKeep ==
    ASSUME SurfaceInv,
           \/ Surface!Verify \/ Surface!Guard \/ Surface!Ingest \/ Surface!Finalize \/ Surface!Artifact
           \/ Surface!Status \/ Surface!StatusOfCore \/ Surface!Duplicate
           \/ Surface!DuplicateOfHeartBeat \/ Surface!RefreshCaches \/ Surface!ReadBody
    PROVE  SurfaceInv'
<1>1. /\ Surface!Refusal.unauthenticated = 401 /\ Surface!Refusal.version_drift = 409
      /\ Surface!Refusal.already_finalized = 409 /\ Surface!Refusal.no_artifact = 404
      /\ Surface!Refusal.invalid = 400 /\ Surface!Refusal.duplicate_file = 409
      /\ Surface!Refusal.over_limit = 429
  BY DEF Surface!Refusal
<1>2. /\ Surface!Failure.internal = 500 /\ Surface!Failure.unavailable = 503
      /\ Surface!Failure.module_not_loaded = 503 /\ Surface!Failure.no_codes = 500
  BY DEF Surface!Failure
<1>3. {200, 202, 401, 404, 409} \subseteq Nat \ Surface!Failures
  BY Statuses
<1>4. {"guard", "check", "body", "handle", "heartbeat"} \subseteq SurfaceSteppings
  BY DEF SurfaceSteppings
<1>5. failed \subseteq failed'
  BY DEF Surface!Verify, Surface!Guard, Surface!Ingest, Surface!Finalize, Surface!Artifact,
         Surface!Status, Surface!StatusOfCore, Surface!Duplicate, Surface!DuplicateOfHeartBeat,
         Surface!RefreshCaches, Surface!ReadBody
<1> SUFFICES Soundly
  BY <1>5, SoundlyKeeps
<1>6. CASE Surface!Verify
  <2>1. Surface!Answer(401) \/ Surface!Answer(200) \/ Surface!Goto("handle")
    BY <1>1, <1>6 DEF Surface!Verify
  <2> QED
    BY <1>3, <1>4, <2>1 DEF Soundly
<1>7. CASE Surface!Guard
  <2>1. Surface!Answer(409) \/ Surface!Goto("check") \/ Surface!Goto("body")
    BY <1>1, <1>7 DEF Surface!Guard
  <2> QED
    BY <1>3, <1>4, <2>1 DEF Soundly
<1>8. CASE Surface!Ingest
  <2>1. \A body : Surface!IngestAnswers(body) \subseteq {200, 400, 409, 429, 503, 500}
    BY <1>1, <1>2 DEF Surface!IngestAnswers
  <2>2. \E a \in Nat : Surface!Answer(a)
    BY <1>2, <1>8, <2>1 DEF Surface!Ingest
  <2>3. arrived.route \notin Surface!Lookups
    BY <1>8 DEF Surface!Ingest, Surface!Lookups
  <2> QED
    BY <2>2, <2>3 DEF Soundly
<1>9. CASE Surface!Finalize
  <2>1. \E a \in {202, 409} : Surface!Answer(a)
    BY <1>1, <1>9 DEF Surface!Finalize
  <2> QED
    BY <1>3, <2>1 DEF Soundly
<1>10. CASE Surface!Artifact
  <2>1. \E a \in {200, 404, 503} : Surface!Answer(a)
    BY <1>1, <1>2, <1>10 DEF Surface!Artifact
  <2>2. arrived.route \notin Surface!Lookups
    BY <1>10 DEF Surface!Artifact, Surface!Lookups
  <2> QED
    BY <2>1, <2>2 DEF Soundly
<1>11. CASE Surface!Status
  <2>1. Surface!Answer(200) \/ Surface!Goto("heartbeat")
    BY <1>11 DEF Surface!Status, Surface!SafeAnswer
  <2> QED
    BY <1>3, <1>4, <2>1 DEF Soundly
<1>12. CASE Surface!StatusOfCore \/ Surface!Duplicate \/ Surface!DuplicateOfHeartBeat
            \/ Surface!RefreshCaches
  <2>1. Surface!Answer(200) \/ Surface!Goto("heartbeat")
    BY <1>12 DEF Surface!StatusOfCore, Surface!Duplicate, Surface!DuplicateOfHeartBeat,
                 Surface!RefreshCaches, Surface!SafeAnswer
  <2> QED
    BY <1>3, <1>4, <2>1 DEF Soundly
<1>13. CASE Surface!ReadBody
  <2>1. CASE arrived.body = "list_metadata"
    <3>1. Surface!Answer(500) /\ arrived.route \notin Surface!Lookups
      BY <1>2, <1>13, <2>1 DEF Surface!ReadBody, SurfaceInv
    <3> QED
      BY <3>1 DEF Soundly
  <2>2. CASE arrived.body # "list_metadata"
    <3> DEFINE refused == Surface!BodyRefusal(arrived.route, arrived.body)
    <3>1. refused \in Nat \ Surface!Failures
      BY BodyRefusals
    <3>2. Surface!Goto("handle") \/ Surface!Answer(refused)
      BY <1>13, <2>2 DEF Surface!ReadBody
    <3> QED
      BY <1>4, <3>1, <3>2 DEF Soundly
  <2> QED
    BY <2>1, <2>2
<1> QED
  BY <1>6, <1>7, <1>8, <1>9, <1>10, <1>11, <1>12, <1>13

LEMMA NoRequest ==
    /\ Surface!None \in Arrivals
    /\ Surface!None.route \notin Surface!Lookups
<1>1. Surface!None = [route |-> "none", cred |-> "none", drifted |-> FALSE, body |-> "none",
                      at |-> "idle", answer |-> 0]
  BY DEF Surface!None
<1>2. "none" \in BodyKinds /\ "idle" \in SurfaceSteppings
  BY DEF BodyKinds, SurfaceSteppings
<1>3. [route |-> "none", cred |-> "none", drifted |-> FALSE, body |-> "none", at |-> "idle", answer |-> 0]
        \in Arrivals
  BY <1>2 DEF Arrivals
<1>4. Surface!None.route = "none"
  BY <1>1
<1> QED
  BY <1>1, <1>3, <1>4 DEF Surface!Lookups

LEMMA SurfaceBegins == Surface!Init => SurfaceInv
<1> SUFFICES ASSUME Surface!Init PROVE SurfaceInv
  OBVIOUS
<1>1. arrived \in Arrivals /\ arrived.route \notin Surface!Lookups
  BY NoRequest, Zenon DEF Surface!Init
<1> QED
  BY <1>1, Zenon DEF SurfaceInv, Surface!LookupsSurviveOutages

LEMMA ArriveKeeps == ASSUME SurfaceInv, Surface!Arrive PROVE SurfaceInv'
<1>1. PICK route \in Routes, cred \in Credentials, drifted \in BOOLEAN :
        \E body \in Surface!BodiesOf(route) :
          arrived' = IF route = "duplicate" /\ body = "garbled"
                     THEN [Surface!None EXCEPT !.route = route, !.at = "over",
                                               !.answer = Surface!Refusal.unprocessable]
                     ELSE [route |-> route, cred |-> cred, drifted |-> drifted, body |-> body,
                           at |-> "auth", answer |-> 0]
  BY DEF Surface!Arrive
<1>2. PICK body \in Surface!BodiesOf(route) :
          arrived' = IF route = "duplicate" /\ body = "garbled"
                     THEN [Surface!None EXCEPT !.route = route, !.at = "over",
                                               !.answer = Surface!Refusal.unprocessable]
                     ELSE [route |-> route, cred |-> cred, drifted |-> drifted, body |-> body,
                           at |-> "auth", answer |-> 0]
  BY <1>1
<1>3. body \in BodyKinds /\ (route \in Surface!Lookups => body # "list_metadata")
  <2>1. CASE route = "status"
    BY <2>1 DEF Surface!BodiesOf, BodyKinds
  <2>2. CASE route = "duplicate"
    BY <2>2 DEF Surface!BodiesOf, BodyKinds
  <2>3. CASE route \notin Surface!Lookups
    <3>1. Surface!BodiesOf(route) \subseteq BodyKinds
      BY <2>3 DEF Surface!BodiesOf, Surface!Lookups, BodyKinds
    <3> QED
      BY <2>3, <3>1
  <2> QED
    BY <2>1, <2>2, <2>3 DEF Surface!Lookups
<1>4. 422 \in Nat \ Surface!Failures /\ 0 \in Nat \ Surface!Failures /\ Surface!Refusal.unprocessable = 422
  BY Statuses DEF Surface!Refusal
<1>5. CASE route = "duplicate" /\ body = "garbled"
  <2>1. arrived' = [route |-> route, cred |-> "none", drifted |-> FALSE, body |-> "none",
                    at |-> "over", answer |-> 422]
    BY <1>2, <1>4, <1>5 DEF Surface!None
  <2>2. /\ arrived' \in Arrivals /\ arrived'.answer \notin Surface!Failures
        /\ arrived'.body # "list_metadata"
    BY <1>4, <2>1 DEF Arrivals, BodyKinds, SurfaceSteppings
  <2> QED
    BY <2>2 DEF SurfaceInv, Surface!LookupsSurviveOutages
<1>6. CASE ~(route = "duplicate" /\ body = "garbled")
  <2>1. arrived' = [route |-> route, cred |-> cred, drifted |-> drifted, body |-> body,
                    at |-> "auth", answer |-> 0]
    BY <1>2, <1>6
  <2>2. /\ arrived' \in Arrivals /\ arrived'.answer = 0 /\ arrived'.route = route
        /\ arrived'.body = body
    BY <1>3, <2>1 DEF Arrivals, SurfaceSteppings
  <2> QED
    BY <1>3, <1>4, <2>2 DEF SurfaceInv, Surface!LookupsSurviveOutages
<1> QED
  BY <1>5, <1>6

LEMMA SurfaceSteps == SurfaceInv /\ [Surface!Next]_(Surface!vars) => SurfaceInv'
<1> SUFFICES ASSUME SurfaceInv, [Surface!Next]_(Surface!vars) PROVE SurfaceInv'
  OBVIOUS
<1>1. CASE Surface!Outage \/ Surface!Repair \/ UNCHANGED Surface!vars
  BY <1>1 DEF Surface!Outage, Surface!Repair, Surface!vars, SurfaceInv, Surface!LookupsSurviveOutages
<1>2. CASE Surface!Finish
  <2>1. arrived' = Surface!None
    BY <1>2 DEF Surface!Finish
  <2>2. arrived' \in Arrivals /\ arrived'.route \notin Surface!Lookups
    BY <2>1, NoRequest, Zenon
  <2> QED
    BY <2>2, Zenon DEF SurfaceInv, Surface!LookupsSurviveOutages
<1> QED
  BY <1>1, <1>2, ArriveKeeps, AuthenticateKeeps, RoutesKeep DEF Surface!Next

\* An answer to a batch has a true verdict on each of its records
\* (BatchExternalService.process_batch), and a lookup is answered whatever is
\* down, but for HeartBeat when it must say who calls (StatusService and the
\* duplicate route).
THEOREM AnswersHold == RelaySpec => []AnswersStand
<1> DEFINE Inv == BatchInv /\ Coverage /\ SurfaceInv
<1>1. RelayInit => Inv
  BY RelayConstants, BatchInit, CoverageBegins, SurfaceBegins DEF RelayInit
<1>2. Inv /\ [RelayNext]_relayVars => Inv'
  BY RelayConstants, EachSteps, BatchSteps, CoverageSteps, SurfaceSteps
<1>3. Inv => AnswersStand
  BY CoverageSuffices DEF SurfaceInv, AnswersStand
<1> QED
  BY <1>1, <1>2, <1>3, PTL DEF RelaySpec

-----------------------------------------------------------------------------
\* The caches: a step of the relay is one of each cache, or leaves it.
LEMMA CachesStep ==
    [RelayNext]_relayVars =>
        /\ [Tok!Next]_(Tok!vars)
        /\ [KeySet!Next]_(KeySet!vars)
        /\ [Caches!Next]_(Caches!vars)
BY DEF RelayNext, Finalizing, Calling, Introspects, LooksUpKeys, Counting, Refreshing, Batching,
       Serving, relayVars, finalizeVars, heartBeatVars, tokenVars, keyVars, cacheVars, surfaceVars,
       Tok!vars, KeySet!vars, Caches!vars, Caches!held

-----------------------------------------------------------------------------
(***************************************************************************)
(* Introspections: IntrospectClient.                                       *)
(***************************************************************************)

TokenCall == [at : {"idle", "asked", "answered", "over"}, token : UserTokens \cup {"none"},
              direct : BOOLEAN, sent : Nat, seen : BOOLEAN,
              answer : {"none", "accepted", "rejected", "unavailable", "raised"}, time : Nat]

\* What may be kept of a token's state: an entry that says a token is active
\* was asked for before the token was revoked, and is kept for TokenTTL.
Entry ==
    {e \in [jti : UserTokens, active : BOOLEAN, until : Nat] :
        /\ e.until <= now + TokenTTL
        /\ e.active => e.until <= revokedAt[e.jti] + Flight + TokenTTL}

\* A question under way is no older than Flight.
OnTime(req) == req.token \in UserTokens /\ req.sent <= now /\ now <= req.sent + Flight

Until(req) == revokedAt[req.token] + (IF req.direct THEN 0 ELSE TokenTTL) + Flight

TokenInv ==
    /\ now \in Nat /\ revokedAt \in [UserTokens -> Nat]
    /\ request \in [Requests -> TokenCall]
    /\ tokenCache \in Seq(Entry)
    /\ \A r \in Requests :
          /\ request[r].at \in {"asked", "answered"} => OnTime(request[r]) /\ request[r].answer = "none"
          /\ (request[r].at = "answered" /\ request[r].seen) =>
                request[r].sent <= revokedAt[request[r].token]
          /\ request[r].answer = "accepted" =>
                /\ request[r].token \in UserTokens /\ request[r].time <= now
                /\ request[r].time <= Until(request[r])

\* A cache of entries of one kind is one of any wider kind.
LEMMA SeqWidens ==
    ASSUME NEW S, NEW T, S \subseteq T, NEW s \in Seq(S)
    PROVE  s \in Seq(T)
OBVIOUS

\* Taking a token's entry out leaves a part of the cache, and looking it up
\* finds an entry of that token.
LEMMA LooksUp ==
    ASSUME NEW S, tokenCache \in Seq(S), NEW t, Tok!Hits(t) # {}
    PROVE  /\ Tok!Place(t) \in 1..Len(tokenCache)
           /\ Tok!EntryOf(t) \in S /\ Tok!EntryOf(t).jti = t
<1>1. Tok!Place(t) \in Tok!Hits(t)
  BY DEF Tok!Place
<1> QED
  BY <1>1 DEF Tok!Hits, Tok!EntryOf

LEMMA TakesOut ==
    ASSUME NEW S, tokenCache \in Seq(S), NEW t
    PROVE  Tok!Without(t) \in Seq(S)
<1>1. CASE Tok!Hits(t) = {}
  BY <1>1 DEF Tok!Without
<1>2. CASE Tok!Hits(t) # {}
  <2> DEFINE i == Tok!Place(t)
  <2>1. i \in 1..Len(tokenCache)
    BY <1>2, LooksUp
  <2>2. SubSeq(tokenCache, 1, i - 1) \in Seq(S) /\ SubSeq(tokenCache, i + 1, Len(tokenCache)) \in Seq(S)
    BY <2>1
  <2>3. Tok!Without(t) = SubSeq(tokenCache, 1, i - 1) \o SubSeq(tokenCache, i + 1, Len(tokenCache))
    BY <1>2, Zenon DEF Tok!Without, Tok!RemoveAt
  <2> HIDE DEF i
  <2> QED
    BY <2>2, <2>3
<1> QED
  BY <1>1, <1>2

LEMMA Puts ==
    ASSUME Tok!LegalConstants, NEW S, tokenCache \in Seq(S), NEW t, NEW active,
           [jti |-> t, active |-> active, until |-> now + TokenTTL] \in S
    PROVE  Tok!Put(t, active) \in Seq(S)
<1> DEFINE all == Append(Tok!Without(t), [jti |-> t, active |-> active, until |-> now + TokenTTL])
<1>1. all \in Seq(S) /\ Len(all) > 0
  BY TakesOut
<1>2. Tail(all) \in Seq(S)
  BY <1>1
<1> QED
  BY <1>1, <1>2 DEF Tok!Put

LEMMA TokenBegins == ASSUME Tok!LegalConstants, Tok!Init PROVE TokenInv
<1>1. /\ request \in [Requests -> TokenCall]
      /\ \A r \in Requests : request[r].at = "idle" /\ request[r].answer = "none"
  BY DEF Tok!Init, Tok!Idle, TokenCall
<1>2. now \in Nat /\ revokedAt \in [UserTokens -> Nat] /\ tokenCache \in Seq(Entry)
  BY DEF Tok!Init, Tok!Never, Tok!LegalConstants
<1> QED
  BY <1>1, <1>2 DEF TokenInv

\* A step of one request that changes nothing but it and the cache.
RequestKept(req) ==
    /\ req \in TokenCall
    /\ req.at \in {"asked", "answered"} => OnTime(req) /\ req.answer = "none"
    /\ (req.at = "answered" /\ req.seen) => req.sent <= revokedAt[req.token]
    /\ req.answer = "accepted" =>
          req.token \in UserTokens /\ req.time <= now /\ req.time <= Until(req)

LEMMA RequestSteps ==
    ASSUME TokenInv, UNCHANGED <<now, revokedAt>>, NEW r \in Requests, NEW req,
           RequestKept(req), request' = [request EXCEPT ![r] = req], tokenCache' \in Seq(Entry)
    PROVE  TokenInv'
<1>1. Entry' = Entry
  BY DEF Entry
<1>2. \A q \in TokenCall : OnTime(q)' = OnTime(q) /\ Until(q)' = Until(q)
  BY DEF OnTime, Until
<1>3. request' \in [Requests -> TokenCall]
  BY DEF TokenInv, RequestKept
<1>4. \A q \in Requests : RequestKept(request[q])
  BY DEF TokenInv, RequestKept
<1>5. \A q \in Requests : RequestKept(request'[q])
  BY <1>4 DEF TokenInv
<1> QED
  BY <1>1, <1>2, <1>3, <1>5 DEF TokenInv, RequestKept

\* How a request ends.
LEMMA Ends ==
    ASSUME TokenInv, NEW req \in TokenCall, NEW answer \in {"rejected", "unavailable", "raised"}
    PROVE  RequestKept(Tok!Ended(req, answer))
BY DEF TokenInv, Tok!Ended, Tok!Idle, TokenCall, RequestKept

LEMMA EndsAccepted ==
    ASSUME TokenInv, NEW req \in TokenCall, req.token \in UserTokens, now <= Until(req)
    PROVE  RequestKept(Tok!Ended(req, "accepted"))
<1> DEFINE e == Tok!Ended(req, "accepted")
<1>1. e = [at |-> "over", token |-> req.token, direct |-> req.direct, sent |-> 0, seen |-> FALSE,
           answer |-> "accepted", time |-> now]
  BY DEF Tok!Ended, Tok!Idle
<1> HIDE DEF e
<1>2. /\ e \in TokenCall /\ e.at = "over" /\ e.token = req.token /\ e.time = now
      /\ e.direct = req.direct
  BY <1>1 DEF TokenInv, TokenCall
<1>3. Until(e) = Until(req)
  BY <1>2 DEF Until
<1>4. RequestKept(e)
  BY <1>2, <1>3 DEF RequestKept, TokenInv
<1> QED
  BY <1>4 DEF e

\* How a request begins.
Asks(step, t, direct) == [at |-> step, token |-> t, direct |-> direct, sent |-> now,
                          seen |-> FALSE, answer |-> "none", time |-> 0]

LEMMA Begins ==
    ASSUME NEW t, NEW direct, NEW new,
           new = [Tok!Idle EXCEPT !.token = t, !.direct = direct, !.sent = now]
    PROVE  new = Asks("idle", t, direct)
BY DEF Tok!Idle, Asks

LEMMA BeginsAsking ==
    ASSUME NEW t, NEW direct, NEW new, new = Asks("idle", t, direct),
           NEW asking, asking = [new EXCEPT !.at = "asked"]
    PROVE  asking = Asks("asked", t, direct)
BY DEF Asks

LEMMA BeginsTyped ==
    ASSUME TokenInv, NEW t \in UserTokens, NEW direct \in BOOLEAN, NEW step \in {"idle", "asked"}
    PROVE  /\ Asks(step, t, direct) \in TokenCall
           /\ Asks(step, t, direct).token = t /\ Asks(step, t, direct).direct = direct
BY DEF TokenInv, TokenCall, Asks

LEMMA TokenSteps ==
    ASSUME Tok!LegalConstants, TokenInv, [Tok!Next]_(Tok!vars) PROVE TokenInv'
<1>1. CASE UNCHANGED Tok!vars
  BY <1>1 DEF Tok!vars, TokenInv, Entry, OnTime, Until
<1>2. CASE Tok!Tick
  <2>1. now' = now + 1 /\ UNCHANGED <<request, revokedAt, tokenCache>>
    BY <1>2 DEF Tok!Tick
  <2>2. \A r \in Requests : request[r].at \in {"asked", "answered"} => now - request[r].sent < Flight
    BY <1>2 DEF Tok!Tick, Tok!Waiting
  <2>3. \A r \in Requests : request[r].at \in {"asked", "answered"} =>
            OnTime(request[r])' /\ request[r].answer = "none"
    BY <2>1, <2>2 DEF TokenInv, OnTime, Tok!LegalConstants, TokenCall
  <2>4. Entry \subseteq Entry'
    BY <2>1 DEF Entry, TokenInv, Tok!LegalConstants
  <2>5. tokenCache' \in Seq(Entry')
    BY <2>1, <2>4, SeqWidens DEF TokenInv
  <2> QED
    BY <2>1, <2>3, <2>5 DEF TokenInv, Until, TokenCall
<1>3. CASE Tok!Revoke
  <2>1. PICK t \in UserTokens : now < revokedAt[t] /\ revokedAt' = [revokedAt EXCEPT ![t] = now]
    BY <1>3 DEF Tok!Revoke, Tok!Active
  <2>2. UNCHANGED <<now, request, tokenCache>>
    BY <1>3 DEF Tok!Revoke
  <2>3. revokedAt' \in [UserTokens -> Nat]
         /\ \A u \in UserTokens : revokedAt'[u] = revokedAt[u] \/ revokedAt'[u] = now
    BY <2>1 DEF TokenInv
  <2>4. Entry \subseteq Entry'
    <3> SUFFICES ASSUME NEW e \in Entry PROVE e \in Entry'
      OBVIOUS
    <3>1. /\ e \in [jti : UserTokens, active : BOOLEAN, until : Nat] /\ e.until <= now + TokenTTL
          /\ e.active => e.until <= revokedAt[e.jti] + Flight + TokenTTL
      BY DEF Entry
    <3>2. /\ e.jti \in UserTokens /\ e.until \in Nat /\ now \in Nat /\ revokedAt[e.jti] \in Nat
          /\ TokenTTL \in Nat /\ Flight \in Nat
      BY <3>1 DEF TokenInv, Tok!LegalConstants
    <3>3. e.active => e.until <= revokedAt'[e.jti] + Flight + TokenTTL
      BY <2>3, <3>1, <3>2
    <3> QED
      BY <2>2, <3>1, <3>3 DEF Entry
  <2>5. tokenCache' \in Seq(Entry')
    BY <2>2, <2>4, SeqWidens DEF TokenInv
  <2>6. ASSUME NEW r \in Requests
        PROVE  /\ request[r].at \in {"asked", "answered"} =>
                     OnTime(request[r])' /\ request[r].answer = "none"
               /\ (request[r].at = "answered" /\ request[r].seen) =>
                     request[r].sent <= revokedAt'[request[r].token]
               /\ request[r].answer = "accepted" =>
                     /\ request[r].token \in UserTokens /\ request[r].time <= now
                     /\ request[r].time <= Until(request[r])'
    <3>1. request[r] \in TokenCall
      BY DEF TokenInv
    <3>2. /\ request[r].token \in UserTokens => revokedAt[request[r].token] \in Nat
          /\ request[r].sent \in Nat /\ request[r].time \in Nat /\ now \in Nat
          /\ Flight \in Nat /\ TokenTTL \in Nat
      BY <3>1 DEF TokenInv, TokenCall, Tok!LegalConstants
    <3>3. request[r].at \in {"asked", "answered"} => OnTime(request[r])' /\ request[r].answer = "none"
      BY <2>2 DEF TokenInv, OnTime
    <3>4. (request[r].at = "answered" /\ request[r].seen) =>
              request[r].sent <= revokedAt'[request[r].token]
      BY <2>3, <3>2 DEF TokenInv, OnTime
    <3>5. request[r].answer = "accepted" =>
              /\ request[r].token \in UserTokens /\ request[r].time <= now
              /\ request[r].time <= Until(request[r])
      BY DEF TokenInv
    <3>6. request[r].answer = "accepted" => request[r].time <= Until(request[r])'
      BY <2>2, <2>3, <3>2, <3>5 DEF Until
    <3> QED
      BY <3>3, <3>4, <3>5, <3>6
  <2> QED
    BY <2>2, <2>3, <2>5, <2>6 DEF TokenInv
<1>4. ASSUME NEW r \in Requests, Tok!Receive(r) PROVE TokenInv'
  <2>1. PICK t \in UserTokens : \E bypass \in BOOLEAN :
         LET direct == bypass \/ t \in NoJti
             new == [Tok!Idle EXCEPT !.token = t, !.direct = direct, !.sent = now]
         IN  IF ~direct /\ Tok!Fresh(t)
             THEN /\ request' = [request EXCEPT ![r] =
                         Tok!Ended(new, IF Tok!EntryOf(t).active THEN "accepted" ELSE "rejected")]
                  /\ tokenCache' = Tok!Touched(t)
             ELSE /\ request' = [request EXCEPT ![r] = [new EXCEPT !.at = "asked"]]
                  /\ tokenCache' = IF direct THEN tokenCache ELSE Tok!Without(t)
    BY <1>4 DEF Tok!Receive
  <2>2. \E direct \in BOOLEAN :
         LET new == [Tok!Idle EXCEPT !.token = t, !.direct = direct, !.sent = now]
         IN  IF ~direct /\ Tok!Fresh(t)
             THEN /\ request' = [request EXCEPT ![r] =
                         Tok!Ended(new, IF Tok!EntryOf(t).active THEN "accepted" ELSE "rejected")]
                  /\ tokenCache' = Tok!Touched(t)
             ELSE /\ request' = [request EXCEPT ![r] = [new EXCEPT !.at = "asked"]]
                  /\ tokenCache' = IF direct THEN tokenCache ELSE Tok!Without(t)
    <3>1. \A bypass \in BOOLEAN : (bypass \/ t \in NoJti) \in BOOLEAN
      OBVIOUS
    <3> QED
      BY <2>1, <3>1, Zenon
  <2>3. PICK direct \in BOOLEAN :
         LET new == [Tok!Idle EXCEPT !.token = t, !.direct = direct, !.sent = now]
         IN  IF ~direct /\ Tok!Fresh(t)
             THEN /\ request' = [request EXCEPT ![r] =
                         Tok!Ended(new, IF Tok!EntryOf(t).active THEN "accepted" ELSE "rejected")]
                  /\ tokenCache' = Tok!Touched(t)
             ELSE /\ request' = [request EXCEPT ![r] = [new EXCEPT !.at = "asked"]]
                  /\ tokenCache' = IF direct THEN tokenCache ELSE Tok!Without(t)
    BY <2>2
  <2> DEFINE new == [Tok!Idle EXCEPT !.token = t, !.direct = direct, !.sent = now]
  <2>4. /\ new = Asks("idle", t, direct) /\ [new EXCEPT !.at = "asked"] = Asks("asked", t, direct)
        /\ new \in TokenCall /\ new.token = t /\ new.direct = direct
    <3>1. new = Asks("idle", t, direct)
      BY Begins, Zenon
    <3> HIDE DEF new
    <3>2. [new EXCEPT !.at = "asked"] = Asks("asked", t, direct)
      BY <3>1, BeginsAsking
    <3> QED
      BY <3>1, <3>2, BeginsTyped
  <2>5. UNCHANGED <<now, revokedAt>> /\ tokenCache \in Seq(Entry)
    BY <1>4 DEF Tok!Receive, TokenInv
  <2>6. CASE ~direct /\ Tok!Fresh(t)
    <3>1. Tok!Hits(t) # {} /\ now < Tok!EntryOf(t).until
      BY <2>6 DEF Tok!Fresh
    <3>2. Tok!EntryOf(t) \in Entry /\ Tok!EntryOf(t).jti = t
      BY <2>5, <3>1, LooksUp
    <3>3. tokenCache' \in Seq(Entry)
      BY <2>3, <2>5, <2>6, <3>2, TakesOut DEF Tok!Touched
    <3>4. CASE Tok!EntryOf(t).active
      <4>1. request' = [request EXCEPT ![r] = Tok!Ended(new, "accepted")]
        BY <2>3, <2>6, <3>4
      <4>2. now <= Until(new)
        BY <2>4, <2>6, <3>1, <3>2, <3>4 DEF Until, Entry, TokenInv, Tok!LegalConstants
      <4> HIDE DEF new
      <4> QED
        BY <2>4, <2>5, <3>3, <4>1, <4>2, EndsAccepted, RequestSteps
    <3>5. CASE ~Tok!EntryOf(t).active
      <4>1. request' = [request EXCEPT ![r] = Tok!Ended(new, "rejected")]
        BY <2>3, <2>6, <3>5
      <4> HIDE DEF new
      <4> QED
        BY <2>4, <2>5, <3>3, <4>1, Ends, RequestSteps
    <3> QED
      BY <3>4, <3>5
  <2>7. CASE ~(~direct /\ Tok!Fresh(t))
    <3> DEFINE req == [new EXCEPT !.at = "asked"]
    <3>1. request' = [request EXCEPT ![r] = req]
      BY <2>3, <2>7
    <3>2. req = Asks("asked", t, direct)
      BY <2>4
    <3>3. Asks("asked", t, direct) \in TokenCall
      BY BeginsTyped
    <3>4. RequestKept(Asks("asked", t, direct))
      BY <3>3 DEF Asks, RequestKept, OnTime, TokenInv, Tok!LegalConstants
    <3>5. tokenCache' \in Seq(Entry)
      BY <2>3, <2>5, <2>7, TakesOut
    <3> HIDE DEF req
    <3> QED
      BY <2>5, <3>1, <3>2, <3>4, <3>5, RequestSteps
  <2> QED
    BY <2>6, <2>7
<1>5. ASSUME NEW r \in Requests, Tok!Introspect(r) PROVE TokenInv'
  <2> DEFINE req == [request[r] EXCEPT !.at = "answered", !.seen = Tok!Active(request[r].token)]
  <2>1. /\ request[r].at = "asked" /\ request[r] \in TokenCall /\ OnTime(request[r])
        /\ request[r].answer = "none"
    BY <1>5 DEF Tok!Introspect, TokenInv
  <2>2. request' = [request EXCEPT ![r] = req]
    BY <1>5, <2>1 DEF Tok!Introspect
  <2>3. Tok!Active(request[r].token) \in BOOLEAN
    BY DEF Tok!Active
  <2>5. /\ req \in TokenCall /\ req.at = "answered" /\ req.seen = Tok!Active(request[r].token)
        /\ req.token = request[r].token /\ req.sent = request[r].sent /\ req.answer = "none"
    <3> DEFINE active == Tok!Active(request[r].token)
    <3> HIDE DEF active
    <3> QED
      BY <2>1, <2>3 DEF TokenCall
  <2> HIDE DEF req
  <2>4. RequestKept(req)
    BY <2>1, <2>5 DEF RequestKept, OnTime, Tok!Active, TokenInv, TokenCall
  <2> QED
    BY <1>5, <2>2, <2>4, RequestSteps DEF Tok!Introspect, TokenInv
<1>6. ASSUME NEW r \in Requests, Tok!Land(r) PROVE TokenInv'
  <2>1. /\ request[r].at = "answered" /\ request[r] \in TokenCall /\ OnTime(request[r])
        /\ request[r].seen => request[r].sent <= revokedAt[request[r].token]
    BY <1>6 DEF Tok!Land, TokenInv
  <2>2. UNCHANGED <<now, revokedAt>> /\ tokenCache \in Seq(Entry)
    BY <1>6 DEF Tok!Land, TokenInv
  <2>3. [jti |-> request[r].token, active |-> request[r].seen, until |-> now + TokenTTL] \in Entry
    BY <2>1 DEF Entry, OnTime, TokenCall, TokenInv, Tok!LegalConstants
  <2>4. tokenCache' \in Seq(Entry)
    BY <1>6, <2>2, <2>3, Puts DEF Tok!Land
  <2>5. CASE request[r].seen
    <3>1. request' = [request EXCEPT ![r] = Tok!Ended(request[r], "accepted")]
      BY <1>6, <2>5 DEF Tok!Land
    <3>2. now <= Until(request[r]) /\ request[r].token \in UserTokens
      BY <2>1, <2>5 DEF Until, OnTime, TokenCall, TokenInv, Tok!LegalConstants
    <3> QED
      BY <2>1, <2>2, <2>4, <3>1, <3>2, EndsAccepted, RequestSteps
  <2>6. CASE ~request[r].seen
    <3>1. request' = [request EXCEPT ![r] = Tok!Ended(request[r], "rejected")]
      BY <1>6, <2>6 DEF Tok!Land
    <3> QED
      BY <2>1, <2>2, <2>4, <3>1, Ends, RequestSteps
  <2> QED
    BY <2>5, <2>6
<1>7. ASSUME NEW r \in Requests, Tok!Fails(r) PROVE TokenInv'
  <2>1. PICK answer \in {"unavailable", "raised"} :
            request' = [request EXCEPT ![r] = Tok!Ended(request[r], answer)]
    BY <1>7 DEF Tok!Fails
  <2>2. RequestKept(Tok!Ended(request[r], answer))
    BY Ends DEF TokenInv
  <2> QED
    BY <1>7, <2>1, <2>2, RequestSteps DEF Tok!Fails, TokenInv
<1> QED
  BY <1>1, <1>2, <1>3, <1>4, <1>5, <1>6, <1>7 DEF Tok!Next

LEMMA TokenSuffices == TokenInv => Tok!RevokedTokenDiesOut
BY DEF TokenInv, Tok!RevokedTokenDiesOut, Until

-----------------------------------------------------------------------------
(***************************************************************************)
(* Key sets: JWKSCache.                                                    *)
(***************************************************************************)

KeyCall == [at : {"idle", "asked", "answered", "over"}, kind : {"none", "service", "webhook"},
            kid : Kids \cup {"none"}, sent : Nat, seen : SUBSET Kids,
            answer : {"none", "accepted", "unknown_key"}, time : Nat]

\* Up to a flight, what is read of the publisher holds: a key that was read
\* was there after the question was sent, and a key there before and still
\* there was read.
ReadTrue(req) ==
    /\ \A k \in req.seen : req.sent <= until[k]
    /\ \A k \in Kids : (since[k] < req.sent /\ keyNow < until[k]) => k \in req.seen

Grace(req) == IF req.kind = "service" THEN req.time - req.sent ELSE KeysTTL + Flight

\* One request; what was accepted or refused is as the two properties say.
KeyKept(req) ==
    /\ req \in KeyCall
    /\ req.at \in {"asked", "answered"} =>
          /\ req.kid \in Kids /\ req.kind # "none" /\ req.answer = "none"
          /\ req.sent <= keyNow /\ keyNow <= req.sent + Flight
    /\ req.at = "answered" => ReadTrue(req)
    /\ req.answer # "none" => req.kid \in Kids /\ req.time <= keyNow
    /\ req.answer = "accepted" =>
          (req.time > until[req.kid] + KeysTTL + Flight => failedAt >= until[req.kid])
    /\ req.answer = "unknown_key" =>
          /\ req.sent <= req.time
          /\ (since[req.kid] + Grace(req) < req.time /\ until[req.kid] > req.time)
                => failedAt >= since[req.kid]

\* The same of the set in the cache, which was read before fetchedAt.
CacheKept ==
    /\ keySet \subseteq Kids /\ fetchedAt \in Nat /\ fetchedAt <= keyNow
    /\ \A k \in keySet : fetchedAt <= until[k] + Flight
    /\ \A k \in Kids : (since[k] + Flight < fetchedAt /\ fetchedAt < until[k]) => k \in keySet

ClockKept ==
    /\ keyNow \in Nat /\ since \in [Kids -> Nat] /\ until \in [Kids -> Nat]
    /\ failedAt \in Nat /\ failedAt <= keyNow /\ keyNow <= KeysMaxNow

KeyInv ==
    /\ ClockKept /\ CacheKept
    /\ keyRequest = [r \in Requests |-> keyRequest[r]]
    /\ \A r \in Requests : KeyKept(keyRequest[r])

LEMMA KeysNumbers == KeySet!LegalConstants => KeysTTL \in Nat /\ Flight \in Nat /\ KeysMaxNow \in Nat
BY DEF KeySet!LegalConstants

\* A slot with no request.
LEMMA IdleKept == KeyKept(KeySet!Idle)
<1>1. KeySet!Idle = [at |-> "idle", kind |-> "none", kid |-> "none", sent |-> 0,
                     seen |-> {}, answer |-> "none", time |-> 0]
  BY DEF KeySet!Idle
<1>2. KeySet!Idle \in KeyCall
  BY <1>1 DEF KeyCall
<1>3. KeySet!Idle.at = "idle" /\ KeySet!Idle.answer = "none"
  BY <1>1
<1> QED
  BY <1>2, <1>3 DEF KeyKept

LEMMA KeysBegin == ASSUME KeySet!LegalConstants, KeySet!Init PROVE KeyInv
<1>1. ClockKept
  BY DEF KeySet!Init, KeySet!Never, KeySet!LegalConstants, ClockKept
<1>2. CacheKept
  BY <1>1, KeysNumbers DEF KeySet!Init, CacheKept, ClockKept
<1>3. keyRequest = [r \in Requests |-> KeySet!Idle]
  BY DEF KeySet!Init
<1> QED
  BY <1>1, <1>2, <1>3, IdleKept, Zenon DEF KeyInv

\* A step of one request, which may renew the set or note a failure.
LEMMA KeyRequestSteps ==
    ASSUME KeySet!LegalConstants, KeyInv, UNCHANGED <<keyNow, since, until>>,
           failedAt' = failedAt \/ failedAt' = keyNow,
           CacheKept', NEW r \in Requests, NEW req, KeyKept(req)',
           keyRequest' = [keyRequest EXCEPT ![r] = req]
    PROVE  KeyInv'
<1>1. failedAt \in Nat /\ failedAt' \in Nat /\ failedAt <= failedAt' /\ failedAt' <= keyNow
  BY DEF KeyInv, ClockKept
<1>2. ClockKept'
  BY <1>1 DEF KeyInv, ClockKept
<1>3. ASSUME NEW q \in Requests PROVE KeyKept(keyRequest[q])'
           \/ keyRequest'[q] # keyRequest[q]
  <2> SUFFICES ASSUME keyRequest'[q] = keyRequest[q] PROVE KeyKept(keyRequest[q])'
    OBVIOUS
  <2> DEFINE old == keyRequest[q]
  <2>1. KeyKept(old)
    BY DEF KeyInv
  <2>2. /\ old.kid \in Kids => until[old.kid] \in Nat /\ since[old.kid] \in Nat
    BY DEF KeyInv, ClockKept
  <2>3. keyRequest'[q] = old
    OBVIOUS
  <2> HIDE DEF old
  <2> QED
    BY <1>1, <2>1, <2>2, <2>3 DEF KeyKept, ReadTrue, Grace
<1> QED
  BY <1>2, <1>3 DEF KeyInv

\* A request as it ends.
LEMMA Judges ==
    ASSUME ClockKept, NEW req \in KeyCall, NEW known, NEW e, e = KeySet!Judged(req, known)
    PROVE  /\ e \in KeyCall /\ e.at = "over" /\ e.time = keyNow
           /\ e.kid = req.kid /\ e.kind = req.kind
           /\ req.kid \in known => e.answer = "accepted"
           /\ req.kid \notin known => e.answer = "unknown_key" /\ e.sent = req.sent
<1> DEFINE over == [req EXCEPT !.at = "over", !.time = keyNow, !.seen = {}]
<1>1. /\ over \in KeyCall /\ over.at = "over" /\ over.time = keyNow
      /\ over.kid = req.kid /\ over.kind = req.kind /\ over.sent = req.sent
  BY DEF KeyCall, ClockKept
<1>2. e = IF req.kid \in known THEN [over EXCEPT !.answer = "accepted", !.sent = 0]
          ELSE [over EXCEPT !.answer = "unknown_key"]
  BY DEF KeySet!Judged
<1> HIDE DEF over
<1>3. CASE req.kid \in known
  <2>1. e = [over EXCEPT !.answer = "accepted", !.sent = 0]
    BY <1>2, <1>3
  <2> DEFINE accepted == [over EXCEPT !.answer = "accepted"]
  <2>4. accepted \in KeyCall /\ e = [accepted EXCEPT !.sent = 0]
    BY <1>1, <2>1 DEF KeyCall
  <2> HIDE DEF accepted
  <2>2. e \in KeyCall
    BY <2>4 DEF KeyCall
  <2>3. /\ e.at = "over" /\ e.time = keyNow /\ e.kid = req.kid /\ e.kind = req.kind
        /\ e.answer = "accepted"
    BY <1>1, <2>1 DEF KeyCall
  <2> QED
    BY <1>3, <2>2, <2>3
<1>4. CASE req.kid \notin known
  BY <1>1, <1>2, <1>4 DEF KeyCall
<1> QED
  BY <1>3, <1>4

\* What is accepted for its key, and what is refused for it.
LEMMA JudgedKept ==
    ASSUME KeySet!LegalConstants, ClockKept, NEW req \in KeyCall, req.kid \in Kids, req.kind # "none",
           req.sent <= keyNow, NEW known,
           req.kid \in known => (keyNow <= until[req.kid] + KeysTTL + Flight \/ failedAt = keyNow),
           req.kid \notin known =>
              \/ failedAt = keyNow
              \/ until[req.kid] <= keyNow
              \/ req.kind = "service" /\ req.sent <= since[req.kid]
              \/ req.kind # "service" /\ keyNow <= since[req.kid] + KeysTTL + Flight
    PROVE  KeyKept(KeySet!Judged(req, known))
<1> SUFFICES ASSUME NEW e, e = KeySet!Judged(req, known) PROVE KeyKept(e)
  OBVIOUS
<1>1. /\ e \in KeyCall /\ e.at = "over" /\ e.time = keyNow
      /\ e.kid = req.kid /\ e.kind = req.kind
      /\ req.kid \in known => e.answer = "accepted"
      /\ req.kid \notin known => e.answer = "unknown_key" /\ e.sent = req.sent
  BY Judges
<1>2. /\ keyNow \in Nat /\ until[e.kid] \in Nat /\ since[e.kid] \in Nat /\ failedAt \in Nat
      /\ KeysTTL \in Nat /\ Flight \in Nat /\ req.sent \in Nat
  BY <1>1, KeysNumbers DEF ClockKept, KeyCall
<1>3. CASE req.kid \in known
  <2>1. e.answer = "accepted"
    BY <1>1, <1>3
  <2>2. e.time > until[e.kid] + KeysTTL + Flight => failedAt >= until[e.kid]
    BY <1>1, <1>2, <1>3
  <2> QED
    BY <1>1, <1>2, <2>1, <2>2 DEF KeyKept
<1>4. CASE req.kid \notin known
  <2>1. e.answer = "unknown_key" /\ e.sent = req.sent
    BY <1>1, <1>4
  <2>2. (since[e.kid] + Grace(e) < e.time /\ until[e.kid] > e.time) => failedAt >= since[e.kid]
    BY <1>1, <1>2, <1>4, <2>1 DEF Grace
  <2> QED
    BY <1>1, <1>2, <2>1, <2>2 DEF KeyKept
<1> QED
  BY <1>3, <1>4

LEMMA KeyClockSteps ==
    ASSUME KeySet!LegalConstants, KeyInv, KeySet!Publish \/ KeySet!Retract \/ KeySet!Tick
    PROVE  KeyInv'
<1>1. UNCHANGED <<keySet, fetchedAt, failedAt>>
  BY DEF KeySet!Publish, KeySet!Retract, KeySet!Tick
<1>2. ClockKept /\ CacheKept /\ KeysTTL \in Nat /\ Flight \in Nat /\ KeysMaxNow \in Nat
  BY KeysNumbers DEF KeyInv
<1>3. CASE KeySet!Tick
  <2>1. keyNow' = keyNow + 1 /\ keyNow < KeysMaxNow /\ UNCHANGED <<since, until>>
    BY <1>3 DEF KeySet!Tick
  <2>2. ClockKept' /\ CacheKept'
    BY <1>1, <1>2, <2>1 DEF ClockKept, CacheKept
  <2>3. ASSUME NEW req, KeyKept(req),
               req.at \in {"asked", "answered"} => keyNow - req.sent < Flight
        PROVE  KeyKept(req)'
    BY <1>1, <1>2, <2>1, <2>3 DEF KeyKept, ReadTrue, Grace, KeyCall, ClockKept
  <2>4. keyRequest' = [r \in Requests |-> IF r \in KeySet!Waiting THEN keyRequest[r] ELSE KeySet!Idle]
    BY <1>3 DEF KeySet!Tick
  <2>5. ASSUME NEW r \in Requests PROVE KeyKept(keyRequest[r])'
    <3>1. CASE r \in KeySet!Waiting
      <4>1. keyNow - keyRequest[r].sent < Flight /\ KeyKept(keyRequest[r])
        BY <1>3, <3>1 DEF KeySet!Tick, KeyInv
      <4>2. keyRequest'[r] = keyRequest[r]
        BY <2>4, <3>1
      <4> QED
        BY <4>1, <4>2, <2>3
    <3>2. CASE r \notin KeySet!Waiting
      <4>1. keyRequest'[r] = KeySet!Idle
        BY <2>4, <3>2
      <4>2. KeySet!Idle.at = "idle"
        BY DEF KeySet!Idle
      <4> QED
        BY <4>1, <4>2, IdleKept, <2>3
    <3> QED
      BY <3>1, <3>2
  <2> QED
    BY <2>2, <2>4, <2>5 DEF KeyInv
<1>4. CASE KeySet!Publish
  <2>1. PICK k \in Kids : since[k] = KeySet!Never /\ since' = [since EXCEPT ![k] = keyNow]
    BY <1>4 DEF KeySet!Publish
  <2>2. UNCHANGED <<keyNow, until, keyRequest>>
    BY <1>4 DEF KeySet!Publish
  <2>3. \A j \in Kids : since'[j] \in Nat /\ (since'[j] = since[j] \/ since'[j] = keyNow)
    BY <1>2, <2>1 DEF ClockKept
  <2>4. ClockKept'
    BY <1>1, <1>2, <2>1, <2>2 DEF ClockKept
  <2>5. CacheKept'
    BY <1>1, <1>2, <2>2, <2>3 DEF CacheKept, ClockKept
  <2>6. ASSUME NEW req, KeyKept(req) PROVE KeyKept(req)'
    <3>1. /\ req \in KeyCall /\ keyNow \in Nat /\ failedAt \in Nat
          /\ req.answer = "unknown_key" => Grace(req) \in Nat
      BY <1>2, <2>6 DEF KeyKept, ClockKept, Grace, KeyCall
    <3>2. req.at = "answered" => ReadTrue(req)'
      BY <1>1, <1>2, <2>2, <2>3, <2>6, <3>1 DEF KeyKept, ReadTrue, KeyCall
    <3>3. req.answer = "unknown_key" =>
             ((since'[req.kid] + Grace(req) < req.time /\ until[req.kid] > req.time)
                => failedAt >= since'[req.kid])
      BY <2>3, <2>6, <3>1 DEF KeyKept, KeyCall
    <3> QED
      BY <1>1, <2>2, <2>6, <3>2, <3>3 DEF KeyKept, Grace
  <2> QED
    BY <2>2, <2>4, <2>5, <2>6 DEF KeyInv
<1>5. CASE KeySet!Retract
  <2>1. PICK k \in Kids : keyNow < until[k] /\ until' = [until EXCEPT ![k] = keyNow]
    BY <1>5 DEF KeySet!Retract, KeySet!Published
  <2>2. UNCHANGED <<keyNow, since, keyRequest>>
    BY <1>5 DEF KeySet!Retract
  <2>3. \A j \in Kids : /\ until'[j] \in Nat
                        /\ until'[j] = until[j] \/ (until'[j] = keyNow /\ keyNow < until[j])
    BY <1>2, <2>1 DEF ClockKept
  <2>4. ClockKept'
    BY <1>1, <1>2, <2>1, <2>2 DEF ClockKept
  <2>5. CacheKept'
    BY <1>1, <1>2, <2>2, <2>3 DEF CacheKept, ClockKept
  <2>6. ASSUME NEW req, KeyKept(req) PROVE KeyKept(req)'
    <3>1. /\ req \in KeyCall /\ keyNow \in Nat /\ failedAt \in Nat /\ req.time \in Nat
          /\ \A j \in Kids : until[j] \in Nat
      BY <1>2, <2>6 DEF KeyKept, ClockKept, KeyCall
    <3>2. req.at = "answered" => ReadTrue(req)'
      BY <1>1, <1>2, <2>2, <2>3, <2>6, <3>1 DEF KeyKept, ReadTrue, KeyCall
    <3>3. req.answer = "unknown_key" =>
             ((since[req.kid] + Grace(req) < req.time /\ until'[req.kid] > req.time)
                => failedAt >= since[req.kid])
      BY <2>3, <2>6, <3>1 DEF KeyKept
    <3>4. req.answer = "accepted" =>
             (req.time > until'[req.kid] + KeysTTL + Flight => failedAt >= until'[req.kid])
      BY <1>2, <2>3, <2>6, <3>1 DEF KeyKept
    <3> QED
      BY <1>1, <2>2, <2>6, <3>2, <3>3, <3>4 DEF KeyKept, Grace
  <2> QED
    BY <2>2, <2>4, <2>5, <2>6 DEF KeyInv
<1> QED
  BY <1>3, <1>4, <1>5

LEMMA KeySteps ==
    ASSUME KeySet!LegalConstants, KeyInv, [KeySet!Next]_(KeySet!vars) PROVE KeyInv'
<1>1. CASE UNCHANGED KeySet!vars
  BY <1>1 DEF KeySet!vars, KeyInv, ClockKept, CacheKept, KeyKept, ReadTrue, Grace
<1>2. CASE KeySet!Publish \/ KeySet!Retract \/ KeySet!Tick
  BY <1>2, KeyClockSteps
<1>3. ClockKept /\ CacheKept /\ KeysTTL \in Nat /\ Flight \in Nat /\ keyNow \in Nat /\ fetchedAt \in Nat
  BY KeysNumbers DEF KeyInv, ClockKept, CacheKept
<1>4. ASSUME NEW r \in Requests, KeySet!Receive(r) PROVE KeyInv'
  <2>1. UNCHANGED <<keyNow, since, until, keySet, fetchedAt, failedAt>>
    BY <1>4 DEF KeySet!Receive
  <2>2. CacheKept' /\ \A req : KeyKept(req)' = KeyKept(req)
    BY <1>3, <2>1 DEF CacheKept, KeyKept, ReadTrue, Grace
  <2>3. PICK kind \in {"service", "webhook"}, k \in Kids :
          LET new == [KeySet!Idle EXCEPT !.kind = kind, !.kid = k, !.sent = keyNow]
          IN  keyRequest' = [keyRequest EXCEPT ![r] =
                IF KeySet!NeedsRefresh(kind, k) THEN [new EXCEPT !.at = "asked"]
                ELSE KeySet!Judged(new, keySet)]
    BY <1>4 DEF KeySet!Receive
  <2> DEFINE new == [KeySet!Idle EXCEPT !.kind = kind, !.kid = k, !.sent = keyNow]
  <2>4. /\ new \in KeyCall /\ new.kid = k /\ new.kind = kind /\ new.sent = keyNow
        /\ new.answer = "none"
    BY <1>3 DEF KeySet!Idle, KeyCall
  <2>5. keyRequest' = [keyRequest EXCEPT ![r] =
            IF KeySet!NeedsRefresh(kind, k) THEN [new EXCEPT !.at = "asked"]
            ELSE KeySet!Judged(new, keySet)]
    BY <2>3
  <2> HIDE DEF new
  <2>6. CASE KeySet!NeedsRefresh(kind, k)
    <3>1. KeyKept([new EXCEPT !.at = "asked"])
      BY <1>3, <2>4 DEF KeyKept, KeyCall
    <3> QED
      BY <2>1, <2>2, <2>5, <2>6, <3>1, KeyRequestSteps
  <2>7. CASE ~KeySet!NeedsRefresh(kind, k)
    <3>1. keyNow < fetchedAt + KeysTTL /\ (kind = "service" => k \in keySet)
      BY <1>3, <2>7 DEF KeySet!NeedsRefresh, KeySet!Stale
    <3>2. since[k] \in Nat /\ until[k] \in Nat /\ fetchedAt <= keyNow
      BY <1>3 DEF ClockKept, CacheKept
    <3>3. k \in keySet => keyNow <= until[k] + KeysTTL + Flight
      BY <1>3, <3>1, <3>2 DEF CacheKept
    <3>4. k \notin keySet =>
             \/ until[k] <= keyNow
             \/ keyNow <= since[k] + KeysTTL + Flight
      BY <1>3, <3>1, <3>2 DEF CacheKept
    <3>5. KeyKept(KeySet!Judged(new, keySet))
      BY <1>3, <2>4, <3>1, <3>3, <3>4, JudgedKept
    <3> QED
      BY <2>1, <2>2, <2>5, <2>7, <3>5, KeyRequestSteps
  <2> QED
    BY <2>6, <2>7
<1>5. ASSUME NEW r \in Requests, KeySet!ReadKeys(r) PROVE KeyInv'
  <2>1. UNCHANGED <<keyNow, since, until, keySet, fetchedAt, failedAt>>
    BY <1>5 DEF KeySet!ReadKeys
  <2>2. CacheKept' /\ \A req : KeyKept(req)' = KeyKept(req)
    BY <1>3, <2>1 DEF CacheKept, KeyKept, ReadTrue, Grace
  <2> DEFINE req == [keyRequest[r] EXCEPT !.at = "answered", !.seen = KeySet!Published]
  <2>3. keyRequest' = [keyRequest EXCEPT ![r] = req]
    BY <1>5 DEF KeySet!ReadKeys, KeyInv
  <2>4. keyRequest[r] \in KeyCall /\ KeyKept(keyRequest[r]) /\ keyRequest[r].at = "asked"
    BY <1>5 DEF KeySet!ReadKeys, KeyInv, KeyKept
  <2>5. KeySet!Published \subseteq Kids
    BY DEF KeySet!Published
  <2>6. /\ req \in KeyCall /\ req.at = "answered" /\ req.seen = KeySet!Published
        /\ req.kid = keyRequest[r].kid /\ req.kind = keyRequest[r].kind
        /\ req.sent = keyRequest[r].sent /\ req.answer = keyRequest[r].answer
    BY <2>4, <2>5 DEF KeyCall
  <2> HIDE DEF req
  <2>7. ReadTrue(req)
    BY <1>3, <2>4, <2>6 DEF ReadTrue, KeyKept, KeySet!Published, ClockKept, KeyCall
  <2>8. KeyKept(req)
    BY <2>4, <2>6, <2>7 DEF KeyKept
  <2> QED
    BY <2>1, <2>2, <2>3, <2>8, KeyRequestSteps
<1>6. ASSUME NEW r \in Requests, KeySet!Land(r) PROVE KeyInv'
  <2>1. /\ UNCHANGED <<keyNow, since, until, failedAt>> /\ fetchedAt' = keyNow
        /\ keySet' = keyRequest[r].seen
        /\ keyRequest' = [keyRequest EXCEPT ![r] = KeySet!Judged(keyRequest[r], keySet')]
    BY <1>6 DEF KeySet!Land, KeySet!Refreshed
  <2>2. /\ keyRequest[r] \in KeyCall /\ ReadTrue(keyRequest[r]) /\ keyRequest[r].kid \in Kids
        /\ keyRequest[r].kind # "none" /\ keyRequest[r].sent <= keyNow
        /\ keyNow <= keyRequest[r].sent + Flight
    BY <1>6 DEF KeySet!Land, KeyInv, KeyKept
  <2>3. \A k \in Kids : since[k] \in Nat /\ until[k] \in Nat
    BY <1>3 DEF ClockKept
  <2>4. keyRequest[r].sent \in Nat /\ keySet' \subseteq Kids
    BY <2>1, <2>2 DEF KeyCall
  <2>5. /\ \A k \in keySet' : keyNow <= until[k] + Flight
        /\ \A k \in Kids : (since[k] + Flight < keyNow /\ keyNow < until[k]) => k \in keySet'
    BY <1>3, <2>1, <2>2, <2>3, <2>4 DEF ReadTrue
  <2>6. CacheKept'
    BY <1>3, <2>1, <2>4, <2>5 DEF CacheKept
  <2>7. \A req : KeyKept(req)' = KeyKept(req)
    BY <2>1 DEF KeyKept, ReadTrue, Grace
  <2>8. KeyKept(KeySet!Judged(keyRequest[r], keySet'))
    <3> DEFINE k == keyRequest[r].kid
    <3>1. k \in keySet' => keyNow <= until[k] + KeysTTL + Flight
      BY <1>3, <2>2, <2>3, <2>5
    <3>2. k \notin keySet' => until[k] <= keyNow \/ keyRequest[r].sent <= since[k]
      BY <1>3, <2>1, <2>2, <2>3, <2>4 DEF ReadTrue
    <3>3. keyRequest[r].sent <= since[k] => keyNow <= since[k] + KeysTTL + Flight
      BY <1>3, <2>2, <2>3, <2>4
    <3> QED
      BY <1>3, <2>2, <3>1, <3>2, <3>3, JudgedKept
  <2> QED
    BY <2>1, <2>6, <2>7, <2>8, KeyRequestSteps
<1>7. ASSUME NEW r \in Requests, KeySet!Fails(r) PROVE KeyInv'
  <2>1. /\ UNCHANGED <<keyNow, since, until, keySet, fetchedAt>> /\ failedAt' = keyNow
        /\ keyRequest' = [keyRequest EXCEPT ![r] = KeySet!Judged(keyRequest[r], keySet)]
    BY <1>7 DEF KeySet!Fails
  <2>2. /\ keyRequest[r] \in KeyCall /\ keyRequest[r].kid \in Kids
        /\ keyRequest[r].kind # "none" /\ keyRequest[r].sent <= keyNow
    BY <1>7 DEF KeySet!Fails, KeySet!Waiting, KeyInv, KeyKept
  <2>3. CacheKept'
    BY <1>3, <2>1 DEF CacheKept
  <2>4. PICK e : e = KeySet!Judged(keyRequest[r], keySet)
    OBVIOUS
  <2>5. /\ e \in KeyCall /\ e.at = "over" /\ e.time = keyNow /\ e.kid \in Kids
        /\ e.answer # "accepted" => e.answer = "unknown_key" /\ e.sent = keyRequest[r].sent
    BY <1>3, <2>2, <2>4, Judges
  <2>6. since[e.kid] \in Nat /\ until[e.kid] \in Nat
    BY <1>3, <2>5 DEF ClockKept
  <2>7. KeyKept(e)'
    BY <1>3, <2>1, <2>2, <2>5, <2>6 DEF KeyKept, Grace, KeyCall
  <2> QED
    BY <2>1, <2>3, <2>4, <2>7, KeyRequestSteps
<1> QED
  BY <1>1, <1>2, <1>4, <1>5, <1>6, <1>7 DEF KeySet!Next

LEMMA KeysSuffice == KeyInv => KeySet!PublishedKeyFound /\ KeySet!RetractedKeyDiesOut
BY DEF KeyInv, KeyKept, Grace, KeySet!PublishedKeyFound, KeySet!RetractedKeyDiesOut

-----------------------------------------------------------------------------
(***************************************************************************)
(* The modules and keys of a release: TransformaModuleCache.               *)
(***************************************************************************)

FetchStates == [at : {"idle", "config", "modules"}, also : BOOLEAN, read : Caches!Known \cup {0}]

\* A module that is loaded is the one some release has at its place.
Released ==
    /\ loaded = [i \in Caches!Places |-> loaded[i]]
    /\ \A i \in Caches!Places :
          loaded[i] # Nothing => \E r \in Caches!Known : loaded[i] = Releases[r].modules[i]

ReleaseInv ==
    /\ released \in Caches!Known
    /\ fetch \in [Fetches -> FetchStates]
    /\ Caches!OneRelease
    /\ Released

\* A release that lands whole is what is held; one that does not is noted.
LEMMA LandsWhole ==
    ASSUME Caches!LegalConstants, Released, NEW new \in Caches!Known, Caches!PutModules(new)
    PROVE  Caches!OneRelease' /\ Released'
<1>1. /\ loaded' = Caches!Replaced(new) /\ torn' = ~Caches!Whole(new)
      /\ keys' = IF ~Caches!Whole(new) THEN keys
                 ELSE IF phase = "serving" /\ keys # Nothing /\ keys.csid = Releases[new].keys.csid
                 THEN keys
                 ELSE Releases[new].keys
  BY Zenon DEF Caches!PutModules
<1>2. \A i \in Caches!Places :
         \/ loaded'[i] = Releases[new].modules[i]
         \/ loaded'[i] = loaded[i] /\ (i \in Caches!Reached(new) => Caches!Skipped(new, i))
  BY <1>1 DEF Caches!Replaced
<1>3. loaded' = [i \in Caches!Places |-> loaded'[i]]
  BY <1>1 DEF Caches!Replaced
<1>4. Released'
  BY <1>2, <1>3 DEF Released, Caches!Places, Caches!Known
<1>5. ASSUME NEW i \in Caches!Places, Caches!Skipped(new, i)
      PROVE  loaded[i] = Releases[new].modules[i]
  <2>1. /\ loaded[i] # Nothing /\ Releases[new].modules[i].sum # "none"
        /\ Releases[new].modules[i].sum = loaded[i].sum
    BY <1>5 DEF Caches!Skipped
  <2>2. PICK r \in Caches!Known : loaded[i] = Releases[r].modules[i]
    BY <2>1 DEF Released
  <2>3. \A x, y \in Caches!Known : \A j \in Caches!Places :
          (Releases[x].modules[j].sum # "none" /\ Releases[x].modules[j].sum = Releases[y].modules[j].sum)
             => Releases[x].modules[j] = Releases[y].modules[j]
    BY Zenon DEF Caches!LegalConstants
  <2>4. Releases[new].modules[i] = Releases[r].modules[i]
    BY <2>1, <2>2, <2>3, Zenon
  <2> QED
    BY <2>2, <2>4
<1>6. CASE Caches!Whole(new)
  <2>1. \A i \in Caches!Places : loaded'[i] = Releases[new].modules[i]
    BY <1>2, <1>5, <1>6 DEF Caches!Whole
  <2>2. Releases[new].modules = [i \in Caches!Places |-> Releases[new].modules[i]]
    BY Zenon DEF Caches!LegalConstants
  <2>3. loaded' = Releases[new].modules
    BY <1>3, <2>1, <2>2
  <2>4. keys'.csid = Releases[new].keys.csid
    BY <1>1, <1>6
  <2> QED
    BY <1>4, <2>3, <2>4 DEF Caches!OneRelease, Caches!Known
<1>7. CASE ~Caches!Whole(new)
  <2>1. torn'
    BY <1>1, <1>7
  <2> QED
    BY <1>4, <2>1 DEF Caches!OneRelease
<1> QED
  BY <1>6, <1>7

LEMMA ReleaseBegins == ASSUME Caches!LegalConstants, Caches!Init PROVE ReleaseInv
BY DEF Caches!LegalConstants, Caches!Init, Caches!Idle, Caches!Known, Caches!OneRelease, ReleaseInv, Released,
       FetchStates

LEMMA FetchGoes ==
    ASSUME ReleaseInv, NEW f \in Fetches
    PROVE  /\ Caches!After(f) \in FetchStates
           /\ \A also \in BOOLEAN : [Caches!Idle EXCEPT !.at = "config", !.also = also] \in FetchStates
           /\ [Caches!Idle EXCEPT !.at = "modules"] \in FetchStates
           /\ [fetch[f] EXCEPT !.read = released] \in FetchStates
<1>1. Caches!Idle \in FetchStates
  BY DEF Caches!Idle, FetchStates
<1>2. fetch[f] \in FetchStates /\ released \in Caches!Known
  BY DEF ReleaseInv
<1>3. Caches!After(f) \in FetchStates
  BY <1>1 DEF Caches!After, FetchStates
<1>4. [fetch[f] EXCEPT !.read = released] \in FetchStates
  BY <1>2 DEF FetchStates
<1>5. \A also \in BOOLEAN : [Caches!Idle EXCEPT !.at = "config", !.also = also] \in FetchStates
  BY <1>1 DEF FetchStates
<1> QED
  BY <1>1, <1>3, <1>4, <1>5 DEF FetchStates

LEMMA ReleaseSteps ==
    ASSUME Caches!LegalConstants, ReleaseInv, [Caches!Next]_(Caches!vars) PROVE ReleaseInv'
<1>1. CASE UNCHANGED Caches!vars
  BY <1>1 DEF Caches!vars, Caches!held, ReleaseInv, Released, Caches!OneRelease, Caches!Places, Caches!Known
<1>2. CASE Caches!Release \/ Caches!BootConfig \/ Caches!BootModulesFails
  <2>1. UNCHANGED <<fetch, loaded, keys, torn>>
    BY <1>2 DEF Caches!Release, Caches!BootConfig, Caches!BootModulesFails, Caches!held
  <2>2. released' \in Caches!Known
    BY <1>2 DEF Caches!Release, Caches!BootConfig, Caches!BootModulesFails, ReleaseInv,
                Caches!Known, Caches!LegalConstants
  <2> QED
    BY <2>1, <2>2 DEF ReleaseInv, Released, Caches!OneRelease, Caches!Places, Caches!Known
<1>3. CASE Caches!BootModules
  <2>1. released \in Caches!Known /\ Caches!PutModules(released) /\ UNCHANGED <<released, fetch>>
    BY <1>3 DEF Caches!BootModules, ReleaseInv
  <2> QED
    BY <2>1, LandsWhole DEF ReleaseInv
<1>4. ASSUME NEW f \in Fetches,
             Caches!Webhook(f) \/ Caches!RefreshModules(f) \/ Caches!Read(f)
               \/ Caches!LandConfig(f) \/ Caches!Fails(f)
      PROVE  ReleaseInv'
  <2>1. UNCHANGED <<released, loaded, keys, torn>>
    BY <1>4 DEF Caches!Webhook, Caches!RefreshModules, Caches!Read, Caches!LandConfig,
                Caches!Fails, Caches!held
  <2>2. \E step \in FetchStates : fetch' = [fetch EXCEPT ![f] = step]
    <3>1. CASE Caches!Webhook(f)
      BY <3>1, FetchGoes DEF Caches!Webhook, Caches!Goto
    <3>2. CASE Caches!RefreshModules(f)
      BY <3>2, FetchGoes DEF Caches!RefreshModules, Caches!Goto
    <3>3. CASE Caches!Read(f)
      BY <3>3, FetchGoes DEF Caches!Read
    <3>4. CASE Caches!LandConfig(f) \/ Caches!Fails(f)
      BY <3>4, FetchGoes DEF Caches!LandConfig, Caches!Fails, Caches!Goto
    <3> QED
      BY <1>4, <3>1, <3>2, <3>3, <3>4
  <2> QED
    BY <2>1, <2>2 DEF ReleaseInv, Released, Caches!OneRelease, Caches!Places, Caches!Known
<1>5. ASSUME NEW f \in Fetches, Caches!LandModules(f) PROVE ReleaseInv'
  <2>1. fetch[f].read \in Caches!Known /\ Caches!PutModules(fetch[f].read)
    BY <1>5 DEF Caches!LandModules, ReleaseInv, FetchStates
  <2>2. fetch' = [fetch EXCEPT ![f] = Caches!After(f)] /\ UNCHANGED released
    BY <1>5 DEF Caches!LandModules, Caches!Goto
  <2>3. fetch' \in [Fetches -> FetchStates]
    BY <2>2, FetchGoes DEF ReleaseInv
  <2> QED
    BY <2>1, <2>2, <2>3, LandsWhole DEF ReleaseInv
<1> QED
  BY <1>1, <1>2, <1>3, <1>4, <1>5 DEF Caches!Next

-----------------------------------------------------------------------------
\* The caches never lag behind longer than they may: a revoked token is
\* refused, a retracted key opens nothing and a published one is found
\* within a time to live and a flight, whichever answers cross, and the codes
\* and keys in use are of one release (IntrospectClient, JWKSCache,
\* TransformaModuleCache).
THEOREM CachesHold == RelaySpec => []CachesKeepUp
<1> DEFINE Inv == TokenInv /\ KeyInv /\ ReleaseInv
<1>1. RelayInit => Inv
  BY RelayConstants, TokenBegins, KeysBegin, ReleaseBegins DEF RelayInit
<1>2. Inv /\ [RelayNext]_relayVars => Inv'
  BY RelayConstants, CachesStep, TokenSteps, KeySteps, ReleaseSteps
<1>3. Inv => CachesKeepUp
  BY TokenSuffices, KeysSuffice DEF ReleaseInv, CachesKeepUp
<1> QED
  BY <1>1, <1>2, <1>3, PTL DEF RelaySpec

-----------------------------------------------------------------------------
(***************************************************************************)
(* The daily limit: RedisClient.check_rate_limit.                          *)
(***************************************************************************)

QuotaCall == [at : {"new", "redis", "expire", "heartbeat", "over"}, relay : Relays \cup {"none"},
              size : Nat, day : Nat, verdict : {"none", "allowed", "refused"},
              by : {"none", "redis", "heartbeat", "nobody"}]

QuotaTyped ==
    /\ upload \in [Uploads -> QuotaCall]
    /\ counter \in [1..Days -> Nat]
    /\ today \in 1..Days
    /\ \A u \in Uploads : upload[u].at # "new" => upload[u].day \in 1..Days

\* A call that Redis let pass, be its TTL still to be set.
LetPass(call) == call.verdict = "allowed" /\ (call.by = "redis" \/ call.at = "expire")

Admitted(calls, d) == {u \in Uploads : calls[u].day = d /\ LetPass(calls[u])}

FilesIn(calls, S) == UNION {{u} \X (1..calls[u].size) : u \in S}

\* The counter went up by a whole upload before that was let pass, so it
\* covers all the files that were, those of other relays too.
Covers(calls, count, d) ==
    LET files == FilesIn(calls, Admitted(calls, d))
    IN  IsFiniteSet(files) /\ Cardinality(files) <= count /\ Cardinality(files) <= Limit

QuotaInv ==
    /\ QuotaTyped
    /\ \A u \in Uploads : upload[u].at # "over" => upload[u].by = "none"
    /\ \A d \in 1..Days : Covers(upload, counter[d], d)

LEMMA SameCount == \A S : Quota!Cardinality(S) = Cardinality(S)
BY DEF Quota!Cardinality, Cardinality

\* Fewer uploads have fewer files ...
LEMMA FewerFiles ==
    ASSUME NEW calls, NEW S, NEW T \in SUBSET S, IsFiniteSet(FilesIn(calls, S))
    PROVE  /\ IsFiniteSet(FilesIn(calls, T))
           /\ Cardinality(FilesIn(calls, T)) <= Cardinality(FilesIn(calls, S))
<1>1. FilesIn(calls, T) \in SUBSET FilesIn(calls, S)
  BY DEF FilesIn
<1> QED
  BY <1>1, FS_Subset

\* ... and one more has its own on top.
LEMMA MoreFiles ==
    ASSUME NEW calls, NEW S, NEW u, NEW n \in Nat, calls[u].size = n, IsFiniteSet(FilesIn(calls, S))
    PROVE  /\ IsFiniteSet(FilesIn(calls, S \cup {u}))
           /\ Cardinality(FilesIn(calls, S \cup {u})) <= Cardinality(FilesIn(calls, S)) + n
<1> DEFINE A == FilesIn(calls, S)
           B == {u} \X (1..n)
<1>1. FilesIn(calls, S \cup {u}) = A \cup B
  BY DEF FilesIn
<1>2. IsFiniteSet(1..n) /\ Cardinality(1..n) = n
  BY FS_Interval
<1>3. IsFiniteSet({u}) /\ Cardinality({u}) = 1
  BY FS_Singleton
<1>4. IsFiniteSet(B) /\ Cardinality(B) = n
  <2>1. IsFiniteSet(B) /\ Cardinality(B) = Cardinality({u}) * Cardinality(1..n)
    BY <1>2, <1>3, FS_Product
  <2> QED
    BY <1>2, <1>3, <2>1
<1>5. IsFiniteSet(A)
  OBVIOUS
<1> HIDE DEF A, B
<1>6. /\ IsFiniteSet(A \cup B) /\ Cardinality(A \cup B) = Cardinality(A) + Cardinality(B) - Cardinality(A \cap B)
      /\ IsFiniteSet(A \cap B)
  BY <1>4, <1>5, FS_Union, FS_Intersection
<1>7. Cardinality(A) \in Nat /\ Cardinality(A \cap B) \in Nat
  BY <1>5, <1>6, FS_CardinalityType
<1>8. Cardinality(A \cup B) <= Cardinality(A) + n
  BY <1>4, <1>6, <1>7
<1> QED
  BY <1>1, <1>6, <1>8 DEF A

LEMMA QuotaBegins == ASSUME Quota!LegalConstants, Quota!Init PROVE QuotaInv
<1>1. /\ \A u \in Uploads : upload[u] = Quota!New
      /\ \A d \in 1..Days : counter[d] = 0
  BY DEF Quota!Init
<1>2. QuotaTyped
  <2>1. Quota!New \in QuotaCall
    BY DEF Quota!New, QuotaCall
  <2>2. today \in 1..Days
    BY DEF Quota!LegalConstants, Quota!Init
  <2> QED
    BY <2>1, <2>2 DEF Quota!Init, QuotaTyped, Quota!New
<1>3. \A d \in 1..Days : Admitted(upload, d) = {}
  BY <1>1 DEF Admitted, LetPass, Quota!New
<1>4. FilesIn(upload, {}) = {}
  BY DEF FilesIn
<1>5. \A u \in Uploads : upload[u].at = "new" /\ upload[u].by = "none"
  BY <1>1 DEF Quota!New
<1>6. \A d \in 1..Days : Covers(upload, counter[d], d)
  BY <1>1, <1>3, <1>4, FS_EmptySet DEF Covers, Quota!LegalConstants
<1> QED
  BY <1>2, <1>5, <1>6 DEF QuotaInv

\* A step of one call: it is let pass only if it was, or if the counter has
\* room for it and goes up by its size.
LEMMA OneUpload ==
    ASSUME QuotaInv, Quota!LegalConstants, NEW u \in Uploads, NEW c \in QuotaCall,
           upload' = [upload EXCEPT ![u] = c], today' = today,
           c.at # "new", c.day \in 1..Days, c.at # "over" => c.by = "none",
           upload[u].at # "new" => c.size = upload[u].size /\ c.day = upload[u].day,
           counter' \in [1..Days -> Nat], \A d \in 1..Days : counter[d] <= counter'[d],
           LetPass(c) => \/ upload[u].at # "new" /\ LetPass(upload[u])
                         \/ counter'[c.day] = counter[c.day] + c.size /\ counter'[c.day] <= Limit
    PROVE  QuotaInv'
<1>1. /\ upload'[u] = c /\ \A v \in Uploads : v # u => upload'[v] = upload[v]
      /\ upload[u] \in QuotaCall /\ counter \in [1..Days -> Nat] /\ Limit \in Nat
  BY DEF QuotaInv, QuotaTyped, Quota!LegalConstants
<1>2. QuotaTyped' /\ \A v \in Uploads : upload'[v].at # "over" => upload'[v].by = "none"
  BY <1>1 DEF QuotaInv, QuotaTyped
<1>3. ASSUME NEW d \in 1..Days PROVE Covers(upload', counter'[d], d)
  <2> DEFINE A == Admitted(upload, d)
             B == Admitted(upload', d) \ {u}
  <2>1. /\ IsFiniteSet(FilesIn(upload, A)) /\ Cardinality(FilesIn(upload, A)) <= counter[d]
        /\ Cardinality(FilesIn(upload, A)) <= Limit
    BY DEF QuotaInv, Covers
  <2>2. B \in SUBSET A /\ \A v \in B : upload'[v].size = upload[v].size
    BY <1>1 DEF Admitted
  <2>3. FilesIn(upload', B) = FilesIn(upload, B)
    BY <2>2 DEF FilesIn
  <2> HIDE DEF A, B
  <2>4. IsFiniteSet(FilesIn(upload', B)) /\ Cardinality(FilesIn(upload', B)) <= Cardinality(FilesIn(upload, A))
    BY <2>1, <2>2, <2>3, FewerFiles
  <2>5. Cardinality(FilesIn(upload', B)) \in Nat /\ Cardinality(FilesIn(upload, A)) \in Nat
    BY <2>1, <2>4, FS_CardinalityType
  <2>6. counter[d] \in Nat /\ counter'[d] \in Nat /\ counter[d] <= counter'[d]
    BY <1>1
  <2>7. CASE u \notin Admitted(upload', d)
    <3>1. Admitted(upload', d) = B
      BY <2>7 DEF B
    <3>2. Cardinality(FilesIn(upload', B)) <= counter'[d] /\ Cardinality(FilesIn(upload', B)) <= Limit
      BY <1>1, <2>1, <2>4, <2>5, <2>6
    <3> QED
      BY <2>4, <3>1, <3>2 DEF Covers
  <2>8. CASE u \in Admitted(upload', d)
    <3>1. Admitted(upload', d) = B \cup {u} /\ c.day = d /\ LetPass(c) /\ c.size \in Nat
      BY <1>1, <2>8 DEF B, Admitted, QuotaCall
    <3>2. CASE upload[u].at # "new" /\ LetPass(upload[u])
      <4>1. u \in A /\ c.size = upload[u].size
        BY <3>1, <3>2 DEF A, Admitted
      <4>2. B \cup {u} \in SUBSET A /\ \A v \in B \cup {u} : upload'[v].size = upload[v].size
        BY <1>1, <2>2, <4>1
      <4>3. FilesIn(upload', B \cup {u}) = FilesIn(upload, B \cup {u})
        BY <4>2 DEF FilesIn
      <4>4. IsFiniteSet(FilesIn(upload', B \cup {u}))
            /\ Cardinality(FilesIn(upload', B \cup {u})) <= Cardinality(FilesIn(upload, A))
        BY <2>1, <4>2, <4>3, FewerFiles
      <4>5. Cardinality(FilesIn(upload', B \cup {u})) \in Nat
        BY <4>4, FS_CardinalityType
      <4> DEFINE F == FilesIn(upload', B \cup {u})
      <4>6. FilesIn(upload', Admitted(upload', d)) = F
        BY <3>1
      <4>7. IsFiniteSet(F) /\ Cardinality(F) <= counter'[d] /\ Cardinality(F) <= Limit
        BY <1>1, <2>1, <2>5, <2>6, <4>4, <4>5
      <4> HIDE DEF F
      <4> QED
        BY <4>6, <4>7 DEF Covers
    <3>3. CASE counter'[d] = counter[d] + c.size /\ counter'[d] <= Limit
      <4>1. IsFiniteSet(FilesIn(upload', B \cup {u}))
            /\ Cardinality(FilesIn(upload', B \cup {u})) <= Cardinality(FilesIn(upload', B)) + c.size
        <5>1. upload'[u].size = c.size /\ c.size \in Nat
          BY <1>1, <3>1
        <5> QED
          BY <2>4, <5>1, MoreFiles
      <4>2. Cardinality(FilesIn(upload', B \cup {u})) \in Nat
        BY <4>1, FS_CardinalityType
      <4> DEFINE F == FilesIn(upload', B \cup {u})
      <4>3. FilesIn(upload', Admitted(upload', d)) = F
        BY <3>1
      <4>4. Cardinality(F) <= counter[d] + c.size
        BY <2>1, <2>4, <2>5, <2>6, <3>1, <4>1, <4>2
      <4>5. IsFiniteSet(F) /\ Cardinality(F) <= counter'[d] /\ Cardinality(F) <= Limit
        BY <1>1, <2>6, <3>1, <3>3, <4>1, <4>2, <4>4
      <4> HIDE DEF F
      <4> QED
        BY <4>3, <4>5 DEF Covers
    <3> QED
      BY <3>1, <3>2, <3>3
  <2> QED
    BY <2>7, <2>8
<1> QED
  BY <1>2, <1>3 DEF QuotaInv

LEMMA QuotaSteps == ASSUME Quota!LegalConstants PROVE QuotaInv /\ [Quota!Next]_(Quota!vars) => QuotaInv'
<1> SUFFICES ASSUME QuotaInv, [Quota!Next]_(Quota!vars) PROVE QuotaInv'
  OBVIOUS
<1>0. /\ upload \in [Uploads -> QuotaCall] /\ counter \in [1..Days -> Nat] /\ today \in 1..Days
      /\ \A v \in Uploads : upload[v] \in QuotaCall /\ upload[v].size \in Nat
      /\ \A v \in Uploads : upload[v].at # "new" => upload[v].day \in 1..Days
      /\ \A v \in Uploads : upload[v].at # "over" => upload[v].by = "none"
      /\ Days \in Nat /\ Sizes \subseteq Nat
  BY DEF QuotaInv, QuotaTyped, QuotaCall, Quota!LegalConstants
<1>1. CASE Quota!Midnight \/ UNCHANGED Quota!vars
  <2>1. UNCHANGED <<upload, counter>> /\ today' \in 1..Days
    BY <1>0, <1>1 DEF Quota!Midnight, Quota!vars
  <2> QED
    BY <2>1 DEF QuotaInv, QuotaTyped
<1>2. ASSUME NEW u \in Uploads, Quota!Begin(u) PROVE QuotaInv'
  <2>1. PICK p \in Relays, n \in Sizes :
           upload' = [upload EXCEPT ![u] = [Quota!New EXCEPT !.relay = p, !.size = n, !.day = today,
                        !.at = IF available[p] THEN "redis" ELSE "heartbeat"]]
    BY <1>2 DEF Quota!Begin
  <2> DEFINE c == [Quota!New EXCEPT !.relay = p, !.size = n, !.day = today,
                        !.at = IF available[p] THEN "redis" ELSE "heartbeat"]
  <2>2. c.at \in {"redis", "heartbeat"} /\ c.day = today /\ c.by = "none" /\ c.verdict = "none"
    BY DEF Quota!New
  <2>3. c \in QuotaCall
    <3>1. n \in Nat /\ today \in Nat
      BY <1>0
    <3> QED
      BY <3>1 DEF Quota!New, QuotaCall
  <2>4. ~LetPass(c) /\ upload' = [upload EXCEPT ![u] = c]
    BY <2>1, <2>2 DEF LetPass
  <2>5. upload[u].at = "new" /\ counter' = counter /\ today' = today
    BY <1>2 DEF Quota!Begin
  <2> HIDE DEF c
  <2>6. c.at # "new" /\ c.day \in 1..Days /\ (c.at # "over" => c.by = "none")
    BY <1>0, <2>2
  <2>7. counter' \in [1..Days -> Nat] /\ \A d \in 1..Days : counter[d] <= counter'[d]
    BY <1>0, <2>5
  <2> QED
    BY <2>3, <2>4, <2>5, <2>6, <2>7, OneUpload
<1>3. ASSUME NEW u \in Uploads, Quota!Increment(u) PROVE QuotaInv'
  <2> DEFINE d == upload[u].day
             n == upload[u].size
             m == counter[d] + n
             w == Quota!Verdict(m, n)
             c == IF d \in expiring THEN Quota!Over(u, w, "redis")
                  ELSE [upload[u] EXCEPT !.at = "expire", !.verdict = w]
  <2>1. /\ upload[u].at = "redis" /\ counter' = [counter EXCEPT ![d] = m]
        /\ upload' = [upload EXCEPT ![u] = c] /\ today' = today
    BY <1>3 DEF Quota!Increment
  <2>2. w \in {"allowed", "refused"} /\ (w = "allowed" => m <= Limit)
    BY DEF Quota!Verdict, Quota!Passes
  <2>3. d \in 1..Days /\ counter[d] \in Nat /\ n \in Nat /\ m \in Nat /\ upload[u] \in QuotaCall
    BY <1>0, <2>1
  <2>4. counter' \in [1..Days -> Nat] /\ counter'[d] = m /\ \A e \in 1..Days : counter[e] <= counter'[e]
    <3> HIDE DEF d, n
    <3> QED
      BY <1>0, <2>1, <2>3
  <2>5. /\ c \in QuotaCall /\ c.day = d /\ c.size = n /\ c.verdict = w /\ c.at \in {"expire", "over"}
        /\ c.at = "expire" => c.by = "none"
    <3> HIDE DEF w
    <3> QED
      BY <1>0, <2>1, <2>2 DEF QuotaCall, Quota!Over
  <2>6. LetPass(c) => counter'[c.day] = counter[c.day] + c.size /\ counter'[c.day] <= Limit
    BY <2>2, <2>4, <2>5 DEF LetPass
  <2> HIDE DEF c, w
  <2> QED
    BY <2>1, <2>3, <2>4, <2>5, <2>6, OneUpload
<1>4. ASSUME NEW u \in Uploads, Quota!Expire(u) PROVE QuotaInv'
  <2> DEFINE c == Quota!Over(u, upload[u].verdict, "redis")
  <2>1. /\ upload[u].at = "expire" /\ upload' = [upload EXCEPT ![u] = c] /\ UNCHANGED <<counter, today>>
    BY <1>4 DEF Quota!Expire
  <2>2. /\ c \in QuotaCall /\ c.day = upload[u].day /\ c.size = upload[u].size /\ c.at = "over"
        /\ c.verdict = upload[u].verdict
    BY <1>0 DEF QuotaCall, Quota!Over
  <2>3. LetPass(c) => LetPass(upload[u])
    BY <2>1, <2>2 DEF LetPass
  <2> HIDE DEF c
  <2>4. c.at # "new" /\ c.day \in 1..Days /\ (c.at # "over" => c.by = "none")
    BY <1>0, <2>1, <2>2
  <2>5. counter' \in [1..Days -> Nat] /\ \A d \in 1..Days : counter[d] <= counter'[d]
    BY <1>0, <2>1
  <2>6. /\ upload' = [upload EXCEPT ![u] = c] /\ today' = today
        /\ upload[u].at # "new" => c.size = upload[u].size /\ c.day = upload[u].day
        /\ LetPass(c) => upload[u].at # "new" /\ LetPass(upload[u])
    BY <2>1, <2>2, <2>3
  <2> QED
    BY <2>2, <2>4, <2>5, <2>6, OneUpload
<1>5. ASSUME NEW u \in Uploads, Quota!RedisFails(u) PROVE QuotaInv'
  <2> DEFINE c == Quota!Over(u, "allowed", "nobody")
             d == upload[u].day
  <2>1. PICK n \in {0, upload[u].size} :
           counter' = IF upload[u].at = "redis" THEN [counter EXCEPT ![upload[u].day] = @ + n] ELSE counter
    BY <1>5 DEF Quota!RedisFails
  <2>2. upload[u].at \in {"redis", "expire"} /\ upload' = [upload EXCEPT ![u] = c] /\ UNCHANGED today
    BY <1>5 DEF Quota!RedisFails
  <2>3. /\ c \in QuotaCall /\ c.day = upload[u].day /\ c.size = upload[u].size /\ c.at = "over"
        /\ c.by = "nobody"
    BY <1>0 DEF QuotaCall, Quota!Over
  <2>4. counter' \in [1..Days -> Nat] /\ \A e \in 1..Days : counter[e] <= counter'[e]
    <3>1. n \in Nat
      BY <1>0, <2>1
    <3> QED
      BY <1>0, <2>1, <3>1
  <2>5. ~LetPass(c)
    BY <2>3 DEF LetPass
  <2> HIDE DEF c
  <2> QED
    BY <1>0, <2>2, <2>3, <2>4, <2>5, OneUpload
<1>6. ASSUME NEW u \in Uploads, Quota!AskHeartBeat(u) PROVE QuotaInv'
  <2>1. PICK c \in {Quota!Over(u, "allowed", "heartbeat"), Quota!Over(u, "refused", "heartbeat"),
                    Quota!Over(u, "allowed", "nobody")} : upload' = [upload EXCEPT ![u] = c]
    BY <1>6 DEF Quota!AskHeartBeat
  <2>2. upload[u].at = "heartbeat" /\ UNCHANGED <<counter, today>>
    BY <1>6 DEF Quota!AskHeartBeat
  <2>3. /\ c \in QuotaCall /\ c.day = upload[u].day /\ c.size = upload[u].size /\ c.at = "over"
        /\ c.by \in {"heartbeat", "nobody"}
    BY <1>0, <2>1 DEF QuotaCall, Quota!Over
  <2>4. ~LetPass(c)
    BY <2>3 DEF LetPass
  <2>5. c.at # "new" /\ c.day \in 1..Days /\ (c.at # "over" => c.by = "none")
    BY <1>0, <2>2, <2>3
  <2>6. counter' \in [1..Days -> Nat] /\ \A d \in 1..Days : counter[d] <= counter'[d]
    BY <1>0, <2>2
  <2>7. upload' = [upload EXCEPT ![u] = c] /\ today' = today /\ c \in QuotaCall
    BY <2>1, <2>2, <2>3
  <2> QED
    BY <2>3, <2>4, <2>5, <2>6, <2>7, OneUpload
<1> QED
  BY <1>1, <1>2, <1>3, <1>4, <1>5, <1>6 DEF Quota!Next

LEMMA QuotaSuffices == ASSUME QuotaInv, Quota!LegalConstants PROVE QuotaNotOverdrawn
<1> SUFFICES ASSUME NEW d \in 1..Days PROVE Cardinality(Quota!FilesOf(Quota!Passed(d))) <= Limit
  BY SameCount DEF QuotaNotOverdrawn, Quota!QuotaNotOverdrawn
<1>1. /\ IsFiniteSet(FilesIn(upload, Admitted(upload, d)))
      /\ Cardinality(FilesIn(upload, Admitted(upload, d))) <= Limit
  BY DEF QuotaInv, Covers
<1>2. Quota!Passed(d) \in SUBSET Admitted(upload, d)
  BY DEF Quota!Passed, Admitted, LetPass
<1>3. Quota!FilesOf(Quota!Passed(d)) = FilesIn(upload, Quota!Passed(d))
  BY DEF Quota!FilesOf, FilesIn
<1>4. /\ IsFiniteSet(FilesIn(upload, Quota!Passed(d)))
      /\ Cardinality(FilesIn(upload, Quota!Passed(d))) <= Cardinality(FilesIn(upload, Admitted(upload, d)))
  BY <1>1, <1>2, FewerFiles
<1>5. /\ Cardinality(FilesIn(upload, Quota!Passed(d))) \in Nat /\ Limit \in Nat
      /\ Cardinality(FilesIn(upload, Admitted(upload, d))) \in Nat
  BY <1>1, <1>4, FS_CardinalityType DEF Quota!LegalConstants
<1> QED
  BY <1>1, <1>3, <1>4, <1>5

\* The counter goes up before it is compared, so that no two uploads of any
\* relays get the same files' room: what Redis lets pass on a day is within
\* the limit, whatever fails between the round trips.
THEOREM QuotaHolds == RelaySpec => []QuotaNotOverdrawn
<1>1. RelayInit => QuotaInv
  BY RelayConstants, QuotaBegins DEF RelayInit
<1>2. QuotaInv /\ [RelayNext]_relayVars => QuotaInv'
  BY RelayConstants, EachSteps, QuotaSteps
<1>3. QuotaInv => QuotaNotOverdrawn
  BY RelayConstants, QuotaSuffices
<1> QED
  BY <1>1, <1>2, <1>3, PTL DEF RelaySpec
-----------------------------------------------------------------------------
(***************************************************************************)
(* Types: what the invariants above do not say of them already.            *)
(***************************************************************************)

\* A call that is under way has attempts left.
FinalizeBounds ==
    /\ \A c \in Calls : finalizing[c].tries \in 0..MaxAttempts
    /\ \A c \in Calls : finalizing[c].at = "core" => finalizing[c].tries < MaxAttempts
    /\ triggered \subseteq Calls /\ restarts \in 0..MaxRestarts

LEMMA FinalizeBounded ==
    ASSUME Fin!LegalConstants, FinalizeInv, FinalizeBounds, [Fin!Next]_(Fin!vars) PROVE FinalizeBounds'
<1>1. /\ finalizing \in [Calls -> FinalizeCall] /\ MaxAttempts \in Nat \ {0} /\ MaxRestarts \in Nat
      /\ \A c \in Calls : finalizing[c].at = "new" => finalizing[c].tries = 0
  BY DEF FinalizeInv, FinalizeTyped, Recording, Fin!LegalConstants
<1>2. ASSUME NEW c \in Calls, Fin!Lookup(c) PROVE FinalizeBounds'
  <2>1. finalizing[c].at = "new" /\ UNCHANGED <<triggered, restarts>>
    BY <1>2 DEF Fin!Lookup
  <2>2. \E row \in {finalizing'[c]} : finalizing' = [finalizing EXCEPT ![c] = row] /\ row.tries = finalizing[c].tries
    BY <1>1, <1>2 DEF Fin!Lookup, FinalizeCall
  <2> QED
    BY <1>1, <2>1, <2>2 DEF FinalizeBounds
<1>3. ASSUME NEW c \in Calls, Fin!Trigger(c) PROVE FinalizeBounds'
  <2>1. PICK reply \in TriggerReplies :
           finalizing' = [finalizing EXCEPT ![c] =
              IF Fin!After(reply, finalizing[c].tries + 1, MaxAttempts) = "again"
              THEN [@ EXCEPT !.tries = finalizing[c].tries + 1]
              ELSE [@ EXCEPT !.tries = finalizing[c].tries + 1, !.at = "over", !.answer = "accepted", !.event = c]]
    BY <1>3 DEF Fin!Trigger
  <2>2. finalizing[c].tries + 1 \in 0..MaxAttempts
    BY <1>1, <1>3 DEF Fin!Trigger, FinalizeBounds
  <2>3. /\ finalizing'[c].tries = finalizing[c].tries + 1
        /\ finalizing'[c].at = "core" => finalizing[c].tries + 1 < MaxAttempts
        /\ \A d \in Calls \ {c} : finalizing'[d] = finalizing[d]
    BY <1>1, <2>1 DEF Fin!After, FinalizeCall
  <2>4. triggered' \subseteq Calls /\ restarts' = restarts
    BY <1>3 DEF Fin!Trigger, FinalizeBounds
  <2> QED
    BY <2>2, <2>3, <2>4 DEF FinalizeBounds
<1>4. CASE Fin!Restart
  <2>1. restarts < MaxRestarts /\ restarts' = restarts + 1 /\ triggered' = triggered
    BY <1>4, Zenon DEF Fin!Restart
  <2>2. restarts' \in 0..MaxRestarts
    <3>1. restarts \in 0..MaxRestarts
      BY DEF FinalizeBounds
    <3> QED
      BY <1>1, <2>1, <3>1
  <2>3. ASSUME NEW c \in Calls
        PROVE  /\ finalizing'[c].tries = finalizing[c].tries
               /\ finalizing'[c].at = "core" => finalizing[c].at = "core"
    <3> DEFINE row == finalizing[c]
    <3>1. row \in FinalizeCall
      BY <1>1
    <3>2. finalizing'[c] = IF c \in Fin!InFlight THEN [row EXCEPT !.at = "over", !.answer = "lost"] ELSE row
      BY <1>4, Zenon DEF Fin!Restart
    <3> HIDE DEF row
    <3>3. finalizing'[c] = row \/ finalizing'[c] = [row EXCEPT !.at = "over", !.answer = "lost"]
      BY <3>2, Zenon
    <3>4. finalizing'[c].tries = row.tries /\ (finalizing'[c].at = "core" => row.at = "core")
      BY <3>1, <3>3 DEF FinalizeCall
    <3> QED
      BY <3>4 DEF row
  <2> QED
    BY <2>1, <2>2, <2>3 DEF FinalizeBounds
<1>5. CASE UNCHANGED Fin!vars
  BY <1>5 DEF Fin!vars, FinalizeBounds
<1> QED
  BY <1>2, <1>3, <1>4, <1>5 DEF Fin!Next

\* A call that is to be tried again has attempts left, and nothing was
\* carried out without one.
CallTyped ==
    /\ HeartBeat!TypeOK
    /\ carriedOut <= attempt
    /\ calling = HeartBeat!NoOp => attempt = 0 /\ told = "none"
    /\ (calling # HeartBeat!NoOp /\ told = "none") => attempt < HeartBeat!MaxTries(calling)

LEMMA CallBounded ==
    ASSUME HeartBeat!LegalConstants, CallTyped, [HeartBeat!Next]_(HeartBeat!vars) PROVE CallTyped'
<1>1. /\ MaxAttempts \in Nat \ {0}
      /\ \A op : HeartBeat!MaxTries(op) \in 1..MaxAttempts
  BY DEF HeartBeat!LegalConstants, HeartBeat!MaxTries
<1>2. /\ calling \in Operations \cup {HeartBeat!NoOp} /\ told \in HeartBeat!Results
      /\ attempt \in Nat /\ carriedOut \in Nat /\ carriedOut <= attempt
  BY DEF CallTyped, HeartBeat!TypeOK
<1>3. CASE HeartBeat!Begin
  <2>1. /\ calling' \in Operations /\ attempt' = 0 /\ told' = "none" /\ carriedOut' = 0
        /\ carriedOut' <= attempt'
    BY <1>2, <1>3 DEF HeartBeat!Begin, CallTyped
  <2>2. unclear' \in BOOLEAN
    BY <1>3 DEF HeartBeat!Begin, CallTyped, HeartBeat!TypeOK
  <2>3. 0 < HeartBeat!MaxTries(calling') /\ 0 \in 0..MaxAttempts
    BY <1>1
  <2>4. HeartBeat!TypeOK'
    BY <2>1, <2>2, <2>3 DEF HeartBeat!TypeOK, HeartBeat!Results
  <2> QED
    BY <2>1, <2>3, <2>4 DEF CallTyped
<1>4. CASE HeartBeat!Attempt
  <2> DEFINE after(reply) == HeartBeat!After(HeartBeat!Outcome(calling, reply), attempt + 1, HeartBeat!MaxTries(calling))
  <2>1. PICK reply \in HeartBeat!Possible(calling) :
           /\ \E n \in HeartBeat!Did(reply) : carriedOut' = carriedOut + n
           /\ told' = IF after(reply) = "again" THEN "none" ELSE HeartBeat!Result(calling, reply, after(reply))
    BY <1>4 DEF HeartBeat!Attempt
  <2>2. /\ calling' = calling /\ calling # HeartBeat!NoOp /\ told = "none" /\ attempt' = attempt + 1
        /\ attempt < HeartBeat!MaxTries(calling)
    BY <1>4 DEF HeartBeat!Attempt, CallTyped
  <2>3. unclear' \in BOOLEAN
    BY <1>4, Zenon DEF HeartBeat!Attempt
  <2>4. \A x : x \in HeartBeat!Did(reply) => x \in {0, 1}
    BY DEF HeartBeat!Did
  <2>5. carriedOut' \in Nat /\ carriedOut' <= attempt'
    BY <1>2, <2>1, <2>2, <2>4
  <2>6. attempt' \in Nat /\ attempt' <= HeartBeat!MaxTries(calling)
    BY <1>1, <1>2, <2>2
  <2>7. \A v : HeartBeat!Result(calling, reply, v) \in HeartBeat!Results \ {"none"}
    BY DEF HeartBeat!Result, HeartBeat!Results
  <2>8. told' \in HeartBeat!Results
    BY <2>1, <2>7 DEF HeartBeat!Results
  <2>9. told' = "none" => attempt' < HeartBeat!MaxTries(calling)
    BY <2>1, <2>2, <2>7 DEF HeartBeat!After
  <2>10. attempt' \in 0..MaxAttempts /\ carriedOut' \in 0..MaxAttempts
    BY <1>1, <2>5, <2>6
  <2>11. HeartBeat!TypeOK'
    BY <1>2, <2>2, <2>3, <2>8, <2>10 DEF HeartBeat!TypeOK
  <2> QED
    BY <2>2, <2>5, <2>9, <2>11 DEF CallTyped
<1>5. CASE HeartBeat!Done
  <2>1. unclear' \in BOOLEAN
    BY <1>5, Zenon DEF HeartBeat!Done
  <2>2. /\ calling' = HeartBeat!NoOp /\ attempt' = 0 /\ told' = "none" /\ carriedOut' = 0
        /\ attempt' \in 0..MaxAttempts /\ carriedOut' \in 0..MaxAttempts /\ carriedOut' <= attempt'
    BY <1>1, <1>5 DEF HeartBeat!Done
  <2>3. told' \in HeartBeat!Results
    BY <2>2 DEF HeartBeat!Results
  <2>4. HeartBeat!TypeOK'
    BY <2>1, <2>2, <2>3 DEF HeartBeat!TypeOK
  <2> QED
    BY <2>2, <2>4 DEF CallTyped
<1>6. CASE UNCHANGED HeartBeat!vars
  BY <1>6 DEF HeartBeat!vars, CallTyped, HeartBeat!TypeOK
<1> QED
  BY <1>3, <1>4, <1>5, <1>6 DEF HeartBeat!Next

\* The cache of introspections has at most one entry of a token and no more
\* entries than it may.
OneEach(s) == \A i, j \in 1..Len(s) : s[i].jti = s[j].jti => i = j

TokenBounds ==
    /\ now \in 0..MaxNow /\ revokedAt \in [UserTokens -> 0..(MaxNow + 1)]
    /\ Len(tokenCache) <= CacheSize /\ OneEach(tokenCache)

\* The places of two sequences put together.
LEMMA Together ==
    ASSUME NEW S, NEW a \in Seq(S), NEW b \in Seq(S)
    PROVE  /\ a \o b \in Seq(S) /\ Len(a \o b) = Len(a) + Len(b)
           /\ \A k \in 1..Len(a) : (a \o b)[k] = a[k]
           /\ \A k \in 1..Len(b) : (a \o b)[Len(a) + k] = b[k]
OBVIOUS

\* What is left of a sequence without one of its places.
LEMMA RestOf ==
    ASSUME NEW S, NEW s \in Seq(S), NEW i \in 1..Len(s)
    PROVE  LET r == SubSeq(s, 1, i - 1) \o SubSeq(s, i + 1, Len(s))
           IN  /\ r \in Seq(S) /\ Len(r) = Len(s) - 1
               /\ \A k \in 1..Len(r) : r[k] = s[IF k < i THEN k ELSE k + 1]
<1> DEFINE a == SubSeq(s, 1, i - 1)
           b == SubSeq(s, i + 1, Len(s))
           r == a \o b
<1>1. a \in Seq(S) /\ b \in Seq(S)
  OBVIOUS
<1>2. Len(a) = i - 1 /\ \A k \in 1..(i - 1) : a[k] = s[k]
  OBVIOUS
<1>3. Len(b) = Len(s) - i /\ \A k \in 1..(Len(s) - i) : b[k] = s[i + k]
  OBVIOUS
<1>4. Len(s) \in Nat /\ i \in Nat /\ 1 <= i /\ i <= Len(s)
  OBVIOUS
<1> HIDE DEF a, b
<1>5. r \in Seq(S) /\ Len(r) = Len(a) + Len(b)
  BY <1>1, Together
<1>6. /\ \A k \in 1..Len(a) : r[k] = a[k]
      /\ \A k \in 1..Len(b) : r[Len(a) + k] = b[k]
  BY <1>1, Together
<1> HIDE DEF r
<1>7. Len(r) = Len(s) - 1
  BY <1>2, <1>3, <1>4, <1>5
<1>8. ASSUME NEW k \in 1..Len(r), k < i PROVE r[k] = s[k]
  <2>1. k \in 1..(i - 1) /\ k \in 1..Len(a)
    BY <1>2, <1>4, <1>7, <1>8
  <2> QED
    BY <1>2, <1>6, <2>1
<1>9. ASSUME NEW k \in 1..Len(r), ~(k < i) PROVE r[k] = s[k + 1]
  <2> DEFINE m == k - (i - 1)
  <2>1. m \in 1..(Len(s) - i) /\ m \in 1..Len(b) /\ Len(a) + m = k /\ i + m = k + 1
    BY <1>2, <1>3, <1>4, <1>7, <1>9
  <2> HIDE DEF m
  <2>2. r[Len(a) + m] = b[m] /\ b[m] = s[i + m]
    BY <1>3, <1>6, <2>1
  <2> QED
    BY <2>1, <2>2
<1>10. r \in Seq(S) /\ Len(r) = Len(s) - 1 /\ \A k \in 1..Len(r) : r[k] = s[IF k < i THEN k ELSE k + 1]
  BY <1>5, <1>7, <1>8, <1>9
<1> QED
  BY <1>10, Zenon DEF r, a, b

LEMMA TakesOne ==
    ASSUME NEW S, tokenCache \in Seq(S), OneEach(tokenCache), NEW t, NEW r, r = Tok!Without(t)
    PROVE  /\ r \in Seq(S) /\ OneEach(r) /\ \A k \in 1..Len(r) : r[k].jti # t
           /\ Len(r) = IF Tok!Hits(t) = {} THEN Len(tokenCache) ELSE Len(tokenCache) - 1
<1>1. CASE Tok!Hits(t) = {}
  BY <1>1 DEF Tok!Without, Tok!Hits
<1>2. CASE Tok!Hits(t) # {}
  <2> DEFINE i == Tok!Place(t)
  <2>1. i \in 1..Len(tokenCache) /\ tokenCache[i].jti = t
    BY <1>2, LooksUp DEF Tok!EntryOf
  <2>2. r = SubSeq(tokenCache, 1, i - 1) \o SubSeq(tokenCache, i + 1, Len(tokenCache))
    BY <1>2, Zenon DEF Tok!Without, Tok!RemoveAt
  <2> HIDE DEF i
  <2>3. /\ r \in Seq(S) /\ Len(r) = Len(tokenCache) - 1
        /\ \A k \in 1..Len(r) : r[k] = tokenCache[IF k < i THEN k ELSE k + 1]
    BY <2>1, <2>2, RestOf, Zenon
  <2>4. Len(tokenCache) \in Nat
    OBVIOUS
  <2>5. \A k \in 1..Len(r) : /\ (IF k < i THEN k ELSE k + 1) \in 1..Len(tokenCache)
                             /\ (IF k < i THEN k ELSE k + 1) # i
    BY <2>1, <2>3, <2>4
  <2>6. \A j, k \in 1..Len(r) : (IF j < i THEN j ELSE j + 1) = (IF k < i THEN k ELSE k + 1) => j = k
    BY <2>1, <2>3, <2>4
  <2>7. OneEach(r)
    BY <2>3, <2>5, <2>6 DEF OneEach
  <2>8. \A k \in 1..Len(r) : r[k].jti # t
    BY <2>1, <2>3, <2>5 DEF OneEach
  <2> QED
    BY <1>2, <2>3, <2>7, <2>8
<1> QED
  BY <1>1, <1>2

LEMMA AddsOne ==
    ASSUME NEW S, NEW r \in Seq(S), NEW e \in S, OneEach(r), \A k \in 1..Len(r) : r[k].jti # e.jti
    PROVE  /\ OneEach(Append(r, e)) /\ Len(Append(r, e)) = Len(r) + 1 /\ Append(r, e) \in Seq(S)
           /\ OneEach(Tail(Append(r, e))) /\ Len(Tail(Append(r, e))) = Len(r)
<1> DEFINE all == Append(r, e)
<1>1. /\ all \in Seq(S) /\ Len(all) = Len(r) + 1 /\ Len(r) \in Nat
      /\ \A k \in 1..Len(r) : all[k] = r[k]
      /\ all[Len(r) + 1] = e
  OBVIOUS
<1> HIDE DEF all
<1>2. \A k \in 1..Len(all) : k \in 1..Len(r) \/ k = Len(r) + 1
  BY <1>1
<1>3. OneEach(all)
  <2> SUFFICES ASSUME NEW i \in 1..Len(all), NEW j \in 1..Len(all), all[i].jti = all[j].jti PROVE i = j
    BY DEF OneEach
  <2>1. CASE i \in 1..Len(r) /\ j \in 1..Len(r)
    BY <1>1, <2>1 DEF OneEach
  <2>2. CASE i = Len(r) + 1 \/ j = Len(r) + 1
    BY <1>1, <1>2, <2>2
  <2> QED
    BY <1>2, <2>1, <2>2
<1>4. Len(Tail(all)) = Len(r) /\ \A k \in 1..Len(r) : Tail(all)[k] = all[k + 1]
  BY <1>1
<1>5. OneEach(Tail(all))
  <2> DEFINE t == Tail(all)
  <2>1. Len(t) = Len(r) /\ \A k \in 1..Len(r) : t[k] = all[k + 1]
    BY <1>4
  <2> HIDE DEF t
  <2>2. ASSUME NEW i \in 1..Len(t), NEW j \in 1..Len(t), t[i].jti = t[j].jti PROVE i = j
    <3>1. /\ i + 1 \in 1..Len(all) /\ j + 1 \in 1..Len(all)
          /\ all[i + 1].jti = all[j + 1].jti
      BY <1>1, <2>1, <2>2
    <3>2. i + 1 = j + 1
      BY <1>3, <3>1 DEF OneEach
    <3> QED
      BY <1>1, <2>1, <3>2
  <2> QED
    BY <2>2, Zenon DEF OneEach, t
<1> QED
  BY <1>1, <1>3, <1>4, <1>5 DEF all

LEMMA PutsOne ==
    ASSUME Tok!LegalConstants, TokenInv, TokenBounds, NEW t, NEW active
    PROVE  OneEach(Tok!Put(t, active)) /\ Len(Tok!Put(t, active)) <= CacheSize
<1> DEFINE r   == Tok!Without(t)
           e   == [jti |-> t, active |-> active, until |-> now + TokenTTL]
           S   == Entry \cup {e}
           all == Append(r, e)
<1>1. tokenCache \in Seq(S)
  BY SeqWidens DEF TokenInv
<1>2. r \in Seq(S) /\ OneEach(r) /\ (\A k \in 1..Len(r) : r[k].jti # t) /\ Len(r) <= Len(tokenCache)
  <2> HIDE DEF S, e
  <2>1. /\ r \in Seq(S) /\ OneEach(r) /\ (\A k \in 1..Len(r) : r[k].jti # t)
        /\ Len(r) = IF Tok!Hits(t) = {} THEN Len(tokenCache) ELSE Len(tokenCache) - 1
    BY <1>1, TakesOne DEF TokenBounds
  <2> HIDE DEF r
  <2>2. Len(tokenCache) \in Nat
    BY <1>1
  <2> QED
    BY <2>1, <2>2
<1>3. e \in S /\ e.jti = t
  OBVIOUS
<1> HIDE DEF r, e, S
<1>4. /\ OneEach(all) /\ Len(all) = Len(r) + 1 /\ OneEach(Tail(all)) /\ Len(Tail(all)) = Len(r)
      /\ Len(r) \in Nat
  BY <1>2, <1>3, AddsOne
<1>5. Len(tokenCache) \in Nat /\ CacheSize \in Nat /\ Len(tokenCache) <= CacheSize
  BY <1>1 DEF TokenBounds, Tok!LegalConstants
<1>6. Tok!Put(t, active) = IF Len(all) > CacheSize THEN Tail(all) ELSE all
  BY DEF Tok!Put, r, e
<1> HIDE DEF all
<1> QED
  BY <1>2, <1>4, <1>5, <1>6

LEMMA TouchesOne ==
    ASSUME TokenInv, TokenBounds, Tok!LegalConstants, NEW t, Tok!Hits(t) # {}
    PROVE  OneEach(Tok!Touched(t)) /\ Len(Tok!Touched(t)) <= CacheSize
<1> DEFINE r == Tok!Without(t)
<1>1. tokenCache \in Seq(Entry) /\ Len(tokenCache) \in Nat
  BY DEF TokenInv
<1>2. Tok!EntryOf(t) \in Entry /\ Tok!EntryOf(t).jti = t
  BY <1>1, LooksUp
<1>3. r \in Seq(Entry) /\ OneEach(r) /\ (\A k \in 1..Len(r) : r[k].jti # t) /\ Len(r) = Len(tokenCache) - 1
  BY <1>1, TakesOne DEF TokenBounds
<1> HIDE DEF r
<1>4. OneEach(Append(r, Tok!EntryOf(t))) /\ Len(Append(r, Tok!EntryOf(t))) = Len(r) + 1
  BY <1>2, <1>3, AddsOne
<1> QED
  BY <1>1, <1>3, <1>4 DEF Tok!Touched, r, TokenBounds

LEMMA TokenBounded ==
    ASSUME Tok!LegalConstants, TokenInv, TokenBounds, [Tok!Next]_(Tok!vars) PROVE TokenBounds'
<1>1. now \in 0..MaxNow /\ MaxNow \in Nat /\ tokenCache \in Seq(Entry) /\ Len(tokenCache) \in Nat
  BY DEF TokenInv, TokenBounds, Tok!LegalConstants
<1>2. CASE Tok!Tick
  BY <1>1, <1>2 DEF Tok!Tick, TokenBounds
<1>3. CASE Tok!Revoke
  BY <1>1, <1>3 DEF Tok!Revoke, TokenBounds
<1>4. ASSUME NEW r \in Requests, Tok!Receive(r) PROVE TokenBounds'
  <2>1. UNCHANGED <<now, revokedAt>>
    BY <1>4 DEF Tok!Receive
  <2>2. \/ tokenCache' = tokenCache
        \/ \E t \in UserTokens : tokenCache' = Tok!Without(t)
        \/ \E t \in UserTokens : Tok!Hits(t) # {} /\ tokenCache' = Tok!Touched(t)
    BY <1>4 DEF Tok!Receive, Tok!Fresh
  <2>3. OneEach(tokenCache') /\ Len(tokenCache') <= CacheSize
    <3>1. CASE \E t \in UserTokens : tokenCache' = Tok!Without(t)
      <4>1. PICK t \in UserTokens : tokenCache' = Tok!Without(t)
        BY <3>1
      <4>2. /\ OneEach(tokenCache')
            /\ Len(tokenCache') = IF Tok!Hits(t) = {} THEN Len(tokenCache) ELSE Len(tokenCache) - 1
        BY <1>1, <4>1, TakesOne DEF TokenBounds
      <4> QED
        BY <1>1, <4>2 DEF TokenBounds, Tok!LegalConstants
    <3> QED
      BY <2>2, <3>1, TouchesOne DEF TokenBounds
  <2> QED
    BY <2>1, <2>3 DEF TokenBounds
<1>5. ASSUME NEW r \in Requests, Tok!Land(r) PROVE TokenBounds'
  <2>1. UNCHANGED <<now, revokedAt>>
    BY <1>5 DEF Tok!Land
  <2>2. tokenCache' = tokenCache \/ tokenCache' = Tok!Put(request[r].token, request[r].seen)
    BY <1>5 DEF Tok!Land
  <2> QED
    BY <2>1, <2>2, PutsOne DEF TokenBounds
<1>6. ASSUME NEW r \in Requests, Tok!Introspect(r) \/ Tok!Fails(r) PROVE TokenBounds'
  BY <1>6 DEF Tok!Introspect, Tok!Fails, TokenBounds
<1>7. CASE UNCHANGED Tok!vars
  BY <1>7 DEF Tok!vars, TokenBounds
<1> QED
  BY <1>2, <1>3, <1>4, <1>5, <1>6, <1>7 DEF Tok!Next
-----------------------------------------------------------------------------
\* Keys are published and retracted within the time that is looked at.
KeyBounds ==
    keyNow \in 1..KeysMaxNow /\ since \in [Kids -> 0..KeySet!Never] /\ until \in [Kids -> 0..KeySet!Never]

LEMMA KeyBounded ==
    ASSUME KeySet!LegalConstants, KeyBounds, [KeySet!Next]_(KeySet!vars) PROVE KeyBounds'
<1>1. KeysMaxNow \in Nat /\ KeySet!Never = KeysMaxNow + 1 /\ keyNow \in 0..KeySet!Never
  BY DEF KeySet!LegalConstants, KeySet!Never, KeyBounds
<1>2. CASE KeySet!Publish
  <2>1. PICK k \in Kids : since' = [since EXCEPT ![k] = keyNow] /\ UNCHANGED <<keyNow, until>>
    BY <1>2 DEF KeySet!Publish
  <2> QED
    BY <1>1, <2>1 DEF KeyBounds, KeySet!Never
<1>3. CASE KeySet!Retract
  <2>1. PICK k \in Kids : until' = [until EXCEPT ![k] = keyNow] /\ UNCHANGED <<keyNow, since>>
    BY <1>3 DEF KeySet!Retract, KeySet!Published
  <2> QED
    BY <1>1, <2>1 DEF KeyBounds, KeySet!Never
<1>4. CASE KeySet!Tick
  <2>1. keyNow < KeysMaxNow /\ keyNow' = keyNow + 1 /\ UNCHANGED <<since, until>>
    BY <1>4 DEF KeySet!Tick
  <2> QED
    BY <1>1, <2>1 DEF KeyBounds, KeySet!Never
<1>5. CASE \E r \in Requests : KeySet!Receive(r) \/ KeySet!ReadKeys(r) \/ KeySet!Land(r) \/ KeySet!Fails(r)
  <2>1. UNCHANGED <<keyNow, since, until>>
    BY <1>5 DEF KeySet!Receive, KeySet!ReadKeys, KeySet!Land, KeySet!Fails
  <2> QED
    BY <2>1 DEF KeyBounds, KeySet!Never
<1>6. CASE UNCHANGED KeySet!vars
  BY <1>6 DEF KeySet!vars, KeyBounds, KeySet!Never
<1> QED
  BY <1>2, <1>3, <1>4, <1>5, <1>6 DEF KeySet!Next

\* Whatever is held of the configuration, the modules and the keys was
\* released at some time.
ReleaseBounds ==
    /\ config \in {Nothing} \cup Caches!Known
    /\ \A i \in Caches!Places : loaded[i] \in {Nothing} \cup {Releases[r].modules[i] : r \in Caches!Known}
    /\ keys \in {Nothing} \cup {Releases[r].keys : r \in Caches!Known}
    /\ torn \in BOOLEAN /\ looping \in BOOLEAN
    /\ phase \in {"config", "modules", "serving"}

LEMMA HeldOfARelease ==
    ASSUME ReleaseBounds, NEW new \in Caches!Known, Caches!PutModules(new)
    PROVE  /\ \A i \in Caches!Places :
                 loaded'[i] \in {Nothing} \cup {Releases[r].modules[i] : r \in Caches!Known}
           /\ keys' \in {Nothing} \cup {Releases[r].keys : r \in Caches!Known}
           /\ torn' \in BOOLEAN
<1>1. \A i \in Caches!Places : loaded'[i] = Releases[new].modules[i] \/ loaded'[i] = loaded[i]
  BY DEF Caches!PutModules, Caches!Replaced
<1>2. keys' = Releases[new].keys \/ keys' = keys
  BY DEF Caches!PutModules
<1>3. torn' \in BOOLEAN
  BY Zenon DEF Caches!PutModules
<1> QED
  BY <1>1, <1>2, <1>3, Zenon DEF ReleaseBounds

LEMMA ReleaseBounded ==
    ASSUME Caches!LegalConstants, ReleaseInv, ReleaseBounds, [Caches!Next]_(Caches!vars)
    PROVE  ReleaseBounds'
<1>1. released \in Caches!Known
  BY DEF ReleaseInv
<1>2. CASE Caches!BootConfig
  <2>1. config' \in {released, Nothing} /\ phase' = "modules" /\ UNCHANGED <<loaded, keys, torn, looping>>
    BY <1>2 DEF Caches!BootConfig
  <2> QED
    BY <1>1, <2>1 DEF ReleaseBounds, Caches!Known, Caches!Places
<1>3. CASE Caches!BootModules
  <2>1. Caches!PutModules(released) /\ phase' = "serving" /\ UNCHANGED config
    BY <1>3 DEF Caches!BootModules
  <2>2. looping' \in BOOLEAN
    BY <1>3 DEF Caches!BootModules, Caches!Whole
  <2>3. config' \in {Nothing} \cup Caches!Known
    BY <2>1 DEF ReleaseBounds
  <2> QED
    BY <1>1, <2>1, <2>2, <2>3, HeldOfARelease DEF ReleaseBounds, Caches!Known, Caches!Places
<1>4. ASSUME NEW f \in Fetches, Caches!LandModules(f) PROVE ReleaseBounds'
  <2>1. fetch[f].read \in Caches!Known /\ Caches!PutModules(fetch[f].read)
        /\ UNCHANGED <<config, phase, looping>>
    BY <1>4 DEF Caches!LandModules, ReleaseInv, FetchStates
  <2>2. config' \in {Nothing} \cup Caches!Known /\ looping' \in BOOLEAN
        /\ phase' \in {"config", "modules", "serving"}
    BY <2>1 DEF ReleaseBounds
  <2> QED
    BY <2>1, <2>2, HeldOfARelease DEF ReleaseBounds, Caches!Known, Caches!Places
<1>5. ASSUME NEW f \in Fetches, Caches!LandConfig(f) PROVE ReleaseBounds'
  <2>1. config' \in Caches!Known /\ UNCHANGED <<loaded, keys, torn, phase, looping>>
    BY <1>5 DEF Caches!LandConfig, ReleaseInv, FetchStates
  <2> QED
    BY <2>1 DEF ReleaseBounds, Caches!Known, Caches!Places
<1>6. CASE \/ Caches!Release \/ Caches!BootModulesFails \/ UNCHANGED Caches!vars
           \/ \E f \in Fetches : Caches!Webhook(f) \/ Caches!RefreshModules(f) \/ Caches!Read(f) \/ Caches!Fails(f)
  <2>1. UNCHANGED <<config, loaded, keys, torn, looping>> /\ (phase' = phase \/ phase' = "serving")
    BY <1>6 DEF Caches!Release, Caches!BootModulesFails, Caches!vars, Caches!held, Caches!Webhook,
                Caches!RefreshModules, Caches!Read, Caches!Fails
  <2> QED
    BY <2>1 DEF ReleaseBounds, Caches!Known, Caches!Places
<1> QED
  BY <1>2, <1>3, <1>4, <1>5, <1>6 DEF Caches!Next

\* What is registered with HeartBeat is a content of some record.
BatchBounds == registered \subseteq Contents /\ crashes \in 0..MaxCrashes

LEMMA BatchBounded ==
    ASSUME LegalConstants, BatchInv, BatchBounds, [Next]_vars PROVE BatchBounds'
<1>1. ASSUME NEW b \in Batches, Register(b) PROVE BatchBounds'
  <2>1. Record(b).content \in Contents
    BY <1>1 DEF Register, BatchInv, InHand, InIngest, Key, Keys
  <2> QED
    BY <1>1, <2>1 DEF Register, BatchBounds
<1>2. CASE Crash
  <2>1. crashes < MaxCrashes /\ crashes' = crashes + 1 /\ UNCHANGED registered
    BY <1>2 DEF Crash
  <2> HIDE <1>2
  <2> QED
    BY <2>1 DEF BatchBounds, LegalConstants
<1>3. ASSUME NEW b \in Batches,
             \/ Arrive(b) \/ TakeRecord(b) \/ TakeJunk(b) \/ IngestRefuses(b) \/ Claim(b)
             \/ StoreBlob(b) \/ StoreFails(b) \/ Settle(b) \/ SettleFails(b) \/ MakeCodes(b)
             \/ CodesFail(b) \/ Reply(b)
      PROVE  BatchBounds'
  <2>1. UNCHANGED <<registered, crashes>>
    BY <1>3 DEF Arrive, TakeRecord, TakeJunk, IngestRefuses, Claim, StoreBlob, StoreFails, Settle,
                SettleFails, MakeCodes, CodesFail, Reply, store
  <2> QED
    BY <2>1 DEF BatchBounds
<1>4. CASE UNCHANGED vars
  BY <1>4 DEF vars, store, BatchBounds
<1> QED
  BY <1>1, <1>2, <1>3, <1>4 DEF Next, Step

\* Keys of days that have come expire.
QuotaBounds == expiring \subseteq 1..Days /\ available \in [Relays -> BOOLEAN]

LEMMA QuotaBounded ==
    ASSUME QuotaInv, QuotaBounds, [Quota!Next]_(Quota!vars) PROVE QuotaBounds'
<1>1. ASSUME NEW u \in Uploads, Quota!Expire(u) PROVE QuotaBounds'
  <2>1. upload[u].day \in 1..Days
    BY <1>1 DEF Quota!Expire, QuotaInv, QuotaTyped
  <2>2. expiring' = expiring \cup {upload[u].day} /\ UNCHANGED available
    BY <1>1 DEF Quota!Expire
  <2> QED
    BY <2>1, <2>2 DEF QuotaBounds
<1>2. ASSUME NEW u \in Uploads, Quota!RedisFails(u) PROVE QuotaBounds'
  <2>1. UNCHANGED expiring /\ available' = [available EXCEPT ![upload[u].relay] = FALSE]
    BY <1>2 DEF Quota!RedisFails
  <2> QED
    BY <2>1 DEF QuotaBounds
<1>3. CASE \/ Quota!Midnight \/ UNCHANGED Quota!vars
           \/ \E u \in Uploads : Quota!Begin(u) \/ Quota!Increment(u) \/ Quota!AskHeartBeat(u)
  <2>1. UNCHANGED <<expiring, available>>
    BY <1>3 DEF Quota!Midnight, Quota!vars, Quota!Begin, Quota!Increment, Quota!AskHeartBeat
  <2> QED
    BY <2>1 DEF QuotaBounds
<1> QED
  BY <1>1, <1>2, <1>3 DEF Quota!Next

\* A request is answered with one of the statuses there are, once it is.
Answers == {0, 200, 202} \cup Surface!Refusals \cup Surface!Failures

SurfaceBounds ==
    /\ arrived.answer \in Answers
    /\ down \subseteq Surface!Services /\ failed \subseteq Surface!Services

\* Each step leaves the answer or gives one that there is.
LEMMA AnswersThereAre ==
    ASSUME SurfaceInv, Surface!Next
    PROVE  \/ arrived'.answer = arrived.answer
           \/ arrived'.answer \in Answers
<1>1. /\ \A s : Surface!Goto(s) => arrived'.answer = arrived.answer
      /\ \A a : Surface!Answer(a) => arrived'.answer = a
  BY DEF SurfaceInv, Arrivals, Surface!Goto, Surface!Answer
<1>2. /\ \A e \in DOMAIN Surface!Refusal : Surface!Refusal[e] \in Answers
      /\ \A e \in DOMAIN Surface!Failure : Surface!Failure[e] \in Answers
      /\ 0 \in Answers /\ 200 \in Answers /\ 202 \in Answers
  BY Zenon DEF Answers, Surface!Refusals, Surface!Failures
<1>3. /\ Surface!Refusal.invalid \in Answers /\ Surface!Refusal.unauthenticated \in Answers
      /\ Surface!Refusal.no_artifact \in Answers /\ Surface!Refusal.duplicate_file \in Answers
      /\ Surface!Refusal.already_finalized \in Answers /\ Surface!Refusal.version_drift \in Answers
      /\ Surface!Refusal.unprocessable \in Answers /\ Surface!Refusal.over_limit \in Answers
  BY <1>2 DEF Surface!Refusal
<1>4. /\ Surface!Failure.internal \in Answers /\ Surface!Failure.no_codes \in Answers
      /\ Surface!Failure.auth_upstream \in Answers /\ Surface!Failure.unavailable \in Answers
      /\ Surface!Failure.module_not_loaded \in Answers
  BY <1>2 DEF Surface!Failure
<1> DEFINE Known == arrived'.answer = arrived.answer \/ arrived'.answer \in Answers
<1>5. CASE Surface!Authenticate
  <2>1. Surface!Authenticated(arrived.cred) \subseteq {"pass", "unauthenticated", "auth_upstream", "internal"}
    BY DEF Surface!Authenticated, Surface!ByHmac, Surface!ByKeySet, Surface!ByHeartBeat,
           Surface!Authority
  <2>2. \/ Surface!Goto(Surface!AfterAuthentication)
        \/ Surface!Answer(Surface!Refusal.unauthenticated)
        \/ Surface!Answer(Surface!Failure.auth_upstream)
        \/ Surface!Answer(Surface!Failure.internal)
    <3>1. PICK verdict \in Surface!Authenticated(arrived.cred) :
            CASE verdict = "pass"            -> Surface!Goto(Surface!AfterAuthentication)
              [] verdict = "unauthenticated" -> Surface!Answer(Surface!Refusal.unauthenticated)
              [] verdict = "auth_upstream"   -> Surface!Answer(Surface!Failure.auth_upstream)
              [] verdict = "internal"        -> Surface!Answer(Surface!Failure.internal)
      BY <1>5 DEF Surface!Authenticate
    <3>2. verdict \in {"pass", "unauthenticated", "auth_upstream", "internal"}
      BY <2>1
    <3> QED
      BY <3>1, <3>2
  <2> QED
    BY <1>1, <1>3, <1>4, <2>2
<1>6. CASE Surface!Arrive
  <2>1. PICK route \in Routes, cred \in Credentials, drifted \in BOOLEAN, body \in UNION {Surface!BodiesOf(r) : r \in Routes} :
          arrived' = IF route = "duplicate" /\ body = "garbled"
                     THEN [Surface!None EXCEPT !.route = route, !.at = "over", !.answer = Surface!Refusal.unprocessable]
                     ELSE [route |-> route, cred |-> cred, drifted |-> drifted, body |-> body,
                           at |-> "auth", answer |-> 0]
    BY <1>6 DEF Surface!Arrive
  <2>2. arrived'.answer = Surface!Refusal.unprocessable \/ arrived'.answer = 0
    BY <2>1 DEF Surface!None
  <2> QED
    BY <1>2, <1>3, <2>2
<1>7. CASE Surface!Verify \/ Surface!Guard
  <2>1. \/ \E s \in SurfaceSteppings : Surface!Goto(s)
        \/ Surface!Answer(200) \/ Surface!Answer(Surface!Refusal.unauthenticated)
        \/ Surface!Answer(Surface!Refusal.version_drift)
    BY <1>7 DEF Surface!Verify, Surface!Guard, SurfaceSteppings
  <2> QED
    BY <1>1, <1>2, <1>3, <2>1
<1>8. CASE Surface!ReadBody
  <2>1. Surface!BodyRefusal(arrived.route, arrived.body) \in Answers
    BY <1>2, <1>3 DEF Surface!BodyRefusal
  <2>2. \/ Surface!Goto("handle") \/ Surface!Answer(Surface!Failure.internal)
        \/ Surface!Answer(Surface!BodyRefusal(arrived.route, arrived.body))
    BY <1>8 DEF Surface!ReadBody
  <2> QED
    BY <1>1, <1>4, <2>1, <2>2
<1>9. CASE Surface!Ingest
  <2>1. Surface!IngestAnswers(arrived.body) \subseteq Answers
    BY <1>2, <1>3, <1>4 DEF Surface!IngestAnswers
  <2>2. \/ Surface!Answer(200) \/ Surface!Answer(Surface!Failure.unavailable)
        \/ \E a \in Surface!IngestAnswers(arrived.body) : Surface!Answer(a)
    BY <1>9 DEF Surface!Ingest
  <2> QED
    BY <1>1, <1>2, <1>4, <2>1, <2>2
<1>10. CASE Surface!Finalize \/ Surface!Artifact
  <2>1. \/ Surface!Answer(200) \/ Surface!Answer(202) \/ Surface!Answer(Surface!Refusal.already_finalized)
        \/ Surface!Answer(Surface!Refusal.no_artifact) \/ Surface!Answer(Surface!Failure.unavailable)
    BY <1>10 DEF Surface!Finalize, Surface!Artifact
  <2> QED
    BY <1>1, <1>2, <1>3, <1>4, <2>1
<1>11. CASE \/ Surface!Status \/ Surface!StatusOfCore \/ Surface!Duplicate \/ Surface!DuplicateOfHeartBeat
            \/ Surface!RefreshCaches
  <2>1. Surface!Answer(200) \/ Surface!Goto("heartbeat")
    BY <1>11 DEF Surface!Status, Surface!StatusOfCore, Surface!Duplicate, Surface!DuplicateOfHeartBeat,
                 Surface!RefreshCaches, Surface!SafeAnswer
  <2> QED
    BY <1>1, <1>2, <2>1
<1>12. CASE Surface!Finish \/ Surface!Outage \/ Surface!Repair
  <2>1. arrived' = Surface!None \/ arrived' = arrived
    BY <1>12 DEF Surface!Finish, Surface!Outage, Surface!Repair
  <2> QED
    BY <1>2, <2>1 DEF Surface!None
<1> QED
  BY <1>5, <1>6, <1>7, <1>8, <1>9, <1>10, <1>11, <1>12 DEF Surface!Next

LEMMA SurfaceBounded ==
    ASSUME SurfaceInv, SurfaceBounds, [Surface!Next]_(Surface!vars) PROVE SurfaceBounds'
<1>1. CASE UNCHANGED Surface!vars
  BY <1>1 DEF Surface!vars, SurfaceBounds, Answers
<1>2. CASE Surface!Next
  <2>1. arrived'.answer \in Answers
    BY <1>2, AnswersThereAre DEF SurfaceBounds
  <2>2. down' \subseteq Surface!Services
    <3>1. \/ down' = down \/ \E s \in Surface!Services : down' = down \cup {s} \/ down' = down \ {s}
      BY <1>2 DEF SurfaceBounds, Surface!Next, Surface!Outage, Surface!Repair, Surface!Arrive, Surface!Authenticate,
                  Surface!Verify, Surface!Guard, Surface!ReadBody, Surface!Ingest, Surface!Finalize,
                  Surface!Status, Surface!StatusOfCore, Surface!Duplicate, Surface!DuplicateOfHeartBeat,
                  Surface!Artifact, Surface!RefreshCaches, Surface!Finish
    <3> QED
      BY <3>1 DEF SurfaceBounds
  <2>3. failed' \subseteq Surface!Services
    <3>1. \/ failed' = {} \/ failed' \subseteq failed \cup down \cup Surface!Services
      BY <1>2 DEF Surface!Next, Surface!Outage, Surface!Repair, Surface!Arrive, Surface!Authenticate,
                  Surface!Verify, Surface!Guard, Surface!ReadBody, Surface!Ingest, Surface!Finalize,
                  Surface!Status, Surface!StatusOfCore, Surface!Duplicate, Surface!DuplicateOfHeartBeat,
                  Surface!Artifact, Surface!RefreshCaches, Surface!Finish, Surface!Services
    <3> QED
      BY <3>1 DEF SurfaceBounds
  <2> QED
    BY <2>1, <2>2, <2>3 DEF SurfaceBounds, Answers
<1> QED
  BY <1>1, <1>2

-----------------------------------------------------------------------------
Bounds ==
    /\ FinalizeBounds /\ CallTyped /\ TokenBounds /\ KeyBounds
    /\ ReleaseBounds /\ BatchBounds /\ QuotaBounds /\ SurfaceBounds

Invariants ==
    /\ FinalizeInv /\ TokenInv /\ KeyInv /\ ReleaseInv /\ BatchInv /\ QuotaInv /\ SurfaceInv

LEMMA BoundsBegin == RelayInit => Bounds
<1> SUFFICES ASSUME RelayInit PROVE Bounds
  OBVIOUS
<1>1. FinalizeBounds
  <2>1. /\ \A c \in Calls : finalizing[c] = Fin!New
        /\ triggered = {} /\ restarts = 0
    BY DEF RelayInit, Fin!Init
  <2>2. Fin!New.tries = 0 /\ Fin!New.at = "new"
    BY DEF Fin!New
  <2>3. MaxAttempts \in Nat /\ MaxRestarts \in Nat
    BY RelayConstants DEF Fin!LegalConstants
  <2> QED
    BY <2>1, <2>2, <2>3 DEF FinalizeBounds
<1>2. CallTyped
  <2>1. calling = HeartBeat!NoOp /\ attempt = 0 /\ told = "none" /\ carriedOut = 0 /\ unclear = FALSE
    BY DEF RelayInit, HeartBeat!Init
  <2>2. 0 \in 0..MaxAttempts /\ 0 <= 0
    BY RelayConstants DEF HeartBeat!LegalConstants
  <2>3. HeartBeat!TypeOK
    BY <2>1, <2>2 DEF HeartBeat!TypeOK, HeartBeat!Results
  <2> QED
    BY <2>1, <2>2, <2>3, Zenon DEF CallTyped
<1>3. TokenBounds
  BY RelayConstants DEF RelayInit, Tok!Init, Tok!Never, TokenBounds, OneEach, Tok!LegalConstants
<1>4. KeyBounds
  BY RelayConstants DEF RelayInit, KeySet!Init, KeySet!Never, KeyBounds, KeySet!LegalConstants
<1>5. ReleaseBounds
  BY DEF RelayInit, Caches!Init, ReleaseBounds
<1>6. BatchBounds
  BY RelayConstants DEF RelayInit, Init, BatchBounds, LegalConstants
<1>7. QuotaBounds
  BY DEF RelayInit, Quota!Init, QuotaBounds
<1>8. SurfaceBounds
  BY DEF RelayInit, Surface!Init, Surface!None, SurfaceBounds, Answers
<1> QED
  BY <1>1, <1>2, <1>3, <1>4, <1>5, <1>6, <1>7, <1>8 DEF Bounds

LEMMA TypesFollow == ASSUME Invariants, Bounds PROVE TypesOK
<1>1. Fin!TypeOK
  BY DEF Invariants, Bounds, FinalizeInv, FinalizeTyped, FinalizeCall, FinalizeBounds, Fin!TypeOK
<1>2. HeartBeat!TypeOK
  BY DEF Bounds, CallTyped
<1>3. Tok!TypeOK
  BY DEF Invariants, Bounds, TokenInv, TokenCall, TokenBounds, OneEach, Tok!TypeOK, Tok!Never
<1>4. KeySet!TypeOK
  <2>1. KeyInv /\ KeyBounds
    BY DEF Invariants, Bounds
  <2>2. /\ keySet \subseteq Kids /\ fetchedAt \in Nat /\ fetchedAt <= keyNow
        /\ failedAt \in Nat /\ failedAt <= keyNow /\ keyNow \in Nat /\ keyNow <= KeysMaxNow
    BY <2>1 DEF KeyInv, ClockKept, CacheKept
  <2>3. fetchedAt \in 0..KeysMaxNow /\ failedAt \in 0..KeysMaxNow
    BY <2>2, RelayConstants DEF KeySet!LegalConstants
  <2>4. \A r \in Requests : keyRequest[r] \in KeyCall
    BY <2>1 DEF KeyInv, KeyKept
  <2>5. \A r \in Requests :
          /\ keyRequest[r].at \in {"idle", "asked", "answered", "over"}
          /\ keyRequest[r].kind \in {"none", "service", "webhook"}
          /\ keyRequest[r].answer \in {"none", "accepted", "unknown_key"}
    BY <2>4 DEF KeyCall
  <2> QED
    BY <2>1, <2>2, <2>3, <2>5 DEF KeyBounds, KeySet!TypeOK
<1>5. Quota!TypeOK
  BY DEF Invariants, Bounds, QuotaInv, QuotaTyped, QuotaCall, QuotaBounds, Quota!TypeOK
<1>6. Caches!TypeOK
  BY RelayConstants DEF Invariants, Bounds, ReleaseInv, FetchStates, ReleaseBounds, Caches!TypeOK,
     Caches!Known, Caches!LegalConstants
<1>7. TypeOK
  <2>1. ASSUME NEW b \in Batches
        PROVE  /\ batch[b].at \in Steps /\ batch[b].tenant \in Tenants \cup {"none"}
               /\ \A i \in 1..Len(batch[b].verdicts) :
                     batch[b].verdicts[i].as \in {"processed", "duplicate", "failed"}
    <3>1. /\ batch[b].at \in Steps /\ batch[b].tenant \in Tenants \cup {"none"}
          /\ batch[b].verdicts \in Seq(Verdicts)
      BY DEF Invariants, BatchInv, BatchTyped, BatchState
    <3>2. \A i \in 1..Len(batch[b].verdicts) : batch[b].verdicts[i] \in Verdicts
      BY <3>1
    <3> QED
      BY <3>1, <3>2 DEF Verdicts
  <2> QED
    BY <2>1 DEF Invariants, Bounds, BatchInv, BatchTyped, BatchBounds, TypeOK, Steps
<1>8. Surface!TypeOK
  BY DEF Invariants, Bounds, SurfaceInv, Arrivals, SurfaceSteppings, SurfaceBounds, Answers,
     Surface!TypeOK
<1> QED
  BY <1>1, <1>2, <1>3, <1>4, <1>5, <1>6, <1>7, <1>8 DEF TypesOK

\* Every component keeps its types: a call is never tried more often than it
\* may be, the cache of introspections holds one entry of a token and no
\* more than fit, and every answer, verdict and held release is one there is
\* (BaseClient, IntrospectClient, TransformaModuleCache, errors.py).
THEOREM ServicesKeepTypes == RelaySpec => []TypesOK
<1> DEFINE Inv == Invariants /\ Bounds
<1>1. RelayInit => Inv
  <2>1. RelayInit => Invariants
    BY RelayConstants, FinalizeInit, TokenBegins, KeysBegin, ReleaseBegins, BatchInit, QuotaBegins,
       SurfaceBegins DEF RelayInit, Invariants
  <2> QED
    BY <2>1, BoundsBegin
<1>2. Inv /\ [RelayNext]_relayVars => Inv'
  <2> SUFFICES ASSUME Inv, [RelayNext]_relayVars PROVE Inv'
    OBVIOUS
  <2>1. Invariants'
    BY RelayConstants, EachSteps, FinalizeSteps, TokenSteps, KeySteps, ReleaseSteps, BatchSteps, QuotaSteps,
       SurfaceSteps DEF Invariants
  <2>2. Bounds'
    BY RelayConstants, EachSteps, FinalizeBounded, CallBounded, TokenBounded, KeyBounded, ReleaseBounded,
       BatchBounded, QuotaBounded, SurfaceBounded DEF Invariants, Bounds
  <2> QED
    BY <2>1, <2>2
<1>3. Inv => TypesOK
  BY TypesFollow
<1> QED
  BY <1>1, <1>2, <1>3, PTL DEF RelaySpec
=============================================================================
