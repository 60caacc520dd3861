--------------------------- MODULE RelayServices ----------------------------
(***************************************************************************)
(* The components of the relay around its ingestion pipeline, side by      *)
(* side.  They share no state: what one tells another is an input of that  *)
(* one in its own module.  So their interleavings add nothing, and each    *)
(* behaviour here runs a single component, the one in focus, while the     *)
(* others stay as they begin.                                              *)
(***************************************************************************)
EXTENDS RelayBatch

CONSTANTS
    Calls, Bodies, TriggerReplies, MaxAttempts, MaxRestarts,   \* RelayFinalize
    Operations,                                                \* HeartBeatCalls
    Requests, Flight,                                          \* the caches of identity:
    UserTokens, NoJti, TokenTTL, CacheSize, MaxNow,            \* TokenCache
    Kids, FirstKeys, KeysTTL, KeysMaxNow,                      \* KeyCache
    Uploads, Relays, Sizes, Limit, Days,                       \* RelayQuota
    Releases, Broken, Fetches, Nothing,                        \* RelayCaches
    Routes, Credentials, KeysKnown, ServiceTokens              \* RelayRequest

VARIABLES
    focus,
    finalizing, anchors, triggered, restarts,
    calling, attempt, told, carriedOut, unclear,
    now, request, revokedAt, tokenCache,
    keyNow, keyRequest, since, until, keySet, fetchedAt, failedAt,
    upload, counter, expiring, available, today,
    released, fetch, config, loaded, keys, torn, phase, looping,
    arrived, down, failed

-----------------------------------------------------------------------------
(* The instances.                                                          *)

Fin       == INSTANCE RelayFinalize
HeartBeat == INSTANCE HeartBeatCalls
Tok       == INSTANCE TokenCache WITH Tokens <- UserTokens
KeySet    == INSTANCE KeyCache WITH
    now <- keyNow, request <- keyRequest, keys <- keySet, MaxNow <- KeysMaxNow
Quota     == INSTANCE RelayQuota
Caches    == INSTANCE RelayCaches
Surface   == INSTANCE RelayRequest WITH request <- arrived

\* What the proofs assume of the constants.
ASSUME RelayConstants ==
    /\ Fin!LegalConstants /\ HeartBeat!LegalConstants /\ LegalConstants
    /\ Tok!LegalConstants /\ KeySet!LegalConstants /\ Quota!LegalConstants /\ Caches!LegalConstants

-----------------------------------------------------------------------------
Components == {"finalize", "heartbeat", "tokens", "keys", "quota", "caches", "batch", "surface"}

RelayInit ==
    /\ focus \in Components
    /\ Fin!Init /\ HeartBeat!Init /\ Tok!Init /\ KeySet!Init
    /\ Quota!Init /\ Caches!Init /\ Init /\ Surface!Init
    /\ focus # "quota" => available = [p \in Relays |-> TRUE]

finalizeVars  == <<finalizing, anchors, triggered, restarts>>
heartBeatVars == <<calling, attempt, told, carriedOut, unclear>>
tokenVars     == <<now, request, revokedAt, tokenCache>>
keyVars       == <<keyNow, keyRequest, since, until, keySet, fetchedAt, failedAt>>
quotaVars     == <<upload, counter, expiring, available, today>>
cacheVars     == <<released, fetch, config, loaded, keys, torn, phase, looping>>
surfaceVars   == <<arrived, down, failed>>

\* One action per component; the others keep still.
Finalizing ==
    /\ focus = "finalize" /\ Fin!Next
    /\ UNCHANGED <<heartBeatVars, tokenVars, keyVars, quotaVars, cacheVars, vars, surfaceVars>>
Calling ==
    /\ focus = "heartbeat" /\ HeartBeat!Next
    /\ UNCHANGED <<finalizeVars, tokenVars, keyVars, quotaVars, cacheVars, vars, surfaceVars>>
Introspects ==
    /\ focus = "tokens" /\ Tok!Next
    /\ UNCHANGED <<finalizeVars, heartBeatVars, keyVars, quotaVars, cacheVars, vars, surfaceVars>>
LooksUpKeys ==
    /\ focus = "keys" /\ KeySet!Next
    /\ UNCHANGED <<finalizeVars, heartBeatVars, tokenVars, quotaVars, cacheVars, vars, surfaceVars>>
Counting ==
    /\ focus = "quota" /\ Quota!Next
    /\ UNCHANGED <<finalizeVars, heartBeatVars, tokenVars, keyVars, cacheVars, vars, surfaceVars>>
Refreshing ==
    /\ focus = "caches" /\ Caches!Next
    /\ UNCHANGED <<finalizeVars, heartBeatVars, tokenVars, keyVars, quotaVars, vars, surfaceVars>>
Batching ==
    /\ focus = "batch" /\ Next
    /\ UNCHANGED <<finalizeVars, heartBeatVars, tokenVars, keyVars, quotaVars, cacheVars, surfaceVars>>
Serving ==
    /\ focus = "surface" /\ Surface!Next
    /\ UNCHANGED <<finalizeVars, heartBeatVars, tokenVars, keyVars, quotaVars, cacheVars, vars>>

RelayNext ==
    /\ \/ Finalizing \/ Calling \/ Introspects \/ LooksUpKeys
       \/ Counting \/ Refreshing \/ Batching \/ Serving
    /\ UNCHANGED focus

relayVars == <<focus, finalizeVars, heartBeatVars, tokenVars, keyVars, quotaVars, cacheVars,
               vars, surfaceVars>>

RelaySpec == RelayInit /\ [][RelayNext]_relayVars

-----------------------------------------------------------------------------
(* What is checked, by its name in the component's module.                 *)

\* Every component keeps its types: each cache entry, ledger row, counter
\* and answer is one its code knows.
TypesOK ==
    /\ focus = "finalize"  => Fin!TypeOK
    /\ focus = "heartbeat" => HeartBeat!TypeOK
    /\ focus = "tokens"    => Tok!TypeOK
    /\ focus = "keys"      => KeySet!TypeOK
    /\ focus = "quota"     => Quota!TypeOK
    /\ focus = "caches"    => Caches!TypeOK
    /\ focus = "batch"     => TypeOK
    /\ focus = "surface"   => Surface!TypeOK

\* A call that repeats an answered one stops at the relay, and is told which
\* one it repeats (FinalizeService).
DuplicatesStopHere ==
    Fin!DuplicatesStopHere /\ Fin!ConflictNamesAnAnswer
\* Retries blur nothing that was clear (BaseClient, HeartBeatClient).
OnlySilenceIsAmbiguous == HeartBeat!OnlySilenceIsAmbiguous
\* Caches keep up with what they cache: a revoked token and a retracted key
\* are refused, and a newly published key found, in bounded time
\* (IntrospectClient, JWKSCache); codes and keys are of one release
\* (TransformaModuleCache).
CachesKeepUp ==
    /\ Tok!RevokedTokenDiesOut
    /\ KeySet!PublishedKeyFound /\ KeySet!RetractedKeyDiesOut
    /\ Caches!OneRelease
\* What Redis lets pass is within the limit (RedisClient).
QuotaNotOverdrawn == Quota!QuotaNotOverdrawn
\* Answers stand: a batch's has a true verdict on each record, and lookups
\* answer whatever is down (BatchExternalService, StatusService).
AnswersStand == AnswerCoversBatch /\ Surface!LookupsSurviveOutages
=============================================================================
