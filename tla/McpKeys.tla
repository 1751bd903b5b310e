------------------------------- MODULE McpKeys -------------------------------
(***************************************************************************)
(* MCP keys: rows of DTabela (class -472), a copy of each accepted key in  *)
(* Redis for some seconds, and the requests that validate or revoke them.  *)
(* A validation caches what it read some time earlier and, later still,    *)
(* writes the whole of dados back to stamp lastUsedAt.                     *)
(***************************************************************************)
CONSTANTS
    McpKeys,        \* keys that may be generated
    NoKey,
    KeyCalls        \* requests and touches of rows under way at the same time

ASSUME KeyAssumption == NoKey \notin McpKeys

VARIABLES
    keyState,       \* "unborn", "live" or "dead" (excluido) for each key
    disabled,       \* keys whose dados say disabled
    payloads,       \* keys that Redis holds a payload for
    keyCall,        \* the calls
    ended,          \* auxiliary: keys whose revocation returned
    excused         \* auxiliary: keys that Redis may hold a payload for though ended

keyVars == <<keyState, disabled, payloads, keyCall, ended, excused>>

\* cache: a check read the row and is to fill the cache; touch: it is to stamp the row;
\* update, uncache: a revocation is to write the row, and then to delete the payload.
KeyCall == [pc: {"idle", "cache", "touch", "update", "uncache"}, key: McpKeys \cup {NoKey}]
NoKeyCall == [pc |-> "idle", key |-> NoKey]

KeysTypeOK ==
    /\ keyState \in [McpKeys -> {"unborn", "live", "dead"}]
    /\ disabled \subseteq McpKeys
    /\ payloads \subseteq McpKeys
    /\ keyCall \in [KeyCalls -> KeyCall]
    /\ ended \subseteq McpKeys
    /\ excused \subseteq McpKeys

KeysInit ==
    /\ keyState = [k \in McpKeys |-> "unborn"]
    /\ disabled = {} /\ payloads = {} /\ ended = {} /\ excused = {}
    /\ keyCall = [c \in KeyCalls |-> NoKeyCall]

-----------------------------------------------------------------------------

\* A check that read the row of k is still to fill the cache.
Filling(k) == \E c \in KeyCalls : keyCall[c].pc = "cache" /\ keyCall[c].key = k

\* What the query and the test of validatePlaintext accept; and the query alone of the
\* older guard of X-MCP-Key, which has no cache.
Acceptable(k) == keyState[k] = "live" /\ k \notin disabled
HeaderAccepts(k) == keyState[k] = "live"
BearerAccepts(k) == k \in payloads \/ Acceptable(k)

\* McpKeyService.generate: one INSERT.
GenerateKey ==
    \E k \in McpKeys :
        /\ keyState[k] = "unborn"
        /\ keyState' = [keyState EXCEPT ![k] = "live"]
        /\ UNCHANGED <<disabled, payloads, keyCall, ended, excused>>

\* validatePlaintext: a payload in Redis is accepted and nothing changes; without it, or
\* when Redis does not answer, the row is read.
CheckKey(c) ==
    \E k \in McpKeys :
        /\ keyCall[c].pc = "idle"
        /\ Acceptable(k)
        /\ keyCall' = [keyCall EXCEPT ![c] = [pc |-> "cache", key |-> k]]
        /\ UNCHANGED <<keyState, disabled, payloads, ended, excused>>

\* setCached, whose failure is only logged; the key is accepted.
FillCache(c) ==
    /\ keyCall[c].pc = "cache"
    /\ payloads' \in {payloads, payloads \cup {keyCall[c].key}}
    /\ keyCall' = [keyCall EXCEPT ![c].pc = "touch"]
    /\ UNCHANGED <<keyState, disabled, ended, excused>>

\* touchLastUsedAt, not awaited: dados as the check read it, the flag not set, by chave.
\* It may fail, which is only logged.
Touch(c) ==
    /\ keyCall[c].pc = "touch"
    /\ disabled' \in {disabled, disabled \ {keyCall[c].key}}
    /\ keyCall' = [keyCall EXCEPT ![c] = NoKeyCall]
    /\ UNCHANGED <<keyState, payloads, ended, excused>>

\* McpKeyService.revoke: the read, the UPDATE, and the payload deleted, which may fail.
RevokeKey(c) ==
    \E k \in McpKeys :
        /\ keyCall[c].pc = "idle"
        /\ keyState[k] = "live"
        /\ keyCall' = [keyCall EXCEPT ![c] = [pc |-> "update", key |-> k]]
        /\ UNCHANGED <<keyState, disabled, payloads, ended, excused>>

DisableKey(c) ==
    /\ keyCall[c].pc = "update"
    /\ keyState' = [keyState EXCEPT ![keyCall[c].key] = "dead"]
    /\ disabled' = disabled \cup {keyCall[c].key}
    /\ keyCall' = [keyCall EXCEPT ![c].pc = "uncache"]
    /\ UNCHANGED <<payloads, ended, excused>>

DeleteCache(c) ==
    LET k == keyCall[c].key IN
    /\ keyCall[c].pc = "uncache"
    /\ payloads' \in {payloads, payloads \ {k}}
    /\ ended' = ended \cup {k}
    /\ excused' = excused \cup {m \in {k} : Filling(k) \/ k \in payloads'}
    /\ keyCall' = [keyCall EXCEPT ![c] = NoKeyCall]
    /\ UNCHANGED <<keyState, disabled>>

\* TabelaService.softDelete takes rows of any class and knows nothing of the cache.
DeleteTabela ==
    \E k \in McpKeys :
        /\ keyState[k] = "live"
        /\ keyState' = [keyState EXCEPT ![k] = "dead"]
        /\ ended' = ended \cup {k}
        /\ excused' = excused \cup {m \in {k} : Filling(k) \/ k \in payloads}
        /\ UNCHANGED <<disabled, payloads, keyCall>>

\* MCP_KEY_CACHE_TTL_SECONDS pass.
PayloadExpires ==
    \E k \in payloads :
        /\ payloads' = payloads \ {k}
        /\ excused' = excused \ {m \in {k} : ~Filling(k)}
        /\ UNCHANGED <<keyState, disabled, keyCall, ended>>

KeysNext ==
    \/ \E c \in KeyCalls :
          \/ CheckKey(c) \/ FillCache(c) \/ Touch(c)
          \/ RevokeKey(c) \/ DisableKey(c) \/ DeleteCache(c)
    \/ GenerateKey \/ DeleteTabela \/ PayloadExpires

KeysSpec == KeysInit /\ [][KeysNext]_keyVars

-----------------------------------------------------------------------------
(* Correctness.                                                            *)

\* A key whose revocation returned is refused for good: by the guard of X-MCP-Key at
\* once, and by the MCP server too, unless a check that had read the row was still to
\* fill the cache, or the payload was not deleted; and then until the payload expires
\* (validatePlaintext, revoke).  No later stamp of lastUsedAt revives it.
KeysSound ==
    \A k \in ended : ~HeaderAccepts(k) /\ (k \notin excused => ~BearerAccepts(k))
=============================================================================
