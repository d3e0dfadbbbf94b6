-------------------------------- MODULE McpHost --------------------------------
(***************************************************************************)
(* The MCP host: the sessions that local clients open and end, the caps on *)
(* them, who may end a session, and the operator's tokens with their vault *)
(* on disk.                                                                *)
(*                                                                         *)
(* Each request is an async call; other calls run between two of its       *)
(* awaits.  The grant store (McpServer of the agent runtime) is external:  *)
(* it marks revoked grants and never drops one.  tools/list changes no     *)
(* state and is left out.                                                  *)
(***************************************************************************)
EXTENDS Naturals, FiniteSets

CONSTANTS
    Calls,         \* requests that may be in flight together
    Grants,        \* bound: ids that one run of the application may mint
    Tokens,        \* operator-issued tokens
    None,          \* no token presented: a tokenless client
    Missing,       \* no entry in grant_owners
    NoGrant,       \* a call without a grant id
    Ceiling,       \* max_policy of each token
    MaxPolicy,     \* the rank of Maintainer; ReadOnly is rank 0
    MaxTotal,      \* MAX_TOTAL_GRANTS
    MaxTokenless,  \* MAX_ACTIVE_TOKENLESS_GRANTS
    Storage,       \* built by with_token_storage; the application uses new
    MaxRestarts    \* bound: restarts of the application

ASSUME HostAssumption ==
    /\ IsFiniteSet(Calls) /\ IsFiniteSet(Grants)
    /\ MaxPolicy \in Nat /\ MaxRestarts \in Nat /\ Storage \in BOOLEAN
    /\ MaxTotal \in Nat \ {0} /\ MaxTokenless \in Nat \ {0}
    /\ Ceiling \in [Tokens -> 0 .. MaxPolicy]
    /\ None \notin Tokens /\ Missing \notin Tokens /\ None # Missing
    /\ NoGrant \notin Grants

VARIABLES
    call,      \* call[c]: the request in flight, and where it is
    grants,    \* the agent runtime's grant store
    owners,    \* grant_owners
    tokens,    \* tokens: in memory
    lapsed,    \* tokens whose expires_at has passed
    disk,      \* the tokens the file gives back when it is read
    plain,     \* the file is legacy plaintext
    saving,    \* tokens_file and master_key are there
    restarts,
    \* history
    answered,  \* grants whose initialize has answered
    raced,     \* grants added while another initialize held its live set
    issued,    \* tokens ever created
    unsaved    \* tokens whose revocation did not reach the file

tokenVars == <<tokens, lapsed, disk, plain, saving, issued, unsaved>>
vars == <<call, grants, owners, tokenVars, restarts, answered, raced>>

Callers == Tokens \cup {None}
Policies == 0 .. MaxPolicy
TokenTable == [Tokens -> {"none", "active", "revoked"}]
NoTokens == [k \in Tokens |-> "none"]

GrantType == [state : {"free", "live", "expired", "revoked"},
              by : Callers, policy : Policies]
Free == [state |-> "free", by |-> None, policy |-> 0]

\* `stored' and `open' are the ids, and the unrevoked and unexpired ones, of
\* the snapshot the call holds; `known': its grant was answered when it began.
CallType ==
    [at : {"idle", "lookup", "snapshot", "count", "add", "live", "insert",
           "check", "revoke", "forget"},
     token : Callers, policy : Policies, grant : Grants \cup {NoGrant},
     stored : SUBSET Grants, open : SUBSET Grants, known : BOOLEAN]
Idle == [at |-> "idle", token |-> None, policy |-> 0, grant |-> NoGrant,
         stored |-> {}, open |-> {}, known |-> FALSE]

TypeOK ==
    /\ call \in [Calls -> CallType]
    /\ grants \in [Grants -> GrantType]
    /\ owners \in [Grants -> Callers \cup {Missing}]
    /\ tokens \in TokenTable /\ disk \in TokenTable
    /\ plain \in BOOLEAN /\ saving \in BOOLEAN
    /\ restarts \in 0 .. MaxRestarts
    /\ answered \subseteq Grants /\ raced \subseteq Grants
    /\ lapsed \subseteq Tokens /\ issued \subseteq Tokens
    /\ unsaved \subseteq Tokens

Stored == {g \in Grants : grants[g].state # "free"}
Live == {g \in Grants : grants[g].state = "live"}

\* A host over no tokens, or over a legacy file with one active token.
Init ==
    /\ call = [c \in Calls |-> Idle]
    /\ grants = [g \in Grants |-> Free]
    /\ owners = [g \in Grants |-> Missing]
    /\ lapsed = {} /\ restarts = 0 /\ answered = {} /\ raced = {}
    /\ unsaved = {}
    /\ \/ /\ saving \in {FALSE, Storage} /\ plain = FALSE /\ issued = {}
          /\ disk = NoTokens /\ tokens = NoTokens
       \/ /\ Storage /\ plain \in BOOLEAN /\ saving = ~plain
          /\ \E k \in Tokens : /\ issued = {k}
                               /\ disk = [NoTokens EXCEPT ![k] = "active"]
                               /\ tokens = disk

-----------------------------------------------------------------------------
(* Calls.                                                                  *)

At(c, point) == call[c].at = point
GoTo(c, point) == call' = [call EXCEPT ![c].at = point]
Finish(c) == call' = [call EXCEPT ![c] = Idle]

(* initialize *)

BeginInit(c) ==
    /\ At(c, "idle")
    /\ \E k \in Callers, p \in Policies :
        call' = [call EXCEPT ![c] =
                    [Idle EXCEPT !.at = "lookup", !.token = k, !.policy = p]]
    /\ UNCHANGED <<grants, owners, tokenVars, restarts, answered, raced>>

Usable(k) == k \in Tokens \ lapsed /\ tokens[k] = "active"

\* cap_policy: the more restrictive of the two.
Cap(requested, ceiling) == IF requested <= ceiling THEN requested ELSE ceiling

\* The token, if any, bounds the policy; without one it is ReadOnly.
Lookup(c) ==
    LET k == call[c].token
        p == IF k = None THEN 0 ELSE Cap(call[c].policy, Ceiling[k]) IN
    /\ At(c, "lookup")
    /\ \/ /\ k = None \/ Usable(k)
          /\ call' = [call EXCEPT ![c] = [@ EXCEPT !.at = "snapshot", !.policy = p]]
       \/ \* an unusable token, or a recipient over MAX_RECIPIENT_LEN
          Finish(c)
    /\ UNCHANGED <<grants, owners, tokenVars, restarts, answered, raced>>

SnapshotGrants(c) ==
    /\ At(c, "snapshot")
    /\ call' = [call EXCEPT ![c] =
                   [@ EXCEPT !.at = "count", !.stored = Stored, !.open = Live]]
    /\ UNCHANGED <<grants, owners, tokenVars, restarts, answered, raced>>

\* Mutant: the total is a concern of tokenless clients only.
AdmitTokens(total, tokenless, isTokenless) ==
    isTokenless => total < MaxTotal /\ tokenless < MaxTokenless

\* admit_initialize
Admit(total, tokenless, isTokenless) ==
    /\ total < MaxTotal
    /\ isTokenless => tokenless < MaxTokenless

\* Mutant: the sessions of tokens are counted.
WithToken(ids) == {g \in ids : owners[g] \in Tokens}

\* The sessions on record as tokenless.
Tokenless(ids) == {g \in ids : owners[g] = None}

\* The snapshot against the owners as they are by now.
Count(c) ==
    /\ At(c, "count")
    /\ IF Admit(Cardinality(call[c].stored),
                Cardinality(Tokenless(call[c].open)), call[c].token = None)
       THEN call' = [call EXCEPT ![c] = [@ EXCEPT !.at = "add", !.stored = {},
                                                  !.open = {}]]
       ELSE Finish(c)
    /\ UNCHANGED <<grants, owners, tokenVars, restarts, answered, raced>>

\* The id is fresh, and the grant is in the store before it has an owner.
AddGrant(c) ==
    /\ At(c, "add")
    /\ \E g \in Grants :
        /\ grants[g].state = "free"
        /\ grants' = [grants EXCEPT ![g] = [state |-> "live", by |-> call[c].token,
                                            policy |-> call[c].policy]]
        /\ call' = [call EXCEPT ![c] = [@ EXCEPT !.at = "live", !.grant = g]]
        /\ raced' = IF \E d \in Calls : At(d, "insert") THEN raced \cup {g}
                    ELSE raced
    /\ UNCHANGED <<owners, tokenVars, restarts, answered>>

\* Mutant: the call has no id any more.
SnapshotLiveReset(c) ==
    /\ At(c, "live")
    /\ call' = [call EXCEPT ![c] = [Idle EXCEPT !.at = "insert", !.stored = Stored,
                                                !.token = call[c].token]]
    /\ UNCHANGED <<grants, owners, tokenVars, restarts, answered, raced>>

SnapshotLive(c) ==
    /\ At(c, "live")
    /\ call' = [call EXCEPT ![c] = [@ EXCEPT !.at = "insert", !.stored = Stored]]
    /\ UNCHANGED <<grants, owners, tokenVars, restarts, answered, raced>>

\* Mutant: owners are kept only for unexpired grants.
InsertOwnerReaping(c) ==
    LET id == call[c].grant IN
    /\ At(c, "insert")
    /\ owners' = [g \in Grants |-> IF g = id THEN call[c].token
                                   ELSE IF g \in Live THEN owners[g]
                                   ELSE Missing]
    /\ answered' = answered \cup {id}
    /\ Finish(c)
    /\ UNCHANGED <<grants, tokenVars, restarts, raced>>

\* retain, then insert, and the answer.
InsertOwner(c) ==
    LET id == call[c].grant IN
    /\ At(c, "insert")
    /\ owners' = [g \in Grants |-> IF g = id THEN call[c].token
                                   ELSE IF g \in call[c].stored THEN owners[g]
                                   ELSE Missing]
    /\ answered' = answered \cup {id}
    /\ Finish(c)
    /\ UNCHANGED <<grants, tokenVars, restarts, raced>>

(* session/end *)

BeginEnd(c) ==
    /\ At(c, "idle")
    /\ \E g \in Stored, k \in Callers :
        call' = [call EXCEPT ![c] =
                    [Idle EXCEPT !.at = "check", !.token = k, !.grant = g,
                                 !.known = g \in answered]]
    /\ UNCHANGED <<grants, owners, tokenVars, restarts, answered, raced>>

CheckOwner(c) ==
    /\ At(c, "check")
    /\ IF owners[call[c].grant] \in Tokens \ {call[c].token}
       THEN Finish(c) ELSE GoTo(c, "revoke")
    /\ UNCHANGED <<grants, owners, tokenVars, restarts, answered, raced>>

\* revoke_grant of the store; whether it finds a grant already revoked is open.
Revoke(c) ==
    LET g == call[c].grant IN
    /\ At(c, "revoke")
    /\ grants' = [grants EXCEPT ![g].state = "revoked"]
    /\ \/ GoTo(c, "forget")
       \/ grants[g].state = "revoked" /\ Finish(c)
    /\ UNCHANGED <<owners, tokenVars, restarts, answered, raced>>

Forget(c) ==
    /\ At(c, "forget")
    /\ owners' = [owners EXCEPT ![call[c].grant] = Missing]
    /\ Finish(c)
    /\ UNCHANGED <<grants, tokenVars, restarts, answered, raced>>

-----------------------------------------------------------------------------
(* The operator and the vault.                                             *)

\* write_sealed_tokens truncates the file and writes it in place: it may end
\* up new, old, or unreadable, which reads back as no tokens.
Save(table) ==
    IF saving THEN disk' \in {table, disk, NoTokens} ELSE UNCHANGED disk

CreateToken(k) ==
    /\ k \notin issued
    /\ issued' = issued \cup {k}
    /\ tokens' = [tokens EXCEPT ![k] = "active"]
    /\ Save(tokens')
    /\ UNCHANGED <<call, grants, owners, lapsed, plain, saving, restarts,
                   answered, raced, unsaved>>

\* Mutant: only the panel's table is changed.
RevokeTokenUnsaved(k) ==
    /\ tokens[k] # "none"
    /\ tokens' = [tokens EXCEPT ![k] = "revoked"]
    /\ UNCHANGED <<call, grants, owners, disk, lapsed, plain, saving, issued, restarts,
                   answered, raced, unsaved>>

\* A revoked token stays in the table, and on disk, as revoked.
RevokeToken(k) ==
    /\ tokens[k] # "none"
    /\ tokens' = [tokens EXCEPT ![k] = "revoked"]
    /\ Save(tokens')
    /\ unsaved' = IF disk'[k] = "active" THEN unsaved \cup {k} ELSE unsaved \ {k}
    /\ UNCHANGED <<call, grants, owners, lapsed, plain, saving, issued, restarts,
                   answered, raced>>

-----------------------------------------------------------------------------
(* Time and restarts.                                                      *)

\* Eight hours after initialize.
GrantExpires(g) ==
    /\ grants[g].state = "live"
    /\ grants' = [grants EXCEPT ![g].state = "expired"]
    /\ UNCHANGED <<call, owners, tokenVars, restarts, answered, raced>>

TokenExpires(k) ==
    /\ k \in issued \ lapsed
    /\ lapsed' = lapsed \cup {k}
    /\ UNCHANGED <<call, grants, owners, tokens, disk, plain, saving, issued,
                   unsaved, restarts, answered, raced>>

\* with_token_storage and load_tokens_from_disk, with the keyring: a legacy file
\* is shredded and then written anew, and between the two there is none.
LoadSealing ==
    /\ Storage
    /\ saving' = TRUE /\ plain' = FALSE
    /\ tokens' = disk
    /\ IF plain THEN disk' \in {disk, NoTokens} ELSE UNCHANGED disk

\* Without the keyring a legacy file is read and left, a sealed one is not read;
\* `new' has no file to read.
LoadPlain ==
    /\ saving' = FALSE
    /\ tokens' = IF plain THEN disk ELSE NoTokens
    /\ UNCHANGED <<plain, disk>>

Restart ==
    /\ restarts < MaxRestarts
    /\ restarts' = restarts + 1
    /\ call' = [c \in Calls |-> Idle]
    /\ grants' = [g \in Grants |-> Free]
    /\ owners' = [g \in Grants |-> Missing]
    /\ answered' = {} /\ raced' = {}
    /\ LoadSealing \/ LoadPlain
    /\ UNCHANGED <<lapsed, issued, unsaved>>

-----------------------------------------------------------------------------
Step(c) ==
    \/ BeginInit(c) \/ Lookup(c) \/ SnapshotGrants(c) \/ Count(c)
    \/ AddGrant(c) \/ SnapshotLive(c) \/ InsertOwner(c)
    \/ BeginEnd(c) \/ CheckOwner(c) \/ Revoke(c) \/ Forget(c)

Next ==
    \/ \E c \in Calls : Step(c)
    \/ \E k \in Tokens : CreateToken(k) \/ RevokeToken(k) \/ TokenExpires(k)
    \/ \E g \in Grants : GrantExpires(g)
    \/ Restart

Spec == Init /\ [][Next]_vars

-----------------------------------------------------------------------------
(* What the host promises.                                                 *)

\* MAX_TOTAL_GRANTS is checked against a snapshot taken earlier: the store
\* outgrows it by at most one grant for every further call in flight.
TotalBounded == Cardinality(Stored) <= MaxTotal - 1 + Cardinality(Calls)

\* So does MAX_ACTIVE_TOKENLESS_GRANTS, for the tokenless sessions on record.
TokenlessBounded ==
    Cardinality({g \in Live : owners[g] = None})
        <= MaxTokenless - 1 + Cardinality(Calls)

\* A session opened with a token is ended only by a call that presents that
\* token, if the call began after the session's initialize had answered and no
\* other initialize was between its live set and its insertion when the grant
\* was added.
SessionsEndByOwner ==
    [][\A g \in Grants \ raced :
          /\ grants[g].state # "revoked" /\ grants'[g].state = "revoked"
          /\ grants[g].by \in Tokens
          => \E c \in Calls : /\ At(c, "revoke") /\ call[c].grant = g
                              /\ call[c].token = grants[g].by \/ ~call[c].known]_vars

\* A revoked token is never usable again, in this run or the next, unless its
\* revocation did not reach the file.
KeepsRevoked ==
    \A k \in Tokens \ unsaved : tokens[k] = "revoked" => tokens'[k] # "active"
RevocationDurable == [][KeepsRevoked]_vars

(* What the code does not do, although its comments say so.                *)

\* mcp_host.rs on session/end: a grant minted under an operator token "can
\* only be ended by a caller presenting that token".  Here of the calls that
\* begin after the grant's initialize has answered.
EndedByOwner ==
    [][\A g \in Grants :
          /\ grants[g].state # "revoked" /\ grants'[g].state = "revoked"
          /\ grants[g].by \in Tokens
          => \E c \in Calls : /\ At(c, "revoke") /\ call[c].grant = g
                              /\ call[c].token = grants[g].by \/ ~call[c].known]_vars

\* mcp_host.rs on the constant: the "live (unrevoked, unexpired) grants a
\* TOKENLESS client may hold at once".
TokenlessCapped ==
    Cardinality({g \in Live : grants[g].by = None}) <= MaxTokenless

-----------------------------------------------------------------------------
(* Why the promises hold.                                                  *)

\* Calls whose snapshot lets them add a grant.
Admissible == {c \in Calls : \/ At(c, "add")
                             \/ /\ At(c, "count")
                                /\ Cardinality(call[c].stored) < MaxTotal}

TotalCounted ==
    Cardinality(Stored) + Cardinality(Admissible) <= MaxTotal - 1 + Cardinality(Calls)

\* A call that has added its grant, and nobody else, is about to answer it.
CallsFit ==
    \A c \in Calls :
        /\ call[c].at \in {"live", "insert"} =>
              /\ call[c].grant \in Stored \ answered
              /\ grants[call[c].grant].by = call[c].token
              /\ \A d \in Calls : /\ call[d].at \in {"live", "insert"}
                                  /\ call[d].grant = call[c].grant
                                  => d = c
        /\ call[c].at \in {"check", "revoke", "forget"} =>
              call[c].grant \in Stored
        /\ call[c].at = "forget" => grants[call[c].grant].state = "revoked"

\* The live set of a call about to insert has every other grant, unless raced.
LiveSetsCover ==
    \A c \in Calls : At(c, "insert") => Stored \ raced \subseteq call[c].stored

\* An answered session that nobody raced or ended has its owner on record.
OwnersKept ==
    /\ answered \subseteq Stored
    /\ \A g \in answered \ raced :
          grants[g].state # "revoked" => owners[g] = grants[g].by

\* A call about to revoke an answered, unraced session presented its token.
RevokersVetted ==
    \A c \in Calls :
        /\ At(c, "check") /\ call[c].known => call[c].grant \in answered
        /\ /\ At(c, "revoke") /\ call[c].known
           /\ call[c].grant \notin raced
           /\ grants[call[c].grant].state # "revoked"
           /\ grants[call[c].grant].by \in Tokens
           => call[c].token = grants[call[c].grant].by

\* No grant's policy exceeds its token's, and a tokenless one is ReadOnly.
PolicyCapped ==
    LET Bound(k) == IF k = None THEN 0 ELSE Ceiling[k] IN
    /\ \A g \in Grants : grants[g].policy <= Bound(grants[g].by)
    /\ \A c \in Calls : call[c].at \in {"snapshot", "count", "add"} =>
                            call[c].policy <= Bound(call[c].token)

\* Nothing is in memory or on disk that was not created.
OnlyIssued == \A k \in Tokens : tokens[k] # "none" \/ disk[k] # "none" => k \in issued

\* The file gives no revoked token back as active, unless it is unsaved.
VaultCurrent ==
    \A k \in Tokens \ unsaved : tokens[k] = "revoked" => disk[k] # "active"

\* Tokenless calls that are past the cap, or that will pass it as long as no
\* other session than those of ids is on record as tokenless.
Passing(ids) ==
    {c \in Calls : /\ call[c].token = None
                   /\ \/ call[c].at \in {"add", "live", "insert"}
                      \/ /\ At(c, "count")
                         /\ Cardinality(ids \cap call[c].open) < MaxTokenless}

\* For every part of the sessions on record, as any of them may end before a
\* call looks.
TokenlessCounted ==
    /\ \A g \in Grants : grants[g].state = "free" => owners[g] # None
    /\ \A ids \in SUBSET Tokenless(Live) :
          Cardinality(ids) + Cardinality(Passing(ids))
              <= MaxTokenless - 1 + Cardinality(Calls)

IInv ==
    /\ TypeOK
    /\ TotalCounted
    /\ CallsFit
    /\ LiveSetsCover
    /\ OwnersKept
    /\ RevokersVetted
    /\ PolicyCapped
    /\ OnlyIssued
    /\ VaultCurrent
==============================================================================
