---------------------------- MODULE McpHostProofs ----------------------------
(***************************************************************************)
(* Proofs about McpHost, for every finite set of calls and grants, every   *)
(* set of tokens and all limits, with or without a vault.                  *)
(***************************************************************************)
EXTENDS McpHost, FiniteSetTheorems, TLAPS

-----------------------------------------------------------------------------
(* Types.                                                                  *)

Points == {"idle", "lookup", "snapshot", "count", "add", "live", "insert",
           "check", "revoke", "forget"}

LEMMA IdleTyped ==
    ASSUME HostAssumption
    PROVE  Idle \in CallType /\ Free \in GrantType /\ NoTokens \in TokenTable
BY DEF HostAssumption, Idle, CallType, Free, GrantType, NoTokens, TokenTable,
       Callers, Policies

\* Moving a call to a point, or ending it, keeps the calls well typed.
LEMMA GoToTyped ==
    ASSUME call \in [Calls -> CallType], NEW c \in Calls,
           NEW point \in Points, GoTo(c, point)
    PROVE  call' \in [Calls -> CallType]
BY DEF GoTo, CallType, Points

LEMMA FinishTyped ==
    ASSUME HostAssumption, call \in [Calls -> CallType], NEW c \in Calls, Finish(c)
    PROVE  call' \in [Calls -> CallType]
BY IdleTyped DEF Finish

\* The steps of a call keep every variable in its type.
LEMMA StepTyped ==
    ASSUME HostAssumption, TypeOK, CallsFit, NEW c \in Calls, Step(c)
    PROVE  TypeOK'
<1> USE DEF TypeOK, tokenVars
<1>0. call[c] \in CallType
  OBVIOUS
<1>1. CASE BeginInit(c)
  <2>1. PICK k \in Callers, p \in Policies :
           call' = [call EXCEPT ![c] =
                       [Idle EXCEPT !.at = "lookup", !.token = k, !.policy = p]]
    BY <1>1 DEF BeginInit
  <2>2. [Idle EXCEPT !.at = "lookup", !.token = k, !.policy = p] \in CallType
    BY IdleTyped DEF CallType
  <2>3. QED
    BY <1>1, <2>1, <2>2 DEF BeginInit
<1>2. CASE Lookup(c)
  <2> DEFINE k == call[c].token
             p == IF k = None THEN 0 ELSE Cap(call[c].policy, Ceiling[k])
             r == [call[c] EXCEPT !.at = "snapshot", !.policy = p]
  <2>1. CASE Finish(c)
    BY <1>2, <2>1, FinishTyped DEF Lookup
  <2>2. CASE (k = None \/ Usable(k)) /\ call' = [call EXCEPT ![c] = r]
    <3>1. p \in Policies
      BY <1>0, <2>2 DEF CallType, Usable, Cap, Policies, HostAssumption
    <3>2. r \in CallType
      BY <1>0, <3>1 DEF CallType
    <3>3. QED
      BY <1>2, <2>2, <3>2 DEF Lookup
  <2>3. QED
    BY <1>2, <2>1, <2>2 DEF Lookup
<1>3. CASE SnapshotGrants(c)
  BY <1>0, <1>3 DEF SnapshotGrants, CallType, Stored, Live
<1>4. CASE Count(c)
  <2>1. [call[c] EXCEPT !.at = "add", !.stored = {}, !.open = {}] \in CallType
    BY <1>0 DEF CallType
  <2>2. call' \in [Calls -> CallType]
    BY <1>4, <2>1, FinishTyped DEF Count
  <2>3. QED
    BY <1>4, <2>2 DEF Count
<1>5. CASE AddGrant(c)
  <2>1. PICK g \in Grants :
           /\ grants' = [grants EXCEPT ![g] = [state |-> "live", by |-> call[c].token,
                                               policy |-> call[c].policy]]
           /\ call' = [call EXCEPT ![c] = [@ EXCEPT !.at = "live", !.grant = g]]
           /\ raced' = IF \E d \in Calls : At(d, "insert") THEN raced \cup {g}
                       ELSE raced
    BY <1>5 DEF AddGrant
  <2>2. [state |-> "live", by |-> call[c].token, policy |-> call[c].policy] \in GrantType
    BY <1>0 DEF CallType, GrantType
  <2>3. [call[c] EXCEPT !.at = "live", !.grant = g] \in CallType
    BY <1>0 DEF CallType
  <2>4. QED
    BY <1>5, <2>1, <2>2, <2>3 DEF AddGrant
<1>6. CASE SnapshotLive(c)
  BY <1>0, <1>6 DEF SnapshotLive, CallType, Stored
<1>7. CASE InsertOwner(c)
  <2>1. call[c].grant \in Grants /\ call[c].token \in Callers
    BY <1>0, <1>7 DEF InsertOwner, CallsFit, At, Stored, CallType
  <2>2. call' \in [Calls -> CallType]
    BY <1>7, FinishTyped DEF InsertOwner
  <2>3. owners' \in [Grants -> Callers \cup {Missing}]
    BY <1>7, <2>1 DEF InsertOwner
  <2>4. QED
    BY <1>7, <2>1, <2>2, <2>3 DEF InsertOwner
<1>8. CASE BeginEnd(c)
  <2>1. PICK g \in Stored, k \in Callers :
           call' = [call EXCEPT ![c] =
                       [Idle EXCEPT !.at = "check", !.token = k, !.grant = g,
                                    !.known = g \in answered]]
    BY <1>8 DEF BeginEnd
  <2>2. [Idle EXCEPT !.at = "check", !.token = k, !.grant = g,
                     !.known = g \in answered] \in CallType
    <3>1. g \in Grants /\ (g \in answered) \in BOOLEAN
      BY DEF Stored
    <3>2. QED
      BY <3>1, IdleTyped DEF CallType
  <2>3. QED
    BY <1>8, <2>1, <2>2 DEF BeginEnd
<1>9. CASE CheckOwner(c)
  BY <1>9, GoToTyped, FinishTyped DEF CheckOwner, Points
<1>10. CASE Revoke(c)
  <2>1. call' \in [Calls -> CallType]
    BY <1>10, GoToTyped, FinishTyped DEF Revoke, Points
  <2>2. grants' \in [Grants -> GrantType]
    <3>1. call[c].grant \in Grants
      BY <1>10 DEF Revoke, CallsFit, At, Stored
    <3>2. [grants[call[c].grant] EXCEPT !.state = "revoked"] \in GrantType
      BY <3>1 DEF GrantType
    <3>3. QED
      BY <1>10, <3>2 DEF Revoke
  <2>3. QED
    BY <1>10, <2>1, <2>2 DEF Revoke
<1>11. CASE Forget(c)
  BY <1>11, FinishTyped DEF Forget
<1>12. QED
  BY <1>1, <1>2, <1>3, <1>4, <1>5, <1>6, <1>7, <1>8, <1>9, <1>10, <1>11 DEF Step

\* A save writes a table, or nothing, or no tokens.
LEMMA SaveTyped ==
    ASSUME disk \in TokenTable, NEW table \in TokenTable, Save(table)
    PROVE  /\ disk' \in TokenTable
           /\ \A k \in Tokens : disk'[k] \in {table[k], disk[k], "none"}
BY DEF Save, NoTokens, TokenTable

\* So do the operator, time and restarts.
LEMMA EnvironmentTyped ==
    ASSUME HostAssumption, TypeOK,
           \/ \E k \in Tokens : CreateToken(k) \/ RevokeToken(k) \/ TokenExpires(k)
           \/ \E g \in Grants : GrantExpires(g)
           \/ Restart
    PROVE  TypeOK'
<1> USE DEF TypeOK, tokenVars
<1>1. ASSUME NEW k \in Tokens, CreateToken(k) PROVE TypeOK'
  <2>1. tokens' \in TokenTable
    BY <1>1 DEF CreateToken, TokenTable
  <2>2. disk' \in TokenTable
    BY <1>1, <2>1, SaveTyped DEF CreateToken
  <2>3. QED
    BY <1>1, <2>1, <2>2 DEF CreateToken
<1>2. ASSUME NEW k \in Tokens, RevokeToken(k) PROVE TypeOK'
  <2>1. tokens' \in TokenTable
    BY <1>2 DEF RevokeToken, TokenTable
  <2>2. disk' \in TokenTable
    BY <1>2, <2>1, SaveTyped DEF RevokeToken
  <2>3. QED
    BY <1>2, <2>1, <2>2 DEF RevokeToken
<1>3. ASSUME NEW k \in Tokens, TokenExpires(k) PROVE TypeOK'
  BY <1>3 DEF TokenExpires
<1>4. ASSUME NEW g \in Grants, GrantExpires(g) PROVE TypeOK'
  BY <1>4 DEF GrantExpires, GrantType
<1>5. CASE Restart
  <2>1. call' \in [Calls -> CallType] /\ grants' \in [Grants -> GrantType]
    BY <1>5, IdleTyped DEF Restart
  <2>2. tokens' \in TokenTable /\ disk' \in TokenTable
    BY <1>5, IdleTyped DEF Restart, LoadSealing, LoadPlain
  <2>3. plain' \in BOOLEAN /\ saving' \in BOOLEAN
    BY <1>5 DEF Restart, LoadSealing, LoadPlain
  <2>4. restarts' \in 0 .. MaxRestarts
    BY <1>5 DEF Restart, HostAssumption
  <2>5. QED
    BY <1>5, <2>1, <2>2, <2>3, <2>4 DEF Restart
<1>6. QED
  BY <1>1, <1>2, <1>3, <1>4, <1>5

-----------------------------------------------------------------------------
(* What a step of one call leaves alone.                                   *)

\* A step of c changes no other call.
LEMMA OtherCalls ==
    ASSUME TypeOK, NEW c \in Calls, Step(c), NEW d \in Calls, d # c
    PROVE  call'[d] = call[d]
BY DEF TypeOK, Step, BeginInit, Lookup, SnapshotGrants, Count, AddGrant,
       SnapshotLive, InsertOwner, BeginEnd, CheckOwner, Revoke, Forget, GoTo, Finish

LEMMA GoToKeeps ==
    ASSUME TypeOK, NEW c \in Calls, NEW point \in Points, GoTo(c, point)
    PROVE  /\ call'[c].at = point
           /\ call'[c].token = call[c].token /\ call'[c].grant = call[c].grant
           /\ call'[c].policy = call[c].policy /\ call'[c].stored = call[c].stored
           /\ call'[c].open = call[c].open /\ call'[c].known = call[c].known
BY DEF GoTo, TypeOK, CallType

LEMMA FinishIdles ==
    ASSUME TypeOK, NEW c \in Calls, Finish(c)
    PROVE  call'[c].at = "idle"
BY DEF Finish, TypeOK, Idle

\* A call as each of its own steps leaves it.
LEMMA CallCases ==
    ASSUME TypeOK, NEW c \in Calls, Step(c)
    PROVE  \/ call'[c].at \in {"idle", "lookup"}
           \/ Lookup(c) /\ call'[c].at = "snapshot"
           \/ SnapshotGrants(c) /\ call'[c].at = "count" /\ call'[c].stored = Stored
           \/ Count(c) /\ call'[c].at = "add" /\ Cardinality(call[c].stored) < MaxTotal
           \/ AddGrant(c) /\ call'[c].at = "live"
           \/ SnapshotLive(c) /\ call'[c].at = "insert" /\ call'[c].stored = Stored
           \/ BeginEnd(c) /\ call'[c].at = "check"
           \/ CheckOwner(c) /\ call'[c].at = "revoke"
           \/ Revoke(c) /\ call'[c].at = "forget"
<1> USE DEF TypeOK, CallType
<1>1. CASE BeginInit(c)
  BY <1>1 DEF BeginInit, Idle
<1>2. CASE Lookup(c)
  BY <1>2, FinishIdles DEF Lookup
<1>3. CASE SnapshotGrants(c) \/ SnapshotLive(c)
  BY <1>3 DEF SnapshotGrants, SnapshotLive
<1>4. CASE Count(c)
  BY <1>4, FinishIdles DEF Count, Admit
<1>5. CASE AddGrant(c) \/ BeginEnd(c)
  <2>1. AddGrant(c) => call'[c].at = "live"
    BY DEF AddGrant
  <2>2. BeginEnd(c) => call'[c].at = "check"
    BY DEF BeginEnd
  <2>3. QED
    BY <1>5, <2>1, <2>2
<1>6. CASE InsertOwner(c) \/ Forget(c)
  BY <1>6, FinishIdles DEF InsertOwner, Forget
<1>7. CASE CheckOwner(c) \/ Revoke(c)
  BY <1>7, FinishIdles, GoToKeeps DEF CheckOwner, Revoke, Points
<1>8. QED
  BY <1>1, <1>2, <1>3, <1>4, <1>5, <1>6, <1>7 DEF Step

\* A step adds at most one grant, a fresh one; the others keep who they are by,
\* and stay revoked.
LEMMA StoredKept ==
    ASSUME TypeOK, CallsFit, NEW c \in Calls, Step(c), ~AddGrant(c)
    PROVE  /\ Stored' = Stored /\ UNCHANGED raced
           /\ \A g \in Grants : /\ grants'[g].by = grants[g].by
                                /\ grants'[g].policy = grants[g].policy
                                /\ grants[g].state = "revoked"
                                      => grants'[g].state = "revoked"
<1>1. CASE Revoke(c)
  <2>1. call[c].grant \in Stored
    BY <1>1 DEF Revoke, CallsFit, At
  <2>2. \A g \in Grants :
           /\ g # call[c].grant => grants'[g] = grants[g]
           /\ g = call[c].grant => grants'[g] = [grants[g] EXCEPT !.state = "revoked"]
    BY <1>1 DEF Revoke, TypeOK
  <2>3. \A g \in Grants : grants[g] \in GrantType
    BY DEF TypeOK
  <2>4. Stored' = Stored
    BY <2>1, <2>2, <2>3 DEF Stored, GrantType
  <2>5. QED
    BY <1>1, <2>2, <2>3, <2>4 DEF Revoke, GrantType
<1>2. CASE UNCHANGED <<grants, raced>>
  BY <1>2 DEF Stored
<1>3. QED
  BY <1>1, <1>2 DEF Step, BeginInit, Lookup, SnapshotGrants, Count,
     SnapshotLive, InsertOwner, BeginEnd, CheckOwner, Forget

LEMMA GrantAdded ==
    ASSUME TypeOK, NEW c \in Calls, AddGrant(c)
    PROVE  \E g \in Grants \ Stored :
              /\ Stored' = Stored \cup {g}
              /\ grants'[g] = [state |-> "live", by |-> call[c].token,
                              policy |-> call[c].policy]
              /\ \A h \in Grants \ {g} : grants'[h] = grants[h]
              /\ call'[c] = [call[c] EXCEPT !.at = "live", !.grant = g]
              /\ raced' = IF \E d \in Calls : At(d, "insert") THEN raced \cup {g}
                          ELSE raced
<1> USE DEF TypeOK
<1>1. PICK g \in Grants :
         /\ grants[g].state = "free"
         /\ grants' = [grants EXCEPT ![g] = [state |-> "live", by |-> call[c].token,
                                             policy |-> call[c].policy]]
         /\ call' = [call EXCEPT ![c] = [@ EXCEPT !.at = "live", !.grant = g]]
         /\ raced' = IF \E d \in Calls : At(d, "insert") THEN raced \cup {g}
                     ELSE raced
  BY DEF AddGrant
<1>2. g \notin Stored
  BY <1>1 DEF Stored
<1>3. /\ grants'[g] = [state |-> "live", by |-> call[c].token,
                        policy |-> call[c].policy]
      /\ \A h \in Grants \ {g} : grants'[h] = grants[h]
  BY <1>1
<1>4. Stored' = Stored \cup {g}
  BY <1>3 DEF Stored
<1>5. call'[c] = [call[c] EXCEPT !.at = "live", !.grant = g]
  BY <1>1
<1>6. QED
  BY <1>1, <1>2, <1>3, <1>4, <1>5

-----------------------------------------------------------------------------
(* The total.                                                              *)

LEMMA CountsFit ==
    ASSUME HostAssumption
    PROVE  /\ IsFiniteSet(Stored) /\ IsFiniteSet(Stored')
           /\ Cardinality(Stored) \in Nat /\ Cardinality(Stored') \in Nat
           /\ IsFiniteSet(Admissible) /\ IsFiniteSet(Admissible')
           /\ Cardinality(Admissible) \in Nat /\ Cardinality(Admissible') \in Nat
           /\ Cardinality(Calls) \in Nat
           /\ Cardinality(Admissible') <= Cardinality(Calls)
<1>1. Stored \subseteq Grants /\ Stored' \subseteq Grants
  BY DEF Stored
<1>2. Admissible \subseteq Calls /\ Admissible' \subseteq Calls
  BY DEF Admissible
<1>3. QED
  BY <1>1, <1>2, FS_Subset, FS_CardinalityType DEF HostAssumption

\* What does not raise the count of either set.
LEMMA CountKept ==
    ASSUME HostAssumption, TotalCounted, Stored' = Stored, Admissible' \subseteq Admissible
    PROVE  TotalCounted'
<1>1. Cardinality(Admissible') <= Cardinality(Admissible)
  BY CountsFit, FS_Subset
<1>2. QED
  BY <1>1, CountsFit DEF TotalCounted, HostAssumption

LEMMA CountStep ==
    ASSUME HostAssumption, TypeOK, CallsFit, NEW c \in Calls, Step(c), TotalCounted
    PROVE  TotalCounted'
<1>1. \A d \in Calls \ {c} : call'[d] = call[d]
  BY OtherCalls
<1>2. CASE AddGrant(c)
  <2>1. PICK g \in Grants \ Stored :
           /\ Stored' = Stored \cup {g}
           /\ call'[c] = [call[c] EXCEPT !.at = "live", !.grant = g]
    BY <1>2, GrantAdded
  <2>2. c \in Admissible
    BY <1>2 DEF AddGrant, Admissible
  <2>3. call'[c].at = "live"
    BY <2>1 DEF TypeOK, CallType
  <2>4. Admissible' \subseteq Admissible \ {c}
    BY <1>1, <2>3 DEF Admissible, At
  <2>5. Cardinality(Stored') = Cardinality(Stored) + 1
    BY <2>1, CountsFit, FS_AddElement
  <2>6. Cardinality(Admissible \ {c}) = Cardinality(Admissible) - 1
    BY <2>2, CountsFit, FS_RemoveElement
  <2>7. Cardinality(Admissible') <= Cardinality(Admissible \ {c})
    BY <2>4, CountsFit, FS_RemoveElement, FS_Subset
  <2>8. QED
    BY <2>5, <2>6, <2>7, CountsFit DEF TotalCounted, HostAssumption
<1>3. CASE SnapshotGrants(c) /\ call'[c].at = "count" /\ call'[c].stored = Stored
  <2>1. Stored' = Stored
    BY <1>3, StoredKept DEF SnapshotGrants, AddGrant, At
  <2>2. CASE Cardinality(Stored) < MaxTotal
    BY <2>1, <2>2, CountsFit DEF TotalCounted, HostAssumption
  <2>3. CASE ~(Cardinality(Stored) < MaxTotal)
    <3>1. Admissible' \subseteq Admissible
      BY <1>1, <1>3, <2>3 DEF Admissible, At
    <3>2. QED
      BY <2>1, <3>1, CountKept
  <2>4. QED
    BY <2>2, <2>3
<1>4. CASE Count(c) /\ call'[c].at = "add" /\ Cardinality(call[c].stored) < MaxTotal
  <2>1. Stored' = Stored
    BY <1>4, StoredKept DEF Count, AddGrant, At
  <2>2. Admissible' \subseteq Admissible
    BY <1>1, <1>4 DEF Admissible, At, Count
  <2>3. QED
    BY <2>1, <2>2, CountKept
<1>5. CASE ~AddGrant(c) /\ call'[c].at \notin {"count", "add"}
  <2>1. Stored' = Stored
    BY <1>5, StoredKept
  <2>2. Admissible' \subseteq Admissible
    BY <1>1, <1>5 DEF Admissible, At
  <2>3. QED
    BY <2>1, <2>2, CountKept
<1>6. QED
  BY <1>2, <1>3, <1>4, <1>5, CallCases

-----------------------------------------------------------------------------
(* Where calls are, live sets and owners.                                  *)

\* One call's part of CallsFit that is about itself.
CallFits(c) ==
    /\ call[c].at \in {"live", "insert"} =>
          /\ call[c].grant \in Stored \ answered
          /\ grants[call[c].grant].by = call[c].token
    /\ call[c].at \in {"check", "revoke", "forget"} => call[c].grant \in Stored
    /\ call[c].at = "forget" => grants[call[c].grant].state = "revoked"

\* No two calls are about to answer one grant.
OneAnswers == \A c, d \in Calls :
    /\ call[c].at \in {"live", "insert"} /\ call[d].at \in {"live", "insert"}
    /\ call[d].grant = call[c].grant
    => d = c

LEMMA CallsFitParts == CallsFit <=> (\A c \in Calls : CallFits(c)) /\ OneAnswers
BY DEF CallsFit, CallFits, OneAnswers

LEMMA CallsFitNext ==
    ASSUME \A c \in Calls : CallFits(c)', OneAnswers'
    PROVE  CallsFit'
BY DEF CallsFit, CallFits, OneAnswers

\* Only the call that answers a grant changes what is answered.
LEMMA AnsweredKept ==
    ASSUME TypeOK, NEW c \in Calls, Step(c)
    PROVE  \/ UNCHANGED answered
           \/ /\ InsertOwner(c) /\ call'[c].at = "idle" /\ At(c, "insert")
              /\ answered' = answered \cup {call[c].grant}
BY FinishIdles DEF Step, BeginInit, Lookup, SnapshotGrants, Count, AddGrant,
   SnapshotLive, InsertOwner, BeginEnd, CheckOwner, Revoke, Forget

\* The calls that do not step still fit.
LEMMA OthersFit ==
    ASSUME TypeOK, CallsFit, NEW c \in Calls, Step(c), NEW d \in Calls, d # c
    PROVE  CallFits(d)'
<1>1. call'[d] = call[d] /\ CallFits(d)
  BY OtherCalls, CallsFitParts
<1>2. Stored \subseteq Stored'
  BY StoredKept, GrantAdded
<1>3. \A g \in Stored : /\ grants'[g].by = grants[g].by
                        /\ grants[g].state = "revoked" => grants'[g].state = "revoked"
  <2>1. Stored \subseteq Grants
    BY DEF Stored
  <2>2. QED
    BY <2>1, StoredKept, GrantAdded
<1>4. call[d].at \in {"live", "insert"} => call[d].grant \notin answered'
  BY <1>1, AnsweredKept DEF CallFits, CallsFit, At
<1>5. QED
  BY <1>1, <1>2, <1>3, <1>4 DEF CallFits

LEMMA FitStep ==
    ASSUME TypeOK, CallsFit, answered \subseteq Stored, NEW c \in Calls, Step(c)
    PROVE  CallsFit'
<1> USE DEF CallFits
<1>1. CallFits(c) /\ OneAnswers /\ call[c] \in CallType
  BY CallsFitParts DEF TypeOK
<1>2. CASE AddGrant(c)
  <2>1. PICK g \in Grants \ Stored :
           /\ Stored' = Stored \cup {g}
           /\ grants'[g] = [state |-> "live", by |-> call[c].token,
                           policy |-> call[c].policy]
           /\ call'[c] = [call[c] EXCEPT !.at = "live", !.grant = g]
    BY <1>2, GrantAdded
  <2>2. /\ call'[c].at = "live" /\ call'[c].grant = g
        /\ call'[c].token = call[c].token
    BY <1>1, <2>1 DEF CallType
  <2>3. UNCHANGED answered
    BY <1>2 DEF AddGrant
  <2>4. CallFits(c)'
    BY <2>1, <2>2, <2>3
  <2>5. \A d \in Calls \ {c} : call'[d].at \in {"live", "insert"}
                                => call'[d].grant # g
    BY OtherCalls, CallsFitParts
  <2>6. OneAnswers'
    BY <1>1, <2>2, <2>5, OtherCalls DEF OneAnswers
  <2>7. QED
    BY <2>4, <2>6, OthersFit, CallsFitNext
<1>3. ASSUME ~AddGrant(c) PROVE CallsFit'
  <2> USE <1>3
  <2>1. /\ Stored' = Stored
        /\ \A g \in Grants : /\ grants'[g].by = grants[g].by
                             /\ grants[g].state = "revoked"
                                   => grants'[g].state = "revoked"
    BY StoredKept
  <2>2. Stored \subseteq Grants
    BY DEF Stored
  <2>3. CASE call'[c].at \in {"idle", "lookup", "snapshot", "count", "add"}
    <3>1. CallFits(c)'
      BY <2>3
    <3>2. OneAnswers'
      BY <1>1, <2>3, OtherCalls DEF OneAnswers
    <3>3. QED
      BY <3>1, <3>2, OthersFit, CallsFitNext
  <2>4. CASE SnapshotLive(c) /\ call'[c].at = "insert"
    <3>1. /\ call[c].at = "live" /\ call'[c].grant = call[c].grant
          /\ call'[c].token = call[c].token /\ UNCHANGED <<answered, grants>>
      BY <2>4, <1>1 DEF SnapshotLive, At, CallType, TypeOK
    <3>2. CallFits(c)'
      BY <1>1, <2>1, <2>4, <3>1
    <3>3. OneAnswers'
      BY <1>1, <2>4, <3>1, OtherCalls DEF OneAnswers
    <3>4. QED
      BY <3>2, <3>3, OthersFit, CallsFitNext
  <2>5. CASE BeginEnd(c) /\ call'[c].at = "check"
    <3>1. call'[c].grant \in Stored
      BY <2>5 DEF BeginEnd, TypeOK, Idle
    <3>2. CallFits(c)'
      BY <2>1, <2>5, <3>1
    <3>3. OneAnswers'
      BY <1>1, <2>5, OtherCalls DEF OneAnswers
    <3>4. QED
      BY <3>2, <3>3, OthersFit, CallsFitNext
  <2>6. CASE \/ CheckOwner(c) /\ call'[c].at = "revoke"
             \/ Revoke(c) /\ call'[c].at = "forget"
    <3>1. call[c].at \in {"check", "revoke"} /\ call'[c].grant = call[c].grant
      BY <2>6, FinishIdles, GoToKeeps DEF CheckOwner, Revoke, At, Points
    <3>2. Revoke(c) => grants'[call[c].grant].state = "revoked"
      <4>1. HAVE Revoke(c)
      <4>2. grants' = [grants EXCEPT ![call[c].grant].state = "revoked"]
        BY <4>1 DEF Revoke
      <4>3. call[c].grant \in Grants /\ grants[call[c].grant] \in GrantType
        BY <1>1, <2>2, <3>1 DEF TypeOK
      <4>4. QED
        BY <4>2, <4>3 DEF TypeOK, GrantType
    <3>3. CallFits(c)'
      BY <1>1, <2>1, <2>6, <3>1, <3>2
    <3>4. OneAnswers'
      BY <1>1, <2>6, OtherCalls DEF OneAnswers
    <3>5. QED
      BY <3>3, <3>4, OthersFit, CallsFitNext
  <2>7. QED
    BY <2>3, <2>4, <2>5, <2>6, CallCases
<1>4. QED
  BY <1>2, <1>3

LEMMA LiveStep ==
    ASSUME TypeOK, CallsFit, LiveSetsCover, NEW c \in Calls, Step(c)
    PROVE  LiveSetsCover'
<1>1. \A d \in Calls \ {c} : call'[d] = call[d]
  BY OtherCalls
<1>2. CASE AddGrant(c)
  <2>1. PICK g \in Grants \ Stored :
           /\ Stored' = Stored \cup {g}
           /\ call'[c] = [call[c] EXCEPT !.at = "live", !.grant = g]
           /\ raced' = IF \E d \in Calls : At(d, "insert") THEN raced \cup {g}
                       ELSE raced
    BY <1>2, GrantAdded
  <2>2. call'[c].at = "live"
    BY <2>1 DEF TypeOK, CallType
  <2>3. SUFFICES ASSUME NEW d \in Calls, At(d, "insert")'
                 PROVE  (Stored \ raced \subseteq call[d].stored)'
    BY DEF LiveSetsCover
  <2>4. d # c /\ At(d, "insert") /\ call'[d] = call[d]
    BY <1>1, <2>2, <2>3 DEF At
  <2>5. raced' = raced \cup {g}
    BY <2>1, <2>4
  <2>6. QED
    BY <2>1, <2>4, <2>5 DEF LiveSetsCover
<1>3. CASE ~AddGrant(c)
  <2>1. Stored' = Stored /\ raced' = raced
    BY <1>3, StoredKept
  <2>2. call'[c].at = "insert" => call'[c].stored = Stored
    BY CallCases
  <2>3. QED
    BY <1>1, <2>1, <2>2 DEF LiveSetsCover, At
<1>4. QED
  BY <1>2, <1>3

\* What the steps do to owners.
LEMMA OwnersChange ==
    ASSUME TypeOK, NEW c \in Calls, Step(c)
    PROVE  \/ UNCHANGED owners
           \/ /\ InsertOwner(c)
              /\ \A g \in Grants : \/ g = call[c].grant /\ owners'[g] = call[c].token
                                   \/ g # call[c].grant /\ g \notin call[c].stored
                                   \/ owners'[g] = owners[g]
           \/ /\ Forget(c)
              /\ \A g \in Grants \ {call[c].grant} : owners'[g] = owners[g]
BY DEF TypeOK, Step, BeginInit, Lookup, SnapshotGrants, Count, AddGrant,
       SnapshotLive, InsertOwner, BeginEnd, CheckOwner, Revoke, Forget

\* A grant that was unraced and answered stays by its token, and unrevoked before.
LEMMA GrantKept ==
    ASSUME TypeOK, CallsFit, NEW c \in Calls, Step(c), NEW g \in Stored
    PROVE  /\ g \in Stored' /\ (g \in raced' <=> g \in raced)
           /\ grants'[g].by = grants[g].by
           /\ grants[g].state = "revoked" => grants'[g].state = "revoked"
<1>1. g \in Grants
  BY DEF Stored
<1>2. CASE AddGrant(c)
  <2>1. PICK h \in Grants \ Stored :
           /\ Stored' = Stored \cup {h}
           /\ \A i \in Grants \ {h} : grants'[i] = grants[i]
           /\ raced' = IF \E d \in Calls : At(d, "insert") THEN raced \cup {h}
                       ELSE raced
    BY <1>2, GrantAdded
  <2>2. QED
    BY <1>1, <2>1
<1>3. CASE ~AddGrant(c)
  BY <1>1, <1>3, StoredKept
<1>4. QED
  BY <1>2, <1>3

LEMMA OwnerStep ==
    ASSUME TypeOK, CallsFit, LiveSetsCover, OwnersKept, NEW c \in Calls, Step(c)
    PROVE  OwnersKept'
<1>1. answered' \subseteq Stored'
  <2>1. At(c, "insert") => call[c].grant \in Stored
    BY DEF CallsFit, At
  <2>2. answered' \subseteq Stored
    BY <2>1, AnsweredKept DEF OwnersKept
  <2>3. QED
    BY <2>2, GrantKept
<1>2. SUFFICES ASSUME NEW g \in answered' \ raced', grants'[g].state # "revoked"
               PROVE  owners'[g] = grants'[g].by
  BY <1>1 DEF OwnersKept
<1>3. CASE g \in answered
  <2>1. /\ g \in Stored /\ g \in Grants /\ g \notin raced
        /\ grants[g].state # "revoked" /\ grants'[g].by = grants[g].by
    BY <1>2, <1>3, GrantKept DEF OwnersKept, Stored
  <2>2. owners[g] = grants[g].by
    BY <1>3, <2>1 DEF OwnersKept
  <2>3. owners'[g] = owners[g]
    <3>1. InsertOwner(c) => g # call[c].grant /\ g \in call[c].stored
      BY <1>3, <2>1 DEF InsertOwner, CallsFit, LiveSetsCover, At
    <3>2. Forget(c) => g # call[c].grant
      BY <2>1 DEF Forget, CallsFit, At
    <3>3. QED
      BY <2>1, <3>1, <3>2, OwnersChange
  <2>4. QED
    BY <2>1, <2>2, <2>3
<1>4. CASE g \notin answered
  <2>1. InsertOwner(c) /\ At(c, "insert") /\ g = call[c].grant
    BY <1>2, <1>4, AnsweredKept
  <2>2. grants[g].by = call[c].token /\ g \in Grants /\ UNCHANGED grants
    BY <2>1 DEF CallsFit, At, Stored, InsertOwner
  <2>3. owners'[g] = call[c].token
    BY <2>1, <2>2 DEF InsertOwner
  <2>4. QED
    BY <2>2, <2>3
<1>5. QED
  BY <1>3, <1>4

\* One call's part of RevokersVetted.
Vetted(c) ==
    /\ At(c, "check") /\ call[c].known => call[c].grant \in answered
    /\ /\ At(c, "revoke") /\ call[c].known
       /\ call[c].grant \notin raced
       /\ grants[call[c].grant].state # "revoked"
       /\ grants[call[c].grant].by \in Tokens
       => call[c].token = grants[call[c].grant].by

LEMMA VettedStep ==
    ASSUME TypeOK, CallsFit, OwnersKept, RevokersVetted, NEW c \in Calls, Step(c)
    PROVE  RevokersVetted'
<1>1. answered \subseteq answered'
  BY AnsweredKept
<1>2. ASSUME NEW d \in Calls, d # c PROVE Vetted(d)'
  <2>1. call'[d] = call[d] /\ Vetted(d)
    BY <1>2, OtherCalls DEF RevokersVetted, Vetted
  <2>2. call[d].at = "revoke" => call[d].grant \in Stored
    BY DEF CallsFit
  <2>3. QED
    BY <1>1, <2>1, <2>2, GrantKept DEF Vetted, At
<1>3. Vetted(c)'
  <2>1. CASE BeginEnd(c) /\ call'[c].at = "check"
    <3>1. call'[c].known => call'[c].grant \in answered
      <4>1. PICK g \in Stored, k \in Callers :
               call' = [call EXCEPT ![c] =
                           [Idle EXCEPT !.at = "check", !.token = k, !.grant = g,
                                        !.known = g \in answered]]
        BY <2>1 DEF BeginEnd
      <4>2. QED
        BY <4>1 DEF TypeOK, Idle
    <3>2. QED
      BY <1>1, <2>1, <3>1 DEF Vetted, At
  <2>2. CASE CheckOwner(c) /\ call'[c].at = "revoke"
    <3>1. /\ owners[call[c].grant] \notin Tokens \ {call[c].token}
          /\ call'[c].token = call[c].token /\ call'[c].grant = call[c].grant
          /\ call'[c].known = call[c].known
          /\ UNCHANGED <<grants, raced>> /\ At(c, "check")
      BY <2>2, FinishIdles, GoToKeeps DEF CheckOwner, Points
    <3>2. call[c].known => call[c].grant \in answered
      BY <3>1 DEF RevokersVetted
    <3>3. QED
      BY <2>2, <3>1, <3>2 DEF Vetted, At, OwnersKept
  <2>3. CASE call'[c].at \notin {"check", "revoke"}
    BY <2>3 DEF Vetted, At
  <2>4. QED
    BY <2>1, <2>2, <2>3, CallCases
<1>4. QED
  BY <1>2, <1>3 DEF RevokersVetted, Vetted, At

-----------------------------------------------------------------------------
(* Policies.                                                               *)

Bound(k) == IF k = None THEN 0 ELSE Ceiling[k]

LEMMA CapBounds ==
    ASSUME NEW requested \in Nat, NEW ceiling \in Nat
    PROVE  Cap(requested, ceiling) <= ceiling
BY DEF Cap

LEMMA PolicyStep ==
    ASSUME HostAssumption, TypeOK, CallsFit, PolicyCapped, NEW c \in Calls, Step(c)
    PROVE  PolicyCapped'
<1> USE DEF Bound
<1>1. \A d \in Calls \ {c} : call'[d] = call[d]
  BY OtherCalls
<1>2. call[c] \in CallType
  BY DEF TypeOK
<1>3. \A g \in Grants : grants'[g].policy <= Bound(grants'[g].by)
  <2>1. CASE AddGrant(c)
    <3>1. PICK g \in Grants \ Stored :
             /\ grants'[g] = [state |-> "live", by |-> call[c].token,
                              policy |-> call[c].policy]
             /\ \A h \in Grants \ {g} : grants'[h] = grants[h]
      BY <2>1, GrantAdded
    <3>2. call[c].policy <= Bound(call[c].token)
      BY <2>1 DEF PolicyCapped, AddGrant, At
    <3>3. QED
      BY <3>1, <3>2 DEF PolicyCapped
  <2>2. CASE ~AddGrant(c)
    BY <2>2, StoredKept DEF PolicyCapped
  <2>3. QED
    BY <2>1, <2>2
<1>4. call'[c].at \in {"snapshot", "count", "add"} =>
          call'[c].policy <= Bound(call'[c].token)
  <2>1. CASE Lookup(c) /\ call'[c].at = "snapshot"
    <3> DEFINE k == call[c].token
               p == IF k = None THEN 0 ELSE Cap(call[c].policy, Ceiling[k])
    <3>1. k = None \/ Usable(k)
      BY <2>1, FinishIdles DEF Lookup
    <3>2. call'[c] = [call[c] EXCEPT !.at = "snapshot", !.policy = p]
      BY <2>1, FinishIdles DEF Lookup, TypeOK
    <3>3. p <= Bound(k)
      <4>1. CASE k = None
        BY <4>1
      <4>2. CASE k # None
        <5>1. call[c].policy \in Nat /\ Ceiling[k] \in Nat
          BY <1>2, <3>1, <4>2 DEF CallType, Policies, Usable, HostAssumption
        <5>2. QED
          BY <4>2, <5>1, CapBounds
      <4>3. QED
        BY <4>1, <4>2
    <3>4. call'[c].token = k /\ call'[c].policy = p
      BY <1>2, <3>2 DEF CallType
    <3>5. QED
      BY <3>3, <3>4
  <2>2. CASE SnapshotGrants(c) \/ Count(c)
    <3>1. CASE Finish(c)
      BY <3>1, FinishIdles
    <3>2. CASE ~Finish(c)
      <4>1. /\ call'[c].policy = call[c].policy /\ call'[c].token = call[c].token
            /\ call[c].at \in {"snapshot", "count"}
        <5>1. CASE SnapshotGrants(c)
          BY <1>2, <5>1 DEF SnapshotGrants, At, TypeOK, CallType
        <5>2. CASE Count(c)
          <6>1. /\ At(c, "count")
                /\ call' = [call EXCEPT ![c] = [@ EXCEPT !.at = "add", !.stored = {},
                                                         !.open = {}]]
            BY <5>2, <3>2 DEF Count
          <6>2. QED
            BY <1>2, <6>1 DEF At, TypeOK, CallType
        <5>3. QED
          BY <2>2, <5>1, <5>2
      <4>2. QED
        BY <4>1 DEF PolicyCapped
    <3>3. QED
      BY <3>1, <3>2
  <2>3. CASE call'[c].at \notin {"snapshot", "count", "add"}
    BY <2>3
  <2>4. QED
    BY <2>1, <2>2, <2>3, CallCases
<1>5. QED
  BY <1>1, <1>3, <1>4 DEF PolicyCapped

-----------------------------------------------------------------------------
(* Tokenless sessions.                                                     *)

LEMMA PassingFits ==
    ASSUME HostAssumption, NEW ids \in SUBSET Grants
    PROVE  /\ IsFiniteSet(ids) /\ Cardinality(ids) \in Nat
           /\ IsFiniteSet(Passing(ids)) /\ IsFiniteSet(Passing(ids)')
           /\ Cardinality(Passing(ids)) \in Nat /\ Cardinality(Passing(ids)') \in Nat
           /\ Cardinality(Passing(ids)') <= Cardinality(Calls)
           /\ Cardinality(Calls) \in Nat
           /\ MaxTokenless \in Nat /\ MaxTokenless > 0
<1>1. Passing(ids) \subseteq Calls /\ Passing(ids)' \subseteq Calls
  BY DEF Passing
<1>2. IsFiniteSet(ids) /\ IsFiniteSet(Passing(ids)) /\ IsFiniteSet(Passing(ids)')
  BY <1>1, FS_Subset DEF HostAssumption
<1>3. Cardinality(Passing(ids)') <= Cardinality(Calls)
  BY <1>1, FS_Subset DEF HostAssumption
<1>4. QED
  BY <1>2, <1>3, FS_CardinalityType DEF HostAssumption

\* Fewer sessions leave more of a snapshot uncounted.
LEMMA PassingMonotone ==
    ASSUME HostAssumption, TypeOK, NEW ids \in SUBSET Grants, NEW part \in SUBSET ids
    PROVE  Passing(ids) \subseteq Passing(part)
<1> SUFFICES ASSUME NEW c \in Calls, At(c, "count"),
                    Cardinality(ids \cap call[c].open) < MaxTokenless
             PROVE  Cardinality(part \cap call[c].open) < MaxTokenless
  BY DEF Passing
<1>1. part \cap call[c].open \subseteq ids \cap call[c].open
  OBVIOUS
<1>2. ids \cap call[c].open \subseteq Grants
  OBVIOUS
<1>3. IsFiniteSet(Grants) /\ MaxTokenless \in Nat
  BY DEF HostAssumption
<1>4. IsFiniteSet(ids \cap call[c].open)
  BY <1>2, <1>3, FS_Subset
<1>5. Cardinality(part \cap call[c].open) <= Cardinality(ids \cap call[c].open)
  BY <1>1, <1>4, FS_Subset
<1>6. Cardinality(part \cap call[c].open) \in Nat /\ Cardinality(ids \cap call[c].open) \in Nat
  BY <1>1, <1>4, FS_Subset, FS_CardinalityType
<1>7. QED
  BY <1>3, <1>5, <1>6

\* What adds no session on record and lets no further call pass.
LEMMA TokenlessKept ==
    ASSUME HostAssumption, TokenlessCounted, Tokenless(Live)' \subseteq Tokenless(Live),
           \A g \in Grants : grants'[g].state = "free" => owners'[g] # None,
           \A ids \in SUBSET Tokenless(Live) : Passing(ids)' \subseteq Passing(ids)
    PROVE  TokenlessCounted'
<1> SUFFICES ASSUME NEW ids \in SUBSET Tokenless(Live)'
             PROVE  Cardinality(ids) + Cardinality(Passing(ids)')
                       <= MaxTokenless - 1 + Cardinality(Calls)
  BY DEF TokenlessCounted
<1>1. ids \in SUBSET Grants /\ ids \in SUBSET Tokenless(Live)
  BY DEF Tokenless, Live
<1>2. Cardinality(Passing(ids)') <= Cardinality(Passing(ids))
  BY <1>1, PassingFits, FS_Subset
<1>3. Cardinality(ids) + Cardinality(Passing(ids))
         <= MaxTokenless - 1 + Cardinality(Calls)
  BY <1>1 DEF TokenlessCounted
<1>4. QED
  BY <1>1, <1>2, <1>3, PassingFits

\* A call that neither takes its snapshot nor passes the cap lets no call pass.
LEMMA PassingKept ==
    ASSUME TypeOK, NEW c \in Calls, Step(c), NEW ids,
           \/ call'[c].at \notin {"count", "add", "live", "insert"}
           \/ /\ call'[c].at \in {"live", "insert"} /\ call[c].at \in {"add", "live"}
              /\ call'[c].token = call[c].token
           \/ call'[c].token # None
           \/ c \in Passing(ids)
    PROVE  Passing(ids)' \subseteq Passing(ids)
BY OtherCalls DEF Passing, At

\* A session that a tokenless call puts on record takes the place of the call.
LEMMA InsertCounted ==
    ASSUME HostAssumption, TypeOK, CallsFit, TokenlessCounted, NEW c \in Calls,
           InsertOwner(c), call[c].token = None,
           NEW ids \in SUBSET Tokenless(Live)'
    PROVE  Cardinality(ids) + Cardinality(Passing(ids)')
              <= MaxTokenless - 1 + Cardinality(Calls)
<1> DEFINE id == call[c].grant
           before == ids \ {id}
<1>1. before \subseteq Tokenless(Live) /\ ids \in SUBSET Grants /\ before \in SUBSET Grants
  BY DEF Tokenless, Live, InsertOwner, TypeOK
<1>2. Cardinality(ids) <= Cardinality(before) + 1
  <2>1. Cardinality(before) = IF id \in ids THEN Cardinality(ids) - 1
                                            ELSE Cardinality(ids)
    BY <1>1, PassingFits, FS_RemoveElement
  <2>2. QED
    BY <1>1, <2>1, PassingFits
<1>3. Passing(ids)' \subseteq Passing(before) \ {c} /\ c \in Passing(before)
  <2>1. c \in Passing(before) /\ call'[c].at = "idle" /\ Step(c)
    BY FinishIdles DEF InsertOwner, Passing, At, Step
  <2>2. Passing(ids)' \subseteq Passing(ids)
    BY <2>1, PassingKept
  <2>3. Passing(ids) \subseteq Passing(before)
    BY <1>1, PassingMonotone
  <2>4. c \notin Passing(ids)'
    BY <2>1 DEF Passing, At
  <2>5. QED
    BY <2>1, <2>2, <2>3, <2>4
<1>4. Cardinality(Passing(ids)') <= Cardinality(Passing(before)) - 1
  <2> DEFINE old == Passing(before)
             new == Passing(ids)'
  <2>1. IsFiniteSet(old) /\ new \subseteq old \ {c} /\ c \in old
    BY <1>1, <1>3, PassingFits
  <2> HIDE DEF old, new
  <2>2. IsFiniteSet(old \ {c}) /\ Cardinality(old \ {c}) = Cardinality(old) - 1
    BY <2>1, FS_RemoveElement
  <2>3. Cardinality(new) <= Cardinality(old) - 1
    BY <2>1, <2>2, FS_Subset
  <2>4. QED
    BY <2>3 DEF old, new
<1>5. Cardinality(before) + Cardinality(Passing(before))
         <= MaxTokenless - 1 + Cardinality(Calls)
  BY <1>1 DEF TokenlessCounted
<1>6. QED
  BY <1>1, <1>2, <1>4, <1>5, PassingFits

\* A snapshot that shows all sessions on record lets its call pass only below the
\* cap, where every call may.
LEMMA SnapshotCounted ==
    ASSUME HostAssumption, TypeOK, TokenlessCounted, NEW c \in Calls,
           SnapshotGrants(c), NEW ids \in SUBSET Tokenless(Live)
    PROVE  Cardinality(ids) + Cardinality(Passing(ids)')
              <= MaxTokenless - 1 + Cardinality(Calls)
<1>1. ids \in SUBSET Grants /\ ids \subseteq Live
  BY DEF Tokenless, Live
<1>2. CASE Cardinality(ids) < MaxTokenless
  BY <1>1, <1>2, PassingFits
<1>3. CASE ~(Cardinality(ids) < MaxTokenless)
  <2>1. call'[c].at = "count" /\ call'[c].open = Live /\ Step(c)
    BY DEF SnapshotGrants, TypeOK, CallType, Step
  <2>2. ids \cap Live = ids
    BY <1>1
  <2>3. c \notin Passing(ids)'
    BY <1>3, <2>1, <2>2 DEF Passing, At
  <2>4. Passing(ids)' \subseteq Passing(ids)
    BY <2>1, <2>3, OtherCalls DEF Passing, At
  <2>5. Cardinality(Passing(ids)') <= Cardinality(Passing(ids))
    BY <1>1, <2>4, PassingFits, FS_Subset
  <2>6. QED
    BY <1>1, <2>5, PassingFits DEF TokenlessCounted
<1>4. QED
  BY <1>2, <1>3

\* What a step other than an insertion does to the sessions on record.
LEMMA RecordShrinks ==
    ASSUME TypeOK, CallsFit, TokenlessCounted, HostAssumption, NEW c \in Calls, Step(c),
           InsertOwner(c) => call[c].token # None
    PROVE  /\ Tokenless(Live)' \subseteq Tokenless(Live)
           /\ \A g \in Grants : grants'[g].state = "free" => owners'[g] # None
<1> USE DEF TypeOK, Tokenless, Live
<1>0. \A g \in Grants : grants[g].state = "free" => owners[g] # None
  BY DEF TokenlessCounted
<1>1. Missing # None
  BY DEF HostAssumption
<1>2. CASE AddGrant(c)
  <2>1. UNCHANGED owners
    BY <1>2 DEF AddGrant
  <2>2. PICK g \in Grants \ Stored :
           /\ grants'[g] = [state |-> "live", by |-> call[c].token,
                           policy |-> call[c].policy]
           /\ \A h \in Grants \ {g} : grants'[h] = grants[h]
    BY <1>2, GrantAdded
  <2>3. owners[g] # None /\ grants'[g].state = "live"
    BY <1>0, <2>2 DEF Stored
  <2>4. QED
    BY <1>0, <2>1, <2>2, <2>3
<1>3. CASE Revoke(c)
  <2>1. UNCHANGED owners /\ call[c].grant \in Grants /\ grants[call[c].grant].state # "free"
    BY <1>3 DEF Revoke, CallsFit, At, Stored
  <2>2. grants' = [grants EXCEPT ![call[c].grant].state = "revoked"]
    BY <1>3 DEF Revoke
  <2>3. \A g \in Grants : /\ g # call[c].grant => grants'[g] = grants[g]
                          /\ g = call[c].grant => grants'[g].state = "revoked"
    BY <2>1, <2>2 DEF GrantType
  <2>4. QED
    BY <1>0, <2>1, <2>3
<1>4. CASE UNCHANGED grants /\ \A g \in Grants : owners'[g] = None => owners[g] = None
  BY <1>0, <1>4
<1>5. CASE InsertOwner(c) \/ Forget(c)
  <2>1. \A g \in Grants : owners'[g] \in {owners[g], Missing, call[c].token}
                          /\ (Forget(c) => owners'[g] \in {owners[g], Missing})
    BY <1>5 DEF InsertOwner, Forget
  <2>2. UNCHANGED grants
    BY <1>5 DEF InsertOwner, Forget
  <2>3. QED
    BY <1>1, <1>4, <1>5, <2>1, <2>2
<1>6. CASE UNCHANGED <<grants, owners>>
  BY <1>4, <1>6
<1>7. QED
  BY <1>2, <1>3, <1>5, <1>6 DEF Step, BeginInit, Lookup, SnapshotGrants,
     Count, SnapshotLive, BeginEnd, CheckOwner

\* A tokenless call is admitted below the cap on the sessions it saw.
LEMMA AdmittedPasses ==
    ASSUME HostAssumption, TypeOK, NEW c \in Calls, Count(c), call'[c].at = "add",
           NEW ids \in SUBSET Tokenless(Live), call'[c].token = None
    PROVE  c \in Passing(ids)
<1>1. ids \cap call[c].open \subseteq Tokenless(call[c].open)
  BY DEF Tokenless
<1>2. ~Finish(c)
  BY FinishIdles
<1>3. At(c, "count") /\ call[c].token = None
      /\ Cardinality(Tokenless(call[c].open)) < MaxTokenless
  <2>1. /\ Admit(Cardinality(call[c].stored), Cardinality(Tokenless(call[c].open)),
                 call[c].token = None)
        /\ call' = [call EXCEPT ![c] = [@ EXCEPT !.at = "add", !.stored = {},
                                                !.open = {}]]
    BY <1>2 DEF Count
  <2>2. call[c].token = None
    BY <2>1 DEF TypeOK, CallType
  <2>3. QED
    BY <2>1, <2>2 DEF Count, Admit
<1>4. IsFiniteSet(Tokenless(call[c].open))
  <2>1. Tokenless(call[c].open) \subseteq Grants
    BY DEF Tokenless, TypeOK, CallType
  <2>2. QED
    BY <2>1, FS_Subset DEF HostAssumption
<1>5. Cardinality(ids \cap call[c].open) <= Cardinality(Tokenless(call[c].open))
  BY <1>1, <1>4, FS_Subset
<1>6. /\ Cardinality(Tokenless(call[c].open)) \in Nat /\ MaxTokenless \in Nat
      /\ Cardinality(ids \cap call[c].open) \in Nat
  BY <1>1, <1>4, FS_Subset, FS_CardinalityType DEF HostAssumption
<1>7. QED
  BY <1>3, <1>5, <1>6 DEF Passing

LEMMA TokenlessStep ==
    ASSUME HostAssumption, TypeOK, CallsFit, TokenlessCounted, NEW c \in Calls, Step(c)
    PROVE  TokenlessCounted'
<1>1. CASE InsertOwner(c) /\ call[c].token = None
  <2>1. \A g \in Grants : grants'[g].state = "free" => owners'[g] # None
    <3>1. /\ UNCHANGED grants /\ call[c].grant \in Stored
          /\ \A g \in Grants \ {call[c].grant} : owners'[g] \in {owners[g], Missing}
      BY <1>1 DEF InsertOwner, CallsFit, At, TypeOK
    <3>2. \A g \in Grants : grants[g].state = "free" => owners[g] # None
      BY DEF TokenlessCounted
    <3>3. QED
      BY <3>1, <3>2 DEF Stored, HostAssumption
  <2>2. \A ids \in SUBSET Tokenless(Live)' :
           Cardinality(ids) + Cardinality(Passing(ids)')
              <= MaxTokenless - 1 + Cardinality(Calls)
    BY <1>1, InsertCounted
  <2>3. QED
    BY <2>1, <2>2 DEF TokenlessCounted
<1>2. CASE ~(InsertOwner(c) /\ call[c].token = None)
  <2>1. /\ Tokenless(Live)' \subseteq Tokenless(Live)
        /\ \A g \in Grants : grants'[g].state = "free" => owners'[g] # None
    BY <1>2, RecordShrinks
  <2>2. CASE SnapshotGrants(c)
    <3>1. \A ids \in SUBSET Tokenless(Live) :
             Cardinality(ids) + Cardinality(Passing(ids)')
                <= MaxTokenless - 1 + Cardinality(Calls)
      BY <2>2, SnapshotCounted
    <3>2. QED
      BY <2>1, <3>1 DEF TokenlessCounted
  <2>3. ASSUME ~SnapshotGrants(c), NEW ids \in SUBSET Tokenless(Live)
        PROVE  Passing(ids)' \subseteq Passing(ids)
    <3>1. CASE Count(c) /\ call'[c].at = "add"
      BY <3>1, AdmittedPasses, PassingKept
    <3>2. CASE AddGrant(c) /\ call'[c].at = "live"
      <4>1. call[c] \in CallType /\ call[c].at = "add"
               /\ \E g \in Grants : call'[c] = [call[c] EXCEPT !.at = "live", !.grant = g]
        BY <3>2, GrantAdded DEF AddGrant, At, TypeOK
      <4>2. call'[c].token = call[c].token
        BY <4>1 DEF CallType
      <4>3. QED
        BY <3>2, <4>1, <4>2, PassingKept
    <3>3. CASE SnapshotLive(c) /\ call'[c].at = "insert"
      <4>1. call'[c].token = call[c].token /\ call[c].at = "live"
        BY <3>3 DEF SnapshotLive, At, TypeOK, CallType
      <4>2. QED
        BY <3>3, <4>1, PassingKept
    <3>4. CASE call'[c].at \notin {"count", "add", "live", "insert"}
      BY <3>4, PassingKept
    <3>5. QED
      BY <2>3, <3>1, <3>2, <3>3, <3>4, CallCases
  <2>4. QED
    BY <2>1, <2>2, <2>3, TokenlessKept
<1>3. QED
  BY <1>1, <1>2

\* A host without calls and grants has nobody on record.
LEMMA FreshRecord ==
    ASSUME HostAssumption, call = [c \in Calls |-> Idle],
           grants = [g \in Grants |-> Free], owners = [g \in Grants |-> Missing]
    PROVE  TokenlessCounted
<1>1. Tokenless(Live) = {}
  BY DEF Tokenless, Live, Free
<1>2. Passing({}) = {}
  BY DEF Passing, Idle, At
<1>3. Cardinality({}) = 0 /\ Cardinality(Calls) \in Nat /\ MaxTokenless \in Nat \ {0}
  BY FS_EmptySet, FS_CardinalityType DEF HostAssumption
<1>4. QED
  BY <1>1, <1>2, <1>3 DEF TokenlessCounted, HostAssumption

LEMMA FreshRecordNext ==
    ASSUME HostAssumption, call' = [c \in Calls |-> Idle],
           grants' = [g \in Grants |-> Free], owners' = [g \in Grants |-> Missing]
    PROVE  TokenlessCounted'
<1>1. Tokenless(Live)' = {}
  BY DEF Tokenless, Live, Free
<1>2. Passing({})' = {}
  BY DEF Passing, Idle, At
<1>3. Cardinality({}) = 0 /\ Cardinality(Calls) \in Nat /\ MaxTokenless \in Nat \ {0}
  BY FS_EmptySet, FS_CardinalityType DEF HostAssumption
<1>4. QED
  BY <1>1, <1>2, <1>3 DEF TokenlessCounted, HostAssumption

-----------------------------------------------------------------------------
(* Tokens, time and restarts.                                              *)

\* Calls leave the tokens alone.
LEMMA TokensKept ==
    ASSUME NEW c \in Calls, Step(c)
    PROVE  UNCHANGED tokenVars
BY DEF Step, BeginInit, Lookup, SnapshotGrants, Count, AddGrant,
       SnapshotLive, InsertOwner, BeginEnd, CheckOwner, Revoke, Forget

\* What is known of the tokens and their file.
VaultFits == OnlyIssued /\ VaultCurrent

LEMMA VaultStep ==
    ASSUME TypeOK, VaultFits, NEW k \in Tokens,
           CreateToken(k) \/ RevokeToken(k) \/ TokenExpires(k)
    PROVE  VaultFits'
<1> USE DEF VaultFits, OnlyIssued, VaultCurrent
<1>1. tokens \in TokenTable /\ disk \in TokenTable
  BY DEF TypeOK
<1>2. CASE CreateToken(k)
  <2>1. /\ tokens' \in TokenTable /\ k \in issued' /\ issued \subseteq issued'
        /\ tokens'[k] = "active" /\ \A j \in Tokens \ {k} : tokens'[j] = tokens[j]
        /\ UNCHANGED unsaved /\ Save(tokens')
    BY <1>1, <1>2 DEF CreateToken, TokenTable
  <2>2. \A j \in Tokens : disk'[j] \in {tokens'[j], disk[j], "none"}
    BY <1>1, <2>1, SaveTyped
  <2>3. QED
    BY <2>1, <2>2
<1>3. CASE RevokeToken(k)
  <2>1. /\ tokens' \in TokenTable /\ UNCHANGED issued /\ tokens[k] # "none"
        /\ tokens'[k] = "revoked" /\ \A j \in Tokens \ {k} : tokens'[j] = tokens[j]
        /\ Save(tokens')
    BY <1>1, <1>3 DEF RevokeToken, TokenTable
  <2>2. \A j \in Tokens : disk'[j] \in {tokens'[j], disk[j], "none"}
    BY <1>1, <2>1, SaveTyped
  <2>3. /\ disk'[k] = "active" => k \in unsaved'
        /\ \A j \in Tokens \ {k} : j \in unsaved' <=> j \in unsaved
    BY <1>3 DEF RevokeToken
  <2>4. QED
    BY <2>1, <2>2, <2>3
<1>4. CASE TokenExpires(k)
  BY <1>4 DEF TokenExpires
<1>5. QED
  BY <1>2, <1>3, <1>4

\* Parts of the invariant that the tokens do not touch.
CallVars == <<call, grants, owners, answered, raced>>

LEMMA CallsKept ==
    ASSUME IInv, UNCHANGED CallVars
    PROVE  /\ TotalCounted' /\ CallsFit' /\ LiveSetsCover' /\ OwnersKept'
           /\ RevokersVetted' /\ PolicyCapped'
<1> USE DEF CallVars, IInv, At
<1>1. Stored' = Stored
  BY DEF Stored
<1>2. TotalCounted'
  BY <1>1 DEF TotalCounted, Admissible
<1>3. CallsFit' /\ LiveSetsCover'
  BY <1>1 DEF CallsFit, LiveSetsCover
<1>4. OwnersKept' /\ RevokersVetted' /\ PolicyCapped'
  BY <1>1 DEF OwnersKept, RevokersVetted, PolicyCapped
<1>5. QED
  BY <1>2, <1>3, <1>4

\* An expired grant is stored, by the same token, and was not revoked.
LEMMA ExpiryStep ==
    ASSUME HostAssumption, IInv, NEW g \in Grants, GrantExpires(g)
    PROVE  /\ TotalCounted' /\ CallsFit' /\ LiveSetsCover' /\ OwnersKept'
           /\ RevokersVetted' /\ PolicyCapped'
<1> USE DEF IInv, At
<1>1. UNCHANGED <<call, owners, answered, raced>>
  BY DEF GrantExpires
<1>2. \A h \in Grants : /\ grants'[h].by = grants[h].by
                        /\ grants'[h].policy = grants[h].policy
                        /\ grants'[h].state = "free" <=> grants[h].state = "free"
                        /\ grants'[h].state = "revoked" <=> grants[h].state = "revoked"
  BY DEF GrantExpires, TypeOK, GrantType
<1>3. Stored' = Stored /\ Stored \subseteq Grants
  BY <1>2 DEF Stored
<1>4. TotalCounted'
  BY <1>1, <1>3 DEF TotalCounted, Admissible
<1>5. CallsFit' /\ LiveSetsCover'
  BY <1>1, <1>2, <1>3 DEF CallsFit, LiveSetsCover
<1>6. OwnersKept' /\ PolicyCapped'
  BY <1>1, <1>2, <1>3 DEF OwnersKept, PolicyCapped
<1>7. RevokersVetted'
  <2>1. \A c \in Calls : call[c].at = "revoke" => call[c].grant \in Grants
    BY <1>3 DEF CallsFit
  <2>2. QED
    BY <1>1, <1>2, <2>1 DEF RevokersVetted
<1>8. QED
  BY <1>4, <1>5, <1>6, <1>7

\* With no calls and no grants the invariant is about the tokens only.
LEMMA FreshHost ==
    ASSUME HostAssumption, call = [c \in Calls |-> Idle],
           grants = [g \in Grants |-> Free], answered = {}
    PROVE  /\ TotalCounted /\ CallsFit /\ LiveSetsCover /\ OwnersKept
           /\ RevokersVetted /\ PolicyCapped
<1>1. \A c \in Calls : call[c].at = "idle"
  BY DEF Idle
<1>2. Stored = {} /\ Admissible = {}
  BY <1>1 DEF Stored, Free, Admissible, At
<1>3. TotalCounted
  BY <1>2, FS_EmptySet, FS_CardinalityType DEF TotalCounted, HostAssumption
<1>4. CallsFit /\ LiveSetsCover /\ OwnersKept /\ RevokersVetted
  BY <1>1 DEF CallsFit, LiveSetsCover, OwnersKept, RevokersVetted, At
<1>5. PolicyCapped
  BY <1>1 DEF PolicyCapped, Free
<1>6. QED
  BY <1>3, <1>4, <1>5

LEMMA FreshHostNext ==
    ASSUME HostAssumption, call' = [c \in Calls |-> Idle],
           grants' = [g \in Grants |-> Free], answered' = {}
    PROVE  /\ TotalCounted' /\ CallsFit' /\ LiveSetsCover' /\ OwnersKept'
           /\ RevokersVetted' /\ PolicyCapped'
<1>1. \A c \in Calls : call'[c].at = "idle"
  BY DEF Idle
<1>2. Stored' = {} /\ Admissible' = {}
  BY <1>1 DEF Stored, Free, Admissible, At
<1>3. TotalCounted'
  BY <1>2, FS_EmptySet, FS_CardinalityType DEF TotalCounted, HostAssumption
<1>4. CallsFit' /\ LiveSetsCover' /\ OwnersKept' /\ RevokersVetted'
  BY <1>1 DEF CallsFit, LiveSetsCover, OwnersKept, RevokersVetted, At
<1>5. PolicyCapped'
  BY <1>1 DEF PolicyCapped, Free
<1>6. QED
  BY <1>3, <1>4, <1>5

LEMMA RestartStep ==
    ASSUME HostAssumption, IInv, Restart
    PROVE  IInv'
<1>1. TypeOK'
  BY EnvironmentTyped DEF IInv
<1>2. /\ TotalCounted' /\ CallsFit' /\ LiveSetsCover' /\ OwnersKept'
      /\ RevokersVetted' /\ PolicyCapped'
  BY FreshHostNext DEF Restart
<1>3. OnlyIssued' /\ VaultCurrent'
  BY DEF Restart, LoadSealing, LoadPlain, NoTokens, IInv, OnlyIssued, VaultCurrent
<1>4. QED
  BY <1>1, <1>2, <1>3 DEF IInv

-----------------------------------------------------------------------------
(* The invariant.                                                          *)

LEMMA InvariantInit == HostAssumption /\ Init => IInv
<1> SUFFICES ASSUME HostAssumption, Init PROVE IInv
  OBVIOUS
<1>1. tokens \in TokenTable /\ disk \in TokenTable
  BY IdleTyped DEF Init, TokenTable, NoTokens
<1>2. TypeOK
  <2>1. call \in [Calls -> CallType] /\ grants \in [Grants -> GrantType]
    BY IdleTyped DEF Init
  <2>2. owners \in [Grants -> Callers \cup {Missing}]
    BY DEF Init
  <2>3. restarts \in 0 .. MaxRestarts /\ saving \in BOOLEAN /\ plain \in BOOLEAN
    <3>1. restarts \in 0 .. MaxRestarts
      BY DEF Init, HostAssumption
    <3>2. \/ saving \in {FALSE, Storage} /\ plain = FALSE
          \/ plain \in BOOLEAN /\ saving = ~plain
      BY Zenon DEF Init
    <3>3. Storage \in BOOLEAN
      BY DEF HostAssumption
    <3>4. saving \in BOOLEAN /\ plain \in BOOLEAN
      BY <3>2, <3>3
    <3>5. QED
      BY <3>1, <3>4
  <2>4. /\ answered \subseteq Grants /\ raced \subseteq Grants
        /\ lapsed \subseteq Tokens /\ issued \subseteq Tokens /\ unsaved \subseteq Tokens
    BY DEF Init
  <2>5. QED
    BY <1>1, <2>1, <2>2, <2>3, <2>4 DEF TypeOK
<1>3. /\ TotalCounted /\ CallsFit /\ LiveSetsCover /\ OwnersKept
      /\ RevokersVetted /\ PolicyCapped
  BY FreshHost DEF Init
<1>4. OnlyIssued /\ VaultCurrent
  BY DEF Init, NoTokens, OnlyIssued, VaultCurrent
<1>5. QED
  BY <1>2, <1>3, <1>4 DEF IInv

LEMMA InvariantStep == HostAssumption /\ IInv /\ [Next]_vars => IInv'
<1> SUFFICES ASSUME HostAssumption, IInv, [Next]_vars PROVE IInv'
  OBVIOUS
<1>1. ASSUME NEW c \in Calls, Step(c) PROVE IInv'
  <2>1. TypeOK' /\ CallsFit'
    BY <1>1, StepTyped, FitStep DEF IInv, OwnersKept
  <2>2. TotalCounted' /\ LiveSetsCover'
    BY <1>1, CountStep, LiveStep DEF IInv
  <2>3. OwnersKept' /\ RevokersVetted' /\ PolicyCapped'
    BY <1>1, OwnerStep, VettedStep, PolicyStep DEF IInv
  <2>4. OnlyIssued' /\ VaultCurrent'
    BY <1>1, TokensKept DEF IInv, tokenVars, OnlyIssued, VaultCurrent
  <2>5. QED
    BY <2>1, <2>2, <2>3, <2>4 DEF IInv
<1>2. ASSUME NEW k \in Tokens, CreateToken(k) \/ RevokeToken(k) \/ TokenExpires(k)
      PROVE  IInv'
  <2>1. TypeOK'
    BY <1>2, EnvironmentTyped DEF IInv
  <2>2. VaultFits'
    BY <1>2, VaultStep DEF IInv, VaultFits
  <2>3. UNCHANGED CallVars
    BY <1>2 DEF CreateToken, RevokeToken, TokenExpires, CallVars
  <2>4. QED
    BY <2>1, <2>2, <2>3, CallsKept DEF IInv, VaultFits
<1>3. ASSUME NEW g \in Grants, GrantExpires(g) PROVE IInv'
  <2>1. TypeOK'
    BY <1>3, EnvironmentTyped DEF IInv
  <2>2. OnlyIssued' /\ VaultCurrent'
    BY <1>3 DEF GrantExpires, IInv, tokenVars, OnlyIssued, VaultCurrent
  <2>3. QED
    BY <1>3, <2>1, <2>2, ExpiryStep DEF IInv
<1>4. CASE Restart
  BY <1>4, RestartStep
<1>5. CASE UNCHANGED vars
  <2>1. TypeOK' /\ OnlyIssued' /\ VaultCurrent'
    BY <1>5 DEF vars, tokenVars, IInv, TypeOK, OnlyIssued, VaultCurrent
  <2>2. UNCHANGED CallVars
    BY <1>5 DEF vars, CallVars
  <2>3. QED
    BY <2>1, <2>2, CallsKept DEF IInv
<1>6. QED
  BY <1>1, <1>2, <1>3, <1>4, <1>5 DEF Next

\* The invariant of the MCP host holds in every reachable state: caps, live
\* sets, owners, policies and the file of tokens.
THEOREM Invariance == Spec => []IInv
<1>1. Init => IInv
  BY InvariantInit, HostAssumption
<1>2. IInv /\ [Next]_vars => IInv'
  BY InvariantStep, HostAssumption
<1>3. QED
  BY <1>1, <1>2, PTL DEF Spec

\* Every variable of the host keeps its type.
THEOREM TypeCorrect == Spec => []TypeOK
<1>1. IInv => TypeOK
  BY DEF IInv
<1>2. QED
  BY <1>1, Invariance, PTL

\* MAX_TOTAL_GRANTS is overrun by at most one grant per further call in flight,
\* whatever the number of calls.
THEOREM TotalSafety == Spec => []TotalBounded
<1>1. IInv => TotalBounded
  BY HostAssumption, CountsFit DEF IInv, TotalCounted, TotalBounded, HostAssumption
<1>2. QED
  BY <1>1, Invariance, PTL

\* MAX_ACTIVE_TOKENLESS_GRANTS is overrun by at most one session on record per
\* further call in flight, whatever the number of calls.
THEOREM TokenlessSafety == Spec => []TokenlessBounded
<1>1. Init => TokenlessCounted
  <2>1. HostAssumption /\ call = [c \in Calls |-> Idle]
           /\ grants = [g \in Grants |-> Free] /\ owners = [g \in Grants |-> Missing]
        => TokenlessCounted
    BY FreshRecord
  <2>2. QED
    BY <2>1, HostAssumption DEF Init
<1>2. IInv /\ TokenlessCounted /\ [Next]_vars => TokenlessCounted'
  <2> SUFFICES ASSUME IInv, TokenlessCounted, [Next]_vars PROVE TokenlessCounted'
    OBVIOUS
  <2>1. ASSUME NEW c \in Calls, Step(c) PROVE TokenlessCounted'
    BY <2>1, HostAssumption, TokenlessStep DEF IInv
  <2>2. CASE UNCHANGED <<call, owners>> /\ (UNCHANGED grants \/ \E g \in Grants : GrantExpires(g))
    <3>1. \A g \in Grants : /\ grants'[g].state = "free" <=> grants[g].state = "free"
                            /\ grants'[g].state = "live" => grants[g].state = "live"
      BY <2>2 DEF GrantExpires, IInv, TypeOK, GrantType
    <3>2. Tokenless(Live)' \subseteq Tokenless(Live)
      BY <2>2, <3>1 DEF Tokenless, Live
    <3>3. \A ids \in SUBSET Tokenless(Live) : Passing(ids)' \subseteq Passing(ids)
      BY <2>2 DEF Passing, At
    <3>4. \A g \in Grants : grants'[g].state = "free" => owners'[g] # None
      BY <2>2, <3>1 DEF TokenlessCounted
    <3>5. QED
      BY <3>2, <3>3, <3>4, TokenlessKept, HostAssumption
  <2>3. CASE Restart
    BY <2>3, FreshRecordNext, HostAssumption DEF Restart
  <2>4. QED
    BY <2>1, <2>2, <2>3 DEF Next, CreateToken, RevokeToken, TokenExpires, GrantExpires, vars
<1>3. IInv /\ TokenlessCounted => TokenlessBounded
  <2> SUFFICES ASSUME IInv, TokenlessCounted PROVE TokenlessBounded
    OBVIOUS
  <2> DEFINE open == Tokenless(Live)
  <2>1. open = {g \in Live : owners[g] = None} /\ open \in SUBSET Grants
    BY DEF Tokenless, Live
  <2>2. Cardinality(open) + Cardinality(Passing(open))
           <= MaxTokenless - 1 + Cardinality(Calls)
    BY DEF TokenlessCounted
  <2>3. QED
    BY <2>1, <2>2, PassingFits, HostAssumption DEF TokenlessBounded
<1>4. QED
  BY <1>1, <1>2, <1>3, Invariance, PTL DEF Spec

\* Sessions opened with a token are ended by who presents it, unless raced.
THEOREM OwnerSafety == Spec => SessionsEndByOwner
<1>1. IInv /\ [Next]_vars =>
         [\A g \in Grants \ raced :
             /\ grants[g].state # "revoked" /\ grants'[g].state = "revoked"
             /\ grants[g].by \in Tokens
             => \E c \in Calls : /\ At(c, "revoke") /\ call[c].grant = g
                                 /\ call[c].token = grants[g].by \/ ~call[c].known]_vars
  <2> SUFFICES ASSUME IInv, Next, NEW g \in Grants \ raced,
                      grants[g].state # "revoked", grants'[g].state = "revoked",
                      grants[g].by \in Tokens
               PROVE  \E c \in Calls :
                         /\ At(c, "revoke") /\ call[c].grant = g
                         /\ call[c].token = grants[g].by \/ ~call[c].known
    OBVIOUS
  <2>1. CASE \E c \in Calls : Revoke(c) /\ call[c].grant = g
    BY <2>1 DEF Revoke, IInv, RevokersVetted
  <2>2. ASSUME NEW c \in Calls, Step(c), ~(Revoke(c) /\ call[c].grant = g)
        PROVE  FALSE
    <3>1. CASE AddGrant(c)
      <4>1. PICK h \in Grants \ Stored :
               /\ grants'[h] = [state |-> "live", by |-> call[c].token,
                                policy |-> call[c].policy]
               /\ \A i \in Grants \ {h} : grants'[i] = grants[i]
        BY <2>2, <3>1, GrantAdded DEF IInv
      <4>2. grants'[h].state = "live"
        BY <4>1
      <4>3. QED
        BY <4>1, <4>2
    <3>2. CASE Revoke(c)
      BY <2>2, <3>2 DEF Revoke, IInv, TypeOK
    <3>3. CASE UNCHANGED grants
      BY <3>3
    <3>4. QED
      BY <2>2, <3>1, <3>2, <3>3 DEF Step, BeginInit, Lookup, SnapshotGrants,
         Count, SnapshotLive, InsertOwner, BeginEnd, CheckOwner, Forget
  <2>3. CASE \E h \in Grants : GrantExpires(h)
    BY <2>3 DEF GrantExpires, IInv, TypeOK, GrantType
  <2>4. CASE \E k \in Tokens : CreateToken(k) \/ RevokeToken(k) \/ TokenExpires(k)
    BY <2>4 DEF CreateToken, RevokeToken, TokenExpires
  <2>5. CASE Restart
    BY <2>5 DEF Restart, Free
  <2>6. QED
    BY <2>1, <2>2, <2>3, <2>4, <2>5 DEF Next
<1>2. QED
  BY <1>1, Invariance, PTL DEF Spec, SessionsEndByOwner

LEMMA RevokedKept ==
    ASSUME HostAssumption, IInv, Next
    PROVE  KeepsRevoked
<1> SUFFICES ASSUME NEW k \in Tokens \ unsaved, tokens[k] = "revoked"
             PROVE  tokens'[k] # "active"
  BY DEF KeepsRevoked
<1>1. disk[k] # "active" /\ k \in issued /\ tokens \in TokenTable
  BY DEF IInv, VaultCurrent, OnlyIssued, TypeOK
<1>2. ASSUME NEW c \in Calls, Step(c) PROVE tokens'[k] # "active"
  BY <1>2, TokensKept DEF tokenVars
<1>3. ASSUME NEW j \in Tokens, CreateToken(j) \/ RevokeToken(j) \/ TokenExpires(j)
      PROVE  tokens'[k] # "active"
  BY <1>1, <1>3 DEF CreateToken, RevokeToken, TokenExpires, TokenTable
<1>4. CASE \E g \in Grants : GrantExpires(g)
  BY <1>4 DEF GrantExpires, tokenVars
<1>5. CASE Restart
  BY <1>1, <1>5 DEF Restart, LoadSealing, LoadPlain, NoTokens
<1> QED BY <1>2, <1>3, <1>4, <1>5 DEF Next

\* A revoked token stays unusable, restarts included, unless its save failed.
THEOREM RevocationSafety == Spec => RevocationDurable
<1>1. IInv /\ [Next]_vars => [KeepsRevoked]_vars
  BY RevokedKept, HostAssumption
<1>2. QED
  BY <1>1, Invariance, PTL DEF Spec, RevocationDurable
==============================================================================
