------------------------- MODULE SharedRecordsProofs -------------------------
(***************************************************************************)
(* Theorems about the records that requests and workers share: first about *)
(* RefreshTokens, for any number of requests, tokens and refreshes; then   *)
(* about MCSharedRecords, the components side by side, of which the run    *)
(* checks an instance: what is proved of each component, in this module    *)
(* and in the ones it extends, holds of all of them together.              *)
(***************************************************************************)
EXTENDS MCSharedRecords, LimitProofs, LeadIngestProofs, ClosedLoopProofs, CampaignRunProofs, TLAPS

-----------------------------------------------------------------------------
(* Refresh tokens.  No operation makes a token live again: what two        *)
(* requests can both consume, they had both loaded before, and what is     *)
(* live in an ended family was issued by a request that had loaded its     *)
(* token before.                                                           *)

\* What requests and rows name exists.
Existing ==
    /\ \A c \in TokenCallers : refresh[c] # NoToken => refresh[c] \in Issued
    /\ \A c \in TokenCallers : other[c] # NoToken => other[c][2] \in Issued
    /\ \A t \in Issued : family[t] \in Issued
    /\ \A t \in Issued : parent[t] # NoToken => parent[t] \in Issued
    /\ ended \subseteq Issued

\* A token that nobody contested has one request that refreshes it at most,
\* and none once it has a successor; a token with a successor is not live.
Lineage ==
    /\ \A c, d \in TokenCallers :
         c # d /\ refresh[c] # NoToken /\ refresh[c] = refresh[d]
            => refresh[c] \in contested
    /\ \A c \in TokenCallers : \A t \in Issued :
         refresh[c] # NoToken /\ parent[t] = refresh[c] => refresh[c] \in contested
    /\ \A t \in Issued : parent[t] # NoToken => ~ Live(parent[t])

\* Whoever refreshes a token of an ended family had loaded it before.
Outlived ==
    \A c \in TokenCallers :
        refresh[c] # NoToken /\ family[refresh[c]] \in ended => refresh[c] \in spared

TokenInv ==
    /\ TokenTypeOK /\ Existing
    /\ Lineage /\ OneUseUnlessContested
    /\ Outlived /\ EndedFamiliesStayEnded

-----------------------------------------------------------------------------
(* Every step preserves it.                                                *)

\* No token is issued yet.
LEMMA TokensInitially == TokenInit => TokenInv
<1> SUFFICES ASSUME TokenInit PROVE TokenInv
  OBVIOUS
<1> USE TokenAssumption DEF TokenAssumption
<1>1. Issued = {}
  BY DEF TokenInit, Issued
<1>2. TokenTypeOK
  BY DEF TokenInit, TokenTypeOK, Tokens, Families, Standing, Reasons
<1> QED
  BY <1>1, <1>2 DEF TokenInit, TokenInv, Existing, Lineage, Outlived,
     OneUseUnlessContested, EndedFamiliesStayEnded

\* What an INSERT does: there is one more token, and the others are as before.
LEMMA IssueEffect ==
    ASSUME TokenTypeOK, NEW f \in Tokens, NEW p \in Tokens \cup {NoToken}, Issue(f, p)
    PROVE  /\ count + 1 \in Tokens /\ count + 1 \notin Issued
           /\ count' \in 0..MaxTokens
           /\ family' \in [Tokens -> Families]
           /\ parent' \in [Tokens -> Tokens \cup {NoToken}]
           /\ Issued' = Issued \cup {count + 1}
           /\ family'[count + 1] = f /\ parent'[count + 1] = p
           /\ \A u \in Issued : family'[u] = family[u] /\ parent'[u] = parent[u]
<1>1. /\ count \in Nat /\ count < MaxTokens /\ count' = count + 1
      /\ Issued = 1..count /\ Issued' = 1..(count + 1) /\ Tokens = 1..MaxTokens
  BY TokenAssumption DEF TokenAssumption, TokenTypeOK, Issue, Issued, Tokens
<1>2. /\ count + 1 \in Tokens /\ count + 1 \notin Issued /\ count' \in 0..MaxTokens
      /\ Issued' = Issued \cup {count + 1} /\ Issued \subseteq Tokens
  BY <1>1, TokenAssumption DEF TokenAssumption
<1>3. /\ family' = [family EXCEPT ![count + 1] = f]
      /\ parent' = [parent EXCEPT ![count + 1] = p]
      /\ family \in [Tokens -> Families] /\ parent \in [Tokens -> Tokens \cup {NoToken}]
      /\ Families = Tokens
  BY DEF Issue, TokenTypeOK, Families
<1> QED BY <1>2, <1>3

\* A login starts a family of its own.
LEMMA LoginStep == TokenInv /\ Login => TokenInv'
<1> SUFFICES ASSUME TokenInv, Login PROVE TokenInv'
  OBVIOUS
<1> DEFINE new == count + 1
<1>1. TokenTypeOK /\ Existing /\ Issue(new, NoToken) /\ new \in Tokens
  BY TokenAssumption DEF TokenInv, Login, Issue, TokenAssumption, TokenTypeOK, Tokens
<1>2. UNCHANGED <<standing, expired, active, refresh, other, sent, contested, ended, spared>>
  BY DEF Login, history
<1>3. /\ new \in Tokens /\ new \notin Issued /\ count' \in 0..MaxTokens
      /\ family' \in [Tokens -> Families] /\ parent' \in [Tokens -> Tokens \cup {NoToken}]
      /\ Issued' = Issued \cup {new}
      /\ family'[new] = new /\ parent'[new] = NoToken
      /\ \A u \in Issued : family'[u] = family[u] /\ parent'[u] = parent[u]
  BY <1>1, IssueEffect
<1> HIDE DEF new
<1>4. TokenTypeOK'
  BY <1>1, <1>2, <1>3 DEF TokenTypeOK
<1>5. Existing'
  BY <1>1, <1>2, <1>3 DEF Existing
<1>6. Lineage' /\ OneUseUnlessContested'
  BY <1>1, <1>2, <1>3 DEF TokenInv, Existing, Lineage, OneUseUnlessContested, Live
<1>7. Outlived' /\ EndedFamiliesStayEnded'
  BY <1>1, <1>2, <1>3 DEF TokenInv, Existing, Outlived, EndedFamiliesStayEnded, Live
<1> QED BY <1>4, <1>5, <1>6, <1>7 DEF TokenInv

\* A refresh issues a successor in the family of the token that it consumes.
LEMMA RotateStep == ASSUME TokenInv, NEW c \in TokenCallers, Rotate(c) PROVE TokenInv'
<1> DEFINE old == refresh[c]
<1> DEFINE new == count + 1
<1>1. /\ TokenTypeOK /\ Existing /\ old # NoToken /\ old \in Issued /\ old \in Tokens
      /\ family[old] \in Tokens /\ family[old] \in Issued /\ Issue(family[old], old)
  <2>1. TokenTypeOK /\ Existing /\ old # NoToken /\ Issue(family[old], old)
    BY DEF TokenInv, Rotate
  <2>2. old \in Issued /\ old \in Tokens
    BY <2>1 DEF TokenTypeOK, Existing
  <2> QED BY <2>1, <2>2 DEF TokenTypeOK, Existing, Families
<1>2. /\ standing' = [standing EXCEPT ![old] = "rotated"]
      /\ refresh' = [refresh EXCEPT ![c] = NoToken]
      /\ spared' = IF old \in spared THEN spared \cup {new} ELSE spared
      /\ UNCHANGED <<expired, active, other, sent, contested, ended>>
  BY DEF Rotate, Rotated
<1>3. /\ new \in Tokens /\ new \notin Issued /\ count' \in 0..MaxTokens
      /\ family' \in [Tokens -> Families] /\ parent' \in [Tokens -> Tokens \cup {NoToken}]
      /\ Issued' = Issued \cup {new}
      /\ family'[new] = family[old] /\ parent'[new] = old
      /\ \A u \in Issued : family'[u] = family[u] /\ parent'[u] = parent[u]
  BY <1>1, IssueEffect
<1> HIDE DEF new
<1>4. TokenTypeOK'
  BY <1>1, <1>2, <1>3 DEF TokenTypeOK, Standing, Reasons
<1>5. /\ \A d \in TokenCallers : refresh'[d] = IF d = c THEN NoToken ELSE refresh[d]
      /\ \A u \in Tokens : standing'[u] = IF u = old THEN "rotated" ELSE standing[u]
      /\ Issued \subseteq Tokens
  BY <1>1, <1>2, TokenAssumption DEF TokenAssumption, TokenTypeOK, Issued, Tokens
<1>6. Existing'
  BY <1>1, <1>2, <1>3, <1>5 DEF Existing
<1>7. Lineage'
  BY <1>1, <1>2, <1>3, <1>5 DEF TokenInv, Existing, Lineage, Live
<1>8. OneUseUnlessContested'
  BY <1>1, <1>2, <1>3 DEF TokenInv, Existing, Lineage, OneUseUnlessContested
<1>9. Outlived' /\ EndedFamiliesStayEnded'
  BY <1>1, <1>2, <1>3, <1>5 DEF TokenInv, Existing, Outlived, EndedFamiliesStayEnded, Live
<1> QED BY <1>4, <1>6, <1>7, <1>8, <1>9 DEF TokenInv

\* A read: what is loaded is live, and has no successor.
LEMMA LoadStep ==
    ASSUME TokenInv, NEW c \in TokenCallers, NEW t \in Issued, Load(c, t)
    PROVE  TokenInv'
<1>1. /\ TokenTypeOK /\ Existing
      /\ refresh[c] = NoToken /\ Live(t) /\ sent < MaxRequests /\ sent' = sent + 1
      /\ refresh' = [refresh EXCEPT ![c] = t]
      /\ contested' = IF t \in Refreshing THEN contested \cup {t} ELSE contested
      /\ UNCHANGED <<count, standing, family, parent, expired, active, other, ended, spared>>
  BY DEF TokenInv, Load, Presents, Idle, Refreshable, tokenRows
<1>2. t \in Tokens /\ t # NoToken /\ Issued' = Issued
  BY <1>1, TokenAssumption DEF TokenAssumption, TokenTypeOK, Issued, Tokens
<1>3. \A d \in TokenCallers : refresh'[d] = IF d = c THEN t ELSE refresh[d]
  BY <1>1 DEF TokenTypeOK
<1>4. TokenTypeOK'
  <2>1. sent' \in 0..MaxRequests
    BY <1>1, TokenAssumption DEF TokenAssumption, TokenTypeOK
  <2> QED BY <1>1, <1>2, <2>1 DEF TokenTypeOK
<1>5. Existing'
  BY <1>1, <1>2, <1>3 DEF Existing
<1>6. Lineage'
  BY <1>1, <1>2, <1>3 DEF TokenInv, Lineage, Live, Refreshing
<1>7. OneUseUnlessContested'
  BY <1>1, <1>2 DEF TokenInv, OneUseUnlessContested
<1>8. Outlived' /\ EndedFamiliesStayEnded'
  BY <1>1, <1>2, <1>3 DEF TokenInv, Outlived, EndedFamiliesStayEnded, Live
<1> QED BY <1>4, <1>5, <1>6, <1>7, <1>8 DEF TokenInv

\* A step that leaves the rows alone, and of the requests at most forgets
\* refreshes or notes what else is to be committed.
LEMMA IdleStep ==
    ASSUME TokenInv, TokenTypeOK',
           UNCHANGED <<count, standing, family, parent, history>>,
           \A c \in TokenCallers : refresh'[c] \in {refresh[c], NoToken},
           \A c \in TokenCallers : other'[c] # NoToken => other'[c][2] \in Issued
    PROVE  TokenInv'
<1> USE DEF TokenInv, Issued, history
<1>1. Existing'
  BY DEF Existing
<1>2. Lineage' /\ OneUseUnlessContested'
  BY DEF Lineage, OneUseUnlessContested, Live
<1>3. Outlived' /\ EndedFamiliesStayEnded'
  BY DEF Outlived, EndedFamiliesStayEnded, Live
<1> QED BY <1>1, <1>2, <1>3

\* A step that takes tokens out of use, all those of the families it ends
\* included, and spares the refreshes under way.
LEMMA RetiringStep ==
    ASSUME TokenInv, TokenTypeOK', NEW fs \in SUBSET Issued,
           UNCHANGED <<count, family, parent, refresh, contested>>,
           \A t \in Issued : Live(t)' => Live(t) /\ family[t] \notin fs,
           ended' = ended \cup fs,
           spared' = spared \cup {t \in Refreshing : family[t] \in fs},
           \A c \in TokenCallers : other'[c] # NoToken => other'[c][2] \in Issued
    PROVE  TokenInv'
<1> USE DEF TokenInv, Issued
<1>1. Existing'
  BY DEF Existing
<1>2. Lineage' /\ OneUseUnlessContested'
  BY DEF Existing, Lineage, OneUseUnlessContested, Live
<1>3. Outlived'
  BY DEF Outlived, Refreshing
<1>4. EndedFamiliesStayEnded'
  BY DEF EndedFamiliesStayEnded
<1> QED BY <1>1, <1>2, <1>3, <1>4

\* A rejection or a logout notes the token it is about.
LEMMA RejectStep ==
    ASSUME TokenInv, NEW c \in TokenCallers, NEW t \in Issued, Reject(c, t) \/ LoadLogout(c, t)
    PROVE  TokenInv'
<1>1. /\ TokenTypeOK /\ Existing
      /\ sent < MaxRequests /\ sent' = sent + 1
      /\ UNCHANGED <<count, standing, family, parent, expired, active, refresh, history>>
  BY DEF TokenInv, Reject, LoadLogout, Presents, tokenRows
<1>2. PICK said \in {NoToken, <<"reuse_detected", t>>, <<"logout_all", t>>, <<"logout", t>>} :
        other' = [other EXCEPT ![c] = said]
  BY DEF Reject, LoadLogout
<1>3. said # NoToken => said[2] = t
  BY <1>2
<1>4. TokenTypeOK'
  <2>1. sent' \in 0..MaxRequests /\ t \in Tokens
    BY <1>1, TokenAssumption DEF TokenAssumption, TokenTypeOK, Issued, Tokens
  <2> QED BY <1>1, <1>2, <2>1 DEF TokenTypeOK, history
<1>5. \A d \in TokenCallers : other'[d] # NoToken => other'[d][2] \in Issued
  BY <1>1, <1>2, <1>3 DEF TokenTypeOK, Existing
<1> QED BY <1>1, <1>4, <1>5, IdleStep

\* A lost request is forgotten.
LEMMA DropRequestStep == ASSUME TokenInv, NEW c \in TokenCallers, DropRequest(c) PROVE TokenInv'
<1>1. /\ TokenTypeOK /\ Existing
      /\ refresh' = [refresh EXCEPT ![c] = NoToken] /\ other' = [other EXCEPT ![c] = NoToken]
      /\ UNCHANGED <<count, standing, family, parent, expired, active, sent, history>>
  BY DEF TokenInv, DropRequest, tokenRows
<1>2. TokenTypeOK'
  BY <1>1 DEF TokenTypeOK, history
<1> QED BY <1>1, <1>2, IdleStep DEF TokenTypeOK, Existing

\* A bulk UPDATE of the live tokens among some leaves none of these live.
LEMMA RevokeEffect ==
    ASSUME TokenTypeOK, NEW ts \in SUBSET Tokens, NEW reason \in Reasons, Revoke(ts, reason)
    PROVE  /\ standing' \in [Tokens -> Standing]
           /\ \A t \in Tokens : Live(t)' => Live(t) /\ t \notin ts
BY DEF TokenTypeOK, Revoke, Standing, Reasons, Live

\* The family of a reused token, or of a deactivated user's, is ended.
LEMMA RevokeFamilyStep ==
    ASSUME TokenInv, NEW c \in TokenCallers, RevokeFamily(c)
    PROVE  TokenInv'
<1> DEFINE f == family[other[c][2]]
<1>1. /\ TokenTypeOK /\ Existing /\ other[c] # NoToken /\ other[c][1] # "logout"
      /\ Revoke(Members(f), other[c][1])
      /\ other' = [other EXCEPT ![c] = NoToken]
      /\ ended' = ended \cup {f} /\ contested' = contested
      /\ spared' = spared \cup {t \in Refreshing : family[t] \in {f}}
      /\ UNCHANGED <<count, family, parent, expired, active, refresh, sent>>
  BY DEF TokenInv, RevokeFamily, End
<1>2. f \in Issued /\ Issued \subseteq Tokens /\ other[c][1] \in Reasons
  <2>1. other[c] \in {"logout", "logout_all", "reuse_detected"} \X Tokens
    BY <1>1 DEF TokenTypeOK
  <2>2. Issued \subseteq Tokens
    BY <1>1, TokenAssumption DEF TokenAssumption, TokenTypeOK, Issued, Tokens
  <2> QED BY <1>1, <2>1, <2>2 DEF Existing, Reasons
<1>3. /\ standing' \in [Tokens -> Standing]
      /\ \A t \in Tokens : Live(t)' => Live(t) /\ t \notin Members(f)
  BY <1>1, <1>2, RevokeEffect DEF Members
<1>4. \A t \in Issued : Live(t)' => Live(t) /\ family[t] \notin {f}
  BY <1>2, <1>3 DEF Members
<1> HIDE DEF f
<1>5. Refreshing \subseteq Tokens
  BY <1>1 DEF TokenTypeOK, Refreshing
<1>6. TokenTypeOK'
  BY <1>1, <1>2, <1>3, <1>5 DEF TokenTypeOK, Families
<1>7. \A d \in TokenCallers : other'[d] # NoToken => other'[d][2] \in Issued
  BY <1>1 DEF TokenTypeOK, Existing
<1>8. {f} \in SUBSET Issued
  BY <1>2
<1> QED BY <1>1, <1>4, <1>6, <1>7, <1>8, RetiringStep

\* Every family is ended.
LEMMA LogoutAllStep == TokenInv /\ LogoutAll => TokenInv'
<1> SUFFICES ASSUME TokenInv, LogoutAll PROVE TokenInv'
  OBVIOUS
<1> DEFINE fs == {family[t] : t \in Issued}
<1>1. /\ TokenTypeOK /\ Existing /\ sent < MaxRequests /\ sent' = sent + 1
      /\ Revoke(Issued, "logout_all")
      /\ ended' = ended \cup fs /\ contested' = contested
      /\ spared' = spared \cup {t \in Refreshing : family[t] \in fs}
      /\ UNCHANGED <<count, family, parent, expired, active, refresh, other>>
  BY DEF TokenInv, LogoutAll, End
<1>2. Issued \subseteq Tokens /\ sent' \in 0..MaxRequests
  BY <1>1, TokenAssumption DEF TokenAssumption, TokenTypeOK, Issued, Tokens
<1>3. /\ standing' \in [Tokens -> Standing]
      /\ \A t \in Tokens : Live(t)' => Live(t) /\ t \notin Issued
  BY <1>1, <1>2, RevokeEffect DEF Reasons
<1>4. fs \in SUBSET Issued /\ \A t \in Issued : Live(t)' => Live(t) /\ family[t] \notin fs
  BY <1>1, <1>2, <1>3 DEF Existing
<1> HIDE DEF fs
<1>5. Refreshing \subseteq Tokens
  BY <1>1 DEF TokenTypeOK, Refreshing
<1>6. TokenTypeOK'
  BY <1>1, <1>2, <1>3, <1>4, <1>5 DEF TokenTypeOK, Families
<1> QED BY <1>1, <1>4, <1>6, RetiringStep DEF Existing

\* One token is taken out of use, and no family is ended.
LEMMA LogoutStep == ASSUME TokenInv, NEW c \in TokenCallers, Logout(c) PROVE TokenInv'
<1>1. /\ TokenTypeOK /\ Existing /\ other[c] # NoToken
      /\ standing' = [standing EXCEPT ![other[c][2]] = "logout"]
      /\ other' = [other EXCEPT ![c] = NoToken]
      /\ UNCHANGED <<count, family, parent, expired, active, refresh, sent, history>>
  BY DEF TokenInv, Logout
<1>2. Issued \subseteq Tokens
  BY <1>1, TokenAssumption DEF TokenAssumption, TokenTypeOK, Issued, Tokens
<1>3. TokenTypeOK'
  BY <1>1 DEF TokenTypeOK, Standing, Reasons, history
<1>4. \A t \in Issued : Live(t)' => Live(t) /\ family[t] \notin {}
  BY <1>1, <1>2 DEF TokenTypeOK, Live
<1>5. /\ ended' = ended \cup {} /\ contested' = contested
      /\ spared' = spared \cup {t \in Refreshing : family[t] \in {}}
  BY <1>1 DEF history
<1>6. \A d \in TokenCallers : other'[d] # NoToken => other'[d][2] \in Issued
  BY <1>1 DEF TokenTypeOK, Existing
<1>7. {} \in SUBSET Issued
  OBVIOUS
<1> QED BY <1>1, <1>3, <1>4, <1>5, <1>6, <1>7, RetiringStep

\* Time passing expires_at, and the account's deactivation.
LEMMA OutsideStep ==
    ASSUME TokenInv, Deactivate \/ \E t \in Issued : Expire(t)
    PROVE  TokenInv'
<1>1. /\ TokenTypeOK /\ Existing
      /\ UNCHANGED <<count, standing, family, parent, refresh, other, sent, history>>
  BY DEF TokenInv, Deactivate, Expire, tokenRows
<1>2. Issued \subseteq Tokens
  BY <1>1, TokenAssumption DEF TokenAssumption, TokenTypeOK, Issued, Tokens
<1>3. expired' \subseteq Tokens /\ active' \in BOOLEAN
  <2>1. CASE Deactivate
    BY <1>1, <2>1 DEF Deactivate, TokenTypeOK
  <2>2. CASE \E t \in Issued : Expire(t)
    BY <1>1, <1>2, <2>2 DEF Expire, TokenTypeOK
  <2> QED BY <2>1, <2>2
<1>4. TokenTypeOK'
  BY <1>1, <1>3 DEF TokenTypeOK, history
<1> QED BY <1>1, <1>4, IdleStep DEF Existing

\* One case per action, and one for a step that changes nothing.
LEMMA TokensPreserved == TokenInv /\ [TokenNext]_tokenVars => TokenInv'
<1> SUFFICES ASSUME TokenInv, [TokenNext]_tokenVars PROVE TokenInv'
  OBVIOUS
<1>1. CASE Login
  BY <1>1, LoginStep
<1>2. CASE LogoutAll
  BY <1>2, LogoutAllStep
<1>3. CASE Deactivate \/ \E t \in Issued : Expire(t)
  BY <1>3, OutsideStep
<1>4. ASSUME NEW c \in TokenCallers,
             Rotate(c) \/ RevokeFamily(c) \/ Logout(c) \/ DropRequest(c)
      PROVE  TokenInv'
  BY <1>4, RotateStep, RevokeFamilyStep, LogoutStep, DropRequestStep
<1>5. ASSUME NEW c \in TokenCallers, NEW t \in Issued,
             Load(c, t) \/ Reject(c, t) \/ LoadLogout(c, t)
      PROVE  TokenInv'
  BY <1>5, LoadStep, RejectStep
<1>6. CASE UNCHANGED tokenVars
  BY <1>6 DEF tokenVars, TokenInv, TokenTypeOK, Existing, Lineage, Outlived,
     OneUseUnlessContested, EndedFamiliesStayEnded, Issued, Live
<1> QED BY <1>1, <1>2, <1>3, <1>4, <1>5, <1>6 DEF TokenNext

-----------------------------------------------------------------------------
(* The theorems.                                                           *)

\* The invariant that the results below are read from.
THEOREM TokenInvariance == TokenSpec => []TokenInv
BY TokensInitially, TokensPreserved, PTL DEF TokenSpec

\* Every reachable state of the tokens is well typed.
THEOREM TokenTypes == TokenSpec => []TokenTypeOK
<1>1. TokenInv => TokenTypeOK
  BY DEF TokenInv
<1> QED BY <1>1, TokenInvariance, PTL

\* rotate(): a second successor of a token takes two requests that had both
\* loaded it before one of them consumed it; expiry, logout, reuse detection
\* and lost requests in any order do not lead to one.
THEOREM OneSuccessor == TokenSpec => []OneUseUnlessContested
<1>1. TokenInv => OneUseUnlessContested
  BY DEF TokenInv
<1> QED BY <1>1, TokenInvariance, PTL

\* revoke_family and revoke_all_for_user: what is live in an ended family
\* descends from a refresh that was under way when the family was ended.
THEOREM EndedStayEnded == TokenSpec => []EndedFamiliesStayEnded
<1>1. TokenInv => EndedFamiliesStayEnded
  BY DEF TokenInv
<1> QED BY <1>1, TokenInvariance, PTL

-----------------------------------------------------------------------------
(* The components side by side.                                            *)

\* The initial states of the composition are initial states of each component.
LEMMA RecordStarts ==
    RecordInit => TokenInit /\ UsageInit /\ LeadInit /\ LoopInit /\ RunInit /\ LimitInit
BY DEF RecordInit

\* A step of the composition is a step of each component, or leaves it alone.
LEMMA RecordSteps ==
    [RecordNext]_recordVars =>
        /\ [TokenNext]_tokenVars /\ [UsageNext]_usageVars /\ [LeadNext]_leadVars
        /\ [LoopNext]_loopVars /\ [RunNext]_runVars /\ [LimitNext]_limitVars
BY DEF RecordNext, recordVars

\* What is read and written side by side is what each component allows by
\* itself: the composition implements all of them.
THEOREM RecordsAreComponents ==
    RecordSpec =>
        /\ TokenSpec /\ UsageSpec /\ LoopSpec /\ LimitSpec
        /\ LeadInit /\ [][LeadNext]_leadVars
        /\ RunInit /\ [][RunNext]_runVars
BY RecordStarts, RecordSteps, PTL DEF RecordSpec, TokenSpec, UsageSpec, LoopSpec, LimitSpec

\* Neither the media of a run nor the events of a payload need a fair
\* scheduler to keep their invariants.
LEMMA RecordInvariance == RecordSpec => [](LeadInv /\ RunInv)
<1>1. MediaAssumption
  BY MediaAssumption
<1>2. RunInit => RunInv
  BY <1>1, RunInvInit
<1>3. RunInv /\ [RunNext]_runVars => RunInv'
  BY <1>1, RunInvKept
<1>4. LeadInit => LeadInv
  BY LeadInitially
<1>5. LeadInv /\ [LeadNext]_leadVars => LeadInv'
  BY LeadPreserved
<1> QED BY <1>2, <1>3, <1>4, <1>5, RecordsAreComponents, PTL

\* Whatever requests, workers, backfills and evaluators do, tokens, usage,
\* leads, recommendations, media, runs and limits are of their types.
THEOREM RecordsAreTyped == RecordSpec => []TypeOK
<1>1. LeadInv /\ RunInv => LeadTypeOK /\ MediaTypeOK /\ RunTypeOK
  BY DEF LeadInv, RunInv, MediaInv
<1>2. TokenTypeOK /\ UsageTypeOK /\ LeadTypeOK /\ LoopTypeOK /\ MediaTypeOK /\ RunTypeOK /\ LimitTypeOK => TypeOK
  BY DEF TypeOK
<1>3. RecordSpec => TokenSpec /\ UsageSpec /\ LoopSpec /\ LimitSpec
  BY RecordsAreComponents
<1> QED BY <1>1, <1>2, <1>3, RecordInvariance, TokenTypes, UsageTypes, LoopTypes, LimitTypes, PTL

\* All that is promised of the records, at once: what each component's theorem
\* says, of the specification that the run checks.
THEOREM RecordsAreSafe ==
    RecordSpec =>
        [](/\ OneUseUnlessContested /\ EndedFamiliesStayEnded
           /\ UsageIsAccounted /\ OverrunIsOverlap /\ BudgetHolds
           /\ OneLeadPerEvent /\ LossNeedsAKeyRace /\ QuietEditsSurvive /\ CompleteIsComplete
           /\ CapHoldsButForOverlap /\ OppositesAreApart /\ RejectionsStand
           /\ BilledOnce /\ CancelledIsOver /\ VideosAreWatched /\ ReadyMeansSettled)
<1>1. LeadInv => OneLeadPerEvent /\ LossNeedsAKeyRace /\ QuietEditsSurvive /\ CompleteIsComplete
  BY DEF LeadInv
<1>2. RunInv => BilledOnce /\ CancelledIsOver /\ VideosAreWatched /\ ReadyMeansSettled
  <2>1. RunInv => BilledOnce
    BY DEF RunInv, MediaInv, BilledOnce, RowsOK, MediaTypeOK
  <2>2. RunInv => CancelledIsOver /\ VideosAreWatched
    BY DEF RunInv, MediaInv, CancelledIsOver, Gone
  <2>3. RunInv => ReadyMeansSettled
    BY DEF RunInv, ReadyMeansSettled, CountsStand, Quiet, Phases
  <2> QED BY <2>1, <2>2, <2>3
<1>3. RecordSpec => TokenSpec /\ UsageSpec /\ LoopSpec /\ LimitSpec
  BY RecordsAreComponents
<1>4. TokenSpec => [](OneUseUnlessContested /\ EndedFamiliesStayEnded)
  BY OneSuccessor, EndedStayEnded, PTL
<1>5. UsageSpec => [](UsageIsAccounted /\ OverrunIsOverlap)
  BY UsageIsCountedOnce, OverrunIsBounded, PTL
<1>6. LoopSpec => [](CapHoldsButForOverlap /\ OppositesAreApart /\ RejectionsStand)
  BY CapIsMet, NoFlipFlop, RejectionIsFinal, PTL
<1> QED BY <1>1, <1>2, <1>3, <1>4, <1>5, <1>6, BudgetIsKept, RecordInvariance, PTL
=============================================================================
