---------------------------- MODULE RefreshTokens ----------------------------
(***************************************************************************)
(* The refresh tokens of one user: app/services/refresh_token_service.py   *)
(* and its routes (app/api/v1/auth.py).  A login starts a family; a        *)
(* refresh consumes a token and issues its successor in the same family.   *)
(*                                                                         *)
(* A request reads its token in one step and ends its transaction in a     *)
(* later one.  The ORM writes the token back by primary key, whatever has  *)
(* been committed in between; the bulk UPDATEs of a family or a user touch *)
(* the committed rows whose revoked_at is null.                            *)
(*                                                                         *)
(* contested, ended and spared are history: no operation reads them.       *)
(***************************************************************************)
EXTENDS Integers, FiniteSets

CONSTANTS
    TokenCallers,   \* HTTP requests in flight
    MaxTokens,      \* bound: tokens ever issued
    MaxRequests,    \* bound: requests ever sent
    NoToken

Tokens   == 1..MaxTokens
Families == Tokens          \* a family is named by its first token
Reasons  == {"rotated", "logout", "logout_all", "reuse_detected"}
Standing == {"live"} \cup Reasons

ASSUME TokenAssumption ==
    /\ MaxTokens \in Nat \ {0} /\ MaxRequests \in Nat
    /\ NoToken \notin Nat

VARIABLES
    count,      \* tokens issued: rows 1..count exist
    standing,   \* token: live, or its revoked_reason
    family,     \* token: family_id
    parent,     \* token: the token whose refresh issued it
    expired,    \* tokens past expires_at
    active,     \* User.is_active
    refresh,    \* request: the token it loaded live and is refreshing
    other,      \* request: the rejection or logout it is about to commit
    sent,       \* requests sent so far
    contested,      \* tokens that two requests were refreshing at once
    ended,      \* families whose end (reuse, deactivation, logout_all) is committed
    spared      \* tokens whose refresh was under way when their family was ended

tokenVars == <<count, standing, family, parent, expired, active,
               refresh, other, sent, contested, ended, spared>>

tokenRows == <<count, standing, family, parent>>
history   == <<contested, ended, spared>>

Issued      == 1..count
Live(t)     == standing[t] = "live"
Members(f)  == {t \in Issued : family[t] = f}
Idle(c)     == refresh[c] = NoToken /\ other[c] = NoToken
Refreshing  == {refresh[c] : c \in TokenCallers} \ {NoToken}

TokenInit ==
    /\ count = 0
    /\ standing = [t \in Tokens |-> "live"]
    /\ family = [t \in Tokens |-> t]
    /\ parent = [t \in Tokens |-> NoToken]
    /\ expired = {} /\ active = TRUE
    /\ refresh = [c \in TokenCallers |-> NoToken]
    /\ other = [c \in TokenCallers |-> NoToken]
    /\ sent = 0
    /\ contested = {} /\ ended = {} /\ spared = {}

-----------------------------------------------------------------------------
\* An INSERT of the next token, and what a COMMIT makes visible with it.
Issue(f, t) ==
    /\ count < MaxTokens
    /\ count' = count + 1
    /\ family' = [family EXCEPT ![count + 1] = f]
    /\ parent' = [parent EXCEPT ![count + 1] = t]

\* UPDATE ... WHERE revoked_at IS NULL of a family or of every token.
Revoke(ts, reason) ==
    standing' = [t \in Tokens |->
                   IF t \in ts /\ Live(t) THEN reason ELSE standing[t]]

\* A family is ended: a refresh of one of its tokens under way is not stopped.
End(fs) ==
    /\ ended' = ended \cup fs
    /\ spared' = spared \cup {t \in Refreshing : family[t] \in fs}
    /\ contested' = contested

\* POST /login: a new family, for a deactivated user as well.
Login ==
    /\ Issue(count + 1, NoToken)
    /\ UNCHANGED <<standing, expired, active, refresh, other, sent, history>>

\* POST /refresh, the reads.  Only a live, unexpired token of an active user
\* goes on to be consumed; the other outcomes are rejections.
Presents(c) == Idle(c) /\ sent < MaxRequests /\ sent' = sent + 1

Refreshable(t) == Live(t) /\ t \notin expired /\ active

Load(c, t) ==
    /\ Presents(c) /\ Refreshable(t)
    /\ refresh' = [refresh EXCEPT ![c] = t]
    /\ contested' = IF t \in Refreshing THEN contested \cup {t} ELSE contested
    /\ UNCHANGED <<tokenRows, expired, active, other, ended, spared>>

\* The reuse of a rotated token, and the refresh of a deactivated user's.
Reject(c, t) ==
    /\ Presents(c) /\ ~ Refreshable(t)
    /\ other' = [other EXCEPT ![c] =
         IF standing[t] = "rotated" THEN <<"reuse_detected", t>>
         ELSE IF Live(t) /\ t \notin expired THEN <<"logout_all", t>>
         ELSE NoToken]
    /\ UNCHANGED <<tokenRows, expired, active, refresh, history>>

\* Mutant: the token is not consumed.
Rotated_Kept(t) == standing' = standing

\* The successor is inserted, the consumed token written by primary key.
Rotated(t) == standing' = [standing EXCEPT ![t] = "rotated"]

Rotate(c) ==
    LET t == refresh[c] IN
    /\ t # NoToken
    /\ Issue(family[t], t)
    /\ Rotated(t)
    /\ refresh' = [refresh EXCEPT ![c] = NoToken]
    /\ spared' = IF t \in spared THEN spared \cup {count + 1} ELSE spared
    /\ UNCHANGED <<expired, active, other, sent, contested, ended>>

\* Mutant: the exception rolls the revocation back.
RevokeFamily_RolledBack(c) ==
    /\ other[c] # NoToken /\ other[c][1] # "logout"
    /\ other' = [other EXCEPT ![c] = NoToken]
    /\ End({family[other[c][2]]})
    /\ UNCHANGED <<tokenRows, expired, active, refresh, sent>>

\* The route commits before it raises the 401.
RevokeFamily(c) ==
    LET reason == other[c][1]
        f      == family[other[c][2]]
    IN
    /\ other[c] # NoToken /\ reason # "logout"
    /\ Revoke(Members(f), reason)
    /\ other' = [other EXCEPT ![c] = NoToken]
    /\ End({f})
    /\ UNCHANGED <<count, family, parent, expired, active, refresh, sent>>

\* POST /logout: read, then a write by primary key.
LoadLogout(c, t) ==
    /\ Presents(c) /\ Live(t)
    /\ other' = [other EXCEPT ![c] = <<"logout", t>>]
    /\ UNCHANGED <<tokenRows, expired, active, refresh, history>>

Logout(c) ==
    /\ other[c] # NoToken /\ other[c][1] = "logout"
    /\ standing' = [standing EXCEPT ![other[c][2]] = "logout"]
    /\ other' = [other EXCEPT ![c] = NoToken]
    /\ UNCHANGED <<count, family, parent, expired, active, refresh, sent, history>>

\* POST /logout-all: one UPDATE.
LogoutAll ==
    /\ sent < MaxRequests /\ sent' = sent + 1
    /\ Revoke(Issued, "logout_all")
    /\ End({family[t] : t \in Issued})
    /\ UNCHANGED <<count, family, parent, expired, active, refresh, other>>

\* Time passes expires_at; an administrator deactivates the account.
Expire(t) ==
    /\ t \notin expired
    /\ expired' = expired \cup {t}
    /\ UNCHANGED <<tokenRows, active, refresh, other, sent, history>>

Deactivate ==
    /\ active
    /\ active' = FALSE
    /\ UNCHANGED <<tokenRows, expired, refresh, other, sent, history>>

\* A request dies: its transaction is rolled back.
DropRequest(c) ==
    /\ ~ Idle(c)
    /\ refresh' = [refresh EXCEPT ![c] = NoToken]
    /\ other' = [other EXCEPT ![c] = NoToken]
    /\ UNCHANGED <<tokenRows, expired, active, sent, history>>

TokenNext ==
    \/ Login \/ LogoutAll \/ Deactivate
    \/ \E t \in Issued : Expire(t)
    \/ \E c \in TokenCallers :
         \/ Rotate(c) \/ RevokeFamily(c) \/ Logout(c) \/ DropRequest(c)
         \/ \E t \in Issued : Load(c, t) \/ Reject(c, t) \/ LoadLogout(c, t)

TokenSpec == TokenInit /\ [][TokenNext]_tokenVars

-----------------------------------------------------------------------------
TokenTypeOK ==
    /\ count \in 0..MaxTokens
    /\ standing \in [Tokens -> Standing]
    /\ family \in [Tokens -> Families]
    /\ parent \in [Tokens -> Tokens \cup {NoToken}]
    /\ expired \subseteq Tokens /\ active \in BOOLEAN
    /\ refresh \in [TokenCallers -> Tokens \cup {NoToken}]
    /\ other \in [TokenCallers -> {NoToken} \cup
                    {"logout", "logout_all", "reuse_detected"} \X Tokens]
    /\ sent \in 0..MaxRequests
    /\ contested \subseteq Tokens /\ ended \subseteq Families /\ spared \subseteq Tokens

\* rotate(): a token has one successor, or none, unless two requests had
\* loaded it before either of them consumed it - the row is read without a
\* lock and written without a compare-and-swap.
OneUseUnlessContested ==
    \A t, u \in Issued :
        parent[t] = parent[u] /\ parent[t] # NoToken /\ t # u
            => parent[t] \in contested

\* Reuse detection, deactivation and logout-all end a family for good: a token
\* of it is live afterwards only if it descends from a refresh that was under
\* way when the family was ended (whose successor the bulk UPDATE cannot see).
EndedFamiliesStayEnded ==
    \A t \in Issued :
        Live(t) /\ family[t] \in ended => t \in spared
=============================================================================
