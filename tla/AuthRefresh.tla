---------------------------- MODULE AuthRefresh ------------------------------
(***************************************************************************)
(* Refresh-token rotation in the auth service (auth/service.go) over the   *)
(* MemoryStore's refreshTokens table, for one user.  Login, Refresh and    *)
(* Logout are HTTP handlers (api/handlers_auth.go) that run concurrently;  *)
(* each store call takes the store lock on its own, so Refresh is three    *)
(* critical sections: GetRefreshToken and its checks, RevokeRefreshToken,  *)
(* and issueTokens' SaveRefreshToken.                                      *)
(*                                                                         *)
(* A token id is a number in creation order (a uuid in the code).  Every   *)
(* token gets ExpiresAt = now + refreshTTL, so tokens expire in creation   *)
(* order and the clock is the number of tokens already expired.  The       *)
(* presented token string is abstracted to its id and its form: genuine,   *)
(* "forged" (right id, wrong secret: the hash check fails) or "malformed"  *)
(* (parseRefreshTokenID fails).  Access tokens are stateless JWTs and are  *)
(* not modelled.                                                           *)
(***************************************************************************)
EXTENDS Naturals

CONSTANTS
  Calls,        \* concurrent request handlers
  MaxRequests,  \* requests served in total
  NoToken       \* no presented token (Login)

TokenIds == 1..MaxRequests   \* a request issues at most one token

Forms == {"genuine", "forged", "malformed"}

ASSUME MaxRequests \in Nat \ {0}
ASSUME NoToken \notin TokenIds

VARIABLES
  tokens,     \* refreshTokens: id -> [issued, revoked]
  nextId,     \* the id the next issueTokens creates
  expired,    \* tokens 1..expired have ExpiresAt before now
  uses,       \* history: successful refreshes that presented each token
  requests,   \* requests started so far
  cpc, cid, cform, cres   \* per handler: step, presented id and form, result

vars == <<tokens, nextId, expired, uses, requests, cpc, cid, cform, cres>>

Results == {"none", "ok", "unauthorized", "expired"}

Init ==
  /\ tokens = [t \in TokenIds |-> [issued |-> FALSE, revoked |-> FALSE]]
  /\ nextId = 1
  /\ expired = 0
  /\ uses = [t \in TokenIds |-> 0]
  /\ requests = 0
  /\ cpc = [c \in Calls |-> "idle"]
  /\ cid = [c \in Calls |-> NoToken]
  /\ cform = [c \in Calls |-> "genuine"]
  /\ cres = [c \in Calls |-> "none"]

\* issueTokens: sign the access JWT, then SaveRefreshToken a fresh token.
IssueToken ==
  /\ tokens' = [tokens EXCEPT ![nextId] = [issued |-> TRUE, revoked |-> FALSE]]
  /\ nextId' = nextId + 1

\* parseRefreshTokenID: "rt_<id>_<secret>" yields the id.
Parses(form) == form # "malformed"

\* equalHash(stored.TokenHash, hashToken(refreshToken)): only the token
\* string that was issued hashes to the stored hash.
HashMatches(form) == form = "genuine"

\* GetRefreshToken (ErrNotFound for an id never saved).
Stored(id) == id \in TokenIds /\ tokens[id].issued

Finish(c, res) ==
  /\ cpc' = [cpc EXCEPT ![c] = "idle"]
  /\ cres' = [cres EXCEPT ![c] = res]

StartRequest(c) ==
  /\ cpc[c] = "idle"
  /\ requests < MaxRequests
  /\ requests' = requests + 1

-----------------------------------------------------------------------------
\* Login: GetUserByEmail and bcrypt compare; on a match issueTokens.
Login(c) ==
  /\ StartRequest(c)
  /\ \E match \in BOOLEAN :
       IF match THEN IssueToken /\ Finish(c, "ok")
                ELSE UNCHANGED <<tokens, nextId>> /\ Finish(c, "unauthorized")
  /\ UNCHANGED <<expired, uses, cid, cform>>

\* A refresh request arrives carrying some token.
RefreshBegin(c) ==
  /\ StartRequest(c)
  /\ \E id \in TokenIds, form \in Forms :
       /\ cid' = [cid EXCEPT ![c] = id]
       /\ cform' = [cform EXCEPT ![c] = form]
  /\ cpc' = [cpc EXCEPT ![c] = "check"]
  /\ UNCHANGED <<tokens, nextId, expired, uses, cres>>

\* Refresh up to the revoke: parse, GetRefreshToken, RevokedAt == nil,
\* ExpiresAt not before now, hash match, GetUserByID (the user exists).
RefreshCheck(c) ==
  LET id == cid[c]
      res == CASE ~Parses(cform[c]) \/ ~Stored(id) -> "unauthorized"
               [] tokens[id].revoked               -> "unauthorized"
               [] id <= expired                    -> "expired"
               [] ~HashMatches(cform[c])           -> "unauthorized"
               [] OTHER                            -> "none"
  IN /\ cpc[c] = "check"
     /\ IF res = "none"
          THEN cpc' = [cpc EXCEPT ![c] = "revoke"] /\ UNCHANGED cres
          ELSE Finish(c, res)
     /\ UNCHANGED <<tokens, nextId, expired, uses, requests, cid, cform>>

\* RevokeRefreshToken(stored.ID, now); its error is ignored.
RefreshRevoke(c) ==
  /\ cpc[c] = "revoke"
  /\ tokens' = [tokens EXCEPT ![cid[c]].revoked = TRUE]
  /\ cpc' = [cpc EXCEPT ![c] = "issue"]
  /\ UNCHANGED <<nextId, expired, uses, requests, cid, cform, cres>>

\* return s.issueTokens(user).
RefreshIssue(c) ==
  /\ cpc[c] = "issue"
  /\ IssueToken
  /\ uses' = [uses EXCEPT ![cid[c]] = @ + 1]
  /\ Finish(c, "ok")
  /\ UNCHANGED <<expired, requests, cid, cform>>

\* Logout: parse, then RevokeRefreshToken in one store call; the secret
\* part of the token is not checked.
Logout(c) ==
  /\ StartRequest(c)
  /\ \E id \in TokenIds, form \in Forms :
       IF Parses(form) /\ Stored(id)
         THEN /\ tokens' = [tokens EXCEPT ![id].revoked = TRUE]
              /\ Finish(c, "ok")
         ELSE UNCHANGED tokens /\ Finish(c, "unauthorized")
  /\ UNCHANGED <<nextId, expired, uses, cid, cform>>

\* Time passes beyond the ExpiresAt of the oldest unexpired token.
Expire ==
  /\ expired < nextId - 1
  /\ expired' = expired + 1
  /\ UNCHANGED <<tokens, nextId, uses, requests, cpc, cid, cform, cres>>

-----------------------------------------------------------------------------
Next ==
  \/ Expire
  \/ \E c \in Calls :
       \/ Login(c) \/ RefreshBegin(c) \/ RefreshCheck(c)
       \/ RefreshRevoke(c) \/ RefreshIssue(c) \/ Logout(c)

Spec == Init /\ [][Next]_vars

-----------------------------------------------------------------------------
(* Properties *)

TypeOK ==
  /\ tokens \in [TokenIds -> [issued : BOOLEAN, revoked : BOOLEAN]]
  /\ nextId \in 1..MaxRequests + 1
  /\ expired \in 0..MaxRequests
  /\ cpc \in [Calls -> {"idle", "check", "revoke", "issue"}]
  /\ cres \in [Calls -> Results]

\* Safety, about Refresh revoking the presented token before issuing the
\* next one (service.go:117-131), which makes a refresh token single-use
\* (TestLoginRefreshLogout: a revoked token no longer refreshes): no
\* refresh token is exchanged for new tokens twice.
SingleUse == \A t \in TokenIds : uses[t] <= 1

=============================================================================
