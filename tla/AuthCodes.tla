----------------------------- MODULE AuthCodes -----------------------------
(***************************************************************************)
(* Authorization codes: a player's game asks for a code over its session,  *)
(* the game's backend trades it for an access token over HTTP and shows    *)
(* the token to learn whose it is.  (auth_code_store.cpp,                  *)
(* webapi_routes_authcode.cpp, ClientSession::CmdGetAuthorizationCode)     *)
(*                                                                         *)
(* Each operation of the store holds its mutex.  Codes are asked for on    *)
(* the threads of the game sessions; requests of backends are served one   *)
(* at a time, and the one that trades a code takes the mutex twice.        *)
(***************************************************************************)
EXTENDS Integers, FiniteSets, SequencesExt

CONSTANTS
  Players, Clients,  \* accounts; backends
  Codes,             \* the codes that can be drawn
  NoGrant,           \* the code is not in use
  LifetimeSecs, AccessTokenLifetimeSecs, MaxOutstandingPerUser,
  MaxIssued, MaxSecs \* bounds on the codes that are issued and on the clock

\* A code or an access token, with the number of the code.
Grant == [user: Players, client: Clients, expires: Nat, number: 1 .. MaxIssued]

ASSUME CodeConstants ==
  /\ IsFiniteSet(Codes) /\ "TooSoon" \notin Codes /\ NoGrant \notin Grant
  /\ LifetimeSecs \in Nat /\ AccessTokenLifetimeSecs \in Nat /\ MaxOutstandingPerUser \in Nat
  /\ MaxIssued \in Nat /\ MaxSecs \in Nat

VARIABLES
  exists,   \* the players whose account exists
  issued,   \* how many codes have been issued; numbers the grants
  grants,   \* m_grants[code]
  tokens,   \* m_accessTokens, each token with its grant
  traded,   \* the grant a request has taken out of the store
  reply,   \* the answer of this step
  spent,    \* history: spent[n] tells how many access tokens were given for grant n
  secs

codesVars == <<exists, issued, grants, tokens, traded, reply, spent, secs>>

NoReply == [to |-> "nobody"]

Live(g) == g # NoGrant /\ g.expires > secs

\* Every operation of the store begins with it.
PurgeExpired(table) == [c \in Codes |-> IF Live(table[c]) THEN table[c] ELSE NoGrant]
LiveTokens == {t \in tokens : t.expires > secs}

Outstanding(table, p) == {c \in Codes : table[c] # NoGrant /\ table[c].user = p}

AtLimit(table, p) == Cardinality(Outstanding(table, p)) >= MaxOutstandingPerUser

\* Any code that is not in use is drawn; it may have been in use before.
CmdGetAuthorizationCode(p, cl) ==
  /\ p \in exists /\ issued < MaxIssued
  /\ tokens' = LiveTokens
  /\ LET kept == PurgeExpired(grants) IN
     IF AtLimit(kept, p)
     THEN /\ grants' = kept
          /\ reply' = [to |-> p, code |-> "TooSoon"]
          /\ UNCHANGED issued
     ELSE \E c \in Codes :
       /\ kept[c] = NoGrant
       /\ issued' = issued + 1
       /\ grants' = [kept EXCEPT ![c] =
            [user |-> p, client |-> cl, expires |-> secs + LifetimeSecs, number |-> issued + 1]]
       /\ reply' = [to |-> p, code |-> c]
  /\ UNCHANGED <<exists, traded, spent, secs>>

\* Mutant: the code is looked up, and forgotten when it runs out.
Redeem_Keeps(c) == grants' = PurgeExpired(grants)

Redeem(c) == grants' = [PurgeExpired(grants) EXCEPT ![c] = NoGrant]

\* POST /2.0/oauth/token.  A code is spent by the first request that shows it, the
\* wrong backend's too.
PostToken(cl, c) ==
  /\ traded = NoGrant
  /\ LET g == PurgeExpired(grants)[c] IN
     /\ Redeem(c)
     /\ IF g # NoGrant /\ g.client = cl /\ g.user \in exists
        THEN traded' = g /\ reply' = NoReply
        ELSE reply' = [to |-> cl, token |-> "invalid_grant"] /\ UNCHANGED traded
  /\ tokens' = LiveTokens
  /\ UNCHANGED <<exists, issued, spent, secs>>

IssueAccessToken ==
  /\ traded # NoGrant
  /\ tokens' = LiveTokens \cup {[traded EXCEPT !.expires = secs + AccessTokenLifetimeSecs]}
  /\ grants' = PurgeExpired(grants)
  /\ spent' = [spent EXCEPT ![traded.number] = @ + 1]
  /\ reply' = [to |-> traded.client, token |-> traded.number]
  /\ traded' = NoGrant
  /\ UNCHANGED <<exists, issued, secs>>

FindAccessToken ==
  /\ grants' = PurgeExpired(grants)
  /\ tokens' = LiveTokens

\* GET /2.0/oauth/token/<token> names the player to the backend the token is for;
\* GET .../users/me/info asks for no client.
GetToken(cl, number) ==
  /\ traded = NoGrant
  /\ FindAccessToken
  /\ reply' =
       IF \E t \in tokens' : t.number = number /\ t.user \in exists /\ t.client = cl
       THEN [to |-> cl, shown |-> number] ELSE [to |-> cl, token |-> "invalid_token"]
  /\ UNCHANGED <<exists, issued, traded, spent, secs>>

DeleteAccount(p) ==
  /\ p \in exists
  /\ exists' = exists \ {p}
  /\ reply' = NoReply
  /\ UNCHANGED <<issued, grants, tokens, traded, spent, secs>>

SecondPasses ==
  /\ secs < MaxSecs
  /\ secs' = secs + 1
  /\ reply' = NoReply
  /\ UNCHANGED <<exists, issued, grants, tokens, traded, spent>>

CodesInit ==
  /\ exists = Players
  /\ issued = 0
  /\ grants = [c \in Codes |-> NoGrant]
  /\ tokens = {} /\ traded = NoGrant /\ reply = NoReply
  /\ spent = [n \in 1 .. MaxIssued |-> 0] /\ secs = 0

CodesNext ==
  \/ \E p \in Players : DeleteAccount(p) \/ \E cl \in Clients : CmdGetAuthorizationCode(p, cl)
  \/ \E cl \in Clients :
       \/ \E c \in Codes : PostToken(cl, c)
       \/ \E number \in 1 .. issued : GetToken(cl, number)
  \/ IssueAccessToken
  \/ SecondPasses

CodesSpec == CodesInit /\ [][CodesNext]_codesVars

-----------------------------------------------------------------------------
\* Types; a grant is not behind two codes, and no player has more codes than allowed,
\* those included that have run out since somebody asked last (auth_code_store.cpp, Issue).
CodesTyped ==
  /\ exists \subseteq Players /\ issued \in 0 .. MaxIssued /\ secs \in 0 .. MaxSecs
  /\ grants \in [Codes -> Grant \cup {NoGrant}]
  /\ tokens \subseteq Grant /\ traded \in Grant \cup {NoGrant}
  /\ spent \in [1 .. MaxIssued -> Nat]
  /\ \A c, d \in Codes : c # d /\ grants[c] # NoGrant /\ grants[d] # NoGrant =>
       grants[c].number # grants[d].number
  /\ \A p \in Players : Cardinality(Outstanding(grants, p)) <= MaxOutstandingPerUser

\* An access token stands for one redemption of one code, by the backend the code was
\* asked for: no grant is spent twice, or spent while its code is still good
\* (auth_code_store.cpp, Redeem and IssueAccessToken, two sections of the mutex).
CodesSpentOnce ==
  /\ \A n \in 1 .. MaxIssued : spent[n] <= 1
  /\ \A c \in Codes : grants[c] # NoGrant =>
       spent[grants[c].number] = 0 /\ (traded # NoGrant => traded.number # grants[c].number)

\* A player is told "too soon" only with that many codes that are still good, and a
\* backend is shown only a token that has not run out.
AnswersCurrent ==
  /\ "code" \in DOMAIN reply /\ reply.code = "TooSoon" =>
       Cardinality({c \in Outstanding(grants, reply.to) : Live(grants[c])}) >= MaxOutstandingPerUser
  /\ "shown" \in DOMAIN reply => \E t \in LiveTokens : t.number = reply.shown

\* A code buys one token, and nobody is told what has run out: a player that he has too
\* many codes, or a backend that a token is good (auth_code_store.cpp).
CodesSound == CodesSpentOnce /\ AnswersCurrent
=============================================================================
