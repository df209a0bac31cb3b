--------------------------- MODULE ServicesProofs ---------------------------
(***************************************************************************)
(* Theorems about the services that keep to themselves, one after the      *)
(* other: authorization codes, entitlements, game custom data, the         *)
(* configuration files and trophies, for any players, limits and texts.    *)
(***************************************************************************)
EXTENDS AuthCodes, Entitlements, GameCustomData, ConfigFiles, Trophies,
        SequenceTheorems, FiniteSetTheorems, WellFoundedInduction, TLAPS

-----------------------------------------------------------------------------
(* Authorization codes *)

\* Grants are numbered as they are issued, and a grant that has not come to its token,
\* issued or taken out of the store, has not been spent.
Numbered ==
  /\ \A c \in Codes : grants[c] # NoGrant => grants[c].number <= issued
  /\ traded # NoGrant => traded.number <= issued /\ spent[traded.number] = 0
  /\ \A n \in 1 .. MaxIssued : n > issued => spent[n] = 0

CInv == CodesTyped /\ CodesSpentOnce /\ Numbered /\ AnswersCurrent

\* Grants are typed, distinct by number, and within each player's limit.
GrantsOK(table) ==
  /\ table \in [Codes -> Grant \cup {NoGrant}]
  /\ \A c, d \in Codes : c # d /\ table[c] # NoGrant /\ table[d] # NoGrant =>
       table[c].number # table[d].number
  /\ \A p \in Players : Cardinality(Outstanding(table, p)) <= MaxOutstandingPerUser

\* A table with no grant that another has not.
Within(new, old) ==
  /\ new \in [Codes -> Grant \cup {NoGrant}]
  /\ \A c \in Codes : new[c] # NoGrant => new[c] = old[c]

-----------------------------------------------------------------------------
(* Tables of grants. *)

\* A player's codes are finitely many.
LEMMA OutstandingFinite ==
  ASSUME NEW table, NEW p
  PROVE  /\ IsFiniteSet(Outstanding(table, p))
         /\ Cardinality(Outstanding(table, p)) \in Nat
<1>1. Outstanding(table, p) \subseteq Codes
  BY DEF Outstanding
<1>2. IsFiniteSet(Outstanding(table, p))
  BY <1>1, CodeConstants, FS_Subset DEF CodeConstants
<1> QED
  BY <1>2, FS_CardinalityType

\* Fewer grants are no more codes of anybody.
LEMMA FewerOutstanding ==
  ASSUME NEW new, NEW old, Within(new, old), NEW p
  PROVE  Cardinality(Outstanding(new, p)) <= Cardinality(Outstanding(old, p))
<1>1. Outstanding(new, p) \subseteq Outstanding(old, p)
  BY DEF Outstanding, Within
<1> QED
  BY <1>1, OutstandingFinite, FS_Subset

\* Fewer grants are as good as the ones before.
LEMMA FewerGrants ==
  ASSUME NEW new, NEW old, GrantsOK(old), Within(new, old)
  PROVE  GrantsOK(new)
<1>1. ASSUME NEW p \in Players
      PROVE  Cardinality(Outstanding(new, p)) <= MaxOutstandingPerUser
  <2>1. Cardinality(Outstanding(new, p)) <= Cardinality(Outstanding(old, p))
    BY FewerOutstanding
  <2>2. Cardinality(Outstanding(old, p)) <= MaxOutstandingPerUser
    BY DEF GrantsOK
  <2>3. /\ Cardinality(Outstanding(old, p)) \in Nat /\ Cardinality(Outstanding(new, p)) \in Nat
        /\ MaxOutstandingPerUser \in Nat
    BY OutstandingFinite, CodeConstants DEF CodeConstants
  <2> QED
    BY <2>1, <2>2, <2>3
<1>2. \A c, d \in Codes : c # d /\ new[c] # NoGrant /\ new[d] # NoGrant =>
        new[c].number # new[d].number
  BY DEF GrantsOK, Within
<1> QED
  BY <1>1, <1>2 DEF GrantsOK, Within

\* What PurgeExpired leaves was there, and is still good.
LEMMA PurgeKeepsLive ==
  ASSUME NEW table \in [Codes -> Grant \cup {NoGrant}]
  PROVE  /\ Within(PurgeExpired(table), table)
         /\ \A c \in Codes : PurgeExpired(table)[c] # NoGrant => Live(PurgeExpired(table)[c])
  BY DEF PurgeExpired, Within, Live

\* A new code adds one grant to its player's, and none to the others'.
LEMMA GrantAdded ==
  ASSUME NEW table, GrantsOK(table), NEW c \in Codes, table[c] = NoGrant,
         NEW g \in Grant, ~AtLimit(table, g.user),
         \A d \in Codes : table[d] # NoGrant => table[d].number # g.number
  PROVE  GrantsOK([table EXCEPT ![c] = g])
<1> DEFINE new == [table EXCEPT ![c] = g]
<1>1. /\ table \in [Codes -> Grant \cup {NoGrant}]
      /\ g # NoGrant /\ g.user \in Players
  BY CodeConstants DEF GrantsOK, Grant, CodeConstants
<1>2. new \in [Codes -> Grant \cup {NoGrant}] /\ new[c] = g /\ \A d \in Codes \ {c} : new[d] = table[d]
  BY <1>1
<1> HIDE DEF new
<1>3. ASSUME NEW d \in Codes, NEW e \in Codes, d # e, new[d] # NoGrant, new[e] # NoGrant
      PROVE  new[d].number # new[e].number
  <2>1. CASE d = c
    BY <2>1, <1>2, <1>3
  <2>2. CASE e = c
    BY <2>2, <1>2, <1>3
  <2>3. CASE d # c /\ e # c
    BY <2>3, <1>2, <1>3 DEF GrantsOK
  <2> QED
    BY <2>1, <2>2, <2>3
<1>4. ASSUME NEW p \in Players
      PROVE  Cardinality(Outstanding(new, p)) <= MaxOutstandingPerUser
  <2> DEFINE before == Outstanding(table, p)
  <2>1. IsFiniteSet(before) /\ Cardinality(before) \in Nat /\ MaxOutstandingPerUser \in Nat
    BY OutstandingFinite, CodeConstants DEF CodeConstants
  <2>2. CASE p = g.user
    <3>1. Outstanding(new, p) = before \cup {c}
      BY <2>2, <1>1, <1>2 DEF Outstanding
    <3>2. c \notin before
      BY DEF Outstanding
    <3>3. Cardinality(before \cup {c}) = Cardinality(before) + 1
      BY <3>2, <2>1, FS_AddElement
    <3>4. ~(Cardinality(before) >= MaxOutstandingPerUser)
      BY <2>2 DEF AtLimit
    <3> HIDE DEF before
    <3> QED
      BY <3>1, <3>3, <3>4, <2>1
  <2>3. CASE p # g.user
    <3>1. Outstanding(new, p) = before
      BY <2>3, <1>1, <1>2 DEF Outstanding
    <3> QED
      BY <3>1 DEF GrantsOK
  <2> QED
    BY <2>2, <2>3
<1> QED
  BY <1>2, <1>3, <1>4 DEF GrantsOK, new

-----------------------------------------------------------------------------
(* The invariant in parts: what it says of the variables but for the answer. *)

\* Types and history, without the answer.
Kept ==
  /\ exists \subseteq Players /\ issued \in 0 .. MaxIssued /\ secs \in 0 .. MaxSecs
  /\ GrantsOK(grants)
  /\ tokens \subseteq Grant /\ traded \in Grant \cup {NoGrant}
  /\ spent \in [1 .. MaxIssued -> Nat]
  /\ CodesSpentOnce /\ Numbered

\* The invariant is its parts.
LEMMA CInvParts == CInv <=> Kept /\ AnswersCurrent
  BY DEF CInv, Kept, CodesTyped, GrantsOK, CodesSpentOnce, Numbered, Outstanding

\* And in the next state.
LEMMA CInvPartsNext == CInv' <=> Kept' /\ AnswersCurrent'
  BY DEF CInv, Kept, CodesTyped, GrantsOK, CodesSpentOnce, Numbered, Outstanding

\* Of a step that issues and spends nothing and at most drops grants.
LEMMA DropsKeep ==
  ASSUME Kept, Within(grants', grants),
         exists' \subseteq Players, secs' \in 0 .. MaxSecs, tokens' \subseteq Grant,
         UNCHANGED <<issued, spent, traded>>
  PROVE  Kept'
<1>1. GrantsOK(grants)
  BY DEF Kept
<1>2. GrantsOK(grants')
  BY <1>1, FewerGrants
<1>3. CodesSpentOnce'
  BY DEF Kept, CodesSpentOnce, Within
<1>4. Numbered'
  BY DEF Kept, Numbered, Within
<1> QED
  BY <1>2, <1>3, <1>4 DEF Kept, GrantsOK, Outstanding

\* No answer of interest is a current one.
LEMMA NothingShown ==
  ASSUME \/ reply' = NoReply
         \/ \E to, token : reply' = [to |-> to, token |-> token]
  PROVE  AnswersCurrent'
<1>1. "code" \notin DOMAIN reply' /\ "shown" \notin DOMAIN reply'
  BY DEF NoReply
<1> QED
  BY <1>1 DEF AnswersCurrent

-----------------------------------------------------------------------------
(* The actions. *)

\* The invariant holds at the start.
LEMMA CInit == CodesInit => CInv
<1> SUFFICES ASSUME CodesInit PROVE Kept /\ AnswersCurrent
  BY CInvParts
<1>1. \A p \in Players : Outstanding(grants, p) = {}
  BY DEF CodesInit, Outstanding
<1>2. GrantsOK(grants)
  <2>1. \A p \in Players : Cardinality(Outstanding(grants, p)) = 0
    BY <1>1, FS_EmptySet
  <2> QED
    BY <2>1, CodeConstants DEF CodesInit, GrantsOK, CodeConstants
<1>3. Kept
  <2>1. 0 \in 0 .. MaxIssued /\ 0 \in 0 .. MaxSecs
    BY CodeConstants DEF CodeConstants
  <2>2. CodesSpentOnce
    BY DEF CodesInit, CodesSpentOnce
  <2>3. Numbered
    BY DEF CodesInit, Numbered
  <2> QED
    BY <1>2, <2>1, <2>2, <2>3 DEF CodesInit, Kept
<1>4. AnswersCurrent
  BY DEF CodesInit, AnswersCurrent, NoReply
<1> QED
  BY <1>3, <1>4

\* What every operation of the store begins with, of a state with the invariant.
LEMMA Purged ==
  ASSUME Kept
  PROVE  /\ Within(PurgeExpired(grants), grants)
         /\ GrantsOK(PurgeExpired(grants))
         /\ \A c \in Codes : PurgeExpired(grants)[c] # NoGrant => Live(PurgeExpired(grants)[c])
         /\ LiveTokens \subseteq tokens /\ tokens \subseteq Grant
<1>1. GrantsOK(grants) /\ grants \in [Codes -> Grant \cup {NoGrant}] /\ tokens \subseteq Grant
  BY DEF Kept, GrantsOK
<1>2. Within(PurgeExpired(grants), grants)
  BY <1>1, PurgeKeepsLive
<1>3. GrantsOK(PurgeExpired(grants))
  BY <1>1, <1>2, FewerGrants
<1>4. LiveTokens \subseteq tokens
  BY DEF LiveTokens
<1> QED
  BY <1>1, <1>2, <1>3, <1>4, PurgeKeepsLive

\* A code is asked for.
LEMMA CmdGetAuthorizationCodeKeeps ==
  ASSUME CInv, NEW p \in Players, NEW cl \in Clients, CmdGetAuthorizationCode(p, cl)
  PROVE  CInv'
<1> DEFINE kept == PurgeExpired(grants)
<1>0. Kept
  BY CInvParts
<1>1. /\ Within(kept, grants) /\ GrantsOK(kept)
      /\ \A c \in Codes : kept[c] # NoGrant => Live(kept[c])
      /\ LiveTokens \subseteq Grant
  BY <1>0, Purged
<1>2. /\ issued < MaxIssued /\ tokens' = LiveTokens /\ tokens' \subseteq Grant
      /\ UNCHANGED <<exists, traded, spent, secs>>
  BY <1>1 DEF CmdGetAuthorizationCode
<1> SUFFICES Kept' /\ AnswersCurrent'
  BY CInvPartsNext
<1>3. CASE AtLimit(kept, p)
  <2>1. grants' = kept /\ reply' = [to |-> p, code |-> "TooSoon"] /\ issued' = issued
    BY <1>3 DEF CmdGetAuthorizationCode
  <2> HIDE DEF kept
  <2>2. Kept'
    <3>1. Within(grants', grants)
      BY <1>1, <2>1
    <3>2. exists' \subseteq Players /\ secs' \in 0 .. MaxSecs
      BY <1>0, <1>2 DEF Kept
    <3>3. UNCHANGED <<issued, spent, traded>>
      BY <1>2, <2>1
    <3> QED
      BY <1>0, <3>1, <3>2, <3>3, <1>2, DropsKeep
  <2>3. AnswersCurrent'
    <3>1. reply'.to = p /\ "shown" \notin DOMAIN reply'
      BY <2>1
    <3>2. \A c \in Codes : kept[c] # NoGrant => kept[c].expires > secs
      BY <1>1 DEF Live
    <3>3. {c \in Outstanding(grants', p) : (Live(grants[c]))'} = Outstanding(kept, p)
      BY <3>2, <2>1, <1>2 DEF Outstanding, Live
    <3>4. Cardinality(Outstanding(kept, p)) >= MaxOutstandingPerUser
      BY <1>3 DEF AtLimit
    <3>5. Cardinality({c \in Outstanding(grants', reply'.to) : (Live(grants[c]))'}) >= MaxOutstandingPerUser
      BY <3>1, <3>3, <3>4
    <3> QED
      BY <3>1, <3>5 DEF AnswersCurrent, Outstanding
  <2> QED
    BY <2>2, <2>3
<1>4. CASE ~AtLimit(kept, p)
  <2> DEFINE g == [user |-> p, client |-> cl, expires |-> secs + LifetimeSecs, number |-> issued + 1]
  <2>1. PICK c \in Codes : /\ kept[c] = NoGrant
                           /\ issued' = issued + 1
                           /\ grants' = [kept EXCEPT ![c] = g]
                           /\ reply' = [to |-> p, code |-> c]
    BY <1>4 DEF CmdGetAuthorizationCode
  <2>2. issued \in Nat /\ issued <= MaxIssued /\ secs \in Nat /\ LifetimeSecs \in Nat /\ MaxIssued \in Nat
    BY <1>0, CodeConstants DEF Kept, CodeConstants
  <2>3. issued + 1 \in 1 .. MaxIssued /\ issued + 1 \in 0 .. MaxIssued /\ secs + LifetimeSecs \in Nat
    BY <2>2, <1>2
  <2>4. g \in Grant /\ g.user = p /\ g.number = issued + 1
    BY <2>3 DEF Grant
  <2> HIDE DEF g, kept
  <2>5. \A d \in Codes : kept[d] # NoGrant => /\ kept[d] = grants[d] /\ kept[d] \in Grant
                                               /\ kept[d].number \in Nat /\ kept[d].number <= issued
    BY <1>0, <1>1, <2>2 DEF Kept, Numbered, Within, GrantsOK, Grant
  <2>6. \A d \in Codes : kept[d] # NoGrant => kept[d].number # g.number
    BY <2>5, <2>4, <2>2
  <2>7. GrantsOK(grants')
    <3>1. ~AtLimit(kept, g.user)
      BY <2>4, <1>4
    <3> QED
      BY <1>1, <2>1, <2>4, <2>6, <3>1, GrantAdded
  <2>8. \A d \in Codes : grants'[d] # NoGrant => grants'[d] = g \/ (grants'[d] = kept[d] /\ kept[d] # NoGrant)
    BY <2>1, <1>1 DEF GrantsOK
  <2>9. spent[issued + 1] = 0
    BY <1>0, <2>2, <2>3 DEF Kept, Numbered
  <2>10. CodesSpentOnce'
    <3>1. \A d \in Codes : grants'[d] # NoGrant => spent[grants'[d].number] = 0
      BY <2>8, <2>9, <2>4, <2>5, <1>0 DEF Kept, CodesSpentOnce
    <3>2. traded # NoGrant => traded.number # g.number
      <4>1. traded # NoGrant => traded.number \in Nat /\ traded.number <= issued
        BY <1>0 DEF Kept, Numbered, Grant
      <4> QED
        BY <4>1, <2>4, <2>2
    <3>3. \A d \in Codes : grants'[d] # NoGrant => (traded # NoGrant => traded.number # grants'[d].number)
      BY <2>8, <3>2, <2>5, <1>0 DEF Kept, CodesSpentOnce
    <3> QED
      BY <3>1, <3>3, <1>0, <1>2 DEF Kept, CodesSpentOnce
  <2>11. Numbered'
    <3>1. \A d \in Codes : grants'[d] # NoGrant => grants'[d].number <= issued + 1
      <4>1. ASSUME NEW d \in Codes, grants'[d] # NoGrant
            PROVE  grants'[d].number <= issued + 1
        <5>1. CASE grants'[d] = g
          BY <5>1, <2>4, <2>2
        <5>2. CASE grants'[d] = kept[d] /\ kept[d] # NoGrant
          <6>1. grants'[d].number \in Nat /\ grants'[d].number <= issued
            BY <5>2, <2>5
          <6> QED
            BY <6>1, <2>2
        <5> QED
          BY <4>1, <5>1, <5>2, <2>8
      <4> QED
        BY <4>1
    <3>2. traded # NoGrant => traded.number <= issued + 1 /\ spent[traded.number] = 0
      <4>1. traded # NoGrant => /\ traded.number \in Nat /\ traded.number <= issued
                                /\ spent[traded.number] = 0
        BY <1>0 DEF Kept, Numbered, Grant
      <4> QED
        BY <4>1, <2>2
    <3>3. \A n \in 1 .. MaxIssued : n > issued + 1 => spent[n] = 0
      <4>1. \A n \in 1 .. MaxIssued : n > issued => spent[n] = 0
        BY <1>0 DEF Kept, Numbered
      <4> QED
        BY <4>1, <2>2
    <3> QED
      BY <3>1, <3>2, <3>3, <2>1, <1>2 DEF Numbered
  <2>12. Kept'
    <3>1. issued' \in 0 .. MaxIssued
      BY <2>1, <2>3
    <3>2. /\ exists' \subseteq Players /\ secs' \in 0 .. MaxSecs /\ tokens' \subseteq Grant
          /\ traded' \in Grant \cup {NoGrant} /\ spent' \in [1 .. MaxIssued -> Nat]
      BY <1>0, <1>2 DEF Kept
    <3> QED
      BY <2>7, <2>10, <2>11, <3>1, <3>2 DEF Kept, GrantsOK, Outstanding
  <2>13. AnswersCurrent'
    <3>1. reply'.code # "TooSoon" /\ "shown" \notin DOMAIN reply'
      BY <2>1, CodeConstants DEF CodeConstants
    <3> QED
      BY <3>1 DEF AnswersCurrent
  <2> QED
    BY <2>12, <2>13
<1> QED
  BY <1>3, <1>4

\* A request shows a code: it is out of the store, and its grant with it or lost.
LEMMA PostTokenKeeps ==
  ASSUME CInv, NEW cl \in Clients, NEW c \in Codes, PostToken(cl, c)
  PROVE  CInv'
<1> DEFINE kept == PurgeExpired(grants)
           g == kept[c]
<1>0. Kept
  BY CInvParts
<1>1. /\ Within(kept, grants) /\ GrantsOK(kept) /\ LiveTokens \subseteq Grant
  BY <1>0, Purged
<1>2. /\ traded = NoGrant
      /\ grants' = [kept EXCEPT ![c] = NoGrant]
      /\ tokens' = LiveTokens
      /\ UNCHANGED <<exists, issued, spent, secs>>
  BY DEF PostToken, Redeem
<1>3. \/ g # NoGrant /\ traded' = g /\ reply' = NoReply
      \/ reply' = [to |-> cl, token |-> "invalid_grant"] /\ UNCHANGED traded
  BY DEF PostToken
<1>4. AnswersCurrent'
  BY <1>3, NothingShown
<1> HIDE DEF kept
<1>5. /\ grants' \in [Codes -> Grant \cup {NoGrant}]
      /\ \A d \in Codes : grants'[d] # NoGrant => d # c /\ grants'[d] = kept[d]
  BY <1>1, <1>2 DEF GrantsOK
<1>6. Within(grants', grants)
  BY <1>1, <1>5 DEF Within
<1>7. CASE UNCHANGED traded
  <2>1. exists' \subseteq Players /\ secs' \in 0 .. MaxSecs /\ tokens' \subseteq Grant
    BY <1>0, <1>1, <1>2 DEF Kept
  <2>2. UNCHANGED <<issued, spent, traded>>
    BY <1>2, <1>7
  <2>3. Kept'
    BY <1>0, <1>6, <2>1, <2>2, DropsKeep
  <2> QED
    BY <2>3, <1>4, CInvPartsNext
<1>8. CASE g # NoGrant /\ traded' = g
  <2>1. g = grants[c] /\ grants[c] # NoGrant /\ g \in Grant
    BY <1>1, <1>8 DEF Within
  <2>2. spent[g.number] = 0 /\ g.number <= issued
    BY <1>0, <2>1 DEF Kept, CodesSpentOnce, Numbered
  <2>3. GrantsOK(grants')
    <3>1. GrantsOK(grants)
      BY <1>0 DEF Kept
    <3> QED
      BY <3>1, <1>6, FewerGrants
  <2>4. \A d \in Codes : grants'[d] # NoGrant => grants'[d].number # g.number
    BY <1>5, <1>1, <1>8 DEF GrantsOK
  <2>5. CodesSpentOnce'
    <3>1. \A d \in Codes : grants'[d] # NoGrant => spent[grants'[d].number] = 0
      BY <1>0, <1>6 DEF Kept, CodesSpentOnce, Within
    <3>2. \A d \in Codes : grants'[d] # NoGrant => traded'.number # grants'[d].number
      BY <2>4, <1>8
    <3> QED
      BY <3>1, <3>2, <1>0, <1>2 DEF Kept, CodesSpentOnce
  <2>6. Numbered'
    <3>1. \A d \in Codes : grants'[d] # NoGrant => grants'[d].number <= issued
      BY <1>0, <1>6 DEF Kept, Numbered, Within
    <3> QED
      BY <3>1, <2>2, <1>0, <1>2, <1>8 DEF Kept, Numbered
  <2>7. Kept'
    <3>1. /\ exists' \subseteq Players /\ issued' \in 0 .. MaxIssued /\ secs' \in 0 .. MaxSecs
          /\ tokens' \subseteq Grant /\ traded' \in Grant \cup {NoGrant}
          /\ spent' \in [1 .. MaxIssued -> Nat]
      BY <1>0, <1>1, <1>2, <1>8, <2>1 DEF Kept
    <3> QED
      BY <2>3, <2>5, <2>6, <3>1 DEF Kept, GrantsOK, Outstanding
  <2> QED
    BY <2>7, <1>4, CInvPartsNext
<1> QED
  BY <1>3, <1>7, <1>8

\* The grant that was taken out comes to its token: the first, and no code leads to it.
LEMMA IssueAccessTokenKeeps ==
  ASSUME CInv, IssueAccessToken
  PROVE  CInv'
<1> DEFINE n == traded.number
           token == [traded EXCEPT !.expires = secs + AccessTokenLifetimeSecs]
<1>0. Kept
  BY CInvParts
<1>1. /\ Within(PurgeExpired(grants), grants) /\ LiveTokens \subseteq Grant
  BY <1>0, Purged
<1>2. /\ traded # NoGrant
      /\ tokens' = LiveTokens \cup {token}
      /\ grants' = PurgeExpired(grants)
      /\ spent' = [spent EXCEPT ![n] = spent[n] + 1]
      /\ reply' = [to |-> traded.client, token |-> n]
      /\ traded' = NoGrant
      /\ UNCHANGED <<exists, issued, secs>>
  BY DEF IssueAccessToken
<1>3. AnswersCurrent'
  BY <1>2, NothingShown
<1>4. traded \in Grant /\ n \in 1 .. MaxIssued /\ n <= issued /\ spent[n] = 0
  BY <1>0, <1>2 DEF Kept, Numbered, Grant
<1>5. token \in Grant
  <2>1. secs \in Nat /\ AccessTokenLifetimeSecs \in Nat
    BY <1>0, CodeConstants DEF Kept, CodeConstants
  <2>2. secs + AccessTokenLifetimeSecs \in Nat
    BY <2>1
  <2> QED
    BY <1>4, <2>2 DEF Grant
<1>6. \A d \in Codes : grants[d] # NoGrant => n # grants[d].number
  BY <1>0, <1>2 DEF Kept, CodesSpentOnce
<1>7. Within(grants', grants)
  BY <1>1, <1>2
<1> HIDE DEF token, n
<1>8. /\ spent' \in [1 .. MaxIssued -> Nat] /\ spent'[n] = 1
      /\ \A m \in 1 .. MaxIssued : m # n => spent'[m] = spent[m]
  BY <1>0, <1>2, <1>4 DEF Kept
<1>9. \A d \in Codes : grants'[d] # NoGrant => /\ grants'[d] = grants[d] /\ grants[d] # NoGrant
                                                 /\ grants'[d].number \in 1 .. MaxIssued
                                                 /\ grants'[d].number # n
  BY <1>6, <1>7 DEF Within, Grant
<1>10. CodesSpentOnce'
  <2>1. \A m \in 1 .. MaxIssued : spent'[m] <= 1
    BY <1>0, <1>8 DEF Kept, CodesSpentOnce
  <2>2. \A d \in Codes : grants'[d] # NoGrant => spent'[grants'[d].number] = 0
    BY <1>0, <1>8, <1>9 DEF Kept, CodesSpentOnce
  <2> QED
    BY <2>1, <2>2, <1>2 DEF CodesSpentOnce
<1>11. Numbered'
  <2>1. \A d \in Codes : grants'[d] # NoGrant => grants'[d].number <= issued
    BY <1>0, <1>9 DEF Kept, Numbered
  <2>2. \A m \in 1 .. MaxIssued : m > issued => m # n
    <3>1. issued \in Int /\ n \in Int
      BY <1>0, <1>4 DEF Kept
    <3> QED
      BY <3>1, <1>4
  <2>3. \A m \in 1 .. MaxIssued : m > issued => spent'[m] = 0
    BY <2>2, <1>8, <1>0 DEF Kept, Numbered
  <2> QED
    BY <2>1, <2>3, <1>2 DEF Numbered
<1>12. Kept'
  <2>1. GrantsOK(grants')
    <3>1. GrantsOK(grants)
      BY <1>0 DEF Kept
    <3> QED
      BY <3>1, <1>7, FewerGrants
  <2>2. /\ exists' \subseteq Players /\ issued' \in 0 .. MaxIssued /\ secs' \in 0 .. MaxSecs
        /\ tokens' \subseteq Grant /\ traded' \in Grant \cup {NoGrant}
    BY <1>0, <1>1, <1>2, <1>5 DEF Kept
  <2> QED
    BY <2>1, <2>2, <1>8, <1>10, <1>11 DEF Kept, GrantsOK, Outstanding
<1> QED
  BY <1>12, <1>3, CInvPartsNext

\* A token is shown: what is answered about is among the live ones.
LEMMA GetTokenKeeps ==
  ASSUME CInv, NEW cl \in Clients, NEW number, GetToken(cl, number)
  PROVE  CInv'
<1>0. Kept
  BY CInvParts
<1>1. /\ Within(PurgeExpired(grants), grants) /\ LiveTokens \subseteq Grant
  BY <1>0, Purged
<1>2. /\ grants' = PurgeExpired(grants) /\ tokens' = LiveTokens
      /\ UNCHANGED <<exists, issued, traded, spent, secs>>
  BY DEF GetToken, FindAccessToken
<1>3. Kept'
  <2>1. exists' \subseteq Players /\ secs' \in 0 .. MaxSecs /\ tokens' \subseteq Grant
    BY <1>0, <1>1, <1>2 DEF Kept
  <2>2. Within(grants', grants) /\ UNCHANGED <<issued, spent, traded>>
    BY <1>1, <1>2
  <2> QED
    BY <1>0, <2>1, <2>2, DropsKeep
<1>4. AnswersCurrent'
  <2>1. CASE \E t \in tokens' : t.number = number /\ t.user \in exists /\ t.client = cl
    <3>1. reply' = [to |-> cl, shown |-> number]
      BY <2>1 DEF GetToken
    <3>2. \A t \in tokens' : t.expires > secs'
      BY <1>2 DEF LiveTokens
    <3>3. LiveTokens' = tokens'
      BY <3>2 DEF LiveTokens
    <3>4. \E t \in LiveTokens' : t.number = reply'.shown
      BY <2>1, <3>1, <3>3
    <3>5. "code" \notin DOMAIN reply'
      BY <3>1
    <3> QED
      BY <3>4, <3>5 DEF AnswersCurrent
  <2>2. CASE ~\E t \in tokens' : t.number = number /\ t.user \in exists /\ t.client = cl
    <3>1. reply' = [to |-> cl, token |-> "invalid_token"]
      BY <2>2 DEF GetToken
    <3> QED
      BY <3>1, NothingShown
  <2> QED
    BY <2>1, <2>2
<1> QED
  BY <1>3, <1>4, CInvPartsNext

\* An account goes, or time passes: the store is left as it is.
LEMMA OutsideKeeps ==
  ASSUME CInv, (\E p \in Players : DeleteAccount(p)) \/ SecondPasses
  PROVE  CInv'
<1>0. Kept
  BY CInvParts
<1>1. /\ reply' = NoReply
      /\ UNCHANGED <<issued, grants, tokens, traded, spent>>
      /\ exists' \subseteq exists
  BY DEF DeleteAccount, SecondPasses
<1>2. secs' \in 0 .. MaxSecs
  <2>1. CASE \E p \in Players : DeleteAccount(p)
    BY <2>1, <1>0 DEF DeleteAccount, Kept
  <2>2. CASE SecondPasses
    <3>1. secs \in Nat /\ MaxSecs \in Nat /\ secs < MaxSecs /\ secs' = secs + 1
      BY <2>2, <1>0, CodeConstants DEF SecondPasses, Kept, CodeConstants
    <3> QED
      BY <3>1
  <2> QED
    BY <2>1, <2>2
<1>3. Within(grants', grants)
  BY <1>0, <1>1 DEF Kept, GrantsOK, Within
<1>4. Kept'
  <2>1. exists' \subseteq Players /\ tokens' \subseteq Grant
    BY <1>0, <1>1 DEF Kept
  <2>2. UNCHANGED <<issued, spent, traded>>
    BY <1>1
  <2> QED
    BY <1>0, <1>2, <1>3, <2>1, <2>2, DropsKeep
<1>5. AnswersCurrent'
  BY <1>1, NothingShown
<1> QED
  BY <1>4, <1>5, CInvPartsNext

\* Every step keeps the invariant.
LEMMA CStep == CInv /\ [CodesNext]_codesVars => CInv'
<1> SUFFICES ASSUME CInv, [CodesNext]_codesVars PROVE CInv'
  OBVIOUS
<1>1. CASE \E p \in Players, cl \in Clients : CmdGetAuthorizationCode(p, cl)
  BY <1>1, CmdGetAuthorizationCodeKeeps
<1>2. CASE \E cl \in Clients, c \in Codes : PostToken(cl, c)
  BY <1>2, PostTokenKeeps
<1>3. CASE \E cl \in Clients, number \in 1 .. issued : GetToken(cl, number)
  BY <1>3, GetTokenKeeps
<1>4. CASE IssueAccessToken
  BY <1>4, IssueAccessTokenKeeps
<1>5. CASE (\E p \in Players : DeleteAccount(p)) \/ SecondPasses
  BY <1>5, OutsideKeeps
<1>6. CASE UNCHANGED codesVars
  <2>1. UNCHANGED <<exists, issued, grants, tokens, traded, reply, spent, secs>>
    BY <1>6 DEF codesVars
  <2> QED
    BY <2>1 DEF CInv, CodesTyped, CodesSpentOnce, Numbered, AnswersCurrent, Outstanding, Live, LiveTokens
<1> QED
  BY <1>1, <1>2, <1>3, <1>4, <1>5, <1>6 DEF CodesNext

-----------------------------------------------------------------------------
\* The invariant holds in every behaviour of the store.
THEOREM CodesAlwaysKept == CodesSpec => []CInv
  BY CInit, CStep, PTL DEF CodesSpec

\* A grant is never behind two codes, and nobody ever has more codes in the store than
\* the limit (Issue counts after it has purged).
THEOREM CodeTypes == CodesSpec => []CodesTyped
<1>1. CInv => CodesTyped
  BY DEF CInv
<1> QED
  BY <1>1, CodesAlwaysKept, PTL

\* However requests that trade codes are interleaved with the sessions that ask for
\* them, between Redeem and IssueAccessToken too, a grant comes to at most one token;
\* nobody is told "too soon" because of codes that have run out, and no token is shown
\* to be good after its time.
THEOREM CodesAlwaysSound == CodesSpec => []CodesSound
<1>1. CInv => CodesSound
  BY DEF CInv, CodesSound
<1> QED
  BY <1>1, CodesAlwaysKept, PTL

-----------------------------------------------------------------------------
(* Entitlements *)

Use == [key: EntitlementKeys, count: Counts, at: 0 .. MaxDays]

\* A use that waits for its transaction was found in a row that may be used up, and
\* nothing but the account's end has touched that row since.
UseSound ==
  usage # NoUse =>
    LET row == entitlements[usage.key] IN
      row = NotGranted \/ (row.consumable /\ IsActive(row, usage.at))

EntitlementShapes ==
  /\ entitlements \in [EntitlementKeys -> GrantRow \cup {NotGranted}]
  /\ granted \in [EntitlementKeys -> Int] /\ usage \in Use \cup {NoUse}

EInv == EntitlementShapes /\ EntitlementsTyped /\ UseSound /\ UsesAccounted

\* The rows are accounted for.
RowAccounted(row, total) ==
  row # NotGranted => Grantable(row) /\ row.limit >= 0 /\ row.count + row.limit = total
RowsAccounted == \A k \in EntitlementKeys : RowAccounted(entitlements[k], granted[k])

\* What was answered last is true of the row it was about.
AnswerTrue ==
  useAnswer # Unanswered /\ useAnswer[1] = "InsufficientUses" =>
    LET row == entitlements[useAnswer[2].key] IN
      row = NotGranted \/ row.limit < useAnswer[2].count

Days == title \in Titles /\ today \in 0 .. MaxDays

LEMMA EInvParts ==
  EInv <=> EntitlementShapes /\ Days /\ UseSound /\ RowsAccounted /\ AnswerTrue
BY DEF EInv, EntitlementsTyped, UsesAccounted, Days, RowsAccounted, RowAccounted, AnswerTrue

LEMMA EInvPartsNext ==
  EInv' <=> EntitlementShapes' /\ Days' /\ UseSound' /\ RowsAccounted' /\ AnswerTrue'
BY DEF EInv, EntitlementsTyped, UsesAccounted, Days, RowsAccounted, RowAccounted, AnswerTrue

LEMMA GrantAccounted ==
  ASSUME NEW g \in Grants
  PROVE  /\ g \in GrantRow /\ Grantable(g) /\ g.limit \in Int /\ g.count \in Int /\ g.limit >= 0
         /\ RowAccounted(g, g.count + g.limit)
<1>1. g \in GrantRow /\ Grantable(g)
  BY EntitlementConstants
<1>2. g.limit \in Int /\ g.count \in Int
  BY <1>1 DEF GrantRow
<1>3. g.limit >= 0
  BY <1>1, <1>2 DEF Grantable
<1> QED BY <1>1, <1>2, <1>3 DEF RowAccounted

\* A use takes from what is left what it adds to what was used.
LEMMA UseAccounted ==
  ASSUME NEW row \in GrantRow, NEW n \in Nat, NEW total \in Int,
         Grantable(row), row.consumable, row.limit >= n, row.count + row.limit = total
  PROVE  LET used == [row EXCEPT !.count = row.count + n, !.limit = row.limit - n] IN
           /\ used \in GrantRow /\ RowAccounted(used, total)
<1>1. row.limit \in Int /\ row.count \in Int
  BY DEF GrantRow
<1>2. PICK c \in Int, l \in Int : c = row.count + n /\ l = row.limit - n
  BY <1>1
<1>3. l >= 0 /\ c >= 0 /\ c + l = total
  BY <1>1, <1>2 DEF Grantable
<1>4. PICK used \in GrantRow : used = [row EXCEPT !.count = c, !.limit = l]
  BY DEF GrantRow
<1>5. /\ used.count = c /\ used.limit = l /\ used.consumable = row.consumable
      /\ used.type = row.type /\ used.inactive = row.inactive
  BY <1>4 DEF GrantRow
<1>6. Grantable(used)
  BY <1>3, <1>5 DEF Grantable
<1> QED BY <1>2, <1>3, <1>4, <1>5, <1>6 DEF RowAccounted

\* A step that answers nothing that could be wrong.
Silent == useAnswer' = Unanswered \/ useAnswer'[1] # "InsufficientUses"

LEMMA SilentTrue == Silent => AnswerTrue'
BY DEF Silent, AnswerTrue

LEMMA EStart == EntitlementsInit => EInv
<1> SUFFICES ASSUME EntitlementsInit PROVE EInv
  OBVIOUS
<1>1. EntitlementShapes /\ Days
  BY EntitlementConstants DEF EntitlementsInit, EntitlementShapes, Days
<1>2. UseSound /\ RowsAccounted /\ AnswerTrue
  BY DEF EntitlementsInit, UseSound, RowsAccounted, RowAccounted, AnswerTrue
<1> QED BY <1>1, <1>2, EInvParts

LEMMA AdminGrantsKeeps ==
  ASSUME EInv, NEW k \in EntitlementKeys, NEW g \in Grants, AdminGrants(k, g)
  PROVE  EInv'
<1>1. /\ usage = NoUse /\ entitlements' = [entitlements EXCEPT ![k] = g]
      /\ granted' = [granted EXCEPT ![k] = g.count + g.limit]
      /\ title' = title /\ usage' = usage /\ today' = today /\ Silent
  BY DEF AdminGrants, NoneInHand, Upsert, Silent
<1>2. EntitlementShapes /\ Days /\ RowsAccounted
  BY EInvParts
<1>3. EntitlementShapes'
  BY <1>1, <1>2, GrantAccounted DEF EntitlementShapes
<1>4. RowsAccounted'
  BY <1>1, <1>2, GrantAccounted DEF RowsAccounted, EntitlementShapes
<1>5. Days' /\ UseSound' /\ AnswerTrue'
  BY <1>1, <1>2, SilentTrue DEF Days, UseSound
<1> QED BY <1>3, <1>4, <1>5, EInvPartsNext

LEMMA AdminRevokesKeeps ==
  ASSUME EInv, NEW k \in EntitlementKeys, AdminRevokes(k)
  PROVE  EInv'
<1>1. /\ usage = NoUse /\ entitlements' = [entitlements EXCEPT ![k] = NotGranted]
      /\ granted' = granted /\ title' = title /\ usage' = usage /\ today' = today /\ Silent
  BY DEF AdminRevokes, NoneInHand, Silent
<1>2. EntitlementShapes /\ Days /\ RowsAccounted
  BY EInvParts
<1>3. EntitlementShapes'
  BY <1>1, <1>2 DEF EntitlementShapes
<1>4. RowsAccounted'
  BY <1>1, <1>2 DEF RowsAccounted, EntitlementShapes, RowAccounted
<1>5. Days' /\ UseSound' /\ AnswerTrue'
  BY <1>1, <1>2, SilentTrue DEF Days, UseSound
<1> QED BY <1>3, <1>4, <1>5, EInvPartsNext

\* A title sees its own row of a label, or that of all titles.
LEMMA VisibleRow ==
  ASSUME EInv, NEW label \in Labels, GetVisible(label) # NotGranted
  PROVE  /\ <<GetVisible(label), label>> \in EntitlementKeys
         /\ entitlements[<<GetVisible(label), label>>] # NotGranted
<1>1. Candidates(label) # {} /\ title \in Titles /\ AllTitles \in Titles
  BY EInvParts, EntitlementConstants DEF GetVisible, Days
<1>2. GetVisible(label) \in Candidates(label)
  BY <1>1 DEF GetVisible, Candidates
<1> QED BY <1>1, <1>2 DEF Candidates, EntitlementKeys

LEMMA ConsumeKeeps ==
  ASSUME EInv, NEW label \in Labels, NEW count \in Counts, Consume(label, count)
  PROVE  EInv'
<1>1. /\ usage = NoUse /\ entitlements' = entitlements /\ granted' = granted
      /\ title' = title /\ today' = today
  BY DEF Consume, NoneInHand
<1>2. EntitlementShapes /\ Days /\ RowsAccounted
  BY EInvParts
<1>3. RowsAccounted' /\ Days'
  BY <1>1, <1>2 DEF RowsAccounted, Days
<1>4. CASE usage' = usage /\ Silent
  <2>1. EntitlementShapes' /\ UseSound' /\ AnswerTrue'
    BY <1>1, <1>2, <1>4, SilentTrue DEF EntitlementShapes, UseSound
  <2> QED BY <1>3, <2>1, EInvPartsNext
<1>5. CASE /\ GetVisible(label) # NotGranted
           /\ LET row == entitlements[<<GetVisible(label), label>>] IN
                row.consumable /\ IsActive(row, today)
           /\ usage' = [key |-> <<GetVisible(label), label>>, count |-> count, at |-> today]
           /\ useAnswer' = Unanswered
  <2>1. usage' \in Use
    BY <1>2, <1>5, VisibleRow DEF Use, Days
  <2>2. EntitlementShapes'
    BY <1>1, <1>2, <2>1 DEF EntitlementShapes
  <2>3. usage'.key = <<GetVisible(label), label>> /\ usage'.at = today
    BY <1>5
  <2>4. UseSound' /\ AnswerTrue'
    BY <1>1, <1>5, <2>3, SilentTrue DEF UseSound, Silent
  <2> QED BY <1>3, <2>2, <2>4, EInvPartsNext
<1>6. ASSUME UNCHANGED usage,
             useAnswer' \in {<<"NotFound">>, <<"NotConsumable">>, <<"Inactive">>}
      PROVE  usage' = usage /\ Silent
  BY <1>6 DEF Silent
<1> QED BY <1>4, <1>5, <1>6 DEF Consume

LEMMA ConsumeUpdateKeeps ==
  ASSUME EInv, ConsumeUpdate
  PROVE  EInv'
<1>1. /\ usage # NoUse /\ usage' = NoUse
      /\ granted' = granted /\ title' = title /\ today' = today
  BY DEF ConsumeUpdate
<1>2. EntitlementShapes /\ Days /\ RowsAccounted /\ UseSound
  BY EInvParts
<1>3. PICK k, n : k = usage.key /\ n = usage.count
  OBVIOUS
<1>4. k \in EntitlementKeys /\ n \in Nat
  BY <1>1, <1>2, <1>3, EntitlementConstants DEF EntitlementShapes, Use
<1>5. PICK row : row = entitlements[k]
  OBVIOUS
<1>6. row \in GrantRow \cup {NotGranted} /\ RowAccounted(row, granted[k]) /\ granted[k] \in Int
  BY <1>2, <1>4, <1>5 DEF EntitlementShapes, RowsAccounted
<1>7. Days' /\ UseSound'
  BY <1>1, <1>2 DEF Days, UseSound
<1>8. CASE Matches(row, usage)
  <2>1. /\ entitlements' = [entitlements EXCEPT ![k].count = @ + n, ![k].limit = @ - n]
        /\ useAnswer' = <<"Used", row.limit - n>>
    BY <1>3, <1>5, <1>8 DEF ConsumeUpdate
  <2>2. PICK used : used = [row EXCEPT !.count = row.count + n, !.limit = row.limit - n]
    OBVIOUS
  <2>3. entitlements' = [entitlements EXCEPT ![k] = used]
    BY <1>2, <1>4, <1>5, <2>1, <2>2 DEF EntitlementShapes
  <2>4. row \in GrantRow /\ Grantable(row) /\ row.consumable /\ row.limit >= n
    BY <1>3, <1>6, <1>8 DEF Matches, RowAccounted
  <2>5. used \in GrantRow /\ RowAccounted(used, granted[k])
    BY <1>4, <1>6, <1>8, <2>2, <2>4, UseAccounted DEF RowAccounted, Matches
  <2>6. EntitlementShapes'
    BY <1>1, <1>2, <2>3, <2>5 DEF EntitlementShapes
  <2>7. RowsAccounted'
    BY <1>1, <1>2, <2>3, <2>5 DEF RowsAccounted, EntitlementShapes
  <2>8. AnswerTrue'
    BY <2>1, SilentTrue DEF Silent
  <2> QED BY <1>7, <2>6, <2>7, <2>8, EInvPartsNext
<1>9. CASE ~Matches(row, usage)
  <2>1. entitlements' = entitlements /\ useAnswer' = <<"InsufficientUses", usage>>
    BY <1>3, <1>5, <1>9 DEF ConsumeUpdate
  <2>2. EntitlementShapes' /\ RowsAccounted'
    BY <1>1, <1>2, <2>1 DEF EntitlementShapes, RowsAccounted
  <2>3. row = NotGranted \/ ~(row.limit >= n)
    BY <1>1, <1>2, <1>3, <1>5, <1>9 DEF Matches, UseSound
  <2>4. row # NotGranted => row.limit \in Int
    BY <1>6 DEF GrantRow
  <2>5. row = NotGranted \/ row.limit < n
    BY <1>4, <2>3, <2>4
  <2>6. useAnswer'[2] = usage
    BY <2>1
  <2>7. AnswerTrue'
    BY <1>3, <1>5, <2>1, <2>5, <2>6 DEF AnswerTrue
  <2> QED BY <1>7, <2>2, <2>7, EInvPartsNext
<1> QED BY <1>8, <1>9

\* Signing in, the end of the account and the passing of days.
LEMMA OthersKeep ==
  ASSUME EInv, (\E t \in Titles : Login(t)) \/ AccountDeleted \/ DayPasses
  PROVE  EInv'
<1>1. EntitlementShapes /\ Days /\ RowsAccounted /\ UseSound
  BY EInvParts
<1>2. AnswerTrue'
  BY SilentTrue DEF Silent, Login, AccountDeleted, DayPasses
<1>3. CASE \E t \in Titles : Login(t)
  <2>1. /\ entitlements' = entitlements /\ granted' = granted /\ usage' = usage
        /\ title' \in Titles /\ today' = today
    BY <1>3 DEF Login
  <2>2. EntitlementShapes' /\ Days' /\ RowsAccounted' /\ UseSound'
    BY <1>1, <2>1 DEF EntitlementShapes, Days, RowsAccounted, UseSound
  <2> QED BY <1>2, <2>2, EInvPartsNext
<1>4. CASE AccountDeleted
  <2>1. /\ entitlements' = [k \in EntitlementKeys |-> NotGranted]
        /\ granted' = granted /\ usage' = usage /\ title' = title /\ today' = today
    BY <1>4 DEF AccountDeleted
  <2>2. EntitlementShapes' /\ Days' /\ RowsAccounted'
    BY <1>1, <2>1 DEF EntitlementShapes, Days, RowsAccounted, RowAccounted
  <2>3. ASSUME usage' # NoUse PROVE entitlements'[usage'.key] = NotGranted
    <3>1. usage \in Use
      BY <1>1, <2>1, <2>3 DEF EntitlementShapes
    <3>2. usage.key \in EntitlementKeys
      BY <3>1 DEF Use
    <3> QED BY <2>1, <3>2
  <2>4. UseSound'
    <3>1. CASE usage' = NoUse
      BY <3>1 DEF UseSound
    <3>2. CASE entitlements'[usage'.key] = NotGranted
      BY <3>2 DEF UseSound
    <3> QED BY <2>3, <3>1, <3>2
  <2> QED BY <1>2, <2>2, <2>4, EInvPartsNext
<1>5. CASE DayPasses
  <2>1. /\ entitlements' = entitlements /\ granted' = granted /\ usage' = usage
        /\ title' = title /\ today' = today + 1 /\ today < MaxDays
    BY <1>5 DEF DayPasses
  <2>2. EntitlementShapes' /\ Days' /\ RowsAccounted' /\ UseSound'
    BY <1>1, <2>1, EntitlementConstants DEF EntitlementShapes, Days, RowsAccounted, UseSound
  <2> QED BY <1>2, <2>2, EInvPartsNext
<1> QED BY <1>3, <1>4, <1>5

\* Every step keeps the invariant, and it holds from the beginning.
LEMMA EStep == EInv /\ [EntitlementsNext]_entitlementVars => EInv'
<1> SUFFICES ASSUME EInv, [EntitlementsNext]_entitlementVars PROVE EInv'
  OBVIOUS
<1>1. CASE EntitlementsNext
  BY <1>1, AdminGrantsKeeps, AdminRevokesKeeps, ConsumeKeeps, ConsumeUpdateKeeps, OthersKeep
     DEF EntitlementsNext
<1>2. CASE UNCHANGED entitlementVars
  <2>1. /\ entitlements' = entitlements /\ granted' = granted /\ usage' = usage
        /\ title' = title /\ today' = today /\ useAnswer' = useAnswer
    BY <1>2 DEF entitlementVars
  <2>2. EntitlementShapes /\ Days /\ RowsAccounted /\ UseSound /\ AnswerTrue
    BY EInvParts
  <2>3. EntitlementShapes' /\ Days' /\ RowsAccounted' /\ UseSound' /\ AnswerTrue'
    BY <2>1, <2>2 DEF EntitlementShapes, Days, RowsAccounted, UseSound, AnswerTrue
  <2> QED BY <2>3, EInvPartsNext
<1> QED BY <1>1, <1>2

LEMMA EntitlementInvariant == EntitlementsSpec => []EInv
BY EStart, EStep, PTL DEF EntitlementsSpec

\* Types: every row is one that may be granted.
THEOREM EntitlementTypes == EntitlementsSpec => []EntitlementsTyped
<1>1. EInv => EntitlementsTyped
  BY DEF EInv
<1> QED BY <1>1, EntitlementInvariant, PTL

\* What was granted is used or left, never less than nothing is left, and a use is refused
\* for want of uses only if its row has fewer or is gone (entitlement_db.cpp, Consume).
THEOREM UsesAlwaysAccounted == EntitlementsSpec => []UsesAccounted
<1>1. EInv => UsesAccounted
  BY DEF EInv
<1> QED BY <1>1, EntitlementInvariant, PTL

-----------------------------------------------------------------------------
(* Game custom data *)

Receipts == [item: Ids, user: People, used: BOOLEAN]
Prune == [op: {"prune"}, left: SUBSET People, to: SUBSET People, from: People]

CustomDataShapes ==
  /\ registered \subseteq People /\ blocked \subseteq People \X People
  /\ lastItem \in 0 .. MaxItems /\ hour \in 0 .. MaxHours
  /\ items \in [Ids -> ItemRow \cup {NoItem}] /\ received \subseteq Receipts

\* Every row is of an item that is there and was drawn, and nobody has an item twice.
ReceiptSound(r) ==
  /\ r.item <= lastItem /\ items[r.item] # NoItem
  /\ Receipt(r.item, r.user, ~r.used) \notin received
ReceiptsSound == \A r \in received : ReceiptSound(r)

\* An addressee of the last item has it, or left, or its sender did.
Has(u, id) == \E r \in received : r.user = u /\ r.item = id
Reached(u, from) == Has(u, lastItem) \/ u \notin registered \/ from \notin registered

\* An item that is to be created has its id to come; one that is being sent is the last.
Creating == inHand # NothingInHand /\ inHand.op = "create"
Pruning == inHand # NothingInHand /\ inHand.op = "prune"
CreateSound ==
  Creating => inHand.to \subseteq People /\ inHand.item \in ItemRow /\ lastItem < MaxItems
PruneSound ==
  Pruning =>
    /\ inHand \in Prune /\ lastItem \in Ids
    /\ items[lastItem] = NoItem \/ items[lastItem].from = inHand.from
    /\ \A u \in inHand.to : Reached(u, inHand.from)

DInv == CustomDataShapes /\ ReceiptsSound /\ CreateSound /\ PruneSound

-----------------------------------------------------------------------------
Newer(rows, r) == {n \in rows : n.item > r.item}

LEMMA ReceiptsFinite == ASSUME NEW rows \in SUBSET Receipts PROVE IsFiniteSet(rows)
<1>1. IsFiniteSet(Ids) /\ IsFiniteSet(People) /\ IsFiniteSet(BOOLEAN)
  <2>1. IsFiniteSet(1 .. MaxItems)
    BY FS_Interval, CustomDataConstants
  <2>2. IsFiniteSet({TRUE} \cup {FALSE})
    BY FS_Singleton, FS_AddElement
  <2>3. {TRUE} \cup {FALSE} = BOOLEAN
    BY Zenon
  <2> QED BY <2>1, <2>2, <2>3, CustomDataConstants DEF Ids
<1> DEFINE Coordinates == (Ids \X People) \X BOOLEAN
           f == [p \in Coordinates |-> Receipt(p[1][1], p[1][2], p[2])]
           T == {f[p] : p \in Coordinates}
<1>2. IsFiniteSet(Coordinates)
  BY <1>1, FS_Product
<1>3. IsFiniteSet(T)
  <2>1. f \in Surjection(Coordinates, T)
    <3>1. f \in [Coordinates -> T] /\ \A t \in T : \E p \in Coordinates : f[p] = t
      OBVIOUS
    <3> HIDE DEF f, T, Coordinates
    <3> QED BY <3>1 DEF Surjection
  <2> QED BY <1>2, <2>1, FS_Surjection
<1>4. rows \subseteq T
  <2>1. SUFFICES ASSUME NEW r \in rows
                 PROVE  \E p \in Coordinates : r = Receipt(p[1][1], p[1][2], p[2])
    OBVIOUS
  <2>2. r \in Receipts
    OBVIOUS
  <2>3. r = Receipt(r.item, r.user, r.used)
    BY <2>2 DEF Receipts, Receipt
  <2>4. <<<<r.item, r.user>>, r.used>> \in Coordinates
    BY <2>2 DEF Receipts
  <2> QED BY <2>3, <2>4
<1> QED BY <1>3, <1>4, FS_Subset

\* Of rows there is one with the highest id.
LEMMA Newest ==
  ASSUME NEW rows \in SUBSET Receipts, rows # {}
  PROVE  \E m \in rows : \A r \in rows : r.item <= m.item
<1> DEFINE Below == {j \in Nat : \E r \in rows : r.item + j = MaxItems}
<1>1. MaxItems \in Nat
  BY CustomDataConstants
<1>2. \A r \in rows : r.item \in 1 .. MaxItems
  BY DEF Receipts, Ids
<1>3. \A r \in rows : MaxItems - r.item \in Below
  BY <1>1, <1>2
<1>4. Below # {} /\ Below \subseteq Nat
  BY <1>3
<1> HIDE DEF Below
<1>5. IsWellFoundedOn({p \in Nat \X Nat : p[1] < p[2]}, Nat)
  BY NatLessThanWellFounded DEF OpToRel
<1>6. \A R : IsWellFoundedOn(R, Nat) => \E l \in Below : \A i \in Below : <<i, l>> \notin R
  BY <1>4, WFMin
<1>7. PICK l \in Below : \A i \in Below : <<i, l>> \notin {p \in Nat \X Nat : p[1] < p[2]}
  BY <1>5, <1>6
<1>8. \A i \in Below : l <= i
  <2>1. SUFFICES ASSUME NEW i \in Below PROVE l <= i
    OBVIOUS
  <2>2. <<i, l>> \in Nat \X Nat /\ ~(i < l)
    BY <1>4, <1>7
  <2> QED BY <2>2
<1>9. PICK m \in rows : m.item + l = MaxItems
  BY DEF Below
<1>10. \A r \in rows : r.item <= m.item
  BY <1>1, <1>2, <1>3, <1>4, <1>8, <1>9
<1> QED BY <1>10

\* As many newer rows as are kept are left when a row is pruned: the newest of the rows
\* that go has only rows that stay above it.
LEMMA PrunedHasNewer ==
  ASSUME NEW rows \in SUBSET Receipts, NEW u, NEW r \in RowsOf(rows, u),
         r \notin KeptRows(rows, u)
  PROVE  Cardinality(Newer(KeptRows(rows, u), r)) >= kMaxReceivedPerUser
<1> DEFINE mine == RowsOf(rows, u)
           kept == KeptRows(rows, u)
           gone == mine \ kept
<1>1. mine \subseteq Receipts /\ gone \in SUBSET Receipts /\ r \in gone /\ kept \subseteq mine
  BY DEF RowsOf, KeptRows
<1>2. PICK m \in gone : \A x \in gone : x.item <= m.item
  BY <1>1, Newest
<1>3. ~(Cardinality(Newer(mine, m)) < kMaxReceivedPerUser)
  BY <1>2 DEF KeptRows, Newer
<1>4. m.item \in Int /\ r.item \in Int /\ r.item <= m.item
  BY <1>1, <1>2 DEF Receipts, Ids
<1>5. Newer(mine, m) \subseteq Newer(kept, r)
  <2>1. SUFFICES ASSUME NEW n \in mine, n.item > m.item PROVE n \in kept /\ n.item > r.item
    BY DEF Newer
  <2>2. n.item \in Int
    BY <1>1 DEF Receipts, Ids
  <2>3. n \notin gone
    BY <1>2, <1>4, <2>1, <2>2
  <2> QED BY <1>4, <2>1, <2>2, <2>3
<1>6. IsFiniteSet(Newer(kept, r)) /\ IsFiniteSet(Newer(mine, m))
  <2>1. Newer(kept, r) \in SUBSET Receipts /\ Newer(mine, m) \in SUBSET Receipts
    BY <1>1 DEF Newer
  <2> QED BY <2>1, ReceiptsFinite
<1>7. Cardinality(Newer(mine, m)) <= Cardinality(Newer(kept, r))
  BY <1>5, <1>6, FS_Subset
<1>8. Cardinality(Newer(mine, m)) \in Nat /\ Cardinality(Newer(kept, r)) \in Nat
  BY <1>6, FS_CardinalityType
<1> QED BY <1>3, <1>7, <1>8, CustomDataConstants

\* The newest row stays.
LEMMA NewestKept ==
  ASSUME NEW rows \in SUBSET Receipts, NEW u, NEW r \in RowsOf(rows, u),
         \A x \in rows : x.item <= r.item
  PROVE  r \in KeptRows(rows, u)
<1>1. Newer(RowsOf(rows, u), r) = {}
  BY DEF Newer, RowsOf, Receipts, Ids
<1>2. Cardinality(Newer(RowsOf(rows, u), r)) = 0
  BY <1>1, FS_EmptySet
<1> QED BY <1>2, CustomDataConstants DEF KeptRows, Newer

-----------------------------------------------------------------------------
(* What a step leaves alone. *)

KeepsReceipt(r) ==
  \/ \E used \in BOOLEAN : Receipt(r.item, r.user, used) \in received' /\ (r.used => used)
  \/ r.user \notin registered' \/ items[r.item].from \notin registered'
  \/ Cardinality({n \in RowsOf(received', r.user) : n.item > r.item}) >= kMaxReceivedPerUser
KeepsReceipts == \A r \in received : KeepsReceipt(r)
TellsHolders ==
  told' # <<>> => \A u \in told'[2] :
    \/ \E r \in RowsOf(received', u) : r.item = told'[1]
    \/ u \notin registered' \/ inHand.from \notin registered'

LEMMA InboxParts == InboxSound <=> KeepsReceipts /\ TellsHolders
BY DEF InboxSound, KeepsReceipts, KeepsReceipt, TellsHolders

LEMMA ReceiptStays ==
  ASSUME NEW r \in received, r \in Receipts, r \in received'
  PROVE  KeepsReceipt(r)
<1>1. r = Receipt(r.item, r.user, r.used) /\ r.used \in BOOLEAN
  BY DEF Receipts, Receipt
<1> QED BY <1>1 DEF KeepsReceipt

LEMMA ReceiptsStay ==
  ASSUME CustomDataShapes, received \subseteq received', told' = <<>>
  PROVE  InboxSound
<1>1. KeepsReceipts
  BY ReceiptStays DEF KeepsReceipts, CustomDataShapes
<1>2. TellsHolders
  BY DEF TellsHolders
<1> QED BY <1>1, <1>2, InboxParts

\* What is stored stays as it is, and the request in hand is the same or nothing is sent.
SameStore ==
  /\ registered' = registered /\ items' = items /\ lastItem' = lastItem
  /\ received' = received

LEMMA SameReceipts ==
  ASSUME DInv, SameStore PROVE ReceiptsSound'
BY DEF DInv, SameStore, ReceiptsSound, ReceiptSound

LEMMA SameHand ==
  ASSUME DInv, SameStore, inHand' = inHand PROVE CreateSound' /\ PruneSound'
BY DEF DInv, SameStore, CreateSound, PruneSound, Creating, Pruning, Reached, Has

LEMMA DStart == CustomDataInit => DInv
<1> SUFFICES ASSUME CustomDataInit PROVE DInv
  OBVIOUS
<1>1. CustomDataShapes
  BY CustomDataConstants DEF CustomDataInit, CustomDataShapes
<1>2. ReceiptsSound /\ CreateSound /\ PruneSound
  BY DEF CustomDataInit, ReceiptsSound, CreateSound, PruneSound, Creating, Pruning
<1> QED BY <1>1, <1>2 DEF DInv

-----------------------------------------------------------------------------
(* Sending an item. *)

LEMMA HandleSendKeeps ==
  ASSUME DInv, NEW u \in People, NEW to \in SUBSET People, NEW a \in Attachments,
         NEW scope \in Scopes, HandleSend(u, to, a, scope)
  PROVE  DInv' /\ InboxSound
<1> DEFINE expires == IF a.lifetime = Forever THEN Forever ELSE hour + a.lifetime
           item == [from |-> u, communicationId |-> scope.communicationId,
                    titleId |-> scope.titleId, url |-> a.url, expires |-> expires]
<1>1. /\ SameStore /\ blocked' = blocked /\ hour' = hour /\ told' = <<>> /\ lastItem < MaxItems
      /\ inHand' = [op |-> "create", to |-> to, item |-> item]
  BY DEF HandleSend, SameStore
<1>2. item \in ItemRow
  <2>1. scope \in [communicationId: STRING, titleId: STRING]
        /\ a \in [url: BOOLEAN, lifetime: Nat \cup {Forever}]
    BY CustomDataConstants
  <2>2. hour \in Nat
    BY CustomDataConstants DEF DInv, CustomDataShapes
  <2>3. expires \in Nat \cup {Forever}
    BY <2>1, <2>2
  <2> QED BY <2>1, <2>3 DEF ItemRow
<1> HIDE DEF item
<1>3. CustomDataShapes'
  BY <1>1 DEF DInv, CustomDataShapes, SameStore
<1>4. inHand'.op = "create" /\ inHand'.to = to /\ inHand'.item = item
  BY <1>1
<1>5. CreateSound' /\ PruneSound'
  BY <1>1, <1>2, <1>4 DEF CreateSound, PruneSound, Creating, Pruning, SameStore
<1>6. InboxSound
  BY <1>1, ReceiptsStay DEF DInv, SameStore
<1> QED BY <1>1, <1>3, <1>5, <1>6, SameReceipts DEF DInv

LEMMA CreateItemKeeps == ASSUME DInv, CreateItem PROVE DInv' /\ InboxSound
<1> DEFINE id == lastItem + 1
           new == {Receipt(id, u, FALSE) : u \in inHand.to}
<1>1. /\ Creating /\ lastItem' = id /\ items' = [items EXCEPT ![id] = inHand.item]
      /\ received' = received \cup new
      /\ inHand' = [op |-> "prune", left |-> inHand.to, to |-> inHand.to,
                    from |-> inHand.item.from]
      /\ told' = <<>> /\ registered' = registered /\ blocked' = blocked /\ hour' = hour
  BY DEF CreateItem, Creating
<1>2. CustomDataShapes /\ ReceiptsSound
  BY DEF DInv
<1>3. inHand.to \subseteq People /\ inHand.item \in ItemRow /\ id \in Ids /\ lastItem \in Nat
  BY <1>1, CustomDataConstants DEF DInv, CustomDataShapes, CreateSound, Ids
<1>4. new \subseteq Receipts
  <2>1. SUFFICES ASSUME NEW v \in inHand.to PROVE Receipt(id, v, FALSE) \in Receipts
    OBVIOUS
  <2>2. v \in People
    BY <1>3
  <2> QED BY <1>3, <2>2 DEF Receipts, Receipt
<1>5. \A r \in new : r.item = id /\ r.used = FALSE
  BY DEF Receipt
<1> HIDE DEF new
<1>6. CustomDataShapes'
  BY <1>1, <1>2, <1>3, <1>4 DEF CustomDataShapes, Ids
<1>7. ReceiptsSound'
  <2>1. SUFFICES ASSUME NEW r \in received' PROVE ReceiptSound(r)'
    BY DEF ReceiptsSound
  <2>2. CASE r \in new
    <3>1. r.item = id /\ items'[id] = inHand.item /\ inHand.item # NoItem
      BY <1>1, <1>2, <1>3, <1>5, <2>2, CustomDataConstants DEF CustomDataShapes
    <3>2. ASSUME Receipt(r.item, r.user, ~r.used) \in received'
          PROVE  FALSE
      <4>1. Receipt(id, r.user, TRUE) \in received'
        BY <1>5, <2>2, <3>1, <3>2
      <4>2. Receipt(id, r.user, TRUE).item = id
        BY DEF Receipt
      <4>3. Receipt(id, r.user, TRUE) \notin new
        <5>1. Receipt(id, r.user, TRUE).used = TRUE
          BY DEF Receipt
        <5> QED BY <1>5, <5>1
      <4>4. Receipt(id, r.user, TRUE) \in received
        BY <1>1, <4>1, <4>3
      <4>5. PICK x \in received : x.item = id
        BY <4>2, <4>4, Zenon
      <4>6. x.item <= lastItem
        BY <1>2 DEF ReceiptsSound, ReceiptSound
      <4> QED BY <1>3, <4>5, <4>6
    <3>3. lastItem' = id /\ r.item <= id
      BY <1>1, <1>3, <3>1
    <3> QED BY <3>1, <3>2, <3>3 DEF ReceiptSound
  <2>3. CASE r \in received
    <3>1. ReceiptSound(r) /\ r \in Receipts
      BY <1>2, <2>3 DEF ReceiptsSound, CustomDataShapes
    <3>2. r.item \in Ids /\ r.item <= lastItem /\ items[r.item] # NoItem
      BY <3>1 DEF ReceiptSound, Receipts
    <3>3. r.item # id /\ r.item <= id
      BY <1>3, <3>2 DEF Ids
    <3>4. items'[r.item] # NoItem
      BY <1>1, <1>2, <3>2, <3>3 DEF CustomDataShapes
    <3>5. Receipt(r.item, r.user, ~r.used) \notin new
      BY <1>5, <3>3 DEF Receipt
    <3>6. Receipt(r.item, r.user, ~r.used) \notin received'
      BY <1>1, <3>1, <3>5 DEF ReceiptSound
    <3> QED BY <1>1, <3>3, <3>4, <3>6 DEF ReceiptSound
  <2> QED BY <1>1, <2>1, <2>2, <2>3
<1>8. inHand'.op = "prune" /\ inHand'.to = inHand.to /\ inHand'.from = inHand.item.from
  BY <1>1
<1>9. CreateSound'
  BY <1>8 DEF CreateSound, Creating
<1>10. PruneSound'
  <2>1. inHand' \in Prune
    BY <1>1, <1>3 DEF Prune, ItemRow
  <2>2. items'[lastItem'] = inHand.item
    BY <1>1, <1>2, <1>3 DEF CustomDataShapes
  <2>3. ASSUME NEW u \in inHand'.to PROVE Reached(u, inHand.from)'
    <3>1. Receipt(id, u, FALSE) \in received'
      BY <1>1, <1>8, <2>3 DEF new
    <3>2. Receipt(id, u, FALSE).user = u /\ Receipt(id, u, FALSE).item = id
      BY DEF Receipt
    <3> QED BY <1>1, <3>1, <3>2 DEF Reached, Has
  <2>4. items'[lastItem'].from = inHand'.from
    BY <1>8, <2>2
  <2> QED BY <1>1, <1>3, <2>1, <2>3, <2>4 DEF PruneSound
<1>11. InboxSound
  BY <1>1, <1>2, ReceiptsStay
<1> QED BY <1>6, <1>7, <1>9, <1>10, <1>11 DEF DInv

-----------------------------------------------------------------------------
(* Keeping an inbox to its size. *)

\* An item nobody has a row of may go.
LEMMA OrphansLoseNothing ==
  ASSUME NEW rows \in SUBSET Receipts, CustomDataShapes, rows \subseteq received,
         NEW r \in rows, items[r.item] # NoItem
  PROVE  Remaining(Orphans(rows))[r.item] = items[r.item]
<1>1. r.item \in Ids /\ r.item \notin Orphans(rows)
  BY DEF Receipts, Orphans
<1> QED BY <1>1 DEF Remaining

LEMMA PruneReceivedKeeps ==
  ASSUME DInv, NEW u \in People, PruneReceived(u) PROVE DInv' /\ InboxSound
<1> DEFINE others == received \ RowsOf(received, u)
           kept == KeptRows(received, u)
<1>1. /\ Pruning /\ received' = others \cup kept /\ told' = <<>>
      /\ items' = IF received' = received THEN items ELSE Remaining(Orphans(received'))
      /\ inHand' = [inHand EXCEPT !.left = @ \ {u}]
      /\ registered' = registered /\ blocked' = blocked /\ hour' = hour /\ lastItem' = lastItem
  BY DEF PruneReceived, Pruning
<1>2. CustomDataShapes /\ ReceiptsSound /\ PruneSound
  BY DEF DInv
<1>3. received' \subseteq received /\ received \in SUBSET Receipts /\ received' \in SUBSET Receipts
  BY <1>1, <1>2 DEF CustomDataShapes, KeptRows, RowsOf
<1>4. \A i \in Ids : items'[i] \in {items[i], NoItem}
  BY <1>1 DEF Remaining
<1>5. \A r \in received' : items'[r.item] = items[r.item] /\ items[r.item] # NoItem
  BY <1>1, <1>2, <1>3, OrphansLoseNothing DEF ReceiptsSound, ReceiptSound
<1>6. CustomDataShapes'
  <2>1. items' \in [Ids -> ItemRow \cup {NoItem}]
    BY <1>1, <1>2 DEF CustomDataShapes, Remaining
  <2> QED BY <1>1, <1>2, <1>3, <2>1 DEF CustomDataShapes
<1>7. ReceiptsSound'
  BY <1>1, <1>2, <1>3, <1>5 DEF ReceiptsSound, ReceiptSound
<1>8. inHand' \in Prune /\ inHand'.op = "prune" /\ inHand'.to = inHand.to
      /\ inHand'.from = inHand.from
  BY <1>1, <1>2 DEF PruneSound, Prune
<1>9. CreateSound'
  BY <1>8 DEF CreateSound, Creating
<1>10. RowsOf(received', u) = kept /\ \A v : v # u => RowsOf(received', v) = RowsOf(received, v)
  BY <1>1 DEF RowsOf, KeptRows
<1>11. PruneSound'
  <2>1. ASSUME NEW v \in inHand.to PROVE Reached(v, inHand.from)'
    <3>1. Reached(v, inHand.from)
      BY <1>1, <1>2 DEF PruneSound
    <3>2. CASE v \notin registered \/ inHand.from \notin registered
      BY <1>1, <1>8, <3>2 DEF Reached
    <3>3. CASE Has(v, lastItem)
      <4>1. PICK r \in received : r.user = v /\ r.item = lastItem
        BY <3>3 DEF Has
      <4>2. r \in received'
        <5>1. CASE v = u
          <6>1. \A x \in received : x.item <= r.item
            BY <1>2, <4>1 DEF ReceiptsSound, ReceiptSound
          <6>2. r \in kept
            BY <1>3, <4>1, <5>1, <6>1, NewestKept DEF RowsOf
          <6> QED BY <1>1, <6>2
        <5>2. CASE v # u
          BY <1>1, <4>1, <5>2 DEF RowsOf
        <5> QED BY <5>1, <5>2
      <4> QED BY <1>1, <4>1, <4>2 DEF Reached, Has
    <3> QED BY <3>1, <3>2, <3>3 DEF Reached
  <2>2. items'[lastItem'] = NoItem \/ items'[lastItem'].from = inHand'.from
    <3>1. items'[lastItem] \in {items[lastItem], NoItem}
      BY <1>1, <1>2, <1>4 DEF PruneSound
    <3>2. items[lastItem] = NoItem \/ items[lastItem].from = inHand.from
      BY <1>1, <1>2 DEF PruneSound
    <3> QED BY <1>1, <1>8, <3>1, <3>2
  <2>3. \A v \in inHand'.to : Reached(v, inHand.from)'
    BY <1>8, <2>1
  <2>4. lastItem' \in Ids
    BY <1>1, <1>2 DEF PruneSound
  <2> QED BY <1>8, <2>2, <2>3, <2>4 DEF PruneSound
<1>12. InboxSound
  <2>1. ASSUME NEW r \in received PROVE KeepsReceipt(r)
    <3>1. r \in Receipts
      BY <1>3
    <3>2. CASE r \in received'
      BY <3>1, <3>2, ReceiptStays
    <3>3. CASE r \notin received'
      <4>1. r \in RowsOf(received, u) /\ r \notin kept /\ r.user = u
        BY <1>1, <3>3 DEF RowsOf
      <4>2. Cardinality(Newer(kept, r)) >= kMaxReceivedPerUser
        BY <1>3, <4>1, PrunedHasNewer
      <4> QED BY <1>10, <4>1, <4>2 DEF KeepsReceipt, Newer
    <3> QED BY <3>2, <3>3
  <2>2. TellsHolders
    BY <1>1 DEF TellsHolders
  <2> QED BY <2>1, <2>2, InboxParts DEF KeepsReceipts
<1> QED BY <1>6, <1>7, <1>9, <1>11, <1>12 DEF DInv

\* Whoever is told of the item has been reached.
LEMMA SendKeeps ==
  ASSUME DInv, NEW online \in SUBSET People, SendGameCustomDataEvent(online)
  PROVE  DInv' /\ InboxSound
<1>1. /\ Pruning /\ SameStore /\ told' = <<lastItem, inHand.to \cap online>>
      /\ inHand' = NothingInHand /\ blocked' = blocked /\ hour' = hour
  BY DEF SendGameCustomDataEvent, Pruning, SameStore
<1>2. CustomDataShapes' /\ CreateSound' /\ PruneSound'
  BY <1>1 DEF DInv, CustomDataShapes, SameStore, CreateSound, PruneSound, Creating, Pruning
<1>3. KeepsReceipts
  BY <1>1, ReceiptStays DEF KeepsReceipts, DInv, CustomDataShapes, SameStore
<1>4. TellsHolders
  <2>1. told'[1] = lastItem /\ told'[2] = inHand.to \cap online
    BY <1>1
  <2>2. ASSUME NEW u \in told'[2]
        PROVE  \/ \E r \in RowsOf(received', u) : r.item = told'[1]
               \/ u \notin registered' \/ inHand.from \notin registered'
    <3>1. Reached(u, inHand.from)
      BY <1>1, <2>1, <2>2 DEF DInv, PruneSound
    <3>2. CASE Has(u, lastItem)
      BY <1>1, <2>1, <3>2 DEF Has, RowsOf, SameStore
    <3>3. CASE u \notin registered \/ inHand.from \notin registered
      BY <1>1, <3>3 DEF SameStore
    <3> QED BY <3>1, <3>2, <3>3 DEF Reached
  <2> QED BY <2>2 DEF TellsHolders
<1> QED BY <1>1, <1>2, <1>3, <1>4, SameReceipts, InboxParts DEF DInv

-----------------------------------------------------------------------------
(* Using an item, and the threads of game sessions. *)

LEMMA MarkUsedKeeps ==
  ASSUME DInv, NEW u \in People, NEW id \in Ids, NEW scope \in Scopes, MarkUsed(u, id, scope)
  PROVE  DInv' /\ InboxSound
<1>1. /\ SameStore /\ inHand' = [op |-> "use", user |-> u, item |-> id] /\ told' = <<>>
      /\ blocked' = blocked /\ hour' = hour
  BY DEF MarkUsed, SameStore
<1>2. inHand'.op = "use"
  BY <1>1
<1>3. CustomDataShapes' /\ CreateSound' /\ PruneSound'
  BY <1>1, <1>2 DEF DInv, CustomDataShapes, SameStore, CreateSound, PruneSound, Creating, Pruning
<1>4. InboxSound
  BY <1>1, ReceiptsStay DEF DInv, SameStore
<1> QED BY <1>1, <1>3, <1>4, SameReceipts DEF DInv

LEMMA MarkedKeeps == ASSUME DInv, Marked PROVE DInv' /\ InboxSound
<1> DEFINE row == Receipt(inHand.item, inHand.user, FALSE)
           marked == Receipt(inHand.item, inHand.user, TRUE)
<1>1. /\ inHand' = NothingInHand /\ told' = <<>> /\ registered' = registered
      /\ blocked' = blocked /\ items' = items /\ lastItem' = lastItem /\ hour' = hour
      /\ received' = IF row \in received THEN (received \ {row}) \cup {marked} ELSE received
  BY DEF Marked
<1>2. CustomDataShapes /\ ReceiptsSound
  BY DEF DInv
<1>3. CreateSound' /\ PruneSound'
  BY <1>1 DEF CreateSound, PruneSound, Creating, Pruning
<1>4. CASE row \notin received
  <2>1. SameStore
    BY <1>1, <1>4 DEF SameStore
  <2>2. CustomDataShapes'
    BY <1>1, <1>2, <2>1 DEF CustomDataShapes, SameStore
  <2> QED BY <1>1, <1>2, <1>3, <2>1, <2>2, SameReceipts, ReceiptsStay DEF DInv, SameStore
<1>5. CASE row \in received
  <2>1. /\ row \in Receipts /\ row.item = inHand.item /\ row.user = inHand.user
        /\ row.used = FALSE
    BY <1>2, <1>5 DEF CustomDataShapes, Receipt
  <2>2. /\ marked \in Receipts /\ marked.item = row.item /\ marked.user = row.user
        /\ marked.used = TRUE
    BY <2>1 DEF Receipts, Receipt
  <2>3. received' = (received \ {row}) \cup {marked}
    BY <1>1, <1>5
  <2> HIDE DEF row, marked
  <2>4. CustomDataShapes'
    BY <1>1, <1>2, <2>2, <2>3 DEF CustomDataShapes
  <2>5. ReceiptsSound'
    <3>1. SUFFICES ASSUME NEW r \in received' PROVE ReceiptSound(r)'
      BY DEF ReceiptsSound
    <3>2. CASE r = marked
      <4>1. ReceiptSound(row)
        BY <1>2, <1>5 DEF ReceiptsSound
      <4>2. marked.item <= lastItem' /\ items'[marked.item] # NoItem
        BY <1>1, <2>2, <4>1 DEF ReceiptSound
      <4>3. Receipt(marked.item, marked.user, ~marked.used) = row
        <5>1. ~marked.used = FALSE
          BY <2>2, Zenon
        <5>2. Receipt(row.item, row.user, FALSE) = row
          BY <2>1 DEF row
        <5> QED BY <2>2, <5>1, <5>2, Zenon
      <4>4. row # marked
        BY <2>1, <2>2
      <4>5. row \notin received'
        BY <2>3, <4>4
      <4> QED BY <3>2, <4>2, <4>3, <4>5 DEF ReceiptSound
    <3>3. CASE r # marked
      <4>1. r \in received /\ r # row /\ ReceiptSound(r) /\ r \in Receipts
        BY <1>2, <2>3, <3>3 DEF ReceiptsSound, CustomDataShapes
      <4>2. Receipt(r.item, r.user, ~r.used) # marked
        <5>1. SUFFICES ASSUME Receipt(r.item, r.user, ~r.used) = marked PROVE FALSE
          OBVIOUS
        <5>2. r.item = marked.item /\ r.user = marked.user
          BY <5>1 DEF Receipt
        <5>3. Receipt(r.item, r.user, ~r.used).used = ~r.used
          BY DEF Receipt
        <5>4. ~r.used
          BY <2>2, <5>1, <5>3, Zenon
        <5>5. r = Receipt(r.item, r.user, r.used) /\ r.used \in BOOLEAN
          BY <4>1 DEF Receipts, Receipt
        <5>6. r.used = FALSE
          BY <5>4, <5>5, Zenon
        <5>7. r = Receipt(row.item, row.user, FALSE)
          BY <2>2, <5>2, <5>5, <5>6, Zenon
        <5>8. r = row
          BY <2>1, <5>7 DEF row
        <5> QED BY <4>1, <5>8
      <4>3. Receipt(r.item, r.user, ~r.used) \notin received'
        BY <2>3, <4>1, <4>2 DEF ReceiptSound
      <4>4. r.item <= lastItem' /\ items'[r.item] # NoItem
        BY <1>1, <4>1 DEF ReceiptSound
      <4> QED BY <4>3, <4>4 DEF ReceiptSound
    <3> QED BY <3>2, <3>3
  <2>6. InboxSound
    <3>1. ASSUME NEW r \in received PROVE KeepsReceipt(r)
      <4>1. CASE r \in received'
        BY <1>2, <4>1, ReceiptStays DEF CustomDataShapes
      <4>2. CASE r \notin received'
        <5>1. r = row
          BY <2>3, <4>2
        <5>2. Receipt(r.item, r.user, TRUE) \in received'
          BY <2>1, <2>3, <5>1 DEF marked
        <5> QED BY <5>2 DEF KeepsReceipt
      <4> QED BY <4>1, <4>2
    <3>2. TellsHolders
      BY <1>1 DEF TellsHolders
    <3> QED BY <3>1, <3>2, InboxParts DEF KeepsReceipts
  <2> QED BY <1>3, <2>4, <2>5, <2>6 DEF DInv
<1> QED BY <1>4, <1>5

LEMMA DeleteUserKeeps ==
  ASSUME DInv, NEW u \in People, DeleteUser(u) PROVE DInv' /\ InboxSound
<1> DEFINE sent == {id \in Ids : items[id] # NoItem /\ items[id].from = u}
<1>1. /\ registered' = registered \ {u} /\ items' = Remaining(sent)
      /\ received' = {r \in received : r.user # u /\ r.item \notin sent}
      /\ told' = <<>> /\ blocked' = blocked /\ lastItem' = lastItem /\ inHand' = inHand
      /\ hour' = hour
  BY DEF DeleteUser
<1>2. CustomDataShapes /\ ReceiptsSound /\ CreateSound /\ PruneSound
  BY DEF DInv
<1>3. \A i \in Ids : items'[i] = IF i \in sent THEN NoItem ELSE items[i]
  BY <1>1 DEF Remaining
<1>4. items' \in [Ids -> ItemRow \cup {NoItem}]
  BY <1>1, <1>2 DEF Remaining, CustomDataShapes
<1>5. \A r \in received : r \notin received' =>
        r.user \notin registered' \/ items[r.item].from \notin registered'
  BY <1>1
<1>6. \A i \in sent : items[i] # NoItem /\ items[i].from = u
  OBVIOUS
<1> HIDE DEF sent
<1>7. CustomDataShapes'
  BY <1>1, <1>2, <1>4 DEF CustomDataShapes
<1>8. ReceiptsSound'
  <2>1. SUFFICES ASSUME NEW r \in received' PROVE ReceiptSound(r)'
    BY DEF ReceiptsSound
  <2>2. r \in received /\ r.item \notin sent /\ ReceiptSound(r) /\ r.item \in Ids
    BY <1>1, <1>2 DEF ReceiptsSound, CustomDataShapes, Receipts
  <2>3. items'[r.item] = items[r.item]
    BY <1>3, <2>2
  <2> QED BY <1>1, <2>2, <2>3 DEF ReceiptSound
<1>9. CreateSound'
  BY <1>1, <1>2 DEF CreateSound, Creating
<1>10. PruneSound'
  <2>1. CASE ~Pruning
    BY <1>1, <2>1 DEF PruneSound, Pruning
  <2>2. CASE Pruning
    <3>1. /\ inHand \in Prune /\ lastItem \in Ids
          /\ items[lastItem] = NoItem \/ items[lastItem].from = inHand.from
          /\ \A v \in inHand.to : Reached(v, inHand.from)
      BY <1>2, <2>2 DEF PruneSound
    <3>2. ASSUME NEW v \in inHand.to PROVE Reached(v, inHand.from)'
      <4>1. Reached(v, inHand.from)
        BY <3>1
      <4>2. CASE v \notin registered \/ inHand.from \notin registered
        BY <1>1, <4>2 DEF Reached
      <4>3. CASE Has(v, lastItem)
        <5>1. PICK r \in received : r.user = v /\ r.item = lastItem
          BY <4>3 DEF Has
        <5>2. CASE r \in received'
          BY <1>1, <5>1, <5>2 DEF Reached, Has
        <5>3. CASE r \notin received'
          <6>1. items[lastItem] # NoItem
            BY <1>2, <5>1 DEF ReceiptsSound, ReceiptSound
          <6>2. v \notin registered' \/ inHand.from \notin registered'
            BY <1>5, <3>1, <5>1, <5>3, <6>1
          <6> QED BY <1>1, <6>2 DEF Reached
        <5> QED BY <5>2, <5>3
      <4> QED BY <4>1, <4>2, <4>3 DEF Reached
    <3>3. items'[lastItem'] = NoItem \/ items'[lastItem'].from = inHand'.from
      BY <1>1, <1>3, <3>1
    <3> QED BY <1>1, <3>1, <3>2, <3>3 DEF PruneSound
  <2> QED BY <2>1, <2>2
<1>11. InboxSound
  <2>1. ASSUME NEW r \in received PROVE KeepsReceipt(r)
    <3>1. CASE r \in received'
      BY <1>2, <3>1, ReceiptStays DEF CustomDataShapes
    <3>2. CASE r \notin received'
      BY <1>5, <3>2 DEF KeepsReceipt
    <3> QED BY <3>1, <3>2
  <2>2. TellsHolders
    BY <1>1 DEF TellsHolders
  <2> QED BY <2>1, <2>2, InboxParts DEF KeepsReceipts
<1> QED BY <1>7, <1>8, <1>9, <1>10, <1>11 DEF DInv

LEMMA OthersKeepItems ==
  ASSUME DInv, (\E a, b \in People : Block(a, b)) \/ HourPasses PROVE DInv' /\ InboxSound
<1>1. SameStore /\ inHand' = inHand /\ told' = <<>>
  BY DEF Block, HourPasses, SameStore
<1>2. CustomDataShapes'
  <2>1. CASE \E a, b \in People : Block(a, b)
    BY <1>1, <2>1 DEF DInv, CustomDataShapes, SameStore, Block
  <2>2. CASE HourPasses
    BY <1>1, <2>2, CustomDataConstants DEF DInv, CustomDataShapes, SameStore, HourPasses
  <2> QED BY <2>1, <2>2
<1>3. InboxSound
  BY <1>1, ReceiptsStay DEF DInv, SameStore
<1> QED BY <1>1, <1>2, <1>3, SameReceipts, SameHand DEF DInv

LEMMA DStep == DInv /\ [CustomDataNext]_customDataVars => DInv' /\ [InboxSound]_customDataVars
<1> SUFFICES ASSUME DInv, [CustomDataNext]_customDataVars
             PROVE  DInv' /\ [InboxSound]_customDataVars
  OBVIOUS
<1>1. CASE CustomDataNext
  <2>1. DInv' /\ InboxSound
    BY <1>1, HandleSendKeeps, CreateItemKeeps, PruneReceivedKeeps, SendKeeps, MarkUsedKeeps,
       MarkedKeeps, DeleteUserKeeps, OthersKeepItems DEF CustomDataNext
  <2> QED BY <2>1
<1>2. CASE UNCHANGED customDataVars
  <2>1. /\ SameStore /\ inHand' = inHand /\ blocked' = blocked /\ hour' = hour
    BY <1>2 DEF customDataVars, SameStore
  <2>2. CustomDataShapes'
    BY <2>1 DEF DInv, CustomDataShapes, SameStore
  <2> QED BY <1>2, <2>1, <2>2, SameReceipts, SameHand DEF DInv
<1> QED BY <1>1, <1>2

\* Types, every row is of an item that is there, and nobody has an item twice.
THEOREM CustomDataTypes == CustomDataSpec => []CustomDataTyped
<1>1. DInv => CustomDataTyped
  BY DEF DInv, CustomDataShapes, ReceiptsSound, ReceiptSound, CustomDataTyped
<1> QED BY <1>1, DStart, DStep, PTL DEF CustomDataSpec

\* What a player has received goes only when they have as many newer items as are kept,
\* or with an account; what was used stays used; and whoever is told of an item still has
\* it (game_custom_data_db.cpp, PruneReceived; webapi_routes_game_custom_data.cpp,
\* HandleSend).
THEOREM InboxAlwaysKept == CustomDataSpec => InboxKept
<1>1. CustomDataSpec => [][InboxSound]_customDataVars
  BY DStart, DStep, PTL DEF CustomDataSpec
<1> QED BY <1>1, PTL DEF InboxKept

-----------------------------------------------------------------------------
(* Configuration files *)

\* Only the worlds have rooms, and only a toolbox works with the server stopped.
RoomsOfWorlds ==
  /\ rooms # {} => config = "worlds" /\ phase = "up"
  /\ phase = "loaded" => config # "worlds"
  /\ txn # NoTransaction /\ txn.by = "toolbox" => config = "worlds"

\* What a save and a reload have looked at still holds: the backup is of the text that
\* the editor had read, the file too unless a text editor wrote, and the rooms, which are
\* locked, stay visible.
BackedUp == txn.base # NoFile => bak = txn.base
RoomsVisible == \A r \in rooms : Visible(txn.text, r)
TransactionSound ==
  txn # NoTransaction =>
    /\ txn.step = "apply" \/ txn.op # "save" => txn.apply
    /\ txn.step \in {"recheck", "commit"} => BackedUp
    /\ txn.step = "commit" /\ ~edited => file = txn.base
    /\ config = "worlds" /\ txn.apply /\ txn.step # "decide" => RoomsVisible

FInv == ConfigTyped /\ RoomsOfWorlds /\ TransactionSound

-----------------------------------------------------------------------------
Steps == {"decide", "prepare", "recheck", "commit", "apply"}

LEMMA GoOn ==
  ASSUME txn \in Transactions, NEW s \in Steps, Go(s)
  PROVE  /\ txn' \in Transactions /\ txn'.step = s /\ txn'.by = txn.by /\ txn'.op = txn.op
         /\ txn'.base = txn.base /\ txn'.text = txn.text /\ txn'.apply = txn.apply
<1>1. txn' = [txn EXCEPT !.step = s]
  BY DEF Go
<1> QED BY <1>1 DEF Transactions, Steps

LEMMA InTexts == DefaultRules \in Files /\ Blank \in Files /\ NoFile \in Files /\ Texts \subseteq Files
BY ConfigConstants DEF Files

\* Rooms whose world is on the list stay there while the settings in force and the other
\* rooms may change, but not the rooms of a group without worlds.
LEMMA RoomsKept ==
  ASSUME \A r \in rooms \cap rooms' :
           \/ inUse' = inUse
           \/ Visible(inUse', r)
  PROVE  KeepsRooms
<1> SUFFICES ASSUME NEW r \in rooms, r \in rooms',
                    r.key \in WorldInfoList(r.key[1], r.server)
             PROVE  (r.key \in WorldInfoList(r.key[1], r.server))'
  BY DEF KeepsRooms
<1> DEFINE g == r.key[1]
           used == {q.key : q \in {s \in rooms' : s.key[1] = g}}
<1>1. r.key \in used /\ used # {}
  OBVIOUS
<1>2. CASE inUse' = inUse
  BY <1>1, <1>2 DEF WorldInfoList, OfGroup
<1>3. CASE Visible(inUse', r)
  <2>1. CASE OfGroup(inUse', g) = {}
    BY <1>1, <2>1 DEF WorldInfoList
  <2>2. CASE OfGroup(inUse', g) # {}
    <3>1. r.key \in OfGroup(inUse', g) /\ inUse'[r.key] = r.server
      BY <1>3, <2>2 DEF Visible
    <3> QED BY <2>2, <3>1 DEF WorldInfoList
  <2> QED BY <2>1, <2>2
<1> QED BY <1>2, <1>3

LEMMA NoSave == ASSUME file' = file \/ txn' = txn PROVE ReplacesWhatWasRead
BY DEF ReplacesWhatWasRead

Steady == KeepsRooms /\ ReplacesWhatWasRead

-----------------------------------------------------------------------------
(* Start and end. *)

LEMMA FStart == ConfigInit => FInv
<1> SUFFICES ASSUME ConfigInit PROVE FInv
  OBVIOUS
<1>1. ConfigTyped
  BY InTexts DEF ConfigInit, ConfigTyped
<1>2. RoomsOfWorlds /\ TransactionSound
  BY DEF ConfigInit, RoomsOfWorlds, TransactionSound
<1> QED BY <1>1, <1>2 DEF FInv

\* With no rooms and no transaction only the types are at stake.
LEMMA NothingInForce ==
  ASSUME ConfigTyped', rooms' = {}, txn' = NoTransaction, phase' = "loaded" => config' # "worlds"
  PROVE  FInv'
BY DEF FInv, RoomsOfWorlds, TransactionSound

LEMMA NoRooms == ASSUME rooms = {} PROVE KeepsRooms
BY DEF KeepsRooms

LEMMA StoppedIdle ==
  ASSUME FInv, phase # "up", config # "worlds" \/ txn = NoTransaction
  PROVE  txn = NoTransaction /\ rooms = {}
BY DEF FInv, ConfigTyped, RoomsOfWorlds, Transactions

LEMMA StartKeeps ==
  ASSUME FInv, LoadScoreboardsCfg \/ LoadRules \/ StartAfterLoad \/ StartWorlds
  PROVE  FInv' /\ Steady
<1>1. phase # "up" /\ (config # "worlds" \/ txn = NoTransaction)
  BY DEF FInv, RoomsOfWorlds, LoadScoreboardsCfg, LoadRules, StartAfterLoad, StartWorlds
<1>2. txn = NoTransaction /\ rooms = {}
  BY <1>1, StoppedIdle
<1>3. /\ txn' = txn /\ rooms' = rooms /\ config' = config /\ bak' = bak /\ edited' = edited
      /\ phase' \in {"loaded", "up"} /\ (phase' = "loaded" => config # "worlds")
      /\ file' \in {file, DefaultRules} /\ active' \in {active, file}
  BY DEF LoadScoreboardsCfg, LoadRules, StartAfterLoad, StartWorlds, world
<1>4. ConfigTyped'
  BY <1>2, <1>3, InTexts DEF FInv, ConfigTyped
<1>5. FInv'
  BY <1>2, <1>3, <1>4, NothingInForce
<1> QED BY <1>2, <1>3, <1>5, NoRooms, NoSave DEF Steady

LEMMA CrashKeeps == ASSUME FInv, Crash PROVE FInv' /\ Steady
<1>1. /\ txn' = NoTransaction /\ rooms' = {} /\ config' = config /\ bak' = bak /\ file' = file
      /\ edited' = edited /\ phase' = "down" /\ active' = NoFile
  BY DEF Crash
<1>2. ConfigTyped'
  BY <1>1, InTexts DEF FInv, ConfigTyped
<1>3. KeepsRooms
  BY <1>1 DEF KeepsRooms
<1> QED BY <1>1, <1>2, <1>3, NothingInForce, NoSave DEF Steady

-----------------------------------------------------------------------------
(* A transaction, step by step. *)

\* A step of a transaction that goes on to step s, or ends it, leaves everything but the
\* file and the backup alone.
Elsewhere ==
  /\ config' = config /\ inUse' = inUse /\ rooms' = rooms /\ phase' = phase
  /\ active' = active

\* The types of a step that ends the transaction or takes it on.
LEMMA TransactionTyped ==
  ASSUME FInv, Elsewhere, file' \in Files, bak' \in Files, edited' \in BOOLEAN,
         txn # NoTransaction, End \/ \E s \in Steps : Go(s)
  PROVE  ConfigTyped' /\ RoomsOfWorlds'
<1>1. ConfigTyped /\ RoomsOfWorlds /\ txn \in Transactions
  BY DEF FInv, ConfigTyped
<1>2. CASE End
  BY <1>1, <1>2 DEF ConfigTyped, RoomsOfWorlds, Elsewhere, End
<1>3. CASE \E s \in Steps : Go(s)
  <2>1. PICK s \in Steps : Go(s)
    BY <1>3
  <2>2. txn' \in Transactions /\ txn'.by = txn.by
    BY <1>1, <2>1, GoOn
  <2> QED BY <1>1, <2>2 DEF ConfigTyped, RoomsOfWorlds, Elsewhere
<1> QED BY <1>2, <1>3

\* The rooms that were visible still are.
LEMMA StillVisible ==
  ASSUME Elsewhere, txn'.text = txn.text, RoomsVisible
  PROVE  RoomsVisible'
BY DEF Elsewhere, RoomsVisible, Visible, OfGroup

\* An end leaves nothing to be sound.
LEMMA EndSound == End => TransactionSound'
BY DEF End, TransactionSound

LEMMA TransactionKeeps ==
  ASSUME FInv, Decide \/ Backup \/ Recheck \/ Fail
  PROVE  FInv' /\ Steady
<1>1. /\ txn # NoTransaction /\ Elsewhere /\ file' = file /\ bak' \in {bak, file}
      /\ edited' \in {edited, FALSE}
  BY DEF Decide, Backup, Recheck, Fail, Elsewhere, world
<1>2. /\ ConfigTyped /\ TransactionSound /\ txn \in Transactions
  BY <1>1 DEF FInv, ConfigTyped
<1>3. End \/ \E s \in Steps : Go(s)
  BY DEF Decide, Backup, Recheck, Fail, AfterWriting, Steps
<1>4. file' \in Files /\ bak' \in Files /\ edited' \in BOOLEAN
  BY <1>1, <1>2 DEF ConfigTyped
<1>5. ConfigTyped' /\ RoomsOfWorlds'
  BY <1>1, <1>3, <1>4, TransactionTyped
<1>6. Steady
  <2>1. KeepsRooms
    BY <1>1, RoomsKept DEF Elsewhere
  <2> QED BY <1>1, <2>1, NoSave DEF Steady
<1>7. TransactionSound'
  <2>1. CASE End
    BY <2>1, EndSound
  <2>2. CASE ~End /\ Decide
    <3>1. /\ config = "worlds" /\ txn.apply => RoomsVisible
          /\ bak' = bak /\ file' = file /\ edited' = edited
      BY <2>2 DEF Decide, RoomsVisible
    <3>2. PICK s \in {"prepare", "apply"} : Go(s) /\ (s = "apply" => txn.op # "save")
      BY <2>2 DEF Decide
    <3>3. /\ txn'.step = s /\ txn'.apply = txn.apply /\ txn'.text = txn.text
          /\ txn'.op = txn.op
      BY <1>2, <3>2, GoOn DEF Steps
    <3>4. txn.op # "save" => txn.apply
      BY <1>1, <1>2 DEF TransactionSound
    <3>5. config' = "worlds" /\ txn'.apply => RoomsVisible'
      BY <1>1, <3>1, <3>3, StillVisible DEF Elsewhere
    <3> QED BY <3>2, <3>3, <3>4, <3>5 DEF TransactionSound
  <2>3. CASE ~End /\ Backup
    <3>1. PICK s \in {"apply", "recheck"} :
            /\ Go(s)
            /\ s = "apply" => txn.apply
            /\ s = "recheck" => file = txn.base /\ bak' = IF file = NoFile THEN bak ELSE file
      BY <2>3 DEF Backup, AfterWriting
    <3>2. /\ txn'.step = s /\ txn'.apply = txn.apply /\ txn'.text = txn.text
          /\ txn'.base = txn.base /\ txn'.op = txn.op
      BY <1>2, <3>1, GoOn DEF Steps
    <3>3. config = "worlds" /\ txn.apply => RoomsVisible
      BY <1>1, <1>2, <2>3 DEF TransactionSound, Backup
    <3>4. config' = "worlds" /\ txn'.apply => RoomsVisible'
      BY <1>1, <3>2, <3>3, StillVisible DEF Elsewhere
    <3>5. s = "recheck" => BackedUp'
      BY <3>1, <3>2 DEF BackedUp
    <3>6. txn.op # "save" => txn.apply
      BY <1>1, <1>2 DEF TransactionSound
    <3> QED BY <3>1, <3>2, <3>4, <3>5, <3>6 DEF TransactionSound
  <2>4. CASE ~End /\ Recheck
    <3>1. /\ Go("commit") /\ file = txn.base /\ bak' = bak /\ txn.step = "recheck"
      BY <2>4 DEF Recheck
    <3>2. /\ txn'.step = "commit" /\ txn'.apply = txn.apply /\ txn'.text = txn.text
          /\ txn'.base = txn.base /\ txn'.op = txn.op
      BY <1>2, <3>1, GoOn DEF Steps
    <3>3. BackedUp /\ (config = "worlds" /\ txn.apply => RoomsVisible)
      BY <1>1, <1>2, <3>1 DEF TransactionSound
    <3>4. config' = "worlds" /\ txn'.apply => RoomsVisible'
      BY <1>1, <3>2, <3>3, StillVisible DEF Elsewhere
    <3>5. BackedUp'
      BY <3>1, <3>2, <3>3 DEF BackedUp
    <3>6. txn.op # "save" => txn.apply
      BY <1>1, <1>2 DEF TransactionSound
    <3> QED BY <1>1, <3>1, <3>2, <3>4, <3>5, <3>6 DEF TransactionSound
  <2>5. CASE Fail
    BY <2>5, EndSound DEF Fail
  <2> QED BY <2>1, <2>2, <2>3, <2>4, <2>5
<1> QED BY <1>5, <1>6, <1>7 DEF FInv

LEMMA ReplaceFileKeeps == ASSUME FInv, ReplaceFile PROVE FInv' /\ Steady
<1>1. /\ txn # NoTransaction /\ txn.step = "commit" /\ Elsewhere /\ bak' = bak
      /\ file' = txn.text /\ edited' = edited /\ AfterWriting
  BY DEF ReplaceFile, Elsewhere, world
<1>2. ConfigTyped /\ TransactionSound /\ txn \in Transactions /\ txn.text \in Files
  <2>1. txn \in Transactions
    BY <1>1 DEF FInv, ConfigTyped
  <2> QED BY <2>1, InTexts DEF FInv, Transactions
<1>3. End \/ (Go("apply") /\ txn.apply)
  BY <1>1 DEF AfterWriting
<1>4. ConfigTyped' /\ RoomsOfWorlds'
  BY <1>1, <1>2, <1>3, TransactionTyped DEF ConfigTyped, Steps
<1>5. TransactionSound'
  <2>1. CASE End
    BY <2>1, EndSound
  <2>2. CASE Go("apply") /\ txn.apply
    <3>1. txn'.step = "apply" /\ txn'.apply = txn.apply /\ txn'.text = txn.text
      BY <1>2, <2>2, GoOn DEF Steps
    <3>2. config = "worlds" => RoomsVisible
      BY <1>1, <1>2, <2>2 DEF TransactionSound
    <3>3. config' = "worlds" => RoomsVisible'
      BY <1>1, <3>1, <3>2, StillVisible DEF Elsewhere
    <3> QED BY <2>2, <3>1, <3>3 DEF TransactionSound
  <2> QED BY <1>3, <2>1, <2>2
<1>6. Steady
  <2>1. KeepsRooms
    BY <1>1, RoomsKept DEF Elsewhere
  <2>2. BackedUp /\ (~edited => file = txn.base)
    BY <1>1, <1>2 DEF TransactionSound
  <2>3. ReplacesWhatWasRead
    BY <2>2 DEF ReplacesWhatWasRead, BackedUp
  <2> QED BY <2>1, <2>3 DEF Steady
<1> QED BY <1>4, <1>5, <1>6 DEF FInv

LEMMA ApplyKeeps ==
  ASSUME FInv, ApplyWorlds \/ ApplyScoreboards \/ ApplyClientVersions
  PROVE  FInv' /\ Steady
<1>1. /\ txn # NoTransaction /\ txn.step = "apply" /\ txn' = NoTransaction
      /\ active' = txn.text /\ config' = config /\ file' = file /\ bak' = bak
      /\ phase' = phase /\ rooms' = rooms /\ edited' = edited
  BY DEF ApplyWorlds, ApplyScoreboards, ApplyClientVersions, Applying, Applied, End
<1>2. ConfigTyped /\ RoomsOfWorlds /\ TransactionSound /\ txn \in Transactions
  BY <1>1 DEF FInv, ConfigTyped
<1>3. txn.text \in Files
  BY <1>2, InTexts DEF Transactions
<1>4. ConfigTyped' /\ RoomsOfWorlds'
  BY <1>1, <1>2, <1>3 DEF ConfigTyped, RoomsOfWorlds
<1>5. TransactionSound'
  BY <1>1 DEF TransactionSound
<1>6. KeepsRooms
  <2>1. CASE config # "worlds"
    BY <1>2, <2>1, NoRooms DEF RoomsOfWorlds
  <2>2. CASE config = "worlds"
    <3>1. inUse' = txn.text
      BY <2>2 DEF ApplyWorlds, ApplyScoreboards, ApplyClientVersions
    <3>2. RoomsVisible
      BY <1>1, <1>2, <2>2 DEF TransactionSound
    <3> QED BY <3>1, <3>2, RoomsKept DEF RoomsVisible
  <2> QED BY <2>1, <2>2
<1> QED BY <1>1, <1>4, <1>5, <1>6, NoSave DEF FInv, Steady

-----------------------------------------------------------------------------
(* Requests, and others at work. *)

LEMMA RequestKeeps ==
  ASSUME FInv, NEW op \in {"save", "reload"}, NEW base \in Files, NEW text \in Files,
         NEW apply \in BOOLEAN, Handle(op, base, text, apply)
  PROVE  FInv' /\ Steady
<1>1. /\ phase = "up" /\ txn = NoTransaction /\ Elsewhere /\ file' = file /\ bak' = bak
      /\ edited' = FALSE
  BY DEF Handle, Elsewhere, world
<1>2. PICK chosen \in Texts, applied \in BOOLEAN :
        /\ txn' = [by |-> "server", op |-> op, base |-> base, text |-> chosen,
                   apply |-> applied, step |-> "decide"]
        /\ op = "reload" => applied
  BY DEF Handle
<1>3. /\ txn' \in Transactions /\ txn'.by = "server" /\ txn'.step = "decide"
      /\ (txn'.op # "save" => txn'.apply)
  BY <1>2 DEF Transactions
<1>4. ConfigTyped' /\ RoomsOfWorlds'
  BY <1>1, <1>3 DEF FInv, ConfigTyped, RoomsOfWorlds, Elsewhere
<1>5. TransactionSound'
  BY <1>3 DEF TransactionSound
<1>6. KeepsRooms
  BY <1>1, RoomsKept DEF Elsewhere
<1> QED BY <1>1, <1>4, <1>5, <1>6, NoSave DEF FInv, Steady

LEMMA ToolboxKeeps == ASSUME FInv, Toolbox PROVE FInv' /\ Steady
<1>1. /\ config = "worlds" /\ phase = "down" /\ Elsewhere /\ file' = file /\ bak' = bak
      /\ edited' = FALSE
  BY DEF Toolbox, Elsewhere, world
<1>2. PICK base \in Files, text \in Texts :
        txn' = [by |-> "toolbox", op |-> "save", base |-> base, text |-> text,
                apply |-> FALSE, step |-> "prepare"]
  BY DEF Toolbox
<1>3. /\ txn' \in Transactions /\ txn'.by = "toolbox" /\ txn'.step = "prepare"
      /\ txn'.op = "save" /\ txn'.apply = FALSE
  BY <1>2 DEF Transactions
<1>4. ConfigTyped' /\ RoomsOfWorlds'
  BY <1>1, <1>3 DEF FInv, ConfigTyped, RoomsOfWorlds, Elsewhere
<1>5. TransactionSound'
  BY <1>3 DEF TransactionSound
<1>6. KeepsRooms
  BY <1>1, RoomsKept DEF Elsewhere
<1> QED BY <1>1, <1>4, <1>5, <1>6, NoSave DEF FInv, Steady

LEMMA TextEditorKeeps == ASSUME FInv, TextEditor PROVE FInv' /\ Steady
<1>1. /\ Elsewhere /\ file' \in Files /\ bak' = bak /\ txn' = txn /\ edited' = TRUE
  BY DEF TextEditor, Elsewhere, world
<1>2. ConfigTyped /\ RoomsOfWorlds /\ TransactionSound
  BY DEF FInv
<1>3. ConfigTyped' /\ RoomsOfWorlds'
  BY <1>1, <1>2 DEF ConfigTyped, RoomsOfWorlds, Elsewhere
<1>4. RoomsVisible => RoomsVisible'
  BY <1>1, StillVisible
<1>5. BackedUp => BackedUp'
  BY <1>1 DEF BackedUp
<1>6. TransactionSound'
  BY <1>1, <1>2, <1>4, <1>5 DEF TransactionSound, Elsewhere
<1>7. KeepsRooms
  BY <1>1, RoomsKept DEF Elsewhere
<1> QED BY <1>1, <1>3, <1>6, <1>7, NoSave DEF FInv, Steady

\* Rooms come and go while no request has them locked.
LEMMA MovedSound ==
  ASSUME FInv, ~RoomsLocked, ConfigTyped', RoomsOfWorlds', config' = config, file' = file,
         bak' = bak, txn' = txn, inUse' = inUse, edited' = edited
  PROVE  FInv' /\ Steady
<1>1. TransactionSound
  BY DEF FInv
<1>2. TransactionSound'
  <2>1. BackedUp => BackedUp'
    BY DEF BackedUp
  <2>2. txn # NoTransaction /\ txn.step # "decide" => config # "worlds"
    BY DEF RoomsLocked
  <2> QED BY <1>1, <2>1, <2>2 DEF TransactionSound
<1>3. KeepsRooms
  BY RoomsKept
<1> QED BY <1>2, <1>3, NoSave DEF FInv, Steady

LEMMA RoomsMoveKeeps == ASSUME FInv, CreateRoom \/ DestroyRoom PROVE FInv' /\ Steady
<1>1. /\ ~RoomsLocked /\ config' = config /\ file' = file /\ bak' = bak /\ phase' = phase
      /\ txn' = txn /\ active' = active /\ inUse' = inUse /\ edited' = edited
  BY DEF CreateRoom, DestroyRoom
<1>2. ConfigTyped /\ RoomsOfWorlds /\ TransactionSound
  BY DEF FInv
<1>3. CASE CreateRoom
  <2>1. PICK k \in ConfigKeys : rooms' = rooms \cup {[key |-> k, server |-> ServerId]}
    BY <1>3 DEF CreateRoom
  <2>2. phase = "up" /\ config = "worlds"
    BY <1>3 DEF CreateRoom
  <2>3. ConfigTyped' /\ RoomsOfWorlds'
    BY <1>1, <1>2, <2>1, <2>2 DEF ConfigTyped, RoomsOfWorlds
  <2> QED BY <1>1, <1>2, <2>3, MovedSound
<1>4. CASE DestroyRoom
  <2>1. rooms' \subseteq rooms
    BY <1>4 DEF DestroyRoom
  <2>2. ConfigTyped' /\ RoomsOfWorlds'
    BY <1>1, <1>2, <2>1 DEF ConfigTyped, RoomsOfWorlds
  <2> QED BY <1>1, <1>2, <2>2, MovedSound
<1> QED BY <1>3, <1>4

LEMMA FStep == FInv /\ [ConfigNext]_configVars => FInv' /\ [Steady]_configVars
<1> SUFFICES ASSUME FInv, [ConfigNext]_configVars PROVE FInv' /\ [Steady]_configVars
  OBVIOUS
<1>1. CASE ConfigNext
  <2>1. CASE Request
    <3>1. PICK op \in {"save", "reload"}, base \in Files, text \in Files, apply \in BOOLEAN :
            Handle(op, base, text, apply)
      BY <2>1 DEF Request
    <3> QED BY <3>1, RequestKeeps
  <2>2. CASE ~Request
    BY <1>1, <2>2, StartKeeps, CrashKeeps, TransactionKeeps, ReplaceFileKeeps, ApplyKeeps,
       RoomsMoveKeeps, TextEditorKeeps, ToolboxKeeps
       DEF ConfigNext, WorldsRequest, ScoreboardsRequest, ClientVersionsRequest
  <2> QED BY <2>1, <2>2
<1>2. CASE UNCHANGED configVars
  <2>1. /\ Elsewhere /\ file' = file /\ bak' = bak /\ txn' = txn /\ edited' = edited
    BY <1>2 DEF configVars, Elsewhere
  <2>2. ConfigTyped' /\ RoomsOfWorlds'
    BY <2>1 DEF FInv, ConfigTyped, RoomsOfWorlds, Elsewhere
  <2>3. (RoomsVisible => RoomsVisible') /\ (BackedUp => BackedUp')
    BY <2>1, StillVisible DEF BackedUp
  <2>4. TransactionSound'
    BY <2>1, <2>3 DEF FInv, TransactionSound, Elsewhere
  <2> QED BY <1>2, <2>2, <2>4 DEF FInv
<1> QED BY <1>1, <1>2

\* A reload never takes a room's world off the list of its own players, and a save
\* replaces the text its editor had read and leaves that in the backup, unless a text
\* editor wrote after the last look (worlds_service.cpp:111, worldsstore.cpp:84).
THEOREM ConfigAlwaysSound == ConfigSpec => ConfigSound
<1>1. ConfigSpec => [][Steady]_configVars
  BY FStart, FStep, PTL DEF ConfigSpec
<1>2. [Steady]_configVars => [KeepsRooms /\ ReplacesWhatWasRead]_configVars
  BY DEF Steady
<1> QED BY <1>1, <1>2, PTL DEF ConfigSound

\* Types, with who may be at work on the file and whose the rooms are.
THEOREM ConfigTypes == ConfigSpec => []ConfigTyped
<1>1. FInv => ConfigTyped
  BY DEF FInv
<1> QED BY <1>1, FStart, FStep, PTL DEF ConfigSpec

-----------------------------------------------------------------------------
(* Trophies *)

SyncRow == [id: Valid, date: Nat]
SyncRequest ==
  [game: Games, rows: Seq(SyncRow), stored: BOOLEAN, revoked: SUBSET TrophyKeys]
Dates == [TrophyKeys -> Nat \cup {Nothing}]
SyncTransaction == [by: Gamers, left: Seq(SyncRow), table: Dates]

TrophyShapes ==
  /\ standing = [p \in Gamers |-> standing[p]] /\ moment \in Nat
  /\ earned \in Dates /\ first = earned
  /\ pending = [w \in Workers |-> pending[w]]
  /\ \A p \in Gamers : pending[p] = NoWork \/ pending[p] \in SyncRequest

OwnedBy(table) == \A k \in TrophyKeys : table[k] # Nothing => HasAccount(k[1])

\* A sync that is stored has all of its rows in the table, but for what was revoked.
RowKey(p, row) == <<p, pending[p].game, row.id>>
Stored(p) == pending[p] # NoWork /\ pending[p].stored
StoredSound ==
  \A p \in Gamers : Stored(p) =>
    \A i \in 1 .. Len(pending[p].rows) :
      LET k == RowKey(p, pending[p].rows[i]) IN k \in pending[p].revoked \/ earned[k] # Nothing

\* The table with the first n rows of an upload: a trophy that was not there has the date
\* of its first row.
At(p, k, n) == {i \in 1 .. n : k = RowKey(p, pending[p].rows[i])}
Entered(p, n) ==
  [k \in TrophyKeys |->
     IF earned[k] = Nothing /\ At(p, k, n) # {}
     THEN pending[p].rows[Min(At(p, k, n))].date ELSE earned[k]]

\* The transaction of an upload has entered its first rows, and the others are left.
Progress(p, n) ==
  /\ n \in 0 .. Len(pending[p].rows)
  /\ Len(transaction.left) = Len(pending[p].rows) - n
  /\ \A i \in 1 .. Len(transaction.left) : transaction.left[i] = pending[p].rows[n + i]
  /\ transaction.table = Entered(p, n)
Syncing(p) == transaction # NoWork /\ transaction.by = p
SyncingSound ==
  \A p \in Gamers : Syncing(p) =>
    /\ pending[p] # NoWork /\ ~pending[p].stored /\ transaction \in SyncTransaction
    /\ OwnedBy(transaction.table) /\ \E n \in Nat : Progress(p, n)

\* The transaction of an import.
ImportSound ==
  Syncing(MainThread) =>
    transaction = [by |-> MainThread, left |-> transaction.left, table |-> transaction.table]

OutcomeTrue ==
  outcome.kind = "synced" =>
    LET r == outcome.request IN
    \A row \in Range(r.rows) :
      <<outcome.by, r.game, row.id>> \in r.revoked
        \/ [id |-> row.id, date |-> first[<<outcome.by, r.game, row.id>>]] \in outcome.trophies

HInv ==
  /\ TrophyShapes /\ OwnedBy(earned) /\ StoredSound /\ SyncingSound /\ ImportSound
  /\ OutcomeTrue

LEMMA HKept == HInv => TrophiesKept
BY DEF HInv, TrophyShapes, OwnedBy, OutcomeTrue, TrophiesKept

-----------------------------------------------------------------------------
(* The rows of an upload. *)

LEMMA MinIs ==
  ASSUME NEW S \in SUBSET Nat, NEW m \in S, \A i \in S : m <= i
  PROVE  Min(S) = m
<1>1. \A x \in S : (\A i \in S : x <= i) => x = m
  OBVIOUS
<1> QED BY <1>1 DEF Min

LEMMA HasMin ==
  ASSUME NEW S \in SUBSET Nat, S # {}
  PROVE  Min(S) \in S /\ \A i \in S : Min(S) <= i
<1>1. IsWellFoundedOn({p \in Nat \X Nat : p[1] < p[2]}, Nat)
  BY NatLessThanWellFounded DEF OpToRel
<1>2. \A R : IsWellFoundedOn(R, Nat) => \E l \in S : \A i \in S : <<i, l>> \notin R
  BY WFMin
<1>3. PICK l \in S : \A i \in S : <<i, l>> \notin {p \in Nat \X Nat : p[1] < p[2]}
  BY <1>1, <1>2
<1>4. ASSUME NEW i \in S PROVE l <= i
  <2>1. <<i, l>> \in Nat \X Nat /\ ~(i < l)
    BY <1>3
  <2> QED BY <2>1
<1>5. Min(S) = l
  BY <1>4, MinIs
<1> QED BY <1>4, <1>5

\* Nothing is entered with no rows, and one row more is entered unless its trophy is there.
LEMMA EnteredNone ==
  ASSUME earned \in Dates, NEW p PROVE Entered(p, 0) = earned
<1>1. \A k : At(p, k, 0) = {}
  BY DEF At
<1> QED BY <1>1 DEF Entered, Dates

LEMMA EnteredOne ==
  ASSUME TrophyShapes, NEW p \in Gamers, pending[p] # NoWork, NEW n \in Nat,
         n < Len(pending[p].rows)
  PROVE  LET row == pending[p].rows[n + 1] IN
           /\ row \in SyncRow /\ RowKey(p, row) \in TrophyKeys
           /\ Entered(p, n + 1) = InsertRow(Entered(p, n), RowKey(p, row), row.date)
<1> DEFINE rows == pending[p].rows
           row == rows[n + 1]
           key == RowKey(p, row)
<1>1. pending[p] \in SyncRequest /\ earned \in Dates
  BY DEF TrophyShapes
<1>2. rows \in Seq(SyncRow) /\ pending[p].game \in Games
  BY <1>1 DEF SyncRequest
<1>3. \A i \in 1 .. Len(rows) : rows[i] \in SyncRow
  BY <1>2
<1>4. row \in SyncRow
  BY <1>2, <1>3
<1>5. row.id \in Valid
  BY <1>4 DEF SyncRow
<1>6. key \in TrophyKeys
  BY <1>2, <1>5 DEF RowKey, TrophyKeys
<1> HIDE DEF row, rows
<1>7. \A k : k # key => At(p, k, n + 1) = At(p, k, n)
  BY DEF At, row, rows
<1>8. At(p, key, n + 1) = At(p, key, n) \cup {n + 1}
  BY DEF At, row, rows
<1>9. At(p, key, n) \in SUBSET Nat /\ At(p, key, n + 1) \in SUBSET Nat
      /\ \A i \in At(p, key, n) : i <= n
  BY DEF At
<1>10. \A k \in TrophyKeys : k # key => Entered(p, n + 1)[k] = Entered(p, n)[k]
  BY <1>7 DEF Entered
<1>11. Entered(p, n + 1)[key] = IF Entered(p, n)[key] = Nothing THEN row.date
                                ELSE Entered(p, n)[key]
  <2>1. CASE earned[key] # Nothing
    BY <1>6, <2>1 DEF Entered
  <2>2. CASE earned[key] = Nothing /\ At(p, key, n) = {}
    <3>1. Min(At(p, key, n + 1)) = n + 1
      BY <1>8, <2>2, MinIs
    <3>2. At(p, key, n + 1) # {}
      BY <1>8
    <3>3. Entered(p, n + 1)[key] = rows[n + 1].date
      BY <1>6, <2>2, <3>1, <3>2 DEF Entered, rows
    <3>4. Entered(p, n)[key] = Nothing
      BY <1>6, <2>2 DEF Entered
    <3> QED BY <3>3, <3>4 DEF row
  <2>3. CASE earned[key] = Nothing /\ At(p, key, n) # {}
    <3>1. PICK m \in At(p, key, n) : Min(At(p, key, n)) = m /\ \A i \in At(p, key, n) : m <= i
      BY <1>9, <2>3, HasMin
    <3>2. \A i \in At(p, key, n + 1) : m <= i
      BY <1>8, <1>9, <3>1
    <3>3. Min(At(p, key, n + 1)) = m
      BY <1>8, <1>9, <3>2, MinIs
    <3>4. At(p, key, n + 1) # {}
      BY <1>8
    <3>5. Entered(p, n + 1)[key] = rows[m].date /\ Entered(p, n)[key] = rows[m].date
      BY <1>6, <2>3, <3>1, <3>3, <3>4 DEF Entered, rows
    <3>6. rows[m] \in SyncRow
      BY <1>3, <3>1 DEF At, rows
    <3>7. rows[m].date # Nothing
      BY <3>6, TrophyConstants DEF SyncRow
    <3> QED BY <3>5, <3>7
  <2> QED BY <2>1, <2>2, <2>3
<1>12. Entered(p, n + 1) = InsertRow(Entered(p, n), key, row.date)
  BY <1>6, <1>10, <1>11 DEF Entered, InsertRow
<1> QED BY <1>4, <1>6, <1>12 DEF row, rows

\* With all rows entered, every trophy of the upload is there.
LEMMA EnteredAll ==
  ASSUME TrophyShapes, NEW p \in Gamers, pending[p] # NoWork,
         NEW i \in 1 .. Len(pending[p].rows)
  PROVE  LET k == RowKey(p, pending[p].rows[i]) IN
           k \in TrophyKeys /\ Entered(p, Len(pending[p].rows))[k] # Nothing
<1> DEFINE rows == pending[p].rows
           k == RowKey(p, rows[i])
           at == At(p, k, Len(rows))
<1>1. pending[p] \in SyncRequest
  BY DEF TrophyShapes
<1>2. rows \in Seq(SyncRow) /\ pending[p].game \in Games
  BY <1>1 DEF SyncRequest
<1>3. \A j \in 1 .. Len(rows) : rows[j] \in SyncRow
  BY <1>2
<1>4. k \in TrophyKeys
  <2>1. rows[i].id \in Valid
    BY <1>3 DEF SyncRow
  <2> QED BY <1>2, <2>1 DEF RowKey, TrophyKeys
<1>5. i \in at /\ at \in SUBSET Nat /\ at \in SUBSET (1 .. Len(rows))
  BY DEF At
<1>6. Min(at) \in 1 .. Len(rows)
  BY <1>5, HasMin
<1>7. rows[Min(at)].date # Nothing
  BY <1>3, <1>6, TrophyConstants DEF SyncRow
<1> QED BY <1>4, <1>5, <1>7 DEF Entered

\* Nothing that was there is lost.
LEMMA GrowsEntered ==
  ASSUME TrophyShapes, NEW p \in Gamers, pending[p] # NoWork,
         earned' = Entered(p, Len(pending[p].rows))
  PROVE  \A k \in TrophyKeys : earned[k] # Nothing => earned'[k] # Nothing
BY DEF Entered

\* What is recorded for good is what the transaction has entered.
LEMMA FirstDatesEntered ==
  ASSUME TrophyShapes, NEW p \in Gamers, pending[p] # NoWork
  PROVE  FirstDates(p) = Entered(p, Len(pending[p].rows))
<1>1. pending[p] \in SyncRequest /\ first = earned
  BY DEF TrophyShapes
<1>2. DOMAIN pending[p].rows = 1 .. Len(pending[p].rows)
  BY <1>1 DEF SyncRequest
<1> QED BY <1>1, <1>2 DEF FirstDates, Entered, At, RowKey

-----------------------------------------------------------------------------
(* What a step leaves alone. *)

Unanswering == outcome'.kind # "synced"
AccountsStay == \A p \in Gamers : HasAccount(p) => HasAccount(p)'
SameRows == earned' = earned /\ first' = first

LEMMA Quiet == Unanswering => OutcomeTrue'
BY DEF Unanswering, OutcomeTrue

LEMMA NothingUnderWay == transaction' = NoWork => SyncingSound' /\ ImportSound'
BY DEF SyncingSound, ImportSound, Syncing

LEMMA OwnedStay ==
  ASSUME AccountsStay, NEW table, OwnedBy(table) PROVE \A k \in TrophyKeys :
    table[k] # Nothing => HasAccount(k[1])'
<1>1. \A k \in TrophyKeys : k[1] \in Gamers
  BY DEF TrophyKeys
<1> QED BY <1>1 DEF OwnedBy, AccountsStay

\* The uploads of all players stay as they are.
SamePlayers ==
  /\ \A p \in Gamers : pending'[p] = pending[p]
  /\ pending' = [w \in Workers |-> pending'[w]]
  /\ standing' = [p \in Gamers |-> standing'[p]]

LEMMA SameShapes ==
  ASSUME TrophyShapes, SameRows, SamePlayers, moment' \in Nat PROVE TrophyShapes'
BY DEF TrophyShapes, SameRows, SamePlayers

LEMMA SameStored ==
  ASSUME StoredSound, earned' = earned, NEW p \in Gamers, pending'[p] = pending[p],
         Stored(p)'
  PROVE  (\A i \in 1 .. Len(pending[p].rows) :
            LET k == RowKey(p, pending[p].rows[i]) IN k \in pending[p].revoked \/ earned[k] # Nothing)'
<1>1. Stored(p)
  BY DEF Stored
<1> QED BY <1>1 DEF StoredSound, RowKey

LEMMA SameEntered ==
  ASSUME earned' = earned, NEW p, pending'[p] = pending[p], NEW n
  PROVE  Entered(p, n)' = Entered(p, n)
<1>1. \A k : At(p, k, n)' = At(p, k, n)
  BY DEF At, RowKey
<1> QED BY <1>1 DEF Entered

LEMMA OtherTransaction ==
  ASSUME SyncingSound, ImportSound, earned' = earned, AccountsStay,
         transaction' = transaction,
         \A p \in Gamers : Syncing(p) => pending'[p] = pending[p]
  PROVE  SyncingSound' /\ ImportSound'
<1>1. ASSUME NEW p \in Gamers, Syncing(p)'
      PROVE  /\ pending'[p] # NoWork /\ ~pending'[p].stored /\ transaction' \in SyncTransaction
             /\ OwnedBy(transaction.table)' /\ \E n \in Nat : Progress(p, n)'
  <2>1. Syncing(p)
    BY <1>1 DEF Syncing
  <2>2. /\ pending[p] # NoWork /\ ~pending[p].stored /\ transaction \in SyncTransaction
        /\ OwnedBy(transaction.table) /\ \E n \in Nat : Progress(p, n)
    BY <2>1 DEF SyncingSound
  <2>3. PICK n \in Nat : Progress(p, n)
    BY <2>2
  <2>4. pending'[p] = pending[p]
    BY <2>1
  <2>5. Entered(p, n)' = Entered(p, n)
    BY <2>4, SameEntered
  <2>6. Progress(p, n)'
    BY <2>3, <2>4, <2>5 DEF Progress
  <2>7. OwnedBy(transaction.table)'
    BY <2>2, OwnedStay DEF OwnedBy
  <2> QED BY <2>2, <2>4, <2>6, <2>7
<1>2. SyncingSound'
  BY <1>1 DEF SyncingSound, SyncTransaction, Dates
<1>3. ImportSound'
  BY DEF ImportSound, Syncing
<1> QED BY <1>2, <1>3

LEMMA FrameKeeps ==
  ASSUME HInv, SameRows, SamePlayers, AccountsStay, transaction' = transaction,
         moment' \in Nat, Unanswering
  PROVE  HInv'
<1>1. TrophyShapes' /\ SyncingSound' /\ ImportSound' /\ OutcomeTrue'
  BY SameShapes, OtherTransaction, Quiet DEF HInv, SameRows, SamePlayers
<1>2. OwnedBy(earned)'
  BY OwnedStay DEF HInv, OwnedBy, SameRows
<1>3. StoredSound'
  BY SameStored DEF HInv, StoredSound, SameRows, SamePlayers
<1> QED BY <1>1, <1>2, <1>3 DEF HInv

LEMMA OperatorsKeep ==
  ASSUME HInv, \/ \E p \in Gamers : BanUser(p)
               \/ \E g \in Games : DeleteTrophyMeta(g)
               \/ RequestRanking \/ ReadRanking \/ KeepRanking \/ MomentPasses
  PROVE  HInv'
<1>1. TrophyShapes
  BY DEF HInv
<1>2. SameRows /\ transaction' = transaction /\ Unanswering
  BY DEF SameRows, Unanswering, BanUser, DeleteTrophyMeta, RequestRanking, ReadRanking, KeepRanking,
     MomentPasses, NoOutcome
<1>3. moment' \in Nat
  BY <1>1 DEF TrophyShapes, BanUser, DeleteTrophyMeta, RequestRanking, ReadRanking, KeepRanking, MomentPasses
<1>4. /\ \A p \in Gamers : pending'[p] = pending[p]
      /\ pending' = [w \in Workers |-> pending'[w]]
  <2>1. pending' = pending \/ \E v : pending' = [pending EXCEPT ![MainThread] = v]
    <3>1. CASE ReadRanking
      <4>1. pending' = [pending EXCEPT ![MainThread].read = moment]
        BY <3>1 DEF ReadRanking
      <4> QED BY <4>1
    <3>2. CASE ~ReadRanking
      BY <3>2 DEF BanUser, DeleteTrophyMeta, RequestRanking, KeepRanking, MomentPasses
    <3> QED BY <3>1, <3>2
  <2>2. pending = [w \in Workers |-> pending[w]] /\ MainThread \notin Gamers
    BY <1>1, TrophyConstants DEF TrophyShapes
  <2>3. CASE pending' = pending
    BY <2>2, <2>3
  <2>4. CASE \E v : pending' = [pending EXCEPT ![MainThread] = v]
    BY <2>2, <2>4
  <2> QED BY <2>1, <2>3, <2>4
<1>5. standing' = [p \in Gamers |-> standing'[p]] /\ AccountsStay
  <2>1. CASE \E p \in Gamers : BanUser(p)
    <3>1. PICK p \in Gamers : standing' = [standing EXCEPT ![p] = IF @ = "open" THEN "banned" ELSE "open"]
      BY <2>1 DEF BanUser
    <3> QED BY <1>1, <3>1 DEF TrophyShapes, AccountsStay, HasAccount
  <2>2. CASE ~\E p \in Gamers : BanUser(p)
    <3>1. standing' = standing
      BY <2>2 DEF DeleteTrophyMeta, RequestRanking, ReadRanking, KeepRanking, MomentPasses
    <3> QED BY <1>1, <3>1 DEF TrophyShapes, AccountsStay, HasAccount
  <2> QED BY <2>1, <2>2
<1> QED BY <1>2, <1>3, <1>4, <1>5, FrameKeeps DEF SamePlayers

-----------------------------------------------------------------------------
(* What players do. *)

\* One player's upload changes, the others stay.
OnePlayer(p) ==
  /\ \A q \in Gamers : q # p => pending'[q] = pending[q]
  /\ pending' = [w \in Workers |-> pending'[w]]
  /\ standing' = standing

\* Trophies that are recorded stay recorded.
RowsGrow == \A k \in TrophyKeys : earned[k] # Nothing => earned'[k] # Nothing

LEMMA GrowingStored ==
  ASSUME TrophyShapes, StoredSound, RowsGrow, NEW p \in Gamers, pending'[p] = pending[p],
         Stored(p)'
  PROVE  (\A i \in 1 .. Len(pending[p].rows) :
            LET k == RowKey(p, pending[p].rows[i]) IN k \in pending[p].revoked \/ earned[k] # Nothing)'
<1>1. Stored(p)
  BY DEF Stored
<1>2. \A i \in 1 .. Len(pending[p].rows) : RowKey(p, pending[p].rows[i]) \in TrophyKeys
  BY <1>1, EnteredAll DEF Stored
<1>3. \A i \in 1 .. Len(pending[p].rows) :
        RowKey(p, pending[p].rows[i]) \in pending[p].revoked
          \/ earned[RowKey(p, pending[p].rows[i])] # Nothing
  BY <1>1 DEF StoredSound
<1>4. SUFFICES ASSUME NEW i \in 1 .. Len(pending[p].rows)
               PROVE  RowKey(p, pending[p].rows[i])' \in pending'[p].revoked
                        \/ earned'[RowKey(p, pending[p].rows[i])'] # Nothing
  OBVIOUS
<1>5. RowKey(p, pending[p].rows[i])' = RowKey(p, pending[p].rows[i])
  BY DEF RowKey
<1> QED BY <1>2, <1>3, <1>5 DEF RowsGrow

LEMMA UnlockTrophyKeeps ==
  ASSUME HInv, NEW p \in Gamers, NEW g \in Games, NEW id \in TrophyIds, NEW stamp \in Stamps,
         UnlockTrophy(p, g, id, stamp)
  PROVE  HInv'
<1>1. /\ standing' = standing /\ transaction' = transaction /\ pending' = pending
      /\ moment' = moment /\ Unanswering
  BY DEF UnlockTrophy, Unanswering, NoOutcome
<1>2. TrophyShapes /\ SamePlayers /\ AccountsStay /\ moment' \in Nat
  BY <1>1 DEF HInv, TrophyShapes, SamePlayers, AccountsStay, HasAccount
<1>3. CASE SameRows
  BY <1>1, <1>2, <1>3, FrameKeeps
<1>4. CASE ~SameRows
  <2> DEFINE key == <<p, g, id>>
             date == EarnedAt(stamp)
  <2>1. /\ ValidTrophyId(id) /\ transaction = NoWork /\ HasAccount(p)
        /\ earned' = [earned EXCEPT ![key] = IF @ = Nothing THEN date ELSE @]
        /\ first' = [first EXCEPT ![key] = IF @ = Nothing THEN date ELSE @]
    BY <1>4 DEF UnlockTrophy, SameRows, InsertRow
  <2>2. date \in Nat
    BY <1>2, TrophyConstants DEF TrophyShapes, EarnedAt, ShadNetTimestamp
  <2>3. key \in TrophyKeys
    BY <2>1 DEF TrophyKeys, Valid
  <2> HIDE DEF key, date
  <2>4. TrophyShapes'
    BY <1>1, <1>2, <2>1, <2>2, <2>3 DEF TrophyShapes, Dates
  <2>5. OwnedBy(earned)'
    <3>1. key[1] = p
      BY DEF key
    <3> QED BY <1>1, <1>2, <2>1, <2>3, <3>1 DEF HInv, OwnedBy, HasAccount, TrophyShapes, Dates
  <2>6. RowsGrow
    BY <1>2, <2>1, <2>2, TrophyConstants DEF RowsGrow, TrophyShapes, Dates
  <2>7. StoredSound'
    BY <1>1, <1>2, <2>6, GrowingStored DEF HInv, StoredSound
  <2> QED BY <1>1, <2>1, <2>4, <2>5, <2>7, NothingUnderWay, Quiet DEF HInv
<1> QED BY <1>3, <1>4

LEMMA SyncTrophiesKeeps ==
  ASSUME HInv, NEW p \in Gamers, NEW g \in Games, NEW upload \in Uploads[g],
         SyncTrophies(p, g, upload)
  PROVE  HInv'
<1>1. /\ standing' = standing /\ transaction' = transaction /\ SameRows
      /\ moment' = moment /\ Unanswering /\ pending[p] = NoWork
  BY DEF SyncTrophies, Unanswering, NoOutcome, SameRows
<1>2. TrophyShapes /\ AccountsStay /\ moment' \in Nat /\ moment \in Nat
  BY <1>1 DEF HInv, TrophyShapes, AccountsStay, HasAccount
<1>3. CASE pending' = pending
  BY <1>1, <1>2, <1>3, FrameKeeps DEF SamePlayers, TrophyShapes
<1>4. CASE pending' # pending
  <2> DEFINE rows == [i \in DOMAIN upload |->
                        [id |-> upload[i].id, date |-> EarnedAt(upload[i].stamp)]]
             asked == [game |-> g, rows |-> rows, stored |-> upload = <<>>, revoked |-> {}]
  <2>1. pending' = [pending EXCEPT ![p] = asked]
        /\ ~ \E r \in Range(upload) : ~ValidTrophyId(r.id)
    BY <1>4 DEF SyncTrophies
  <2>2. upload \in Seq([id: TrophyIds, stamp: Nat])
    BY TrophyConstants
  <2>3. DOMAIN upload = 1 .. Len(upload) /\ Len(upload) \in Nat
        /\ \A i \in 1 .. Len(upload) : upload[i] \in [id: TrophyIds, stamp: Nat]
    BY <2>2, LenProperties
  <2>4. ASSUME NEW i \in 1 .. Len(upload)
        PROVE  [id |-> upload[i].id, date |-> EarnedAt(upload[i].stamp)] \in SyncRow
    <3>1. upload[i].id \in TrophyIds /\ upload[i].stamp \in Nat
      BY <2>3
    <3>2. upload[i].id \in Valid
      BY <2>1, <2>3, <3>1 DEF Range, Valid
    <3>3. EarnedAt(upload[i].stamp) \in Nat
      BY <1>2, <3>1 DEF EarnedAt, ShadNetTimestamp
    <3> QED BY <3>2, <3>3 DEF SyncRow
  <2>5. rows \in Seq(SyncRow) /\ Len(rows) = Len(upload)
    <3>1. rows \in [1 .. Len(upload) -> SyncRow]
      BY <2>3, <2>4
    <3> HIDE DEF rows
    <3>2. rows \in Seq(SyncRow)
      BY <2>3, <3>1
    <3> QED BY <2>3, <3>1, <3>2, LenProperties
  <2>6. upload = <<>> => Len(rows) = 0
    BY <2>5
  <2> HIDE DEF rows
  <2>7. asked \in SyncRequest /\ asked.rows = rows /\ (asked.stored => upload = <<>>)
    BY <2>5 DEF SyncRequest
  <2> HIDE DEF asked
  <2>8. pending'[p] = asked /\ OnePlayer(p)
    BY <1>1, <1>2, <2>1 DEF TrophyShapes, OnePlayer, Workers
  <2>9. TrophyShapes'
    BY <1>1, <1>2, <2>7, <2>8 DEF TrophyShapes, SameRows, OnePlayer
  <2>10. OwnedBy(earned)'
    BY <1>1, <1>2, OwnedStay DEF HInv, OwnedBy, SameRows
  <2>11. StoredSound'
    <3>1. SUFFICES ASSUME NEW q \in Gamers, Stored(q)'
                   PROVE  (\A i \in 1 .. Len(pending[q].rows) :
                             LET k == RowKey(q, pending[q].rows[i]) IN
                               k \in pending[q].revoked \/ earned[k] # Nothing)'
      BY DEF StoredSound
    <3>2. CASE q # p
      BY <1>1, <2>8, <3>1, <3>2, SameStored DEF HInv, SameRows, OnePlayer
    <3>3. CASE q = p
      <4>1. Len(pending'[q].rows) = 0
        BY <2>6, <2>7, <2>8, <3>1, <3>3 DEF Stored
      <4> QED BY <4>1
    <3> QED BY <3>2, <3>3
  <2>12. SyncingSound' /\ ImportSound'
    <3>1. ~Syncing(p)
      BY <1>1 DEF HInv, SyncingSound
    <3> QED BY <1>1, <1>2, <2>8, <3>1, OtherTransaction DEF HInv, OnePlayer, SameRows
  <2> QED BY <1>1, <2>9, <2>10, <2>11, <2>12, Quiet DEF HInv
<1> QED BY <1>3, <1>4

-----------------------------------------------------------------------------
(* The transaction of an upload. *)

\* Only the transaction moves.
AnotherTrophy ==
  /\ standing' = standing /\ SameRows /\ pending' = pending /\ moment' = moment /\ Unanswering

LEMMA ElsewhereKeeps ==
  ASSUME HInv, AnotherTrophy
  PROVE  TrophyShapes' /\ OwnedBy(earned)' /\ StoredSound' /\ OutcomeTrue' /\ AccountsStay
<1>1. AccountsStay /\ SamePlayers /\ moment' \in Nat
  BY DEF HInv, TrophyShapes, AnotherTrophy, AccountsStay, HasAccount, SamePlayers
<1>2. TrophyShapes' /\ OutcomeTrue'
  BY <1>1, SameShapes, Quiet DEF HInv, AnotherTrophy
<1>3. OwnedBy(earned)'
  BY <1>1, OwnedStay DEF HInv, OwnedBy, AnotherTrophy, SameRows
<1>4. StoredSound'
  BY SameStored DEF HInv, StoredSound, AnotherTrophy, SameRows
<1> QED BY <1>1, <1>2, <1>3, <1>4

LEMMA BeginSyncKeeps == ASSUME HInv, NEW p \in Gamers, BeginSync(p) PROVE HInv'
<1>1. /\ AnotherTrophy /\ pending[p] # NoWork /\ ~pending[p].stored
      /\ transaction' = [by |-> p, left |-> pending[p].rows, table |-> earned]
  BY DEF BeginSync, AnotherTrophy, SameRows, Unanswering, NoOutcome
<1>2. TrophyShapes /\ OwnedBy(earned) /\ pending[p] \in SyncRequest /\ earned \in Dates
  BY <1>1 DEF HInv, TrophyShapes
<1>3. pending[p].rows \in Seq(SyncRow)
  BY <1>2 DEF SyncRequest
<1>4. /\ transaction' \in SyncTransaction /\ transaction'.by = p
      /\ transaction'.left = pending[p].rows /\ transaction'.table = earned
  BY <1>1, <1>2, <1>3 DEF SyncTransaction
<1>5. Entered(p, 0)' = earned
  BY <1>1, <1>2, SameEntered, EnteredNone DEF AnotherTrophy, SameRows
<1>6. Progress(p, 0)'
  <2>1. Len(pending[p].rows) \in Nat
    BY <1>3
  <2> QED BY <1>1, <1>4, <1>5, <2>1 DEF Progress, AnotherTrophy
<1>7. OwnedBy(transaction.table)'
  BY <1>1, <1>2, <1>4 DEF OwnedBy, AnotherTrophy, HasAccount
<1>8. SyncingSound'
  BY <1>1, <1>4, <1>6, <1>7 DEF SyncingSound, Syncing, AnotherTrophy, SyncTransaction, Dates
<1>9. ImportSound'
  BY <1>4, TrophyConstants DEF ImportSound, Syncing
<1> QED BY <1>1, <1>8, <1>9, ElsewhereKeeps DEF HInv

LEMMA InsertTrophyKeeps == ASSUME HInv, NEW p \in Gamers, InsertTrophy(p) PROVE HInv'
<1> DEFINE row == Head(transaction.left)
           key == RowKey(p, row)
           table == InsertRow(transaction.table, key, row.date)
<1>1. /\ AnotherTrophy /\ Syncing(p) /\ transaction.left # <<>> /\ HasAccount(p)
      /\ transaction' = [transaction EXCEPT !.left = Tail(transaction.left), !.table = table]
  BY DEF InsertTrophy, AnotherTrophy, SameRows, Unanswering, NoOutcome, Syncing, RowKey
<1>2. /\ pending[p] # NoWork /\ ~pending[p].stored /\ transaction \in SyncTransaction
      /\ OwnedBy(transaction.table) /\ TrophyShapes
  BY <1>1 DEF HInv, SyncingSound
<1>3. PICK n \in Nat : Progress(p, n)
  BY <1>1 DEF HInv, SyncingSound
<1>4. transaction.left \in Seq(SyncRow) /\ transaction.table \in Dates /\ transaction.by = p
  BY <1>1, <1>2 DEF SyncTransaction, Syncing
<1>5. Len(transaction.left) \in Nat /\ Len(transaction.left) >= 1
  BY <1>1, <1>4, EmptySeq, LenProperties
<1>6. pending[p].rows \in Seq(SyncRow)
  BY <1>2 DEF TrophyShapes, SyncRequest
<1>7. Len(pending[p].rows) \in Nat
  BY <1>6
<1>8. row = transaction.left[1] /\ transaction.left[1] = pending[p].rows[n + 1]
      /\ n < Len(pending[p].rows)
  BY <1>3, <1>4, <1>5, <1>7 DEF Progress
<1>9. row \in SyncRow /\ key \in TrophyKeys /\ table = Entered(p, n + 1)
  BY <1>2, <1>3, <1>8, EnteredOne DEF Progress
<1>10. /\ Tail(transaction.left) \in Seq(SyncRow)
       /\ Len(Tail(transaction.left)) = Len(transaction.left) - 1
       /\ \A i \in 1 .. Len(transaction.left) - 1 : Tail(transaction.left)[i] = transaction.left[i + 1]
  BY <1>1, <1>4, <1>5
<1>11. table \in Dates
  BY <1>4, <1>9 DEF InsertRow, Dates, SyncRow
<1> HIDE DEF row, key, table
<1>12. /\ transaction' \in SyncTransaction /\ transaction'.by = p
       /\ transaction'.left = Tail(transaction.left) /\ transaction'.table = table
  BY <1>1, <1>2, <1>4, <1>10, <1>11 DEF SyncTransaction
<1>13. Entered(p, n + 1)' = table
  BY <1>1, <1>9, SameEntered DEF AnotherTrophy, SameRows
<1>14. Progress(p, n + 1)'
  <2>1. pending' = pending
    BY <1>1 DEF AnotherTrophy
  <2>2. /\ n + 1 \in 0 .. Len(pending[p].rows)
        /\ Len(Tail(transaction.left)) = Len(pending[p].rows) - (n + 1)
    BY <1>3, <1>5, <1>7, <1>8, <1>10 DEF Progress
  <2>3. ASSUME NEW i \in 1 .. Len(Tail(transaction.left))
        PROVE  Tail(transaction.left)[i] = pending[p].rows[n + 1 + i]
    <3>1. i + 1 \in 1 .. Len(transaction.left) /\ n + (i + 1) = n + 1 + i
          /\ i \in 1 .. Len(transaction.left) - 1
      BY <1>5, <1>10, <2>3
    <3>2. transaction.left[i + 1] = pending[p].rows[n + (i + 1)]
      BY <1>3, <3>1 DEF Progress
    <3> QED BY <1>10, <3>1, <3>2
  <2> QED BY <1>12, <1>13, <2>1, <2>2, <2>3 DEF Progress
<1>15. OwnedBy(transaction.table)'
  <2>1. SUFFICES ASSUME NEW k \in TrophyKeys, table[k] # Nothing PROVE HasAccount(k[1])'
    BY <1>12 DEF OwnedBy
  <2>2. key[1] = p
    BY DEF key, RowKey
  <2>3. CASE k = key
    BY <1>1, <2>2, <2>3 DEF AnotherTrophy, HasAccount
  <2>4. CASE k # key
    <3>1. transaction.table[k] # Nothing
      BY <1>4, <2>1, <2>4 DEF table, InsertRow, Dates
    <3> QED BY <1>1, <1>2, <3>1 DEF OwnedBy, AnotherTrophy, HasAccount
  <2> QED BY <2>3, <2>4
<1>16. SyncingSound'
  BY <1>1, <1>2, <1>12, <1>14, <1>15 DEF SyncingSound, Syncing, AnotherTrophy, SyncTransaction, Dates
<1>17. ImportSound'
  BY <1>12, TrophyConstants DEF ImportSound, Syncing
<1> QED BY <1>1, <1>16, <1>17, ElsewhereKeeps DEF HInv

LEMMA CommitSyncKeeps == ASSUME HInv, NEW p \in Gamers, CommitSync(p) PROVE HInv'
<1>1. /\ Syncing(p) /\ transaction.left = <<>> /\ earned' = transaction.table
      /\ first' = FirstDates(p) /\ transaction' = NoWork
      /\ pending' = [pending EXCEPT ![p].stored = TRUE]
      /\ standing' = standing /\ moment' = moment /\ Unanswering
  BY DEF CommitSync, Syncing, Unanswering, NoOutcome
<1>2. /\ pending[p] # NoWork /\ transaction \in SyncTransaction
      /\ OwnedBy(transaction.table) /\ TrophyShapes
  BY <1>1 DEF HInv, SyncingSound
<1>3. PICK n \in Nat : Progress(p, n)
  BY <1>1 DEF HInv, SyncingSound
<1>4. pending[p] \in SyncRequest
  BY <1>2 DEF TrophyShapes
<1>5. Len(pending[p].rows) \in Nat
  BY <1>4 DEF SyncRequest
<1>6. n = Len(pending[p].rows)
  BY <1>1, <1>3, <1>5 DEF Progress
<1>7. earned' = Entered(p, Len(pending[p].rows)) /\ first' = earned' /\ earned' \in Dates
  BY <1>1, <1>2, <1>3, <1>6, FirstDatesEntered DEF Progress, SyncTransaction
<1>8. /\ pending'[p] \in SyncRequest /\ pending'[p].rows = pending[p].rows
      /\ pending'[p].game = pending[p].game
  BY <1>1, <1>2, <1>4 DEF SyncRequest, TrophyShapes, Workers
<1>9. OnePlayer(p)
  <2>1. PICK v : pending' = [pending EXCEPT ![p] = v]
    BY <1>1
  <2>2. pending = [w \in Workers |-> pending[w]]
    BY <1>2 DEF TrophyShapes
  <2> QED BY <1>1, <2>1, <2>2 DEF OnePlayer, Workers
<1>10. TrophyShapes'
  BY <1>1, <1>2, <1>7, <1>8, <1>9 DEF TrophyShapes, OnePlayer
<1>11. OwnedBy(earned)'
  BY <1>1, <1>2 DEF OwnedBy, HasAccount
<1>12. StoredSound'
  <2>1. SUFFICES ASSUME NEW q \in Gamers, Stored(q)'
                 PROVE  (\A i \in 1 .. Len(pending[q].rows) :
                           LET k == RowKey(q, pending[q].rows[i]) IN
                             k \in pending[q].revoked \/ earned[k] # Nothing)'
    BY DEF StoredSound
  <2>2. CASE q # p
    <3>1. RowsGrow
      BY <1>2, <1>7, GrowsEntered DEF RowsGrow
    <3> QED BY <1>2, <1>9, <2>1, <2>2, <3>1, GrowingStored DEF HInv, OnePlayer
  <2>3. CASE q = p
    <3>1. SUFFICES ASSUME NEW i \in 1 .. Len(pending[p].rows)
                   PROVE  earned'[RowKey(p, pending[p].rows[i])'] # Nothing
      BY <1>8, <2>3
    <3>2. RowKey(p, pending[p].rows[i])' = RowKey(p, pending[p].rows[i])
      BY <1>8 DEF RowKey
    <3> QED BY <1>2, <1>7, <3>2, EnteredAll
  <2> QED BY <2>2, <2>3
<1> QED BY <1>1, <1>10, <1>11, <1>12, NothingUnderWay, Quiet DEF HInv

\* The reply has the rows that are there.
LEMMA ReplyMergedKeeps == ASSUME HInv, NEW p \in Gamers, ReplyMerged(p) PROVE HInv'
<1>1. /\ Stored(p) /\ standing' = standing /\ SameRows /\ transaction' = transaction
      /\ moment' = moment /\ pending' = [pending EXCEPT ![p] = NoWork]
      /\ outcome' = [kind |-> "synced", by |-> p, request |-> pending[p],
                     trophies |-> ListUserTrophiesForGame(p, pending[p].game)]
  BY DEF ReplyMerged, Stored, SameRows
<1>2. TrophyShapes /\ AccountsStay /\ pending[p] \in SyncRequest
  BY <1>1 DEF HInv, TrophyShapes, Stored, AccountsStay, HasAccount
<1>3. OnePlayer(p) /\ pending'[p] = NoWork
  BY <1>1, <1>2 DEF OnePlayer, TrophyShapes, Workers
<1>4. TrophyShapes'
  BY <1>1, <1>2, <1>3 DEF TrophyShapes, OnePlayer, SameRows
<1>5. OwnedBy(earned)'
  BY <1>1, <1>2, OwnedStay DEF HInv, OwnedBy, SameRows
<1>6. StoredSound'
  <2>1. \A q \in Gamers : Stored(q)' => q # p /\ pending'[q] = pending[q]
    BY <1>3 DEF Stored, OnePlayer
  <2> QED BY <1>1, <2>1, SameStored DEF HInv, StoredSound, SameRows
<1>7. SyncingSound' /\ ImportSound'
  <2>1. ~Syncing(p)
    BY <1>1 DEF HInv, SyncingSound, Stored
  <2> QED BY <1>1, <1>2, <1>3, <2>1, OtherTransaction DEF HInv, OnePlayer, SameRows
<1>8. OutcomeTrue'
  <2>1. /\ outcome'.by = p /\ outcome'.request = pending[p]
        /\ outcome'.trophies = ListUserTrophiesForGame(p, pending[p].game)
    BY <1>1
  <2>2. SUFFICES ASSUME NEW row \in Range(pending[p].rows),
                        <<p, pending[p].game, row.id>> \notin pending[p].revoked
                 PROVE  [id |-> row.id, date |-> first'[<<p, pending[p].game, row.id>>]]
                          \in ListUserTrophiesForGame(p, pending[p].game)
    BY <2>1 DEF OutcomeTrue
  <2>3. DOMAIN pending[p].rows = 1 .. Len(pending[p].rows)
        /\ pending[p].rows \in Seq(SyncRow)
    BY <1>2 DEF SyncRequest
  <2>4. PICK i \in 1 .. Len(pending[p].rows) : row = pending[p].rows[i]
    BY <2>3 DEF Range
  <2>5. earned[<<p, pending[p].game, row.id>>] # Nothing
    BY <1>1, <2>2, <2>4 DEF HInv, StoredSound, RowKey
  <2>6. row.id \in Valid
    <3>1. row \in SyncRow
      BY <2>3, <2>4
    <3> QED BY <3>1 DEF SyncRow
  <2>7. first' = earned
    BY <1>1, <1>2 DEF SameRows, TrophyShapes
  <2> QED BY <2>5, <2>6, <2>7 DEF ListUserTrophiesForGame
<1> QED BY <1>4, <1>5, <1>6, <1>7, <1>8 DEF HInv

-----------------------------------------------------------------------------
(* What ends a request, and what operators do. *)

\* A worker drops what it is at.
LEMMA RollBackKeeps ==
  ASSUME HInv, NEW w \in Workers, transaction # NoWork, transaction.by = w, RollBack(w)
  PROVE  HInv'
<1>1. /\ standing' = standing /\ SameRows /\ transaction' = NoWork /\ moment' = moment
      /\ Unanswering /\ pending' = [pending EXCEPT ![w] = NoWork]
  BY DEF RollBack, SameRows, Unanswering, NoOutcome
<1>2. TrophyShapes /\ AccountsStay
  BY <1>1 DEF HInv, TrophyShapes, AccountsStay, HasAccount
<1>3. \A p \in Gamers : pending'[p] = pending[p] \/ pending'[p] = NoWork
  BY <1>1, <1>2 DEF TrophyShapes, Workers
<1>4. TrophyShapes'
  BY <1>1, <1>2, <1>3 DEF TrophyShapes, SameRows
<1>5. OwnedBy(earned)'
  BY <1>1, <1>2, OwnedStay DEF HInv, OwnedBy, SameRows
<1>6. StoredSound'
  <2>1. \A q \in Gamers : Stored(q)' => pending'[q] = pending[q]
    BY <1>3 DEF Stored
  <2> QED BY <1>1, <2>1, SameStored DEF HInv, StoredSound, SameRows
<1> QED BY <1>1, <1>4, <1>5, <1>6, NothingUnderWay, Quiet DEF HInv

\* The transaction of an import touches no trophy.
LEMMA ImportKeeps ==
  ASSUME HInv, \/ \E g \in Games, imported \in Configs : ImportConfig(g, imported)
               \/ InsertMeta \/ CommitImport
  PROVE  HInv'
<1>1. /\ standing' = standing /\ SameRows /\ moment' = moment /\ Unanswering
      /\ pending' = pending \/ \E v : pending' = [pending EXCEPT ![MainThread] = v]
  BY DEF ImportConfig, InsertMeta, CommitImport, SameRows, Unanswering, NoOutcome
<1>2. TrophyShapes /\ MainThread \notin Gamers
  BY TrophyConstants DEF HInv
<1>3. SamePlayers
  <2>1. pending = [w \in Workers |-> pending[w]]
    BY <1>2 DEF TrophyShapes
  <2>2. /\ \A p \in Gamers : pending'[p] = pending[p]
        /\ pending' = [w \in Workers |-> pending'[w]]
    <3>1. CASE pending' = pending
      BY <2>1, <3>1
    <3>2. CASE \E v : pending' = [pending EXCEPT ![MainThread] = v]
      BY <1>2, <2>1, <3>2
    <3> QED BY <1>1, <3>1, <3>2
  <2> QED BY <1>1, <1>2, <2>2 DEF SamePlayers, TrophyShapes
<1>4. AccountsStay /\ moment' \in Nat
  BY <1>1, <1>2 DEF AccountsStay, HasAccount, TrophyShapes
<1>5. TrophyShapes' /\ OwnedBy(earned)' /\ StoredSound' /\ OutcomeTrue'
  <2>1. OwnedBy(earned)'
    BY <1>1, <1>4, OwnedStay DEF HInv, OwnedBy, SameRows
  <2>2. StoredSound'
    BY <1>1, <1>3, SameStored DEF HInv, StoredSound, SameRows, SamePlayers
  <2> QED BY <1>1, <1>2, <1>3, <1>4, <2>1, <2>2, SameShapes, Quiet
<1>6. SyncingSound' /\ ImportSound'
  <2>1. CASE transaction' = transaction
    BY <1>1, <1>3, <1>4, <2>1, OtherTransaction DEF HInv, SameRows, SamePlayers
  <2>2. CASE transaction' = NoWork
    BY <2>2, NothingUnderWay
  <2>3. CASE \E rows, table : transaction' = [by |-> MainThread, left |-> rows, table |-> table]
    BY <1>2, <2>3 DEF SyncingSound, ImportSound, Syncing
  <2>4. \/ transaction' = transaction \/ transaction' = NoWork
        \/ \E rows, table : transaction' = [by |-> MainThread, left |-> rows, table |-> table]
    <3>1. CASE InsertMeta
      <4>1. Syncing(MainThread)
        BY <3>1 DEF InsertMeta, Syncing
      <4>2. PICK before, behind :
               transaction = [by |-> MainThread, left |-> before, table |-> behind]
        BY <4>1 DEF HInv, ImportSound
      <4>3. PICK rows, table : transaction' = [transaction EXCEPT !.left = rows, !.table = table]
        BY <3>1 DEF InsertMeta
      <4>4. transaction' = [[transaction EXCEPT !.left = rows] EXCEPT !.table = table]
        BY <4>3
      <4>5. [transaction EXCEPT !.left = rows] = [by |-> MainThread, left |-> rows, table |-> behind]
        BY <4>2
      <4> QED BY <4>4, <4>5
    <3>2. CASE ~InsertMeta
      BY <3>2 DEF ImportConfig, CommitImport
    <3> QED BY <3>1, <3>2
  <2> QED BY <2>1, <2>2, <2>3, <2>4
<1> QED BY <1>5, <1>6 DEF HInv

\* Trophies are revoked while no transaction is under way; whoever has stored them is told.
LEMMA ForgetKeeps ==
  ASSUME HInv, NEW ks \in SUBSET TrophyKeys, Forget(ks), transaction = NoWork,
         transaction' = transaction, moment' = moment, Unanswering,
         standing' = [p \in Gamers |-> standing'[p]],
         \A k \in TrophyKeys : HasAccount(k[1]) => k \in ks \/ HasAccount(k[1])'
  PROVE  HInv'
<1>1. /\ earned' = [k \in TrophyKeys |-> IF k \in ks THEN Nothing ELSE earned[k]]
      /\ first' = [k \in TrophyKeys |-> IF k \in ks THEN Nothing ELSE first[k]]
      /\ pending' = [w \in Workers |->
           IF w # MainThread /\ pending[w] # NoWork
           THEN [pending[w] EXCEPT !.revoked = pending[w].revoked \cup ks] ELSE pending[w]]
  BY DEF Forget
<1>2. TrophyShapes /\ MainThread \notin Gamers
  BY TrophyConstants DEF HInv
<1>3. \A p \in Gamers : p \in Workers /\ p # MainThread
  BY <1>2 DEF Workers
<1>4. \A p \in Gamers :
        \/ pending[p] = NoWork /\ pending'[p] = NoWork
        \/ /\ pending[p] # NoWork /\ pending[p] \in SyncRequest
           /\ pending'[p] = [pending[p] EXCEPT !.revoked = pending[p].revoked \cup ks]
  BY <1>1, <1>2, <1>3 DEF TrophyShapes
<1>5. ASSUME NEW p \in Gamers, pending'[p] # NoWork
      PROVE  /\ pending[p] # NoWork /\ pending'[p] \in SyncRequest
             /\ pending'[p].rows = pending[p].rows /\ pending'[p].game = pending[p].game
             /\ pending'[p].stored = pending[p].stored
             /\ pending'[p].revoked = pending[p].revoked \cup ks
  <2>1. /\ pending[p] # NoWork /\ pending[p] \in SyncRequest
        /\ pending'[p] = [pending[p] EXCEPT !.revoked = pending[p].revoked \cup ks]
    BY <1>4, <1>5
  <2>2. PICK r \in SUBSET TrophyKeys : r = pending[p].revoked \cup ks
    BY <2>1 DEF SyncRequest
  <2>3. pending'[p] = [pending[p] EXCEPT !.revoked = r]
    BY <2>1, <2>2
  <2> QED BY <2>1, <2>2, <2>3 DEF SyncRequest
<1>6. TrophyShapes'
  <2>1. earned' \in Dates /\ first' = earned'
    BY <1>1, <1>2 DEF TrophyShapes, Dates
  <2>2. pending' = [w \in Workers |-> pending'[w]]
    BY <1>1
  <2> QED BY <1>2, <1>5, <2>1, <2>2 DEF TrophyShapes
<1>7. OwnedBy(earned)'
  BY <1>1 DEF HInv, OwnedBy
<1>8. StoredSound'
  <2>1. SUFFICES ASSUME NEW q \in Gamers, Stored(q)', NEW i \in 1 .. Len(pending'[q].rows)
                 PROVE  RowKey(q, pending[q].rows[i])' \in pending'[q].revoked
                          \/ earned'[RowKey(q, pending[q].rows[i])'] # Nothing
    BY DEF StoredSound
  <2>2. /\ pending[q] # NoWork /\ pending[q].stored /\ pending'[q].rows = pending[q].rows
        /\ pending'[q].game = pending[q].game
        /\ pending'[q].revoked = pending[q].revoked \cup ks
    BY <1>5, <2>1 DEF Stored
  <2>3. RowKey(q, pending[q].rows[i])' = RowKey(q, pending[q].rows[i])
    BY <2>2 DEF RowKey
  <2>4. RowKey(q, pending[q].rows[i]) \in TrophyKeys
    BY <1>2, <2>1, <2>2, EnteredAll
  <2>5. RowKey(q, pending[q].rows[i]) \in pending[q].revoked
          \/ earned[RowKey(q, pending[q].rows[i])] # Nothing
    BY <2>1, <2>2 DEF HInv, StoredSound, Stored
  <2> QED BY <1>1, <2>2, <2>3, <2>4, <2>5
<1> QED BY <1>6, <1>7, <1>8, NothingUnderWay, Quiet DEF HInv

LEMMA RevocationKeeps ==
  ASSUME HInv, \/ \E k \in TrophyKeys : DeleteUserTrophy(k)
               \/ \E p \in Gamers : PurgeUserData(p) \/ CloseAccount(p)
  PROVE  HInv'
<1>1. standing = [p \in Gamers |-> standing[p]]
  BY DEF HInv, TrophyShapes
<1>2. ASSUME NEW k \in TrophyKeys, DeleteUserTrophy(k) PROVE HInv'
  BY <1>1, <1>2, ForgetKeeps DEF DeleteUserTrophy, Unanswering, NoOutcome, HasAccount
<1>3. ASSUME NEW p \in Gamers, PurgeUserData(p) PROVE HInv'
  <2>1. /\ standing' = standing /\ Forget({k \in TrophyKeys : k[1] = p}) /\ transaction = NoWork
        /\ transaction' = transaction /\ moment' = moment /\ Unanswering
    BY <1>3 DEF PurgeUserData, Unanswering, NoOutcome
  <2> QED BY <1>1, <2>1, ForgetKeeps DEF HasAccount
<1>4. ASSUME NEW p \in Gamers, CloseAccount(p) PROVE HInv'
  <2>1. /\ standing' = [standing EXCEPT ![p] = "deleted"]
        /\ Forget({k \in TrophyKeys : k[1] = p}) /\ transaction = NoWork
        /\ transaction' = transaction /\ moment' = moment /\ Unanswering
    BY <1>4 DEF CloseAccount, Unanswering, NoOutcome
  <2>2. standing' = [q \in Gamers |-> standing'[q]]
    BY <1>1, <2>1
  <2>3. \A k \in TrophyKeys :
          HasAccount(k[1]) => k \in {x \in TrophyKeys : x[1] = p} \/ HasAccount(k[1])'
    BY <1>1, <2>1 DEF HasAccount
  <2> QED BY <2>1, <2>2, <2>3, ForgetKeeps
<1> QED BY <1>2, <1>3, <1>4

LEMMA TrophiesRestartKeeps == ASSUME HInv, TrophiesRestart PROVE HInv'
<1>1. /\ standing' = standing /\ SameRows /\ moment' = moment /\ Unanswering
      /\ transaction' = NoWork /\ pending' = [w \in Workers |-> NoWork]
  BY DEF TrophiesRestart, SameRows, Unanswering, NoOutcome
<1>2. TrophyShapes /\ AccountsStay /\ \A p \in Gamers : pending'[p] = NoWork
  BY <1>1 DEF HInv, TrophyShapes, AccountsStay, HasAccount, Workers
<1>3. TrophyShapes'
  BY <1>1, <1>2 DEF TrophyShapes, SameRows
<1>4. OwnedBy(earned)'
  BY <1>1, <1>2, OwnedStay DEF HInv, OwnedBy, SameRows
<1>5. StoredSound'
  BY <1>2 DEF StoredSound, Stored
<1> QED BY <1>1, <1>3, <1>4, <1>5, NothingUnderWay, Quiet DEF HInv

LEMMA HStart == TrophiesInit => HInv
<1> SUFFICES ASSUME TrophiesInit PROVE HInv
  OBVIOUS
<1>1. TrophyShapes
  BY DEF TrophiesInit, TrophyShapes, Dates, Workers
<1>2. OwnedBy(earned) /\ StoredSound /\ SyncingSound /\ ImportSound
  BY DEF TrophiesInit, OwnedBy, StoredSound, Stored, SyncingSound, ImportSound, Syncing, Workers
<1>3. OutcomeTrue
  BY DEF TrophiesInit, OutcomeTrue, NoOutcome
<1> QED BY <1>1, <1>2, <1>3 DEF HInv

LEMMA HStep == HInv /\ [TrophiesNext]_trophyVars => HInv'
<1> SUFFICES ASSUME HInv, [TrophiesNext]_trophyVars PROVE HInv'
  OBVIOUS
<1>1. CASE TrophiesNext
  BY <1>1, UnlockTrophyKeeps, SyncTrophiesKeeps, BeginSyncKeeps, InsertTrophyKeeps, CommitSyncKeeps,
     ReplyMergedKeeps, RollBackKeeps, ImportKeeps, RevocationKeeps, OperatorsKeep,
     TrophiesRestartKeeps DEF TrophiesNext
<1>2. CASE UNCHANGED trophyVars
  <2>1. /\ standing' = standing /\ SameRows /\ transaction' = transaction /\ pending' = pending
        /\ moment' = moment /\ outcome' = outcome
    BY <1>2 DEF trophyVars, SameRows
  <2>2. SamePlayers /\ AccountsStay /\ moment' \in Nat
    BY <2>1 DEF HInv, TrophyShapes, SamePlayers, AccountsStay, HasAccount
  <2>3. TrophyShapes' /\ SyncingSound' /\ ImportSound'
    BY <2>1, <2>2, SameShapes, OtherTransaction DEF HInv, SameRows
  <2>4. OwnedBy(earned)' /\ StoredSound'
    BY <2>1, <2>2, OwnedStay, SameStored DEF HInv, OwnedBy, StoredSound, SameRows
  <2>5. OutcomeTrue'
    BY <2>1 DEF HInv, OutcomeTrue, SameRows
  <2> QED BY <2>3, <2>4, <2>5 DEF HInv
<1> QED BY <1>1, <1>2

\* However often a trophy is sent again, it keeps the date it was first recorded with until
\* it is revoked; rows belong to accounts; and a sync that is answered has recorded all of
\* its rows, one that fails none (cmd_trophy.cpp:54, database.cpp:1426).
THEOREM TrophiesAlwaysKept == TrophiesSpec => []TrophiesKept
BY HStart, HStep, HKept, PTL DEF TrophiesSpec
-----------------------------------------------------------------------------
(* The cached page.  What it shows was read after the request that dates it, so it runs *)
(* out before it is too old.                                                            *)

PageKept ==
  cache # Nothing =>
    cache.read \in Nat /\ cache.expiry \in Nat /\ cache.expiry <= cache.read + m_cacheLife

PageBuilt ==
  LET page == pending[MainThread] IN
  page # NoWork /\ page.kind = "page" =>
    /\ page.since \in Nat /\ page.since <= moment
    /\ page.read # Nothing => page.read \in page.since .. moment

PageShown ==
  outcome.kind = "page" => outcome.read \in Nat /\ moment < outcome.read + m_cacheLife

PageInv ==
  /\ moment \in Nat /\ pending = [w \in Workers |-> pending[w]]
  /\ PageKept /\ PageBuilt /\ PageShown

\* No page is answered; the cache and the page in hand are left alone.
NoPage ==
  /\ cache' = cache /\ moment' = moment /\ outcome'.kind # "page"
  /\ pending' = [w \in Workers |-> pending'[w]]
  /\ \/ pending'[MainThread] = pending[MainThread] \/ pending'[MainThread] = NoWork
     \/ pending'[MainThread].kind = "import"

LEMMA MainWorks == MainThread \in Workers /\ \A p \in Gamers : p \in Workers /\ p # MainThread
BY TrophyConstants DEF Workers

LEMMA NothingIsNoPage == NoOutcome.kind # "page"
BY DEF NoOutcome

LEMMA NoPageKeeps == ASSUME PageInv, NoPage PROVE PageInv'
<1>1. PageKept' /\ PageShown'
  BY DEF PageInv, PageKept, PageShown, NoPage
<1>2. PageBuilt'
  BY DEF PageInv, PageBuilt, NoPage
<1> QED BY <1>1, <1>2 DEF PageInv, NoPage

\* A change of a player's entry leaves the main thread's alone.
LEMMA OtherEntry ==
  ASSUME PageInv, NEW p \in Gamers, NEW v, pending' = [pending EXCEPT ![p] = v]
  PROVE  pending' = [w \in Workers |-> pending'[w]] /\ pending'[MainThread] = pending[MainThread]
BY MainWorks DEF PageInv

LEMMA PlayersShowNoPage ==
  ASSUME PageInv, NEW p \in Gamers,
         \/ \E g \in Games, id \in TrophyIds, stamp \in Stamps : UnlockTrophy(p, g, id, stamp)
         \/ \E g \in Games : \E upload \in Uploads[g] : SyncTrophies(p, g, upload)
         \/ BeginSync(p) \/ InsertTrophy(p) \/ CommitSync(p) \/ ReplyMerged(p) \/ BanUser(p)
  PROVE  NoPage
<1>1. cache' = cache /\ moment' = moment /\ outcome'.kind # "page"
  <2>1. CASE ReplyMerged(p)
    <3>1. PICK r, t : outcome' = [kind |-> "synced", by |-> p, request |-> r, trophies |-> t]
      BY <2>1 DEF ReplyMerged
    <3> QED BY <2>1, <3>1 DEF ReplyMerged
  <2>2. CASE ~ReplyMerged(p)
    BY <2>2, NothingIsNoPage
       DEF UnlockTrophy, SyncTrophies, BeginSync, InsertTrophy, CommitSync, BanUser
  <2> QED BY <2>1, <2>2
<1>2. pending' = pending \/ \E v : pending' = [pending EXCEPT ![p] = v]
  <2>1. CASE CommitSync(p)
    <3>1. pending' = [pending EXCEPT ![p] = [pending[p] EXCEPT !.stored = TRUE]]
      BY <2>1 DEF CommitSync
    <3> QED BY <3>1
  <2>2. CASE \E g \in Games : \E upload \in Uploads[g] : SyncTrophies(p, g, upload)
    BY <2>2 DEF SyncTrophies
  <2>3. CASE ReplyMerged(p)
    BY <2>3 DEF ReplyMerged
  <2>4. CASE \/ \E g \in Games, id \in TrophyIds, stamp \in Stamps : UnlockTrophy(p, g, id, stamp)
             \/ BeginSync(p) \/ InsertTrophy(p) \/ BanUser(p)
    BY <2>4 DEF UnlockTrophy, BeginSync, InsertTrophy, BanUser
  <2> QED BY <2>1, <2>2, <2>3, <2>4
<1>3. pending' = [w \in Workers |-> pending'[w]] /\ pending'[MainThread] = pending[MainThread]
  <2>1. CASE pending' = pending
    BY <2>1 DEF PageInv
  <2>2. CASE \E v : pending' = [pending EXCEPT ![p] = v]
    BY <2>2, OtherEntry
  <2> QED BY <1>2, <2>1, <2>2
<1> QED BY <1>1, <1>3 DEF NoPage

LEMMA RevocationsShowNoPage ==
  ASSUME PageInv,
         \/ \E k \in TrophyKeys : DeleteUserTrophy(k)
         \/ \E p \in Gamers : PurgeUserData(p) \/ CloseAccount(p)
  PROVE  NoPage
<1>1. PICK ks : Forget(ks)
  BY DEF DeleteUserTrophy, PurgeUserData, CloseAccount
<1>2. cache' = cache /\ moment' = moment /\ outcome'.kind # "page"
  BY NothingIsNoPage DEF DeleteUserTrophy, PurgeUserData, CloseAccount
<1>3. pending' = [w \in Workers |-> pending'[w]] /\ pending'[MainThread] = pending[MainThread]
  BY <1>1, MainWorks DEF Forget
<1> QED BY <1>2, <1>3 DEF NoPage

LEMMA ImportsShowNoPage ==
  ASSUME PageInv,
         \/ \E g \in Games : \/ DeleteTrophyMeta(g)
                             \/ \E imported \in Configs : ImportConfig(g, imported)
         \/ InsertMeta \/ CommitImport
         \/ \E w \in Workers : RollBack(w)
  PROVE  NoPage
<1>1. cache' = cache /\ moment' = moment /\ outcome'.kind # "page"
  BY DEF DeleteTrophyMeta, ImportConfig, InsertMeta, CommitImport, RollBack, NoOutcome
<1>2. \/ pending' = pending
      \/ \E g \in Games : pending' = [pending EXCEPT ![MainThread] = [kind |-> "import", game |-> g]]
      \/ \E w \in Workers : pending' = [pending EXCEPT ![w] = NoWork]
  BY MainWorks DEF DeleteTrophyMeta, ImportConfig, InsertMeta, CommitImport, RollBack
<1>3. pending' = [w \in Workers |-> pending'[w]]
  BY <1>2 DEF PageInv
<1>4. \/ pending'[MainThread] = pending[MainThread] \/ pending'[MainThread] = NoWork
      \/ pending'[MainThread].kind = "import"
  BY <1>2, MainWorks DEF PageInv
<1> QED BY <1>1, <1>3, <1>4 DEF NoPage

LEMMA RequestRankingKeeps == ASSUME PageInv, RequestRanking PROVE PageInv'
<1>1. m_cacheLife \in Nat /\ Nothing \notin Nat
  BY TrophyConstants
<1>2. cache' = cache /\ moment' = moment /\ PageKept'
  BY DEF RequestRanking, PageInv, PageKept
<1>3. CASE cache # Nothing /\ cache.expiry > moment
  <2>1. pending' = pending /\ outcome' = [kind |-> "page", read |-> cache.read]
    BY <1>3 DEF RequestRanking
  <2>2. cache.read \in Nat /\ cache.expiry \in Nat /\ cache.expiry <= cache.read + m_cacheLife
    BY <1>3 DEF PageInv, PageKept
  <2>3. PageShown'
    BY <1>1, <1>2, <1>3, <2>1, <2>2 DEF PageInv, PageShown
  <2> QED BY <1>2, <2>1, <2>3 DEF PageInv, PageBuilt
<1>4. CASE ~(cache # Nothing /\ cache.expiry > moment)
  <2>1. /\ pending' = [pending EXCEPT ![MainThread] = [kind |-> "page", since |-> moment, read |-> Nothing]]
        /\ outcome' = NoOutcome
    BY <1>4 DEF RequestRanking
  <2>2. /\ pending' = [w \in Workers |-> pending'[w]]
        /\ pending'[MainThread] = [kind |-> "page", since |-> moment, read |-> Nothing]
    BY <2>1, MainWorks DEF PageInv
  <2>3. PageBuilt' /\ PageShown'
    BY <1>1, <1>2, <2>1, <2>2 DEF PageInv, PageBuilt, PageShown, NoOutcome
  <2> QED BY <1>2, <2>2, <2>3 DEF PageInv
<1> QED BY <1>3, <1>4

LEMMA ReadRankingKeeps == ASSUME PageInv, ReadRanking PROVE PageInv'
<1>1. /\ cache' = cache /\ moment' = moment /\ outcome' = NoOutcome
      /\ pending[MainThread] # NoWork /\ pending[MainThread].kind = "page"
      /\ pending' = [pending EXCEPT ![MainThread] = [pending[MainThread] EXCEPT !.read = moment]]
  BY DEF ReadRanking
<1>2. PICK page : page = pending[MainThread]
  OBVIOUS
<1>3. page.since \in Nat /\ page.since <= moment
  BY <1>1, <1>2 DEF PageInv, PageBuilt
<1>4. /\ pending' = [w \in Workers |-> pending'[w]]
      /\ pending'[MainThread] = [page EXCEPT !.read = moment]
  BY <1>1, <1>2, MainWorks DEF PageInv
<1>5. [page EXCEPT !.read = moment].since = page.since
  OBVIOUS
<1>6. \/ [page EXCEPT !.read = moment].read = moment
      \/ [page EXCEPT !.read = moment].read = page.read
  OBVIOUS
<1> QED BY <1>1, <1>3, <1>4, <1>5, <1>6 DEF PageInv, PageKept, PageBuilt, PageShown, NoOutcome

LEMMA KeepRankingKeeps == ASSUME PageInv, KeepRanking PROVE PageInv'
<1>1. m_cacheLife \in Nat
  BY TrophyConstants
<1>2. PICK page : page = pending[MainThread]
  OBVIOUS
<1>3. /\ moment' = moment /\ outcome' = NoOutcome
      /\ cache' = [expiry |-> page.since + m_cacheLife, read |-> page.read]
      /\ pending' = [pending EXCEPT ![MainThread] = NoWork]
  BY <1>2 DEF KeepRanking
<1>4. page.since \in Nat /\ page.read \in page.since .. moment
  BY <1>2 DEF KeepRanking, PageInv, PageBuilt
<1>5. PageKept'
  BY <1>1, <1>3, <1>4 DEF PageKept, PageInv
<1>6. pending' = [w \in Workers |-> pending'[w]] /\ pending'[MainThread] = NoWork
  BY <1>3, MainWorks DEF PageInv
<1>7. PageBuilt' /\ PageShown'
  BY <1>3, <1>6 DEF PageBuilt, PageShown, NoOutcome
<1> QED BY <1>3, <1>5, <1>6, <1>7 DEF PageInv

LEMMA ClockKeepsPages == ASSUME PageInv, TrophiesRestart \/ MomentPasses PROVE PageInv'
<1>1. CASE TrophiesRestart
  <2>1. /\ moment' = moment /\ outcome' = NoOutcome /\ cache' = Nothing
        /\ pending' = [w \in Workers |-> NoWork] /\ pending'[MainThread] = NoWork
    BY <1>1, MainWorks DEF TrophiesRestart
  <2> QED BY <2>1 DEF PageInv, PageKept, PageBuilt, PageShown, NoOutcome
<1>2. CASE MomentPasses
  <2>1. moment' = moment + 1 /\ outcome' = NoOutcome /\ cache' = cache /\ pending' = pending
    BY <1>2 DEF MomentPasses
  <2>2. PICK page : page = pending[MainThread]
    OBVIOUS
  <2>3. PageBuilt'
    BY <2>1, <2>2 DEF PageInv, PageBuilt
  <2> QED BY <2>1, <2>3 DEF PageInv, PageKept, PageShown, NoOutcome
<1> QED BY <1>1, <1>2

LEMMA PageStart == TrophiesInit => PageInv
BY MainWorks DEF TrophiesInit, PageInv, PageKept, PageBuilt, PageShown, NoOutcome

LEMMA PageStep == PageInv /\ [TrophiesNext]_trophyVars => PageInv'
<1> SUFFICES ASSUME PageInv, [TrophiesNext]_trophyVars PROVE PageInv'
  OBVIOUS
<1>1. CASE TrophiesNext
  BY <1>1, NoPageKeeps, PlayersShowNoPage, RevocationsShowNoPage, ImportsShowNoPage,
     RequestRankingKeeps, ReadRankingKeeps, KeepRankingKeeps, ClockKeepsPages DEF TrophiesNext
<1>2. CASE UNCHANGED trophyVars
  BY <1>2 DEF trophyVars, PageInv, PageKept, PageBuilt, PageShown
<1> QED BY <1>1, <1>2

\* No page of the statistics server shows what was read m_cacheLife ago or earlier, however
\* long it took to build and whatever was earned or revoked since (stats_server.cpp:203).
THEOREM PagesNeverStale == TrophiesSpec => []PageCurrent
<1>1. PageInv => PageCurrent
  BY TrophyConstants DEF PageInv, PageShown, PageCurrent
<1> QED BY <1>1, PageStart, PageStep, PTL DEF TrophiesSpec
=============================================================================
