--------------------------- MODULE LinkingProofs ---------------------------
(* Proofs about links and their credentials, for any number of creators,   *)
(* requests, concurrent refreshes and tokens.                              *)
EXTENDS Linking, TLAPS

(* A live instance has a token of its own for current; another has none.   *)
CurrentIsOwn ==
    \A r \in Requests :
        /\ instance[r].state = "live" => instance[r].refresh \in Issued
                                         /\ Of(instance[r].refresh) = r
        /\ instance[r].state # "live" => instance[r].refresh = NoToken
        /\ instance[r].state = "none" => \A t \in Tokens : grantedTo[t] # r

(* What was traded is an issued token and current nowhere; what was not    *)
(* issued was traded for nothing.                                          *)
ParentsSpent ==
    \A t \in Tokens :
        /\ parent[t] # NoToken =>
             parent[t] \in Issued /\ \A r \in Requests : instance[r].refresh # parent[t]
        /\ t \notin Issued => parent[t] = NoToken

CallsHaveTokens ==
    \A c \in Calls : /\ call[c].step # "none" => call[c].token \in Issued
                     /\ call[c].step = "granted" => call[c].answer \in Tokens

(* The row of a cleared request is gone, and time does not run for it; an  *)
(* approval is somebody's.                                                 *)
RequestsSound ==
    \A r \in Requests : /\ request[r].status = "cleared" => ~request[r].expired
                        /\ request[r].status = "approved" => request[r].by \in Users

LinkInv ==
    /\ TypeOK /\ LinkedByApproval /\ RequestsSound
    /\ SpentOnce /\ SpentIsRemembered /\ CurrentIsOwn /\ ParentsSpent /\ CallsHaveTokens

TokensSound == SpentOnce /\ SpentIsRemembered /\ CurrentIsOwn /\ ParentsSpent

LEMMA InitInv == Init => LinkInv
BY LinkingAssumption
   DEF Init, LinkInv, TypeOK, LinkedByApproval, RequestsSound, SpentOnce, SpentIsRemembered, CurrentIsOwn,
       ParentsSpent, CallsHaveTokens, Issued, Of, NoRequest, NotLinked, NoCall, NotRevoking,
       NoToken, Tokens

(* Nothing is issued, and what was spent stays remembered.                 *)
LEMMA QuietKeeps ==
    ASSUME TypeOK, TokensSound, UNCHANGED <<instance, grantedTo, parent>>,
           history \cup forgotten \subseteq history' \cup forgotten'
    PROVE  TokensSound'
BY DEF TokensSound, SpentOnce, SpentIsRemembered, CurrentIsOwn, ParentsSpent, Issued, Of

(* RevokeLinkedInstance and RevokeLinkedInstanceByID.                      *)
LEMMA RevokedEffect ==
    ASSUME TypeOK, NEW r \in Requests, NEW seen, NEW why \in {"creator", "inactive", "reuse"},
           Revoked(r, seen, why)
    PROVE  /\ instance' \in [Requests -> [state: {"none", "live", "revoked"},
                               owner: Users \cup {Nobody}, refresh: Tokens \cup {NoToken}]]
           /\ access' \subseteq Tokens
           /\ cause' \in [Requests -> {"none", "creator", "inactive", "reuse"}]
           /\ \A q \in Requests : instance'[q].owner = instance[q].owner
           /\ \A q \in Requests :
                \/ instance'[q] = instance[q]
                \/ instance[q].state = "live" /\ instance'[q].state = "revoked"
                   /\ instance'[q].refresh = NoToken
<1>1. CASE instance[r].state = "live"
  <2>1. /\ instance' = [instance EXCEPT ![r] = RevokedInstance(r)]
        /\ access' = access \ seen /\ cause' = [cause EXCEPT ![r] = why]
    BY <1>1 DEF Revoked
  <2> DEFINE old == instance[r]
  <2>2. instance \in [Requests -> [state: {"none", "live", "revoked"},
                        owner: Users \cup {Nobody}, refresh: Tokens \cup {NoToken}]]
        /\ access \subseteq Tokens /\ cause \in [Requests -> {"none", "creator", "inactive", "reuse"}]
    BY DEF TypeOK
  <2>3. /\ RevokedInstance(r) \in [state: {"none", "live", "revoked"},
                        owner: Users \cup {Nobody}, refresh: Tokens \cup {NoToken}]
        /\ RevokedInstance(r).state = "revoked" /\ RevokedInstance(r).refresh = NoToken
        /\ RevokedInstance(r).owner = old.owner
    BY <2>2 DEF RevokedInstance
  <2> HIDE DEF old
  <2>4. instance' \in [Requests -> [state: {"none", "live", "revoked"},
                        owner: Users \cup {Nobody}, refresh: Tokens \cup {NoToken}]]
        /\ access' \subseteq Tokens /\ cause' \in [Requests -> {"none", "creator", "inactive", "reuse"}]
    BY <2>1, <2>2, <2>3
  <2>5. \A q \in Requests : q # r => instance'[q] = instance[q]
    BY <2>1, <2>2
  <2>6. instance'[r] = RevokedInstance(r) /\ instance[r] = old
    BY <2>1, <2>2 DEF old
  <2> QED
    BY <1>1, <2>3, <2>4, <2>5, <2>6
<1>2. CASE instance[r].state # "live"
  BY <1>2 DEF Revoked, TypeOK
<1> QED
  BY <1>1, <1>2

LEMMA RevokedKeeps ==
    ASSUME TypeOK, TokensSound, UNCHANGED <<grantedTo, parent, history, forgotten>>,
           \A q \in Requests :
                \/ instance'[q] = instance[q]
                \/ instance[q].state = "live" /\ instance'[q].state = "revoked"
                   /\ instance'[q].refresh = NoToken
    PROVE  TokensSound'
<1>1. Issued' = Issued /\ \A t \in Issued : Of(t) \in Requests
  BY DEF Issued, Of, TypeOK
<1>2. SpentOnce'
  BY <1>1 DEF TokensSound, SpentOnce
<1>3. SpentIsRemembered'
  BY <1>1 DEF TokensSound, SpentIsRemembered, Of
<1>4. CurrentIsOwn'
  BY <1>1 DEF TokensSound, CurrentIsOwn, Of
<1>5. ParentsSpent'
  BY <1>1 DEF TokensSound, ParentsSpent, NoToken, Tokens
<1> QED
  BY <1>2, <1>3, <1>4, <1>5 DEF TokensSound

(* A fresh pair for r, in place of the token spent, or of none for a new   *)
(* instance.                                                               *)
LEMMA GrantKeeps ==
    ASSUME TypeOK, TokensSound, NEW r \in Requests, NEW n \in Tokens, n \notin Issued,
           NEW spent \in Tokens \cup {NoToken},
           instance' \in [Requests -> [state: {"none", "live", "revoked"},
                               owner: Users \cup {Nobody}, refresh: Tokens \cup {NoToken}]],
           instance'[r].state = "live", instance'[r].refresh = n,
           \A q \in Requests : q # r => instance'[q] = instance[q],
           \/ spent = NoToken /\ instance[r].state = "none" /\ history' = history
           \/ /\ instance[r].state = "live" /\ instance[r].refresh = spent
              /\ history' = history \cup {spent},
           forgotten' = forgotten,
           grantedTo' = [grantedTo EXCEPT ![n] = r], parent' = [parent EXCEPT ![n] = spent]
    PROVE  TokensSound'
<1>1. Issued' = Issued \cup {n} /\ n # NoToken
      /\ \A t \in Issued : t # n /\ Of(t) \in Requests /\ Of(t)' = Of(t)
  BY LinkingAssumption DEF Issued, Of, TypeOK, Tokens, NoToken
<1>2. /\ Of(n)' = r /\ parent'[n] = spent /\ \A t \in Tokens \ {n} : parent'[t] = parent[t]
  BY DEF Of, TypeOK
<1>3. spent # NoToken => spent \in Issued /\ Of(spent) = r /\ \A t \in Tokens : parent[t] # spent
  BY DEF TokensSound, CurrentIsOwn, ParentsSpent
<1>4. SpentOnce'
  BY <1>1, <1>2, <1>3 DEF TokensSound, SpentOnce, Issued
<1>5. SpentIsRemembered'
  <2> SUFFICES ASSUME NEW t \in Issued', instance'[Of(t)'].state = "live"
               PROVE  t = instance'[Of(t)'].refresh \/ t \in history' \cup forgotten'
    BY DEF SpentIsRemembered
  <2>1. CASE t = n
    BY <1>2, <2>1
  <2>2. CASE t # n /\ Of(t) = r
    BY <1>1, <2>2 DEF TokensSound, SpentIsRemembered, CurrentIsOwn, Of, Issued
  <2>3. CASE t # n /\ Of(t) # r
    BY <1>1, <2>3 DEF TokensSound, SpentIsRemembered
  <2> QED
    BY <2>1, <2>2, <2>3
<1>6. CurrentIsOwn'
  <2> SUFFICES ASSUME NEW q \in Requests
               PROVE  /\ instance'[q].state = "live" => instance'[q].refresh \in Issued'
                                                        /\ grantedTo'[instance'[q].refresh] = q
                      /\ instance'[q].state # "live" => instance'[q].refresh = NoToken
                      /\ instance'[q].state = "none" => \A t \in Tokens : grantedTo'[t] # q
    BY DEF CurrentIsOwn, Of
  <2>1. CASE q = r
    BY <1>1, <1>2, <2>1 DEF Of
  <2>2. CASE q # r
    BY <1>1, <2>2 DEF TokensSound, CurrentIsOwn, TypeOK, Of
  <2> QED
    BY <2>1, <2>2
<1>7. ParentsSpent'
  <2> SUFFICES ASSUME NEW t \in Tokens
               PROVE  /\ parent'[t] # NoToken => parent'[t] \in Issued'
                           /\ \A q \in Requests : instance'[q].refresh # parent'[t]
                      /\ t \notin Issued' => parent'[t] = NoToken
    BY DEF ParentsSpent
  <2>1. CASE t = n
    <3>1. \A q \in Requests : spent # NoToken => instance'[q].refresh # spent
      BY <1>1, <1>3 DEF TokensSound, CurrentIsOwn
    <3> QED
      BY <1>1, <1>2, <1>3, <2>1, <3>1
  <2>2. CASE t # n
    BY <1>1, <1>2, <2>2 DEF TokensSound, ParentsSpent
  <2> QED
    BY <2>1, <2>2
<1> QED
  BY <1>4, <1>5, <1>6, <1>7 DEF TokensSound

-----------------------------------------------------------------------------
(* Every action keeps the invariant.                                       *)

RequestType == [status: {"absent", "open", "approved", "denied", "redeemed", "cleared"},
                by: Users \cup {Nobody}, expired: BOOLEAN]
CallType == [step: {"none", "sent", "missed", "found", "revoking", "granted"},
             token: Tokens \cup {NoToken}, answer: Tokens \cup {NoToken}, seen: SUBSET Tokens]

(* A step on the requests alone.                                           *)
LEMMA RequestKeeps ==
    ASSUME LinkInv, UNCHANGED <<instance, others>>, request' \in [Requests -> RequestType],
           LinkedByApproval', RequestsSound'
    PROVE  LinkInv'
<1>1. TokensSound'
  BY QuietKeeps DEF LinkInv, TokensSound, others
<1>2. TypeOK' /\ CallsHaveTokens'
  BY DEF LinkInv, TypeOK, CallsHaveTokens, others, RequestType, Issued
<1> QED
  BY <1>1, <1>2 DEF LinkInv, TokensSound

LEMMA StartInv ==
    ASSUME LinkInv, NEW r \in Requests, NEW swept \in SUBSET Requests, Start(r, swept)
    PROVE  LinkInv'
<1> DEFINE left == [q \in Requests |-> IF q \in swept THEN Swept(q) ELSE request[q]]
<1>1. left[r].status = "absent" /\ request' = [left EXCEPT ![r].status = "open"]
      /\ UNCHANGED <<instance, others>>
  BY DEF Start
<1>2. \A q \in Requests : Swept(q) \in RequestType
         /\ Swept(q).status = (IF request[q].status = "redeemed" THEN "cleared" ELSE "absent")
         /\ ~Swept(q).expired
  BY DEF Swept, NoRequest, RequestType
<1>3. request \in [Requests -> RequestType]
  BY DEF LinkInv, TypeOK, RequestType
<1>4. left \in [Requests -> RequestType]
  BY <1>2, <1>3
<1>5. \A q \in Requests :
        /\ left[q].status = "redeemed" => left[q] = request[q]
        /\ left[q].status \in {"redeemed", "cleared"} <=>
             request[q].status \in {"redeemed", "cleared"} /\ ~(q \in swept /\ request[q].status = "cleared")
  BY <1>2
<1>6. \A q \in swept : request[q].status # "cleared"
  BY DEF Start, LinkInv, RequestsSound
<1> HIDE DEF left
<1>7. request' \in [Requests -> RequestType] /\ request'[r].status = "open"
      /\ \A q \in Requests : q # r => request'[q] = left[q]
  BY <1>1, <1>4 DEF RequestType
<1>8. LinkedByApproval'
  BY <1>1, <1>5, <1>6, <1>7 DEF LinkInv, LinkedByApproval, others
<1>9. RequestsSound'
  BY <1>2, <1>7 DEF LinkInv, RequestsSound, left
<1> QED
  BY <1>1, <1>7, <1>8, <1>9, RequestKeeps

LEMMA DecideInv ==
    ASSUME LinkInv, NEW r \in Requests, NEW u \in Users, NEW verdict \in {"approved", "denied"},
           Decide(r, u, verdict)
    PROVE  LinkInv'
<1>1. /\ request[r].status = "open" /\ UNCHANGED <<instance, others>>
      /\ request' = [request EXCEPT ![r].status = verdict, ![r].by = u]
  BY DEF Decide, Decidable
<1>2. request' \in [Requests -> RequestType] /\ request'[r].status = verdict /\ request'[r].by = u
      /\ \A q \in Requests : q # r => request'[q] = request[q]
  <2> DEFINE new == [request[r] EXCEPT !.status = verdict, !.by = u]
  <2>1. request \in [Requests -> RequestType] /\ request[r] \in RequestType
    BY DEF LinkInv, TypeOK, RequestType
  <2>2. new \in RequestType /\ new.status = verdict /\ new.by = u
    BY <2>1 DEF RequestType
  <2>3. request' = [request EXCEPT ![r] = new]
    BY <1>1, <2>1
  <2> HIDE DEF new
  <2> QED
    BY <2>1, <2>2, <2>3
<1>3. LinkedByApproval' /\ RequestsSound'
  BY <1>1, <1>2 DEF LinkInv, LinkedByApproval, RequestsSound
<1> QED
  BY <1>1, <1>2, <1>3, RequestKeeps

LEMMA RequestExpiresInv ==
    ASSUME LinkInv, NEW r \in Requests, RequestExpires(r)
    PROVE  LinkInv'
<1>1. /\ request[r].status # "cleared" /\ UNCHANGED <<instance, others>>
      /\ request' = [request EXCEPT ![r].expired = TRUE]
  BY DEF RequestExpires
<1>2. request' \in [Requests -> RequestType]
      /\ \A q \in Requests : /\ request'[q].status = request[q].status
                             /\ request'[q].by = request[q].by
                             /\ q # r => request'[q] = request[q]
  <2> DEFINE new == [request[r] EXCEPT !.expired = TRUE]
  <2>1. request \in [Requests -> RequestType] /\ request[r] \in RequestType
    BY DEF LinkInv, TypeOK, RequestType
  <2>2. new \in RequestType /\ new.status = request[r].status /\ new.by = request[r].by
    BY <2>1 DEF RequestType
  <2>3. request' = [request EXCEPT ![r] = new]
    BY <1>1, <2>1
  <2> HIDE DEF new
  <2> QED
    BY <2>1, <2>2, <2>3
<1>3. LinkedByApproval' /\ RequestsSound'
  BY <1>1, <1>2 DEF LinkInv, LinkedByApproval, RequestsSound
<1> QED
  BY <1>1, <1>2, <1>3, RequestKeeps

(* Poll, Exchange.  An approved request has no instance, and so no token.  *)
LEMMA RedeemInv ==
    ASSUME LinkInv, NEW r \in Requests, NEW t \in Tokens, Redeem(r, t)
    PROVE  LinkInv'
<1> DEFINE new == [state |-> "live", owner |-> request[r].by, refresh |-> t]
<1>1. /\ request[r].status = "approved" /\ t \notin Issued
      /\ request' = [request EXCEPT ![r].status = "redeemed"]
      /\ instance' = [instance EXCEPT ![r] = new]
      /\ Grants(r, t, NoToken)
      /\ UNCHANGED <<history, forgotten, idle, revoking, cause, call>>
  BY DEF Redeem, IsNext
<1>2. instance[r].state = "none"
  BY <1>1 DEF LinkInv, LinkedByApproval, TypeOK
<1>3. request[r].by \in Users
  BY <1>1 DEF LinkInv, RequestsSound
<1>4. request' \in [Requests -> RequestType] /\ request'[r].status = "redeemed"
      /\ request'[r].by = request[r].by
      /\ \A q \in Requests : q # r => request'[q] = request[q]
  <2>1. request \in [Requests -> RequestType]
    BY DEF LinkInv, TypeOK, RequestType
  <2>2. request[r] \in RequestType /\ request' = [request EXCEPT ![r] = [request[r] EXCEPT !.status = "redeemed"]]
    BY <1>1, <2>1
  <2>3. [request[r] EXCEPT !.status = "redeemed"] \in RequestType
        /\ [request[r] EXCEPT !.status = "redeemed"].status = "redeemed"
        /\ [request[r] EXCEPT !.status = "redeemed"].by = request[r].by
    BY <2>2 DEF RequestType
  <2> QED
    BY <2>1, <2>2, <2>3
<1>5. new \in [state: {"none", "live", "revoked"}, owner: Users \cup {Nobody},
                refresh: Tokens \cup {NoToken}]
      /\ new.state = "live" /\ new.owner = request[r].by /\ new.refresh = t
  BY <1>3
<1> HIDE DEF new
<1>6. /\ instance' \in [Requests -> [state: {"none", "live", "revoked"},
                           owner: Users \cup {Nobody}, refresh: Tokens \cup {NoToken}]]
      /\ instance'[r] = new /\ \A q \in Requests : q # r => instance'[q] = instance[q]
  BY <1>1, <1>5 DEF LinkInv, TypeOK
<1>7. /\ grantedTo' = [grantedTo EXCEPT ![t] = r] /\ parent' = [parent EXCEPT ![t] = NoToken]
      /\ access' = access \cup {t}
  BY <1>1 DEF Grants
<1>8. TokensSound'
  BY <1>1, <1>2, <1>5, <1>6, <1>7, GrantKeeps DEF LinkInv, TokensSound
<1>9. LinkedByApproval' /\ RequestsSound'
  BY <1>2, <1>3, <1>4, <1>5, <1>6 DEF LinkInv, LinkedByApproval, RequestsSound
<1>10. /\ heard' \in [Requests -> SUBSET Tokens] /\ stopped' \subseteq Requests
       /\ careless' \subseteq Requests
  <2>1. heard \in [Requests -> SUBSET Tokens] /\ stopped \subseteq Requests
    BY DEF LinkInv, TypeOK
  <2>2. \/ heard' = [heard EXCEPT ![r] = {t}] /\ stopped' = stopped
        \/ heard' = heard /\ stopped' = stopped \cup {r}
    BY DEF Redeem
  <2>3. heard' \in [Requests -> SUBSET Tokens] /\ stopped' \subseteq Requests
    BY <2>1, <2>2
  <2>4. careless' \subseteq Requests
    BY DEF Redeem, LinkInv, TypeOK
  <2> QED
    BY <2>3, <2>4
<1>11. TypeOK'
  BY <1>1, <1>4, <1>6, <1>7, <1>10 DEF LinkInv, TypeOK, RequestType
<1>12. CallsHaveTokens'
  BY <1>1, <1>7 DEF LinkInv, TypeOK, CallsHaveTokens, Issued
<1> QED
  BY <1>8, <1>9, <1>11, <1>12 DEF LinkInv, TokensSound

(* The rest of the state, typed: what a step on it has to show.            *)
RestTyped ==
    /\ history \subseteq Tokens /\ forgotten \subseteq Tokens /\ access \subseteq Tokens
    /\ idle \subseteq Requests /\ stopped \subseteq Requests /\ careless \subseteq Requests
    /\ revoking \in [Requests -> [running: BOOLEAN, seen: SUBSET Tokens]]
    /\ cause \in [Requests -> {"none", "creator", "inactive", "reuse"}]
    /\ heard \in [Requests -> SUBSET Tokens]
    /\ call \in [Calls -> CallType]

LEMMA RestIsTyped == LinkInv => RestTyped
BY DEF LinkInv, TypeOK, RestTyped, CallType

(* A step that leaves requests, instances and grants alone.                *)
LEMMA RestKeeps ==
    ASSUME LinkInv, UNCHANGED <<request, instance, grantedTo, parent>>,
           history \cup forgotten \subseteq history' \cup forgotten',
           RestTyped', CallsHaveTokens'
    PROVE  LinkInv'
<1>1. TokensSound'
  BY QuietKeeps DEF LinkInv, TokensSound
<1>2. TypeOK'
  BY DEF LinkInv, TypeOK, RestTyped, CallType
<1>3. LinkedByApproval' /\ RequestsSound'
  BY DEF LinkInv, LinkedByApproval, RequestsSound
<1> QED
  BY <1>1, <1>2, <1>3 DEF LinkInv, TokensSound

(* One handler moves on.                                                   *)
LEMMA CallMoves ==
    ASSUME LinkInv, NEW c \in Calls, NEW new \in CallType,
           call' = [call EXCEPT ![c] = new], UNCHANGED grantedTo,
           new.step # "granted", new.step = "none" \/ new.token \in Issued
    PROVE  call' \in [Calls -> CallType] /\ CallsHaveTokens'
<1>1. call \in [Calls -> CallType]
  BY RestIsTyped DEF RestTyped
<1>2. Issued' = Issued
  BY DEF Issued
<1> QED
  BY <1>1, <1>2 DEF LinkInv, CallsHaveTokens

(* A handler that is done: its token had been issued to a request.         *)
LEMMA RefusedMoves ==
    ASSUME LinkInv, NEW c \in Calls, call[c].step # "none", Refused(c), UNCHANGED grantedTo
    PROVE  /\ call' \in [Calls -> CallType] /\ CallsHaveTokens' /\ stopped' \subseteq Requests
           /\ Of(call[c].token) \in Requests
<1>1. NoCall \in CallType /\ NoCall.step = "none"
  BY DEF NoCall, CallType
<1>2. Of(call[c].token) \in Requests
  BY DEF LinkInv, CallsHaveTokens, Issued, Of, TypeOK
<1>3. call' \in [Calls -> CallType] /\ CallsHaveTokens'
  BY <1>1, CallMoves DEF Refused
<1> QED
  BY <1>2, <1>3 DEF Refused, LinkInv, TypeOK

LEMMA SendInv ==
    ASSUME LinkInv, NEW c \in Calls, NEW t \in Tokens, Send(c, t)
    PROVE  LinkInv'
<1> DEFINE new == [NoCall EXCEPT !.step = "sent", !.token = t]
<1>1. call' = [call EXCEPT ![c] = new] /\ t \in Issued
      /\ UNCHANGED <<tables, revoking, cause, heard, stopped>>
  BY DEF Send
<1>2. new \in CallType /\ new.token = t /\ new.step = "sent"
  BY DEF NoCall, CallType
<1> HIDE DEF new
<1>3. call' \in [Calls -> CallType] /\ CallsHaveTokens'
  BY <1>1, <1>2, CallMoves DEF tables
<1>4. careless' \subseteq Requests
  BY <1>1 DEF Send, LinkInv, TypeOK, Issued, Of
<1> QED
  BY <1>1, <1>3, <1>4, RestIsTyped, RestKeeps DEF RestTyped, tables

LEMMA MissInv ==
    ASSUME LinkInv, NEW c \in Calls, Miss(c) \/ ReuseStarts(c)
    PROVE  LinkInv'
<1>1. call \in [Calls -> CallType] /\ call[c] \in CallType /\ AccessOf(Of(call[c].token)) \subseteq Tokens
  BY RestIsTyped DEF RestTyped, AccessOf
<1>2. PICK new \in CallType : call' = [call EXCEPT ![c] = new] /\ new.token = call[c].token
                             /\ new.step # "granted"
  <2>1. CASE Miss(c)
    <3> DEFINE new == [call[c] EXCEPT !.step = "missed"]
    <3>1. call' = [call EXCEPT ![c] = new]
      BY <1>1, <2>1 DEF Miss
    <3>2. new \in CallType /\ new.token = call[c].token /\ new.step # "granted"
      BY <1>1 DEF CallType
    <3> QED
      BY <3>1, <3>2
  <2>2. CASE ReuseStarts(c)
    <3> DEFINE new == [call[c] EXCEPT !.step = "revoking", !.seen = AccessOf(Of(call[c].token))]
    <3>1. call' = [call EXCEPT ![c] = new]
      BY <1>1, <2>2 DEF ReuseStarts
    <3>2. new \in CallType /\ new.token = call[c].token /\ new.step # "granted"
      BY <1>1 DEF CallType
    <3> QED
      BY <3>1, <3>2
  <2> QED
    BY <2>1, <2>2
<1>3. UNCHANGED <<tables, revoking, cause, heard, stopped, careless>> /\ call[c].token \in Issued
  BY DEF Miss, ReuseStarts, LinkInv, CallsHaveTokens
<1>4. call' \in [Calls -> CallType] /\ CallsHaveTokens'
  BY <1>2, <1>3, CallMoves DEF tables
<1> QED
  BY <1>3, <1>4, RestIsTyped, RestKeeps DEF RestTyped, tables

LEMMA ReadHistoryInv ==
    ASSUME LinkInv, NEW c \in Calls, ReadHistory(c)
    PROVE  LinkInv'
<1>1. UNCHANGED <<tables, revoking, cause, heard, careless>> /\ call[c].step # "none"
      /\ call[c].token \in Issued /\ call[c] \in CallType /\ call \in [Calls -> CallType]
  BY RestIsTyped DEF ReadHistory, LinkInv, CallsHaveTokens, RestTyped
<1>2. call' \in [Calls -> CallType] /\ CallsHaveTokens' /\ stopped' \subseteq Requests
  <2>1. CASE call[c].token \in history
    <3> DEFINE new == [call[c] EXCEPT !.step = "found"]
    <3>1. call' = [call EXCEPT ![c] = new] /\ stopped' = stopped
      BY <1>1, <2>1 DEF ReadHistory
    <3>2. new \in CallType /\ new.token = call[c].token /\ new.step # "granted"
      BY <1>1 DEF CallType
    <3> HIDE DEF new
    <3> QED
      BY <1>1, <3>1, <3>2, CallMoves, RestIsTyped DEF tables, RestTyped
  <2>2. CASE call[c].token \notin history
    BY <1>1, <2>2, RefusedMoves DEF ReadHistory, tables
  <2> QED
    BY <2>1, <2>2
<1> QED
  BY <1>1, <1>2, RestIsTyped, RestKeeps DEF RestTyped, tables

LEMMA HearInv ==
    ASSUME LinkInv, NEW c \in Calls, Hear(c)
    PROVE  LinkInv'
<1>1. UNCHANGED <<tables, revoking, cause, stopped, careless>> /\ call' = [call EXCEPT ![c] = NoCall]
      /\ call[c].step = "granted"
  BY DEF Hear
<1>2. NoCall \in CallType /\ NoCall.step = "none"
  BY DEF NoCall, CallType
<1>3. call' \in [Calls -> CallType] /\ CallsHaveTokens'
  BY <1>1, <1>2, CallMoves DEF tables
<1>4. heard' \in [Requests -> SUBSET Tokens]
  <2>1. Of(call[c].token) \in Requests /\ heard \in [Requests -> SUBSET Tokens]
    BY <1>1 DEF LinkInv, CallsHaveTokens, Issued, Of, TypeOK
  <2>2. call[c].answer \in Tokens
    BY <1>1 DEF LinkInv, CallsHaveTokens
  <2> QED
    BY <2>1, <2>2 DEF Hear
<1> QED
  BY <1>1, <1>3, <1>4, RestIsTyped, RestKeeps DEF RestTyped, tables

LEMMA CallLostInv ==
    ASSUME LinkInv, NEW c \in Calls, CallLost(c)
    PROVE  LinkInv'
<1>1. UNCHANGED <<tables, revoking, cause, heard, careless>> /\ call[c].step # "none" /\ Refused(c)
  BY DEF CallLost
<1>2. call' \in [Calls -> CallType] /\ CallsHaveTokens' /\ stopped' \subseteq Requests
  BY <1>1, RefusedMoves DEF tables
<1> QED
  BY <1>1, <1>2, RestIsTyped, RestKeeps DEF RestTyped, tables

(* Revoke takes its snapshot; the instance is used; time passes.           *)
LEMMA TimeInv ==
    ASSUME LinkInv,
           \/ \E r \in Requests : RevokeStarts(r) \/ GoesIdle(r)
           \/ \E t \in Tokens : Authenticate(t) \/ AccessExpires(t) \/ Forget(t)
    PROVE  LinkInv'
<1>1. UNCHANGED <<request, instance, grantedTo, parent, cause, heard, stopped, careless, call>>
  BY DEF RevokeStarts, GoesIdle, Authenticate, AccessExpires, Forget, tables
<1>2. history \cup forgotten \subseteq history' \cup forgotten'
  BY DEF RevokeStarts, GoesIdle, Authenticate, AccessExpires, Forget, tables
<1>3. /\ history' \subseteq Tokens /\ forgotten' \subseteq Tokens /\ access' \subseteq Tokens
      /\ idle' \subseteq Requests
  BY RestIsTyped DEF RestTyped, RevokeStarts, GoesIdle, Authenticate, AccessExpires, Forget, tables
<1>4. revoking' \in [Requests -> [running: BOOLEAN, seen: SUBSET Tokens]]
  <2>1. ASSUME NEW r \in Requests, RevokeStarts(r)
        PROVE  revoking' \in [Requests -> [running: BOOLEAN, seen: SUBSET Tokens]]
    <3>1. AccessOf(r) \in SUBSET Tokens
      BY RestIsTyped DEF RestTyped, AccessOf
    <3>2. [running |-> TRUE, seen |-> AccessOf(r)] \in [running: BOOLEAN, seen: SUBSET Tokens]
      BY <3>1
    <3> QED
      BY <2>1, <3>2, RestIsTyped DEF RestTyped, RevokeStarts
  <2> QED
    BY <2>1, RestIsTyped DEF RestTyped, GoesIdle, Authenticate, AccessExpires, Forget
<1>5. CallsHaveTokens'
  BY <1>1 DEF LinkInv, CallsHaveTokens, Issued
<1> QED
  BY <1>1, <1>2, <1>3, <1>4, <1>5, RestIsTyped, RestKeeps DEF RestTyped

(* The row lock makes the rotation one step: the token was current, so it  *)
(* was nobody's parent yet.                                                *)
LEMMA RotateInv ==
    ASSUME LinkInv, NEW c \in Calls, NEW n \in Tokens, Rotate(c, n)
    PROVE  LinkInv'
<1> DEFINE t == call[c].token
           r == Of(t)
           new == [instance[r] EXCEPT !.refresh = n]
           job == [call[c] EXCEPT !.step = "granted", !.answer = n]
<1>1. t \in Issued /\ r \in Requests /\ t \in Tokens
  BY DEF Rotate, LinkInv, CallsHaveTokens, Issued, Of, TypeOK
<1>2. /\ instance[r].state = "live" /\ instance[r].refresh = t /\ n \notin Issued
      /\ history' = history \cup {t} /\ Grants(r, n, t)
      /\ UNCHANGED <<request, forgotten, idle, revoking, cause, heard, stopped, careless>>
  BY DEF Rotate, IsCurrent, IsNext
<1>3. /\ instance' = [instance EXCEPT ![r] = new] /\ call' = [call EXCEPT ![c] = job]
  BY <1>1, RestIsTyped DEF Rotate, LinkInv, TypeOK, RestTyped
<1>4. /\ grantedTo' = [grantedTo EXCEPT ![n] = r] /\ parent' = [parent EXCEPT ![n] = t]
      /\ access' = access \cup {n}
  BY <1>2 DEF Grants
<1>5. /\ new \in [state: {"none", "live", "revoked"}, owner: Users \cup {Nobody},
                  refresh: Tokens \cup {NoToken}]
      /\ new.state = "live" /\ new.owner = instance[r].owner /\ new.refresh = n
  <2>1. instance[r] \in [state: {"none", "live", "revoked"}, owner: Users \cup {Nobody},
                          refresh: Tokens \cup {NoToken}]
    BY <1>1 DEF LinkInv, TypeOK
  <2> QED
    BY <1>2, <2>1
<1>6. job \in CallType /\ job.token = t /\ job.answer = n /\ job.step = "granted"
  BY RestIsTyped DEF RestTyped, CallType
<1> HIDE DEF new, job, r, t
<1>7. /\ instance' \in [Requests -> [state: {"none", "live", "revoked"},
                           owner: Users \cup {Nobody}, refresh: Tokens \cup {NoToken}]]
      /\ instance'[r] = new /\ \A q \in Requests : q # r => instance'[q] = instance[q]
  BY <1>1, <1>3, <1>5 DEF LinkInv, TypeOK
<1>8. TokensSound'
  BY <1>1, <1>2, <1>4, <1>5, <1>7, GrantKeeps DEF LinkInv, TokensSound
<1>9. LinkedByApproval' /\ RequestsSound'
  BY <1>1, <1>2, <1>5, <1>7 DEF LinkInv, LinkedByApproval, RequestsSound
<1>10. Issued \subseteq Issued'
  BY <1>1, <1>4, LinkingAssumption DEF LinkInv, TypeOK, Issued
<1>11. call' \in [Calls -> CallType] /\ CallsHaveTokens'
  <2>1. call \in [Calls -> CallType]
    BY RestIsTyped DEF RestTyped
  <2>2. call'[c] = job /\ \A d \in Calls : d # c => call'[d] = call[d]
    BY <1>3, <2>1
  <2> QED
    BY <1>1, <1>3, <1>6, <1>10, <2>1, <2>2 DEF LinkInv, CallsHaveTokens
<1>12. TypeOK'
  BY <1>1, <1>2, <1>4, <1>7, <1>11 DEF LinkInv, TypeOK, CallType
<1> QED
  BY <1>8, <1>9, <1>11, <1>12 DEF LinkInv, TokensSound

(* Revocation, by whichever of the three statements.                       *)
LEMMA RevocationInv ==
    ASSUME LinkInv, NEW r \in Requests, NEW seen, NEW why \in {"creator", "inactive", "reuse"},
           Revoked(r, seen, why),
           UNCHANGED <<request, grantedTo, parent, history, forgotten, idle, heard, careless>>,
           stopped' \subseteq Requests, call' \in [Calls -> CallType], CallsHaveTokens',
           revoking' \in [Requests -> [running: BOOLEAN, seen: SUBSET Tokens]]
    PROVE  LinkInv'
<1>1. TypeOK
  BY DEF LinkInv
<1>2. /\ instance' \in [Requests -> [state: {"none", "live", "revoked"},
                               owner: Users \cup {Nobody}, refresh: Tokens \cup {NoToken}]]
      /\ access' \subseteq Tokens
      /\ cause' \in [Requests -> {"none", "creator", "inactive", "reuse"}]
      /\ \A q \in Requests : instance'[q].owner = instance[q].owner
      /\ \A q \in Requests :
           \/ instance'[q] = instance[q]
           \/ instance[q].state = "live" /\ instance'[q].state = "revoked"
              /\ instance'[q].refresh = NoToken
  BY <1>1, RevokedEffect
<1>3. TokensSound'
  BY <1>1, <1>2, RevokedKeeps DEF LinkInv, TokensSound
<1>4. LinkedByApproval' /\ RequestsSound'
  BY <1>2 DEF LinkInv, LinkedByApproval, RequestsSound
<1>5. TypeOK'
  BY <1>1, <1>2 DEF TypeOK, CallType
<1> QED
  BY <1>3, <1>4, <1>5 DEF LinkInv, TokensSound

LEMMA RefusedRevocationInv ==
    ASSUME LinkInv, NEW c \in Calls, RevokeInactive(c) \/ ReuseCommits(c)
    PROVE  LinkInv'
<1>1. call[c].step # "none" /\ Refused(c)
      /\ UNCHANGED <<request, grantedTo, parent, history, forgotten, idle, revoking, heard, careless>>
      /\ \E seen, why : why \in {"inactive", "reuse"} /\ Revoked(Of(call[c].token), seen, why)
  BY DEF RevokeInactive, ReuseCommits
<1>2. /\ call' \in [Calls -> CallType] /\ CallsHaveTokens' /\ stopped' \subseteq Requests
      /\ Of(call[c].token) \in Requests
  BY <1>1, RefusedMoves
<1>3. revoking' \in [Requests -> [running: BOOLEAN, seen: SUBSET Tokens]]
  BY <1>1, RestIsTyped DEF RestTyped
<1> QED
  BY <1>1, <1>2, <1>3, RevocationInv

LEMMA RevokeCommitsInv ==
    ASSUME LinkInv, NEW r \in Requests, RevokeCommits(r)
    PROVE  LinkInv'
<1>1. Revoked(r, revoking[r].seen, "creator") /\ revoking' = [revoking EXCEPT ![r] = NotRevoking]
      /\ UNCHANGED <<request, grantedTo, parent, history, forgotten, idle, heard, stopped, careless, call>>
  BY DEF RevokeCommits
<1>2. NotRevoking \in [running: BOOLEAN, seen: SUBSET Tokens]
  BY DEF NotRevoking
<1>3. revoking' \in [Requests -> [running: BOOLEAN, seen: SUBSET Tokens]]
  BY <1>1, <1>2, RestIsTyped DEF RestTyped
<1>4. call' \in [Calls -> CallType] /\ stopped' \subseteq Requests
  BY <1>1, RestIsTyped DEF RestTyped
<1>5. CallsHaveTokens'
  BY <1>1 DEF LinkInv, CallsHaveTokens, Issued
<1> QED
  BY <1>1, <1>3, <1>4, <1>5, RevocationInv

LEMMA NextInv == LinkInv /\ [Next]_vars => LinkInv'
<1> SUFFICES ASSUME LinkInv, [Next]_vars PROVE LinkInv'
  OBVIOUS
<1>1. CASE UNCHANGED vars
  <2>1. CallsHaveTokens'
    BY <1>1 DEF vars, tables, LinkInv, CallsHaveTokens, Issued
  <2> QED
    BY <1>1, <2>1, RestIsTyped, RestKeeps DEF vars, tables, RestTyped
<1>2. ASSUME NEW r \in Requests, NEW swept \in SUBSET Requests, Start(r, swept) PROVE LinkInv'
  BY <1>2, StartInv
<1>3. ASSUME NEW r \in Requests, NEW u \in Users, NEW verdict \in {"approved", "denied"},
             Decide(r, u, verdict)
      PROVE  LinkInv'
  BY <1>3, DecideInv
<1>4. ASSUME NEW r \in Requests, NEW t \in Tokens, Redeem(r, t) PROVE LinkInv'
  BY <1>4, RedeemInv
<1>5. ASSUME NEW r \in Requests,
             RequestExpires(r) \/ RevokeStarts(r) \/ RevokeCommits(r) \/ GoesIdle(r)
      PROVE  LinkInv'
  BY <1>5, RequestExpiresInv, TimeInv, RevokeCommitsInv
<1>6. ASSUME NEW c \in Calls, NEW t \in Tokens, Send(c, t) \/ Rotate(c, t) PROVE LinkInv'
  BY <1>6, SendInv, RotateInv
<1>7. ASSUME NEW c \in Calls,
             \/ RevokeInactive(c) \/ Miss(c) \/ ReadHistory(c)
             \/ ReuseStarts(c) \/ ReuseCommits(c) \/ Hear(c) \/ CallLost(c)
      PROVE  LinkInv'
  BY <1>7, RefusedRevocationInv, MissInv, ReadHistoryInv, HearInv, CallLostInv
<1>8. ASSUME NEW t \in Tokens, Authenticate(t) \/ AccessExpires(t) \/ Forget(t) PROVE LinkInv'
  BY <1>8, TimeInv
<1> QED
  BY <1>1, <1>2, <1>3, <1>4, <1>5, <1>6, <1>7, <1>8 DEF Next

LEMMA AlwaysInv == Spec => []LinkInv
BY InitInv, NextInv, PTL DEF Spec

-----------------------------------------------------------------------------
(* The tables are well typed, and an instance stands for one redeemed      *)
(* request and belongs to the creator who approved it.                     *)
THEOREM LinksAreApproved == Spec => [](TypeOK /\ LinkedByApproval)
<1>1. LinkInv => TypeOK /\ LinkedByApproval
  BY DEF LinkInv
<1> QED
  BY AlwaysInv, <1>1, PTL

(* Refresh trades a token for one pair at most, however many handlers      *)
(* present it at once.                                                     *)
THEOREM TradedOnce == Spec => []SpentOnce
<1>1. LinkInv => SpentOnce
  BY DEF LinkInv
<1> QED
  BY AlwaysInv, <1>1, PTL

(* Of a live instance's tokens all but the current one are in the refresh  *)
(* history until their window has passed, so a replay is seen.             *)
THEOREM ReplaysAreSeen == Spec => []SpentIsRemembered
<1>1. LinkInv => SpentIsRemembered
  BY DEF LinkInv
<1> QED
  BY AlwaysInv, <1>1, PTL

(* What was revoked stays so: no Refresh, Poll or Exchange under way       *)
(* brings it back, and no access token left behind opens it.               *)
THEOREM RevocationIsFinal == Spec => RevokedIsOver
<1> DEFINE Over == \A r \in Requests : instance[r].state = "revoked" =>
                      instance'[r].state = "revoked" /\ instance'[r].refresh = NoToken
                      /\ \A t \in Tokens : ~Authenticates(t)' \/ grantedTo'[t] # r
<1>1. LinkInv /\ LinkInv' /\ [Next]_vars => [Over]_vars
  <2> SUFFICES ASSUME LinkInv, LinkInv', Next, NEW r \in Requests, instance[r].state = "revoked"
               PROVE  instance'[r].state = "revoked"
    BY DEF LinkInv, CurrentIsOwn, Authenticates, Of
  <2>1. request[r].status # "approved"
    BY DEF LinkInv, LinkedByApproval
  <2>2. ASSUME NEW q \in Requests, NEW t \in Tokens, Redeem(q, t)
        PROVE  instance'[r] = instance[r]
    BY <2>1, <2>2 DEF Redeem, LinkInv, TypeOK
  <2>3. ASSUME NEW c \in Calls, NEW n \in Tokens, Rotate(c, n)
        PROVE  instance'[r] = instance[r]
    BY <2>3 DEF Rotate, IsCurrent, LinkInv, TypeOK
  <2>4. ASSUME NEW q \in Requests, NEW seen, NEW why \in {"creator", "inactive", "reuse"},
               Revoked(q, seen, why)
        PROVE  instance'[r] = instance[r]
    BY <2>4, RevokedEffect DEF LinkInv
  <2>5. ASSUME NEW c \in Calls, RevokeInactive(c) \/ ReuseCommits(c)
        PROVE  instance'[r] = instance[r]
    <3>1. Of(call[c].token) \in Requests
      BY <2>5, RefusedMoves DEF RevokeInactive, ReuseCommits
    <3> QED
      BY <2>4, <2>5, <3>1 DEF RevokeInactive, ReuseCommits
  <2>6. ASSUME NEW q \in Requests, RevokeCommits(q)
        PROVE  instance'[r] = instance[r]
    BY <2>4, <2>6 DEF RevokeCommits
  <2>7. ASSUME instance' = instance PROVE instance'[r] = instance[r]
    BY <2>7
  <2> QED
    BY <2>2, <2>3, <2>5, <2>6, <2>7
       DEF Next, Start, Decide, RequestExpires, RevokeStarts, GoesIdle, Send, Miss, ReadHistory,
           ReuseStarts, Hear, CallLost, Authenticate, AccessExpires, Forget, tables
<1> QED
  BY AlwaysInv, <1>1, PTL DEF Spec, RevokedIsOver

(* The tables of links stay sound: each instance its approver's, each      *)
(* token issued to it current or known as spent.                           *)
THEOREM LinksStaySound == Spec => []LinkSound
BY LinksAreApproved, ReplaysAreSeen, PTL DEF LinkSound

-----------------------------------------------------------------------------
(* An installation that refreshes as it is advised.  It has one call under *)
(* way at most, with the token that is current unless the instance is      *)
(* revoked already, and between calls the newest token it heard of is the  *)
(* current one.  Once an answer is lost it is among the stopped and has no *)
(* call.                                                                   *)
Careful(r) ==
    /\ cause[r] # "reuse"
    /\ \A c, d \in InFlight(r) : c = d
    /\ \A c \in InFlight(r) :
         /\ r \notin stopped
         /\ instance[r].state = "live" =>
              /\ call[c].step \in {"sent", "granted"}
              /\ call[c].step = "sent" => call[c].token = instance[r].refresh
              /\ call[c].step = "granted" => call[c].answer = instance[r].refresh
                                             /\ \A s \in heard[r] : s <= call[c].answer
    /\ InFlight(r) = {} /\ r \notin stopped /\ instance[r].state = "live" =>
         instance[r].refresh \in heard[r] /\ \A s \in heard[r] : s <= instance[r].refresh

(* Tokens are issued in order, and nobody hears of one before it is.       *)
HeardInOrder ==
    /\ \A t \in Issued : 1..(t - 1) \subseteq Issued
    /\ \A r \in Requests : heard[r] \subseteq Issued
    /\ \A c \in Calls : call[c].step = "granted" => call[c].answer \in Issued

CarefulInv == HeardInOrder /\ \A r \in Requests \ careless : Careful(r)

(* A new token is newer than any that was issued.                          *)
LEMMA NextIsNewest ==
    ASSUME HeardInOrder, NEW n, IsNext(n), NEW t \in Issued
    PROVE  t < n
BY DEF HeardInOrder, IsNext, Issued, Tokens

LEMMA StaysCareful ==
    ASSUME NEW q \in Requests, Careful(q), InFlight(q)' = InFlight(q),
           \A c \in InFlight(q) : call'[c] = call[c],
           instance'[q] = instance[q] \/ instance'[q].state # "live",
           cause'[q] = cause[q] \/ cause'[q] # "reuse",
           heard'[q] = heard[q], q \in stopped' <=> q \in stopped
    PROVE  Careful(q)'
BY DEF Careful

(* Steps that are not about calls.                                         *)
LEMMA QuietCareful ==
    ASSUME CarefulInv, UNCHANGED <<grantedTo, heard, stopped, careless, call>>,
           \A q \in Requests :
               /\ instance'[q] = instance[q] \/ instance'[q].state # "live"
               /\ cause'[q] = cause[q] \/ cause'[q] # "reuse"
    PROVE  CarefulInv'
<1>1. HeardInOrder'
  BY DEF CarefulInv, HeardInOrder, Issued
<1>2. ASSUME NEW q \in Requests \ careless PROVE Careful(q)'
  <2>1. InFlight(q)' = InFlight(q)
    BY DEF InFlight, Of
  <2> QED
    BY <2>1, StaysCareful DEF CarefulInv
<1> QED
  BY <1>1, <1>2 DEF CarefulInv

(* A step of the call c, which is one of the instance r.                   *)
LEMMA CallCareful ==
    ASSUME LinkInv, CarefulInv, NEW c \in Calls, call[c].step # "none",
           NEW r \in Requests, r = Of(call[c].token),
           HeardInOrder', call'[c].step = "none" \/ call'[c].token = call[c].token,
           \A d \in Calls : /\ d # c => call'[d] = call[d]
                            /\ call[d].step # "none" => grantedTo'[call[d].token] = Of(call[d].token),
           careless' = careless,
           \A q \in Requests : q # r =>
               /\ instance'[q] = instance[q] /\ cause'[q] = cause[q]
               /\ heard'[q] = heard[q] /\ (q \in stopped' <=> q \in stopped),
           r \notin careless => Careful(r)'
    PROVE  CarefulInv'
<1>1. ASSUME NEW q \in Requests, q # r
      PROVE  InFlight(q)' = InFlight(q) /\ \A d \in InFlight(q) : call'[d] = call[d]
  <2>1. ASSUME NEW d \in Calls
        PROVE  call[d].step # "none" /\ Of(call[d].token) = q <=>
                 call'[d].step # "none" /\ grantedTo'[call'[d].token] = q
    BY <1>1, <2>1 DEF Of
  <2>2. InFlight(q)' = InFlight(q)
    BY <2>1 DEF InFlight, Of
  <2>3. c \notin InFlight(q) /\ InFlight(q) \subseteq Calls
    BY <1>1 DEF InFlight
  <2> QED
    BY <2>2, <2>3
<1>2. ASSUME NEW q \in Requests \ careless, q # r PROVE Careful(q)'
  BY <1>1, <1>2, StaysCareful DEF CarefulInv
<1> QED
  BY <1>2 DEF CarefulInv

LEMMA CallOf ==
    ASSUME LinkInv, NEW c \in Calls, call[c].step # "none"
    PROVE  /\ call[c].token \in Issued /\ Of(call[c].token) \in Requests
           /\ c \in InFlight(Of(call[c].token))
BY DEF LinkInv, CallsHaveTokens, Issued, Of, TypeOK, InFlight

(* A handler that ends with nothing: the installation stops.               *)
LEMMA RefusedCareful ==
    ASSUME LinkInv, CarefulInv, NEW c \in Calls, call[c].step # "none", Refused(c),
           UNCHANGED <<grantedTo, heard, careless>>,
           \A q \in Requests : q # Of(call[c].token) =>
               instance'[q] = instance[q] /\ cause'[q] = cause[q],
           Of(call[c].token) \in careless \/ cause'[Of(call[c].token)] # "reuse"
    PROVE  CarefulInv'
<1>1. PICK r \in Requests : r = Of(call[c].token)
  BY CallOf
<1>2. /\ call'[c] = NoCall /\ \A d \in Calls : d # c => call'[d] = call[d]
      /\ stopped' = stopped \cup {r} /\ NoCall.step = "none"
  BY <1>1, RestIsTyped DEF Refused, RestTyped, NoCall
<1>3. HeardInOrder'
  BY <1>2 DEF CarefulInv, HeardInOrder, Issued
<1>4. ASSUME r \notin careless PROVE Careful(r)'
  <2>1. Careful(r) /\ c \in InFlight(r)
    BY <1>1, <1>4, CallOf DEF CarefulInv
  <2>2. InFlight(r)' = {}
    BY <1>2, <2>1 DEF Careful, InFlight, Of
  <2> QED
    BY <1>1, <1>2, <1>4, <2>2 DEF Careful
<1> QED
  BY <1>1, <1>2, <1>3, <1>4, CallCareful DEF Of

LEMMA RedeemCareful ==
    ASSUME LinkInv, CarefulInv, NEW r \in Requests, NEW t \in Tokens, Redeem(r, t)
    PROVE  CarefulInv'
<1>1. /\ request[r].status = "approved" /\ IsNext(t)
      /\ instance' = [instance EXCEPT ![r] =
                        [state |-> "live", owner |-> request[r].by, refresh |-> t]]
      /\ grantedTo' = [grantedTo EXCEPT ![t] = r]
      /\ \/ heard' = [heard EXCEPT ![r] = {t}] /\ stopped' = stopped
         \/ heard' = heard /\ stopped' = stopped \cup {r}
      /\ UNCHANGED <<cause, careless, call>>
  BY DEF Redeem, Grants
<1>2. instance[r].state = "none" /\ \A s \in Tokens : grantedTo[s] # r
  BY <1>1 DEF LinkInv, LinkedByApproval, CurrentIsOwn, TypeOK
<1>3. Issued' = Issued \cup {t} /\ t \notin Issued /\ 1..(t - 1) \subseteq Issued
      /\ \A s \in Issued : Of(s)' = Of(s)
  BY <1>1, LinkingAssumption DEF Issued, IsNext, LinkInv, TypeOK, Of
<1>4. HeardInOrder'
  BY <1>1, <1>3 DEF CarefulInv, HeardInOrder, LinkInv, TypeOK
<1>5. ASSUME NEW q \in Requests PROVE InFlight(q)' = InFlight(q)
  BY <1>1, <1>3 DEF InFlight, LinkInv, CallsHaveTokens
<1>6. InFlight(r) = {}
  BY <1>2 DEF InFlight, LinkInv, CallsHaveTokens, Issued, Of
<1>7. ASSUME NEW q \in Requests \ careless PROVE Careful(q)'
  <2>1. CASE q = r
    <3>1. instance'[r].refresh = t /\ instance'[r].state = "live"
      BY <1>1 DEF LinkInv, TypeOK
    <3>2. heard'[r] = {t} \/ r \in stopped'
      BY <1>1 DEF LinkInv, TypeOK
    <3> QED
      BY <1>1, <1>5, <1>6, <1>7, <2>1, <3>1, <3>2 DEF CarefulInv, Careful, Tokens
  <2>2. CASE q # r
    <3>1. instance'[q] = instance[q] /\ heard'[q] = heard[q] /\ (q \in stopped' <=> q \in stopped)
      BY <1>1, <2>2 DEF LinkInv, TypeOK
    <3> QED
      BY <1>1, <1>5, <1>7, <3>1, StaysCareful DEF CarefulInv
  <2> QED
    BY <2>1, <2>2
<1> QED
  BY <1>1, <1>4, <1>7 DEF CarefulInv

LEMMA SendCareful ==
    ASSUME LinkInv, CarefulInv, NEW c \in Calls, NEW t \in Tokens, Send(c, t)
    PROVE  CarefulInv'
<1>1. PICK r \in Requests : r = Of(t)
  BY DEF Send, Issued, Of, LinkInv, TypeOK
<1>2. /\ t \in heard[r] /\ call[c] = NoCall /\ NoCall.step = "none"
      /\ careless' = IF AsAdvised(r, t) THEN careless ELSE careless \cup {r}
      /\ UNCHANGED <<instance, grantedTo, cause, heard, stopped>>
  BY <1>1 DEF Send, tables, NoCall
<1>3. /\ call'[c].step = "sent" /\ call'[c].token = t
      /\ \A d \in Calls : d # c => call'[d] = call[d]
  BY RestIsTyped DEF Send, RestTyped, NoCall
<1>4. HeardInOrder'
  BY <1>2, <1>3 DEF CarefulInv, HeardInOrder, Issued
<1>5. ASSUME NEW q \in Requests \ careless', q # r PROVE Careful(q)'
  <2>1. c \notin InFlight(q) /\ InFlight(q)' = InFlight(q)
    BY <1>1, <1>2, <1>3, <1>5 DEF InFlight, Of
  <2>2. \A d \in InFlight(q) : call'[d] = call[d]
    BY <1>3, <2>1 DEF InFlight
  <2> QED
    BY <1>2, <1>5, <2>1, <2>2, StaysCareful DEF CarefulInv
<1>6. ASSUME r \notin careless' PROVE Careful(r)'
  <2>1. AsAdvised(r, t) /\ Careful(r) /\ r \notin careless
    BY <1>2, <1>6 DEF CarefulInv
  <2>2. r \notin stopped /\ InFlight(r) = {} /\ \A s \in heard[r] : s <= t
    BY <2>1 DEF AsAdvised
  <2>3. InFlight(r)' = {c}
    BY <1>1, <1>2, <1>3, <2>2 DEF InFlight, Of
  <2>4. instance[r].state = "live" => instance[r].refresh = t
    <3>1. instance[r].state = "live" => instance[r].refresh \in heard[r]
                                        /\ \A s \in heard[r] : s <= instance[r].refresh
      BY <2>1, <2>2 DEF Careful
    <3>2. \A s \in heard[r] : s \in Nat
      BY DEF LinkInv, TypeOK, Tokens
    <3> QED
      BY <1>2, <2>2, <3>1, <3>2
  <2> QED
    BY <1>2, <1>3, <2>1, <2>2, <2>3, <2>4 DEF Careful
<1> QED
  BY <1>4, <1>5, <1>6 DEF CarefulInv

LEMMA RotateCareful ==
    ASSUME LinkInv, CarefulInv, NEW c \in Calls, NEW n \in Tokens, Rotate(c, n)
    PROVE  CarefulInv'
<1>1. call[c].step = "sent"
  BY DEF Rotate
<1>2. PICK r \in Requests : r = Of(call[c].token)
  BY <1>1, CallOf
<1>3. /\ IsNext(n) /\ instance' = [instance EXCEPT ![r].refresh = n]
      /\ grantedTo' = [grantedTo EXCEPT ![n] = r]
      /\ UNCHANGED <<cause, heard, stopped, careless>>
      /\ call' = [call EXCEPT ![c].step = "granted", ![c].answer = n]
  BY <1>2 DEF Rotate, Grants
<1>4. Issued' = Issued \cup {n} /\ n \notin Issued /\ 1..(n - 1) \subseteq Issued
      /\ \A s \in Issued : Of(s)' = Of(s)
  BY <1>3, LinkingAssumption DEF Issued, IsNext, LinkInv, TypeOK, Of
<1>5. /\ call'[c].step = "granted" /\ call'[c].answer = n /\ call'[c].token = call[c].token
      /\ \A d \in Calls : d # c => call'[d] = call[d]
  BY <1>3, RestIsTyped DEF RestTyped, CallType
<1>6. HeardInOrder'
  <2>1. \A t \in Issued' : 1..(t - 1) \subseteq Issued'
    BY <1>4 DEF CarefulInv, HeardInOrder
  <2>2. \A q \in Requests : heard'[q] \subseteq Issued'
    BY <1>3, <1>4 DEF CarefulInv, HeardInOrder
  <2>3. \A d \in Calls : call'[d].step = "granted" => call'[d].answer \in Issued'
    BY <1>4, <1>5 DEF CarefulInv, HeardInOrder
  <2> QED
    BY <2>1, <2>2, <2>3 DEF HeardInOrder
<1>7. instance'[r].refresh = n /\ \A q \in Requests : q # r => instance'[q] = instance[q]
  BY <1>3 DEF LinkInv, TypeOK
<1>8. \A d \in Calls : call[d].step # "none" => call'[d].token = call[d].token
                                               /\ grantedTo'[call[d].token] = Of(call[d].token)
  <2>1. \A d \in Calls : call[d].step # "none" => call[d].token \in Issued
    BY CallOf
  <2> QED
    BY <1>4, <1>5, <2>1 DEF Of
<1>9. ASSUME r \notin careless PROVE Careful(r)'
  <2>1. Careful(r) /\ c \in InFlight(r) /\ r \notin stopped /\ \A d \in InFlight(r) : d = c
    BY <1>1, <1>2, <1>9, CallOf DEF CarefulInv, Careful
  <2>2. InFlight(r)' = {c}
    <3>1. \A d \in Calls : d # c => (d \in InFlight(r)' <=> d \in InFlight(r))
      BY <1>5, <1>8 DEF InFlight, Of
    <3>2. c \in InFlight(r)'
      BY <1>1, <1>2, <1>5, <1>8 DEF InFlight, Of
    <3> QED
      BY <2>1, <3>1, <3>2 DEF InFlight
  <2>3. \A s \in heard[r] : s <= n
    <3>1. heard[r] \subseteq Issued /\ Issued \subseteq Nat /\ n \in Nat
      BY DEF CarefulInv, HeardInOrder, Issued, Tokens
    <3> QED
      BY <1>3, <3>1, NextIsNewest DEF CarefulInv
  <2> QED
    BY <1>3, <1>5, <1>7, <2>1, <2>2, <2>3 DEF Careful
<1> QED
  BY <1>1, <1>2, <1>3, <1>5, <1>6, <1>7, <1>8, <1>9, CallCareful

(* The way of a spent token: a careful installation takes it only once its *)
(* instance is revoked.                                                    *)
LEMMA ReuseCareful ==
    ASSUME LinkInv, CarefulInv, NEW c \in Calls, call[c].step # "none",
           call[c].step # "granted", call'[c].token = call[c].token,
           call'[c].step \in {"missed", "found", "revoking"},
           \A d \in Calls : d # c => call'[d] = call[d],
           call[c].step = "sent" => ~IsCurrent(call[c].token),
           UNCHANGED <<instance, grantedTo, cause, heard, stopped, careless>>
    PROVE  CarefulInv'
<1>1. PICK r \in Requests : r = Of(call[c].token)
  BY CallOf
<1>2. HeardInOrder'
  BY DEF CarefulInv, HeardInOrder, Issued
<1>3. ASSUME r \notin careless PROVE Careful(r)'
  <2>1. Careful(r) /\ c \in InFlight(r) /\ r \notin stopped /\ \A d \in InFlight(r) : d = c
    BY <1>1, <1>3, CallOf DEF CarefulInv, Careful
  <2>2. instance[r].state # "live"
    BY <1>1, <2>1 DEF Careful, IsCurrent
  <2>3. InFlight(r)' = InFlight(r)
    BY DEF InFlight, Of
  <2> QED
    BY <2>1, <2>2, <2>3 DEF Careful
<1> QED
  BY <1>1, <1>2, <1>3, CallCareful DEF Of

LEMMA HearCareful ==
    ASSUME LinkInv, CarefulInv, NEW c \in Calls, Hear(c)
    PROVE  CarefulInv'
<1>1. call[c].step = "granted"
  BY DEF Hear
<1>2. PICK r \in Requests : r = Of(call[c].token)
  BY <1>1, CallOf
<1>3. /\ call'[c].step = "none" /\ \A d \in Calls : d # c => call'[d] = call[d]
      /\ heard'[r] = heard[r] \cup {call[c].answer}
      /\ \A q \in Requests : q # r => heard'[q] = heard[q]
      /\ UNCHANGED <<instance, grantedTo, cause, stopped, careless>>
  BY <1>2, RestIsTyped DEF Hear, RestTyped, tables, NoCall
<1>4. HeardInOrder'
  BY <1>1, <1>2, <1>3 DEF CarefulInv, HeardInOrder, Issued
<1>5. ASSUME r \notin careless PROVE Careful(r)'
  <2>1. Careful(r) /\ c \in InFlight(r) /\ r \notin stopped /\ \A d \in InFlight(r) : d = c
    BY <1>1, <1>2, <1>5, CallOf DEF CarefulInv, Careful
  <2>2. InFlight(r)' = {}
    BY <1>3, <2>1 DEF InFlight, Of
  <2>3. call[c].answer <= call[c].answer
    BY <1>1 DEF LinkInv, CallsHaveTokens, Tokens
  <2> QED
    BY <1>1, <1>3, <2>1, <2>2, <2>3 DEF Careful
<1> QED
  BY <1>1, <1>2, <1>3, <1>4, <1>5, CallCareful DEF Of

LEMMA NextCareful == LinkInv /\ CarefulInv /\ [Next]_vars => CarefulInv'
<1> SUFFICES ASSUME LinkInv, CarefulInv, [Next]_vars PROVE CarefulInv'
  OBVIOUS
<1>1. ASSUME UNCHANGED <<grantedTo, heard, stopped, careless, call, instance, cause>>
      PROVE  CarefulInv'
  BY <1>1, QuietCareful
<1>2. ASSUME NEW r \in Requests, RevokeCommits(r) PROVE CarefulInv'
  <2>1. Revoked(r, revoking[r].seen, "creator") /\ UNCHANGED <<grantedTo, heard, stopped, careless, call>>
    BY <1>2 DEF RevokeCommits
  <2>2. \A q \in Requests : instance'[q] = instance[q] \/ instance'[q].state # "live"
    BY <2>1, RevokedEffect DEF LinkInv
  <2>3. \A q \in Requests : cause'[q] = cause[q] \/ cause'[q] # "reuse"
    BY <2>1 DEF Revoked, LinkInv, TypeOK
  <2> QED
    BY <2>1, <2>2, <2>3, QuietCareful
<1>3. ASSUME NEW c \in Calls, Miss(c) \/ ReuseStarts(c) PROVE CarefulInv'
  <2>1. /\ call'[c].token = call[c].token /\ call'[c].step \in {"missed", "revoking"}
        /\ \A d \in Calls : d # c => call'[d] = call[d]
    BY <1>3, RestIsTyped DEF Miss, ReuseStarts, RestTyped, CallType
  <2> QED
    BY <1>3, <2>1, ReuseCareful DEF Miss, ReuseStarts, tables
<1>4. ASSUME NEW c \in Calls, ReadHistory(c) PROVE CarefulInv'
  <2>1. CASE call[c].token \in history
    <3>1. /\ call'[c].token = call[c].token /\ call'[c].step = "found"
          /\ \A d \in Calls : d # c => call'[d] = call[d]
      BY <1>4, <2>1, RestIsTyped DEF ReadHistory, RestTyped, CallType
    <3> QED
      BY <1>4, <2>1, <3>1, ReuseCareful DEF ReadHistory, tables
  <2>2. CASE call[c].token \notin history
    <3>1. call[c].step # "none" /\ Refused(c) /\ UNCHANGED <<tables, cause, heard, careless>>
      BY <1>4, <2>2 DEF ReadHistory
    <3>2. Of(call[c].token) \in careless \/ cause'[Of(call[c].token)] # "reuse"
      BY <3>1, CallOf DEF CarefulInv, Careful
    <3> QED
      BY <3>1, <3>2, RefusedCareful DEF tables
  <2> QED
    BY <2>1, <2>2
<1>5. ASSUME NEW c \in Calls, CallLost(c) PROVE CarefulInv'
  <2>1. call[c].step # "none" /\ Refused(c) /\ UNCHANGED <<tables, cause, heard, careless>>
    BY <1>5 DEF CallLost
  <2>2. Of(call[c].token) \in careless \/ cause'[Of(call[c].token)] # "reuse"
    BY <2>1, CallOf DEF CarefulInv, Careful
  <2> QED
    BY <2>1, <2>2, RefusedCareful DEF tables
<1>6. ASSUME NEW c \in Calls, RevokeInactive(c) \/ ReuseCommits(c) PROVE CarefulInv'
  <2>1. PICK r \in Requests : r = Of(call[c].token)
    BY <1>6, CallOf DEF RevokeInactive, ReuseCommits
  <2>2. /\ call[c].step # "none" /\ Refused(c) /\ UNCHANGED <<grantedTo, heard, careless>>
        /\ \/ Revoked(r, AccessOf(r), "inactive")
           \/ Revoked(r, call[c].seen, "reuse") /\ call[c].step = "revoking"
    BY <1>6, <2>1 DEF RevokeInactive, ReuseCommits
  <2>3. \A q \in Requests : q # r => instance'[q] = instance[q] /\ cause'[q] = cause[q]
    BY <2>2 DEF Revoked, LinkInv, TypeOK
  <2>4. r \in careless \/ cause'[r] # "reuse"
    <3> SUFFICES ASSUME r \notin careless PROVE cause'[r] # "reuse"
      OBVIOUS
    <3>1. Careful(r) /\ c \in InFlight(r)
      BY <2>1, <2>2, CallOf DEF CarefulInv
    <3>2. CASE Revoked(r, AccessOf(r), "inactive")
      BY <3>1, <3>2 DEF Revoked, Careful, LinkInv, TypeOK
    <3>3. CASE Revoked(r, call[c].seen, "reuse") /\ call[c].step = "revoking"
      <4>1. instance[r].state # "live"
        BY <3>1, <3>3 DEF Careful
      <4> QED
        BY <3>1, <3>3, <4>1 DEF Revoked, Careful
    <3> QED
      BY <2>2, <3>2, <3>3
  <2> QED
    BY <2>1, <2>2, <2>3, <2>4, RefusedCareful
<1> QED
  BY <1>1, <1>2, <1>3, <1>4, <1>5, <1>6, RedeemCareful, SendCareful, RotateCareful, HearCareful
  DEF Next, vars, tables, others, Start, Decide, RequestExpires, RevokeStarts, GoesIdle,
      Authenticate, AccessExpires, Forget

(* An installation that keeps one refresh under way, uses its newest token *)
(* and stops when an answer is lost is never revoked as a thief of its own *)
(* token, whatever else refreshes, expires or is revoked around it.        *)
THEOREM CarefulStaysKept == Spec => []CarefulIsKept
<1>1. Init => CarefulInv
  BY DEF Init, CarefulInv, HeardInOrder, Careful, InFlight, Issued, NoCall, NotLinked
<1>2. LinkInv /\ CarefulInv /\ [Next]_vars => CarefulInv'
  BY NextCareful
<1>3. CarefulInv => CarefulIsKept
  BY DEF CarefulInv, Careful, CarefulIsKept
<1> QED
  BY <1>1, <1>2, <1>3, AlwaysInv, PTL DEF Spec
=============================================================================
