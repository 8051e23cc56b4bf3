------------------------------ MODULE Linking ------------------------------
(***************************************************************************)
(* Linking an installation to an account and keeping it linked             *)
(* (api/internal/linking): a request opened by the installation is         *)
(* approved or denied by a creator, redeemed once for an instance with its *)
(* first pair of tokens, and the refresh token is from then on replaced at *)
(* every use; one that was replaced already revokes the instance.          *)
(*                                                                         *)
(* A request is a device request or a browser authorization: Poll and      *)
(* Exchange redeem under the same row lock and for the same reasons, and   *)
(* the instance is known here by its request.  slow_down and the rate      *)
(* limits only put a call off, so a call made here is one they let pass.   *)
(* A transaction under the instance's row lock is one step; the path of a  *)
(* spent token, which holds no lock until it revokes, is one per statement.*)
(***************************************************************************)
EXTENDS Integers

CONSTANTS
    Users,      \* creators signed in
    Requests,   \* link_requests and link_authorizations
    Calls,      \* concurrent Refresh handlers
    MaxTokens   \* bound: token pairs ever issued

Nobody == "nobody"
NoToken == 0
Tokens == 1..MaxTokens

ASSUME LinkingAssumption ==
    MaxTokens \in Nat /\ Nobody \notin Users \cup Requests

VARIABLES
    request,   \* per request: its decision, who took it, whether time is up
    instance,  \* linked_instances: state, owner, current refresh token
    grantedTo, \* per token pair, the instance it was issued to
    parent,    \* per token pair, the refresh token it replaced
    history,   \* instance_refresh_history still detectable
    forgotten, \* refresh tokens past refreshReuseWindow
    access,    \* instance_access_tokens
    idle,      \* instances unused for refreshIdleLifetime
    revoking,  \* instances whose Revoke statement runs, with the access
               \* tokens it saw
    cause,     \* why an instance was revoked
    heard,     \* refresh tokens the installation received
    stopped,   \* installations that no longer know whether they are linked
    careless,  \* installations that refreshed against the protocol's advice
    call       \* Refresh handlers

tables == <<request, instance, grantedTo, parent, history, forgotten, access, idle>>
vars == <<tables, revoking, cause, heard, stopped, careless, call>>

NoRequest == [status |-> "absent", by |-> Nobody, expired |-> FALSE]
NotLinked == [state |-> "none", owner |-> Nobody, refresh |-> NoToken]
NoCall == [step |-> "none", token |-> NoToken, answer |-> NoToken, seen |-> {}]
NotRevoking == [running |-> FALSE, seen |-> {}]

Issued == {t \in Tokens : grantedTo[t] # Nobody}
IsNext(t) == t \in Tokens \ Issued /\ 1..(t - 1) \subseteq Issued
Of(t) == grantedTo[t]
AccessOf(r) == {t \in access : Of(t) = r}

Init ==
    /\ request = [r \in Requests |-> NoRequest]
    /\ instance = [r \in Requests |-> NotLinked]
    /\ grantedTo = [t \in Tokens |-> Nobody] /\ parent = [t \in Tokens |-> NoToken]
    /\ history = {} /\ forgotten = {} /\ access = {} /\ idle = {}
    /\ revoking = [r \in Requests |-> NotRevoking]
    /\ cause = [r \in Requests |-> "none"]
    /\ heard = [r \in Requests |-> {}] /\ stopped = {} /\ careless = {}
    /\ call = [c \in Calls |-> NoCall]

(***************************************************************************)
(* Requests.                                                               *)
(***************************************************************************)
others == <<grantedTo, parent, history, forgotten, access, idle,
            revoking, cause, heard, stopped, careless, call>>

(* Start, StartAuthorization: expired rows are deleted, those another      *)
(* transaction has locked excepted, then the new row goes in.  A deleted   *)
(* row's name serves again, unless an instance is known by it.             *)
Swept(r) == IF request[r].status = "redeemed"
            THEN [NoRequest EXCEPT !.status = "cleared"] ELSE NoRequest

Start(r, swept) ==
    LET left == [q \in Requests |-> IF q \in swept THEN Swept(q) ELSE request[q]] IN
    /\ \A q \in swept : request[q].expired
    /\ left[r].status = "absent"
    /\ request' = [left EXCEPT ![r].status = "open"]
    /\ UNCHANGED <<instance, others>>

(* The conditions every review, approval and denial states. *)
Decidable(r, u) == request[r].status = "open" /\ ~request[r].expired

(* Approve, ApproveAuthorization; Deny, DenyAuthorization: one update. *)
Decide(r, u, verdict) ==
    /\ Decidable(r, u)
    /\ request' = [request EXCEPT ![r].status = verdict, ![r].by = u]
    /\ UNCHANGED <<instance, others>>

RequestExpires(r) ==
    /\ request[r].status \notin {"absent", "cleared"} /\ ~request[r].expired
    /\ request' = [request EXCEPT ![r].expired = TRUE]
    /\ UNCHANGED <<instance, others>>

(* A pair of tokens: the refresh token kept on the instance, the access    *)
(* token in its own table.                                                 *)
Grants(r, t, spent) ==
    /\ grantedTo' = [grantedTo EXCEPT ![t] = r]
    /\ parent' = [parent EXCEPT ![t] = spent]
    /\ access' = access \cup {t}

(* Poll, Exchange: issueGrant and the redemption in one transaction.  The  *)
(* answer may be lost on its way.                                          *)
Redeem(r, t) ==
    /\ request[r].status = "approved" /\ ~request[r].expired /\ IsNext(t)
    /\ request' = [request EXCEPT ![r].status = "redeemed"]
    /\ instance' = [instance EXCEPT ![r] =
                      [state |-> "live", owner |-> request[r].by, refresh |-> t]]
    /\ Grants(r, t, NoToken)
    /\ \/ heard' = [heard EXCEPT ![r] = {t}] /\ stopped' = stopped
       \/ heard' = heard /\ stopped' = stopped \cup {r}
    /\ UNCHANGED <<history, forgotten, idle, revoking, cause, careless, call>>

(***************************************************************************)
(* Refresh.                                                                *)
(***************************************************************************)
InFlight(r) == {c \in Calls : call[c].step # "none" /\ Of(call[c].token) = r}

(* protocol.md:301-306: one refresh at a time, with the newest token, and  *)
(* never again once an outcome is unknown.                                 *)
AsAdvised(r, t) == r \notin stopped /\ InFlight(r) = {} /\ \A s \in heard[r] : s <= t

(* An installation may send whatever it ever received. *)
Send(c, t) ==
    /\ call[c] = NoCall
    /\ t \in Issued /\ t \in heard[Of(t)]
    /\ call' = [call EXCEPT ![c] = [NoCall EXCEPT !.step = "sent", !.token = t]]
    /\ careless' = IF AsAdvised(Of(t), t) THEN careless ELSE careless \cup {Of(t)}
    /\ UNCHANGED <<tables, revoking, cause, heard, stopped>>

(* Mutant: the lookup accepts a token that was replaced. *)
IsKnown(t) == instance[Of(t)].state = "live"

(* LockLinkedInstanceByRefreshToken finds a row. *)
IsCurrent(t) == instance[Of(t)].state = "live" /\ instance[Of(t)].refresh = t

(* Mutant: the replaced token is not remembered. *)
RotateForgetting(c, n) ==
    LET t == call[c].token
        r == Of(t) IN
    /\ call[c].step = "sent" /\ IsCurrent(t) /\ r \notin idle /\ IsNext(n)
    /\ instance' = [instance EXCEPT ![r].refresh = n]
    /\ Grants(r, n, t)
    /\ call' = [call EXCEPT ![c].step = "granted", ![c].answer = n]
    /\ UNCHANGED <<request, history, forgotten, idle, revoking, cause, heard, stopped, careless>>

(* Mutant: the answer carries the token that was just replaced. *)
RotateAnsweringOld(c, n) ==
    LET t == call[c].token
        r == Of(t) IN
    /\ call[c].step = "sent" /\ IsCurrent(t) /\ r \notin idle /\ IsNext(n)
    /\ instance' = [instance EXCEPT ![r].refresh = n]
    /\ history' = history \cup {t}
    /\ Grants(r, n, t)
    /\ call' = [call EXCEPT ![c].step = "granted", ![c].answer = t]
    /\ UNCHANGED <<request, forgotten, idle, revoking, cause, heard, stopped, careless>>

(* rotateRefreshGrant: the hash replaced and remembered, a new access      *)
(* token, last_seen_at touched.                                            *)
Rotate(c, n) ==
    LET t == call[c].token
        r == Of(t) IN
    /\ call[c].step = "sent" /\ IsCurrent(t) /\ r \notin idle /\ IsNext(n)
    /\ instance' = [instance EXCEPT ![r].refresh = n]
    /\ history' = history \cup {t}
    /\ Grants(r, n, t)
    /\ call' = [call EXCEPT ![c].step = "granted", ![c].answer = n]
    /\ UNCHANGED <<request, forgotten, idle, revoking, cause, heard, stopped, careless>>

(* Mutant: the token is kept. *)
RevokedUncleared(r) == [instance[r] EXCEPT !.state = "revoked"]

(* RevokeLinkedInstance, RevokeLinkedInstanceByID: the hash cleared, and   *)
(* the access tokens the statement saw when it began.                      *)
RevokedInstance(r) == [instance[r] EXCEPT !.state = "revoked", !.refresh = NoToken]

Revoked(r, seen, why) ==
    IF instance[r].state = "live"
    THEN /\ instance' = [instance EXCEPT ![r] = RevokedInstance(r)]
         /\ access' = access \ seen
         /\ cause' = [cause EXCEPT ![r] = why]
    ELSE UNCHANGED <<instance, access, cause>>

(* The installation hears that its credential is no good and stops. *)
Refused(c) ==
    /\ call' = [call EXCEPT ![c] = NoCall]
    /\ stopped' = stopped \cup {Of(call[c].token)}

(* revokeInactiveRefresh, under the row lock. *)
RevokeInactive(c) ==
    LET r == Of(call[c].token) IN
    /\ call[c].step = "sent" /\ IsCurrent(call[c].token) /\ r \in idle
    /\ Revoked(r, AccessOf(r), "inactive")
    /\ Refused(c)
    /\ UNCHANGED <<request, grantedTo, parent, history, forgotten, idle, revoking, heard, careless>>

(* handleRefreshReuse, three statements: no instance has this token; the   *)
(* history knows it or not; the instance it belonged to is revoked, by a   *)
(* statement that may wait for the row as Revoke may.                      *)
Miss(c) ==
    /\ call[c].step = "sent" /\ ~IsCurrent(call[c].token)
    /\ call' = [call EXCEPT ![c].step = "missed"]
    /\ UNCHANGED <<tables, revoking, cause, heard, stopped, careless>>

ReadHistory(c) ==
    /\ call[c].step = "missed"
    /\ IF call[c].token \in history
       THEN call' = [call EXCEPT ![c].step = "found"] /\ stopped' = stopped
       ELSE Refused(c)
    /\ UNCHANGED <<tables, revoking, cause, heard, careless>>

ReuseStarts(c) ==
    /\ call[c].step = "found"
    /\ call' = [call EXCEPT ![c].step = "revoking", ![c].seen = AccessOf(Of(call[c].token))]
    /\ UNCHANGED <<tables, revoking, cause, heard, stopped, careless>>

ReuseCommits(c) ==
    /\ call[c].step = "revoking"
    /\ Revoked(Of(call[c].token), call[c].seen, "reuse")
    /\ Refused(c)
    /\ UNCHANGED <<request, grantedTo, parent, history, forgotten, idle, revoking, heard, careless>>

(* The answer arrives; or it is lost, or the handler fails before it has   *)
(* committed anything, and the installation cannot tell which.             *)
Hear(c) ==
    /\ call[c].step = "granted"
    /\ heard' = [heard EXCEPT ![Of(call[c].token)] = @ \cup {call[c].answer}]
    /\ call' = [call EXCEPT ![c] = NoCall]
    /\ UNCHANGED <<tables, revoking, cause, stopped, careless>>

CallLost(c) ==
    /\ call[c].step # "none"
    /\ Refused(c)
    /\ UNCHANGED <<tables, revoking, cause, heard, careless>>

(***************************************************************************)
(* The creator revokes; the instance is used; time passes.                 *)
(***************************************************************************)
(* Revoke, one statement: its snapshot is taken when it begins, and it may *)
(* wait for a Refresh that holds the row before it commits.                *)
RevokeStarts(r) ==
    /\ instance[r].state = "live" /\ ~revoking[r].running
    /\ revoking' = [revoking EXCEPT ![r] = [running |-> TRUE, seen |-> AccessOf(r)]]
    /\ UNCHANGED <<tables, cause, heard, stopped, careless, call>>

RevokeCommits(r) ==
    /\ revoking[r].running
    /\ Revoked(r, revoking[r].seen, "creator")
    /\ revoking' = [revoking EXCEPT ![r] = NotRevoking]
    /\ UNCHANGED <<request, grantedTo, parent, history, forgotten, idle, heard, stopped, careless, call>>

(* Authenticate touches last_seen_at. *)
Authenticates(t) == t \in access /\ instance[Of(t)].state = "live"
Authenticate(t) ==
    /\ Authenticates(t)
    /\ idle' = idle \ {Of(t)}
    /\ UNCHANGED <<request, instance, grantedTo, parent, history, forgotten, access,
                   revoking, cause, heard, stopped, careless, call>>

AccessExpires(t) ==
    /\ t \in access
    /\ access' = access \ {t}
    /\ UNCHANGED <<request, instance, grantedTo, parent, history, forgotten, idle,
                   revoking, cause, heard, stopped, careless, call>>

GoesIdle(r) ==
    /\ instance[r].state = "live" /\ r \notin idle
    /\ idle' = idle \cup {r}
    /\ UNCHANGED <<request, instance, grantedTo, parent, history, forgotten, access,
                   revoking, cause, heard, stopped, careless, call>>

(* detectable_until passes, and the cleanup may take the row. *)
Forget(t) ==
    /\ t \in history
    /\ history' = history \ {t} /\ forgotten' = forgotten \cup {t}
    /\ UNCHANGED <<request, instance, grantedTo, parent, access, idle,
                   revoking, cause, heard, stopped, careless, call>>

Next ==
    \/ \E r \in Requests, swept \in SUBSET Requests : Start(r, swept)
    \/ \E r \in Requests :
         \/ RequestExpires(r) \/ RevokeStarts(r) \/ RevokeCommits(r) \/ GoesIdle(r)
         \/ \E u \in Users, verdict \in {"approved", "denied"} : Decide(r, u, verdict)
         \/ \E t \in Tokens : Redeem(r, t)
    \/ \E c \in Calls :
         \/ \E t \in Tokens : Send(c, t) \/ Rotate(c, t)
         \/ RevokeInactive(c) \/ Miss(c) \/ ReadHistory(c)
         \/ ReuseStarts(c) \/ ReuseCommits(c) \/ Hear(c) \/ CallLost(c)
    \/ \E t \in Tokens : Authenticate(t) \/ AccessExpires(t) \/ Forget(t)

Spec == Init /\ [][Next]_vars

-----------------------------------------------------------------------------
(* Every variable has its type. *)
TypeOK ==
    /\ request \in [Requests -> [status: {"absent", "open", "approved", "denied",
                                           "redeemed", "cleared"},
                                 by: Users \cup {Nobody}, expired: BOOLEAN]]
    /\ instance \in [Requests -> [state: {"none", "live", "revoked"},
                                  owner: Users \cup {Nobody}, refresh: Tokens \cup {NoToken}]]
    /\ grantedTo \in [Tokens -> Requests \cup {Nobody}]
    /\ parent \in [Tokens -> Tokens \cup {NoToken}]
    /\ history \subseteq Tokens /\ forgotten \subseteq Tokens /\ access \subseteq Tokens
    /\ idle \subseteq Requests /\ stopped \subseteq Requests /\ careless \subseteq Requests
    /\ revoking \in [Requests -> [running: BOOLEAN, seen: SUBSET Tokens]]
    /\ cause \in [Requests -> {"none", "creator", "inactive", "reuse"}]
    /\ heard \in [Requests -> SUBSET Tokens]
    /\ call \in [Calls -> [step: {"none", "sent", "missed", "found", "revoking", "granted"},
                           token: Tokens \cup {NoToken}, answer: Tokens \cup {NoToken},
                           seen: SUBSET Tokens]]

(* An instance exists exactly for a request that was redeemed, and belongs *)
(* to the creator whose approval the request holds: whoever else has the   *)
(* code, a decision is not taken again.                                    *)
LinkedByApproval ==
    \A r \in Requests :
        /\ instance[r].state # "none" <=> request[r].status \in {"redeemed", "cleared"}
        /\ request[r].status = "redeemed" => instance[r].owner = request[r].by
                                             /\ request[r].by \in Users

(* A refresh token is traded for one new pair at most, however many calls  *)
(* present it at once.                                                     *)
SpentOnce ==
    \A s, t \in Issued : s # t /\ parent[s] # NoToken => parent[s] # parent[t]

(* Of the tokens ever issued to a live instance one is current and every   *)
(* other is known as spent until its window has passed: no replay slips    *)
(* between the two.                                                        *)
SpentIsRemembered ==
    \A t \in Issued : instance[Of(t)].state = "live" =>
        t = instance[Of(t)].refresh \/ t \in history \cup forgotten

(* The tables of links stay sound while requests are redeemed, tokens      *)
(* rotate and history is forgotten: an instance is its approver's, and any *)
(* token issued to it is current or known as spent.                        *)
LinkSound == TypeOK /\ LinkedByApproval /\ SpentIsRemembered

(* A revoked instance is over: no call already under way gives it a        *)
(* refresh token again or brings it back.                                  *)
RevokedIsOver ==
    [][\A r \in Requests : instance[r].state = "revoked" =>
         instance'[r].state = "revoked" /\ instance'[r].refresh = NoToken
         /\ \A t \in Tokens : ~Authenticates(t)' \/ grantedTo'[t] # r]_vars

(* An installation that refreshes as protocol.md asks is never revoked as  *)
(* a thief of its own token, lost answers included.                        *)
CarefulIsKept == \A r \in Requests \ careless : cause[r] # "reuse"
=============================================================================
