------------------------------ MODULE Accounts ------------------------------
(* Accounts, their addresses and handles, the links mailed to them and the *)
(* Discord identities attached to them (internal/account). Every request   *)
(* runs one transaction that takes advisory locks and row locks one by one *)
(* and shows its writes at commit, so a request is a job with one step per *)
(* lock it may have to wait for.                                           *)
EXTENDS Naturals, FiniteSets, Sequences, FiniteSetsExt

CONSTANTS
    Users,        \* account ids, made by uuid.New
    Emails,       \* normalised addresses
    Handles,      \* valid handles, ordered as orderedHandles orders them
    Candidates,   \* the handles availableDiscordHandle tries, in order
    Subjects,     \* Discord accounts, ordered as DiscordSubjectsForUser orders them
    Requests,     \* requests under way at once
    Flows,        \* Discord flows a browser may have started
    MaxMails,     \* verification links mailed
    Faults,       \* transactions that fail (a mail not sent, a lost connection)
    None

VARIABLES
    user,       \* users: None, or handle, email, verified, source and password
    retired,    \* retired_handles
    identity,   \* oauth_identities: the account each Discord subject signs in to
    session,    \* accounts with a live session
    link,       \* email_verification_tokens: the link that verifies, per account
    mails,      \* links mailed so far
    reset,      \* password_reset_tokens: accounts with a usable reset link
    flow,       \* oauth_states: None, or the flow's intent and account
    job,        \* what each request is doing
    held,       \* the locks each request's transaction holds
    faults

vars == <<user, retired, identity, session, link, mails, reset, flow, job, held, faults>>

Accounts == {u \in Users : user[u] # None}
Verified(u) == user[u] # None /\ user[u].verified
Holds(u, e) == user[u] # None /\ user[u].email = e
DiscordLinked(u) == \E s \in Subjects : identity[s] = u

Idle == [op |-> "idle", at |-> "end"]

User == [handle : Handles, email : Emails \cup {None}, verified : BOOLEAN,
         source : {"creator", "discord", None}, password : BOOLEAN]
Link == [email : Emails, number : 1..MaxMails]
Flow == [intent : {"sign-in"}] \cup [intent : {"attach"}, user : Users]
Profile == [subject : Subjects, email : Emails \cup {None}]

ASSUME AccountsAssumption ==
    /\ Handles \subseteq Nat /\ Subjects \subseteq Nat
    /\ Candidates \in Seq(Handles) /\ Candidates # <<>>
    /\ MaxMails \in Nat /\ Faults \in Nat
    /\ None \notin Users \cup Emails \cup {"creator", "discord"} \cup User \cup Link \cup Flow

Job == [op : {"idle"}, at : {"end"}]
    \cup [op : {"signup"}, at : {"email", "commit"}, handle : Handles, email : Emails]
    \cup [op : {"verify"}, at : {"email", "recheck", "user", "commit"}, user : Users, link : Link]
    \cup [op : {"rename"}, at : {"first", "second", "commit"}, user : Users, handle : Handles]
    \cup [op : {"change"}, at : {"email", "user", "commit"}, user : Users, email : Emails]
    \cup [op : {"discord"}, at : {"sync email", "sync user", "commit sync", "profile"},
          profile : Profile, user : Users]
    \cup [op : {"discord"}, at : {"handle"}, profile : Profile, try : 1..Len(Candidates)]
    \cup [op : {"discord"}, at : {"email", "commit"}, profile : Profile, handle : Handles]
    \cup [op : {"attach"}, at : {"identity", "user", "commit"}, profile : Profile, user : Users]
    \cup [op : {"detach"}, at : {"identities", "user", "commit"}, user : Users,
          subjects : SUBSET Subjects]

LockNames ==
    ({"handle"} \X Handles) \cup ({"email"} \X Emails) \cup ({"identity"} \X Subjects)
        \cup ({"owner", "user", "link"} \X Users)

(* Types, the columns' CHECK constraints, one link per account.            *)
TypeOK ==
    /\ user \in [Users -> User \cup {None}]
    /\ \A u \in Accounts :
          /\ (user[u].email = None) <=> (user[u].source = None)
          /\ user[u].verified => user[u].email # None
    /\ retired \subseteq Handles
    /\ identity \in [Subjects -> Users \cup {None}]
    /\ \A s \in Subjects : identity[s] = None \/ identity[s] \in Accounts
    /\ session \subseteq Accounts
    /\ link \in [Users -> Link \cup {None}]
    /\ mails \in 0..MaxMails
    /\ reset \subseteq Accounts
    /\ flow \in [Flows -> Flow \cup {None}]
    /\ job \in [Requests -> Job]
    /\ held \in [Requests -> SUBSET LockNames]
    /\ faults \in 0..Faults

(***************************************************************************)
(* Statements.                                                             *)
(***************************************************************************)

HandleUnavailable(h) == h \in retired \/ \E u \in Accounts : user[u].handle = h

VerifiedEmailExists(e) == \E u \in Accounts : Verified(u) /\ user[u].email = e

(* The rows ClearPendingEmailCopies writes, and so waits for.              *)
PendingCopies(e, u) == {v \in Accounts \ {u} : Holds(v, e) /\ ~Verified(v)}

ClearPendingEmailCopies(users, e, u) ==
    [v \in Users |-> IF v \in PendingCopies(e, u)
                     THEN [users[v] EXCEPT !.email = None, !.source = None] ELSE users[v]]

DeleteVerificationTokensForEmail(e) ==
    [v \in Users |-> IF link[v] # None /\ link[v].email = e THEN None ELSE link[v]]

(* The accounts VerificationByHash finds for a link.                       *)
VerificationByHash(l) == {u \in Users : link[u] = l}

UsersForSignIn(e) == {u \in Accounts : Holds(u, e) /\ user[u].password}

DiscordSubjectsForUser(u) == {s \in Subjects : identity[s] = u}

InsertUser(u, h, e) ==
    [user EXCEPT ![u] = [handle |-> h, email |-> e, verified |-> FALSE,
                         source |-> "creator", password |-> TRUE]]

InsertDiscordUser(u, h, e) ==
    [user EXCEPT ![u] = [handle |-> h, email |-> e, verified |-> e # None,
                         source |-> IF e = None THEN None ELSE "discord", password |-> FALSE]]

MaySyncVerified(u) == user[u].email = None \/ user[u].verified

MaySync(u) == user[u].email = None \/ user[u].source = "discord"

UpdateDiscordEmail(u, e) ==
    [user EXCEPT ![u].email = e, ![u].verified = TRUE, ![u].source = "discord"]

UpdateUnverifiedEmail(u, e) == [user EXCEPT ![u].email = e, ![u].source = "creator"]

(***************************************************************************)
(* Locks and transactions.                                                 *)
(***************************************************************************)

RowFree(u) == \A r \in Requests : <<"user", u>> \notin held[r]

Free(r, locks) == \A q \in Requests \ {r} : held[q] \cap locks = {}

At(r, op, at) == job[r].op = op /\ job[r].at = at

OrderedHandles(h, g) == IF h < g THEN <<h, g>> ELSE <<g, h>>

(* The locks the next step of a request takes: advisory locks by name, the *)
(* rows it updates or selects for update, and at a commit the rows its last *)
(* statements write.                                                       *)
Wants(r) ==
    LET j == job[r] IN
    CASE At(r, "signup", "email")       -> {<<"email", j.email>>}
      [] At(r, "verify", "email")       -> {<<"email", j.link.email>>}
      [] At(r, "verify", "recheck")     -> {<<"link", j.user>>}
      [] At(r, "verify", "commit")      -> {"user", "link"} \X PendingCopies(j.link.email, j.user)
      [] At(r, "rename", "first")       ->
            {<<"handle", OrderedHandles(user[j.user].handle, j.handle)[1]>>}
      [] At(r, "rename", "second")      ->
            {<<"handle", OrderedHandles(user[j.user].handle, j.handle)[2]>>}
      [] At(r, "change", "email")       -> {<<"email", j.email>>}
      [] At(r, "change", "commit")      -> {<<"link", j.user>>}
      [] At(r, "discord", "handle")     -> {<<"handle", Candidates[j.try]>>}
      [] At(r, "discord", "commit") \/ At(r, "discord", "commit sync") ->
            {"user", "link"} \X {v \in Accounts : j.profile.email # None
                                   /\ Holds(v, j.profile.email) /\ ~Verified(v)}
      [] At(r, "discord", "email") \/ At(r, "discord", "sync email") ->
            {<<"email", j.profile.email>>}
      [] At(r, "attach", "identity")    -> {<<"identity", j.profile.subject>>}
      [] At(r, "detach", "identities")  -> {<<"identity", Min(j.subjects)>>}
      [] j.at \in {"user", "sync user", "profile"} -> {<<"user", j.user>>}
      [] OTHER                          -> {}

(* Waits for its locks and holds them until the transaction ends.          *)
Takes(r) == Free(r, Wants(r)) /\ held' = [held EXCEPT ![r] = @ \cup Wants(r)]

(* Commit, or the deferred rollback: the locks go with the transaction.    *)
Ends(r) ==
    /\ Free(r, Wants(r))
    /\ job' = [job EXCEPT ![r] = Idle]
    /\ held' = [held EXCEPT ![r] = {}]

(* A request arrives and takes its first locks; one that waits for those   *)
(* holds nothing yet, so nobody waits for it.                              *)
Begins(r, locks, j) ==
    /\ job[r] = Idle /\ Free(r, locks)
    /\ job' = [job EXCEPT ![r] = j]
    /\ held' = [held EXCEPT ![r] = locks]

Tables == <<user, retired, identity, session, link, mails, reset, flow>>

(* Takes its locks and goes on where the check passes, gives up where not. *)
TakesIf(r, check, next) ==
    /\ IF check THEN Takes(r) /\ job' = [job EXCEPT ![r].at = next] ELSE Ends(r)
    /\ UNCHANGED <<Tables, faults>>

(***************************************************************************)
(* Sign-up: handle lock and check, address lock and check, then the        *)
(* account, its link and its session, with the mail sent before commit.    *)
(***************************************************************************)
SignUp(r) ==
    \E h \in Handles, e \in Emails :
        /\ ~HandleUnavailable(h)
        /\ Begins(r, {<<"handle", h>>},
                  [op |-> "signup", at |-> "email", handle |-> h, email |-> e])
        /\ UNCHANGED <<Tables, faults>>

SignUpLocksEmail(r) ==
    /\ At(r, "signup", "email")
    /\ TakesIf(r, ~VerifiedEmailExists(job[r].email), "commit")

SignUpCommits(r) ==
    /\ At(r, "signup", "commit")
    /\ mails < MaxMails
    /\ \E u \in Users \ Accounts :
          /\ user' = InsertUser(u, job[r].handle, job[r].email)
          /\ link' = [link EXCEPT ![u] = [email |-> job[r].email, number |-> mails + 1]]
          /\ session' = session \cup {u}
    /\ mails' = mails + 1
    /\ Ends(r)
    /\ UNCHANGED <<retired, identity, reset, flow, faults>>

(***************************************************************************)
(* Following a verification link.                                          *)
(***************************************************************************)
VerifyEmail(r) ==
    \E u \in Users :
        /\ link[u] # None
        /\ Begins(r, {}, [op |-> "verify", at |-> "email", user |-> u, link |-> link[u]])
        /\ UNCHANGED <<Tables, faults>>

VerifyWithoutEmailLock(r) ==
    /\ At(r, "verify", "email")
    /\ job' = [job EXCEPT ![r].at = "recheck"]
    /\ UNCHANGED <<held, Tables, faults>>

VerifyLocksEmail(r) ==
    /\ At(r, "verify", "email")
    /\ TakesIf(r, TRUE, "recheck")

(* VerificationByHash ... for update.                                      *)
VerifyRechecks(r) ==
    /\ At(r, "verify", "recheck")
    /\ TakesIf(r, job[r].user \in VerificationByHash(job[r].link), "user")

(* VerifyUserEmail: the account holds the address still, unverified.       *)
VerifyLocksUser(r) ==
    LET u == job[r].user IN
    /\ At(r, "verify", "user")
    /\ TakesIf(r, Holds(u, job[r].link.email) /\ ~Verified(u), "commit")

VerifyCommits(r) ==
    LET u == job[r].user
        e == job[r].link.email IN
    /\ At(r, "verify", "commit")
    /\ IF VerifiedEmailExists(e)
       THEN UNCHANGED <<user, link>>
       ELSE /\ user' = ClearPendingEmailCopies([user EXCEPT ![u].verified = TRUE], e, u)
            /\ link' = DeleteVerificationTokensForEmail(e)
    /\ Ends(r)
    /\ UNCHANGED <<retired, identity, session, mails, reset, flow, faults>>

(***************************************************************************)
(* Signing in and out; sessions and links run out by themselves.           *)
(***************************************************************************)
(* The password fits some of the accounts that hold the address; exactly   *)
(* one match signs in.                                                     *)
SignIn ==
    /\ \E e \in Emails : \E u \in UsersForSignIn(e) :
          u \notin session /\ session' = session \cup {u}
    /\ UNCHANGED <<user, retired, identity, link, mails, reset, flow, job, held, faults>>

SignOut ==
    /\ \E u \in session : session' = session \ {u}
    /\ UNCHANGED <<user, retired, identity, link, mails, reset, flow, job, held, faults>>

LinkRunsOut ==
    /\ \/ \E u \in Users :
             link[u] # None /\ link' = [link EXCEPT ![u] = None] /\ UNCHANGED <<reset, flow>>
       \/ \E u \in reset : reset' = reset \ {u} /\ UNCHANGED <<link, flow>>
       \/ \E f \in Flows :
             flow[f] # None /\ flow' = [flow EXCEPT ![f] = None] /\ UNCHANGED <<link, reset>>
    /\ UNCHANGED <<user, retired, identity, session, mails, job, held, faults>>

(***************************************************************************)
(* Renaming: the account's row, then both handles in their order.          *)
(***************************************************************************)
RenameHandle(r) ==
    \E u \in session, h \in Handles :
        /\ Verified(u) /\ user[u].handle # h
        /\ Begins(r, {<<"user", u>>}, [op |-> "rename", at |-> "first", user |-> u, handle |-> h])
        /\ UNCHANGED <<Tables, faults>>

RenameLocksFirst(r) ==
    /\ At(r, "rename", "first")
    /\ TakesIf(r, TRUE, "second")

RenameChecksUnlocked(r) ==
    /\ At(r, "rename", "second")
    /\ IF HandleUnavailable(job[r].handle) THEN Ends(r)
       ELSE job' = [job EXCEPT ![r].at = "commit"] /\ UNCHANGED held
    /\ UNCHANGED <<Tables, faults>>

RenameLocksSecond(r) ==
    /\ At(r, "rename", "second")
    /\ TakesIf(r, ~HandleUnavailable(job[r].handle), "commit")

RenameCommits(r) ==
    LET u == job[r].user IN
    /\ At(r, "rename", "commit")
    /\ retired' = retired \cup {user[u].handle}
    /\ user' = [user EXCEPT ![u].handle = job[r].handle]
    /\ Ends(r)
    /\ UNCHANGED <<identity, session, link, mails, reset, flow, faults>>

(***************************************************************************)
(* Correcting an address that was never verified.                          *)
(***************************************************************************)
ChangeUnverifiedEmail(r) ==
    \E u \in session, e \in Emails :
        /\ ~Verified(u)
        /\ Begins(r, {}, [op |-> "change", at |-> "email", user |-> u, email |-> e])
        /\ UNCHANGED <<Tables, faults>>

ChangeLocksEmail(r) ==
    /\ At(r, "change", "email")
    /\ TakesIf(r, ~VerifiedEmailExists(job[r].email), "user")

ChangeLocksUser(r) ==
    /\ At(r, "change", "user")
    /\ TakesIf(r, ~Verified(job[r].user), "commit")

(* The old link's row is waited for before it is replaced.                 *)
ChangeCommits(r) ==
    LET u == job[r].user IN
    /\ At(r, "change", "commit")
    /\ mails < MaxMails
    /\ user' = UpdateUnverifiedEmail(u, job[r].email)
    /\ link' = [link EXCEPT ![u] = [email |-> job[r].email, number |-> mails + 1]]
    /\ mails' = mails + 1
    /\ Ends(r)
    /\ UNCHANGED <<retired, identity, session, reset, flow, faults>>

(***************************************************************************)
(* Passwords: the first one, and a reset.                                  *)
(***************************************************************************)
SetPassword ==
    /\ \E u \in session :
          /\ ~user[u].password /\ RowFree(u)
          /\ user' = [user EXCEPT ![u].password = TRUE]
    /\ UNCHANGED <<retired, identity, session, link, mails, reset, flow, job, held, faults>>

(* A new link replaces the one before.                                     *)
RequestPasswordReset ==
    /\ \E u \in Accounts \ reset : Verified(u) /\ reset' = reset \cup {u}
    /\ UNCHANGED <<user, retired, identity, session, link, mails, flow, job, held, faults>>

CompletePasswordReset ==
    /\ \E u \in reset :
          /\ RowFree(u)
          /\ reset' = reset \ {u}
          /\ user' = [user EXCEPT ![u].password = TRUE]
    /\ UNCHANGED <<retired, identity, session, link, mails, flow, job, held, faults>>

(***************************************************************************)
(* Discord.                                                                *)
(***************************************************************************)
BeginDiscord ==
    /\ \E f \in Flows :
          /\ flow[f] = None
          /\ \/ flow' = [flow EXCEPT ![f] = [intent |-> "sign-in"]]
             \/ \E u \in session :
                   Verified(u) /\ flow' = [flow EXCEPT ![f] = [intent |-> "attach", user |-> u]]
    /\ UNCHANGED <<user, retired, identity, session, link, mails, reset, job, held, faults>>

SyncsEmail(u, p) == p.email # None /\ MaySync(u) /\ user[u].email # p.email

SignInDiscord(r, p) ==
    LET u == identity[p.subject] IN
    Begins(r, {<<"identity", p.subject>>},
           IF u = None
           THEN [op |-> "discord", at |-> "handle", profile |-> p, try |-> 1]
           ELSE [op |-> "discord", profile |-> p, user |-> u,
                 at |-> IF SyncsEmail(u, p) THEN "sync email" ELSE "profile"])

(* The state is taken for good before Discord is asked who this is.        *)
CompleteDiscord(r) ==
    \E f \in Flows, p \in Profile :
        /\ flow[f] # None
        /\ flow' = [flow EXCEPT ![f] = None]
        /\ IF flow[f].intent = "sign-in" THEN SignInDiscord(r, p)
           ELSE Begins(r, {<<"owner", flow[f].user>>},
                       [op |-> "attach", at |-> "identity", profile |-> p, user |-> flow[f].user])
        /\ UNCHANGED <<user, retired, identity, session, link, mails, reset, faults>>

SyncLocksEmail(r) ==
    LET e == job[r].profile.email IN
    /\ At(r, "discord", "sync email")
    /\ TakesIf(r, ~VerifiedEmailExists(e), "sync user")

(* UpdateDiscordEmail asks again: the creator may have chosen an address.  *)
SyncLocksUser(r) ==
    /\ At(r, "discord", "sync user")
    /\ TakesIf(r, MaySync(job[r].user), "commit sync")

SyncDiscordEmail(r) ==
    LET u == job[r].user
        e == job[r].profile.email IN
    /\ At(r, "discord", "commit sync")
    /\ user' = ClearPendingEmailCopies(UpdateDiscordEmail(u, e), e, u)
    /\ link' = DeleteVerificationTokensForEmail(e)
    /\ session' = session \cup {u}
    /\ Ends(r)
    /\ UNCHANGED <<retired, identity, mails, reset, flow, faults>>

(* No address to sync: the profile's row is written and the session made.  *)
SyncDiscordAccount(r) ==
    /\ At(r, "discord", "profile")
    /\ session' = session \cup {job[r].user}
    /\ Ends(r)
    /\ UNCHANGED <<user, retired, identity, link, mails, reset, flow, faults>>

AvailableDiscordHandle(r) ==
    LET h == Candidates[job[r].try]
        p == job[r].profile IN
    /\ At(r, "discord", "handle")
    /\ Takes(r)
    /\ IF HandleUnavailable(h)
       THEN job[r].try < Len(Candidates) /\ job' = [job EXCEPT ![r].try = @ + 1]
       ELSE job' = [job EXCEPT ![r] = [op |-> "discord", profile |-> p, handle |-> h,
                       at |-> IF p.email = None THEN "commit" ELSE "email"]]
    /\ UNCHANGED <<Tables, faults>>

LockAvailableDiscordEmail(r) ==
    LET e == job[r].profile.email IN
    /\ At(r, "discord", "email")
    /\ TakesIf(r, ~VerifiedEmailExists(e), "commit")

CreateDiscordAccount(r) ==
    LET p == job[r].profile
        e == p.email IN
    /\ At(r, "discord", "commit")
    /\ \E u \in Users \ Accounts :
          /\ user' = IF e = None THEN InsertDiscordUser(u, job[r].handle, e)
                     ELSE ClearPendingEmailCopies(InsertDiscordUser(u, job[r].handle, e), e, u)
          /\ identity' = [identity EXCEPT ![p.subject] = u]
          /\ session' = session \cup {u}
    /\ link' = IF e = None THEN link ELSE DeleteVerificationTokensForEmail(e)
    /\ Ends(r)
    /\ UNCHANGED <<retired, mails, reset, flow, faults>>

AttachLocksIdentity(r) ==
    LET s == job[r].profile.subject IN
    /\ At(r, "attach", "identity")
    /\ TakesIf(r, identity[s] = None, "user")

AttachLocksUser(r) ==
    /\ At(r, "attach", "user")
    /\ TakesIf(r, TRUE, "commit")

AttachDiscord(r) ==
    /\ At(r, "attach", "commit")
    /\ identity' = [identity EXCEPT ![job[r].profile.subject] = job[r].user]
    /\ Ends(r)
    /\ UNCHANGED <<user, retired, session, link, mails, reset, flow, faults>>

DetachDiscord(r) ==
    \E u \in session :
        /\ DiscordLinked(u)
        /\ Begins(r, {<<"owner", u>>}, [op |-> "detach", at |-> "identities", user |-> u,
                                       subjects |-> DiscordSubjectsForUser(u)])
        /\ UNCHANGED <<Tables, faults>>

(* The subjects read are locked one by one, in their order.                *)
DetachLocksIdentity(r) ==
    LET s == Min(job[r].subjects) IN
    /\ At(r, "detach", "identities")
    /\ Takes(r)
    /\ job' = [job EXCEPT ![r].subjects = @ \ {s},
                          ![r].at = IF job[r].subjects = {s} THEN "user" ELSE "identities"]
    /\ UNCHANGED <<Tables, faults>>

DetachAsksAddressOnly(r) ==
    /\ At(r, "detach", "user")
    /\ TakesIf(r, user[job[r].user].verified, "commit")

DetachLocksUser(r) ==
    LET u == job[r].user IN
    /\ At(r, "detach", "user")
    /\ TakesIf(r, user[u].verified /\ user[u].password, "commit")

DetachCommits(r) ==
    /\ At(r, "detach", "commit")
    /\ identity' = [s \in Subjects |-> IF identity[s] = job[r].user THEN None ELSE identity[s]]
    /\ Ends(r)
    /\ UNCHANGED <<user, retired, session, link, mails, reset, flow, faults>>

(***************************************************************************)
(* What ends a transaction from outside.                                   *)
(***************************************************************************)
(* The bounds: no more accounts, links or candidates to go on with.        *)
Spent(r) ==
    \/ At(r, "signup", "commit") /\ (mails = MaxMails \/ Accounts = Users)
    \/ At(r, "change", "commit") /\ mails = MaxMails
    \/ At(r, "discord", "commit") /\ Accounts = Users
    \/ At(r, "discord", "handle") /\ job[r].try = Len(Candidates) /\ HandleUnavailable(Candidates[job[r].try])

RollsBack(r) == job' = [job EXCEPT ![r] = Idle] /\ held' = [held EXCEPT ![r] = {}]

(* A mail that cannot be sent, a statement or a commit that fails.         *)
Fails(r) ==
    /\ job[r] # Idle
    /\ \/ faults > 0 /\ faults' = faults - 1
       \/ Spent(r) /\ UNCHANGED faults
    /\ RollsBack(r)
    /\ UNCHANGED Tables

(* Requests each of which waits for a lock that another of them holds.     *)
Deadlocked(C) ==
    /\ C # {}
    /\ \A r \in C : \E q \in C \ {r} : Wants(r) \cap held[q] # {}

(* PostgreSQL finds a cycle of waits and aborts one of them.               *)
DeadlockAborts(r) ==
    /\ \E C \in SUBSET Requests :
          r \in C /\ Deadlocked(C) /\ \A D \in SUBSET C : Deadlocked(D) => D = C
    /\ RollsBack(r)
    /\ UNCHANGED <<Tables, faults>>

Init ==
    /\ user = [u \in Users |-> None]
    /\ retired = {}
    /\ identity = [s \in Subjects |-> None]
    /\ session = {}
    /\ link = [u \in Users |-> None]
    /\ mails = 0
    /\ reset = {}
    /\ flow = [f \in Flows |-> None]
    /\ job = [r \in Requests |-> Idle]
    /\ held = [r \in Requests |-> {}]
    /\ faults = Faults

Arrives(r) ==
    \/ SignUp(r) \/ VerifyEmail(r) \/ RenameHandle(r) \/ ChangeUnverifiedEmail(r)
    \/ CompleteDiscord(r) \/ DetachDiscord(r)

Proceeds(r) ==
    \/ SignUpLocksEmail(r) \/ SignUpCommits(r)
    \/ VerifyLocksEmail(r) \/ VerifyRechecks(r) \/ VerifyLocksUser(r) \/ VerifyCommits(r)
    \/ RenameLocksFirst(r) \/ RenameLocksSecond(r) \/ RenameCommits(r)
    \/ ChangeLocksEmail(r) \/ ChangeLocksUser(r) \/ ChangeCommits(r)
    \/ SyncLocksEmail(r) \/ SyncLocksUser(r) \/ SyncDiscordEmail(r)
    \/ SyncDiscordAccount(r) \/ AvailableDiscordHandle(r) \/ LockAvailableDiscordEmail(r)
    \/ CreateDiscordAccount(r)
    \/ AttachLocksIdentity(r) \/ AttachLocksUser(r) \/ AttachDiscord(r)
    \/ DetachLocksIdentity(r) \/ DetachLocksUser(r) \/ DetachCommits(r)

Next ==
    \/ \E r \in Requests : Arrives(r) \/ Proceeds(r) \/ Fails(r) \/ DeadlockAborts(r)
    \/ SignIn \/ SignOut \/ LinkRunsOut \/ BeginDiscord
    \/ SetPassword \/ RequestPasswordReset \/ CompletePasswordReset

Spec == Init /\ [][Next]_vars

(***************************************************************************)
(* Properties.                                                             *)
(***************************************************************************)

(* An address somebody has verified is theirs alone: no other account      *)
(* holds it, verified or pending, and no link that would verify it is out. *)
(* The sign-up, change, verify and Discord paths race for it under the     *)
(* address's lock (service.go:146, 287, 521; discord.go:269).              *)
VerifiedIsSole ==
    \A u \in Accounts : Verified(u) =>
        /\ \A v \in Accounts \ {u} : user[v].email # user[u].email
        /\ \A v \in Users : link[v] # None => link[v].email # user[u].email

(* A link that still works names the address its account holds unverified; *)
(* changing the address, losing it to another account or having Discord    *)
(* vouch for one kills the old link (service.go:534, 312; discord.go:290). *)
LinkNamesHeldAddress ==
    \A u \in Users : link[u] # None =>
        u \in Accounts /\ ~Verified(u) /\ user[u].email = link[u].email

(* Addresses stay sound across sign-up, change, verification and Discord,  *)
(* which lock the address, the account and the link's row one by one: one  *)
(* owner per verified address, and no working link for any other.          *)
AddressesSound == TypeOK /\ VerifiedIsSole /\ LinkNamesHeldAddress

(* No two accounts share a handle and nobody gets one that was given up,   *)
(* though sign-ups, renames and Discord's search for a free handle run at  *)
(* once (service.go:136, 430; discord.go:433).                             *)
HandlesNeverReused ==
    \A u \in Accounts :
        /\ user[u].handle \notin retired
        /\ \A v \in Accounts \ {u} : user[v].handle # user[u].handle

(* An account that can be signed in to for good, by a verified address and *)
(* a password or through Discord, always can be: detaching Discord asks    *)
(* under locks an attach takes too (discord.go:403).                       *)
CanReturn(u) == DiscordLinked(u) \/ (Verified(u) /\ user[u].password)
WayBackKept == [][\A u \in Accounts : CanReturn(u) => CanReturn(u)']_vars

(* An address a creator chose and verified is never replaced, by a Discord *)
(* sign-in that read the account earlier or by anything else               *)
(* (discord.go:180, UpdateDiscordEmail).                                   *)
CreatorAddressKept ==
    [][\A u \in Accounts : Verified(u) /\ user[u].source = "creator"
          => user'[u].email = user[u].email /\ user'[u].verified /\ user'[u].source = "creator"]_vars
=============================================================================
