--------------------------- MODULE AccountsProofs ---------------------------
(* Proofs about accounts, for any number of accounts, addresses, handles,  *)
(* Discord identities, requests under way and faults.                      *)
EXTENDS Accounts, WellFoundedInduction, TLAPS

(***************************************************************************)
(* What a request relies on between its steps: the locks it has taken, and *)
(* what it read under them, which still holds.                             *)
(***************************************************************************)
KeepsHandle(r, h) == <<"handle", h>> \in held[r] /\ ~HandleUnavailable(h)
KeepsAddress(r, e) == <<"email", e>> \in held[r] /\ ~VerifiedEmailExists(e)
KeepsSubject(r, s) == <<"identity", s>> \in held[r] /\ identity[s] = None
KeepsRow(r, u) == <<"user", u>> \in held[r]

SignUpRelies(r) ==
    LET j == job[r] IN
    j.op = "signup" =>
        /\ KeepsHandle(r, j.handle)
        /\ j.at = "commit" => KeepsAddress(r, j.email)

VerifyRelies(r) ==
    LET j == job[r] IN
    j.op = "verify" =>
        /\ j.user \in Accounts
        /\ j.at # "email" => <<"email", j.link.email>> \in held[r]
        /\ j.at = "commit" =>
              KeepsRow(r, j.user) /\ Holds(j.user, j.link.email) /\ ~Verified(j.user)

RenameRelies(r) ==
    LET j == job[r] IN
    j.op = "rename" =>
        /\ j.user \in Accounts /\ KeepsRow(r, j.user)
        /\ j.at = "second" =>
              <<"handle", OrderedHandles(user[j.user].handle, j.handle)[1]>> \in held[r]
        /\ j.at = "commit" => KeepsHandle(r, j.handle)

ChangeRelies(r) ==
    LET j == job[r] IN
    j.op = "change" =>
        /\ j.user \in Accounts
        /\ j.at # "email" => KeepsAddress(r, j.email)
        /\ j.at = "commit" => KeepsRow(r, j.user) /\ ~Verified(j.user)

SyncRelies(r) ==
    LET j == job[r] IN
    j.op = "discord" /\ j.at \in {"sync email", "sync user", "commit sync", "profile"} =>
        /\ j.user \in Accounts
        /\ j.at # "profile" => j.profile.email # None
        /\ j.at \in {"sync user", "commit sync"} => KeepsAddress(r, j.profile.email)
        /\ j.at = "commit sync" => KeepsRow(r, j.user) /\ MaySync(j.user)

CreateRelies(r) ==
    LET j == job[r] IN
    j.op = "discord" /\ j.at \in {"handle", "email", "commit"} =>
        /\ KeepsSubject(r, j.profile.subject)
        /\ j.at # "handle" => KeepsHandle(r, j.handle)
        /\ j.at = "email" => j.profile.email # None
        /\ j.at = "commit" =>
              j.profile.email = None \/ KeepsAddress(r, j.profile.email)

AttachRelies(r) ==
    LET j == job[r] IN
    j.op = "attach" =>
        /\ j.user \in Accounts
        /\ j.at # "identity" => KeepsSubject(r, j.profile.subject)

DetachRelies(r) ==
    LET j == job[r] IN
    j.op = "detach" =>
        /\ j.user \in Accounts
        /\ j.at = "identities" => j.subjects # {}
        /\ j.at = "commit" => Verified(j.user) /\ user[j.user].password

Relies(r) ==
    /\ SignUpRelies(r) /\ VerifyRelies(r) /\ RenameRelies(r) /\ ChangeRelies(r)
    /\ SyncRelies(r) /\ CreateRelies(r) /\ AttachRelies(r) /\ DetachRelies(r)

(* A lock has one holder.                                                  *)
LocksExclude == \A r, q \in Requests : r # q => held[r] \cap held[q] = {}

(* An attaching flow was started by an account; a request names accounts.  *)
FlowsNameAccounts ==
    \A f \in Flows : flow[f] # None /\ flow[f].intent = "attach" => flow[f].user \in Accounts

(* Discord vouches: an address from there is verified, so no link is out.  *)
DiscordIsVerified == \A u \in Accounts : user[u].source = "discord" => user[u].verified

(* What the tables alone say, and what the requests under way add to it.   *)
TablesTyped ==
    /\ user \in [Users -> User \cup {None}]
    /\ \A u \in Accounts :
          /\ (user[u].email = None) <=> (user[u].source = None)
          /\ user[u].verified => user[u].email # None
    /\ retired \subseteq Handles
    /\ identity \in [Subjects -> Users \cup {None}]
    /\ \A s \in Subjects : identity[s] = None \/ identity[s] \in Accounts
    /\ session \subseteq Accounts
    /\ link \in [Users -> Link \cup {None}]
    /\ mails \in 0..MaxMails
    /\ reset \subseteq Accounts
    /\ flow \in [Flows -> Flow \cup {None}]

TablesSound ==
    /\ TablesTyped /\ VerifiedIsSole /\ LinkNamesHeldAddress /\ HandlesNeverReused
    /\ DiscordIsVerified /\ FlowsNameAccounts

RequestsTyped ==
    job \in [Requests -> Job] /\ held \in [Requests -> SUBSET LockNames] /\ faults \in 0..Faults

AccountsInv ==
    /\ TablesSound /\ RequestsTyped /\ LocksExclude
    /\ \A r \in Requests : Relies(r)

-----------------------------------------------------------------------------
(* Requests.  What kind of request it is fixes where it may be and what it *)
(* carries along.                                                          *)
LEMMA JobFields ==
    ASSUME NEW j \in Job
    PROVE  /\ j.op = "idle" => j = Idle
           /\ j.op = "signup" =>
                 j.at \in {"email", "commit"} /\ j.handle \in Handles /\ j.email \in Emails
           /\ j.op = "verify" =>
                 j.at \in {"email", "recheck", "user", "commit"} /\ j.user \in Users /\ j.link \in Link
           /\ j.op = "rename" =>
                 j.at \in {"first", "second", "commit"} /\ j.user \in Users /\ j.handle \in Handles
           /\ j.op = "change" =>
                 j.at \in {"email", "user", "commit"} /\ j.user \in Users /\ j.email \in Emails
           /\ j.op = "attach" =>
                 j.at \in {"identity", "user", "commit"} /\ j.profile \in Profile /\ j.user \in Users
           /\ j.op = "detach" =>
                 /\ j.at \in {"identities", "user", "commit"} /\ j.user \in Users
                 /\ j.subjects \subseteq Subjects
           /\ j.op = "discord" =>
                 /\ j.profile \in Profile
                 /\ \/ j.at \in {"sync email", "sync user", "commit sync", "profile"} /\ j.user \in Users
                    \/ j.at = "handle" /\ j.try \in 1..Len(Candidates)
                    \/ j.at \in {"email", "commit"} /\ j.handle \in Handles
           /\ j.op \in {"idle", "signup", "verify", "rename", "change", "attach", "detach", "discord"}
BY DEF Job, Idle

LEMMA JobMoves ==
    ASSUME NEW j \in Job, NEW a
    PROVE  /\ j.op = "signup" /\ a = "commit" => [j EXCEPT !.at = a] \in Job
           /\ j.op = "verify" /\ a \in {"recheck", "user", "commit"} => [j EXCEPT !.at = a] \in Job
           /\ j.op = "rename" /\ a \in {"second", "commit"} => [j EXCEPT !.at = a] \in Job
           /\ j.op = "change" /\ a \in {"user", "commit"} => [j EXCEPT !.at = a] \in Job
           /\ j.op = "attach" /\ a \in {"user", "commit"} => [j EXCEPT !.at = a] \in Job
           /\ j.op = "detach" /\ a \in {"user", "commit"} => [j EXCEPT !.at = a] \in Job
           /\ j.op = "discord" /\ j.at \in {"sync email", "sync user"} =>
                 (a \in {"sync user", "commit sync"} => [j EXCEPT !.at = a] \in Job)
           /\ j.op = "discord" /\ j.at = "email" /\ a = "commit" => [j EXCEPT !.at = a] \in Job
<1>1. ASSUME j.op = "signup", a = "commit" PROVE [j EXCEPT !.at = a] \in Job
  <2> DEFINE T == [op : {"signup"}, at : {"email", "commit"}, handle : Handles, email : Emails]
  <2>1. j \in T
    BY <1>1 DEF Job
  <2>2. [j EXCEPT !.at = a] \in T
    BY <1>1, <2>1
  <2> QED
    BY <2>2 DEF Job
<1>2. ASSUME j.op = "verify", a \in {"recheck", "user", "commit"} PROVE [j EXCEPT !.at = a] \in Job
  <2> DEFINE T == [op : {"verify"}, at : {"email", "recheck", "user", "commit"}, user : Users, link : Link]
  <2>1. j \in T
    BY <1>2 DEF Job
  <2>2. [j EXCEPT !.at = a] \in T
    BY <1>2, <2>1
  <2> QED
    BY <2>2 DEF Job
<1>3. ASSUME j.op = "rename", a \in {"second", "commit"} PROVE [j EXCEPT !.at = a] \in Job
  <2> DEFINE T == [op : {"rename"}, at : {"first", "second", "commit"}, user : Users, handle : Handles]
  <2>1. j \in T
    BY <1>3 DEF Job
  <2>2. [j EXCEPT !.at = a] \in T
    BY <1>3, <2>1
  <2> QED
    BY <2>2 DEF Job
<1>4. ASSUME j.op = "change", a \in {"user", "commit"} PROVE [j EXCEPT !.at = a] \in Job
  <2> DEFINE T == [op : {"change"}, at : {"email", "user", "commit"}, user : Users, email : Emails]
  <2>1. j \in T
    BY <1>4 DEF Job
  <2>2. [j EXCEPT !.at = a] \in T
    BY <1>4, <2>1
  <2> QED
    BY <2>2 DEF Job
<1>5. ASSUME j.op = "attach", a \in {"user", "commit"} PROVE [j EXCEPT !.at = a] \in Job
  <2> DEFINE T == [op : {"attach"}, at : {"identity", "user", "commit"}, profile : Profile,
                   user : Users]
  <2>1. j \in T
    BY <1>5 DEF Job
  <2>2. [j EXCEPT !.at = a] \in T
    BY <1>5, <2>1
  <2> QED
    BY <2>2 DEF Job
<1>6. ASSUME j.op = "detach", a \in {"user", "commit"} PROVE [j EXCEPT !.at = a] \in Job
  <2> DEFINE T == [op : {"detach"}, at : {"identities", "user", "commit"}, user : Users,
                   subjects : SUBSET Subjects]
  <2>1. j \in T
    BY <1>6 DEF Job
  <2>2. [j EXCEPT !.at = a] \in T
    BY <1>6, <2>1
  <2> QED
    BY <2>2 DEF Job
<1>7. ASSUME j.op = "discord", j.at \in {"sync email", "sync user"}, a \in {"sync user", "commit sync"} PROVE [j EXCEPT !.at = a] \in Job
  <2> DEFINE T == [op : {"discord"}, at : {"sync email", "sync user", "commit sync", "profile"},
                   profile : Profile, user : Users]
  <2>1. j \in T
    BY <1>7 DEF Job
  <2>2. [j EXCEPT !.at = a] \in T
    BY <1>7, <2>1
  <2> QED
    BY <2>2 DEF Job
<1>8. ASSUME j.op = "discord", j.at = "email", a = "commit" PROVE [j EXCEPT !.at = a] \in Job
  <2> DEFINE T == [op : {"discord"}, at : {"email", "commit"}, profile : Profile, handle : Handles]
  <2>1. j \in T
    BY <1>8 DEF Job
  <2>2. [j EXCEPT !.at = a] \in T
    BY <1>8, <2>1
  <2> QED
    BY <2>2 DEF Job
<1> QED
  BY <1>1, <1>2, <1>3, <1>4, <1>5, <1>6, <1>7, <1>8

(* The locks a step takes are advisory locks or rows there are.            *)
LEMMA SmallestSubject ==
    ASSUME NEW S, S \subseteq Nat, S # {}
    PROVE  Min(S) \in S
<1>1. PICK x \in S : \A y \in S : ~(<<y, x>> \in OpToRel(<, Nat))
  BY NatLessThanWellFounded, WFMin
<1>2. ASSUME NEW y \in S, y < x
      PROVE  <<y, x>> \in OpToRel(<, Nat)
  BY <1>2, <<y, x>> \in Nat \X Nat, <<y, x>>[1] < <<y, x>>[2] DEF OpToRel
<1>3. \A y \in S : ~(y < x)
  BY <1>1, <1>2, Zenon
<1>4. \A y \in S : x =< y
  BY <1>3
<1> QED
  BY <1>4 DEF Min

LEMMA WantsAddress ==
    ASSUME NEW r \in Requests
    PROVE  /\ At(r, "signup", "email") => Wants(r) = {<<"email", job[r].email>>}
           /\ At(r, "verify", "email") => Wants(r) = {<<"email", job[r].link.email>>}
           /\ At(r, "change", "email") => Wants(r) = {<<"email", job[r].email>>}
           /\ At(r, "discord", "email") \/ At(r, "discord", "sync email") =>
                 Wants(r) = {<<"email", job[r].profile.email>>}
BY DEF Wants, At

LEMMA WantsHandle ==
    ASSUME NEW r \in Requests
    PROVE  /\ At(r, "rename", "first") =>
                 Wants(r) = {<<"handle", OrderedHandles(user[job[r].user].handle, job[r].handle)[1]>>}
           /\ At(r, "rename", "second") =>
                 Wants(r) = {<<"handle", OrderedHandles(user[job[r].user].handle, job[r].handle)[2]>>}
           /\ At(r, "discord", "handle") => Wants(r) = {<<"handle", Candidates[job[r].try]>>}
BY DEF Wants, At

LEMMA WantsSubject ==
    ASSUME NEW r \in Requests
    PROVE  /\ At(r, "attach", "identity") => Wants(r) = {<<"identity", job[r].profile.subject>>}
           /\ At(r, "detach", "identities") => Wants(r) = {<<"identity", Min(job[r].subjects)>>}
BY DEF Wants, At

LEMMA WantsRow ==
    ASSUME NEW r \in Requests, job[r].at \in {"user", "sync user", "profile"}
    PROVE  Wants(r) = {<<"user", job[r].user>>}
BY DEF Wants, At

LEMMA WantsLink ==
    ASSUME NEW r \in Requests, At(r, "verify", "recheck") \/ At(r, "change", "commit")
    PROVE  Wants(r) = {<<"link", job[r].user>>}
BY DEF Wants, At

LEMMA WantsCopies ==
    ASSUME NEW r \in Requests
    PROVE  /\ At(r, "verify", "commit") =>
                 Wants(r) = {"user", "link"} \X PendingCopies(job[r].link.email, job[r].user)
           /\ At(r, "discord", "commit") \/ At(r, "discord", "commit sync") =>
                 Wants(r) = {"user", "link"} \X {v \in Accounts : job[r].profile.email # None
                                /\ Holds(v, job[r].profile.email) /\ ~Verified(v)}
BY DEF Wants, At

LEMMA WantsNothing ==
    ASSUME NEW r \in Requests,
           \/ job[r].op = "idle" /\ job[r].at = "end"
           \/ job[r].op \in {"signup", "rename", "attach", "detach"} /\ job[r].at = "commit"
    PROVE  Wants(r) = {}
BY DEF Wants, At

LEMMA LockNamesAre ==
    /\ \A h \in Handles : {<<"handle", h>>} \subseteq LockNames
    /\ \A e \in Emails : {<<"email", e>>} \subseteq LockNames
    /\ \A s \in Subjects : {<<"identity", s>>} \subseteq LockNames
    /\ \A u \in Users : {<<"owner", u>>} \subseteq LockNames /\ {<<"user", u>>} \subseteq LockNames
                          /\ {<<"link", u>>} \subseteq LockNames
    /\ \A D \in SUBSET Users : {"user", "link"} \X D \subseteq LockNames
BY DEF LockNames

LEMMA WantsAreLocks ==
    ASSUME AccountsInv, NEW r \in Requests
    PROVE  Wants(r) \subseteq LockNames
<1> DEFINE j == job[r]
<1>1. j \in Job /\ TablesTyped /\ Relies(r)
  BY DEF AccountsInv, TablesSound, RequestsTyped
<1>2. CASE j.op = "signup"
  <2>1. j.at \in {"email", "commit"} /\ j.email \in Emails
    BY <1>1, <1>2, JobFields
  <2>2. Wants(r) = {<<"email", j.email>>} \/ Wants(r) = {}
    BY <1>2, <2>1, WantsAddress, WantsNothing DEF At
  <2> QED
    BY <2>1, <2>2, LockNamesAre
<1>3. CASE j.op = "verify"
  <2>1. j.at \in {"email", "recheck", "user", "commit"} /\ j.user \in Users /\ j.link.email \in Emails
    BY <1>1, <1>3, JobFields DEF Link
  <2>2. \/ Wants(r) = {<<"email", j.link.email>>} \/ Wants(r) = {<<"link", j.user>>}
        \/ Wants(r) = {<<"user", j.user>>}
        \/ Wants(r) = {"user", "link"} \X PendingCopies(j.link.email, j.user)
    BY <1>3, <2>1, WantsAddress, WantsLink, WantsRow, WantsCopies DEF At
  <2>3. PendingCopies(j.link.email, j.user) \in SUBSET Users
    BY DEF PendingCopies, Accounts
  <2> QED
    BY <2>1, <2>2, <2>3, LockNamesAre
<1>4. CASE j.op = "rename"
  <2> DEFINE pair == OrderedHandles(user[j.user].handle, j.handle)
  <2>1. j.at \in {"first", "second", "commit"} /\ j.handle \in Handles
    BY <1>1, <1>4, JobFields
  <2>2. user[j.user].handle \in Handles
    BY <1>1, <1>4 DEF Relies, RenameRelies, Accounts, TablesTyped, User
  <2>3. pair[1] \in Handles /\ pair[2] \in Handles
    BY <2>1, <2>2 DEF OrderedHandles
  <2>4. Wants(r) = {<<"handle", pair[1]>>} \/ Wants(r) = {<<"handle", pair[2]>>} \/ Wants(r) = {}
    BY <1>4, <2>1, WantsHandle, WantsNothing DEF At
  <2> QED
    BY <2>3, <2>4, LockNamesAre
<1>5. CASE j.op = "change"
  <2>1. j.at \in {"email", "user", "commit"} /\ j.email \in Emails /\ j.user \in Users
    BY <1>1, <1>5, JobFields
  <2>2. \/ Wants(r) = {<<"email", j.email>>} \/ Wants(r) = {<<"link", j.user>>}
        \/ Wants(r) = {<<"user", j.user>>}
    BY <1>5, <2>1, WantsAddress, WantsRow, WantsLink DEF At
  <2> QED
    BY <2>1, <2>2, LockNamesAre
<1>6. CASE j.op = "attach"
  <2>1. j.at \in {"identity", "user", "commit"} /\ j.profile.subject \in Subjects /\ j.user \in Users
    BY <1>1, <1>6, JobFields DEF Profile
  <2>2. \/ Wants(r) = {<<"identity", j.profile.subject>>} \/ Wants(r) = {<<"user", j.user>>}
        \/ Wants(r) = {}
    BY <1>6, <2>1, WantsSubject, WantsRow, WantsNothing DEF At
  <2> QED
    BY <2>1, <2>2, LockNamesAre
<1>7. CASE j.op = "detach"
  <2>1. j.at \in {"identities", "user", "commit"} /\ j.user \in Users
    BY <1>1, <1>7, JobFields
  <2>2. j.at = "identities" => Min(j.subjects) \in Subjects
    BY <1>1, <1>7, JobFields, SmallestSubject, AccountsAssumption DEF Relies, DetachRelies
  <2>3. \/ j.at = "identities" /\ Wants(r) = {<<"identity", Min(j.subjects)>>}
        \/ Wants(r) = {<<"user", j.user>>} \/ Wants(r) = {}
    BY <1>7, <2>1, WantsSubject, WantsRow, WantsNothing DEF At
  <2> QED
    BY <2>1, <2>2, <2>3, LockNamesAre
<1>8. CASE j.op = "discord"
  <2> DEFINE D == {v \in Accounts : j.profile.email # None /\ Holds(v, j.profile.email) /\ ~Verified(v)}
  <2>1. j.at \in {"sync email", "sync user", "commit sync", "profile", "handle", "email", "commit"}
    BY <1>1, <1>8, JobFields
  <2>2. CASE j.at = "handle"
    <3>1. Candidates[j.try] \in Handles
      <4>1. j.try \in 1..Len(Candidates)
        BY <1>1, <1>8, <2>2, JobFields
      <4> QED
        BY <4>1, AccountsAssumption
    <3>2. Wants(r) = {<<"handle", Candidates[j.try]>>}
      BY <1>8, <2>2, WantsHandle DEF At
    <3> QED
      BY <3>1, <3>2, LockNamesAre
  <2>3. CASE j.at \in {"email", "sync email"}
    <3>1. j.profile.email \in Emails
      BY <1>1, <1>8, <2>3, JobFields DEF Relies, SyncRelies, CreateRelies, Profile
    <3>2. Wants(r) = {<<"email", j.profile.email>>}
      BY <1>8, <2>3, WantsAddress DEF At
    <3> QED
      BY <3>1, <3>2, LockNamesAre
  <2>4. CASE j.at \in {"commit", "commit sync"}
    <3>1. Wants(r) = {"user", "link"} \X D
      BY <1>8, <2>4, WantsCopies DEF At
    <3>2. D \in SUBSET Users
      BY DEF Accounts
    <3> HIDE DEF D
    <3> QED
      BY <3>1, <3>2, LockNamesAre
  <2>5. CASE j.at \in {"sync user", "profile"}
    <3>1. j.user \in Users
      BY <1>1, <1>8, <2>5, JobFields
    <3>2. Wants(r) = {<<"user", j.user>>}
      BY <1>8, <2>5, WantsRow DEF At
    <3> QED
      BY <3>1, <3>2, LockNamesAre
  <2> QED
    BY <2>1, <2>2, <2>3, <2>4, <2>5
<1>9. CASE j.op = "idle"
  <2>1. j = Idle
    BY <1>1, <1>9, JobFields
  <2>2. j.at = "end"
    BY <2>1 DEF Idle
  <2> QED
    BY <1>9, <2>2, WantsNothing
<1> QED
  BY <1>1, <1>2, <1>3, <1>4, <1>5, <1>6, <1>7, <1>8, <1>9, JobFields

-----------------------------------------------------------------------------
(* Steps of others.  A step that writes only what its locks L cover leaves *)
(* a request that holds none of them what it relies on.                    *)
WritesUnder(L) ==
    /\ Accounts \subseteq Accounts'
    /\ \A h \in Handles : HandleUnavailable(h)' => HandleUnavailable(h) \/ <<"handle", h>> \in L
    /\ \A e \in Emails : VerifiedEmailExists(e)' => VerifiedEmailExists(e) \/ <<"email", e>> \in L
    /\ \A s \in Subjects : identity[s] = None => identity'[s] = None \/ <<"identity", s>> \in L
    /\ \A u \in Accounts : user'[u] = user[u] \/ <<"user", u>> \in L
    /\ \A u \in Accounts : user[u].verified /\ user[u].password
                            => user'[u].verified /\ user'[u].password

LEMMA OthersRely ==
    ASSUME NEW q \in Requests, NEW L, job[q] \in Job, WritesUnder(L), held[q] \cap L = {},
           job'[q] = job[q], held'[q] = held[q], Relies(q)
    PROVE  Relies(q)'
<1> DEFINE j == job[q]
<1>1. \A h \in Handles : KeepsHandle(q, h) => KeepsHandle(q, h)'
  BY DEF KeepsHandle, WritesUnder
<1>2. \A e \in Emails : KeepsAddress(q, e) => KeepsAddress(q, e)'
  BY DEF KeepsAddress, WritesUnder
<1>3. \A s \in Subjects : KeepsSubject(q, s) => KeepsSubject(q, s)'
  BY DEF KeepsSubject, WritesUnder
<1>4. \A u \in Accounts : KeepsRow(q, u) => KeepsRow(q, u)' /\ user'[u] = user[u]
  BY DEF KeepsRow, WritesUnder
<1>5. Accounts \subseteq Accounts' /\ Accounts \subseteq Users
  BY DEF WritesUnder, Accounts
<1>6. SignUpRelies(q)'
  BY <1>1, <1>2, JobFields DEF Relies, SignUpRelies, KeepsHandle, KeepsAddress
<1>7. VerifyRelies(q)'
  BY <1>4, <1>5, JobFields DEF Relies, VerifyRelies, KeepsRow, Holds, Verified, Accounts
<1>8. RenameRelies(q)'
  BY <1>1, <1>4, <1>5, JobFields DEF Relies, RenameRelies, KeepsHandle, KeepsRow
<1>9. ChangeRelies(q)'
  BY <1>2, <1>4, <1>5, JobFields DEF Relies, ChangeRelies, KeepsAddress, KeepsRow, Verified
<1>10. SyncRelies(q)'
  <2>1. j.op = "discord" => j.profile.email \in Emails \cup {None}
    BY JobFields DEF Profile
  <2> QED
    BY <1>2, <1>4, <1>5, <2>1, JobFields DEF Relies, SyncRelies, KeepsAddress, KeepsRow, MaySync
<1>11. CreateRelies(q)'
  <2>1. j.op = "discord" => j.profile.email \in Emails \cup {None} /\ j.profile.subject \in Subjects
    BY JobFields DEF Profile
  <2> QED
    BY <1>1, <1>2, <1>3, <2>1, JobFields
       DEF Relies, CreateRelies, KeepsAddress, KeepsSubject, KeepsHandle
<1>12. AttachRelies(q)'
  BY <1>3, <1>5, JobFields DEF Relies, AttachRelies, KeepsSubject, Profile
<1>13. DetachRelies(q)'
  BY <1>5, JobFields DEF Relies, DetachRelies, WritesUnder, Verified, Accounts
<1> QED
  BY <1>6, <1>7, <1>8, <1>9, <1>10, <1>11, <1>12, <1>13 DEF Relies

(* A step of request r: the tables stay sound, what it writes is under its *)
(* locks, the locks it takes are free, and it may rely on what it should.  *)
LEMMA RequestStep ==
    ASSUME AccountsInv, NEW r \in Requests, NEW j \in Job, NEW L \in SUBSET LockNames, NEW K,
           Free(r, L), Free(r, K), L \subseteq held[r] \cup K,
           job' = [job EXCEPT ![r] = j], held' = [held EXCEPT ![r] = L], faults' \in 0..Faults,
           TablesSound', WritesUnder(held[r] \cup K), Relies(r)'
    PROVE  AccountsInv'
<1>1. RequestsTyped'
  BY DEF AccountsInv, RequestsTyped
<1>2. LocksExclude'
  BY DEF AccountsInv, LocksExclude, RequestsTyped, Free
<1>3. ASSUME NEW q \in Requests, q # r
      PROVE  Relies(q)'
  <2>1. held[q] \cap (held[r] \cup K) = {}
    BY <1>3 DEF AccountsInv, LocksExclude, Free
  <2>2. job'[q] = job[q] /\ held'[q] = held[q] /\ job[q] \in Job /\ Relies(q)
    BY <1>3 DEF AccountsInv, RequestsTyped
  <2> QED
    BY <2>1, <2>2, OthersRely
<1> QED
  BY <1>1, <1>2, <1>3 DEF AccountsInv

(* A commit or a rollback: nothing to rely on any more.                    *)
LEMMA EndStep ==
    ASSUME AccountsInv, NEW r \in Requests, Ends(r), faults' \in 0..Faults,
           TablesSound', WritesUnder(held[r] \cup Wants(r))
    PROVE  AccountsInv'
<1>1. Idle \in Job /\ {} \in SUBSET LockNames
  BY DEF Job, Idle
<1>2. job'[r] = Idle
  BY DEF Ends, AccountsInv, RequestsTyped
<1>3. Relies(r)'
  BY <1>2 DEF Idle, Relies, SignUpRelies, VerifyRelies, RenameRelies, ChangeRelies,
              SyncRelies, CreateRelies, AttachRelies, DetachRelies
<1>4. Free(r, {})
  BY DEF Free
<1> QED
  BY <1>1, <1>3, <1>4, RequestStep DEF Ends

(* The tables as they were.                                                *)
LEMMA TablesUnchanged ==
    ASSUME TablesSound, UNCHANGED Tables, NEW L
    PROVE  TablesSound' /\ WritesUnder(L)
<1>1. TablesSound'
  BY DEF Tables, TablesSound, TablesTyped, VerifiedIsSole, LinkNamesHeldAddress, HandlesNeverReused,
         DiscordIsVerified, FlowsNameAccounts, Accounts, Verified
<1>2. WritesUnder(L)
  BY DEF Tables, WritesUnder, Accounts, HandleUnavailable, VerifiedEmailExists, Verified
<1> QED
  BY <1>1, <1>2

(* Taking the next locks: goes on if the check passes.                     *)
LEMMA TakeStep ==
    ASSUME AccountsInv, NEW r \in Requests, NEW check, NEW next, TakesIf(r, check, next),
           [job[r] EXCEPT !.at = next] \in Job,
           (check /\ job'[r] = [job[r] EXCEPT !.at = next] /\ held'[r] = held[r] \cup Wants(r))
               => Relies(r)'
    PROVE  AccountsInv'
<1>1. UNCHANGED Tables /\ faults' \in 0..Faults
  BY DEF TakesIf, AccountsInv, RequestsTyped
<1>2. TablesSound' /\ WritesUnder(held[r] \cup Wants(r))
  BY <1>1, TablesUnchanged DEF AccountsInv
<1>3. CASE check
  <2> DEFINE L == held[r] \cup Wants(r)
             j == [job[r] EXCEPT !.at = next]
  <2>1. /\ job' = [job EXCEPT ![r] = j] /\ held' = [held EXCEPT ![r] = L] /\ Free(r, Wants(r))
    BY <1>3 DEF TakesIf, Takes, AccountsInv, RequestsTyped
  <2>2. L \in SUBSET LockNames /\ Free(r, L)
    BY <2>1, WantsAreLocks DEF AccountsInv, RequestsTyped, LocksExclude, Free
  <2>3. Relies(r)'
    BY <1>3, <2>1 DEF AccountsInv, RequestsTyped
  <2> QED
    BY <1>1, <1>2, <2>1, <2>2, <2>3, RequestStep
<1>4. CASE ~check
  BY <1>1, <1>2, <1>4, EndStep DEF TakesIf
<1> QED
  BY <1>3, <1>4

(* A request arrives.                                                      *)
LEMMA BeginStep ==
    ASSUME AccountsInv, NEW r \in Requests, NEW L \in SUBSET LockNames, NEW j \in Job,
           Begins(r, L, j), UNCHANGED <<Tables, faults>>,
           job'[r] = j /\ held'[r] = L => Relies(r)'
    PROVE  AccountsInv'
<1>1. TablesSound' /\ WritesUnder(held[r] \cup L)
  BY TablesUnchanged DEF AccountsInv
<1>2. Relies(r)' /\ faults' \in 0..Faults
  BY DEF Begins, AccountsInv, RequestsTyped
<1> QED
  BY <1>1, <1>2, RequestStep DEF Begins

(* Which of the conditions a request is under.                             *)
LEMMA ReliesAs ==
    ASSUME NEW r \in Requests
    PROVE  /\ job'[r].op = "signup" /\ SignUpRelies(r)' => Relies(r)'
           /\ job'[r].op = "verify" /\ VerifyRelies(r)' => Relies(r)'
           /\ job'[r].op = "rename" /\ RenameRelies(r)' => Relies(r)'
           /\ job'[r].op = "change" /\ ChangeRelies(r)' => Relies(r)'
           /\ job'[r].op = "discord" /\ SyncRelies(r)' /\ CreateRelies(r)' => Relies(r)'
           /\ job'[r].op = "attach" /\ AttachRelies(r)' => Relies(r)'
           /\ job'[r].op = "detach" /\ DetachRelies(r)' => Relies(r)'
BY DEF Relies, SignUpRelies, VerifyRelies, RenameRelies, ChangeRelies, SyncRelies, CreateRelies,
       AttachRelies, DetachRelies

LEMMA SignUpLocksEmailKeeps ==
    ASSUME AccountsInv, NEW r \in Requests, SignUpLocksEmail(r)
    PROVE  AccountsInv'
<1>1. At(r, "signup", "email") /\ TakesIf(r, ~VerifiedEmailExists(job[r].email), "commit")
  BY DEF SignUpLocksEmail
<1>2. job[r] \in Job /\ [job[r] EXCEPT !.at = "commit"] \in Job /\ SignUpRelies(r)
  BY <1>1, JobMoves DEF At, AccountsInv, RequestsTyped, Relies
<1>3. ASSUME ~VerifiedEmailExists(job[r].email), job'[r] = [job[r] EXCEPT !.at = "commit"],
             held'[r] = held[r] \cup Wants(r)
      PROVE  Relies(r)'
  <2>1. <<"email", job[r].email>> \in Wants(r)
    BY <1>1, WantsAddress
  <2>2. /\ job'[r].op = "signup" /\ job'[r].at = "commit"
        /\ job'[r].handle = job[r].handle /\ job'[r].email = job[r].email
    BY <1>1, <1>2, <1>3 DEF At, Job
  <2>3. SignUpRelies(r)'
    BY <1>1, <1>2, <1>3, <2>1, <2>2
       DEF At, SignUpRelies, KeepsHandle, KeepsAddress, HandleUnavailable, VerifiedEmailExists, Verified, Accounts, TakesIf, Tables
  <2> QED
    BY <2>2, <2>3, ReliesAs
<1> QED
  BY <1>1, <1>2, <1>3, TakeStep

LEMMA VerifyLocksEmailKeeps ==
    ASSUME AccountsInv, NEW r \in Requests, VerifyLocksEmail(r)
    PROVE  AccountsInv'
<1>1. At(r, "verify", "email") /\ TakesIf(r, TRUE, "recheck")
  BY DEF VerifyLocksEmail
<1>2. job[r] \in Job /\ [job[r] EXCEPT !.at = "recheck"] \in Job /\ VerifyRelies(r)
  BY <1>1, JobMoves DEF At, AccountsInv, RequestsTyped, Relies
<1>3. ASSUME job'[r] = [job[r] EXCEPT !.at = "recheck"],
             held'[r] = held[r] \cup Wants(r)
      PROVE  Relies(r)'
  <2>1. <<"email", job[r].link.email>> \in Wants(r)
    BY <1>1, WantsAddress
  <2>2. /\ job'[r].op = "verify" /\ job'[r].at = "recheck"
        /\ job'[r].user = job[r].user /\ job'[r].link = job[r].link
    BY <1>1, <1>2, <1>3 DEF At, Job
  <2>3. VerifyRelies(r)'
    BY <1>1, <1>2, <1>3, <2>1, <2>2
       DEF At, VerifyRelies, Accounts, TakesIf, Tables
  <2> QED
    BY <2>2, <2>3, ReliesAs
<1> QED
  BY <1>1, <1>2, <1>3, TakeStep

LEMMA VerifyRechecksKeeps ==
    ASSUME AccountsInv, NEW r \in Requests, VerifyRechecks(r)
    PROVE  AccountsInv'
<1>1. At(r, "verify", "recheck") /\ TakesIf(r, job[r].user \in VerificationByHash(job[r].link), "user")
  BY DEF VerifyRechecks
<1>2. job[r] \in Job /\ [job[r] EXCEPT !.at = "user"] \in Job /\ VerifyRelies(r)
  BY <1>1, JobMoves DEF At, AccountsInv, RequestsTyped, Relies
<1>3. ASSUME job[r].user \in VerificationByHash(job[r].link), job'[r] = [job[r] EXCEPT !.at = "user"],
             held'[r] = held[r] \cup Wants(r)
      PROVE  Relies(r)'
  <2>1. <<"link", job[r].user>> \in Wants(r)
    BY <1>1, WantsLink
  <2>2. /\ job'[r].op = "verify" /\ job'[r].at = "user"
        /\ job'[r].user = job[r].user /\ job'[r].link = job[r].link
    BY <1>1, <1>2, <1>3 DEF At, Job
  <2>3. VerifyRelies(r)'
    BY <1>1, <1>2, <1>3, <2>1, <2>2
       DEF At, VerifyRelies, Accounts, TakesIf, Tables
  <2> QED
    BY <2>2, <2>3, ReliesAs
<1> QED
  BY <1>1, <1>2, <1>3, TakeStep

LEMMA VerifyLocksUserKeeps ==
    ASSUME AccountsInv, NEW r \in Requests, VerifyLocksUser(r)
    PROVE  AccountsInv'
<1>1. At(r, "verify", "user") /\ TakesIf(r, Holds(job[r].user, job[r].link.email) /\ ~Verified(job[r].user), "commit")
  BY DEF VerifyLocksUser
<1>2. job[r] \in Job /\ [job[r] EXCEPT !.at = "commit"] \in Job /\ VerifyRelies(r)
  BY <1>1, JobMoves DEF At, AccountsInv, RequestsTyped, Relies
<1>3. ASSUME Holds(job[r].user, job[r].link.email) /\ ~Verified(job[r].user), job'[r] = [job[r] EXCEPT !.at = "commit"],
             held'[r] = held[r] \cup Wants(r)
      PROVE  Relies(r)'
  <2>1. <<"user", job[r].user>> \in Wants(r)
    BY <1>1, WantsRow DEF At
  <2>2. /\ job'[r].op = "verify" /\ job'[r].at = "commit"
        /\ job'[r].user = job[r].user /\ job'[r].link = job[r].link
    BY <1>1, <1>2, <1>3 DEF At, Job
  <2>3. VerifyRelies(r)'
    BY <1>1, <1>2, <1>3, <2>1, <2>2
       DEF At, VerifyRelies, KeepsRow, Holds, Verified, Accounts, TakesIf, Tables
  <2> QED
    BY <2>2, <2>3, ReliesAs
<1> QED
  BY <1>1, <1>2, <1>3, TakeStep

LEMMA RenameLocksFirstKeeps ==
    ASSUME AccountsInv, NEW r \in Requests, RenameLocksFirst(r)
    PROVE  AccountsInv'
<1>1. At(r, "rename", "first") /\ TakesIf(r, TRUE, "second")
  BY DEF RenameLocksFirst
<1>2. job[r] \in Job /\ [job[r] EXCEPT !.at = "second"] \in Job /\ RenameRelies(r)
  BY <1>1, JobMoves DEF At, AccountsInv, RequestsTyped, Relies
<1>3. ASSUME job'[r] = [job[r] EXCEPT !.at = "second"],
             held'[r] = held[r] \cup Wants(r)
      PROVE  Relies(r)'
  <2>1. <<"handle", OrderedHandles(user[job[r].user].handle, job[r].handle)[1]>> \in Wants(r)
    BY <1>1, WantsHandle
  <2>2. /\ job'[r].op = "rename" /\ job'[r].at = "second"
        /\ job'[r].user = job[r].user /\ job'[r].handle = job[r].handle
    BY <1>1, <1>2, <1>3 DEF At, Job
  <2>3. RenameRelies(r)'
    BY <1>1, <1>2, <1>3, <2>1, <2>2
       DEF At, RenameRelies, KeepsRow, Accounts, TakesIf, Tables
  <2> QED
    BY <2>2, <2>3, ReliesAs
<1> QED
  BY <1>1, <1>2, <1>3, TakeStep

LEMMA RenameLocksSecondKeeps ==
    ASSUME AccountsInv, NEW r \in Requests, RenameLocksSecond(r)
    PROVE  AccountsInv'
<1>1. At(r, "rename", "second") /\ TakesIf(r, ~HandleUnavailable(job[r].handle), "commit")
  BY DEF RenameLocksSecond
<1>2. job[r] \in Job /\ [job[r] EXCEPT !.at = "commit"] \in Job /\ RenameRelies(r)
  BY <1>1, JobMoves DEF At, AccountsInv, RequestsTyped, Relies
<1>3. ASSUME ~HandleUnavailable(job[r].handle), job'[r] = [job[r] EXCEPT !.at = "commit"],
             held'[r] = held[r] \cup Wants(r)
      PROVE  Relies(r)'
  <2>1. <<"handle", OrderedHandles(user[job[r].user].handle, job[r].handle)[2]>> \in Wants(r)
    BY <1>1, WantsHandle
  <2>2. /\ job'[r].op = "rename" /\ job'[r].at = "commit"
        /\ job'[r].user = job[r].user /\ job'[r].handle = job[r].handle
    BY <1>1, <1>2, <1>3 DEF At, Job
  <2>3. RenameRelies(r)'
    BY <1>1, <1>2, <1>3, <2>1, <2>2
       DEF At, RenameRelies, KeepsRow, KeepsHandle, OrderedHandles, HandleUnavailable, Accounts, TakesIf, Tables
  <2> QED
    BY <2>2, <2>3, ReliesAs
<1> QED
  BY <1>1, <1>2, <1>3, TakeStep

LEMMA ChangeLocksEmailKeeps ==
    ASSUME AccountsInv, NEW r \in Requests, ChangeLocksEmail(r)
    PROVE  AccountsInv'
<1>1. At(r, "change", "email") /\ TakesIf(r, ~VerifiedEmailExists(job[r].email), "user")
  BY DEF ChangeLocksEmail
<1>2. job[r] \in Job /\ [job[r] EXCEPT !.at = "user"] \in Job /\ ChangeRelies(r)
  BY <1>1, JobMoves DEF At, AccountsInv, RequestsTyped, Relies
<1>3. ASSUME ~VerifiedEmailExists(job[r].email), job'[r] = [job[r] EXCEPT !.at = "user"],
             held'[r] = held[r] \cup Wants(r)
      PROVE  Relies(r)'
  <2>1. <<"email", job[r].email>> \in Wants(r)
    BY <1>1, WantsAddress
  <2>2. /\ job'[r].op = "change" /\ job'[r].at = "user"
        /\ job'[r].user = job[r].user /\ job'[r].email = job[r].email
    BY <1>1, <1>2, <1>3 DEF At, Job
  <2>3. ChangeRelies(r)'
    BY <1>1, <1>2, <1>3, <2>1, <2>2
       DEF At, ChangeRelies, KeepsAddress, VerifiedEmailExists, Verified, Accounts, TakesIf, Tables
  <2> QED
    BY <2>2, <2>3, ReliesAs
<1> QED
  BY <1>1, <1>2, <1>3, TakeStep

LEMMA ChangeLocksUserKeeps ==
    ASSUME AccountsInv, NEW r \in Requests, ChangeLocksUser(r)
    PROVE  AccountsInv'
<1>1. At(r, "change", "user") /\ TakesIf(r, ~Verified(job[r].user), "commit")
  BY DEF ChangeLocksUser
<1>2. job[r] \in Job /\ [job[r] EXCEPT !.at = "commit"] \in Job /\ ChangeRelies(r)
  BY <1>1, JobMoves DEF At, AccountsInv, RequestsTyped, Relies
<1>3. ASSUME ~Verified(job[r].user), job'[r] = [job[r] EXCEPT !.at = "commit"],
             held'[r] = held[r] \cup Wants(r)
      PROVE  Relies(r)'
  <2>1. <<"user", job[r].user>> \in Wants(r)
    BY <1>1, WantsRow DEF At
  <2>2. /\ job'[r].op = "change" /\ job'[r].at = "commit"
        /\ job'[r].user = job[r].user /\ job'[r].email = job[r].email
    BY <1>1, <1>2, <1>3 DEF At, Job
  <2>3. ChangeRelies(r)'
    BY <1>1, <1>2, <1>3, <2>1, <2>2
       DEF At, ChangeRelies, KeepsAddress, KeepsRow, VerifiedEmailExists, Verified, Accounts, TakesIf, Tables
  <2> QED
    BY <2>2, <2>3, ReliesAs
<1> QED
  BY <1>1, <1>2, <1>3, TakeStep

LEMMA SyncLocksEmailKeeps ==
    ASSUME AccountsInv, NEW r \in Requests, SyncLocksEmail(r)
    PROVE  AccountsInv'
<1>1. At(r, "discord", "sync email") /\ TakesIf(r, ~VerifiedEmailExists(job[r].profile.email), "sync user")
  BY DEF SyncLocksEmail
<1>2. job[r] \in Job /\ [job[r] EXCEPT !.at = "sync user"] \in Job /\ SyncRelies(r) /\ CreateRelies(r)
  BY <1>1, JobMoves DEF At, AccountsInv, RequestsTyped, Relies
<1>3. ASSUME ~VerifiedEmailExists(job[r].profile.email), job'[r] = [job[r] EXCEPT !.at = "sync user"],
             held'[r] = held[r] \cup Wants(r)
      PROVE  Relies(r)'
  <2>1. <<"email", job[r].profile.email>> \in Wants(r)
    BY <1>1, WantsAddress
  <2>2. /\ job'[r].op = "discord" /\ job'[r].at = "sync user"
        /\ job'[r].user = job[r].user /\ job'[r].profile = job[r].profile
    BY <1>1, <1>2, <1>3 DEF At, Job
  <2>3. SyncRelies(r)' /\ CreateRelies(r)'
    BY <1>1, <1>2, <1>3, <2>1, <2>2
       DEF At, SyncRelies, CreateRelies, KeepsAddress, VerifiedEmailExists, Verified, Accounts, TakesIf, Tables
  <2> QED
    BY <2>2, <2>3, ReliesAs
<1> QED
  BY <1>1, <1>2, <1>3, TakeStep

LEMMA SyncLocksUserKeeps ==
    ASSUME AccountsInv, NEW r \in Requests, SyncLocksUser(r)
    PROVE  AccountsInv'
<1>1. At(r, "discord", "sync user") /\ TakesIf(r, MaySync(job[r].user), "commit sync")
  BY DEF SyncLocksUser
<1>2. job[r] \in Job /\ [job[r] EXCEPT !.at = "commit sync"] \in Job /\ SyncRelies(r) /\ CreateRelies(r)
  BY <1>1, JobMoves DEF At, AccountsInv, RequestsTyped, Relies
<1>3. ASSUME MaySync(job[r].user), job'[r] = [job[r] EXCEPT !.at = "commit sync"],
             held'[r] = held[r] \cup Wants(r)
      PROVE  Relies(r)'
  <2>1. <<"user", job[r].user>> \in Wants(r)
    BY <1>1, WantsRow DEF At
  <2>2. /\ job'[r].op = "discord" /\ job'[r].at = "commit sync"
        /\ job'[r].user = job[r].user /\ job'[r].profile = job[r].profile
    BY <1>1, <1>2, <1>3 DEF At, Job
  <2>3. SyncRelies(r)' /\ CreateRelies(r)'
    <3>1. UNCHANGED <<user, identity>> /\ job[r].user \in Accounts /\ job[r].profile.email # None
          /\ KeepsAddress(r, job[r].profile.email) /\ MaySync(job[r].user)
      BY <1>1, <1>2, <1>3 DEF At, SyncRelies, TakesIf, Tables
    <3>2. CreateRelies(r)'
      BY <2>2 DEF CreateRelies
    <3>3. SyncRelies(r)'
      BY <1>3, <2>1, <2>2, <3>1
         DEF SyncRelies, KeepsAddress, KeepsRow, MaySync, VerifiedEmailExists, Verified, Accounts
    <3> QED
      BY <3>2, <3>3
  <2> QED
    BY <2>2, <2>3, ReliesAs
<1> QED
  BY <1>1, <1>2, <1>3, TakeStep

LEMMA LockAvailableDiscordEmailKeeps ==
    ASSUME AccountsInv, NEW r \in Requests, LockAvailableDiscordEmail(r)
    PROVE  AccountsInv'
<1>1. At(r, "discord", "email") /\ TakesIf(r, ~VerifiedEmailExists(job[r].profile.email), "commit")
  BY DEF LockAvailableDiscordEmail
<1>2. job[r] \in Job /\ [job[r] EXCEPT !.at = "commit"] \in Job /\ SyncRelies(r) /\ CreateRelies(r)
  BY <1>1, JobMoves DEF At, AccountsInv, RequestsTyped, Relies
<1>3. ASSUME ~VerifiedEmailExists(job[r].profile.email), job'[r] = [job[r] EXCEPT !.at = "commit"],
             held'[r] = held[r] \cup Wants(r)
      PROVE  Relies(r)'
  <2>1. <<"email", job[r].profile.email>> \in Wants(r)
    BY <1>1, WantsAddress
  <2>2. /\ job'[r].op = "discord" /\ job'[r].at = "commit"
        /\ job'[r].handle = job[r].handle /\ job'[r].profile = job[r].profile
    BY <1>1, <1>2, <1>3 DEF At, Job
  <2>3. SyncRelies(r)' /\ CreateRelies(r)'
    BY <1>1, <1>2, <1>3, <2>1, <2>2
       DEF At, SyncRelies, CreateRelies, KeepsSubject, KeepsHandle, KeepsAddress, HandleUnavailable, VerifiedEmailExists, Verified, Accounts, TakesIf, Tables
  <2> QED
    BY <2>2, <2>3, ReliesAs
<1> QED
  BY <1>1, <1>2, <1>3, TakeStep

LEMMA AttachLocksIdentityKeeps ==
    ASSUME AccountsInv, NEW r \in Requests, AttachLocksIdentity(r)
    PROVE  AccountsInv'
<1>1. At(r, "attach", "identity") /\ TakesIf(r, identity[job[r].profile.subject] = None, "user")
  BY DEF AttachLocksIdentity
<1>2. job[r] \in Job /\ [job[r] EXCEPT !.at = "user"] \in Job /\ AttachRelies(r)
  BY <1>1, JobMoves DEF At, AccountsInv, RequestsTyped, Relies
<1>3. ASSUME identity[job[r].profile.subject] = None, job'[r] = [job[r] EXCEPT !.at = "user"],
             held'[r] = held[r] \cup Wants(r)
      PROVE  Relies(r)'
  <2>1. <<"identity", job[r].profile.subject>> \in Wants(r)
    BY <1>1, WantsSubject
  <2>2. /\ job'[r].op = "attach" /\ job'[r].at = "user"
        /\ job'[r].user = job[r].user /\ job'[r].profile = job[r].profile
    BY <1>1, <1>2, <1>3 DEF At, Job
  <2>3. AttachRelies(r)'
    BY <1>1, <1>2, <1>3, <2>1, <2>2
       DEF At, AttachRelies, KeepsSubject, Accounts, TakesIf, Tables
  <2> QED
    BY <2>2, <2>3, ReliesAs
<1> QED
  BY <1>1, <1>2, <1>3, TakeStep

LEMMA AttachLocksUserKeeps ==
    ASSUME AccountsInv, NEW r \in Requests, AttachLocksUser(r)
    PROVE  AccountsInv'
<1>1. At(r, "attach", "user") /\ TakesIf(r, TRUE, "commit")
  BY DEF AttachLocksUser
<1>2. job[r] \in Job /\ [job[r] EXCEPT !.at = "commit"] \in Job /\ AttachRelies(r)
  BY <1>1, JobMoves DEF At, AccountsInv, RequestsTyped, Relies
<1>3. ASSUME job'[r] = [job[r] EXCEPT !.at = "commit"],
             held'[r] = held[r] \cup Wants(r)
      PROVE  Relies(r)'
  <2>1. <<"user", job[r].user>> \in Wants(r)
    BY <1>1, WantsRow DEF At
  <2>2. /\ job'[r].op = "attach" /\ job'[r].at = "commit"
        /\ job'[r].user = job[r].user /\ job'[r].profile = job[r].profile
    BY <1>1, <1>2, <1>3 DEF At, Job
  <2>3. AttachRelies(r)'
    BY <1>1, <1>2, <1>3, <2>1, <2>2
       DEF At, AttachRelies, KeepsSubject, Accounts, TakesIf, Tables
  <2> QED
    BY <2>2, <2>3, ReliesAs
<1> QED
  BY <1>1, <1>2, <1>3, TakeStep

LEMMA DetachLocksUserKeeps ==
    ASSUME AccountsInv, NEW r \in Requests, DetachLocksUser(r)
    PROVE  AccountsInv'
<1>1. At(r, "detach", "user") /\ TakesIf(r, user[job[r].user].verified /\ user[job[r].user].password, "commit")
  BY DEF DetachLocksUser
<1>2. job[r] \in Job /\ [job[r] EXCEPT !.at = "commit"] \in Job /\ DetachRelies(r)
  BY <1>1, JobMoves DEF At, AccountsInv, RequestsTyped, Relies
<1>3. ASSUME user[job[r].user].verified /\ user[job[r].user].password, job'[r] = [job[r] EXCEPT !.at = "commit"],
             held'[r] = held[r] \cup Wants(r)
      PROVE  Relies(r)'
  <2>1. <<"user", job[r].user>> \in Wants(r)
    BY <1>1, WantsRow DEF At
  <2>2. /\ job'[r].op = "detach" /\ job'[r].at = "commit"
        /\ job'[r].user = job[r].user /\ job'[r].subjects = job[r].subjects
    BY <1>1, <1>2, <1>3 DEF At, Job
  <2>3. DetachRelies(r)'
    BY <1>1, <1>2, <1>3, <2>1, <2>2
       DEF At, DetachRelies, Verified, Accounts, TakesIf, Tables
  <2> QED
    BY <2>2, <2>3, ReliesAs
<1> QED
  BY <1>1, <1>2, <1>3, TakeStep

LEMMA SignUpKeeps ==
    ASSUME AccountsInv, NEW r \in Requests, SignUp(r)
    PROVE  AccountsInv'
<1> DEFINE j(h, e) == [op |-> "signup", at |-> "email", handle |-> h, email |-> e]
<1>1. PICK h \in Handles, e \in Emails :
        ~HandleUnavailable(h) /\ Begins(r, {<<"handle", h>>}, j(h, e)) /\ UNCHANGED <<Tables, faults>>
  BY DEF SignUp
<1>2. j(h, e) \in Job /\ {<<"handle", h>>} \in SUBSET LockNames
  BY LockNamesAre DEF Job
<1>3. ASSUME job'[r] = j(h, e), held'[r] = {<<"handle", h>>}
      PROVE  Relies(r)'
  <2>1. SignUpRelies(r)'
    BY <1>1, <1>3 DEF SignUpRelies, KeepsHandle, HandleUnavailable, Accounts, Tables
  <2> QED
    BY <1>3, <2>1, ReliesAs
<1> QED
  BY <1>1, <1>2, <1>3, BeginStep

LEMMA VerifyEmailKeeps ==
    ASSUME AccountsInv, NEW r \in Requests, VerifyEmail(r)
    PROVE  AccountsInv'
<1> DEFINE j(u) == [op |-> "verify", at |-> "email", user |-> u, link |-> link[u]]
<1>1. PICK u \in Users : link[u] # None /\ Begins(r, {}, j(u)) /\ UNCHANGED <<Tables, faults>>
  BY DEF VerifyEmail
<1>2. link[u] \in Link /\ u \in Accounts
  BY <1>1 DEF AccountsInv, TablesSound, TablesTyped, LinkNamesHeldAddress
<1>3. j(u) \in Job /\ {} \in SUBSET LockNames
  BY <1>2 DEF Job
<1>4. ASSUME job'[r] = j(u), held'[r] = {}
      PROVE  Relies(r)'
  <2>1. VerifyRelies(r)'
    BY <1>1, <1>2, <1>4 DEF VerifyRelies, Accounts, Tables
  <2> QED
    BY <1>4, <2>1, ReliesAs
<1> QED
  BY <1>1, <1>3, <1>4, BeginStep

LEMMA RenameHandleKeeps ==
    ASSUME AccountsInv, NEW r \in Requests, RenameHandle(r)
    PROVE  AccountsInv'
<1> DEFINE j(u, h) == [op |-> "rename", at |-> "first", user |-> u, handle |-> h]
<1>1. PICK u \in session, h \in Handles :
        Begins(r, {<<"user", u>>}, j(u, h)) /\ UNCHANGED <<Tables, faults>>
  BY DEF RenameHandle
<1>2. u \in Users /\ u \in Accounts
  BY <1>1 DEF AccountsInv, TablesSound, TablesTyped, Accounts
<1>3. j(u, h) \in Job /\ {<<"user", u>>} \in SUBSET LockNames
  BY <1>2, LockNamesAre DEF Job
<1>4. ASSUME job'[r] = j(u, h), held'[r] = {<<"user", u>>}
      PROVE  Relies(r)'
  <2>1. RenameRelies(r)'
    BY <1>1, <1>2, <1>4 DEF RenameRelies, KeepsRow, Accounts, Tables
  <2> QED
    BY <1>4, <2>1, ReliesAs
<1> QED
  BY <1>1, <1>3, <1>4, BeginStep

LEMMA ChangeUnverifiedEmailKeeps ==
    ASSUME AccountsInv, NEW r \in Requests, ChangeUnverifiedEmail(r)
    PROVE  AccountsInv'
<1> DEFINE j(u, e) == [op |-> "change", at |-> "email", user |-> u, email |-> e]
<1>1. PICK u \in session, e \in Emails : Begins(r, {}, j(u, e)) /\ UNCHANGED <<Tables, faults>>
  BY DEF ChangeUnverifiedEmail
<1>2. u \in Users /\ u \in Accounts
  BY <1>1 DEF AccountsInv, TablesSound, TablesTyped, Accounts
<1>3. j(u, e) \in Job /\ {} \in SUBSET LockNames
  BY <1>2 DEF Job
<1>4. ASSUME job'[r] = j(u, e), held'[r] = {}
      PROVE  Relies(r)'
  <2>1. ChangeRelies(r)'
    BY <1>1, <1>2, <1>4 DEF ChangeRelies, Accounts, Tables
  <2> QED
    BY <1>4, <2>1, ReliesAs
<1> QED
  BY <1>1, <1>3, <1>4, BeginStep

LEMMA DetachDiscordKeeps ==
    ASSUME AccountsInv, NEW r \in Requests, DetachDiscord(r)
    PROVE  AccountsInv'
<1> DEFINE j(u) == [op |-> "detach", at |-> "identities", user |-> u,
                    subjects |-> DiscordSubjectsForUser(u)]
<1>1. PICK u \in session :
        DiscordLinked(u) /\ Begins(r, {<<"owner", u>>}, j(u)) /\ UNCHANGED <<Tables, faults>>
  BY DEF DetachDiscord
<1>2. u \in Users /\ u \in Accounts
  BY <1>1 DEF AccountsInv, TablesSound, TablesTyped, Accounts
<1>3. DiscordSubjectsForUser(u) \subseteq Subjects /\ DiscordSubjectsForUser(u) # {}
  BY <1>1 DEF DiscordSubjectsForUser, DiscordLinked
<1>4. j(u) \in Job /\ {<<"owner", u>>} \in SUBSET LockNames
  BY <1>2, <1>3, LockNamesAre DEF Job
<1>5. ASSUME job'[r] = j(u), held'[r] = {<<"owner", u>>}
      PROVE  Relies(r)'
  <2>1. DetachRelies(r)'
    BY <1>1, <1>2, <1>3, <1>5 DEF DetachRelies, Accounts, Tables
  <2> QED
    BY <1>5, <2>1, ReliesAs
<1> QED
  BY <1>1, <1>4, <1>5, BeginStep

(* The flow's state is taken; the request is a sign-in or an attach.       *)
LEMMA CompleteDiscordKeeps ==
    ASSUME AccountsInv, NEW r \in Requests, CompleteDiscord(r)
    PROVE  AccountsInv'
<1>1. PICK f \in Flows, p \in Profile :
        /\ flow[f] # None
        /\ flow' = [flow EXCEPT ![f] = None]
        /\ IF flow[f].intent = "sign-in" THEN SignInDiscord(r, p)
           ELSE Begins(r, {<<"owner", flow[f].user>>},
                       [op |-> "attach", at |-> "identity", profile |-> p, user |-> flow[f].user])
        /\ UNCHANGED <<user, retired, identity, session, link, mails, reset, faults>>
  BY DEF CompleteDiscord
<1>2. p.subject \in Subjects /\ p.email \in Emails \cup {None}
  BY DEF Profile
<1>3. TablesSound' /\ \A K : WritesUnder(K)
  <2>1. TablesTyped' /\ FlowsNameAccounts'
    BY <1>1 DEF AccountsInv, TablesSound, TablesTyped, FlowsNameAccounts, Accounts
  <2>2. VerifiedIsSole' /\ LinkNamesHeldAddress' /\ HandlesNeverReused' /\ DiscordIsVerified'
    BY <1>1 DEF AccountsInv, TablesSound, VerifiedIsSole, LinkNamesHeldAddress, HandlesNeverReused,
                DiscordIsVerified, Accounts, Verified
  <2>3. \A K : WritesUnder(K)
    BY <1>1 DEF WritesUnder, Accounts, HandleUnavailable, VerifiedEmailExists, Verified
  <2> QED
    BY <2>1, <2>2, <2>3 DEF TablesSound
<1>4. faults' \in 0..Faults
  BY <1>1 DEF AccountsInv, RequestsTyped
<1>5. CASE flow[f].intent # "sign-in"
  <2> DEFINE u == flow[f].user
             j == [op |-> "attach", at |-> "identity", profile |-> p, user |-> u]
  <2>1. flow[f] \in Flow
    BY <1>1 DEF AccountsInv, TablesSound, TablesTyped
  <2>2. u \in Accounts /\ u \in Users
    BY <1>1, <1>5, <2>1 DEF AccountsInv, TablesSound, FlowsNameAccounts, Flow, Accounts
  <2>3. j \in Job /\ {<<"owner", u>>} \in SUBSET LockNames
    BY <2>2, LockNamesAre DEF Job
  <2>4. Begins(r, {<<"owner", u>>}, j)
    BY <1>1, <1>5
  <2>5. AttachRelies(r)' /\ job'[r] = j
    BY <1>1, <2>2, <2>4 DEF AttachRelies, Begins, Accounts, AccountsInv, RequestsTyped
  <2>6. Relies(r)'
    BY <2>5, ReliesAs
  <2> QED
    BY <1>3, <1>4, <2>3, <2>4, <2>6, RequestStep DEF Begins
<1>6. CASE flow[f].intent = "sign-in"
  <2> DEFINE u == identity[p.subject]
             j == IF u = None
                  THEN [op |-> "discord", at |-> "handle", profile |-> p, try |-> 1]
                  ELSE [op |-> "discord", profile |-> p, user |-> u,
                        at |-> IF SyncsEmail(u, p) THEN "sync email" ELSE "profile"]
             L == {<<"identity", p.subject>>}
  <2>1. Begins(r, L, j)
    BY <1>1, <1>6 DEF SignInDiscord
  <2>2. 1 \in 1..Len(Candidates)
    BY AccountsAssumption
  <2>3. u = None \/ (u \in Accounts /\ u \in Users)
    BY <1>2 DEF AccountsInv, TablesSound, TablesTyped, Accounts
  <2>4. j \in Job /\ L \in SUBSET LockNames
    BY <1>2, <2>2, <2>3, LockNamesAre DEF Job
  <2>5. job'[r] = j /\ held'[r] = L
    BY <2>1 DEF Begins, AccountsInv, RequestsTyped
  <2>6. ASSUME u = None PROVE Relies(r)'
    <3>1. job'[r] = [op |-> "discord", at |-> "handle", profile |-> p, try |-> 1]
      BY <2>5, <2>6
    <3>2. job'[r].op = "discord" /\ job'[r].at = "handle" /\ job'[r].profile = p
      BY <3>1
    <3>3. SyncRelies(r)' /\ CreateRelies(r)'
      BY <1>1, <2>5, <2>6, <3>2 DEF SyncRelies, CreateRelies, KeepsSubject
    <3> QED
      BY <3>2, <3>3, ReliesAs
  <2>7. ASSUME u # None PROVE Relies(r)'
    <3> DEFINE at == IF SyncsEmail(u, p) THEN "sync email" ELSE "profile"
    <3>0. job'[r] = [op |-> "discord", profile |-> p, user |-> u, at |-> at]
      BY <2>5, <2>7
    <3> HIDE DEF at, u
    <3>1. /\ job'[r].op = "discord" /\ job'[r].profile = p /\ job'[r].user = u
          /\ job'[r].at = at
      BY <3>0
    <3>2. SyncRelies(r)' /\ CreateRelies(r)'
      BY <1>1, <2>3, <2>7, <3>1 DEF SyncRelies, CreateRelies, SyncsEmail, Accounts, at
    <3> QED
      BY <3>1, <3>2, ReliesAs
  <2> HIDE DEF j, L
  <2> QED
    BY <1>3, <1>4, <2>1, <2>4, <2>6, <2>7, RequestStep DEF Begins
<1> QED
  BY <1>5, <1>6

(* A candidate that is taken stays locked while the next one is tried.     *)
LEMMA AvailableDiscordHandleKeeps ==
    ASSUME AccountsInv, NEW r \in Requests, AvailableDiscordHandle(r)
    PROVE  AccountsInv'
<1> DEFINE h == Candidates[job[r].try]
           p == job[r].profile
           j == IF HandleUnavailable(h) THEN [job[r] EXCEPT !.try = @ + 1]
                ELSE [op |-> "discord", profile |-> p, handle |-> h,
                      at |-> IF p.email = None THEN "commit" ELSE "email"]
           L == held[r] \cup Wants(r)
<1>1. At(r, "discord", "handle") /\ job[r] \in Job /\ Relies(r)
  BY DEF AvailableDiscordHandle, AccountsInv, RequestsTyped
<1>2. /\ job[r] \in [op : {"discord"}, at : {"handle"}, profile : Profile, try : 1..Len(Candidates)]
      /\ h \in Handles /\ Len(Candidates) \in Nat
  <2>1. job[r] \in [op : {"discord"}, at : {"handle"}, profile : Profile, try : 1..Len(Candidates)]
    BY <1>1 DEF At, Job
  <2> QED
    BY <2>1, AccountsAssumption
<1>3. /\ job' = [job EXCEPT ![r] = j] /\ held' = [held EXCEPT ![r] = L] /\ Free(r, Wants(r))
      /\ UNCHANGED <<Tables, faults>> /\ (HandleUnavailable(h) => job[r].try < Len(Candidates))
  BY DEF AvailableDiscordHandle, Takes, AccountsInv, RequestsTyped
<1>4. L \in SUBSET LockNames /\ Free(r, L) /\ L \subseteq held[r] \cup Wants(r)
  BY <1>3, WantsAreLocks DEF AccountsInv, RequestsTyped, LocksExclude, Free
<1>5. TablesSound' /\ WritesUnder(held[r] \cup Wants(r)) /\ faults' \in 0..Faults
  BY <1>3, TablesUnchanged DEF AccountsInv, RequestsTyped
<1>6. <<"handle", h>> \in Wants(r) /\ KeepsSubject(r, p.subject)
  <2>1. <<"handle", h>> \in Wants(r)
    BY <1>1, WantsHandle
  <2>2. KeepsSubject(r, p.subject)
    BY <1>1 DEF Relies, CreateRelies, At
  <2> QED
    BY <2>1, <2>2
<1>7. job'[r] = j /\ held'[r] = L
  BY <1>3 DEF AccountsInv, RequestsTyped
<1>8. CASE HandleUnavailable(h)
  <2>1. j = [job[r] EXCEPT !.try = @ + 1] /\ job[r].try + 1 \in 1..Len(Candidates)
    BY <1>2, <1>3, <1>8
  <2>2. j \in [op : {"discord"}, at : {"handle"}, profile : Profile, try : 1..Len(Candidates)]
        /\ j.profile = p
    BY <1>2, <2>1
  <2>3. j \in Job
    BY <2>2 DEF Job
  <2>4. SyncRelies(r)' /\ CreateRelies(r)'
    BY <1>3, <1>6, <1>7, <2>2 DEF SyncRelies, CreateRelies, KeepsSubject, Tables
  <2>5. Relies(r)'
    BY <1>7, <2>2, <2>4, ReliesAs
  <2> HIDE DEF j, L
  <2> QED
    BY <1>3, <1>4, <1>5, <2>3, <2>5, RequestStep
<1>9. CASE ~HandleUnavailable(h)
  <2>1. /\ j = [op |-> "discord", profile |-> p, handle |-> h,
                at |-> IF p.email = None THEN "commit" ELSE "email"]
    BY <1>9
  <2>2. j \in Job /\ j.op = "discord" /\ j.profile = p /\ j.handle = h
        /\ j.at \in {"email", "commit"} /\ (j.at = "commit" <=> p.email = None)
    BY <1>2, <2>1 DEF Job
  <2>3. /\ job'[r].op = "discord" /\ job'[r].profile = p /\ job'[r].handle = h
        /\ job'[r].at \in {"email", "commit"} /\ (job'[r].at = "commit" <=> p.email = None)
    BY <1>7, <2>2
  <2>4. PICK g, o : g = h /\ o = p
    OBVIOUS
  <2>5. /\ <<"identity", o.subject>> \in held'[r] /\ identity'[o.subject] = None
        /\ <<"handle", g>> \in held'[r] /\ ~HandleUnavailable(g)'
    BY <1>3, <1>6, <1>7, <1>9, <2>4 DEF KeepsSubject, HandleUnavailable, Accounts, Tables
  <2> HIDE DEF h, p
  <2>6. SyncRelies(r)' /\ CreateRelies(r)'
    BY <2>3, <2>4, <2>5 DEF SyncRelies, CreateRelies, KeepsSubject, KeepsHandle, HandleUnavailable
  <2>7. Relies(r)'
    BY <2>3, <2>6, ReliesAs
  <2> HIDE DEF j, L
  <2> QED
    BY <1>3, <1>4, <1>5, <2>2, <2>7, RequestStep
<1> QED
  BY <1>8, <1>9

LEMMA DetachLocksIdentityKeeps ==
    ASSUME AccountsInv, NEW r \in Requests, DetachLocksIdentity(r)
    PROVE  AccountsInv'
<1> DEFINE s == Min(job[r].subjects)
           at == IF job[r].subjects = {s} THEN "user" ELSE "identities"
           j == [op |-> "detach", at |-> at, user |-> job[r].user, subjects |-> job[r].subjects \ {s}]
           T == [op : {"detach"}, at : {"identities", "user", "commit"}, user : Users,
                 subjects : SUBSET Subjects]
           L == held[r] \cup Wants(r)
<1>1. At(r, "detach", "identities") /\ job[r] \in Job /\ Relies(r)
  BY DEF DetachLocksIdentity, AccountsInv, RequestsTyped
<1>2. job[r] \in T
  BY <1>1 DEF At, Job
<1>3. j \in T /\ j = [job[r] EXCEPT !.subjects = @ \ {s}, !.at = at]
  <2>1. job[r] = [op |-> "detach", at |-> job[r].at, user |-> job[r].user,
                  subjects |-> job[r].subjects]
    BY <1>2
  <2> DEFINE k == [job[r] EXCEPT !.subjects = @ \ {s}, !.at = at]
  <2>2. k = j
    <3>1. at \in {"identities", "user", "commit"}
      OBVIOUS
    <3> HIDE DEF at, s
    <3>2. k \in T
      BY <1>2, <3>1
    <3>3. k.op = "detach" /\ k.at = at /\ k.user = job[r].user /\ k.subjects = job[r].subjects \ {s}
      BY <1>2
    <3>4. \A x \in T : x = [op |-> x.op, at |-> x.at, user |-> x.user, subjects |-> x.subjects]
      OBVIOUS
    <3> HIDE DEF k, T
    <3>5. k = [op |-> k.op, at |-> k.at, user |-> k.user, subjects |-> k.subjects]
      BY <3>2, <3>4
    <3> QED
      BY <3>3, <3>5
  <2>3. j \in T
    BY <1>2
  <2> QED
    BY <2>2, <2>3
<1>4. /\ job' = [job EXCEPT ![r] = j] /\ held' = [held EXCEPT ![r] = L] /\ Free(r, Wants(r))
      /\ UNCHANGED <<Tables, faults>>
  BY <1>3 DEF DetachLocksIdentity, Takes, AccountsInv, RequestsTyped
<1>5. L \in SUBSET LockNames /\ Free(r, L) /\ L \subseteq held[r] \cup Wants(r)
  BY <1>4, WantsAreLocks DEF AccountsInv, RequestsTyped, LocksExclude, Free
<1>6. TablesSound' /\ WritesUnder(held[r] \cup Wants(r)) /\ faults' \in 0..Faults
  BY <1>4, TablesUnchanged DEF AccountsInv, RequestsTyped
<1>7. job'[r] = j /\ job[r].user \in Accounts /\ job[r].subjects # {}
  BY <1>1, <1>4 DEF AccountsInv, RequestsTyped, Relies, DetachRelies, At
<1>8. DetachRelies(r)'
  BY <1>4, <1>7 DEF DetachRelies, Accounts, Tables
<1>9. Relies(r)' /\ j \in Job
  BY <1>3, <1>7, <1>8, ReliesAs DEF Job
<1> HIDE DEF j, L
<1> QED
  BY <1>4, <1>5, <1>6, <1>9, RequestStep

(* A failure or a deadlock rolls back: nothing was shown.                  *)
LEMMA RollBackKeeps ==
    ASSUME AccountsInv, NEW r \in Requests, Fails(r) \/ DeadlockAborts(r)
    PROVE  AccountsInv'
<1>1. RollsBack(r) /\ UNCHANGED Tables /\ faults' \in 0..Faults
  BY AccountsAssumption DEF Fails, DeadlockAborts, AccountsInv, RequestsTyped
<1>2. TablesSound' /\ WritesUnder(held[r] \cup {})
  BY <1>1, TablesUnchanged DEF AccountsInv
<1>3. Idle \in Job /\ {} \in SUBSET LockNames /\ Free(r, {})
  BY DEF Job, Idle, Free
<1>4. job'[r] = Idle
  BY <1>1 DEF RollsBack, AccountsInv, RequestsTyped
<1>5. Relies(r)'
  BY <1>4 DEF Idle, Relies, SignUpRelies, VerifyRelies, RenameRelies, ChangeRelies,
              SyncRelies, CreateRelies, AttachRelies, DetachRelies
<1> QED
  BY <1>1, <1>2, <1>3, <1>5, RequestStep DEF RollsBack

-----------------------------------------------------------------------------
(* Commits.  Each shows its writes, all under its locks, and ends.         *)
LEMMA Sentinel ==
    /\ None \notin Users /\ None \notin Emails /\ None # "creator" /\ None # "discord"
    /\ None \notin User /\ None \notin Link /\ None \notin Flow
BY AccountsAssumption, Zenon

LEMMA SignUpCommitsKeeps ==
    ASSUME AccountsInv, NEW r \in Requests, SignUpCommits(r)
    PROVE  AccountsInv'
<1>1. PICK u \in Users \ Accounts, h \in Handles, e \in Emails :
        /\ h = job[r].handle /\ e = job[r].email
        /\ user' = InsertUser(u, h, e)
        /\ link' = [link EXCEPT ![u] = [email |-> e, number |-> mails + 1]]
        /\ session' = session \cup {u}
  <2>1. job[r].handle \in Handles /\ job[r].email \in Emails
    BY JobFields DEF SignUpCommits, At, AccountsInv, RequestsTyped
  <2> QED
    BY <2>1 DEF SignUpCommits
<1>2. mails' = mails + 1 /\ mails < MaxMails /\ Ends(r)
      /\ UNCHANGED <<retired, identity, reset, flow, faults>>
  BY DEF SignUpCommits
<1>3. KeepsHandle(r, h) /\ KeepsAddress(r, e)
  BY <1>1 DEF SignUpCommits, At, AccountsInv, Relies, SignUpRelies
<1> DEFINE n == [handle |-> h, email |-> e, verified |-> FALSE, source |-> "creator", password |-> TRUE]
<1>4. /\ TablesSound /\ user \in [Users -> User \cup {None}] /\ link \in [Users -> Link \cup {None}]
      /\ mails \in Nat /\ MaxMails \in Nat
  BY AccountsAssumption DEF AccountsInv, TablesSound, TablesTyped
<1>5. n \in User /\ n # None /\ [email |-> e, number |-> mails + 1] \in Link
  <2>1. n \in User
    BY DEF User
  <2>2. [email |-> e, number |-> mails + 1] \in Link
    BY <1>2, <1>4 DEF Link
  <2> QED
    BY <2>1, <2>2, Sentinel
<1>6. /\ user'[u] = n /\ \A v \in Users : v # u => user'[v] = user[v]
      /\ user' \in [Users -> User \cup {None}] /\ Accounts' = Accounts \cup {u}
  BY <1>1, <1>4, <1>5 DEF InsertUser, Accounts
<1>7. /\ link'[u].email = e /\ \A v \in Users : v # u => link'[v] = link[v]
      /\ link' \in [Users -> Link \cup {None}]
  BY <1>1, <1>4, <1>5
<1>8. /\ n.handle = h /\ n.email = e /\ n.verified = FALSE /\ n.source = "creator"
      /\ u \in Users /\ u \notin Accounts /\ Accounts \subseteq Users
      /\ \A v \in Accounts : v # u /\ user'[v] = user[v]
  BY <1>6 DEF Accounts
<1> HIDE DEF n
<1>9. TablesTyped'
  <2>1. \A v \in Accounts' : /\ (user'[v].email = None) <=> (user'[v].source = None)
                             /\ user'[v].verified => user'[v].email # None
    BY <1>4, <1>6, <1>8, Sentinel DEF TablesSound, TablesTyped
  <2>2. mails' \in 0..MaxMails /\ session' \subseteq Accounts' /\ reset' \subseteq Accounts'
    BY <1>1, <1>2, <1>4, <1>6 DEF TablesSound, TablesTyped
  <2>3. \A s \in Subjects : identity'[s] = None \/ identity'[s] \in Accounts'
    BY <1>2, <1>4, <1>6 DEF TablesSound, TablesTyped
  <2> QED
    BY <1>2, <1>4, <1>6, <1>7, <2>1, <2>2, <2>3 DEF TablesSound, TablesTyped
<1>10. VerifiedIsSole'
  BY <1>3, <1>4, <1>6, <1>7, <1>8
     DEF TablesSound, VerifiedIsSole, Verified, KeepsAddress, VerifiedEmailExists
<1>11. LinkNamesHeldAddress'
  BY <1>4, <1>6, <1>7, <1>8 DEF TablesSound, LinkNamesHeldAddress, Verified
<1>12. HandlesNeverReused'
  BY <1>2, <1>3, <1>4, <1>6, <1>8 DEF TablesSound, HandlesNeverReused, KeepsHandle, HandleUnavailable
<1>13. DiscordIsVerified' /\ FlowsNameAccounts'
  BY <1>2, <1>4, <1>6, <1>8 DEF TablesSound, DiscordIsVerified, FlowsNameAccounts
<1>14. WritesUnder(held[r] \cup Wants(r))
  <2>1. \A g \in Handles : HandleUnavailable(g)' => HandleUnavailable(g) \/ <<"handle", g>> \in held[r]
    BY <1>2, <1>3, <1>6, <1>8 DEF HandleUnavailable, KeepsHandle
  <2>2. \A a \in Emails : VerifiedEmailExists(a)' => VerifiedEmailExists(a)
    BY <1>6, <1>8 DEF VerifiedEmailExists, Verified
  <2> QED
    BY <1>2, <1>6, <1>8, <2>1, <2>2 DEF WritesUnder
<1> QED
  BY <1>2, <1>9, <1>10, <1>11, <1>12, <1>13, <1>14, EndStep DEF TablesSound, AccountsInv, RequestsTyped

LEMMA ClearedRow ==
    ASSUME NEW w \in User
    PROVE  LET c == [w EXCEPT !.email = None, !.source = None] IN
           /\ c \in User /\ c.email = None /\ c.source = None
           /\ c.handle = w.handle /\ c.verified = w.verified /\ c.password = w.password
BY DEF User

(* An account comes to own an address nobody had verified: every other     *)
(* account that held it is cleared, and every link that would verify it.   *)
GivesAddress(u, w, e) ==
    /\ user' = ClearPendingEmailCopies([user EXCEPT ![u] = w], e, u)
    /\ link' = DeleteVerificationTokensForEmail(e)
    /\ w.email = e /\ w.verified /\ w.source \in {"creator", "discord"}

LEMMA OwnsAddress ==
    ASSUME TablesSound, NEW u \in Users, NEW e \in Emails, NEW w \in User,
           ~VerifiedEmailExists(e), GivesAddress(u, w, e),
           link[u] = None \/ link[u].email = e
    PROVE  /\ user' \in [Users -> User \cup {None}] /\ user'[u] = w /\ Accounts' = Accounts \cup {u}
           /\ \A v \in Accounts : (user'[v].email = None) <=> (user'[v].source = None)
           /\ \A v \in Accounts : v # u =>
                 /\ user'[v].handle = user[v].handle /\ user'[v].verified = user[v].verified
                 /\ user'[v].password = user[v].password
                 /\ user'[v] = user[v] \/ v \in PendingCopies(e, u)
           /\ link' \in [Users -> Link \cup {None}]
           /\ VerifiedIsSole' /\ LinkNamesHeldAddress' /\ DiscordIsVerified'
           /\ \A a \in Emails : VerifiedEmailExists(a)' => VerifiedEmailExists(a) \/ a = e
<1>1. /\ user \in [Users -> User \cup {None}] /\ link \in [Users -> Link \cup {None}]
      /\ \A v \in Accounts : (user[v].email = None) <=> (user[v].source = None)
      /\ \A v \in Accounts : user[v] \in User /\ v \in Users /\ user[v] # None
  BY DEF TablesSound, TablesTyped, Accounts
<1>0. w.email = e /\ w.verified /\ w.source \in {"creator", "discord"}
  BY DEF GivesAddress
<1> DEFINE Cleared(v) == [user[v] EXCEPT !.email = None, !.source = None]
<1>2. /\ user'[u] = w /\ DOMAIN user' = Users
      /\ \A v \in Users : v # u =>
            user'[v] = IF v \in PendingCopies(e, u) THEN Cleared(v) ELSE user[v]
  BY <1>1 DEF GivesAddress, ClearPendingEmailCopies, PendingCopies
<1>3. \A v \in Accounts : /\ Cleared(v) \in User /\ Cleared(v).email = None /\ Cleared(v).source = None
                          /\ Cleared(v).handle = user[v].handle
                          /\ Cleared(v).verified = user[v].verified
                          /\ Cleared(v).password = user[v].password
  BY <1>1, ClearedRow
<1> HIDE DEF Cleared
<1>4. PendingCopies(e, u) \subseteq Accounts /\ u \notin PendingCopies(e, u)
      /\ \A v \in Accounts : v # u => (v \in PendingCopies(e, u) <=> user[v].email = e)
  <2>1. \A v \in Accounts : v # u => (v \in PendingCopies(e, u) <=> user[v].email = e /\ ~Verified(v))
    BY DEF PendingCopies, Holds, Accounts
  <2>2. \A v \in Accounts : user[v].email = e => ~Verified(v)
    BY DEF VerifiedEmailExists
  <2>3. PendingCopies(e, u) \subseteq Accounts /\ u \notin PendingCopies(e, u)
    BY DEF PendingCopies
  <2> QED
    BY <2>1, <2>2, <2>3
<1>5. \A v \in Accounts : v # u =>
         /\ user'[v] \in User
         /\ user'[v].handle = user[v].handle /\ user'[v].verified = user[v].verified
         /\ user'[v].password = user[v].password
         /\ user'[v] = user[v] \/ v \in PendingCopies(e, u)
         /\ \/ user[v].email # e /\ user'[v] = user[v]
            \/ user[v].email = e /\ user'[v].email = None /\ user'[v].source = None
  <2> TAKE v \in Accounts
  <2> HAVE v # u
  <2>1. CASE v \in PendingCopies(e, u)
    <3>1. user'[v] = Cleared(v) /\ user[v].email = e
      BY <1>1, <1>2, <1>4, <2>1
    <3> QED
      BY <1>3, <2>1, <3>1
  <2>2. CASE v \notin PendingCopies(e, u)
    <3>1. user'[v] = user[v] /\ user[v].email # e
      BY <1>1, <1>2, <1>4, <2>2
    <3> QED
      BY <1>1, <3>1
  <2> QED
    BY <2>1, <2>2
<1>6. Accounts' = Accounts \cup {u} /\ user' \in [Users -> User \cup {None}]
  <2>1. \A v \in Users : v # u /\ v \notin Accounts => user'[v] = None
    BY <1>1, <1>2, <1>4 DEF Accounts
  <2>2. \A v \in Users : v \in Accounts' <=> v \in Accounts \cup {u}
    BY <1>1, <1>2, <1>5, <2>1, Sentinel DEF Accounts
  <2>3. \A v \in Users : user'[v] \in User \cup {None}
    BY <1>2, <1>5, <2>1
  <2>4. user' \in [Users -> User \cup {None}]
    BY <2>3, Zenon DEF GivesAddress, ClearPendingEmailCopies
  <2>5. Accounts' \subseteq Users /\ Accounts \subseteq Users
    BY DEF Accounts
  <2> QED
    BY <2>2, <2>3, <2>4, <2>5
<1>7. \A v \in Accounts : (user'[v].email = None) <=> (user'[v].source = None)
  BY <1>0, <1>1, <1>2, <1>5, Sentinel
<1>8. /\ link' \in [Users -> Link \cup {None}]
      /\ \A v \in Users : link'[v] = None \/ (link'[v] = link[v] /\ link[v].email # e)
  BY <1>1 DEF GivesAddress, DeleteVerificationTokensForEmail
<1>9. VerifiedIsSole'
  <2>1. \A v \in Accounts' : v # u /\ user'[v].verified => user[v].verified /\ user'[v] = user[v]
    BY <1>1, <1>4, <1>5, <1>6 DEF PendingCopies, Verified
  <2>2. \A v \in Accounts' : v # u => user'[v].email # e
    BY <1>5, <1>6, Sentinel
  <2>3. \A v, x \in Accounts' : Verified(v)' /\ x # v => user'[x].email # user'[v].email
    <3> SUFFICES ASSUME NEW v \in Accounts', NEW x \in Accounts', Verified(v)', x # v
                 PROVE  user'[x].email # user'[v].email
      OBVIOUS
    <3>1. CASE v = u
      BY <1>0, <1>2, <2>2, <3>1
    <3>2. CASE v # u
      <4>1. v \in Accounts /\ user[v].verified /\ user'[v] = user[v] /\ user[v].email # None
        BY <1>6, <2>1, <3>2 DEF Verified, TablesSound, TablesTyped
      <4>2. CASE x = u
        BY <1>0, <1>2, <2>2, <3>2, <4>2
      <4>3. CASE x # u
        BY <1>1, <1>5, <1>6, <4>1, <4>3 DEF TablesSound, VerifiedIsSole, Verified
      <4> QED
        BY <4>2, <4>3
    <3> QED
      BY <3>1, <3>2
  <2>4. \A v \in Accounts', x \in Users : Verified(v)' /\ link'[x] # None => link'[x].email # user'[v].email
    BY <1>0, <1>1, <1>2, <1>6, <1>8, <2>1 DEF TablesSound, VerifiedIsSole, Verified
  <2> QED
    BY <2>3, <2>4 DEF VerifiedIsSole
<1>10. LinkNamesHeldAddress'
  BY <1>0, <1>1, <1>2, <1>5, <1>6, <1>8 DEF TablesSound, LinkNamesHeldAddress, Verified
<1>11. DiscordIsVerified'
  BY <1>0, <1>2, <1>5, <1>6, Sentinel DEF TablesSound, DiscordIsVerified
<1>12. \A a \in Emails : VerifiedEmailExists(a)' => VerifiedEmailExists(a) \/ a = e
  BY <1>0, <1>1, <1>2, <1>5, <1>6, Sentinel DEF VerifiedEmailExists, Verified
<1> QED
  BY <1>0, <1>2, <1>5, <1>6, <1>7, <1>8, <1>9, <1>10, <1>11, <1>12

(* The same for an account there is, by a request that has its row.        *)
LEMMA AddressCommit ==
    ASSUME AccountsInv, NEW r \in Requests, NEW u \in Accounts, NEW e \in Emails, NEW w \in User,
           ~VerifiedEmailExists(e), GivesAddress(u, w, e), link[u] = None \/ link[u].email = e,
           w.handle = user[u].handle, w.password = user[u].password,
           KeepsRow(r, u), <<"email", e>> \in held[r],
           \A v \in PendingCopies(e, u) : <<"user", v>> \in Wants(r),
           session' \subseteq session \cup {u}, Ends(r),
           UNCHANGED <<retired, identity, mails, reset, flow, faults>>
    PROVE  AccountsInv'
<1>1. TablesSound /\ u \in Users
  BY DEF AccountsInv, Accounts
<1>2. /\ user' \in [Users -> User \cup {None}] /\ user'[u] = w /\ Accounts' = Accounts \cup {u}
      /\ \A v \in Accounts : (user'[v].email = None) <=> (user'[v].source = None)
      /\ \A v \in Accounts : v # u =>
            /\ user'[v].handle = user[v].handle /\ user'[v].verified = user[v].verified
            /\ user'[v].password = user[v].password
            /\ user'[v] = user[v] \/ v \in PendingCopies(e, u)
      /\ link' \in [Users -> Link \cup {None}]
      /\ VerifiedIsSole' /\ LinkNamesHeldAddress' /\ DiscordIsVerified'
      /\ \A a \in Emails : VerifiedEmailExists(a)' => VerifiedEmailExists(a) \/ a = e
  BY <1>1, OwnsAddress
<1>3. w.verified /\ w.email = e /\ e # None /\ Accounts' = Accounts
  BY <1>2, Sentinel DEF GivesAddress
<1>4. \A v \in Accounts : user'[v].handle = user[v].handle
  BY <1>2
<1>5. \A v \in Accounts : user'[v].verified => user'[v].email # None
  <2>1. \A v \in PendingCopies(e, u) : ~user[v].verified
    BY DEF PendingCopies, Verified, Accounts
  <2> QED
    BY <1>1, <1>2, <1>3, <2>1 DEF TablesSound, TablesTyped
<1>6. TablesTyped'
  BY <1>1, <1>2, <1>3, <1>5 DEF TablesSound, TablesTyped
<1>7. HandlesNeverReused' /\ FlowsNameAccounts'
  BY <1>1, <1>2, <1>3, <1>4 DEF TablesSound, HandlesNeverReused, FlowsNameAccounts
<1>8. WritesUnder(held[r] \cup Wants(r))
  <2>1. \A h \in Handles : HandleUnavailable(h)' => HandleUnavailable(h)
    BY <1>2, <1>3, <1>4 DEF HandleUnavailable
  <2>2. \A v \in Accounts : user'[v] = user[v] \/ <<"user", v>> \in held[r] \cup Wants(r)
    BY <1>2 DEF KeepsRow
  <2>3. \A v \in Accounts : user[v].verified /\ user[v].password => user'[v].verified /\ user'[v].password
    BY <1>2, <1>3
  <2> QED
    BY <1>2, <1>3, <2>1, <2>2, <2>3 DEF WritesUnder
<1> QED
  BY <1>2, <1>6, <1>7, <1>8, EndStep DEF TablesSound, AccountsInv, RequestsTyped

LEMMA VerifyCommitsKeeps ==
    ASSUME AccountsInv, NEW r \in Requests, VerifyCommits(r)
    PROVE  AccountsInv'
<1>1. PICK u, e : u = job[r].user /\ e = job[r].link.email
  OBVIOUS
<1>2. At(r, "verify", "commit") /\ Ends(r) /\ job[r] \in Job /\ Relies(r)
      /\ UNCHANGED <<retired, identity, session, mails, reset, flow, faults>>
  BY DEF VerifyCommits, AccountsInv, RequestsTyped
<1>3. u \in Accounts /\ e \in Emails /\ KeepsRow(r, u) /\ Holds(u, e) /\ ~Verified(u)
      /\ <<"email", e>> \in held[r]
  BY <1>1, <1>2, JobFields DEF At, Relies, VerifyRelies, Link
<1>4. CASE VerifiedEmailExists(e)
  <2>1. UNCHANGED Tables
    BY <1>1, <1>2, <1>4 DEF VerifyCommits, Tables
  <2> QED
    BY <1>2, <2>1, TablesUnchanged, EndStep DEF AccountsInv, RequestsTyped
<1>5. CASE ~VerifiedEmailExists(e)
  <2> DEFINE w == [user[u] EXCEPT !.verified = TRUE]
  <2>1. user \in [Users -> User \cup {None}] /\ u \in Users /\ user[u] \in User /\ user[u].email = e
        /\ user[u].source # None
    BY <1>3, Sentinel DEF AccountsInv, TablesSound, TablesTyped, Holds, Accounts
  <2>2. /\ w \in User /\ w.handle = user[u].handle /\ w.password = user[u].password
        /\ w.email = e /\ w.verified /\ w.source \in {"creator", "discord"}
    BY <2>1 DEF User
  <2>3. [user EXCEPT ![u].verified = TRUE] = [user EXCEPT ![u] = w]
    BY <2>1
  <2>4. GivesAddress(u, w, e)
    BY <1>1, <1>5, <2>2, <2>3 DEF VerifyCommits, GivesAddress
  <2>5. link[u] = None \/ link[u].email = e
    BY <2>1 DEF AccountsInv, TablesSound, LinkNamesHeldAddress
  <2>6. \A v \in PendingCopies(e, u) : <<"user", v>> \in Wants(r)
    BY <1>1, <1>2, WantsCopies
  <2> HIDE DEF w
  <2> QED
    BY <1>2, <1>3, <1>5, <2>2, <2>4, <2>5, <2>6, AddressCommit
<1> QED
  BY <1>4, <1>5

LEMMA SyncDiscordEmailKeeps ==
    ASSUME AccountsInv, NEW r \in Requests, SyncDiscordEmail(r)
    PROVE  AccountsInv'
<1>1. PICK u, e : u = job[r].user /\ e = job[r].profile.email
  OBVIOUS
<1>2. At(r, "discord", "commit sync") /\ Ends(r) /\ job[r] \in Job /\ Relies(r)
      /\ session' = session \cup {u}
      /\ UNCHANGED <<retired, identity, mails, reset, flow, faults>>
  BY <1>1 DEF SyncDiscordEmail, AccountsInv, RequestsTyped
<1>3. u \in Accounts /\ e \in Emails /\ KeepsRow(r, u) /\ MaySync(u) /\ KeepsAddress(r, e)
  BY <1>1, <1>2, JobFields DEF At, Relies, SyncRelies, Profile
<1> DEFINE w == [user[u] EXCEPT !.email = e, !.verified = TRUE, !.source = "discord"]
<1>4. user \in [Users -> User \cup {None}] /\ u \in Users /\ user[u] \in User
  BY <1>3 DEF AccountsInv, TablesSound, TablesTyped, Accounts
<1>5. /\ w \in User /\ w.handle = user[u].handle /\ w.password = user[u].password
      /\ w.email = e /\ w.verified /\ w.source \in {"creator", "discord"}
  BY <1>3, <1>4 DEF User
<1>6. UpdateDiscordEmail(u, e) = [user EXCEPT ![u] = w]
  BY <1>4 DEF UpdateDiscordEmail
<1>7. GivesAddress(u, w, e)
  BY <1>1, <1>5, <1>6 DEF SyncDiscordEmail, GivesAddress
<1>8. link[u] = None \/ link[u].email = e
  BY <1>3, <1>4, Sentinel
     DEF AccountsInv, TablesSound, TablesTyped, LinkNamesHeldAddress, MaySync, DiscordIsVerified, Verified, Link
<1>9. \A v \in PendingCopies(e, u) : <<"user", v>> \in Wants(r)
  <2>1. Wants(r) = {"user", "link"} \X {v \in Accounts : job[r].profile.email # None
                                /\ Holds(v, job[r].profile.email) /\ ~Verified(v)}
    BY <1>2, WantsCopies
  <2> QED
    BY <1>1, <1>3, <2>1, Sentinel DEF PendingCopies
<1> HIDE DEF w
<1> QED
  BY <1>2, <1>3, <1>5, <1>7, <1>8, <1>9, AddressCommit DEF KeepsAddress

(* A new account through Discord, with the address Discord vouches for.    *)
LEMMA CreateDiscordAccountKeeps ==
    ASSUME AccountsInv, NEW r \in Requests, CreateDiscordAccount(r)
    PROVE  AccountsInv'
<1>1. PICK u \in Users \ Accounts, h \in {job[r].handle},
           s \in {job[r].profile.subject}, e \in {job[r].profile.email} :
        /\ h = job[r].handle /\ s = job[r].profile.subject /\ e = job[r].profile.email
        /\ user' = IF e = None THEN InsertDiscordUser(u, h, e)
                   ELSE ClearPendingEmailCopies(InsertDiscordUser(u, h, e), e, u)
        /\ identity' = [identity EXCEPT ![s] = u] /\ session' = session \cup {u}
        /\ link' = IF e = None THEN link ELSE DeleteVerificationTokensForEmail(e)
  BY DEF CreateDiscordAccount
<1>2. At(r, "discord", "commit") /\ Ends(r) /\ job[r] \in Job /\ Relies(r)
      /\ UNCHANGED <<retired, mails, reset, flow, faults>>
  BY DEF CreateDiscordAccount, AccountsInv, RequestsTyped
<1>3. /\ h \in Handles /\ s \in Subjects /\ e \in Emails \cup {None}
      /\ KeepsSubject(r, s) /\ KeepsHandle(r, h) /\ (e = None \/ KeepsAddress(r, e))
  BY <1>1, <1>2, JobFields DEF At, Relies, CreateRelies, Profile
<1> DEFINE w == [handle |-> h, email |-> e, verified |-> e # None,
                 source |-> IF e = None THEN None ELSE "discord", password |-> FALSE]
<1>4. TablesSound /\ user \in [Users -> User \cup {None}] /\ identity \in [Subjects -> Users \cup {None}]
      /\ link \in [Users -> Link \cup {None}] /\ u \in Users /\ u \notin Accounts /\ Accounts \subseteq Users
  BY DEF AccountsInv, TablesSound, TablesTyped, Accounts
<1>5. w \in User /\ w.handle = h /\ w.email = e /\ (w.verified <=> e # None)
      /\ w.source = IF e = None THEN None ELSE "discord"
  BY <1>3 DEF User
<1>6. InsertDiscordUser(u, h, e) = [user EXCEPT ![u] = w]
  BY DEF InsertDiscordUser
<1>7. link[u] = None /\ user[u] = None
  BY <1>4 DEF TablesSound, LinkNamesHeldAddress, Accounts
<1> HIDE DEF w
<1>8. /\ user' \in [Users -> User \cup {None}] /\ user'[u] = w /\ Accounts' = Accounts \cup {u}
      /\ \A v \in Accounts : (user'[v].email = None) <=> (user'[v].source = None)
      /\ \A v \in Accounts : v # u =>
            /\ user'[v].handle = user[v].handle /\ user'[v].verified = user[v].verified
            /\ user'[v].password = user[v].password
            /\ user'[v] = user[v] \/ (e # None /\ v \in PendingCopies(e, u))
      /\ link' \in [Users -> Link \cup {None}]
      /\ VerifiedIsSole' /\ LinkNamesHeldAddress' /\ DiscordIsVerified'
      /\ \A a \in Emails : VerifiedEmailExists(a)' => VerifiedEmailExists(a) \/ a = e
  <2>1. CASE e # None
    <3>1. GivesAddress(u, w, e) /\ e \in Emails /\ ~VerifiedEmailExists(e)
      BY <1>1, <1>3, <1>5, <1>6, <2>1 DEF GivesAddress, KeepsAddress
    <3> QED
      BY <1>4, <1>5, <1>7, <2>1, <3>1, OwnsAddress
  <2>2. CASE e = None
    <3>1. user' = [user EXCEPT ![u] = w] /\ link' = link
      BY <1>1, <1>6, <2>2
    <3>2. user'[u] = w /\ w # None /\ ~w.verified /\ w.source = None /\ w.email = None
      BY <1>4, <1>5, <2>2, <3>1, Sentinel
    <3>3. user' \in [Users -> User \cup {None}] /\ \A v \in Users : v # u => user'[v] = user[v]
      BY <1>4, <1>5, <3>1
    <3>4. Accounts' = Accounts \cup {u} /\ \A v \in Accounts : v # u /\ user'[v] = user[v]
      BY <1>4, <3>2, <3>3 DEF Accounts
    <3>5. \A v \in Accounts : (user'[v].email = None) <=> (user'[v].source = None)
      BY <1>4, <3>4 DEF TablesSound, TablesTyped
    <3>6. LinkNamesHeldAddress' /\ DiscordIsVerified'
      BY <1>4, <1>7, <3>1, <3>2, <3>4, Sentinel
         DEF TablesSound, LinkNamesHeldAddress, DiscordIsVerified, Verified
    <3>7. VerifiedIsSole'
      BY <1>4, <3>1, <3>2, <3>4 DEF TablesSound, TablesTyped, VerifiedIsSole, Verified
    <3>8. \A a \in Emails : VerifiedEmailExists(a)' => VerifiedEmailExists(a)
      BY <3>2, <3>4 DEF VerifiedEmailExists, Verified
    <3> QED
      BY <1>4, <3>1, <3>2, <3>3, <3>4, <3>5, <3>6, <3>7, <3>8
  <2> QED
    BY <2>1, <2>2
<1>9. \A v \in Accounts : v # u /\ user'[v].handle = user[v].handle
  BY <1>4, <1>8
<1>10. TablesTyped'
  <2>1. \A v \in Accounts' : /\ (user'[v].email = None) <=> (user'[v].source = None)
                             /\ user'[v].verified => user'[v].email # None
    <3>1. \A v \in Accounts : e # None /\ v \in PendingCopies(e, u) => ~user[v].verified
      BY DEF PendingCopies, Verified, Accounts
    <3> QED
      BY <1>4, <1>5, <1>8, <1>9, <3>1, Sentinel DEF TablesSound, TablesTyped
  <2>2. /\ identity' \in [Subjects -> Users \cup {None}]
        /\ \A x \in Subjects : identity'[x] = None \/ identity'[x] \in Accounts'
    BY <1>1, <1>3, <1>4, <1>8 DEF TablesSound, TablesTyped
  <2>3. session' \subseteq Accounts' /\ reset' \subseteq Accounts'
    BY <1>1, <1>2, <1>4, <1>8 DEF TablesSound, TablesTyped
  <2> QED
    BY <1>2, <1>4, <1>8, <2>1, <2>2, <2>3 DEF TablesSound, TablesTyped
<1>11. HandlesNeverReused'
  BY <1>2, <1>3, <1>4, <1>5, <1>8, <1>9
     DEF TablesSound, HandlesNeverReused, KeepsHandle, HandleUnavailable
<1>12. FlowsNameAccounts'
  BY <1>2, <1>4, <1>8 DEF TablesSound, FlowsNameAccounts
<1>13. WritesUnder(held[r] \cup Wants(r))
  <2>1. \A g \in Handles : HandleUnavailable(g)' => HandleUnavailable(g) \/ <<"handle", g>> \in held[r]
    BY <1>2, <1>3, <1>5, <1>8, <1>9 DEF HandleUnavailable, KeepsHandle
  <2>2. \A a \in Emails : VerifiedEmailExists(a)' => VerifiedEmailExists(a) \/ <<"email", a>> \in held[r]
    BY <1>3, <1>8, Sentinel DEF KeepsAddress
  <2>3. \A x \in Subjects : identity[x] = None => identity'[x] = None \/ <<"identity", x>> \in held[r]
    BY <1>1, <1>3, <1>4 DEF KeepsSubject
  <2>4. \A v \in Accounts : user'[v] = user[v] \/ <<"user", v>> \in Wants(r)
    <3>1. Wants(r) = {"user", "link"} \X {v \in Accounts : job[r].profile.email # None
                                  /\ Holds(v, job[r].profile.email) /\ ~Verified(v)}
      BY <1>2, WantsCopies
    <3>2. e # None => \A v \in PendingCopies(e, u) : <<"user", v>> \in Wants(r)
      BY <1>1, <3>1 DEF PendingCopies
    <3> QED
      BY <1>8, <1>9, <3>2
  <2>5. \A v \in Accounts : user[v].verified /\ user[v].password => user'[v].verified /\ user'[v].password
    BY <1>8, <1>9
  <2>6. Accounts \subseteq Accounts'
    BY <1>8
  <2> QED
    BY <2>1, <2>2, <2>3, <2>4, <2>5, <2>6 DEF WritesUnder
<1> QED
  BY <1>2, <1>8, <1>10, <1>11, <1>12, <1>13, EndStep DEF TablesSound, AccountsInv, RequestsTyped

(* A new name: the old one is retired with the change.                     *)
LEMMA RenameCommitsKeeps ==
    ASSUME AccountsInv, NEW r \in Requests, RenameCommits(r)
    PROVE  AccountsInv'
<1>1. PICK u, h : u = job[r].user /\ h = job[r].handle
  OBVIOUS
<1>2. At(r, "rename", "commit") /\ Ends(r) /\ job[r] \in Job /\ Relies(r)
      /\ retired' = retired \cup {user[u].handle} /\ user' = [user EXCEPT ![u].handle = h]
      /\ UNCHANGED <<identity, session, link, mails, reset, flow, faults>>
  BY <1>1 DEF RenameCommits, AccountsInv, RequestsTyped
<1>3. u \in Accounts /\ h \in Handles /\ KeepsRow(r, u) /\ KeepsHandle(r, h)
  BY <1>1, <1>2, JobFields DEF At, Relies, RenameRelies
<1>4. TablesSound /\ user \in [Users -> User \cup {None}] /\ user[u] \in User /\ u \in Users
      /\ user[u].handle \in Handles /\ Accounts \subseteq Users
  BY <1>3 DEF AccountsInv, TablesSound, TablesTyped, Accounts, User
<1> DEFINE w == [user[u] EXCEPT !.handle = h]
<1>5. w \in User /\ w.handle = h /\ w.email = user[u].email /\ w.verified = user[u].verified
      /\ w.source = user[u].source /\ w.password = user[u].password
  BY <1>3, <1>4 DEF User
<1>6. user' \in [Users -> User \cup {None}] /\ user'[u] = w /\ \A v \in Users : v # u => user'[v] = user[v]
  BY <1>2, <1>4, <1>5
<1> HIDE DEF w
<1>7. Accounts' = Accounts
  BY <1>3, <1>4, <1>5, <1>6, Sentinel DEF Accounts
<1>8. \A v \in Accounts : user'[v].email = user[v].email /\ user'[v].verified = user[v].verified
         /\ user'[v].source = user[v].source /\ user'[v].password = user[v].password
  BY <1>4, <1>5, <1>6
<1>9. TablesTyped'
  BY <1>2, <1>4, <1>6, <1>7, <1>8 DEF TablesSound, TablesTyped
<1>10. VerifiedIsSole' /\ LinkNamesHeldAddress'
  BY <1>2, <1>4, <1>7, <1>8 DEF TablesSound, VerifiedIsSole, LinkNamesHeldAddress, Verified, Accounts
<1>11. DiscordIsVerified' /\ FlowsNameAccounts'
  BY <1>2, <1>4, <1>7, <1>8 DEF TablesSound, DiscordIsVerified, FlowsNameAccounts
<1>12. HandlesNeverReused'
  <2>1. h \notin retired /\ \A v \in Accounts : user[v].handle # h
    BY <1>3 DEF KeepsHandle, HandleUnavailable
  <2> QED
    BY <1>2, <1>3, <1>4, <1>5, <1>6, <1>7, <2>1 DEF TablesSound, HandlesNeverReused
<1>13. WritesUnder(held[r] \cup Wants(r))
  <2>1. \A g \in Handles : HandleUnavailable(g)' => HandleUnavailable(g) \/ <<"handle", g>> \in held[r]
    BY <1>2, <1>3, <1>4, <1>5, <1>6, <1>7 DEF HandleUnavailable, KeepsHandle
  <2>2. \A a \in Emails : VerifiedEmailExists(a)' => VerifiedEmailExists(a)
    BY <1>4, <1>7, <1>8 DEF VerifiedEmailExists, Verified, Accounts
  <2> QED
    BY <1>2, <1>3, <1>4, <1>6, <1>7, <1>8, <2>1, <2>2 DEF WritesUnder, KeepsRow
<1> QED
  BY <1>2, <1>9, <1>10, <1>11, <1>12, <1>13, EndStep DEF TablesSound, AccountsInv, RequestsTyped

(* Another address, unverified, with a link of its own.                    *)
LEMMA ChangeCommitsKeeps ==
    ASSUME AccountsInv, NEW r \in Requests, ChangeCommits(r)
    PROVE  AccountsInv'
<1>1. PICK u, e : u = job[r].user /\ e = job[r].email
  OBVIOUS
<1>2. At(r, "change", "commit") /\ Ends(r) /\ job[r] \in Job /\ Relies(r)
      /\ mails < MaxMails /\ mails' = mails + 1 /\ user' = UpdateUnverifiedEmail(u, e)
      /\ link' = [link EXCEPT ![u] = [email |-> e, number |-> mails + 1]]
      /\ UNCHANGED <<retired, identity, session, reset, flow, faults>>
  BY <1>1 DEF ChangeCommits, AccountsInv, RequestsTyped
<1>3. u \in Accounts /\ e \in Emails /\ KeepsRow(r, u) /\ KeepsAddress(r, e) /\ ~Verified(u)
  BY <1>1, <1>2, JobFields DEF At, Relies, ChangeRelies
<1>4. TablesSound /\ user \in [Users -> User \cup {None}] /\ user[u] \in User /\ u \in Users
      /\ link \in [Users -> Link \cup {None}] /\ Accounts \subseteq Users
      /\ mails \in Nat /\ MaxMails \in Nat /\ ~user[u].verified
  BY <1>3, AccountsAssumption DEF AccountsInv, TablesSound, TablesTyped, Accounts, Verified
<1> DEFINE w == [user[u] EXCEPT !.email = e, !.source = "creator"]
           l == [email |-> e, number |-> mails + 1]
<1>5. w \in User /\ w.handle = user[u].handle /\ w.email = e /\ w.verified = user[u].verified
      /\ w.source = "creator" /\ w.password = user[u].password
  BY <1>3, <1>4 DEF User
<1>6. l \in Link /\ l.email = e
  BY <1>2, <1>3, <1>4 DEF Link
<1>7. user' \in [Users -> User \cup {None}] /\ user'[u] = w /\ \A v \in Users : v # u => user'[v] = user[v]
  BY <1>2, <1>4, <1>5 DEF UpdateUnverifiedEmail
<1>8. link' \in [Users -> Link \cup {None}] /\ link'[u] = l /\ \A v \in Users : v # u => link'[v] = link[v]
  BY <1>2, <1>4, <1>6
<1> HIDE DEF w, l
<1>9. Accounts' = Accounts /\ \A v \in Accounts : user'[v].handle = user[v].handle
  BY <1>3, <1>4, <1>5, <1>7, Sentinel DEF Accounts
<1>10. TablesTyped'
  <2>1. \A v \in Accounts' : /\ (user'[v].email = None) <=> (user'[v].source = None)
                             /\ user'[v].verified => user'[v].email # None
    BY <1>3, <1>4, <1>5, <1>7, <1>9, Sentinel DEF TablesSound, TablesTyped
  <2> QED
    BY <1>2, <1>4, <1>7, <1>8, <1>9, <2>1 DEF TablesSound, TablesTyped
<1>11. VerifiedIsSole'
  <2>1. \A v \in Accounts : user[v].verified => user[v].email # e
    BY <1>3 DEF KeepsAddress, VerifiedEmailExists, Verified, Accounts
  <2> QED
    BY <1>4, <1>5, <1>6, <1>7, <1>8, <1>9, <2>1 DEF TablesSound, VerifiedIsSole, Verified
<1>12. LinkNamesHeldAddress'
  BY <1>3, <1>4, <1>5, <1>6, <1>7, <1>8, <1>9 DEF TablesSound, LinkNamesHeldAddress, Verified
<1>13. DiscordIsVerified' /\ FlowsNameAccounts' /\ HandlesNeverReused'
  BY <1>2, <1>4, <1>5, <1>7, <1>9 DEF TablesSound, DiscordIsVerified, FlowsNameAccounts, HandlesNeverReused
<1>14. WritesUnder(held[r] \cup Wants(r))
  <2>1. \A g \in Handles : HandleUnavailable(g)' => HandleUnavailable(g)
    BY <1>2, <1>9 DEF HandleUnavailable
  <2>2. \A a \in Emails : VerifiedEmailExists(a)' => VerifiedEmailExists(a)
    BY <1>4, <1>5, <1>7, <1>9 DEF VerifiedEmailExists, Verified
  <2> QED
    BY <1>2, <1>3, <1>4, <1>7, <1>9, <2>1, <2>2 DEF WritesUnder, KeepsRow
<1> QED
  BY <1>2, <1>10, <1>11, <1>12, <1>13, <1>14, EndStep DEF TablesSound, AccountsInv, RequestsTyped

(* Steps that leave users, handles and links alone.                        *)
LEMMA SameUsers ==
    ASSUME TablesSound, UNCHANGED <<user, retired, link, mails, reset>>
    PROVE  /\ Accounts' = Accounts
           /\ VerifiedIsSole' /\ LinkNamesHeldAddress' /\ HandlesNeverReused' /\ DiscordIsVerified'
           /\ \A h \in Handles : HandleUnavailable(h)' <=> HandleUnavailable(h)
           /\ \A e \in Emails : VerifiedEmailExists(e)' <=> VerifiedEmailExists(e)
           /\ /\ identity' \in [Subjects -> Users \cup {None}]
              /\ \A s \in Subjects : identity'[s] = None \/ identity'[s] \in Accounts
              /\ session' \subseteq Accounts
              /\ flow' \in [Flows -> Flow \cup {None}]
              => TablesTyped'
<1>1. Accounts' = Accounts
  BY DEF Accounts
<1>2. VerifiedIsSole' /\ LinkNamesHeldAddress' /\ HandlesNeverReused' /\ DiscordIsVerified'
  BY <1>1 DEF TablesSound, VerifiedIsSole, LinkNamesHeldAddress, HandlesNeverReused, DiscordIsVerified, Verified
<1>3. \A h \in Handles : HandleUnavailable(h)' <=> HandleUnavailable(h)
  BY <1>1 DEF HandleUnavailable
<1>4. \A e \in Emails : VerifiedEmailExists(e)' <=> VerifiedEmailExists(e)
  BY <1>1 DEF VerifiedEmailExists, Verified
<1>5. /\ identity' \in [Subjects -> Users \cup {None}]
      /\ \A s \in Subjects : identity'[s] = None \/ identity'[s] \in Accounts
      /\ session' \subseteq Accounts
      /\ flow' \in [Flows -> Flow \cup {None}]
      => TablesTyped'
  BY <1>1 DEF TablesSound, TablesTyped
<1> QED
  BY <1>1, <1>2, <1>3, <1>4, <1>5

LEMMA AttachDiscordKeeps ==
    ASSUME AccountsInv, NEW r \in Requests, AttachDiscord(r)
    PROVE  AccountsInv'
<1>1. PICK u, s : u = job[r].user /\ s = job[r].profile.subject
  OBVIOUS
<1>2. At(r, "attach", "commit") /\ Ends(r) /\ job[r] \in Job /\ Relies(r) /\ TablesSound
      /\ identity' = [identity EXCEPT ![s] = u]
      /\ UNCHANGED <<user, retired, session, link, mails, reset, flow, faults>>
  BY <1>1 DEF AttachDiscord, AccountsInv, RequestsTyped
<1>3. u \in Accounts /\ u \in Users /\ s \in Subjects /\ KeepsSubject(r, s)
  BY <1>1, <1>2, JobFields DEF At, Relies, AttachRelies, Profile
<1>4. /\ identity' \in [Subjects -> Users \cup {None}]
      /\ \A x \in Subjects : identity'[x] = None \/ identity'[x] \in Accounts
      /\ \A x \in Subjects : x # s => identity'[x] = identity[x]
  BY <1>2, <1>3 DEF TablesSound, TablesTyped
<1>5. TablesTyped' /\ FlowsNameAccounts'
  BY <1>2, <1>4, SameUsers DEF TablesSound, TablesTyped, FlowsNameAccounts
<1>6. WritesUnder(held[r] \cup Wants(r))
  BY <1>2, <1>3, <1>4, SameUsers DEF WritesUnder, KeepsSubject
<1>7. VerifiedIsSole' /\ LinkNamesHeldAddress' /\ HandlesNeverReused' /\ DiscordIsVerified'
  BY <1>2, SameUsers
<1> QED
  BY <1>2, <1>5, <1>6, <1>7, EndStep DEF TablesSound, AccountsInv, RequestsTyped

LEMMA DetachCommitsKeeps ==
    ASSUME AccountsInv, NEW r \in Requests, DetachCommits(r)
    PROVE  AccountsInv'
<1>1. Ends(r) /\ TablesSound
      /\ identity' = [s \in Subjects |-> IF identity[s] = job[r].user THEN None ELSE identity[s]]
      /\ UNCHANGED <<user, retired, session, link, mails, reset, flow, faults>>
  BY DEF DetachCommits, AccountsInv
<1>2. /\ identity' \in [Subjects -> Users \cup {None}]
      /\ \A x \in Subjects : identity'[x] = None \/ identity'[x] = identity[x]
      /\ \A x \in Subjects : identity'[x] = None \/ identity'[x] \in Accounts
  BY <1>1 DEF TablesSound, TablesTyped
<1>3. TablesTyped' /\ FlowsNameAccounts'
  BY <1>1, <1>2, SameUsers DEF TablesSound, TablesTyped, FlowsNameAccounts
<1>4. WritesUnder(held[r] \cup Wants(r))
  BY <1>1, <1>2, SameUsers DEF WritesUnder
<1>5. VerifiedIsSole' /\ LinkNamesHeldAddress' /\ HandlesNeverReused' /\ DiscordIsVerified'
  BY <1>1, SameUsers
<1> QED
  BY <1>1, <1>3, <1>4, <1>5, EndStep DEF TablesSound, AccountsInv, RequestsTyped

LEMMA SyncDiscordAccountKeeps ==
    ASSUME AccountsInv, NEW r \in Requests, SyncDiscordAccount(r)
    PROVE  AccountsInv'
<1>1. At(r, "discord", "profile") /\ Ends(r) /\ TablesSound /\ Relies(r)
      /\ session' = session \cup {job[r].user}
      /\ UNCHANGED <<user, retired, identity, link, mails, reset, flow, faults>>
  BY DEF SyncDiscordAccount, AccountsInv
<1>2. job[r].user \in Accounts
  BY <1>1 DEF At, Relies, SyncRelies
<1>3. TablesTyped' /\ FlowsNameAccounts'
  BY <1>1, <1>2, SameUsers DEF TablesSound, TablesTyped, FlowsNameAccounts
<1>4. WritesUnder(held[r] \cup Wants(r))
  BY <1>1, SameUsers DEF WritesUnder
<1>5. VerifiedIsSole' /\ LinkNamesHeldAddress' /\ HandlesNeverReused' /\ DiscordIsVerified'
  BY <1>1, SameUsers
<1> QED
  BY <1>1, <1>3, <1>4, <1>5, EndStep DEF TablesSound, AccountsInv, RequestsTyped

-----------------------------------------------------------------------------
(* Steps of no request under way: single statements.                       *)
LEMMA StatementStep ==
    ASSUME AccountsInv, NEW L, \A q \in Requests : held[q] \cap L = {},
           UNCHANGED <<job, held, faults>>, TablesSound', WritesUnder(L)
    PROVE  AccountsInv'
<1>1. \A q \in Requests : Relies(q)'
  BY OthersRely DEF AccountsInv, RequestsTyped
<1> QED
  BY <1>1 DEF AccountsInv, RequestsTyped, LocksExclude

(* Sessions, links, resets and flows come and go.                          *)
LEMMA BookkeepingKeeps ==
    ASSUME AccountsInv, SignIn \/ SignOut \/ LinkRunsOut \/ BeginDiscord \/ RequestPasswordReset
    PROVE  AccountsInv'
<1>1. TablesSound /\ UNCHANGED <<user, retired, identity, mails, job, held, faults>>
  BY DEF AccountsInv, SignIn, SignOut, LinkRunsOut, BeginDiscord, RequestPasswordReset
<1>2. Accounts' = Accounts
  BY <1>1 DEF Accounts
<1>3. session' \subseteq Accounts /\ reset' \subseteq Accounts
  BY <1>1 DEF TablesSound, TablesTyped, SignIn, SignOut, LinkRunsOut, BeginDiscord,
              RequestPasswordReset, UsersForSignIn
<1>4. /\ link' \in [Users -> Link \cup {None}]
      /\ \A u \in Users : link'[u] = None \/ link'[u] = link[u]
  BY <1>1 DEF TablesSound, TablesTyped, SignIn, SignOut, LinkRunsOut, BeginDiscord, RequestPasswordReset
<1>5. /\ flow' \in [Flows -> Flow \cup {None}]
      /\ \A f \in Flows : flow'[f] # None /\ flow'[f].intent = "attach" => flow'[f].user \in Accounts
  <2>1. CASE UNCHANGED flow
    BY <1>1, <2>1 DEF TablesSound, TablesTyped, FlowsNameAccounts
  <2>2. ASSUME NEW f \in Flows, flow' = [flow EXCEPT ![f] = None]
        PROVE  <1>5!1 /\ <1>5!2
    BY <1>1, <2>2 DEF TablesSound, TablesTyped, FlowsNameAccounts
  <2>3. ASSUME NEW f \in Flows, flow' = [flow EXCEPT ![f] = [intent |-> "sign-in"]]
        PROVE  <1>5!1 /\ <1>5!2
    <3>1. [intent |-> "sign-in"] \in Flow
      BY DEF Flow
    <3> QED
      BY <1>1, <2>3, <3>1 DEF TablesSound, TablesTyped, FlowsNameAccounts
  <2>4. ASSUME NEW f \in Flows, NEW u \in session,
               flow' = [flow EXCEPT ![f] = [intent |-> "attach", user |-> u]]
        PROVE  <1>5!1 /\ <1>5!2
    <3>1. u \in Accounts /\ u \in Users
      BY <1>1 DEF TablesSound, TablesTyped, Accounts
    <3>2. [intent |-> "attach", user |-> u] \in Flow
      BY <3>1 DEF Flow
    <3> QED
      BY <1>1, <2>4, <3>1, <3>2 DEF TablesSound, TablesTyped, FlowsNameAccounts
  <2> QED
    BY <2>1, <2>2, <2>3, <2>4 DEF SignIn, SignOut, LinkRunsOut, BeginDiscord, RequestPasswordReset
<1>6. TablesTyped' /\ FlowsNameAccounts'
  BY <1>1, <1>2, <1>3, <1>4, <1>5 DEF TablesSound, TablesTyped, FlowsNameAccounts
<1>7. VerifiedIsSole' /\ LinkNamesHeldAddress'
  BY <1>1, <1>2, <1>4 DEF TablesSound, VerifiedIsSole, LinkNamesHeldAddress, Verified
<1>8. HandlesNeverReused' /\ DiscordIsVerified'
  BY <1>1, <1>2 DEF TablesSound, HandlesNeverReused, DiscordIsVerified
<1>9. WritesUnder({})
  BY <1>1, <1>2 DEF WritesUnder, HandleUnavailable, VerifiedEmailExists, Verified
<1> QED
  BY <1>1, <1>6, <1>7, <1>8, <1>9, StatementStep DEF TablesSound

(* A password is set; the row must be free.                                *)
LEMMA PasswordKeeps ==
    ASSUME AccountsInv, SetPassword \/ CompletePasswordReset
    PROVE  AccountsInv'
<1>1. PICK u \in Accounts : RowFree(u) /\ user' = [user EXCEPT ![u].password = TRUE]
  BY DEF AccountsInv, TablesSound, TablesTyped, SetPassword, CompletePasswordReset
<1>2. TablesSound /\ UNCHANGED <<retired, identity, session, link, mails, flow, job, held, faults>>
      /\ reset' \subseteq reset
  BY DEF AccountsInv, SetPassword, CompletePasswordReset
<1> DEFINE w == [user[u] EXCEPT !.password = TRUE]
<1>3. user \in [Users -> User \cup {None}] /\ user[u] \in User /\ u \in Users /\ Accounts \subseteq Users
  BY <1>1, <1>2 DEF TablesSound, TablesTyped, Accounts
<1>4. w \in User /\ w.handle = user[u].handle /\ w.email = user[u].email
      /\ w.verified = user[u].verified /\ w.source = user[u].source /\ w.password
  BY <1>3 DEF User
<1>5. user' \in [Users -> User \cup {None}] /\ user'[u] = w /\ \A v \in Users : v # u => user'[v] = user[v]
  BY <1>1, <1>3, <1>4
<1> HIDE DEF w
<1>6. /\ Accounts' = Accounts
      /\ \A v \in Accounts : /\ user'[v].email = user[v].email /\ user'[v].verified = user[v].verified
                             /\ user'[v].source = user[v].source /\ user'[v].handle = user[v].handle
                             /\ user[v].password => user'[v].password
  BY <1>3, <1>4, <1>5, Sentinel DEF Accounts
<1>7. TablesTyped' /\ FlowsNameAccounts'
  BY <1>2, <1>5, <1>6 DEF TablesSound, TablesTyped, FlowsNameAccounts
<1>8. VerifiedIsSole' /\ LinkNamesHeldAddress'
  BY <1>2, <1>6 DEF TablesSound, VerifiedIsSole, LinkNamesHeldAddress, Verified, Accounts
<1>9. HandlesNeverReused' /\ DiscordIsVerified'
  BY <1>2, <1>6 DEF TablesSound, HandlesNeverReused, DiscordIsVerified
<1>10. WritesUnder({<<"user", u>>})
  <2>1. \A h \in Handles : HandleUnavailable(h)' => HandleUnavailable(h)
    BY <1>2, <1>6 DEF HandleUnavailable
  <2>2. \A e \in Emails : VerifiedEmailExists(e)' => VerifiedEmailExists(e)
    BY <1>6 DEF VerifiedEmailExists, Verified, Accounts
  <2> QED
    BY <1>2, <1>3, <1>5, <1>6, <2>1, <2>2 DEF WritesUnder
<1>11. \A q \in Requests : held[q] \cap {<<"user", u>>} = {}
  BY <1>1 DEF RowFree
<1> QED
  BY <1>2, <1>7, <1>8, <1>9, <1>10, <1>11, StatementStep DEF TablesSound

-----------------------------------------------------------------------------
(* Every step keeps the invariant.                                         *)
LEMMA InitKeeps == Init => AccountsInv
<1> SUFFICES ASSUME Init PROVE AccountsInv
  OBVIOUS
<1>1. Accounts = {} /\ (\A u \in Users : link[u] = None) /\ (\A f \in Flows : flow[f] = None)
  BY DEF Init, Accounts
<1>2. TablesTyped
  BY <1>1, AccountsAssumption DEF Init, TablesTyped
<1>3. VerifiedIsSole /\ LinkNamesHeldAddress /\ HandlesNeverReused /\ DiscordIsVerified /\ FlowsNameAccounts
  BY <1>1 DEF VerifiedIsSole, LinkNamesHeldAddress, HandlesNeverReused, DiscordIsVerified, FlowsNameAccounts
<1>4. RequestsTyped /\ LocksExclude
  BY AccountsAssumption DEF Init, RequestsTyped, LocksExclude, Job, Idle
<1>5. \A r \in Requests : Relies(r)
  BY DEF Init, Idle, Relies, SignUpRelies, VerifyRelies, RenameRelies, ChangeRelies,
         SyncRelies, CreateRelies, AttachRelies, DetachRelies
<1> QED
  BY <1>2, <1>3, <1>4, <1>5 DEF AccountsInv, TablesSound

LEMMA NextKeeps ==
    ASSUME AccountsInv, [Next]_vars
    PROVE  AccountsInv'
<1>1. ASSUME NEW r \in Requests, Arrives(r)
      PROVE  AccountsInv'
  BY <1>1, SignUpKeeps, VerifyEmailKeeps, RenameHandleKeeps, ChangeUnverifiedEmailKeeps,
     CompleteDiscordKeeps, DetachDiscordKeeps DEF Arrives
<1>2. ASSUME NEW r \in Requests, Proceeds(r)
      PROVE  AccountsInv'
  <2>1. CASE SignUpLocksEmail(r) \/ SignUpCommits(r)
    BY <2>1, SignUpLocksEmailKeeps, SignUpCommitsKeeps
  <2>2. CASE VerifyLocksEmail(r) \/ VerifyRechecks(r) \/ VerifyLocksUser(r) \/ VerifyCommits(r)
    BY <2>2, VerifyLocksEmailKeeps, VerifyRechecksKeeps, VerifyLocksUserKeeps, VerifyCommitsKeeps
  <2>3. CASE RenameLocksFirst(r) \/ RenameLocksSecond(r) \/ RenameCommits(r)
    BY <2>3, RenameLocksFirstKeeps, RenameLocksSecondKeeps, RenameCommitsKeeps
  <2>4. CASE ChangeLocksEmail(r) \/ ChangeLocksUser(r) \/ ChangeCommits(r)
    BY <2>4, ChangeLocksEmailKeeps, ChangeLocksUserKeeps, ChangeCommitsKeeps
  <2>5. CASE SyncLocksEmail(r) \/ SyncLocksUser(r) \/ SyncDiscordEmail(r) \/ SyncDiscordAccount(r)
    BY <2>5, SyncLocksEmailKeeps, SyncLocksUserKeeps, SyncDiscordEmailKeeps, SyncDiscordAccountKeeps
  <2>6. CASE AvailableDiscordHandle(r) \/ LockAvailableDiscordEmail(r) \/ CreateDiscordAccount(r)
    BY <2>6, AvailableDiscordHandleKeeps, LockAvailableDiscordEmailKeeps, CreateDiscordAccountKeeps
  <2>7. CASE AttachLocksIdentity(r) \/ AttachLocksUser(r) \/ AttachDiscord(r)
    BY <2>7, AttachLocksIdentityKeeps, AttachLocksUserKeeps, AttachDiscordKeeps
  <2>8. CASE DetachLocksIdentity(r) \/ DetachLocksUser(r) \/ DetachCommits(r)
    BY <2>8, DetachLocksIdentityKeeps, DetachLocksUserKeeps, DetachCommitsKeeps
  <2> QED
    BY <1>2, <2>1, <2>2, <2>3, <2>4, <2>5, <2>6, <2>7, <2>8 DEF Proceeds
<1>3. CASE UNCHANGED vars
  <2>1. UNCHANGED Tables /\ UNCHANGED <<job, held, faults>>
    BY <1>3 DEF vars, Tables
  <2>2. TablesSound' /\ WritesUnder({})
    BY <2>1, TablesUnchanged DEF AccountsInv
  <2> QED
    BY <2>1, <2>2, StatementStep
<1> QED
  BY <1>1, <1>2, <1>3, RollBackKeeps, BookkeepingKeeps, PasswordKeeps DEF Next

LEMMA InvIsSafe == AccountsInv => AddressesSound /\ HandlesNeverReused
BY DEF AccountsInv, TablesSound, TablesTyped, RequestsTyped, AddressesSound, TypeOK

(* The invariant: tables sound, locks exclusive, and every request's       *)
(* reading still true, however requests interleave, fail or deadlock.      *)
THEOREM RequestsStayRight == Spec => []AccountsInv
BY InitKeeps, NextKeeps, PTL DEF Spec

(* One owner per verified address and no working link for any other, over  *)
(* sign-up, change, verification and Discord (service.go:146, 287, 521;    *)
(* discord.go:269).                                                        *)
THEOREM AddressesStaySound == Spec => []AddressesSound
BY RequestsStayRight, InvIsSafe, PTL

(* No handle is shared or given out again (service.go:136, 430;            *)
(* discord.go:433).                                                        *)
THEOREM HandlesStayUnique == Spec => []HandlesNeverReused
BY RequestsStayRight, InvIsSafe, PTL

-----------------------------------------------------------------------------
(* What a step may do to an account whose address is verified.             *)
LEMMA VerifiedRowStep ==
    ASSUME AccountsInv, Next, NEW v \in Accounts, Verified(v)
    PROVE  /\ user'[v] # None /\ user'[v].verified
           /\ user[v].password => user'[v].password
           /\ user[v].source = "creator" =>
                 user'[v].email = user[v].email /\ user'[v].source = "creator"
<1> DEFINE Goal == /\ user'[v] # None /\ user'[v].verified
                   /\ user[v].password => user'[v].password
                   /\ user[v].source = "creator" =>
                         user'[v].email = user[v].email /\ user'[v].source = "creator"
<1>1. /\ user \in [Users -> User \cup {None}] /\ v \in Users /\ user[v] \in User
      /\ user[v] # None /\ user[v].verified /\ user[v].email # None
  BY DEF AccountsInv, TablesSound, TablesTyped, Accounts, Verified
<1>2. ASSUME user'[v] = user[v] PROVE Goal
  BY <1>1, <1>2
<1> HIDE DEF Goal
<1>3. ASSUME NEW r \in Requests, SignUpCommits(r) PROVE Goal
  <2>1. user'[v] = user[v]
    BY <1>1, <1>3 DEF SignUpCommits, InsertUser
  <2> QED
    BY <1>2, <2>1
<1>4. ASSUME NEW r \in Requests, VerifyCommits(r) PROVE Goal
  <2>1. At(r, "verify", "commit") /\ Relies(r)
    BY <1>4 DEF VerifyCommits, AccountsInv
  <2>2. v # job[r].user
    BY <2>1 DEF At, Relies, VerifyRelies
  <2>3. user'[v] = user[v]
    BY <1>1, <1>4, <2>2 DEF VerifyCommits, ClearPendingEmailCopies, PendingCopies
  <2> QED
    BY <1>2, <2>3
<1>5. ASSUME NEW r \in Requests, RenameCommits(r) PROVE Goal
  <2>1. user' = [user EXCEPT ![job[r].user].handle = job[r].handle]
    BY <1>5 DEF RenameCommits
  <2>2. CASE v # job[r].user
    <3>1. user'[v] = user[v]
      BY <1>1, <2>1, <2>2
    <3> QED
      BY <1>2, <3>1
  <2>3. CASE v = job[r].user
    <3>1. user'[v] = [user[v] EXCEPT !.handle = job[r].handle] /\ job[r].handle \in Handles
      BY <1>1, <1>5, <2>1, <2>3, JobFields DEF RenameCommits, At, AccountsInv, RequestsTyped
    <3>2. user'[v] \in User /\ user'[v].email = user[v].email /\ user'[v].verified = user[v].verified
          /\ user'[v].source = user[v].source /\ user'[v].password = user[v].password
      BY <1>1, <3>1 DEF User
    <3> QED
      BY <1>1, <3>2, Sentinel DEF Goal
  <2> QED
    BY <2>2, <2>3
<1>6. ASSUME NEW r \in Requests, ChangeCommits(r) PROVE Goal
  <2>1. At(r, "change", "commit") /\ Relies(r)
    BY <1>6 DEF ChangeCommits, AccountsInv
  <2>2. v # job[r].user
    BY <2>1 DEF At, Relies, ChangeRelies
  <2>3. user'[v] = user[v]
    BY <1>1, <1>6, <2>2 DEF ChangeCommits, UpdateUnverifiedEmail
  <2> QED
    BY <1>2, <2>3
<1>7. ASSUME NEW r \in Requests, SyncDiscordEmail(r) PROVE Goal
  <2>1. At(r, "discord", "commit sync") /\ Relies(r) /\ job[r] \in Job
    BY <1>7 DEF SyncDiscordEmail, AccountsInv, RequestsTyped
  <2>2. CASE v # job[r].user
    <3>1. user'[v] = user[v]
      BY <1>1, <1>7, <2>2 DEF SyncDiscordEmail, ClearPendingEmailCopies, PendingCopies, UpdateDiscordEmail
    <3> QED
      BY <1>2, <3>1
  <2>3. CASE v = job[r].user
    <3> DEFINE e == job[r].profile.email
    <3>1. user[v].source = "discord" /\ e \in Emails
      BY <1>1, <2>1, <2>3, JobFields DEF At, Relies, SyncRelies, MaySync, Profile
    <3>2. user'[v] = [user[v] EXCEPT !.email = e, !.verified = TRUE, !.source = "discord"]
      BY <1>1, <1>7, <2>3 DEF SyncDiscordEmail, ClearPendingEmailCopies, PendingCopies, UpdateDiscordEmail
    <3>3. user'[v] \in User /\ user'[v].verified /\ user'[v].password = user[v].password
      BY <1>1, <3>1, <3>2 DEF User
    <3> QED
      BY <3>1, <3>3, Sentinel DEF Goal
  <2> QED
    BY <2>2, <2>3
<1>8. ASSUME NEW r \in Requests, CreateDiscordAccount(r) PROVE Goal
  <2>1. user'[v] = user[v]
    BY <1>1, <1>8 DEF CreateDiscordAccount, InsertDiscordUser, ClearPendingEmailCopies, PendingCopies
  <2> QED
    BY <1>2, <2>1
<1>9. ASSUME SetPassword \/ CompletePasswordReset PROVE Goal
  <2>1. PICK u \in Accounts : user' = [user EXCEPT ![u].password = TRUE]
    BY <1>9 DEF SetPassword, CompletePasswordReset, AccountsInv, TablesSound, TablesTyped
  <2>2. CASE v # u
    <3>1. user'[v] = user[v]
      BY <1>1, <2>1, <2>2
    <3> QED
      BY <1>2, <3>1
  <2>3. CASE v = u
    <3>1. user'[v] = [user[v] EXCEPT !.password = TRUE]
      BY <1>1, <2>1, <2>3
    <3>2. user'[v] \in User /\ user'[v].email = user[v].email /\ user'[v].verified = user[v].verified
          /\ user'[v].source = user[v].source /\ user'[v].password
      BY <1>1, <3>1 DEF User
    <3> QED
      BY <1>1, <3>2, Sentinel DEF Goal
  <2> QED
    BY <2>2, <2>3
<1>10. ASSUME UNCHANGED user PROVE Goal
  BY <1>2, <1>10
<1>11. ASSUME NEW r \in Requests, Arrives(r) PROVE UNCHANGED user
  BY <1>11 DEF Arrives, SignUp, VerifyEmail, RenameHandle, ChangeUnverifiedEmail, CompleteDiscord,
               DetachDiscord, Tables
<1>12. ASSUME NEW r \in Requests, Proceeds(r) PROVE Goal
  <2>1. \/ UNCHANGED user
        \/ SignUpCommits(r) \/ VerifyCommits(r) \/ RenameCommits(r) \/ ChangeCommits(r)
        \/ SyncDiscordEmail(r) \/ CreateDiscordAccount(r)
    BY <1>12 DEF Proceeds, SignUpLocksEmail, VerifyLocksEmail, VerifyRechecks, VerifyLocksUser,
          RenameLocksFirst, RenameLocksSecond, ChangeLocksEmail, ChangeLocksUser, SyncLocksEmail,
          SyncLocksUser, SyncDiscordAccount, AvailableDiscordHandle, LockAvailableDiscordEmail,
          AttachLocksIdentity, AttachLocksUser, AttachDiscord, DetachLocksIdentity, DetachLocksUser,
          DetachCommits, TakesIf, Tables
  <2> QED
    BY <1>3, <1>4, <1>5, <1>6, <1>7, <1>8, <1>10, <2>1
<1>13. ASSUME NEW r \in Requests, Fails(r) \/ DeadlockAborts(r) PROVE UNCHANGED user
  BY <1>13 DEF Fails, DeadlockAborts, Tables
<1>14. ASSUME SignIn \/ SignOut \/ LinkRunsOut \/ BeginDiscord \/ RequestPasswordReset
       PROVE  UNCHANGED user
  BY <1>14 DEF SignIn, SignOut, LinkRunsOut, BeginDiscord, RequestPasswordReset
<1>15. Goal
  BY <1>9, <1>10, <1>11, <1>12, <1>13, <1>14 DEF Next
<1> QED
  BY <1>15 DEF Goal

(* A Discord account stays attached, or the address and password do.       *)
LEMMA IdentityStep ==
    ASSUME AccountsInv, Next, NEW v \in Accounts, NEW s \in Subjects, identity[s] = v
    PROVE  identity'[s] = v \/ (Verified(v) /\ user[v].password)
<1> DEFINE Goal == identity'[s] = v \/ (Verified(v) /\ user[v].password)
<1>1. identity \in [Subjects -> Users \cup {None}] /\ v # None
  BY Sentinel DEF AccountsInv, TablesSound, TablesTyped, Accounts
<1>2. ASSUME NEW r \in Requests, CreateDiscordAccount(r) PROVE Goal
  <2>1. At(r, "discord", "commit") /\ Relies(r)
    BY <1>2 DEF CreateDiscordAccount, AccountsInv
  <2>2. s # job[r].profile.subject
    BY <1>1, <2>1 DEF At, Relies, CreateRelies, KeepsSubject
  <2> QED
    BY <1>1, <1>2, <2>2 DEF CreateDiscordAccount
<1>3. ASSUME NEW r \in Requests, AttachDiscord(r) PROVE Goal
  <2>1. At(r, "attach", "commit") /\ Relies(r)
    BY <1>3 DEF AttachDiscord, AccountsInv
  <2>2. s # job[r].profile.subject
    BY <1>1, <2>1 DEF At, Relies, AttachRelies, KeepsSubject
  <2> QED
    BY <1>1, <1>3, <2>2 DEF AttachDiscord
<1>4. ASSUME NEW r \in Requests, DetachCommits(r) PROVE Goal
  <2>1. At(r, "detach", "commit") /\ Relies(r)
    BY <1>4 DEF DetachCommits, AccountsInv
  <2>2. Verified(job[r].user) /\ user[job[r].user].password
    BY <2>1 DEF At, Relies, DetachRelies
  <2> QED
    BY <1>1, <1>4, <2>2 DEF DetachCommits
<1>5. ASSUME UNCHANGED identity PROVE Goal
  BY <1>5
<1> HIDE DEF Goal
<1>6. ASSUME NEW r \in Requests, Arrives(r) PROVE UNCHANGED identity
  BY <1>6 DEF Arrives, SignUp, VerifyEmail, RenameHandle, ChangeUnverifiedEmail, CompleteDiscord,
              DetachDiscord, Tables
<1>7. ASSUME NEW r \in Requests, Proceeds(r) PROVE Goal
  <2>1. UNCHANGED identity \/ CreateDiscordAccount(r) \/ AttachDiscord(r) \/ DetachCommits(r)
    BY <1>7 DEF Proceeds, SignUpLocksEmail, SignUpCommits, VerifyLocksEmail, VerifyRechecks,
          VerifyLocksUser, VerifyCommits, RenameLocksFirst, RenameLocksSecond, RenameCommits,
          ChangeLocksEmail, ChangeLocksUser, ChangeCommits, SyncLocksEmail, SyncLocksUser,
          SyncDiscordEmail, SyncDiscordAccount, AvailableDiscordHandle, LockAvailableDiscordEmail,
          AttachLocksIdentity, AttachLocksUser, DetachLocksIdentity, DetachLocksUser, TakesIf, Tables
  <2> QED
    BY <1>2, <1>3, <1>4, <1>5, <2>1
<1>8. ASSUME NEW r \in Requests, Fails(r) \/ DeadlockAborts(r) PROVE UNCHANGED identity
  BY <1>8 DEF Fails, DeadlockAborts, Tables
<1>9. ASSUME \/ SignIn \/ SignOut \/ LinkRunsOut \/ BeginDiscord \/ RequestPasswordReset
             \/ SetPassword \/ CompletePasswordReset
      PROVE  UNCHANGED identity
  BY <1>9 DEF SignIn, SignOut, LinkRunsOut, BeginDiscord, RequestPasswordReset, SetPassword,
              CompletePasswordReset
<1>10. Goal
  BY <1>5, <1>6, <1>7, <1>8, <1>9 DEF Next
<1> QED
  BY <1>10 DEF Goal

(* An account that has a way back in keeps one: a detach counts the        *)
(* address and the password under the account's row (discord.go:403).      *)
THEOREM WayBackStays == Spec => WayBackKept
<1> DEFINE A == \A u \in Accounts : CanReturn(u) => CanReturn(u)'
<1>1. ASSUME AccountsInv, [Next]_vars
      PROVE  [A]_vars
  <2>1. CASE UNCHANGED vars
    BY <2>1
  <2>2. ASSUME Next, NEW u \in Accounts, CanReturn(u)
        PROVE  CanReturn(u)'
    <3>1. CASE Verified(u) /\ user[u].password
      BY <1>1, <2>2, <3>1, VerifiedRowStep DEF CanReturn, Verified
    <3>2. CASE DiscordLinked(u)
      <4>1. PICK s \in Subjects : identity[s] = u
        BY <3>2 DEF DiscordLinked
      <4>2. CASE identity'[s] = u
        BY <4>2 DEF CanReturn, DiscordLinked
      <4> QED
        BY <1>1, <2>2, <3>1, <4>1, <4>2, IdentityStep
    <3> QED
      BY <2>2, <3>1, <3>2 DEF CanReturn
  <2> QED
    BY <1>1, <2>1, <2>2
<1>2. Spec => [][A]_vars
  BY <1>1, RequestsStayRight, PTL DEF Spec
<1> QED
  BY <1>2 DEF WayBackKept

(* An address its creator chose and verified stays, though Discord offers  *)
(* another at every sign-in (discord.go:180).                              *)
THEOREM CreatorAddressStays == Spec => CreatorAddressKept
<1> DEFINE A == \A u \in Accounts : Verified(u) /\ user[u].source = "creator"
                   => user'[u].email = user[u].email /\ user'[u].verified /\ user'[u].source = "creator"
<1>1. ASSUME AccountsInv, [Next]_vars
      PROVE  [A]_vars
  BY <1>1, VerifiedRowStep
<1>2. Spec => [][A]_vars
  BY <1>1, RequestsStayRight, PTL DEF Spec
<1> QED
  BY <1>2 DEF CreatorAddressKept
=============================================================================
