----------------------------- MODULE Workspace ------------------------------
(***************************************************************************)
(* Accounts, sessions, workspaces and targets of the control plane (the    *)
(* auth, project and target routes of server.js, security.js and           *)
(* supabase-auth.js).  With Supabase configured, a first sign-in is        *)
(* provisioned: a transaction under an advisory lock of the subject finds  *)
(* or makes the user, the identity and the first workspace.  Without it,   *)
(* people register and log in with a password and a session row.           *)
(*                                                                         *)
(* A transaction is two steps, what it reads and what it commits: a row    *)
(* another transaction commits in between makes its INSERT fail.  A user   *)
(* is known by the email address, which is unique; a session has an expiry *)
(* that may pass at any time.                                              *)
(***************************************************************************)
EXTENDS Naturals, FiniteSets

CONSTANTS
    Emails,        \* addresses
    Subjects,      \* Supabase user ids
    Clients,       \* requests for an account, and for targets
    Tokens,        \* session tokens and verification tokens
    Nothing        \* no user, no subject

VARIABLES
    provider,      \* "supabase" or "local": how buildApp is configured
    users,         \* table users
    identities,    \* table auth_identities: the user of a subject
    workspaces,    \* organizations: the user each one's owner membership names
    provisionLock, \* pg_advisory_xact_lock(atlas-supabase-user-v1, subject)
    clients,       \* the requests for an account
    sessions,      \* table sessions: the user of a token, and whether it is over
    target         \* a target: its state, its DNS challenge and its verifications

accountVars == <<provider, users, identities, workspaces, provisionLock, clients, sessions, target>>

TypeOK ==
    /\ provider \in {"supabase", "local"}
    /\ users \subseteq Emails
    /\ identities \in [Subjects -> Emails \cup {Nothing}]
    /\ workspaces \in [Emails -> Nat]
    /\ provisionLock \in [Subjects -> Clients \cup {Nothing}]
    /\ clients \in [Clients -> [pc : {"idle", "waiting", "reading", "writing", "ok", "400",
                                      "401", "409", "500"},
                                email : Emails, subject : Subjects,
                                user : Emails \cup {Nothing}, first : BOOLEAN]]
    /\ sessions \in [Tokens -> [user : Emails \cup {Nothing}, over : BOOLEAN]]
    /\ target \in [state : {"absent", "registered", "verified"}, published : BOOLEAN,
                   shown : BOOLEAN, verifying : BOOLEAN]

NoSession == [user |-> Nothing, over |-> FALSE]

Init ==
    /\ provider \in {"supabase", "local"}
    /\ users = {}
    /\ identities = [s \in Subjects |-> Nothing]
    /\ workspaces = [u \in Emails |-> 0]
    /\ provisionLock = [s \in Subjects |-> Nothing]
    /\ clients \in [Clients -> [pc : {"idle"}, email : Emails, subject : Subjects,
                                user : {Nothing}, first : {FALSE}]]
    /\ sessions = [t \in Tokens |-> NoSession]
    /\ target = [state |-> "absent", published |-> FALSE, shown |-> FALSE, verifying |-> FALSE]

TablesKept  == UNCHANGED <<users, identities, workspaces>>
Ends(c, a)  == clients' = [clients EXCEPT ![c].pc = a]
TargetsKept == UNCHANGED <<provider, target>>

-----------------------------------------------------------------------------
(* POST /v1/auth/provision.                                                *)

(* The provider refuses the token, or vouches for the subject and address. *)
SignIn(c) ==
    /\ provider = "supabase"
    /\ clients[c].pc = "idle"
    /\ Ends(c, "waiting") \/ Ends(c, "401")
    /\ TablesKept
    /\ UNCHANGED <<provisionLock, sessions>>
    /\ TargetsKept

(* Without the lock nothing keeps the requests of one subject apart.       *)
LockNothing(c) ==
    /\ clients[c].pc = "waiting"
    /\ Ends(c, "reading")
    /\ TablesKept
    /\ UNCHANGED <<provisionLock, sessions>>
    /\ TargetsKept

LockSubject(c) ==
    /\ clients[c].pc = "waiting"
    /\ provisionLock[clients[c].subject] = Nothing
    /\ provisionLock' = [provisionLock EXCEPT ![clients[c].subject] = c]
    /\ Ends(c, "reading")
    /\ TablesKept
    /\ UNCHANGED sessions
    /\ TargetsKept

(* The identity decides who the user is; without one the address does.     *)
ReadAccount(c) ==
    LET known == identities[clients[c].subject]
        user  == IF known # Nothing THEN known ELSE clients[c].email
    IN  /\ clients[c].pc = "reading"
        /\ clients' = [clients EXCEPT ![c].pc = "writing",
                                      ![c].user = IF user \in users THEN user ELSE Nothing,
                                      ![c].first = user \notin users \/ workspaces[user] = 0]
        /\ TablesKept
        /\ UNCHANGED <<provisionLock, sessions>>
        /\ TargetsKept

(* Unique: users.email, (provider, subject) and (provider, user).  The     *)
(* conflict on the subject alone is no error.                              *)
ProvisionConflicts(c) ==
    LET user == IF clients[c].user = Nothing THEN clients[c].email ELSE clients[c].user
    IN  \/ clients[c].user = Nothing /\ clients[c].email \in users
        \/ /\ identities[clients[c].subject] = Nothing
           /\ \E s \in Subjects : identities[s] = user

UnlockSubject(c) ==
    provisionLock' = [s \in Subjects |-> IF provisionLock[s] = c THEN Nothing ELSE provisionLock[s]]

(* A first workspace needs a name; without one the user and the identity   *)
(* are committed all the same, since nothing throws.                       *)
Provision(c) ==
    LET s    == clients[c].subject
        user == IF clients[c].user = Nothing THEN clients[c].email ELSE clients[c].user
    IN  /\ provider = "supabase"
        /\ clients[c].pc = "writing"
        /\ \/ /\ ProvisionConflicts(c)
              /\ Ends(c, "500")
              /\ TablesKept
           \/ /\ ~ProvisionConflicts(c)
              /\ users' = users \cup {user}
              /\ identities' = [identities EXCEPT ![s] = IF @ = Nothing THEN user ELSE @]
              /\ \/ /\ clients[c].first
                    /\ workspaces' = [workspaces EXCEPT ![user] = @ + 1]
                    /\ Ends(c, "ok")
                 \/ clients[c].first /\ Ends(c, "400") /\ UNCHANGED workspaces
                 \/ ~clients[c].first /\ Ends(c, "ok") /\ UNCHANGED workspaces
        /\ UnlockSubject(c)
        /\ UNCHANGED sessions
        /\ TargetsKept

-----------------------------------------------------------------------------
(* Local accounts.                                                         *)

(* The hash of the password takes its time; the transaction makes all five *)
(* rows or none.                                                           *)
Register(c, t) ==
    LET u == clients[c].email
    IN  /\ provider = "local"
        /\ clients[c].pc = "idle"
        /\ sessions[t] = NoSession
        /\ IF u \in users
           THEN /\ Ends(c, "409")
                /\ UNCHANGED <<users, workspaces, sessions>>
           ELSE /\ users' = users \cup {u}
                /\ workspaces' = [workspaces EXCEPT ![u] = @ + 1]
                /\ sessions' = [sessions EXCEPT ![t].user = u]
                /\ Ends(c, "ok")
        /\ UNCHANGED <<identities, provisionLock>>
        /\ TargetsKept

(* A login also deletes the sessions that are over.                        *)
Login(c, t) ==
    LET kept == [x \in Tokens |-> IF sessions[x].over THEN NoSession ELSE sessions[x]]
    IN  /\ provider = "local"
        /\ clients[c].pc = "idle"
        /\ sessions[t] = NoSession
        /\ \/ /\ clients[c].email \in users
              /\ sessions' = [kept EXCEPT ![t].user = clients[c].email]
              /\ Ends(c, "ok")
           \/ Ends(c, "401") /\ UNCHANGED sessions
        /\ TablesKept
        /\ UNCHANGED provisionLock
        /\ TargetsKept

Logout(t) ==
    /\ sessions[t] # NoSession
    /\ sessions' = [sessions EXCEPT ![t] = NoSession]
    /\ TablesKept
    /\ UNCHANGED <<provisionLock, clients>>
    /\ TargetsKept

SessionEnds(t) ==
    /\ sessions[t].user # Nothing
    /\ ~sessions[t].over
    /\ sessions' = [sessions EXCEPT ![t].over = TRUE]
    /\ TablesKept
    /\ UNCHANGED <<provisionLock, clients>>
    /\ TargetsKept

(* sessionUser and organizationContext: who may act in which workspace.    *)
MayEdit(u) ==
    /\ workspaces[u] > 0
    /\ \/ provider = "local" /\ \E t \in Tokens : sessions[t].user = u /\ ~sessions[t].over
       \/ provider = "supabase" /\ \E s \in Subjects : identities[s] = u

-----------------------------------------------------------------------------
(* A target of a workspace and the proof that its owner controls the name. *)

AccountsKept == UNCHANGED <<provider, users, identities, workspaces, provisionLock, clients, sessions>>

RegisterTarget ==
    /\ target.state = "absent"
    /\ \E u \in Emails : MayEdit(u)
    /\ target' = [target EXCEPT !.state = "registered"]
    /\ AccountsKept

(* The TXT record comes and goes with whoever runs the zone.               *)
PublishChallenge ==
    /\ target.state # "absent"
    /\ target' = [target EXCEPT !.published = ~@]
    /\ AccountsKept

(* A request reads the row and resolves the name, and answers 409 when the *)
(* record is not there.                                                    *)
ResolveChallenge ==
    /\ target.state = "registered"
    /\ \E u \in Emails : MayEdit(u)
    /\ target.published
    /\ target' = [target EXCEPT !.verifying = TRUE, !.shown = TRUE]
    /\ AccountsKept

VerifyTarget ==
    /\ target.verifying
    /\ target' = [target EXCEPT !.verifying = FALSE, !.state = "verified"]
    /\ AccountsKept

Next ==
    \/ \E c \in Clients :
          \/ SignIn(c) \/ LockSubject(c) \/ ReadAccount(c) \/ Provision(c)
          \/ \E t \in Tokens : Register(c, t) \/ Login(c, t)
    \/ \E t \in Tokens : Logout(t) \/ SessionEnds(t)
    \/ RegisterTarget \/ PublishChallenge \/ ResolveChallenge \/ VerifyTarget

Spec == Init /\ [][Next]_accountVars

(* A user has one first workspace and one identity however many requests   *)
(* sign the user in at once: what a request has read may be out of date    *)
(* when it writes.                                                         *)
OneFirstWorkspace ==
    /\ \A u \in Emails : workspaces[u] <= 1
    /\ \A s, z \in Subjects : s # z /\ identities[s] # Nothing => identities[s] # identities[z]
    /\ \A s \in Subjects : identities[s] # Nothing => identities[s] \in users
=============================================================================
