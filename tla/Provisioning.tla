---------------------------- MODULE Provisioning ----------------------------
(***************************************************************************)
(* How the first rows come about: replicas of core-banking-api that start  *)
(* at the same time (db/migrate.js, services/adminBootstrap.js,            *)
(* server.js), the script create-admin.js, and customers who register      *)
(* through the four steps of the page Register.jsx and POST /register.     *)
(*                                                                         *)
(* A users row is identified by its e-mail, which is unique.  Each action  *)
(* of a handler is one of its commits; a server may stop between any two.  *)
(***************************************************************************)
EXTENDS Naturals, FiniteSets

CONSTANTS
    Replicas,               \* of core-banking-api
    Signups,                \* pages with the registration form
    Emails, Names, NoName,  \* users.email and users.username
    Admins,                 \* <<ADMIN_EMAIL, ADMIN_USERNAME>> of the deployments
    Files,                  \* number of migration files
    MaxStops                \* bound: replicas that stop once they have started

ASSUME ProvisioningAssumption ==
    /\ Admins \subseteq Emails \X Names /\ NoName \notin Names
    /\ Files \in Nat /\ MaxStops \in Nat

VARIABLES
    schema,     \* schema_migrations: how many files, applied in their order
    user,       \* users, user_roles and accounts
    replica,    \* the start of each replica
    script,     \* create-admin.js
    signup,     \* the pages, and the request each one has sent
    observed    \* observed only: rows of bootstraps, stops

provisioningVars == <<schema, user, replica, script, signup, observed>>
-----------------------------------------------------------------------------
Row == [exists : BOOLEAN, name : Names \cup {NoName}, account : BOOLEAN,
        roles : SUBSET {"customer", "super_admin"}]

(* seen: the files known to be applied.                               *)
Replica == [step : {"down", "lock", "migrate", "verify", "boot", "booting", "serving"},
            seen : 0..Files]

(* form: the step shown; valid: the steps whose fields are in order.       *)
Signup == [form : 1..4, valid : SUBSET (1..3),
           email : Emails \cup {NoName}, name : Names \cup {NoName},
           step : {"edit", "sent", "free", "inserted", "opened", "created", "done"}]

ProvisioningTypeOK ==
    /\ schema \in 0..Files
    /\ user \in [Emails -> Row]
    /\ replica \in [Replicas -> Replica]
    /\ script \in [step : {"idle", "update", "insert", "role"}, email : Emails \cup {NoName}]
    /\ signup \in [Signups -> Signup]
    /\ observed \in [booted : SUBSET Emails, stops : 0..MaxStops]

NoUser == [exists |-> FALSE, name |-> NoName, account |-> FALSE, roles |-> {}]
Down == [step |-> "down", seen |-> 0]
Idle == [step |-> "idle", email |-> NoName]
BlankForm == [form |-> 1, valid |-> {}, step |-> "edit", email |-> NoName, name |-> NoName]

ProvisioningInit ==
    /\ schema = 0
    /\ user = [e \in Emails |-> NoUser]
    /\ replica = [r \in Replicas |-> Down]
    /\ script = Idle
    /\ signup = [s \in Signups |-> BlankForm]
    /\ observed = [booted |-> {}, stops |-> 0]
-----------------------------------------------------------------------------
(* The unique indexes on users.email and users.username.                   *)
EmailTaken(e) == user[e].exists
NameTaken(n) == \E e \in Emails : user[e].exists /\ user[e].name = n

AdminExists == \E e \in Emails : "super_admin" \in user[e].roles

Step(r, s) == replica' = [replica EXCEPT ![r].step = s]
-----------------------------------------------------------------------------
(* RUN_MIGRATIONS_ON_STARTUP chooses between migrating and verifying.      *)
Start(r) ==
    /\ replica[r].step = "down"
    /\ \E s \in {"lock", "verify"} : Step(r, s)
    /\ UNCHANGED <<schema, user, script, signup, observed>>

(* A variant of LockMigrations without the advisory lock.                  *)
ListMigrations(r) ==
    /\ replica[r].step = "lock"
    /\ replica' = [replica EXCEPT ![r] = [step |-> "migrate", seen |-> schema]]
    /\ UNCHANGED <<schema, user, script, signup, observed>>

(* pg_advisory_lock: one replica at a time lists what is already applied.  *)
LockMigrations(r) ==
    /\ replica[r].step = "lock"
    /\ \A o \in Replicas : replica[o].step # "migrate"
    /\ replica' = [replica EXCEPT ![r] = [step |-> "migrate", seen |-> schema]]
    /\ UNCHANGED <<schema, user, script, signup, observed>>

(* One file and its version, in one commit.  The version is the primary    *)
(* key: a second insertion fails and with it the start of the replica.     *)
ApplyMigration(r) ==
    LET next == replica[r].seen + 1 IN
    /\ replica[r].step = "migrate" /\ next <= Files
    /\ IF schema < next
       THEN /\ schema' = next
            /\ replica' = [replica EXCEPT ![r].seen = next]
       ELSE /\ UNCHANGED schema
            /\ replica' = [replica EXCEPT ![r] = Down]
    /\ UNCHANGED <<user, script, signup, observed>>

MigrationsDone(r) ==
    /\ replica[r].step = "migrate" /\ replica[r].seen = Files
    /\ replica' = [replica EXCEPT ![r] = [step |-> "boot", seen |-> 0]]
    /\ UNCHANGED <<schema, user, script, signup, observed>>

(* assertSchemaReady, or exit(1).                                          *)
VerifySchema(r) ==
    /\ replica[r].step = "verify"
    /\ Step(r, IF schema = Files THEN "boot" ELSE "down")
    /\ UNCHANGED <<schema, user, script, signup, observed>>
-----------------------------------------------------------------------------
(* ADMIN_BOOTSTRAP_ENABLED is not 'true'.                                  *)
SkipBootstrap(r) ==
    /\ replica[r].step = "boot"
    /\ Step(r, "serving")
    /\ UNCHANGED <<schema, user, script, signup, observed>>

(* A variant of BeginBootstrap without the advisory lock.                  *)
BeginUnlocked(r) ==
    /\ replica[r].step = "boot"
    /\ Step(r, IF AdminExists THEN "serving" ELSE "booting")
    /\ UNCHANGED <<schema, user, script, signup, observed>>

(* Under pg_advisory_xact_lock: is there any administrator?                *)
BeginBootstrap(r) ==
    /\ replica[r].step = "boot"
    /\ \A o \in Replicas : replica[o].step # "booting"
    /\ Step(r, IF AdminExists THEN "serving" ELSE "booting")
    /\ UNCHANGED <<schema, user, script, signup, observed>>

(* INSERT ... ON CONFLICT (email) DO NOTHING, the role, COMMIT.  A taken   *)
(* username is no such conflict: the statement fails and the server exits. *)
CommitBootstrap(r) ==
    /\ replica[r].step = "booting"
    /\ \E a \in Admins :
         \/ /\ EmailTaken(a[1])
            /\ Step(r, "serving")
            /\ UNCHANGED <<user, observed>>
         \/ /\ ~EmailTaken(a[1]) /\ NameTaken(a[2])
            /\ Step(r, "down")
            /\ UNCHANGED <<user, observed>>
         \/ /\ ~EmailTaken(a[1]) /\ ~NameTaken(a[2])
            /\ user' = [user EXCEPT ![a[1]] = [exists |-> TRUE, name |-> a[2], account |-> FALSE,
                                              roles |-> {"super_admin"}]]
            /\ observed' = [observed EXCEPT !.booted = @ \cup {a[1]}]
            /\ Step(r, "serving")
    /\ UNCHANGED <<schema, script, signup>>

(* A crash or a shutdown; what was not committed is rolled back.           *)
Stop(r) ==
    /\ replica[r].step # "down" /\ observed.stops < MaxStops
    /\ replica' = [replica EXCEPT ![r] = Down]
    /\ observed' = [observed EXCEPT !.stops = @ + 1]
    /\ UNCHANGED <<schema, user, script, signup>>
-----------------------------------------------------------------------------
(* create-admin.js: three autocommitted statements.  The row it inserts    *)
(* has no username.                                                        *)
ScriptRead ==
    /\ script = Idle /\ schema = Files
    /\ \E a \in Admins :
         script' = [step |-> IF EmailTaken(a[1]) THEN "update" ELSE "insert", email |-> a[1]]
    /\ UNCHANGED <<schema, user, replica, signup, observed>>

ScriptWrite ==
    /\ script.step \in {"update", "insert"}
    /\ IF script.step = "insert" /\ EmailTaken(script.email)
       THEN /\ script' = Idle
            /\ UNCHANGED user
       ELSE /\ script' = [script EXCEPT !.step = "role"]
            /\ user' = [user EXCEPT ![script.email].exists = TRUE]
    /\ UNCHANGED <<schema, replica, signup, observed>>

ScriptRole ==
    /\ script.step = "role"
    /\ user' = [user EXCEPT ![script.email].roles = @ \cup {"super_admin"}]
    /\ script' = Idle
    /\ UNCHANGED <<schema, replica, signup, observed>>

ScriptFails ==
    /\ script # Idle
    /\ script' = Idle
    /\ UNCHANGED <<schema, user, replica, signup, observed>>
-----------------------------------------------------------------------------
Editing(s, k) == signup[s].step = "edit" /\ signup[s].form = k

Valid(s, now) == signup' = [signup EXCEPT ![s].valid = now]

(* Step 1 holds the password, step 2 its confirmation: typing on step 1    *)
(* can put either step in or out of order.                                 *)
EditPersonal(s) ==
    /\ Editing(s, 1)
    /\ \E now \in SUBSET {1, 2} : Valid(s, now \cup (signup[s].valid \cap {3}))
    /\ UNCHANGED <<schema, user, replica, script, observed>>

EditSecurity(s) ==
    /\ Editing(s, 2)
    /\ \E now \in SUBSET {2} : Valid(s, now \cup (signup[s].valid \ {2}))
    /\ UNCHANGED <<schema, user, replica, script, observed>>

(* One of three account types; a choice cannot be undone, only changed.    *)
ChooseAccount(s) ==
    /\ Editing(s, 3)
    /\ Valid(s, signup[s].valid \cup {3})
    /\ UNCHANGED <<schema, user, replica, script, observed>>

(* validateStep1, validateStep2, validateStep3.                            *)
Validated(s, k) == k \in signup[s].valid

(* A variant of Advance that returns to the review once it was reached.    *)
AdvanceToReview(s, k) ==
    /\ Editing(s, k) /\ Validated(s, k)
    /\ signup' = [signup EXCEPT ![s].form = IF 3 \in signup[s].valid THEN 4 ELSE k + 1]
    /\ UNCHANGED <<schema, user, replica, script, observed>>

Advance(s, k) ==
    /\ Editing(s, k) /\ Validated(s, k)
    /\ signup' = [signup EXCEPT ![s].form = k + 1]
    /\ UNCHANGED <<schema, user, replica, script, observed>>

Back(s, k) ==
    /\ Editing(s, k) /\ k > 1
    /\ signup' = [signup EXCEPT ![s].form = k - 1]
    /\ UNCHANGED <<schema, user, replica, script, observed>>

(* The terms are agreed to; submit() validates nothing else.               *)
Submit(s) ==
    /\ Editing(s, 4)
    /\ \E e \in Emails, n \in Names :
         signup' = [signup EXCEPT ![s] = [@ EXCEPT !.step = "sent", !.email = e, !.name = n]]
    /\ UNCHANGED <<schema, user, replica, script, observed>>

-----------------------------------------------------------------------------
Serving == \E r \in Replicas : replica[r].step = "serving"

(* A request at step "from" goes on, or the page shows an error and the    *)
(* form again, to be sent with the same or another e-mail and username.    *)
Refused(s) == [signup[s] EXCEPT !.step = "edit", !.email = NoName, !.name = NoName]

Goes(s, from, to) ==
    /\ Serving /\ signup[s].step = from
    /\ signup' = [signup EXCEPT ![s] = IF to = "edit" THEN Refused(s) ELSE [@ EXCEPT !.step = to]]

RegisterCheck(s) ==
    /\ Goes(s, "sent", IF EmailTaken(signup[s].email) \/ NameTaken(signup[s].name)
                       THEN "edit" ELSE "free")
    /\ UNCHANGED <<schema, user, replica, script, observed>>

(* INSERT INTO users: a unique index may still refuse it.                  *)
RegisterUser(s) ==
    LET e == signup[s].email
        taken == EmailTaken(e) \/ NameTaken(signup[s].name) IN
    /\ Goes(s, "free", IF taken THEN "edit" ELSE "inserted")
    /\ user' = IF taken THEN user
               ELSE [user EXCEPT ![e] = [exists |-> TRUE, name |-> signup[s].name,
                                         account |-> FALSE, roles |-> {}]]
    /\ UNCHANGED <<schema, replica, script, observed>>

RegisterAccount(s) ==
    /\ Goes(s, "inserted", "opened")
    /\ user' = [user EXCEPT ![signup[s].email].account = TRUE]
    /\ UNCHANGED <<schema, replica, script, observed>>

RegisterRole(s) ==
    /\ Goes(s, "opened", "created")
    /\ user' = [user EXCEPT ![signup[s].email].roles = @ \cup {"customer"}]
    /\ UNCHANGED <<schema, replica, script, observed>>

(* Answered 201: the page signs in, and leaves for /onboarding/complete.   *)
RegisterSignIn(s) ==
    /\ Goes(s, "created", "done")
    /\ UNCHANGED <<schema, user, replica, script, observed>>

(* A statement fails, the server stops or the answer is lost.              *)
RegisterCut(s) ==
    /\ signup[s].step \notin {"edit", "done"}
    /\ signup' = [signup EXCEPT ![s] = Refused(s)]
    /\ UNCHANGED <<schema, user, replica, script, observed>>
-----------------------------------------------------------------------------
ProvisioningNext ==
    \/ \E r \in Replicas :
         \/ Start(r) \/ LockMigrations(r) \/ ApplyMigration(r) \/ MigrationsDone(r)
         \/ VerifySchema(r) \/ SkipBootstrap(r) \/ BeginBootstrap(r) \/ CommitBootstrap(r)
         \/ Stop(r)
    \/ ScriptRead \/ ScriptWrite \/ ScriptRole \/ ScriptFails
    \/ \E s \in Signups :
         \/ EditPersonal(s) \/ EditSecurity(s) \/ ChooseAccount(s)
         \/ \E k \in 1..3 : Advance(s, k)
         \/ \E k \in 2..4 : Back(s, k)
         \/ Submit(s) \/ RegisterCheck(s) \/ RegisterUser(s) \/ RegisterAccount(s)
         \/ RegisterRole(s) \/ RegisterSignIn(s) \/ RegisterCut(s)

ProvisioningSpec == ProvisioningInit /\ [][ProvisioningNext]_provisioningVars
-----------------------------------------------------------------------------
(* A form is submitted only with every step in order, whatever the         *)
(* customer went back to and changed; and a customer who is told of the    *)
(* registration has a whole one: the row with the username that was chosen *)
(* and nobody else's, an account and the role (Register.jsx:193-215,       *)
(* routes/auth.js:95-153).                                                 *)
SignupsAreWhole ==
    \A s \in Signups :
        /\ signup[s].step # "edit" => signup[s].valid = 1..3
        /\ signup[s].step = "done" =>
             LET row == user[signup[s].email] IN
             /\ row.name = signup[s].name /\ row.account /\ "customer" \in row.roles
             /\ \A o \in Signups : signup[o].step = "done" /\ signup[o].email = signup[s].email
                                    => o = s

(* No replica goes on to serve before the last migration is applied, and   *)
(* of several that migrate at once none comes upon a file that another one *)
(* has applied, which would end its start (db/migrate.js:62-66).           *)
StartsOnReadySchema ==
    \A r \in Replicas :
        /\ replica[r].step \in {"boot", "booting", "serving"} => schema = Files
        /\ replica[r].step = "migrate" => replica[r].seen = schema

(* Whatever replicas start together, and whatever administrator their      *)
(* environments name, bootstraps create one administrator at most, and     *)
(* never out of a row that was there (services/adminBootstrap.js:139-184). *)
BootstrapsOneAdmin ==
    /\ Cardinality(observed.booted) <= 1
    /\ \A s \in Signups : signup[s].step = "done" => signup[s].email \notin observed.booted
=============================================================================
