------------------------------ MODULE UserProofs ------------------------------
(***************************************************************************)
(* Proofs about how users come about (module Provisioning), how they get   *)
(* in (module Access) and what they see (module Activity), for any         *)
(* replicas, forms, pages, requests and bounds.                            *)
(***************************************************************************)
EXTENDS Provisioning, Access, Activity, FiniteSetTheorems, SequenceTheorems, TLAPS

\* Counts that were read, and the lock, are covered by wrong passwords.
CountsCovered ==
    /\ \A p \in Pages : login[p].failed <= seen.bad
    /\ LockNeedsFailures

\* Until an enrolment overtakes a verification, all of them are about the
\* secret that is stored.
ProofsCurrent ==
    ~seen.overtaken =>
        /\ \A v \in Verifiers : verify[v] \in {0, row.secret}
        /\ row.mfa => seen.proven = row.secret

AccessInv == AccessTypeOK /\ CountsCovered /\ ProofsCurrent

-----------------------------------------------------------------------------
(* Signing in                                                              *)

LEMMA AccessInitInv ==
  ASSUME AccessInit PROVE AccessInv
  BY AccessAssumption
     DEF AccessInit, AccessInv, AccessTypeOK, CountsCovered, LockNeedsFailures, ProofsCurrent,
         LoginPage, Login

\* A request is answered, whatever page the answer leads to.
LEMMA AnswerStep ==
  ASSUME AccessTypeOK, NEW p \in Pages, NEW shown \in {"login", "verify", "app"}, Answer(p, shown)
  PROVE  /\ login' \in [Pages -> Login] /\ login'[p].failed = 0
         /\ \A q \in Pages : q # p => login'[q] = login[q]
<1>1. 0 \in 0..MaxBad
  BY AccessAssumption
<1>2. [LoginPage EXCEPT !.shows = shown] \in Login
  <2>1. LoginPage \in Login
    BY <1>1 DEF LoginPage, Login
  <2> QED
    BY <2>1 DEF Login
<1>3. [LoginPage EXCEPT !.shows = shown].failed = 0
  BY DEF LoginPage
<1> QED
  BY <1>2, <1>3 DEF Answer, AccessTypeOK

UsersRow == [failed : 0..MaxBad, locked : BOOLEAN, mfa : BOOLEAN, secret : 0..MaxSecrets]

LEMMA Zeros == 0 \in 0..MaxBad /\ 0 \in 0..MaxSecrets
  BY AccessAssumption

LEMMA RowUnlocked ==
  ASSUME NEW r \in UsersRow, NEW f \in 0..MaxBad
  PROVE  LET new == [r EXCEPT !.failed = f, !.locked = FALSE] IN
         new \in UsersRow /\ new.failed = f /\ ~new.locked /\ new.secret = r.secret /\ new.mfa = r.mfa
  BY DEF UsersRow

LEMMA AccessNextInv ==
  ASSUME AccessInv, [AccessNext]_accessVars
  PROVE  AccessInv'
<1> USE AccessAssumption DEF AccessInv
<1>t. /\ \A p \in Pages : login[p] \in Login /\ login[p].failed \in Nat
                           /\ login[p].shows \in {"login", "verify", "app"}
      /\ login \in [Pages -> Login] /\ verify \in [Verifiers -> 0..MaxSecrets]
      /\ row \in [failed : 0..MaxBad, locked : BOOLEAN, mfa : BOOLEAN, secret : 0..MaxSecrets]
      /\ seen \in [bad : 0..MaxBad, proven : 0..MaxSecrets, overtaken : BOOLEAN]
  BY DEF AccessTypeOK, Login
<1>1. ASSUME NEW p \in Pages, SubmitLogin(p) PROVE AccessInv'
  <2> DEFINE c == login[p].shows = "verify"
  <2>1. c \in BOOLEAN /\ login' = [login EXCEPT ![p] = [@ EXCEPT !.step = "sent", !.code = c]]
    BY <1>1 DEF SubmitLogin
  <2> HIDE DEF c
  <2>2. [login[p] EXCEPT !.step = "sent", !.code = c] \in Login
        /\ [login[p] EXCEPT !.step = "sent", !.code = c].failed = login[p].failed
    BY <1>t, <2>1 DEF Login
  <2>3. login' \in [Pages -> Login] /\ \A q \in Pages : login'[q].failed = login[q].failed
    BY <1>t, <2>1, <2>2
  <2> QED
    BY <1>1, <2>3 DEF SubmitLogin, AccessTypeOK, CountsCovered, LockNeedsFailures, ProofsCurrent
<1>2. ASSUME NEW p \in Pages, LeaveVerify(p) \/ LoginCut(p) \/ SignOut(p) \/ CodeRequired(p)
      PROVE  AccessInv'
  <2>1. UNCHANGED <<row, verify, seen>>
        /\ \E shown \in {"login", "verify", "app"} : Answer(p, shown)
    BY <1>t, <1>2 DEF LeaveVerify, LoginCut, SignOut, CodeRequired
  <2>2. /\ login' \in [Pages -> Login] /\ login'[p].failed = 0
        /\ \A q \in Pages : q # p => login'[q] = login[q]
    BY <2>1, AnswerStep
  <2>3. AccessTypeOK' /\ ProofsCurrent'
    BY <2>1, <2>2 DEF AccessTypeOK, ProofsCurrent
  <2>4. seen.bad \in Nat
    BY <1>t
  <2>5. \A q \in Pages : login'[q].failed <= seen'.bad
    BY <2>1, <2>2, <2>4 DEF CountsCovered
  <2> QED
    BY <2>1, <2>3, <2>5 DEF CountsCovered, LockNeedsFailures
<1>3. ASSUME NEW p \in Pages, ReadUser(p) PROVE AccessInv'
  <2>1. CASE row.locked
    <3>1. Answer(p, login[p].shows) /\ UNCHANGED <<row, verify, seen>>
      BY <1>3, <2>1 DEF ReadUser
    <3>2. /\ login' \in [Pages -> Login] /\ login'[p].failed = 0
          /\ \A q \in Pages : q # p => login'[q] = login[q]
      BY <1>t, <3>1, AnswerStep
    <3>3. AccessTypeOK' /\ ProofsCurrent'
      BY <3>1, <3>2 DEF AccessTypeOK, ProofsCurrent
    <3>4. seen.bad \in Nat
      BY <1>t
    <3>5. \A q \in Pages : login'[q].failed <= seen'.bad
      BY <3>1, <3>2, <3>4 DEF CountsCovered
    <3> QED
      BY <3>1, <3>3, <3>5 DEF CountsCovered, LockNeedsFailures
  <2>2. CASE ~row.locked
    <3> DEFINE f == row.failed
               m == row.mfa
    <3>1. f \in 0..MaxBad /\ m \in BOOLEAN /\ f <= seen.bad
      BY <1>t DEF CountsCovered, LockNeedsFailures
    <3>2. login' = [login EXCEPT ![p] = [@ EXCEPT !.step = "read", !.failed = f, !.mfa = m]]
          /\ UNCHANGED <<row, verify, seen>>
      BY <1>3, <2>2 DEF ReadUser
    <3> HIDE DEF f, m
    <3>3. [login[p] EXCEPT !.step = "read", !.failed = f, !.mfa = m] \in Login
          /\ [login[p] EXCEPT !.step = "read", !.failed = f, !.mfa = m].failed = f
      BY <1>t, <3>1 DEF Login
    <3>4. login' \in [Pages -> Login] /\ \A q \in Pages : login'[q].failed <= seen.bad
      BY <1>t, <3>1, <3>2, <3>3 DEF CountsCovered
    <3> QED
      BY <3>2, <3>4 DEF AccessTypeOK, CountsCovered, LockNeedsFailures, ProofsCurrent
  <2> QED
    BY <2>1, <2>2
<1>4. ASSUME NEW p \in Pages, WrongPassword(p) PROVE AccessInv'
  <2> DEFINE f == login[p].failed + 1
             k == row.locked \/ f >= LockThreshold
             b == seen.bad + 1
  <2>1. /\ f \in Nat /\ f <= b /\ b \in 0..MaxBad /\ k \in BOOLEAN
        /\ b > seen.bad /\ seen.bad \in Nat
        /\ k => b >= LockThreshold
    BY <1>t, <1>4 DEF WrongPassword, CountsCovered, LockNeedsFailures
  <2>2. /\ row' = [row EXCEPT !.failed = f, !.locked = k]
        /\ seen' = [seen EXCEPT !.bad = b]
        /\ Answer(p, login[p].shows) /\ verify' = verify
    BY <1>4 DEF WrongPassword
  <2>3. f \in 0..MaxBad
    BY <2>1
  <2> HIDE DEF f, k, b
  <2>4. /\ row' \in [failed : 0..MaxBad, locked : BOOLEAN, mfa : BOOLEAN, secret : 0..MaxSecrets]
        /\ seen' \in [bad : 0..MaxBad, proven : 0..MaxSecrets, overtaken : BOOLEAN]
    BY <1>t, <2>1, <2>2, <2>3
  <2>5. /\ row'.failed = f /\ row'.locked = k /\ row'.secret = row.secret /\ row'.mfa = row.mfa
        /\ seen'.bad = b /\ seen'.proven = seen.proven /\ seen'.overtaken = seen.overtaken
    BY <1>t, <2>2
  <2>6. /\ login' \in [Pages -> Login] /\ login'[p].failed = 0
        /\ \A q \in Pages : q # p => login'[q] = login[q]
    BY <1>t, <2>2, AnswerStep
  <2>7. \A q \in Pages : login'[q].failed <= b
    <3>1. \A q \in Pages : login[q].failed <= seen.bad /\ login[q].failed \in Nat
      BY <1>t DEF CountsCovered
    <3> QED
      BY <2>1, <2>6, <3>1
  <2>8. LockNeedsFailures'
    BY <2>1, <2>5 DEF LockNeedsFailures
  <2> QED
    BY <2>2, <2>4, <2>5, <2>6, <2>7, <2>8 DEF AccessTypeOK, CountsCovered, ProofsCurrent
<1>5. ASSUME NEW p \in Pages, SignIn(p) PROVE AccessInv'
  <2>1. row' = [row EXCEPT !.failed = 0, !.locked = FALSE] /\ UNCHANGED <<verify, seen>>
        /\ Answer(p, "app")
    BY <1>5 DEF SignIn
  <2>2. /\ row' \in UsersRow
        /\ row'.failed = 0 /\ ~row'.locked /\ row'.secret = row.secret /\ row'.mfa = row.mfa
    <3>1. row \in UsersRow
      BY <1>t DEF UsersRow
    <3> QED
      BY <2>1, <3>1, Zeros, RowUnlocked, Zenon
  <2>3. /\ login' \in [Pages -> Login] /\ login'[p].failed = 0
        /\ \A q \in Pages : q # p => login'[q] = login[q]
    BY <2>1, AnswerStep
  <2>4. seen.bad \in Nat
    BY <1>t
  <2>5. CountsCovered'
    BY <2>1, <2>2, <2>3, <2>4 DEF CountsCovered, LockNeedsFailures
  <2> QED
    BY <2>1, <2>2, <2>3, <2>5 DEF AccessTypeOK, ProofsCurrent, UsersRow
<1>6. ASSUME Enroll PROVE AccessInv'
  <2> DEFINE o == seen.overtaken \/ \E v \in Verifiers : verify[v] # 0
             k == row.secret + 1
  <2>1. o \in BOOLEAN /\ k \in 0..MaxSecrets
    BY <1>t, <1>6 DEF Enroll
  <2>2. /\ row' = [row EXCEPT !.secret = k, !.mfa = FALSE]
        /\ seen' = [seen EXCEPT !.overtaken = o] /\ UNCHANGED <<login, verify>>
    BY <1>6 DEF Enroll
  <2>3. ~o => \A v \in Verifiers : verify[v] = 0
    OBVIOUS
  <2> HIDE DEF o, k
  <2>4. AccessTypeOK'
    <3>1. row' \in [failed : 0..MaxBad, locked : BOOLEAN, mfa : BOOLEAN, secret : 0..MaxSecrets]
      BY <1>t, <2>1, <2>2
    <3>2. seen' \in [bad : 0..MaxBad, proven : 0..MaxSecrets, overtaken : BOOLEAN]
      BY <1>t, <2>1, <2>2
    <3> QED
      BY <2>2, <3>1, <3>2 DEF AccessTypeOK
  <2>5. /\ row'.failed = row.failed /\ row'.locked = row.locked /\ ~row'.mfa
        /\ seen'.bad = seen.bad /\ seen'.overtaken = o
    BY <1>t, <2>2
  <2> QED
    BY <2>2, <2>3, <2>4, <2>5 DEF CountsCovered, LockNeedsFailures, ProofsCurrent
<1>7. ASSUME NEW v \in Verifiers, VerifyCode(v) \/ VerifyCut(v) PROVE AccessInv'
  <2>1. UNCHANGED <<row, login, seen>>
        /\ \E k \in {0, row.secret} : verify' = [verify EXCEPT ![v] = k]
    BY <1>7 DEF VerifyCode, VerifyCut
  <2>2. 0 \in 0..MaxSecrets /\ row.secret \in 0..MaxSecrets
    BY <1>t
  <2>3. verify' \in [Verifiers -> 0..MaxSecrets]
        /\ verify'[v] \in {0, row.secret} /\ \A w \in Verifiers : w # v => verify'[w] = verify[w]
    <3>1. PICK k \in {0, row.secret} : verify' = [verify EXCEPT ![v] = k]
      BY <2>1
    <3>2. k \in 0..MaxSecrets
      BY <2>2
    <3> QED
      BY <1>t, <3>1, <3>2, Zenon
  <2> QED
    BY <2>1, <2>3 DEF AccessTypeOK, CountsCovered, LockNeedsFailures, ProofsCurrent
<1>8. ASSUME NEW v \in Verifiers, EnableFactor(v) PROVE AccessInv'
  <2> DEFINE k == verify[v]
  <2>1. /\ row' = [row EXCEPT !.mfa = TRUE] /\ seen' = [seen EXCEPT !.proven = k]
        /\ verify' = [verify EXCEPT ![v] = 0] /\ login' = login
        /\ k \in 0..MaxSecrets /\ 0 \in 0..MaxSecrets
        /\ ~seen.overtaken => k = row.secret
    BY <1>t, <1>8 DEF EnableFactor, ProofsCurrent
  <2>2. verify' \in [Verifiers -> 0..MaxSecrets]
        /\ verify'[v] = 0 /\ \A w \in Verifiers : w # v => verify'[w] = verify[w]
    BY <1>t, <2>1
  <2> HIDE DEF k
  <2>3. /\ row' \in [failed : 0..MaxBad, locked : BOOLEAN, mfa : BOOLEAN, secret : 0..MaxSecrets]
        /\ seen' \in [bad : 0..MaxBad, proven : 0..MaxSecrets, overtaken : BOOLEAN]
    BY <1>t, <2>1
  <2>4. /\ row'.failed = row.failed /\ row'.locked = row.locked /\ row'.secret = row.secret
        /\ seen'.bad = seen.bad /\ seen'.overtaken = seen.overtaken /\ seen'.proven = k
    BY <1>t, <2>1
  <2> QED
    BY <2>1, <2>2, <2>3, <2>4
       DEF AccessTypeOK, CountsCovered, LockNeedsFailures, ProofsCurrent
<1>9. ASSUME Unlock \/ LockEnds PROVE AccessInv'
  <2>1. /\ UNCHANGED <<login, verify, seen>>
        /\ \/ row' = [row EXCEPT !.failed = 0, !.locked = FALSE]
           \/ row' = [row EXCEPT !.locked = FALSE]
    BY <1>9 DEF Unlock, LockEnds
  <2>2. /\ row' \in UsersRow
        /\ row'.failed \in {0, row.failed} /\ ~row'.locked
        /\ row'.secret = row.secret /\ row'.mfa = row.mfa
    <3>1. row \in UsersRow
      BY <1>t DEF UsersRow
    <3>2. CASE row' = [row EXCEPT !.failed = 0, !.locked = FALSE]
      BY <3>1, <3>2, Zeros, RowUnlocked, Zenon
    <3>3. CASE row' = [row EXCEPT !.locked = FALSE]
      BY <3>1, <3>3 DEF UsersRow
    <3> QED
      BY <2>1, <3>2, <3>3
  <2>3. LockNeedsFailures'
    BY <1>t, <2>1, <2>2 DEF CountsCovered, LockNeedsFailures
  <2> QED
    BY <2>1, <2>2, <2>3 DEF AccessTypeOK, CountsCovered, ProofsCurrent, UsersRow
<1>10. UNCHANGED accessVars => AccessInv'
  BY DEF accessVars, AccessTypeOK, CountsCovered, LockNeedsFailures, ProofsCurrent
<1> QED
  BY <1>1, <1>2, <1>3, <1>4, <1>5, <1>6, <1>7, <1>8, <1>9, <1>10 DEF AccessNext

\* Types, counts covered by wrong passwords, and current proofs hold together.
THEOREM AccessInvariant == AccessSpec => []AccessInv
<1>1. AccessInit => AccessInv
  BY AccessInitInv
<1>2. AccessInv /\ [AccessNext]_accessVars => AccessInv'
  BY AccessNextInv
<1> QED
  BY <1>1, <1>2, PTL DEF AccessSpec

\* A lock is worth LockThreshold wrong passwords, however attempts overlap.
THEOREM LocksAreEarned == AccessSpec => []LockNeedsFailures
<1>1. AccessInv => LockNeedsFailures
  BY DEF AccessInv, CountsCovered
<1> QED
  BY <1>1, AccessInvariant, PTL

\* A second factor that is on was proven for the secret that is stored, unless
\* an enrolment overtook the proof.
THEOREM FactorsAreProven == AccessSpec => []EnabledFactorIsProven
<1>1. AccessInv => EnabledFactorIsProven
  BY DEF AccessInv, ProofsCurrent, EnabledFactorIsProven
<1> QED
  BY <1>1, AccessInvariant, PTL

-----------------------------------------------------------------------------
(* Starting and registering                                                *)

\* The advisory locks: one replica migrates, one bootstraps, and while it does
\* no bootstrap has created anybody yet.
StartsApart ==
    /\ \A q, r \in Replicas :
          replica[q].step = replica[r].step /\ replica[r].step \in {"migrate", "booting"} => q = r
    /\ \A r \in Replicas : replica[r].step = "booting" => observed.booted = {}
    /\ StartsOnReadySchema

\* Whom a bootstrap has created is an administrator, and there is one.
BootedAreAdmins ==
    /\ \A e \in observed.booted : user[e].exists /\ "super_admin" \in user[e].roles
    /\ \A d, e \in observed.booted : d = e

\* A form shows a step only behind steps that are in order.
FormInOrder ==
    \A s \in Signups :
        /\ \A k \in 1..3 : k < signup[s].form => k \in signup[s].valid
        /\ signup[s].step # "edit" => signup[s].form = 4

\* The row a registration has inserted is its own.
Inserted(s) == signup[s].step \in {"inserted", "opened", "created", "done"}

RowsOwned ==
    \A s \in Signups :
        /\ signup[s].step # "edit" => signup[s].email \in Emails
        /\ Inserted(s) =>
              /\ user[signup[s].email].exists /\ user[signup[s].email].name = signup[s].name
              /\ signup[s].email \notin observed.booted
              /\ \A o \in Signups : Inserted(o) /\ signup[o].email = signup[s].email => o = s
        /\ signup[s].step \in {"opened", "created", "done"} => user[signup[s].email].account
        /\ signup[s].step \in {"created", "done"} => "customer" \in user[signup[s].email].roles

ProvisioningInv ==
    /\ ProvisioningTypeOK /\ StartsApart /\ BootedAreAdmins /\ FormInOrder /\ RowsOwned

LEMMA ProvisioningInitInv ==
  ASSUME ProvisioningInit PROVE ProvisioningInv
<1> USE ProvisioningAssumption
<1>1. ProvisioningTypeOK
  <2>1. user \in [Emails -> Row] /\ replica \in [Replicas -> Replica]
    BY DEF ProvisioningInit, NoUser, Row, Down, Replica
  <2>2. signup \in [Signups -> Signup]
    BY DEF ProvisioningInit, BlankForm, Signup
  <2>3. /\ schema \in 0..Files
        /\ script \in [step : {"idle", "update", "insert", "role"}, email : Emails \cup {NoName}]
        /\ observed \in [booted : SUBSET Emails, stops : 0..MaxStops]
    BY DEF ProvisioningInit, Idle
  <2> QED
    BY <2>1, <2>2, <2>3 DEF ProvisioningTypeOK
<1>2. StartsApart /\ BootedAreAdmins
  BY DEF ProvisioningInit, StartsApart, StartsOnReadySchema, BootedAreAdmins, Down
<1>3. FormInOrder /\ RowsOwned
  BY DEF ProvisioningInit, FormInOrder, RowsOwned, Inserted, BlankForm
<1> QED
  BY <1>1, <1>2, <1>3 DEF ProvisioningInv

\* Only a replica moves, and no bootstrap commits.
LEMMA ReplicaStep ==
  ASSUME ProvisioningInv, NEW r \in Replicas, NEW x \in Replica,
         replica' = [replica EXCEPT ![r] = x],
         schema' \in 0..Files,
         \A q \in Replicas : q # r /\ replica[q].step \in {"migrate", "boot", "booting", "serving"} =>
            schema' = schema,
         UNCHANGED <<user, script, signup>>, observed'.booted = observed.booted,
         observed' \in [booted : SUBSET Emails, stops : 0..MaxStops],
         x.step \in {"migrate", "booting"} =>
            \A q \in Replicas : q # r => replica[q].step # x.step,
         x.step = "booting" => observed.booted = {},
         x.step \in {"boot", "booting", "serving"} => schema' = Files,
         x.step = "migrate" => x.seen = schema'
  PROVE  ProvisioningInv'
<1> USE DEF ProvisioningInv
<1>1. replica'[r] = x /\ \A q \in Replicas : q # r => replica'[q] = replica[q]
  BY DEF ProvisioningTypeOK
<1>2. ProvisioningTypeOK'
  BY DEF ProvisioningTypeOK
<1>3. StartsApart'
  <2>1. \A p, q \in Replicas :
          replica'[p].step = replica'[q].step /\ replica'[q].step \in {"migrate", "booting"} => p = q
    BY <1>1 DEF StartsApart
  <2>2. \A q \in Replicas : replica'[q].step = "booting" => observed'.booted = {}
    BY <1>1 DEF StartsApart
  <2>3. StartsOnReadySchema'
    BY <1>1 DEF StartsApart, StartsOnReadySchema
  <2> QED
    BY <2>1, <2>2, <2>3 DEF StartsApart
<1>4. BootedAreAdmins' /\ FormInOrder' /\ RowsOwned'
  BY DEF BootedAreAdmins, FormInOrder, RowsOwned, Inserted
<1> QED
  BY <1>2, <1>3, <1>4

\* The rows of other users, and what is in a row already, stay.
RowsKept ==
    \A e \in Emails :
        /\ user[e].exists => user'[e].exists /\ user'[e].name = user[e].name
        /\ user[e].account => user'[e].account
        /\ user[e].roles \subseteq user'[e].roles

\* A step of the script, or of the page, that inserts no row.
LEMMA SignupStep ==
  ASSUME ProvisioningInv, UNCHANGED <<schema, replica, observed>>, RowsKept,
         ProvisioningTypeOK',
         \A s \in Signups :
            \/ signup'[s] = signup[s]
            \/ /\ \A k \in 1..3 : k < signup'[s].form => k \in signup'[s].valid
               /\ signup'[s].step # "edit" => signup'[s].form = 4 /\ signup'[s].email \in Emails
               /\ Inserted(s)' =>
                     /\ Inserted(s)
                     /\ signup'[s].email = signup[s].email /\ signup'[s].name = signup[s].name
               /\ signup'[s].step \in {"opened", "created", "done"} =>
                     user'[signup'[s].email].account
               /\ signup'[s].step \in {"created", "done"} =>
                     "customer" \in user'[signup'[s].email].roles
  PROVE  ProvisioningInv'
<1> USE DEF ProvisioningInv
<1>1. StartsApart'
  BY DEF StartsApart, StartsOnReadySchema
<1>2. observed.booted \subseteq Emails
  BY DEF ProvisioningTypeOK
<1>3. BootedAreAdmins'
  BY <1>2 DEF BootedAreAdmins, RowsKept
<1>4. FormInOrder'
  BY DEF FormInOrder
<1>5. RowsOwned'
  BY DEF RowsOwned, RowsKept, Inserted
<1> QED
  BY <1>1, <1>3, <1>4, <1>5

\* A row is inserted under an e-mail that nobody has.
LEMMA InsertStep ==
  ASSUME ProvisioningInv, schema' = schema, ProvisioningTypeOK', StartsApart', FormInOrder',
         NEW e \in Emails, ~EmailTaken(e), user'[e].exists,
         \A d \in Emails : d # e => user'[d] = user[d],
         \A s \in Signups :
            \/ signup'[s] = signup[s]
            \/ /\ signup'[s].step = "inserted" /\ signup'[s].email = e
               /\ signup'[s].name = user'[e].name
               /\ \A o \in Signups : o # s => signup'[o] = signup[o],
         \/ observed'.booted = observed.booted
         \/ /\ observed.booted = {} /\ observed'.booted = {e} /\ signup' = signup
            /\ "super_admin" \in user'[e].roles
  PROVE  ProvisioningInv'
<1> USE DEF ProvisioningInv
<1>1. observed.booted \subseteq Emails /\ \A d \in observed.booted : d # e
  BY DEF ProvisioningTypeOK, BootedAreAdmins, EmailTaken
<1>2. BootedAreAdmins'
  BY <1>1 DEF BootedAreAdmins
<1>3. \A s \in Signups : Inserted(s) => signup[s].email \in Emails \ {e}
  BY DEF RowsOwned, EmailTaken, Inserted
<1>4. RowsOwned'
  <2> SUFFICES ASSUME NEW s \in Signups PROVE
          /\ signup'[s].step # "edit" => signup'[s].email \in Emails
          /\ Inserted(s)' =>
                /\ user'[signup'[s].email].exists /\ user'[signup'[s].email].name = signup'[s].name
                /\ signup'[s].email \notin observed'.booted
                /\ \A o \in Signups : Inserted(o)' /\ signup'[o].email = signup'[s].email => o = s
          /\ signup'[s].step \in {"opened", "created", "done"} => user'[signup'[s].email].account
          /\ signup'[s].step \in {"created", "done"} => "customer" \in user'[signup'[s].email].roles
    BY DEF RowsOwned
  <2>1. CASE signup'[s] = signup[s]
    <3>1. signup[s].step # "edit" => signup[s].email \in Emails
      BY DEF RowsOwned
    <3>2. Inserted(s)' => Inserted(s) /\ signup[s].email # e /\ signup[s].email \in Emails
      BY <1>3, <2>1 DEF Inserted
    <3>3. Inserted(s) => \A o \in Signups : Inserted(o)' /\ signup'[o].email = signup[s].email => o = s
      BY <1>3 DEF RowsOwned, Inserted
    <3>4. Inserted(s) => /\ user[signup[s].email].exists
                         /\ user[signup[s].email].name = signup[s].name
                         /\ signup[s].email \notin observed.booted
      BY DEF RowsOwned
    <3>5. /\ signup[s].step \in {"opened", "created", "done"} => user[signup[s].email].account
          /\ signup[s].step \in {"created", "done"} => "customer" \in user[signup[s].email].roles
      BY DEF RowsOwned
    <3> QED
      BY <2>1, <3>1, <3>2, <3>3, <3>4, <3>5 DEF Inserted
  <2>2. CASE signup'[s] # signup[s]
    <3>1. /\ signup'[s].step = "inserted" /\ signup'[s].email = e
          /\ signup'[s].name = user'[e].name
          /\ \A o \in Signups : o # s => signup'[o] = signup[o]
          /\ observed'.booted = observed.booted
      BY <2>2
    <3>2. \A o \in Signups : Inserted(o)' /\ signup'[o].email = e => o = s
      BY <1>3, <3>1 DEF Inserted
    <3> QED
      BY <1>1, <3>1, <3>2 DEF Inserted
  <2> QED
    BY <2>1, <2>2
<1> QED
  BY <1>2, <1>4

LEMMA StepMoves ==
  ASSUME ProvisioningTypeOK, NEW r \in Replicas,
         NEW s \in {"down", "lock", "verify", "boot", "booting", "serving"}, Step(r, s)
  PROVE  \E x \in Replica : x.step = s /\ replica' = [replica EXCEPT ![r] = x]
<1> DEFINE x == [replica[r] EXCEPT !.step = s]
<1>1. x \in Replica /\ x.step = s
  BY DEF ProvisioningTypeOK, Replica
<1>2. replica' = [replica EXCEPT ![r] = x]
  BY DEF Step
<1> QED
  BY <1>1, <1>2

LEMMA ReplicaNext ==
  ASSUME ProvisioningInv, NEW r \in Replicas,
         \/ Start(r) \/ LockMigrations(r) \/ ApplyMigration(r) \/ MigrationsDone(r)
         \/ VerifySchema(r) \/ SkipBootstrap(r) \/ BeginBootstrap(r) \/ CommitBootstrap(r)
         \/ Stop(r)
  PROVE  ProvisioningInv'
<1> USE ProvisioningAssumption DEF ProvisioningInv
<1>t. /\ schema \in 0..Files /\ replica[r] \in Replica /\ replica \in [Replicas -> Replica]
      /\ observed \in [booted : SUBSET Emails, stops : 0..MaxStops]
      /\ 0 \in 0..Files
  BY DEF ProvisioningTypeOK
<1>d. Down \in Replica /\ Down.step = "down"
  BY <1>t DEF Down, Replica
<1>1. ASSUME Start(r) PROVE ProvisioningInv'
  <2>1. PICK s \in {"lock", "verify"} : Step(r, s)
    BY <1>1 DEF Start
  <2>2. PICK x \in Replica : x.step = s /\ replica' = [replica EXCEPT ![r] = x]
    BY <2>1, StepMoves
  <2> QED
    BY <1>1, <1>t, <2>2, ReplicaStep DEF Start
<1>2. ASSUME LockMigrations(r) PROVE ProvisioningInv'
  <2> DEFINE x == [step |-> "migrate", seen |-> schema]
  <2>1. x \in Replica /\ x.step = "migrate" /\ x.seen = schema
    BY <1>t DEF Replica
  <2>2. replica' = [replica EXCEPT ![r] = x]
        /\ UNCHANGED <<schema, user, script, signup, observed>>
        /\ \A o \in Replicas : replica[o].step # "migrate"
    BY <1>2 DEF LockMigrations
  <2> HIDE DEF x
  <2> QED
    BY <1>t, <2>1, <2>2, ReplicaStep
<1>3. ASSUME ApplyMigration(r) PROVE ProvisioningInv'
  <2> DEFINE next == replica[r].seen + 1
  <2>1. replica[r].step = "migrate" /\ next <= Files /\ replica[r].seen = schema
    BY <1>3 DEF ApplyMigration, StartsApart, StartsOnReadySchema
  <2>2. next \in 0..Files /\ schema < next
    BY <1>t, <2>1
  <2> DEFINE x == [replica[r] EXCEPT !.seen = next]
  <2>3. schema' = next /\ replica' = [replica EXCEPT ![r] = x]
        /\ UNCHANGED <<user, script, signup, observed>>
    BY <1>3, <2>2 DEF ApplyMigration
  <2>4. x \in Replica /\ x.step = "migrate" /\ x.seen = next
    <3> HIDE DEF next
    <3> QED
      BY <1>t, <2>1, <2>2 DEF Replica
  <2>5. schema # Files
    BY <1>t, <2>1, <2>2
  <2>6. \A q \in Replicas : q # r => replica[q].step \notin {"migrate", "boot", "booting", "serving"}
    BY <2>1, <2>5 DEF StartsApart, StartsOnReadySchema
  <2> HIDE DEF x, next
  <2> QED
    BY <1>t, <2>2, <2>3, <2>4, <2>6, ReplicaStep
<1>4. ASSUME MigrationsDone(r) PROVE ProvisioningInv'
  <2> DEFINE x == [step |-> "boot", seen |-> 0]
  <2>1. x \in Replica /\ x.step = "boot"
    BY <1>t DEF Replica
  <2>2. replica' = [replica EXCEPT ![r] = x] /\ schema = Files
        /\ UNCHANGED <<schema, user, script, signup, observed>>
    BY <1>4 DEF MigrationsDone, StartsApart, StartsOnReadySchema
  <2> HIDE DEF x
  <2> QED
    BY <1>t, <2>1, <2>2, ReplicaStep
<1>5. ASSUME VerifySchema(r) PROVE ProvisioningInv'
  <2>1. PICK s \in {"boot", "down"} : Step(r, s) /\ (s = "boot" => schema = Files)
    BY <1>5 DEF VerifySchema
  <2>2. PICK x \in Replica : x.step = s /\ replica' = [replica EXCEPT ![r] = x]
    BY <2>1, StepMoves
  <2>3. UNCHANGED <<schema, user, script, signup, observed>>
    BY <1>5 DEF VerifySchema
  <2> QED
    BY <1>t, <2>1, <2>2, <2>3, ReplicaStep
<1>6. ASSUME SkipBootstrap(r) \/ BeginBootstrap(r) PROVE ProvisioningInv'
  <2>1. PICK s \in {"serving", "booting"} :
           /\ Step(r, s)
           /\ s = "booting" => ~AdminExists /\ \A o \in Replicas : replica[o].step # "booting"
    BY <1>6 DEF SkipBootstrap, BeginBootstrap
  <2>2. PICK x \in Replica : x.step = s /\ replica' = [replica EXCEPT ![r] = x]
    BY <2>1, StepMoves
  <2>3. UNCHANGED <<schema, user, script, signup, observed>> /\ schema = Files
    BY <1>6 DEF SkipBootstrap, BeginBootstrap, StartsApart, StartsOnReadySchema
  <2>4. ~AdminExists => observed.booted = {}
    BY <1>t DEF BootedAreAdmins, AdminExists
  <2> QED
    BY <1>t, <2>1, <2>2, <2>3, <2>4, ReplicaStep
<1>7. ASSUME CommitBootstrap(r) PROVE ProvisioningInv'
  <2>1. /\ replica[r].step = "booting" /\ observed.booted = {} /\ schema = Files
        /\ UNCHANGED <<schema, script, signup>>
    BY <1>7 DEF CommitBootstrap, StartsApart, StartsOnReadySchema
  <2>2. CASE UNCHANGED <<user, observed>>
    <3>1. PICK s \in {"serving", "down"} : Step(r, s)
      BY <1>7 DEF CommitBootstrap
    <3>2. PICK x \in Replica : x.step = s /\ replica' = [replica EXCEPT ![r] = x]
      BY <3>1, StepMoves
    <3> QED
      BY <1>t, <2>1, <2>2, <3>2, ReplicaStep
  <2>3. CASE ~UNCHANGED <<user, observed>>
    <3>1. PICK a \in Admins :
            /\ ~EmailTaken(a[1]) /\ ~NameTaken(a[2])
            /\ user' = [user EXCEPT ![a[1]] = [exists |-> TRUE, name |-> a[2], account |-> FALSE,
                                              roles |-> {"super_admin"}]]
            /\ observed' = [observed EXCEPT !.booted = @ \cup {a[1]}]
            /\ Step(r, "serving")
      BY <1>7, <2>3 DEF CommitBootstrap
    <3>2. a[1] \in Emails /\ a[2] \in Names
      BY DEF ProvisioningAssumption
    <3> DEFINE new == [exists |-> TRUE, name |-> a[2], account |-> FALSE, roles |-> {"super_admin"}]
    <3>3. new \in Row /\ new.exists /\ "super_admin" \in new.roles
      BY <3>2 DEF Row
    <3> HIDE DEF new
    <3>4. /\ user' \in [Emails -> Row] /\ user'[a[1]] = new
          /\ \A d \in Emails : d # a[1] => user'[d] = user[d]
      BY <3>1, <3>2, <3>3 DEF ProvisioningTypeOK, new
    <3>5. observed' \in [booted : SUBSET Emails, stops : 0..MaxStops] /\ observed'.booted = {a[1]}
      BY <1>t, <2>1, <3>1, <3>2
    <3>6. PICK x \in Replica : x.step = "serving" /\ replica' = [replica EXCEPT ![r] = x]
      BY <3>1, StepMoves
    <3>7. replica'[r].step = "serving" /\ \A q \in Replicas : q # r => replica'[q] = replica[q]
      BY <1>t, <3>6
    <3>8. ProvisioningTypeOK'
      BY <2>1, <3>4, <3>5, <3>6 DEF ProvisioningTypeOK
    <3>9. StartsApart'
      BY <2>1, <3>7 DEF StartsApart, StartsOnReadySchema
    <3>10. FormInOrder'
      BY <2>1 DEF FormInOrder
    <3>11. /\ ProvisioningInv /\ a[1] \in Emails /\ user'[a[1]].exists
           /\ "super_admin" \in user'[a[1]].roles
           /\ schema' = schema /\ signup' = signup /\ ~EmailTaken(a[1])
      BY <2>1, <3>1, <3>2, <3>3, <3>4
    <3> QED
      BY <2>1, <3>4, <3>5, <3>8, <3>9, <3>10, <3>11, InsertStep
  <2> QED
    BY <2>2, <2>3
<1>8. ASSUME Stop(r) PROVE ProvisioningInv'
  <2>1. observed.stops + 1 \in 0..MaxStops
    BY <1>8, <1>t DEF Stop
  <2>2. observed' \in [booted : SUBSET Emails, stops : 0..MaxStops]
        /\ observed'.booted = observed.booted
    BY <1>8, <1>t, <2>1 DEF Stop
  <2> QED
    BY <1>8, <1>d, <1>t, <2>2, ReplicaStep DEF Stop
<1> QED
  BY <1>1, <1>2, <1>3, <1>4, <1>5, <1>6, <1>7, <1>8

\* A step of one page, or of the request it has sent, that inserts no row.
LEMMA PageStep ==
  ASSUME ProvisioningInv, NEW s \in Signups, NEW x \in Signup,
         signup' = [signup EXCEPT ![s] = x],
         UNCHANGED <<schema, replica, script, observed>>,
         user' \in [Emails -> Row], RowsKept,
         \A k \in 1..3 : k < x.form => k \in x.valid,
         x.step # "edit" => x.form = 4 /\ x.email \in Emails,
         x.step \in {"inserted", "opened", "created", "done"} =>
            Inserted(s) /\ x.email = signup[s].email /\ x.name = signup[s].name,
         x.step \in {"opened", "created", "done"} => user'[x.email].account,
         x.step \in {"created", "done"} => "customer" \in user'[x.email].roles
  PROVE  ProvisioningInv'
<1>1. signup'[s] = x /\ \A o \in Signups : o # s => signup'[o] = signup[o]
  BY DEF ProvisioningInv, ProvisioningTypeOK
<1>2. ProvisioningTypeOK'
  BY DEF ProvisioningInv, ProvisioningTypeOK
<1>3. ASSUME NEW o \in Signups PROVE
          \/ signup'[o] = signup[o]
          \/ /\ \A k \in 1..3 : k < signup'[o].form => k \in signup'[o].valid
             /\ signup'[o].step # "edit" => signup'[o].form = 4 /\ signup'[o].email \in Emails
             /\ Inserted(o)' =>
                   /\ Inserted(o)
                   /\ signup'[o].email = signup[o].email /\ signup'[o].name = signup[o].name
             /\ signup'[o].step \in {"opened", "created", "done"} =>
                   user'[signup'[o].email].account
             /\ signup'[o].step \in {"created", "done"} =>
                   "customer" \in user'[signup'[o].email].roles
  BY <1>1 DEF Inserted
<1> QED
  BY <1>2, <1>3, SignupStep

\* Nothing but the row of the script, which it does not make another's.
LEMMA ScriptNext ==
  ASSUME ProvisioningInv, ScriptRead \/ ScriptWrite \/ ScriptRole \/ ScriptFails
  PROVE  ProvisioningInv'
<1> DEFINE Scripts == [step : {"idle", "update", "insert", "role"}, email : Emails \cup {NoName}]
<1>t. /\ ProvisioningTypeOK /\ script \in Scripts /\ Idle \in Scripts
      /\ user \in [Emails -> Row]
  BY DEF ProvisioningInv, ProvisioningTypeOK, Idle
<1>1. UNCHANGED <<schema, replica, signup, observed>>
  BY DEF ScriptRead, ScriptWrite, ScriptRole, ScriptFails
<1>2. script' \in Scripts
  <2>1. ASSUME ScriptRead PROVE script' \in Scripts
    BY <2>1, <1>t, ProvisioningAssumption DEF ScriptRead
  <2>2. ASSUME ScriptWrite PROVE script' \in Scripts
    BY <2>2, <1>t DEF ScriptWrite
  <2> QED
    BY <2>1, <2>2, <1>t DEF ScriptRole, ScriptFails
<1>3. user' \in [Emails -> Row] /\ RowsKept
  <2>1. CASE user' = user
    BY <1>t, <2>1 DEF RowsKept
  <2>2. ASSUME ScriptWrite, user' = [user EXCEPT ![script.email].exists = TRUE]
        PROVE  user' \in [Emails -> Row] /\ RowsKept
    <3> DEFINE g == script.email
    <3>1. user' = [user EXCEPT ![g] = [user[g] EXCEPT !.exists = TRUE]]
      BY <2>2
    <3>2. ASSUME g \in Emails PROVE [user[g] EXCEPT !.exists = TRUE] \in Row
      <4>1. user[g] \in Row
        BY <3>2, <1>t
      <4> QED
        BY <4>1 DEF Row
    <3>3. user' \in [Emails -> Row]
      BY <3>1, <3>2, <1>t
    <3>4. ASSUME NEW e \in Emails
          PROVE  /\ user[e].exists => user'[e].exists
                 /\ user'[e].name = user[e].name /\ user'[e].account = user[e].account
                 /\ user'[e].roles = user[e].roles
      <4>1. CASE e = g
        <5>1. user'[e] = [user[e] EXCEPT !.exists = TRUE] /\ user[e] \in Row
          BY <3>1, <1>t, <4>1
        <5> QED
          BY <5>1 DEF Row
      <4>2. CASE e # g
        BY <3>1, <1>t, <4>2
      <4> QED
        BY <4>1, <4>2
    <3> QED
      BY <3>3, <3>4 DEF RowsKept
  <2>3. ASSUME ScriptRole PROVE user' \in [Emails -> Row] /\ RowsKept
    <3> DEFINE g == script.email
               R == user[g].roles \cup {"super_admin"}
    <3>1. user' = [user EXCEPT ![g] = [user[g] EXCEPT !.roles = R]]
      BY <2>3 DEF ScriptRole
    <3>2. ASSUME g \in Emails PROVE [user[g] EXCEPT !.roles = R] \in Row
      BY <3>2, <1>t DEF Row
    <3>3. user' \in [Emails -> Row]
      BY <3>1, <3>2, <1>t
    <3>4. ASSUME NEW e \in Emails
          PROVE  /\ user'[e].exists = user[e].exists /\ user'[e].name = user[e].name
                 /\ user'[e].account = user[e].account /\ user[e].roles \subseteq user'[e].roles
      <4>1. CASE e = g
        <5>1. user'[e] = [user[e] EXCEPT !.roles = R] /\ user[e] \in Row
              /\ user[e].roles \subseteq R
          BY <3>1, <1>t, <4>1
        <5> HIDE DEF R
        <5> QED
          BY <5>1 DEF Row
      <4>2. CASE e # g
        BY <3>1, <1>t, <4>2
      <4> QED
        BY <4>1, <4>2
    <3> QED
      BY <3>3, <3>4 DEF RowsKept
  <2> QED
    BY <2>1, <2>2, <2>3 DEF ScriptRead, ScriptWrite, ScriptFails
<1>4. ProvisioningTypeOK'
  BY <1>t, <1>1, <1>2, <1>3 DEF ProvisioningTypeOK
<1> QED
  BY <1>1, <1>3, <1>4, SignupStep

\* The pages and the requests they send.
LEMMA FormNext ==
  ASSUME ProvisioningInv, NEW s \in Signups,
         \/ EditPersonal(s) \/ EditSecurity(s) \/ ChooseAccount(s)
         \/ \E k \in 1..3 : Advance(s, k)
         \/ \E k \in 2..4 : Back(s, k)
         \/ Submit(s)
  PROVE  ProvisioningInv'
<1>t. /\ signup \in [Signups -> Signup] /\ signup[s] \in Signup /\ user \in [Emails -> Row]
      /\ signup[s].valid \in SUBSET (1..3) /\ signup[s].form \in 1..4
  BY DEF ProvisioningInv, ProvisioningTypeOK, Signup
<1>f. /\ \A k \in 1..3 : k < signup[s].form => k \in signup[s].valid
      /\ signup[s].step = "edit"
  BY DEF ProvisioningInv, FormInOrder, EditPersonal, EditSecurity, ChooseAccount, Advance, Back,
         Submit, Editing
<1>u. UNCHANGED <<schema, user, replica, script, observed>>
  BY DEF EditPersonal, EditSecurity, ChooseAccount, Advance, Back, Submit
<1>k. RowsKept
  BY <1>u DEF RowsKept
<1>p. ASSUME NEW x \in Signup, signup' = [signup EXCEPT ![s] = x], x.step = "edit",
             \A k \in 1..3 : k < x.form => k \in x.valid
      PROVE  ProvisioningInv'
  BY <1>t, <1>u, <1>k, <1>p, PageStep
<1>v. ASSUME NEW now \in SUBSET (1..3), Valid(s, now),
             \A k \in 1..3 : k < signup[s].form => k \in now
      PROVE  ProvisioningInv'
  <2> DEFINE x == [signup[s] EXCEPT !.valid = now]
  <2>1. x \in Signup /\ x.step = "edit" /\ x.form = signup[s].form /\ x.valid = now
    BY <1>t, <1>f DEF Signup
  <2>2. signup' = [signup EXCEPT ![s] = x]
    BY <1>v DEF Valid
  <2> HIDE DEF x
  <2> QED
    BY <1>v, <1>p, <2>1, <2>2
<1>m. ASSUME NEW n \in 1..4, signup' = [signup EXCEPT ![s].form = n],
             \A k \in 1..3 : k < n => k \in signup[s].valid
      PROVE  ProvisioningInv'
  <2> DEFINE x == [signup[s] EXCEPT !.form = n]
  <2>1. x \in Signup /\ x.step = "edit" /\ x.form = n /\ x.valid = signup[s].valid
    BY <1>t, <1>f DEF Signup
  <2>2. signup' = [signup EXCEPT ![s] = x]
    BY <1>m
  <2> HIDE DEF x
  <2> QED
    BY <1>m, <1>p, <2>1, <2>2
<1>1. ASSUME EditPersonal(s) PROVE ProvisioningInv'
  <2>1. PICK now \in SUBSET {1, 2} : Valid(s, now \cup (signup[s].valid \cap {3}))
    BY <1>1 DEF EditPersonal
  <2> DEFINE v == now \cup (signup[s].valid \cap {3})
  <2>2. v \in SUBSET (1..3)
    <3>1. {1, 2} \subseteq 1..3 /\ signup[s].valid \subseteq 1..3
      BY <1>t
    <3> QED
      BY <3>1
  <2>3. signup[s].form = 1
    BY <1>1 DEF EditPersonal, Editing
  <2>4. \A k \in 1..3 : k < signup[s].form => k \in v
    BY <2>3
  <2> HIDE DEF v
  <2>5. Valid(s, v)
    BY <2>1 DEF v
  <2> QED
    BY <2>2, <2>4, <2>5, <1>v
<1>2. ASSUME EditSecurity(s) PROVE ProvisioningInv'
  <2>1. PICK now \in SUBSET {2} : Valid(s, now \cup (signup[s].valid \ {2}))
    BY <1>2 DEF EditSecurity
  <2> DEFINE v == now \cup (signup[s].valid \ {2})
  <2>2. v \in SUBSET (1..3)
    <3>1. {2} \subseteq 1..3 /\ signup[s].valid \subseteq 1..3
      BY <1>t
    <3> QED
      BY <3>1
  <2>3. signup[s].form = 2
    BY <1>2 DEF EditSecurity, Editing
  <2>4. \A k \in 1..3 : k < signup[s].form => k \in v
    BY <2>3, <1>f
  <2> HIDE DEF v
  <2>5. Valid(s, v)
    BY <2>1 DEF v
  <2> QED
    BY <2>2, <2>4, <2>5, <1>v
<1>3. ASSUME ChooseAccount(s) PROVE ProvisioningInv'
  <2> DEFINE v == signup[s].valid \cup {3}
  <2>1. Valid(s, v)
    BY <1>3 DEF ChooseAccount
  <2>2. v \in SUBSET (1..3) /\ \A k \in 1..3 : k < signup[s].form => k \in v
    BY <1>t, <1>f
  <2> HIDE DEF v
  <2> QED
    BY <2>1, <2>2, <1>v
<1>4. ASSUME NEW k \in 1..3, Advance(s, k) PROVE ProvisioningInv'
  <2>1. /\ signup[s].form = k /\ k \in signup[s].valid
        /\ signup' = [signup EXCEPT ![s].form = k + 1]
    BY <1>4 DEF Advance, Editing, Validated
  <2>2. k + 1 \in 1..4 /\ \A j \in 1..3 : j < k + 1 => j \in signup[s].valid
    BY <1>f, <2>1
  <2> QED
    BY <2>1, <2>2, <1>m
<1>5. ASSUME NEW k \in 2..4, Back(s, k) PROVE ProvisioningInv'
  <2>1. signup[s].form = k /\ signup' = [signup EXCEPT ![s].form = k - 1]
    BY <1>5 DEF Back, Editing
  <2>2. k - 1 \in 1..4 /\ \A j \in 1..3 : j < k - 1 => j \in signup[s].valid
    BY <1>f, <2>1
  <2> QED
    BY <2>1, <2>2, <1>m
<1>6. ASSUME Submit(s) PROVE ProvisioningInv'
  <2>1. PICK e \in Emails, n \in Names :
          signup' = [signup EXCEPT ![s] = [@ EXCEPT !.step = "sent", !.email = e, !.name = n]]
    BY <1>6 DEF Submit
  <2> DEFINE x == [signup[s] EXCEPT !.step = "sent", !.email = e, !.name = n]
  <2>2. /\ x \in Signup /\ x.step = "sent" /\ x.email = e /\ x.form = signup[s].form
        /\ x.valid = signup[s].valid
    BY <1>t DEF Signup
  <2>3. signup' = [signup EXCEPT ![s] = x]
    BY <2>1
  <2>4. signup[s].form = 4
    BY <1>6 DEF Submit, Editing
  <2> HIDE DEF x
  <2> QED
    BY <1>t, <1>f, <1>u, <1>k, <2>2, <2>3, <2>4, PageStep
<1> QED
  BY <1>1, <1>2, <1>3, <1>4, <1>5, <1>6

LEMMA RequestNext ==
  ASSUME ProvisioningInv, NEW s \in Signups,
         \/ RegisterCheck(s) \/ RegisterUser(s) \/ RegisterAccount(s)
         \/ RegisterRole(s) \/ RegisterSignIn(s) \/ RegisterCut(s)
  PROVE  ProvisioningInv'
<1> DEFINE Steps == {"edit", "sent", "free", "inserted", "opened", "created", "done"}
           g == signup[s].email
           Kept(x) == /\ x \in Signup /\ x.form = signup[s].form /\ x.valid = signup[s].valid
<1>t. /\ signup \in [Signups -> Signup] /\ signup[s] \in Signup /\ user \in [Emails -> Row]
  BY DEF ProvisioningInv, ProvisioningTypeOK
<1>f. /\ \A k \in 1..3 : k < signup[s].form => k \in signup[s].valid
      /\ signup[s].form = 4 /\ g \in Emails /\ signup[s].step # "edit"
  BY DEF ProvisioningInv, FormInOrder, RowsOwned, RegisterCheck, RegisterUser, RegisterAccount,
         RegisterRole, RegisterSignIn, RegisterCut, Goes
<1>u. UNCHANGED <<schema, replica, script, observed>>
  BY DEF RegisterCheck, RegisterUser, RegisterAccount, RegisterRole, RegisterSignIn, RegisterCut
<1>o. /\ Inserted(s) => user[g].exists
      /\ signup[s].step \in {"opened", "created", "done"} => user[g].account
      /\ signup[s].step \in {"created", "done"} => "customer" \in user[g].roles
  BY DEF ProvisioningInv, RowsOwned
<1>r. Kept(Refused(s)) /\ Refused(s).step = "edit"
  BY <1>t DEF Refused, Signup
<1>x. ASSUME NEW to \in Steps
      PROVE  LET x == [signup[s] EXCEPT !.step = to] IN
             Kept(x) /\ x.step = to /\ x.email = g /\ x.name = signup[s].name
  BY <1>t DEF Signup
<1>k. user' = user => RowsKept
  BY DEF RowsKept
<1>e. ASSUME user' = user, signup' = [signup EXCEPT ![s] = Refused(s)] PROVE ProvisioningInv'
  <2> DEFINE x == Refused(s)
  <2> HIDE DEF x
  <2>1. x \in Signup /\ x.step = "edit" /\ x.form = signup[s].form /\ x.valid = signup[s].valid
    BY <1>r DEF x
  <2>2. signup' = [signup EXCEPT ![s] = x]
    BY <1>e DEF x
  <2> QED
    BY <1>t, <1>f, <1>u, <1>k, <1>e, <2>1, <2>2, PageStep
<1>g. ASSUME NEW to \in Steps \ {"edit"}, signup' = [signup EXCEPT ![s] = [@ EXCEPT !.step = to]],
             user' \in [Emails -> Row], RowsKept,
             to \in {"inserted", "opened", "created", "done"} => Inserted(s),
             to \in {"opened", "created", "done"} => user'[g].account,
             to \in {"created", "done"} => "customer" \in user'[g].roles
      PROVE  ProvisioningInv'
  <2> DEFINE x == [signup[s] EXCEPT !.step = to]
  <2>1. Kept(x) /\ x.step = to /\ x.email = g /\ x.name = signup[s].name
    BY <1>x, <1>g
  <2>2. signup' = [signup EXCEPT ![s] = x]
    BY <1>g
  <2> HIDE DEF x
  <2>3. /\ \A k \in 1..3 : k < x.form => k \in x.valid
        /\ x \in Signup /\ x.form = 4 /\ x.email \in Emails
    BY <1>f, <2>1
  <2>4. x.step \in {"inserted", "opened", "created", "done"} =>
           Inserted(s) /\ x.email = signup[s].email /\ x.name = signup[s].name
    BY <1>g, <2>1
  <2>5. /\ x.step \in {"opened", "created", "done"} => user'[x.email].account
        /\ x.step \in {"created", "done"} => "customer" \in user'[x.email].roles
    BY <1>g, <2>1
  <2>6. user' \in [Emails -> Row] /\ RowsKept
    BY <1>g
  <2> QED
    BY <1>u, <2>2, <2>3, <2>4, <2>5, <2>6, PageStep
<1>1. ASSUME RegisterCheck(s) PROVE ProvisioningInv'
  <2>1. user' = user
        /\ \/ signup' = [signup EXCEPT ![s] = Refused(s)]
           \/ signup' = [signup EXCEPT ![s] = [@ EXCEPT !.step = "free"]]
    BY <1>1 DEF RegisterCheck, Goes
  <2> QED
    BY <1>t, <1>k, <1>e, <1>g, <2>1
<1>2. ASSUME RegisterUser(s) PROVE ProvisioningInv'
  <2> DEFINE taken == EmailTaken(g) \/ NameTaken(signup[s].name)
             new == [exists |-> TRUE, name |-> signup[s].name, account |-> FALSE, roles |-> {}]
             x == [signup[s] EXCEPT !.step = "inserted"]
  <2>1. CASE taken
    BY <1>2, <2>1, <1>e DEF RegisterUser, Goes
  <2>2. CASE ~taken
    <3>1. signup' = [signup EXCEPT ![s] = x] /\ user' = [user EXCEPT ![g] = new]
      BY <1>2, <2>2 DEF RegisterUser, Goes
    <3>2. Kept(x) /\ x.step = "inserted" /\ x.email = g /\ x.name = signup[s].name
      BY <1>x
    <3>3. new \in Row /\ new.exists /\ new.name = signup[s].name
      BY <1>t DEF Row, Signup
    <3>4. ~EmailTaken(g)
      BY <2>2
    <3> HIDE DEF x, new
    <3>5. signup'[s] = x /\ \A o \in Signups : o # s => signup'[o] = signup[o]
      BY <3>1, <1>t
    <3>6. user'[g] = new /\ \A d \in Emails : d # g => user'[d] = user[d]
      BY <3>1, <1>t, <1>f
    <3>7. ProvisioningTypeOK'
      BY <3>1, <3>2, <3>3, <1>t, <1>f, <1>u DEF ProvisioningInv, ProvisioningTypeOK
    <3>8. StartsApart'
      BY <1>u DEF ProvisioningInv, StartsApart, StartsOnReadySchema
    <3>9. FormInOrder'
      BY <3>2, <3>5, <1>f DEF ProvisioningInv, FormInOrder
    <3>10. \A o \in Signups :
              \/ signup'[o] = signup[o]
              \/ /\ signup'[o].step = "inserted" /\ signup'[o].email = g
                 /\ signup'[o].name = user'[g].name
                 /\ \A p \in Signups : p # o => signup'[p] = signup[p]
      BY <3>2, <3>3, <3>5, <3>6
    <3>11. observed'.booted = observed.booted /\ schema' = schema /\ user'[g].exists
      BY <1>u, <3>3, <3>6
    <3> HIDE DEF g
    <3> QED
      BY <1>f, <3>4, <3>6, <3>7, <3>8, <3>9, <3>10, <3>11, InsertStep
  <2> QED
    BY <2>1, <2>2
<1>3. ASSUME RegisterAccount(s) PROVE ProvisioningInv'
  <2> DEFINE new == [user[g] EXCEPT !.account = TRUE]
  <2>1. /\ signup[s].step = "inserted" /\ signup' = [signup EXCEPT ![s] = [@ EXCEPT !.step = "opened"]]
        /\ user' = [user EXCEPT ![g] = new]
    BY <1>3 DEF RegisterAccount, Goes
  <2>2. /\ new \in Row /\ new.exists = user[g].exists /\ new.name = user[g].name /\ new.account
        /\ new.roles = user[g].roles
    BY <1>t, <1>f DEF Row
  <2> HIDE DEF new
  <2>3. /\ user' \in [Emails -> Row] /\ user'[g] = new
        /\ \A e \in Emails : e # g => user'[e] = user[e]
    BY <2>1, <2>2, <1>t, <1>f
  <2>4. RowsKept
    BY <2>2, <2>3 DEF RowsKept
  <2>5. Inserted(s)
    BY <2>1 DEF Inserted
  <2> QED
    BY <2>1, <2>2, <2>3, <2>4, <2>5, <1>g
<1>4. ASSUME RegisterRole(s) PROVE ProvisioningInv'
  <2> DEFINE R == user[g].roles \cup {"customer"}
             new == [user[g] EXCEPT !.roles = R]
  <2>1. /\ signup[s].step = "opened" /\ signup' = [signup EXCEPT ![s] = [@ EXCEPT !.step = "created"]]
        /\ user' = [user EXCEPT ![g] = new]
    BY <1>4 DEF RegisterRole, Goes
  <2>2. R \in SUBSET {"customer", "super_admin"} /\ user[g].roles \subseteq R /\ "customer" \in R
    BY <1>t, <1>f DEF Row
  <2> HIDE DEF R
  <2>3. /\ new \in Row /\ new.exists = user[g].exists /\ new.name = user[g].name
        /\ new.account = user[g].account /\ new.roles = R
    BY <1>t, <1>f, <2>2 DEF Row
  <2> HIDE DEF new
  <2>4. /\ user' \in [Emails -> Row] /\ user'[g] = new
        /\ \A e \in Emails : e # g => user'[e] = user[e]
    BY <2>1, <2>3, <1>t, <1>f
  <2>5. RowsKept
    BY <2>2, <2>3, <2>4 DEF RowsKept
  <2>6. Inserted(s)
    BY <2>1 DEF Inserted
  <2> QED
    BY <2>1, <2>2, <2>3, <2>4, <2>5, <2>6, <1>o, <1>g
<1>5. ASSUME RegisterSignIn(s) PROVE ProvisioningInv'
  <2>1. /\ signup[s].step = "created" /\ signup' = [signup EXCEPT ![s] = [@ EXCEPT !.step = "done"]]
        /\ user' = user
    BY <1>5 DEF RegisterSignIn, Goes
  <2>2. Inserted(s)
    BY <2>1 DEF Inserted
  <2> QED
    BY <2>1, <2>2, <1>t, <1>k, <1>o, <1>g
<1>6. ASSUME RegisterCut(s) PROVE ProvisioningInv'
  BY <1>6, <1>e DEF RegisterCut
<1> QED
  BY <1>1, <1>2, <1>3, <1>4, <1>5, <1>6

LEMMA ProvisioningNextInv ==
  ASSUME ProvisioningInv, [ProvisioningNext]_provisioningVars PROVE ProvisioningInv'
<1>1. UNCHANGED provisioningVars => ProvisioningInv'
  BY DEF provisioningVars, ProvisioningInv, ProvisioningTypeOK, StartsApart, StartsOnReadySchema,
         BootedAreAdmins, FormInOrder, RowsOwned, Inserted
<1> QED
  BY <1>1, ReplicaNext, ScriptNext, FormNext, RequestNext DEF ProvisioningNext

\* Replicas start apart, forms are in order and every row belongs to the
\* registration that inserted it.
THEOREM ProvisioningInvariant == ProvisioningSpec => []ProvisioningInv
<1>1. ProvisioningInit => ProvisioningInv
  BY ProvisioningInitInv
<1>2. ProvisioningInv /\ [ProvisioningNext]_provisioningVars => ProvisioningInv'
  BY ProvisioningNextInv
<1> QED
  BY <1>1, <1>2, PTL DEF ProvisioningSpec

\* A replica serves on the last schema only, and none comes upon a file that
\* another one has applied (db/migrate.js).
THEOREM StartsAreReady == ProvisioningSpec => []StartsOnReadySchema
<1>1. ProvisioningInv => StartsOnReadySchema
  BY DEF ProvisioningInv, StartsApart
<1> QED
  BY <1>1, ProvisioningInvariant, PTL

\* However many replicas start together, bootstraps create one administrator at
\* most (services/adminBootstrap.js).
THEOREM OneAdminIsBooted == ProvisioningSpec => []BootstrapsOneAdmin
<1>1. ASSUME ProvisioningInv PROVE BootstrapsOneAdmin
  <2>1. Cardinality(observed.booted) <= 1
    <3>1. CASE observed.booted = {}
      BY <3>1, FS_EmptySet
    <3>2. CASE observed.booted # {}
      <4>1. PICK e \in observed.booted : observed.booted = {e}
        BY <1>1, <3>2 DEF ProvisioningInv, BootedAreAdmins
      <4>2. Cardinality({e}) = 1
        BY FS_Singleton
      <4> QED
        BY <4>1, <4>2
    <3> QED
      BY <3>1, <3>2
  <2>2. \A s \in Signups : signup[s].step = "done" => signup[s].email \notin observed.booted
    BY <1>1 DEF ProvisioningInv, RowsOwned, Inserted
  <2> QED
    BY <2>1, <2>2 DEF BootstrapsOneAdmin
<1> QED
  BY <1>1, ProvisioningInvariant, PTL

\* A form is sent with every step in order, and who is told of the registration
\* has a whole row of its own (Register.jsx, routes/auth.js).
THEOREM SignupsEndWhole == ProvisioningSpec => []SignupsAreWhole
<1>1. ASSUME ProvisioningInv PROVE SignupsAreWhole
  <2>1. ASSUME NEW s \in Signups, signup[s].step # "edit" PROVE signup[s].valid = 1..3
    <3>1. signup[s].form = 4 /\ \A k \in 1..3 : k < signup[s].form => k \in signup[s].valid
      BY <1>1, <2>1 DEF ProvisioningInv, FormInOrder
    <3>2. signup[s].valid \subseteq 1..3
      BY <1>1 DEF ProvisioningInv, ProvisioningTypeOK, Signup
    <3> QED
      BY <3>1, <3>2
  <2>2. ASSUME NEW s \in Signups, signup[s].step = "done"
        PROVE  /\ user[signup[s].email].name = signup[s].name
               /\ user[signup[s].email].account /\ "customer" \in user[signup[s].email].roles
               /\ \A o \in Signups : signup[o].step = "done" /\ signup[o].email = signup[s].email
                                       => o = s
    BY <1>1, <2>2 DEF ProvisioningInv, RowsOwned, Inserted
  <2> QED
    BY <2>1, <2>2 DEF SignupsAreWhole
<1> QED
  BY <1>1, ProvisioningInvariant, PTL
-----------------------------------------------------------------------------
(* The list and the alerts                                                 *)

Falling(rows) == \A j, k \in 1..Len(rows) : j < k => rows[k] < rows[j]

OfFilter(rows, filter) == \A k \in 1..Len(rows) : filter \in {Every, made[rows[k]]}

NotBefore(rows, cursor) == \A k \in 1..Len(rows) : cursor <= Instant[rows[k]]

\* What the answer to a request contains: rows before its cursor, none of them
\* before the next one.
AnswerFits(c) ==
    /\ load[c].reset <=> load[c].cursor = 0
    /\ load[c].step = "answered" =>
         /\ Falling(load[c].rows) /\ OfFilter(load[c].rows, load[c].filter)
         /\ load[c].cursor # 0 =>
              \A k \in 1..Len(load[c].rows) : Instant[load[c].rows[k]] < load[c].cursor
         /\ NotBefore(load[c].rows, load[c].next)
         /\ load[c].next # 0 /\ load[c].cursor # 0 => load[c].next < load[c].cursor

AnswersFit == \A c \in Loads : UnderWay(c) => AnswerFits(c)

\* A list that was asked for with nothing under way has one request at a time,
\* which is about its filter and goes on where the list ends.
OneLoad ==
    list.clean =>
        \A c \in Loads : UnderWay(c) =>
            /\ list.loading /\ load[c].filter = list.filter
            /\ ~load[c].reset => load[c].cursor = list.cursor
            /\ \A d \in Loads : UnderWay(d) => c = d

RowsFit ==
    list.clean /\ (\A c \in Loads : UnderWay(c) => ~load[c].reset) =>
        /\ Falling(list.items) /\ OfFilter(list.items, list.filter)
        /\ NotBefore(list.items, list.cursor)

ActivityInv == ActivityTypeOK /\ AnswersFit /\ OneLoad /\ RowsFit /\ BadgeCountsNews

\* How many rows of S are as new as row i.
Rank(S, i) == Cardinality({j \in S : j >= i})

LEMMA SomeRows ==
  ASSUME NEW S, S \subseteq Rows
  PROVE  IsFiniteSet(S) /\ Cardinality(S) \in 0..MaxRows
<1>1. IsFiniteSet(Rows) /\ Cardinality(Rows) = MaxRows
  BY ActivityAssumption, FS_Interval DEF Rows
<1>2. IsFiniteSet(S) /\ Cardinality(S) <= Cardinality(Rows)
  BY <1>1, FS_Subset
<1>3. Cardinality(S) \in Nat
  BY <1>2, FS_CardinalityType
<1> QED
  BY <1>1, <1>2, <1>3, ActivityAssumption

\* Every position up to the number of rows is the rank of exactly one of them.
LEMMA Ranks ==
  ASSUME NEW S, S \subseteq Rows
  PROVE  /\ S \subseteq Nat /\ Cardinality(S) \in Nat
         /\ \A i, j \in S : i < j => Rank(S, j) < Rank(S, i)
         /\ \A i \in S : Rank(S, i) \in 1..Cardinality(S)
         /\ \A k \in 1..Cardinality(S) : \E i \in S : Rank(S, i) = k
<1>0. S \subseteq Nat /\ IsFiniteSet(S) /\ Cardinality(S) \in Nat
  <2>1. S \subseteq Nat
    BY ActivityAssumption DEF Rows
  <2>2. IsFiniteSet(S)
    BY SomeRows
  <2> QED
    BY <2>1, <2>2, FS_CardinalityType
<1> DEFINE From(i) == {j \in S : j >= i}
<1>1. \A i \in S : IsFiniteSet(From(i)) /\ Cardinality(From(i)) \in 1..Cardinality(S)
  <2> SUFFICES ASSUME NEW i \in S
               PROVE  IsFiniteSet(From(i)) /\ Cardinality(From(i)) \in 1..Cardinality(S)
    OBVIOUS
  <2>1. From(i) \in SUBSET S /\ i \in From(i)
    BY <1>0
  <2> HIDE DEF From
  <2>2. IsFiniteSet(From(i)) /\ Cardinality(From(i)) <= Cardinality(S)
    BY <1>0, <2>1, FS_Subset
  <2>3. Cardinality(From(i)) \in Nat /\ Cardinality(From(i)) # 0
    BY <2>1, <2>2, FS_CardinalityType, FS_EmptySet
  <2> QED
    BY <1>0, <2>2, <2>3
<1>2. \A i \in S : Rank(S, i) = Cardinality(From(i))
  BY DEF Rank
<1>3. ASSUME NEW i \in S, NEW j \in S, i < j PROVE Rank(S, j) < Rank(S, i)
  <2>1. i \in Nat /\ j \in Nat
    BY <1>0
  <2>2. From(j) \in SUBSET From(i) /\ i \in From(i) /\ i \notin From(j)
    <3>1. i >= i /\ ~(i >= j)
      BY <1>3, <2>1
    <3>2. ASSUME NEW x \in S, x >= j PROVE x >= i
      <4>1. x \in Nat
        BY <1>0
      <4> QED
        BY <1>3, <2>1, <3>2, <4>1
    <3> QED
      BY <3>1, <3>2
  <2> HIDE DEF From
  <2>3. /\ Cardinality(From(j)) <= Cardinality(From(i))
        /\ Cardinality(From(i)) = Cardinality(From(j)) => From(i) = From(j)
    BY <1>1, <2>2, FS_Subset
  <2>4. Cardinality(From(i)) \in Nat /\ Cardinality(From(j)) \in Nat
    BY <1>0, <1>1
  <2> QED
    BY <1>2, <2>2, <2>3, <2>4
<1> HIDE DEF From
<1>4. \A i \in S : Rank(S, i) \in 1..Cardinality(S)
  BY <1>1, <1>2
<1>5. \A k \in 1..Cardinality(S) : \E i \in S : Rank(S, i) = k
  <2> DEFINE f == [i \in S |-> Rank(S, i)]
             T == 1..Cardinality(S)
  <2>1. f \in [S -> T]
    BY <1>4
  <2>2. ASSUME NEW i \in S, NEW j \in S, f[i] = f[j] PROVE i = j
    <3>1. Rank(S, i) = Rank(S, j) /\ Rank(S, i) \in Nat /\ i \in Nat /\ j \in Nat
      BY <1>0, <1>4, <2>2
    <3>2. ~(i < j) /\ ~(j < i)
      BY <1>3, <3>1
    <3> QED
      BY <3>1, <3>2
  <2>3. f \in Injection(S, T)
    BY <2>1, <2>2 DEF Injection, IsInjective
  <2>4. IsFiniteSet(T) /\ Cardinality(T) = Cardinality(S)
    BY <1>0, FS_Interval
  <2> HIDE DEF f, T
  <2>5. f \in Surjection(S, T)
    BY <2>3, <2>4, FS_Injection
  <2>6. \A k \in T : \E i \in S : f[i] = k
    BY <2>5 DEF Surjection
  <2> QED
    BY <2>6 DEF f, T
<1> QED
  BY <1>0, <1>3, <1>4, <1>5

\* A page holds rows it was asked for, each newer than the next, and no more
\* than its limit.
LEMMA NewestFirstFalls ==
  ASSUME NEW S, S \subseteq Rows, NEW n \in Nat
  PROVE  LET rows == NewestFirst(S, n) IN
         /\ rows \in Seq(Rows) /\ Len(rows) <= n
         /\ \A k \in 1..Len(rows) : rows[k] \in S
         /\ Falling(rows)
<1> DEFINE m == IF Cardinality(S) < n THEN Cardinality(S) ELSE n
           at(k) == CHOOSE i \in S : Rank(S, i) = k
           rows == NewestFirst(S, n)
<1>1. Cardinality(S) \in Nat /\ S \subseteq Nat
  BY Ranks
<1>2. m \in Nat /\ m <= n /\ m <= Cardinality(S)
  BY <1>1
<1>3. rows = [k \in 1..m |-> at(k)]
  BY DEF NewestFirst, Rank
<1> HIDE DEF m, rows
<1>4. \A k \in 1..m : at(k) \in S /\ Rank(S, at(k)) = k
  <2> SUFFICES ASSUME NEW k \in 1..m PROVE at(k) \in S /\ Rank(S, at(k)) = k
    OBVIOUS
  <2>1. k \in 1..Cardinality(S)
    BY <1>1, <1>2
  <2>2. \E i \in S : Rank(S, i) = k
    BY <2>1, Ranks
  <2> QED
    BY <2>2
<1> HIDE DEF at
<1>5. \A k \in 1..m : rows[k] \in S /\ Rank(S, rows[k]) = k
  BY <1>3, <1>4
<1>6. rows \in Seq(Rows) /\ Len(rows) = m
  <2>1. rows \in [1..m -> Rows]
    BY <1>3, <1>4
  <2> QED
    BY <1>2, <2>1, SeqDef, LenProperties
<1>7. ASSUME NEW j \in 1..m, NEW k \in 1..m, j < k PROVE rows[k] < rows[j]
  <2>1. rows[j] \in S /\ rows[k] \in S /\ Rank(S, rows[j]) = j /\ Rank(S, rows[k]) = k
    BY <1>5
  <2>2. rows[j] \in Nat /\ rows[k] \in Nat /\ j \in Nat /\ k \in Nat
    <3>1. rows[j] \in Nat /\ rows[k] \in Nat
      BY <1>1, <2>1
    <3> QED
      BY <1>2, <3>1
  <2>3. ~(rows[j] < rows[k])
    <3>1. rows[j] < rows[k] => Rank(S, rows[k]) < Rank(S, rows[j])
      BY <2>1, Ranks
    <3> QED
      BY <1>7, <2>1, <2>2, <3>1
  <2>4. rows[j] # rows[k]
    BY <1>7, <2>1, <2>2
  <2> QED
    BY <2>2, <2>3, <2>4
<1>8. Falling(rows)
  BY <1>6, <1>7 DEF Falling
<1> QED
  BY <1>2, <1>5, <1>6, <1>8 DEF rows

\* A transaction keeps its type, and a row that matched a filter matches it.
LEMMA RowsKeepTheirType ==
  ASSUME ActivityTypeOK, [ActivityNext]_activityVars
  PROVE  /\ \A i \in Rows : made[i] # Every => made'[i] = made[i]
         /\ \A rows \in Seq(Rows), filter \in Types \cup {Every} :
              OfFilter(rows, filter) => OfFilter(rows, filter)'
<1>1. \A i \in Rows : made[i] # Every => made'[i] = made[i]
  <2>1. CASE \E i \in Rows, type \in Types : CommitTransaction(i, type)
    BY <2>1 DEF CommitTransaction, ActivityTypeOK
  <2>2. CASE UNCHANGED made
    BY <2>2
  <2>3. (\E i \in Rows, type \in Types : CommitTransaction(i, type)) \/ UNCHANGED made
    BY DEF ActivityNext, activityVars, ChooseFilter, LoadMore, Send, AnswerList, ShowRows,
           LoadFails, EmitEvent, Disconnect, Reconnect, OpenAlerts, CloseAlerts, Seed, SeedFails
  <2> QED
    BY <2>1, <2>2, <2>3
<1>2. ASSUME NEW rows \in Seq(Rows), NEW filter \in Types \cup {Every}, OfFilter(rows, filter)
      PROVE  \A k \in 1..Len(rows) : filter \in {Every, made'[rows[k]]}
  <2>1. \A k \in 1..Len(rows) : rows[k] \in Rows /\ filter \in {Every, made[rows[k]]}
    BY <1>2 DEF OfFilter
  <2> QED
    BY <1>1, <2>1
<1> QED
  BY <1>1, <1>2 DEF OfFilter

-----------------------------------------------------------------------------
(* One step of the list                                                    *)

LEMMA AnswersStay ==
  ASSUME ActivityTypeOK, AnswersFit, [ActivityNext]_activityVars,
         NEW d \in Loads, load'[d] = load[d]
  PROVE  UnderWay(d)' => AnswerFits(d)'
<1>1. load[d] \in Load
  BY DEF ActivityTypeOK
<1>2. load[d].rows \in Seq(Rows) /\ load[d].filter \in Types \cup {Every}
  BY <1>1 DEF Load
<1>3. OfFilter(load[d].rows, load[d].filter)
      => \A k \in 1..Len(load[d].rows) : load[d].filter \in {Every, made'[load[d].rows[k]]}
  BY <1>2, RowsKeepTheirType DEF OfFilter
<1>4. UnderWay(d) => AnswerFits(d)
  BY DEF AnswersFit
<1> QED
  BY <1>3, <1>4 DEF UnderWay, AnswerFits, Falling, OfFilter, NotBefore

\* What the server answers.
LEMMA AnswerListFits ==
  ASSUME ActivityTypeOK, AnswersFit, NEW c \in Loads, AnswerList(c)
  PROVE  AnswerFits(c)'
<1> DEFINE filter == load[c].filter
           cursor == load[c].cursor
           rows == PageOf(filter, cursor)
           next == NextCursor(rows)
<1>1. load[c] \in Load /\ cursor \in Nat
  BY DEF ActivityTypeOK, Load
<1>2. Matching(filter, cursor) \subseteq Rows
  BY DEF Matching, Made
<1>3. PageSize \in Nat \ {0}
  BY ActivityAssumption
<1>4. /\ rows \in Seq(Rows) /\ Len(rows) <= PageSize /\ Falling(rows)
      /\ \A k \in 1..Len(rows) : rows[k] \in Matching(filter, cursor)
  BY <1>2, <1>3, NewestFirstFalls DEF PageOf
<1>5. \A k \in 1..Len(rows) :
         /\ rows[k] \in Rows /\ filter \in {Every, made[rows[k]]}
         /\ cursor # 0 => Instant[rows[k]] < cursor
  BY <1>4 DEF Matching, Made
<1> HIDE DEF rows
<1>6. ASSUME Len(rows) # PageSize
      PROVE  NotBefore(rows, next) /\ (next # 0 /\ cursor # 0 => next < cursor)
  <2>1. next = 0
    BY <1>6 DEF NextCursor
  <2>2. \A i \in Rows : Instant[i] \in Nat
    BY ActivityAssumption
  <2>3. NotBefore(rows, next)
    BY <1>5, <2>1, <2>2 DEF NotBefore
  <2> QED
    BY <2>1, <2>3
<1>7. ASSUME Len(rows) = PageSize
      PROVE  NotBefore(rows, next) /\ (next # 0 /\ cursor # 0 => next < cursor)
  <2>1. next = Instant[rows[PageSize]] /\ PageSize \in 1..Len(rows)
    BY <1>3, <1>7 DEF NextCursor
  <2>2. ASSUME NEW k \in 1..Len(rows) PROVE next <= Instant[rows[k]]
    <3>1. k = PageSize \/ k < PageSize
      BY <1>3, <1>7
    <3>2. rows[k] \in Rows /\ rows[PageSize] \in Rows
      BY <1>5, <2>1
    <3>3. k < PageSize => rows[PageSize] < rows[k]
      BY <1>4, <2>1 DEF Falling
    <3>4. Instant[rows[k]] \in Nat
      BY <3>2, ActivityAssumption
    <3> QED
      BY <2>1, <3>1, <3>2, <3>3, <3>4, ActivityAssumption
  <2>3. NotBefore(rows, next)
    BY <2>2 DEF NotBefore
  <2>4. cursor # 0 => next < cursor
    BY <1>5, <2>1
  <2> QED
    BY <2>3, <2>4
<1>8. NotBefore(rows, next) /\ (next # 0 /\ cursor # 0 => next < cursor)
  BY <1>6, <1>7
<1>9. OfFilter(rows, filter)
  BY <1>5 DEF OfFilter
<1>10. /\ load'[c].reset = load[c].reset /\ load'[c].filter = filter /\ load'[c].cursor = cursor
       /\ load'[c].rows = rows /\ load'[c].next = next
  BY <1>1 DEF AnswerList, ActivityTypeOK, Load, rows
<1>11. load[c].reset <=> cursor = 0
  BY DEF AnswersFit, AnswerFits, AnswerList, UnderWay
<1>12. made' = made
  BY DEF AnswerList
<1> HIDE DEF next, cursor, filter
<1> QED
  BY <1>4, <1>5, <1>8, <1>9, <1>10, <1>11, <1>12 DEF AnswerFits, OfFilter, NotBefore, Falling

\* Rows that go on below the cursor of a list make a list that falls.
LEMMA AppendFalls ==
  ASSUME NEW items \in Seq(Rows), NEW rows \in Seq(Rows), NEW cursor \in Nat, NEW next \in Nat,
         Falling(items), Falling(rows), NotBefore(items, cursor), NotBefore(rows, next),
         \A k \in 1..Len(rows) : Instant[rows[k]] < cursor,
         next # 0 => next < cursor
  PROVE  Falling(items \o rows) /\ NotBefore(items \o rows, next)
<1> DEFINE all == items \o rows
<1>1. /\ all \in Seq(Rows) /\ Len(all) = Len(items) + Len(rows)
      /\ Len(items) \in Nat /\ Len(rows) \in Nat
      /\ \A k \in 1..Len(items) : all[k] = items[k]
      /\ \A k \in 1..Len(rows) : all[Len(items) + k] = rows[k]
  BY ConcatProperties, LenProperties
<1>2. /\ \A k \in 1..Len(items) : items[k] \in Rows
      /\ \A k \in 1..Len(rows) : rows[k] \in Rows
  OBVIOUS
<1>3. \A i \in Rows : i \in Nat /\ Instant[i] \in Nat
  BY ActivityAssumption DEF Rows
<1> HIDE DEF all
<1>4. ASSUME NEW k \in 1..Len(all)
      PROVE  \/ k \in 1..Len(items) /\ all[k] = items[k]
             \/ \E p \in 1..Len(rows) : k = Len(items) + p /\ all[k] = rows[p]
  <2>1. CASE k \in 1..Len(items)
    BY <1>1, <2>1
  <2>2. CASE k \notin 1..Len(items)
    <3>1. k - Len(items) \in 1..Len(rows) /\ k = Len(items) + (k - Len(items))
      BY <1>1, <2>2
    <3> QED
      BY <1>1, <3>1
  <2> QED
    BY <2>1, <2>2
<1>5. ASSUME NEW j \in 1..Len(items), NEW p \in 1..Len(rows) PROVE rows[p] < items[j]
  <2>1. /\ rows[p] \in Rows /\ items[j] \in Rows
        /\ Instant[rows[p]] < cursor /\ cursor <= Instant[items[j]]
    BY <1>2 DEF NotBefore
  <2>2. ~(items[j] < rows[p]) /\ items[j] # rows[p]
    <3>1. items[j] < rows[p] => Instant[items[j]] <= Instant[rows[p]]
      BY <2>1, ActivityAssumption
    <3>2. Instant[items[j]] \in Nat /\ Instant[rows[p]] \in Nat
      BY <1>3, <2>1
    <3> QED
      BY <2>1, <3>1, <3>2
  <2> QED
    BY <1>3, <2>1, <2>2
<1>6. ASSUME NEW j \in 1..Len(all), NEW k \in 1..Len(all), j < k PROVE all[k] < all[j]
  <2>1. CASE j \in 1..Len(items) /\ k \in 1..Len(items)
    BY <1>1, <1>6, <2>1 DEF Falling
  <2>2. CASE j \in 1..Len(items) /\ k \notin 1..Len(items)
    <3>1. PICK p \in 1..Len(rows) : all[k] = rows[p]
      BY <1>4, <2>2
    <3> QED
      BY <1>1, <1>5, <2>2, <3>1
  <2>3. CASE j \notin 1..Len(items)
    <3>1. PICK p \in 1..Len(rows) : j = Len(items) + p /\ all[j] = rows[p]
      BY <1>4, <2>3
    <3>2. k \notin 1..Len(items)
      BY <1>1, <1>6, <3>1
    <3>3. PICK q \in 1..Len(rows) : k = Len(items) + q /\ all[k] = rows[q]
      BY <1>4, <3>2
    <3>4. p < q
      BY <1>1, <1>6, <3>1, <3>3
    <3> QED
      BY <3>1, <3>3, <3>4 DEF Falling
  <2> QED
    BY <2>1, <2>2, <2>3
<1>7. ASSUME NEW k \in 1..Len(all) PROVE next <= Instant[all[k]]
  <2>1. CASE \E p \in 1..Len(rows) : all[k] = rows[p]
    BY <2>1 DEF NotBefore
  <2>2. CASE k \in 1..Len(items) /\ all[k] = items[k]
    <3>1. cursor <= Instant[items[k]] /\ Instant[items[k]] \in Nat
      BY <1>2, <1>3, <2>2 DEF NotBefore
    <3> QED
      BY <2>2, <3>1
  <2> QED
    BY <1>4, <2>1, <2>2
<1> QED
  BY <1>6, <1>7 DEF all, Falling, NotBefore

\* A request is sent: the list changes with it, and nothing else.
LEMMA SendStep ==
  ASSUME ActivityTypeOK, NEW c \in Loads, NEW reset \in BOOLEAN,
         NEW filter \in Types \cup {Every}, NEW cursor \in Nat, Send(c, reset, filter, cursor)
  PROVE  /\ load' \in [Loads -> Load] /\ list' \in List
         /\ load'[c].step = "sent" /\ load'[c].reset = reset
         /\ load'[c].filter = filter /\ load'[c].cursor = cursor
         /\ \A d \in Loads \ {c} : load'[d] = load[d]
         /\ list'.filter = filter /\ list'.items = list.items /\ list'.loading
         /\ ~reset => list'.cursor = list.cursor /\ list'.clean = list.clean
         /\ reset /\ list'.clean => \A d \in Loads : ~UnderWay(d)
<1> DEFINE new == [Unused EXCEPT !.step = "sent", !.reset = reset, !.filter = filter,
                                 !.cursor = cursor]
<1>1. /\ new \in Load /\ new.step = "sent" /\ new.reset = reset
      /\ new.filter = filter /\ new.cursor = cursor
  <2>1. Unused \in Load
    <3>1. <<>> \in Seq(Rows) /\ 0 \in Nat
      OBVIOUS
    <3> QED
      BY <3>1 DEF Unused, Load
  <2> QED
    BY <2>1 DEF Load
<1>2. load' = [load EXCEPT ![c] = new] /\ load \in [Loads -> Load]
  BY DEF Send, ActivityTypeOK
<1> HIDE DEF new
<1>3. load' \in [Loads -> Load] /\ load'[c] = new /\ \A d \in Loads \ {c} : load'[d] = load[d]
  BY <1>1, <1>2
<1>4. Busy \in BOOLEAN /\ (~Busy => \A d \in Loads : ~UnderWay(d))
  BY DEF Busy
<1>5. list' = [list EXCEPT !.filter = filter, !.cursor = IF reset THEN 0 ELSE list.cursor,
                           !.loading = TRUE, !.clean = IF reset THEN ~Busy ELSE list.clean]
      /\ list \in List
  BY DEF Send, ActivityTypeOK
<1>6. /\ list'.filter = filter /\ list'.items = list.items /\ list'.loading
      /\ ~reset => list'.cursor = list.cursor /\ list'.clean = list.clean
      /\ reset => list'.clean = ~Busy
  BY <1>5 DEF List
<1>7. list' \in List
  <2> DEFINE b == IF reset THEN ~Busy ELSE list.clean
             k == IF reset THEN 0 ELSE list.cursor
  <2>1. b \in BOOLEAN
    BY <1>4, <1>5 DEF List
  <2>2. k \in Nat
    BY <1>5 DEF List
  <2>3. list' = [list EXCEPT !.filter = filter, !.cursor = k, !.loading = TRUE, !.clean = b]
    BY <1>5
  <2> HIDE DEF b, k
  <2> QED
    BY <1>5, <2>1, <2>2, <2>3 DEF List
<1> QED
  BY <1>1, <1>3, <1>4, <1>6, <1>7

LEMMA ListStep ==
  ASSUME ActivityTypeOK, AnswersFit, OneLoad, RowsFit, [ActivityNext]_activityVars
  PROVE  AnswersFit' /\ OneLoad' /\ RowsFit'
<1>1. ASSUME NEW c \in Loads, NEW filter \in Filters, ChooseFilter(c, filter)
      PROVE  AnswersFit' /\ OneLoad' /\ RowsFit'
  <2>1. filter \in Types \cup {Every} /\ Send(c, TRUE, filter, 0)
    BY <1>1, ActivityAssumption DEF ChooseFilter
  <2>2. /\ load'[c].step = "sent" /\ load'[c].reset = TRUE
        /\ load'[c].filter = filter /\ load'[c].cursor = 0
        /\ \A d \in Loads \ {c} : load'[d] = load[d]
        /\ list'.filter = filter /\ list'.loading
        /\ list'.clean => \A d \in Loads : ~UnderWay(d)
    BY <2>1, SendStep
  <2>3. AnswersFit'
    <3>1. AnswerFits(c)'
      BY <2>2 DEF AnswerFits
    <3> QED
      BY <2>2, <3>1, AnswersStay DEF AnswersFit
  <2>4. OneLoad'
    BY <2>2 DEF OneLoad, UnderWay
  <2>5. RowsFit'
    BY <2>2 DEF RowsFit, UnderWay
  <2> QED
    BY <2>3, <2>4, <2>5
<1>2. ASSUME NEW c \in Loads, LoadMore(c)
      PROVE  AnswersFit' /\ OneLoad' /\ RowsFit'
  <2>1. /\ list \in List /\ list.cursor # 0 /\ list.cursor \in Nat /\ ~list.loading
        /\ list.filter \in Types \cup {Every}
        /\ Send(c, FALSE, list.filter, list.cursor)
    BY <1>2 DEF LoadMore, ActivityTypeOK, List
  <2>2. /\ load'[c].step = "sent" /\ load'[c].reset = FALSE
        /\ load'[c].filter = list.filter /\ load'[c].cursor = list.cursor
        /\ \A d \in Loads \ {c} : load'[d] = load[d]
        /\ list'.filter = list.filter /\ list'.items = list.items /\ list'.loading
        /\ list'.cursor = list.cursor /\ list'.clean = list.clean
    BY <2>1, SendStep
  <2>3. AnswersFit'
    <3>1. AnswerFits(c)'
      BY <2>1, <2>2 DEF AnswerFits
    <3> QED
      BY <2>2, <3>1, AnswersStay DEF AnswersFit
  <2>4. list.clean => \A d \in Loads : ~UnderWay(d)
    BY <2>1 DEF OneLoad
  <2>5. OneLoad'
    BY <2>2, <2>4 DEF OneLoad, UnderWay
  <2>6. RowsFit'
    <3>1. made' = made
      BY <2>1 DEF Send
    <3> QED
      BY <2>2, <2>4, <3>1 DEF RowsFit, UnderWay, Falling, OfFilter, NotBefore
  <2> QED
    BY <2>3, <2>5, <2>6
<1>3. ASSUME NEW c \in Loads, AnswerList(c)
      PROVE  AnswersFit' /\ OneLoad' /\ RowsFit'
  <2>1. /\ load[c].step = "sent" /\ load'[c].step = "answered"
        /\ load'[c].reset = load[c].reset /\ load'[c].filter = load[c].filter
        /\ load'[c].cursor = load[c].cursor
        /\ \A d \in Loads \ {c} : load'[d] = load[d]
    BY <1>3 DEF AnswerList, ActivityTypeOK, Load
  <2>2. made' = made /\ list' = list
    BY <1>3 DEF AnswerList
  <2>3. AnswersFit'
    BY <1>3, <2>1, AnswersStay, AnswerListFits DEF AnswersFit
  <2>4. \A d \in Loads : /\ UnderWay(d)' <=> UnderWay(d)
                         /\ load'[d].reset = load[d].reset /\ load'[d].filter = load[d].filter
                         /\ load'[d].cursor = load[d].cursor
    BY <2>1 DEF UnderWay
  <2>5. OneLoad'
    BY <2>2, <2>4 DEF OneLoad
  <2>6. RowsFit'
    BY <2>2, <2>4 DEF RowsFit, Falling, OfFilter, NotBefore
  <2> QED
    BY <2>3, <2>5, <2>6
<1>4. ASSUME NEW c \in Loads, ShowRows(c)
      PROVE  AnswersFit' /\ OneLoad' /\ RowsFit'
  <2>1. /\ load[c] \in Load /\ load[c].step = "answered" /\ list \in List /\ made' = made
        /\ load'[c].step = "unused" /\ \A d \in Loads \ {c} : load'[d] = load[d]
    BY <1>4 DEF ShowRows, ActivityTypeOK, Unused
  <2>2. /\ list'.items = IF load[c].reset THEN load[c].rows ELSE list.items \o load[c].rows
        /\ list'.cursor = load[c].next /\ list'.filter = list.filter /\ list'.clean = list.clean
    BY <1>4, <2>1 DEF ShowRows, List
  <2>3. AnswersFit'
    BY <2>1, AnswersStay DEF AnswersFit, UnderWay
  <2>4. list.clean => /\ \A d \in Loads \ {c} : ~UnderWay(d)
                      /\ load[c].filter = list.filter
                      /\ ~load[c].reset => load[c].cursor = list.cursor
    BY <2>1 DEF OneLoad, UnderWay
  <2>5. OneLoad'
    BY <2>1, <2>2, <2>4 DEF OneLoad, UnderWay
  <2>6. ASSUME list.clean
        PROVE  /\ Falling(list'.items) /\ OfFilter(list'.items, list.filter)
               /\ NotBefore(list'.items, load[c].next)
    <3>1. AnswerFits(c)
      BY <2>1 DEF AnswersFit, UnderWay
    <3>2. /\ Falling(load[c].rows) /\ OfFilter(load[c].rows, list.filter)
          /\ NotBefore(load[c].rows, load[c].next)
      BY <2>1, <2>4, <2>6, <3>1 DEF AnswerFits
    <3>3. CASE load[c].reset
      BY <2>2, <3>2, <3>3
    <3>4. CASE ~load[c].reset
      <4>1. /\ load[c].cursor = list.cursor /\ list.cursor # 0
            /\ \A k \in 1..Len(load[c].rows) : Instant[load[c].rows[k]] < list.cursor
            /\ load[c].next # 0 => load[c].next < list.cursor
        BY <2>1, <2>4, <2>6, <3>1, <3>4 DEF AnswerFits
      <4>2. \A d \in Loads : UnderWay(d) => ~load[d].reset
        BY <2>4, <2>6, <3>4
      <4>3. /\ Falling(list.items) /\ OfFilter(list.items, list.filter)
            /\ NotBefore(list.items, list.cursor)
        BY <2>6, <4>2 DEF RowsFit
      <4>4. /\ list.items \in Seq(Rows) /\ load[c].rows \in Seq(Rows)
            /\ list.cursor \in Nat /\ load[c].next \in Nat
        BY <2>1 DEF List, Load
      <4>5. /\ Falling(list.items \o load[c].rows)
            /\ NotBefore(list.items \o load[c].rows, load[c].next)
        BY <3>2, <4>1, <4>3, <4>4, AppendFalls
      <4>6. OfFilter(list.items \o load[c].rows, list.filter)
        <5> DEFINE items == list.items
                   rows == load[c].rows
                   f == list.filter
        <5>1. /\ \A k \in 1..Len(items) : f \in {Every, made[items[k]]}
              /\ \A k \in 1..Len(rows) : f \in {Every, made[rows[k]]}
          BY <3>2, <4>3 DEF OfFilter
        <5>2. items \in Seq(Rows) /\ rows \in Seq(Rows)
          BY <4>4
        <5> HIDE DEF items, rows, f
        <5>3. \A k \in 1..Len(items \o rows) : f \in {Every, made[(items \o rows)[k]]}
          BY <5>1, <5>2
        <5> QED
          BY <5>3 DEF OfFilter, items, rows, f
      <4> QED
        BY <2>2, <3>4, <4>5, <4>6
    <3> QED
      BY <3>3, <3>4
  <2>7. RowsFit'
    BY <2>1, <2>2, <2>6 DEF RowsFit, Falling, OfFilter, NotBefore
  <2> QED
    BY <2>3, <2>5, <2>7
<1>5. ASSUME NEW c \in Loads, LoadFails(c)
      PROVE  AnswersFit' /\ OneLoad' /\ RowsFit'
  <2>1. /\ load[c] \in Load /\ UnderWay(c) /\ list \in List /\ made' = made
        /\ load'[c].step = "unused" /\ \A d \in Loads \ {c} : load'[d] = load[d]
    BY <1>5 DEF LoadFails, ActivityTypeOK, Unused
  <2>2. /\ list'.items = list.items /\ list'.cursor = list.cursor /\ list'.filter = list.filter
        /\ list'.clean => list.clean /\ ~load[c].reset
    BY <1>5, <2>1 DEF LoadFails, List
  <2>3. AnswersFit'
    BY <2>1, AnswersStay DEF AnswersFit, UnderWay
  <2>4. list.clean => \A d \in Loads \ {c} : ~UnderWay(d)
    BY <2>1 DEF OneLoad
  <2>5. OneLoad'
    BY <2>1, <2>2, <2>4 DEF OneLoad, UnderWay
  <2>6. RowsFit'
    BY <2>1, <2>2, <2>4 DEF RowsFit, UnderWay, Falling, OfFilter, NotBefore
  <2> QED
    BY <2>3, <2>5, <2>6
<1>6. ASSUME UNCHANGED <<list, load>>
      PROVE  AnswersFit' /\ OneLoad' /\ RowsFit'
  <2>1. AnswersFit'
    BY <1>6, AnswersStay DEF AnswersFit
  <2>2. OneLoad'
    BY <1>6 DEF OneLoad, UnderWay
  <2>3. list.items \in Seq(Rows) /\ list.filter \in Types \cup {Every}
    BY DEF ActivityTypeOK, List
  <2>4. OfFilter(list.items, list.filter)
        => \A k \in 1..Len(list.items) : list.filter \in {Every, made'[list.items[k]]}
    BY <2>3, RowsKeepTheirType DEF OfFilter
  <2>5. RowsFit'
    BY <1>6, <2>4 DEF RowsFit, UnderWay, Falling, OfFilter, NotBefore
  <2> QED
    BY <2>1, <2>2, <2>5
<1>7. \/ \E c \in Loads : \/ \E filter \in Filters : ChooseFilter(c, filter)
                          \/ LoadMore(c) \/ AnswerList(c) \/ ShowRows(c) \/ LoadFails(c)
      \/ UNCHANGED <<list, load>>
  BY DEF ActivityNext, activityVars, CommitTransaction, EmitEvent, Disconnect, Reconnect,
         OpenAlerts, CloseAlerts, Seed, SeedFails
<1> QED
  BY <1>1, <1>2, <1>3, <1>4, <1>5, <1>6, <1>7

-----------------------------------------------------------------------------
(* One step of the alerts                                                  *)

News == {i \in Rows : alert[i] = "new"}

LEMMA BadgeStep ==
  ASSUME ActivityTypeOK, BadgeCountsNews, [ActivityNext]_activityVars
  PROVE  BadgeCountsNews' /\ badge' \in 0..MaxRows /\ alert' \in [Rows -> Alerts]
<1>1. badge = Cardinality(News) /\ alert \in [Rows -> Alerts] /\ badge \in 0..MaxRows
  BY DEF BadgeCountsNews, News, ActivityTypeOK
<1>2. IsFiniteSet(News)
  BY SomeRows DEF News
<1>3. SUFFICES badge' = Cardinality(News') /\ alert' \in [Rows -> Alerts]
  <2>1. News' \subseteq Rows
    BY DEF News
  <2>2. Cardinality(News') \in 0..MaxRows
    BY <2>1, SomeRows
  <2> QED
    BY <1>3, <2>2 DEF BadgeCountsNews, News
<1>4. ASSUME NEW i \in Rows, EmitEvent(i)
      PROVE  badge' = Cardinality(News') /\ alert' \in [Rows -> Alerts]
  <2>1. CASE UNCHANGED <<alert, badge>>
    BY <1>1, <2>1 DEF News
  <2>2. CASE alert[i] = "none" /\ alert' = [alert EXCEPT ![i] = "new"] /\ badge' = badge + 1
    <3>1. alert' \in [Rows -> Alerts]
      BY <1>1, <2>2 DEF Alerts
    <3>2. News' = News \cup {i} /\ i \notin News
      BY <1>1, <2>2 DEF News
    <3>3. Cardinality(News \cup {i}) = Cardinality(News) + 1
      BY <1>2, <3>2, FS_AddElement
    <3> QED
      BY <1>1, <2>2, <3>1, <3>2, <3>3
  <2> QED
    BY <1>4, <2>1, <2>2 DEF EmitEvent, Push
<1>5. ASSUME OpenAlerts
      PROVE  badge' = Cardinality(News') /\ alert' \in [Rows -> Alerts]
  <2>1. News' = {}
    BY <1>5 DEF OpenAlerts, News
  <2>2. alert' \in [Rows -> Alerts]
    BY <1>5 DEF OpenAlerts, Alerts
  <2> QED
    BY <1>5, <2>1, <2>2, FS_EmptySet DEF OpenAlerts
<1>6. ASSUME Seed
      PROVE  badge' = Cardinality(News') /\ alert' \in [Rows -> Alerts]
  <2>1. PICK old \in SUBSET Made :
           alert' = [i \in Rows |-> IF i \in old /\ alert[i] = "none" THEN "seeded" ELSE alert[i]]
    BY <1>6 DEF Seed
  <2>2. News' = News
    BY <2>1 DEF News
  <2>3. alert' \in [Rows -> Alerts]
    BY <1>1, <2>1 DEF Alerts
  <2> QED
    BY <1>1, <1>6, <2>2, <2>3 DEF Seed
<1>7. ASSUME UNCHANGED <<alert, badge>>
      PROVE  badge' = Cardinality(News') /\ alert' \in [Rows -> Alerts]
  BY <1>1, <1>7 DEF News
<1>8. (\E i \in Rows : EmitEvent(i)) \/ OpenAlerts \/ Seed \/ UNCHANGED <<alert, badge>>
  BY DEF ActivityNext, activityVars, CommitTransaction, ChooseFilter, LoadMore, Send, AnswerList,
         ShowRows, LoadFails, Disconnect, Reconnect, CloseAlerts, SeedFails
<1> QED
  BY <1>4, <1>5, <1>6, <1>7, <1>8

-----------------------------------------------------------------------------
LEMMA ActivityTypeStep ==
  ASSUME ActivityTypeOK, BadgeCountsNews, [ActivityNext]_activityVars
  PROVE  ActivityTypeOK'
<1> DEFINE Rest == /\ made' \in [Rows -> Types \cup {Every}]
                   /\ list' \in List /\ load' \in [Loads -> Load]
                   /\ live' \in Live
                   /\ page' \in [shown : BOOLEAN, asks : BOOLEAN]
<1> SUFFICES Rest
  BY BadgeStep DEF ActivityTypeOK
<1>1. ASSUME NEW i \in Rows, NEW type \in Types, CommitTransaction(i, type) PROVE Rest
  BY <1>1 DEF CommitTransaction, ActivityTypeOK, Live
<1>2. ASSUME NEW c \in Loads, NEW filter \in Filters, ChooseFilter(c, filter) PROVE Rest
  <2>1. filter \in Types \cup {Every} /\ Send(c, TRUE, filter, 0)
    BY <1>2, ActivityAssumption DEF ChooseFilter
  <2>2. load' \in [Loads -> Load] /\ list' \in List
    BY <2>1, SendStep
  <2> QED
    BY <2>1, <2>2 DEF Send, ActivityTypeOK
<1>3. ASSUME NEW c \in Loads, LoadMore(c) PROVE Rest
  <2>1. /\ list.filter \in Types \cup {Every} /\ list.cursor \in Nat
        /\ Send(c, FALSE, list.filter, list.cursor)
    BY <1>3 DEF LoadMore, ActivityTypeOK, List
  <2>2. load' \in [Loads -> Load] /\ list' \in List
    BY <2>1, SendStep
  <2> QED
    BY <2>1, <2>2 DEF Send, ActivityTypeOK
<1>4. ASSUME NEW c \in Loads, AnswerList(c) PROVE Rest
  <2> DEFINE rows == PageOf(load[c].filter, load[c].cursor)
             next == NextCursor(rows)
  <2>1. rows \in Seq(Rows)
    BY ActivityAssumption, NewestFirstFalls DEF PageOf, Matching, Made
  <2>2. next \in Nat
    <3>1. Len(rows) = PageSize => rows[PageSize] \in Rows
      BY <2>1, ActivityAssumption
    <3> QED
      BY <3>1, ActivityAssumption DEF NextCursor
  <2>3. load' = [load EXCEPT ![c].step = "answered", ![c].rows = rows, ![c].next = next]
    BY <1>4 DEF AnswerList
  <2> HIDE DEF rows, next
  <2>4. load' \in [Loads -> Load]
    <3> DEFINE new == [load[c] EXCEPT !.step = "answered", !.rows = rows, !.next = next]
    <3>1. load \in [Loads -> Load] /\ load[c] \in Load
      BY DEF ActivityTypeOK
    <3>2. new \in Load
      BY <2>1, <2>2, <3>1 DEF Load
    <3>3. load' = [load EXCEPT ![c] = new]
      BY <2>3
    <3> HIDE DEF new
    <3> QED
      BY <3>1, <3>2, <3>3
  <2> QED
    BY <1>4, <2>4 DEF AnswerList, ActivityTypeOK
<1>5. ASSUME NEW c \in Loads, ShowRows(c) \/ LoadFails(c) PROVE Rest
  <2>1. Unused \in Load
    <3>1. <<>> \in Seq(Rows) /\ 0 \in Nat
      OBVIOUS
    <3> QED
      BY <3>1 DEF Unused, Load
  <2>2. load' \in [Loads -> Load]
    BY <1>5, <2>1 DEF ShowRows, LoadFails, ActivityTypeOK
  <2>3. /\ load[c].rows \in Seq(Rows) /\ load[c].next \in Nat /\ load[c].reset \in BOOLEAN
        /\ list \in List /\ list.items \in Seq(Rows) /\ list.clean \in BOOLEAN
    BY DEF ActivityTypeOK, Load, List
  <2>4. CASE ShowRows(c)
    <3> DEFINE items == IF load[c].reset THEN load[c].rows ELSE list.items \o load[c].rows
    <3>1. items \in Seq(Rows)
      BY <2>3
    <3>2. list' = [list EXCEPT !.items = items, !.cursor = load[c].next, !.loading = FALSE]
      BY <2>4 DEF ShowRows
    <3> HIDE DEF items
    <3>3. list' \in List
      BY <2>3, <3>1, <3>2 DEF List
    <3> QED
      BY <2>2, <2>4, <3>3 DEF ShowRows, ActivityTypeOK
  <2>5. CASE LoadFails(c)
    <3> DEFINE clean == list.clean /\ ~load[c].reset
    <3>1. clean \in BOOLEAN
      BY <2>3
    <3>2. list' = [list EXCEPT !.loading = FALSE, !.clean = clean]
      BY <2>5 DEF LoadFails
    <3> HIDE DEF clean
    <3>3. list' \in List
      BY <2>3, <3>1, <3>2 DEF List
    <3> QED
      BY <2>2, <2>5, <3>3 DEF LoadFails, ActivityTypeOK
  <2> QED
    BY <1>5, <2>4, <2>5
<1>6. ASSUME NEW i \in Rows, EmitEvent(i) PROVE Rest
  BY <1>6 DEF EmitEvent, ActivityTypeOK, Live
<1>7. ASSUME Disconnect \/ Reconnect PROVE Rest
  BY <1>7 DEF Disconnect, Reconnect, ActivityTypeOK, Live
<1>8. ASSUME OpenAlerts \/ CloseAlerts \/ Seed \/ SeedFails PROVE Rest
  <2>1. page' \in [shown : BOOLEAN, asks : BOOLEAN]
    <3>1. \/ page' = [shown |-> TRUE, asks |-> TRUE]
          \/ page' = [page EXCEPT !.shown = FALSE] \/ page' = [page EXCEPT !.asks = FALSE]
      BY <1>8 DEF OpenAlerts, CloseAlerts, Seed, SeedFails
    <3>2. page \in [shown : BOOLEAN, asks : BOOLEAN]
      BY DEF ActivityTypeOK
    <3>3. CASE page' = [shown |-> TRUE, asks |-> TRUE]
      BY <3>3
    <3>4. CASE page' = [page EXCEPT !.shown = FALSE]
      BY <3>2, <3>4
    <3>5. CASE page' = [page EXCEPT !.asks = FALSE]
      BY <3>2, <3>5
    <3> QED
      BY <3>1, <3>3, <3>4, <3>5
  <2>2. UNCHANGED <<made, list, load, live>>
    BY <1>8 DEF OpenAlerts, CloseAlerts, Seed, SeedFails
  <2> QED
    BY <2>1, <2>2 DEF ActivityTypeOK
<1>9. ASSUME UNCHANGED activityVars PROVE Rest
  BY <1>9 DEF activityVars, ActivityTypeOK
<1> HIDE DEF Rest
<1> QED
  BY <1>1, <1>2, <1>3, <1>4, <1>5, <1>6, <1>7, <1>8, <1>9 DEF ActivityNext

LEMMA ActivityInitInv ==
  ASSUME ActivityInit PROVE ActivityInv
<1>1. /\ \A c \in Loads : ~UnderWay(c) /\ load[c] \in Load
      /\ <<>> \in Seq(Rows) /\ ~list.clean
  <2>1. <<>> \in Seq(Rows) /\ 0 \in Nat
    OBVIOUS
  <2> QED
    BY <2>1 DEF ActivityInit, Unused, UnderWay, Load
<1>2. ActivityTypeOK
  <2>1. 0 \in Nat /\ 0 \in 0..MaxRows
    BY ActivityAssumption
  <2> QED
    BY <1>1, <2>1 DEF ActivityInit, ActivityTypeOK, List, Live, Alerts
<1>3. AnswersFit /\ OneLoad /\ RowsFit
  BY <1>1 DEF AnswersFit, OneLoad, RowsFit
<1>4. BadgeCountsNews
  <2>1. {i \in Rows : alert[i] = "new"} = {}
    BY DEF ActivityInit
  <2> QED
    BY <2>1, FS_EmptySet DEF ActivityInit, BadgeCountsNews
<1> QED
  BY <1>2, <1>3, <1>4 DEF ActivityInv

\* The invariant holds of the list, its requests and the alerts.
THEOREM ActivityInvariant == ActivitySpec => []ActivityInv
<1>1. ActivityInit => ActivityInv
  BY ActivityInitInv
<1>2. ActivityInv /\ [ActivityNext]_activityVars => ActivityInv'
  BY ListStep, BadgeStep, ActivityTypeStep DEF ActivityInv
<1> QED
  BY <1>1, <1>2, PTL DEF ActivitySpec

\* The list's rows, the requests, the alerts and the badge have their types,
\* and the badge is never more than the number of transactions
\* (pages/Transactions, store/notifications).
THEOREM ActivityTyped == ActivitySpec => []ActivityTypeOK
<1>1. ActivityInv => ActivityTypeOK
  BY DEF ActivityInv
<1> QED
  BY <1>1, ActivityInvariant, PTL

\* A list that was asked for with nothing under way holds rows of its filter
\* only, newest first and none twice, whatever commits between two pages:
\* createdAt before the cursor, and the button disabled while loading
\* (pages/Transactions, load; routes/transactions, GET /).
THEOREM ListIsInOrder == ActivitySpec => []ListInOrder
<1>1. ActivityInv => ListInOrder
  <2> SUFFICES ASSUME ActivityInv, list.clean, ~Busy
               PROVE  /\ \A k \in 1..Len(list.items) : list.filter \in {Every, made[list.items[k]]}
                      /\ \A k \in 2..Len(list.items) : list.items[k] < list.items[k - 1]
    BY DEF ListInOrder
  <2>1. Falling(list.items) /\ OfFilter(list.items, list.filter)
    BY DEF ActivityInv, RowsFit, Busy
  <2>2. Len(list.items) \in Nat
    BY DEF ActivityInv, ActivityTypeOK, List
  <2>3. ASSUME NEW k \in 2..Len(list.items) PROVE list.items[k] < list.items[k - 1]
    <3>1. k \in 1..Len(list.items) /\ k - 1 \in 1..Len(list.items) /\ k - 1 < k
      BY <2>2
    <3> QED
      BY <2>1, <3>1 DEF Falling
  <2> QED
    BY <2>1, <2>3 DEF OfFilter
<1> QED
  BY <1>1, ActivityInvariant, PTL

\* The badge counts the alerts that arrived as events and were not read
\* (store/notifications: push, markAllRead, seed).
THEOREM BadgeCounts == ActivitySpec => []BadgeCountsNews
<1>1. ActivityInv => BadgeCountsNews
  BY DEF ActivityInv
<1> QED
  BY <1>1, ActivityInvariant, PTL
===============================================================================
