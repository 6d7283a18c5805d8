------------------------------- MODULE Access -------------------------------
(***************************************************************************)
(* The users row as its handlers read it and write it back: POST /login    *)
(* with its failure counter and lock, the second factor with its enrolment *)
(* and verification (apps/core-banking-api: routes/auth.js), the unlocking *)
(* by an administrator (apps/admin-api: routes/users.js), and the pages    *)
(* Login, OpsLogin and MfaVerify that send the requests.  One user.        *)
(***************************************************************************)
EXTENDS Naturals

CONSTANTS
    Pages,          \* browser pages that sign in
    Verifiers,      \* POST /mfa/verify requests
    LockThreshold,  \* ACCOUNT_LOCK_THRESHOLD
    MaxBad,         \* bound: wrong passwords tried
    MaxSecrets      \* bound: enrolments

ASSUME AccessAssumption ==
    LockThreshold \in Nat \ {0} /\ MaxBad \in Nat /\ MaxSecrets \in Nat

VARIABLES
    row,      \* users: failed_login_count, locked_until, mfa_enabled, mfa_secret_encrypted
    login,    \* the page and its login request
    verify,   \* the secret a verification has read, 0 before
    seen      \* observed only: wrong passwords, the secret last proven, overtaken proofs

accessVars == <<row, login, verify, seen>>
-----------------------------------------------------------------------------
(* shows: the form; code: it sent one; failed, mfa: as the handler read.   *)
Login == [shows : {"login", "verify", "app"}, step : {"idle", "sent", "read"},
          code : BOOLEAN, failed : 0..MaxBad, mfa : BOOLEAN]

AccessTypeOK ==
    /\ row \in [failed : 0..MaxBad, locked : BOOLEAN, mfa : BOOLEAN, secret : 0..MaxSecrets]
    /\ login \in [Pages -> Login]
    /\ verify \in [Verifiers -> 0..MaxSecrets]
    /\ seen \in [bad : 0..MaxBad, proven : 0..MaxSecrets, overtaken : BOOLEAN]

LoginPage == [shows |-> "login", step |-> "idle", code |-> FALSE, failed |-> 0, mfa |-> FALSE]

AccessInit ==
    /\ row = [failed |-> 0, locked |-> FALSE, mfa |-> FALSE, secret |-> 0]
    /\ login = [p \in Pages |-> LoginPage]
    /\ verify = [v \in Verifiers |-> 0]
    /\ seen = [bad |-> 0, proven |-> 0, overtaken |-> FALSE]
-----------------------------------------------------------------------------
(* The page after an answer: an error on the same form, or another page.   *)
Answer(p, page) ==
    login' = [login EXCEPT ![p] = [LoginPage EXCEPT !.shows = page]]

(* Login and OpsLogin send no code, MfaVerify always sends one.            *)
SubmitLogin(p) ==
    /\ login[p].shows \in {"login", "verify"} /\ login[p].step = "idle"
    /\ login' = [login EXCEPT ![p] = [@ EXCEPT !.step = "sent",
                                               !.code = login[p].shows = "verify"]]
    /\ UNCHANGED <<row, verify, seen>>

LeaveVerify(p) ==
    /\ login[p].shows = "verify" /\ login[p].step = "idle"
    /\ Answer(p, "login")
    /\ UNCHANGED <<row, verify, seen>>

(* SELECT of the users row; a locked one is refused at once.               *)
ReadUser(p) ==
    /\ login[p].step = "sent"
    /\ IF row.locked THEN Answer(p, login[p].shows)
       ELSE login' = [login EXCEPT ![p] = [@ EXCEPT !.step = "read", !.failed = row.failed,
                                                    !.mfa = row.mfa]]
    /\ UNCHANGED <<row, verify, seen>>

(* A wrong password writes back the count that was read, plus one.         *)
WrongPassword(p) ==
    LET failures == login[p].failed + 1 IN
    /\ login[p].step = "read" /\ seen.bad < MaxBad
    /\ row' = [row EXCEPT !.failed = failures, !.locked = @ \/ failures >= LockThreshold]
    /\ seen' = [seen EXCEPT !.bad = @ + 1]
    /\ Answer(p, login[p].shows)
    /\ UNCHANGED verify

(* A variant of CodeRequired that counts a missing code as a failure.      *)
CodeCounted(p) ==
    /\ login[p].step = "read" /\ login[p].mfa
    /\ row' = [row EXCEPT !.failed = login[p].failed + 1]
    /\ Answer(p, "verify")
    /\ UNCHANGED <<verify, seen>>

(* Right password, but a code is asked for, or the code is wrong.  Neither *)
(* touches the counter.                                                    *)
CodeRequired(p) ==
    /\ login[p].step = "read" /\ login[p].mfa
    /\ Answer(p, "verify")
    /\ UNCHANGED <<row, verify, seen>>

(* Right password, and right code where one is needed; module Sessions     *)
(* goes on from here.                                                      *)
SignIn(p) ==
    /\ login[p].step = "read" /\ (login[p].mfa => login[p].code)
    /\ row' = [row EXCEPT !.failed = 0, !.locked = FALSE]
    /\ Answer(p, "app")
    /\ UNCHANGED <<verify, seen>>

(* The server stops, or a rate limiter answers 429.                        *)
LoginCut(p) ==
    /\ login[p].step # "idle"
    /\ Answer(p, login[p].shows)
    /\ UNCHANGED <<row, verify, seen>>

SignOut(p) ==
    /\ login[p].shows = "app"
    /\ Answer(p, "login")
    /\ UNCHANGED <<row, verify, seen>>
-----------------------------------------------------------------------------
SignedIn == \E p \in Pages : login[p].shows = "app"

(* A variant of Enroll that leaves the factor on.                          *)
EnrollKeepingFactor ==
    /\ SignedIn /\ row.secret < MaxSecrets
    /\ row' = [row EXCEPT !.secret = @ + 1]
    /\ seen' = [seen EXCEPT !.overtaken = @ \/ \E v \in Verifiers : verify[v] # 0]
    /\ UNCHANGED <<login, verify>>

(* POST /mfa/enroll: a new secret, and the factor is off until proven.     *)
Enroll ==
    /\ SignedIn /\ row.secret < MaxSecrets
    /\ row' = [row EXCEPT !.secret = @ + 1, !.mfa = FALSE]
    /\ seen' = [seen EXCEPT !.overtaken = @ \/ \E v \in Verifiers : verify[v] # 0]
    /\ UNCHANGED <<login, verify>>

(* POST /mfa/verify: the secret is read and the code checked against it,   *)
VerifyCode(v) ==
    /\ SignedIn /\ verify[v] = 0 /\ row.secret # 0
    /\ verify' = [verify EXCEPT ![v] = row.secret]
    /\ UNCHANGED <<row, login, seen>>

(* and then an UPDATE switches the factor on.                              *)
EnableFactor(v) ==
    /\ verify[v] # 0
    /\ row' = [row EXCEPT !.mfa = TRUE]
    /\ seen' = [seen EXCEPT !.proven = verify[v]]
    /\ verify' = [verify EXCEPT ![v] = 0]
    /\ UNCHANGED login

VerifyCut(v) ==
    /\ verify[v] # 0
    /\ verify' = [verify EXCEPT ![v] = 0]
    /\ UNCHANGED <<row, login, seen>>
-----------------------------------------------------------------------------
(* POST /users/:id/unfreeze and create-admin.js reset the lock.            *)
Unlock ==
    /\ row' = [row EXCEPT !.failed = 0, !.locked = FALSE]
    /\ UNCHANGED <<login, verify, seen>>

(* ACCOUNT_LOCK_MINUTES have passed; the count stays.                      *)
LockEnds ==
    /\ row.locked
    /\ row' = [row EXCEPT !.locked = FALSE]
    /\ UNCHANGED <<login, verify, seen>>
-----------------------------------------------------------------------------
AccessNext ==
    \/ \E p \in Pages :
         \/ SubmitLogin(p) \/ LeaveVerify(p) \/ ReadUser(p) \/ WrongPassword(p)
         \/ CodeRequired(p) \/ SignIn(p) \/ LoginCut(p) \/ SignOut(p)
    \/ \E v \in Verifiers : VerifyCode(v) \/ EnableFactor(v) \/ VerifyCut(v)
    \/ Enroll \/ Unlock \/ LockEnds

AccessSpec == AccessInit /\ [][AccessNext]_accessVars
-----------------------------------------------------------------------------
(* A user is locked only after LockThreshold wrong passwords, although the *)
(* attempts that overlap write back counts that others have changed since. *)
LockNeedsFailures ==
    /\ row.failed <= seen.bad
    /\ row.locked => seen.bad >= LockThreshold

(* A second factor that is on has been proven with a code for the secret   *)
(* that is stored, unless an enrolment came between the check of a code    *)
(* and the update that follows it.                                         *)
EnabledFactorIsProven ==
    row.mfa /\ ~seen.overtaken => seen.proven = row.secret
=============================================================================
