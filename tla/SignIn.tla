------------------------------- MODULE SignIn -------------------------------
(***************************************************************************)
(* One portal account: its row in users, its second factor, and what Redis *)
(* keeps of its sessions.  Accounts share nothing here, so one is enough.  *)
(*                                                                         *)
(* Several requests about the account are served at once.  Each reads the  *)
(* row without a lock, and its flush UPDATEs the columns that it changed   *)
(* (Overlay), which locks the row until the transaction ends.  Redis has   *)
(* no transaction: what is written there is seen at once and is not rolled *)
(* back.  A step of a handler ends where another request can come between  *)
(* two of its accesses to shared data; accesses that the row lock keeps    *)
(* together are one step.                                                  *)
(*                                                                         *)
(* Time is what it does to a deadline: a running lock has minutes left, a  *)
(* link works or has expired, and authenticator codes have a window.       *)
(***************************************************************************)
EXTENDS Integers, FiniteSets

CONSTANTS
    Handler,         \* database sessions that serve requests
    None,            \* SQL NULL
    MaxAttempts,     \* settings.LOGIN_MAX_ATTEMPTS
    LockoutMinutes,  \* settings.LOGIN_LOCKOUT_MINUTES
    RecoveryCode,    \* the recovery codes of an enrolment
    EnrolmentDue,    \* MFA_REQUIRED_FOR_ADMINS holds for the account, and
                     \* its MFA_GRACE_DAYS are over
    Challenge,       \* bound: second-factor challenges that can be issued
    MaxPassword,     \* bound: passwords the account ever has
    MaxSession,      \* bound: refresh cookies ever issued
    MaxWindow,       \* bound: the last window of the authenticator
    MaxFails,        \* bound: failures counted, the lock included
    Traffics         \* bound: the kinds of request that occur together

VARIABLES
    account,     \* the row of users, committed
    mfa,         \* the row of mfa_enrollments and its recovery codes
    accepted,    \* how often each code of this enrolment was accepted
    overlapped,  \* two sign-ins that carry a code were once open together
    window,      \* the time window the authenticator shows the code of
    cookies,     \* live entries refresh:<jti> in Redis, each with the
                 \* password its session began with
    issued,      \* refresh cookies issued so far
    tokens,      \* the passwords that the access tokens of the current
                 \* session_version began with; older tokens are refused
    challenge,   \* each challenge: "unused", "open" or "spent", the password
                 \* that earned it, and the logins it has completed
    op,          \* what each handler is doing
    traffic      \* the kinds of request that occur in this behaviour

vars == <<account, mfa, accepted, overlapped, window, cookies, issued,
          tokens, challenge, op, traffic>>
redis == <<cookies, issued, tokens, traffic>>
factor == <<mfa, accepted, overlapped, window>>

Unknown == 0          \* a password nobody was ever told
Password == Unknown .. MaxPassword
Known == Password \ {Unknown}
Code == 1 .. MaxWindow \cup RecoveryCode
Cookie == [id : 1 .. MaxSession, born : Password]

(* "until" is what is left of locked_until: None if NULL, 0 once past;     *)
(* "invited" and "reset" say whether a link of that kind still works.      *)
Row ==
    [status : {"pending_activation", "active", "inactive", "locked"},
     password : Password, fails : 0 .. MaxFails,
     until : 0 .. LockoutMinutes \cup {None},
     invited : BOOLEAN, reset : BOOLEAN]

(* _provision_pending_user: mailed a link, and no password.                *)
Invited ==
    [status |-> "pending_activation", password |-> Unknown, fails |-> 0,
     until |-> None, invited |-> TRUE, reset |-> FALSE]

(* create_team_member: mailed a password.                                  *)
Credentialled ==
    [Invited EXCEPT !.status = "active", !.password = 1, !.invited = FALSE]

Unenrolled == [state |-> "off", last |-> 0, codes |-> {}]

(* A moment after confirm_enrollment, with the code of the first window.   *)
Enrolled == [state |-> "on", last |-> 1, codes |-> RecoveryCode]

Idle == [kind |-> "idle", at |-> "read", seen |-> Invited, new |-> Invited,
         born |-> Unknown, with |-> None, code |-> None]

Kind == {"login", "challenge", "mfa", "fail", "link", "admin", "change",
         "reset", "refresh", "mint", "factor"}

(* A recovery code is drawn from letters: it is no six-digit code.         *)
ASSUME SignInAssumption ==
    /\ {MaxAttempts, LockoutMinutes, MaxSession, MaxFails} \subseteq Nat
    /\ {MaxPassword, MaxWindow} \subseteq Nat \ {0}
    /\ None \notin 0 .. LockoutMinutes
    /\ RecoveryCode \cap 0 .. MaxWindow = {}
    /\ Traffics \subseteq SUBSET Kind

SignInTypeOK ==
    /\ traffic \subseteq Kind
    /\ account \in Row
    /\ mfa \in [state : {"off", "started", "on"}, last : 0 .. MaxWindow,
                codes : SUBSET RecoveryCode]
    /\ accepted \in [Code -> Nat]
    /\ overlapped \in BOOLEAN
    /\ window \in 1 .. MaxWindow
    /\ cookies \subseteq Cookie
    /\ issued \in 0 .. MaxSession
    /\ tokens \subseteq Password
    /\ challenge \in [Challenge -> [state : {"unused", "open", "spent"},
                                    born : Password, logins : Nat]]
    /\ op \in [Handler ->
                [kind : Kind \cup {"idle"},
                 at : {"read", "flushed", "bumped", "revoked"},
                 seen : Row, new : Row, born : Password,
                 with : Challenge \cup Cookie \cup {None},
                 code : Code \cup {None}]]

SignInInit ==
    /\ traffic \in Traffics
    /\ account \in {Invited, Credentialled} \cup
                   {[Credentialled EXCEPT !.reset = TRUE]}
    /\ mfa \in {Unenrolled} \cup (IF "mfa" \in traffic THEN {Enrolled} ELSE {})
    /\ accepted = [c \in Code |-> IF c = mfa.last THEN 1 ELSE 0]
    /\ overlapped = FALSE
    /\ window = 1
    /\ cookies = {}
    /\ issued = 0
    /\ tokens = {}
    /\ challenge = [c \in Challenge |->
                      [state |-> "unused", born |-> Unknown, logins |-> 0]]
    /\ op = [h \in Handler |-> Idle]

-----------------------------------------------------------------------------
(* The row, and the transactions on it. *)

LockRunning(row) == row.status = "locked" /\ row.until \notin {None, 0}

(* Only the columns the session changed are in its UPDATE.                 *)
Overlay(now, seen, new) ==
    [f \in DOMAIN now |-> IF new[f] # seen[f] THEN new[f] ELSE now[f]]

(* A transaction that has flushed an UPDATE holds the row until it ends.   *)
RowFree == \A h \in Handler : op[h].at = "read"

Begin(h, o) ==
    /\ op[h] = Idle /\ o.kind \in traffic
    /\ op' = [op EXCEPT ![h] = o]

BeginRow(h, kind, new) ==
    /\ Begin(h, [Idle EXCEPT !.kind = kind, !.seen = account, !.new = new,
                             !.born = account.password])
    /\ UNCHANGED <<account, factor, redis, challenge>>

End(h) == op' = [op EXCEPT ![h] = Idle]

WriteRow(h) == account' = Overlay(account, op[h].seen, op[h].new)

(* A session: the entry of a new refresh cookie, and an access token that  *)
(* carries the session version as it is now.                               *)
IssueSession(born) ==
    /\ issued < MaxSession
    /\ issued' = issued + 1
    /\ cookies' = cookies \cup {[id |-> issued + 1, born |-> born]}
    /\ tokens' = tokens \cup {born}
    /\ UNCHANGED traffic

(* get_current_user: a token of the current version, an active account.    *)
SignedIn == tokens # {} /\ account.status = "active"

-----------------------------------------------------------------------------
(* login *)

(* record_failed_attempt: a lock that is running is left alone.            *)
Failed(row) ==
    LET fails == row.fails + 1 IN
    IF LockRunning(row) THEN row ELSE
    [row EXCEPT !.fails = fails,
                !.status = IF fails >= MaxAttempts THEN "locked" ELSE @,
                !.until = IF fails >= MaxAttempts THEN LockoutMinutes ELSE @]

(* A wrong password, whatever the state of the account.                    *)
WrongPassword(h) ==
    /\ account.fails < MaxFails
    /\ Failed(account) # account
    /\ BeginRow(h, "fail", Failed(account))

MutantLockTakenOff ==
    IF account.status = "locked"
    THEN [account EXCEPT !.status = "active", !.fails = 0, !.until = None]
    ELSE [account EXCEPT !.until = None]

(* The right password takes off a lock that has run out, and no other.     *)
Admitted ==
    IF account.status = "locked" /\ ~LockRunning(account)
    THEN [account EXCEPT !.status = "active", !.fails = 0, !.until = None]
    ELSE [account EXCEPT !.until = None]

(* With a second factor that earns a challenge only, and the failures are  *)
(* not forgotten yet.                                                      *)
RightPassword(h) ==
    /\ account.password # Unknown
    /\ Admitted.status = "active"
    /\ ~(EnrolmentDue /\ mfa.state # "on")
    /\ IF mfa.state = "on"
       THEN BeginRow(h, "challenge", Admitted)
       ELSE BeginRow(h, "login", [Admitted EXCEPT !.fails = 0])

CommitChallenge(h) ==
    /\ op[h].kind = "challenge"
    /\ RowFree \/ op[h].new = op[h].seen
    /\ WriteRow(h)
    /\ \E c \in Challenge :
          /\ challenge[c].state = "unused"
          /\ challenge' = [challenge EXCEPT ![c].state = "open",
                                            ![c].born = op[h].born]
    /\ End(h)
    /\ UNCHANGED <<factor, redis>>

MutantIssuedBeforeFlush(h) ==
    /\ op[h].kind = "login"
    /\ WriteRow(h)
    /\ IssueSession(op[h].born)
    /\ End(h)
    /\ UNCHANGED <<factor, challenge>>

(* The flush waits for the row and locks it; the session is issued before  *)
(* it is let go, so no change of password comes in between.                *)
CommitLogin(h) ==
    /\ op[h].kind = "login" /\ RowFree
    /\ WriteRow(h)
    /\ IssueSession(op[h].born)
    /\ End(h)
    /\ UNCHANGED <<factor, challenge>>

-----------------------------------------------------------------------------
(* The second factor. *)

InWindow(code) == code \in 1 .. MaxWindow /\ code \in window - 1 .. window + 1

MutantMatchesAgain(code) == InWindow(code) \/ code \in mfa.codes

(* _verify_totp refuses a window at or before the last one accepted;       *)
(* _consume_recovery_code a recovery code that was used.                   *)
Matches(code) ==
    \/ InWindow(code) /\ code > mfa.last
    \/ code \in mfa.codes

CarriesCode(h) == op[h].kind = "mfa"

PresentCode(h, c, code) ==
    /\ challenge[c].state = "open"
    /\ account.status = "active" /\ mfa.state = "on"
    /\ Matches(code)
    /\ Begin(h, [Idle EXCEPT !.kind = "mfa", !.seen = account,
                    !.new = [account EXCEPT !.fails = 0],
                    !.born = challenge[c].born, !.with = c, !.code = code])
    /\ overlapped' = (overlapped \/ \E o \in Handler : CarriesCode(o))
    /\ UNCHANGED <<account, mfa, accepted, window, redis, challenge>>

(* A wrong code, to finish a login or to turn the factor off, counts as a  *)
(* wrong password does.                                                    *)
WrongCode(h) ==
    /\ SignedIn \/ \E c \in Challenge : challenge[c].state = "open"
    /\ account.status = "active" /\ mfa.state = "on"
    /\ account.fails < MaxFails
    /\ BeginRow(h, "fail", Failed(account))

CommitFailure(h) ==
    /\ op[h].kind = "fail" /\ RowFree
    /\ WriteRow(h)
    /\ End(h)
    /\ UNCHANGED <<factor, redis, challenge>>

(* SET NX: of two requests with one challenge only one goes on.            *)
Spend(c) ==
    /\ challenge[c].state = "open"
    /\ challenge' = [challenge EXCEPT ![c].state = "spent", ![c].logins = @ + 1]

MutantRememberNext(code) ==
    /\ mfa' = IF code \in RecoveryCode THEN [mfa EXCEPT !.codes = @ \ {code}]
                                      ELSE [mfa EXCEPT !.last = code + 1]
    /\ accepted' = [accepted EXCEPT ![code] = @ + 1]

(* What was matched is remembered: the window of an authenticator code     *)
(* over whatever was remembered before, or that a recovery code is used.   *)
Remember(code) ==
    /\ mfa' = IF code \in RecoveryCode THEN [mfa EXCEPT !.codes = @ \ {code}]
                                      ELSE [mfa EXCEPT !.last = code]
    /\ accepted' = [accepted EXCEPT ![code] = @ + 1]

CommitMfaLogin(h) ==
    /\ op[h].kind = "mfa" /\ RowFree
    /\ Remember(op[h].code)
    /\ Spend(op[h].with)
    /\ WriteRow(h)
    /\ IssueSession(op[h].born)
    /\ End(h)
    /\ UNCHANGED <<overlapped, window>>

(* The enrolment's row is deleted: a request that is about to update it    *)
(* fails and is rolled back.                                               *)
Unenrol(new) ==
    /\ mfa' = new
    /\ accepted' = [c \in Code |-> 0]
    /\ op' = [h \in Handler |-> IF CarriesCode(h) THEN Idle ELSE op[h]]
    /\ UNCHANGED <<account, overlapped, window, redis, challenge>>

BeginEnrolment ==
    /\ "factor" \in traffic
    /\ SignedIn /\ mfa.state # "on"
    /\ Unenrol([Unenrolled EXCEPT !.state = "started"])

ConfirmEnrolment(code) ==
    /\ SignedIn /\ mfa.state = "started"
    /\ Matches(code)
    /\ mfa' = [state |-> "on", last |-> code, codes |-> RecoveryCode]
    /\ accepted' = [accepted EXCEPT ![code] = @ + 1]
    /\ UNCHANGED <<account, overlapped, window, redis, challenge, op>>

(* disable_own asks for a code once the enrolment is confirmed.            *)
DisableOwn ==
    /\ SignedIn
    /\ \/ mfa.state = "started"
       \/ mfa.state = "on" /\ \E code \in Code : Matches(code)
    /\ Unenrol(Unenrolled)

ResetFactor == "factor" \in traffic /\ mfa.state # "off" /\ Unenrol(Unenrolled)

RegenerateCodes ==
    /\ SignedIn /\ mfa.state = "on"
    /\ mfa' = [mfa EXCEPT !.codes = RecoveryCode]
    /\ accepted' = [c \in Code |->
                      IF c \in RecoveryCode THEN 0 ELSE accepted[c]]
    /\ op' = [h \in Handler |->
                 IF CarriesCode(h) /\ op[h].code \in RecoveryCode
                 THEN Idle ELSE op[h]]
    /\ UNCHANGED <<account, overlapped, window, redis, challenge>>

-----------------------------------------------------------------------------
(* Changing the password. *)

ChangePassword(h, new) ==
    /\ SignedIn /\ account.password # Unknown
    /\ BeginRow(h, "change", [account EXCEPT !.password = new])

ResetPassword(h, new) ==
    /\ account.reset
    /\ BeginRow(h, "reset",
          [account EXCEPT
              !.password = new, !.reset = FALSE, !.fails = 0, !.until = None,
              !.status = IF @ = "locked" THEN "active" ELSE @])

Flush(h) ==
    /\ op[h].kind \in {"change", "reset"} /\ op[h].at = "read" /\ RowFree
    /\ op' = [op EXCEPT ![h].at = "flushed"]
    /\ UNCHANGED <<account, factor, redis, challenge>>

(* bump_session_version: every access token so far is of an older version. *)
BumpVersion(h) ==
    /\ op[h].at = "flushed"
    /\ op' = [op EXCEPT ![h].at = "bumped"]
    /\ tokens' = {}
    /\ UNCHANGED <<account, factor, cookies, issued, challenge, traffic>>

(* revoke_refresh_tokens *)
RevokeTokens(h) ==
    /\ op[h].at = "bumped"
    /\ op' = [op EXCEPT ![h].at = "revoked"]
    /\ cookies' = {}
    /\ UNCHANGED <<account, factor, issued, tokens, challenge, traffic>>

(* Whoever changed the password keeps a session, a new one; whoever reset  *)
(* it has to sign in.                                                      *)
CommitPassword(h) ==
    /\ op[h].at = "revoked"
    /\ WriteRow(h)
    /\ IF op[h].kind = "change" THEN IssueSession(op[h].new.password)
                                ELSE UNCHANGED redis
    /\ End(h)
    /\ UNCHANGED <<factor, challenge>>

-----------------------------------------------------------------------------
(* Sessions. *)

ReadRefresh(h, c) ==
    /\ c \in cookies
    /\ Begin(h, [Idle EXCEPT !.kind = "refresh", !.with = c])
    /\ UNCHANGED <<account, factor, redis, challenge>>

(* An account that is no longer active loses the cookie.                   *)
CheckRefresh(h) ==
    /\ op[h].kind = "refresh"
    /\ IF account.status = "active"
       THEN op' = [op EXCEPT ![h].kind = "mint"] /\ UNCHANGED cookies
       ELSE End(h) /\ cookies' = cookies \ {op[h].with}
    /\ UNCHANGED <<account, factor, issued, tokens, challenge, traffic>>

(* The token carries the session version as it is by now, whatever has     *)
(* become of the cookie and of the account since they were looked at.      *)
MintToken(h) ==
    /\ op[h].kind = "mint"
    /\ tokens' = tokens \cup {op[h].with.born}
    /\ End(h)
    /\ UNCHANGED <<account, factor, cookies, issued, challenge, traffic>>

(* The token presented is blacklisted; others may be in use.               *)
Logout(c) ==
    /\ "refresh" \in traffic
    /\ c \in cookies
    /\ cookies' = cookies \ {c}
    /\ \E left \in {tokens, tokens \ {c.born}} : tokens' = left
    /\ UNCHANGED <<account, factor, issued, challenge, op, traffic>>

-----------------------------------------------------------------------------
(* Links and administrators: requests that only write the row. *)

ForgotPassword(h) ==
    /\ ~account.reset
    /\ BeginRow(h, "link", [account EXCEPT !.reset = TRUE])

Activate(h, new) ==
    /\ account.invited /\ account.status = "pending_activation"
    /\ BeginRow(h, "link", [account EXCEPT !.password = new,
                               !.invited = FALSE, !.status = "active"])

Deactivate(h) ==
    /\ account.status # "inactive"
    /\ BeginRow(h, "admin", [account EXCEPT !.status = "inactive"])

(* Of a locked account this is the unlock.  A pending one is refused.      *)
Reactivate(h) ==
    /\ account.status \notin {"pending_activation", "active"}
    /\ BeginRow(h, "admin", [account EXCEPT !.status = "active",
                                !.fails = 0, !.until = None])

CommitRow(h) ==
    /\ op[h].kind \in {"link", "admin"} /\ RowFree
    /\ WriteRow(h)
    /\ End(h)
    /\ UNCHANGED <<factor, redis, challenge>>

(* Nothing of it is left in the database; in Redis it stays.               *)
Rollback(h) ==
    /\ op[h] # Idle
    /\ End(h)
    /\ UNCHANGED <<account, factor, redis, challenge>>

-----------------------------------------------------------------------------
(* Time, as far as a request of this behaviour can tell it has passed. *)

LockMinute ==
    /\ account.until \in 1 .. LockoutMinutes
    /\ account' = [account EXCEPT !.until = @ - 1]
    /\ UNCHANGED <<factor, redis, challenge, op>>

WindowPasses ==
    /\ "mfa" \in traffic /\ window < MaxWindow
    /\ window' = window + 1
    /\ UNCHANGED <<account, mfa, accepted, overlapped, redis, challenge, op>>

LinkExpires ==
    /\ "link" \in traffic
    /\ \/ account.invited /\ account' = [account EXCEPT !.invited = FALSE]
       \/ account.reset /\ account' = [account EXCEPT !.reset = FALSE]
    /\ UNCHANGED <<factor, redis, challenge, op>>

TokensExpire ==
    /\ "refresh" \in traffic /\ tokens # {}
    /\ tokens' = {}
    /\ UNCHANGED <<account, factor, cookies, issued, challenge, op,
                   traffic>>

-----------------------------------------------------------------------------

Request(h) ==
    \/ WrongPassword(h) \/ RightPassword(h) \/ WrongCode(h)
    \/ ForgotPassword(h) \/ Deactivate(h) \/ Reactivate(h)
    \/ \E c \in Challenge, code \in Code : PresentCode(h, c, code)
    \/ \E new \in Known : \/ ChangePassword(h, new) \/ ResetPassword(h, new)
                          \/ Activate(h, new)
    \/ \E c \in Cookie : ReadRefresh(h, c)

Proceed(h) ==
    \/ CommitChallenge(h) \/ CommitLogin(h) \/ CommitFailure(h)
    \/ CommitMfaLogin(h) \/ CommitRow(h) \/ CommitPassword(h)
    \/ Flush(h) \/ BumpVersion(h) \/ RevokeTokens(h)
    \/ CheckRefresh(h) \/ MintToken(h) \/ Rollback(h)

SignInNext ==
    \/ \E h \in Handler : Request(h) \/ Proceed(h)
    \/ \E c \in Cookie : Logout(c)
    \/ BeginEnrolment \/ DisableOwn \/ ResetFactor \/ RegenerateCodes
    \/ \E code \in Code : ConfirmEnrolment(code)
    \/ LockMinute \/ WindowPasses \/ LinkExpires \/ TokensExpire

SignInSpec == SignInInit /\ [][SignInNext]_vars

-----------------------------------------------------------------------------

(* change_password and reset_password: "Every other session is signed      *)
(* out."  When one commits, no refresh cookie is left but the one it       *)
(* issued.  (An access token that a refresh mints after the bump does not  *)
(* count: it lasts for minutes and renews nothing.)  It is the row lock, taken before the scan of Redis, that keeps *)
(* a sign-in with the old password from storing one behind it.             *)
ChangeStrandsSessions ==
    [][\A h \in Handler :
         CommitPassword(h) => cookies' = {c \in cookies' : c.id > issued}]_vars

ChallengeOnce == \A c \in Challenge : challenge[c].logins <= 1
CodeOnce == \A c \in Code : accepted[c] <= 1

(* spend_mfa_challenge: "two requests racing with the same challenge       *)
(* cannot both win", nor is it good for a second login later.              *)
(* mfa_service: "A code is accepted once".  So it is while sign-ins that   *)
(* carry one do not overlap, whatever order the codes come in; two that do *)
(* overlap each compare with a counter the other has not moved yet.        *)
UsedOnce == ChallengeOnce /\ (overlapped \/ CodeOnce)

(* record_failed_attempt and login: a lock that is running is neither cut  *)
(* short nor "extended" by signing in, right or wrong.  Time, a reset or   *)
(* an administrator ends it, or a request that read the row before the     *)
(* lock was there.                                                         *)
RunningLockStands ==
    [][LockRunning(account) =>
         \/ /\ account'.status = "locked"
            /\ account'.until \in {account.until, account.until - 1}
         \/ \E h \in Handler :
               /\ op[h] # Idle /\ op'[h] = Idle
               /\ \/ op[h].kind \in {"reset", "admin"}
                  \/ ~LockRunning(op[h].seen)]_vars

-----------------------------------------------------------------------------
(* What the code says and does not keep (run no_password). *)

(* reactivate_partner: an account that is active has a password somebody   *)
(* knows, "an active account with a placeholder password nobody knows" is  *)
(* what its check is for.                                                  *)
ActiveHasPassword == account.status = "active" => account.password # Unknown
=============================================================================
