---------------------------- MODULE SignInProofs ----------------------------
(***************************************************************************)
(* Theorems about SignIn, for any number of handlers, passwords, windows,  *)
(* cookies, challenges and recovery codes.                                 *)
(*                                                                         *)
(* The argument has three parts.  The row lock admits one request that     *)
(* has flushed a new password, and from its scan of Redis to its commit    *)
(* no cookie is stored.  A challenge goes from "open" to "spent" once.     *)
(* While no two sign-ins that carry a code were open together, the code    *)
(* that a request matched is still good when it commits, and a code that   *)
(* was accepted is good no more.                                           *)
(***************************************************************************)
EXTENDS SignIn, TLAPS

Op ==
    [kind : Kind \cup {"idle"}, at : {"read", "flushed", "bumped", "revoked"},
     seen : Row, new : Row, born : Password,
     with : Challenge \cup Cookie \cup {None}, code : Code \cup {None}]

(* What a request holds by its kind, and how far it can have got.  One     *)
(* that read a running lock, and is not a reset or an administrator's,     *)
(* changes neither the status nor the deadline.                            *)
Fits(o) ==
    /\ o.kind = "mfa" => o.with \in Challenge /\ o.code \in Code
    /\ o.kind \in {"refresh", "mint"} => o.with \in Cookie
    /\ o.at # "read" => o.kind \in {"change", "reset"}
    /\ o.kind \notin {"reset", "admin"} /\ LockRunning(o.seen) =>
          o.new.status = o.seen.status /\ o.new.until = o.seen.until

Requests == \A h \in Handler : Fits(op[h])

(* One request at a time has flushed and holds the row; once it has looked *)
(* for the cookies to delete there are none.                               *)
RowLock ==
    /\ \A g, h \in Handler : op[g].at # "read" /\ op[h].at # "read" => g = h
    /\ \A h \in Handler : op[h].at = "revoked" => cookies = {}

(* A challenge completes a login when it is spent, and never again.        *)
ChallengesCounted ==
    \A c \in Challenge :
        challenge[c].logins = IF challenge[c].state = "spent" THEN 1 ELSE 0

(* Without a confirmed enrolment nothing was accepted under it, and nobody *)
(* is about to present a code.                                             *)
OnlyEnrolledAccepts ==
    mfa.state # "on" =>
        /\ mfa.last = 0 /\ mfa.codes = {}
        /\ \A c \in Code : accepted[c] = 0
        /\ \A h \in Handler : ~CarriesCode(h)

StillGood(code) ==
    IF code \in RecoveryCode THEN code \in mfa.codes ELSE code > mfa.last

(* While no two requests with a code were open together: there is one at   *)
(* most, its code is as good as when it was matched, and a code that was   *)
(* accepted is good no more.                                               *)
OneCodeAtATime ==
    overlapped \/
        /\ \A g, h \in Handler : CarriesCode(g) /\ CarriesCode(h) => g = h
        /\ \A h \in Handler : CarriesCode(h) => StillGood(op[h].code)
        /\ \A c \in Code :
              accepted[c] = 0 \/ (accepted[c] = 1 /\ ~StillGood(c))

IInv ==
    /\ SignInTypeOK
    /\ Requests
    /\ RowLock
    /\ ChallengesCounted
    /\ OnlyEnrolledAccepts
    /\ OneCodeAtATime

-----------------------------------------------------------------------------
(* The row and the requests on it. *)

LEMMA Bounds ==
    /\ MaxAttempts \in Nat /\ LockoutMinutes \in Nat /\ MaxSession \in Nat
    /\ MaxFails \in Nat /\ MaxPassword \in Nat \ {0} /\ MaxWindow \in Nat \ {0}
  <1>1. {MaxAttempts, LockoutMinutes, MaxSession, MaxFails} \subseteq Nat
    BY SignInAssumption
  <1>2. {MaxPassword, MaxWindow} \subseteq Nat \ {0}
    BY SignInAssumption
  <1> QED
    BY <1>1, <1>2

(* No authenticator code is a recovery code.                               *)
LEMMA CodesApart ==
    /\ 1 .. MaxWindow \subseteq 0 .. MaxWindow
    /\ \A code \in 0 .. MaxWindow : code \notin RecoveryCode
  BY SignInAssumption, Bounds

LEMMA OverlayRow ==
    ASSUME NEW now \in Row, NEW seen \in Row, NEW new \in Row
    PROVE  LET row == Overlay(now, seen, new)
           IN  /\ row \in Row
               /\ row.status =
                     IF new.status # seen.status THEN new.status ELSE now.status
               /\ row.until =
                     IF new.until # seen.until THEN new.until ELSE now.until
  BY DEF Overlay, Row

LEMMA InvitedRow == Invited \in Row /\ Credentialled \in Row /\ ~LockRunning(Invited)
  <1>1. /\ 0 \in 0 .. MaxFails /\ Unknown \in Password /\ 1 \in Password
        /\ None \in 0 .. LockoutMinutes \cup {None}
    BY Bounds DEF Password, Unknown
  <1> QED
    BY <1>1 DEF Invited, Credentialled, Row, LockRunning

LEMMA IdleFits ==
    Idle \in Op /\ Fits(Idle) /\ Idle.kind = "idle" /\ Idle.at = "read"
  <1>1. Unknown \in Password
    BY Bounds DEF Password, Unknown
  <1> QED
    BY <1>1, InvitedRow DEF Idle, Op, Fits

(* A failure leaves a running lock alone, and counts one more otherwise.   *)
LEMMA FailedRow ==
    ASSUME NEW row \in Row, row.fails < MaxFails
    PROVE  /\ Failed(row) \in Row
           /\ LockRunning(row) => Failed(row) = row
  <1>1. CASE LockRunning(row)
    BY <1>1 DEF Failed
  <1>2. CASE ~LockRunning(row)
    <2>1. row.fails + 1 \in 0 .. MaxFails /\ LockoutMinutes \in 0 .. LockoutMinutes
      BY Bounds DEF Row
    <2> QED
      BY <1>2, <2>1 DEF Failed, Row
  <1> QED
    BY <1>1, <1>2

LEMMA AdmittedRow ==
    ASSUME account \in Row
    PROVE  /\ Admitted \in Row /\ [Admitted EXCEPT !.fails = 0] \in Row
           /\ LockRunning(account) => Admitted.status = "locked"
           /\ [Admitted EXCEPT !.fails = 0].status = Admitted.status
  <1>1. 0 \in 0 .. MaxFails
    BY Bounds
  <1> QED
    BY <1>1 DEF Admitted, Row, LockRunning

-----------------------------------------------------------------------------
(* Steps of one request. *)

(* A request that begins, ends or loses its place keeps every request in   *)
(* order and takes no lock, and it carries no code.                        *)
LEMMA RequestMoves ==
    ASSUME IInv, NEW h \in Handler, NEW o \in Op, Fits(o), o.at = "read",
           op' = [op EXCEPT ![h] = o]
    PROVE  /\ op' \in [Handler -> Op] /\ Requests'
           /\ \A f, g \in Handler : op'[f].at # "read" /\ op'[g].at # "read" => f = g
           /\ \A g \in Handler : op'[g].at # "read" => op'[g] = op[g] /\ g # h
           /\ \A g \in Handler \ {h} : op'[g] = op[g]
           /\ op'[h] = o
  <1>1. op \in [Handler -> Op]
    BY DEF IInv, SignInTypeOK, Op
  <1> QED
    BY <1>1 DEF IInv, Requests, RowLock

(* The second factor does not notice what a request without a code does.   *)
LEMMA FactorUnmoved ==
    ASSUME IInv, UNCHANGED <<mfa, accepted, overlapped>>,
           \A g \in Handler : op'[g].kind = "mfa" => op'[g] = op[g]
    PROVE  OnlyEnrolledAccepts' /\ OneCodeAtATime'
  BY DEF IInv, OnlyEnrolledAccepts, OneCodeAtATime, CarriesCode, StillGood

LEMMA BeginRowStep ==
    ASSUME IInv, NEW h \in Handler, NEW kind \in Kind \ {"mfa", "refresh", "mint"},
           NEW new \in Row, BeginRow(h, kind, new),
           kind \notin {"reset", "admin"} /\ LockRunning(account) =>
               new.status = account.status /\ new.until = account.until
    PROVE  IInv'
  <1> DEFINE o == [Idle EXCEPT !.kind = kind, !.seen = account, !.new = new,
                               !.born = account.password]
  <1>1. op' = [op EXCEPT ![h] = o] /\ UNCHANGED <<account, factor, redis, challenge>>
    BY DEF BeginRow, Begin
  <1>2. account \in Row /\ account.password \in Password
    BY DEF IInv, SignInTypeOK, Row
  <1>3. o \in Op /\ Fits(o) /\ o.at = "read" /\ o.kind = kind
    BY <1>2, IdleFits DEF Idle, Op, Fits
  <1> HIDE DEF o
  <1>4. /\ op' \in [Handler -> Op] /\ Requests'
        /\ \A f, g \in Handler : op'[f].at # "read" /\ op'[g].at # "read" => f = g
        /\ \A g \in Handler : op'[g].at # "read" => op'[g] = op[g]
        /\ \A g \in Handler \ {h} : op'[g] = op[g]
        /\ op'[h] = o
    BY <1>1, <1>3, RequestMoves
  <1>5. SignInTypeOK'
    BY <1>1, <1>4 DEF IInv, SignInTypeOK, Op, factor, redis
  <1>6. RowLock' /\ ChallengesCounted'
    BY <1>1, <1>4 DEF IInv, RowLock, ChallengesCounted, redis
  <1>7. OnlyEnrolledAccepts' /\ OneCodeAtATime'
    BY <1>1, <1>3, <1>4, FactorUnmoved DEF factor
  <1> QED
    BY <1>4, <1>5, <1>6, <1>7 DEF IInv

LEMMA RequestStep ==
    ASSUME IInv, NEW h \in Handler, Request(h) PROVE IInv'
  <1>0. account \in Row /\ account.password \in Password
    BY DEF IInv, SignInTypeOK, Row
  <1>1. CASE WrongPassword(h)
    <2>1. account.fails < MaxFails /\ BeginRow(h, "fail", Failed(account))
      BY <1>1 DEF WrongPassword
    <2> QED
      BY <1>0, <2>1, FailedRow, BeginRowStep DEF Kind
  <1>2. CASE RightPassword(h)
    <2>1. /\ ~LockRunning(account)
          /\ \/ BeginRow(h, "challenge", Admitted)
             \/ BeginRow(h, "login", [Admitted EXCEPT !.fails = 0])
      BY <1>0, <1>2, AdmittedRow DEF RightPassword
    <2> QED
      BY <1>0, <2>1, AdmittedRow, BeginRowStep DEF Kind
  <1>3. CASE WrongCode(h)
    <2>1. account.fails < MaxFails /\ BeginRow(h, "fail", Failed(account))
      BY <1>3 DEF WrongCode
    <2> QED
      BY <1>0, <2>1, FailedRow, BeginRowStep DEF Kind
  <1>4. CASE ForgotPassword(h)
    <2> DEFINE new == [account EXCEPT !.reset = TRUE]
    <2>1. new \in Row /\ new.status = account.status /\ new.until = account.until
      BY <1>0 DEF Row
    <2>2. BeginRow(h, "link", new)
      BY <1>4 DEF ForgotPassword
    <2> HIDE DEF new
    <2> QED
      BY <2>1, <2>2, BeginRowStep DEF Kind
  <1>5. CASE Deactivate(h)
    <2> DEFINE new == [account EXCEPT !.status = "inactive"]
    <2>1. new \in Row
      BY <1>0 DEF Row
    <2>2. BeginRow(h, "admin", new)
      BY <1>5 DEF Deactivate
    <2> HIDE DEF new
    <2> QED
      BY <2>1, <2>2, BeginRowStep DEF Kind
  <1>6. CASE Reactivate(h)
    <2> DEFINE new == [account EXCEPT !.status = "active", !.fails = 0, !.until = None]
    <2>1. new \in Row
      <3>1. 0 \in 0 .. MaxFails
        BY Bounds
      <3> QED
        BY <1>0, <3>1 DEF Row
    <2>2. BeginRow(h, "admin", new)
      BY <1>6 DEF Reactivate
    <2> HIDE DEF new
    <2> QED
      BY <2>1, <2>2, BeginRowStep DEF Kind
  <1>7. ASSUME NEW c \in Challenge, NEW code \in Code, PresentCode(h, c, code)
        PROVE  IInv'
    <2> DEFINE new == [account EXCEPT !.fails = 0]
               o == [Idle EXCEPT !.kind = "mfa", !.seen = account, !.new = new,
                        !.born = challenge[c].born, !.with = c, !.code = code]
    <2>1. /\ op' = [op EXCEPT ![h] = o]
          /\ overlapped' = (overlapped \/ \E g \in Handler : CarriesCode(g))
          /\ UNCHANGED <<account, mfa, accepted, window, redis, challenge>>
          /\ Matches(code) /\ mfa.state = "on" /\ account.status = "active"
      BY <1>7 DEF PresentCode, Begin
    <2>2. new \in Row
      <3>1. 0 \in 0 .. MaxFails
        BY Bounds
      <3> QED
        BY <1>0, <3>1 DEF Row
    <2>3. challenge[c].born \in Password
      BY DEF IInv, SignInTypeOK
    <2>4. ~LockRunning(account)
      BY <2>1 DEF LockRunning
    <2> HIDE DEF new
    <2>5. /\ o \in Op /\ Fits(o) /\ o.at = "read" /\ o.kind = "mfa" /\ o.code = code
      BY <1>0, <2>2, <2>3, <2>4, IdleFits DEF Idle, Op, Fits, Kind
    <2> HIDE DEF o
    <2>6. /\ op' \in [Handler -> Op] /\ Requests'
          /\ \A f, g \in Handler : op'[f].at # "read" /\ op'[g].at # "read" => f = g
          /\ \A g \in Handler : op'[g].at # "read" => op'[g] = op[g]
          /\ \A g \in Handler \ {h} : op'[g] = op[g]
          /\ op'[h] = o
      BY <2>1, <2>5, RequestMoves
    <2>7. SignInTypeOK'
      <3>1. overlapped' \in BOOLEAN
        BY <2>1
      <3> QED
        BY <2>1, <2>6, <3>1 DEF IInv, SignInTypeOK, Op, redis
    <2>8. RowLock' /\ ChallengesCounted' /\ OnlyEnrolledAccepts'
      BY <2>1, <2>6 DEF IInv, RowLock, ChallengesCounted, OnlyEnrolledAccepts, redis
    <2>9. OneCodeAtATime'
      <3>1. CASE overlapped'
        BY <3>1 DEF OneCodeAtATime
      <3>2. CASE ~overlapped'
        <4>1. ~overlapped /\ \A g \in Handler : ~CarriesCode(g)
          BY <2>1, <3>2
        <4>2. \A g \in Handler : op'[g].kind = "mfa" => g = h
          BY <2>6, <4>1 DEF CarriesCode
        <4>3. StillGood(code)
          <5>1. CASE code \in RecoveryCode
            <6>1. code \notin 1 .. MaxWindow
              BY <5>1, CodesApart
            <6> QED
              BY <2>1, <5>1, <6>1 DEF Matches, InWindow, StillGood
          <5>2. CASE code \notin RecoveryCode
            <6>1. code \notin mfa.codes
              BY <5>2 DEF IInv, SignInTypeOK
            <6> QED
              BY <2>1, <5>2, <6>1 DEF Matches, StillGood
          <5> QED
            BY <5>1, <5>2
        <4> QED
          BY <2>1, <2>5, <2>6, <4>1, <4>2, <4>3
          DEF IInv, OneCodeAtATime, CarriesCode, StillGood
      <3> QED
        BY <3>1, <3>2
    <2> QED
      BY <2>6, <2>7, <2>8, <2>9 DEF IInv
  <1>8. ASSUME NEW new \in Known,
               ChangePassword(h, new) \/ ResetPassword(h, new) \/ Activate(h, new)
        PROVE  IInv'
    <2>0. new \in Password
      BY DEF Known
    <2>1. CASE ChangePassword(h, new)
      <3> DEFINE row == [account EXCEPT !.password = new]
      <3>1. row \in Row /\ ~LockRunning(account)
        BY <1>0, <2>0, <2>1 DEF Row, ChangePassword, SignedIn, LockRunning
      <3>2. BeginRow(h, "change", row)
        BY <2>1 DEF ChangePassword
      <3> HIDE DEF row
      <3> QED
        BY <3>1, <3>2, BeginRowStep DEF Kind
    <2>2. CASE ResetPassword(h, new)
      <3> DEFINE row == [account EXCEPT
              !.password = new, !.reset = FALSE, !.fails = 0, !.until = None,
              !.status = IF @ = "locked" THEN "active" ELSE @]
      <3>1. row \in Row
        <4>1. 0 \in 0 .. MaxFails
          BY Bounds
        <4> QED
          BY <1>0, <2>0, <4>1 DEF Row
      <3>2. BeginRow(h, "reset", row)
        BY <2>2 DEF ResetPassword
      <3> HIDE DEF row
      <3> QED
        BY <3>1, <3>2, BeginRowStep DEF Kind
    <2>3. CASE Activate(h, new)
      <3> DEFINE row == [account EXCEPT !.password = new,
                               !.invited = FALSE, !.status = "active"]
      <3>1. row \in Row /\ ~LockRunning(account)
        BY <1>0, <2>0, <2>3 DEF Row, Activate, LockRunning
      <3>2. BeginRow(h, "link", row)
        BY <2>3 DEF Activate
      <3> HIDE DEF row
      <3> QED
        BY <3>1, <3>2, BeginRowStep DEF Kind
    <2> QED
      BY <1>8, <2>1, <2>2, <2>3
  <1>9. ASSUME NEW c \in Cookie, ReadRefresh(h, c) PROVE IInv'
    <2> DEFINE o == [Idle EXCEPT !.kind = "refresh", !.with = c]
    <2>1. op' = [op EXCEPT ![h] = o] /\ UNCHANGED <<account, factor, redis, challenge>>
      BY <1>9 DEF ReadRefresh, Begin
    <2>2. o \in Op /\ Fits(o) /\ o.at = "read" /\ o.kind = "refresh"
      BY IdleFits, InvitedRow DEF Idle, Op, Fits, Kind
    <2> HIDE DEF o
    <2>3. /\ op' \in [Handler -> Op] /\ Requests'
          /\ \A f, g \in Handler : op'[f].at # "read" /\ op'[g].at # "read" => f = g
          /\ \A g \in Handler : op'[g].at # "read" => op'[g] = op[g]
          /\ \A g \in Handler \ {h} : op'[g] = op[g]
          /\ op'[h] = o
      BY <2>1, <2>2, RequestMoves
    <2>4. SignInTypeOK'
      BY <2>1, <2>3 DEF IInv, SignInTypeOK, Op, factor, redis
    <2>5. RowLock' /\ ChallengesCounted'
      BY <2>1, <2>3 DEF IInv, RowLock, ChallengesCounted, redis
    <2>6. OnlyEnrolledAccepts' /\ OneCodeAtATime'
      BY <2>1, <2>2, <2>3, FactorUnmoved DEF factor
    <2> QED
      BY <2>3, <2>4, <2>5, <2>6 DEF IInv
  <1> QED
    BY <1>1, <1>2, <1>3, <1>4, <1>5, <1>6, <1>7, <1>8, <1>9 DEF Request

(* A request that ends leaves the requests that are left as they were.     *)
LEMMA RequestEnds ==
    ASSUME IInv, NEW h \in Handler, End(h)
    PROVE  /\ op' \in [Handler -> Op] /\ Requests'
           /\ \A f, g \in Handler : op'[f].at # "read" /\ op'[g].at # "read" => f = g
           /\ \A g \in Handler : op'[g].at # "read" => op'[g] = op[g] /\ g # h
           /\ \A g \in Handler \ {h} : op'[g] = op[g]
           /\ \A g \in Handler : op'[g].kind = "mfa" => op'[g] = op[g] /\ g # h
           /\ op'[h] = Idle
  BY IdleFits, RequestMoves DEF End

(* What a request writes to the row is a row.                              *)
LEMMA WrittenRow ==
    ASSUME IInv, NEW h \in Handler, WriteRow(h)
    PROVE  account' \in Row
  <1>1. account \in Row /\ op[h].seen \in Row /\ op[h].new \in Row
    BY DEF IInv, SignInTypeOK
  <1> QED
    BY <1>1, OverlayRow DEF WriteRow

(* A new session is stored while nobody is between the scan and the commit *)
(* of a new password.                                                      *)
LEMMA SessionIssued ==
    ASSUME IInv, NEW born \in Password, IssueSession(born)
    PROVE  /\ cookies' \subseteq Cookie /\ issued' \in 0 .. MaxSession
           /\ tokens' \subseteq Password /\ traffic' \subseteq Kind
  <1>1. issued + 1 \in 1 .. MaxSession /\ issued' \in 0 .. MaxSession
    BY Bounds DEF IInv, SignInTypeOK, IssueSession
  <1> QED
    BY <1>1 DEF IInv, SignInTypeOK, IssueSession, Cookie

LEMMA LoginStep ==
    ASSUME IInv, NEW h \in Handler, CommitLogin(h) PROVE IInv'
  <1>1. /\ op' \in [Handler -> Op] /\ Requests'
        /\ \A f, g \in Handler : op'[f].at # "read" /\ op'[g].at # "read" => f = g
        /\ \A g \in Handler : op'[g].at # "read" => op'[g] = op[g]
        /\ \A g \in Handler : op'[g].kind = "mfa" => op'[g] = op[g]
    BY RequestEnds DEF CommitLogin
  <1>2. op[h].born \in Password
    BY DEF IInv, SignInTypeOK
  <1>3. /\ account' \in Row /\ UNCHANGED <<factor, challenge>>
        /\ cookies' \subseteq Cookie /\ issued' \in 0 .. MaxSession
        /\ tokens' \subseteq Password /\ traffic' \subseteq Kind
    BY <1>2, WrittenRow, SessionIssued DEF CommitLogin
  <1>4. SignInTypeOK'
    BY <1>1, <1>3 DEF IInv, SignInTypeOK, Op, factor
  <1>5. RowLock'
    BY <1>1 DEF RowLock, CommitLogin, RowFree
  <1>6. ChallengesCounted'
    BY <1>3 DEF IInv, ChallengesCounted
  <1>7. OnlyEnrolledAccepts' /\ OneCodeAtATime'
    BY <1>1, <1>3, FactorUnmoved DEF factor
  <1> QED
    BY <1>1, <1>4, <1>5, <1>6, <1>7 DEF IInv

(* Commits that write the row and nothing else, and rollbacks.             *)
LEMMA PlainCommitStep ==
    ASSUME IInv, NEW h \in Handler,
           CommitFailure(h) \/ CommitRow(h) \/ Rollback(h)
    PROVE  IInv'
  <1>1. /\ op' \in [Handler -> Op] /\ Requests'
        /\ \A f, g \in Handler : op'[f].at # "read" /\ op'[g].at # "read" => f = g
        /\ \A g \in Handler : op'[g].at # "read" => op'[g] = op[g]
        /\ \A g \in Handler : op'[g].kind = "mfa" => op'[g] = op[g]
    BY RequestEnds DEF CommitFailure, CommitRow, Rollback
  <1>2. account' \in Row /\ UNCHANGED <<factor, redis, challenge>>
    BY WrittenRow DEF CommitFailure, CommitRow, Rollback, IInv, SignInTypeOK
  <1>3. SignInTypeOK'
    BY <1>1, <1>2 DEF IInv, SignInTypeOK, Op, factor, redis
  <1>4. RowLock' /\ ChallengesCounted'
    BY <1>1, <1>2 DEF IInv, RowLock, ChallengesCounted, redis
  <1>5. OnlyEnrolledAccepts' /\ OneCodeAtATime'
    BY <1>1, <1>2, FactorUnmoved DEF factor
  <1> QED
    BY <1>1, <1>3, <1>4, <1>5 DEF IInv

LEMMA ChallengeStep ==
    ASSUME IInv, NEW h \in Handler, CommitChallenge(h) PROVE IInv'
  <1>1. /\ op' \in [Handler -> Op] /\ Requests'
        /\ \A f, g \in Handler : op'[f].at # "read" /\ op'[g].at # "read" => f = g
        /\ \A g \in Handler : op'[g].at # "read" => op'[g] = op[g]
        /\ \A g \in Handler : op'[g].kind = "mfa" => op'[g] = op[g]
    BY RequestEnds DEF CommitChallenge
  <1>2. account' \in Row /\ UNCHANGED <<factor, redis>>
    BY WrittenRow DEF CommitChallenge
  <1>3. PICK c \in Challenge :
           /\ challenge[c].state = "unused"
           /\ challenge' = [challenge EXCEPT ![c].state = "open",
                                             ![c].born = op[h].born]
    BY DEF CommitChallenge
  <1>4. SignInTypeOK'
    <2>1. op[h].born \in Password
      BY DEF IInv, SignInTypeOK
    <2>2. challenge' \in [Challenge -> [state : {"unused", "open", "spent"},
                                        born : Password, logins : Nat]]
      <3> DEFINE open == [challenge[c] EXCEPT !.state = "open", !.born = op[h].born]
      <3>1. open \in [state : {"unused", "open", "spent"},
                      born : Password, logins : Nat]
        BY <2>1 DEF IInv, SignInTypeOK
      <3>2. challenge' = [challenge EXCEPT ![c] = open]
        BY <1>3 DEF IInv, SignInTypeOK
      <3> HIDE DEF open
      <3> QED
        BY <3>1, <3>2 DEF IInv, SignInTypeOK
    <2> QED
      BY <1>1, <1>2, <2>2 DEF IInv, SignInTypeOK, Op, factor, redis
  <1>5. RowLock'
    BY <1>1, <1>2 DEF IInv, RowLock, redis
  <1>6. ChallengesCounted'
    BY <1>3 DEF IInv, SignInTypeOK, ChallengesCounted
  <1>7. OnlyEnrolledAccepts' /\ OneCodeAtATime'
    BY <1>1, <1>2, FactorUnmoved DEF factor
  <1> QED
    BY <1>1, <1>4, <1>5, <1>6, <1>7 DEF IInv

LEMMA MfaLoginStep ==
    ASSUME IInv, NEW h \in Handler, CommitMfaLogin(h) PROVE IInv'
  <1> DEFINE code == op[h].code
             c == op[h].with
  <1>1. /\ op' \in [Handler -> Op] /\ Requests'
        /\ \A f, g \in Handler : op'[f].at # "read" /\ op'[g].at # "read" => f = g
        /\ \A g \in Handler : op'[g].at # "read" => op'[g] = op[g]
        /\ \A g \in Handler : op'[g].kind = "mfa" => op'[g] = op[g] /\ g # h
    BY RequestEnds DEF CommitMfaLogin
  <1>2. CarriesCode(h) /\ c \in Challenge /\ code \in Code
    BY DEF CommitMfaLogin, CarriesCode, IInv, Requests, Fits
  <1>3. op[h].born \in Password
    BY DEF IInv, SignInTypeOK
  <1>4. /\ account' \in Row /\ UNCHANGED <<overlapped, window>>
        /\ cookies' \subseteq Cookie /\ issued' \in 0 .. MaxSession
        /\ tokens' \subseteq Password /\ traffic' \subseteq Kind
    BY <1>3, WrittenRow, SessionIssued DEF CommitMfaLogin
  <1>5. /\ challenge[c].state = "open"
        /\ challenge' = [challenge EXCEPT ![c].state = "spent", ![c].logins = @ + 1]
    BY DEF CommitMfaLogin, Spend
  <1>6. /\ mfa' = IF code \in RecoveryCode THEN [mfa EXCEPT !.codes = @ \ {code}]
                                           ELSE [mfa EXCEPT !.last = code]
        /\ accepted' = [accepted EXCEPT ![code] = @ + 1]
    BY DEF CommitMfaLogin, Remember
  <1> HIDE DEF code, c
  <1>7. /\ mfa' \in [state : {"off", "started", "on"}, last : 0 .. MaxWindow,
                     codes : SUBSET RecoveryCode]
        /\ mfa'.state = mfa.state
        /\ mfa'.last = IF code \in RecoveryCode THEN mfa.last ELSE code
        /\ mfa'.codes = IF code \in RecoveryCode THEN mfa.codes \ {code}
                                                 ELSE mfa.codes
    <2>1. code \notin RecoveryCode => code \in 0 .. MaxWindow
      BY <1>2, CodesApart DEF Code
    <2> QED
      BY <1>6, <2>1 DEF IInv, SignInTypeOK
  <1>8. /\ accepted' \in [Code -> Nat] /\ accepted'[code] = accepted[code] + 1
        /\ \A d \in Code \ {code} : accepted'[d] = accepted[d]
    BY <1>2, <1>6 DEF IInv, SignInTypeOK
  <1>9. /\ challenge' \in [Challenge -> [state : {"unused", "open", "spent"},
                                         born : Password, logins : Nat]]
        /\ ChallengesCounted'
    <2>1. challenge[c].logins = 0 /\ challenge[c].logins + 1 = 1
      BY <1>2, <1>5 DEF IInv, ChallengesCounted
    <2> QED
      BY <1>2, <1>5, <2>1 DEF IInv, SignInTypeOK, ChallengesCounted
  <1>10. SignInTypeOK'
    BY <1>1, <1>4, <1>7, <1>8, <1>9 DEF IInv, SignInTypeOK, Op
  <1>11. RowLock'
    BY <1>1 DEF RowLock, CommitMfaLogin, RowFree
  <1>12. OnlyEnrolledAccepts'
    BY <1>2, <1>7 DEF IInv, OnlyEnrolledAccepts
  <1>13. OneCodeAtATime'
    <2>1. CASE overlapped
      BY <1>4, <2>1 DEF OneCodeAtATime
    <2>2. CASE ~overlapped
      <3>1. \A g \in Handler : op'[g].kind # "mfa"
        BY <1>1, <1>2, <2>2 DEF IInv, OneCodeAtATime, CarriesCode
      <3>2. StillGood(code) /\ accepted[code] = 0
        BY <1>2, <2>2 DEF IInv, SignInTypeOK, OneCodeAtATime, code
      <3>3. accepted'[code] = 1
        BY <1>8, <3>2
      <3>4. IF code \in RecoveryCode THEN code \notin mfa'.codes
                                     ELSE ~(code > mfa'.last)
        <4>1. code \notin RecoveryCode => code \in Nat
          BY <1>2, CodesApart DEF Code
        <4> QED
          BY <1>7, <4>1
      <3>5. ASSUME NEW d \in Code \ {code}, ~StillGood(d)
            PROVE  IF d \in RecoveryCode THEN d \notin mfa'.codes
                                         ELSE ~(d > mfa'.last)
        <4>1. CASE d \in RecoveryCode
          BY <1>7, <3>5, <4>1 DEF StillGood
        <4>2. CASE d \notin RecoveryCode
          <5>1. d \in Nat /\ mfa.last \in Nat
            BY <4>2 DEF Code, IInv, SignInTypeOK
          <5>2. mfa'.last \in Nat /\ mfa.last <= mfa'.last
            <6>1. CASE code \in RecoveryCode
              BY <1>7, <5>1, <6>1
            <6>2. CASE code \notin RecoveryCode
              BY <1>2, <1>7, <3>2, <5>1, <6>2 DEF StillGood, Code
            <6> QED
              BY <6>1, <6>2
          <5>3. ~(d > mfa.last)
            BY <3>5, <4>2 DEF StillGood
          <5> QED
            BY <4>2, <5>1, <5>2, <5>3
        <4> QED
          BY <4>1, <4>2
      <3>6. \A d \in Code : accepted'[d] = 0 \/
               (/\ accepted'[d] = 1
                /\ IF d \in RecoveryCode THEN d \notin mfa'.codes
                                         ELSE ~(d > mfa'.last))
        BY <1>8, <2>2, <3>3, <3>4, <3>5 DEF IInv, OneCodeAtATime
      <3> QED
        BY <3>1, <3>6 DEF OneCodeAtATime, CarriesCode, StillGood
    <2> QED
      BY <2>1, <2>2
  <1> QED
    BY <1>1, <1>9, <1>10, <1>11, <1>12, <1>13 DEF IInv

(* The three steps of a new password, between its flush and its commit.    *)
LEMMA RevokeStep ==
    ASSUME IInv, NEW h \in Handler, Flush(h) \/ BumpVersion(h) \/ RevokeTokens(h)
    PROVE  IInv'
  <1>1. PICK at \in {"flushed", "bumped", "revoked"} :
           /\ op' = [op EXCEPT ![h].at = at]
           /\ at = "revoked" => cookies' = {}
           /\ cookies' \in {cookies, {}} /\ tokens' \in {tokens, {}}
           /\ UNCHANGED <<account, factor, issued, challenge, traffic>>
    BY DEF Flush, BumpVersion, RevokeTokens, redis
  <1>2. op[h].kind \in {"change", "reset"}
    BY DEF Flush, BumpVersion, RevokeTokens, IInv, Requests, Fits
  <1>3. \A g \in Handler \ {h} : op[g].at = "read"
    BY DEF Flush, RowFree, BumpVersion, RevokeTokens, IInv, RowLock
  <1>4. op \in [Handler -> Op]
    BY DEF IInv, SignInTypeOK, Op
  <1>5. /\ op' \in [Handler -> Op]
        /\ op'[h] = [op[h] EXCEPT !.at = at]
        /\ \A g \in Handler \ {h} : op'[g] = op[g]
    BY <1>1, <1>4 DEF Op
  <1>6. /\ op'[h].kind = op[h].kind /\ op'[h].seen = op[h].seen
        /\ op'[h].new = op[h].new /\ op'[h].with = op[h].with
        /\ op'[h].code = op[h].code /\ op'[h].at = at
    BY <1>4, <1>5 DEF Op
  <1>7. Requests'
    <2>1. Fits(op'[h])
      <3>1. Fits(op[h])
        BY DEF IInv, Requests
      <3> QED
        BY <1>2, <1>6, <3>1 DEF Fits
    <2> QED
      BY <1>5, <2>1 DEF IInv, Requests
  <1>8. SignInTypeOK'
    BY <1>1, <1>5 DEF IInv, SignInTypeOK, Op, factor
  <1>9. RowLock' /\ ChallengesCounted'
    BY <1>1, <1>3, <1>5, <1>6 DEF IInv, RowLock, ChallengesCounted
  <1>10. OnlyEnrolledAccepts' /\ OneCodeAtATime'
    BY <1>1, <1>2, <1>5, <1>6, FactorUnmoved DEF factor
  <1> QED
    BY <1>7, <1>8, <1>9, <1>10 DEF IInv

LEMMA PasswordStep ==
    ASSUME IInv, NEW h \in Handler, CommitPassword(h) PROVE IInv'
  <1>1. /\ op' \in [Handler -> Op] /\ Requests'
        /\ \A g \in Handler : op'[g].at # "read" => op'[g] = op[g] /\ g # h
        /\ \A g \in Handler : op'[g].kind = "mfa" => op'[g] = op[g]
    BY RequestEnds DEF CommitPassword
  <1>2. \A g \in Handler : op'[g].at = "read"
    BY <1>1 DEF CommitPassword, IInv, RowLock
  <1>3. account' \in Row /\ UNCHANGED <<factor, challenge>>
    BY WrittenRow DEF CommitPassword
  <1>4. /\ cookies' \subseteq Cookie /\ issued' \in 0 .. MaxSession
        /\ tokens' \subseteq Password /\ traffic' \subseteq Kind
    <2>1. op[h].new.password \in Password
      BY DEF IInv, SignInTypeOK, Row
    <2> QED
      BY <2>1, SessionIssued DEF CommitPassword, redis, IInv, SignInTypeOK
  <1>5. SignInTypeOK'
    BY <1>1, <1>3, <1>4 DEF IInv, SignInTypeOK, Op, factor
  <1>6. RowLock' /\ ChallengesCounted'
    BY <1>2, <1>3 DEF IInv, RowLock, ChallengesCounted
  <1>7. OnlyEnrolledAccepts' /\ OneCodeAtATime'
    BY <1>1, <1>3, FactorUnmoved DEF factor
  <1> QED
    BY <1>1, <1>5, <1>6, <1>7 DEF IInv

(* A refresh goes on to mint, or ends and gives its cookie up.             *)
LEMMA CheckStep ==
    ASSUME IInv, NEW h \in Handler, CheckRefresh(h) PROVE IInv'
  <1>1. /\ op' \in [Handler -> Op] /\ Requests'
        /\ \A f, g \in Handler : op'[f].at # "read" /\ op'[g].at # "read" => f = g
        /\ \A g \in Handler : op'[g].at # "read" => op'[g] = op[g]
        /\ \A g \in Handler : op'[g].kind = "mfa" => op'[g] = op[g]
    <2>1. CASE End(h)
      BY <2>1, RequestEnds
    <2>2. CASE op' = [op EXCEPT ![h].kind = "mint"]
      <3> DEFINE o == [op[h] EXCEPT !.kind = "mint"]
      <3>1. op[h] \in Op /\ Fits(op[h]) /\ op[h].kind = "refresh"
        BY DEF CheckRefresh, IInv, SignInTypeOK, Requests, Op
      <3>2. o \in Op /\ Fits(o) /\ o.at = "read" /\ o.kind = "mint"
        BY <3>1 DEF Fits, Op, Kind
      <3>3. op' = [op EXCEPT ![h] = o]
        BY <2>2
      <3> HIDE DEF o
      <3> QED
        BY <3>2, <3>3, RequestMoves
    <2> QED
      BY <2>1, <2>2 DEF CheckRefresh
  <1>2. /\ cookies' \subseteq cookies
        /\ UNCHANGED <<account, factor, issued, tokens, challenge, traffic>>
    BY DEF CheckRefresh
  <1>3. SignInTypeOK'
    BY <1>1, <1>2 DEF IInv, SignInTypeOK, Op, factor
  <1>4. RowLock' /\ ChallengesCounted'
    BY <1>1, <1>2 DEF IInv, RowLock, ChallengesCounted
  <1>5. OnlyEnrolledAccepts' /\ OneCodeAtATime'
    BY <1>1, <1>2, FactorUnmoved DEF factor
  <1> QED
    BY <1>1, <1>3, <1>4, <1>5 DEF IInv

LEMMA MintStep ==
    ASSUME IInv, NEW h \in Handler, MintToken(h) PROVE IInv'
  <1>1. /\ op' \in [Handler -> Op] /\ Requests'
        /\ \A f, g \in Handler : op'[f].at # "read" /\ op'[g].at # "read" => f = g
        /\ \A g \in Handler : op'[g].at # "read" => op'[g] = op[g]
        /\ \A g \in Handler : op'[g].kind = "mfa" => op'[g] = op[g]
    BY RequestEnds DEF MintToken
  <1>2. op[h].with \in Cookie
    BY DEF MintToken, IInv, Requests, Fits
  <1>3. /\ tokens' \subseteq Password
        /\ UNCHANGED <<account, factor, cookies, issued, challenge, traffic>>
    BY <1>2 DEF MintToken, IInv, SignInTypeOK, Cookie
  <1>4. SignInTypeOK'
    BY <1>1, <1>3 DEF IInv, SignInTypeOK, Op, factor
  <1>5. RowLock' /\ ChallengesCounted'
    BY <1>1, <1>3 DEF IInv, RowLock, ChallengesCounted
  <1>6. OnlyEnrolledAccepts' /\ OneCodeAtATime'
    BY <1>1, <1>3, FactorUnmoved DEF factor
  <1> QED
    BY <1>1, <1>4, <1>5, <1>6 DEF IInv

LEMMA ProceedStep ==
    ASSUME IInv, NEW h \in Handler, Proceed(h) PROVE IInv'
  BY ChallengeStep, LoginStep, PlainCommitStep, MfaLoginStep, PasswordStep,
     RevokeStep, CheckStep, MintStep DEF Proceed

-----------------------------------------------------------------------------
(* Steps that are of no request in particular. *)

(* The enrolment goes, and with it what was accepted under it and every    *)
(* request that was about to present a code.                               *)
LEMMA UnenrolStep ==
    ASSUME IInv, NEW new, Unenrol(new),
           new \in {Unenrolled, [Unenrolled EXCEPT !.state = "started"]}
    PROVE  IInv'
  <1>1. /\ new \in [state : {"off", "started", "on"}, last : 0 .. MaxWindow,
                    codes : SUBSET RecoveryCode]
        /\ new.state # "on" /\ new.last = 0 /\ new.codes = {}
    <2>1. 0 \in 0 .. MaxWindow
      BY Bounds
    <2> QED
      BY <2>1 DEF Unenrolled
  <1>2. /\ mfa' = new /\ accepted' = [c \in Code |-> 0]
        /\ op' = [h \in Handler |-> IF CarriesCode(h) THEN Idle ELSE op[h]]
        /\ UNCHANGED <<account, overlapped, window, redis, challenge>>
    BY DEF Unenrol
  <1>3. op \in [Handler -> Op]
    BY DEF IInv, SignInTypeOK, Op
  <1>4. /\ op' \in [Handler -> Op]
        /\ \A h \in Handler : op'[h] = op[h] \/ op'[h] = Idle
        /\ \A h \in Handler : op'[h].kind # "mfa"
    BY <1>2, <1>3, IdleFits DEF CarriesCode
  <1>5. SignInTypeOK'
    BY <1>1, <1>2, <1>4 DEF IInv, SignInTypeOK, Op, redis
  <1>6. Requests' /\ RowLock' /\ ChallengesCounted'
    BY <1>2, <1>4, IdleFits
    DEF IInv, Requests, RowLock, ChallengesCounted, redis
  <1>7. OnlyEnrolledAccepts' /\ OneCodeAtATime'
    <2>1. \A c \in Code : accepted'[c] = 0
      BY <1>2
    <2> QED
      BY <1>1, <1>2, <1>4, <2>1 DEF OnlyEnrolledAccepts, OneCodeAtATime, CarriesCode
  <1> QED
    BY <1>5, <1>6, <1>7 DEF IInv

LEMMA ConfirmStep ==
    ASSUME IInv, NEW code \in Code, ConfirmEnrolment(code) PROVE IInv'
  <1>1. /\ mfa.state = "started" /\ Matches(code)
        /\ mfa' = [state |-> "on", last |-> code, codes |-> RecoveryCode]
        /\ accepted' = [accepted EXCEPT ![code] = @ + 1]
        /\ UNCHANGED <<account, overlapped, window, redis, challenge, op>>
    BY DEF ConfirmEnrolment
  <1>2. /\ mfa.codes = {} /\ \A c \in Code : accepted[c] = 0
        /\ \A h \in Handler : ~CarriesCode(h)
    BY <1>1 DEF IInv, OnlyEnrolledAccepts
  <1>3. code \in 1 .. MaxWindow /\ code \notin RecoveryCode /\ code \in 0 .. MaxWindow
    BY <1>1, <1>2, CodesApart DEF Matches, InWindow
  <1>4. /\ accepted' \in [Code -> Nat] /\ accepted'[code] = 1
        /\ \A c \in Code \ {code} : accepted'[c] = 0
    BY <1>1, <1>2 DEF IInv, SignInTypeOK
  <1>5. SignInTypeOK'
    BY <1>1, <1>3, <1>4 DEF IInv, SignInTypeOK, redis
  <1>6. Requests' /\ RowLock' /\ ChallengesCounted' /\ OnlyEnrolledAccepts'
    BY <1>1 DEF IInv, Requests, RowLock, ChallengesCounted, OnlyEnrolledAccepts, redis
  <1>7. OneCodeAtATime'
    <2>1. ~(code > mfa'.last)
      BY <1>1, <1>3
    <2>2. \A h \in Handler : ~CarriesCode(h)'
      BY <1>1, <1>2 DEF CarriesCode
    <2> QED
      BY <1>3, <1>4, <2>1, <2>2 DEF OneCodeAtATime, StillGood
  <1> QED
    BY <1>5, <1>6, <1>7 DEF IInv

LEMMA RegenerateStep ==
    ASSUME IInv, RegenerateCodes PROVE IInv'
  <1>1. /\ mfa.state = "on" /\ mfa' = [mfa EXCEPT !.codes = RecoveryCode]
        /\ accepted' = [c \in Code |->
                          IF c \in RecoveryCode THEN 0 ELSE accepted[c]]
        /\ op' = [h \in Handler |->
                     IF CarriesCode(h) /\ op[h].code \in RecoveryCode
                     THEN Idle ELSE op[h]]
        /\ UNCHANGED <<account, overlapped, window, redis, challenge>>
    BY DEF RegenerateCodes
  <1>2. op \in [Handler -> Op]
    BY DEF IInv, SignInTypeOK, Op
  <1>3. /\ op' \in [Handler -> Op]
        /\ \A h \in Handler : op'[h] = op[h] \/ op'[h] = Idle
        /\ \A h \in Handler : op'[h].kind = "mfa" =>
              op'[h] = op[h] /\ op[h].code \notin RecoveryCode
    BY <1>1, <1>2, IdleFits DEF CarriesCode
  <1>4. /\ mfa' \in [state : {"off", "started", "on"}, last : 0 .. MaxWindow,
                     codes : SUBSET RecoveryCode]
        /\ mfa'.last = mfa.last /\ mfa'.state = "on"
    BY <1>1 DEF IInv, SignInTypeOK
  <1>5. accepted' \in [Code -> Nat]
    BY <1>1 DEF IInv, SignInTypeOK
  <1>6. SignInTypeOK'
    BY <1>1, <1>3, <1>4, <1>5 DEF IInv, SignInTypeOK, Op, redis
  <1>7. Requests' /\ RowLock' /\ ChallengesCounted' /\ OnlyEnrolledAccepts'
    BY <1>1, <1>3, <1>4, IdleFits
    DEF IInv, Requests, RowLock, ChallengesCounted, OnlyEnrolledAccepts, redis
  <1>8. OneCodeAtATime'
    BY <1>1, <1>3, <1>4 DEF IInv, OneCodeAtATime, CarriesCode, StillGood
  <1> QED
    BY <1>6, <1>7, <1>8 DEF IInv

(* Time, and a cookie that is given up.                                    *)
LEMMA OtherStep ==
    ASSUME IInv,
           \/ LockMinute \/ WindowPasses \/ LinkExpires \/ TokensExpire
           \/ \E c \in Cookie : Logout(c)
           \/ UNCHANGED vars
    PROVE  IInv'
  <1>1. /\ UNCHANGED <<mfa, accepted, overlapped, challenge, op, issued, traffic>>
        /\ cookies' \subseteq cookies /\ tokens' \subseteq tokens
    BY DEF LockMinute, WindowPasses, LinkExpires, TokensExpire, Logout, vars,
        factor, redis
  <1>2. account' \in Row
    <2>1. account \in Row
      BY DEF IInv, SignInTypeOK
    <2>2. CASE LockMinute
      <3>1. account.until - 1 \in 0 .. LockoutMinutes
        BY <2>2, Bounds DEF LockMinute
      <3> QED
        BY <2>1, <2>2, <3>1 DEF LockMinute, Row
    <2>3. CASE LinkExpires
      BY <2>1, <2>3 DEF LinkExpires, Row
    <2>4. CASE account' = account
      BY <2>1, <2>4
    <2> QED
      BY <2>2, <2>3, <2>4 DEF WindowPasses, TokensExpire, Logout, vars
  <1>3. window' \in 1 .. MaxWindow
    BY Bounds DEF LockMinute, WindowPasses, LinkExpires, TokensExpire, Logout,
        vars, factor, IInv, SignInTypeOK
  <1>4. SignInTypeOK'
    BY <1>1, <1>2, <1>3 DEF IInv, SignInTypeOK
  <1>5. Requests' /\ RowLock' /\ ChallengesCounted'
    BY <1>1 DEF IInv, Requests, RowLock, ChallengesCounted
  <1>6. OnlyEnrolledAccepts' /\ OneCodeAtATime'
    BY <1>1, FactorUnmoved
  <1> QED
    BY <1>4, <1>5, <1>6 DEF IInv

LEMMA InitIInv == SignInInit => IInv
  <1> SUFFICES ASSUME SignInInit PROVE IInv
    OBVIOUS
  <1>1. /\ account \in Row /\ traffic \subseteq Kind /\ window \in 1 .. MaxWindow
        /\ issued \in 0 .. MaxSession
    <2>1. /\ 1 \in 1 .. MaxWindow /\ 0 \in 0 .. MaxSession
      BY Bounds
    <2>2. [Credentialled EXCEPT !.reset = TRUE] \in Row
      BY InvitedRow DEF Row
    <2> QED
      BY <2>1, <2>2, InvitedRow, SignInAssumption DEF SignInInit
  <1>2. /\ mfa \in {Unenrolled, Enrolled}
        /\ mfa \in [state : {"off", "started", "on"}, last : 0 .. MaxWindow,
                    codes : SUBSET RecoveryCode]
    <2>1. 0 \in 0 .. MaxWindow /\ 1 \in 0 .. MaxWindow
      BY Bounds
    <2> QED
      BY <2>1 DEF SignInInit, Unenrolled, Enrolled
  <1>3. accepted \in [Code -> Nat]
        /\ \A c \in Code : accepted[c] = IF c = mfa.last THEN 1 ELSE 0
    BY DEF SignInInit
  <1>4. challenge \in [Challenge -> [state : {"unused", "open", "spent"},
                                     born : Password, logins : Nat]]
        /\ ChallengesCounted
    BY Bounds DEF SignInInit, ChallengesCounted, Password, Unknown
  <1>5. op \in [Handler -> Op] /\ \A h \in Handler : op[h] = Idle
    BY IdleFits DEF SignInInit
  <1>6. SignInTypeOK
    BY <1>1, <1>2, <1>3, <1>4, <1>5 DEF SignInInit, SignInTypeOK, Op
  <1>7. Requests /\ RowLock
    BY <1>5, IdleFits DEF Requests, RowLock
  <1>8. \A h \in Handler : ~CarriesCode(h)
    BY <1>5, IdleFits DEF CarriesCode
  <1>9. OnlyEnrolledAccepts
    <2>1. mfa.state # "on" => mfa = Unenrolled
      BY <1>2 DEF Enrolled
    <2>2. 0 \notin Code
      BY CodesApart, Bounds DEF Code
    <2> QED
      BY <1>3, <1>8, <2>1, <2>2 DEF OnlyEnrolledAccepts, Unenrolled
  <1>10. OneCodeAtATime
    <2>1. ASSUME NEW c \in Code, c = mfa.last PROVE ~StillGood(c)
      <3>1. c \in 0 .. MaxWindow
        BY <1>2, <2>1
      <3> QED
        BY <2>1, <3>1, CodesApart DEF StillGood
    <2> QED
      BY <1>3, <1>8, <2>1 DEF OneCodeAtATime
  <1> QED
    BY <1>4, <1>6, <1>7, <1>9, <1>10 DEF IInv

LEMMA NextIInv == IInv /\ [SignInNext]_vars => IInv'
  <1> SUFFICES ASSUME IInv, [SignInNext]_vars PROVE IInv'
    OBVIOUS
  <1>1. CASE BeginEnrolment \/ DisableOwn \/ ResetFactor
    BY <1>1, UnenrolStep DEF BeginEnrolment, DisableOwn, ResetFactor
  <1> QED
    BY <1>1, RequestStep, ProceedStep, ConfirmStep, RegenerateStep, OtherStep
    DEF SignInNext

(* Every step of every request about the account keeps the strengthening.  *)
THEOREM Invariance == SignInSpec => []IInv
  <1> QED
    BY InitIInv, NextIInv, PTL DEF SignInSpec

-----------------------------------------------------------------------------
(* The account, its second factor, its sessions and the requests about it  *)
(* keep their types; no counter of failures passes its bound.              *)
THEOREM TypeCorrect == SignInSpec => []SignInTypeOK
  <1>1. IInv => SignInTypeOK
    BY DEF IInv
  <1> QED
    BY <1>1, Invariance, PTL

(* A challenge completes one login at most.  A code is accepted once, as   *)
(* long as sign-ins that carry one never overlap: in whatever order codes  *)
(* and windows come, and through new enrolments and new recovery codes.    *)
THEOREM EachUsedOnce == SignInSpec => []UsedOnce
  <1>1. IInv => UsedOnce
    <2> SUFFICES ASSUME IInv PROVE UsedOnce
      OBVIOUS
    <2>1. ChallengeOnce
      BY DEF IInv, ChallengesCounted, ChallengeOnce
    <2>2. overlapped \/ CodeOnce
      BY DEF IInv, OneCodeAtATime, CodeOnce
    <2> QED
      BY <2>1, <2>2 DEF UsedOnce
  <1> QED
    BY <1>1, Invariance, PTL

(* Whoever changes or resets the password leaves no cookie but the one the *)
(* change issues, however many sign-ins with the old one cross it.         *)
THEOREM PasswordStrandsSessions == SignInSpec => ChangeStrandsSessions
  <1>1. ASSUME IInv, NEW h \in Handler, CommitPassword(h)
        PROVE  cookies' = {c \in cookies' : c.id > issued}
    <2>1. cookies = {} /\ issued \in Nat
      BY <1>1 DEF IInv, RowLock, CommitPassword, SignInTypeOK
    <2>2. CASE op[h].kind = "change"
      BY <1>1, <2>1, <2>2 DEF CommitPassword, IssueSession
    <2>3. CASE op[h].kind # "change"
      BY <1>1, <2>1, <2>3 DEF CommitPassword, redis
    <2> QED
      BY <2>2, <2>3
  <1>2. IInv /\ [SignInNext]_vars =>
          [\A h \in Handler :
             CommitPassword(h) => cookies' = {c \in cookies' : c.id > issued}]_vars
    BY <1>1
  <1> QED
    BY <1>2, Invariance, PTL DEF ChangeStrandsSessions, SignInSpec

(* A lock that is running ends by time, by a reset, by an administrator or *)
(* by a request that read the row before the lock was there: nothing else  *)
(* cuts it short or extends it, for any number of attempts and minutes.    *)
THEOREM LocksStand == SignInSpec => RunningLockStands
  <1> DEFINE Kept == /\ account'.status = "locked"
                     /\ account'.until \in {account.until, account.until - 1}
             Excused == \E h \in Handler :
                           /\ op[h] # Idle /\ op'[h] = Idle
                           /\ \/ op[h].kind \in {"reset", "admin"}
                              \/ ~LockRunning(op[h].seen)
  <1>1. ASSUME IInv, LockRunning(account), NEW h \in Handler, WriteRow(h), End(h),
               op[h].kind # "idle"
        PROVE  Kept \/ Excused
    <2>1. op[h] # Idle /\ op'[h] = Idle
      BY <1>1, IdleFits DEF End, IInv, SignInTypeOK
    <2>2. CASE op[h].kind \in {"reset", "admin"} \/ ~LockRunning(op[h].seen)
      BY <2>1, <2>2
    <2>3. CASE op[h].kind \notin {"reset", "admin"} /\ LockRunning(op[h].seen)
      <3>1. /\ op[h].new.status = op[h].seen.status
            /\ op[h].new.until = op[h].seen.until
        BY <1>1, <2>3 DEF IInv, Requests, Fits
      <3>2. account \in Row /\ op[h].seen \in Row /\ op[h].new \in Row
        BY <1>1 DEF IInv, SignInTypeOK
      <3>3. account'.status = account.status /\ account'.until = account.until
        BY <1>1, <3>1, <3>2, OverlayRow DEF WriteRow
      <3> QED
        BY <1>1, <3>3 DEF LockRunning
    <2> QED
      BY <2>2, <2>3
  <1>2. ASSUME IInv, LockRunning(account), account' = account PROVE Kept
    BY <1>2 DEF LockRunning
  <1> HIDE DEF Kept, Excused
  <1>3. ASSUME IInv, LockRunning(account), [SignInNext]_vars PROVE Kept \/ Excused
    <2>1. ASSUME NEW h \in Handler, Request(h) PROVE account' = account
      BY <2>1 DEF Request, WrongPassword, RightPassword, WrongCode, ForgotPassword,
          Deactivate, Reactivate, PresentCode, ChangePassword, ResetPassword,
          Activate, ReadRefresh, BeginRow
    <2>2. ASSUME NEW h \in Handler, Proceed(h) PROVE Kept \/ Excused
      <3>1. CASE \/ CommitChallenge(h) \/ CommitLogin(h) \/ CommitFailure(h)
                 \/ CommitMfaLogin(h) \/ CommitRow(h) \/ CommitPassword(h)
        <4>1. WriteRow(h) /\ End(h) /\ op[h].kind # "idle"
          BY <1>3, <3>1 DEF CommitChallenge, CommitLogin, CommitFailure,
              CommitMfaLogin, CommitRow, CommitPassword, IInv, Requests, Fits
        <4> QED
          BY <1>1, <1>3, <4>1
      <3>2. CASE \/ Flush(h) \/ BumpVersion(h) \/ RevokeTokens(h)
                 \/ CheckRefresh(h) \/ MintToken(h) \/ Rollback(h)
        <4>1. account' = account
          BY <3>2 DEF Flush, BumpVersion, RevokeTokens, CheckRefresh,
              MintToken, Rollback
        <4> QED
          BY <1>2, <1>3, <4>1
      <3> QED
        BY <2>2, <3>1, <3>2 DEF Proceed
    <2>3. CASE LockMinute
      BY <1>3, <2>3 DEF LockMinute, LockRunning, Kept, IInv, SignInTypeOK, Row
    <2>4. CASE LinkExpires
      BY <1>3, <2>4 DEF LinkExpires, LockRunning, Kept, IInv, SignInTypeOK, Row
    <2>5. CASE \/ BeginEnrolment \/ DisableOwn \/ ResetFactor \/ RegenerateCodes
               \/ \E code \in Code : ConfirmEnrolment(code)
               \/ WindowPasses \/ TokensExpire \/ \E c \in Cookie : Logout(c)
               \/ UNCHANGED vars
      <3>1. account' = account
        BY <2>5 DEF BeginEnrolment, DisableOwn, ResetFactor, RegenerateCodes,
            Unenrol, ConfirmEnrolment, WindowPasses, TokensExpire, Logout, vars
      <3> QED
        BY <1>2, <1>3, <3>1
    <2> QED
      BY <1>2, <1>3, <2>1, <2>2, <2>3, <2>4, <2>5 DEF SignInNext
  <1>4. IInv /\ [SignInNext]_vars => [LockRunning(account) => Kept \/ Excused]_vars
    BY <1>3
  <1> QED
    BY <1>4, Invariance, PTL DEF RunningLockStands, SignInSpec, Kept, Excused
=============================================================================
