------------------------------ MODULE MCSignIn ------------------------------
(* One account, two requests at a time. *)
EXTENDS SignIn, TLC
CONSTANTS h1, h2, r1, k1, k2
(* Passwords and the sessions they began; the lock and what ends it; the   *)
(* links; the second factor, with wrong codes and with a change of         *)
(* password.                                                               *)
MCTraffics ==
    {{"login", "change", "reset", "refresh", "link"},
     {"login", "fail", "reset"},
     {"login", "fail", "admin"},
     {"fail", "link", "admin"},
     {"login", "challenge", "mfa", "factor", "fail"},
     {"login", "challenge", "mfa", "factor", "change"}}

(* Accounts come and go. *)
Onboarding == {{"link", "admin"}}

Symmetric == Permutations(Handler)
=============================================================================
