--------------------------- MODULE AccountSecurity ---------------------------
(***************************************************************************)
(* Passwords, e-mail addresses and the second factor (account_views.py,    *)
(* account_security.py, mfa.py, auth_views.py, middleware.py, the reset in *)
(* administration.py).  Passwords, secrets and generations of recovery     *)
(* codes are counted, so that an old one is never a new one.               *)
(***************************************************************************)
EXTENDS Integers, FiniteSets

CONSTANTS Users, Addresses, Sessions,
          MaxPasswords, MaxEnrolments,   \* bounds on the changes of password and of enrolment
          CodesEach,                     \* recovery codes of an enrolment
          MaxConsumers                   \* bound on the challenges reading the codes at one time

NoAddress == "no address"
NoUser    == "nobody"
NoCode    == <<0, 0>>
Codes     == (1..MaxEnrolments) \X (1..CodesEach)
Stage     == {"out", "pending", "in"}
Session   == [user : Users \cup {NoUser}, stage : Stage, hash : 0..MaxPasswords, second : BOOLEAN, enrolling : BOOLEAN,
              code : Codes \cup {NoCode}, list : SUBSET Codes]
Factor    == [on : BOOLEAN, enrolment : 0..MaxEnrolments, codes : SUBSET Codes]

ASSUME SecurityAssumption ==
  /\ MaxPasswords \in Nat /\ MaxEnrolments \in Nat /\ CodesEach \in Nat
  /\ NoUser \notin Users /\ NoAddress \notin Addresses /\ IsFiniteSet(Sessions)

VARIABLES password,    \* the number of each user's current password
          mustChange,  \* profile.must_change_password
          enabled,     \* user.is_active
          address,     \* user.email
          pending,     \* profile.pending_email
          verified,    \* profile.email_verified_at is set
          mailed,      \* verification links that have not expired: <<user, address>>
          proved,      \* the link opened last
          factor,      \* the second factor of each user
          sessions,    \* the browser sessions
          uses         \* how often each recovery code let somebody in

mailVars     == <<address, pending, verified, mailed, proved>>
accessVars   == <<password, mustChange, enabled>>
factorVars   == <<factor, uses>>
securityVars == <<accessVars, mailVars, factorVars, sessions>>

Out == [user |-> NoUser, stage |-> "out", hash |-> 0, second |-> FALSE, enrolling |-> FALSE, code |-> NoCode, list |-> {}]

SecurityInit ==
  /\ password = [u \in Users |-> 0]
  /\ mustChange \in [Users -> BOOLEAN]
  /\ enabled = [u \in Users |-> TRUE]
  /\ address \in [Users -> Addresses] /\ \A u, v \in Users : address[u] = address[v] => u = v
  /\ pending = [u \in Users |-> NoAddress]
  /\ verified \in [Users -> BOOLEAN]
  /\ mailed = {} /\ proved = {}
  /\ factor = [u \in Users |-> [on |-> FALSE, enrolment |-> 0, codes |-> {}]]
  /\ sessions = [s \in Sessions |-> Out]
  /\ uses = [c \in Codes |-> 0]

(*-------------------------------- sessions -------------------------------*)
\* A session counts while its user is enabled and the password is the one it began with.
Live(s)  == sessions[s].stage = "in" /\ enabled[sessions[s].user] /\ sessions[s].hash = password[sessions[s].user]
\* ForcePasswordChangeMiddleware: nothing but the change of the password is let through.
Free(s)  == Live(s) /\ ~mustChange[sessions[s].user]
UserOf(s) == sessions[s].user
Entered(u, second) == [Out EXCEPT !.user = u, !.stage = "in", !.hash = password[u], !.second = second]

\* Mutant: the password alone is enough for everybody.
Challenged_Never(u) == FALSE
Challenged(u) == factor[u].on

\* A right password: straight in, or to the challenge.
PasswordStep(s, u) ==
  /\ sessions[s].stage # "in" /\ sessions[s].code = NoCode /\ enabled[u]
  /\ sessions' = [sessions EXCEPT ![s] = IF Challenged(u) THEN [Out EXCEPT !.user = u, !.stage = "pending"] ELSE Entered(u, FALSE)]
  /\ UNCHANGED <<accessVars, mailVars, factorVars>>

InChallenge(s) == sessions[s].stage = "pending" /\ enabled[UserOf(s)] /\ factor[UserOf(s)].on

TotpChallenge(s) ==
  /\ InChallenge(s) /\ sessions[s].code = NoCode
  /\ sessions' = [sessions EXCEPT ![s] = Entered(UserOf(s), TRUE)]
  /\ UNCHANGED <<accessVars, mailVars, factorVars>>

\* consume_recovery_code reads the list with the code ...
RecoveryCodeRead(s, c) ==
  /\ InChallenge(s) /\ sessions[s].code = NoCode
  /\ c \in factor[UserOf(s)].codes
  /\ Cardinality({t \in Sessions : sessions[t].code # NoCode}) < MaxConsumers
  /\ sessions' = [sessions EXCEPT ![s].code = c, ![s].list = factor[UserOf(s)].codes]
  /\ UNCHANGED <<accessVars, mailVars, factorVars>>

\* Mutant: the list is written back whole.
Remaining_All(s) == sessions[s].list
Remaining(s) == sessions[s].list \ {sessions[s].code}

\* ... and writes back what was left of it then.
RecoveryCodeSave(s) ==
  /\ sessions[s].code # NoCode
  /\ factor' = [factor EXCEPT ![UserOf(s)].codes = Remaining(s)]
  /\ uses' = [uses EXCEPT ![sessions[s].code] = @ + 1]
  /\ sessions' = [sessions EXCEPT ![s] = Entered(UserOf(s), TRUE)]
  /\ UNCHANGED <<accessVars, mailVars>>

ChallengeDropped(s) ==
  /\ sessions[s].stage = "pending" /\ sessions[s].code = NoCode /\ ~InChallenge(s)
  /\ sessions' = [sessions EXCEPT ![s] = Out]
  /\ UNCHANGED <<accessVars, mailVars, factorVars>>

Logout(s) ==
  /\ sessions[s].stage = "in"
  /\ sessions' = [sessions EXCEPT ![s] = Out]
  /\ UNCHANGED <<accessVars, mailVars, factorVars>>

(*-------------------------------- passwords ------------------------------*)
\* Mutant: the required change only clears the flag.
NewPassword_Same(u) == password[u]
NewPassword(u) == password[u] + 1

\* my_password_change and password_change_required: the session goes on under the new password.
PasswordChange(s) ==
  LET u == UserOf(s)
  IN /\ Live(s) /\ password[u] < MaxPasswords
     /\ password' = [password EXCEPT ![u] = NewPassword(u)]
     /\ mustChange' = [mustChange EXCEPT ![u] = FALSE]
     /\ sessions' = [sessions EXCEPT ![s].hash = NewPassword(u)]
     /\ UNCHANGED <<enabled, mailVars, factorVars>>

\* user_reset_password by a manager.
UserResetPassword(u) ==
  /\ password[u] < MaxPasswords
  /\ password' = [password EXCEPT ![u] = password[u] + 1]
  /\ mustChange' = [mustChange EXCEPT ![u] = TRUE]
  /\ UNCHANGED <<enabled, mailVars, factorVars, sessions>>

\* user_edit: the active flag and the address, which is neither compared nor verified.
UserEdit(u, active, e) ==
  /\ enabled' = [enabled EXCEPT ![u] = active]
  /\ address' = [address EXCEPT ![u] = e]
  /\ UNCHANGED <<password, mustChange, pending, verified, mailed, proved, factorVars, sessions>>

(*--------------------------------- e-mail --------------------------------*)
Requestable(u, e) == \A v \in Users : address[v] # e

\* A mail that cannot be sent takes the request with it.
EmailChange(s, e) ==
  LET u == UserOf(s)
  IN /\ Free(s) /\ Requestable(u, e)
     /\ pending' = [pending EXCEPT ![u] = e]
     /\ mailed' = mailed \cup {<<u, e>>}
     /\ UNCHANGED <<address, verified, proved, accessVars, factorVars, sessions>>

\* Mutant: what is pending is expected even when nothing is.
Expected_Pending(u) == pending[u]
Expected(u) == IF pending[u] # NoAddress THEN pending[u] ELSE address[u]

EmailVerificationResend(s) ==
  /\ Free(s)
  /\ mailed' = mailed \cup {<<UserOf(s), Expected(UserOf(s))>>}
  /\ UNCHANGED <<address, pending, verified, proved, accessVars, factorVars, sessions>>

LinkExpires(t) ==
  /\ t \in mailed
  /\ mailed' = mailed \ {t}
  /\ UNCHANGED <<address, pending, verified, proved, accessVars, factorVars, sessions>>

\* Mutant: any link of the user completes whatever is pending.
Completes_Any(u, e) == pending[u] # NoAddress \/ ~verified[u]
\* complete_email_verification: the link names what is expected now.
Completes(u, e) ==
  /\ Expected(u) = e
  /\ pending[u] # NoAddress \/ ~verified[u]

EmailVerify(s, t) ==
  LET u == UserOf(s)
      e == t[2]
  IN /\ Free(s) /\ t \in mailed /\ t[1] = u
     /\ proved' = {t}
     /\ IF Completes(u, e)
        THEN /\ address' = [address EXCEPT ![u] = Expected(u)]
             /\ verified' = [verified EXCEPT ![u] = TRUE]
             /\ pending' = [pending EXCEPT ![u] = NoAddress]
        ELSE UNCHANGED <<address, verified, pending>>
     /\ UNCHANGED <<mailed, accessVars, factorVars, sessions>>

(*------------------------------- enrolment -------------------------------*)
MfaSetup(s) ==
  /\ Free(s) /\ ~factor[UserOf(s)].on
  /\ sessions' = [sessions EXCEPT ![s].enrolling = TRUE]
  /\ UNCHANGED <<accessVars, mailVars, factorVars>>

Enrolments == {factor[u].enrolment : u \in Users}
NextEnrolment == 1 + CHOOSE n \in Enrolments : \A m \in Enrolments : m <= n

MfaConfirm(s) ==
  /\ Free(s) /\ sessions[s].enrolling /\ ~factor[UserOf(s)].on
  /\ NextEnrolment <= MaxEnrolments
  /\ factor' = [factor EXCEPT ![UserOf(s)] = [on |-> TRUE, enrolment |-> NextEnrolment, codes |-> {NextEnrolment} \X (1..CodesEach)]]
  /\ sessions' = [sessions EXCEPT ![s].enrolling = FALSE]
  /\ UNCHANGED <<accessVars, mailVars, uses>>

MfaDisable(s) ==
  /\ Free(s) /\ factor[UserOf(s)].on
  /\ factor' = [factor EXCEPT ![UserOf(s)].on = FALSE, ![UserOf(s)].codes = {}]
  /\ sessions' = [sessions EXCEPT ![s].enrolling = FALSE]
  /\ UNCHANGED <<accessVars, mailVars, uses>>

(*--------------------------------- steps ---------------------------------*)
SignInStep == \E s \in Sessions : (\E u \in Users : PasswordStep(s, u)) \/ Logout(s)
ChallengeStep ==
  \E s \in Sessions : TotpChallenge(s) \/ (\E c \in Codes : RecoveryCodeRead(s, c)) \/ RecoveryCodeSave(s) \/ ChallengeDropped(s)
FactorStep == \E s \in Sessions : MfaSetup(s) \/ MfaConfirm(s) \/ MfaDisable(s)
PasswordsStep == (\E s \in Sessions : PasswordChange(s)) \/ (\E u \in Users : UserResetPassword(u))
EnableStep(users) == \E u \in users, active \in BOOLEAN : UserEdit(u, active, address[u])
AddressStep(users) == \E u \in users, e \in Addresses : UserEdit(u, enabled[u], e)
EmailStep ==
  \/ \E s \in Sessions : (\E e \in Addresses : EmailChange(s, e)) \/ EmailVerificationResend(s) \/ \E t \in mailed : EmailVerify(s, t)
  \/ \E t \in mailed : LinkExpires(t)

SecurityTypeOK ==
  /\ password \in [Users -> 0..MaxPasswords] /\ mustChange \in [Users -> BOOLEAN] /\ enabled \in [Users -> BOOLEAN]
  /\ address \in [Users -> Addresses] /\ pending \in [Users -> Addresses \cup {NoAddress}] /\ verified \in [Users -> BOOLEAN]
  /\ mailed \subseteq Users \X Addresses /\ proved \subseteq Users \X Addresses
  /\ factor \in [Users -> Factor]
  /\ sessions \in [Sessions -> Session]
  /\ uses \in [Codes -> Nat]

\* A pending address becomes the login's only when a link mailed to that very address was opened, however many
\* requests, links and edits by a manager came between.
VerifiedChangesAreProved ==
  [][\A u \in Users : (pending[u] # NoAddress /\ pending'[u] = NoAddress) =>
       address'[u] = pending[u] /\ <<u, pending[u]>> \in proved']_securityVars

\* v3.6.0: each recovery code lets somebody in once.
RecoveryCodesWorkOnce == \A c \in Codes : uses[c] <= 1

\* Whoever comes in while the second factor is on has shown it, also when it is switched on, off or renewed between
\* the password and the challenge.
SecondFactorAtTheDoor ==
  [][\A s \in Sessions : (sessions[s].stage # "in" /\ sessions'[s].stage = "in" /\ factor[sessions'[s].user].on)
       => sessions'[s].second]_securityVars

\* A temporary password goes only with a new one, chosen in a session that began with it.
TemporaryPasswordsGo ==
  [][\A u \in Users : (mustChange[u] /\ ~mustChange'[u]) => password'[u] # password[u]]_securityVars
=============================================================================
