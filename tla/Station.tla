------------------------------ MODULE Station ------------------------------
(***************************************************************************)
(* The shared barn device (view_modules/station.py, model_modules/         *)
(* station.py): a browser session bound to a registered device, PINs and   *)
(* their lock, clocking in and out, the managers' review of shifts, and    *)
(* the credits posted for approved shifts of working students              *)
(* (finance_operational_credits.py, finance_earned_credits.py).  Time is a *)
(* counter; PinSeconds, LockSeconds and MaxTries are the code's 120, 300   *)
(* and 5.                                                                  *)
(***************************************************************************)
EXTENDS Integers, FiniteSets, FiniteSetsExt

CONSTANTS Workers, WorkRoles, ShiftIds, Rules, Accounts,
          PinSeconds, LockSeconds, MaxTries, MaxTime,
          Rate,               \* rule -> amount for a unit of time
          Recorded            \* the sets of shifts a barn may start with

Never == -1
NoOne == "nobody"

VARIABLES time,
          deviceActive,  \* StationDevice.active
          station,       \* the browser session: bound, person, identified at, failures and locks
          pins,          \* worker -> StationCredential.active, or FALSE without one
          shifts,        \* WorkShiftEntry rows
          rules,         \* active General barn_work rules
          payer,         \* worker -> accounts that name the worker as participant
          credits        \* ReceivableCredit rows of shifts

stationVars == <<time, deviceActive, station, pins, shifts, rules, payer, credits>>

Tries   == [count : 0..MaxTries, until : Nat \cup {Never}]
NoTries == [count |-> 0, until |-> Never]
Session == [bound : BOOLEAN, person : Workers \cup {NoOne}, since : 0..MaxTime, tries : [Workers -> Tries]]
Shift   == [id : ShiftIds, person : Workers, role : WorkRoles, in : 0..MaxTime, out : (0..MaxTime) \cup {Never},
            approved : BOOLEAN]
Credit  == [account : Accounts, rule : Rules, shift : ShiftIds, amount : Int]

ASSUME StationAssumption ==
  /\ PinSeconds \in Nat /\ LockSeconds \in Nat /\ MaxTries \in Nat \ {0} /\ MaxTime \in Nat
  /\ NoOne \notin Workers /\ Rate \in [Rules -> Int]
  /\ \A set \in Recorded : /\ set \subseteq Shift /\ IsFiniteSet(set)
                           /\ \A s, t \in set : (s.person = t.person /\ s.out = Never /\ t.out = Never) => s = t

Unbound == [bound |-> FALSE, person |-> NoOne, since |-> 0, tries |-> [w \in Workers |-> NoTries]]
IsOpen(s) == s.out = Never
OpenShifts(w) == {s \in shifts : s.person = w /\ IsOpen(s)}
Replace(s, t) == (shifts \ {s}) \cup {t}
Bound    == station.bound /\ deviceActive
Cleared  == [station EXCEPT !.person = NoOne]
Identified == Bound /\ station.person # NoOne /\ time - station.since <= PinSeconds
Locked(w)  == station.tries[w].until > time

StationInit ==
  /\ time = 0
  /\ deviceActive = TRUE
  /\ station = Unbound
  /\ pins \in [Workers -> BOOLEAN]
  /\ shifts \in Recorded
  /\ rules = {}
  /\ payer = [w \in Workers |-> {}]
  /\ credits = {}

OnlySession == UNCHANGED <<time, deviceActive, pins, shifts, rules, payer, credits>>
OnlyShifts  == UNCHANGED <<time, deviceActive, station, pins, rules, payer, credits>>

(*------------------------- the shared device -----------------------------*)
StationActivate == deviceActive /\ station' = [Cleared EXCEPT !.bound = TRUE] /\ OnlySession
\* Deactivating ends the session and forgets the failures.
StationDeactivate == station' = Unbound /\ OnlySession

\* A request that finds the device inactive drops it from the session.
StationLost == station.bound /\ ~deviceActive /\ station' = [station EXCEPT !.bound = FALSE] /\ OnlySession

StationHome == Bound /\ station' = Cleared /\ OnlySession

\* Mutant: the count survives the lock.
Unlocked_Keeps(w) == station.tries[w]

\* A lock that has run out is removed with its count.
Unlocked(w) ==
  IF station.tries[w].until = Never \/ Locked(w) THEN station.tries[w] ELSE NoTries

\* Mutant: only the failures before the lock are counted.
StationIdentifyRight_Locked(w) ==
  /\ Bound /\ pins[w]
  /\ station' = [station EXCEPT !.person = w, !.since = time, !.tries[w] = NoTries]
  /\ OnlySession

StationIdentifyRight(w) ==
  /\ Bound /\ pins[w]
  /\ ~Locked(w)
  /\ station' = [station EXCEPT !.person = w, !.since = time, !.tries[w] = NoTries]
  /\ OnlySession

StationIdentifyWrong(w) ==
  /\ Bound /\ pins[w]
  /\ ~Locked(w)
  /\ LET count == Unlocked(w).count + 1
     IN station' = [station EXCEPT !.tries[w] =
          [count |-> count, until |-> IF count >= MaxTries THEN time + LockSeconds ELSE Never]]
  /\ OnlySession

\* Mutant: the next person at the device is still the last one.
After_Stays == station

\* Every entry sends the person away.
After == Cleared

\* station_action; the form offers the roles a worker holds.
StationClockIn(id, role) ==
  /\ Identified
  /\ OpenShifts(station.person) = {}
  /\ \A s \in shifts : s.id # id
  /\ shifts' = shifts \cup {[id |-> id, person |-> station.person, role |-> role, in |-> time, out |-> Never,
                            approved |-> FALSE]}
  /\ station' = After
  /\ UNCHANGED <<time, deviceActive, pins, rules, payer, credits>>

StationClockOut(s) ==
  /\ Identified
  /\ s \in OpenShifts(station.person)
  /\ shifts' = Replace(s, [s EXCEPT !.out = time])
  /\ station' = After
  /\ UNCHANGED <<time, deviceActive, pins, rules, payer, credits>>

(*----------------------- managers and their review -----------------------*)
StationDeviceEdit(active) == deviceActive' = active /\ UNCHANGED <<time, station, pins, shifts, rules, payer, credits>>
StationPersonPin(w, active) == pins' = [pins EXCEPT ![w] = active] /\ UNCHANGED <<time, deviceActive, station, shifts, rules, payer, credits>>

\* Mutant: one open shift for each person is only looked for when clocking in.
ShiftClean_Closed(s, new) == new.out = Never \/ new.out >= new.in

ShiftClean(s, new) ==
  /\ new.out = Never \/ new.out >= new.in
  /\ IsOpen(new) => OpenShifts(new.person) \ {s} = {}          \* unique_open_work_shift_per_person

\* station_shift_edit: role and times of any shift, approved or not.
StationShiftEdit(s, new) ==
  /\ s \in shifts
  /\ new.id = s.id /\ new.person = s.person /\ new.approved = s.approved
  /\ ShiftClean(s, new)
  /\ shifts' = Replace(s, new)
  /\ OnlyShifts

StationShiftApprove(s) ==
  /\ s \in shifts /\ ~IsOpen(s)
  /\ shifts' = Replace(s, [s EXCEPT !.approved = TRUE])
  /\ OnlyShifts

(*------------------------------- credits ---------------------------------*)
Worked(s) == IF IsOpen(s) THEN 0 ELSE s.out - s.in
Amount(rule, s) == Rate[rule] * Worked(s)
\* Mutant: any shift that is over earns.
Creditable_Closed(s) == s.role = "working_student" /\ ~IsOpen(s) /\ Worked(s) > 0

Creditable(s) == s.role = "working_student" /\ ~IsOpen(s) /\ s.approved /\ Worked(s) > 0

\* Mutant: a credit is looked up by its shift, whatever account it was posted to, and never found.
Existing_None(account, rule, s) == {}

Existing(account, rule, s) == {c \in credits : c.account = account /\ c.rule = rule /\ c.shift = s.id}

\* station_shift_post_credit: one active rule and one account, and once for each of them.
StationShiftPostCredit(s) ==
  /\ s \in shifts /\ Creditable(s)
  /\ \E rule \in rules, account \in payer[s.person] :
       /\ rules = {rule} /\ payer[s.person] = {account}
       /\ credits' = IF Existing(account, rule, s) # {} THEN credits
                     ELSE credits \cup {[account |-> account, rule |-> rule, shift |-> s.id, amount |-> Amount(rule, s)]}
  /\ UNCHANGED <<time, deviceActive, station, pins, shifts, rules, payer>>

CreditRuleEdit(set)   == rules' = set /\ UNCHANGED <<time, deviceActive, station, pins, shifts, payer, credits>>
ParticipantEdit(w, a) == payer' = [payer EXCEPT ![w] = a] /\ UNCHANGED <<time, deviceActive, station, pins, shifts, rules, credits>>

\* What the review shows beside an approved shift of a working student.
CreditPreview(s) ==
  IF s.role # "working_student" THEN "employee_hours"
  ELSE IF Cardinality(rules) > 1 THEN "multiple_rules"
  ELSE IF rules = {} THEN "no_rule"
  ELSE IF Cardinality(payer[s.person]) > 1 THEN "ambiguous_account"
  ELSE IF payer[s.person] = {} THEN "no_account"
  ELSE IF \E rule \in rules, account \in payer[s.person] : Existing(account, rule, s) # {} THEN "posted"
  ELSE "ready"

\* The totals of the review and of the export.
MinutesOf(w, set) == FoldSet(LAMBDA s, n : Worked(s) + n, 0, {s \in set : s.person = w})
ReviewTotals(w) == [all |-> MinutesOf(w, shifts), approved |-> MinutesOf(w, {s \in shifts : s.approved}),
                    student |-> MinutesOf(w, {s \in shifts : s.role = "working_student"}),
                    count |-> Cardinality({s \in shifts : s.person = w /\ ~IsOpen(s)})]

Tick == time < MaxTime /\ time' = time + 1
        /\ UNCHANGED <<deviceActive, station, pins, shifts, rules, payer, credits>>

DeviceStep ==
  \/ StationActivate \/ StationDeactivate \/ StationLost \/ StationHome
  \/ \E w \in Workers : StationIdentifyRight(w) \/ StationIdentifyWrong(w) \/ \E b \in BOOLEAN : StationPersonPin(w, b)
  \/ \E id \in ShiftIds, role \in WorkRoles : StationClockIn(id, role)
  \/ \E s \in shifts : StationClockOut(s)
  \/ \E b \in BOOLEAN : StationDeviceEdit(b)
  \/ Tick

Edits(s) == {t \in Shift : t.id = s.id /\ t.person = s.person /\ t.approved = s.approved}
ReviewStep ==
  \/ \E s \in shifts : StationShiftApprove(s) \/ StationShiftPostCredit(s) \/ \E new \in Edits(s) : StationShiftEdit(s, new)
  \/ \E set \in SUBSET Rules : CreditRuleEdit(set)
  \/ \E w \in Workers, a \in SUBSET Accounts : ParticipantEdit(w, a)

StationNext == DeviceStep \/ ReviewStep
StationSpec == StationInit /\ [][StationNext]_stationVars

(*------------------------------ properties -------------------------------*)
StationTypeOK ==
  /\ time \in 0..MaxTime /\ deviceActive \in BOOLEAN /\ pins \in [Workers -> BOOLEAN]
  /\ station \in Session
  /\ shifts \subseteq Shift /\ credits \subseteq Credit
  /\ rules \subseteq Rules /\ payer \in [Workers -> SUBSET Accounts]

\* A person has one open shift at most, through the device and the managers' corrections.
OneOpenShift == \A w \in Workers : Cardinality(OpenShifts(w)) <= 1

\* A PIN is good for one entry: when a shift is opened at the device nobody is its person any more.
PinBuysOneEntry == [][(\E s \in shifts' : \A t \in shifts : s.id # t.id) => station'.person = NoOne]_stationVars

\* While a PIN is locked on the device nobody becomes its person.
LockedMeansOut == [][\A w \in Workers : (Locked(w) /\ station'.person = w) => station.person = w]_stationVars

\* Credits come from work that was over, approved and longer than nothing when they were posted.
CreditsAreEarned ==
  [][\A c \in credits' \ credits : \E s \in shifts : s.id = c.shift /\ s.approved /\ s.role = "working_student" /\ s.out > s.in]_stationVars

\* Posting again posts nothing: an account has one credit for a shift under one rule.
OneCreditPerRule ==
  \A c, d \in credits : (c.account = d.account /\ c.rule = d.rule /\ c.shift = d.shift) => c = d

=============================================================================
