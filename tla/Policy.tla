------------------------------- MODULE Policy -------------------------------
(***************************************************************************)
(* SpendingPolicy: what from_rules makes of a policy's rules and what      *)
(* evaluate decides about an intent.                                       *)
(*                                                                         *)
(* A policy is a record: limit, approval and notify are the three amounts; *)
(* allow and deny hold a set of names for each of five dimensions;         *)
(* weekdays, start and end are the schedule.  Absent is Python's None.  An *)
(* intent has an amount, a name (or Absent) for each dimension and, in at, *)
(* its requested_at.  A name is a word and how it is spelled: in another   *)
(* letter case than the canonical one, or with blanks around it.           *)
(***************************************************************************)
EXTENDS Integers

CONSTANTS
    Words,      \* the words names are made of
    Absent,     \* None
    Day         \* the number of instants of a day

Dimensions == {"currency", "category", "domain", "region", "instrument"}
Name == [word : Words, cased : BOOLEAN, padded : BOOLEAN]
Instants == 0..(Day - 1)
Decisions == {"ALLOW_AUTO", "ALLOW_NOTIFY", "REQUIRE_APPROVAL", "DENY"}

ASSUME PolicyAssumption ==
    /\ Absent \notin Int \cup Name
    /\ \A names \in SUBSET Name : Absent # names
    /\ Day \in Nat \ {0}

----------------------------------------------------------------------------
(* from_rules *)

\* Seeded fault: the names of a rule are taken as they are written.
FaultParseName(d, n) == n

\* Every rule's letter case is unified; strip() is called for two of the
\* dimensions only.
ParseName(d, n) ==
    [n EXCEPT !.cased = FALSE,
              !.padded = @ /\ d \notin {"category", "domain"}]

\* What from_rules does not raise an exception for: amounts are numbers,
\* weekdays lie between 0 and 6, times are times of day.
WellFormed(rules) ==
    rules \in [limit : Int,
               approval : Int \cup {Absent},
               notify : Int \cup {Absent},
               allow : [Dimensions -> {Absent} \cup SUBSET Name],
               deny : [Dimensions -> SUBSET Name],
               weekdays : {Absent} \cup SUBSET (0..6),
               start : Instants \cup {Absent},
               end : Instants \cup {Absent}]

FromRules(rules) ==
    [rules EXCEPT
        !.allow = [d \in Dimensions |->
                     IF @[d] = Absent THEN Absent
                     ELSE {ParseName(d, n) : n \in @[d]}],
        !.deny = [d \in Dimensions |-> {ParseName(d, n) : n \in @[d]}]]

----------------------------------------------------------------------------
(* evaluate *)

\* The intent's name as evaluate_with_trace normalises it.
Normal(n) ==
    IF n = Absent THEN Absent
    ELSE [n EXCEPT !.cased = FALSE, !.padded = FALSE]

\* ..._DENIED or ..._NOT_ALLOWED: what is not named is never denied, and
\* never on an allow list.
NameRefused(policy, intent, d) ==
    LET n == Normal(intent.names[d])
    IN  \/ n # Absent /\ n \in policy.deny[d]
        \/ policy.allow[d] # Absent /\ n \notin policy.allow[d]

\* Seeded fault: a window over midnight is read as one within a day.
FaultTimeInWindow(t, start, end) ==
    /\ start = Absent \/ t >= start
    /\ end = Absent \/ t <= end

TimeInWindow(t, start, end) ==
    CASE start = Absent -> end = Absent \/ t <= end
      [] start # Absent /\ end = Absent -> t >= start
      [] start # Absent /\ end # Absent ->
            IF start <= end THEN start <= t /\ t <= end
                            ELSE t >= start \/ t <= end

\* REQUEST_TIME_REQUIRED, WEEKDAY_NOT_ALLOWED or TIME_WINDOW_NOT_ALLOWED.
OffSchedule(policy, intent) ==
    \/ /\ policy.weekdays # Absent
       /\ intent.at = Absent \/ intent.at.weekday \notin policy.weekdays
    \/ /\ {policy.start, policy.end} # {Absent}
       /\ \/ intent.at = Absent
          \/ ~TimeInWindow(intent.at.time, policy.start, policy.end)

Above(amount, threshold) == threshold # Absent /\ amount > threshold

\* Any reason at all denies.
Denies(policy, intent) ==
    \/ policy.limit <= 0
    \/ intent.amount > policy.limit
    \/ \E d \in Dimensions : NameRefused(policy, intent, d)
    \/ OffSchedule(policy, intent)

\* Seeded fault: the notification threshold is looked at first.
FaultEvaluate(policy, intent) ==
    IF Denies(policy, intent) THEN "DENY"
    ELSE IF Above(intent.amount, policy.notify) THEN "ALLOW_NOTIFY"
    ELSE IF Above(intent.amount, policy.approval) THEN "REQUIRE_APPROVAL"
    ELSE "ALLOW_AUTO"

Evaluate(policy, intent) ==
    IF Denies(policy, intent) THEN "DENY"
    ELSE IF Above(intent.amount, policy.approval) THEN "REQUIRE_APPROVAL"
    ELSE IF Above(intent.amount, policy.notify) THEN "ALLOW_NOTIFY"
    ELSE "ALLOW_AUTO"

----------------------------------------------------------------------------
(* What the two are compared with *)

\* Decisions from the most permissive to the strictest.
Severity(decision) ==
    CASE decision = "ALLOW_AUTO" -> 0
      [] decision = "ALLOW_NOTIFY" -> 1
      [] decision = "REQUIRE_APPROVAL" -> 2
      [] decision = "DENY" -> 3

\* On a clock face, t lies on the way forward from start to end; an open
\* side is the beginning or the end of the day.
OnArc(t, start, end) ==
    LET s == IF start = Absent THEN 0 ELSE start
        e == IF end = Absent THEN Day - 1 ELSE end
    IN  (t - s) % Day <= (e - s) % Day
=============================================================================
