-------------------------- MODULE MinimumShipLevel --------------------------
(***************************************************************************)
(* The minimum ship level check (msl_verify.cpp), a program that runs once *)
(* after the symlinks of the active version are set and logs an error if   *)
(* that version is older than the configured minimum versions allow.  It   *)
(* asks the update manager, which learns of the symlink by inotify, for    *)
(* the functional association and then for the version at its end.         *)
(***************************************************************************)
EXTENDS Integers, Sequences

CONSTANTS Numbers,     \* the versions that occur: [major, minor, rev, short], each
                       \* number below 1000, for "vX.Y.Z" or, if short, "vX.Y"
          MaxMinimums, \* bound: how many minimum versions are configured
          WatchLag     \* whether the program may run before the update manager
                       \* has handled the new symlink

Ids == {"previous", "current"}
Absent == "none"

VARIABLES text,       \* the version string of every version
          functional, \* the functional association of the update manager
          objects,    \* the versions it has objects for
          mins,       \* the minimum versions, sorted
          named,      \* the version whose string the program asks for
          actual,     \* the string it was given
          next,       \* the position of the loop over mins
          rc,         \* the last comparison
          verdict     \* "none", "met", "not met" or "exception"

daemon == <<text, functional, objects>>
vars == <<daemon, mins, named, actual, next, rc, verdict>>

(***************************************************************************)
(* Strings                                                                 *)
(***************************************************************************)

\* The decimal digits of a number below 1000; a period sorts before them.
Digits(n) ==
    CASE n < 10               -> <<n>>
      [] n \in 10 .. 99       -> <<n \div 10, n % 10>>
      [] n \in 100 .. 999     -> <<n \div 100, (n \div 10) % 10, n % 10>>
Period == <<-1>>
Text(v) ==
    Digits(v.major) \o Period \o Digits(v.minor)
        \o IF v.short THEN <<>> ELSE Period \o Digits(v.rev)

TextLess(v, w) ==
    LET a == Text(v)  b == Text(w) IN
    \/ Len(a) < Len(b) /\ a = SubSeq(b, 1, Len(a))
    \/ \E i \in DOMAIN a \cap DOMAIN b :
        /\ a[i] < b[i]
        /\ \A j \in 1 .. i - 1 : a[j] = b[j]

\* parse: the fields of MinimumShipLevel::Version are uint8_t.
Parsed(v) == [major |-> v.major % 256, minor |-> v.minor % 256, rev |-> v.rev % 256]

Sign(a, b) == IF a < b THEN -1 ELSE IF a > b THEN 1 ELSE 0

compare(a, b) ==
    IF a.major # b.major THEN Sign(a.major, b.major)
    ELSE IF a.minor # b.minor THEN Sign(a.minor, b.minor)
    ELSE Sign(a.rev, b.rev)

(***************************************************************************)
(* The update manager                                                      *)
(***************************************************************************)

\* The minimum versions, in the order of their strings.
Sorted(n) ==
    {chosen \in [1 .. n -> Numbers] :
        \A i, j \in 1 .. n : i < j => ~TextLess(chosen[j], chosen[i])}

Init ==
    /\ text \in [Ids -> Numbers]
    /\ objects \in {{"current"}, Ids}
    /\ functional \in {"current"} \cup (IF WatchLag THEN {Absent} \cup (objects \cap {"previous"})
                                                   ELSE {})
    /\ \E n \in 0 .. MaxMinimums : mins \in Sorted(n)
    /\ named = Absent
    /\ actual = Absent
    /\ next = 1
    /\ rc = 0
    /\ verdict = "none"

\* Watch::callback.
SymlinkHandled ==
    /\ functional # "current"
    /\ functional' = "current"
    /\ UNCHANGED <<text, objects, mins, named, actual, next, rc, verdict>>

\* A client deletes the version that was functional before.
ErasePrevious ==
    /\ "previous" \in objects
    /\ functional # "previous"
    /\ objects' = objects \ {"previous"}
    /\ UNCHANGED <<text, functional, mins, named, actual, next, rc, verdict>>

(***************************************************************************)
(* The program                                                             *)
(***************************************************************************)

Running == verdict = "none"

\* Nothing to verify, or nothing to verify it with.
ReadAssociations ==
    /\ Running
    /\ named = Absent
    /\ named' = IF mins = <<>> THEN Absent ELSE functional
    /\ verdict' = IF mins = <<>> \/ functional = Absent THEN "met" ELSE "none"
    /\ UNCHANGED <<daemon, mins, actual, next, rc>>

\* The call for a version that is no longer there throws.
ReadVersion ==
    /\ Running
    /\ named # Absent
    /\ actual = Absent
    /\ IF named \in objects
       THEN actual' = named /\ UNCHANGED verdict
       ELSE verdict' = "exception" /\ UNCHANGED actual
    /\ UNCHANGED <<daemon, mins, named, next, rc>>

WithoutRev(v) == [v EXCEPT !.rev = 0]
OnlyRev(v) == [major |-> 0, minor |-> 0, rev |-> v.rev]

\* major.minor first; the rev only if these are the same.
Compared(v, m) ==
    IF compare(WithoutRev(v), WithoutRev(m)) = 0 THEN compare(OnlyRev(v), OnlyRev(m))
    ELSE compare(WithoutRev(v), WithoutRev(m))

\* The mutant of Goes: the loop goes on until a minimum is not met.
GoesOn(v, m) == Compared(v, m) >= 0

\* The loop ends with a minimum whose major.minor is not below the version's.
Goes(v, m) == compare(WithoutRev(v), WithoutRev(m)) > 0

CheckMinimum ==
    /\ Running
    /\ actual # Absent
    /\ next \in DOMAIN mins
    /\ LET v == Parsed(text[actual])  m == Parsed(mins[next]) IN
        /\ rc' = Compared(v, m)
        /\ next' = IF Goes(v, m) THEN next + 1 ELSE Len(mins) + 1
    /\ UNCHANGED <<daemon, mins, named, actual, verdict>>

Decide ==
    /\ Running
    /\ actual # Absent
    /\ next \notin DOMAIN mins
    /\ verdict' = IF rc < 0 THEN "not met" ELSE "met"
    /\ UNCHANGED <<daemon, mins, named, actual, next, rc>>

Next == \/ SymlinkHandled \/ ErasePrevious
        \/ ReadAssociations \/ ReadVersion \/ CheckMinimum \/ Decide

Spec == Init /\ [][Next]_vars

(***************************************************************************)
(* Properties                                                              *)
(***************************************************************************)

TypeOK ==
    /\ text \in [Ids -> Numbers]
    /\ functional \in Ids \cup {Absent}
    /\ objects \subseteq Ids
    /\ mins \in Seq(Numbers)
    /\ named \in Ids \cup {Absent}
    /\ actual \in {Absent, named}
    /\ next \in 1 .. Len(mins) + 1
    /\ rc \in {-1, 0, 1}
    /\ verdict \in {"none", "met", "not met", "exception"}

\* The order of releases, for any numbers.
Older(v, w) ==
    \/ v.major < w.major
    \/ v.major = w.major /\ v.minor < w.minor
SameRelease(v, w) == v.major = w.major /\ v.minor = w.minor

\* "In order to handle non-continuous multiple min versions [...] the min
\* versions specified are 2.0.10 and 2.2. We need to pass if actual is 2.0.11
\* but fail if it's 2.1.x" (verify): a release that has a minimum of its own
\* must reach it, another one must be newer than all of them.
Meets(v, minimums) ==
    IF \E m \in minimums : SameRelease(v, m)
    THEN \E m \in minimums : SameRelease(v, m) /\ v.rev >= m.rev
    ELSE \A m \in minimums : Older(m, v)

OnePerRelease == \A i, j \in DOMAIN mins : SameRelease(mins[i], mins[j]) => i = j

VerdictIsRight ==
    verdict \in {"met", "not met"} /\ actual # Absent /\ OnePerRelease =>
        (verdict = "met" <=> Meets(text[actual], {mins[i] : i \in DOMAIN mins}))

\* It holds as long as the fields fit and the order of the strings is that of
\* the releases.
InOrder ==
    /\ \A v \in {text[id] : id \in Ids} \cup {mins[i] : i \in DOMAIN mins} :
        {v.major, v.minor, v.rev} \subseteq 0 .. 255
    /\ \A i, j \in DOMAIN mins : i < j => Older(mins[i], mins[j])
VerdictIsRightInOrder == InOrder => VerdictIsRight
=============================================================================
