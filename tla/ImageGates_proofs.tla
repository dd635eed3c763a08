------------------------- MODULE ImageGates_proofs --------------------------
(***************************************************************************)
(* What a valid signature takes, for any key types and keys; and when a    *)
(* version meets the minimum ship level, for any versions.                 *)
(***************************************************************************)
EXTENDS MC_ImageGates, SequenceTheorems, TLAPS

(***************************************************************************)
(* The signatures                                                          *)
(***************************************************************************)

\* What the checks passed so far have established.
Checked ==
    /\ config \in [DOMAIN config -> Config]
    /\ pc \in {"publickey", "image"} =>
        /\ current \in DOMAIN config
        /\ config[current].hash = "digest"
        /\ config[current].key \in SystemKeys
        /\ manifest.signature = config[current].key
    /\ pc = "image" => publickey.signature = config[current].key
    /\ publickey.key \in {ImageKey, Garbage, None}
    /\ todo \subseteq DOMAIN config
    /\ fieldMode \in {"on", "off", "failure", "noService"}
    /\ outcome = "none" \/ pc = "done"
    /\ OnlySignedInField

\* A file counts as valid only with the signature of the key it is checked with.
LEMMA ValidMeansSigned ==
    ASSUME NEW there, NEW s, NEW k, NEW h, VerifyFile(there, s, k, h) = "valid"
    PROVE  there /\ s = k /\ k \notin {None, Garbage} /\ h = "digest"
  BY DEF VerifyFile

\* In field mode only an image signed all through is activated, in whatever
\* order the key types are tried and whenever the upload is removed.
THEOREM OnlySignedHolds == Spec => []OnlySignedInField
  <1>1. Init => Checked
    BY DEF Init, Checked, OnlySignedInField
  <1>2. Checked /\ [Next]_vars => Checked'
    <2> SUFFICES ASSUME Checked, [Next]_vars PROVE Checked'
      OBVIOUS
    <2>1. CASE Construct
      BY <2>1 DEF Construct, Goto, Checked, OnlySignedInField, given, Signed, SignedBy
    <2>2. CASE FindKeyTypes
      BY <2>2 DEF FindKeyTypes, Goto, Checked, OnlySignedInField, given, Signed, SignedBy
    <2>3. CASE CheckManifest
      <3>1. PICK t \in todo :
              /\ current' = t
              /\ todo' = todo \ {t}
              /\ \/ HashReadable(t) /\ ManifestResult(t) = "valid" /\ pc' = "publickey"
                 \/ pc' \in {"rejected", "manifest"}
        BY <2>3 DEF CheckManifest, Goto, AfterManifest, NextOf
      <3>2. given' = given /\ outcome' = outcome /\ pc = "manifest"
        BY <2>3 DEF CheckManifest
      <3>3. outcome = "none"
        BY <3>2 DEF Checked
      <3>4. CASE ManifestResult(t) = "valid" /\ pc' = "publickey"
        <4>1. /\ manifest.signature = config[t].key
              /\ config[t].key \notin {None, Garbage}
              /\ config[t].hash = "digest"
          BY <3>4, ValidMeansSigned DEF ManifestResult
        <4>2. config[t].key \in SystemKeys
          BY <4>1, <3>1 DEF Checked, Config
        <4> QED
          BY <3>1, <3>2, <3>3, <3>4, <4>1, <4>2 DEF Checked, OnlySignedInField, given
      <3>5. CASE pc' \in {"rejected", "manifest"}
        BY <3>1, <3>2, <3>3, <3>5 DEF Checked, OnlySignedInField, given
      <3> QED
        BY <3>1, <3>4, <3>5
    <2>4. CASE CheckPublicKey
      <3>1. \/ PublicKeyResult(current) = "valid" /\ pc' = "image"
            \/ pc' \in {"rejected", "manifest"}
        BY <2>4 DEF CheckPublicKey, Goto, NextOf
      <3>2. /\ given' = given /\ outcome' = outcome /\ pc = "publickey"
            /\ todo' = todo /\ current' = current
        BY <2>4 DEF CheckPublicKey
      <3>3. outcome = "none"
        BY <3>2 DEF Checked
      <3>4. CASE PublicKeyResult(current) = "valid" /\ pc' = "image"
        <4>1. publickey.signature = config[current].key
          BY <3>4, ValidMeansSigned DEF PublicKeyResult
        <4> QED
          BY <3>2, <3>3, <3>4, <4>1 DEF Checked, OnlySignedInField, given
      <3>5. CASE pc' \in {"rejected", "manifest"}
        BY <3>2, <3>3, <3>5 DEF Checked, OnlySignedInField, given
      <3> QED
        BY <3>1, <3>4, <3>5
    <2>5. CASE CheckImage
      <3>1. \/ ImageResult = "valid" /\ outcome' = "valid" /\ pc' = "done"
            \/ outcome' = outcome /\ pc' = "rejected"
        BY <2>5 DEF CheckImage, Goto
      <3>2. /\ given' = given /\ pc = "image" /\ outcome = "none"
            /\ todo' = todo /\ current' = current
        BY <2>5 DEF CheckImage, Checked
      <3>3. CASE ImageResult = "valid" /\ outcome' = "valid" /\ pc' = "done"
        <4>1. present /\ image.signature = publickey.key /\ manifest.hash = "digest"
                /\ publickey.key \notin {None, Garbage}
          BY <3>3, ValidMeansSigned DEF ImageResult
        <4>2. Signed
          BY <3>2, <4>1 DEF Checked, Signed, SignedBy
        <4> QED
          BY <3>2, <3>3, <4>2 DEF Checked, OnlySignedInField, given, Signed, SignedBy
      <3>4. CASE outcome' = outcome /\ pc' = "rejected"
        BY <3>2, <3>4 DEF Checked, OnlySignedInField, given
      <3> QED
        BY <3>1, <3>3, <3>4
    <2>6. CASE AskFieldMode
      <3>1. outcome' = "valid" => fieldMode' = "off"
        BY <2>6 DEF AskFieldMode, Checked, given
      <3> QED
        BY <2>6, <3>1 DEF AskFieldMode, Goto, Checked, OnlySignedInField, given
    <2>7. CASE Discard
      BY <2>7 DEF Discard, Checked, OnlySignedInField, given, Signed, SignedBy
    <2>8. CASE UNCHANGED vars
      BY <2>8 DEF vars, given, Checked, OnlySignedInField, Signed, SignedBy
    <2> QED
      BY <2>1, <2>2, <2>3, <2>4, <2>5, <2>6, <2>7, <2>8 DEF Next
  <1>3. Checked => OnlySignedInField
    BY DEF Checked
  <1> QED
    BY <1>1, <1>2, <1>3, PTL DEF Spec

(***************************************************************************)
(* The minimum ship level                                                  *)
(***************************************************************************)

Fields(v) == {v.major, v.minor, v.rev} \subseteq 0 .. 255

\* The fields of a version are numbers.
LEMMA FieldsAreInt ==
    ASSUME NEW v, Fields(v)
    PROVE  v.major \in Int /\ v.minor \in Int /\ v.rev \in Int
  BY DEF Fields

\* A field that fits is parsed as it is, and the comparison is that of the numbers.
LEMMA ComparedIs ==
    ASSUME NEW v, NEW m, Fields(v), Fields(m)
    PROVE  /\ Ship!Goes(Ship!Parsed(v), Ship!Parsed(m)) <=> Ship!Older(m, v)
           /\ Ship!Older(m, v) => Ship!Compared(Ship!Parsed(v), Ship!Parsed(m)) = 1
           /\ Ship!Older(v, m) => Ship!Compared(Ship!Parsed(v), Ship!Parsed(m)) = -1
           /\ Ship!SameRelease(v, m) =>
                  (Ship!Compared(Ship!Parsed(v), Ship!Parsed(m)) >= 0 <=> v.rev >= m.rev)
           /\ Ship!Compared(Ship!Parsed(v), Ship!Parsed(m)) \in {-1, 0, 1}
<1>1. Ship!Parsed(v) = [major |-> v.major, minor |-> v.minor, rev |-> v.rev]
  BY DEF Ship!Parsed, Fields
<1>2. Ship!Parsed(m) = [major |-> m.major, minor |-> m.minor, rev |-> m.rev]
  BY DEF Ship!Parsed, Fields
<1>3. /\ Ship!WithoutRev(Ship!Parsed(v)) = [major |-> v.major, minor |-> v.minor, rev |-> 0]
      /\ Ship!WithoutRev(Ship!Parsed(m)) = [major |-> m.major, minor |-> m.minor, rev |-> 0]
      /\ Ship!OnlyRev(Ship!Parsed(v)) = [major |-> 0, minor |-> 0, rev |-> v.rev]
      /\ Ship!OnlyRev(Ship!Parsed(m)) = [major |-> 0, minor |-> 0, rev |-> m.rev]
  <2>1. \A a, b, c : Ship!WithoutRev([major |-> a, minor |-> b, rev |-> c])
                     = [major |-> a, minor |-> b, rev |-> 0]
    BY DEF Ship!WithoutRev
  <2>2. \A a, b, c : Ship!OnlyRev([major |-> a, minor |-> b, rev |-> c])
                     = [major |-> 0, minor |-> 0, rev |-> c]
    BY DEF Ship!OnlyRev
  <2> QED BY <1>1, <1>2, <2>1, <2>2
<1>4. v.major \in Int /\ v.minor \in Int /\ v.rev \in Int
      /\ m.major \in Int /\ m.minor \in Int /\ m.rev \in Int
  BY DEF Fields
<1>5. Ship!compare(Ship!OnlyRev(Ship!Parsed(v)), Ship!OnlyRev(Ship!Parsed(m)))
          = Ship!Sign(v.rev, m.rev)
  BY <1>3 DEF Ship!compare
<1>6. Ship!compare(Ship!WithoutRev(Ship!Parsed(v)), Ship!WithoutRev(Ship!Parsed(m)))
          = IF v.major # m.major THEN Ship!Sign(v.major, m.major) ELSE Ship!Sign(v.minor, m.minor)
  <2>1. Ship!Sign(0, 0) = 0 BY DEF Ship!Sign
  <2>2. v.minor = m.minor => Ship!Sign(v.minor, m.minor) = 0 BY <1>4 DEF Ship!Sign
  <2> QED BY <1>3, <2>1, <2>2 DEF Ship!compare
<1> QED
  BY <1>4, <1>5, <1>6 DEF Ship!Goes, Ship!Compared, Ship!Sign, Ship!Older, Ship!SameRelease

\* The minimums that were looked at are those of older releases, but for the last one, at
\* which the loop has ended; rc is the comparison with that one.
Passed(k) == \A i \in 1 .. k : Ship!Older(mins[i], text[actual])

Stopped ==
    \E k \in 1 .. Len(mins) :
        /\ Passed(k - 1)
        /\ rc = Ship!Compared(Ship!Parsed(text[actual]), Ship!Parsed(mins[k]))
        /\ k = Len(mins) \/ ~Ship!Older(mins[k], text[actual])

Loop ==
    /\ next \in 1 .. Len(mins) + 1
    /\ next \in 1 .. Len(mins) => Passed(next - 1)
    /\ next = Len(mins) + 1 => Stopped
    /\ verdict \in {"met", "not met"} => next = Len(mins) + 1 /\ (verdict = "met" <=> rc >= 0)

ShipInv ==
    /\ Len(mins) \in Nat /\ DOMAIN mins = 1 .. Len(mins)
    /\ functional \in Ship!Ids \cup {Ship!Absent}
    /\ named \in Ship!Ids \cup {Ship!Absent}
    /\ named # Ship!Absent => Len(mins) > 0
    /\ actual \in {Ship!Absent, named}
    /\ actual = Ship!Absent => next = 1
    /\ Ship!InOrder /\ actual # Ship!Absent => Loop

\* The check of the ship level starts with no minimum passed.
LEMMA ShipStart == GatesInit => ShipInv
<1> SUFFICES ASSUME GatesInit PROVE ShipInv OBVIOUS
<1>1. Len(mins) \in Nat /\ DOMAIN mins = 1 .. Len(mins)
  <2>1. CASE mins = <<>> BY <2>1, EmptySeq, LenProperties
  <2>2. CASE Ship!Init
    <3>1. PICK n \in 0 .. MaxMinimums : mins \in [1 .. n -> Numbers]
      BY <2>2 DEF Ship!Init, Ship!Sorted
    <3>2. mins \in Seq(Numbers)
      BY <3>1, SeqDef
    <3> QED BY <3>2, LenProperties
  <2> QED BY <2>1, <2>2 DEF GatesInit
<1> QED BY <1>1 DEF GatesInit, Ship!Init, ShipInv, Ship!Ids

\* The fields of the version that is judged and of the minimums fit.
LEMMA InOrderFields ==
    ASSUME ShipInv, Ship!InOrder, actual # Ship!Absent
    PROVE  Fields(text[actual]) /\ \A i \in 1 .. Len(mins) : Fields(mins[i])
<1>1. actual \in Ship!Ids BY DEF ShipInv
<1>2. \A v \in {text[id] : id \in Ship!Ids} \cup {mins[i] : i \in DOMAIN mins} : Fields(v)
  BY DEF Ship!InOrder, Fields
<1> QED BY <1>1, <1>2 DEF ShipInv

\* One round of the loop over the minimum versions: it goes on past those that are older.
LEMMA CheckLoop ==
    ASSUME ShipInv, Ship!InOrder, Ship!CheckMinimum PROVE Loop'
<1>1. /\ next \in 1 .. Len(mins) /\ actual # Ship!Absent /\ verdict' = "none"
      /\ UNCHANGED <<text, mins, actual>>
  BY DEF Ship!CheckMinimum, Ship!daemon, Ship!Running, ShipInv
<1>2. Loop BY <1>1 DEF ShipInv
<1>3. Fields(text[actual]) /\ Fields(mins[next]) BY <1>1, InOrderFields
<1>4. /\ rc' = Ship!Compared(Ship!Parsed(text[actual]), Ship!Parsed(mins[next]))
      /\ next' = IF Ship!Older(mins[next], text[actual]) THEN next + 1 ELSE Len(mins) + 1
  BY <1>3, ComparedIs DEF Ship!CheckMinimum
<1>5. Len(mins) \in Nat BY DEF ShipInv
<1>6. Passed(next - 1) BY <1>1, <1>2 DEF Loop
<1>7. CASE Ship!Older(mins[next], text[actual])
  <2>1. next' = next + 1 BY <1>4, <1>7
  <2>2. Passed(next) BY <1>1, <1>5, <1>6, <1>7 DEF Passed
  <2>3. \A i \in 1 .. next' - 1 : Ship!Older(mins'[i], text'[actual'])
    BY <1>1, <1>5, <2>1, <2>2 DEF Passed
  <2>4. next' = Len(mins) + 1 => Stopped'
    BY <1>1, <1>4, <1>5, <1>6, <2>1 DEF Stopped, Passed
  <2> QED BY <1>1, <1>5, <2>1, <2>3, <2>4 DEF Loop, Passed
<1>8. CASE ~Ship!Older(mins[next], text[actual])
  <2>1. next' = Len(mins) + 1 BY <1>4, <1>8
  <2>2. Stopped' BY <1>1, <1>4, <1>5, <1>6, <1>8 DEF Stopped, Passed
  <2> QED BY <1>1, <1>5, <2>1, <2>2 DEF Loop
<1> QED BY <1>7, <1>8

\* The order of the minimum versions is about these variables.
LEMMA InOrderStays ==
    ASSUME UNCHANGED <<text, mins>> PROVE Ship!InOrder' <=> Ship!InOrder
BY DEF Ship!InOrder

\* What the loop knows is about these variables.
LEMMA LoopStays ==
    ASSUME UNCHANGED <<text, mins, actual, next, rc, verdict>>
    PROVE  (Loop' <=> Loop) /\ (Ship!InOrder' <=> Ship!InOrder)
<1>1. Stopped' <=> Stopped BY DEF Stopped, Passed
<1>2. (\A i \in 1 .. next - 1 : Ship!Older(mins[i], text[actual]))'
          <=> \A i \in 1 .. next - 1 : Ship!Older(mins[i], text[actual])
  OBVIOUS
<1>3. Ship!InOrder' <=> Ship!InOrder BY InOrderStays
<1> QED BY <1>1, <1>2, <1>3 DEF Loop, Passed

\* What is known of the loop is kept by every step of either check.
LEMMA ShipStep == ShipInv /\ [GatesNext]_<<vars, component, shipVars>> => ShipInv'
<1> SUFFICES ASSUME ShipInv, [GatesNext]_<<vars, component, shipVars>> PROVE ShipInv'
  OBVIOUS
<1>1. CASE UNCHANGED shipVars
  BY <1>1, LoopStays DEF shipVars, ShipInv
<1>2. CASE Ship!SymlinkHandled
  BY <1>2, LoopStays DEF Ship!SymlinkHandled, Ship!Ids, ShipInv
<1>3. CASE Ship!ErasePrevious
  BY <1>3, LoopStays DEF Ship!ErasePrevious, ShipInv
<1>4. CASE Ship!ReadAssociations
  <2>1. /\ named = Ship!Absent /\ actual = Ship!Absent
        /\ named' = (IF mins = <<>> THEN Ship!Absent ELSE functional)
        /\ UNCHANGED <<functional, mins, actual, next>>
    BY <1>4 DEF Ship!ReadAssociations, Ship!daemon, ShipInv
  <2>2. mins # <<>> => Len(mins) > 0
    <3>1. DOMAIN mins = 1 .. Len(mins) /\ Len(mins) \in Nat BY DEF ShipInv
    <3> QED BY <3>1
  <2> QED BY <2>1, <2>2 DEF ShipInv
<1>5. CASE Ship!ReadVersion
  <2>1. /\ named # Ship!Absent /\ actual = Ship!Absent
        /\ actual' \in {Ship!Absent, named} /\ UNCHANGED <<functional, mins, named, next>>
        /\ actual' # Ship!Absent => verdict' = "none"
    BY <1>5 DEF Ship!ReadVersion, Ship!daemon, Ship!Running
  <2>2. next = 1 /\ Len(mins) > 0 BY <2>1 DEF ShipInv
  <2>3. actual' # Ship!Absent => Loop'
    BY <2>1, <2>2 DEF ShipInv, Loop, Passed
  <2> QED BY <2>1, <2>2, <2>3 DEF ShipInv
<1>6. CASE Ship!CheckMinimum
  <2>1. UNCHANGED <<text, functional, mins, named, actual>> /\ actual # Ship!Absent
    BY <1>6 DEF Ship!CheckMinimum, Ship!daemon
  <2>2. Ship!InOrder' <=> Ship!InOrder BY <2>1, InOrderStays
  <2>3. Ship!InOrder => Loop' BY <1>6, CheckLoop
  <2> QED BY <2>1, <2>2, <2>3 DEF ShipInv
<1>7. CASE Ship!Decide
  <2>1. UNCHANGED <<text, functional, mins, named, actual, next, rc>>
    BY <1>7 DEF Ship!Decide, Ship!daemon
  <2>2. actual # Ship!Absent /\ next \notin DOMAIN mins
    BY <1>7 DEF Ship!Decide
  <2>3. verdict' = IF rc < 0 THEN "not met" ELSE "met"
    BY <1>7 DEF Ship!Decide
  <2>4. DOMAIN mins = 1 .. Len(mins) /\ Len(mins) \in Nat BY DEF ShipInv
  <2>5. Ship!InOrder' <=> Ship!InOrder
    <3>1. UNCHANGED <<text, mins>> BY <2>1
    <3> QED BY <3>1, InOrderStays
  <2>6. Ship!InOrder => Loop'
    <3> SUFFICES ASSUME Ship!InOrder PROVE Loop' OBVIOUS
    <3>1. Loop BY <2>2 DEF ShipInv
    <3>2. next \in 1 .. Len(mins) + 1 BY <3>1 DEF Loop
    <3>3. next = Len(mins) + 1 BY <2>2, <2>4, <3>2
    <3>4. Stopped BY <3>1, <3>3 DEF Loop
    <3>5. Stopped'
      BY <2>1, <3>4 DEF Stopped, Passed
    <3>6. PICK k \in 1 .. Len(mins) :
            rc = Ship!Compared(Ship!Parsed(text[actual]), Ship!Parsed(mins[k]))
      BY <3>4 DEF Stopped
    <3>7. Fields(text[actual]) /\ Fields(mins[k]) BY <2>2, InOrderFields
    <3>8. rc \in {-1, 0, 1} BY <3>6, <3>7, ComparedIs
    <3>9. rc < 0 <=> ~(rc >= 0) BY <3>8
    <3>10. (verdict' = "met") <=> (rc >= 0) BY <2>3, <3>9, Zenon
    <3>11. rc' = rc /\ next' = next /\ mins' = mins BY <2>1
    <3>12. (verdict' = "met") <=> (rc' >= 0) BY <3>10, <3>11
    <3>13. next' \in 1 .. Len(mins') + 1 /\ next' = Len(mins') + 1 BY <3>2, <3>3, <3>11
    <3>14. ~(next' \in 1 .. Len(mins')) BY <2>4, <3>3, <3>11
    <3> QED BY <3>5, <3>12, <3>13, <3>14, Zenon DEF Loop
  <2> QED BY <2>1, <2>2, <2>5, <2>6 DEF ShipInv
<1> QED
  BY <1>1, <1>2, <1>3, <1>4, <1>5, <1>6, <1>7 DEF GatesNext, OfVerify, OfShip

\* With the minimums in the order of the releases, the last one looked at decides: it is
\* the version's own release, or the next one above, or the highest there is.
LEMMA StoppedDecides ==
    ASSUME ShipInv, Ship!InOrder, actual # Ship!Absent, Stopped
    PROVE  rc >= 0 <=> Ship!Meets(text[actual], {mins[i] : i \in DOMAIN mins})
<1> DEFINE v == text[actual]
<1>1. PICK k \in 1 .. Len(mins) :
        /\ Passed(k - 1)
        /\ rc = Ship!Compared(Ship!Parsed(v), Ship!Parsed(mins[k]))
        /\ k = Len(mins) \/ ~Ship!Older(mins[k], v)
  BY DEF Stopped
<1>2. Len(mins) \in Nat /\ DOMAIN mins = 1 .. Len(mins) BY DEF ShipInv
<1>3. Fields(v) /\ \A i \in 1 .. Len(mins) : Fields(mins[i]) BY InOrderFields
<1>4. \A i, j \in 1 .. Len(mins) : i < j => Ship!Older(mins[i], mins[j])
  BY <1>2 DEF Ship!InOrder
<1>5. \A i \in 1 .. k - 1 : Ship!Older(mins[i], v) BY <1>1 DEF Passed
<1>6. /\ v.major \in Int /\ v.minor \in Int /\ v.rev \in Int
      /\ \A i \in 1 .. Len(mins) :
             mins[i].major \in Int /\ mins[i].minor \in Int /\ mins[i].rev \in Int
  BY <1>3, FieldsAreInt
<1>7. /\ Ship!Older(mins[k], v) => rc = 1
      /\ Ship!Older(v, mins[k]) => rc = -1
      /\ Ship!SameRelease(v, mins[k]) => (rc >= 0 <=> v.rev >= mins[k].rev)
  BY <1>1, <1>3, ComparedIs
<1> HIDE DEF v
<1> DEFINE M == {mins[i] : i \in 1 .. Len(mins)}
<1>12. Ship!Meets(text[actual], {mins[i] : i \in DOMAIN mins}) <=> Ship!Meets(v, M)
  BY <1>2 DEF v
<1>8. CASE Ship!SameRelease(v, mins[k])
  <2>1. \A i \in 1 .. Len(mins) : Ship!SameRelease(v, mins[i]) => i = k
    <3> SUFFICES ASSUME NEW i \in 1 .. Len(mins), Ship!SameRelease(v, mins[i]), i # k
                 PROVE  FALSE
      OBVIOUS
    <3>1. Ship!Older(mins[i], mins[k]) \/ Ship!Older(mins[k], mins[i]) BY <1>2, <1>4
    <3> QED BY <1>6, <1>8, <3>1 DEF Ship!Older, Ship!SameRelease
  <2>2. Ship!Meets(v, M) <=> v.rev >= mins[k].rev BY <1>8, <2>1 DEF Ship!Meets
  <2> QED BY <1>7, <1>8, <1>12, <2>2
<1>9. CASE Ship!Older(mins[k], v)
  <2>1. ~Ship!Older(mins[k], v) => FALSE BY <1>9
  <2>2. k = Len(mins) BY <1>1, <2>1 DEF v
  <2>3. \A i \in 1 .. Len(mins) : Ship!Older(mins[i], v) BY <1>2, <1>5, <1>9, <2>2
  <2>4. \A i \in 1 .. Len(mins) : ~Ship!SameRelease(v, mins[i])
    BY <1>6, <2>3 DEF Ship!Older, Ship!SameRelease
  <2>5. Ship!Meets(v, M) BY <2>3, <2>4 DEF Ship!Meets
  <2>6. rc >= 0 BY <1>7, <1>9
  <2> QED BY <1>12, <2>5, <2>6
<1>10. CASE Ship!Older(v, mins[k])
  <2>1. \A i \in 1 .. Len(mins) : Ship!Older(mins[i], v) \/ Ship!Older(v, mins[i])
    <3> SUFFICES ASSUME NEW i \in 1 .. Len(mins)
                 PROVE  Ship!Older(mins[i], v) \/ Ship!Older(v, mins[i])
      OBVIOUS
    <3>1. CASE i < k BY <1>2, <1>5, <3>1
    <3>2. CASE i = k BY <1>10, <3>2
    <3>3. CASE i > k
      <4>1. Ship!Older(mins[k], mins[i]) BY <1>4, <3>3
      <4> QED BY <1>6, <1>10, <4>1 DEF Ship!Older
    <3> QED BY <1>2, <3>1, <3>2, <3>3
  <2>2. \A i \in 1 .. Len(mins) : ~Ship!SameRelease(v, mins[i])
    BY <1>6, <2>1 DEF Ship!Older, Ship!SameRelease
  <2>3. ~Ship!Older(mins[k], v) BY <1>6, <1>10 DEF Ship!Older
  <2>4. ~Ship!Meets(v, M) BY <2>2, <2>3 DEF Ship!Meets
  <2>5. ~(rc >= 0)
    <3>1. rc = -1 BY <1>7, <1>10
    <3> QED BY <3>1
  <2> QED BY <1>12, <2>4, <2>5
<1>11. Ship!SameRelease(v, mins[k]) \/ Ship!Older(mins[k], v) \/ Ship!Older(v, mins[k])
  BY <1>6 DEF Ship!Older, Ship!SameRelease
<1> QED BY <1>8, <1>9, <1>10, <1>11

\* The verdict is the one the comment of verify asks for, for any versions and any number
\* of minimums, as long as the fields fit in a byte and the order of the strings is that of
\* the releases.
THEOREM VerdictIsRightHolds == GatesSpec => []VerdictIsRightInOrder
<1>1. ShipInv => VerdictIsRightInOrder
  BY StoppedDecides
     DEF ShipInv, Loop, VerdictIsRightInOrder, Ship!VerdictIsRightInOrder, Ship!VerdictIsRight
<1> QED BY <1>1, ShipStart, ShipStep, PTL DEF GatesSpec
=============================================================================
