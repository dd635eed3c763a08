------------------------ MODULE FactoryReset_proofs ------------------------
(***************************************************************************)
(* For any versions, files and partitions: however resets fail or end and  *)
(* however late hiomapd is, it does not serve flash that was changed       *)
(* behind it unless it has refused to be suspended, and the keys are kept; *)
(* and an undisturbed reset clears all it is to clear.                     *)
(***************************************************************************)
EXTENDS FactoryReset, TLAPS

\* The call the daemon waits for is the last; while it clears, Suspend is the last call
\* under way, or hiomapd is suspended or has refused to be.
WaitingInv ==
    /\ pc = "suspending" => calls # <<>> /\ calls[Len(calls)] = "Suspend"
    /\ pc = "resuming" => calls # <<>>
    /\ pc = "clear" => IF calls = <<>> THEN server = "suspended" \/ refused
                                       ELSE calls[Len(calls)] = "Suspend"

\* What hiomapd serves has changed behind it only with a Suspend under way or refused.
SuspendUnderWay ==
    modified /\ server = "serving" =>
        refused \/ \E i \in 1 .. Len(calls) : calls[i] = "Suspend"

Inv ==
    /\ calls \in Seq({"Suspend", "Resume"})
    /\ server \in {"serving", "suspended"}
    /\ modified \in BOOLEAN /\ refused \in BOOLEAN
    /\ WaitingInv
    /\ SuspendUnderWay

\* What the resets are to clear, of either kind.
Clearable == ToClear("host") \cup ToClear("gard")

TodoInv == kind \in {"host", "gard"} /\ todo \subseteq Clearable

\* The queue after a call has been made.
LEMMA SendLast ==
    ASSUME calls \in Seq({"Suspend", "Resume"}), NEW call \in {"Suspend", "Resume"}, Send(call)
    PROVE  /\ calls' \in Seq({"Suspend", "Resume"}) /\ calls' # <<>>
           /\ Len(calls') = Len(calls) + 1 /\ calls'[Len(calls')] = call
           /\ \A i \in 1 .. Len(calls) : calls'[i] = calls[i]
  BY DEF Send

\* The queue after the first call has been answered: the last one stays, if it is another.
LEMMA AnswerFirst ==
    ASSUME calls \in Seq({"Suspend", "Resume"}), Answer
    PROVE  /\ calls' \in Seq({"Suspend", "Resume"})
           /\ calls # <<>> /\ Len(calls') = Len(calls) - 1
           /\ \A i \in 1 .. Len(calls') : calls'[i] = calls[i + 1]
           /\ Head(calls) = calls[1]
           /\ calls' = <<>> => Len(calls) = 1
           /\ calls' # <<>> => Len(calls') >= 1 /\ calls'[Len(calls')] = calls[Len(calls)]
<1>1. calls # <<>> /\ calls' = Tail(calls) BY DEF Answer
<1>2. Len(calls) \in Nat \ {0} /\ Head(calls) = calls[1] BY <1>1
<1>3. /\ calls' \in Seq({"Suspend", "Resume"}) /\ Len(calls') = Len(calls) - 1
      /\ \A i \in 1 .. Len(calls') : calls'[i] = calls[i + 1]
  BY <1>1, <1>2
<1>4. calls' = <<>> <=> Len(calls') = 0 BY <1>3
<1> QED BY <1>1, <1>2, <1>3, <1>4

\* A reset clears behind a hiomapd that is suspended, has a Suspend before it, or has
\* refused one.
LEMMA InvHolds == Spec => []Inv
<1>1. Init => Inv
  <2> SUFFICES ASSUME Init PROVE Inv OBVIOUS
  <2>1. calls \in Seq({"Suspend", "Resume"}) /\ server = "serving" /\ pc = "idle"
    BY DEF Init
  <2>2. modified \in BOOLEAN /\ refused \in BOOLEAN /\ ~modified BY DEF Init
  <2> QED BY <2>1, <2>2 DEF Inv, WaitingInv, SuspendUnderWay
<1>2. Inv /\ [Next]_vars => Inv'
  <2> SUFFICES ASSUME Inv, [Next]_vars PROVE Inv'
    OBVIOUS
  <2> USE DEF Inv, WaitingInv, SuspendUnderWay, hiomapd
  <2>1. ASSUME NEW k \in {"host", "gard"}, Reset(k) PROVE Inv'
    BY <2>1 DEF Reset
  <2>2. CASE Suspend
    <3>1. CASE Send("Suspend") /\ pc' = "suspending"
      <4>1. UNCHANGED hiomapd BY <2>2 DEF Suspend
      <4> QED BY <3>1, <4>1, SendLast
    <3>2. CASE GiveUp /\ UNCHANGED calls
      BY <2>2, <3>2 DEF Suspend, GiveUp
    <3> QED
      BY <2>2, <3>1, <3>2 DEF Suspend
  <2>3. CASE TimeOut
    <3>1. \/ pc = "suspending" /\ pc' = "clear"
          \/ pc = "resuming" /\ pc' = "idle"
      BY <2>3 DEF TimeOut, After
    <3> QED BY <2>3, <3>1 DEF TimeOut
  <2>4. ASSUME NEW i \in Items, Clear(i) PROVE Inv'
    <3>1. calls # <<>> => Len(calls) \in 1 .. Len(calls) OBVIOUS
    <3> QED BY <2>4, <3>1 DEF Clear
  <2>5. ASSUME NEW i \in Items, ClearFails(i) PROVE Inv'
    BY <2>5 DEF ClearFails, GiveUp
  <2>6. CASE Resume
    <3>1. CASE Send("Resume") /\ pc' = "resuming"
      <4>1. UNCHANGED hiomapd BY <2>6 DEF Resume
      <4> QED BY <3>1, <4>1, SendLast
    <3>2. CASE GiveUp /\ UNCHANGED calls
      BY <2>6, <3>2 DEF Resume, GiveUp
    <3> QED
      BY <2>6, <3>1, <3>2 DEF Resume
  <2>7. CASE Crash
    BY <2>7 DEF Crash, GiveUp
  <2>8. ASSUME Answer, server' \in {"serving", "suspended"},
               modified' \in BOOLEAN, refused' \in BOOLEAN,
               \/ Head(calls) = "Suspend" /\ (server' = "suspended" \/ refused')
               \/ /\ Head(calls) = "Resume" /\ refused' = refused
                  /\ \/ ~modified' /\ server' = "serving"
                     \/ UNCHANGED <<server, modified>>
        PROVE  Inv'
    <3>1. calls' \in Seq({"Suspend", "Resume"})
      BY <2>8, AnswerFirst
    <3>2. pc' = IF calls' = <<>> /\ pc \in {"suspending", "resuming"}
                THEN (IF pc = "suspending" THEN "clear" ELSE "idle") ELSE pc
      BY <2>8 DEF Answer, After
    <3>3. calls' = <<>> => calls[Len(calls)] = Head(calls)
      BY <2>8, AnswerFirst
    <3>4. calls' # <<>> => calls'[Len(calls')] = calls[Len(calls)]
      BY <2>8, AnswerFirst
    <3>5. WaitingInv'
      <4>1. CASE calls' = <<>>
        <5>1. pc = "suspending" => Head(calls) = "Suspend"
          BY <3>3, <4>1
        <5>2. pc = "clear" => Head(calls) = "Suspend"
          BY <2>8, <3>3, <4>1, AnswerFirst
        <5>3. pc' = "clear" => Head(calls) = "Suspend"
          BY <3>2, <5>1, <5>2
        <5>4. Head(calls) = "Suspend" => server' = "suspended" \/ refused'
          BY <2>8
        <5>5. pc' \notin {"suspending", "resuming"}
          BY <3>2, <4>1
        <5> QED BY <4>1, <5>3, <5>4, <5>5
      <4>2. CASE calls' # <<>>
        <5>1. calls # <<>> /\ pc' = pc BY <2>8, <3>2, <4>2, AnswerFirst
        <5> QED BY <3>4, <4>2, <5>1
      <4> QED BY <4>1, <4>2
    <3>6. SuspendUnderWay'
      <4>1. CASE Head(calls) = "Suspend"
        BY <2>8, <4>1
      <4>2. CASE Head(calls) = "Resume"
        <5>1. SUFFICES ASSUME modified', server' = "serving", ~refused'
                       PROVE  \E i \in 1 .. Len(calls') : calls'[i] = "Suspend"
          OBVIOUS
        <5>2. modified /\ server = "serving" /\ ~refused
          <6>1. Head(calls) # "Suspend" BY <4>2
          <6>2. ~modified' \/ UNCHANGED <<server, modified>> BY <2>8, <6>1, Zenon
          <6>3. refused' = refused BY <2>8, <6>1, Zenon
          <6> QED BY <5>1, <6>2, <6>3
        <5>3. PICK i \in 1 .. Len(calls) : calls[i] = "Suspend"
          BY <5>2
        <5>4. /\ i # 1 /\ Len(calls') = Len(calls) - 1 /\ Len(calls) \in Nat
              /\ \A j \in 1 .. Len(calls') : calls'[j] = calls[j + 1]
          BY <2>8, <4>2, <5>3, AnswerFirst
        <5>5. i - 1 \in 1 .. Len(calls') /\ calls'[i - 1] = calls[i]
          BY <5>3, <5>4
        <5> QED BY <5>3, <5>5
      <4> QED BY <2>8, <4>1, <4>2
    <3> QED
      BY <2>8, <3>1, <3>5, <3>6
  <2>9. calls # <<>> => Head(calls) \in {"Suspend", "Resume"}
    OBVIOUS
  <2>10. CASE Accept
    <3>1. Answer /\ calls # <<>> BY <2>10 DEF Accept, Answer
    <3> QED BY <2>8, <2>9, <2>10, <3>1 DEF Accept
  <2>11. CASE Refuse
    <3>1. Answer /\ calls # <<>> BY <2>11 DEF Refuse, Answer
    <3> QED BY <2>8, <2>9, <2>11, <3>1 DEF Refuse
  <2>12. ASSUME NEW i \in Items, HostWrites(i) PROVE Inv'
    BY <2>12 DEF HostWrites
  <2>13. CASE UNCHANGED vars
    BY <2>13 DEF vars
  <2> QED
    BY <2>1, <2>2, <2>3, <2>4, <2>5, <2>6, <2>7, <2>10, <2>11, <2>12, <2>13 DEF Next
<1> QED
  BY <1>1, <1>2, PTL DEF Spec

\* With no call under way, hiomapd does not serve what a reset has changed behind it unless
\* it has refused to be suspended: with calls that hiomapd refuses or answers after the
\* timeout, services that are not found, and resets that end at any step.
THEOREM ServedIsFreshHolds == Spec => []ServedIsFresh
<1>1. Inv => ServedIsFresh
  BY DEF Inv, SuspendUnderWay, ServedIsFresh
<1> QED
  BY <1>1, InvHolds, PTL

\* The layout stays, and with it what there is to clear.
LEMMA LayoutStays ==
    ASSUME [Next]_vars
    PROVE  layout' = layout /\ Items' = Items /\ Clearable' = Clearable
<1>1. layout' = layout
  BY DEF Next, vars, outside, Reset, Suspend, TimeOut, Clear, ClearFails, Resume, Crash,
         Accept, Refuse, Answer, HostWrites
<1> QED
  BY <1>1 DEF Items, Clearable, ToClear

\* What a reset has still to clear is among what the resets are to clear.
LEMMA TodoInvHolds == Spec => []TodoInv
<1>1. Init => TodoInv
  BY DEF Init, TodoInv
<1>2. TodoInv /\ [Next]_vars => TodoInv'
  <2> SUFFICES ASSUME TodoInv, [Next]_vars PROVE TodoInv'
    OBVIOUS
  <2>0. Clearable' = Clearable
    BY LayoutStays
  <2> USE <2>0 DEF TodoInv, hiomapd
  <2>1. ASSUME NEW k \in {"host", "gard"}, Reset(k) PROVE TodoInv'
    BY <2>1 DEF Reset, Clearable
  <2>2. CASE Suspend
    BY <2>2 DEF Suspend, GiveUp
  <2>3. ASSUME NEW i \in Items, Clear(i) PROVE TodoInv'
    BY <2>3 DEF Clear
  <2>4. ASSUME NEW i \in Items, ClearFails(i) PROVE TodoInv'
    BY <2>4 DEF ClearFails, GiveUp
  <2>5. CASE Resume
    BY <2>5 DEF Resume, GiveUp
  <2>6. CASE Crash
    BY <2>6 DEF Crash, GiveUp
  <2>7. CASE TimeOut \/ Accept \/ Refuse
    BY <2>7 DEF TimeOut, Accept, Refuse, Answer
  <2>8. ASSUME NEW i \in Items, HostWrites(i) PROVE TodoInv'
    BY <2>8 DEF HostWrites
  <2>9. CASE UNCHANGED vars
    BY <2>9 DEF vars
  <2> QED
    BY <2>1, <2>2, <2>3, <2>4, <2>5, <2>6, <2>7, <2>8, <2>9 DEF Next
<1> QED
  BY <1>1, <1>2, PTL DEF Spec

\* The keys, and on the static layout the partitions without the flag F, outlive every
\* reset, however it ends: for any layout whose versions have not the name of the keys
\* and whose keys are not to be reprovisioned.
THEOREM OthersKeptHolds ==
    ASSUME "SECBOOT" \notin Versions \cup Reprovision
    PROVE Spec => OthersKept
<1> DEFINE Kept == \A i \in Items : content[i] = "data" /\ content'[i] # "data"
          => i # "SECBOOT" /\ (layout = "static" => i \in Reprovision \cup {"GUARD"})
<1>1. \A i \in Clearable : i # "SECBOOT" /\ (layout = "static" => i \in Reprovision \cup {"GUARD"})
  BY DEF Clearable, ToClear, Spared
<1> DEFINE Fun == content = [i \in Items |-> content[i]]
<1>2. Init => Fun
  BY DEF Init
<1>3. Fun /\ [Next]_vars => Fun'
  <2> SUFFICES ASSUME Fun, [Next]_vars PROVE Fun'
    OBVIOUS
  <2>0. Items' = Items
    BY LayoutStays
  <2>1. CASE UNCHANGED content
    BY <2>0, <2>1
  <2>2. ASSUME NEW i \in Items, Clear(i) \/ HostWrites(i) PROVE Fun'
    BY <2>0, <2>2 DEF Clear, HostWrites
  <2> QED
    BY <2>1, <2>2 DEF Next, vars, Reset, Suspend, TimeOut, ClearFails, Resume, Crash, Accept, Refuse, Answer
<1>4. Fun /\ TodoInv /\ [Next]_vars => [Kept]_vars
  <2> SUFFICES ASSUME Fun, TodoInv, Next PROVE Kept
    BY DEF vars
  <2>1. CASE UNCHANGED content
    BY <2>1
  <2>2. ASSUME NEW i \in Items, Clear(i) PROVE Kept
    <3>1. i \in Clearable /\ content' = [content EXCEPT ![i] = Cleared(i)]
      BY <2>2 DEF Clear, TodoInv
    <3>2. \A j \in Items : j # i => content'[j] = content[j]
      BY <3>1
    <3> QED
      BY <3>1, <3>2, <1>1
  <2>3. ASSUME NEW i \in Items, HostWrites(i) PROVE Kept
    <3>1. \A j \in Items : content'[j] \in {"data", content[j]}
      BY <2>3 DEF HostWrites
    <3> QED
      BY <3>1
  <2> QED
    BY <2>1, <2>2, <2>3 DEF Next, Reset, Suspend, TimeOut, ClearFails, Resume, Crash, Accept, Refuse, Answer
<1> QED
  BY <1>2, <1>3, <1>4, TodoInvHolds, PTL DEF Spec, OthersKept

\* Every variable keeps to its type, whatever the parts of the flash are called: an item is
\* cleared in one of the ways of its layout.
THEOREM TypeCorrect == Spec => []TypeOK
<1>1. Init => TypeOK
  <2> SUFFICES ASSUME Init PROVE TypeOK
    OBVIOUS
  <2>1. content \in [Items -> {"data"}]
    BY DEF Init
  <2>2. calls \in Seq({"Suspend", "Resume"})
    BY DEF Init
  <2>3. content \in [Items -> {"data"} \cup (IF layout = "ubi" THEN {"gone"}
                                                             ELSE {"ecc", "blank"})]
    BY <2>1
  <2> QED
    BY <2>2, <2>3 DEF Init, TypeOK
<1>2. Inv /\ Inv' /\ TodoInv /\ TypeOK /\ [Next]_vars => TypeOK'
  <2> SUFFICES ASSUME Inv', TodoInv, TypeOK, [Next]_vars PROVE TypeOK'
    OBVIOUS
  <2>0. /\ layout' = layout /\ Items' = Items /\ calls' \in Seq({"Suspend", "Resume"})
        /\ server' \in {"serving", "suspended"}
        /\ modified' \in BOOLEAN /\ refused' \in BOOLEAN
    BY LayoutStays DEF Inv
  <2> USE <2>0 DEF TypeOK, outside, hiomapd
  <2>1. ASSUME NEW k \in {"host", "gard"}, Reset(k) PROVE TypeOK'
    <3>1. ToClear(k) \subseteq Items
      BY LayoutAssumption DEF ToClear, Items
    <3> QED
      BY <2>1, <3>1 DEF Reset
  <2>2. CASE Suspend
    BY <2>2 DEF Suspend, GiveUp
  <2>3. ASSUME NEW i \in Items, Clear(i) PROVE TypeOK'
    BY <2>3 DEF Clear, Cleared
  <2>4. ASSUME NEW i \in Items, ClearFails(i) PROVE TypeOK'
    BY <2>4 DEF ClearFails, GiveUp
  <2>5. CASE Resume
    BY <2>5 DEF Resume, GiveUp
  <2>6. CASE Crash
    BY <2>6 DEF Crash, GiveUp
  <2>7. CASE TimeOut \/ Accept \/ Refuse
    <3>1. UNCHANGED <<content, kind, todo, environment>>
      BY <2>7 DEF TimeOut, Accept, Refuse, Answer
    <3>2. pc' \in {"idle", "suspend", "suspending", "clear", "resuming"}
      BY <2>7 DEF TimeOut, Accept, Refuse, Answer, After
    <3> QED BY <3>1, <3>2
  <2>8. ASSUME NEW i \in Items, HostWrites(i) PROVE TypeOK'
    BY <2>8 DEF HostWrites
  <2>9. CASE UNCHANGED vars
    BY <2>9 DEF vars
  <2> QED
    BY <2>1, <2>2, <2>3, <2>4, <2>5, <2>6, <2>7, <2>8, <2>9 DEF Next
<1> QED
  BY <1>1, <1>2, InvHolds, TodoInvHolds, PTL DEF Spec

(***************************************************************************)
(* What a reset leaves                                                     *)
(***************************************************************************)

\* How the code is to clear an item: as EachCleared has it.
Blank(i) == IF layout = "ubi" THEN "gone" ELSE IF i \in WithEcc THEN "ecc" ELSE "blank"

\* A reset still has everything to clear until hiomapd has accepted Suspend; after it the
\* host cannot write to what is cleared.
ClearingInv ==
    /\ ~refused
    /\ pc \in {"suspend", "suspending"} => Promised \subseteq todo
    /\ pc = "clear" =>
           calls = <<>> /\ \A i \in Promised \ todo : content[i] = Blank(i)
    /\ pc \in {"suspend", "idle"} => calls = <<>>
    /\ pc \in {"suspending", "resuming"} => Len(calls) = 1

\* When it sends Resume, an undisturbed reset has cleared all it is to clear, in the way its
\* partition is flagged, and the host has not written to it again. The gard reset asks for
\* ECC without reading the flags: it needs a GUARD partition flagged E.
THEOREM EachClearedHolds ==
    ASSUME "GUARD" \in Prsv, "GUARD" \in Partitions \cap WithEcc
    PROVE  Spec => EachCleared
<1> DEFINE ClearedAll == \A i \in Promised : content[i] = Blank(i)
<1>1. Init => ClearingInv
  BY DEF Init, ClearingInv
<1>2. ASSUME TypeOK, Inv, ClearingInv, Undisturbed, [Next]_vars
      PROVE  ClearingInv' /\ (pc = "clear" /\ pc' = "resuming" => ClearedAll)
  <2> USE <1>2 DEF ClearingInv, hiomapd
  <2>0. /\ "storage" \notin environment /\ "mapper" \notin environment
        /\ "crash" \notin environment /\ "lag" \notin environment
        /\ "refuse" \notin environment
    BY DEF Undisturbed
  <2>1. layout' = layout /\ Items' = Items /\ \A i : Blank(i)' = Blank(i)
    BY LayoutStays DEF Blank
  <2>2. kind' = kind => Promised' = Promised
    BY <2>1 DEF Promised
  <2>3. ASSUME NEW k \in {"host", "gard"}, Reset(k) PROVE ClearingInv' /\ pc # "clear"
    <3>1. /\ pc = "idle" /\ pc' = "suspend" /\ kind' = k /\ todo' = ToClear(k)
          /\ UNCHANGED <<calls, hiomapd>>
      BY <2>0, <2>3 DEF Reset
    <3>2. Promised' \subseteq ToClear(k)
      BY <2>1, <3>1, LayoutAssumption DEF Promised, ToClear, Items, Spared, TypeOK
    <3> QED
      BY <3>1, <3>2
  <2>4. ASSUME Suspend PROVE ClearingInv' /\ pc # "clear"
    <3>1. /\ pc = "suspend" /\ pc' = "suspending" /\ todo' = todo /\ kind' = kind
          /\ Send("Suspend") /\ UNCHANGED hiomapd
      BY <2>0, <2>4 DEF Suspend
    <3>2. Len(calls') = 1
      BY <3>1, SendLast DEF Inv
    <3> QED
      BY <2>2, <3>1, <3>2
  <2>5. ASSUME NEW i \in Items, Clear(i) PROVE ClearingInv' /\ pc' = "clear"
    <3>1. /\ pc = "clear" /\ pc' = "clear" /\ calls = <<>> /\ calls' = <<>> /\ kind' = kind
          /\ todo' = todo \ {i} /\ content' = [content EXCEPT ![i] = Cleared(i)]
          /\ refused' = refused
      BY <2>5 DEF Clear
    <3>2. content'[i] = Cleared(i) /\ \A j \in Items \ {i} : content'[j] = content[j]
      BY <3>1 DEF TypeOK
    <3>3. i \in Promised => Cleared(i) = Blank(i)
      BY DEF Cleared, Blank, Promised, TypeOK
    <3>4. Promised \subseteq Items
      BY LayoutAssumption DEF Promised, Items, TypeOK
    <3>5. \A j \in Promised' \ todo' : content'[j] = Blank(j)'
      BY <2>1, <2>2, <3>1, <3>2, <3>3, <3>4
    <3> QED
      BY <3>1, <3>5
  <2>6. ASSUME Resume PROVE ClearingInv' /\ ClearedAll
    <3>1. /\ pc = "clear" /\ todo = {} /\ pc' = "resuming"
          /\ Send("Resume") /\ UNCHANGED hiomapd
      BY <2>0, <2>6 DEF Resume
    <3>2. Len(calls') = 1
      BY <3>1, SendLast DEF Inv
    <3> QED
      BY <3>1, <3>2
  <2>7. ASSUME Accept PROVE ClearingInv' /\ pc # "clear"
    <3>1. /\ Answer /\ UNCHANGED <<kind, todo, content>> /\ calls # <<>> /\ calls' = Tail(calls)
          /\ refused' = FALSE \/ refused' = refused
      BY <2>7 DEF Accept, Answer
    <3>2. pc \in {"suspending", "resuming"}
      BY <3>1 DEF TypeOK
    <3>3. Len(calls) = 1 /\ calls' = <<>>
      BY <3>1, <3>2, AnswerFirst DEF Inv
    <3>4. pc' = IF pc = "suspending" THEN "clear" ELSE "idle"
      BY <3>1, <3>2, <3>3 DEF Answer, After
    <3> QED
      BY <2>1, <2>2, <3>1, <3>2, <3>3, <3>4
  <2>8. ASSUME NEW i \in Items, HostWrites(i) PROVE ClearingInv' /\ pc' = pc
    <3>1. server = "serving" /\ UNCHANGED <<pc, kind, todo, calls, refused>>
      BY <2>8 DEF HostWrites
    <3>2. pc # "clear"
      BY <3>1 DEF Inv, WaitingInv
    <3> QED
      BY <2>2, <3>1, <3>2
  <2>9. ASSUME UNCHANGED vars PROVE ClearingInv' /\ pc' = pc
    <3>1. UNCHANGED <<pc, kind, todo, calls, content, refused>>
      BY <2>9 DEF vars
    <3> QED
      BY <2>1, <2>2, <3>1
  <2>10. ~Crash /\ ~TimeOut /\ ~Refuse /\ \A i \in Items : ~ClearFails(i)
    BY <2>0 DEF Crash, TimeOut, Refuse, ClearFails
  <2> QED
    BY <2>3, <2>4, <2>5, <2>6, <2>7, <2>8, <2>9, <2>10 DEF Next
<1>3. [Next]_vars => Undisturbed' = Undisturbed
  BY DEF Undisturbed, Next, vars, outside, Reset, Suspend, TimeOut, Clear, ClearFails, Resume,
         Crash, Accept, Refuse, Answer, HostWrites
<1>4. /\ TypeOK /\ Inv /\ (Undisturbed => ClearingInv) /\ [Next]_vars
         => (Undisturbed => ClearingInv)'
  BY <1>2, <1>3
<1>5. TypeOK /\ Inv /\ (Undisturbed => ClearingInv) /\ [Next]_vars
         => [Undisturbed /\ pc = "clear" /\ pc' = "resuming" =>
               \A i \in Promised :
                   content[i] = IF layout = "ubi" THEN "gone"
                                ELSE IF i \in WithEcc THEN "ecc" ELSE "blank"]_vars
  BY <1>2 DEF Blank
<1> QED
  BY <1>1, <1>4, <1>5, TypeCorrect, InvHolds, PTL DEF Spec, EachCleared
=============================================================================
