--------------------------- MODULE HostBoot_proofs ---------------------------
(* Theorems about what prepares the host at a boot: of HostFirmwareLinks, for *)
(* any names, lids, extensions, files and lists of elements, and of           *)
(* HostFirmware, for any objects of entity manager and any restarts.          *)
EXTENDS MC_HostBoot, WellFoundedInduction, SequenceTheorems, TLAPS

(******************************************************************************)
(* The links                                                                  *)
(******************************************************************************)

\* While the links are made, those already visited are right.
Linked ==
    phase \in {"links", "done"} =>
        /\ todo \subseteq DOMAIN attr
        /\ phase = "done" => todo = {}
        /\ \A e \in DOMAIN attr \ (failed \cup {Boot(Toc)} \cup todo) :
                dir[e] \in {attr[e], File}

IInv == TypeOK /\ IplWins /\ Linked

\* The links in the directory and beside it are among its entries, and apart.
LEMMA EntriesMade ==
    ASSUME NEW n \in Names
    PROVE  Boot(n) \in Entries /\ Runtime(n) \in Entries /\ Boot(n) # Runtime(n)
  BY DEF Boot, Runtime, Entries

\* Writing a link keeps the type of the directory.
LEMMA WriteLinkType ==
    ASSUME TypeOK, NEW e \in Entries, NEW x \in Contents, WriteLink(e, x)
    PROVE  dir' \in [Entries -> Contents] /\ failed' \subseteq Entries
  BY DEF TypeOK, WriteLink, Contents

\* An element changes attr to another map from entries to lids, in which its
\* name is, and leaves the other names alone.
LEMMA TakenType ==
    ASSUME TypeOK, NEW e \in Element, attr' = Taken(e)
    PROVE  /\ DOMAIN attr' \subseteq Entries
           /\ attr' \in [DOMAIN attr' -> Lids]
  <1> USE EntriesMade DEF TypeOK, Element
  <1>1. e.name \in Names /\ e.lid \in Lids
    OBVIOUS
  <1>2. CASE Skipped(e)
    BY <1>2 DEF Taken
  <1>3. CASE ~Skipped(e) /\ e.ipl
    <2> DEFINE kept == IF Known(e) THEN Insert(attr, Runtime(e.name), attr[Boot(e.name)])
                                   ELSE attr
    <2>1. DOMAIN kept \subseteq Entries /\ kept \in [DOMAIN kept -> Lids]
      BY <1>1 DEF Insert, Known
    <2>2. attr' = Assign(kept, Boot(e.name), e.lid)
      BY <1>3 DEF Taken, TakeIpl
    <2> HIDE DEF kept
    <2> QED
      BY <1>1, <2>1, <2>2 DEF Assign
  <1>4. CASE ~Skipped(e) /\ ~e.ipl /\ e.ext \in Supported
    BY <1>1, <1>4, KindsAssumption DEF Taken, TakeSupported, Insert, Known
  <1>5. CASE ~Skipped(e) /\ ~e.ipl /\ e.ext = NoExtension
    BY <1>1, <1>5, KindsAssumption DEF Taken, TakeBare, Insert
  <1> QED
    BY <1>2, <1>3, <1>4, <1>5 DEF Skipped

\* An entry that is there is changed by an ipl element of its name only.
LEMMA TakenKeeps ==
    ASSUME NEW n \in Names, NEW e \in Element, attr' = Taken(e),
           Boot(n) \in DOMAIN attr, ~(e.name = n /\ e.ipl /\ ~Skipped(e))
    PROVE  Boot(n) \in DOMAIN attr' /\ attr'[Boot(n)] = attr[Boot(n)]
  <1>0. /\ e.name \in Names
        /\ Runtime(e.name) # Boot(n)
        /\ e.name # n => Boot(e.name) # Boot(n)
    BY DEF Boot, Runtime, Element
  <1>1. CASE Skipped(e)
    BY <1>1 DEF Taken
  <1>2. CASE ~Skipped(e) /\ e.ipl
    <2> DEFINE kept == IF Known(e) THEN Insert(attr, Runtime(e.name), attr[Boot(e.name)])
                                   ELSE attr
    <2>1. Boot(n) \in DOMAIN kept /\ kept[Boot(n)] = attr[Boot(n)]
      BY <1>0 DEF Insert
    <2>2. attr' = Assign(kept, Boot(e.name), e.lid)
      BY <1>2 DEF Taken, TakeIpl
    <2> HIDE DEF kept
    <2> QED
      BY <1>0, <1>2, <2>1, <2>2 DEF Assign
  <1>3. CASE ~Skipped(e) /\ ~e.ipl /\ e.ext \in Supported
    BY <1>0, <1>3, KindsAssumption DEF Taken, TakeSupported, Insert, Known
  <1>4. CASE ~Skipped(e) /\ ~e.ipl /\ e.ext = NoExtension
    BY <1>0, <1>4, KindsAssumption DEF Taken, TakeBare, Insert
  <1> QED
    BY <1>1, <1>2, <1>3, <1>4 DEF Skipped, Element

\* Any directory an earlier boot has left satisfies the invariant.
LEMMA Start == Init => IInv
  <1> SUFFICES ASSUME Init PROVE IInv
    OBVIOUS
  <1>1. dir \in [Entries -> Contents]
    BY BoundsAssumption DEF Init, Contents
  <1>2. TypeOK
    BY <1>1 DEF Init, TypeOK
  <1>3. IplWins
    BY DEF Init, IplWins, Ipl, OfName
  <1>4. Linked
    BY DEF Init, Linked
  <1> QED
    BY <1>2, <1>3, <1>4 DEF IInv

\* Types are kept by every step.
LEMMA TypeStep == IInv /\ [Next]_vars => TypeOK'
  <1> SUFFICES ASSUME IInv, TypeOK, [Next]_vars PROVE TypeOK'
    BY DEF IInv
  <1> USE BoundsAssumption, TocAssumption, EntriesMade
  <1>1. CASE LinkToc
    <2>1. TocLid \in Contents
      BY DEF Contents
    <2>2. dir' \in [Entries -> Contents] /\ failed' \subseteq Entries
      BY <1>1, <2>1, WriteLinkType DEF LinkToc, TypeOK
    <2> QED
      BY <1>1, <2>2 DEF LinkToc, TypeOK, input
  <1>2. CASE LinkBlob
    <2>1. dir' \in [Entries -> Contents] /\ failed' \subseteq Entries
      <3>1. PICK b \in todo : IF b[2] \in Supported THEN WriteLink(Boot(b[1]), b[2])
                                                  ELSE UNCHANGED <<dir, failed>>
        BY <1>2 DEF LinkBlob
      <3>2. b[1] \in Names
        BY <1>2 DEF LinkBlob, TypeOK
      <3> QED
        BY <3>1, <3>2, WriteLinkType DEF TypeOK, Contents
    <2> QED
      BY <1>2, <2>1 DEF LinkBlob, TypeOK, input
  <1>3. CASE DirectoryError
    <2>1. failed' \subseteq Entries
      BY <1>3 DEF DirectoryError, TypeOK
    <2> QED
      BY <1>3, <2>1 DEF DirectoryError, TypeOK, input
  <1>4. CASE ReadJson
    BY <1>4 DEF ReadJson, TypeOK, input
  <1>5. CASE TakeElement
    <2>1. PICK e \in Element : elements' = Append(elements, e) /\ attr' = Taken(e)
      BY <1>5 DEF TakeElement
    <2>2. elements' \in Seq(Element)
      BY <2>1 DEF TypeOK
    <2>3. DOMAIN attr' \subseteq Entries /\ attr' \in [DOMAIN attr' -> Lids]
      BY <2>1, TakenType
    <2> QED
      BY <1>5, <2>2, <2>3 DEF TakeElement, TypeOK, input
  <1>6. CASE EndOfElements
    BY <1>6 DEF EndOfElements, TypeOK, input
  <1>7. CASE FixLink
    <2>1. PICK e \in todo : \/ dir' = [dir EXCEPT ![e] = FixedLink(e)] /\ UNCHANGED failed
                            \/ /\ dir' \in {dir, [dir EXCEPT ![e] = Nothing]}
                               /\ failed' = failed \cup {e}
      BY <1>7 DEF FixLink
    <2>2. e \in Entries
      BY <1>7 DEF FixLink, TypeOK
    <2>3. FixedLink(e) \in Contents
      <3>1. e \in DOMAIN attr
        BY <1>7 DEF FixLink, IInv, Linked
      <3> QED
        BY <2>2, <3>1 DEF TypeOK, FixedLink, Contents
    <2>4. dir' \in [Entries -> Contents] /\ failed' \subseteq Entries
      BY <2>1, <2>2, <2>3 DEF TypeOK, Contents
    <2> QED
      BY <1>7, <2>4 DEF FixLink, TypeOK, input
  <1>8. CASE Finish
    BY <1>8 DEF Finish, TypeOK, input
  <1>9. CASE Boots
    <2>1. dir' \in [Entries -> Contents]
      BY <1>9 DEF Boots, TypeOK, Contents
    <2> QED
      BY <1>9, <2>1 DEF Boots, TypeOK, input
  <1>10. CASE UNCHANGED vars
    BY <1>10 DEF vars, input, TypeOK
  <1> QED
    BY <1>1, <1>2, <1>3, <1>4, <1>5, <1>6, <1>7, <1>8, <1>9, <1>10 DEF Next

\* The ipl element that counts is the last: an element read either is the last
\* one of its name, and assigned, or leaves the entry of every ipl name alone.
LEMMA IplStep == IInv /\ [Next]_vars => IplWins'
  <1> SUFFICES ASSUME TypeOK, IplWins, [Next]_vars PROVE IplWins'
    BY DEF IInv
  <1>1. CASE TakeElement
    <2>1. PICK e \in Element : elements' = Append(elements, e) /\ attr' = Taken(e)
      BY <1>1 DEF TakeElement
    <2>2. /\ elements \in Seq(Element) /\ Len(elements) \in Nat
          /\ DOMAIN elements = 1 .. Len(elements)
          /\ DOMAIN elements' = 1 .. (Len(elements) + 1)
          /\ elements'[Len(elements) + 1] = e
          /\ \A i \in 1 .. Len(elements) : elements'[i] = elements[i]
      BY <2>1 DEF TypeOK
    <2> SUFFICES ASSUME NEW n \in Names, NEW i \in Ipl(n)',
                        \A j \in Ipl(n)' : j <= i
                 PROVE  Boot(n) \in DOMAIN attr' /\ attr'[Boot(n)] = elements'[i].lid
      BY DEF IplWins
    <2>3. CASE i = Len(elements) + 1
      <3>1. e.name = n /\ e.ipl /\ ~Skipped(e)
        BY <2>2, <2>3 DEF Ipl, OfName, Skipped
      <3>2. attr' = TakeIpl(e)
        BY <2>1, <3>1 DEF Taken
      <3> QED
        BY <2>2, <2>3, <3>1, <3>2 DEF TakeIpl, Assign
    <2>4. CASE i # Len(elements) + 1
      <3>1. i \in Ipl(n) /\ \A j \in Ipl(n) : j <= i
        BY <2>2, <2>4 DEF Ipl, OfName, Skipped
      <3>2. Boot(n) \in DOMAIN attr /\ attr[Boot(n)] = elements[i].lid
        BY <3>1 DEF IplWins
      <3>3. ~(e.name = n /\ e.ipl /\ ~Skipped(e))
        <4> SUFFICES ASSUME e.name = n, e.ipl, ~Skipped(e) PROVE FALSE
          OBVIOUS
        <4>1. Len(elements) + 1 \in Ipl(n)'
          BY <2>2 DEF Ipl, OfName, Skipped
        <4> QED
          BY <2>2, <2>4, <4>1 DEF Ipl, OfName
      <3>4. Boot(n) \in DOMAIN attr' /\ attr'[Boot(n)] = attr[Boot(n)]
        BY <2>1, <3>2, <3>3, TakenKeeps
      <3> QED
        BY <2>2, <2>4, <3>2, <3>4 DEF Ipl, OfName
    <2> QED
      BY <2>3, <2>4
  <1>2. CASE Boots
    BY <1>2 DEF Boots, IplWins, Ipl, OfName
  <1>3. CASE UNCHANGED <<elements, attr>>
    BY <1>3 DEF IplWins, Ipl, OfName, Skipped
  <1> QED
    BY <1>1, <1>2, <1>3 DEF Next, vars, LinkToc, LinkBlob, DirectoryError, ReadJson,
       EndOfElements, FixLink, Finish

\* A link just visited leads where attr says, or was not written.
LEMMA LinkedStep == IInv /\ [Next]_vars => Linked'
  <1> SUFFICES ASSUME TypeOK, Linked, [Next]_vars PROVE Linked'
    BY DEF IInv
  <1>1. CASE phase' \notin {"links", "done"}
    BY <1>1 DEF Linked
  <1>2. CASE EndOfElements
    BY <1>2 DEF EndOfElements, Linked
  <1>3. CASE FixLink
    <2>1. PICK e \in todo : /\ todo' = todo \ {e}
                            /\ \/ dir' = [dir EXCEPT ![e] = FixedLink(e)] /\ UNCHANGED failed
                               \/ /\ dir' \in {dir, [dir EXCEPT ![e] = Nothing]}
                                  /\ failed' = failed \cup {e}
      BY <1>3 DEF FixLink
    <2>2. phase = "links" /\ phase' = phase /\ attr' = attr
      BY <1>3 DEF FixLink
    <2>3. todo \subseteq DOMAIN attr
      BY <2>2 DEF Linked
    <2> SUFFICES ASSUME NEW d \in DOMAIN attr \ (failed' \cup {Boot(Toc)} \cup todo')
                 PROVE  dir'[d] \in {attr[d], File}
      BY <2>1, <2>2, <2>3 DEF Linked
    <2>4. CASE d # e
      <3>1. dir'[d] = dir[d] /\ d \notin failed \cup todo
        BY <2>1, <2>4 DEF TypeOK
      <3> QED
        BY <2>2, <3>1 DEF Linked
    <2>5. CASE d = e
      <3>1. dir' = [dir EXCEPT ![e] = FixedLink(e)]
        BY <2>1, <2>5
      <3>2. dir'[d] = FixedLink(d)
        BY <2>5, <3>1 DEF TypeOK
      <3> QED
        BY <3>2 DEF FixedLink, Mismatched
    <2> QED
      BY <2>4, <2>5
  <1>4. CASE Finish
    BY <1>4 DEF Finish, Linked
  <1>5. CASE UNCHANGED vars
    BY <1>5 DEF vars, Linked
  <1> QED
    BY <1>1, <1>2, <1>3, <1>4, <1>5 DEF Next, LinkToc, LinkBlob, DirectoryError, ReadJson,
       TakeElement, Boots

\* The invariant of the links holds in every reachable state.
LEMMA InvariantHolds == Spec => []IInv
  <1>1. IInv /\ [Next]_vars => IInv'
    BY TypeStep, IplStep, LinkedStep DEF IInv
  <1> QED
    BY Start, <1>1, PTL DEF Spec

\* Every variable keeps its type, and attr names entries of the directory only.
THEOREM TypeCorrect == Spec => []TypeOK
  BY InvariantHolds, PTL DEF IInv

\* The host boots with the last ipl element of a name, for any elements.json.
THEOREM IplWinsHolds == Spec => []IplWins
  BY InvariantHolds, PTL DEF IInv

\* When both programs have run, the links agree with the attribute string that
\* was sent, for any directory that was there and wherever power was lost.
THEOREM LinksFollowHolds == Spec => []LinksFollow
  <1>1. IInv => LinksFollow
    BY DEF IInv, Linked, LinksFollow
  <1> QED
    BY InvariantHolds, <1>1, PTL

(******************************************************************************)
(* The programs                                                               *)
(******************************************************************************)

\* The programs visit objects that are there: the least of a non-empty set is in it.
LEMMA MinIsIn ==
    ASSUME NEW S \in SUBSET Nat, S # {} PROVE Programs!Min(S) \in S
  <1> DEFINE R == OpToRel(<, Nat)
  <1>1. IsWellFoundedOn(R, Nat)
    BY NatLessThanWellFounded
  <1>2. PICK x \in S : \A y \in S : <<y, x>> \notin R
    <2> HIDE DEF R
    <2> QED
      BY <1>1, WFMin, Zenon
  <1>3. \A y \in S : ~(y < x)
    BY <1>2 DEF OpToRel
  <1>4. \A y \in S : x <= y
    BY <1>3
  <1> QED
    BY <1>4 DEF Programs!Min

\* What is known of the programs where the one Compatible object has the model: a program
\* that ends, or is about to, has found it, and the second one begins after the first.
Prepared ==
    Programs!ModelKnown =>
        /\ stage["links"] = "ended" => linked
        /\ exiting["links"] => linked
        /\ exiting["bios"] => sent
        /\ stage["bios"] # "idle" => stage["links"] = "ended"
        /\ stage["bios"] = "ended" => sent

PInv == Programs!TypeOK /\ Prepared

\* Before either program has begun nothing is made.
LEMMA BootStart == BootInit => PInv
  <1> SUFFICES ASSUME BootInit PROVE PInv
    OBVIOUS
  <1>1. Programs!TypeOK
    <2>1. Programs!Init
      BY DEF BootInit
    <2>2. <<>> \in Seq(Programs!Messages) /\ DOMAIN <<>> = {}
      BY EmptySeq
    <2>3. /\ queue \in [Programs!Programs -> Seq(Programs!Messages)]
          /\ \A p \in Programs!Programs : queue[p] = <<>>
          /\ \A i \in DOMAIN queue["links"] : queue["links"][i].type = "InterfacesAdded"
      BY <2>1, <2>2 DEF Programs!Init, Programs!Programs
    <2>4. /\ stage \in [Programs!Programs -> {"idle"}]
          /\ visit \in [Programs!Programs -> SUBSET Objects]
          /\ exiting \in [Programs!Programs -> BOOLEAN]
      BY <2>1 DEF Programs!Init
    <2>5. published \subseteq Objects /\ manager \in BOOLEAN
      BY <2>1 DEF Programs!Init
    <2>6. restarts \in 0 .. MaxRestarts
      BY <2>1, ProgramsAssumption DEF Programs!Init
    <2> QED
      BY <2>1, <2>3, <2>4, <2>5, <2>6 DEF Programs!Init, Programs!TypeOK
  <1>2. Prepared
    BY DEF BootInit, Programs!Init, Prepared, Programs!Programs
  <1> QED
    BY <1>1, <1>2 DEF PInv

\* A signal appends a message to the queues of programs that listen.
LEMMA SignalType ==
    ASSUME Programs!TypeOK, NEW ps, NEW m \in Programs!Messages, Programs!Signal(ps, m),
           "links" \in ps => m.type = "InterfacesAdded"
    PROVE  /\ queue' \in [Programs!Programs -> Seq(Programs!Messages)]
           /\ \A p \in Programs!Programs : stage[p] \in {"idle", "ended"} => queue'[p] = <<>>
           /\ \A i \in DOMAIN queue'["links"] :
                  queue'["links"][i].type = "InterfacesAdded"
  <1>1. queue \in [Programs!Programs -> Seq(Programs!Messages)]
    BY DEF Programs!TypeOK
  <1>2. \A p \in Programs!Programs :
            queue'[p] = IF p \in ps /\ Programs!Listening(p) THEN Append(queue[p], m)
                                                            ELSE queue[p]
    BY DEF Programs!Signal
  <1>3. \A p \in Programs!Programs : Append(queue[p], m) \in Seq(Programs!Messages)
    BY <1>1, AppendProperties
  <1>4. queue' \in [Programs!Programs -> Seq(Programs!Messages)]
    BY <1>1, <1>3 DEF Programs!Signal
  <1>5. \A p \in Programs!Programs : stage[p] \in {"idle", "ended"} => queue'[p] = <<>>
    BY <1>2 DEF Programs!TypeOK, Programs!Listening
  <1>6. \A i \in DOMAIN queue'["links"] : queue'["links"][i].type = "InterfacesAdded"
    <2>1. "links" \in Programs!Programs
      BY DEF Programs!Programs
    <2>2. CASE queue'["links"] = queue["links"]
      BY <2>2 DEF Programs!TypeOK
    <2>3. CASE "links" \in ps /\ queue'["links"] = Append(queue["links"], m)
      <3> DEFINE q == queue["links"]
      <3>1. q \in Seq(Programs!Messages)
        BY <1>1, <2>1
      <3>2. \A i \in DOMAIN q : q[i].type = "InterfacesAdded"
        BY DEF Programs!TypeOK
      <3>3. m.type = "InterfacesAdded"
        BY <2>3
      <3> HIDE DEF q
      <3>4. \A i \in DOMAIN Append(q, m) : Append(q, m)[i].type = "InterfacesAdded"
        BY <3>1, <3>2, <3>3, AppendProperties
      <3> QED
        BY <2>3, <3>4 DEF q
    <2> QED
      BY <1>2, <2>1, <2>2, <2>3
  <1> QED
    BY <1>4, <1>5, <1>6

\* The variables of a program that its step does not end.
LEMMA TakeMessage ==
    ASSUME Programs!TypeOK, NEW p \in Programs!Programs, queue[p] # <<>>,
           queue' = [queue EXCEPT ![p] = Tail(@)]
    PROVE  /\ queue' \in [Programs!Programs -> Seq(Programs!Messages)]
           /\ Head(queue[p]) \in Programs!Messages
           /\ \A r \in Programs!Programs : queue[r] = <<>> => queue'[r] = <<>>
           /\ \A i \in DOMAIN queue'["links"] :
                  queue'["links"][i].type = "InterfacesAdded"
  <1>1. /\ queue \in [Programs!Programs -> Seq(Programs!Messages)]
        /\ \A i \in DOMAIN queue["links"] : queue["links"][i].type = "InterfacesAdded"
    BY DEF Programs!TypeOK
  <1>2. /\ Tail(queue[p]) \in Seq(Programs!Messages)
        /\ Head(queue[p]) \in Programs!Messages
        /\ \A i \in DOMAIN Tail(queue[p]) :
              /\ i + 1 \in DOMAIN queue[p]
              /\ Tail(queue[p])[i] = queue[p][i + 1]
    BY <1>1, HeadTailProperties
  <1>3. queue' \in [Programs!Programs -> Seq(Programs!Messages)]
    BY <1>1, <1>2
  <1>4. \A r \in Programs!Programs : queue[r] = <<>> => queue'[r] = <<>>
    BY <1>1
  <1>5. \A i \in DOMAIN queue'["links"] : queue'["links"][i].type = "InterfacesAdded"
    <2>1. CASE p = "links"
      <3>1. queue'["links"] = Tail(queue["links"])
        BY <1>1, <2>1
      <3> QED
        BY <1>1, <1>2, <2>1, <3>1
    <2>2. CASE p # "links"
      BY <1>1, <2>2 DEF Programs!Programs
    <2> QED
      BY <2>1, <2>2
  <1> QED
    BY <1>2, <1>3, <1>4, <1>5

\* A program that ends leaves no message and nothing to visit.
LEMMA Ended ==
    ASSUME Programs!TypeOK, NEW p \in Programs!Programs, Programs!End(p)
    PROVE  /\ queue' \in [Programs!Programs -> Seq(Programs!Messages)]
           /\ visit' \in [Programs!Programs -> SUBSET Objects]
           /\ stage' = [stage EXCEPT ![p] = "ended"]
           /\ \A r \in Programs!Programs :
                  stage'[r] \in {"idle", "ended"} => queue'[r] = <<>>
           /\ \A i \in DOMAIN queue'["links"] :
                  queue'["links"][i].type = "InterfacesAdded"
  <1>1. <<>> \in Seq(Programs!Messages) /\ DOMAIN <<>> = {}
    BY EmptySeq
  <1> QED
    BY <1>1 DEF Programs!End, Programs!TypeOK, Programs!Programs

\* What the environment does: the programs' own variables but for the queues stay.
EnvironmentStep ==
    \/ Programs!EmStart \/ Programs!Publish \/ Programs!EmStop
    \/ Programs!PldmStart \/ Programs!MapperLearns \/ Programs!PldmStop

\* Entity manager, PLDM and the mapper leave the programs alone.
LEMMA EnvironmentPart ==
    ASSUME Programs!TypeOK, EnvironmentStep
    PROVE  Programs!TypeOK' /\ UNCHANGED <<kind, stage, visit, exiting, linked, sent, rejected>>
  <1>1. UNCHANGED <<kind, stage, visit, exiting, linked, sent, rejected>>
    BY DEF EnvironmentStep, Programs!EmStart, Programs!Publish, Programs!EmStop,
       Programs!PldmStart, Programs!MapperLearns, Programs!PldmStop
  <1>2. /\ published' \subseteq Objects /\ restarts' \in 0 .. MaxRestarts
        /\ em' \in BOOLEAN /\ pldm' \in BOOLEAN /\ manager' \in BOOLEAN
    <2>1. /\ published \subseteq Objects /\ restarts \in 0 .. MaxRestarts
          /\ em \in BOOLEAN /\ pldm \in BOOLEAN /\ manager \in BOOLEAN
      BY DEF Programs!TypeOK
    <2>2. CASE UNCHANGED restarts
      <3>1. published' \subseteq Objects
        BY <2>1, <2>2 DEF EnvironmentStep, Programs!EmStart, Programs!Publish, Programs!EmStop,
           Programs!PldmStart, Programs!MapperLearns, Programs!PldmStop
      <3>2. em' \in BOOLEAN /\ pldm' \in BOOLEAN
        BY <2>1 DEF EnvironmentStep, Programs!EmStart, Programs!Publish, Programs!EmStop,
           Programs!PldmStart, Programs!MapperLearns, Programs!PldmStop
      <3>3. manager' \in BOOLEAN
        BY <2>1 DEF EnvironmentStep, Programs!EmStart, Programs!Publish, Programs!EmStop,
           Programs!PldmStart, Programs!MapperLearns, Programs!PldmStop
      <3> QED
        BY <2>1, <2>2, <3>1, <3>2, <3>3
    <2>3. CASE Programs!EmStop \/ Programs!PldmStop
      <3>1. restarts < MaxRestarts /\ restarts' = restarts + 1
        BY <2>3 DEF Programs!EmStop, Programs!PldmStop
      <3>2. restarts' \in 0 .. MaxRestarts
        BY <2>1, <3>1, ProgramsAssumption
      <3>3. /\ published' \subseteq Objects
            /\ em' \in BOOLEAN /\ pldm' \in BOOLEAN /\ manager' \in BOOLEAN
        BY <2>1, <2>3 DEF Programs!EmStop, Programs!PldmStop
      <3> QED
        BY <3>2, <3>3
    <2> QED
      BY <2>2, <2>3 DEF EnvironmentStep, Programs!EmStart, Programs!Publish,
         Programs!PldmStart, Programs!MapperLearns
  <1>3. /\ queue' \in [Programs!Programs -> Seq(Programs!Messages)]
        /\ \A p \in Programs!Programs : stage[p] \in {"idle", "ended"} => queue'[p] = <<>>
        /\ \A i \in DOMAIN queue'["links"] : queue'["links"][i].type = "InterfacesAdded"
    <2>1. CASE Programs!Publish
      <3>1. PICK o \in Objects :
              Programs!Signal(Programs!Programs, [type |-> "InterfacesAdded", object |-> o])
        BY <2>1 DEF Programs!Publish
      <3>2. [type |-> "InterfacesAdded", object |-> o] \in Programs!Messages
        BY DEF Programs!Messages
      <3> QED
        BY <3>1, <3>2, SignalType
    <2>2. CASE Programs!PldmStart \/ Programs!PldmStop
      <3>1. PICK b \in BOOLEAN :
              Programs!Signal({"bios"}, [type |-> "NameOwnerChanged", owner |-> b])
        BY <2>2 DEF Programs!PldmStart, Programs!PldmStop
      <3> DEFINE m == [type |-> "NameOwnerChanged", owner |-> b]
      <3>2. m \in Programs!Messages /\ ~("links" \in {"bios"})
        BY DEF Programs!Messages
      <3>3. Programs!Signal({"bios"}, m)
        BY <3>1
      <3> HIDE DEF m
      <3> QED
        BY <3>2, <3>3, SignalType
    <2>3. CASE UNCHANGED queue
      BY <2>3 DEF Programs!TypeOK
    <2> QED
      BY <2>1, <2>2, <2>3 DEF EnvironmentStep, Programs!EmStart, Programs!EmStop,
         Programs!MapperLearns
  <1> QED
    BY <1>1, <1>2, <1>3 DEF Programs!TypeOK

\* Links are made, and the table set, for an object of the known model only.
LEMMA ActsType ==
    ASSUME Programs!TypeOK, NEW p, NEW o, NEW ok \in BOOLEAN, Programs!Acts(p, o, ok)
    PROVE  linked' \in BOOLEAN /\ sent' \in BOOLEAN /\ rejected' \in BOOLEAN
BY DEF Programs!Acts, Programs!TypeOK, Programs!Sets

\* One step of one program keeps the types.
LEMMA ProgramType ==
    ASSUME Programs!TypeOK, NEW p \in Programs!Programs, Programs!Step(p)
    PROVE  Programs!TypeOK'
  <1> DEFINE Queues ==
        /\ queue' \in [Programs!Programs -> Seq(Programs!Messages)]
        /\ \A r \in Programs!Programs : stage'[r] \in {"idle", "ended"} => queue'[r] = <<>>
        /\ \A i \in DOMAIN queue'["links"] : queue'["links"][i].type = "InterfacesAdded"
  <1> DEFINE Steps ==
        /\ stage' \in [Programs!Programs ->
              {"idle", "matched", "enumerating", "waiting", "handling", "ended"}]
        /\ visit' \in [Programs!Programs -> SUBSET Objects]
        /\ exiting' \in [Programs!Programs -> BOOLEAN]
        /\ linked' \in BOOLEAN /\ sent' \in BOOLEAN /\ rejected' \in BOOLEAN
  <1>0. UNCHANGED Programs!environment
    BY DEF Programs!Step, Programs!Begin, Programs!Enumerate, Programs!VisitEnumerated,
       Programs!Wait, Programs!ReceiveAdded, Programs!ReceiveOwner, Programs!VisitHandled,
       Programs!Handled
  <1> SUFFICES Queues /\ Steps
    BY <1>0 DEF Programs!TypeOK, Programs!environment
  <1>1. CASE Programs!Begin(p)
    <2>1. Steps
      BY <1>1 DEF Programs!Begin, Programs!TypeOK
    <2>2. Queues
      BY <1>1 DEF Programs!Begin, Programs!TypeOK
    <2> QED
      BY <2>1, <2>2
  <1>2. CASE Programs!Enumerate(p)
    <2>1. Programs!Snapshot \subseteq Objects
      BY DEF Programs!Snapshot, Programs!TypeOK
    <2>2. Steps
      BY <1>2, <2>1 DEF Programs!Enumerate, Programs!TypeOK
    <2>3. Queues
      BY <1>2 DEF Programs!Enumerate, Programs!TypeOK
    <2> QED
      BY <2>2, <2>3
  <1>3. CASE Programs!VisitEnumerated(p)
    <2> DEFINE o == Programs!Min(visit[p])
    <2>1. linked' \in BOOLEAN /\ sent' \in BOOLEAN /\ rejected' \in BOOLEAN
      <3>1. PICK ok \in BOOLEAN : Programs!Acts(p, o, ok)
        BY <1>3 DEF Programs!VisitEnumerated
      <3> QED
        BY <3>1, ActsType
    <2>2. CASE Programs!End(p)
      <3>1. exiting' = exiting
        BY <1>3 DEF Programs!VisitEnumerated
      <3>2. Steps
        BY <2>1, <2>2, <3>1, Ended DEF Programs!TypeOK
      <3>3. Queues
        BY <2>2, Ended
      <3> QED
        BY <3>2, <3>3
    <2>3. CASE ~Programs!End(p)
      <3>1. visit' = [visit EXCEPT ![p] = @ \ {o}] /\ UNCHANGED <<stage, queue, exiting>>
        BY <1>3, <2>3 DEF Programs!VisitEnumerated
      <3>2. Steps
        BY <2>1, <3>1 DEF Programs!TypeOK
      <3>3. Queues
        BY <3>1 DEF Programs!TypeOK
      <3> QED
        BY <3>2, <3>3
    <2> QED
      BY <2>2, <2>3
  <1>4. CASE Programs!Wait(p)
    <2>1. Steps
      BY <1>4 DEF Programs!Wait, Programs!TypeOK
    <2>2. Queues
      BY <1>4 DEF Programs!Wait, Programs!TypeOK
    <2> QED
      BY <2>1, <2>2
  <1>5. CASE Programs!ReceiveAdded(p)
    <2>0. queue[p] # <<>>
      BY <1>5 DEF Programs!ReceiveAdded, Programs!Received
    <2>1. /\ linked' \in BOOLEAN /\ sent' \in BOOLEAN /\ rejected' \in BOOLEAN
          /\ exiting' = exiting
      <3>1. PICK ok \in BOOLEAN : Programs!Acts(p, Head(queue[p]).object, ok)
        BY <1>5 DEF Programs!ReceiveAdded
      <3> QED
        BY <1>5, <3>1, ActsType DEF Programs!ReceiveAdded
    <2>2. CASE Programs!End(p)
      <3>1. Steps
        BY <2>1, <2>2, Ended DEF Programs!TypeOK
      <3>2. Queues
        BY <2>2, Ended
      <3> QED
        BY <3>1, <3>2
    <2>3. CASE ~Programs!End(p)
      <3>1. queue' = [queue EXCEPT ![p] = Tail(@)] /\ UNCHANGED <<stage, visit>>
        BY <1>5, <2>3 DEF Programs!ReceiveAdded
      <3>2. Steps
        BY <2>1, <3>1 DEF Programs!TypeOK
      <3>3. \A r \in Programs!Programs :
              stage[r] \in {"idle", "ended"} => queue[r] = <<>>
        BY DEF Programs!TypeOK
      <3>4. Queues
        BY <2>0, <3>1, <3>3, TakeMessage
      <3> QED
        BY <3>2, <3>4
    <2> QED
      BY <2>2, <2>3
  <1>6. CASE Programs!ReceiveOwner(p)
    <2>1. /\ queue[p] # <<>> /\ queue' = [queue EXCEPT ![p] = Tail(@)]
          /\ UNCHANGED <<exiting, linked, sent, rejected>>
          /\ \/ UNCHANGED <<stage, visit>>
             \/ /\ stage' = [stage EXCEPT ![p] = "handling"]
                /\ visit' = [visit EXCEPT ![p] = Programs!Snapshot]
      BY <1>6 DEF Programs!ReceiveOwner, Programs!Received
    <2>2. Programs!Snapshot \subseteq Objects
      BY DEF Programs!Snapshot, Programs!TypeOK
    <2>3. Steps
      BY <2>1, <2>2 DEF Programs!TypeOK
    <2>4. \A r \in Programs!Programs :
            stage'[r] \in {"idle", "ended"} => queue[r] = <<>>
      BY <2>1 DEF Programs!TypeOK
    <2>5. Queues
      BY <2>1, <2>4, TakeMessage
    <2> QED
      BY <2>3, <2>5
  <1>7. CASE Programs!VisitHandled(p)
    <2>1. linked' \in BOOLEAN /\ sent' \in BOOLEAN /\ rejected' \in BOOLEAN
      <3>1. PICK ok \in BOOLEAN : Programs!Acts(p, Programs!Min(visit[p]), ok)
        BY <1>7 DEF Programs!VisitHandled
      <3> QED
        BY <3>1, ActsType
    <2>2. PICK o : visit' = [visit EXCEPT ![p] = @ \ {o}]
      BY <1>7 DEF Programs!VisitHandled
    <2>3. exiting' \in [Programs!Programs -> BOOLEAN]
      BY <1>7 DEF Programs!VisitHandled, Programs!TypeOK, Programs!Found, Programs!Compatible
    <2>4. UNCHANGED <<stage, queue>>
      BY <1>7 DEF Programs!VisitHandled
    <2>5. Steps
      BY <2>1, <2>2, <2>3, <2>4 DEF Programs!TypeOK
    <2>6. Queues
      BY <2>4 DEF Programs!TypeOK
    <2> QED
      BY <2>5, <2>6
  <1>8. CASE Programs!Handled(p)
    <2>1. UNCHANGED <<exiting, linked, sent, rejected>>
      BY <1>8 DEF Programs!Handled
    <2>2. CASE Programs!End(p)
      <3>1. Steps
        BY <2>1, <2>2, Ended DEF Programs!TypeOK
      <3>2. Queues
        BY <2>2, Ended
      <3> QED
        BY <3>1, <3>2
    <2>3. CASE ~Programs!End(p)
      <3>1. stage' = [stage EXCEPT ![p] = "waiting"] /\ UNCHANGED <<queue, visit>>
        BY <1>8, <2>3 DEF Programs!Handled
      <3>2. Steps
        BY <2>1, <3>1 DEF Programs!TypeOK
      <3>3. Queues
        BY <3>1 DEF Programs!TypeOK
      <3> QED
        BY <3>2, <3>3
    <2> QED
      BY <2>2, <2>3
  <1> QED
    BY <1>1, <1>2, <1>3, <1>4, <1>5, <1>6, <1>7, <1>8 DEF Programs!Step

\* The object a program acts on, if it is the Compatible one, is the one of the model.
LEMMA OnlyTheModel ==
    ASSUME Programs!ModelKnown, NEW x \in Objects, Programs!Compatible(x)
    PROVE  kind[x] = "known"
BY DEF Programs!ModelKnown

\* A program that has found its object has acted on it.
LEMMA FoundActed ==
    ASSUME Programs!TypeOK, Programs!ModelKnown, NEW p \in Programs!Programs,
           NEW x \in Objects, NEW ok \in BOOLEAN, Programs!Acts(p, x, ok)
    PROVE  /\ Programs!Found(p, x, ok) /\ p = "links" => linked'
           /\ Programs!Found(p, x, ok) /\ p = "bios" => sent'
           /\ linked => linked'
           /\ sent => sent'
  <1>1. Programs!Found(p, x, ok) => kind[x] = "known"
    BY OnlyTheModel DEF Programs!Found
  <1>2. Programs!Found(p, x, ok) /\ p = "bios" => Programs!Sets(p, x) /\ ok
    BY <1>1 DEF Programs!Found, Programs!Fails, Programs!Sets
  <1>3. /\ linked' = (linked \/ (p = "links" /\ kind[x] = "known"))
        /\ \/ Programs!Sets(p, x) /\ sent' = TRUE
           \/ (Programs!Sets(p, x) => ~ok) /\ UNCHANGED sent
    BY DEF Programs!Acts
  <1>4. (linked => linked') /\ (Programs!Found(p, x, ok) /\ p = "links" => linked')
    BY <1>1, <1>3, Zenon
  <1>5. (sent => sent') /\ (Programs!Found(p, x, ok) /\ p = "bios" => sent')
    <2>1. CASE sent' = TRUE
      BY <2>1
    <2>2. CASE (Programs!Sets(p, x) => ~ok) /\ sent' = sent
      <3>1. ~(Programs!Found(p, x, ok) /\ p = "bios")
        BY <1>2, <2>2, Zenon
      <3> QED
        BY <2>2, <3>1, Zenon
    <2> QED
      BY <1>3, <2>1, <2>2
  <1> QED
    BY <1>4, <1>5

\* Whether the model is known depends only on what the Compatible objects name.
LEMMA KnownStays ==
    ASSUME UNCHANGED kind PROVE Programs!ModelKnown' <=> Programs!ModelKnown
BY DEF Programs!ModelKnown, Programs!Compatible

\* A program ends only when it has found the model and acted on it.
LEMMA ProgramPrepared ==
    ASSUME PInv, NEW p \in Programs!Programs, Programs!Step(p)
    PROVE  Prepared'
  <1>0. UNCHANGED kind
    BY DEF Programs!Step, Programs!Begin, Programs!Enumerate, Programs!VisitEnumerated,
       Programs!Wait, Programs!ReceiveAdded, Programs!ReceiveOwner, Programs!VisitHandled,
       Programs!Handled, Programs!environment
  <1> DEFINE Goal ==
        /\ stage'["links"] = "ended" => linked'
        /\ exiting'["links"] => linked'
        /\ exiting'["bios"] => sent'
        /\ stage'["bios"] # "idle" => stage'["links"] = "ended"
        /\ stage'["bios"] = "ended" => sent'
  <1> SUFFICES ASSUME Programs!ModelKnown PROVE Goal
    BY <1>0, KnownStays DEF Prepared
  <1>1. /\ stage["links"] = "ended" => linked
        /\ exiting["links"] => linked
        /\ exiting["bios"] => sent
        /\ stage["bios"] # "idle" => stage["links"] = "ended"
        /\ stage["bios"] = "ended" => sent
    BY DEF PInv, Prepared
  <1>2. /\ DOMAIN stage = {"links", "bios"} /\ DOMAIN exiting = {"links", "bios"}
        /\ p \in {"links", "bios"}
        /\ visit[p] \subseteq Objects
    BY DEF PInv, Programs!TypeOK, Programs!Programs
  <1> USE DEF Programs!End
  <1>3. CASE Programs!Begin(p)
    BY <1>1, <1>2, <1>3 DEF Programs!Begin
  <1>4. CASE Programs!Enumerate(p)
    BY <1>1, <1>2, <1>4 DEF Programs!Enumerate
  <1>5. CASE Programs!VisitEnumerated(p)
    <2> DEFINE o == Programs!Min(visit[p])
    <2>1. o \in Objects
      BY <1>2, <1>5, MinIsIn, ProgramsAssumption DEF Programs!VisitEnumerated
    <2>2. PICK ok \in BOOLEAN :
          /\ stage[p] = "enumerating" /\ UNCHANGED exiting
          /\ Programs!Acts(p, o, ok)
          /\ \/ Programs!Found(p, o, ok) /\ stage' = [stage EXCEPT ![p] = "ended"]
             \/ UNCHANGED stage
      BY <1>5 DEF Programs!VisitEnumerated, Programs!environment
    <2>3. /\ Programs!Found(p, o, ok) /\ p = "links" => linked'
          /\ Programs!Found(p, o, ok) /\ p = "bios" => sent'
          /\ linked => linked'
          /\ sent => sent'
      BY <2>1, <2>2, FoundActed DEF PInv
    <2> HIDE DEF o
    <2> QED
      BY <1>1, <1>2, <2>2, <2>3
  <1>6. CASE Programs!Wait(p)
    BY <1>1, <1>2, <1>6 DEF Programs!Wait
  <1>7. CASE Programs!ReceiveAdded(p)
    <2> DEFINE o == Head(queue[p]).object
    <2>1. o \in Objects
      <3>1. queue[p] # <<>> /\ Head(queue[p]).type = "InterfacesAdded"
        BY <1>7 DEF Programs!ReceiveAdded, Programs!Received
      <3>2. queue[p] \in Seq(Programs!Messages)
        BY DEF PInv, Programs!TypeOK
      <3>3. Head(queue[p]) \in Programs!Messages
        BY <3>1, <3>2, HeadTailProperties
      <3> QED
        BY <3>1, <3>3 DEF Programs!Messages
    <2>2. PICK ok \in BOOLEAN :
          /\ stage[p] = "waiting" /\ UNCHANGED exiting
          /\ Programs!Acts(p, o, ok)
          /\ \/ Programs!Found(p, o, ok) /\ stage' = [stage EXCEPT ![p] = "ended"]
             \/ UNCHANGED stage
      BY <1>7 DEF Programs!ReceiveAdded, Programs!Received
    <2>3. /\ Programs!Found(p, o, ok) /\ p = "links" => linked'
          /\ Programs!Found(p, o, ok) /\ p = "bios" => sent'
          /\ linked => linked'
          /\ sent => sent'
      BY <2>1, <2>2, FoundActed DEF PInv
    <2> HIDE DEF o
    <2> QED
      BY <1>1, <1>2, <2>2, <2>3
  <1>8. CASE Programs!ReceiveOwner(p)
    <2>1. /\ stage[p] = "waiting" /\ UNCHANGED <<exiting, linked, sent, rejected>>
          /\ stage' \in {stage, [stage EXCEPT ![p] = "handling"]}
      BY <1>8 DEF Programs!ReceiveOwner, Programs!Received
    <2> QED
      BY <1>1, <1>2, <2>1
  <1>9. CASE Programs!VisitHandled(p)
    <2> DEFINE o == Programs!Min(visit[p])
    <2>1. o \in Objects
      BY <1>2, <1>9, MinIsIn, ProgramsAssumption DEF Programs!VisitHandled
    <2>2. PICK ok \in BOOLEAN :
          /\ UNCHANGED stage
          /\ Programs!Acts(p, o, ok)
          /\ exiting' = [exiting EXCEPT ![p] = @ \/ Programs!Found(p, o, ok)]
      BY <1>9 DEF Programs!VisitHandled
    <2>3. /\ Programs!Found(p, o, ok) /\ p = "links" => linked'
          /\ Programs!Found(p, o, ok) /\ p = "bios" => sent'
          /\ linked => linked'
          /\ sent => sent'
      BY <2>1, <2>2, FoundActed DEF PInv
    <2> HIDE DEF o
    <2>4. /\ exiting'["links"] => exiting["links"] \/ (p = "links" /\ Programs!Found(p, o, ok))
          /\ exiting'["bios"] => exiting["bios"] \/ (p = "bios" /\ Programs!Found(p, o, ok))
      BY <1>2, <2>2, Zenon
    <2> QED
      BY <1>1, <2>2, <2>3, <2>4, Zenon
  <1>10. CASE Programs!Handled(p)
    <2>1. /\ stage[p] = "handling" /\ UNCHANGED <<exiting, linked, sent, rejected>>
          /\ \/ exiting[p] /\ stage' = [stage EXCEPT ![p] = "ended"]
             \/ stage' = [stage EXCEPT ![p] = "waiting"]
      BY <1>10 DEF Programs!Handled
    <2> QED
      BY <1>1, <1>2, <2>1
  <1> QED
    BY <1>3, <1>4, <1>5, <1>6, <1>7, <1>8, <1>9, <1>10 DEF Programs!Step

\* What is known of the programs is kept by every step.
LEMMA BootStep == PInv /\ [BootNext]_bootVars => PInv'
  <1> SUFFICES ASSUME PInv, [BootNext]_bootVars PROVE PInv'
    OBVIOUS
  <1>1. CASE EnvironmentStep
    <2>1. Programs!TypeOK' /\ UNCHANGED <<kind, stage, visit, exiting, linked, sent, rejected>>
      BY <1>1, EnvironmentPart DEF PInv
    <2>2. Programs!ModelKnown' <=> Programs!ModelKnown
      BY <2>1, KnownStays
    <2> QED
      BY <2>1, <2>2 DEF PInv, Prepared
  <1>2. ASSUME NEW p \in Programs!Programs, Programs!Step(p) PROVE PInv'
    BY <1>2, ProgramType, ProgramPrepared DEF PInv
  <1>3. CASE UNCHANGED programVars
    <2>1. Programs!ModelKnown' <=> Programs!ModelKnown
      BY <1>3, KnownStays DEF programVars
    <2> QED
      BY <1>3, <2>1 DEF PInv, Prepared, programVars, Programs!TypeOK
  <1> QED
    BY <1>1, <1>2, <1>3 DEF BootNext, OfLinks, bootVars, EnvironmentStep, Programs!Step,
       Programs!Programs

\* The programs keep to their types: only one that runs has signals waiting, only the
\* second is told about PLDM, and what is visited is an object of entity manager.
THEOREM ProgramsTypeCorrect == BootSpec => []Programs!TypeOK
  BY BootStart, BootStep, PTL DEF BootSpec, PInv

\* The flash daemon finds the links made and the attribute table set, for any objects of
\* entity manager and any number of restarts, in whatever order the signals come.
THEOREM HostIsPreparedHolds == BootSpec => []HostIsPrepared
  <1>1. PInv => HostIsPrepared
    BY DEF PInv, Prepared, HostIsPrepared, Programs!HostIsPrepared
  <1> QED
    BY BootStart, BootStep, <1>1, PTL DEF BootSpec
=============================================================================
