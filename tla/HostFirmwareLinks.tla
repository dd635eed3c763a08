-------------------------- MODULE HostFirmwareLinks --------------------------
(***************************************************************************)
(* The well-known names of the host firmware on eMMC systems               *)
(* (functions.cpp).  At every boot, and before the host's flash daemon,    *)
(* two programs run one after the other over /media/hostfw/running:        *)
(*                                                                         *)
(*   process-host-firmware   findLinks visits the directory and gives each *)
(*                           blob "name.ext" of this model the link "name" *)
(*   update-bios-attr-table  getBiosAttrStr reads elements.json into the   *)
(*                           map attr, which is sent to the host as        *)
(*                           hb_lid_ids, and then makes the links agree    *)
(*                           with it                                       *)
(*                                                                         *)
(* Power may be lost at any step; the directory survives.  File names are  *)
(* split as std::filesystem::path splits them: a blob or an element is a   *)
(* name, an extension and, for elements, whether ".iplTime" follows.       *)
(***************************************************************************)
EXTENDS Naturals, Sequences

CONSTANTS Names,        \* element names without extensions
          Toc,          \* the name "pnor.toc"
          Lids,         \* lid files
          TocLid,       \* 81e00994.lid
          Supported,    \* the extensions of this model
          Unsupported,  \* extensions of other models
          NoExtension,  \* no extension at all
          Nothing, File,\* no directory entry; one that is not a symlink
          Bounds        \* bounds, of which one holds for a behaviour:
                        \*   initial   what the entries may be at first
                        \*   blobs     the files "name.ext" there may be
                        \*   elements  the number of elements in elements.json
                        \*   restarts  whether the BMC starts again

ASSUME BoundsAssumption ==
    \A b \in Bounds :
        /\ b.initial \subseteq {Nothing, File} \cup Lids \cup Supported
        /\ b.blobs \subseteq Names \X (Supported \cup Unsupported)
ASSUME TocAssumption == Toc \in Names /\ TocLid \in Lids
ASSUME KindsAssumption == /\ Nothing # File
                          /\ {Nothing, File} \cap (Lids \cup Supported) = {}
                          /\ Lids \cap Supported = {}
                          /\ Supported \cap Unsupported = {}
                          /\ NoExtension \notin Supported \cup Unsupported

VARIABLES bounds,    \* the bounds of this behaviour
          blobs,     \* the files "name.ext" in the directory
          tocPresent,\* whether TocLid is one of the files
          dir,       \* the well-known names in the directory
          phase,     \* "toc", "blobs", "elements", "links" or "done"
          todo,      \* what the loop of the phase has still to visit
          elements,  \* the lids array of elements.json, as far as it is read
          attr,      \* std::map attr of getBiosAttrStr
          failed     \* entries an error kept from being linked since the boot

input == <<bounds, blobs, tocPresent>>
vars == <<input, dir, phase, todo, elements, attr, failed>>

Entries == Names \X {"boot", "_RT"}
Boot(n) == <<n, "boot">>
Runtime(n) == <<n, "_RT">>

\* A link leads to a lid or, named by its extension, to a blob of its name.
Contents == {Nothing, File} \cup Lids \cup Supported

\* pnor.toc keeps its own extension only under a further one, so that an
\* element of that name has one.  An object of the array that lacks its name or
\* its lid is passed over and no element.
Element ==
    {e \in [name : Names, ext : Supported \cup Unsupported \cup {NoExtension},
            ipl : BOOLEAN, lid : Lids] :
        e.name = Toc => e.ext # NoExtension}

Init ==
    /\ bounds \in Bounds
    /\ blobs \in SUBSET bounds.blobs
    /\ tocPresent \in BOOLEAN
    /\ dir \in [Entries -> bounds.initial]
    /\ phase = "toc"
    /\ todo = blobs
    /\ elements = <<>>
    /\ attr = <<>>
    /\ failed = {}

(***************************************************************************)
(* process-host-firmware                                                   *)
(***************************************************************************)

\* writeLink: whatever has the name is removed first.  Either step may fail.
WriteLink(entry, target) ==
    \/ /\ dir' = [dir EXCEPT ![entry] = target]
       /\ UNCHANGED failed
    \/ /\ dir' \in {dir, [dir EXCEPT ![entry] = Nothing]}
       /\ failed' = failed \cup {entry}

\* The link of the table of contents is made before the loop.
LinkToc ==
    /\ phase = "toc"
    /\ todo = blobs
    /\ IF tocPresent THEN WriteLink(Boot(Toc), TocLid) ELSE UNCHANGED <<dir, failed>>
    /\ phase' = "blobs"
    /\ UNCHANGED <<input, todo, elements, attr>>

\* One turn of the loop, in the order of the directory.
LinkBlob ==
    /\ phase = "blobs"
    /\ \E b \in todo :
        /\ todo' = todo \ {b}
        /\ IF b[2] \in Supported THEN WriteLink(Boot(b[1]), b[2])
                                 ELSE UNCHANGED <<dir, failed>>
    /\ UNCHANGED <<input, phase, elements, attr>>

\* The directory cannot be read (any further): the iterator becomes the end
\* iterator and the loop ends.
DirectoryError ==
    /\ phase = "blobs"
    /\ todo # {}
    /\ failed' = failed \cup {Boot(b[1]) : b \in todo}
    /\ todo' = {}
    /\ UNCHANGED <<input, dir, phase, elements, attr>>

(***************************************************************************)
(* update-bios-attr-table: the elements                                    *)
(***************************************************************************)

ReadJson ==
    /\ phase = "blobs"
    /\ todo = {}
    /\ phase' = "elements"
    /\ UNCHANGED <<input, dir, todo, elements, attr, failed>>

\* std::map::insert keeps an entry that is there, operator[] replaces it.
Insert(map, entry, lid) ==
    IF entry \in DOMAIN map THEN map
    ELSE [e \in DOMAIN map \cup {entry} |-> IF e = entry THEN lid ELSE map[e]]
Assign(map, entry, lid) ==
    [e \in DOMAIN map \cup {entry} |-> IF e = entry THEN lid ELSE map[e]]

Known(e) == Boot(e.name) \in DOMAIN attr

\* An element with an extension of another model is passed over.
Skipped(e) == e.ext \in Unsupported

\* The mutant of TakeIpl: the ipl entry is inserted, not assigned.
TakeIplInserted(e) ==
    Insert(IF Known(e) THEN Insert(attr, Runtime(e.name), attr[Boot(e.name)]) ELSE attr,
           Boot(e.name), e.lid)

\* "name.iplTime" and "name.ext.iplTime": the entry is overwritten, and what
\* it was is kept as the runtime entry.
TakeIpl(e) ==
    Assign(IF Known(e) THEN Insert(attr, Runtime(e.name), attr[Boot(e.name)]) ELSE attr,
           Boot(e.name), e.lid)

\* "name.ext": an entry that differs is taken for the ipl one.
TakeSupported(e) ==
    IF ~Known(e) THEN Insert(attr, Boot(e.name), e.lid)
    ELSE IF attr[Boot(e.name)] # e.lid THEN Insert(attr, Runtime(e.name), e.lid)
    ELSE attr

\* "name": never replaces an entry.
TakeBare(e) == Insert(attr, Boot(e.name), e.lid)

Taken(e) ==
    CASE Skipped(e)                                      -> attr
      [] e.ipl /\ ~Skipped(e)                            -> TakeIpl(e)
      [] ~e.ipl /\ e.ext \in Supported /\ ~Skipped(e)    -> TakeSupported(e)
      [] ~e.ipl /\ e.ext = NoExtension /\ ~Skipped(e)    -> TakeBare(e)

TakeElement ==
    /\ phase = "elements"
    /\ Len(elements) < bounds.elements
    /\ \E e \in Element :
        /\ elements' = Append(elements, e)
        /\ attr' = Taken(e)
    /\ UNCHANGED <<input, dir, phase, todo, failed>>

(***************************************************************************)
(* update-bios-attr-table: the links                                       *)
(***************************************************************************)

\* The file ends, or could not be opened or parsed at all.
EndOfElements ==
    /\ phase = "elements"
    /\ phase' = "links"
    /\ todo' = DOMAIN attr
    /\ UNCHANGED <<input, dir, elements, attr, failed>>

\* The mutant of Mismatched: links are never removed.
MismatchedNever(entry) == FALSE

\* A link that leads elsewhere is removed, except that of the table of
\* contents; then a name that is not there is linked.  A dangling link is not
\* there for std::filesystem::exists, but create_symlink finds it: it stays.
Mismatched(entry) ==
    entry # Boot(Toc) /\ dir[entry] \notin {Nothing, File, attr[entry]}

FixedLink(entry) ==
    IF Mismatched(entry) \/ dir[entry] = Nothing THEN attr[entry] ELSE dir[entry]

FixLink ==
    /\ phase = "links"
    /\ \E entry \in todo :
        /\ todo' = todo \ {entry}
        /\ \/ /\ dir' = [dir EXCEPT ![entry] = FixedLink(entry)]
              /\ UNCHANGED failed
           \/ /\ FixedLink(entry) # dir[entry]
              /\ dir' \in {dir, [dir EXCEPT ![entry] = Nothing]}
              /\ failed' = failed \cup {entry}
    /\ UNCHANGED <<input, phase, elements, attr>>

\* The attribute string is complete and is sent.
Finish ==
    /\ phase = "links"
    /\ todo = {}
    /\ phase' = "done"
    /\ UNCHANGED <<input, dir, todo, elements, attr, failed>>

\* What writeLink or the loop over attr may have removed and not yet linked
\* again when the power fails.
Removable ==
    CASE phase = "toc"   -> IF tocPresent THEN {Boot(Toc)} ELSE {}
      [] phase = "blobs" -> {Boot(b[1]) : b \in {c \in todo : c[2] \in Supported}}
      [] phase = "links" -> {e \in todo : Mismatched(e)}
      [] OTHER           -> {}

\* The BMC starts again.
Boots ==
    /\ bounds.restarts
    /\ dir' \in {dir} \cup {[dir EXCEPT ![e] = Nothing] : e \in Removable}
    /\ phase' = "toc"
    /\ todo' = blobs
    /\ elements' = <<>>
    /\ attr' = <<>>
    /\ failed' = {}
    /\ UNCHANGED input

Next == \/ LinkToc \/ LinkBlob \/ DirectoryError \/ ReadJson \/ TakeElement
        \/ EndOfElements \/ FixLink \/ Finish \/ Boots

Spec == Init /\ [][Next]_vars

(***************************************************************************)
(* Properties                                                              *)
(***************************************************************************)

TypeOK ==
    /\ bounds \in Bounds
    /\ blobs \subseteq bounds.blobs
    /\ tocPresent \in BOOLEAN
    /\ dir \in [Entries -> Contents]
    /\ phase \in {"toc", "blobs", "elements", "links", "done"}
    /\ todo \subseteq IF phase = "links" THEN Entries ELSE blobs
    /\ elements \in Seq(Element)
    /\ DOMAIN attr \subseteq Entries
    /\ attr \in [DOMAIN attr -> Lids]
    /\ failed \subseteq Entries

\* The elements of a name that are not passed over, and those of them with the
\* extension ".iplTime".
OfName(n) == {i \in DOMAIN elements : elements[i].name = n /\ ~Skipped(elements[i])}
Ipl(n) == {i \in OfName(n) : elements[i].ipl}

\* "The elements with the ipl extension have higher priority" (the comment in
\* getBiosAttrStr): wherever they are in the file, the host boots with the
\* last of them.
IplWins ==
    \A n \in Names : \A i \in Ipl(n) :
        (\A j \in Ipl(n) : j <= i) =>
            Boot(n) \in DOMAIN attr /\ attr[Boot(n)] = elements[i].lid

\* What the host is told and what it finds agree: once both programs have run,
\* a name leads to the lid of the attribute string, whatever an earlier boot
\* or process-host-firmware left there.  Only a file that is no symlink stays,
\* and an entry that could not be written.
LinksFollow ==
    phase = "done" =>
        \A e \in DOMAIN attr \ (failed \cup {Boot(Toc)}) : dir[e] \in {attr[e], File}
=============================================================================
