------------------------------ MODULE MC_StaticUpdater -----------------------------
(* Small instances of StaticUpdater. *)
EXTENDS StaticUpdater

\* One update after the other, with units that fail, uploads that go and errors that
\* leave the property setter.
FailingUpdates ==
    [events |-> {"failure", "images", "mapper", "error"}, versions |-> {1, 2}]

\* Three updates that overlap.
OverlappingUpdates == [events |-> {"parallel", "failure"}, versions |-> {1, 2, 3}]

\* Updates that overlap, deletions, failures and restarts.
OverlapsAndRestarts ==
    [events |-> {"parallel", "unlabelled", "signature", "delete", "failure", "crash"},
     versions |-> {1, 2}]

\* Clients delete versions between updates.
ClientsDelete == [events |-> {"delete"}, versions |-> {1, 2}]

\* static_updates
Surroundings == {FailingUpdates, OverlappingUpdates, OverlapsAndRestarts}

\* static_deleted
DeletingSurroundings == {ClientsDelete}
===================================================================================
