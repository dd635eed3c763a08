------------------------------- MODULE MC_UbiUpdater -------------------------------
(* Small instances of UbiUpdater. Version ids are numbers in the order of the id   *)
(* strings. Each surrounding below says what happens around the daemon.            *)
EXTENDS UbiUpdater

\* One version and everything that can happen to it.
EverythingToOne ==
    [events |-> {"invalid", "reupload", "delete", "signature", "failure", "symlink",
                 "chassis", "crash"},
     uploads |-> {1}, unlabelled |-> {}]

\* Three versions, room for two: one update after the other, and the host boots
\* between them.
UpdateThenBoot ==
    [events |-> {"symlink", "chassis"}, uploads |-> {1, 2, 3}, unlabelled |-> {}]

\* The same with several updates at a time.
UpdatesAndBoots ==
    [events |-> {"parallel", "write", "symlink", "chassis"},
     uploads |-> {1, 2, 3}, unlabelled |-> {1, 2, 3}]

\* Two activations at once whose mount jobs fail and are retried.
FailuresAndRetries ==
    [events |-> {"parallel", "failure"}, uploads |-> {1, 2}, unlabelled |-> {}]

\* The daemon goes down and comes back at any point of two activations.
RestartsAndBoots ==
    [events |-> {"parallel", "write", "symlink", "chassis", "crash"},
     uploads |-> {1, 2}, unlabelled |-> {2}]

\* One activation at a time, with what can go wrong between two of them.
OneAfterAnother ==
    [events |-> {"invalid", "signature", "failure"}, uploads |-> {1, 2}, unlabelled |-> {}]

\* Updates alone, and restarts alone.
OnlyUpdates == [events |-> {"parallel"}, uploads |-> {1, 2}, unlabelled |-> {}]
OnlyRestarts ==
    [events |-> {"parallel", "crash"}, uploads |-> {1, 2, 3}, unlabelled |-> {}]

\* ubi_updates
SafetySurroundings ==
    {EverythingToOne, UpdateThenBoot, UpdatesAndBoots, FailuresAndRetries,
     OneAfterAnother, RestartsAndBoots}

\* ubi_progress
ProgressSurroundings == {OneAfterAnother, RestartsAndBoots}

\* ubi_unsubscribe, ubi_priority_wrap
UpdateSurroundings == {OnlyUpdates}
RestartSurroundings == {OnlyRestarts}
===================================================================================
