--------------------------- MODULE MCQueueBinding ---------------------------
(* QueueBinding for a robot that leaves rsync for S3, with or without        *)
(* storage.legacy_backend, while the script knows Drive only.                *)
EXTENDS QueueBinding

MCSites == {"a", "b"}

Config(backend, legacy, site) == [backend |-> backend, legacy |-> legacy, site |-> site]

LeavingRsync ==
  {Config("rsync", None, "a"), Config("s3", None, "b"), Config("s3", "rsync", "b")}

\* An upgrade that cuts an upload off, alone or behind a bag that is done.
CutOff == {<<>>, <<"uploading">>, <<"done", "uploading">>}

Counts(crash, change) == [crash |-> crash, change |-> change]

Harsh == Counts(1, 1)

=============================================================================
