------------------------------ MODULE Storage ------------------------------
(***************************************************************************)
(* What the three destinations hold and what the calls of                  *)
(* freefox/backends/ do to them.  An object is the bytes stored at a       *)
(* location and the BLAKE3 label stored beside them: user metadata on S3,  *)
(* appProperties on Drive, the .blake3 sidecar of rsync.                   *)
(*                                                                         *)
(* A bag is bound to a destination when it is queued (backend and          *)
(* destination_json), and to a path there.  Two bindings may name the same *)
(* store: destination_json also records the profile, the CA bundle, the    *)
(* addressing style and so on.                                             *)
(***************************************************************************)
EXTENDS UploadQueue

CONSTANTS
  Bindings,   \* the values of (backend, destination_json) in the queue
  Stores,     \* buckets, Drive target folders, rsync destinations
  Paths,      \* remote paths
  BindingOf, PathOf,   \* of each bag
  StoreOf,             \* of each binding
  KindOf,              \* of each store
  FolderOf,            \* of each path: its parent folder on Drive
  Torn        \* bytes that are no bag: a partial file, or a mix of two

ASSUME StorageAssumption ==
  /\ BindingOf \in [Bags -> Bindings]
  /\ PathOf \in [Bags -> Paths]
  /\ StoreOf \in [Bindings -> Stores]
  /\ KindOf \in [Stores -> {"s3", "gdrive", "rsync"}]
  /\ DOMAIN FolderOf = Paths
  /\ Torn \notin Contents

VARIABLE remote

Locations == Stores \X Paths

LocationOf(b) == <<StoreOf[BindingOf[b]], PathOf[b]>>
Kind(b)       == KindOf[StoreOf[BindingOf[b]]]

Objects == [label : Digests, data : Contents \cup {Torn}]

\* S3 and rsync keep one object per location; Drive allows several.
StorageTypeOK == remote \in [Locations -> SUBSET Objects]

StorageInit == remote = [l \in Locations |-> {}]

-----------------------------------------------------------------------------
(* Looking.                                                                *)

SizeFits(o, size) == o.data # Torn => SizeOf[o.data] = size

\* Label and size are all a backend can compare: nobody reads the bytes back.
Identical(o, digest, size) == o.label = digest /\ SizeFits(o, size)

\* Where find_duplicate() looks: rsync at the path itself, Drive at every file
\* of the parent folder whatever its name.
LookupOf(b) ==
  IF Kind(b) = "gdrive"
  THEN {l \in Locations : /\ l[1] = StoreOf[BindingOf[b]]
                          /\ FolderOf[l[2]] = FolderOf[PathOf[b]]}
  ELSE {LocationOf(b)}

\* Mutant of FindDuplicate: a file of the same size is a duplicate.
FindSameSize(b, digest, size) ==
  \E l \in LookupOf(b) : \E o \in remote[l] : SizeFits(o, size)

FindDuplicate(b, digest, size) ==
  \E l \in LookupOf(b) : \E o \in remote[l] : Identical(o, digest, size)

\* The size of a torn rsync file is anyone's guess, so it may also not fit.
SurelyDuplicate(b, digest, size) ==
  \E l \in LookupOf(b) : \E o \in remote[l] :
    Identical(o, digest, size) /\ (Kind(b) = "rsync" => o.data # Torn)

Exists(b) == remote[LocationOf(b)] # {}

\* Mutant of Identical3: the digest in the metadata is not compared.
SameSize3(b, digest, size) == \E o \in remote[LocationOf(b)] : SizeFits(o, size)
\* Mutant of Conflict3: any object under the key is a conflict.
Occupied3(b, digest, size) == Exists(b)

\* S3Backend.inspect(): nothing there, the same object, or something else.
Missing3(b)                 == ~Exists(b)
Identical3(b, digest, size) == \E o \in remote[LocationOf(b)] : Identical(o, digest, size)
Conflict3(b, digest, size)  == Exists(b) /\ ~Identical3(b, digest, size)

-----------------------------------------------------------------------------
(* Storing.                                                                *)

\* CompleteMultipartUpload puts the assembled object in place of whatever the
\* key held.
S3Complete(b, digest, data) ==
  remote' = [remote EXCEPT ![LocationOf(b)] = {[label |-> digest, data |-> data]}]

\* The last chunk of a resumable session creates one more file in the folder.
DriveCreate(b, digest, data) ==
  remote' = [remote EXCEPT ![LocationOf(b)] = @ \cup {[label |-> digest, data |-> data]}]

\* rsync --inplace rewrites the bytes and leaves the sidecar of the old ones.
RsyncWrite(b, data) ==
  LET before == remote[LocationOf(b)]
      label  == IF before = {} THEN NoDigest ELSE (CHOOSE o \in before : TRUE).label
  IN  remote' = [remote EXCEPT ![LocationOf(b)] = {[label |-> label, data |-> data]}]

\* Cut short, it leaves a partial file, except where it was writing the same bytes
\* over themselves.
RsyncInterrupted(b, source) ==
  IF \E o \in remote[LocationOf(b)] : o.data = source
  THEN UNCHANGED remote
  ELSE RsyncWrite(b, Torn)

\* A second rsync then replaces the sidecar.
RsyncLabel(b, digest) ==
  remote' = [remote EXCEPT ![LocationOf(b)] = {[o EXCEPT !.label = digest] : o \in @}]

=============================================================================
