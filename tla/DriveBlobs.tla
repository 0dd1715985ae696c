------------------------------ MODULE DriveBlobs ------------------------------
(***************************************************************************)
(* The bytes of Drive files and the rows that say who needs them: file     *)
(* versions, content-addressed blobs with their reference counts, the      *)
(* reservations of finalizations in flight, and the queue of deletions.    *)
(* Each operator is the effect of one statement of a transaction.          *)
(***************************************************************************)
EXTENDS Integers, FiniteSets

CONSTANTS
  Object,       \* files: the ids of rows of "objects", never reused
  Content,      \* what a file may hold; equal contents have one sha256
  Process,      \* who holds reservations
  Dedup,        \* HELIX_DRIVE_CONTENT_DEDUP
  MaxVersions,  \* bound on the versions of a file
  MaxFresh,     \* bound on the random keys a content is given
  None

ASSUME DriveBlobsAssumption ==
  /\ Dedup \in BOOLEAN
  /\ MaxVersions \in Nat \ {0}
  /\ MaxFresh \in Nat
  /\ None \notin Object \cup Content \cup Process

VARIABLES
  version,      \* the immutable versions of the files
  blob,         \* blob[c]: the key that holds c and its reference count; no row: no key
  reservation,  \* reservation[o]: the blob key a finalization of o counts on, who knows it
  deletion,     \* deletion[k]: the state of the deletion queued for key k
  bytes         \* bytes[k]: what the object store holds at k

blobVars == <<version, blob, reservation, deletion, bytes>>

OwnKey(o, n) == <<"own", o, n>>
QuarantineKey(o) == <<"quarantine", o, 0>>
BlobKey(c, i) == <<"blob", c, i>>

Key == {OwnKey(o, n) : o \in Object, n \in 1..MaxVersions}
         \cup {QuarantineKey(o) : o \in Object}
         \cup {BlobKey(c, i) : c \in Content, i \in 0..MaxFresh}
ASSUME DriveKeyAssumption == None \notin Key
IsBlobKey(k) == k[1] = "blob"

Version == [object : Object, number : 1..MaxVersions, key : Key, content : Content]
Blob == [key : Key \cup {None}, refs : Int]
Reservation == [key : Key \cup {None}, holders : SUBSET Process]

NoBlob == [key |-> None, refs |-> 0]
NoReservation == [key |-> None, holders |-> {}]

VersionsOf(o) == {v \in version : v.object = o}
VersionsHolding(c, V) == {v \in V : v.content = c /\ IsBlobKey(v.key)}
NextNumber(o) == 1 + Cardinality(VersionsOf(o))

BlobTypeOK ==
  /\ version \subseteq Version
  /\ blob \in [Content -> Blob]
  /\ reservation \in [Object -> Reservation]
  /\ deletion \in [Key -> {"none", "pending", "processing", "completed"}]
  /\ bytes \in [Key -> Content \cup {None}]

BlobInit ==
  /\ version = {}
  /\ blob = [c \in Content |-> NoBlob]
  /\ reservation = [o \in Object |-> NoReservation]
  /\ deletion = [k \in Key |-> "none"]
  /\ bytes = [k \in Key |-> None]

-----------------------------------------------------------------------------
\* What keeps the bytes of a blob key from being deleted.  Mutant: reservations
\* of finalizations in flight are forgotten.
ReferencedByVersions(k) == \E c \in Content : blob[c].key = k /\ blob[c].refs > 0
Referenced(k) ==
  \/ \E c \in Content : blob[c].key = k /\ blob[c].refs > 0
  \/ \E o \in Object : reservation[o].key = k

BeingDeleted(k) == deletion[k] \in {"pending", "processing"}

\* A random key nothing has heard of.
Untouched(k) ==
  /\ bytes[k] = None
  /\ deletion[k] = "none"
  /\ \A c \in Content : blob[c].key # k
  /\ \A o \in Object : reservation[o].key # k
  /\ \A v \in version : v.key # k

\* The key that a finalization of content c is given: the one in use, else the
\* current or base one unless its deletion is queued, else a random one.
CurrentKey(c) == IF blob[c].key = None THEN BlobKey(c, 0) ELSE blob[c].key
Destination(c, k) ==
  IF blob[c].refs > 0 \/ ~BeingDeleted(CurrentKey(c))
    THEN k = CurrentKey(c)
    ELSE \E i \in 1..MaxFresh : k = BlobKey(c, i) /\ Untouched(k)

\* claimDriveBlobDestination: the row of c is pointed at k unless it is in use,
\* and the one reservation of o is made or taken over.
BlobClaimed(c, k) == IF blob[c].refs = 0 THEN [blob EXCEPT ![c].key = k] ELSE blob
Reserved(o, k, p) ==
  [reservation EXCEPT ![o] = [key |-> k, holders |-> @.holders \cup {p}]]

\* releaseDriveBlobReservation: by the id the process was given.
Unreserved(o, p) ==
  IF p \in reservation[o].holders THEN [reservation EXCEPT ![o] = NoReservation]
                                  ELSE reservation

\* upsertDriveBlobRef.  Mutant: an existing row is left as it is.
BlobReferencedOnce(c, k) == IF blob[c].refs = 0 THEN [blob EXCEPT ![c] = [key |-> k, refs |-> 1]] ELSE blob
BlobReferenced(c, k) ==
  [blob EXCEPT ![c] = [key |-> IF @.refs = 0 THEN k ELSE @.key, refs |-> @.refs + 1]]

\* decrementDriveBlobRef, for every blob key that versions V name; it throws when
\* a key has no row, or one with too few references.
NamedBy(k, V) == Cardinality({v \in V : v.key = k})
Decrementable(V) ==
  \A v \in V : IsBlobKey(v.key) =>
    \E c \in Content : blob[c].key = v.key /\ blob[c].refs >= NamedBy(v.key, V)
BlobDecremented(V) ==
  [c \in Content |-> [blob[c] EXCEPT !.refs =
     IF blob[c].key = None THEN @ ELSE @ - NamedBy(blob[c].key, V)]]

\* insertDriveQuarantineDeletion: a queued or finished deletion starts again.
Queued(K) == [k \in Key |-> IF k \in K THEN "pending" ELSE deletion[k]]

\* The counting statement of reconcileDriveBlobReferences, over versions V.
Recounted(b, V) ==
  [c \in Content |->
     LET held == VersionsHolding(c, V)
     IN IF held = {} THEN b[c]
        ELSE [key |-> (CHOOSE v \in held : \A u \in held : v.key[3] <= u.key[3]).key,
              refs |-> Cardinality(held)]]

\* reconcileDriveBlobReferences: references are counted again, and the blobs
\* that nothing refers to are queued once they are old enough.
Zeroed(b) ==
  [c \in Content |->
     IF \E v \in version : v.key = b[c].key THEN b[c] ELSE [b[c] EXCEPT !.refs = 0]]
Orphans(b) ==
  {b[c].key : c \in {c \in Content : /\ b[c].key # None
                                     /\ b[c].refs = 0
                                     /\ \A o \in Object : reservation[o].key # b[c].key}}
Reconcile ==
  /\ blob' = Zeroed(Recounted(blob, version))
  /\ \E old \in SUBSET Orphans(blob') :
       deletion' = [k \in Key |->
         IF k \in old /\ ~BeingDeleted(k) THEN "pending" ELSE deletion[k]]
  /\ UNCHANGED <<version, reservation, bytes>>

\* A day after it was made, when nobody is left who counts on it.
ReservationExpires(o) ==
  /\ reservation[o].key # None
  /\ reservation[o].holders = {}
  /\ reservation' = [reservation EXCEPT ![o] = NoReservation]
  /\ UNCHANGED <<version, blob, deletion, bytes>>

\* completeDriveQuarantineDeletion: only while the deletion is as it was claimed;
\* then the row of a blob whose bytes are gone goes too.
Completed(k, as) == IF deletion[k] = as THEN [deletion EXCEPT ![k] = "completed"] ELSE deletion
WithoutRow(k) ==
  [c \in Content |->
     IF /\ blob[c].key = k
        /\ blob[c].refs = 0
        /\ \A o \in Object : reservation[o].key # k
       THEN NoBlob ELSE blob[c]]
=============================================================================
