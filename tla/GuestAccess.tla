---------------------------- MODULE GuestAccess ----------------------------
(***************************************************************************)
(* What a component can send the host in pieces, and what it leaves there: *)
(* crates/extension-engine/src/runtime/wasm/control_plane.rs over the host *)
(* home, and the pool of user resources in crates/host/src/runtime.rs.     *)
(*                                                                         *)
(* An upload reserves its whole size in the store the component runs in,   *)
(* which a target provider shares with its delegates: any of them may fill *)
(* it, in later callbacks too, and publish it when it is complete: an      *)
(* asset into the home, a user resource into the pool that all components  *)
(* of the process share.                                                   *)
(***************************************************************************)
EXTENDS HostHome, FiniteSetsExt

CONSTANTS
    Store(_),       \* of each component, the store it runs in: its own or a shared one
    Shared,         \* the stores of target providers that run with the host
    UploadLimit,    \* max_asset_import_bytes and max_artifact_import_bytes
    PoolLimit,      \* MAX_USER_RESOURCE_TOTAL_BYTES
    PoolEntries     \* MAX_USER_RESOURCES

ASSUME UploadAssumption == UploadLimit \in Nat /\ PoolLimit \in Nat /\ PoolEntries \in Nat

VARIABLES
    uploads,    \* the unfinished uploads: store, kind, handle, size and bytes so far
    handed,     \* the last handle given out
    pool,       \* the user resources: of each id, its size
    total       \* total_bytes

access == <<uploads, handed, pool, total>>
allVars == <<vars, access>>

Kinds == {"asset", "resource"}
Import == [asset |-> "asset-import", resource |-> "user-resource-import"]

AccessInit == uploads = {} /\ handed = 0 /\ pool = <<>> /\ total = 0

\* The uploads of a kind in the store of the component whose callback runs.
Mine(kind) == {u \in uploads : u.store = Store(process.callback) /\ u.kind = kind}
Rest == <<files, ids, job, process, past>>

\* What uploads may grow to.
Sizes(S) == MapThenSumSet(LAMBDA u : u.size, S)

\* Faulty: counts what was sent.
Reserved_Received(kind) == MapThenSumSet(LAMBDA u : u.got, Mine(kind))

\* What the unfinished uploads of a kind reserve.
Reserved(kind) == Sizes(Mine(kind))

BeginUpload(kind, size) ==
    /\ Holds(Import[kind]) /\ Begin
    /\ size \in 1..UploadLimit
    /\ Reserved(kind) + size <= UploadLimit
    /\ handed' = handed + 1
    /\ uploads' = uploads \cup
          {[store |-> Store(process.callback), kind |-> kind, handle |-> handed + 1,
            size |-> size, got |-> 0]}
    /\ UNCHANGED <<Rest, pool, total>>

AppendUpload(u) ==
    /\ Holds(Import[u.kind]) /\ u \in Mine(u.kind)
    /\ u.got < u.size
    /\ uploads' = (uploads \ {u}) \cup {[u EXCEPT !.got = @ + 1]}
    /\ UNCHANGED <<Rest, begun, handed, pool, total>>

Fits(size) == Cardinality(DOMAIN pool) < PoolEntries /\ total + size <= PoolLimit

\* UserResourceRuntimeControl::import: ids are never used twice.
Pooled(size) ==
    /\ pool' = Put(pool, handed + 1, size)
    /\ total' = total + size
    /\ handed' = handed + 1

\* An upload leaves the store whether or not it can be published.
FinishUpload(u) ==
    /\ Holds(Import[u.kind]) /\ u \in Mine(u.kind)
    /\ u.got = u.size
    /\ uploads' = uploads \ {u}
    /\ \/ /\ u.kind = "asset"
          /\ \E a \in Artifacts : Content[a] = "asset" /\ stored' = stored \cup {a}
          /\ UNCHANGED <<handed, pool, total>>
       \/ /\ u.kind = "resource"
          /\ IF Fits(u.size) THEN Pooled(u.size) ELSE UNCHANGED <<handed, pool, total>>
          /\ UNCHANGED stored
    /\ UNCHANGED <<profiles, dirs, library, ids, job, process, begun, past>>

CancelUpload(u) ==
    /\ Holds(Import[u.kind]) /\ u \in Mine(u.kind)
    /\ uploads' = uploads \ {u}
    /\ UNCHANGED <<Rest, begun, handed, pool, total>>

ImportResource(size) ==
    /\ Holds("user-resource-import") /\ Begin
    /\ size \in 1..UploadLimit
    /\ Fits(size) /\ Pooled(size)
    /\ UNCHANGED <<Rest, uploads>>

Left(id) == total - pool[id]

\* Any component that was given the reference may release the resource.
ReleaseResource(id) ==
    /\ Holds("user-resource-read") /\ id \in DOMAIN pool
    /\ pool' = Without(pool, {id})
    /\ total' = Left(id)
    /\ UNCHANGED <<Rest, begun, uploads, handed>>

\* The store of a component goes when its composition does, a shared one with its
\* provider, whichever delegate left something there; the pool only with the process.
Forgotten ==
    IF process'.run # "session"
    THEN uploads' = {} /\ handed' = 0 /\ pool' = <<>> /\ total' = 0
    ELSE /\ uploads' = {u \in uploads : u.store \in DOMAIN process'.live \cup Shared}
         /\ UNCHANGED <<handed, pool, total>>

AccessNext ==
    \/ \E kind \in Kinds, size \in 1..UploadLimit : BeginUpload(kind, size)
    \/ \E u \in uploads : AppendUpload(u) \/ FinishUpload(u) \/ CancelUpload(u)
    \/ \E size \in 1..UploadLimit : ImportResource(size)
    \/ \E id \in DOMAIN pool : ReleaseResource(id)

\* The bytes of a pool.
Bytes(resources) == MapThenSumSet(LAMBDA id : resources[id], DOMAIN resources)

\* What components make the host hold is counted and bounded: the uploads of a
\* store never grow past the limit of one import, whichever components that share
\* it interleave theirs or stop and leave them, and
\* the pool knows its size, whoever filled and released it.
HeldBytesAreBounded ==
    /\ \A o \in {u.store : u \in uploads}, kind \in Kinds :
          Sizes({u \in uploads : u.store = o /\ u.kind = kind}) <= UploadLimit
    /\ \A u \in uploads : u.got <= u.size
    /\ total = Bytes(pool) /\ total <= PoolLimit
=============================================================================
