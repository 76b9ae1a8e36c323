------------------------------ MODULE Gateway ------------------------------
(***************************************************************************)
(* The S3 gateway in front of one bucket: access credentials and their     *)
(* administration (internal/app/access.go), authorization and routing of a *)
(* request (internal/gateway/auth.go, handler.go) and the paged listing.   *)
(*                                                                         *)
(* A key is its place in the order of the database.  What an operation     *)
(* does beyond this bucket's keys, attributes, uploads and settings is in  *)
(* the modules of the service.  A signature is the secret it was made      *)
(* with: a request signed before a rotation may arrive after it.  Clients  *)
(* name a multipart upload together with the key it was created for.       *)
(***************************************************************************)
EXTENDS Integers, Sequences, FiniteSets, FiniteSetsExt, Functions

CONSTANTS Key,        \* 1 .. n
          PageMax,    \* the largest page (1000)
          FolderOf,   \* the common prefix of a key under the delimiter, or NoFolder
          Selection,  \* the sets of keys a listing's prefix may select
          Inputs,     \* what administrators enter for a credential
          Admin,      \* administrators' requests
          MaxSecret,  \* bound on the secrets generated
          MaxUploads, \* bound on the multipart uploads under way
          Hazards     \* a subset of {"overlap"}: administrators edit at once

NoFolder == "none"
NoRow == [secret |-> 0]
NoListing == [more |-> FALSE]
Never == -1

\* AccessCredentialInput: the grant, the switch and the ticks until it expires.
Role == {"admin", "read-write", "read-only"}
ASSUME GatewayAssumption ==
  /\ IsFiniteSet(Key) /\ Key = 1 .. Cardinality(Key)
  /\ PageMax \in Nat \ {0}
  /\ \A i \in Inputs : /\ i.grant.role \in Role /\ i.grant.keys \subseteq Key
                       /\ i.enabled \in BOOLEAN /\ i.expires \in Nat \cup {Never}
  /\ Hazards \subseteq {"overlap"}

VARIABLES credential,  \* the row of access_credentials, or NoRow
          generated,   \* how many secrets were generated
          held,        \* the secret the administrator was last given, 0 after a deletion
          edit,        \* per administrator: the row read by an update or a rotation
          bucket,      \* the bucket's row: "none", "default" or "configured"
          object,      \* per key: "absent", "stored", or "edited" (tags, lock)
          uploads,     \* keys with a multipart upload under way
          listing      \* a client's listing, or NoListing

accessVars == <<credential, generated, held, edit>>
contentVars == <<bucket, object, uploads>>
gatewayVars == <<accessVars, contentVars, listing>>

----------------------------------------------------------------------------
(* Routing.  A request has a method, query flags and a key, 0 for none.     *)

\* The first entry whose flag the request has; "" always matches.
Route(routes, flags) ==
  LET hits == {i \in DOMAIN routes : routes[i][1] \in flags \cup {""}}
  IN IF hits = {} THEN "refused" ELSE routes[Min(hits)][2]

BucketRoutes ==
  [PUT    |-> << <<"notification", "putBucketNotification">>,
                 <<"versioning", "putBucketVersioning">>,
                 <<"object-lock", "putBucketObjectLock">>, <<"", "createBucket">> >>,
   HEAD   |-> << <<"", "headBucket">> >>,
   GET    |-> << <<"notification", "getBucketNotification">>,
                 <<"versioning", "getBucketVersioning">>,
                 <<"object-lock", "getBucketObjectLock">>,
                 <<"versions", "listObjectVersions">>,
                 <<"location", "getBucketLocation">>, <<"", "listObjects">> >>,
   POST   |-> << <<"delete", "deleteObjects">> >>,
   DELETE |-> << >>]

ObjectRoutes ==
  [PUT    |-> << <<"uploadId", "uploadPart">>, <<"tagging", "putObjectTagging">>,
                 <<"retention", "putObjectRetention">>,
                 <<"legal-hold", "putObjectLegalHold">>,
                 <<"copy-source", "copyObject">>, <<"", "putObject">> >>,
   HEAD   |-> << <<"", "headObject">> >>,
   GET    |-> << <<"list-type", "listObjects">>, <<"uploadId", "listParts">>,
                 <<"tagging", "getObjectTagging">>, <<"retention", "getObjectRetention">>,
                 <<"legal-hold", "getObjectLegalHold">>, <<"", "getObject">> >>,
   POST   |-> << <<"uploads", "createMultipartUpload">>,
                 <<"uploadId", "completeMultipartUpload">> >>,
   DELETE |-> << <<"uploadId", "abortMultipartUpload">>,
                 <<"tagging", "deleteObjectTagging">>, <<"", "deleteObject">> >>]

Handler(method, flags, key) ==
  Route(IF key = 0 THEN BucketRoutes[method] ELSE ObjectRoutes[method], flags)

ReadOperations ==
  {"headBucket", "getBucketNotification", "getBucketVersioning", "getBucketObjectLock",
   "listObjectVersions", "getBucketLocation", "listParts", "getObjectTagging",
   "getObjectRetention", "getObjectLegalHold", "getObject", "headObject", "refused"}

\* Handlers that do the same to the bucket: a label and its handlers.
Operation(handler) ==
  CASE handler \in ReadOperations -> "read"
    [] handler \in {"putBucketNotification", "putBucketVersioning",
                    "putBucketObjectLock"} -> "configureBucket"
    [] handler \in {"putObjectTagging", "deleteObjectTagging"} -> "tagObject"
    [] handler \in {"putObjectRetention", "putObjectLegalHold"} -> "protectObject"
    [] OTHER -> handler

\* s3PermissionForRequest
Permission(method, key) ==
  CASE key = 0 /\ method = "PUT" -> "s3:CreateBucket"
    [] key = 0 /\ method \in {"GET", "HEAD"} -> "s3:ListBucket"
    [] key = 0 /\ method = "POST" -> "s3:DeleteObject"
    [] key # 0 /\ method \in {"GET", "HEAD"} -> "s3:GetObject"
    [] key # 0 /\ method \in {"PUT", "POST"} -> "s3:PutObject"
    [] method = "DELETE" -> "s3:DeleteObject"

Flags == UNION {{r[i][1] : i \in DOMAIN r} :
                  r \in Range(BucketRoutes) \cup Range(ObjectRoutes)}

\* A request, as the operation it is routed to and the permission it needs.
Call(method, flag, key) ==
  [operation |-> Operation(Handler(method, {flag}, key)),
   permission |-> Permission(method, key), key |-> key]

Calls == {Call(m, f, k) : m \in DOMAIN BucketRoutes, f \in Flags, k \in Key \cup {0}}

----------------------------------------------------------------------------
(* Authorization.                                                          *)

Reads == {"s3:GetObject", "s3:ListBucket", "s3:ListAllMyBuckets"}

\* The patterns of a grant for buckets and keys.
Matches(grant, key) == grant.bucket /\ (key # 0 => key \in grant.keys)

\* principalAllows
Allows(grant, permission, key) ==
  \/ grant.role = "admin"
  \/ /\ grant.role = "read-only" => permission \in Reads
     /\ grant.permissions # {} => permission \in grant.permissions
     /\ Matches(grant, key)

\* ResolveS3Credential: the row of the access key, unless it is off or expired.
Resolved == credential # NoRow /\ credential.enabled /\ credential.expires # 0

\* The signature is compared with the one the row's secret makes.
Accepted(secret) == Resolved /\ credential.secret = secret

\* What a request with some secret may do.  The credential of the
\* configuration, which also signs the Uppy URLs, is one with the role admin.
Granted == {credential.grant : s \in {s \in 1 .. generated : Accepted(s)}}

----------------------------------------------------------------------------
(* The operations, on behalf of a grant that allows the request.           *)

EnsureBucket == bucket' = IF bucket = "none" THEN "default" ELSE bucket

Read(c) == c.operation = "read" /\ UNCHANGED contentVars

\* UpsertBucket with nothing but a name: an existing bucket loses its settings.
CreateBucket(c) ==
  /\ c.operation = "createBucket"
  /\ bucket' = "default"
  /\ UNCHANGED <<object, uploads>>

ConfigureBucket(c) ==
  /\ c.operation = "configureBucket"
  /\ bucket # "none"
  /\ bucket' = "configured"
  /\ UNCHANGED <<object, uploads>>

Put(key) ==
  /\ EnsureBucket
  /\ object' = [object EXCEPT ![key] = "stored"]

PutObject(c) == c.operation = "putObject" /\ Put(c.key) /\ UNCHANGED uploads

\* A copy reads its source, with a permission of its own.
CopyObject(g, c) ==
  /\ c.operation = "copyObject"
  /\ \E source \in Key : Allows(g, "s3:GetObject", source) /\ object[source] # "absent"
  /\ Put(c.key) /\ UNCHANGED uploads

Edit(key) ==
  /\ object[key] # "absent"
  /\ object' = [object EXCEPT ![key] = "edited"]
  /\ UNCHANGED <<bucket, uploads>>

\* UpdateObjectTags, under PUT and DELETE of ?tagging.
TagObject(c) == c.operation = "tagObject" /\ Edit(c.key)

\* UpdateObjectProtection; what it checks is in module ObjectProtection.
ProtectObject(c) == c.operation = "protectObject" /\ Edit(c.key)

Delete(c) ==
  /\ c.operation = "deleteObject"
  /\ object' = [object EXCEPT ![c.key] = "absent"]
  /\ UNCHANGED <<bucket, uploads>>

Without(keys) == [k \in Key |-> IF k \in keys THEN "absent" ELSE object[k]]

\* Mutant: the permission for the bucket stands for all its keys.
DeleteObjectsUnchecked(g, c) ==
  /\ c.operation = "deleteObjects"
  /\ \E keys \in SUBSET Key : object' = Without(keys)
  /\ UNCHANGED <<bucket, uploads>>

\* deleteObjects asks for every key it deletes.
DeleteObjects(g, c) ==
  /\ c.operation = "deleteObjects"
  /\ \E keys \in SUBSET Key :
       object' = Without({k \in keys : Allows(g, "s3:DeleteObject", k)})
  /\ UNCHANGED <<bucket, uploads>>

CreateMultipartUpload(c) ==
  /\ c.operation = "createMultipartUpload" /\ Cardinality(uploads) < MaxUploads
  /\ uploads' = uploads \cup {c.key}
  /\ EnsureBucket
  /\ UNCHANGED object

UploadPart(c) ==
  /\ c.operation = "uploadPart" /\ c.key \in uploads
  /\ UNCHANGED contentVars

CompleteMultipartUpload(c) ==
  /\ c.operation = "completeMultipartUpload" /\ c.key \in uploads
  /\ uploads' = uploads \ {c.key}
  /\ Put(c.key)

AbortMultipartUpload(c) ==
  /\ c.operation = "abortMultipartUpload"
  /\ uploads' = uploads \ {c.key}
  /\ UNCHANGED <<bucket, object>>

\* A listing of an unknown bucket creates it.
List(c) ==
  /\ c.operation = "listObjects"
  /\ EnsureBucket
  /\ UNCHANGED <<object, uploads>>

Perform(g, c) ==
  \/ Read(c) \/ List(c) \/ CreateBucket(c) \/ ConfigureBucket(c)
  \/ PutObject(c) \/ CopyObject(g, c) \/ TagObject(c) \/ ProtectObject(c)
  \/ Delete(c) \/ DeleteObjects(g, c)
  \/ CreateMultipartUpload(c) \/ UploadPart(c) \/ CompleteMultipartUpload(c)
  \/ AbortMultipartUpload(c)

\* The signed policy of a form can only narrow the keys down.
AuthorizePostPolicy(g, key) == Allows(g, "s3:PutObject", key)

PostObject(g) ==
  \E k \in Key : AuthorizePostPolicy(g, k) /\ Put(k) /\ UNCHANGED uploads

\* What a grant may make of the bucket with one request.
ServeFor(g) ==
  \/ \E c \in Calls : Allows(g, c.permission, c.key) /\ Perform(g, c)
  \/ PostObject(g)

----------------------------------------------------------------------------
(* The listing: ORDER BY key LIMIT n, one page per request.                *)

Stored == {k \in Key : object[k] # "absent"}

LimitOrDefault(n) == IF n <= 0 \/ n > PageMax THEN PageMax ELSE n

\* Mutant: the store's limit leaves no room for the row that tells of more.
StoreLimitTight(n) == IF n <= 0 \/ n > PageMax THEN PageMax ELSE n

\* The store's own limit leaves room for one row more than a page.
StoreLimit(n) == IF n <= 0 \/ n > PageMax + 1 THEN PageMax ELSE n

\* ListObjectsAfter
RowsAfter(within, after, limit) ==
  LET rows == {k \in Stored \cap within : k > after}
  IN {k \in rows : Cardinality({j \in rows : j <= k}) <= StoreLimit(limit)}

\* The objects of a page, without the row that only shows there are more.
Page(rows, limit) == IF Cardinality(rows) > limit THEN rows \ {Max(rows)} ELSE rows

\* The keys of a set in the order of the database.
InOrder(keys) ==
  {s \in [1 .. Cardinality(keys) -> keys] :
     Range(s) = keys /\ \A i, j \in DOMAIN s : i < j => s[i] < s[j]}

\* A listing as its client sees it: seen and folders are what the pages
\* showed, always the keys that were there from its first page on.
NextPages(l, asked) ==
  LET limit == LimitOrDefault(asked)
      rows == RowsAfter(l.within, l.after, limit + 1)
      page == Page(rows, limit)
      entries == {k \in page : l.delimited => FolderOf[k] = NoFolder}
      more == Cardinality(rows) > limit
  IN {[l EXCEPT !.seen = l.seen \o names,
                !.folders = l.folders \cup {FolderOf[k] : k \in page \ entries},
                !.after = IF more THEN Max(page) ELSE l.after,
                !.more = more] : names \in InOrder(entries)}

FirstPage ==
  /\ listing = NoListing
  /\ \E within \in Selection, delimited \in BOOLEAN, asked \in 0 .. PageMax + 1 :
       listing' \in NextPages([within |-> within, delimited |-> delimited, after |-> 0,
                               seen |-> <<>>, folders |-> {}, more |-> TRUE,
                               always |-> Stored \cap within], asked)
  /\ EnsureBucket
  /\ UNCHANGED <<accessVars, object, uploads>>

\* The continuation token is the last key of the page before.
FollowingPage ==
  /\ listing # NoListing /\ listing.more
  /\ \E asked \in 0 .. PageMax + 1 : listing' \in NextPages(listing, asked)
  /\ EnsureBucket
  /\ UNCHANGED <<accessVars, object, uploads>>

EndListing ==
  /\ listing # NoListing /\ ~ listing.more
  /\ listing' = NoListing
  /\ UNCHANGED <<accessVars, contentVars>>

\* A request is served; keys it removes no longer count as always there.
Serve(g) ==
  /\ ServeFor(g)
  /\ listing' = IF listing = NoListing THEN NoListing
                ELSE [listing EXCEPT !.always = {k \in @ : object'[k] # "absent"}]
  /\ UNCHANGED accessVars

----------------------------------------------------------------------------
(* Administration of the credential.                                       *)

Row(input, secret) ==
  [secret |-> secret, grant |-> input.grant, enabled |-> input.enabled,
   expires |-> input.expires]

\* ON CONFLICT DO UPDATE: a row that was deleted meanwhile is there again.
UpsertAccessCredential(row) == credential' = row

MayEdit(a) == "overlap" \in Hazards \/ \A b \in Admin \ {a} : edit[b] = NoRow

CreateAccessCredential(a) ==
  /\ edit[a] = NoRow /\ MayEdit(a)
  /\ credential = NoRow /\ generated < MaxSecret
  /\ \E i \in Inputs : UpsertAccessCredential(Row(i, generated + 1))
  /\ generated' = generated + 1
  /\ held' = generated + 1
  /\ UNCHANGED <<edit, contentVars, listing>>

\* UpdateAccessCredential and RotateAccessCredential read the row ...
ReadCredential(a) ==
  /\ edit[a] = NoRow /\ MayEdit(a)
  /\ credential # NoRow
  /\ edit' = [edit EXCEPT ![a] = credential]
  /\ UNCHANGED <<credential, generated, held, contentVars, listing>>

\* Mutant: the secret that was read is not carried over.
UpdateAccessCredentialAnew(a) ==
  /\ edit[a] # NoRow
  /\ \E i \in Inputs : credential' = Row(i, 0)
  /\ edit' = [edit EXCEPT ![a] = NoRow]
  /\ UNCHANGED <<generated, held, contentVars, listing>>

\* ... and write it back whole, with the new input and the secret they read
UpdateAccessCredential(a) ==
  /\ edit[a] # NoRow
  /\ \E i \in Inputs : UpsertAccessCredential(Row(i, edit[a].secret))
  /\ edit' = [edit EXCEPT ![a] = NoRow]
  /\ UNCHANGED <<generated, held, contentVars, listing>>

\* or with a new secret and the rest they read.
RotateAccessCredential(a) ==
  /\ edit[a] # NoRow /\ generated < MaxSecret
  /\ UpsertAccessCredential([edit[a] EXCEPT !.secret = generated + 1])
  /\ generated' = generated + 1
  /\ held' = generated + 1
  /\ edit' = [edit EXCEPT ![a] = NoRow]
  /\ UNCHANGED <<contentVars, listing>>

DeleteAccessCredential(a) ==
  /\ edit[a] = NoRow /\ MayEdit(a)
  /\ credential # NoRow
  /\ credential' = NoRow
  /\ held' = 0
  /\ UNCHANGED <<generated, edit, contentVars, listing>>

\* Time passes: a credential with an expiry runs out.
Expire ==
  /\ credential # NoRow /\ credential.expires > 0
  /\ credential' = [credential EXCEPT !.expires = @ - 1]
  /\ UNCHANGED <<generated, held, edit, contentVars, listing>>

Administer(a) ==
  \/ CreateAccessCredential(a) \/ ReadCredential(a) \/ UpdateAccessCredential(a)
  \/ RotateAccessCredential(a) \/ DeleteAccessCredential(a)

----------------------------------------------------------------------------
GatewayInit ==
  /\ credential = NoRow /\ generated = 0 /\ held = 0
  /\ edit = [a \in Admin |-> NoRow]
  /\ bucket = "none"
  /\ object = [k \in Key |-> "absent"]
  /\ uploads = {}
  /\ listing = NoListing

GatewayNext ==
  \/ \E g \in Granted : Serve(g)
  \/ FirstPage \/ FollowingPage \/ EndListing
  \/ \E a \in Admin : Administer(a)
  \/ Expire

GatewaySpec == GatewayInit /\ [][GatewayNext]_gatewayVars

----------------------------------------------------------------------------
\* A client that follows the continuation tokens to the last page has been
\* shown every key that was there all along exactly once and in order, by its
\* name or by its folder, whatever is stored and deleted between the pages and
\* however large the pages are.
ListingIsExact ==
  listing # NoListing =>
    /\ \A i, j \in DOMAIN listing.seen : i < j => listing.seen[i] < listing.seen[j]
    /\ ~ listing.more =>
         \A k \in listing.always :
           k \in Range(listing.seen) \/ FolderOf[k] \in listing.folders

\* The keys a step touches, their objects or their uploads.
Changed == {k \in Key : object'[k] # object[k] \/ (k \in uploads) # (k \in uploads')}

\* Two tables decide about a request, the permission it needs and the handler
\* it reaches: a request of a read-only credential changes no key, upload or
\* setting (at most it creates the bucket it lists), and a scoped credential's
\* changes stay within its keys, bulk deletions and copies included.
ChangesAreGranted ==
  [][Changed # {} \/ (bucket # "none" /\ bucket' # bucket) =>
       /\ credential # NoRow
       /\ \/ credential.grant.role = "admin"
          \/ /\ credential.grant.role = "read-write" /\ credential.grant.bucket
             /\ Changed \subseteq credential.grant.keys]_contentVars

\* Whatever was created, edited, rotated and deleted: the secret that the
\* administrator was last given is the only one accepted, it is accepted while
\* the credential is enabled and has not expired, and none is after a deletion.
SecretsAreCurrent ==
  (\A a \in Admin : edit[a] = NoRow) =>
    /\ \A s \in 1 .. generated : Accepted(s) => s = held
    /\ Resolved => Accepted(held)
=============================================================================
