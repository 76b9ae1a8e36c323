---------------------------- MODULE GatewayProofs ----------------------------
(***************************************************************************)
(* The gateway's credentials, its authorization and its listing, for every *)
(* number of keys, page size, set of administrators and set of inputs.     *)
(***************************************************************************)
EXTENDS Gateway, FiniteSetTheorems, WellFoundedInduction, TLAPS

Grants == {i.grant : i \in Inputs}
RowType == [secret : Nat, grant : Grants, enabled : BOOLEAN, expires : Int]

\* A row is what an administrator entered, with a secret that was generated.
CredentialOK ==
  /\ generated \in Nat /\ held \in Nat
  /\ credential # NoRow => credential \in RowType
  /\ \A a \in Admin : edit[a] # NoRow => edit[a] \in RowType
  /\ edit \in [Admin -> {NoRow} \cup RowType]

\* One administrator at a time: the row that was read is still the row.
SecretInv ==
  /\ credential # NoRow => credential.secret = held
  /\ \A a \in Admin : edit[a] # NoRow => credential # NoRow /\ edit[a].secret = held
  /\ \A a, b \in Admin : edit[a] # NoRow /\ edit[b] # NoRow => a = b

-----------------------------------------------------------------------------
(* The credential.                                                         *)

\* A row for the database has the type of one, and is not the absent row.
LEMMA RowIsRow ==
  ASSUME NEW i \in Inputs, NEW s \in Nat
  PROVE  Row(i, s) \in RowType /\ Row(i, s).secret = s
<1>1. i.grant \in Grants /\ i.enabled \in BOOLEAN /\ i.expires \in Int
  BY GatewayAssumption DEF Grants, Never
<1>2. QED
  BY <1>1 DEF Row, RowType

LEMMA NotNoRow ==
  ASSUME NEW x \in RowType
  PROVE  x # NoRow
<1>1. DOMAIN x = {"secret", "grant", "enabled", "expires"} /\ DOMAIN NoRow = {"secret"}
  BY DEF RowType, NoRow
<1>2. QED
  BY <1>1

LEMMA CredentialOK_Step ==
  ASSUME CredentialOK, [GatewayNext]_gatewayVars
  PROVE  CredentialOK'
<1>1. CASE UNCHANGED accessVars
  BY <1>1 DEF accessVars, CredentialOK
<1>2. ASSUME NEW a \in Admin, CreateAccessCredential(a) PROVE CredentialOK'
  <2>1. PICK i \in Inputs : credential' = Row(i, generated + 1)
    BY <1>2 DEF CreateAccessCredential, UpsertAccessCredential
  <2>2. credential' \in RowType
    BY <2>1, RowIsRow DEF CredentialOK
  <2>3. QED
    BY <1>2, <2>2 DEF CreateAccessCredential, CredentialOK
<1>3. ASSUME NEW a \in Admin, ReadCredential(a) PROVE CredentialOK'
  BY <1>3 DEF ReadCredential, CredentialOK
<1>4. ASSUME NEW a \in Admin, UpdateAccessCredential(a) PROVE CredentialOK'
  <2>1. PICK i \in Inputs : credential' = Row(i, edit[a].secret)
    BY <1>4 DEF UpdateAccessCredential, UpsertAccessCredential
  <2>2. edit[a].secret \in Nat
    BY <1>4 DEF UpdateAccessCredential, CredentialOK, RowType
  <2>3. credential' \in RowType
    BY <2>1, <2>2, RowIsRow
  <2>4. QED
    BY <1>4, <2>3 DEF UpdateAccessCredential, CredentialOK
<1>5. ASSUME NEW a \in Admin, RotateAccessCredential(a) PROVE CredentialOK'
  <2>1. [edit[a] EXCEPT !.secret = generated + 1] \in RowType
    BY <1>5 DEF RotateAccessCredential, CredentialOK, RowType
  <2>2. QED
    BY <1>5, <2>1 DEF RotateAccessCredential, UpsertAccessCredential, CredentialOK
<1>6. ASSUME NEW a \in Admin, DeleteAccessCredential(a) PROVE CredentialOK'
  BY <1>6 DEF DeleteAccessCredential, CredentialOK
<1>7. CASE Expire
  <2>1. [credential EXCEPT !.expires = credential.expires - 1] \in RowType
    BY <1>7 DEF Expire, CredentialOK, RowType
  <2>2. QED
    BY <1>7, <2>1 DEF Expire, CredentialOK
<1>8. QED
  BY <1>1, <1>2, <1>3, <1>4, <1>5, <1>6, <1>7 DEF GatewayNext, gatewayVars, Serve,
     FirstPage, FollowingPage, EndListing, Administer

LEMMA SecretInv_Step ==
  ASSUME "overlap" \notin Hazards, CredentialOK, SecretInv, [GatewayNext]_gatewayVars
  PROVE  SecretInv'
<1>1. CASE UNCHANGED accessVars
  BY <1>1 DEF accessVars, SecretInv
<1>2. ASSUME NEW a \in Admin, edit[a] = NoRow, MayEdit(a) PROVE \A b \in Admin : edit[b] = NoRow
  BY <1>2 DEF MayEdit
<1>3. ASSUME NEW a \in Admin, CreateAccessCredential(a) PROVE SecretInv'
  <2>1. PICK i \in Inputs : credential' = Row(i, generated + 1)
    BY <1>3 DEF CreateAccessCredential, UpsertAccessCredential
  <2>2. credential'.secret = generated + 1
    BY <2>1, RowIsRow DEF CredentialOK
  <2>3. \A b \in Admin : edit[b] = NoRow
    BY <1>2, <1>3 DEF CreateAccessCredential
  <2>4. QED
    BY <1>3, <2>2, <2>3 DEF CreateAccessCredential, SecretInv
<1>4. ASSUME NEW a \in Admin, ReadCredential(a) PROVE SecretInv'
  <2>1. \A b \in Admin : edit[b] = NoRow
    BY <1>2, <1>4 DEF ReadCredential
  <2>2. QED
    BY <1>4, <2>1 DEF ReadCredential, SecretInv, CredentialOK
<1>5. ASSUME NEW a \in Admin, edit[a] # NoRow, edit' = [edit EXCEPT ![a] = NoRow]
      PROVE  \A b \in Admin : edit'[b] = NoRow
  BY <1>5 DEF SecretInv, CredentialOK
<1>6. ASSUME NEW a \in Admin, UpdateAccessCredential(a) PROVE SecretInv'
  <2>1. PICK i \in Inputs : credential' = Row(i, edit[a].secret)
    BY <1>6 DEF UpdateAccessCredential, UpsertAccessCredential
  <2>2. edit[a].secret \in Nat /\ edit[a].secret = held
    BY <1>6 DEF UpdateAccessCredential, CredentialOK, RowType, SecretInv
  <2>3. credential'.secret = held
    BY <2>1, <2>2, RowIsRow
  <2>4. \A b \in Admin : edit'[b] = NoRow
    BY <1>5, <1>6 DEF UpdateAccessCredential
  <2>5. QED
    BY <1>6, <2>3, <2>4 DEF UpdateAccessCredential, SecretInv
<1>7. ASSUME NEW a \in Admin, RotateAccessCredential(a) PROVE SecretInv'
  <2>1. [edit[a] EXCEPT !.secret = generated + 1].secret = generated + 1
    BY <1>7 DEF RotateAccessCredential, CredentialOK, RowType
  <2>2. \A b \in Admin : edit'[b] = NoRow
    BY <1>5, <1>7 DEF RotateAccessCredential
  <2>3. QED
    BY <1>7, <2>1, <2>2 DEF RotateAccessCredential, UpsertAccessCredential, SecretInv
<1>8. ASSUME NEW a \in Admin, DeleteAccessCredential(a) PROVE SecretInv'
  <2>1. \A b \in Admin : edit[b] = NoRow
    BY <1>2, <1>8 DEF DeleteAccessCredential
  <2>2. QED
    BY <1>8, <2>1 DEF DeleteAccessCredential, SecretInv
<1>9. CASE Expire
  <2> DEFINE row == [credential EXCEPT !.expires = credential.expires - 1]
  <2>1. row.secret = credential.secret /\ row \in RowType
    BY <1>9 DEF Expire, CredentialOK, RowType
  <2>2. row # NoRow
    BY <2>1, NotNoRow
  <2>3. credential' = row /\ credential # NoRow /\ UNCHANGED <<held, edit>>
    BY <1>9 DEF Expire
  <2> HIDE DEF row
  <2>4. QED
    BY <2>1, <2>2, <2>3 DEF SecretInv
<1>10. QED
  BY <1>1, <1>3, <1>4, <1>6, <1>7, <1>8, <1>9 DEF GatewayNext, gatewayVars, Serve,
     FirstPage, FollowingPage, EndListing, Administer

\* While one administrator edits at a time, the secret last given out is the
\* only one ResolveS3Credential and the signature check accept, and they
\* accept it for as long as the credential is on and has not expired.
THEOREM SecretsCurrent ==
  ASSUME "overlap" \notin Hazards
  PROVE  GatewaySpec => []SecretsAreCurrent
<1>1. GatewayInit => CredentialOK /\ SecretInv
  BY DEF GatewayInit, CredentialOK, SecretInv
<1>2. CredentialOK /\ SecretInv /\ [GatewayNext]_gatewayVars => CredentialOK' /\ SecretInv'
  BY CredentialOK_Step, SecretInv_Step
<1>3. SecretInv => SecretsAreCurrent
  BY DEF SecretInv, SecretsAreCurrent, Accepted, Resolved
<1>4. QED
  BY <1>1, <1>2, <1>3, PTL DEF GatewaySpec

-----------------------------------------------------------------------------
(* Authorization: the table of permissions against the table of handlers.  *)

\* A nonempty set of naturals has a least element.
LEMMA LeastNat ==
  ASSUME NEW T, T \subseteq Nat, T # {}
  PROVE  \E x \in T : \A y \in T : x <= y
<1> DEFINE R == OpToRel(<, Nat)
<1>1. IsWellFoundedOn(R, Nat)
  BY NatLessThanWellFounded
<1>2. \A x, y \in Nat : x < y => <<x, y>> \in R
  BY DEF OpToRel
<1> HIDE DEF R
<1>3. PICK x \in T : \A y \in T : ~ (<<y, x>> \in R)
  BY <1>1, WFMin, Zenon
<1>4. \A y \in T : x \in Nat /\ y \in Nat /\ ~ (y < x)
  BY <1>2, <1>3
<1>5. \A y \in T : x <= y
  BY <1>4
<1>6. QED
  BY <1>5

\* A route leads to the handler of one of its entries, or is refused.
LEMMA RouteEntry ==
  ASSUME NEW routes, NEW flags, DOMAIN routes \subseteq Nat
  PROVE  \/ Route(routes, flags) = "refused"
         \/ \E i \in DOMAIN routes : Route(routes, flags) = routes[i][2]
<1> DEFINE hits == {i \in DOMAIN routes : routes[i][1] \in flags \cup {""}}
<1>1. CASE hits = {}
  BY <1>1 DEF Route
<1>2. CASE hits # {}
  <2>1. \E x \in hits : \A y \in hits : x <= y
    BY <1>2, LeastNat
  <2>2. Min(hits) \in hits
    BY <2>1 DEF Min
  <2>3. Route(routes, flags) = routes[Min(hits)][2]
    BY <1>2 DEF Route
  <2> HIDE DEF hits
  <2>4. Min(hits) \in DOMAIN routes
    BY <2>2 DEF hits
  <2>5. QED
    BY <2>3, <2>4
<1>3. QED
  BY <1>1, <1>2

Harmless == {"read", "listObjects"}

LEMMA ReadOperation ==
  ASSUME NEW h, h \in ReadOperations \cup {"listObjects"}
  PROVE  Operation(h) \in Harmless
BY DEF Operation, ReadOperations, Harmless

\* What GET and HEAD lead to.
LEMMA ReadHandlers ==
  ASSUME NEW m \in {"GET", "HEAD"}, NEW flags, NEW k
  PROVE  Handler(m, flags, k) \in ReadOperations \cup {"listObjects"}
<1> DEFINE entries == IF k = 0 THEN BucketRoutes[m] ELSE ObjectRoutes[m]
<1>1. \A a : DOMAIN <<a>> = 1..1
  OBVIOUS
<1>2. \A a, b, c, d, e, f : DOMAIN <<a, b, c, d, e, f>> = 1..6
  OBVIOUS
<1>3. /\ DOMAIN entries \subseteq Nat
      /\ \A i \in DOMAIN entries : entries[i][2] \in ReadOperations \cup {"listObjects"}
  <2>1. CASE m = "HEAD" /\ k = 0
    <3>1. entries = << <<"", "headBucket">> >>
      BY <2>1 DEF BucketRoutes
    <3> HIDE DEF entries
    <3>2. DOMAIN entries = 1..1
      BY <1>1, <3>1, Zenon
    <3>3. /\ entries[1][2] \in ReadOperations \cup {"listObjects"}
      BY <3>1 DEF ReadOperations
    <3>4. QED
      BY <3>2, <3>3
  <2>2. CASE m = "HEAD" /\ k # 0
    <3>1. entries = << <<"", "headObject">> >>
      BY <2>2 DEF ObjectRoutes
    <3> HIDE DEF entries
    <3>2. DOMAIN entries = 1..1
      BY <1>1, <3>1, Zenon
    <3>3. /\ entries[1][2] \in ReadOperations \cup {"listObjects"}
      BY <3>1 DEF ReadOperations
    <3>4. QED
      BY <3>2, <3>3
  <2>3. CASE m = "GET" /\ k = 0
    <3>1. entries = << <<"notification", "getBucketNotification">>,
                       <<"versioning", "getBucketVersioning">>,
                       <<"object-lock", "getBucketObjectLock">>,
                       <<"versions", "listObjectVersions">>,
                       <<"location", "getBucketLocation">>, <<"", "listObjects">> >>
      BY <2>3 DEF BucketRoutes
    <3> HIDE DEF entries
    <3>2. DOMAIN entries = 1..6
      BY <1>2, <3>1, Zenon
    <3>3. /\ entries[1][2] \in ReadOperations \cup {"listObjects"}
          /\ entries[2][2] \in ReadOperations \cup {"listObjects"}
          /\ entries[3][2] \in ReadOperations \cup {"listObjects"}
          /\ entries[4][2] \in ReadOperations \cup {"listObjects"}
          /\ entries[5][2] \in ReadOperations \cup {"listObjects"}
          /\ entries[6][2] \in ReadOperations \cup {"listObjects"}
      BY <3>1 DEF ReadOperations
    <3>4. QED
      BY <3>2, <3>3
  <2>4. CASE m = "GET" /\ k # 0
    <3>1. entries = << <<"list-type", "listObjects">>, <<"uploadId", "listParts">>,
                       <<"tagging", "getObjectTagging">>,
                       <<"retention", "getObjectRetention">>,
                       <<"legal-hold", "getObjectLegalHold">>, <<"", "getObject">> >>
      BY <2>4 DEF ObjectRoutes
    <3> HIDE DEF entries
    <3>2. DOMAIN entries = 1..6
      BY <1>2, <3>1, Zenon
    <3>3. /\ entries[1][2] \in ReadOperations \cup {"listObjects"}
          /\ entries[2][2] \in ReadOperations \cup {"listObjects"}
          /\ entries[3][2] \in ReadOperations \cup {"listObjects"}
          /\ entries[4][2] \in ReadOperations \cup {"listObjects"}
          /\ entries[5][2] \in ReadOperations \cup {"listObjects"}
          /\ entries[6][2] \in ReadOperations \cup {"listObjects"}
      BY <3>1 DEF ReadOperations
    <3>4. QED
      BY <3>2, <3>3
  <2>5. QED
    BY <2>1, <2>2, <2>3, <2>4
<1>4. Handler(m, flags, k) = Route(entries, flags)
  BY DEF Handler
<1> HIDE DEF entries
<1>5. QED
  BY <1>3, <1>4, RouteEntry DEF ReadOperations

\* A request that needs no more than a permission to read changes nothing.
LEMMA ReadsAreHarmless ==
  ASSUME NEW c \in Calls, c.permission \in Reads
  PROVE  c.operation \in Harmless
<1>1. PICK m \in DOMAIN BucketRoutes, f \in Flags, k \in Key \cup {0} :
        c = Call(m, f, k)
  BY DEF Calls
<1>2. m \in {"PUT", "HEAD", "GET", "POST", "DELETE"}
  BY DEF BucketRoutes
<1>3. Permission(m, k) \in Reads /\ c.operation = Operation(Handler(m, {f}, k))
  BY <1>1 DEF Call
<1>4. m \in {"GET", "HEAD"}
  BY <1>2, <1>3 DEF Permission, Reads
<1>5. QED
  BY <1>3, <1>4, ReadHandlers, ReadOperation

ContentOK == object \in [Key -> {"absent", "stored", "edited"}]

\* What a request for one key touches: that key, if any.
LEMMA TouchesItsKey ==
  ASSUME ContentOK, NEW k,
         \/ UNCHANGED object
         \/ \E v \in {"absent", "stored", "edited"} : object' = [object EXCEPT ![k] = v],
         \/ UNCHANGED uploads
         \/ uploads' = uploads \cup {k}
         \/ uploads' = uploads \ {k}
  PROVE  ContentOK' /\ Changed \subseteq {k}
BY DEF ContentOK, Changed

\* What a grant that is not an administrator's may touch with a call.
LEMMA CallIsGranted ==
  ASSUME ContentOK, NEW g, g.role \in {"read-only", "read-write"},
         NEW c \in Calls, Allows(g, c.permission, c.key), Perform(g, c)
  PROVE  /\ ContentOK'
         /\ Changed # {} \/ (bucket # "none" /\ bucket' # bucket) =>
              g.role = "read-write" /\ g.bucket /\ Changed \subseteq g.keys
<1>1. /\ g.role = "read-only" => c.operation \in Harmless
      /\ g.bucket /\ (c.key # 0 => c.key \in g.keys)
  BY ReadsAreHarmless DEF Allows, Matches
<1>2. 0 \notin Key
  BY GatewayAssumption, FS_CardinalityType
<1>3. CASE Read(c) \/ List(c)
  <2>1. UNCHANGED <<object, uploads>> /\ (bucket # "none" => bucket' = bucket)
    BY <1>3 DEF Read, List, EnsureBucket, contentVars
  <2>2. QED
    BY <2>1 DEF ContentOK, Changed
<1>4. CASE CreateBucket(c) \/ ConfigureBucket(c)
  <2>1. UNCHANGED <<object, uploads>> /\ c.operation \notin Harmless
    BY <1>4 DEF CreateBucket, ConfigureBucket, Harmless
  <2>2. Changed = {} /\ ContentOK'
    BY <2>1 DEF ContentOK, Changed
  <2>3. QED
    BY <1>1, <2>1, <2>2
<1>5. CASE DeleteObjects(g, c)
  <2>1. PICK keys \in SUBSET Key :
          object' = Without({k \in keys : Allows(g, "s3:DeleteObject", k)})
    BY <1>5 DEF DeleteObjects
  <2>2. UNCHANGED <<bucket, uploads>> /\ c.operation \notin Harmless
    BY <1>5 DEF DeleteObjects, Harmless
  <2>3. ContentOK'
    BY <2>1 DEF ContentOK, Without
  <2>4. \A k \in Key : Allows(g, "s3:DeleteObject", k) => k \in g.keys
    BY <1>2 DEF Allows, Matches
  <2>5. \A k \in Key : object'[k] # object[k] => k \in g.keys
    BY <2>1, <2>4 DEF Without
  <2>6. QED
    BY <1>1, <2>2, <2>3, <2>5 DEF Changed
<1>6. CASE \/ PutObject(c) \/ CopyObject(g, c) \/ TagObject(c) \/ ProtectObject(c)
           \/ Delete(c) \/ CreateMultipartUpload(c) \/ UploadPart(c)
           \/ CompleteMultipartUpload(c) \/ AbortMultipartUpload(c)
  <2>1. c.operation \notin Harmless
    BY <1>6 DEF PutObject, CopyObject, TagObject, ProtectObject, Delete, CreateMultipartUpload,
       UploadPart, CompleteMultipartUpload, AbortMultipartUpload, Harmless
  <2>2. /\ \/ UNCHANGED object
           \/ \E v \in {"absent", "stored", "edited"} : object' = [object EXCEPT ![c.key] = v]
        /\ \/ UNCHANGED uploads
           \/ uploads' = uploads \cup {c.key}
           \/ uploads' = uploads \ {c.key}
    BY <1>6 DEF PutObject, CopyObject, TagObject, ProtectObject, Delete, CreateMultipartUpload,
       UploadPart, CompleteMultipartUpload, AbortMultipartUpload, Put, Edit, contentVars
  <2>3. ContentOK' /\ Changed \subseteq {c.key}
    BY <2>2, TouchesItsKey
  <2>4. Changed \subseteq Key
    BY DEF Changed
  <2>5. Changed \subseteq g.keys
    BY <1>1, <1>2, <2>3, <2>4
  <2>6. QED
    BY <1>1, <2>1, <2>3, <2>5
<1>7. QED
  BY <1>3, <1>4, <1>5, <1>6 DEF Perform

\* The same for the content alone, whoever asks.
LEMMA CallContent ==
  ASSUME ContentOK, NEW g, NEW c, Perform(g, c)
  PROVE  ContentOK'
<1>1. CASE UNCHANGED object
  BY <1>1 DEF ContentOK
<1>2. CASE \E v \in {"absent", "stored", "edited"} : object' = [object EXCEPT ![c.key] = v]
  BY <1>2 DEF ContentOK
<1>3. CASE DeleteObjects(g, c)
  BY <1>3 DEF DeleteObjects, Without, ContentOK
<1>4. QED
  BY <1>1, <1>2, <1>3 DEF Perform, Read, List, CreateBucket, ConfigureBucket, PutObject,
     CopyObject, TagObject, ProtectObject, Delete, CreateMultipartUpload, UploadPart,
     CompleteMultipartUpload, AbortMultipartUpload, Put, Edit, contentVars

GrantedChange ==
  Changed # {} \/ (bucket # "none" /\ bucket' # bucket) =>
    /\ credential # NoRow
    /\ \/ credential.grant.role = "admin"
       \/ /\ credential.grant.role = "read-write" /\ credential.grant.bucket
          /\ Changed \subseteq credential.grant.keys

LEMMA ChangesAreGranted_Step ==
  ASSUME CredentialOK, ContentOK, [GatewayNext]_gatewayVars
  PROVE  ContentOK' /\ GrantedChange
<1>1. CASE UNCHANGED contentVars
  BY <1>1 DEF contentVars, ContentOK, GrantedChange, Changed
<1>2. CASE FirstPage \/ FollowingPage
  <2>1. UNCHANGED <<object, uploads>> /\ (bucket # "none" => bucket' = bucket)
    BY <1>2 DEF FirstPage, FollowingPage, EnsureBucket
  <2>2. QED
    BY <2>1 DEF ContentOK, Changed, GrantedChange
<1>3. ASSUME NEW g \in Granted, Serve(g) PROVE ContentOK' /\ GrantedChange
  <2>1. g = credential.grant /\ credential # NoRow
    BY DEF Granted, Accepted, Resolved
  <2>2. g.role \in Role
    BY <2>1, GatewayAssumption DEF CredentialOK, RowType, Grants
  <2>3. CASE PostObject(g)
    <3>1. PICK k \in Key : AuthorizePostPolicy(g, k) /\ Put(k) /\ UNCHANGED uploads
      BY <2>3 DEF PostObject
    <3>2. ContentOK' /\ Changed \subseteq {k}
      BY <3>1, TouchesItsKey DEF Put
    <3>3. 0 \notin Key
      BY GatewayAssumption, FS_CardinalityType
    <3>4. g.role = "admin" \/ (g.role = "read-write" /\ g.bucket /\ k \in g.keys)
      BY <2>2, <3>1, <3>3 DEF AuthorizePostPolicy, Allows, Matches, Reads, Role
    <3>5. QED
      BY <2>1, <3>2, <3>4 DEF GrantedChange
  <2>4. ASSUME NEW c \in Calls, Allows(g, c.permission, c.key), Perform(g, c)
        PROVE  ContentOK' /\ GrantedChange
    <3>1. CASE g.role = "admin"
      BY <2>1, <2>4, <3>1, CallContent DEF GrantedChange
    <3>2. CASE g.role # "admin"
      <4>1. g.role \in {"read-only", "read-write"}
        BY <2>2, <3>2 DEF Role
      <4>2. QED
        BY <2>1, <2>4, <4>1, CallIsGranted DEF GrantedChange
    <3>3. QED
      BY <3>1, <3>2
  <2>5. QED
    BY <1>3, <2>3, <2>4 DEF Serve, ServeFor
<1>4. QED
  BY <1>1, <1>2, <1>3 DEF GatewayNext, gatewayVars, EndListing, Administer, Expire,
     CreateAccessCredential, ReadCredential, UpdateAccessCredential,
     RotateAccessCredential, DeleteAccessCredential

\* Whatever credential a request is signed with: when it changes a key, an
\* upload or the settings of the bucket, principalAllows granted that to the
\* credential, for each key it touches.
THEOREM ChangesGranted == GatewaySpec => ChangesAreGranted
<1>1. GatewayInit => CredentialOK /\ ContentOK
  BY DEF GatewayInit, CredentialOK, ContentOK
<1>2. CredentialOK /\ ContentOK /\ [GatewayNext]_gatewayVars
        => CredentialOK' /\ ContentOK' /\ GrantedChange
  BY CredentialOK_Step, ChangesAreGranted_Step
<1>3. GrantedChange =>
        [Changed # {} \/ (bucket # "none" /\ bucket' # bucket) =>
           /\ credential # NoRow
           /\ \/ credential.grant.role = "admin"
              \/ /\ credential.grant.role = "read-write" /\ credential.grant.bucket
                 /\ Changed \subseteq credential.grant.keys]_contentVars
  BY DEF GrantedChange
<1>4. QED
  BY <1>1, <1>2, <1>3, PTL DEF GatewaySpec, ChangesAreGranted

-----------------------------------------------------------------------------
(* The listing.                                                            *)

LEMMA KeysAreFinite ==
  ASSUME NEW S \in SUBSET Key
  PROVE  IsFiniteSet(S) /\ Cardinality(S) \in Nat /\ S \subseteq Nat \ {0}
<1>1. IsFiniteSet(Key) /\ Key = 1 .. Cardinality(Key)
  BY GatewayAssumption
<1>2. Cardinality(Key) \in Nat
  BY <1>1, FS_CardinalityType
<1>3. IsFiniteSet(S)
  BY <1>1, FS_Subset
<1>4. Cardinality(S) \in Nat
  BY <1>3, FS_CardinalityType
<1>5. S \subseteq Nat \ {0}
  BY <1>1, <1>2
<1>6. QED
  BY <1>3, <1>4, <1>5

\* A set of keys has a largest one.
LEMMA LargestKey ==
  ASSUME NEW S \in SUBSET Key, S # {}
  PROVE  Max(S) \in S /\ \A y \in S : y <= Max(S)
<1> DEFINE n == Cardinality(Key)
           T == {n - x : x \in S}
<1>1. n \in Nat /\ Key = 1 .. n
  BY KeysAreFinite, GatewayAssumption
<1> HIDE DEF n
<1>2. T \subseteq Nat /\ T # {}
  <2>1. \A x \in S : x \in Nat /\ x <= n /\ n - x \in Nat
    BY <1>1
  <2>2. QED
    BY <2>1
<1>3. PICK t \in T : \A u \in T : t <= u
  BY <1>2, LeastNat
<1>4. PICK x \in S : t = n - x
  OBVIOUS
<1>5. \A y \in S : x >= y
  <2>1. ASSUME NEW y \in S PROVE x >= y
    <3>1. n - y \in T
      OBVIOUS
    <3>2. n - x <= n - y
      BY <1>3, <1>4, <3>1
    <3>3. x \in Nat /\ y \in Nat
      BY <1>1
    <3>4. QED
      BY <1>1, <3>2, <3>3
  <2>2. QED
    BY <2>1
<1>6. Max(S) \in S /\ \A y \in S : Max(S) >= y
  BY <1>5, Zenon DEF Max
<1>7. Max(S) \in Nat /\ \A y \in S : y \in Nat
  BY <1>6, KeysAreFinite
<1>8. QED
  BY <1>6, <1>7

\* The rows up to the limit are the first ones, and all of them when they are
\* fewer than the limit.
FirstRows(A, n) == {k \in A : Cardinality({j \in A : j <= k}) <= n}

LEMMA FirstRowsFirst ==
  ASSUME NEW A \in SUBSET Key, NEW n \in Nat,
         NEW k \in FirstRows(A, n), NEW j \in A, j <= k
  PROVE  j \in FirstRows(A, n)
<1> DEFINE J == {i \in A : i <= j}
           K == {i \in A : i <= k}
<1>1. j \in Nat /\ k \in Nat /\ \A i \in A : i \in Nat
  BY KeysAreFinite DEF FirstRows
<1>2. J \in SUBSET K /\ K \in SUBSET Key /\ J \in SUBSET Key
  <2>1. \A i \in A : i <= j => i <= k
    BY <1>1
  <2>2. QED
    BY <2>1
<1>3. Cardinality(K) <= n
  BY DEF FirstRows
<1> HIDE DEF J, K
<1>4. IsFiniteSet(K) /\ Cardinality(J) \in Nat /\ Cardinality(K) \in Nat
  BY <1>2, KeysAreFinite
<1>5. Cardinality(J) <= Cardinality(K)
  BY <1>2, <1>4, FS_Subset
<1>6. Cardinality(J) <= n
  BY <1>3, <1>4, <1>5
<1>7. QED
  BY <1>6 DEF FirstRows, J

LEMMA FirstRowsAll ==
  ASSUME NEW A \in SUBSET Key, NEW n \in Nat \ {0},
         Cardinality(FirstRows(A, n)) < n
  PROVE  FirstRows(A, n) = A
<1> DEFINE rows == FirstRows(A, n)
<1>1. rows \in SUBSET A /\ rows \in SUBSET Key
  BY DEF FirstRows
<1>2. SUFFICES ASSUME A \ rows # {} PROVE FALSE
  BY <1>1
<1>3. A \ rows \subseteq Nat
  BY KeysAreFinite
<1>4. PICK k \in A \ rows : \A j \in A \ rows : k <= j
  BY <1>2, <1>3, LeastNat
<1> DEFINE K == {j \in A : j <= k}
<1>5. K \in SUBSET Key /\ k \in K /\ ~ (Cardinality(K) <= n)
  BY <1>3, <1>4 DEF FirstRows
<1>6. K \ {k} \in SUBSET rows
  <2>1. ASSUME NEW j \in K \ {k} PROVE j \in rows
    <3>1. j \in A /\ j <= k /\ j # k /\ j \in Nat /\ k \in Nat
      BY <1>3, <1>4, KeysAreFinite
    <3>2. ~ (k <= j)
      BY <3>1
    <3>3. QED
      BY <1>4, <3>1, <3>2
  <2>2. QED
    BY <2>1
<1> HIDE DEF rows, K
<1>7. /\ IsFiniteSet(K) /\ Cardinality(K) \in Nat
      /\ IsFiniteSet(rows) /\ Cardinality(rows) \in Nat
  BY <1>1, <1>5, KeysAreFinite
<1>8. Cardinality(K \ {k}) = Cardinality(K) - 1
  BY <1>5, <1>7, FS_RemoveElement
<1>9. Cardinality(K \ {k}) <= Cardinality(rows)
  BY <1>6, <1>7, FS_Subset
<1>10. Cardinality(rows) < n
  BY DEF rows
<1>11. QED
  BY <1>5, <1>7, <1>8, <1>9, <1>10

\* A page has every key up to its last one, and the last page all of them.
LEMMA PageIsComplete ==
  ASSUME NEW A \in SUBSET Key, NEW limit \in Nat \ {0}
  PROVE  LET rows == FirstRows(A, limit + 1)
             page == Page(rows, limit)
         IN  /\ page \subseteq A
             /\ Cardinality(rows) \in Nat
             /\ Cardinality(rows) > limit =>
                  /\ Max(page) \in page /\ \A k \in page : k <= Max(page)
                  /\ \A k \in A : k <= Max(page) => k \in page
             /\ ~ (Cardinality(rows) > limit) => page = A
<1> DEFINE rows == FirstRows(A, limit + 1)
           page == Page(rows, limit)
<1>1. rows \in SUBSET A /\ rows \in SUBSET Key
  BY DEF FirstRows
<1>2. IsFiniteSet(rows) /\ Cardinality(rows) \in Nat /\ limit + 1 \in Nat \ {0}
  BY <1>1, KeysAreFinite
<1>3. CASE ~ (Cardinality(rows) > limit)
  <2>1. Cardinality(rows) < limit + 1
    BY <1>2, <1>3
  <2>2. rows = A
    BY <1>2, <2>1, FirstRowsAll
  <2>3. page = A
    BY <1>3, <2>2 DEF Page
  <2>4. QED
    BY <1>2, <1>3, <2>3
<1>4. CASE Cardinality(rows) > limit
  <2> DEFINE m == Max(rows)
  <2>1. page = rows \ {m}
    BY <1>4 DEF Page
  <2>2. rows # {}
    BY <1>2, <1>4, FS_EmptySet
  <2>3. m \in rows /\ \A k \in rows : k <= m
    BY <1>1, <2>2, LargestKey
  <2> HIDE DEF page, m, rows
  <2>4. Cardinality(page) = Cardinality(rows) - 1
    BY <1>2, <2>1, <2>3, FS_RemoveElement
  <2>5. page # {} /\ page \in SUBSET Key
    <3>1. Cardinality(page) # 0
      BY <1>2, <1>4, <2>4
    <3>2. page # {}
      BY <3>1, FS_EmptySet, Zenon
    <3>3. QED
      BY <1>1, <2>1, <3>2
  <2>6. Max(page) \in page /\ \A k \in page : k <= Max(page)
    BY <2>5, LargestKey
  <2>7. ASSUME NEW k \in A, k <= Max(page) PROVE k \in page
    <3>1. Max(page) \in rows /\ Max(page) # m /\ Max(page) <= m
      BY <2>1, <2>3, <2>6
    <3>2. k \in rows
      BY <1>2, <2>7, <3>1, FirstRowsFirst DEF rows
    <3>3. k \in Nat /\ m \in Nat /\ Max(page) \in Nat
      BY <1>1, <2>3, <3>1, <3>2, KeysAreFinite
    <3>4. k # m
      BY <2>7, <3>1, <3>3
    <3>5. QED
      BY <2>1, <3>2, <3>4
  <2>8. QED
    BY <1>1, <1>2, <1>4, <2>1, <2>6, <2>7 DEF page, rows
<1>5. QED
  BY <1>3, <1>4

ListingType ==
  [within : Selection, delimited : BOOLEAN, after : Nat, seen : Seq(Key),
   folders : SUBSET {FolderOf[k] : k \in Key}, more : BOOLEAN, always : SUBSET Key]

Covered(l, k) == k \in Range(l.seen) \/ FolderOf[k] \in l.folders

\* Up to the continuation token, and on the last page throughout, the client
\* has been shown the keys that were there all along.
ListingOK(l) ==
  /\ l \in ListingType
  /\ \A i, j \in DOMAIN l.seen : i < j => l.seen[i] < l.seen[j]
  /\ l.always \subseteq Stored \cap l.within
  /\ l.more => \A i \in DOMAIN l.seen : l.seen[i] <= l.after
  /\ \A k \in l.always : l.more => (k <= l.after => Covered(l, k))
  /\ \A k \in l.always : ~ l.more => Covered(l, k)

ListingInv == listing # NoListing => ListingOK(listing)

\* Joining names that come later to names that are in order.
LEMMA JoinInOrder ==
  ASSUME NEW s \in Seq(Key), NEW t \in Seq(Key),
         \A i, j \in 1 .. Len(s) : i < j => s[i] < s[j],
         \A i, j \in 1 .. Len(t) : i < j => t[i] < t[j],
         \A i \in 1 .. Len(s), j \in 1 .. Len(t) : s[i] < t[j]
  PROVE  /\ s \o t \in Seq(Key)
         /\ \A i, j \in 1 .. Len(s \o t) : i < j => (s \o t)[i] < (s \o t)[j]
         /\ Range(s \o t) = Range(s) \cup Range(t)
<1> DEFINE u == s \o t
           m == Len(s)
           n == Len(t)
<1>1. /\ m \in Nat /\ n \in Nat /\ u \in Seq(Key) /\ Len(u) = m + n
      /\ \A i \in 1 .. m + n : u[i] = IF i <= m THEN s[i] ELSE t[i - m]
  OBVIOUS
<1>2. DOMAIN u = 1 .. m + n /\ DOMAIN s = 1 .. m /\ DOMAIN t = 1 .. n
  BY <1>1
<1>3. \A i \in 1 .. m + n : i \in 1 .. m \/ i - m \in 1 .. n
  BY <1>1
<1>4. ASSUME NEW i \in 1 .. m + n, NEW j \in 1 .. m + n, i < j
      PROVE  u[i] < u[j]
  <2>1. CASE i \in 1 .. m /\ j \in 1 .. m
    BY <1>1, <1>4, <2>1
  <2>2. CASE i \in 1 .. m /\ j - m \in 1 .. n
    BY <1>1, <1>4, <2>2
  <2>3. CASE i - m \in 1 .. n /\ j - m \in 1 .. n
    <3>1. u[i] = t[i - m] /\ u[j] = t[j - m] /\ i - m < j - m
      BY <1>1, <1>4, <2>3
    <3>2. QED
      BY <2>3, <3>1
  <2>4. CASE i - m \in 1 .. n /\ j \in 1 .. m
    BY <1>1, <1>4, <2>4
  <2>5. QED
    BY <1>3, <2>1, <2>2, <2>3, <2>4
<1>5. \A i \in 1 .. n : i + m \in 1 .. m + n /\ u[i + m] = t[i]
  BY <1>1
<1>6. \A i \in 1 .. m : i \in 1 .. m + n /\ u[i] = s[i]
  BY <1>1
<1>7. \A i \in 1 .. m + n : i - m \in 1 .. n => u[i] = t[i - m]
  BY <1>1
<1> HIDE DEF u, m, n
<1>8. Range(u) \subseteq Range(s) \cup Range(t)
  BY <1>2, <1>3, <1>6, <1>7 DEF Range
<1>9. Range(s) \cup Range(t) \subseteq Range(u)
  BY <1>2, <1>5, <1>6 DEF Range
<1>10. QED
  BY <1>1, <1>4, <1>8, <1>9 DEF u

\* Names in the order of the database.
LEMMA InOrderNames ==
  ASSUME NEW S \in SUBSET Key, NEW t \in InOrder(S)
  PROVE  /\ t \in Seq(Key) /\ Range(t) = S
         /\ \A i, j \in 1 .. Len(t) : i < j => t[i] < t[j]
         /\ \A i \in 1 .. Len(t) : t[i] \in S
<1>1. /\ t \in [1 .. Cardinality(S) -> S] /\ Range(t) = S
      /\ \A i, j \in DOMAIN t : i < j => t[i] < t[j]
  BY DEF InOrder
<1>2. Cardinality(S) \in Nat
  BY KeysAreFinite
<1>3. t \in Seq(S) /\ DOMAIN t = 1 .. Cardinality(S)
  BY <1>1, <1>2
<1>4. Len(t) = Cardinality(S)
  BY <1>2, <1>3
<1>5. t \in Seq(Key)
  BY <1>1, <1>2
<1>6. QED
  BY <1>1, <1>3, <1>4, <1>5

\* A page shows, in order, what its part of the bucket holds.
LEMMA NextPageOK ==
  ASSUME NEW l, ListingOK(l), l.more, NEW asked \in 0 .. PageMax + 1,
         NEW l2 \in NextPages(l, asked)
  PROVE  ListingOK(l2)
<1> DEFINE limit == LimitOrDefault(asked)
           A == {k \in Stored \cap l.within : k > l.after}
           rows == RowsAfter(l.within, l.after, limit + 1)
           page == Page(rows, limit)
           entries == {k \in page : l.delimited => FolderOf[k] = NoFolder}
           more == Cardinality(rows) > limit
           folders == {FolderOf[k] : k \in page \ entries}
           after == IF more THEN Max(page) ELSE l.after
<1>1. PICK names \in InOrder(entries) :
        l2 = [l EXCEPT !.seen = l.seen \o names, !.folders = l.folders \cup folders,
                       !.after = after, !.more = more]
  BY DEF NextPages
<1>2. limit \in Nat \ {0} /\ StoreLimit(limit + 1) = limit + 1
  BY GatewayAssumption DEF LimitOrDefault, StoreLimit
<1>3. A \in SUBSET Key
  BY DEF Stored
<1>4. rows = FirstRows(A, limit + 1)
  BY <1>2 DEF RowsAfter, FirstRows
<1> HIDE DEF limit, A, rows
<1>5. /\ page \subseteq A
      /\ more => /\ Max(page) \in page /\ \A k \in page : k <= Max(page)
                 /\ \A k \in A : k <= Max(page) => k \in page
      /\ ~ more => page = A
  BY <1>2, <1>3, <1>4, PageIsComplete
<1>6. more \in BOOLEAN
  OBVIOUS
<1> HIDE DEF page, more
<1>7. /\ l \in ListingType /\ l.seen \in Seq(Key) /\ l.after \in Nat
      /\ l.folders \subseteq {FolderOf[k] : k \in Key}
  BY DEF ListingOK, ListingType
<1>8. entries \in SUBSET Key /\ page \in SUBSET Key /\ folders \subseteq {FolderOf[k] : k \in Key}
  BY <1>3, <1>5
<1>9. after \in Nat
  BY <1>5, <1>7, <1>8, KeysAreFinite
<1> DEFINE seen == l.seen \o names
<1>10. /\ names \in Seq(Key) /\ Range(names) = entries
       /\ \A i, j \in 1 .. Len(names) : i < j => names[i] < names[j]
       /\ \A i \in 1 .. Len(names) : names[i] \in entries
  BY <1>8, InOrderNames
<1>11. \A i \in 1 .. Len(l.seen) : l.seen[i] <= l.after /\ l.seen[i] \in Nat
  <2>1. Key \subseteq Nat
    BY KeysAreFinite
  <2>2. \A i \in 1 .. Len(l.seen) : l.seen[i] \in Key
    BY <1>7
  <2>3. DOMAIN l.seen = 1 .. Len(l.seen)
    BY <1>7
  <2>4. QED
    BY <2>1, <2>2, <2>3 DEF ListingOK
<1>12. \A k \in page : k > l.after /\ k \in Nat
  BY <1>5, <1>8, KeysAreFinite DEF A
<1>13. \A i \in 1 .. Len(l.seen), j \in 1 .. Len(names) : l.seen[i] < names[j]
  <2>1. ASSUME NEW i \in 1 .. Len(l.seen), NEW j \in 1 .. Len(names)
        PROVE  l.seen[i] < names[j]
    <3>1. names[j] \in page
      BY <1>10
    <3>2. QED
      BY <1>7, <1>11, <1>12, <3>1
  <2>2. QED
    BY <2>1
<1>14. \A i, j \in 1 .. Len(l.seen) : i < j => l.seen[i] < l.seen[j]
  BY <1>7 DEF ListingOK
<1>15. /\ seen \in Seq(Key)
       /\ \A i, j \in 1 .. Len(seen) : i < j => seen[i] < seen[j]
       /\ Range(seen) = Range(l.seen) \cup entries
  BY <1>7, <1>10, <1>13, <1>14, JoinInOrder
<1> HIDE DEF seen, folders, after, entries
<1>16. /\ l2 \in ListingType
       /\ l2.seen = seen /\ l2.folders = l.folders \cup folders /\ l2.after = after
       /\ l2.more = more /\ l2.always = l.always /\ l2.within = l.within
  <2>1. l.folders \cup folders \in SUBSET {FolderOf[k] : k \in Key}
    BY <1>7, <1>8
  <2>2. l2 = [l EXCEPT !.seen = seen, !.folders = l.folders \cup folders,
                       !.after = after, !.more = more]
    BY <1>1 DEF seen
  <2> DEFINE F == SUBSET {FolderOf[k] : k \in Key}
             S == Seq(Key)
  <2>3. /\ l \in [within : Selection, delimited : BOOLEAN, after : Nat, seen : S,
                  folders : F, more : BOOLEAN, always : SUBSET Key]
        /\ l.folders \cup folders \in F /\ seen \in S
    BY <1>7, <1>15, <2>1 DEF ListingType
  <2> HIDE DEF F, S
  <2>4. /\ l2 \in [within : Selection, delimited : BOOLEAN, after : Nat, seen : S,
                   folders : F, more : BOOLEAN, always : SUBSET Key]
        /\ l2.seen = seen /\ l2.folders = l.folders \cup folders /\ l2.after = after
        /\ l2.more = more /\ l2.always = l.always /\ l2.within = l.within
    BY <1>6, <1>9, <2>2, <2>3
  <2>5. QED
    BY <2>4 DEF ListingType, F, S
<1>17. \A k \in page : Covered(l2, k)
  BY <1>15, <1>16 DEF Covered, folders, entries
<1>18. \A k \in l.always : k \in Key /\ k \in Nat /\ (k <= l.after => Covered(l2, k))
  <2>1. \A k \in l.always : k <= l.after => Covered(l, k)
    BY DEF ListingOK
  <2>2. \A k \in l.always : k \in Key
    BY DEF ListingOK, Stored
  <2>3. QED
    BY <1>15, <1>16, <2>1, <2>2, KeysAreFinite DEF Covered
<1>19. \A k \in l.always : ~ (k <= l.after) => k \in A
  BY <1>7, <1>18 DEF ListingOK, A
<1>20. \A k \in l.always : /\ more => (k <= after => Covered(l2, k))
                           /\ ~ more => Covered(l2, k)
  BY <1>5, <1>17, <1>18, <1>19 DEF after
<1>21. more => \A i \in DOMAIN seen : seen[i] <= after
  <2>1. SUFFICES ASSUME more, NEW i \in DOMAIN seen PROVE seen[i] <= after
    OBVIOUS
  <2>2. seen[i] \in Range(l.seen) \cup entries
    BY <1>15 DEF Range
  <2>3. CASE seen[i] \in entries
    BY <1>5, <2>1, <2>3 DEF after, entries
  <2>4. CASE seen[i] \in Range(l.seen)
    <3>1. PICK j \in 1 .. Len(l.seen) : seen[i] = l.seen[j]
      BY <1>7, <2>4 DEF Range
    <3>2. l.seen[j] <= l.after /\ l.seen[j] \in Nat
      BY <1>11
    <3>3. l.after < Max(page) /\ Max(page) \in Nat
      BY <1>5, <1>12, <2>1
    <3>4. QED
      BY <1>7, <2>1, <3>1, <3>2, <3>3 DEF after
  <2>5. QED
    BY <2>2, <2>3, <2>4
<1>22. DOMAIN seen = 1 .. Len(seen)
  BY <1>15
<1>23. QED
  BY <1>15, <1>16, <1>20, <1>21, <1>22 DEF ListingOK

LEMMA ListingInv_Step ==
  ASSUME ListingInv, [GatewayNext]_gatewayVars
  PROVE  ListingInv'
<1>1. ASSUME UNCHANGED object, ListingOK(listing') PROVE ListingInv'
  BY <1>1 DEF ListingInv, ListingOK, Stored, Covered
<1>2. CASE UNCHANGED <<object, listing>>
  BY <1>2 DEF ListingInv, ListingOK, Stored, Covered
<1>3. CASE FirstPage
  <2>1. PICK within \in Selection, delimited \in BOOLEAN, asked \in 0 .. PageMax + 1 :
          listing' \in NextPages([within |-> within, delimited |-> delimited, after |-> 0,
                                  seen |-> <<>>, folders |-> {}, more |-> TRUE,
                                  always |-> Stored \cap within], asked)
    BY <1>3 DEF FirstPage
  <2> DEFINE l == [within |-> within, delimited |-> delimited, after |-> 0,
                   seen |-> <<>>, folders |-> {}, more |-> TRUE,
                   always |-> Stored \cap within]
  <2>2. l \in ListingType
    <3>1. Stored \cap within \in SUBSET Key
      BY DEF Stored
    <3>2. <<>> \in Seq(Key) /\ {} \in SUBSET {FolderOf[k] : k \in Key}
      OBVIOUS
    <3>3. QED
      BY <3>1, <3>2 DEF ListingType
  <2>3. \A k \in Stored : ~ (k <= 0)
    <3>1. Stored \in SUBSET Key
      BY DEF Stored
    <3>2. \A k \in Stored : k \in Nat \ {0}
      BY <3>1, KeysAreFinite
    <3>3. QED
      BY <3>2
  <2>4. DOMAIN l.seen = {} /\ l.after = 0 /\ l.more = TRUE /\ l.always = Stored \cap within
        /\ l.within = within
    OBVIOUS
  <2> HIDE DEF l
  <2>5. ListingOK(l)
    BY <2>2, <2>3, <2>4 DEF ListingOK
  <2>6. listing' \in NextPages(l, asked)
    BY <2>1 DEF l
  <2>7. ListingOK(listing')
    BY <2>4, <2>5, <2>6, NextPageOK
  <2>8. QED
    BY <1>1, <1>3, <2>7 DEF FirstPage
<1>4. CASE FollowingPage
  <2>1. PICK asked \in 0 .. PageMax + 1 : listing' \in NextPages(listing, asked)
    BY <1>4 DEF FollowingPage
  <2>2. ListingOK(listing) /\ listing.more
    BY <1>4 DEF FollowingPage, ListingInv
  <2>3. ListingOK(listing')
    BY <2>1, <2>2, NextPageOK
  <2>4. QED
    BY <1>1, <1>4, <2>3 DEF FollowingPage
<1>5. CASE EndListing
  BY <1>5 DEF EndListing, ListingInv
<1>6. ASSUME NEW g \in Granted, Serve(g) PROVE ListingInv'
  <2>1. CASE listing = NoListing
    BY <1>6, <2>1 DEF Serve, ListingInv
  <2>2. CASE listing # NoListing
    <3> DEFINE left == {k \in listing.always : object'[k] # "absent"}
    <3>1. listing' = [listing EXCEPT !.always = left]
      BY <1>6, <2>2 DEF Serve
    <3>2. ListingOK(listing) /\ listing \in ListingType
      BY <2>2 DEF ListingInv, ListingOK
    <3>3. left \subseteq listing.always /\ left \in SUBSET Key /\ left \subseteq Stored'
      BY <3>2 DEF ListingType, Stored
    <3> HIDE DEF left
    <3>4. /\ listing' \in ListingType /\ listing'.always = left
          /\ listing'.seen = listing.seen /\ listing'.folders = listing.folders
          /\ listing'.after = listing.after /\ listing'.more = listing.more
          /\ listing'.within = listing.within
      BY <3>1, <3>2, <3>3 DEF ListingType
    <3>5. ListingOK(listing)'
      BY <3>2, <3>3, <3>4 DEF ListingOK, Covered
    <3>6. QED
      BY <3>5 DEF ListingInv
  <2>3. QED
    BY <2>1, <2>2
<1>7. QED
  BY <1>2, <1>3, <1>4, <1>5, <1>6 DEF GatewayNext, gatewayVars, contentVars, Administer, Expire,
     CreateAccessCredential, ReadCredential, UpdateAccessCredential,
     RotateAccessCredential, DeleteAccessCredential

\* Whatever is stored and deleted between the pages of listObjects, and
\* however large each page is: a client that follows the tokens to the end has
\* been shown every key that was there all along, once and in order.
THEOREM ListingExact == GatewaySpec => []ListingIsExact
<1>1. GatewayInit => ListingInv
  BY DEF GatewayInit, ListingInv
<1>2. ListingInv /\ [GatewayNext]_gatewayVars => ListingInv'
  BY ListingInv_Step
<1>3. ListingInv => ListingIsExact
  BY DEF ListingInv, ListingOK, ListingIsExact, Covered
<1>4. QED
  BY <1>1, <1>2, <1>3, PTL DEF GatewaySpec
=============================================================================
