--------------------------- MODULE ObjectStorage ---------------------------
(***************************************************************************)
(* Attachments: what may be uploaded (upload-policy.ts), under which key   *)
(* (object-key.ts), how a malware scan moves a row on, and who is given a  *)
(* signed download link (signed-download-policy.ts, storage.service.ts)    *)
(* through the S3 adapter (s3-adapter.ts). The uploader, the scanner and   *)
(* the retention worker that use the policies are not in the repository.   *)
(***************************************************************************)
EXTENDS Integers, FiniteSets, Sequences

CONSTANTS
    Attachment,
    Workspace,
    MinTtl, DefaultTtl, MaxTtl,     \* lifetimes of a link (10, 60 and 300 s)
    TypeLimit, SizeLimit,           \* bytes of an image and of any object
    MaxTime, MaxLink                \* bounds on the clock and on the links

VARIABLES
    today,      \* the clock
    row,        \* attachment rows, NoRow before the upload
    objects,    \* <<zone, key>> of the stored objects
    found,      \* attachments that a scan reported as infected
    request,    \* the request for a link that is being answered
    links,      \* links that were handed out: [attachment, workspace, exp]
    audited     \* links with an audit entry

ovars == <<today, row, objects, found, request, links, audited>>

NoRow == [workspace |-> "none"]
NoDownload == [phase |-> "none"]
ScanStatus == {"PENDING", "SCANNING", "CLEAN", "INFECTED", "FAILED"}

\* Creation times, as Date gives them: months start at 0.
CreatedAt == {[year |-> 2024, month |-> 1, day |-> 29], [year |-> 2025, month |-> 0, day |-> 31]}
DaysIn(year, month) == IF month = 2 THEN IF year % 4 = 0 THEN 29 ELSE 28
                       ELSE IF month \in {4, 6, 9, 11} THEN 30 ELSE 31

TypeOK ==
    /\ today \in 0..MaxTime
    /\ \A a \in Attachment : row[a] = NoRow \/
            /\ row[a].workspace \in Workspace /\ row[a].scan \in ScanStatus
            /\ row[a].zone \in {"QUARANTINE", "PRIVATE"} /\ Len(row[a].key) = 7
            /\ row[a].deletedAt \in -1..MaxTime /\ row[a].purgeAfter \in 0..MaxTime
    /\ found \subseteq Attachment /\ audited \subseteq links
    /\ \A o \in objects : o[1] \in {"QUARANTINE", "PRIVATE"}

Init ==
    /\ today = 0 /\ row = [a \in Attachment |-> NoRow] /\ objects = {} /\ found = {}
    /\ request = NoDownload /\ links = {} /\ audited = {}

-----------------------------------------------------------------------------
(* Keys: workspaces/{workspaceId}/{purpose}/{yyyy}/{mm}/{dd}/{opaqueObjectId}. *)

ZeroBasedMonth(at) == at.month
UtcMonth(at) == at.month + 1
buildObjectKey(w, at, a) ==
    <<"workspaces", w, "message-inbound", at.year, UtcMonth(at), at.day, a>>

\* Malformed: a month or day that the calendar does not have.
parseObjectKey(key) ==
    IF /\ Len(key) = 7 /\ key[1] = "workspaces"
       /\ key[5] \in 1..12 /\ key[6] \in 1..DaysIn(key[4], key[5])
    THEN [ok |-> TRUE, workspace |-> key[2], month |-> key[5], id |-> key[7]]
    ELSE [ok |-> FALSE]

-----------------------------------------------------------------------------
(* Upload. *)

\* evaluateAttachmentUpload: the detected type decides the limit and must be the declared one.
evaluateAttachmentUpload(declared, detected, size) ==
    LET effective == IF detected = "unknown" THEN declared ELSE detected
        limit == IF effective = "image/png" THEN TypeLimit ELSE SizeLimit
    IN  /\ size > 0 /\ size <= limit
        /\ effective \in {"image/png", "application/pdf"}
        /\ detected \in {"unknown", declared}

\* put: stored, refused, or stored with the answer lost; the uploader writes a row
\* only after an answer and may try again.
Upload(a) ==
    /\ row[a] = NoRow
    /\ \E w \in Workspace, at \in CreatedAt, purge \in {1, MaxTime} :
       LET key == buildObjectKey(w, at, a)
       IN  /\ \E declared \in {"image/png", "text/html"}, detected \in {"image/png", "application/pdf", "unknown"},
                 size \in {0, TypeLimit, SizeLimit} : evaluateAttachmentUpload(declared, detected, size)
           /\ objects' = objects \cup {<<"QUARANTINE", key>>}
           /\ row' = [row EXCEPT ![a] =
                [workspace |-> w, key |-> key, zone |-> "QUARANTINE", scan |-> "PENDING",
                 created |-> at, deletedAt |-> -1, purgeAfter |-> purge]]
    /\ UNCHANGED <<today, found, request, links, audited>>

PutAnswerLost(a) ==
    /\ row[a] = NoRow /\ objects = {}
    /\ \E w \in Workspace, at \in CreatedAt :
         objects' = objects \cup {<<"QUARANTINE", buildObjectKey(w, at, a)>>}
    /\ UNCHANGED <<today, row, found, request, links, audited>>

-----------------------------------------------------------------------------
(* Scan. *)

\* ALLOWED_SCAN_TRANSITIONS: a verdict is final, a failed scan may be repeated.
RescanAllowed(status) ==
    CASE status = "PENDING" -> {"SCANNING", "FAILED"}
      [] status = "SCANNING" -> {"CLEAN", "INFECTED", "FAILED"}
      [] OTHER -> {"SCANNING"}
ALLOWED_SCAN_TRANSITIONS(status) ==
    CASE status = "PENDING" -> {"SCANNING", "FAILED"}
      [] status = "SCANNING" -> {"CLEAN", "INFECTED", "FAILED"}
      [] status = "FAILED" -> {"SCANNING"}
      [] OTHER -> {}

\* isAttachmentScanTransitionAllowed: scanners report late, twice, and may miss malware.
Scan(a, next) ==
    /\ row[a] # NoRow
    /\ next = row[a].scan \/ next \in ALLOWED_SCAN_TRANSITIONS(row[a].scan)
    /\ row' = [row EXCEPT ![a].scan = next]
    /\ found' = IF next = "INFECTED" THEN found \cup {a} ELSE found
    /\ UNCHANGED <<today, objects, request, links, audited>>

\* The object is copied to the private bucket while or after it is scanned.
Promote(a) ==
    /\ row[a] # NoRow /\ row[a].zone = "QUARANTINE" /\ row[a].scan \in {"SCANNING", "CLEAN"}
    /\ objects' = objects \cup {<<"PRIVATE", row[a].key>>}
    /\ row' = [row EXCEPT ![a].zone = "PRIVATE"]
    /\ UNCHANGED <<today, found, request, links, audited>>

-----------------------------------------------------------------------------
(* Retention. *)

SoftDelete(a) ==
    /\ row[a] # NoRow /\ row[a].deletedAt = -1
    /\ row' = [row EXCEPT ![a].deletedAt = today]
    /\ UNCHANGED <<today, objects, found, request, links, audited>>

\* delete: an object that is gone already is no error.
DeleteObject(a) ==
    /\ row[a] # NoRow
    /\ row[a].deletedAt = -1 => row[a].purgeAfter <= today
    /\ objects' = {o \in objects : o[2] # row[a].key}
    /\ UNCHANGED <<today, row, found, request, links, audited>>

\* A request is answered within one tick of reading its row.
Tick ==
    /\ today < MaxTime
    /\ request # NoDownload => request.at = today
    /\ today' = today + 1
    /\ UNCHANGED <<row, objects, found, request, links, audited>>

-----------------------------------------------------------------------------
(* Signed downloads. *)

\* getSignedDownloadUrl: the row is read; another workspace's is not found.
AnyRow(a, w) == row[a] # NoRow
RowOf(a, w) == row[a] # NoRow /\ row[a].workspace = w

Load(a, w, ttl) ==
    /\ request = NoDownload /\ Cardinality(links) < MaxLink
    /\ RowOf(a, w)
    /\ request' = [phase |-> "loaded", attachment |-> a, workspace |-> w, row |-> row[a],
                   ttl |-> ttl, at |-> today]
    /\ UNCHANGED <<today, row, objects, found, links, audited>>

\* authorizeSignedDownload, on the row as it was read.
AuthorizedInZone(r) == r.deletedAt = -1 /\ r.purgeAfter > today /\ r.zone = "PRIVATE"
AuthorizedDeleted(r) == r.purgeAfter > today /\ r.zone = "PRIVATE" /\ r.scan = "CLEAN"
authorizeSignedDownload(r) ==
    /\ r.deletedAt = -1
    /\ r.purgeAfter > today
    /\ r.zone = "PRIVATE"
    /\ r.scan = "CLEAN"

TtlAsAsked(ttl) == IF ttl = 0 THEN DefaultTtl ELSE ttl
expiresInSeconds(ttl) ==
    LET asked == IF ttl = 0 THEN DefaultTtl ELSE ttl
        atLeast == IF asked < MinTtl THEN MinTtl ELSE asked
    IN  IF atLeast > MaxTtl THEN MaxTtl ELSE atLeast

\* createSignedDownload, and the audit entry, which may fail without failing the request.
Sign ==
    /\ request # NoDownload
    /\ authorizeSignedDownload(request.row)
    /\ LET link == [attachment |-> request.attachment, workspace |-> request.workspace,
                    key |-> request.row.key, exp |-> today + expiresInSeconds(request.ttl)]
       IN  /\ links' = links \cup {link}
           /\ audited' \in {audited, audited \cup {link}}
    /\ request' = NoDownload
    /\ UNCHANGED <<today, row, objects, found>>

\* handleDenial
Deny ==
    /\ request # NoDownload /\ ~authorizeSignedDownload(request.row)
    /\ request' = NoDownload
    /\ UNCHANGED <<today, row, objects, found, links, audited>>

Next ==
    \/ \E a \in Attachment : Upload(a) \/ PutAnswerLost(a) \/ Promote(a) \/ SoftDelete(a) \/ DeleteObject(a)
    \/ \E a \in Attachment, s \in ScanStatus : Scan(a, s)
    \/ \E a \in Attachment, w \in Workspace, ttl \in {0, MinTtl - 1, MaxTtl + 5} : Load(a, w, ttl)
    \/ Sign \/ Deny \/ Tick

Spec == Init /\ [][Next]_ovars

-----------------------------------------------------------------------------
(* Once any scan has reported a file as infected, no later report, retry or *)
(* promotion leads to a link for it: a verdict is final. *)
InfectedIsNeverLinked ==
    [][\A l \in links' \ links : l.attachment \notin found]_ovars

(* Deleting an attachment ends access to it: every link that was handed out *)
(* before, or by a request that had read the row, expires within the        *)
(* longest lifetime and the time of that request. *)
DeletionEndsAccess ==
    \A l \in links :
        row[l.attachment].deletedAt # -1 => l.exp <= row[l.attachment].deletedAt + MaxTtl + 1

(* A link leads into the caller's workspace: the key reads back as the      *)
(* workspace, day and attachment it was built from. *)
LinkStaysInWorkspace ==
    \A l \in links :
        LET k == parseObjectKey(l.key)
        IN  k.ok /\ k.workspace = l.workspace /\ k.id = l.attachment
              /\ k.month = row[l.attachment].created.month + 1
=============================================================================
