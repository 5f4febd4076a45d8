---------------------------- MODULE Verification ----------------------------
(***************************************************************************)
(* A helper's verification documents, the files behind them, the badge and *)
(* the avatar.  It models, of User/user.services.ts,                       *)
(*   requestHelperVerification, updateHelperStatus, updateProfile          *)
(* and, of Auth/auth.service.ts, the avatar that socialLogin writes, with  *)
(* the files of upload/uploadToAwsS3.ts as a set of URLs.  A request       *)
(* deletes at most one document and uploads at most one: the loops of the  *)
(* code, run once.                                                         *)
(***************************************************************************)
EXTENDS Handlers

VARIABLES
    docs,      \* verification_documents: URL by id, for the ids that exist
    badge,     \* users.verification_status
    avatar,    \* users.avatar: a URL, the provider's Picture or None
    files,     \* URLs stored at S3
    uploads,   \* URLs and ids given out so far
    decidedOn  \* the documents of the last decision (history)

ASSUME VerificationAssumption == None \notin Nat

verificationData == <<docs, badge, avatar, files, uploads, decidedOn>>
verificationVars == <<verificationData, handlers>>

-----------------------------------------------------------------------------
(* Data *)

Badges == {"NOT_SUBMITTED", "IN_REVIEW", "VERIFIED", "REJECTED"}

\* The picture a social login brings, a URL that is none of ours.
Picture == 0

\* URLs and document ids are drawn from the same counter.
NewUrl == uploads + 1
With(d, url) == [x \in DOMAIN docs \cup {d} |-> IF x = d THEN url ELSE docs[x]]
Without(d)   == [x \in DOMAIN docs \ {d} |-> docs[x]]

\* Somebody who signed up by social login may have brought a picture.
VerificationInit ==
    /\ docs = << >>
    /\ badge = "NOT_SUBMITTED"
    /\ avatar \in {None, Picture}
    /\ files = {}
    /\ uploads = 0
    /\ decidedOn = << >>

-----------------------------------------------------------------------------
(* requestHelperVerification *)

\* The request deletes document del and uploads a file that replaces document
\* rep; 0 names no document.  It must do one of the two.
SubmitRead(s, del, file, rep) ==
    /\ del # 0 \/ file
    /\ ~file => rep = 0
    /\ Begin(s, [op |-> "submit", pc |-> IF del = 0 THEN "upload" ELSE "delete_find",
                 del |-> del, file |-> file, rep |-> rep])
    /\ UNCHANGED verificationData

AfterDelete(r) == IF r.file THEN "upload" ELSE "count"

\* Of a document that is there, first the file goes, then the row; safeDelete
\* goes on when S3 fails.
DeleteFind(s) ==
    /\ At(s, "delete_find")
    /\ LET r == req[s]
       IN  IF r.del \in DOMAIN docs
           THEN /\ files' = files \ {docs[r.del]}
                /\ Goto(s, [r EXCEPT !.pc = "delete_row"])
           ELSE /\ Goto(s, [r EXCEPT !.pc = AfterDelete(r)])
                /\ UNCHANGED files
    /\ UNCHANGED <<docs, badge, avatar, uploads, decidedOn>>

\* The delete throws when the row is gone by now.
DeleteRow(s) ==
    /\ At(s, "delete_row")
    /\ docs' = Without(req[s].del)
    /\ IF req[s].del \in DOMAIN docs
       THEN Goto(s, [req[s] EXCEPT !.pc = AfterDelete(req[s])])
       ELSE Finish(s)
    /\ UNCHANGED <<badge, avatar, files, uploads, decidedOn>>

Upload_ByOperation(s, r) ==
    /\ files' = files \cup {r.op}
    /\ Goto(s, [r EXCEPT !.url = r.op])
    /\ UNCHANGED uploads
\* The file is stored under a URL of its own, which handler r goes on with.
Upload(s, r) ==
    /\ uploads' = NewUrl
    /\ files' = files \cup {NewUrl}
    /\ Goto(s, r)

SubmitUpload(s) ==
    /\ At(s, "upload")
    /\ LET rep == req[s].rep
       IN  Upload(s, [op |-> "submit", pc |-> IF rep = 0 THEN "create_row" ELSE "replace_find",
                      rep |-> rep, url |-> NewUrl])
    /\ UNCHANGED <<docs, badge, avatar, decidedOn>>

\* The document to replace loses its old file first.
ReplaceFind(s) ==
    /\ At(s, "replace_find")
    /\ LET r == req[s]
       IN  IF r.rep \in DOMAIN docs
           THEN /\ files' = files \ {docs[r.rep]}
                /\ Goto(s, [r EXCEPT !.pc = "replace_row"])
           ELSE /\ Goto(s, [r EXCEPT !.pc = "create_row"])
                /\ UNCHANGED files
    /\ UNCHANGED <<docs, badge, avatar, uploads, decidedOn>>

ReplaceRow_TypeOnly(s) ==
    /\ At(s, "replace_row")
    /\ Goto(s, [req[s] EXCEPT !.pc = "count"])
    /\ UNCHANGED verificationData
\* The update throws when the row is gone by now.
ReplaceRow(s) ==
    /\ At(s, "replace_row")
    /\ IF req[s].rep \in DOMAIN docs
       THEN /\ docs' = With(req[s].rep, req[s].url)
            /\ Goto(s, [req[s] EXCEPT !.pc = "count"])
       ELSE Finish(s) /\ UNCHANGED docs
    /\ UNCHANGED <<badge, avatar, files, uploads, decidedOn>>

CreateRow(s) ==
    /\ At(s, "create_row")
    /\ docs' = With(req[s].url, req[s].url)
    /\ Goto(s, [req[s] EXCEPT !.pc = "count"])
    /\ UNCHANGED <<badge, avatar, files, uploads, decidedOn>>

BadgeFor(remaining) == IF remaining = {} THEN "NOT_SUBMITTED" ELSE "IN_REVIEW"

CountDocuments(s) ==
    /\ At(s, "count")
    /\ Goto(s, [op |-> "submit", pc |-> "badge", to |-> BadgeFor(DOMAIN docs)])
    /\ UNCHANGED verificationData

SubmitForReview_KeepsBadge(s) ==
    /\ At(s, "badge")
    /\ badge' = IF badge = "VERIFIED" THEN badge ELSE req[s].to
    /\ Finish(s)
    /\ UNCHANGED <<docs, avatar, files, uploads, decidedOn>>
SubmitForReview(s) ==
    /\ At(s, "badge")
    /\ badge' = req[s].to
    /\ Finish(s)
    /\ UNCHANGED <<docs, avatar, files, uploads, decidedOn>>

-----------------------------------------------------------------------------
\* updateHelperStatus looks at neither the status nor the documents.
UpdateHelperStatus(to) ==
    /\ badge' = to
    /\ decidedOn' = docs
    /\ AtOnce("decide")
    /\ UNCHANGED <<docs, avatar, files, uploads>>

-----------------------------------------------------------------------------
(* updateProfile with a new avatar: upload, write, then delete the old file *)

ProfileRead(s) ==
    /\ Begin(s, [op |-> "profile", pc |-> "profile_upload", old |-> avatar])
    /\ UNCHANGED verificationData

ProfileUpload(s) ==
    /\ At(s, "profile_upload")
    /\ Upload(s, [op |-> "profile", pc |-> "profile_write", old |-> req[s].old,
                  url |-> NewUrl])
    /\ UNCHANGED <<docs, badge, avatar, decidedOn>>

UpdateProfile(s) ==
    /\ At(s, "profile_write")
    /\ avatar' = req[s].url
    /\ Goto(s, [op |-> "profile", pc |-> "profile_clean", old |-> req[s].old])
    /\ UNCHANGED <<docs, badge, files, uploads, decidedOn>>

OldAvatar_Current(s) == avatar
OldAvatar(s) == req[s].old

ProfileClean(s) ==
    /\ At(s, "profile_clean")
    /\ files' = files \ {OldAvatar(s)}
    /\ Finish(s)
    /\ UNCHANGED <<docs, badge, avatar, uploads, decidedOn>>

-----------------------------------------------------------------------------
(* socialLogin of this user: the avatar read, or the picture if there is none, *)
(* is written back.                                                            *)

SocialRead(s) ==
    /\ \E picture \in {None, Picture} :
         Begin(s, [op |-> "social", pc |-> "social_write",
                   old |-> IF avatar = None THEN picture ELSE avatar])
    /\ UNCHANGED verificationData

SocialLogin(s) ==
    /\ At(s, "social_write")
    /\ avatar' = req[s].old
    /\ Finish(s)
    /\ UNCHANGED <<docs, badge, files, uploads, decidedOn>>

-----------------------------------------------------------------------------
VerificationAbandon(s) == Stops(s) /\ UNCHANGED verificationData

VerificationStep(s) ==
    \/ DeleteFind(s) \/ DeleteRow(s) \/ SubmitUpload(s)
    \/ ReplaceFind(s) \/ ReplaceRow(s) \/ CreateRow(s)
    \/ CountDocuments(s) \/ SubmitForReview(s)
    \/ ProfileUpload(s) \/ UpdateProfile(s) \/ ProfileClean(s)
    \/ SocialLogin(s)

VerificationRequest(s) ==
    \/ \E del, rep \in DOMAIN docs \cup {0}, file \in BOOLEAN : SubmitRead(s, del, file, rep)
    \/ ProfileRead(s)
    \/ SocialRead(s)

VerificationNext ==
    \/ \E s \in Slots :
         VerificationRequest(s) \/ VerificationStep(s) \/ VerificationAbandon(s)
    \/ \E to \in {"VERIFIED", "REJECTED"} : UpdateHelperStatus(to)

VerificationSpec == VerificationInit /\ HandlersInit /\ [][VerificationNext]_verificationVars

-----------------------------------------------------------------------------
(* Properties *)

Urls == 1 .. uploads

\* Type invariant.
VerificationTypeOK ==
    /\ DOMAIN docs \subseteq Urls /\ \A d \in DOMAIN docs : docs[d] \in Urls
    /\ badge \in Badges
    /\ avatar \in Urls \cup {None, Picture}
    /\ files \subseteq Urls

\* "Clean up old avatar if updated successfully": what updateProfile deletes no
\* profile shows any more, so an uploaded avatar that is shown is a file that is
\* still there.
AvatarShown == avatar \in Urls => avatar \in files

\* It is so whatever profile updates and document requests overlap or stop
\* halfway, when no social login reads the avatar that an update is replacing
\* and writes it back.
AvatarLock == {{"profile", "social"}}
AvatarHasFile == Apart(AvatarLock) => AvatarShown

\* When no handler stops halfway and none is under way, every document the
\* reviewer may open is a file that is still there, though two requests may have
\* deleted and replaced the same document at once.
DocumentsHaveFiles ==
    (~failing /\ Quiet) => \A d \in DOMAIN docs : docs[d] \in files

\* When no handler stops halfway and none is under way, a decision stands only
\* over the documents it was made on: any later submission, and any that
\* overlapped it, has taken the helper back into review.
BadgeOnDecidedDocuments ==
    (~failing /\ Quiet /\ badge \in {"VERIFIED", "REJECTED"}) => docs = decidedOn
=============================================================================
