------------------------ MODULE VerificationProofs -------------------------
(***************************************************************************)
(* What Verification guarantees for every number of handlers, overlapping  *)
(* as they may: type correctness; AvatarHasFile wherever they stop, when   *)
(* profile updates and social logins are kept apart; and when none stops   *)
(* DocumentsHaveFiles and BadgeOnDecidedDocuments.                         *)
(* The argument for the files is freshness: the URL a handler is about to  *)
(* show is nobody else's, and what a profile deletes was shown before.     *)
(***************************************************************************)
EXTENDS Verification, TLAPS

\* Where a handler holds a URL nothing else refers to yet, and where it
\* remembers the avatar it has seen.
Holding   == {"replace_find", "replace_row", "create_row", "profile_write"}
Profile   == {"profile_upload", "profile_write", "profile_clean"}
Recalling == Profile \cup {"social_write"}

Avatars(n) == 1 .. n \cup {None, Picture}

Starts  == [op: {"submit"}, pc: {"upload", "delete_find", "delete_row"},
               del: Nat, file: BOOLEAN, rep: Nat]
Submits(n) == [op: {"submit"}, pc: {"replace_find", "replace_row", "create_row"},
               rep: Nat, url: 1 .. n]

\* What a handler stopped at r.pc carries, once n URLs are given out.
Sound(r, n) ==
    /\ r.pc \in {"upload", "delete_find", "delete_row"} => r \in Starts
    /\ r.pc \in {"replace_find", "replace_row", "create_row"} => r \in Submits(n)
    /\ r.pc \in Holding => r.url \in 1 .. n
    /\ r.pc \in Recalling => r.old \in Avatars(n)
    /\ r.pc \in Profile => r.op = "profile"
    /\ r.pc = "social_write" => r.op = "social"
    /\ r.pc = "badge" => r.to \in Badges

Typed == /\ VerificationTypeOK /\ uploads \in Nat
         /\ DOMAIN req = Slots /\ \A s \in Slots : Sound(req[s], uploads)

\* No two handlers hold the same URL, and none of those held is the avatar or in
\* anybody's memory.
HeldOnce ==
    /\ \A s, t \in Slots : s # t /\ req[s].pc \in Holding /\ req[t].pc \in Holding
                              => req[s].url # req[t].url
    /\ \A s \in Slots : req[s].pc \in Holding => req[s].url # avatar
    /\ \A s, t \in Slots : req[s].pc \in Holding /\ req[t].pc \in Recalling
                              => req[t].old # req[s].url

\* The URL a profile is about to show is stored and no document's.
NextAvatar ==
    \A s \in Slots : req[s].pc = "profile_write" =>
        /\ req[s].url \in files
        /\ \A d \in DOMAIN docs : docs[d] # req[s].url

\* No document's file is the avatar or in anybody's memory.
AvatarSpared ==
    /\ \A d \in DOMAIN docs : docs[d] # avatar
    /\ \A d \in DOMAIN docs, s \in Slots : req[s].pc \in Recalling => req[s].old # docs[d]

\* With the lock, no profile update runs beside a social login, ...
Separate ==
    \A s, t \in Slots : req[s].pc \in Profile => req[t].pc # "social_write"

\* ... which then writes back the avatar there is, or exchanges none for the
\* provider's picture, ...
SocialSame ==
    \A s \in Slots : req[s].pc = "social_write" =>
        \/ req[s].old = avatar
        \/ {req[s].old, avatar} \subseteq {None, Picture}

\* ... and a profile does not delete the avatar.
CleanSpared ==
    \A s \in Slots : req[s].pc = "profile_clean" /\ avatar \in Urls => req[s].old # avatar

Locked == Separate /\ SocialSame /\ CleanSpared /\ AvatarShown

Inv == /\ Typed /\ HeldOnce /\ NextAvatar /\ AvatarSpared
       /\ Apart(AvatarLock) => Locked

-----------------------------------------------------------------------------
(* Lemmas *)

LEMMA IdleSound == ASSUME NEW n PROVE Sound(Idle, n)
BY DEF Sound, Idle, Holding, Recalling, Profile

LEMMA UrlsArePictures == ASSUME NEW n \in Nat, NEW u \in 1 .. n PROVE u \notin {None, Picture}
BY VerificationAssumption DEF Picture

LEMMA InitInv == VerificationInit /\ HandlersInit => Inv
<1> SUFFICES ASSUME VerificationInit, HandlersInit PROVE Inv
  OBVIOUS
<1>1. \A s \in Slots : req[s] = Idle /\ Idle.pc \notin Holding \cup Recalling
  BY DEF HandlersInit, Idle, Holding, Recalling, Profile
<1>2. Typed
  BY <1>1, IdleSound
     DEF VerificationInit, HandlersInit, Typed, VerificationTypeOK, Urls, Badges
<1>3. HeldOnce /\ NextAvatar /\ AvatarSpared
  BY <1>1 DEF VerificationInit, HeldOnce, NextAvatar, AvatarSpared, Holding
<1>4. Locked
  BY <1>1 DEF VerificationInit, Locked, Separate, SocialSame, CleanSpared, AvatarShown, Urls,
              Recalling, Profile
<1> QED BY <1>2, <1>3, <1>4 DEF Inv

LEMMA SoundStable ==
    ASSUME NEW n \in Nat, NEW r, Sound(r, n) PROVE Sound(r, n + 1)
BY DEF Sound, Starts, Submits, Avatars

\* A handler that goes on as r has no more to say than the one it was, o.
Less(r, o) ==
    /\ r.pc \in Holding => o.pc \in Holding /\ r.url = o.url
    /\ r.pc \in Recalling => r.pc = o.pc /\ r.old = o.old
    /\ r.pc = "profile_write" => o.pc = "profile_write"

\* Documents may go, and with them their files, but nothing is added.
Dwindles ==
    /\ UNCHANGED <<avatar, uploads, apart>>
    /\ badge' \in Badges
    /\ \A d \in DOMAIN docs' : d \in DOMAIN docs /\ docs'[d] = docs[d]
    /\ files' \subseteq files
    /\ \A f \in files : f \notin files' => \E d \in DOMAIN docs : f = docs[d]

LEMMA LessKeeps ==
    ASSUME Inv, Dwindles, NEW s \in Slots, NEW r, req' = [req EXCEPT ![s] = r],
           Less(r, req[s]), Sound(r, uploads)
    PROVE  Inv'
<1>1. Typed'
  BY DEF Inv, Typed, VerificationTypeOK, Urls, Dwindles
<1>2. HeldOnce'
  BY DEF Inv, Typed, HeldOnce, Dwindles, Less
<1>3. NextAvatar'
  BY DEF Inv, Typed, NextAvatar, Dwindles, Less, Holding
<1>4. AvatarSpared'
  BY DEF Inv, Typed, AvatarSpared, Dwindles, Less
<1>5. ASSUME Apart(AvatarLock)' PROVE Locked'
  <2>1. Locked
    BY <1>5 DEF Inv, Apart, Dwindles
  <2>2. \A t \in Slots : req'[t] = IF t = s THEN r ELSE req[t]
    BY DEF Inv, Typed
  <2>3. r.pc \in Recalling => r.pc = req[s].pc /\ r.old = req[s].old
    BY DEF Less
  <2>4. Separate' /\ SocialSame' /\ CleanSpared'
    BY <2>1, <2>2, <2>3
       DEF Locked, Separate, SocialSame, CleanSpared, Dwindles, Urls, Recalling, Profile
  <2>5. AvatarShown'
    BY <2>1 DEF Inv, AvatarSpared, Locked, AvatarShown, Dwindles, Urls
  <2> QED BY <2>4, <2>5 DEF Locked
<1> QED BY <1>1, <1>2, <1>3, <1>4, <1>5 DEF Inv

LEMMA NothingKeeps ==
    ASSUME Inv, UNCHANGED <<docs, avatar, files, uploads, req, apart>>, badge' \in Badges
    PROVE  Inv'
BY DEF Inv, Typed, VerificationTypeOK, Urls, HeldOnce, NextAvatar, AvatarSpared, Apart,
       Locked, Separate, SocialSame, CleanSpared, AvatarShown

\* A handler that stores a file holds a URL nobody knows.
LEMMA UploadKeeps ==
    ASSUME Inv, NEW s \in Slots, NEW r, Upload(s, r), UNCHANGED <<docs, badge, avatar>>,
           r.pc \in Holding, r.url = NewUrl, Sound(r, NewUrl),
           r.pc = "profile_write" => req[s].pc = "profile_upload" /\ r.old = req[s].old
    PROVE  Inv'
<1>1. /\ req' = [req EXCEPT ![s] = r] /\ uploads' = uploads + 1 /\ UNCHANGED apart
      /\ files' = files \cup {uploads + 1} /\ r.url = uploads + 1
  BY DEF Upload, Goto, NewUrl
<1>2. uploads \in Nat /\ \A t \in Slots : Sound(req[t], uploads) /\ Sound(req[t], uploads + 1)
  BY SoundStable DEF Inv, Typed
<1>3. Typed'
  BY <1>1, <1>2 DEF Inv, Typed, VerificationTypeOK, Urls, NewUrl
<1>4. uploads + 1 \notin Avatars(uploads)
  BY <1>2, UrlsArePictures DEF Avatars
<1>5. avatar \in Avatars(uploads)
  BY DEF Inv, Typed, VerificationTypeOK, Urls, Avatars
<1>6. \A t \in Slots : req[t].pc \in Recalling => req[t].old # uploads + 1
  BY <1>2, <1>4 DEF Sound
<1>7. r.pc \in Recalling => /\ r.pc = "profile_write" /\ r.old = req[s].old
                            /\ req[s].pc = "profile_upload"
  BY DEF Recalling, Profile, Holding
<1>8. \A t \in Slots : req'[t] = IF t = s THEN r ELSE req[t]
  BY <1>1 DEF Inv, Typed
<1>9. HeldOnce'
  <2>1. \A t \in Slots : req[t].pc \in Holding => req[t].url # uploads + 1
    BY <1>2 DEF Sound
  <2>2. avatar # uploads + 1
    BY <1>4, <1>5
  <2>3. req[s].pc = "profile_upload" => req[s].pc \in Recalling
    BY DEF Recalling, Profile
  <2> QED BY <1>1, <1>6, <1>7, <1>8, <2>1, <2>2, <2>3 DEF Inv, HeldOnce
<1>10. \A d \in DOMAIN docs : docs[d] # uploads + 1
  BY <1>2 DEF Inv, Typed, VerificationTypeOK, Urls
<1>11. NextAvatar'
  BY <1>1, <1>8, <1>10 DEF Inv, NextAvatar
<1>12. AvatarSpared'
  <2>1. req[s].pc = "profile_upload" => req[s].pc \in Recalling
    BY DEF Recalling, Profile
  <2> QED BY <1>7, <1>8, <2>1 DEF Inv, AvatarSpared
<1>13. ASSUME Apart(AvatarLock)' PROVE Locked'
  <2>1. Locked
    BY <1>1, <1>13 DEF Inv, Apart
  <2>2. avatar \in Urls' => avatar \in Urls
    BY <1>1, <1>2, <1>4, <1>5, UrlsArePictures DEF Urls, Avatars
  <2>3. r.pc \in Profile => req[s].pc \in Profile
    BY <1>7 DEF Recalling, Profile
  <2>4. r.pc \notin {"social_write", "profile_clean"}
    BY DEF Holding
  <2>5. Separate' /\ SocialSame' /\ CleanSpared'
    BY <1>8, <2>1, <2>2, <2>3, <2>4 DEF Locked, Separate, SocialSame, CleanSpared
  <2>6. AvatarShown'
    BY <1>1, <2>1, <2>2 DEF Locked, AvatarShown
  <2> QED BY <2>5, <2>6 DEF Locked
<1> QED BY <1>3, <1>9, <1>11, <1>12, <1>13 DEF Inv

\* A document takes the URL its handler held.
LEMMA RowKeeps ==
    ASSUME Inv, NEW s \in Slots, NEW r, NEW d \in 1 .. uploads, req[s].pc \in {"replace_row", "create_row"},
           docs' = With(d, req[s].url), req' = [req EXCEPT ![s] = r], r.pc = "count",
           UNCHANGED <<badge, avatar, files, uploads, apart>>
    PROVE  Inv'
<1> DEFINE url == req[s].url
<1>1. url \in 1 .. uploads /\ req[s].pc \in Holding
  BY DEF Inv, Typed, Sound, Holding
<1>2. Sound(r, uploads) /\ r.pc \notin Holding \cup Recalling
  BY DEF Sound, Holding, Recalling, Profile
<1>3. \A x \in DOMAIN docs' : docs'[x] = url \/ (x \in DOMAIN docs /\ docs'[x] = docs[x])
  BY DEF With
<1>4. DOMAIN docs' \subseteq DOMAIN docs \cup {d}
  BY DEF With
<1> HIDE DEF url
<1>5. Typed'
  BY <1>1, <1>2, <1>3, <1>4 DEF Inv, Typed, VerificationTypeOK, Urls
<1>6. HeldOnce'
  BY <1>2 DEF Inv, Typed, HeldOnce
<1>7. \A t \in Slots : req[t].pc = "profile_write" => req[t].url # url
  BY <1>1 DEF url, Inv, HeldOnce, Holding
<1>8. NextAvatar'
  BY <1>3, <1>7 DEF Inv, Typed, NextAvatar
<1>9. AvatarSpared'
  <2>1. url # avatar /\ \A t \in Slots : req[t].pc \in Recalling => req[t].old # url
    BY <1>1 DEF url, Inv, HeldOnce
  <2> QED BY <1>2, <1>3, <2>1 DEF Inv, Typed, AvatarSpared
<1>10. Apart(AvatarLock)' => Locked'
  BY DEF Inv, Typed, Apart, Locked, Separate, SocialSame, CleanSpared, AvatarShown, Urls, Profile
<1> QED BY <1>5, <1>6, <1>8, <1>9, <1>10 DEF Inv

-----------------------------------------------------------------------------
(* The steps *)

LEMMA SoundAt == ASSUME Inv, NEW s \in Slots PROVE Sound(req[s], uploads)
BY DEF Inv, Typed

LEMMA Still ==
    ASSUME Inv, UNCHANGED <<docs, avatar, files, uploads, apart>>, badge' \in Badges
    PROVE  Dwindles
BY DEF Dwindles

\* Whoever begins to remember the avatar remembers the one there is, or one of
\* no file.
LEMMA RecallKeeps ==
    ASSUME Inv, NEW s \in Slots, NEW r, Begin(s, r),
           UNCHANGED <<docs, badge, avatar, files, uploads>>,
           <<r.op, r.pc>> \in {<<"profile", "profile_upload">>, <<"social", "social_write">>},
           r.old = avatar \/ {r.old, avatar} \subseteq {None, Picture}
    PROVE  Inv'
<1>1. /\ req' = [req EXCEPT ![s] = r] /\ UNCHANGED apart
      /\ r.pc \notin Holding /\ r.pc \in Recalling /\ r.pc # "profile_clean"
  BY DEF Begin, Arrives, Holding, Recalling, Profile
<1>2. \A t \in Slots : req'[t] = IF t = s THEN r ELSE req[t]
  BY <1>1 DEF Inv, Typed
<1>3. uploads \in Nat /\ avatar \in Avatars(uploads) /\ r.old \in Avatars(uploads)
  BY DEF Inv, Typed, VerificationTypeOK, Urls, Avatars
<1>4. Typed'
  <2>1. Sound(r, uploads)
    BY <1>1, <1>3 DEF Sound, Profile
  <2> QED BY <1>1, <2>1 DEF Inv, Typed, VerificationTypeOK, Urls
<1>5. \A u \in 1 .. uploads : u # avatar => u # r.old
  BY <1>3, UrlsArePictures
<1>6. HeldOnce'
  <2>1. \A t \in Slots : req[t].pc \in Holding => req[t].url \in 1 .. uploads
    BY DEF Inv, Typed, Sound
  <2> QED BY <1>1, <1>2, <1>5, <2>1 DEF Inv, HeldOnce
<1>7. NextAvatar'
  BY <1>1, <1>2 DEF Inv, NextAvatar, Holding
<1>8. AvatarSpared'
  <2>1. \A d \in DOMAIN docs : docs[d] \in 1 .. uploads
    BY DEF Inv, Typed, VerificationTypeOK, Urls
  <2> QED BY <1>1, <1>2, <1>5, <2>1 DEF Inv, AvatarSpared
<1>9. ASSUME Apart(AvatarLock)' PROVE Locked'
  <2>1. Locked /\ AvatarLock \subseteq apart
    BY <1>1, <1>9 DEF Inv, Apart
  <2>2. \A t \in Slots : {req[t].op, r.op} # {"profile", "social"}
    BY <2>1 DEF Begin, Arrives, MayRun, AvatarLock
  <2>3. \A t \in Slots : /\ r.op = "profile" => req[t].pc # "social_write"
                         /\ r.op = "social" => req[t].pc \notin Profile
    BY <2>2 DEF Inv, Typed, Sound
  <2>4. Separate'
    BY <1>2, <2>1, <2>3 DEF Locked, Separate, Profile
  <2>5. SocialSame' /\ CleanSpared' /\ AvatarShown'
    BY <1>1, <1>2, <2>1 DEF Locked, SocialSame, CleanSpared, AvatarShown, Urls
  <2> QED BY <2>4, <2>5 DEF Locked
<1> QED BY <1>4, <1>6, <1>7, <1>8, <1>9 DEF Inv

\* A request begins with nothing, or with the avatar it saw.
LEMMA Requests == ASSUME Inv, NEW s \in Slots, VerificationRequest(s) PROVE Inv'
<1>1. ASSUME NEW del \in DOMAIN docs \cup {0}, NEW rep \in DOMAIN docs \cup {0},
             NEW file \in BOOLEAN, SubmitRead(s, del, file, rep)
      PROVE  Inv'
  <2> DEFINE r == [op |-> "submit", pc |-> IF del = 0 THEN "upload" ELSE "delete_find",
                   del |-> del, file |-> file, rep |-> rep]
  <2>1. req' = [req EXCEPT ![s] = r] /\ UNCHANGED <<docs, badge, avatar, files, uploads, apart>>
    BY <1>1 DEF SubmitRead, Begin, Arrives, verificationData
  <2>2. del \in Nat /\ rep \in Nat
    BY DEF Inv, Typed, VerificationTypeOK, Urls
  <2>3. Sound(r, uploads) /\ Less(r, req[s])
    BY <2>2 DEF Sound, Less, Starts, Holding, Recalling, Profile
  <2>4. Dwindles
    BY <2>1, Still DEF Inv, Typed, VerificationTypeOK
  <2> QED BY <2>1, <2>3, <2>4, LessKeeps
<1>2. CASE ProfileRead(s)
  BY <1>2, RecallKeeps DEF ProfileRead, verificationData
<1>3. ASSUME NEW picture \in {None, Picture},
             Begin(s, [op |-> "social", pc |-> "social_write",
                       old |-> IF avatar = None THEN picture ELSE avatar]),
             UNCHANGED verificationData
      PROVE  Inv'
  BY <1>3, RecallKeeps DEF verificationData
<1> QED BY <1>1, <1>2, <1>3 DEF VerificationRequest, SocialRead

\* A handler stops, or does nothing but count or set the badge.
LEMMA Finishing ==
    ASSUME Inv, Dwindles, NEW s \in Slots, Finish(s) PROVE Inv'
<1>1. Sound(Idle, uploads) /\ Less(Idle, req[s])
  BY IdleSound DEF Less, Idle, Holding, Recalling, Profile
<1> QED BY <1>1, LessKeeps DEF Finish, Goto

LEMMA DeleteSteps ==
    ASSUME Inv, NEW s \in Slots, DeleteFind(s) \/ DeleteRow(s) PROVE Inv'
<1>1. req[s] \in Starts
  BY SoundAt DEF DeleteFind, DeleteRow, At, Sound
<1> DEFINE After(pc) == [req[s] EXCEPT !.pc = pc]
<1>2. ASSUME NEW pc \in {"upload", "count", "delete_row"}
      PROVE  Sound(After(pc), uploads) /\ Less(After(pc), req[s])
  BY <1>1 DEF Sound, Less, Starts, Holding, Recalling, Profile
<1>3. AfterDelete(req[s]) \in {"upload", "count", "delete_row"}
  BY DEF AfterDelete
<1> HIDE DEF After
<1>4. CASE DeleteFind(s)
  <2>1. Dwindles
    BY <1>4 DEF DeleteFind, Goto, Dwindles, Inv, Typed, VerificationTypeOK
  <2>2. \E pc \in {"upload", "count", "delete_row"} : req' = [req EXCEPT ![s] = After(pc)]
    BY <1>3, <1>4 DEF DeleteFind, Goto, After
  <2> QED BY <1>2, <2>1, <2>2, LessKeeps
<1>5. CASE DeleteRow(s)
  <2>1. Dwindles
    BY <1>5 DEF DeleteRow, Goto, Finish, Without, Dwindles, Inv, Typed, VerificationTypeOK
  <2>2. CASE req[s].del \in DOMAIN docs
    <3>1. req' = [req EXCEPT ![s] = After(AfterDelete(req[s]))]
      BY <1>5, <2>2 DEF DeleteRow, Goto, After
    <3> QED BY <1>2, <1>3, <2>1, <3>1, LessKeeps
  <2>3. CASE req[s].del \notin DOMAIN docs
    BY <1>5, <2>1, <2>3, Finishing DEF DeleteRow
  <2> QED BY <2>2, <2>3
<1> QED BY <1>4, <1>5

LEMMA RowSteps ==
    ASSUME Inv, NEW s \in Slots, ReplaceFind(s) \/ ReplaceRow(s) \/ CreateRow(s) PROVE Inv'
<1>1. req[s] \in Submits(uploads)
  BY SoundAt DEF ReplaceFind, ReplaceRow, CreateRow, At, Sound
<1> DEFINE After(pc) == [req[s] EXCEPT !.pc = pc]
<1>2. ASSUME NEW pc \in {"replace_row", "create_row"}, req[s].pc = "replace_find"
      PROVE  Sound(After(pc), uploads) /\ Less(After(pc), req[s])
  BY <1>1, <1>2 DEF Sound, Less, Submits, Holding, Recalling, Profile
<1>3. After("count").pc = "count"
  BY <1>1 DEF Submits
<1> HIDE DEF After
<1>4. CASE ReplaceFind(s)
  <2>1. Dwindles
    BY <1>4 DEF ReplaceFind, Goto, Dwindles, Inv, Typed, VerificationTypeOK
  <2>2. \E pc \in {"replace_row", "create_row"} : req' = [req EXCEPT ![s] = After(pc)]
    BY <1>4 DEF ReplaceFind, Goto, After
  <2>3. req[s].pc = "replace_find"
    BY <1>4 DEF ReplaceFind, At
  <2> QED BY <1>2, <2>1, <2>2, <2>3, LessKeeps
<1>5. CASE ReplaceRow(s)
  <2>1. CASE req[s].rep \in DOMAIN docs
    <3>1. /\ req' = [req EXCEPT ![s] = After("count")] /\ req[s].pc = "replace_row"
          /\ docs' = With(req[s].rep, req[s].url)
          /\ UNCHANGED <<badge, avatar, files, uploads, apart>>
      BY <1>5, <2>1 DEF ReplaceRow, Goto, At, After
    <3>2. req[s].rep \in 1 .. uploads
      BY <2>1 DEF Inv, Typed, VerificationTypeOK, Urls
    <3> QED BY <1>3, <3>1, <3>2, RowKeeps
  <2>2. CASE req[s].rep \notin DOMAIN docs
    <3>1. Finish(s) /\ UNCHANGED <<docs, badge, avatar, files, uploads, apart>>
      BY <1>5, <2>2 DEF ReplaceRow, Finish, Goto
    <3>2. Dwindles
      BY <3>1, Still DEF Inv, Typed, VerificationTypeOK
    <3> QED BY <3>1, <3>2, Finishing
  <2> QED BY <2>1, <2>2
<1>6. CASE CreateRow(s)
  <2>1. /\ req' = [req EXCEPT ![s] = After("count")] /\ req[s].pc = "create_row"
        /\ docs' = With(req[s].url, req[s].url)
        /\ UNCHANGED <<badge, avatar, files, uploads, apart>>
    BY <1>6 DEF CreateRow, Goto, At, After
  <2>2. req[s].url \in 1 .. uploads
    BY <1>1 DEF Submits
  <2> QED BY <1>3, <2>1, <2>2, RowKeeps
<1> QED BY <1>4, <1>5, <1>6

LEMMA ReviewSteps ==
    ASSUME Inv, NEW s \in Slots, CountDocuments(s) \/ SubmitForReview(s) PROVE Inv'
<1>1. CASE CountDocuments(s)
  <2> DEFINE r == [op |-> "submit", pc |-> "badge", to |-> BadgeFor(DOMAIN docs)]
  <2>1. req' = [req EXCEPT ![s] = r] /\ UNCHANGED <<docs, badge, avatar, files, uploads, apart>>
    BY <1>1 DEF CountDocuments, Goto, verificationData
  <2>2. Sound(r, uploads) /\ Less(r, req[s])
    BY DEF Sound, Less, Holding, Recalling, Profile, BadgeFor, Badges
  <2>3. Dwindles
    BY <2>1, Still DEF Inv, Typed, VerificationTypeOK
  <2> QED BY <2>1, <2>2, <2>3, LessKeeps
<1>2. CASE SubmitForReview(s)
  <2>1. req[s].to \in Badges
    BY <1>2, SoundAt DEF SubmitForReview, At, Sound
  <2>2. Dwindles
    BY <1>2, <2>1, Still DEF SubmitForReview, Finish, Goto
  <2> QED BY <1>2, <2>2, Finishing DEF SubmitForReview
<1> QED BY <1>1, <1>2

LEMMA UploadSteps ==
    ASSUME Inv, NEW s \in Slots, SubmitUpload(s) \/ ProfileUpload(s) PROVE Inv'
<1>1. NewUrl \in 1 .. NewUrl /\ uploads \in Nat /\ NewUrl = uploads + 1
  BY DEF NewUrl, Inv, Typed
<1>2. CASE SubmitUpload(s)
  <2> DEFINE r == [op |-> "submit",
                   pc |-> IF req[s].rep = 0 THEN "create_row" ELSE "replace_find",
                   rep |-> req[s].rep, url |-> NewUrl]
  <2>1. Upload(s, r) /\ UNCHANGED <<docs, badge, avatar>> /\ req[s].rep \in Nat
    BY <1>2, SoundAt DEF SubmitUpload, At, Sound, Starts
  <2>2. r.pc \in Holding /\ r.url = NewUrl /\ r.pc # "profile_write" /\ Sound(r, NewUrl)
    BY <1>1, <2>1 DEF Holding, Recalling, Profile, Sound, Submits
  <2> HIDE DEF r
  <2> QED BY <2>1, <2>2, UploadKeeps
<1>3. CASE ProfileUpload(s)
  <2> DEFINE r == [op |-> "profile", pc |-> "profile_write", old |-> req[s].old, url |-> NewUrl]
  <2>1. /\ Upload(s, r) /\ UNCHANGED <<docs, badge, avatar>>
        /\ req[s].pc = "profile_upload" /\ req[s].old \in Avatars(uploads)
    BY <1>3, SoundAt DEF ProfileUpload, At, Sound, Recalling, Profile
  <2>2. r.pc = "profile_write" /\ r.op = "profile" /\ r.url = NewUrl /\ r.old = req[s].old
    OBVIOUS
  <2> HIDE DEF r
  <2>3. r.pc \in Holding /\ Sound(r, NewUrl)
    BY <1>1, <2>1, <2>2 DEF Holding, Recalling, Profile, Sound, Avatars
  <2> QED BY <2>1, <2>2, <2>3, UploadKeeps
<1> QED BY <1>2, <1>3

LEMMA ProfileSteps ==
    ASSUME Inv, NEW s \in Slots, UpdateProfile(s) \/ ProfileClean(s) PROVE Inv'
<1>1. CASE UpdateProfile(s)
  <2> DEFINE r == [op |-> "profile", pc |-> "profile_clean", old |-> req[s].old]
  <2>1. /\ req' = [req EXCEPT ![s] = r] /\ avatar' = req[s].url /\ req[s].pc = "profile_write"
        /\ UNCHANGED <<docs, badge, files, uploads, apart>>
    BY <1>1 DEF UpdateProfile, Goto, At
  <2>2. /\ req[s].pc \in Holding /\ req[s].pc \in Profile /\ req[s].pc \in Recalling
        /\ req[s].url \in 1 .. uploads /\ req[s].old \in Avatars(uploads)
    BY <2>1, SoundAt DEF Sound, Holding, Recalling, Profile
  <2>3. /\ r.pc = "profile_clean" /\ r.old = req[s].old /\ r.op = "profile"
    OBVIOUS
  <2> HIDE DEF r
  <2>4. /\ Sound(r, uploads) /\ r.pc \notin Holding /\ r.pc \in Profile
        /\ \A t \in Slots : req'[t] = IF t = s THEN r ELSE req[t]
    BY <2>1, <2>2, <2>3 DEF Sound, Holding, Recalling, Profile, Inv, Typed
  <2>5. Typed'
    BY <2>1, <2>2, <2>4 DEF Inv, Typed, VerificationTypeOK, Urls
  <2>6. HeldOnce'
    BY <2>1, <2>2, <2>3, <2>4 DEF Inv, HeldOnce
  <2>7. NextAvatar'
    BY <2>1, <2>3, <2>4 DEF Inv, NextAvatar
  <2>8. AvatarSpared'
    BY <2>1, <2>2, <2>3, <2>4 DEF Inv, NextAvatar, AvatarSpared
  <2>9. ASSUME Apart(AvatarLock)' PROVE Locked'
    <3>1. Locked
      BY <2>1, <1>1, <2>9 DEF Inv, Apart
    <3>2. Separate'
      BY <2>2, <2>3, <2>4, <3>1 DEF Locked, Separate
    <3>3. SocialSame'
      BY <2>4, <3>2 DEF Separate, SocialSame
    <3>4. CleanSpared'
      <4>1. \A t \in Slots : req[t].pc = "profile_clean" => req[t].old # req[s].url
        BY <2>2 DEF Inv, HeldOnce, Recalling, Profile
      <4>2. req[s].old # req[s].url
        BY <2>2 DEF Inv, HeldOnce
      <4> QED BY <2>1, <2>3, <2>4, <4>1, <4>2 DEF CleanSpared
    <3>5. AvatarShown'
      BY <2>1 DEF Inv, NextAvatar, AvatarShown
    <3> QED BY <3>2, <3>3, <3>4, <3>5 DEF Locked
  <2> QED BY <2>5, <2>6, <2>7, <2>8, <2>9 DEF Inv
<1>2. CASE ProfileClean(s)
  <2>1. /\ req' = [req EXCEPT ![s] = Idle] /\ files' = files \ {req[s].old}
        /\ req[s].pc = "profile_clean" /\ UNCHANGED <<docs, badge, avatar, uploads, apart>>
    BY <1>2 DEF ProfileClean, OldAvatar, Finish, Goto, At
  <2>2. /\ Idle.pc \notin Holding \cup Recalling /\ Sound(Idle, uploads)
        /\ \A t \in Slots : req'[t] = IF t = s THEN Idle ELSE req[t]
    BY <2>1, IdleSound DEF Idle, Holding, Recalling, Profile, Inv, Typed
  <2>3. Typed'
    BY <2>1, <2>2 DEF Inv, Typed, VerificationTypeOK, Urls
  <2>4. HeldOnce'
    BY <2>1, <2>2 DEF Inv, HeldOnce
  <2>5. NextAvatar'
    <3>1. \A t \in Slots : req[t].pc = "profile_write" => req[t].url # req[s].old
      BY <2>1 DEF Inv, HeldOnce, Recalling, Profile, Holding
    <3> QED BY <2>1, <2>2, <3>1 DEF Inv, NextAvatar, Holding
  <2>6. AvatarSpared'
    BY <2>1, <2>2 DEF Inv, AvatarSpared
  <2>7. ASSUME Apart(AvatarLock)' PROVE Locked'
    <3>1. Locked
      BY <2>1, <2>7 DEF Inv, Apart
    <3>2. Separate' /\ SocialSame' /\ CleanSpared'
      BY <2>1, <2>2, <3>1
         DEF Locked, Separate, SocialSame, CleanSpared, Urls, Recalling, Profile
    <3>3. AvatarShown'
      BY <2>1, <3>1 DEF Locked, CleanSpared, AvatarShown, Urls
    <3> QED BY <3>2, <3>3 DEF Locked
  <2> QED BY <2>3, <2>4, <2>5, <2>6, <2>7 DEF Inv
<1> QED BY <1>1, <1>2

LEMMA SocialSteps == ASSUME Inv, NEW s \in Slots, SocialLogin(s) PROVE Inv'
<1>1. /\ req' = [req EXCEPT ![s] = Idle] /\ avatar' = req[s].old
      /\ req[s].pc = "social_write" /\ req[s].pc \in Recalling
      /\ UNCHANGED <<docs, badge, files, uploads, apart>>
  BY DEF SocialLogin, Finish, Goto, At, Recalling
<1>2. /\ Idle.pc \notin Holding \cup Recalling /\ Sound(Idle, uploads)
      /\ \A t \in Slots : req'[t] = IF t = s THEN Idle ELSE req[t]
  BY <1>1, IdleSound DEF Idle, Holding, Recalling, Profile, Inv, Typed
<1>3. Typed'
  <2>1. req[s].old \in Avatars(uploads)
    BY <1>1, SoundAt DEF Sound
  <2> QED BY <1>1, <1>2, <2>1 DEF Inv, Typed, VerificationTypeOK, Urls, Avatars
<1>4. HeldOnce'
  BY <1>1, <1>2 DEF Inv, HeldOnce
<1>5. NextAvatar'
  BY <1>1, <1>2 DEF Inv, NextAvatar, Holding
<1>6. AvatarSpared'
  BY <1>1, <1>2 DEF Inv, AvatarSpared
<1>7. ASSUME Apart(AvatarLock)' PROVE Locked'
  <2>1. Locked /\ \A t \in Slots : req[t].pc \notin Profile
    BY <1>1, <1>7 DEF Inv, Apart, Locked, Separate
  <2>2. avatar' = avatar \/ {avatar', avatar} \subseteq {None, Picture}
    BY <1>1, <2>1 DEF Locked, SocialSame
  <2>3. Separate' /\ CleanSpared'
    BY <1>2, <2>1 DEF Separate, CleanSpared, Recalling, Profile
  <2>4. SocialSame'
    BY <1>2, <2>1, <2>2 DEF Locked, SocialSame, Recalling
  <2>5. AvatarShown'
    <3>1. uploads \in Nat
      BY DEF Inv, Typed
    <3> QED BY <1>1, <2>1, <2>2, <3>1, UrlsArePictures DEF Locked, AvatarShown, Urls
  <2> QED BY <2>3, <2>4, <2>5 DEF Locked
<1> QED BY <1>3, <1>4, <1>5, <1>6, <1>7 DEF Inv

LEMMA NextInv == Inv /\ [VerificationNext]_verificationVars => Inv'
<1> SUFFICES ASSUME Inv, [VerificationNext]_verificationVars PROVE Inv'
  OBVIOUS
<1>1. badge \in Badges /\ {"VERIFIED", "REJECTED"} \subseteq Badges
  BY DEF Inv, Typed, VerificationTypeOK, Badges
<1>2. ASSUME NEW s \in Slots, VerificationStep(s) PROVE Inv'
  BY <1>2, DeleteSteps, UploadSteps, RowSteps, ReviewSteps, ProfileSteps, SocialSteps
     DEF VerificationStep
<1>3. ASSUME NEW s \in Slots, VerificationAbandon(s) PROVE Inv'
  <2>1. Dwindles
    BY <1>1, <1>3, Still DEF VerificationAbandon, Stops, Finish, Goto, verificationData
  <2> QED BY <1>3, <2>1, Finishing DEF VerificationAbandon, Stops
<1>4. ASSUME NEW to \in {"VERIFIED", "REJECTED"}, UpdateHelperStatus(to) PROVE Inv'
  BY <1>1, <1>4, NothingKeeps DEF UpdateHelperStatus, AtOnce, Arrives
<1>5. CASE UNCHANGED verificationVars
  BY <1>1, <1>5, NothingKeeps DEF verificationVars, verificationData, handlers
<1> QED BY <1>2, <1>3, <1>4, <1>5, Requests DEF VerificationNext

-----------------------------------------------------------------------------
(* Theorems *)

\* The invariant that carries the properties: the URL that a handler is about to
\* show is held by nobody else; with profile updates and social logins apart,
\* what is deleted is not shown.
THEOREM VerificationInvariant == VerificationSpec => []Inv
BY InitInv, NextInv, PTL DEF VerificationSpec

\* Type correctness: documents, avatar and files are URLs that were given out.
THEOREM TypeCorrect == VerificationSpec => []VerificationTypeOK
<1>1. Inv => VerificationTypeOK
  BY DEF Inv, Typed
<1> QED BY <1>1, VerificationInvariant, PTL

\* However profile updates and document submissions overlap, and wherever they
\* stop, an uploaded avatar that is shown is a file that is still there, when no
\* social login overlaps a profile update.
THEOREM AvatarHasFileAlways == VerificationSpec => []AvatarHasFile
<1>1. Inv => AvatarHasFile
  BY DEF Inv, Locked, AvatarHasFile
<1> QED BY <1>1, VerificationInvariant, PTL
-----------------------------------------------------------------------------
(* DocumentsHaveFiles.  A document loses its file only to a handler that     *)
(* goes on to delete or to replace its row, and URLs are never shared: what  *)
(* one handler deletes is no other document and no held URL.                 *)

\* r deletes or replaces the row of document d next.
Settles(r, d) == \/ r.pc = "delete_row" /\ r.del = d
                 \/ r.pc = "replace_row" /\ r.rep = d

\* A URL that a handler holds is stored and no document's.
Fresh ==
    \A s \in Slots : req[s].pc \in Holding =>
        /\ req[s].url \in files
        /\ \A d \in DOMAIN docs : docs[d] # req[s].url

\* No two documents share a file.
OwnFiles == \A d, e \in DOMAIN docs : docs[d] = docs[e] => d = e

Settled ==
    \A d \in DOMAIN docs : docs[d] \in files \/ \E s \in Slots : Settles(req[s], d)

FileInv == Fresh /\ OwnFiles /\ (~failing => Settled)

LEMMA FileInit == VerificationInit /\ HandlersInit => FileInv
BY DEF VerificationInit, HandlersInit, FileInv, Fresh, OwnFiles, Settled, Idle, Holding

LEMMA SlotsAre ==
    ASSUME Inv, NEW s \in Slots, NEW r, req' = [req EXCEPT ![s] = r]
    PROVE  \A t \in Slots : req'[t] = IF t = s THEN r ELSE req[t]
BY DEF Inv, Typed

\* s goes on as r: it holds nothing new, and settles the documents it has or now
\* takes the file of.
Moves(s, r) ==
    /\ req' = [req EXCEPT ![s] = r]
    /\ UNCHANGED failing
    /\ r.pc \in Holding => req[s].pc \in Holding /\ r.url = req[s].url
    /\ \A d \in DOMAIN docs' : d \in DOMAIN docs /\ docs'[d] = docs[d]
    /\ \A d \in DOMAIN docs' : Settles(req[s], d) => Settles(r, d) \/ failing
    /\ files' \subseteq files
    /\ \A f \in files \ files' :
          \/ req[s].pc \in Recalling /\ f = req[s].old
          \/ \E d \in DOMAIN docs : f = docs[d] /\ (d \in DOMAIN docs' => Settles(r, d))

LEMMA MovesKeep ==
    ASSUME Inv, FileInv, NEW s \in Slots, NEW r, Moves(s, r) PROVE FileInv'
<1>1. \A t \in Slots : req'[t] = IF t = s THEN r ELSE req[t]
  <2>1. req' = [req EXCEPT ![s] = r]
    BY DEF Moves
  <2> QED BY <2>1, SlotsAre
<1>3. ASSUME NEW t \in Slots, req[t].pc \in Holding PROVE req[t].url \in files'
  <2>1. req[t].url \in files
    BY <1>3 DEF FileInv, Fresh
  <2>2. \A d \in DOMAIN docs : docs[d] # req[t].url
    BY <1>3 DEF FileInv, Fresh
  <2>3. req[s].pc \in Recalling => req[s].old # req[t].url
    BY <1>3 DEF Inv, HeldOnce
  <2> QED BY <2>1, <2>2, <2>3 DEF Moves
<1>4. Fresh'
  <2> SUFFICES ASSUME NEW t \in Slots, req'[t].pc \in Holding
               PROVE  /\ req'[t].url \in files'
                      /\ \A d \in DOMAIN docs' : docs'[d] # req'[t].url
    BY DEF Fresh
  <2>1. req[t].pc \in Holding /\ req'[t].url = req[t].url
    BY <1>1 DEF Moves
  <2>2. \A d \in DOMAIN docs' : docs'[d] # req'[t].url
    BY <2>1 DEF Moves, FileInv, Fresh
  <2> QED BY <1>3, <2>1, <2>2
<1>5. OwnFiles'
  BY DEF Moves, FileInv, OwnFiles
<1>6. ASSUME ~failing' PROVE Settled'
  <2> SUFFICES ASSUME NEW d \in DOMAIN docs', docs'[d] \notin files'
               PROVE  \E t \in Slots : Settles(req'[t], d)
    BY DEF Settled
  <2>1. d \in DOMAIN docs /\ docs'[d] = docs[d] /\ ~failing
    BY <1>6 DEF Moves
  <2>2. CASE docs[d] \in files
    <3>1. ~(req[s].pc \in Recalling /\ docs[d] = req[s].old)
      BY <2>1 DEF Inv, AvatarSpared
    <3>2. PICK e \in DOMAIN docs : docs[d] = docs[e] /\ (e \in DOMAIN docs' => Settles(r, e))
      BY <2>1, <2>2, <3>1 DEF Moves
    <3>3. Settles(r, d)
      BY <2>1, <3>2 DEF FileInv, OwnFiles
    <3> QED BY <1>1, <3>3
  <2>3. CASE docs[d] \notin files
    <3>1. PICK t \in Slots : Settles(req[t], d)
      BY <2>1, <2>3 DEF FileInv, Settled
    <3>2. CASE t = s
      <4>1. Settles(r, d)
        BY <2>1, <3>1, <3>2 DEF Moves
      <4> QED BY <1>1, <4>1
    <3>3. CASE t # s
      BY <1>1, <3>1, <3>3
    <3> QED BY <3>2, <3>3
  <2> QED BY <2>2, <2>3
<1> QED BY <1>4, <1>5, <1>6 DEF FileInv

LEMMA UploadFresh ==
    ASSUME Inv, FileInv, NEW s \in Slots, NEW r, Upload(s, r), UNCHANGED docs,
           r.pc \in Holding, r.url = NewUrl, req[s].pc \notin {"delete_row", "replace_row"}
    PROVE  FileInv'
<1>1. /\ req' = [req EXCEPT ![s] = r] /\ files' = files \cup {uploads + 1}
      /\ r.url = uploads + 1 /\ UNCHANGED failing
  BY DEF Upload, Goto, NewUrl
<1>2. \A t \in Slots : req'[t] = IF t = s THEN r ELSE req[t]
  BY <1>1, SlotsAre
<1>3. uploads \in Nat /\ \A t \in Slots : Sound(req[t], uploads)
  BY DEF Inv, Typed
<1>4. \A d \in DOMAIN docs : docs[d] # uploads + 1
  BY <1>3 DEF Inv, Typed, VerificationTypeOK, Urls
<1>5. Fresh'
  BY <1>1, <1>2, <1>4 DEF FileInv, Fresh
<1>6. OwnFiles'
  BY DEF FileInv, OwnFiles
<1>7. ~failing' => Settled'
  BY <1>1, <1>2 DEF FileInv, Settled, Settles
<1> QED BY <1>5, <1>6, <1>7 DEF FileInv

LEMMA RowFresh ==
    ASSUME Inv, FileInv, NEW s \in Slots, NEW r, NEW d, docs' = With(d, req[s].url),
           req[s].pc \in {"replace_row", "create_row"},
           req[s].pc = "replace_row" => d = req[s].rep,
           req' = [req EXCEPT ![s] = r], r.pc = "count", UNCHANGED <<files, failing>>
    PROVE  FileInv'
<1> DEFINE url == req[s].url
<1>1. \A t \in Slots : req'[t] = IF t = s THEN r ELSE req[t]
  BY SlotsAre
<1>2. req[s].pc \in Holding /\ r.pc \notin Holding
  BY DEF Holding
<1>3. url \in files /\ \A x \in DOMAIN docs : docs[x] # url
  BY <1>2 DEF FileInv, Fresh
<1>4. \A t \in Slots : t # s /\ req[t].pc \in Holding => req[t].url # url
  BY <1>2 DEF Inv, HeldOnce
<1>5. \A x \in DOMAIN docs' : \/ x = d /\ docs'[x] = url
                              \/ x # d /\ x \in DOMAIN docs /\ docs'[x] = docs[x]
  BY DEF With
<1> HIDE DEF url
<1>6. Fresh'
  BY <1>1, <1>2, <1>4, <1>5 DEF FileInv, Fresh
<1>7. OwnFiles'
  BY <1>3, <1>5 DEF FileInv, OwnFiles
<1>8. ASSUME ~failing' PROVE Settled'
  <2> SUFFICES ASSUME NEW x \in DOMAIN docs', docs'[x] \notin files
               PROVE  \E t \in Slots : Settles(req'[t], x)
    BY DEF Settled
  <2>1. x # d /\ x \in DOMAIN docs /\ docs'[x] = docs[x]
    BY <1>3, <1>5
  <2>2. PICK t \in Slots : Settles(req[t], x)
    BY <1>8, <2>1 DEF FileInv, Settled
  <2>3. t # s
    BY <2>1, <2>2 DEF Settles
  <2> QED BY <1>1, <2>2, <2>3
<1> QED BY <1>6, <1>7, <1>8 DEF FileInv

\* A handler with nothing to hold or to settle, and the same data.
LEMMA Passes ==
    ASSUME NEW s \in Slots, NEW r, req' = [req EXCEPT ![s] = r], UNCHANGED <<docs, files, failing>>,
           r.pc \notin Holding, \A d \in DOMAIN docs : ~Settles(req[s], d) \/ failing
    PROVE  Moves(s, r)
BY DEF Moves

LEMMA IdleHoldsNothing == Idle.pc \notin Holding
BY DEF Idle, Holding

LEMMA DeletesKeep ==
    ASSUME Inv, FileInv, NEW s \in Slots, DeleteFind(s) \/ DeleteRow(s) PROVE FileInv'
<1> SUFFICES \E r : Moves(s, r)
  BY MovesKeep
<1>1. req[s] \in Starts
  BY SoundAt DEF DeleteFind, DeleteRow, At, Sound
<1> DEFINE After(pc) == [req[s] EXCEPT !.pc = pc]
<1>2. \A pc \in {"upload", "count", "delete_row"} :
         /\ After(pc).pc = pc /\ After(pc).pc \notin Holding
         /\ After(pc).del = req[s].del
  BY <1>1 DEF Starts, Holding
<1>3. AfterDelete(req[s]) \in {"upload", "count", "delete_row"}
  BY DEF AfterDelete
<1> HIDE DEF After
<1>4. CASE DeleteFind(s)
  <2>1. req[s].pc = "delete_find" /\ UNCHANGED <<docs, failing>>
    BY <1>4 DEF DeleteFind, At, Goto
  <2>2. CASE req[s].del \in DOMAIN docs
    <3>1. req' = [req EXCEPT ![s] = After("delete_row")] /\ files' = files \ {docs[req[s].del]}
      BY <1>4, <2>2 DEF DeleteFind, Goto, After
    <3>2. Moves(s, After("delete_row"))
      BY <1>2, <2>1, <2>2, <3>1 DEF Moves, Settles
    <3> QED BY <3>2
  <2>3. CASE req[s].del \notin DOMAIN docs
    <3>1. req' = [req EXCEPT ![s] = After(AfterDelete(req[s]))] /\ UNCHANGED files
      BY <1>4, <2>3 DEF DeleteFind, Goto, After
    <3> QED BY <1>2, <1>3, <2>1, <3>1, Passes DEF Settles
  <2> QED BY <2>2, <2>3
<1>5. CASE DeleteRow(s)
  <2>1. /\ req[s].pc = "delete_row" /\ UNCHANGED <<files, failing>>
        /\ DOMAIN docs' = DOMAIN docs \ {req[s].del}
        /\ \A d \in DOMAIN docs' : docs'[d] = docs[d]
    BY <1>5 DEF DeleteRow, At, Goto, Finish, Without
  <2>2. ASSUME NEW r, req' = [req EXCEPT ![s] = r], r.pc \notin Holding
        PROVE  Moves(s, r)
    BY <2>1, <2>2 DEF Moves, Settles
  <2>3. CASE req[s].del \in DOMAIN docs
    <3>1. req' = [req EXCEPT ![s] = After(AfterDelete(req[s]))]
      BY <1>5, <2>3 DEF DeleteRow, Goto, After
    <3> QED BY <1>2, <1>3, <2>2, <3>1
  <2>4. CASE req[s].del \notin DOMAIN docs
    BY <1>5, <2>2, <2>4, IdleHoldsNothing DEF DeleteRow, Finish, Goto
  <2> QED BY <2>3, <2>4
<1> QED BY <1>4, <1>5

LEMMA ReplacesKeep ==
    ASSUME Inv, FileInv, NEW s \in Slots, ReplaceFind(s) \/ ReplaceRow(s) \/ CreateRow(s)
    PROVE  FileInv'
<1>1. req[s] \in Submits(uploads)
  BY SoundAt DEF ReplaceFind, ReplaceRow, CreateRow, At, Sound
<1> DEFINE After(pc) == [req[s] EXCEPT !.pc = pc]
<1>2. \A pc \in {"replace_row", "create_row"} :
         After(pc).pc = pc /\ After(pc).url = req[s].url /\ After(pc).rep = req[s].rep
  BY <1>1 DEF Submits
<1>3. After("count").pc = "count"
  BY <1>1 DEF Submits
<1> HIDE DEF After
<1>4. CASE ReplaceFind(s)
  <2>1. req[s].pc = "replace_find" /\ req[s].pc \in Holding /\ UNCHANGED <<docs, failing>>
    BY <1>4 DEF ReplaceFind, At, Goto, Holding
  <2>2. CASE req[s].rep \in DOMAIN docs
    <3>1. req' = [req EXCEPT ![s] = After("replace_row")] /\ files' = files \ {docs[req[s].rep]}
      BY <1>4, <2>2 DEF ReplaceFind, Goto, After
    <3>2. Moves(s, After("replace_row"))
      BY <1>2, <2>1, <2>2, <3>1 DEF Moves, Settles
    <3> QED BY <3>2, MovesKeep
  <2>3. CASE req[s].rep \notin DOMAIN docs
    <3>1. req' = [req EXCEPT ![s] = After("create_row")] /\ UNCHANGED files
      BY <1>4, <2>3 DEF ReplaceFind, Goto, After
    <3>2. Moves(s, After("create_row"))
      BY <1>2, <2>1, <3>1 DEF Moves, Settles
    <3> QED BY <3>2, MovesKeep
  <2> QED BY <2>2, <2>3
<1>5. CASE ReplaceRow(s)
  <2>1. req[s].pc = "replace_row" /\ UNCHANGED <<files, failing>>
    BY <1>5 DEF ReplaceRow, At, Goto, Finish
  <2>2. CASE req[s].rep \in DOMAIN docs
    <3>1. /\ req' = [req EXCEPT ![s] = After("count")]
          /\ docs' = With(req[s].rep, req[s].url)
      BY <1>5, <2>2 DEF ReplaceRow, Goto, After
    <3> QED BY <1>3, <2>1, <3>1, RowFresh
  <2>3. CASE req[s].rep \notin DOMAIN docs
    <3>1. req' = [req EXCEPT ![s] = Idle] /\ UNCHANGED docs
      BY <1>5, <2>3 DEF ReplaceRow, Finish, Goto
    <3>2. \A d \in DOMAIN docs : ~Settles(req[s], d)
      BY <2>1, <2>3 DEF Settles
    <3> QED BY <2>1, <3>1, <3>2, IdleHoldsNothing, Passes, MovesKeep
  <2> QED BY <2>2, <2>3
<1>6. CASE CreateRow(s)
  <2>1. /\ req' = [req EXCEPT ![s] = After("count")] /\ req[s].pc = "create_row"
        /\ docs' = With(req[s].url, req[s].url) /\ UNCHANGED <<files, failing>>
    BY <1>6 DEF CreateRow, Goto, At, After
  <2> QED BY <1>3, <2>1, RowFresh
<1> QED BY <1>4, <1>5, <1>6

LEMMA StoresKeep ==
    ASSUME Inv, FileInv, NEW s \in Slots, SubmitUpload(s) \/ ProfileUpload(s) PROVE FileInv'
<1>1. CASE SubmitUpload(s)
  <2> DEFINE r == [op |-> "submit",
                   pc |-> IF req[s].rep = 0 THEN "create_row" ELSE "replace_find",
                   rep |-> req[s].rep, url |-> NewUrl]
  <2>1. Upload(s, r) /\ UNCHANGED docs /\ req[s].pc = "upload"
    BY <1>1 DEF SubmitUpload, At
  <2>2. r.pc \in Holding /\ r.url = NewUrl /\ r.pc # "profile_write"
    BY DEF Holding
  <2> HIDE DEF r
  <2> QED BY <2>1, <2>2, UploadFresh
<1>2. CASE ProfileUpload(s)
  <2> DEFINE r == [op |-> "profile", pc |-> "profile_write", old |-> req[s].old, url |-> NewUrl]
  <2>1. Upload(s, r) /\ UNCHANGED docs /\ req[s].pc = "profile_upload"
    BY <1>2 DEF ProfileUpload, At
  <2>2. r.pc \in Holding /\ r.url = NewUrl
    BY DEF Holding
  <2> HIDE DEF r
  <2> QED BY <2>1, <2>2, UploadFresh
<1> QED BY <1>1, <1>2

LEMMA ProfilesMove ==
    ASSUME NEW s \in Slots, UpdateProfile(s) \/ ProfileClean(s) \/ SocialLogin(s)
    PROVE  \E r : Moves(s, r)
<1>1. CASE UpdateProfile(s)
  <2> DEFINE r == [op |-> "profile", pc |-> "profile_clean", old |-> req[s].old]
  <2>1. /\ req' = [req EXCEPT ![s] = r] /\ req[s].pc = "profile_write"
        /\ UNCHANGED <<docs, files, failing>> /\ r.pc = "profile_clean" /\ r.old = req[s].old
    BY <1>1 DEF UpdateProfile, Goto, At
  <2> HIDE DEF r
  <2>2. Moves(s, r)
    BY <2>1 DEF Moves, Settles, Holding
  <2> QED BY <2>2
<1>2. CASE ProfileClean(s)
  <2>1. /\ req' = [req EXCEPT ![s] = Idle] /\ req[s].pc = "profile_clean"
        /\ files' = files \ {req[s].old} /\ UNCHANGED <<docs, failing>>
    BY <1>2 DEF ProfileClean, OldAvatar, Finish, Goto, At
  <2>2. Moves(s, Idle)
    BY <2>1, IdleHoldsNothing DEF Moves, Settles, Recalling, Profile
  <2> QED BY <2>2
<1>3. CASE SocialLogin(s)
  BY <1>3, Passes, IdleHoldsNothing DEF SocialLogin, Finish, Goto, At, Settles
<1> QED BY <1>1, <1>2, <1>3

LEMMA RequestMoves ==
    ASSUME NEW s \in Slots, VerificationRequest(s) PROVE \E r : Moves(s, r)
<1>1. req[s].pc = "idle" /\ UNCHANGED <<docs, files, failing, avatar>>
  BY DEF VerificationRequest, SubmitRead, ProfileRead, SocialRead, Begin, Busy, Idle, Arrives,
         verificationData
<1>2. \A d \in DOMAIN docs : ~Settles(req[s], d)
  BY <1>1 DEF Settles
<1>3. ASSUME NEW del, NEW rep, NEW file, SubmitRead(s, del, file, rep)
      PROVE  \E r : Moves(s, r)
  <2> DEFINE r == [op |-> "submit", pc |-> IF del = 0 THEN "upload" ELSE "delete_find",
                   del |-> del, file |-> file, rep |-> rep]
  <2>1. req' = [req EXCEPT ![s] = r]
    BY <1>3 DEF SubmitRead, Begin
  <2>2. r.pc \notin Holding
    BY DEF Holding
  <2> HIDE DEF r
  <2> QED BY <1>1, <1>2, <2>1, <2>2, Passes
<1>4. ASSUME NEW op, NEW pc \in {"profile_upload", "social_write"}, NEW old,
             Begin(s, [op |-> op, pc |-> pc, old |-> old])
      PROVE  \E r : Moves(s, r)
  BY <1>1, <1>2, <1>4, Passes DEF Begin, Holding
<1> QED BY <1>3, <1>4 DEF VerificationRequest, ProfileRead, SocialRead

LEMMA ReviewMoves ==
    ASSUME NEW s \in Slots,
           CountDocuments(s) \/ SubmitForReview(s) \/ VerificationAbandon(s)
    PROVE  \E r : Moves(s, r)
<1>1. CASE CountDocuments(s)
  <2> DEFINE r == [op |-> "submit", pc |-> "badge", to |-> BadgeFor(DOMAIN docs)]
  <2>1. /\ req' = [req EXCEPT ![s] = r] /\ req[s].pc = "count" /\ r.pc = "badge"
        /\ UNCHANGED <<docs, files, failing>>
    BY <1>1 DEF CountDocuments, Goto, At, verificationData
  <2> HIDE DEF r
  <2> QED BY <2>1, Passes DEF Settles, Holding
<1>2. CASE SubmitForReview(s)
  BY <1>2, Passes, IdleHoldsNothing DEF SubmitForReview, Finish, Goto, At, Settles
<1>3. CASE VerificationAbandon(s)
  BY <1>3, Passes, IdleHoldsNothing
     DEF VerificationAbandon, Stops, Finish, Goto, verificationData
<1> QED BY <1>1, <1>2, <1>3

LEMMA FileNext == Inv /\ FileInv /\ [VerificationNext]_verificationVars => FileInv'
<1> SUFFICES ASSUME Inv, FileInv, [VerificationNext]_verificationVars PROVE FileInv'
  OBVIOUS
<1>1. ASSUME NEW s \in Slots, VerificationStep(s) \/ VerificationRequest(s) \/ VerificationAbandon(s)
      PROVE  FileInv'
  BY <1>1, MovesKeep, DeletesKeep, ReplacesKeep, StoresKeep, ProfilesMove, RequestMoves,
     ReviewMoves DEF VerificationStep
<1>2. ASSUME UNCHANGED <<docs, files, req, failing>> PROVE FileInv'
  BY <1>2 DEF FileInv, Fresh, OwnFiles, Settled
<1>3. ASSUME NEW to, UpdateHelperStatus(to) PROVE FileInv'
  BY <1>2, <1>3 DEF UpdateHelperStatus, AtOnce, Arrives
<1>4. ASSUME UNCHANGED verificationVars PROVE FileInv'
  BY <1>2, <1>4 DEF verificationVars, verificationData, handlers
<1> QED BY <1>1, <1>3, <1>4 DEF VerificationNext

\* However requests delete and replace documents together, once all of them have
\* run to their end every document is a file that is still there.
THEOREM DocumentsHaveFilesAlways == VerificationSpec => []DocumentsHaveFiles
<1>1. FileInv => DocumentsHaveFiles
  BY DEF FileInv, Settled, Settles, DocumentsHaveFiles, Quiet, Busy, Idle
<1> QED BY <1>1, InitInv, NextInv, FileInit, FileNext, PTL DEF VerificationSpec

-----------------------------------------------------------------------------
(* BadgeOnDecidedDocuments.  While the documents are not those that were     *)
(* decided on, some submission is still to write the badge.  Whose it is     *)
(* changes: the one that replaces a document may find it gone, but then the  *)
(* one that deleted it writes the badge in its turn.                         *)

Decided == {"VERIFIED", "REJECTED"}

\* r writes the badge whatever the others do, or unless its document goes.
Reviews(r, ids) == \/ r.pc \in {"upload", "replace_find", "create_row", "count", "badge"}
                   \/ r.pc = "replace_row" /\ r.rep \in ids

BadgeInv ==
    /\ docs \in [DOMAIN docs -> Nat]
    /\ \A s \in Slots : req[s].pc = "badge" => req[s].to \notin Decided
    /\ ~failing /\ badge \in Decided /\ docs # decidedOn
         => \E s \in Slots : Reviews(req[s], DOMAIN docs)

LEMMA BadgeInit == VerificationInit /\ HandlersInit => BadgeInv
<1> SUFFICES ASSUME VerificationInit, HandlersInit PROVE BadgeInv
  OBVIOUS
<1>1. docs \in [DOMAIN docs -> Nat]
  BY DEF VerificationInit
<1> QED BY <1>1 DEF VerificationInit, HandlersInit, BadgeInv, Idle

\* s goes on as r and still writes the badge if it did, or nobody need.
LEMMA StillReviewed ==
    ASSUME Inv, BadgeInv, NEW s \in Slots, NEW r, req' = [req EXCEPT ![s] = r],
           UNCHANGED <<docs, badge, decidedOn, failing>>,
           r.pc = "badge" => r.to \notin Decided,
           Reviews(req[s], DOMAIN docs) => Reviews(r, DOMAIN docs) \/ failing
    PROVE  BadgeInv'
<1>1. \A t \in Slots : req'[t] = IF t = s THEN r ELSE req[t]
  BY SlotsAre
<1>2. ASSUME NEW t \in Slots, Reviews(req[t], DOMAIN docs), ~failing
      PROVE  Reviews(req'[t], DOMAIN docs')
  BY <1>1, <1>2 DEF Reviews
<1>3. ~failing' /\ badge' \in Decided /\ docs' # decidedOn'
         => \E t \in Slots : Reviews(req'[t], DOMAIN docs')
  BY <1>2 DEF BadgeInv
<1> HIDE DEF Reviews
<1> QED BY <1>1, <1>3 DEF BadgeInv

\* s changes the documents and goes on to write the badge.
LEMMA NowReviewed ==
    ASSUME Inv, BadgeInv, NEW s \in Slots, NEW r, req' = [req EXCEPT ![s] = r],
           r.pc \in {"upload", "count"}, docs' \in [DOMAIN docs' -> Nat]
    PROVE  BadgeInv'
<1>1. \A t \in Slots : req'[t] = IF t = s THEN r ELSE req[t]
  BY SlotsAre
<1>2. Reviews(req'[s], DOMAIN docs')
  BY <1>1 DEF Reviews
<1> HIDE DEF Reviews
<1> QED BY <1>1, <1>2 DEF BadgeInv

LEMMA DeletesReviewed ==
    ASSUME Inv, BadgeInv, NEW s \in Slots, DeleteFind(s) \/ DeleteRow(s) PROVE BadgeInv'
<1>1. req[s] \in Starts
  BY SoundAt DEF DeleteFind, DeleteRow, At, Sound
<1> DEFINE After(pc) == [req[s] EXCEPT !.pc = pc]
<1>2. \A pc \in {"upload", "count", "delete_row"} : After(pc).pc = pc
  BY <1>1 DEF Starts
<1>3. AfterDelete(req[s]) \in {"upload", "count"}
  BY DEF AfterDelete
<1> HIDE DEF After
<1>4. CASE DeleteFind(s)
  <2>1. \E pc \in {"upload", "count", "delete_row"} : req' = [req EXCEPT ![s] = After(pc)]
    BY <1>3, <1>4 DEF DeleteFind, Goto, After
  <2>2. /\ req[s].pc = "delete_find" /\ UNCHANGED <<docs, badge, decidedOn, failing>>
    BY <1>4 DEF DeleteFind, At, Goto
  <2>3. ~Reviews(req[s], DOMAIN docs)
    BY <2>2 DEF Reviews
  <2> QED BY <1>2, <2>1, <2>2, <2>3, StillReviewed
<1>5. CASE DeleteRow(s)
  <2>1. CASE req[s].del \in DOMAIN docs
    <3>1. req' = [req EXCEPT ![s] = After(AfterDelete(req[s]))]
      BY <1>5, <2>1 DEF DeleteRow, Goto, After
    <3>2. docs' \in [DOMAIN docs' -> Nat]
      BY <1>5 DEF DeleteRow, Without, BadgeInv
    <3> QED BY <1>2, <1>3, <3>1, <3>2, NowReviewed
  <2>2. CASE req[s].del \notin DOMAIN docs
    <3>1. req' = [req EXCEPT ![s] = Idle] /\ UNCHANGED <<badge, decidedOn, failing>>
          /\ req[s].pc = "delete_row"
      BY <1>5, <2>2 DEF DeleteRow, Finish, Goto, At
    <3>2. docs' = docs
      <4>1. DOMAIN docs \ {req[s].del} = DOMAIN docs
        BY <2>2
      <4>2. docs' = [x \in DOMAIN docs |-> docs[x]]
        BY <1>5, <4>1 DEF DeleteRow, Without
      <4> QED BY <4>2 DEF BadgeInv
    <3>3. ~Reviews(req[s], DOMAIN docs) /\ Idle.pc # "badge"
      BY <3>1 DEF Reviews, Idle
    <3> QED BY <3>1, <3>2, <3>3, StillReviewed
  <2> QED BY <2>1, <2>2
<1> QED BY <1>4, <1>5

LEMMA ReplacesReviewed ==
    ASSUME Inv, BadgeInv, NEW s \in Slots, ReplaceFind(s) \/ ReplaceRow(s) \/ CreateRow(s)
    PROVE  BadgeInv'
<1>1. req[s] \in Submits(uploads) /\ uploads \in Nat
  BY SoundAt DEF ReplaceFind, ReplaceRow, CreateRow, At, Sound, Inv, Typed
<1> DEFINE After(pc) == [req[s] EXCEPT !.pc = pc]
<1>2. \A pc \in {"replace_row", "create_row", "count"} :
         After(pc).pc = pc /\ After(pc).rep = req[s].rep
  BY <1>1 DEF Submits
<1>3. \A d : With(d, req[s].url) \in [DOMAIN With(d, req[s].url) -> Nat]
  <2>1. req[s].url \in Nat
    BY <1>1 DEF Submits
  <2> QED BY <2>1 DEF With, BadgeInv
<1> HIDE DEF After
<1>4. CASE ReplaceFind(s)
  <2>1. /\ UNCHANGED <<docs, badge, decidedOn, failing>>
    BY <1>4 DEF ReplaceFind, Goto
  <2>2. CASE req[s].rep \in DOMAIN docs
    <3>1. req' = [req EXCEPT ![s] = After("replace_row")]
      BY <1>4, <2>2 DEF ReplaceFind, Goto, After
    <3>2. Reviews(After("replace_row"), DOMAIN docs) /\ After("replace_row").pc # "badge"
      BY <1>2, <2>2 DEF Reviews
    <3> QED BY <2>1, <3>1, <3>2, StillReviewed
  <2>3. CASE req[s].rep \notin DOMAIN docs
    <3>1. req' = [req EXCEPT ![s] = After("create_row")]
      BY <1>4, <2>3 DEF ReplaceFind, Goto, After
    <3>2. Reviews(After("create_row"), DOMAIN docs) /\ After("create_row").pc # "badge"
      BY <1>2 DEF Reviews
    <3> QED BY <2>1, <3>1, <3>2, StillReviewed
  <2> QED BY <2>2, <2>3
<1>5. CASE ReplaceRow(s)
  <2>1. CASE req[s].rep \in DOMAIN docs
    <3>1. /\ req' = [req EXCEPT ![s] = After("count")]
          /\ docs' = With(req[s].rep, req[s].url)
      BY <1>5, <2>1 DEF ReplaceRow, Goto, After
    <3> QED BY <1>2, <1>3, <3>1, NowReviewed
  <2>2. CASE req[s].rep \notin DOMAIN docs
    <3>1. /\ req' = [req EXCEPT ![s] = Idle] /\ req[s].pc = "replace_row"
          /\ UNCHANGED <<docs, badge, decidedOn, failing>>
      BY <1>5, <2>2 DEF ReplaceRow, Finish, Goto, At
    <3>2. ~Reviews(req[s], DOMAIN docs) /\ Idle.pc # "badge"
      BY <2>2, <3>1 DEF Reviews, Idle
    <3> QED BY <3>1, <3>2, StillReviewed
  <2> QED BY <2>1, <2>2
<1>6. CASE CreateRow(s)
  <2>1. /\ req' = [req EXCEPT ![s] = After("count")]
        /\ docs' = With(req[s].url, req[s].url)
    BY <1>6 DEF CreateRow, Goto, After
  <2> QED BY <1>2, <1>3, <2>1, NowReviewed
<1> QED BY <1>4, <1>5, <1>6

\* Those that leave the documents, the badge and the decision alone.
LEMMA OthersReviewed ==
    ASSUME Inv, BadgeInv, NEW s \in Slots,
           \/ SubmitUpload(s) \/ CountDocuments(s) \/ ProfileUpload(s) \/ UpdateProfile(s)
           \/ ProfileClean(s) \/ SocialLogin(s) \/ VerificationAbandon(s)
           \/ VerificationRequest(s)
    PROVE  BadgeInv'
<1>1. UNCHANGED <<docs, badge, decidedOn, failing>>
  BY DEF SubmitUpload, CountDocuments, ProfileUpload, UpdateProfile, ProfileClean, SocialLogin,
         VerificationAbandon, Stops, VerificationRequest, SubmitRead, ProfileRead, SocialRead,
         Begin, Arrives, Upload, Finish, Goto, verificationData
<1> SUFFICES \E r : /\ req' = [req EXCEPT ![s] = r]
                    /\ r.pc = "badge" => r.to \notin Decided
                    /\ Reviews(req[s], DOMAIN docs) => Reviews(r, DOMAIN docs) \/ failing
  BY <1>1, StillReviewed
<1>2. CASE SubmitUpload(s)
  <2> DEFINE r == [op |-> "submit",
                   pc |-> IF req[s].rep = 0 THEN "create_row" ELSE "replace_find",
                   rep |-> req[s].rep, url |-> NewUrl]
  <2>1. req' = [req EXCEPT ![s] = r]
    BY <1>2 DEF SubmitUpload, Upload, Goto
  <2>2. Reviews(r, DOMAIN docs) /\ r.pc # "badge"
    BY DEF Reviews
  <2> HIDE DEF r
  <2> QED BY <2>1, <2>2
<1>3. CASE CountDocuments(s)
  <2> DEFINE r == [op |-> "submit", pc |-> "badge", to |-> BadgeFor(DOMAIN docs)]
  <2>1. req' = [req EXCEPT ![s] = r]
    BY <1>3 DEF CountDocuments, Goto
  <2>2. Reviews(r, DOMAIN docs) /\ r.to \notin Decided
    BY DEF Reviews, BadgeFor, Decided
  <2> HIDE DEF r
  <2> QED BY <2>1, <2>2
<1>4. ASSUME req[s].pc \in {"profile_upload", "profile_write", "profile_clean",
                           "social_write", "idle"}
      PROVE  ~Reviews(req[s], DOMAIN docs)
  BY <1>4 DEF Reviews
<1>5. CASE ProfileUpload(s)
  BY <1>4, <1>5 DEF ProfileUpload, Upload, Goto, At
<1>6. CASE UpdateProfile(s)
  BY <1>4, <1>6 DEF UpdateProfile, Goto, At
<1>7. CASE ProfileClean(s) \/ SocialLogin(s)
  BY <1>4, <1>7 DEF ProfileClean, SocialLogin, Finish, Goto, At, Idle
<1>8. CASE VerificationAbandon(s)
  BY <1>8 DEF VerificationAbandon, Stops, Finish, Goto, Idle
<1>9. ASSUME NEW op, NEW pc \in {"profile_upload", "social_write"}, NEW old,
             Begin(s, [op |-> op, pc |-> pc, old |-> old])
      PROVE  \E r : /\ req' = [req EXCEPT ![s] = r]
                    /\ r.pc = "badge" => r.to \notin Decided
                    /\ Reviews(req[s], DOMAIN docs) => Reviews(r, DOMAIN docs) \/ failing
  <2> DEFINE r == [op |-> op, pc |-> pc, old |-> old]
  <2>1. req' = [req EXCEPT ![s] = r] /\ req[s].pc = "idle" /\ r.pc # "badge"
    BY <1>9 DEF Begin, Busy, Idle
  <2> HIDE DEF r
  <2> QED BY <1>4, <2>1
<1>10. ASSUME NEW del, NEW rep, NEW file, SubmitRead(s, del, file, rep)
       PROVE  \E r : /\ req' = [req EXCEPT ![s] = r]
                     /\ r.pc = "badge" => r.to \notin Decided
                     /\ Reviews(req[s], DOMAIN docs) => Reviews(r, DOMAIN docs) \/ failing
  <2> DEFINE r == [op |-> "submit", pc |-> IF del = 0 THEN "upload" ELSE "delete_find",
                   del |-> del, file |-> file, rep |-> rep]
  <2>1. req' = [req EXCEPT ![s] = r] /\ req[s].pc = "idle"
    BY <1>10 DEF SubmitRead, Begin, Busy, Idle
  <2>2. r.pc # "badge"
    OBVIOUS
  <2> HIDE DEF r
  <2> QED BY <1>4, <2>1, <2>2
<1> QED BY <1>2, <1>3, <1>5, <1>6, <1>7, <1>8, <1>9, <1>10
       DEF VerificationRequest, ProfileRead, SocialRead

LEMMA SubmissionReviewed ==
    ASSUME Inv, BadgeInv, NEW s \in Slots, SubmitForReview(s) PROVE BadgeInv'
<1>1. /\ badge' = req[s].to /\ req[s].pc = "badge" /\ UNCHANGED docs
      /\ req' = [req EXCEPT ![s] = Idle]
  BY DEF SubmitForReview, Finish, Goto, At
<1>2. badge' \notin Decided
  BY <1>1 DEF BadgeInv
<1>3. \A t \in Slots : req'[t] = IF t = s THEN Idle ELSE req[t]
  BY <1>1, SlotsAre
<1> QED BY <1>1, <1>2, <1>3 DEF BadgeInv, Idle

LEMMA BadgeNext == Inv /\ BadgeInv /\ [VerificationNext]_verificationVars => BadgeInv'
<1> SUFFICES ASSUME Inv, BadgeInv, [VerificationNext]_verificationVars PROVE BadgeInv'
  OBVIOUS
<1>1. ASSUME NEW s \in Slots, VerificationStep(s) \/ VerificationRequest(s) \/ VerificationAbandon(s)
      PROVE  BadgeInv'
  BY <1>1, DeletesReviewed, ReplacesReviewed, OthersReviewed, SubmissionReviewed
     DEF VerificationStep
<1>2. ASSUME NEW to, UpdateHelperStatus(to) PROVE BadgeInv'
  BY <1>2 DEF UpdateHelperStatus, AtOnce, Arrives, BadgeInv
<1>3. ASSUME UNCHANGED verificationVars PROVE BadgeInv'
  <2>1. UNCHANGED <<docs, badge, decidedOn, failing, req>>
    BY <1>3 DEF verificationVars, verificationData, handlers
  <2> QED BY <2>1 DEF BadgeInv
<1> QED BY <1>1, <1>2, <1>3 DEF VerificationNext

\* Once the submissions have run to their end, a decision stands only over the
\* documents it was made on.
THEOREM BadgeOnDecidedDocumentsAlways == VerificationSpec => []BadgeOnDecidedDocuments
<1>1. BadgeInv => BadgeOnDecidedDocuments
  <2>1. Quiet => \A s \in Slots : ~Reviews(req[s], DOMAIN docs)
    BY DEF Reviews, Quiet, Busy, Idle
  <2> QED BY <2>1 DEF BadgeInv, Decided, BadgeOnDecidedDocuments
<1> QED BY <1>1, InitInv, NextInv, BadgeInit, BadgeNext, PTL DEF VerificationSpec
=============================================================================
