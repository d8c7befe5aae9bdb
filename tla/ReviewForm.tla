----------------------------- MODULE ReviewForm ------------------------------
(***************************************************************************)
(* The form of the studio that sends a screenshot to review                *)
(* (renderVisualReviewForm in apps/control-plane/public/app.js) and the    *)
(* checks of the route it posts to (apps/control-plane/src/server.js).     *)
(* The two pickers of the form, for the current image and the reference,   *)
(* fetch a run's screenshot while the user goes on.  An image is its       *)
(* bytes; sizes and types are assumed to be accepted.                      *)
(***************************************************************************)
EXTENDS Integers, FiniteSets

CONSTANTS
    Artifacts,      \* stored screenshots
    StoredAs,       \* of each: [project, run, group, image]; a group is target, contract and path
    Uploads,        \* images the user has on disk
    Projects, Nothing,
    MaxReviews      \* bound: how many reviews are recorded

VARIABLES
    project,        \* selectedProject
    form,           \* the two pickers of the form on the page
    submission,     \* the handler of a submit: what it has read so far
    preview,        \* activeVisualPreview: a review and the image shown with it
    reviews         \* recorded: [project, image, source, reference, referenceSource]

formVars == <<project, form, submission, preview, reviews>>

Pickers == {"current", "reference"}

(* chosen: the select's value; fetching: the value a fetch was started     *)
(* for, its select being disabled; upload: the file input.                 *)
EmptyPicker == [chosen |-> Nothing, fetching |-> Nothing, fetched |-> Nothing,
                source |-> Nothing, upload |-> Nothing]
Cleared(picker) == [EmptyPicker EXCEPT !.fetching = picker.fetching]

(* left: what the pickers named when another form was drawn over theirs.   *)
NotSent == [at |-> "idle", image |-> Nothing, reference |-> Nothing, source |-> Nothing,
            left |-> Nothing, payload |-> Nothing, to |-> Nothing]

Image(a) == StoredAs[a].image

(* selectedCurrent and selectedReference *)
Selected(picker) == IF picker.upload # Nothing THEN picker.upload ELSE picker.fetched

(* sourceArtifact is sent when nothing was uploaded instead. *)
SourceOf(picker) == IF picker.upload # Nothing THEN Nothing ELSE picker.source

(* refreshBaselineOptions: the same target, contract and capture of        *)
(* another run.                                                            *)
Baselines(a) ==
    {b \in Artifacts : StoredAs[b].group = StoredAs[a].group /\ StoredAs[b].run # StoredAs[a].run}

-----------------------------------------------------------------------------
(* The pickers.                                                            *)

(* Choosing a run's screenshot drops both images and fetches the chosen    *)
(* one.                                                                    *)
ChooseCurrent(a) ==
    /\ form.current.fetching = Nothing /\ a # form.current.chosen
    /\ a \in {x \in Artifacts : StoredAs[x].project = project} \cup {Nothing}
    /\ form' = [current   |-> [EmptyPicker EXCEPT !.chosen = a, !.fetching = a],
                reference |-> Cleared(form.reference)]
    /\ UNCHANGED <<project, submission, preview, reviews>>

ChooseReference(b) ==
    /\ form.reference.fetching = Nothing /\ form.current.chosen # Nothing
    /\ b \in Baselines(form.current.chosen) \cup {Nothing} /\ b # form.reference.chosen
    /\ form' = [form EXCEPT !.reference = [EmptyPicker EXCEPT !.chosen = b, !.fetching = b]]
    /\ UNCHANGED <<project, submission, preview, reviews>>

(* Only the answer for the value still chosen is taken. *)
StillWanted(picker) == picker.chosen = picker.fetching

FetchArrives(k) ==
    /\ form[k].fetching # Nothing
    /\ form' = [form EXCEPT ![k] =
                   IF StillWanted(@)
                   THEN [@ EXCEPT !.fetching = Nothing, !.fetched = Image(form[k].fetching),
                                  !.source = form[k].fetching]
                   ELSE [@ EXCEPT !.fetching = Nothing]]
    /\ UNCHANGED <<project, submission, preview, reviews>>

FetchFails(k) ==
    /\ form[k].fetching # Nothing
    /\ form' = [form EXCEPT ![k].fetching = Nothing]
    /\ UNCHANGED <<project, submission, preview, reviews>>

(* An upload takes the place of a run's screenshot; a new current image    *)
(* drops the reference that was chosen for the old one.                    *)
Upload(k, image) ==
    /\ form[k].upload # image
    /\ form' = [form EXCEPT ![k] = [Cleared(@) EXCEPT !.upload = image],
                            !.reference = [Cleared(form.reference) EXCEPT
                                !.upload = IF k = "current" THEN form.reference.upload ELSE image]]
    /\ UNCHANGED <<project, submission, preview, reviews>>

-----------------------------------------------------------------------------
(* The submit handler: its images are fixed at once, where each comes from *)
(* is read after it was encoded, and the project after both.  One handler  *)
(* at a time.                                                              *)

(* Bound: with MaxReviews recorded, only their images are sent again.      *)
Submit ==
    /\ submission.at = "idle" /\ Selected(form.current) # Nothing
    /\ \/ Cardinality(reviews) < MaxReviews
       \/ \E r \in reviews : /\ r.payload.image = Selected(form.current)
                             /\ r.payload.reference = Selected(form.reference)
    /\ submission' = [NotSent EXCEPT !.at = "encoding", !.image = Selected(form.current),
                                     !.reference = Selected(form.reference)]
    /\ UNCHANGED <<project, form, preview, reviews>>

Named == IF submission.left # Nothing THEN submission.left
         ELSE [k \in Pickers |-> SourceOf(form[k])]

Hashing(source) ==
    submission' = [submission EXCEPT !.at = "hashing", !.source = Nothing, !.left = Nothing,
       !.payload = [image           |-> submission.image,
                    source          |-> source,
                    reference       |-> submission.reference,
                    referenceSource |-> Named.reference]]

Encoded ==
    /\ submission.at = "encoding"
    /\ IF submission.reference = Nothing THEN Hashing(Named.current)
       ELSE submission' = [submission EXCEPT !.at = "encoding reference", !.source = Named.current]
    /\ UNCHANGED <<project, form, preview, reviews>>

EncodedReference ==
    /\ submission.at = "encoding reference" /\ Hashing(submission.source)
    /\ UNCHANGED <<project, form, preview, reviews>>

(* The idempotency key is the hash of the payload. *)
Post ==
    /\ submission.at = "hashing"
    /\ submission' = [submission EXCEPT !.at = "sent", !.to = project]
    /\ UNCHANGED <<project, form, preview, reviews>>

-----------------------------------------------------------------------------
(* The route.                                                              *)

(* A named artifact must be of this project and have the bytes sent.       *)
CheckSource(to, image, source) ==
    source # Nothing => StoredAs[source].project = to /\ Image(source) = image

(* A reference of a run goes with a current image of another run of the    *)
(* same target, contract and capture.                                      *)
PairHolds(p) ==
    p.referenceSource # Nothing =>
        /\ p.reference # Nothing /\ p.source # Nothing
        /\ StoredAs[p.referenceSource].run # StoredAs[p.source].run
        /\ StoredAs[p.referenceSource].group = StoredAs[p.source].group

Accepted(p, to) ==
    /\ CheckSource(to, p.image, p.source)
    /\ CheckSource(to, p.reference, p.referenceSource)
    /\ PairHolds(p)

(* Of one payload there is one review: a key already used is answered with *)
(* its review, or refused for another project.                             *)
SameKey(p) == {r \in reviews : r.payload = p}

(* The image the overlay is drawn on is the one the handler fixed.         *)
ShownImage == submission.image

(* As if it were what the form holds by now.                               *)
ShownNow == Selected(form.current)

OverlayImage == ShownImage

Recorded(r) ==
    /\ reviews' = reviews \cup {r}
    /\ preview' = [review |-> r, image |-> OverlayImage]
    /\ form' = [k \in Pickers |-> Cleared(form[k])]
    /\ submission' = NotSent

Answer ==
    /\ submission.at = "sent"
    /\ LET p == submission.payload
           to == submission.to
       IN  /\ Accepted(p, to)
           /\ \/ SameKey(p) = {} /\ Cardinality(reviews) < MaxReviews
                 /\ Recorded([project |-> to, payload |-> p])
              \/ \E r \in SameKey(p) : r.project = to /\ Recorded(r)
    /\ UNCHANGED project

(* Refused, or recorded and the answer lost: the form stays as it is.      *)
Refused ==
    /\ submission.at = "sent"
    /\ submission' = NotSent
    /\ reviews' \in {reviews} \cup
          {reviews \cup {r} : r \in {x \in {[project |-> submission.to, payload |-> submission.payload]} :
                               /\ Accepted(x.payload, x.project) /\ SameKey(x.payload) = {}
                               /\ Cardinality(reviews) < MaxReviews}}
    /\ UNCHANGED <<project, form, preview>>

(* loadProject draws a new form, for another project or, while runs are    *)
(* active, for the same one; another project's preview is dropped.  The    *)
(* handler of the old form goes on with the pickers of that form, whose    *)
(* outstanding fetches are left out.                                       *)
DrawProject(p) ==
    /\ project' = p
    /\ preview' = IF p = project THEN preview ELSE Nothing
    /\ form' = [k \in Pickers |-> EmptyPicker]
    /\ submission' = IF submission.at \in {"encoding", "encoding reference"}
                     THEN [submission EXCEPT !.left = Named] ELSE submission
    /\ UNCHANGED reviews

(* The user closes the overlay. *)
ClearPreview == preview # Nothing /\ preview' = Nothing /\ UNCHANGED <<project, form, submission, reviews>>

-----------------------------------------------------------------------------
Init ==
    /\ project \in Projects
    /\ form = [k \in Pickers |-> EmptyPicker]
    /\ submission = NotSent /\ preview = Nothing /\ reviews = {}

Next ==
    \/ \E a \in Artifacts \cup {Nothing} : ChooseCurrent(a) \/ ChooseReference(a)
    \/ \E k \in Pickers : FetchArrives(k) \/ FetchFails(k) \/ \E i \in Uploads : Upload(k, i)
    \/ Submit \/ Encoded \/ EncodedReference \/ Post \/ Answer \/ Refused \/ ClearPreview
    \/ \E p \in Projects : DrawProject(p)

-----------------------------------------------------------------------------
Images == Uploads \cup {Image(a) : a \in Artifacts}

TypeOK ==
    /\ project \in Projects
    /\ \A k \in Pickers : /\ {form[k].chosen, form[k].fetching, form[k].source} \subseteq Artifacts \cup {Nothing}
                          /\ {form[k].fetched, form[k].upload} \subseteq Images \cup {Nothing}
    /\ submission.at \in {"idle", "encoding", "encoding reference", "hashing", "sent"}
    /\ Cardinality(reviews) <= MaxReviews

(* A review that names a run's screenshot was given its bytes, whatever    *)
(* was chosen while they were encoded; two run captures that are compared  *)
(* are of one capture in two runs of the review's project; and the image   *)
(* shown under the findings of a review is the one it was made of.         *)
ReviewsNameTheirImages ==
    /\ \A r \in reviews :
          /\ r.payload.source # Nothing =>
                Image(r.payload.source) = r.payload.image /\ StoredAs[r.payload.source].project = r.project
          /\ r.payload.referenceSource # Nothing =>
                /\ Image(r.payload.referenceSource) = r.payload.reference
                /\ r.payload.referenceSource \in Baselines(r.payload.source)
    /\ preview # Nothing => preview.review \in reviews /\ preview.review.payload.image = preview.image
=============================================================================
