----------------------------- MODULE ReleaseFlow ----------------------------
(* `release publish` (Flow.Publish, internal/releaseflow) over the store of *)
(* ReleaseStore: the tag, then the GitHub release, each once the owner's    *)
(* answer to its gate is accepted.  One publish runs at a time (the         *)
(* publish.lock), and a kill may end it between any two calls; a call that  *)
(* fails and a response that is lost are the kill before and after it.      *)
(* GitHub, the owner's edits and whoever may move a tag are the             *)
(* environment.  Left out: the audit trail, the owner alerts, the digest of *)
(* the notes (a draft is as prepared, or its body was edited, or it names   *)
(* another tag or commit), the reading of targets, and a deletion of a      *)
(* duplicate that fails, which the code ignores.                            *)
EXTENDS ReleaseStore

CONSTANTS
    MaxReleases,  \* bound on the GitHub releases created
    MaxTouches,   \* bound on what outsiders do to the tag and the drafts
    Torn          \* a model value: a file created and never written

ASSUME ReleaseFlowAssumption ==
    /\ MaxReleases \in Nat /\ MaxTouches \in Nat
    /\ None \notin Nat /\ Torn \notin Nat /\ Torn # None

VARIABLES
    accepted,  \* the children whose gate has the owner's accepted answer
    tag,       \* the remote tag: "none", at the "approved" commit or at an "other"
    releases,  \* GitHub's releases by id
    markers,   \* the done markers written, or created and torn
    intent,    \* draft-intent.json: its nonce, None or Torn
    draft,     \* draft.json: the id it records, None or Torn
    pub,       \* the one publish: where it is, its draft, what changed unseen
    touches    \* what outsiders did so far

forge    == <<accepted, tag, releases, touches>>
local    == <<markers, intent, draft>>
flowVars == <<forge, local, pub>>
vars     == <<storeVars, flowVars>>

NoRun == [at |-> "idle", id |-> 0, late |-> {}]
At(place) == pub.at = place
Run(place) == pub' = [pub EXCEPT !.at = place]
Refused == pub' = NoRun
Store == UNCHANGED storeVars

Live(i)    == releases[i].st = "draft"
Public(i)  == releases[i].st = "public"
Edited(i)  == releases[i].edited # "no"
SetRelease(i, st) == releases' = [releases EXCEPT ![i].st = st]

----------------------------------------------------------------------------
(* Outsiders *)

\* The owner answers a gate that prepare raised.
Answer(c) ==
    /\ gates[c] = "plan" /\ c \notin accepted
    /\ accepted' = accepted \cup {c}
    /\ UNCHANGED <<tag, releases, touches, local, pub>> /\ Store

Touch == touches < MaxTouches /\ touches' = touches + 1
Unseen(places, what) == pub' = IF pub.at \in places THEN [pub EXCEPT !.late = @ \cup {what}] ELSE pub

\* The tag is created or moved by somebody else, whom the rule lets through.
MoveTag ==
    /\ Touch
    /\ tag' \in {"approved", "other"} \ {tag}
    /\ Unseen({"publish"}, "tag")
    /\ UNCHANGED <<accepted, releases, local>> /\ Store

\* A draft is deleted, or its body is edited and may lose the nonce, or it
\* is given another tag or commit.
EditDraft(i) ==
    /\ Live(i) /\ Touch
    /\ \/ SetRelease(i, "deleted")
       \/ \E nonce \in {None, releases[i].nonce}, part \in {"body", "target"} :
              releases' = [releases EXCEPT ![i].nonce = nonce, ![i].edited = part]
    /\ Unseen({"resolve_again", "publish"}, "draft")
    /\ UNCHANGED <<accepted, tag, local>> /\ Store

----------------------------------------------------------------------------
(* The tag *)

\* Publish reads the active release and takes the lock.
Publish ==
    /\ At("idle") /\ Agree /\ pointer = "active"
    /\ pub' = [NoRun EXCEPT !.at = IF 1 \in markers THEN "release" ELSE "tag"]
    /\ UNCHANGED <<forge, local>> /\ Store

\* The tag is resolved: none, a crashed run's, or one that moved.
TagChild ==
    /\ At("tag")
    /\ IF 1 \in accepted /\ tag # "other"
       THEN Run(IF tag = "none" THEN "create_tag" ELSE "mark_tag")
       ELSE Refused
    /\ UNCHANGED <<forge, local>> /\ Store

CreateTag ==
    /\ At("create_tag")
    /\ IF tag = "none" THEN tag' = "approved" /\ Run("mark_tag") ELSE Refused /\ UNCHANGED tag
    /\ UNCHANGED <<accepted, releases, touches, local>> /\ Store

\* writeOnce: the file is created, then written.
WriteMarker(c, then) ==
    /\ markers' = markers \cup {c}
    /\ pub' = then
    /\ UNCHANGED <<forge, intent, draft>> /\ Store

MarkTag == At("mark_tag") /\ WriteMarker(1, [pub EXCEPT !.at = "release"])

----------------------------------------------------------------------------
(* The release *)

\* Mutant: the gate of the release is not asked for.
MayReleaseAsTagged == tag = "approved"
MayRelease == 2 \in accepted /\ tag = "approved"

ReleaseChild ==
    /\ At("release")
    /\ IF 2 \notin markers /\ MayRelease THEN Run("intent") ELSE Refused
    /\ UNCHANGED <<forge, local>> /\ Store

FreshNonce == Len(releases) + 1
Intent == IF intent = None THEN FreshNonce ELSE intent

ReadIntent ==
    /\ At("intent")
    /\ IF intent = Torn THEN Refused /\ UNCHANGED intent
       ELSE \/ intent' = Intent /\ Run("recover")
            \/ intent = None /\ kills < MaxKills /\ intent' = Torn /\ Refused
    /\ kills' = IF intent' = Torn /\ intent # Torn THEN kills + 1 ELSE kills
    /\ UNCHANGED <<forge, markers, draft, files, gates, prep, op, claims>>

Completable(i) == Live(i) /\ ~Edited(i)

Published(i) == Public(i)

\* The draft an earlier run recorded: gone, published already, edited, whole.
Recover ==
    /\ At("recover")
    /\ IF draft = None THEN Run("find") /\ UNCHANGED draft
       ELSE IF draft = Torn THEN Refused /\ UNCHANGED draft
       ELSE \/ ~Live(draft) /\ ~Published(draft) /\ draft' = None /\ Run("find")
            \/ /\ Published(draft) /\ UNCHANGED draft
               /\ IF Edited(draft) THEN Refused ELSE Run("drop_draft")
            \/ /\ Live(draft) /\ UNCHANGED draft
               /\ pub' = [pub EXCEPT !.id = draft,
                                     !.at = IF Completable(draft) THEN "resolve" ELSE "discard"]
    /\ UNCHANGED <<forge, markers, intent>> /\ Store

\* Mutant: a lost draft is not looked for.
NoneFound == {}
Found == {i \in DOMAIN releases : Live(i) /\ releases[i].nonce = intent}

\* Those that still name the tag and the commit.
Adoptable == {i \in Found : releases[i].edited # "target"}
Without(drafts) == [i \in DOMAIN releases |->
    IF i \in drafts THEN [releases[i] EXCEPT !.st = "deleted"] ELSE releases[i]]
NewDraft == [st |-> "draft", nonce |-> intent, edited |-> "no"]

\* A draft of the intent is adopted, or one is made; all others are deleted.
FindDrafts ==
    /\ At("find")
    /\ \/ \E i \in Adoptable :
              /\ releases' = Without(Found \ {i})
              /\ pub' = [pub EXCEPT !.at = "record", !.id = i]
       \/ /\ Adoptable = {} /\ Len(releases) < MaxReleases
          /\ releases' = Append(Without(Found), NewDraft)
          /\ pub' = [pub EXCEPT !.at = "record", !.id = Len(releases')]
    /\ UNCHANGED <<accepted, tag, touches, local>> /\ Store

RecordDraft ==
    /\ At("record")
    /\ \/ draft' = pub.id /\ Run("read_back") /\ UNCHANGED kills
       \/ kills < MaxKills /\ kills' = kills + 1 /\ draft' = Torn /\ Refused
    /\ UNCHANGED <<forge, markers, intent, files, gates, prep, op, claims>>

Compare(place, next) ==
    /\ At(place)
    /\ Run(IF Completable(pub.id) THEN next ELSE "discard")
    /\ UNCHANGED <<forge, local>> /\ Store

ResolveTag(place, next) ==
    /\ At(place)
    /\ Run(IF tag = "approved" THEN next ELSE "discard")
    /\ UNCHANGED <<forge, local>> /\ Store

ReadBack     == Compare("read_back", "resolve")
Resolve      == ResolveTag("resolve", "read_again")
ReadAgain    == Compare("read_again", "resolve_again")
ResolveAgain == ResolveTag("resolve_again", "publish")

\* Deleting what is not there fails, and the record stays for the next run.
Discard ==
    /\ At("discard")
    /\ IF Live(pub.id) THEN SetRelease(pub.id, "deleted") /\ Run("forget")
                       ELSE Refused /\ UNCHANGED releases
    /\ UNCHANGED <<accepted, tag, touches, local>> /\ Store

Forget ==
    /\ At("forget")
    /\ draft' = None /\ Refused
    /\ UNCHANGED <<forge, markers, intent>> /\ Store

PublishDraft ==
    /\ At("publish")
    /\ IF Live(pub.id) THEN SetRelease(pub.id, "public") /\ Run("drop_draft")
                       ELSE Refused /\ UNCHANGED releases
    /\ UNCHANGED <<accepted, tag, touches, local>> /\ Store

\* The record and the intent go, then the audit note, then the marker.
DropDraft ==
    /\ At("drop_draft")
    /\ draft' = None /\ Run("drop_intent")
    /\ UNCHANGED <<forge, markers, intent>> /\ Store

DropIntent ==
    /\ At("drop_intent")
    /\ intent' = None /\ Run("mark_release")
    /\ UNCHANGED <<forge, markers, draft>> /\ Store

MarkRelease == At("mark_release") /\ WriteMarker(2, NoRun)

KillPublish ==
    /\ ~At("idle") /\ kills < MaxKills
    /\ Refused /\ kills' = kills + 1
    /\ UNCHANGED <<forge, local, files, gates, prep, op, claims>>

----------------------------------------------------------------------------

Init ==
    /\ StoreInit
    /\ accepted = {} /\ tag = "none" /\ releases = <<>> /\ markers = {}
    /\ intent = None /\ draft = None /\ pub = NoRun /\ touches = 0

PublishNext ==
    \/ Publish \/ TagChild \/ CreateTag \/ MarkTag
    \/ ReleaseChild \/ ReadIntent \/ Recover \/ FindDrafts \/ RecordDraft
    \/ ReadBack \/ Resolve \/ ReadAgain \/ ResolveAgain \/ Discard \/ Forget
    \/ PublishDraft \/ DropDraft \/ DropIntent \/ MarkRelease \/ KillPublish

Next ==
    \/ StoreNext /\ UNCHANGED flowVars
    \/ \E c \in Children : Answer(c)
    \/ MoveTag
    \/ \E i \in DOMAIN releases : EditDraft(i)
    \/ PublishNext

Spec == Init /\ [][Next]_vars

----------------------------------------------------------------------------
(* Properties *)

\* A release goes public only with both of the owner's answers, at the
\* approved commit and with the prepared text, through every recovery and
\* adoption; what escapes is a change after the last read of the tag or of
\* the draft, while the publish request is on its way.
PublishedAsApproved ==
    [][\A i \in DOMAIN releases :
           ~Public(i) /\ releases'[i].st = "public" =>
               /\ accepted = Children
               /\ Edited(i) => "draft" \in pub.late
               /\ tag # "approved" => "tag" \in pub.late]_vars

\* A done marker stands for something done: the tag was pushed (others may
\* have moved it since), and, after it, a release went public.
MarkerTrue ==
    /\ 1 \in markers => tag # "none"
    /\ 2 \in markers => 1 \in markers /\ \E i \in DOMAIN releases : Public(i)

\* A draft that nobody touched is never an orphan: whichever call a run dies
\* at, the files it leaves lead the next run to it.
NoOrphanDraft ==
    \A i \in DOMAIN releases :
        Live(i) /\ ~Edited(i) => draft = i \/ intent = releases[i].nonce

\* What the flow records of the forge is true of it: a marker of a release that
\* is public, an intent or a record of every draft.
RecordsMatchForge == MarkerTrue /\ NoOrphanDraft


=============================================================================
