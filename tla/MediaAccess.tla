----------------------------- MODULE MediaAccess -----------------------------
(***************************************************************************)
(* What a viewer with a media token is served: internal/mediahttp/         *)
(* handler.go, ReadManifest and ReadSegment of internal/playback/          *)
(* service.go, and the queries of internal/mediapg/media.go.               *)
(*                                                                         *)
(* A request verifies the token, loads the session, asks whether its user  *)
(* may still see the camera, fetches from the media server and, for a      *)
(* manifest, writes the segments it names: each a step of its own, while   *)
(* the session ends, its camera is replaced or disabled, memberships are   *)
(* revoked and farms shared and taken back.  One user's sessions of one    *)
(* camera are modelled; VideoPlayback has the life of sessions in full.    *)
(***************************************************************************)
EXTENDS Naturals, FiniteSets

CONSTANTS
    Views,        \* playback sessions
    Asks,         \* requests in flight
    MaxVersion    \* bound: source versions of the camera

ASSUME MediaAssumption == MaxVersion \in Nat \ {0}

VARIABLES
    view,    \* view[v]: the session's row
    lens,    \* the camera's row
    reach,  \* the camera's farm is the user's, or shared with the user
    clips,   \* video_segments: the session and the path of a segment
    ask      \* the requests

mediaRows == <<view, lens, reach, clips>>
mediaVars == <<mediaRows, ask>>

NoAsk == [pc |-> "none"]
NoView == [state |-> "none", version |-> 0, over |-> FALSE, valid |-> FALSE]
Path(version) == [of |-> version]

(***************************************************************************)
(* The session and its rights.                                             *)
(***************************************************************************)
IsOpen(row) == row.state \in {"pending", "ready"} /\ ~row.over

\* The camera is the one the session was opened for.
SourceCurrent(row, l) == l.enabled /\ l.version = row.version

\* The versions of user, tenant and membership are those of the session, and
\* the farm is within reach.
Permitted(row, s) == row.valid /\ s

\* Specification: everything a viewer needs holds at one moment.
Allowed(row, l, s) == row.state = "ready" /\ ~row.over /\ SourceCurrent(row, l) /\ Permitted(row, s)

(***************************************************************************)
(* Requests.                                                               *)
(***************************************************************************)
Leave(a) == ask' = [ask EXCEPT ![a] = NoAsk] /\ UNCHANGED mediaRows
GoOn(a, pc) == ask' = [ask EXCEPT ![a].pc = pc] /\ UNCHANGED mediaRows

\* The path names a token, a session and perhaps a segment; the token is the
\* session's and has not expired.
ServeHTTP(a) ==
    /\ ask[a] = NoAsk
    /\ \E v \in Views, c \in {{}} \cup {{x} : x \in clips} :
        /\ view[v].state # "none" /\ ~view[v].over
        /\ ask' = [ask EXCEPT ![a] = [pc |-> "load", view |-> v, clip |-> c, state |-> "none", got |-> 0,
                                      ok |-> Allowed(view[v], lens, reach)]]
    /\ UNCHANGED mediaRows

\* The first query of the store's AuthorizeMedia, and the camera.
LoadSession(a) ==
    /\ ask[a].pc = "load"
    /\ LET row == view[ask[a].view] IN
       IF SourceCurrent(row, lens) /\ ~row.over
         THEN /\ ask' = [ask EXCEPT ![a] = [@ EXCEPT !.pc = "authorize", !.state = row.state]]
              /\ UNCHANGED mediaRows
         ELSE Leave(a)

\* A pending session answers "too early", an ended one is forbidden.
MayWatch(state) == state = "ready"

\* Its second query, and what the service makes of the state it has read.
AuthorizeMedia(a) ==
    /\ ask[a].pc = "authorize"
    /\ IF Permitted(view[ask[a].view], reach) /\ MayWatch(ask[a].state)
         THEN GoOn(a, IF ask[a].clip = {} THEN "manifest" ELSE "resolve")
         ELSE Leave(a)

\* The media server's answer: the paths of its stream, which is the
\* session's.
FetchManifest(a) ==
    /\ ask[a].pc = "manifest"
    /\ ask' = [ask EXCEPT ![a] = [@ EXCEPT !.pc = "mappings", !.got = view[ask[a].view].version]]
    /\ UNCHANGED mediaRows

\* Faulty: the rows are written without another look at the session.
StillOpenUnchecked(v) == TRUE

StillOpen(v) == IsOpen(view[v])

\* rewriteManifest and CreateSegmentMappings: all the rows, or none and no
\* manifest.
CreateSegmentMappings(a) ==
    /\ ask[a].pc = "mappings"
    /\ LET v == ask[a].view IN
       IF StillOpen(v)
         THEN /\ clips' = clips \cup {[view |-> v, path |-> Path(ask[a].got)]}
              /\ ask' = [ask EXCEPT ![a].pc = "served"]
              /\ UNCHANGED <<view, lens, reach>>
         ELSE Leave(a)

OfSession(a, c) == c.view = ask[a].view

\* One query: the segment, its session, the camera and the rights.
ResolveSegmentMapping(a) ==
    /\ ask[a].pc = "resolve"
    /\ \E c \in ask[a].clip :
        LET row == view[c.view] IN
        IF OfSession(a, c) /\ IsOpen(row) /\ SourceCurrent(row, lens) /\ Permitted(row, reach)
          THEN /\ ask' = [ask EXCEPT ![a] = [@ EXCEPT !.pc = "segment", !.got = c.path.of]]
               /\ UNCHANGED mediaRows
          ELSE Leave(a)

FetchSegment(a) == ask[a].pc = "segment" /\ GoOn(a, "served")

\* Answered; or a query or the media server fails, or time is up.
EndAsk(a) == ask[a] # NoAsk /\ Leave(a)

(***************************************************************************)
(* What happens meanwhile.  A request remembers whether there was a moment *)
(* since its arrival at which it was allowed.                              *)
(***************************************************************************)
Notice ==
    ask' = [a \in Asks |->
        IF ask[a] = NoAsk THEN NoAsk
        ELSE [ask[a] EXCEPT !.ok = @ \/ Allowed(view'[ask[a].view], lens', reach')]]

\* RequestPlayback.
OpenView(v) ==
    /\ view[v] = NoView /\ lens.enabled /\ reach
    /\ view' = [view EXCEPT ![v] = [state |-> "pending", version |-> lens.version, over |-> FALSE, valid |-> TRUE]]
    /\ UNCHANGED <<lens, reach, clips>> /\ Notice

\* FinishJob: the stream runs, or it could not be started.
StartView(v) ==
    /\ view[v].state = "pending"
    /\ \E s \in {"ready", "failed"} : view' = [view EXCEPT ![v].state = s]
    /\ UNCHANGED <<lens, reach, clips>> /\ Notice

\* StopPlayback.
StopView(v) ==
    /\ IsOpen(view[v])
    /\ view' = [view EXCEPT ![v].state = "revoked"]
    /\ UNCHANGED <<lens, reach, clips>> /\ Notice

\* expires_at passes.
ExpireView(v) ==
    /\ view[v].state # "none" /\ ~view[v].over
    /\ view' = [view EXCEPT ![v].over = TRUE]
    /\ UNCHANGED <<lens, reach, clips>> /\ Notice

\* The camera is replaced or disabled, and its sessions with it.
ChangeLens ==
    /\ \/ lens.version < MaxVersion /\ lens' = [enabled |-> TRUE, version |-> lens.version + 1]
       \/ lens.enabled /\ lens' = [lens EXCEPT !.enabled = FALSE]
    /\ view' = [v \in Views |->
        IF view[v].state \in {"pending", "ready"} THEN [view[v] EXCEPT !.state = "revoked"] ELSE view[v]]
    /\ UNCHANGED <<reach, clips>> /\ Notice

\* A password, a tenant or a membership changes, and a version with it.
Revoke ==
    /\ \E v \in Views : view[v].valid
    /\ view' = [v \in Views |-> [view[v] EXCEPT !.valid = FALSE]]
    /\ UNCHANGED <<lens, reach, clips>> /\ Notice

\* The farm is shared or taken back, which leaves every version alone.
Share == reach' = ~reach /\ UNCHANGED <<view, lens, clips>> /\ Notice

(***************************************************************************)
(* The specification.                                                      *)
(***************************************************************************)
MediaInit ==
    /\ view = [v \in Views |-> NoView]
    /\ lens = [enabled |-> TRUE, version |-> 1]
    /\ reach = TRUE /\ clips = {}
    /\ ask = [a \in Asks |-> NoAsk]

MediaNext ==
    \/ \E a \in Asks :
        \/ ServeHTTP(a) \/ LoadSession(a) \/ AuthorizeMedia(a) \/ FetchManifest(a)
        \/ CreateSegmentMappings(a) \/ ResolveSegmentMapping(a) \/ FetchSegment(a) \/ EndAsk(a)
    \/ \E v \in Views : OpenView(v) \/ StartView(v) \/ StopView(v) \/ ExpireView(v)
    \/ ChangeLens \/ Revoke \/ Share

MediaSpec == MediaInit /\ [][MediaNext]_mediaVars

(***************************************************************************)
(* Properties.                                                             *)
(***************************************************************************)
\* The rows are of their types; segments are known only of sessions whose
\* stream has run.
MediaTypeOK ==
    /\ view \in [Views -> [state : {"none", "pending", "ready", "revoked", "failed"},
                           version : 0..MaxVersion, over : BOOLEAN, valid : BOOLEAN]]
    /\ lens \in [enabled : BOOLEAN, version : 1..MaxVersion] /\ reach \in BOOLEAN
    /\ \A c \in clips : view[c.view].state \in {"ready", "revoked"} /\ c.path = Path(view[c.view].version)

\* Whoever is served a manifest or a segment was allowed to see it at one
\* moment since the request arrived: session, camera and rights together,
\* although they are asked for one after the other.
ServedWasAllowed == \A a \in Asks : ask[a].pc = "served" => ask[a].ok

\* A segment that is served is of the stream of the session whose token was
\* shown, whatever segment the request names.
SegmentOfItsSession ==
    \A a \in Asks : ask[a].pc = "served" =>
        /\ ask[a].got = view[ask[a].view].version
        /\ \A c \in ask[a].clip : c.view = ask[a].view

\* What is served is of the session that asked and was allowed, although session,
\* camera, rights and segment are looked up one after the other.
ServedAgrees == MediaTypeOK /\ ServedWasAllowed /\ SegmentOfItsSession
=============================================================================
