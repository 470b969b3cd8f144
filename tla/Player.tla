------------------------------- MODULE Player -------------------------------
(***************************************************************************)
(* The stream page of the Android application: src/pages/Stream.tsx, the    *)
(* view's StreamSession (StreamView.java, StreamSession.kt, the Session of  *)
(* Chiaki.kt) and the output to an external display                         *)
(* (ExternalDisplayController.kt).  JavaScript runs on a thread of its own; *)
(* all the rest happens on the main thread, in blocks that are posted:      *)
(* "posts" is its queue, "news" what is on its way to JavaScript.  Commands *)
(* of a view (stops) come outside of that order, and so do timers.          *)
(*                                                                         *)
(* Each page has one view and one StreamSession, all with the number of the *)
(* page.  A surface is "phone", "external" or "none"; where is what the     *)
(* decoder renders to.  Audio follows the picture and is left out, as are   *)
(* notifications, brightness, refresh rates and the wake lock.              *)
(* History: astray, the sessions that were started after their stop, or     *)
(* while they were switched to the external display.                        *)
(***************************************************************************)
EXTENDS Naturals, Sequences, FiniteSets

CONSTANTS
  Pages,        \* bound: how often a stream is opened
  Changes       \* bound: changes of surfaces and displays by the user

VARIABLES
  pages, page,                  \* pages so far; what becomes of each
  outputs, timers,              \* extActiveRef; pages whose output is to be enabled
  native, surface, external, where,   \* of the StreamSessions
  activeSession, resumes, stops,
  display, presentation,        \* presentation: none, shown, or ready with a surface
  posts, news, changes, astray

js == <<pages, page, outputs, timers>>
session == <<native, surface, external, where>>
screen == <<display, presentation>>
vars == <<js, session, activeSession, resumes, stops, screen, posts, news, changes, astray>>

All == 1 .. Pages
Post(kind, s) == [kind |-> kind, of |-> s]
News(s, active) == [to |-> s, active |-> active]
Everyone == 0                            \* an event, for the page that is open

Init ==
  /\ pages = 0 /\ page = [s \in All |-> "none"]
  /\ outputs = [s \in All |-> FALSE] /\ timers = {}
  /\ native = [s \in All |-> "none"] /\ surface = [s \in All |-> "none"]
  /\ external = [s \in All |-> FALSE] /\ where = [s \in All |-> "none"]
  /\ activeSession = 0 /\ resumes = {} /\ stops = {}
  /\ display \in BOOLEAN /\ presentation = "none"
  /\ posts = << >> /\ news = << >> /\ changes = 0 /\ astray = {}

SetSurface(s, to) == IF native[s] = "none" THEN where ELSE [where EXCEPT ![s] = to]

-----------------------------------------------------------------------------
(* JavaScript.                                                              *)
(* Another stream is not opened before the commands and blocks of the last  *)
(* one are through: its page takes longer than they do, but not longer than *)
(* the timers, which nobody clears (Stream.tsx:633, StreamView.java:410).   *)
Open ==
  /\ pages < Pages /\ \A s \in All : page[s] # "open"
  /\ stops = {} /\ posts = << >> /\ news = << >>
  /\ pages' = pages + 1
  /\ page' = [page EXCEPT ![pages'] = "open"]
  /\ activeSession' = pages'             \* initSession creates the StreamSession
  /\ posts' = Append(posts, Post("attach", pages'))
  /\ resumes' = resumes \cup {pages'}    \* after 1000 ms
  /\ UNCHANGED <<outputs, timers, session, stops, screen, news, changes, astray>>

Leave(s) ==
  /\ page' = [page EXCEPT ![s] = "left"]
  /\ stops' = stops \cup {s}             \* streamViewRef.current?.stopSession()

(* handleExit *)
Exit(s) ==
  /\ page[s] = "open" /\ Leave(s)
  /\ posts' = IF outputs[s] THEN Append(posts, Post("disable", s)) ELSE posts
  /\ outputs' = [outputs EXCEPT ![s] = FALSE]
  /\ UNCHANGED <<pages, timers, session, activeSession, resumes, screen, news, changes, astray>>

(* The session could not be created, or quit; the user confirms.            *)
Confirm(s) ==
  /\ page[s] = "open" /\ native[s] # "running" /\ s \notin resumes
  /\ Leave(s)
  /\ UNCHANGED <<pages, outputs, timers, session, activeSession, resumes, screen, posts, news,
                 changes, astray>>

(* The application goes into the background without picture in picture.     *)
Background(s) ==
  /\ page[s] = "open" /\ ~outputs[s]
  /\ Leave(s)
  /\ UNCHANGED <<pages, outputs, timers, session, activeSession, resumes, screen, posts, news,
                 changes, astray>>

(* The session is connected and the settings ask for the external display.  *)
Connected(s) ==
  /\ page[s] = "open" /\ native[s] = "running" /\ s \notin timers /\ changes < Changes
  /\ changes' = changes + 1
  /\ timers' = timers \cup {s}
  /\ UNCHANGED <<pages, page, outputs, session, activeSession, resumes, stops, screen, posts, news,
                 astray>>

EnableOutput(s) ==
  /\ s \in timers /\ timers' = timers \ {s}
  /\ posts' = IF display THEN Append(posts, Post("enable", s)) ELSE posts
  /\ UNCHANGED <<pages, page, outputs, session, activeSession, resumes, stops, screen, news, changes,
                 astray>>

(* handleStopExtOutput *)
DisableOutput(s) ==
  /\ page[s] = "open" /\ outputs[s] /\ changes < Changes
  /\ changes' = changes + 1
  /\ posts' = Append(posts, Post("disable", s))
  /\ UNCHANGED <<js, session, activeSession, resumes, stops, screen, news, astray>>

Hear ==
  /\ news # << >> /\ news' = Tail(news)
  /\ outputs' = [s \in All |->
       IF Head(news).to = s \/ (Head(news).to = Everyone /\ page[s] = "open")
       THEN Head(news).active ELSE outputs[s]]
  /\ UNCHANGED <<pages, page, timers, session, activeSession, resumes, stops, screen, posts, changes,
                 astray>>

-----------------------------------------------------------------------------
(* StreamSession on the main thread.                                        *)
Resume(s) ==
  /\ s \in resumes /\ resumes' = resumes \ {s}
  /\ \/ /\ native' = [native EXCEPT ![s] = "running"]
        /\ where' = [where EXCEPT ![s] = surface[s]]
        /\ astray' = IF activeSession # s \/ external[s] THEN astray \cup {s} ELSE astray
     \/ UNCHANGED <<native, where, astray>>     \* CreateError
  /\ UNCHANGED <<js, surface, external, activeSession, stops, screen, posts, news, changes>>

(* The session thread ends on its own.                                      *)
Quit(s) ==
  /\ native[s] = "running" /\ native' = [native EXCEPT ![s] = "quit"]
  /\ UNCHANGED <<js, surface, external, where, activeSession, resumes, stops, screen, posts, news,
                 changes, astray>>

\* Mutant: the StreamSession stays the active one.
ShutdownKept(s) ==
  /\ external' = [external EXCEPT ![s] = FALSE]
  /\ native' = [native EXCEPT ![s] = "none"] /\ where' = [where EXCEPT ![s] = "none"]
  /\ UNCHANGED activeSession
(* shutdown *)
Shutdown(s) ==
  /\ external' = [external EXCEPT ![s] = FALSE]
  /\ native' = [native EXCEPT ![s] = "none"] /\ where' = [where EXCEPT ![s] = "none"]
  /\ activeSession' = IF activeSession = s THEN 0 ELSE activeSession

Stop(s) ==
  /\ s \in stops /\ stops' = stops \ {s}
  /\ Shutdown(s)
  /\ UNCHANGED <<js, surface, resumes, screen, posts, news, changes, astray>>

\* Mutant: the decoder follows the phone's surface in any case.
FollowPhone(s, to) == where' = SetSurface(s, to)
(* surfaceChanged and surfaceDestroyed; handleSessionSetSurface and         *)
(* handleSessionClearSurface of the views that use a texture.               *)
Follow(s, to) == where' = IF external[s] THEN where ELSE SetSurface(s, to)

PhoneSurface(s) ==
  /\ page[s] # "none" /\ changes < Changes /\ changes' = changes + 1
  /\ surface' = [surface EXCEPT ![s] = IF @ = "none" THEN "phone" ELSE "none"]
  /\ Follow(s, surface'[s])
  /\ UNCHANGED <<js, native, external, activeSession, resumes, stops, screen, posts, news, astray>>

-----------------------------------------------------------------------------
(* The blocks posted to the main thread.                                    *)
Running(kind) == posts # << >> /\ Head(posts).kind = kind

(* attachToSurfaceView: the surface is there already, or not yet.           *)
Attach ==
  /\ Running("attach") /\ posts' = Tail(posts)
  /\ LET s == Head(posts).of
     IN \/ surface' = [surface EXCEPT ![s] = "phone"] /\ where' = SetSurface(s, "phone")
        \/ UNCHANGED <<surface, where>>
  /\ UNCHANGED <<js, native, external, activeSession, resumes, stops, screen, news, changes, astray>>

(* switchToExternal and switchToPhone.                                      *)
Switch ==
  /\ posts # << >> /\ Head(posts).kind \in {"external", "phone"} /\ posts' = Tail(posts)
  /\ LET s == Head(posts).of
         to == Head(posts).kind
     IN /\ external' = [external EXCEPT ![s] = to = "external"]
        /\ where' = SetSurface(s, IF to = "external" THEN to ELSE surface[s])
  /\ UNCHANGED <<js, native, surface, activeSession, resumes, stops, screen, news, changes, astray>>

(* A presentation that is shown already is taken for success.               *)
Enable ==
  /\ Running("enable") /\ posts' = Tail(posts)
  /\ LET s == Head(posts).of
     IN IF activeSession = 0 THEN UNCHANGED <<presentation, news>>
        ELSE IF presentation # "none"
        THEN news' = Append(news, News(s, TRUE)) /\ UNCHANGED presentation
        ELSE IF display
        THEN /\ presentation' = "shown"
             /\ news' = news \o <<News(Everyone, TRUE), News(s, TRUE)>>
        ELSE UNCHANGED <<presentation, news>>
  /\ UNCHANGED <<js, session, activeSession, resumes, stops, display, changes, astray>>

\* Mutant: the picture stays where it was.
ToPhoneNot == << >>
(* teardownPresentation and activeSession?.switchToPhone().                 *)
ToPhone == IF activeSession = 0 THEN << >> ELSE <<Post("phone", activeSession)>>

Disable ==
  /\ Running("disable")
  /\ presentation' = "none"
  /\ posts' = Tail(posts) \o ToPhone
  /\ news' = news \o <<News(Everyone, FALSE), News(Head(posts).of, FALSE)>>
  /\ UNCHANGED <<js, session, activeSession, resumes, stops, display, changes, astray>>

(* The display is removed: the listener posts a block.                      *)
Unplug ==
  /\ display /\ changes < Changes /\ changes' = changes + 1
  /\ display' = FALSE
  /\ posts' = Append(posts, Post("removed", 0))
  /\ UNCHANGED <<js, session, activeSession, resumes, stops, presentation, news, astray>>

Torn(rest) ==
  IF presentation = "none" THEN posts' = rest /\ UNCHANGED <<presentation, news>>
  ELSE /\ presentation' = "none"
       /\ posts' = rest \o ToPhone
       /\ news' = Append(news, News(Everyone, FALSE))

Removed ==
  /\ Running("removed") /\ Torn(Tail(posts))
  /\ UNCHANGED <<js, session, activeSession, resumes, stops, display, changes, astray>>

(* The system or the user closes the presentation.                          *)
Dismiss ==
  /\ presentation # "none" /\ changes < Changes /\ changes' = changes + 1
  /\ Torn(posts)
  /\ UNCHANGED <<js, session, activeSession, resumes, stops, display, astray>>

(* ExternalDisplayPresentation: the surface of the presentation is there.   *)
Ready ==
  /\ presentation = "shown" /\ presentation' = "ready"
  /\ posts' = IF activeSession = 0 THEN posts ELSE Append(posts, Post("external", activeSession))
  /\ UNCHANGED <<js, session, activeSession, resumes, stops, display, news, changes, astray>>

Block == Attach \/ Switch \/ Enable \/ Disable \/ Removed

Next ==
  \/ Open \/ Hear \/ Block \/ Ready \/ Unplug \/ Dismiss
  \/ \E s \in All :
       \/ Exit(s) \/ Confirm(s) \/ Background(s) \/ Connected(s)
       \/ EnableOutput(s) \/ DisableOutput(s)
       \/ Resume(s) \/ Quit(s) \/ Stop(s) \/ PhoneSurface(s)

Spec == Init /\ [][Next]_vars
-----------------------------------------------------------------------------
(* Type invariant. *)
TypeOK ==
  /\ pages \in 0 .. Pages /\ page \in [All -> {"none", "open", "left"}]
  /\ outputs \in [All -> BOOLEAN] /\ timers \subseteq All
  /\ native \in [All -> {"none", "running", "quit"}] /\ surface \in [All -> {"none", "phone"}]
  /\ external \in [All -> BOOLEAN] /\ where \in [All -> {"none", "phone", "external"}]
  /\ activeSession \in 0 .. Pages /\ resumes \subseteq All /\ stops \subseteq All
  /\ display \in BOOLEAN /\ presentation \in {"none", "shown", "ready"}
  /\ posts \in Seq([kind : {"attach", "external", "phone", "enable", "disable", "removed"},
                    of : 0 .. Pages])
  /\ news \in Seq([to : 0 .. Pages, active : BOOLEAN])
  /\ changes \in 0 .. Changes /\ astray \subseteq All

Settled == \A i \in 1 .. Len(posts) : posts[i].kind = "enable"

(* A session that runs is the active one, which the page will stop.         *)
Watched == \A s \in All : native[s] # "none" => s = activeSession \/ s \in astray

(* Once the switches are done, the decoder renders to the external display  *)
(* exactly when the session knows that it does, and else to the phone.      *)
RendersRight ==
  \A s \in All : Settled /\ native[s] # "none" /\ s \notin astray =>
    where[s] = IF external[s] THEN "external" ELSE surface[s]

(* ... and never to the surface of a presentation that is gone.             *)
NeverToGone ==
  \A s \in All : Settled /\ where[s] = "external" => presentation = "ready" \/ s \in astray

(* The picture is where a surface is, however quickly the user goes in and  *)
(* out of a stream and displays come and go (StreamSession.kt:550, 640).    *)
PlayerSound == Watched /\ RendersRight /\ NeverToGone
=============================================================================
