---------------------------- MODULE BrowserTools ----------------------------
(***************************************************************************)
(* PlaywrightBrowserProvider and the tools that share it.  Tool calls of   *)
(* several requests, and the runtime's start and stop, interleave at every *)
(* await.  A provider is started once and stopped once.                    *)
(*                                                                         *)
(* Left out: what pages hold, and the calls a policy refuses.              *)
(***************************************************************************)
EXTENDS FileTools, Functions

CONSTANTS
  Calls,      \* calls of browser tools
  Sessions,   \* the session ids they name
  Suffixed,   \* the names with a suffix
  Suggested,  \* the name that the URL of a download suggests
  Urls        \* [scheme, credentials, denied, listed, loopback]

\* The URL policy is the default one, or has a list of allowed domains.
CONSTANT AllowList

ASSUME BrowserAssumption == AllowList \in BOOLEAN

VARIABLES
  phase,      \* of start() and stop()
  alive,      \* the processes and objects of Playwright that run
  todo,       \* the sessions stop() has still to close
  pages,      \* _pages
  sessions,   \* the keys of _sessions
  open,       \* the pages that are open in the browser
  job,        \* what each call awaits
  place       \* its session, page and destination

provider == <<phase, alive, todo, pages, sessions, open>>
calls == <<job, place>>
browserVars == <<provider, calls>>

Objects == {"driver", "browser", "context"}
NoPages == [s \in {} |-> s]
Nowhere == [session |-> <<>>, page |-> <<>>, target |-> <<>>]

\* A page is named for the call that creates it.
Place(s, p, target) == [session |-> <<s>>, page |-> <<p>>, target |-> target]

BrowserTypeOK ==
  /\ phase \in {"new", "driver", "launch", "context", "up", "failed", "pages",
                "stopContext", "stopBrowser", "stopDriver", "broken", "down"}
  /\ alive \subseteq Objects
  /\ {DOMAIN pages, sessions, todo} \subseteq SUBSET Sessions
  /\ open \subseteq Calls
  /\ job \in [Calls -> {"new", "create", "act", "download", "size", "over"}]

InitBrowser ==
  /\ phase = "new"
  /\ alive = {}
  /\ todo = {}
  /\ pages = NoPages
  /\ sessions = {}
  /\ open = {}
  /\ job = [c \in Calls |-> "new"]
  /\ place = [c \in Calls |-> Nowhere]

-----------------------------------------------------------------------------
(* start and stop.                                                         *)

\* What is awaited in start, and what comes after it.
AfterStart == [driver |-> "launch", launch |-> "context", context |-> "up"]
Started == [driver |-> "driver", launch |-> "browser", context |-> "context"]

Start ==
  /\ phase = "new"
  /\ phase' = "driver"
  /\ UNCHANGED <<alive, todo, pages, sessions, open, calls, files>>

\* The await returns, or raises and the caller forgets the provider.
StartStep ==
  /\ phase \in DOMAIN Started
  /\ \/ phase' = AfterStart[phase] /\ alive' = alive \cup {Started[phase]}
     \/ phase' = "failed" /\ UNCHANGED alive
  /\ UNCHANGED <<todo, pages, sessions, open, calls, files>>

Stop ==
  /\ phase = "up"
  /\ phase' = "pages"
  /\ todo' = DOMAIN pages
  /\ UNCHANGED <<alive, pages, sessions, open, calls, files>>

\* Mutant: the page is forgotten, the session is not.
ForgetPage(s) ==
  /\ pages' = Restrict(pages, DOMAIN pages \ {s})
  /\ UNCHANGED sessions

\* close_session forgets the session before it awaits the page.
Forget(s) ==
  /\ pages' = Restrict(pages, DOMAIN pages \ {s})
  /\ sessions' = sessions \ {s}

\* close_session of the next session; the page closes before anything else
\* can be done with it, since nobody finds it any more but a call that has it.
ClosePage(s) ==
  /\ phase = "pages"
  /\ s \in todo
  /\ todo' = todo \ {s}
  /\ open' = open \ Range(Restrict(pages, {s} \cap DOMAIN pages))
  /\ Forget(s)
  /\ UNCHANGED <<phase, alive, calls, files>>

\* stop() forgets everything at its end.
ForgetAll ==
  /\ pages' = NoPages
  /\ sessions' = {}

AfterStop == [pages |-> "stopContext", stopContext |-> "stopBrowser",
              stopBrowser |-> "stopDriver", stopDriver |-> "down"]
Stopped == [stopContext |-> "context", stopBrowser |-> "browser",
            stopDriver |-> "driver"]

\* The pages are closed; then the context, with the pages left in it, the
\* browser and the driver.
StopStep ==
  /\ phase \in DOMAIN AfterStop
  /\ phase = "pages" => todo = {}
  /\ phase' = AfterStop[phase]
  /\ IF phase = "pages" THEN UNCHANGED alive ELSE alive' = alive \ {Stopped[phase]}
  /\ open' = IF phase = "stopContext" THEN {} ELSE open
  /\ IF phase = "stopDriver" THEN ForgetAll ELSE UNCHANGED <<pages, sessions>>
  /\ UNCHANGED <<todo, calls, files>>

\* An await of stop() raises; the runtime logs it and forgets the provider.
StopFails ==
  /\ phase \in DOMAIN AfterStop
  /\ phase' = "broken"
  /\ UNCHANGED <<alive, todo, pages, sessions, open, calls, files>>

-----------------------------------------------------------------------------
(* A tool call.                                                            *)

\* UrlPolicy.validate_url, _host_allowed
Accepts(u) ==
  /\ u.scheme \in {"http", "https"}
  /\ ~ u.credentials
  /\ ~ u.denied
  /\ u.listed \/ (~ AllowList /\ u.loopback)

Await(c, j) == job' = [job EXCEPT ![c] = j]

\* ensure_session, and the page operation if there is a session: target is
\* <<>>, or <<the file to download>>.
Work(target) == IF target = <<>> THEN "act" ELSE "download"

\* The provider still refers to its context, if only to a closed one.
Held == {"up", "pages", "stopContext", "stopBrowser", "stopDriver", "broken"}

\* The tools are registered when start() has returned.
Call(c, s, target) ==
  /\ job[c] = "new"
  /\ phase \in Held \cup {"down"}
  /\ IF s \in DOMAIN pages
     THEN /\ Await(c, Work(target))
          /\ place' = [place EXCEPT ![c] = Place(s, pages[s], target)]
     ELSE IF phase \in Held
     THEN /\ Await(c, "create")
          /\ place' = [place EXCEPT ![c] = Place(s, c, target)]
     ELSE Await(c, "over") /\ UNCHANGED place
  /\ UNCHANGED <<provider, files>>

\* browser_read, browser_click and browser_type.
Act(c) == \E s \in Sessions : Call(c, s, <<>>)

\* browser_open
Open(c) == \E u \in Urls, s \in Sessions : Accepts(u) /\ Call(c, s, <<>>)

\* Where browser_download would put the file: into a directory, or what
\* would be one, under the name that _suggested_filename finds in the URL.
Destination(at) ==
  IF at \in Directories \/ Last(at) \notin Suffixed THEN Append(at, Suggested) ELSE at

\* The places that pass the checks of browser_download but for its last.
Destinations ==
  LET targets == {Path("absolute", Destination(at)) : at \in EnsureWithin(Paths)}
  IN {at \in EnsureWithin(targets) : Front(at) \in Directories}

\* browser_download
Download(c) ==
  \E u \in Urls, s \in Sessions, at \in Destinations :
    Accepts(u) /\ ~ Exists(at) /\ Call(c, s, <<at>>)

\* new_page returns and create_session registers the page, over that of
\* another call that was faster; the operation is awaited at once.
Created(c) ==
  /\ job[c] = "create"
  /\ "context" \in alive
  /\ LET s == place[c].session[1]
     IN /\ pages' = [t \in DOMAIN pages \cup {s} |-> IF t = s THEN c ELSE pages[t]]
        /\ sessions' = sessions \cup {s}
  /\ open' = open \cup {c}
  /\ Await(c, Work(place[c].target))
  /\ UNCHANGED <<phase, alive, todo, place, files>>

\* The await raises: the tool answers with a failure.
Fails(c) ==
  /\ job[c] \in {"create", "act", "download", "size"}
  /\ Await(c, "over")
  /\ UNCHANGED <<provider, place, files>>

Acted(c) ==
  /\ job[c] = "act"
  /\ place[c].page[1] \in open
  /\ Await(c, "over")
  /\ UNCHANGED <<provider, place, files>>

\* The download is saved.
Saved(c) ==
  /\ job[c] = "download"
  /\ place[c].page[1] \in open
  /\ \E text \in Texts : Write(place[c].target[1], text)
  /\ Await(c, "size")
  /\ UNCHANGED <<provider, place>>

\* Its size is known; one that is too large fails the call.
Sized(c) ==
  /\ job[c] = "size"
  /\ Await(c, "over")
  /\ UNCHANGED <<provider, place, files>>

\* The request of the call is cancelled; new_page may have opened a page.
CancelCall(c) ==
  /\ job[c] \in {"create", "act", "download", "size"}
  /\ Await(c, "over")
  /\ \/ UNCHANGED open
     \/ job[c] = "create" /\ "context" \in alive /\ open' = open \cup {c}
  /\ UNCHANGED <<phase, alive, todo, pages, sessions, place, files>>

BrowserNext ==
  \/ Start \/ StartStep \/ Stop \/ StopStep \/ StopFails
  \/ \E s \in Sessions : ClosePage(s)
  \/ \E c \in Calls :
       \/ Act(c) \/ Open(c) \/ Download(c)
       \/ Created(c) \/ Fails(c) \/ Acted(c) \/ Saved(c) \/ Sized(c) \/ CancelCall(c)

-----------------------------------------------------------------------------
(* Properties.                                                             *)

\* has_session and create_session look at different tables, which must agree
\* at every await: a session without a page could neither be used nor made
\* again.
SessionsMatchPages == DOMAIN pages = sessions
=============================================================================
