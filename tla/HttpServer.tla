----------------------------- MODULE HttpServer -----------------------------
(***************************************************************************)
(* The remote search server (src/server/http_server.py) and the main       *)
(* window that starts, stops and replaces it when the settings change      *)
(* (MainWindow._apply_http_server_settings).                               *)
(*                                                                         *)
(* A server is a listening socket, one thread that accepts connections     *)
(* (and performs the TLS handshake inside accept), and one daemon thread   *)
(* per request.  Each server has a handler class of its own, hence a token *)
(* and a session table of its own; the rate limiter is shared by all of    *)
(* them.  Stopping a server does not wait for its request threads: they go *)
(* on, with the class they were started with.                              *)
(*                                                                         *)
(* A clock counts in units in which WINDOW, CLEANUP_INTERVAL and TTL are   *)
(* small; monotonic and wall clock are the same.  What a search returns,   *)
(* the wording of the pages and the audit records are left out.  No caller *)
(* in src/ passes shared_config, so _apply_acl leaves the results alone.   *)
(***************************************************************************)
EXTENDS Integers, Sequences, FiniteSets

CONSTANTS Client,            \* addresses requests come from
          Req,               \* request threads
          Token,             \* values of the setting http_auth_token
          NoToken,           \* the empty token: no authentication
          Offered,           \* the configurations the settings dialog may set
          WINDOW, MAX_REQUESTS, CLEANUP_INTERVAL, TTL,
          MaxTime,           \* bound on the clock
          MaxServers,        \* bound on the servers started
          MaxSessions,       \* bound on the sessions minted
          MaxRequests        \* bound on the connections made

ASSUME HttpAssumption ==
    /\ WINDOW \in Nat \ {0} /\ MAX_REQUESTS \in Nat \ {0} /\ TTL \in Nat \ {0}
    /\ CLEANUP_INTERVAL \in Nat /\ WINDOW <= CLEANUP_INTERVAL
    /\ NoToken \notin Token
    /\ {MaxTime, MaxServers, MaxSessions, MaxRequests} \subseteq Nat

NoConfig == [on |-> FALSE, token |-> NoToken, https |-> FALSE]
Config == [on : {TRUE}, token : Token \cup {NoToken}, https : BOOLEAN] \cup {NoConfig}
ASSUME OfferedAssumption == Offered \subseteq Config

Server == 1..MaxServers
Session == 1..MaxSessions
None == 0

VARIABLES
    now,            \* time.monotonic() and time.time()
    hits,           \* _RateLimiter._hits: address -> admitted time stamps
    lastCleanup,    \* _RateLimiter._last_cleanup
    config,         \* the settings _apply_http_server_settings reads
    gui,            \* what the event loop is doing: idle, stop, start
    server,         \* MainWindow._http_server, or None
    serverConfig,   \* MainWindow._http_server_config, or NoConfig
    started,        \* the configurations of the servers started so far
    accepting,      \* the accept loop: poll, or the request in its TLS handshake
    sessions,       \* the sessions minted: [server, expiry, live]
    st,             \* how far each request thread is
    stamp,          \* the now of allow, while it waits for the lock
    req,            \* what each request asks for and presents
    arrivals,       \* connections made so far
    admitted,       \* history: the time stamps the limiter let through
    newest          \* history: the latest time stamp used under the limiter's lock

limiter == <<hits, lastCleanup, admitted, newest>>
control == <<config, gui, server, serverConfig, started>>
threads == <<st, stamp, req>>
vars == <<now, limiter, control, accepting, sessions, threads, arrivals>>

NoRequest == [kind |-> "none"]

-----------------------------------------------------------------------------
\* The rate limiter

\* [t for t in stamps if t > cutoff].  A stamp carries the number of its request:
\* the code's lists keep two stamps that are equal.
After(stamps, cutoff) == {e \in stamps : e.t > cutoff}

\* The table after the periodic cleanup, when one is due at time t.
Cleaned(t) ==
    IF t - lastCleanup > CLEANUP_INTERVAL
    THEN [c \in Client |-> After(hits[c], t - WINDOW)]
    ELSE hits

\* Mutant of Below: one request too many.
AtMost(stamps) == Cardinality(stamps) <= MAX_REQUESTS

\* What allow(ip) lets through.
Below(stamps) == Cardinality(stamps) < MAX_REQUESTS

\* The time stamps of ip that count at time t: allow's own list.
Counted(ip, t) == After(Cleaned(t)[ip], t - WINDOW)

-----------------------------------------------------------------------------
\* Sessions: the table of server v holds the live sessions minted by it.

Table(v) == {s \in DOMAIN sessions : sessions[s].server = v /\ sessions[s].live}

\* Mutant of _session_valid: the expiry is not looked at.
NeverExpires(v, s) == s \in Table(v)

\* _session_valid: the session is in the table and has not expired.
_session_valid(v, s) == s \in Table(v) /\ sessions[s].expiry > now

\* The sessions _prune_sessions_locked removes from the table of server v.
Expired(v) == {s \in Table(v) : sessions[s].expiry <= now}

\* The sessions once those of a set have left their table.
Removed(set) == [s \in DOMAIN sessions |->
                    [server |-> sessions[s].server, expiry |-> sessions[s].expiry,
                     live |-> sessions[s].live /\ s \notin set]]

\* Not a session of server v any more: expired, logged out, or of another server.
Ended(v, s) ==
    \/ s = None
    \/ sessions[s].server # v
    \/ ~sessions[s].live
    \/ sessions[s].expiry <= now

\* _check_auth: no token is asked for, the right one is presented, or the
\* cookie names a valid session.
_check_auth(r) ==
    \/ started[req[r].server].token = NoToken
    \/ req[r].token = started[req[r].server].token
    \/ _session_valid(req[r].server, req[r].cookie)

-----------------------------------------------------------------------------
Init ==
    /\ now = 0
    /\ hits = [c \in Client |-> {}] /\ lastCleanup = 0
    /\ config \in Offered
    /\ gui = IF config.on THEN "start" ELSE "idle"
    /\ server = None /\ serverConfig = NoConfig /\ started = << >>
    /\ accepting = "poll"
    /\ sessions = << >>
    /\ st = [r \in Req |-> "idle"] /\ stamp = [r \in Req |-> 0]
    /\ req = [r \in Req |-> NoRequest]
    /\ arrivals = 0
    /\ admitted = [c \in Client |-> {}] /\ newest = 0

Tick ==
    /\ now < MaxTime
    /\ now' = now + 1
    /\ UNCHANGED <<limiter, control, accepting, sessions, threads, arrivals>>

-----------------------------------------------------------------------------
\* The main window.  Only the event loop runs these steps.

\* Mutant: a running server is left alone whatever has changed.
KeepRunning(c) ==
    CASE server # None /\ ~c.on -> "stop"
      [] server = None /\ c.on -> "start"
      [] OTHER -> "idle"

\* What _apply_http_server_settings does next under the settings c: stop the server
\* that runs, start one, or nothing.
_apply_http_server_settings(c) ==
    CASE server # None /\ ~(c.on /\ serverConfig = c) -> "stop"
      [] server = None /\ c.on -> "start"
      [] OTHER -> "idle"

\* The settings dialog is applied.
_on_settings_changed ==
    /\ gui = "idle" /\ Len(started) < MaxServers
    /\ config' \in Offered
    /\ gui' = _apply_http_server_settings(config')
    /\ UNCHANGED <<now, limiter, server, serverConfig, started, accepting, sessions, threads,
                   arrivals>>

\* Mutant of stop: the server's thread is never told to end.
WaitForThread ==
    /\ gui = "stop" /\ accepting = "poll" /\ server = None
    /\ gui' = "idle"
    /\ UNCHANGED <<now, limiter, config, server, serverConfig, started, accepting, sessions,
                   req, arrivals>>

\* QuickFindHTTPServer.stop: shutdown() returns once the accept loop polls, so
\* not while it performs a handshake; then the socket is closed.
stop ==
    /\ gui = "stop" /\ accepting = "poll"
    /\ server' = None /\ serverConfig' = NoConfig
    /\ gui' = IF config.on THEN "start" ELSE "idle"
    /\ UNCHANGED <<now, limiter, config, started, accepting, sessions, threads, arrivals>>

\* QuickFindHTTPServer.start: a new server, or none when the address cannot be
\* bound or the certificate cannot be loaded.
start ==
    /\ gui = "start"
    /\ gui' = "idle"
    /\ \/ /\ Len(started) < MaxServers
          /\ started' = Append(started, config)
          /\ server' = Len(started')
          /\ serverConfig' = config
       \/ /\ server' = None
          /\ UNCHANGED <<serverConfig, started>>
    /\ UNCHANGED <<now, limiter, config, accepting, sessions, threads, arrivals>>

-----------------------------------------------------------------------------
\* Connections and requests

\* What a request asks for: a search or one of the other protected pages, the login
\* form's POST /auth, POST /logout, or an asset of the installed web application.
Kind == {"search", "auth", "logout", "asset"}

\* The client's side of a request: what it asks for and what it presents.  The
\* history field dead says that the session it names had ended before it came.
NewRequest(ip, kind, token, cookie) ==
    [ip |-> ip, kind |-> kind, token |-> token, cookie |-> cookie,
     server |-> server, id |-> arrivals + 1,
     dead |-> Ended(server, cookie)]

\* The thread of r ends.
Ends(r) ==
    /\ st' = [st EXCEPT ![r] = "idle"]
    /\ req' = [req EXCEPT ![r] = NoRequest]
    /\ UNCHANGED stamp

\* A client connects while the socket listens and the accept loop has not been
\* told to end.  Over HTTPS accept performs the handshake before it returns, so no
\* other connection is accepted meanwhile.
Connect(r) ==
    /\ server # None /\ gui # "stop" /\ accepting = "poll" /\ arrivals < MaxRequests
    /\ st[r] = "idle"
    /\ \E ip \in Client, kind \in Kind :
         \E token \in Token \cup {NoToken}, cookie \in (DOMAIN sessions) \cup {None} :
            /\ token = NoToken \/ cookie = None
            /\ kind = "auth" => token # NoToken
            /\ kind = "logout" => cookie # None
            /\ kind = "asset" => token = NoToken /\ cookie = None
            /\ req' = [req EXCEPT ![r] = NewRequest(ip, kind, token, cookie)]
    /\ st' = [st EXCEPT ![r] = "arrived"]
    /\ accepting' = IF started[server].https THEN r ELSE "poll"
    /\ arrivals' = arrivals + 1
    /\ UNCHANGED <<now, limiter, control, sessions, stamp>>

\* The handshake ends: the request thread is started, or the connection dropped.
Handshake ==
    /\ accepting # "poll"
    /\ UNCHANGED threads \/ Ends(accepting)
    /\ accepting' = "poll"
    /\ UNCHANGED <<now, limiter, control, sessions, arrivals>>

\* allow reads the clock before it takes the lock.
ReadClock(r) ==
    /\ st[r] = "arrived" /\ accepting # r
    /\ st' = [st EXCEPT ![r] = "stamped"]
    /\ stamp' = [stamp EXCEPT ![r] = now]
    /\ UNCHANGED <<now, limiter, control, accepting, sessions, req, arrivals>>

\* allow under the lock: the cleanup, the pruned list of the address, and its verdict.
allow(r, verdict) ==
    LET ip   == req[r].ip
        t    == stamp[r]
        mine == [id |-> req[r].id, t |-> t]
        due  == t - lastCleanup > CLEANUP_INTERVAL
    IN /\ st[r] = "stamped"
       /\ verdict = Below(Counted(ip, t))
       /\ hits' = [Cleaned(t) EXCEPT ![ip] =
                      IF verdict THEN Counted(ip, t) \cup {mine} ELSE Counted(ip, t)]
       /\ lastCleanup' = IF due THEN t ELSE lastCleanup
       /\ admitted' = IF verdict THEN [admitted EXCEPT ![ip] = @ \cup {mine}] ELSE admitted
       /\ newest' = IF t > newest THEN t ELSE newest

\* The request is let through ...
Admit(r) ==
    /\ allow(r, TRUE)
    /\ st' = [st EXCEPT ![r] = "admitted"]
    /\ stamp' = [stamp EXCEPT ![r] = 0]
    /\ UNCHANGED <<now, control, accepting, sessions, req, arrivals>>

\* ... or refused: 429.
Refuse(r) ==
    /\ allow(r, FALSE)
    /\ st' = [st EXCEPT ![r] = "idle"]
    /\ stamp' = [stamp EXCEPT ![r] = 0]
    /\ req' = [req EXCEPT ![r] = NoRequest]
    /\ UNCHANGED <<now, control, accepting, sessions, arrivals>>

\* do_GET: the request is authenticated, and its cookie's session is removed from
\* the table when it has expired; or the login page or a 401 is sent.
do_GET(r) ==
    /\ st[r] = "admitted" /\ req[r].kind = "search"
    /\ IF _check_auth(r)
       THEN st' = [st EXCEPT ![r] = "searching"] /\ UNCHANGED <<stamp, req>>
       ELSE Ends(r)
    /\ sessions' = IF \/ started[req[r].server].token \in {NoToken, req[r].token}
                   THEN sessions
                   ELSE Removed(Expired(req[r].server) \cap {req[r].cookie})
    /\ UNCHANGED <<now, limiter, control, accepting, arrivals>>

\* do_GET: the manifest, the icon and the service worker need no session.
Asset(r) ==
    /\ st[r] = "admitted" /\ req[r].kind = "asset"
    /\ Ends(r)
    /\ UNCHANGED <<now, limiter, control, accepting, sessions, arrivals>>

\* _handle_auth_post: 404 without authentication, 401 for a wrong token, else a
\* session; _create_session first removes the expired ones.  A post from another
\* origin or with a body too long is rejected whatever its token.
_handle_auth_post(r) ==
    LET v == req[r].server
    IN /\ st[r] = "admitted" /\ req[r].kind = "auth"
       /\ \/ /\ started[v].token # NoToken /\ req[r].token = started[v].token
             /\ Len(sessions) < MaxSessions
             /\ sessions' = Append(Removed(Expired(v)),
                                   [server |-> v, expiry |-> now + TTL, live |-> TRUE])
          \/ UNCHANGED sessions
       /\ Ends(r)
       /\ UNCHANGED <<now, limiter, control, accepting, arrivals>>

\* _handle_logout: the session of the cookie leaves the server's table.
_handle_logout(r) ==
    /\ st[r] = "admitted" /\ req[r].kind = "logout"
    /\ sessions' = Removed(Table(req[r].server) \cap {req[r].cookie})
    /\ Ends(r)
    /\ UNCHANGED <<now, limiter, control, accepting, arrivals>>

\* The response is written and the connection closed.
Answer(r) ==
    /\ st[r] = "searching"
    /\ Ends(r)
    /\ UNCHANGED <<now, limiter, control, accepting, sessions, arrivals>>

-----------------------------------------------------------------------------
Window == _on_settings_changed \/ stop \/ start

Thread(r) ==
    \/ ReadClock(r) \/ Admit(r) \/ Refuse(r)
    \/ do_GET(r) \/ Asset(r) \/ _handle_auth_post(r) \/ _handle_logout(r) \/ Answer(r)

Next == Tick \/ Window \/ Handshake \/ \E r \in Req : Connect(r) \/ Thread(r)

Spec == Init /\ [][Next]_vars

\* The event loop runs until a handler returns, and shutdown's poll is seen: the
\* window's own steps are fair.  Nothing makes a client finish its handshake.
FairSpec ==
    Spec /\ WF_vars(stop) /\ WF_vars(start)

-----------------------------------------------------------------------------
Stamp == 0..MaxTime
Entry == [id : 1..MaxRequests, t : Stamp]
Request ==
    [ip : Client, kind : Kind, token : Token \cup {NoToken}, cookie : Session \cup {None},
     server : Server, id : 1..MaxRequests, dead : BOOLEAN]

\* The variables hold what their declarations say.
TypeOK ==
    /\ now \in Stamp /\ lastCleanup \in Stamp /\ newest \in Stamp
    /\ \A table \in {hits, admitted} : table \in [Client -> SUBSET Entry]
    /\ config \in Config /\ gui \in {"idle", "stop", "start"}
    /\ server \in {None, Len(started)} /\ serverConfig \in Config
    /\ started \in Seq(Config) /\ Len(started) <= MaxServers
    /\ accepting \in Req \cup {"poll"}
    /\ sessions \in Seq([server : Server, expiry : Nat, live : BOOLEAN])
    /\ Len(sessions) <= MaxSessions
    /\ st \in [Req -> {"idle", "arrived", "stamped", "admitted", "searching"}]
    /\ stamp \in [Req -> Stamp]
    /\ req \in [Req -> Request \cup {NoRequest}]
    /\ \A r \in Req : st[r] # "idle" => req[r] \in Request
    /\ arrivals \in 0..MaxRequests

\* The limiter is exact for every request that is not overtaken under its lock by
\* one that read the clock later: it is refused if and only if MAX_REQUESTS
\* requests of its address were let through in the WINDOW before it, whatever was
\* pruned in between for this address or for others.
LimiterExact ==
    [][\A r \in Req :
         LET t == stamp[r]
             n == Cardinality(After(admitted[req[r].ip], t - WINDOW))
         IN st[r] = "stamped" /\ t >= newest =>
                /\ st'[r] = "admitted" => n < MAX_REQUESTS
                /\ st'[r] = "idle" => n >= MAX_REQUESTS]_vars

\* A search is answered only to a request that presents the token of the server it
\* reached, or a session this server minted that had neither expired nor been
\* logged out when the request came, whichever logins, logouts, expiries and
\* restarts happen while it waits.
AnsweredSignedIn ==
    \A r \in Req : st[r] = "searching" =>
        \/ started[req[r].server].token \in {NoToken, req[r].token}
        \/ ~req[r].dead

\* Whenever the event loop is free, the server that listens, if any, is the one
\* the settings ask for, and the configuration remembered is its own.
ServerCurrent ==
    /\ gui = "idle" /\ server # None => started[server] = config
    /\ server # None => serverConfig = started[server]
    /\ server = None => serverConfig = NoConfig

\* The handler of a settings change returns, unless a client holds the accept loop
\* in a handshake for ever: shutdown waits for that thread, and the event loop
\* with it.
SettingsServed ==
    [](gui # "idle" => <>(gui = "idle" \/ [](accepting # "poll")))

=============================================================================
