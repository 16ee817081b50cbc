-------------------------- MODULE HttpServerProofs --------------------------
(***************************************************************************)
(* Proofs about HttpServer for any numbers of clients, threads, servers,   *)
(* sessions and requests: the types, the exactness of the rate limiter,    *)
(* the server the settings ask for, and the requests that are answered.    *)
(* The limiter's table is pruned by whichever request holds the lock, with *)
(* the time that request read before it; the invariant says what survives: *)
(* every admitted stamp that a request which is not overtaken can still    *)
(* count.  A session that has ended stays ended, whatever is minted,       *)
(* pruned or logged out after it; so one that _check_auth finds valid was  *)
(* valid when its request came.                                            *)
(***************************************************************************)
EXTENDS HttpServer, SequenceTheorems, FiniteSetTheorems, TLAPS

\* The limiter forgets no admitted stamp that is younger than WINDOW at the latest
\* time it was asked about, and remembers only admitted ones.
HitsKept ==
    \A c \in Client : /\ hits[c] \subseteq admitted[c]
                      /\ After(admitted[c], newest - WINDOW) \subseteq hits[c]

USE HttpAssumption, OfferedAssumption

\* A new record is a request of the declared type.
LEMMA NewRequestTyped ==
    ASSUME TypeOK, server # None, arrivals < MaxRequests,
           NEW ip \in Client, NEW kind \in Kind, NEW token \in Token \cup {NoToken},
           NEW cookie \in (DOMAIN sessions) \cup {None}
    PROVE  NewRequest(ip, kind, token, cookie) \in Request
<1>1. server \in Server
  BY DEF TypeOK, Server, None
<1>2. cookie \in Session \cup {None}
  BY DEF TypeOK, Session, None
<1>3. arrivals + 1 \in 1..MaxRequests
  BY DEF TypeOK
<1>4. Ended(server, cookie) \in BOOLEAN
  BY DEF Ended
<1> QED
  BY <1>1, <1>2, <1>3, <1>4 DEF NewRequest, Request

\* Removing sessions keeps the type and the length of the sequence.
LEMMA RemovedTyped ==
    ASSUME TypeOK, NEW S
    PROVE  /\ Removed(S) \in Seq([server : Server, expiry : Nat, live : BOOLEAN])
           /\ Len(Removed(S)) = Len(sessions)
<1> DEFINE Rec == [server : Server, expiry : Nat, live : BOOLEAN]
<1>1. sessions \in Seq(Rec)
  BY DEF TypeOK
<1>2. Len(sessions) \in Nat /\ DOMAIN sessions = 1..Len(sessions)
  BY <1>1
<1> DEFINE new(s) == [server |-> sessions[s].server, expiry |-> sessions[s].expiry,
                      live |-> sessions[s].live /\ s \notin S]
<1>3. ASSUME NEW s \in 1..Len(sessions)
      PROVE  new(s) \in Rec
  <2>1. sessions[s] \in Rec
    BY <1>1, <1>3, ElementOfSeq
  <2>2. (sessions[s].live /\ s \notin S) \in BOOLEAN
    OBVIOUS
  <2> QED
    BY <2>1, <2>2
<1>4. Removed(S) = [s \in 1..Len(sessions) |-> new(s)]
  BY <1>2 DEF Removed
<1> HIDE DEF new, Rec
<1>5. [s \in 1..Len(sessions) |-> new(s)] \in Seq(Rec)
  BY <1>2, <1>3
<1>6. Len([s \in 1..Len(sessions) |-> new(s)]) = Len(sessions)
  BY <1>2
<1> QED
  BY <1>4, <1>5, <1>6 DEF Rec

\* allow keeps the types of the limiter.
LEMMA AllowTyped ==
    ASSUME TypeOK, NEW r \in Req, NEW verdict, allow(r, verdict)
    PROVE  /\ lastCleanup' \in Stamp /\ newest' \in Stamp
           /\ hits' \in [Client -> SUBSET Entry] /\ admitted' \in [Client -> SUBSET Entry]
<1> DEFINE ip == req[r].ip
           t  == stamp[r]
           mine == [id |-> req[r].id, t |-> t]
<1>1. ip \in Client /\ t \in Stamp /\ mine \in Entry
  BY DEF TypeOK, allow, Request, Entry
<1>2. hits \in [Client -> SUBSET Entry] /\ admitted \in [Client -> SUBSET Entry]
  BY DEF TypeOK
<1>3. Cleaned(t) \in [Client -> SUBSET Entry]
  BY <1>2 DEF Cleaned, After
<1>4. Counted(ip, t) \in SUBSET Entry
  BY <1>1, <1>3 DEF Counted, After
<1>5. hits' \in [Client -> SUBSET Entry] /\ admitted' \in [Client -> SUBSET Entry]
  BY <1>1, <1>2, <1>3, <1>4 DEF allow
<1> QED
  BY <1>1, <1>5 DEF allow, TypeOK

\* Every variable keeps its type: THEOREM for any numbers of clients, threads,
\* servers, sessions and requests.
THEOREM TypeCorrect == Spec => []TypeOK
<1>1. Init => TypeOK
  <2> SUFFICES ASSUME Init
               PROVE  TypeOK
    OBVIOUS
  <2>1. config \in Config /\ NoConfig \in Config
    BY DEF Init, Config
  <2>2. started \in Seq(Config) /\ Len(started) = 0
    BY DEF Init
  <2>3. sessions \in Seq([server : Server, expiry : Nat, live : BOOLEAN]) /\ Len(sessions) = 0
    BY DEF Init
  <2>4. 0 \in Stamp /\ 0 \in 0..MaxRequests
    BY DEF Stamp
  <2>5. gui \in {"idle", "stop", "start"}
    BY DEF Init
  <2> QED
    BY <2>1, <2>2, <2>3, <2>4, <2>5 DEF Init, TypeOK, None
<1>2. TypeOK /\ [Next]_vars => TypeOK'
  <2> SUFFICES ASSUME TypeOK, [Next]_vars
               PROVE  TypeOK'
    OBVIOUS
  <2>1. CASE Tick
    BY <2>1 DEF Tick, TypeOK, Stamp, limiter, control, threads
  <2>2. CASE _on_settings_changed
    BY <2>2 DEF _on_settings_changed, _apply_http_server_settings, TypeOK, limiter, threads
  <2>3. CASE stop
    BY <2>3 DEF stop, TypeOK, limiter, threads, Config
  <2>4. CASE start
    <3>1. started' \in Seq(Config) /\ Len(started') <= MaxServers
      <4>1. config \in Config /\ started \in Seq(Config) /\ Len(started) \in Nat
        BY DEF TypeOK
      <4>2. /\ Append(started, config) \in Seq(Config)
            /\ Len(Append(started, config)) = Len(started) + 1
        BY <4>1, AppendProperties
      <4>3. MaxServers \in Nat
        BY HttpAssumption
      <4>4. CASE Len(started) < MaxServers /\ started' = Append(started, config)
        BY <4>1, <4>2, <4>3, <4>4
      <4>5. CASE UNCHANGED started
        BY <4>5 DEF TypeOK
      <4> QED
        BY <2>4, <4>4, <4>5 DEF start
    <3>2. server' \in {None, Len(started')}
      BY <2>4 DEF start
    <3>3. serverConfig' \in Config
      BY <2>4 DEF start, TypeOK
    <3> QED
      BY <2>4, <3>1, <3>2, <3>3 DEF start, TypeOK, limiter, threads
  <2>5. CASE Handshake
    BY <2>5 DEF Handshake, Ends, TypeOK, limiter, control, threads
  <2>6. ASSUME NEW r \in Req, Connect(r)
        PROVE  TypeOK'
    BY <2>6, NewRequestTyped DEF Connect, TypeOK, limiter, control
  <2>7. ASSUME NEW r \in Req, ReadClock(r)
        PROVE  TypeOK'
    BY <2>7 DEF ReadClock, TypeOK, limiter, control
  <2>8. ASSUME NEW r \in Req, Admit(r)
        PROVE  TypeOK'
    <3>1. st' \in [Req -> {"idle", "arrived", "stamped", "admitted", "searching"}]
          /\ stamp' \in [Req -> Stamp]
      BY <2>8 DEF Admit, TypeOK, Stamp
    <3>2. \A q \in Req : st'[q] # "idle" => req'[q] \in Request
      BY <2>8 DEF Admit, allow, TypeOK
    <3> QED
      BY <2>8, <3>1, <3>2, AllowTyped DEF Admit, TypeOK, control
  <2>9. ASSUME NEW r \in Req, Refuse(r)
        PROVE  TypeOK'
    <3>1. st' \in [Req -> {"idle", "arrived", "stamped", "admitted", "searching"}]
          /\ stamp' \in [Req -> Stamp]
      BY <2>9 DEF Refuse, TypeOK, Stamp
    <3>2. /\ req' \in [Req -> Request \cup {NoRequest}]
          /\ \A q \in Req : st'[q] # "idle" => req'[q] \in Request
      BY <2>9 DEF Refuse, TypeOK
    <3> QED
      BY <2>9, <3>1, <3>2, AllowTyped DEF Refuse, TypeOK, control
  <2>10. ASSUME NEW r \in Req, do_GET(r)
         PROVE  TypeOK'
    BY <2>10, RemovedTyped DEF do_GET, Ends, TypeOK, limiter, control
  <2>11. ASSUME NEW r \in Req, Asset(r)
         PROVE  TypeOK'
    BY <2>11 DEF Asset, Ends, TypeOK, limiter, control
  <2>12. ASSUME NEW r \in Req, _handle_auth_post(r)
         PROVE  TypeOK'
    <3> DEFINE Rec == [server : Server, expiry : Nat, live : BOOLEAN]
               v == req[r].server
               new == [server |-> v, expiry |-> now + TTL, live |-> TRUE]
    <3>1. v \in Server /\ now + TTL \in Nat
      BY <2>12 DEF _handle_auth_post, TypeOK, Request, Stamp
    <3>2. new \in Rec
      BY <3>1
    <3>3. Removed(Expired(v)) \in Seq(Rec) /\ Len(Removed(Expired(v))) = Len(sessions)
      BY RemovedTyped
    <3>4. /\ Append(Removed(Expired(v)), new) \in Seq(Rec)
          /\ Len(Append(Removed(Expired(v)), new)) = Len(sessions) + 1
      BY <3>2, <3>3, AppendProperties
    <3>5. sessions' \in Seq(Rec) /\ Len(sessions') <= MaxSessions
      <4>1. CASE Len(sessions) < MaxSessions /\ sessions' = Append(Removed(Expired(v)), new)
        BY <4>1, <3>3, <3>4, LenProperties DEF TypeOK
      <4>2. CASE UNCHANGED sessions
        BY <4>2 DEF TypeOK
      <4> QED
        BY <2>12, <4>1, <4>2 DEF _handle_auth_post
    <3> QED
      BY <2>12, <3>5 DEF _handle_auth_post, Ends, TypeOK, limiter, control
  <2>13. ASSUME NEW r \in Req, _handle_logout(r)
         PROVE  TypeOK'
    BY <2>13, RemovedTyped DEF _handle_logout, Ends, TypeOK, limiter, control
  <2>14. ASSUME NEW r \in Req, Answer(r)
         PROVE  TypeOK'
    BY <2>14 DEF Answer, Ends, TypeOK, limiter, control
  <2>15. CASE UNCHANGED vars
    BY <2>15 DEF TypeOK, vars, limiter, control, threads
  <2> QED
    BY <2>1, <2>2, <2>3, <2>4, <2>5, <2>6, <2>7, <2>8, <2>9, <2>10, <2>11, <2>12, <2>13,
       <2>14, <2>15 DEF Next, Window, Thread
<1> QED
  BY <1>1, <1>2, PTL DEF Spec

\* allow keeps what the limiter must remember: the stamps it drops are older than
\* WINDOW at the latest time it was asked about, and the one it adds was admitted.
LEMMA AllowKeepsHits ==
    ASSUME TypeOK, HitsKept, NEW r \in Req, NEW verdict, allow(r, verdict)
    PROVE  HitsKept'
<1> DEFINE ip == req[r].ip
           t  == stamp[r]
           mine == [id |-> req[r].id, t |-> t]
<1>1. ip \in Client /\ t \in Int /\ newest \in Int /\ WINDOW \in Nat /\ mine.t = t
  BY DEF TypeOK, allow, Request, Stamp
<1>2. hits \in [Client -> SUBSET Entry] /\ admitted \in [Client -> SUBSET Entry]
  BY DEF TypeOK
<1>3. newest' \in Int /\ newest' >= newest /\ newest' >= t
  BY <1>1 DEF allow
<1>4. ASSUME NEW e \in Entry
      PROVE  e.t \in Int
  BY <1>4 DEF Entry, Stamp
<1>5. ASSUME NEW c \in Client
      PROVE  /\ Cleaned(t)[c] \subseteq hits[c]
             /\ \A e \in hits[c] : e.t > newest' - WINDOW => e \in Cleaned(t)[c]
  <2>1. \A e \in hits[c] : e.t > newest' - WINDOW => e.t > t - WINDOW
    BY <1>1, <1>2, <1>3, <1>4, <1>5
  <2> QED
    BY <1>5, <2>1 DEF Cleaned, After
<1>6. /\ Counted(ip, t) \subseteq hits[ip]
      /\ \A e \in hits[ip] : e.t > newest' - WINDOW => e \in Counted(ip, t)
  <2>1. \A e \in hits[ip] : e.t > newest' - WINDOW => e.t > t - WINDOW
    BY <1>1, <1>2, <1>3, <1>4
  <2> QED
    BY <1>1, <1>5, <2>1 DEF Counted, After
<1>7. ASSUME NEW c \in Client
      PROVE  \A e \in admitted[c] : e.t > newest' - WINDOW => e \in hits[c]
  <2>1. \A e \in admitted[c] : e.t > newest' - WINDOW => e.t > newest - WINDOW
    BY <1>1, <1>2, <1>3, <1>4, <1>7
  <2> QED
    BY <1>7, <2>1 DEF HitsKept, After
<1>8. ASSUME NEW c \in Client, c # ip
      PROVE  /\ hits'[c] \subseteq admitted'[c]
             /\ After(admitted'[c], newest' - WINDOW) \subseteq hits'[c]
  <2>1. hits'[c] = Cleaned(t)[c] /\ admitted'[c] = admitted[c]
    <3>1. Cleaned(t) \in [Client -> SUBSET Entry]
      BY <1>2 DEF Cleaned, After
    <3> QED
      BY <1>2, <1>8, <3>1 DEF allow
  <2> QED
    BY <1>5, <1>7, <1>8, <2>1 DEF HitsKept, After
<1>9. /\ hits'[ip] \subseteq admitted'[ip]
      /\ After(admitted'[ip], newest' - WINDOW) \subseteq hits'[ip]
  <2>1. Cleaned(t) \in [Client -> SUBSET Entry]
    BY <1>2 DEF Cleaned, After
  <2>2. CASE verdict
    <3>1. hits'[ip] = Counted(ip, t) \cup {mine} /\ admitted'[ip] = admitted[ip] \cup {mine}
      BY <1>1, <1>2, <2>1, <2>2 DEF allow
    <3> QED
      BY <1>1, <1>6, <1>7, <3>1 DEF HitsKept, After
  <2>3. CASE ~verdict
    <3>1. hits'[ip] = Counted(ip, t) /\ admitted'[ip] = admitted[ip]
      BY <1>1, <1>2, <2>1, <2>3 DEF allow
    <3> QED
      BY <1>1, <1>6, <1>7, <3>1 DEF HitsKept, After
  <2> QED
    BY <2>2, <2>3
<1> QED
  BY <1>8, <1>9 DEF HitsKept

\* No other step touches the limiter.
LEMMA LimiterKept ==
    ASSUME [Next]_vars, UNCHANGED limiter, HitsKept
    PROVE  HitsKept'
BY DEF HitsKept, limiter, After

\* A step of another kind leaves the limiter alone.
LEMMA OnlyAllow ==
    ASSUME [Next]_vars
    PROVE  UNCHANGED limiter \/ \E r \in Req : Admit(r) \/ Refuse(r)
BY DEF Next, Window, Thread, vars, Tick, _on_settings_changed, stop, start, Handshake, Connect,
       ReadClock, do_GET, Asset, _handle_auth_post, _handle_logout, Answer

\* The limiter remembers every admitted stamp it may still have to count.
THEOREM LimiterRemembers == Spec => []HitsKept
<1>1. Init => HitsKept
  BY DEF Init, HitsKept, After
<1>2. TypeOK /\ HitsKept /\ [Next]_vars => HitsKept'
  BY AllowKeepsHits, LimiterKept, OnlyAllow DEF Admit, Refuse
<1> QED
  BY <1>1, <1>2, TypeCorrect, PTL DEF Spec

\* A request that is not overtaken counts exactly the admitted stamps of its window.
LEMMA CountedAdmitted ==
    ASSUME TypeOK, HitsKept, NEW r \in Req, st[r] = "stamped", stamp[r] >= newest
    PROVE  Counted(req[r].ip, stamp[r]) = After(admitted[req[r].ip], stamp[r] - WINDOW)
<1> DEFINE ip == req[r].ip
           t  == stamp[r]
<1>1. ip \in Client /\ t \in Int /\ newest \in Int /\ WINDOW \in Nat
  BY DEF TypeOK, Request, Stamp
<1>2. \A e \in admitted[ip] : e.t \in Int
  BY <1>1 DEF TypeOK, Entry, Stamp
<1>3. Counted(ip, t) = After(hits[ip], t - WINDOW)
  BY <1>1 DEF Counted, Cleaned, After
<1>4. \A e \in admitted[ip] : e.t > t - WINDOW => e.t > newest - WINDOW
  BY <1>1, <1>2
<1> QED
  BY <1>1, <1>3, <1>4 DEF HitsKept, After

\* The requests a step takes out of the limiter's queue: none but those of allow.
LEMMA OutOfQueue ==
    ASSUME TypeOK, [Next]_vars, NEW r \in Req, st[r] = "stamped"
    PROVE  \/ st'[r] = "stamped"
           \/ Admit(r) /\ st'[r] = "admitted"
           \/ Refuse(r) /\ st'[r] = "idle"
           \/ Handshake /\ accepting = r
<1>1. CASE Tick \/ Window \/ UNCHANGED vars
  BY <1>1 DEF Tick, Window, _on_settings_changed, stop, start, vars, threads
<1>2. CASE Handshake
  BY <1>2 DEF Handshake, Ends, threads, TypeOK
<1>3. ASSUME NEW q \in Req, Connect(q) \/ ReadClock(q)
      PROVE  st'[r] = "stamped"
  BY <1>3 DEF Connect, ReadClock, TypeOK
<1>4. ASSUME NEW q \in Req, Admit(q)
      PROVE  st'[r] = "stamped" \/ (Admit(r) /\ st'[r] = "admitted")
  <2>1. st \in [Req -> {"idle", "arrived", "stamped", "admitted", "searching"}]
    BY DEF TypeOK
  <2>2. st' = [st EXCEPT ![q] = "admitted"]
    BY <1>4 DEF Admit
  <2>3. st'[r] = "stamped" \/ (q = r /\ st'[r] = "admitted")
    BY <2>1, <2>2
  <2> QED
    BY <1>4, <2>3
<1>5. ASSUME NEW q \in Req, Refuse(q)
      PROVE  st'[r] = "stamped" \/ (Refuse(r) /\ st'[r] = "idle")
  <2>1. st \in [Req -> {"idle", "arrived", "stamped", "admitted", "searching"}]
    BY DEF TypeOK
  <2>2. st' = [st EXCEPT ![q] = "idle"]
    BY <1>5 DEF Refuse
  <2>3. st'[r] = "stamped" \/ (q = r /\ st'[r] = "idle")
    BY <2>1, <2>2
  <2> QED
    BY <1>5, <2>3
<1>6. ASSUME NEW q \in Req, do_GET(q) \/ Asset(q)
      PROVE  st'[r] = "stamped"
  BY <1>6 DEF do_GET, Asset, Ends, TypeOK
<1>7. ASSUME NEW q \in Req, _handle_auth_post(q) \/ _handle_logout(q) \/ Answer(q)
      PROVE  st'[r] = "stamped"
  BY <1>7 DEF _handle_auth_post, _handle_logout, Answer, Ends, TypeOK
<1> QED
  BY <1>1, <1>2, <1>3, <1>4, <1>5, <1>6, <1>7 DEF Next, Thread

\* The request in its handshake has no thread yet.
InHandshake == accepting # "poll" => st[accepting] = "arrived"

\* No thread is started before its handshake ends.
LEMMA HandshakeFirst == Spec => []InHandshake
<1>1. Init => InHandshake
  BY DEF Init, InHandshake
<1>2. TypeOK /\ InHandshake /\ [Next]_vars => InHandshake'
  <2> SUFFICES ASSUME TypeOK, InHandshake, [Next]_vars
               PROVE  InHandshake'
    OBVIOUS
  <2>1. CASE Tick \/ _on_settings_changed \/ stop \/ start \/ UNCHANGED vars
    BY <2>1 DEF InHandshake, Tick, _on_settings_changed, stop, start, threads, vars
  <2>2. CASE Handshake
    BY <2>2 DEF Handshake, InHandshake
  <2>3. ASSUME NEW r \in Req, Connect(r)
        PROVE  InHandshake'
    BY <2>3 DEF Connect, InHandshake, TypeOK
  <2>4. ASSUME NEW r \in Req, ReadClock(r)
        PROVE  InHandshake'
    BY <2>4 DEF ReadClock, InHandshake, TypeOK
  <2>5. ASSUME NEW r \in Req, Admit(r) \/ Refuse(r)
        PROVE  InHandshake'
    BY <2>5 DEF Admit, Refuse, allow, InHandshake, TypeOK
  <2>6. ASSUME NEW r \in Req,
               do_GET(r) \/ Asset(r) \/ _handle_auth_post(r) \/ _handle_logout(r) \/ Answer(r)
        PROVE  InHandshake'
    BY <2>6 DEF do_GET, Asset, _handle_auth_post, _handle_logout, Answer, Ends, InHandshake,
                TypeOK
  <2> QED
    BY <2>1, <2>2, <2>3, <2>4, <2>5, <2>6 DEF Next, Window, Thread
<1> QED
  BY <1>1, <1>2, TypeCorrect, PTL DEF Spec

\* The limiter's verdict on a request that is not overtaken is the count of the
\* requests of its address admitted in the window, for any WINDOW, MAX_REQUESTS,
\* CLEANUP_INTERVAL no shorter than WINDOW, and any interleaving of the threads.
THEOREM LimiterCorrect == Spec => LimiterExact
<1>1. TypeOK /\ HitsKept /\ InHandshake /\ [Next]_vars
      => [\A r \in Req :
            LET t == stamp[r]
                n == Cardinality(After(admitted[req[r].ip], t - WINDOW))
            IN st[r] = "stamped" /\ t >= newest =>
                 /\ st'[r] = "admitted" => n < MAX_REQUESTS
                 /\ st'[r] = "idle" => n >= MAX_REQUESTS]_vars
  <2> SUFFICES ASSUME TypeOK, HitsKept, InHandshake, [Next]_vars,
                      NEW r \in Req, st[r] = "stamped", stamp[r] >= newest
               PROVE  LET n == Cardinality(After(admitted[req[r].ip], stamp[r] - WINDOW))
                      IN /\ st'[r] = "admitted" => n < MAX_REQUESTS
                         /\ st'[r] = "idle" => n >= MAX_REQUESTS
    OBVIOUS
  <2> DEFINE counted == After(admitted[req[r].ip], stamp[r] - WINDOW)
             n == Cardinality(counted)
  <2>1. Counted(req[r].ip, stamp[r]) = counted
    BY CountedAdmitted
  <2>2. counted \in SUBSET Entry /\ IsFiniteSet(counted) /\ n \in Nat
    <3>1. counted \in SUBSET Entry
      BY DEF TypeOK, Request, After
    <3>2. IsFiniteSet(1..MaxRequests) /\ IsFiniteSet(Stamp)
      BY HttpAssumption, FS_Interval DEF Stamp
    <3>3. IsFiniteSet(Entry)
      <4>1. IsFiniteSet((1..MaxRequests) \X Stamp)
        BY <3>2, FS_Product
      <4> DEFINE f == [e \in Entry |-> <<e.id, e.t>>]
      <4>2. f \in Injection(Entry, (1..MaxRequests) \X Stamp)
        BY DEF Entry, Injection, IsInjective
      <4> QED
        BY <4>1, <4>2, FS_Injection
    <3> QED
      BY <3>1, <3>3, FS_Subset, FS_CardinalityType
  <2>3. CASE st'[r] = "admitted"
    <3>1. Below(counted) = TRUE
      BY <2>1, <2>3, OutOfQueue DEF Admit, allow, InHandshake, Handshake
    <3> QED
      BY <2>3, <3>1 DEF Below
  <2>4. CASE st'[r] = "idle"
    <3>1. Below(counted) = FALSE
      BY <2>1, <2>4, OutOfQueue DEF Refuse, allow, InHandshake, Handshake
    <3>2. ~(n < MAX_REQUESTS)
      BY <3>1 DEF Below
    <3> QED
      BY <2>2, <2>4, <3>2, HttpAssumption
  <2>5. CASE st'[r] # "admitted" /\ st'[r] # "idle"
    BY <2>5
  <2> QED
    BY <2>3, <2>4, <2>5
<1> QED
  BY <1>1, TypeCorrect, LimiterRemembers, HandshakeFirst, PTL DEF Spec, LimiterExact

-----------------------------------------------------------------------------
(* The server that listens *)

\* The window starts a server only while none runs.
StartsAlone == gui = "start" => server = None

\* The steps that are not the window's leave its variables alone.
LEMMA OthersLeaveControl ==
    ASSUME [Next]_vars
    PROVE  UNCHANGED control \/ Window
BY DEF Next, Thread, vars, Tick, Handshake, Connect, ReadClock, Admit, Refuse, do_GET, Asset,
       _handle_auth_post, _handle_logout, Answer

\* Whenever the event loop is free, the server that listens is the one the settings
\* ask for, for any configurations and over any number of changes and failed starts.
THEOREM ServerIsCurrent == Spec => []ServerCurrent
<1>1. Init => ServerCurrent /\ StartsAlone
  BY DEF Init, ServerCurrent, StartsAlone
<1>2. TypeOK /\ ServerCurrent /\ StartsAlone /\ [Next]_vars => (ServerCurrent /\ StartsAlone)'
  <2> SUFFICES ASSUME TypeOK, ServerCurrent, StartsAlone, [Next]_vars
               PROVE  (ServerCurrent /\ StartsAlone)'
    OBVIOUS
  <2>1. CASE _on_settings_changed
    BY <2>1 DEF _on_settings_changed, _apply_http_server_settings, ServerCurrent, StartsAlone
  <2>2. CASE stop
    BY <2>2 DEF stop, ServerCurrent, StartsAlone
  <2>3. CASE start
    <3>1. config \in Config /\ started \in Seq(Config) /\ Len(started) \in Nat
      BY DEF TypeOK
    <3>2. CASE server' = Len(started') /\ started' = Append(started, config)
               /\ serverConfig' = config
      <4>1. started'[server'] = config /\ server' # None
        BY <3>1, <3>2, AppendProperties DEF None
      <4> QED
        BY <2>3, <3>2, <4>1 DEF start, ServerCurrent, StartsAlone
    <3>3. CASE server' = None /\ UNCHANGED serverConfig
      BY <2>3, <3>3 DEF start, ServerCurrent, StartsAlone
    <3> QED
      BY <2>3, <3>2, <3>3 DEF start
  <2>4. CASE UNCHANGED control
    BY <2>4 DEF control, ServerCurrent, StartsAlone
  <2> QED
    BY <2>1, <2>2, <2>3, <2>4, OthersLeaveControl DEF Window
<1> QED
  BY <1>1, <1>2, TypeCorrect, PTL DEF Spec
-----------------------------------------------------------------------------
(* The requests that are answered *)

SessionRecord == [server : Server, expiry : Nat, live : BOOLEAN]

\* Removing sessions ends them and changes nothing else.
LEMMA RemovedEnds ==
    ASSUME TypeOK, NEW S
    PROVE  /\ DOMAIN Removed(S) = DOMAIN sessions
           /\ \A s \in DOMAIN sessions :
                 /\ Removed(S)[s].server = sessions[s].server
                 /\ Removed(S)[s].expiry = sessions[s].expiry
                 /\ Removed(S)[s].live => sessions[s].live
BY DEF Removed

\* A session keeps its number, its server and its expiry, and never comes back to life.
SessionsOnlyEnd ==
    /\ DOMAIN sessions \subseteq DOMAIN sessions'
    /\ \A s \in DOMAIN sessions :
          /\ sessions'[s].server = sessions[s].server
          /\ sessions'[s].expiry = sessions[s].expiry
          /\ sessions'[s].live => sessions[s].live

\* Logins, logouts, prunings and look-ups only end sessions, or append one.
LEMMA SessionsStep ==
    ASSUME TypeOK, [Next]_vars
    PROVE  SessionsOnlyEnd
<1>1. CASE UNCHANGED sessions
  BY <1>1 DEF SessionsOnlyEnd
<1>2. ASSUME NEW S, sessions' = Removed(S)
      PROVE  SessionsOnlyEnd
  BY <1>2, RemovedEnds DEF SessionsOnlyEnd
<1>3. ASSUME NEW S, NEW v \in Server, sessions' = Append(Removed(S),
                [server |-> v, expiry |-> now + TTL, live |-> TRUE])
      PROVE  SessionsOnlyEnd
  <2> DEFINE new == [server |-> v, expiry |-> now + TTL, live |-> TRUE]
  <2>1. Removed(S) \in Seq(SessionRecord) /\ Len(Removed(S)) = Len(sessions)
    BY RemovedTyped DEF SessionRecord
  <2>2. new \in SessionRecord
    BY HttpAssumption DEF SessionRecord, TypeOK, Stamp
  <2>3. Len(sessions) \in Nat /\ DOMAIN sessions = 1..Len(sessions)
    BY DEF TypeOK
  <2>4. /\ sessions' \in Seq(SessionRecord) /\ Len(sessions') = Len(sessions) + 1
        /\ \A s \in 1..Len(sessions) : sessions'[s] = Removed(S)[s]
    BY <1>3, <2>1, <2>2, AppendProperties
  <2>5. DOMAIN sessions' = 1..(Len(sessions) + 1)
    BY <2>4
  <2> QED
    BY <2>3, <2>4, <2>5, RemovedEnds DEF SessionsOnlyEnd
<1>4. ASSUME NEW r \in Req, _handle_auth_post(r)
      PROVE  SessionsOnlyEnd
  <2>1. req[r].server \in Server
    BY <1>4 DEF _handle_auth_post, TypeOK, Request
  <2> QED
    BY <1>1, <1>3, <1>4, <2>1 DEF _handle_auth_post
<1>5. ASSUME NEW r \in Req, do_GET(r) \/ _handle_logout(r)
      PROVE  SessionsOnlyEnd
  BY <1>1, <1>2, <1>5 DEF do_GET, _handle_logout
<1>6. CASE \/ Tick \/ Window \/ Handshake \/ UNCHANGED vars
           \/ \E r \in Req : \/ Connect(r) \/ ReadClock(r) \/ Admit(r) \/ Refuse(r)
                             \/ Asset(r) \/ Answer(r)
  BY <1>1, <1>6 DEF Tick, Window, _on_settings_changed, stop, start, Handshake, vars, Connect,
     ReadClock, Admit, Refuse, Asset, Answer
<1> QED
  BY <1>4, <1>5, <1>6 DEF Next, Thread

\* The clock does not go back, and a server that was started keeps its configuration.
ServersKept ==
    /\ now \in Int /\ now' \in Int /\ now' >= now
    /\ \A v \in 1..Len(started) : v \in 1..Len(started') /\ started'[v] = started[v]

\* Only Tick moves the clock, and only start adds a server.
LEMMA ServersStep ==
    ASSUME TypeOK, [Next]_vars
    PROVE  ServersKept
<1>1. now \in Int /\ started \in Seq(Config) /\ Len(started) \in Nat /\ config \in Config
  BY DEF TypeOK, Stamp
<1>2. UNCHANGED now \/ now' = now + 1
  BY DEF Next, Window, Thread, vars, Tick, _on_settings_changed, stop, start, Handshake,
     Connect, ReadClock, Admit, Refuse, do_GET, Asset, _handle_auth_post, _handle_logout, Answer
<1>3. UNCHANGED started \/ started' = Append(started, config)
  BY OthersLeaveControl DEF control, Window, _on_settings_changed, stop, start
<1>4. CASE started' = Append(started, config)
  BY <1>1, <1>2, <1>4, AppendProperties DEF ServersKept
<1> QED
  BY <1>1, <1>2, <1>3, <1>4 DEF ServersKept

\* The numbers of sessions are positive, their expiries are times.
LEMMA SessionFacts ==
    ASSUME TypeOK
    PROVE  None \notin DOMAIN sessions /\ \A s \in DOMAIN sessions : sessions[s].expiry \in Int
<1>1. sessions \in Seq(SessionRecord) /\ DOMAIN sessions = 1..Len(sessions)
  BY DEF TypeOK, SessionRecord
<1>2. \A s \in DOMAIN sessions : sessions[s] \in SessionRecord
  BY <1>1, ElementOfSeq
<1> QED
  BY <1>1, <1>2 DEF SessionRecord, None

\* A session that has ended for a server stays so.
LEMMA EndedStays ==
    ASSUME TypeOK, [Next]_vars
    PROVE  \A v : \A s \in (DOMAIN sessions) \cup {None} : Ended(v, s) => Ended(v, s)'
BY SessionsStep, ServersStep, SessionFacts DEF Ended, SessionsOnlyEnd, ServersKept

\* A request goes on as it came, or is new.
LEMMA RequestStep ==
    ASSUME TypeOK, [Next]_vars, NEW r \in Req, st'[r] # "idle"
    PROVE  (st[r] # "idle" /\ req'[r] = req[r]) \/ Connect(r)
<1>1. CASE Tick \/ Window \/ UNCHANGED vars
  BY <1>1 DEF Tick, Window, _on_settings_changed, stop, start, vars, threads
<1>2. CASE Handshake
  BY <1>2 DEF Handshake, Ends, threads, TypeOK
<1>3. ASSUME NEW q \in Req, Connect(q)
      PROVE  (st[r] # "idle" /\ req'[r] = req[r]) \/ Connect(r)
  <2>1. CASE q = r
    BY <1>3, <2>1
  <2>2. CASE q # r
    BY <1>3, <2>2 DEF Connect, TypeOK
  <2> QED
    BY <2>1, <2>2
<1>4. ASSUME NEW q \in Req, ReadClock(q) \/ Admit(q) \/ Refuse(q)
      PROVE  st[r] # "idle" /\ req'[r] = req[r]
  BY <1>4 DEF ReadClock, Admit, Refuse, allow, TypeOK
<1>5. ASSUME NEW q \in Req,
             do_GET(q) \/ Asset(q) \/ _handle_auth_post(q) \/ _handle_logout(q) \/ Answer(q)
      PROVE  st[r] # "idle" /\ req'[r] = req[r]
  BY <1>5 DEF do_GET, Asset, _handle_auth_post, _handle_logout, Answer, Ends, TypeOK
<1> QED
  BY <1>1, <1>2, <1>3, <1>4, <1>5 DEF Next, Thread

\* A request that is being answered was so before, or has just been authenticated.
LEMMA SearchingStep ==
    ASSUME TypeOK, [Next]_vars, NEW r \in Req, st'[r] = "searching"
    PROVE  \/ st[r] = "searching" /\ req'[r] = req[r]
           \/ do_GET(r) /\ _check_auth(r)
<1>1. CASE Tick \/ Window \/ UNCHANGED vars
  BY <1>1 DEF Tick, Window, _on_settings_changed, stop, start, vars, threads
<1>2. CASE Handshake
  BY <1>2 DEF Handshake, Ends, threads, TypeOK
<1>3. ASSUME NEW q \in Req, Connect(q) \/ ReadClock(q) \/ Admit(q) \/ Refuse(q)
      PROVE  st[r] = "searching" /\ req'[r] = req[r]
  BY <1>3 DEF Connect, ReadClock, Admit, Refuse, allow, TypeOK
<1>4. ASSUME NEW q \in Req,
             Asset(q) \/ _handle_auth_post(q) \/ _handle_logout(q) \/ Answer(q)
      PROVE  st[r] = "searching" /\ req'[r] = req[r]
  BY <1>4 DEF Asset, _handle_auth_post, _handle_logout, Answer, Ends, TypeOK
<1>5. ASSUME NEW q \in Req, do_GET(q)
      PROVE  \/ st[r] = "searching" /\ req'[r] = req[r]
             \/ do_GET(r) /\ _check_auth(r)
  BY <1>5 DEF do_GET, Ends, TypeOK
<1> QED
  BY <1>1, <1>2, <1>3, <1>4, <1>5 DEF Next, Thread

\* A request names a server that was started and a session that was minted, or none; a
\* session that had ended when the request came has ended for good.
RequestsKnown ==
    \A r \in Req : st[r] # "idle" =>
        /\ req[r].server \in 1..Len(started)
        /\ req[r].cookie \in (DOMAIN sessions) \cup {None}
        /\ req[r].dead => Ended(req[r].server, req[r].cookie)

\* RequestsKnown is an invariant.
LEMMA RequestsStayKnown ==
    ASSUME TypeOK, RequestsKnown, [Next]_vars
    PROVE  RequestsKnown'
<1> SUFFICES ASSUME NEW r \in Req, st'[r] # "idle"
             PROVE  /\ req'[r].server \in 1..Len(started')
                    /\ req'[r].cookie \in (DOMAIN sessions') \cup {None}
                    /\ req'[r].dead => Ended(req[r].server, req[r].cookie)'
  BY DEF RequestsKnown
<1> DEFINE v == req'[r].server
           s == req'[r].cookie
<1>1. CASE st[r] # "idle" /\ req'[r] = req[r]
  <2>1. v \in 1..Len(started) /\ s \in (DOMAIN sessions) \cup {None}
    BY <1>1 DEF RequestsKnown
  <2>2. req'[r].dead => Ended(v, s)
    BY <1>1 DEF RequestsKnown
  <2>3. v \in 1..Len(started') /\ s \in (DOMAIN sessions') \cup {None}
    BY <2>1, SessionsStep, ServersStep DEF SessionsOnlyEnd, ServersKept
  <2> QED
    BY <2>1, <2>2, <2>3, EndedStays DEF Ended
<1>2. CASE Connect(r)
  <2>1. UNCHANGED <<sessions, started, now>>
    BY <1>2 DEF Connect, control
  <2>2. server \in 1..Len(started)
    BY <1>2 DEF Connect, TypeOK, None
  <2>3. PICK ip \in Client, kind \in Kind, token \in Token \cup {NoToken},
             cookie \in (DOMAIN sessions) \cup {None} :
                req' = [req EXCEPT ![r] = NewRequest(ip, kind, token, cookie)]
    BY <1>2 DEF Connect
  <2>4. v = server /\ s = cookie /\ req'[r].dead = Ended(server, cookie)
    BY <2>3 DEF NewRequest, TypeOK
  <2> QED
    BY <2>1, <2>2, <2>4 DEF Ended
<1> QED
  BY <1>1, <1>2, RequestStep

\* A search is answered only to a request that presented the token of its server, or a
\* session that had not ended when the request came, whatever happens while it waits.
THEOREM SignedIn == Spec => []AnsweredSignedIn
<1>1. Init => RequestsKnown /\ AnsweredSignedIn
  BY DEF Init, RequestsKnown, AnsweredSignedIn
<1>2. TypeOK /\ RequestsKnown /\ AnsweredSignedIn /\ [Next]_vars => AnsweredSignedIn'
  <2> SUFFICES ASSUME TypeOK, RequestsKnown, AnsweredSignedIn, [Next]_vars,
                      NEW r \in Req, st'[r] = "searching"
               PROVE  \/ started'[req'[r].server].token \in {NoToken, req'[r].token}
                      \/ ~req'[r].dead
    BY DEF AnsweredSignedIn
  <2>1. CASE st[r] = "searching" /\ req'[r] = req[r]
    <3>1. req[r].server \in 1..Len(started)
      BY <2>1 DEF RequestsKnown
    <3> QED
      BY <2>1, <3>1, ServersStep DEF ServersKept, AnsweredSignedIn
  <2>2. CASE do_GET(r) /\ _check_auth(r)
    <3>1. UNCHANGED <<req, started>> /\ st[r] = "admitted"
      BY <2>2 DEF do_GET, control
    <3>2. _session_valid(req[r].server, req[r].cookie) => ~req[r].dead
      <4>1. \A k \in DOMAIN sessions : _session_valid(req[r].server, k)
                                          => ~Ended(req[r].server, k)
        <5>1. now \in Int
          BY DEF TypeOK, Stamp
        <5> QED
          BY <5>1, SessionFacts DEF _session_valid, Table, Ended
      <4>2. _session_valid(req[r].server, req[r].cookie) => req[r].cookie \in DOMAIN sessions
        BY DEF _session_valid, Table
      <4> QED
        BY <3>1, <4>1, <4>2 DEF RequestsKnown
    <3> QED
      BY <2>2, <3>1, <3>2 DEF _check_auth
  <2>3. \/ st[r] = "searching" /\ req'[r] = req[r]
        \/ do_GET(r) /\ _check_auth(r)
    BY SearchingStep
  <2> QED
    BY <2>1, <2>2, <2>3
<1> QED
  BY <1>1, <1>2, RequestsStayKnown, TypeCorrect, PTL DEF Spec

=============================================================================
