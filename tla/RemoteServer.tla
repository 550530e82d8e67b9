---------------------------- MODULE RemoteServer ----------------------------
(***************************************************************************)
(* The server of the remote surface (mast-remote server.rs, ratelimit.rs,  *)
(* token.rs, http.rs, routes.rs): its start, which draws or reads the      *)
(* pairing token (remote.rs), one accepting thread, and a thread for each  *)
(* connection, which asks the rate limiter, reads the head, asks again,    *)
(* compares the token and handles the request.                             *)
(*                                                                         *)
(* A token is a number, drawn once.  Time is a clock of the model, which   *)
(* stands still for as long as nothing needs it to move.  What the handlers*)
(* answer is in RemoteScreen.                                              *)
(***************************************************************************)
EXTENDS Integers, FiniteSets

CONSTANTS
    Addresses,      \* the addresses the phone connects from
    Conns,          \* bound: connections of one run of the application
    Routes,         \* the requests made: "static", "state", "input", "unknown"
    MaxConnections, \* MAX_CONNECTIONS
    MaxFailures,    \* MAX_FAILURES
    FailureWindow,  \* WINDOW, in ticks
    LimiterCap,     \* DEFAULT_CAP
    MaxNow,         \* bound: ticks of one run
    MaxTokens,      \* bound: tokens drawn
    MaxBoots,       \* bound: starts of the application
    MaxServed       \* bound: of those, the ones in which the phone connects

ASSUME RemoteServerAssumption ==
    /\ Conns \subseteq Nat /\ IsFiniteSet(Conns) /\ IsFiniteSet(Addresses)
    /\ Routes \subseteq {"static", "state", "input", "unknown"}
    /\ {MaxConnections, MaxFailures, FailureWindow, LimiterCap} \subseteq Nat \ {0}
    /\ {MaxNow, MaxTokens, MaxBoots, MaxServed} \subseteq Nat

NoToken == 0
Torn == -1

VARIABLES
    app,            \* "down", a step of the start, "on" or "failed"
    boots,
    file, tmp,      \* remote-token and remote-token.tmp: a token, Torn or none
    fresh,          \* this run wrote the file
    token,          \* what the server compares with
    drawn,          \* tokens so far
    phoneToken,     \* the token the phone holds
    revoked,        \* tokens whose file the user deleted or a power cut tore
    now,
    listening,      \* the accepting thread runs
    stopping, wake, \* the flag of the shutdown; its connection to itself
    conn,           \* each connection
    conns,          \* the counter of connections
    entry,          \* what the limiter remembers of an address
    told            \* the failures of each address that were answered 401

tokenVars == <<app, boots, file, tmp, fresh, token, drawn, phoneToken, revoked>>
acceptVars == <<listening, stopping, wake>>
connVars == <<conn, conns>>
limitVars == <<entry, told>>
serverVars == <<tokenVars, now, acceptVars, connVars, limitVars>>

-----------------------------------------------------------------------------
(* The limiter, under its lock. *)

\* A failure is known by its connection, which fails once.
NoEntry == [known |-> FALSE, failures |-> {}, until |-> 0, seen |-> 0]
Known == {p \in Addresses : entry[p].known}

Blocked(p, t) == t < entry[p].until

\* check: an address it does not know leaves no trace.
Checked(p, t) ==
    IF entry[p].known
      THEN [entry EXCEPT ![p].seen = t, ![p].until = IF Blocked(p, t) THEN @ ELSE 0]
      ELSE entry

\* Mutant: room is made for an address that has its place.
MakeRoomAlways(p) ==
    IF Cardinality(Known) < LimiterCap THEN {entry}
    ELSE {[entry EXCEPT ![q] = NoEntry] : q \in {q \in Known : \A r \in Known : entry[q].seen <= entry[r].seen}}

\* make_room: at the cap, an address seen least recently is forgotten.
MakeRoom(p) ==
    IF entry[p].known \/ Cardinality(Known) < LimiterCap THEN {entry}
    ELSE {[entry EXCEPT ![q] = NoEntry] : q \in {q \in Known : \A r \in Known : entry[q].seen <= entry[r].seen}}

\* Those of a set of failures whose window lasts at time t.
InWindow(F, t) == {f \in F : t < f.at + FailureWindow}

\* record_failure.
Recorded(e, p, new) ==
    LET failures == InWindow(e[p].failures, new.at) \cup {new}
    IN  [e EXCEPT ![p] = [known |-> TRUE, failures |-> failures, seen |-> new.at,
                          until |-> IF Cardinality(failures) > MaxFailures
                                      THEN new.at + FailureWindow ELSE @.until]]

-----------------------------------------------------------------------------
(* Connections. *)

NoConn == [stage |-> "none", ip |-> "none", route |-> "none", token |-> NoToken, at |-> 0]
Closed == [NoConn EXCEPT !.stage = "closed"]

Running == {"first", "head", "second", "failure", "handler", "body", "write"}
Threads == {c \in Conns : conn[c].stage \in Running}

NeedsAuth(route) == route \in {"state", "input"}
Authorized(c) == conn[c].token = token

-----------------------------------------------------------------------------
(* The start of the application, its end, and the user. *)

NoConns == [c \in Conns |-> NoConn]
NoEntries == [p \in Addresses |-> NoEntry]
NobodyTold == [p \in Addresses |-> {}]

ServerInit ==
    /\ app = "down" /\ boots = 0 /\ file = NoToken /\ tmp = NoToken /\ fresh = FALSE
    /\ token = NoToken /\ drawn = 0 /\ phoneToken = NoToken /\ revoked = {}
    /\ now = 0 /\ listening = FALSE /\ stopping = FALSE /\ wake = FALSE
    /\ conn = NoConns /\ conns = 0 /\ entry = NoEntries /\ told = NobodyTold

\* The server and its threads go with the process.
ServerEnds ==
    /\ now' = 0 /\ listening' = FALSE /\ stopping' = FALSE /\ wake' = FALSE
    /\ conn' = NoConns /\ conns' = 0 /\ entry' = NoEntries /\ told' = NobodyTold
ServerOff == UNCHANGED <<now, acceptVars, connVars, limitVars>>

Start ==
    /\ app = "down" /\ boots < MaxBoots
    /\ app' = "load" /\ boots' = boots + 1 /\ fresh' = FALSE
    /\ UNCHANGED <<file, tmp, token, drawn, phoneToken, revoked>> /\ ServerOff

\* load_or_create_token: a file that holds no token is never replaced.
LoadToken ==
    /\ app = "load"
    /\ \/ /\ file = NoToken /\ drawn < MaxTokens
          /\ token' = drawn + 1 /\ drawn' = drawn + 1 /\ app' = "write"
       \/ file \notin {NoToken, Torn} /\ token' = file /\ app' = "bind" /\ UNCHANGED drawn
       \/ file = Torn /\ app' = "failed" /\ UNCHANGED <<token, drawn>>
    /\ UNCHANGED <<boots, file, tmp, fresh, phoneToken, revoked>> /\ ServerOff

\* write_private.
WriteToken ==
    /\ app = "write"
    /\ \/ tmp' = token /\ app' = "rename"
       \/ tmp' = Torn /\ app' = "failed"
    /\ UNCHANGED <<boots, file, fresh, token, drawn, phoneToken, revoked>> /\ ServerOff

\* Mutant: a rename that failed is not an error.
RenameTokenAnyway ==
    /\ app = "rename" /\ app' = "bind" /\ tmp' = NoToken
    /\ \/ file' = tmp /\ fresh' = TRUE
       \/ UNCHANGED <<file, fresh>>
    /\ UNCHANGED <<boots, token, drawn, phoneToken, revoked>> /\ ServerOff

RenameToken ==
    /\ app = "rename" /\ tmp' = NoToken
    /\ \/ file' = tmp /\ fresh' = TRUE /\ app' = "bind"
       \/ app' = "failed" /\ UNCHANGED <<file, fresh>>
    /\ UNCHANGED <<boots, token, drawn, phoneToken, revoked>> /\ ServerOff

\* serve: the port is taken in the call, the accepting thread starts.
Serve ==
    /\ app = "bind"
    /\ \/ app' = "on" /\ listening' = TRUE
       \/ app' = "failed" /\ UNCHANGED listening
    /\ UNCHANGED <<boots, file, tmp, fresh, token, drawn, phoneToken, revoked>>
    /\ UNCHANGED <<now, stopping, wake, connVars, limitVars>>

\* The process ends, at any point of its start or run.
Quit ==
    /\ app # "down"
    /\ app' = "down" /\ token' = NoToken
    /\ ServerEnds
    /\ UNCHANGED <<boots, file, tmp, fresh, drawn, phoneToken, revoked>>

\* The power fails: what this run wrote may not be on the disk.
PowerCut ==
    /\ app # "down" /\ fresh
    /\ app' = "down" /\ token' = NoToken /\ fresh' = FALSE
    /\ file' \in {NoToken, Torn} /\ revoked' = revoked \cup {file}
    /\ ServerEnds
    /\ UNCHANGED <<boots, tmp, drawn, phoneToken>>

\* The user deletes the file, to be given another token.
DeleteToken ==
    /\ file # NoToken
    /\ file' = NoToken /\ revoked' = revoked \cup {file}
    /\ UNCHANGED <<app, boots, tmp, fresh, token, drawn, phoneToken>> /\ ServerOff

\* remote_pairing: the phone reads the QR code.
Pair ==
    /\ app = "on" /\ phoneToken # token
    /\ phoneToken' = token
    /\ UNCHANGED <<app, boots, file, tmp, fresh, token, drawn, revoked>> /\ ServerOff

Boot == Start \/ LoadToken \/ WriteToken \/ RenameToken \/ Serve

-----------------------------------------------------------------------------
(* Requests. *)

Tick ==
    /\ app = "on" /\ now < MaxNow /\ Known # {}
    /\ now' = now + 1
    /\ UNCHANGED <<tokenVars, acceptVars, connVars, limitVars>>

\* The phone connects, from any address, with the token it holds.
Connect(c) ==
    /\ app = "on" /\ boots <= MaxServed /\ listening /\ conn[c].stage = "none"
    /\ \A d \in Conns : d < c => conn[d].stage # "none"
    /\ \E p \in Addresses : \E r \in Routes :
         conn' = [conn EXCEPT ![c] = [NoConn EXCEPT !.stage = "backlog", !.ip = p, !.route = r,
                                        !.token = IF NeedsAuth(r) THEN phoneToken ELSE NoToken]]
    /\ UNCHANGED <<tokenVars, now, acceptVars, conns, limitVars>>

First(c) == conn[c].stage = "backlog" /\ \A d \in Conns : d < c => conn[d].stage # "backlog"

\* Mutant: the count stays when the thread does not start.
AcceptSpawnUncounted(c) ==
    /\ listening /\ ~stopping /\ First(c)
    /\ \/ conns >= MaxConnections /\ conn' = [conn EXCEPT ![c] = Closed] /\ UNCHANGED conns
       \/ conns < MaxConnections /\ conn' = [conn EXCEPT ![c].stage = "first"] /\ conns' = conns + 1
       \/ conns < MaxConnections /\ conn' = [conn EXCEPT ![c] = Closed] /\ conns' = conns + 1
    /\ UNCHANGED <<tokenVars, now, acceptVars, limitVars>>

\* accept_loop: over the limit, or without a thread, the connection is closed.
Accept(c) ==
    /\ listening /\ ~stopping /\ First(c)
    /\ \/ conns < MaxConnections /\ conn' = [conn EXCEPT ![c].stage = "first"] /\ conns' = conns + 1
       \/ conn' = [conn EXCEPT ![c] = Closed] /\ UNCHANGED conns
    /\ UNCHANGED <<tokenVars, now, acceptVars, limitVars>>

\* Drop for RemoteServer: the flag, then a connection that wakes the thread.
Stop ==
    /\ app = "on" /\ ~stopping
    /\ stopping' = TRUE /\ wake' \in BOOLEAN
    /\ UNCHANGED <<tokenVars, now, listening, connVars, limitVars>>

\* Whatever it accepts next, the thread leaves, and the listener with it.
AcceptStops ==
    /\ listening /\ stopping /\ (wake \/ \E c \in Conns : conn[c].stage = "backlog")
    /\ listening' = FALSE /\ wake' = FALSE
    /\ conn' = [c \in Conns |-> IF conn[c].stage = "backlog" THEN Closed ELSE conn[c]]
    /\ UNCHANGED <<tokenVars, now, stopping, conns, limitVars>>

\* Whatever way a thread ends, its guard counts down.
Ends(c) == conn' = [conn EXCEPT ![c] = Closed] /\ conns' = conns - 1
Goes(c, stage) == conn' = [conn EXCEPT ![c].stage = stage] /\ UNCHANGED conns
Step == UNCHANGED <<tokenVars, now, acceptVars>>

\* Step 1 of handle: a blocked address is answered before its head is read.
FirstCheck(c) ==
    /\ conn[c].stage = "first"
    /\ entry' = Checked(conn[c].ip, now)
    /\ IF Blocked(conn[c].ip, now) THEN Ends(c) ELSE Goes(c, "head")
    /\ UNCHANGED told /\ Step

\* Step 2: the head is too large or malformed.
HeadRefused(c) == conn[c].stage = "head" /\ Ends(c) /\ UNCHANGED limitVars /\ Step

\* Step 3: the request has a route, or is answered 404.
HeadArrives(c) ==
    /\ conn[c].stage = "head"
    /\ IF conn[c].route = "unknown" THEN Ends(c) ELSE Goes(c, "second")
    /\ UNCHANGED limitVars /\ Step

\* Mutant: only a single read is timed, and each brings a byte.
HeadLateNever(c) == conn[c].stage = "head" /\ conn[c].route = "late" /\ Ends(c) /\ UNCHANGED limitVars /\ Step

\* The deadline of the request passes, or the phone goes.
HeadLate(c) == conn[c].stage = "head" /\ Ends(c) /\ UNCHANGED limitVars /\ Step

\* Step 4, and the comparison of step 5; its time is taken before the lock.
SecondCheck(c) ==
    /\ conn[c].stage = "second"
    /\ entry' = Checked(conn[c].ip, now)
    /\ IF Blocked(conn[c].ip, now) THEN Ends(c)
       ELSE IF NeedsAuth(conn[c].route) /\ ~Authorized(c)
         THEN conn' = [conn EXCEPT ![c].stage = "failure", ![c].at = now] /\ UNCHANGED conns
         ELSE Goes(c, "handler")
    /\ UNCHANGED told /\ Step

\* Step 5: the failure is recorded; if it blocks, the answer is 429 at once.
Failure(c) ==
    LET p == conn[c].ip
        new == [by |-> c, at |-> conn[c].at]
    IN  /\ conn[c].stage = "failure"
        /\ \E e \in MakeRoom(p) : entry' = Recorded(e, p, new)
        /\ told' = IF Cardinality(entry'[p].failures) > MaxFailures
                     THEN told ELSE [told EXCEPT ![p] = @ \cup {new}]
        /\ Ends(c) /\ Step

\* Step 6: an input is refused for its framing or its session, or its body is
\* read; any other request is answered.
Handle(c) ==
    /\ conn[c].stage = "handler"
    /\ \/ Ends(c)
       \/ conn[c].route = "input" /\ Goes(c, "body")
    /\ UNCHANGED limitVars /\ Step

BodyArrives(c) == conn[c].stage = "body" /\ Goes(c, "write") /\ UNCHANGED limitVars /\ Step

\* read_body gives up at the same deadline.
BodyLate(c) == conn[c].stage = "body" /\ Ends(c) /\ UNCHANGED limitVars /\ Step

\* write_input returns when the shell has taken the bytes.
Written(c) == conn[c].stage = "write" /\ Ends(c) /\ UNCHANGED limitVars /\ Step

\* The handler panics.
Panic(c) == conn[c].stage \in {"handler", "body", "write"} /\ Ends(c) /\ UNCHANGED limitVars /\ Step

\* What the thread does by itself, and what it waits for others to do.
Thread(c) == FirstCheck(c) \/ HeadLate(c) \/ SecondCheck(c) \/ Failure(c) \/ Handle(c) \/ BodyLate(c)
Others(c) == Connect(c) \/ HeadRefused(c) \/ HeadArrives(c) \/ BodyArrives(c) \/ Written(c) \/ Panic(c)

ServerNext ==
    \/ Boot \/ Quit \/ PowerCut \/ DeleteToken \/ Pair \/ Stop \/ AcceptStops \/ Tick
    \/ \E c \in Conns : Accept(c) \/ Thread(c) \/ Others(c)

Fairness == /\ WF_serverVars(AcceptStops)
            /\ \A c \in Conns : WF_serverVars(Accept(c)) /\ WF_serverVars(Thread(c))

ServerSpec == ServerInit /\ [][ServerNext]_serverVars /\ Fairness
-----------------------------------------------------------------------------
(* Properties. *)

TypeOK ==
    /\ app \in {"down", "load", "write", "rename", "bind", "on", "failed"}
    /\ {file, tmp} \subseteq Torn..MaxTokens /\ token \in 0..MaxTokens /\ conns \in Nat
    /\ entry \in [Addresses -> [known : BOOLEAN, failures : SUBSET [by : Conns, at : 0..MaxNow], until : Nat, seen : 0..MaxNow]]

\* The counter is the number of threads, within its limit, however they end
\* and whether or not they start (accept_loop, ConnGuard).
ConnsCounted == conns = Cardinality(Threads) /\ conns <= MaxConnections

\* However many requests of an address are under way at once, and in whatever
\* order their failures are recorded, at most MAX_FAILURES of the window that
\* lasts were answered 401, as long as there is room for every address that
\* failed (handle, steps 4 and 5; RateLimiter).  The time of a failure is taken
\* before the lock: for a window that ends before the newest answer this does
\* not hold, a failure recorded late finds those of its own window dropped.
FewRefusals ==
    Cardinality({p \in Addresses : told[p] # {}}) <= LimiterCap =>
        \A p \in Addresses : \A t \in 0..MaxNow :
            (\A f \in told[p] : f.at <= t) => Cardinality(InWindow(told[p], t)) <= MaxFailures

\* A phone that was paired stays paired: whatever run of the application ends
\* or fails at whatever step, each that serves compares with the token the
\* phone was given, unless the user deleted the file or the power cut lost it
\* (load_or_create_token).
PairingLasts ==
    app = "on" => phoneToken \in {NoToken, token} \cup revoked

\* A connection ends, however slow the phone, unless it waits for a shell to
\* take its input (DeadlineReader, accept_loop, Drop).
ConnectionsEnd ==
    \A c \in Conns : conn[c].stage \notin {"none", "closed"} ~> conn[c].stage \in {"none", "closed", "write"}
=============================================================================
